---------------------------- MODULE MCAudioEngine ----------------------------
(* The engine with one device besides the default one: a microphone with   *)
(* no output.                                                              *)
EXTENDS AudioEngine

CONSTANTS mic, MicInputs

MCDevices == {mic}
MCDeviceInputs == [d \in MCDevices |-> MicInputs]
MCDeviceOutputs == [d \in MCDevices |-> 0]

(* Bounds: observers, or another sample rate, come in only while the rest  *)
(* of the engine is as in a new one and no close has been refused.         *)
AsNew ==
    /\ engine.mNumOutputChannels = 2
    /\ engine.mVectorSize = 64
    /\ engine.mInputDevice = DefaultDevice
    /\ engine.mOutputDevice = DefaultDevice
    /\ refused = {}

Bounded == mCallbackObservers # <<>> \/ engine.mSampleRate # 44100 => AsNew

(* The steps the fairness is about change none of this, so it asks for no  *)
(* step that the bounds forbid.                                            *)
MCSpec == Init /\ [][Next /\ Bounded']_vars /\ Fairness
=============================================================================
