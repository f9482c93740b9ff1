-------------------------- MODULE AudioEngineProofs --------------------------
(***************************************************************************)
(* The engine for every set of devices, sizes, rates, stream handles and   *)
(* observers: that its two threads keep apart, whatever PortAudio answers, *)
(* and that the list of observers may change under the callback.           *)
(*                                                                         *)
(* The invariant is in two parts that share only cb.  ControlInv says what *)
(* the control thread may rely on at each of its places; ListInv says how  *)
(* far into the list the callback is.                                      *)
(***************************************************************************)
EXTENDS AudioEngine, TLAPS

(* Whose streams they are, and whose callback may be running.              *)
StreamsOK ==
    /\ NoLostStream
    /\ mStream \in streams => mStream \notin refused
    /\ pc = "setup" => mStream \notin active
    /\ pc = "terminate" => references = 0
    /\ caller \in active \cup {NoStream}
    /\ InCallback <=> caller # NoStream

(* What initStream() knows between its steps, and who called it.           *)
PlaceOK ==
    /\ pc = "open" => mStream = NoStream
    /\ pc \in {"open", "setup"} => afterInit \in {"start", "startStream"}
    /\ pc = "close" => afterInit # "idle"
    /\ pc = "stop" => afterInit \in {"idle", "start", "destroy"}
    /\ pc = "terminate" => afterInit = "destroy"
    /\ pc \in {"open", "setup", "start"} => ~engine.mIsRunning
    /\ pc = "close" /\ afterInit # "destroy" => ~engine.mIsRunning
    /\ pc = "idle" => afterInit = "idle"

(* What a stream was opened with, against the members that have been       *)
(* written since.                                                          *)
FramesOK ==
    mStream \in streams =>
        /\ opened \in Stream
        /\ IF pc = "setup" THEN opened.frames = engine.mVectorSize
           ELSE buffers.inFrames = opened.frames /\ buffers.outFrames = opened.frames

DevicesOK ==
    mStream \in streams /\ ~(pc \in {"stop", "close"} /\ afterInit \in {"start", "drop"}) =>
        /\ opened.inputDevice = engine.mInputDevice
        /\ opened.outputDevice = engine.mOutputDevice

EngineType ==
    [mNumInputChannels : Nat, mNumOutputChannels : Nat,
     mVectorSize : VectorSizes, mSampleRate : SampleRates,
     mInputDevice : Devices \cup {DefaultDevice},
     mOutputDevice : Devices \cup {DefaultDevice},
     mIsRunning : BOOLEAN]

BuffersType == [inputs : Nat \ {0}, outputs : Nat \ {0}, inFrames : Nat, outFrames : Nat]

ControlType ==
    /\ engine \in EngineType
    /\ mStream \in Handles \cup {NoStream, BadStream}
    /\ streams \subseteq Handles
    /\ opened \in Stream \cup {NoStream}
    /\ active \subseteq streams
    /\ refused \subseteq streams
    /\ buffers \in BuffersType
    /\ pc \in {"idle", "start", "stop", "close", "open", "setup", "startStream", "started",
               "terminate", "destroyed"}
    /\ afterInit \in {"idle", "start", "startStream", "drop", "destroy"}
    /\ references \in 0..2

ControlInv ==
    /\ ControlType
    /\ StreamsOK
    /\ PlaceOK
    /\ FramesOK
    /\ DevicesOK

ListType ==
    /\ mCallbackObservers \in Seq(Observers)
    /\ cb \in {"idle", "copyIn", "notify", "copyOut"}
    /\ visiting \in Observers \cup {NoObserver}
    /\ notified \subseteq Observers
    /\ subscribed \subseteq Observers
    /\ raced \in BOOLEAN

(* No observer is listed twice.                                            *)
Distinct ==
    \A i, j \in 1..Len(mCallbackObservers) :
        mCallbackObservers[i] = mCallbackObservers[j] => i = j

(* Who was there from the beginning still is.                              *)
Listed == cb \in {"copyIn", "notify"} => subscribed \subseteq Members(mCallbackObservers)

(* The callback stands at a node of the list, with nobody it still has to  *)
(* tell before that node.                                                  *)
Visited ==
    cb = "notify" =>
        /\ visiting \in Observers
        /\ ~raced => \E i \in 1..Len(mCallbackObservers) :
                        /\ mCallbackObservers[i] = visiting
                        /\ \A j \in 1..i - 1 :
                              mCallbackObservers[j] \notin subscribed \ notified

ListInv ==
    /\ ListType
    /\ Distinct
    /\ Listed
    /\ Visited
    /\ NobodyMissesAVector

IInv == ControlInv /\ ListInv

----------------------------------------------------------------------------
(* The control thread                                                      *)

(* No pointer that is not a handle is one.                                 *)
LEMMA NotHandles == NoStream \notin Handles /\ BadStream \notin Handles /\ BadStream # NoStream
BY StreamAssumption

(* The members of the engine that the calls write, one by one.             *)
LEMMA RunningMember ==
    ASSUME NEW e \in EngineType, NEW running \in BOOLEAN
    PROVE  [e EXCEPT !.mIsRunning = running] \in EngineType
BY DEF EngineType

LEMMA DeviceMembers ==
    ASSUME NEW e \in EngineType, NEW d \in Devices
    PROVE  /\ [e EXCEPT !.mInputDevice = d, !.mNumInputChannels = DeviceInputs[d]] \in EngineType
           /\ [e EXCEPT !.mOutputDevice = d, !.mNumOutputChannels = DeviceOutputs[d]] \in EngineType
<1>1. DeviceInputs[d] \in Nat /\ DeviceOutputs[d] \in Nat
      BY DeviceAssumption
<1>. QED BY <1>1 DEF EngineType

LEMMA RequestIsStream == engine \in EngineType => RequestedStream \in Stream
BY DEF EngineType, RequestedStream, Stream

LEMMA ControlInit == Init => ControlInv
<1> SUFFICES ASSUME Init
             PROVE  ControlInv
    OBVIOUS
<1>1. engine \in EngineType /\ buffers \in BuffersType
      BY AttributeAssumption DEF Init, EngineType, BuffersType, NoBuffers
<1>2. ControlType
      BY <1>1 DEF Init, ControlType
<1>. QED BY <1>2, NotHandles
         DEF Init, ControlInv, StreamsOK, PlaceOK, FramesOK, DevicesOK, NoLostStream, InCallback

LEMMA ListStepsKeepControl ==
    ASSUME ControlInv, UNCHANGED <<controlVars, caller, cb>>
    PROVE  ControlInv'
BY DEF ControlInv, ControlType, StreamsOK, PlaceOK, FramesOK, DevicesOK, NoLostStream,
       InCallback, controlVars, portVars

(* A call that has written a member of the engine other than mIsRunning,   *)
(* and goes on to stop or close if that was a device.                      *)
LEMMA SettersKeepControl ==
    ASSUME ControlInv, pc = "idle", engine' \in EngineType,
           UNCHANGED <<mStream, portVars, buffers, callbackVars, references>>,
           engine'.mIsRunning = engine.mIsRunning,
           \/ RestartIfRunning /\ UNCHANGED <<engine.mInputDevice, engine.mOutputDevice>>
           \/ UNCHANGED <<pc, afterInit, engine.mInputDevice, engine.mOutputDevice>>
           \/ DropStream
    PROVE  ControlInv'
<1>1. /\ afterInit = "idle"
      /\ \/ pc' = "idle" /\ afterInit' = "idle"
         \/ pc' = "stop" /\ afterInit' = "start" /\ engine.mIsRunning
         \/ pc' = "close" /\ afterInit' = "drop" /\ ~engine.mIsRunning /\ mStream # NoStream
      BY DEF ControlInv, PlaceOK, RestartIfRunning, DropStream, Go
<1>2. ControlType' /\ PlaceOK' /\ StreamsOK'
      BY <1>1 DEF ControlInv, ControlType, PlaceOK, StreamsOK, NoLostStream, InCallback,
                  portVars, callbackVars
<1>3. FramesOK'
      BY <1>1 DEF ControlInv, FramesOK, portVars
<1>4. DevicesOK'
  <2>1. CASE UNCHANGED <<engine.mInputDevice, engine.mOutputDevice>>
        BY <1>1, <2>1 DEF ControlInv, DevicesOK, portVars
  <2>2. CASE DropStream
    <3>1. CASE mStream = NoStream
          BY <3>1, NotHandles DEF DevicesOK, portVars, ControlInv, ControlType
    <3>2. CASE mStream # NoStream
          BY <2>2, <3>2, <1>1 DEF DropStream, RestartIfRunning, Go, DevicesOK
    <3>. QED BY <3>1, <3>2
  <2>. QED BY <2>1, <2>2
<1>. QED BY <1>2, <1>3, <1>4 DEF ControlInv

(* Messages and attributes; in each, what initStream() is called for.      *)
LEMMA CallsKeepControl ==
    ASSUME ControlInv, Call
    PROVE  ControlInv'
<1> USE DEF ControlInv
<1>1. ASSUME Start
      PROVE  ControlInv'
      BY <1>1, NotHandles
         DEF Start, Go, ControlType, StreamsOK, PlaceOK, FramesOK, DevicesOK, NoLostStream,
             InCallback, callbackVars, portVars
<1>2. ASSUME Stop
      PROVE  ControlInv'
      BY <1>2
         DEF Stop, Go, ControlType, StreamsOK, PlaceOK, FramesOK, DevicesOK, NoLostStream,
             InCallback, callbackVars, portVars
<1>3. ASSUME NEW n \in ChannelCounts, writeNumInputChannels(n) \/ writeNumOutputChannels(n)
      PROVE  ControlInv'
  <2>1. n \in Nat
        BY CountAssumption
  <2>2. /\ engine' \in EngineType
        /\ engine'.mIsRunning = engine.mIsRunning
        /\ UNCHANGED <<pc, afterInit, engine.mInputDevice, engine.mOutputDevice>>
        BY <1>3, <2>1 DEF writeNumInputChannels, writeNumOutputChannels, ControlType, EngineType
  <2>. QED BY <1>3, <2>2, SettersKeepControl
           DEF writeNumInputChannels, writeNumOutputChannels
<1>4. ASSUME NEW vs \in VectorSizes, setVectorSize(vs)
      PROVE  ControlInv'
  <2>1. /\ engine' \in EngineType
        /\ engine'.mIsRunning = engine.mIsRunning
        /\ UNCHANGED <<engine.mInputDevice, engine.mOutputDevice>>
        BY <1>4 DEF setVectorSize, ControlType, EngineType
  <2>. QED BY <1>4, <2>1, SettersKeepControl DEF setVectorSize
<1>5. ASSUME NEW sr \in SampleRates, setSampleRate(sr)
      PROVE  ControlInv'
  <2>1. /\ engine' \in EngineType
        /\ engine'.mIsRunning = engine.mIsRunning
        /\ UNCHANGED <<engine.mInputDevice, engine.mOutputDevice>>
        BY <1>5 DEF setSampleRate, ControlType, EngineType
  <2>. QED BY <1>5, <2>1, SettersKeepControl DEF setSampleRate
<1>6. ASSUME NEW d \in Devices, setInputDevice(d) \/ setOutputDevice(d)
      PROVE  ControlInv'
  <2>1. CASE setInputDevice(d)
    <3>1. engine' \in EngineType
      <4>1. engine \in EngineType
            BY DEF ControlType
      <4>2. engine' = [engine EXCEPT !.mInputDevice = d, !.mNumInputChannels = DeviceInputs[d]]
            BY <2>1 DEF setInputDevice
      <4>. QED BY <4>1, <4>2, DeviceMembers, Zenon
    <3>2. engine'.mIsRunning = engine.mIsRunning
          BY <2>1 DEF setInputDevice, ControlType, EngineType
    <3>. QED BY <2>1, <3>1, <3>2, SettersKeepControl DEF setInputDevice
  <2>2. CASE setOutputDevice(d)
    <3>1. engine' \in EngineType
      <4>1. engine \in EngineType
            BY DEF ControlType
      <4>2. engine' = [engine EXCEPT !.mOutputDevice = d, !.mNumOutputChannels = DeviceOutputs[d]]
            BY <2>2 DEF setOutputDevice
      <4>. QED BY <4>1, <4>2, DeviceMembers, Zenon
    <3>2. engine'.mIsRunning = engine.mIsRunning
          BY <2>2 DEF setOutputDevice, ControlType, EngineType
    <3>. QED BY <2>2, <3>1, <3>2, SettersKeepControl DEF setOutputDevice
  <2>. QED BY <1>6, <2>1, <2>2
<1>7. ASSUME NEW o \in Observers, addCallbackObserver(o) \/ removeCallbackObserver(o)
      PROVE  ControlInv'
      BY <1>7, ListStepsKeepControl
         DEF addCallbackObserver, removeCallbackObserver, callbackVars
<1>8. ASSUME release
      PROVE  ControlInv'
      BY <1>8
         DEF release, ControlType, StreamsOK, PlaceOK, FramesOK, DevicesOK, NoLostStream,
             InCallback, callbackVars, portVars
<1>9. ASSUME destroy
      PROVE  ControlInv'
      BY <1>9
         DEF destroy, Go, ControlType, StreamsOK, PlaceOK, FramesOK, DevicesOK, NoLostStream,
             InCallback, callbackVars, portVars
<1>. QED BY <1>1, <1>2, <1>3, <1>4, <1>5, <1>6, <1>7, <1>8, <1>9 DEF Call

(* Stop() returns, its stream stopped or not.                              *)
LEMMA StopKeepsControl ==
    ASSUME ControlInv, pc = "stop", StopReturns,
           UNCHANGED active \/ (caller # mStream /\ active' = active \ {mStream})
    PROVE  ControlInv'
<1>1. /\ engine' \in EngineType /\ ~engine'.mIsRunning
      /\ UNCHANGED <<engine.mVectorSize, engine.mInputDevice, engine.mOutputDevice>>
      BY RunningMember DEF StopReturns, ControlInv, ControlType, EngineType
<1>2. /\ \/ pc' = "idle" /\ afterInit = "idle"
         \/ pc' = "close" /\ afterInit \in {"start", "destroy"}
      /\ UNCHANGED <<mStream, streams, opened, refused, buffers, afterInit, caller, cb, references>>
      BY DEF StopReturns, AfterStop, Go, ControlInv, PlaceOK, callbackVars
<1>3. ControlType' /\ PlaceOK'
      BY <1>1, <1>2 DEF ControlInv, ControlType, PlaceOK
<1>4. StreamsOK'
      BY <1>2 DEF ControlInv, StreamsOK, NoLostStream, InCallback
<1>5. FramesOK' /\ DevicesOK'
      BY <1>1, <1>2 DEF ControlInv, FramesOK, DevicesOK
<1>. QED BY <1>3, <1>4, <1>5 DEF ControlInv

(* Pa_CloseStream() has returned; the stream is gone, or remembered as     *)
(* one that PortAudio refused to close.                                    *)
LEMMA CloseKeepsControl ==
    ASSUME ControlInv, pc = "close", CloseReturns,
           streams' \subseteq streams, streams' \subseteq refused',
           active' = active \cap streams',
           refused' \subseteq streams',
           caller \in active' \cup {NoStream}, opened' = NoStream \/ UNCHANGED opened
    PROVE  ControlInv'
<1>1. /\ mStream' = NoStream /\ mStream' \notin streams' /\ mStream' \notin Handles
      /\ UNCHANGED <<engine, caller, cb, references>>
      BY NotHandles DEF CloseReturns, ControlInv, ControlType, callbackVars
<1>2. \/ pc' = "destroyed" /\ afterInit' = "destroy"
      \/ pc' = "idle" /\ afterInit' = "idle"
      \/ /\ pc' = "open" /\ afterInit' = afterInit /\ afterInit \in {"start", "startStream"}
         /\ ~engine.mIsRunning
      BY DEF CloseReturns, Go, ControlInv, ControlType, PlaceOK
<1>3. buffers' \in BuffersType
      BY DEF CloseReturns, ControlInv, ControlType, BuffersType, NoBuffers
<1>4. ControlType' /\ PlaceOK'
      BY <1>1, <1>2, <1>3 DEF ControlInv, ControlType, PlaceOK
<1>5. StreamsOK' /\ FramesOK' /\ DevicesOK'
      BY <1>1, <1>2 DEF ControlInv, StreamsOK, FramesOK, DevicesOK, NoLostStream, InCallback
<1>. QED BY <1>4, <1>5 DEF ControlInv

(* The steps inside Stop(), initStream(), Start() and the destructor.      *)
LEMMA InsideKeepsControl ==
    ASSUME ControlInv, Inside
    PROVE  ControlInv'
<1>1. CASE NothingToStop \/ StreamStopped \/ StopRefused
      BY <1>1, StopKeepsControl DEF NothingToStop, StreamStopped, StopRefused
<1>2. CASE NothingToClose \/ StreamClosed \/ CloseRefused
  <2>1. /\ pc = "close" /\ CloseReturns
        /\ streams \subseteq {mStream} \cup refused
        /\ active \subseteq streams /\ refused \subseteq streams /\ streams \subseteq Handles
        /\ mStream \in streams => mStream \notin refused
        /\ caller \in active \cup {NoStream}
        BY <1>2 DEF NothingToClose, StreamClosed, CloseRefused, ControlInv, ControlType,
                    StreamsOK, NoLostStream
  <2>2. CASE NothingToClose
        BY <2>1, <2>2, CloseKeepsControl, NotHandles DEF NothingToClose, portVars
  <2>3. CASE StreamClosed
        BY <2>1, <2>3, CloseKeepsControl DEF StreamClosed
  <2>4. CASE CloseRefused
        BY <2>1, <2>4, CloseKeepsControl DEF CloseRefused
  <2>. QED BY <1>2, <2>2, <2>3, <2>4
<1>3. ASSUME OpenStream
      PROVE  ControlInv'
  <2>1. /\ pc = "open" /\ pc' = "setup" /\ mStream = NoStream /\ ~engine.mIsRunning
        /\ afterInit \in {"start", "startStream"}
        /\ UNCHANGED <<engine, active, refused, buffers, afterInit, caller, cb, references>>
        BY <1>3 DEF OpenStream, Go, ControlInv, PlaceOK, callbackVars
  <2>2. CASE \E h \in Handles \ streams :
                mStream' = h /\ streams' = streams \cup {h} /\ opened' = RequestedStream
    <3>1. PICK h \in Handles \ streams :
             mStream' = h /\ streams' = streams \cup {h} /\ opened' = RequestedStream
          BY <2>2
    <3>2. /\ opened' \in Stream /\ opened'.frames = engine.mVectorSize
          /\ opened'.inputDevice = engine.mInputDevice
          /\ opened'.outputDevice = engine.mOutputDevice
          BY <3>1, RequestIsStream DEF ControlInv, ControlType, RequestedStream
    <3>3. ControlType' /\ PlaceOK'
          BY <2>1, <3>1, <3>2 DEF ControlInv, ControlType, PlaceOK
    <3>4. StreamsOK'
          BY <2>1, <3>1, NotHandles
             DEF ControlInv, ControlType, StreamsOK, NoLostStream, InCallback
    <3>5. FramesOK' /\ DevicesOK'
          BY <2>1, <3>2 DEF FramesOK, DevicesOK
    <3>. QED BY <3>3, <3>4, <3>5 DEF ControlInv
  <2>3. CASE mStream' \in {NoStream, BadStream} /\ UNCHANGED <<streams, opened>>
    <3>1. mStream' \notin streams' /\ mStream' \notin Handles /\ mStream \notin Handles
          BY <2>1, <2>3, NotHandles DEF ControlInv, ControlType
    <3>2. ControlType' /\ PlaceOK'
          BY <2>1, <2>3 DEF ControlInv, ControlType, PlaceOK
    <3>3. StreamsOK' /\ FramesOK' /\ DevicesOK'
          BY <2>1, <2>3, <3>1
             DEF ControlInv, ControlType, StreamsOK, FramesOK, DevicesOK, NoLostStream, InCallback
    <3>. QED BY <3>2, <3>3 DEF ControlInv
  <2>. QED BY <1>3, <2>2, <2>3 DEF OpenStream
<1>4. ASSUME SetupBuffers
      PROVE  ControlInv'
  <2>1. /\ buffers' \in BuffersType
        /\ buffers'.inFrames = engine.mVectorSize /\ buffers'.outFrames = engine.mVectorSize
    <3>1. /\ engine.mNumInputChannels \in Nat /\ engine.mNumOutputChannels \in Nat
          /\ engine.mVectorSize \in Nat
      <4>1. engine \in EngineType
            BY DEF ControlInv, ControlType
      <4>2. /\ engine.mNumInputChannels \in Nat /\ engine.mNumOutputChannels \in Nat
            /\ engine.mVectorSize \in VectorSizes
            BY <4>1 DEF EngineType
      <4>. QED BY <4>2, CountAssumption
    <3>. QED BY <1>4, <3>1 DEF SetupBuffers, BuffersType
  <2>2. /\ pc = "setup" /\ pc' = afterInit /\ afterInit \in {"start", "startStream"}
        /\ ~engine.mIsRunning
        /\ UNCHANGED <<engine, mStream, portVars, afterInit, caller, cb, references>>
        BY <1>4 DEF SetupBuffers, Go, ControlInv, PlaceOK, callbackVars
  <2>3. ControlType' /\ PlaceOK'
        BY <2>1, <2>2 DEF ControlInv, ControlType, PlaceOK, portVars
  <2>4. StreamsOK' /\ FramesOK' /\ DevicesOK'
        BY <2>1, <2>2
           DEF ControlInv, StreamsOK, FramesOK, DevicesOK, NoLostStream, InCallback, portVars
  <2>. QED BY <2>3, <2>4 DEF ControlInv
<1>5. ASSUME StartStream
      PROVE  ControlInv'
      BY <1>5
         DEF StartStream, Go, ControlInv, ControlType, StreamsOK, PlaceOK, FramesOK, DevicesOK,
             NoLostStream, InCallback, callbackVars
<1>6. ASSUME Started
      PROVE  ControlInv'
  <2>1. /\ engine' \in EngineType
        /\ UNCHANGED <<engine.mVectorSize, engine.mInputDevice, engine.mOutputDevice>>
        BY <1>6, RunningMember DEF Started, ControlInv, ControlType, EngineType
  <2>. QED BY <1>6, <2>1
           DEF Started, Go, ControlInv, ControlType, StreamsOK, PlaceOK, FramesOK, DevicesOK,
               NoLostStream, InCallback, callbackVars, portVars
<1>7. ASSUME pc = "start" /\ Start
      PROVE  ControlInv'
      BY <1>7, NotHandles
         DEF Start, Go, ControlInv, ControlType, StreamsOK, PlaceOK, FramesOK, DevicesOK,
             NoLostStream, InCallback, callbackVars, portVars
<1>8. ASSUME Terminated \/ TerminateFailed
      PROVE  ControlInv'
  <2>1. /\ pc = "terminate" /\ afterInit = "destroy" /\ references = 0
        /\ pc' \in {"stop", "close"}
        /\ UNCHANGED <<engine, mStream, buffers, afterInit, caller, cb, references>>
        BY <1>8 DEF Terminated, TerminateFailed, TerminateReturns, Go, ControlInv, PlaceOK,
                    StreamsOK, callbackVars
  <2>2. CASE Terminated
        BY <2>1, <2>2
           DEF Terminated, ControlInv, ControlType, StreamsOK, PlaceOK, FramesOK, DevicesOK,
               NoLostStream, InCallback
  <2>3. CASE TerminateFailed
        BY <2>1, <2>3
           DEF TerminateFailed, ControlInv, ControlType, StreamsOK, PlaceOK, FramesOK, DevicesOK,
               NoLostStream, InCallback, portVars
  <2>. QED BY <1>8, <2>2, <2>3
<1>. QED BY <1>1, <1>2, <1>3, <1>4, <1>5, <1>6, <1>7, <1>8 DEF Inside, Answer, Refusal, Step

(* PortAudio's thread enters the callback only for a stream that runs.     *)
LEMMA CallbackKeepsControl ==
    ASSUME ControlInv, Callback
    PROVE  ControlInv'
<1>1. /\ UNCHANGED controlVars
      /\ caller' \in active \cup {NoStream}
      /\ (cb' # "idle") <=> (caller' # NoStream)
      BY NotHandles
         DEF Callback, CallbackBegin, CopyIn, Notify, CopyOut, ControlInv, ControlType,
             StreamsOK, InCallback
<1>. QED BY <1>1
         DEF ControlInv, ControlType, StreamsOK, PlaceOK, FramesOK, DevicesOK, NoLostStream,
             InCallback, controlVars, portVars

----------------------------------------------------------------------------
(* The list of observers                                                   *)

LEMMA ListInit == Init => ListInv
<1> SUFFICES ASSUME Init
             PROVE  ListInv
    OBVIOUS
<1>1. /\ mCallbackObservers = <<>>
      /\ cb = "idle" /\ visiting = NoObserver /\ notified = {} /\ subscribed = {} /\ raced = FALSE
      BY DEF Init
<1>2. mCallbackObservers \in Seq(Observers)
      BY <1>1
<1>3. ListType /\ Listed /\ Visited /\ NobodyMissesAVector
      BY <1>1, <1>2, Zenon DEF ListType, Listed, Visited, NobodyMissesAVector
<1>4. Distinct
      BY <1>1 DEF Distinct
<1>. QED BY <1>3, <1>4 DEF ListInv

LEMMA ControlStepsKeepList ==
    ASSUME ListInv, UNCHANGED <<mCallbackObservers, callbackVars>>
    PROVE  ListInv'
BY DEF ListInv, ListType, Distinct, Listed, Visited, NobodyMissesAVector, Members, callbackVars

(* The node of a member is the only place it has in the list.              *)
LEMMA NodeOfMember ==
    ASSUME ListType, Distinct, NEW o \in Members(mCallbackObservers)
    PROVE  /\ NodeOf(o) \in 1..Len(mCallbackObservers)
           /\ mCallbackObservers[NodeOf(o)] = o
           /\ \A i \in 1..Len(mCallbackObservers) : mCallbackObservers[i] = o => i = NodeOf(o)
<1>1. \E i \in 1..Len(mCallbackObservers) : mCallbackObservers[i] = o
      BY DEF Members
<1>2. NodeOf(o) \in 1..Len(mCallbackObservers) /\ mCallbackObservers[NodeOf(o)] = o
      BY <1>1 DEF NodeOf
<1>. QED BY <1>2 DEF Distinct

(* What leaving makes of the list: later nodes move up by one, nobody else *)
(* goes.                                                                   *)
LEMMA WithoutNode ==
    ASSUME ListType, Distinct, NEW o \in Members(mCallbackObservers)
    PROVE  /\ Without(o) \in Seq(Observers)
           /\ Len(Without(o)) = Len(mCallbackObservers) - 1
           /\ \A i \in 1..Len(Without(o)) :
                 Without(o)[i] = IF i < NodeOf(o) THEN mCallbackObservers[i]
                                 ELSE mCallbackObservers[i + 1]
<1> DEFINE n == Len(mCallbackObservers) - 1
<1>1. NodeOf(o) \in 1..Len(mCallbackObservers)
      BY NodeOfMember
<1>2. n \in Nat
      BY <1>1 DEF ListType
<1>3. \A i \in 1..n : (IF i < NodeOf(o) THEN mCallbackObservers[i] ELSE mCallbackObservers[i + 1])
                          \in Observers
      BY <1>1 DEF ListType
<1>4. Without(o) \in [1..n -> Observers]
      BY <1>3 DEF Without
<1>5. Without(o) \in Seq(Observers) /\ Len(Without(o)) = n
      BY <1>2, <1>4
<1>. QED BY <1>5, <1>2 DEF Without

LEMMA AddKeepsList ==
    ASSUME ListInv, NEW o \in Observers, addCallbackObserver(o)
    PROVE  ListInv'
<1>1. /\ mCallbackObservers \in Seq(Observers)
      /\ mCallbackObservers' = Append(mCallbackObservers, o)
      /\ o \notin Members(mCallbackObservers)
      /\ UNCHANGED <<cb, visiting, notified, subscribed, raced>>
      BY DEF ListInv, ListType, addCallbackObserver, callbackVars
<1>2. /\ Len(mCallbackObservers') = Len(mCallbackObservers) + 1
      /\ \A i \in 1..Len(mCallbackObservers) : mCallbackObservers'[i] = mCallbackObservers[i]
      /\ mCallbackObservers'[Len(mCallbackObservers) + 1] = o
      /\ mCallbackObservers' \in Seq(Observers)
      /\ Len(mCallbackObservers) \in Nat
      BY <1>1
<1>3. ListType' /\ NobodyMissesAVector'
      BY <1>1, <1>2 DEF ListInv, ListType, NobodyMissesAVector
<1>4. Distinct'
      BY <1>1, <1>2 DEF ListInv, Distinct, Members
<1>5. Listed'
      BY <1>1, <1>2 DEF ListInv, Listed, Members
<1>6. Visited'
      BY <1>1, <1>2 DEF ListInv, Visited
<1>. QED BY <1>3, <1>4, <1>5, <1>6 DEF ListInv

LEMMA RemoveKeepsList ==
    ASSUME ListInv, NEW o \in Observers, removeCallbackObserver(o)
    PROVE  ListInv'
<1> DEFINE list == mCallbackObservers
           k == NodeOf(o)
<1>1. /\ list \in Seq(Observers) /\ o \in Members(list)
      /\ list' = Without(o)
      /\ subscribed' = subscribed \ {o}
      /\ raced' = (raced \/ visiting = o)
      /\ UNCHANGED <<cb, visiting, notified>>
      BY DEF ListInv, ListType, removeCallbackObserver
<1>2. /\ k \in 1..Len(list) /\ list[k] = o
      /\ \A i \in 1..Len(list) : list[i] = o => i = k
      BY <1>1, NodeOfMember DEF ListInv
<1>3. /\ list' \in Seq(Observers)
      /\ Len(list') = Len(list) - 1
      /\ \A i \in 1..Len(list') : list'[i] = IF i < k THEN list[i] ELSE list[i + 1]
      BY <1>1, WithoutNode DEF ListInv
<1>4. Len(list) \in Nat
      BY <1>1
<1> HIDE DEF list, k
<1>5. ListType' /\ NobodyMissesAVector'
      BY <1>1, <1>3 DEF ListInv, ListType, NobodyMissesAVector, list
<1>6. Distinct'
      BY <1>2, <1>3, <1>4 DEF ListInv, Distinct, list
<1>7. Listed'
  <2>1. ASSUME NEW x \in Members(list), x # o
        PROVE  x \in Members(list')
    <3>1. PICK m \in 1..Len(list) : list[m] = x
          BY <2>1 DEF Members
    <3>2. m # k
          BY <3>1, <2>1, <1>2
    <3>3. CASE m < k
          BY <3>1, <3>3, <1>2, <1>3, <1>4 DEF Members
    <3>4. CASE m > k
      <4>1. m - 1 \in 1..Len(list') /\ list'[m - 1] = list[m]
            BY <3>4, <1>2, <1>3, <1>4
      <4>. QED BY <4>1, <3>1 DEF Members
    <3>. QED BY <3>2, <3>3, <3>4, <1>2
  <2>. QED BY <2>1, <1>1 DEF ListInv, Listed, list
<1>8. Visited'
  <2>1. SUFFICES ASSUME cb = "notify", ~raced, visiting # o
                 PROVE  \E i \in 1..Len(list') :
                          /\ list'[i] = visiting
                          /\ \A j \in 1..i - 1 : list'[j] \notin subscribed' \ notified
        BY <1>1 DEF ListInv, Visited, list
  <2>2. PICK i \in 1..Len(list) :
          /\ list[i] = visiting
          /\ \A j \in 1..i - 1 : list[j] \notin subscribed \ notified
        BY <2>1 DEF ListInv, Visited, list
  <2>3. i # k
        BY <2>1, <2>2, <1>2
  <2>4. CASE i < k
    <3>1. i \in 1..Len(list') /\ list'[i] = visiting
          BY <2>2, <2>4, <1>2, <1>3, <1>4
    <3>2. \A j \in 1..i - 1 : list'[j] = list[j]
          BY <2>2, <2>4, <1>2, <1>3, <1>4
    <3>. QED BY <3>1, <3>2, <2>2, <1>1
  <2>5. CASE i > k
    <3>1. i - 1 \in 1..Len(list') /\ list'[i - 1] = visiting
          BY <2>2, <2>5, <1>2, <1>3, <1>4
    <3>2. ASSUME NEW j \in 1..(i - 1) - 1
          PROVE  \E m \in 1..i - 1 : list'[j] = list[m]
      <4>1. CASE j < k
            BY <4>1, <2>2, <2>5, <1>2, <1>3, <1>4, SMTT(60)
      <4>2. CASE j >= k
        <5>1. j + 1 \in 1..i - 1 /\ list'[j] = list[j + 1]
              BY <4>2, <2>2, <2>5, <1>2, <1>3, <1>4
        <5>. QED BY <5>1
      <4>. QED BY <4>1, <4>2, <1>2
    <3>. QED BY <3>1, <3>2, <2>2, <1>1
  <2>. QED BY <2>3, <2>4, <2>5, <1>2
<1>. QED BY <1>5, <1>6, <1>7, <1>8 DEF ListInv

(* The callback: it is at the head, then at each next node, then done.     *)
LEMMA CallbackKeepsList ==
    ASSUME ListInv, Callback
    PROVE  ListInv'
<1>1. ASSUME CallbackBegin
      PROVE  ListInv'
  <2>1. /\ cb' = "copyIn" /\ subscribed' = Members(mCallbackObservers)
        /\ UNCHANGED <<mCallbackObservers, visiting, notified, raced>>
        BY <1>1 DEF CallbackBegin
  <2>2. Members(mCallbackObservers) \subseteq Observers
        BY DEF ListInv, ListType, Members
  <2>. QED BY <2>1, <2>2
           DEF ListInv, ListType, Distinct, Listed, Visited, NobodyMissesAVector, Members
<1>2. ASSUME CopyIn
      PROVE  ListInv'
  <2>1. /\ cb = "copyIn"
        /\ UNCHANGED <<mCallbackObservers, notified, subscribed, raced>>
        BY <1>2 DEF CopyIn
  <2>2. Distinct'
        BY <2>1 DEF ListInv, Distinct
  <2>3. CASE mCallbackObservers = <<>>
    <3>1. cb' = "copyOut" /\ visiting' = visiting
          BY <1>2, <2>3 DEF CopyIn
    <3>2. subscribed = {}
          BY <2>1, <2>3 DEF ListInv, Listed, Members
    <3>. QED BY <2>1, <2>2, <3>1, <3>2
             DEF ListInv, ListType, Listed, Visited, NobodyMissesAVector
  <2>4. CASE mCallbackObservers # <<>>
    <3>1. cb' = "notify" /\ visiting' = Head(mCallbackObservers)
          BY <1>2, <2>4 DEF CopyIn
    <3>2. /\ mCallbackObservers \in Seq(Observers)
          /\ 1 \in 1..Len(mCallbackObservers) /\ mCallbackObservers[1] = visiting'
          /\ visiting' \in Observers
          BY <2>4, <3>1 DEF ListInv, ListType
    <3>3. ListType' /\ Listed' /\ NobodyMissesAVector'
          BY <2>1, <3>1, <3>2 DEF ListInv, ListType, Listed, NobodyMissesAVector, Members
    <3>4. Visited'
          BY <2>1, <3>1, <3>2 DEF Visited
    <3>. QED BY <2>2, <3>3, <3>4 DEF ListInv
  <2>. QED BY <2>3, <2>4
<1>3. ASSUME Notify
      PROVE  ListInv'
  <2>1. /\ cb = "notify" /\ notified' = notified \cup {visiting}
        /\ visiting' \in NextAfter(visiting)
        /\ cb' = IF visiting' = NoObserver THEN "copyOut" ELSE "notify"
        /\ UNCHANGED <<mCallbackObservers, subscribed, raced>>
        BY <1>3 DEF Notify
  <2>2. /\ mCallbackObservers \in Seq(Observers) /\ visiting \in Observers
        /\ subscribed \subseteq Members(mCallbackObservers)
        /\ Members(mCallbackObservers) \subseteq Observers
        BY <2>1 DEF ListInv, ListType, Visited, Listed, Members
  <2>3. Distinct' /\ Listed'
        BY <2>1 DEF ListInv, Distinct, Listed, Members
  <2>4. ASSUME visiting \in Members(mCallbackObservers)
        PROVE  /\ NodeOf(visiting) \in 1..Len(mCallbackObservers)
               /\ IF NodeOf(visiting) < Len(mCallbackObservers)
                  THEN visiting' = mCallbackObservers[NodeOf(visiting) + 1]
                  ELSE visiting' = NoObserver
        BY <2>1, <2>4, NodeOfMember DEF ListInv, NextAfter
  <2>5. visiting' \in Observers \cup {NoObserver}
    <3>1. CASE visiting \in Members(mCallbackObservers)
          BY <3>1, <2>4, <2>2
    <3>2. CASE visiting \notin Members(mCallbackObservers)
          BY <3>2, <2>1, <2>2 DEF NextAfter
    <3>. QED BY <3>1, <3>2
  <2>6. ListType'
        BY <2>1, <2>2, <2>5 DEF ListInv, ListType
  <2>7. ASSUME ~raced
        PROVE  /\ visiting \in Members(mCallbackObservers)
               /\ \A j \in 1..NodeOf(visiting) :
                     mCallbackObservers[j] \notin subscribed' \ notified'
    <3>1. PICK i \in 1..Len(mCallbackObservers) :
            /\ mCallbackObservers[i] = visiting
            /\ \A j \in 1..i - 1 : mCallbackObservers[j] \notin subscribed \ notified
          BY <2>1, <2>7 DEF ListInv, Visited
    <3>2. visiting \in Members(mCallbackObservers)
          BY <3>1 DEF Members
    <3>3. NodeOf(visiting) = i
          BY <3>1, <3>2, NodeOfMember DEF ListInv
    <3>4. \A j \in 1..i : mCallbackObservers[j] \notin subscribed' \ notified'
          BY <3>1, <2>1
    <3>. QED BY <3>2, <3>3, <3>4
  <2>8. Visited'
    <3>1. SUFFICES ASSUME visiting' # NoObserver, ~raced
                   PROVE  \E i \in 1..Len(mCallbackObservers) :
                            /\ mCallbackObservers[i] = visiting'
                            /\ \A j \in 1..i - 1 :
                                  mCallbackObservers[j] \notin subscribed' \ notified'
          BY <2>1, <2>5 DEF Visited
    <3>2. /\ NodeOf(visiting) + 1 \in 1..Len(mCallbackObservers)
          /\ mCallbackObservers[NodeOf(visiting) + 1] = visiting'
          /\ (NodeOf(visiting) + 1) - 1 = NodeOf(visiting)
          BY <3>1, <2>4, <2>7, <2>2
    <3>. QED BY <3>1, <3>2, <2>7
  <2>9. NobodyMissesAVector'
    <3>1. SUFFICES ASSUME visiting' = NoObserver, ~raced
                   PROVE  subscribed' \subseteq notified'
          BY <2>1 DEF NobodyMissesAVector
    <3>2. NodeOf(visiting) = Len(mCallbackObservers)
          BY <3>1, <2>2, <2>4, <2>7, ObserverAssumption
    <3>. QED BY <3>1, <3>2, <2>7, <2>1, <2>2 DEF Members
  <2>. QED BY <2>3, <2>6, <2>8, <2>9 DEF ListInv
<1>4. ASSUME CopyOut
      PROVE  ListInv'
      BY <1>4 DEF CopyOut, ListInv, ListType, Distinct, Listed, Visited, NobodyMissesAVector,
                  Members
<1>. QED BY <1>1, <1>2, <1>3, <1>4 DEF Callback

----------------------------------------------------------------------------
(* Calls come one at a time, and touch neither a stream nor a buffer.      *)
LEMMA CallsOnlyWrite ==
    ASSUME Call
    PROVE  /\ pc = "idle"
           /\ UNCHANGED <<portVars, buffers, caller, cb>>
           /\ \/ UNCHANGED <<mCallbackObservers, callbackVars>>
              \/ \E o \in Observers : addCallbackObserver(o) \/ removeCallbackObserver(o)
<1>1. CASE pc = "idle" /\ Start
      BY <1>1 DEF Start, callbackVars
<1>2. CASE Stop \/ release \/ destroy
      BY <1>2 DEF Stop, release, destroy, callbackVars
<1>3. CASE \E n \in ChannelCounts : writeNumInputChannels(n) \/ writeNumOutputChannels(n)
      BY <1>3 DEF writeNumInputChannels, writeNumOutputChannels, callbackVars
<1>4. CASE \E vs \in VectorSizes : setVectorSize(vs)
      BY <1>4 DEF setVectorSize, callbackVars
<1>5. CASE \E sr \in SampleRates : setSampleRate(sr)
      BY <1>5 DEF setSampleRate, callbackVars
<1>6. CASE \E d \in Devices : setInputDevice(d) \/ setOutputDevice(d)
      BY <1>6 DEF setInputDevice, setOutputDevice, callbackVars
<1>7. CASE \E o \in Observers : addCallbackObserver(o) \/ removeCallbackObserver(o)
      BY <1>7 DEF addCallbackObserver, removeCallbackObserver, controlVars, callbackVars
<1>. QED BY <1>1, <1>2, <1>3, <1>4, <1>5, <1>6, <1>7 DEF Call

(* Both parts of the invariant, in every step.                             *)
LEMMA InvariantInit == Init => IInv
BY ControlInit, ListInit DEF IInv

LEMMA InvariantStep == IInv /\ [Next]_vars => IInv'
<1> SUFFICES ASSUME IInv, [Next]_vars
             PROVE  IInv'
    OBVIOUS
<1>1. ASSUME Call
      PROVE  IInv'
  <2>1. ControlInv'
        BY <1>1, CallsKeepControl DEF IInv
  <2>2. CASE \E o \in Observers : addCallbackObserver(o) \/ removeCallbackObserver(o)
        BY <2>2, <2>1, AddKeepsList, RemoveKeepsList DEF IInv
  <2>3. CASE UNCHANGED <<mCallbackObservers, callbackVars>>
        BY <2>3, <2>1, ControlStepsKeepList DEF IInv
  <2>. QED BY <1>1, <2>2, <2>3, CallsOnlyWrite
<1>2. ASSUME Inside
      PROVE  IInv'
  <2>1. UNCHANGED <<mCallbackObservers, callbackVars>>
        BY <1>2
           DEF Inside, Answer, Refusal, Step, NothingToStop, StreamStopped, StopRefused,
               StopReturns, NothingToClose, StreamClosed, CloseRefused, CloseReturns, OpenStream,
               SetupBuffers, StartStream, Started, Start, Terminated, TerminateFailed,
               TerminateReturns
  <2>. QED BY <1>2, <2>1, InsideKeepsControl, ControlStepsKeepList DEF IInv
<1>3. ASSUME Callback
      PROVE  IInv'
      BY <1>3, CallbackKeepsControl, CallbackKeepsList DEF IInv
<1>4. ASSUME UNCHANGED vars
      PROVE  IInv'
      BY <1>4, ListStepsKeepControl, ControlStepsKeepList
         DEF IInv, vars, controlVars, callbackVars
<1>. QED BY <1>1, <1>2, <1>3, <1>4 DEF Next

LEMMA Invariant == Spec => []IInv
BY InvariantInit, InvariantStep, PTL DEF Spec

----------------------------------------------------------------------------
(* The members of the engine, of its stream and of the callback keep their *)
(* types.                                                                  *)
THEOREM TypeCorrect == Spec => []TypeOK
<1>1. IInv => TypeOK
      BY DEF IInv, ControlInv, ControlType, StreamsOK, EngineType, BuffersType, ListInv,
             ListType, TypeOK
<1>. QED BY <1>1, Invariant, PTL

(* A callback that is not of a stream whose close was refused is of the    *)
(* stream in mStream.                                                      *)
LEMMA CallerIsKnown ==
    ASSUME ControlInv, InCallback, caller \notin refused
    PROVE  caller = mStream /\ mStream \in active /\ mStream \in streams /\ pc # "setup"
BY DEF ControlInv, ControlType, StreamsOK, NoLostStream

(* Under the callback of any stream that PortAudio has not refused to      *)
(* close, the buffers stay and the stream runs: initStream(), Stop(), the  *)
(* device setters and the destructor all wait for the callback, or fail    *)
(* without touching what it uses.                                          *)
THEOREM StableBuffers == Spec => BuffersStableInCallback
<1>1. ASSUME IInv, [Next]_vars, InCallback, caller \notin refused'
      PROVE  buffers' = buffers /\ caller \in active'
  <2>1. /\ caller \in active /\ caller # NoStream /\ caller \in streams
        /\ streams \subseteq {mStream} \cup refused
        BY <1>1 DEF IInv, ControlInv, ControlType, StreamsOK, NoLostStream
  <2>2. CASE UNCHANGED <<buffers, active>>
        BY <2>1, <2>2
  <2>3. CASE StreamStopped
        BY <2>1, <2>3 DEF StreamStopped, StopReturns
  <2>4. CASE NothingToClose
        BY <1>1, <2>1, <2>4, NotHandles
           DEF NothingToClose, portVars, IInv, ControlInv, ControlType
  <2>5. CASE StreamClosed
        BY <1>1, <2>1, <2>5 DEF StreamClosed
  <2>6. CASE CloseRefused
        BY <1>1, <2>1, <2>6 DEF CloseRefused
  <2>7. CASE SetupBuffers
        BY <1>1, <2>7, CallerIsKnown DEF SetupBuffers, portVars, IInv
  <2>8. CASE StartStream
        BY <2>1, <2>8 DEF StartStream
  <2>9. CASE Terminated
        BY <2>1, <2>9 DEF Terminated
  <2>10. CASE Call
        BY <2>2, <2>10, CallsOnlyWrite DEF portVars
  <2>11. CASE NothingToStop \/ StopRefused \/ OpenStream \/ Started \/ (pc = "start" /\ Start)
              \/ TerminateFailed
        BY <2>2, <2>11
           DEF NothingToStop, StopRefused, StopReturns, OpenStream, Started, Start,
               TerminateFailed, TerminateReturns, portVars
  <2>12. CASE Callback
        BY <2>2, <2>12
           DEF Callback, CallbackBegin, CopyIn, Notify, CopyOut, controlVars, portVars
  <2>13. CASE UNCHANGED vars
        BY <2>2, <2>13 DEF vars, portVars
  <2>. QED BY <1>1, <2>3, <2>4, <2>5, <2>6, <2>7, <2>8, <2>9, <2>10, <2>11, <2>12, <2>13
           DEF Next, Inside, Answer, Refusal, Step
<1>. QED BY <1>1, Invariant, PTL DEF Spec, BuffersStableInCallback

(* However often the vector size is changed, and whatever fails, a         *)
(* callback finds buffers that hold the frames it is called with.          *)
THEOREM LargeEnoughBuffers == Spec => []BuffersHoldAVector
<1>1. IInv => BuffersHoldAVector
      BY CallerIsKnown DEF IInv, ControlInv, FramesOK, BuffersHoldAVector
<1>. QED BY <1>1, Invariant, PTL

(* PortAudio holds no stream that the engine has forgotten, but those it   *)
(* refused to close; and mStream is not a stream that was closed.          *)
THEOREM AllStreamsKept == Spec => []NoLostStream
<1>1. IInv => NoLostStream
      BY DEF IInv, ControlInv, StreamsOK
<1>. QED BY <1>1, Invariant, PTL

(* A stream that outlives a call is of the devices selected in it.         *)
THEOREM StreamOfTheDevices == Spec => []StreamFitsDevices
<1>1. IInv => StreamFitsDevices
      BY DEF IInv, ControlInv, DevicesOK, StreamFitsDevices
<1>. QED BY <1>1, Invariant, PTL

(* Observers may come and go under the callback: those who stay are told.  *)
THEOREM EveryoneIsTold == Spec => []NobodyMissesAVector
<1>1. IInv => NobodyMissesAVector
      BY DEF IInv, ListInv
<1>. QED BY <1>1, Invariant, PTL

----------------------------------------------------------------------------
(* How many steps a call may still take at most: initStream() is gone      *)
(* through once for the caller that stops a running engine, and once more  *)
(* if the stream then failed to open.                                      *)
StepsLeft(place, after) ==
    LET again == IF after = "start" THEN 4 ELSE 0
    IN  CASE place \in {"idle", "destroyed"} -> 0
          [] place = "started" -> 1
          [] place = "startStream" -> 2
          [] place = "setup" -> 3 + again
          [] place = "open" -> 4 + again
          [] place = "close" -> 5 + again
          [] place = "start" -> 6
          [] place = "stop" -> 10
          [] place = "terminate" -> 11

LEMMA InsideGoesForward ==
    ASSUME ControlInv, Inside
    PROVE  StepsLeft(pc', afterInit') < StepsLeft(pc, afterInit)
<1>1. PlaceOK /\ afterInit \in {"idle", "start", "startStream", "drop", "destroy"}
      BY DEF ControlInv, ControlType
<1>2. CASE NothingToStop \/ StreamStopped \/ StopRefused
      BY <1>1, <1>2
         DEF NothingToStop, StreamStopped, StopRefused, StopReturns, Go, AfterStop, StepsLeft,
             PlaceOK
<1>3. CASE NothingToClose \/ StreamClosed \/ CloseRefused
  <2>1. /\ pc = "close"
        /\ \/ afterInit = "destroy" /\ pc' = "destroyed"
           \/ afterInit = "drop" /\ pc' = "idle"
           \/ /\ afterInit \in {"start", "startStream"}
              /\ pc' = "open" /\ afterInit' = afterInit
        BY <1>1, <1>3
           DEF NothingToClose, StreamClosed, CloseRefused, CloseReturns, Go, PlaceOK
  <2>. QED BY <2>1 DEF StepsLeft
<1>4. CASE OpenStream
      BY <1>1, <1>4 DEF OpenStream, Go, StepsLeft, PlaceOK
<1>5. CASE SetupBuffers
      BY <1>1, <1>5 DEF SetupBuffers, Go, StepsLeft, PlaceOK
<1>6. CASE StartStream
      BY <1>1, <1>6 DEF StartStream, Go, StepsLeft
<1>7. CASE Started
      BY <1>1, <1>7 DEF Started, Go, StepsLeft
<1>8. CASE pc = "start" /\ Start
      BY <1>1, <1>8 DEF Start, Go, StepsLeft, PlaceOK
<1>9. CASE Terminated \/ TerminateFailed
      BY <1>1, <1>9 DEF Terminated, TerminateFailed, TerminateReturns, Go, StepsLeft, PlaceOK
<1>. QED BY <1>2, <1>3, <1>4, <1>5, <1>6, <1>7, <1>8, <1>9 DEF Inside, Answer, Refusal, Step

(* No call goes round in circles, whatever PortAudio answers: each of its  *)
(* steps leaves fewer, and nobody else moves it.  With the fairness        *)
(* assumed this is why CallsReturn holds.                                  *)
THEOREM CallsGoForward ==
    Spec => [][pc \notin {"idle", "destroyed"} =>
                  \/ UNCHANGED <<pc, afterInit>>
                  \/ StepsLeft(pc', afterInit') < StepsLeft(pc, afterInit)]_vars
<1>1. ASSUME IInv, Next, pc \notin {"idle", "destroyed"}
      PROVE  \/ UNCHANGED <<pc, afterInit>>
             \/ StepsLeft(pc', afterInit') < StepsLeft(pc, afterInit)
  <2>1. CASE Call
        BY <1>1, <2>1, CallsOnlyWrite
  <2>2. CASE Inside
        BY <1>1, <2>2, InsideGoesForward DEF IInv
  <2>3. CASE Callback
        BY <2>3 DEF Callback, CallbackBegin, CopyIn, Notify, CopyOut, controlVars
  <2>. QED BY <1>1, <2>1, <2>2, <2>3 DEF Next
<1>. QED BY <1>1, Invariant, PTL DEF Spec
=============================================================================
