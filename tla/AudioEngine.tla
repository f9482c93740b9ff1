----------------------------- MODULE AudioEngine -----------------------------
(***************************************************************************)
(* TTAudioEngine (library/source/TTAudioEngine.cpp), the singleton that    *)
(* drives all audio through one PortAudio stream.                          *)
(*                                                                         *)
(* Two threads share its members without a lock: the thread that sends     *)
(* messages and sets attributes ("control"), and PortAudio's thread, which *)
(* runs callback() once per vector while a stream is started.  What keeps  *)
(* them apart is only that Pa_StopStream(), Pa_CloseStream() and           *)
(* Pa_Terminate() return after the last callback has, if they succeed.     *)
(*                                                                         *)
(* PortAudio is external.  It keeps the streams it has open under handles; *)
(* each of its calls may fail, and the engine logs the error or drops it   *)
(* and goes on.  A stream whose close was refused stays open, and PortAudio *)
(* goes on calling back for it, although the engine has forgotten it; what *)
(* the properties do not promise for such a stream they except by name.    *)
(*                                                                         *)
(* One thread at a time controls the engine, and one callback at a time is *)
(* modelled: callbacks only read what is modelled here, so two of them     *)
(* (there is a second stream only after a refused close) do nothing to     *)
(* each other.  Samples are not modelled.                                  *)
(***************************************************************************)
EXTENDS Integers, Sequences

CONSTANTS Observers,       \* objects that may subscribe to the callback
          Devices,         \* devices PortAudio lists, "default" not among them
          DefaultDevice,   \* the initial mInputDevice and mOutputDevice
          DeviceInputs,    \* Devices -> maxInputChannels
          DeviceOutputs,   \* Devices -> maxOutputChannels
          VectorSizes,     \* values of the attribute VectorSize
          SampleRates,     \* values of the attribute SampleRate
          ChannelCounts,   \* values written to NumInputChannels, NumOutputChannels
          Handles,         \* stream handles PortAudio may hand out
          NoStream,        \* NULL
          BadStream,       \* what a failed Pa_OpenStream() may leave in mStream
          NoObserver

ASSUME DeviceAssumption ==
    /\ DefaultDevice \notin Devices
    /\ DeviceInputs \in [Devices -> Nat]
    /\ DeviceOutputs \in [Devices -> Nat]
ASSUME AttributeAssumption == 64 \in VectorSizes /\ 44100 \in SampleRates
ASSUME CountAssumption == VectorSizes \subseteq Nat /\ ChannelCounts \subseteq Nat
ASSUME ObserverAssumption == NoObserver \notin Observers

(* What a stream was opened with, as far as a property tells it apart.     *)
Stream == [frames : VectorSizes, inputDevice : Devices \cup {DefaultDevice},
           outputDevice : Devices \cup {DefaultDevice}]

ASSUME StreamAssumption ==
    /\ NoStream \notin Handles \cup Stream
    /\ BadStream \notin Handles \cup {NoStream}

VARIABLES
    engine,       \* the members of TTAudioEngine that are attributes or flags
    mStream,      \* a handle, NULL or an invalid pointer
    streams,      \* the handles under which PortAudio has a stream open
    opened,       \* what the last of them was opened with
    active,       \* the open streams that are started
    refused,      \* the open streams PortAudio has refused to close
    buffers,      \* mInputBuffer and mOutputBuffer: their channels and frames
    mCallbackObservers,
    pc,           \* where the control thread is
    afterInit,    \* what the caller of initStream() does when it returns
    caller,       \* the stream whose callback is running, or NoStream
    cb,           \* where PortAudio's thread is in callback()
    visiting,     \* the observer the callback is notifying
    notified,     \* observers notified in this callback
    subscribed,   \* observers subscribed during the whole callback
    raced,        \* the list node being visited was removed under the callback
    references    \* reference count of the singleton

portVars     == <<streams, opened, active, refused>>
controlVars  == <<engine, mStream, portVars, buffers, pc, afterInit, references>>
callbackVars == <<caller, cb, visiting, notified, subscribed, raced>>
vars == <<engine, mStream, portVars, buffers, mCallbackObservers, pc, afterInit,
          callbackVars, references>>

NoBuffers == [inputs |-> 1, outputs |-> 1, inFrames |-> 0, outFrames |-> 0]

(* The stream initStream() asks PortAudio for.                             *)
RequestedStream ==
    [frames |-> engine.mVectorSize,
     inputDevice |-> engine.mInputDevice, outputDevice |-> engine.mOutputDevice]

InCallback == cb # "idle"

Members(list) == { list[i] : i \in 1..Len(list) }

(* The node of an observer that is in the list, and the list without it.   *)
NodeOf(o) == CHOOSE i \in 1..Len(mCallbackObservers) : mCallbackObservers[i] = o

Without(o) ==
    [i \in 1..Len(mCallbackObservers) - 1 |->
        IF i < NodeOf(o) THEN mCallbackObservers[i] ELSE mCallbackObservers[i + 1]]

----------------------------------------------------------------------------
(* After TTDSPInit(): create() has instantiated the engine and taken a     *)
(* reference to it on top of the one it was born with.                     *)
Init ==
    /\ engine = [mNumInputChannels |-> 2, mNumOutputChannels |-> 2,
                 mVectorSize |-> 64, mSampleRate |-> 44100,
                 mInputDevice |-> DefaultDevice, mOutputDevice |-> DefaultDevice,
                 mIsRunning |-> FALSE]
    /\ mStream = NoStream
    /\ streams = {}
    /\ opened = NoStream
    /\ active = {}
    /\ refused = {}
    /\ buffers = NoBuffers
    /\ mCallbackObservers = <<>>
    /\ pc = "idle"
    /\ afterInit = "idle"
    /\ caller = NoStream
    /\ cb = "idle"
    /\ visiting = NoObserver
    /\ notified = {}
    /\ subscribed = {}
    /\ raced = FALSE
    /\ references = 2

Go(label) == pc' = label

(* A setter that has changed the engine; a running engine is initialised   *)
(* again and then started.                                                 *)
RestartIfRunning ==
    IF engine.mIsRunning
    THEN Go("stop") /\ afterInit' = "start"
    ELSE UNCHANGED <<pc, afterInit>>

----------------------------------------------------------------------------
(* The control thread: messages and attributes                             *)

(* Slip: initStream(), called to make a stream, is told to start it too.   *)
StartTwice ==
    /\ pc = "idle" \/ pc = "start"
    /\ IF engine.mIsRunning THEN Go("idle") /\ UNCHANGED afterInit
       ELSE IF mStream = NoStream THEN Go("close") /\ afterInit' = "start"
       ELSE Go("startStream") /\ UNCHANGED afterInit
    /\ UNCHANGED <<engine, mStream, portVars, buffers, mCallbackObservers, callbackVars,
                   references>>

(* Start(): nothing if running; initialises the stream if mStream is NULL. *)
(* initStream() ends with it (pc = "start") when the engine was running.   *)
Start ==
    /\ pc = "idle" \/ pc = "start"
    /\ IF engine.mIsRunning THEN Go("idle") /\ UNCHANGED afterInit
       ELSE IF mStream = NoStream THEN Go("close") /\ afterInit' = "startStream"
       ELSE Go("startStream") /\ UNCHANGED afterInit
    /\ UNCHANGED <<engine, mStream, portVars, buffers, mCallbackObservers, callbackVars,
                   references>>

(* Stop(): whether or not the engine is running.                           *)
Stop ==
    /\ pc = "idle"
    /\ Go("stop")
    /\ afterInit' = "idle"
    /\ UNCHANGED <<engine, mStream, portVars, buffers, mCallbackObservers, callbackVars,
                   references>>

(* The attributes NumInputChannels and NumOutputChannels have no setter:   *)
(* a write changes the member and nothing else.                            *)
writeNumInputChannels(n) ==
    /\ pc = "idle"
    /\ engine' = [engine EXCEPT !.mNumInputChannels = n]
    /\ UNCHANGED <<mStream, portVars, buffers, mCallbackObservers, pc, afterInit, callbackVars,
                   references>>

writeNumOutputChannels(n) ==
    /\ pc = "idle"
    /\ engine' = [engine EXCEPT !.mNumOutputChannels = n]
    /\ UNCHANGED <<mStream, portVars, buffers, mCallbackObservers, pc, afterInit, callbackVars,
                   references>>

(* Slip: the input buffer gets its new size before the engine is stopped.  *)
ResizeAtOnce(vs) ==
    /\ pc = "idle"
    /\ vs # engine.mVectorSize
    /\ engine' = [engine EXCEPT !.mVectorSize = vs]
    /\ buffers' = [buffers EXCEPT !.inFrames = vs]
    /\ RestartIfRunning
    /\ UNCHANGED <<mStream, portVars, mCallbackObservers, callbackVars, references>>

setVectorSize(vs) ==
    /\ pc = "idle"
    /\ vs # engine.mVectorSize
    /\ engine' = [engine EXCEPT !.mVectorSize = vs]
    /\ RestartIfRunning
    /\ UNCHANGED <<mStream, portVars, buffers, mCallbackObservers, callbackVars, references>>

setSampleRate(sr) ==
    /\ pc = "idle"
    /\ sr # engine.mSampleRate
    /\ engine' = [engine EXCEPT !.mSampleRate = sr]
    /\ RestartIfRunning
    /\ UNCHANGED <<mStream, portVars, buffers, mCallbackObservers, callbackVars, references>>

(* Slip: a stopped engine keeps its stream when the device changes.        *)
KeepStoppedStream == RestartIfRunning

(* A change of device: a running engine is initialised again, a stopped    *)
(* one only closes its stream.                                             *)
DropStream ==
    IF ~engine.mIsRunning /\ mStream # NoStream
    THEN Go("close") /\ afterInit' = "drop"
    ELSE RestartIfRunning

(* setInputDevice(): the channel count changes at once, under a callback   *)
(* that may be running.                                                    *)
setInputDevice(d) ==
    /\ pc = "idle"
    /\ d # engine.mInputDevice
    /\ engine' = [engine EXCEPT !.mInputDevice = d, !.mNumInputChannels = DeviceInputs[d]]
    /\ DropStream
    /\ UNCHANGED <<mStream, portVars, buffers, mCallbackObservers, callbackVars, references>>

setOutputDevice(d) ==
    /\ pc = "idle"
    /\ d # engine.mOutputDevice
    /\ engine' = [engine EXCEPT !.mOutputDevice = d, !.mNumOutputChannels = DeviceOutputs[d]]
    /\ DropStream
    /\ UNCHANGED <<mStream, portVars, buffers, mCallbackObservers, callbackVars, references>>

(* The list has no thread protection: it changes under the callback too.   *)
(* An observer subscribes once; a second add would list it twice.          *)
addCallbackObserver(o) ==
    /\ pc = "idle"
    /\ o \notin Members(mCallbackObservers)
    /\ mCallbackObservers' = Append(mCallbackObservers, o)
    /\ UNCHANGED <<controlVars, callbackVars>>

(* Slip: the list is cut at the observer that leaves.                      *)
removeFromObserverOn(o) ==
    /\ pc = "idle"
    /\ o \in Members(mCallbackObservers)
    /\ mCallbackObservers' = SubSeq(mCallbackObservers, 1, NodeOf(o) - 1)
    /\ subscribed' = subscribed \ {o}
    /\ raced' = (raced \/ visiting = o)
    /\ UNCHANGED <<controlVars, caller, cb, visiting, notified>>

removeCallbackObserver(o) ==
    /\ pc = "idle"
    /\ o \in Members(mCallbackObservers)
    /\ mCallbackObservers' = Without(o)
    /\ subscribed' = subscribed \ {o}
    /\ raced' = (raced \/ visiting = o)
    /\ UNCHANGED <<controlVars, caller, cb, visiting, notified>>

----------------------------------------------------------------------------
(* The control thread: inside Stop(), initStream() and Start()             *)

(* Where Stop() goes when it returns: back to initStream() or to the       *)
(* destructor, which both close the stream next, or to its caller.         *)
AfterStop == IF afterInit \in {"start", "destroy"} THEN "close" ELSE "idle"

(* Stop() returns; PortAudio's answer has only been logged.                *)
StopReturns ==
    /\ engine' = [engine EXCEPT !.mIsRunning = FALSE]
    /\ Go(AfterStop)
    /\ UNCHANGED <<mStream, streams, opened, refused, buffers, mCallbackObservers, afterInit,
                   callbackVars, references>>

NothingToStop ==
    /\ pc = "stop"
    /\ mStream = NoStream
    /\ StopReturns
    /\ UNCHANGED active

(* Pa_StopStream() returns when no callback of the stream is running, and  *)
(* none will until it is started again.                                    *)
StreamStopped ==
    /\ pc = "stop"
    /\ mStream \in streams
    /\ caller # mStream
    /\ active' = active \ {mStream}
    /\ StopReturns

(* ... or fails, at once; the stream goes on.  An invalid handle, and one  *)
(* that Pa_Terminate() has closed, is always refused.                      *)
StopRefused ==
    /\ pc = "stop"
    /\ mStream # NoStream
    /\ StopReturns
    /\ UNCHANGED active

(* The destructor has freed the buffers; initStream() opens the stream     *)
(* anew; a stopped engine that changes its device is done.                 *)
CloseReturns ==
    /\ mStream' = NoStream
    /\ Go(CASE afterInit = "destroy" -> "destroyed"
            [] afterInit = "drop"    -> "idle"
            [] OTHER                 -> "open")
    /\ afterInit' = IF afterInit = "drop" THEN "idle" ELSE afterInit
    /\ buffers' = IF afterInit = "destroy" THEN NoBuffers ELSE buffers
    /\ UNCHANGED <<engine, mCallbackObservers, callbackVars, references>>

NothingToClose ==
    /\ pc = "close"
    /\ mStream = NoStream
    /\ CloseReturns
    /\ UNCHANGED portVars

(* Slip: mStream is forgotten, not closed.                                 *)
ForgetStream ==
    /\ pc = "close"
    /\ mStream # NoStream
    /\ CloseReturns
    /\ UNCHANGED portVars

(* Pa_CloseStream(): a stream that is still active is aborted first.       *)
StreamClosed ==
    /\ pc = "close"
    /\ mStream \in streams
    /\ caller # mStream
    /\ streams' = streams \ {mStream}
    /\ opened' = NoStream
    /\ active' = active \ {mStream}
    /\ CloseReturns
    /\ UNCHANGED refused

(* ... or fails; mStream becomes NULL all the same.                        *)
CloseRefused ==
    /\ pc = "close"
    /\ mStream # NoStream
    /\ refused' = refused \cup ({mStream} \cap streams)
    /\ CloseReturns
    /\ opened' = NoStream
    /\ UNCHANGED <<streams, active>>

(* Pa_OpenDefaultStream() or Pa_OpenStream(): an error is only logged, and *)
(* leaves in mStream NULL or a value that is not a stream.                 *)
OpenStream ==
    /\ pc = "open"
    /\ Go("setup")
    /\ \/ \E h \in Handles \ streams :
             /\ mStream' = h
             /\ streams' = streams \cup {h}
             /\ opened' = RequestedStream
       \/ /\ mStream' \in {NoStream, BadStream}
          /\ UNCHANGED <<streams, opened>>
    /\ UNCHANGED <<engine, active, refused, buffers, mCallbackObservers, afterInit,
                   callbackVars, references>>

(* Slip: the buffers are made with the size a new engine starts with.      *)
SetupBuffersDefaultSize ==
    /\ pc = "setup"
    /\ buffers' = [inputs |-> engine.mNumInputChannels, outputs |-> engine.mNumOutputChannels,
                   inFrames |-> 64, outFrames |-> 64]
    /\ Go(afterInit)
    /\ UNCHANGED <<engine, mStream, portVars, mCallbackObservers, afterInit, callbackVars,
                   references>>

(* Slip: a device without channels on one side leaves no channel.          *)
SetupBuffersAsAsked ==
    /\ pc = "setup"
    /\ buffers' = [inputs |-> engine.mNumInputChannels, outputs |-> engine.mNumOutputChannels,
                   inFrames |-> engine.mVectorSize, outFrames |-> engine.mVectorSize]
    /\ Go(afterInit)
    /\ UNCHANGED <<engine, mStream, portVars, mCallbackObservers, afterInit, callbackVars,
                   references>>

(* Both buffers get as many channels as asked for (one at least) and are   *)
(* allocated; then initStream() starts an engine that was running.         *)
SetupBuffers ==
    /\ pc = "setup"
    /\ LET AtLeastOne(n) == IF n = 0 THEN 1 ELSE n
       IN  buffers' = [inputs    |-> AtLeastOne(engine.mNumInputChannels),
                       outputs   |-> AtLeastOne(engine.mNumOutputChannels),
                       inFrames  |-> engine.mVectorSize,
                       outFrames |-> engine.mVectorSize]
    /\ Go(afterInit)
    /\ UNCHANGED <<engine, mStream, portVars, mCallbackObservers, afterInit, callbackVars,
                   references>>

(* Pa_StartStream(): an error is only logged, and NULL, an invalid handle  *)
(* or a stream that is started already is an error.                        *)
StartStream ==
    /\ pc = "startStream"
    /\ Go("started")
    /\ \/ mStream \in streams /\ active' = active \cup {mStream}
       \/ UNCHANGED active
    /\ UNCHANGED <<engine, mStream, streams, opened, refused, buffers, mCallbackObservers,
                   afterInit, callbackVars, references>>

Started ==
    /\ pc = "started"
    /\ engine' = [engine EXCEPT !.mIsRunning = TRUE]
    /\ Go("idle")
    /\ afterInit' = "idle"
    /\ UNCHANGED <<mStream, portVars, buffers, mCallbackObservers, callbackVars, references>>

----------------------------------------------------------------------------
(* destroy(): the reference that is not the last is just given back.       *)
release ==
    /\ pc = "idle"
    /\ references > 1
    /\ references' = references - 1
    /\ UNCHANGED <<engine, mStream, portVars, buffers, mCallbackObservers, pc, afterInit,
                   callbackVars>>

(* With the last one comes Pa_Terminate(), then the destructor, whose      *)
(* Stop() and Pa_CloseStream() still use mStream.                          *)
destroy ==
    /\ pc = "idle"
    /\ references = 1
    /\ references' = 0
    /\ Go("terminate")
    /\ afterInit' = "destroy"
    /\ UNCHANGED <<engine, mStream, portVars, buffers, mCallbackObservers, callbackVars>>

TerminateReturns ==
    /\ Go(IF mStream # NoStream /\ engine.mIsRunning THEN "stop" ELSE "close")
    /\ UNCHANGED <<engine, mStream, buffers, mCallbackObservers, afterInit, callbackVars,
                   references>>

(* Pa_Terminate() closes every stream, those it refused to close too.      *)
Terminated ==
    /\ pc = "terminate"
    /\ caller = NoStream
    /\ streams' = {}
    /\ opened' = NoStream
    /\ active' = {}
    /\ refused' = {}
    /\ TerminateReturns

(* ... or fails, which is only logged.                                     *)
TerminateFailed ==
    /\ pc = "terminate"
    /\ TerminateReturns
    /\ UNCHANGED portVars

----------------------------------------------------------------------------
(* PortAudio's thread: callback(), once per vector of a started stream     *)

CallbackBegin ==
    /\ caller = NoStream
    /\ \E h \in active : caller' = h
    /\ cb' = "copyIn"
    /\ subscribed' = Members(mCallbackObservers)
    /\ UNCHANGED <<controlVars, mCallbackObservers, visiting, notified, raced>>

(* The input is spread over mNumInputChannels channels of mInputBuffer;    *)
(* then the list is entered at its head.                                   *)
CopyIn ==
    /\ cb = "copyIn"
    /\ IF mCallbackObservers = <<>>
       THEN cb' = "copyOut" /\ UNCHANGED visiting
       ELSE cb' = "notify" /\ visiting' = Head(mCallbackObservers)
    /\ UNCHANGED <<controlVars, mCallbackObservers, caller, notified, subscribed, raced>>

(* The observers that come after o, if o is still in the list; if it is    *)
(* not, its node is gone and the iteration may go anywhere in the list.    *)
NextAfter(o) ==
    LET list == mCallbackObservers
    IN  IF o \notin Members(list) THEN Members(list) \cup {NoObserver}
        ELSE IF NodeOf(o) < Len(list) THEN {list[NodeOf(o) + 1]}
        ELSE {NoObserver}

(* audioEngineWillProcess goes to one observer, then to the next.          *)
Notify ==
    /\ cb = "notify"
    /\ notified' = notified \cup {visiting}
    /\ \E next \in NextAfter(visiting) :
         /\ visiting' = next
         /\ cb' = IF next = NoObserver THEN "copyOut" ELSE "notify"
    /\ UNCHANGED <<controlVars, mCallbackObservers, caller, subscribed, raced>>

(* mNumOutputChannels channels of mOutputBuffer are interleaved into the   *)
(* output.                                                                 *)
CopyOut ==
    /\ cb = "copyOut"
    /\ cb' = "idle"
    /\ caller' = NoStream
    /\ notified' = {}
    /\ subscribed' = {}
    /\ raced' = FALSE
    /\ UNCHANGED <<controlVars, mCallbackObservers, visiting>>

----------------------------------------------------------------------------
Call ==
    \/ pc = "idle" /\ Start
    \/ Stop
    \/ \E n \in ChannelCounts : writeNumInputChannels(n) \/ writeNumOutputChannels(n)
    \/ \E vs \in VectorSizes : setVectorSize(vs)
    \/ \E sr \in SampleRates : setSampleRate(sr)
    \/ \E d \in Devices : setInputDevice(d) \/ setOutputDevice(d)
    \/ \E o \in Observers : addCallbackObserver(o) \/ removeCallbackObserver(o)
    \/ release
    \/ destroy

(* What PortAudio answers when the call succeeds: it may wait first.       *)
Answer == StreamStopped \/ StreamClosed \/ Terminated

Refusal == StopRefused \/ CloseRefused \/ TerminateFailed

Step == NothingToStop \/ NothingToClose \/ OpenStream \/ SetupBuffers \/ StartStream
             \/ Started \/ (pc = "start" /\ Start)

Inside == Answer \/ Refusal \/ Step

(* What a stream left open does with an engine that is gone is undefined.  *)
Callback ==
    /\ pc # "destroyed"
    /\ CallbackBegin \/ CopyIn \/ Notify \/ CopyOut

Next == Call \/ Inside \/ Callback

(* Threads that are inside the engine keep running; a handle that is not a *)
(* stream is refused; and a call into PortAudio is not held up for ever by *)
(* one callback after another.  No other call has to fail.                 *)
Fairness ==
    /\ WF_vars(Step)
    /\ WF_vars(mStream \notin streams /\ (StopRefused \/ CloseRefused))
    /\ SF_vars(StreamStopped)
    /\ SF_vars(StreamClosed)
    /\ SF_vars(Terminated)
    /\ WF_vars(pc # "destroyed" /\ (CopyIn \/ Notify \/ CopyOut))

Spec == Init /\ [][Next]_vars /\ Fairness

----------------------------------------------------------------------------
TypeOK ==
    /\ engine \in [mNumInputChannels : Nat, mNumOutputChannels : Nat,
                   mVectorSize : VectorSizes, mSampleRate : SampleRates,
                   mInputDevice : Devices \cup {DefaultDevice},
                   mOutputDevice : Devices \cup {DefaultDevice},
                   mIsRunning : BOOLEAN]
    /\ mStream \in Handles \cup {NoStream, BadStream}
    /\ streams \subseteq Handles
    /\ opened \in Stream \cup {NoStream}
    /\ active \subseteq streams
    /\ refused \subseteq streams
    /\ buffers \in [inputs : Nat \ {0}, outputs : Nat \ {0}, inFrames : Nat, outFrames : Nat]
    /\ mCallbackObservers \in Seq(Observers)
    /\ pc \in {"idle", "start", "stop", "close", "open", "setup", "startStream", "started",
               "terminate", "destroyed"}
    /\ afterInit \in {"idle", "start", "startStream", "drop", "destroy"}
    /\ caller \in active \cup {NoStream}
    /\ cb \in {"idle", "copyIn", "notify", "copyOut"}
    /\ visiting \in Observers \cup {NoObserver}
    /\ notified \subseteq Observers
    /\ subscribed \subseteq Observers
    /\ raced \in BOOLEAN
    /\ references \in 0..2

(* While PortAudio's thread is in the callback, nobody frees and mallocs   *)
(* the buffers it uses, nor closes or stops its stream, even when          *)
(* Pa_StopStream() has failed and the engine went on.  The one exception   *)
(* is a stream whose close has been refused: its callbacks go on while     *)
(* initStream() makes the buffers anew, or the destructor frees them.      *)
BuffersStableInCallback ==
    [][InCallback /\ caller \notin refused' => buffers' = buffers /\ caller \in active']_vars

(* A callback is called with as many frames as its two buffers hold,       *)
(* whatever was changed while the engine was stopped or is being changed,  *)
(* and whatever failed (for a stream whose close was refused: up to then). *)
BuffersHoldAVector ==
    InCallback /\ caller \notin refused =>
        /\ buffers.inFrames = opened.frames
        /\ buffers.outFrames = opened.frames

(* A stream is lost to the engine only if PortAudio refused to close it:   *)
(* no other device is kept by a stream nobody can close any more.  And the *)
(* engine does not keep a stream that it has closed.                       *)
NoLostStream ==
    /\ streams \subseteq {mStream} \cup refused
    /\ references > 0 => mStream \notin Handles \ streams

(* Between calls, an open stream is of the devices that were last          *)
(* selected: a stopped engine, or one that failed to stop, does not start  *)
(* on the old device.                                                      *)
StreamFitsDevices ==
    pc = "idle" /\ mStream \in streams =>
        /\ opened.inputDevice = engine.mInputDevice
        /\ opened.outputDevice = engine.mOutputDevice

(* An observer that is subscribed during the whole of a callback is told   *)
(* of its vector, although the list may change meanwhile (unless the node  *)
(* being visited was the one removed).                                     *)
NobodyMissesAVector ==
    cb = "copyOut" /\ ~raced => subscribed \subseteq notified

(* Every call into the engine returns: Stop() from Pa_StopStream(), and    *)
(* initStream() from restarting a stream that fails to open.               *)
CallsReturn == pc # "idle" ~> pc \in {"idle", "destroyed"}

(* The callback uses only channels that its buffers have.                  *)
ChannelsWithinBuffers ==
    /\ cb = "copyIn" => engine.mNumInputChannels <= buffers.inputs
    /\ cb = "copyOut" => engine.mNumOutputChannels <= buffers.outputs
=============================================================================
