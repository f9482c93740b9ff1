----------------------------- MODULE AudioObject -----------------------------
(***************************************************************************)
(* TTAudioObject (library/source/TTAudioObject.cpp), the base class of     *)
(* every unit that processes audio: which routine it runs, through every   *)
(* sequence of setProcess, setCalculate, Bypass and Mute, and the arrays   *)
(* in which process() hands its signals to that routine.                   *)
(*                                                                         *)
(* Several threads process and calculate; setters come at any moment, and  *)
(* take no lock.  Each of the routines reads only one of the members the   *)
(* setters write, so a setter is one step here.                            *)
(*                                                                         *)
(* TTObject, with its lock and its "valid" flag, is external.  calculate() *)
(* holds the lock when the default calculate method calls process(), which *)
(* takes it again: the lock is one that its owner may take several times.  *)
(*                                                                         *)
(* What a routine does to samples, the sample rate and MaxNumChannels are  *)
(* left to the subclasses.                                                 *)
(***************************************************************************)
EXTENDS Integers, Sequences

CONSTANTS Threads,
          Signals,
          Inputs, Outputs,    \* Threads -> the two signals it passes, of each kind
          Scratch,            \* the two signals of the default calculate method
          Routines,           \* the process methods of the subclass
          Calculators,        \* the calculate methods of the subclass
          bypassProcess, muteProcess,
          bypassCalculate, defaultCalculateMethod,
          Uninitialized,      \* what a member pointer is before it is written
          NULL,
          Nobody,
          MaxListLength       \* bound on the list calculate() is given

ASSUME MethodsAssumption ==
    /\ {bypassProcess, muteProcess, Uninitialized} \cap Routines = {}
    /\ bypassProcess # muteProcess /\ Uninitialized \notin {bypassProcess, muteProcess}
    /\ {bypassCalculate, defaultCalculateMethod, Uninitialized, NULL} \cap Calculators = {}
    /\ bypassCalculate # defaultCalculateMethod
    /\ {Uninitialized, NULL} \cap {bypassCalculate, defaultCalculateMethod} = {}
ASSUME CallersAssumption ==
    /\ Nobody \notin Threads
    /\ Inputs \in [Threads -> [1..2 -> Signals]]
    /\ Outputs \in [Threads -> [1..2 -> Signals]]
    /\ Scratch \in [1..2 -> Signals]
    /\ MaxListLength \in Nat

VARIABLES mode,         \* attrBypass, attrMute and the four method pointers
          valid,        \* the object has been constructed
          inputArray,   \* inputArray and outputArray: the signals process() was
          outputArray,  \*   last passed, and how many of them are valid
          lock,         \* TTObject's lock: its owner and how often it took it
          call          \* each thread's call of process() or calculate()

vars == <<mode, valid, inputArray, outputArray, lock, call>>

SubclassProcess   == Routines \cup {bypassProcess}
SubclassCalculate == Calculators \cup {defaultCalculateMethod}

----------------------------------------------------------------------------
(* The setters, as functions of the members they write                     *)

(* Slip: the routine is made current even when the object is bypassed.     *)
ProcessAtOnce(m, p) ==
    [m EXCEPT !.processMethod = p, !.currentProcessMethod = p,
              !.currentCalculateMethod = m.calculateMethod]

(* setProcess(): makes the routine current unless the object is bypassed,  *)
(* whether or not it is muted.                                             *)
WithProcess(m, p) ==
    LET c == IF m.calculateMethod = NULL THEN defaultCalculateMethod ELSE m.calculateMethod
    IN  [m EXCEPT !.processMethod          = p,
                  !.calculateMethod        = c,
                  !.currentProcessMethod   = IF m.attrBypass THEN @ ELSE p,
                  !.currentCalculateMethod = IF m.attrBypass THEN @ ELSE c]

WithCalculate(m, c) ==
    [m EXCEPT !.calculateMethod        = c,
              !.currentCalculateMethod = IF m.attrBypass THEN @ ELSE c]

(* setBypass(): leaves the calculate method alone when it finds the object *)
(* muted.                                                                  *)
WithBypass(m, bypass) ==
    IF bypass
    THEN [m EXCEPT !.attrBypass = TRUE,
                   !.currentProcessMethod   = bypassProcess,
                   !.currentCalculateMethod = bypassCalculate]
    ELSE IF m.attrMute
    THEN [m EXCEPT !.attrBypass = FALSE, !.currentProcessMethod = muteProcess]
    ELSE [m EXCEPT !.attrBypass = FALSE,
                   !.currentProcessMethod   = m.processMethod,
                   !.currentCalculateMethod = IF m.calculateMethod # NULL
                                              THEN m.calculateMethod
                                              ELSE defaultCalculateMethod]

(* Slip: a routine that has been made current is left alone when unmuting. *)
MuteOnly(m, mute) ==
    [m EXCEPT !.attrMute = mute,
              !.currentProcessMethod = IF m.attrBypass THEN bypassProcess
                                       ELSE IF mute THEN muteProcess
                                       ELSE @]

WithMute(m, mute) ==
    [m EXCEPT !.attrMute = mute,
              !.currentProcessMethod = IF m.attrBypass THEN bypassProcess
                                       ELSE IF mute THEN muteProcess
                                       ELSE m.processMethod]

(* Slip: the constructor trusts that Bypass starts out as off.             *)
ConstructedTrusting(m) ==
    WithCalculate(WithProcess(m, bypassProcess), defaultCalculateMethod)

(* The constructor of TTAudioObject, which reads attrBypass and            *)
(* calculateMethod before anything has written them.                       *)
Constructed(m) ==
    WithBypass(WithCalculate(WithProcess(m, bypassProcess), defaultCalculateMethod), FALSE)

----------------------------------------------------------------------------
EmptyArray == [num |-> 0, signals |-> [i \in 1..2 |-> NULL]]

Idle == [pc |-> "idle", own |-> FALSE, ins |-> <<>>, outs |-> <<>>, left |-> 0,
         routine |-> NULL]

(* A new object, before the body of its constructor: only attrMute has     *)
(* been initialised.                                                       *)
Init ==
    /\ mode \in [attrBypass : BOOLEAN, attrMute : {FALSE},
                 processMethod : {Uninitialized}, currentProcessMethod : {Uninitialized},
                 calculateMethod : {Uninitialized, NULL},
                 currentCalculateMethod : {Uninitialized}]
    /\ valid = FALSE
    /\ inputArray = EmptyArray
    /\ outputArray = EmptyArray
    /\ lock = [owner |-> Nobody, depth |-> 0]
    /\ call = [t \in Threads |-> Idle]

(* The constructor, and then the subclass's, which names its routines.     *)
construct(p, c) ==
    /\ ~valid
    /\ valid' = TRUE
    /\ mode' = WithCalculate(WithProcess(Constructed(mode), p), c)
    /\ UNCHANGED <<inputArray, outputArray, lock, call>>

Set(newMode) ==
    /\ valid
    /\ mode' = newMode
    /\ UNCHANGED <<valid, inputArray, outputArray, lock, call>>

setProcess(p)     == Set(WithProcess(mode, p))
setCalculate(c)   == Set(WithCalculate(mode, c))
setBypass(bypass) == Set(WithBypass(mode, bypass))
setMute(mute)     == Set(WithMute(mode, mute))

----------------------------------------------------------------------------
(* Slip: a thread that finds the lock taken goes ahead without it.         *)
MayAlwaysLock(t) == TRUE

(* lock() and unlock() of TTObject.                                        *)
MayLock(t) == lock.owner \in {t, Nobody}
Locked(t)  == [owner |-> t, depth |-> lock.depth + 1]
Unlocked   == [owner |-> IF lock.depth = 1 THEN Nobody ELSE lock.owner,
               depth |-> lock.depth - 1]

(* process() has four forms for signals, told apart by how many of them    *)
(* there are.                                                              *)
Forms == { <<1, 1>>, <<0, 1>>, <<2, 2>>, <<2, 1>> }

(* A call, with the lock taken: of a form for signals ...                  *)
process(t, form) ==
    /\ valid
    /\ call[t].pc = "idle"
    /\ MayLock(t)
    /\ lock' = Locked(t)
    /\ call' = [call EXCEPT ![t] = [Idle EXCEPT !.pc = "wrap",
                                                !.ins  = SubSeq(Inputs[t], 1, form[1]),
                                                !.outs = SubSeq(Outputs[t], 1, form[2])]]
    /\ UNCHANGED <<mode, valid, inputArray, outputArray>>

(* ... or of the form for arrays, which are the caller's.                  *)
processArrays(t) ==
    /\ valid
    /\ call[t].pc = "idle"
    /\ MayLock(t)
    /\ lock' = Locked(t)
    /\ call' = [call EXCEPT ![t] = [Idle EXCEPT !.pc = "run", !.own = TRUE,
                                                !.routine = mode.currentProcessMethod]]
    /\ UNCHANGED <<mode, valid, inputArray, outputArray>>

(* A pointer past the valid ones stays from an earlier call.               *)
Wrapped(array, passed) ==
    [num     |-> Len(passed),
     signals |-> [i \in 1..2 |-> IF i <= Len(passed) THEN passed[i] ELSE array.signals[i]]]

(* The signals are put into the arrays, and the current routine is called. *)
Wrap(t) ==
    /\ call[t].pc = "wrap"
    /\ inputArray' = Wrapped(inputArray, call[t].ins)
    /\ outputArray' = Wrapped(outputArray, call[t].outs)
    /\ call' = [call EXCEPT ![t].pc = "run", ![t].routine = mode.currentProcessMethod]
    /\ UNCHANGED <<mode, valid, lock>>

(* Slip: the call that calculate() makes returns without its unlock().     *)
ReturnLocked(t) ==
    /\ call[t].pc = "run"
    /\ lock' = IF call[t].left > 0 THEN lock ELSE Unlocked
    /\ call' = IF call[t].left > 0
               THEN [call EXCEPT ![t].pc = "calculate", ![t].left = @ - 1]
               ELSE [call EXCEPT ![t] = Idle]
    /\ UNCHANGED <<mode, valid, inputArray, outputArray>>

(* The routine returns, and process() with it: to calculate(), if that is  *)
(* where the call came from.                                               *)
Return(t) ==
    /\ call[t].pc = "run"
    /\ lock' = Unlocked
    /\ call' = IF call[t].left > 0
               THEN [call EXCEPT ![t].pc = "calculate", ![t].left = @ - 1]
               ELSE [call EXCEPT ![t] = Idle]
    /\ UNCHANGED <<mode, valid, inputArray, outputArray>>

(* calculate(): of one sample, or of a list of them.                       *)
calculate(t, n) ==
    /\ valid
    /\ call[t].pc = "idle"
    /\ MayLock(t)
    /\ lock' = Locked(t)
    /\ call' = [call EXCEPT ![t] = [Idle EXCEPT !.pc = "calculate", !.left = n]]
    /\ UNCHANGED <<mode, valid, inputArray, outputArray>>

(* One sample: the default calculate method wraps it in signals of its own *)
(* and calls process(); any other is done with it at once.                 *)
CalculateOne(t) ==
    /\ call[t].pc = "calculate"
    /\ call[t].left > 0
    /\ IF mode.currentCalculateMethod = defaultCalculateMethod
       THEN /\ lock' = Locked(t)
            /\ call' = [call EXCEPT ![t].pc = "wrap", ![t].ins = <<Scratch[1]>>,
                                    ![t].outs = <<Scratch[2]>>]
       ELSE /\ call' = [call EXCEPT ![t].left = @ - 1]
            /\ UNCHANGED lock
    /\ UNCHANGED <<mode, valid, inputArray, outputArray>>

CalculateReturn(t) ==
    /\ call[t].pc = "calculate"
    /\ call[t].left = 0
    /\ lock' = Unlocked
    /\ call' = [call EXCEPT ![t] = Idle]
    /\ UNCHANGED <<mode, valid, inputArray, outputArray>>

----------------------------------------------------------------------------
Setter ==
    \/ \E p \in Routines : setProcess(p)
    \/ \E c \in Calculators : setCalculate(c)
    \/ \E b \in BOOLEAN : setBypass(b) \/ setMute(b)

Enter(t) ==
    \/ \E form \in Forms : process(t, form)
    \/ processArrays(t)
    \/ \E n \in 0..MaxListLength : calculate(t, n)

Inside(t) == Wrap(t) \/ Return(t) \/ CalculateOne(t) \/ CalculateReturn(t)

Next ==
    \/ \E p \in SubclassProcess, c \in SubclassCalculate : construct(p, c)
    \/ Setter
    \/ \E t \in Threads : Enter(t) \/ Inside(t)

(* A thread inside a call keeps running.                                   *)
Fairness == \A t \in Threads : WF_vars(Inside(t))

Spec == Init /\ [][Next]_vars /\ Fairness

----------------------------------------------------------------------------
Array == [num : 0..2, signals : [1..2 -> Signals \cup {NULL}]]

Call == [pc : {"idle", "wrap", "run", "calculate"}, own : BOOLEAN, ins : Seq(Signals),
         outs : Seq(Signals), left : 0..MaxListLength,
         routine : SubclassProcess \cup {muteProcess, Uninitialized, NULL}]

TypeOK ==
    /\ mode \in [attrBypass : BOOLEAN, attrMute : BOOLEAN,
                 processMethod : SubclassProcess \cup {Uninitialized},
                 currentProcessMethod : SubclassProcess \cup {muteProcess, Uninitialized},
                 calculateMethod : SubclassCalculate \cup {Uninitialized, NULL},
                 currentCalculateMethod :
                     SubclassCalculate \cup {bypassCalculate, Uninitialized}]
    /\ valid \in BOOLEAN
    /\ inputArray \in Array
    /\ outputArray \in Array
    /\ lock \in [owner : Threads \cup {Nobody}, depth : 0..2]
    /\ call \in [Threads -> Call]

(* Once constructed, the object runs its own last routine, passes its      *)
(* input or is mute: never a routine the subclass has replaced since, and  *)
(* never what the constructor found in memory.                             *)
NoStaleRoutine ==
    valid => /\ mode.processMethod # Uninitialized
             /\ mode.currentProcessMethod \in {bypassProcess, muteProcess, mode.processMethod}
             /\ mode.calculateMethod \notin {Uninitialized, NULL}
             /\ mode.currentCalculateMethod \in {bypassCalculate, mode.calculateMethod}

(* Bypass wins over everything that is set while it is on, Mute included:  *)
(* "Bypass the audio processing routine" (TTAudioObject.h:93).             *)
BypassWins ==
    valid /\ mode.attrBypass =>
        /\ mode.currentProcessMethod = bypassProcess
        /\ mode.currentCalculateMethod = bypassCalculate

(* An object that is neither bypassed nor muted runs its own routine: no   *)
(* order of turning the two on and off leaves the muting behind.           *)
UnmutedIsHeard ==
    valid /\ ~mode.attrBypass /\ ~mode.attrMute =>
        mode.currentProcessMethod = mode.processMethod

(* A routine finds in the arrays the signals of the call it runs for, for  *)
(* as long as it runs, though every call on the object uses the same two.  *)
RoutineSeesItsSignals ==
    \A t \in Threads : call[t].pc = "run" /\ ~call[t].own =>
        /\ inputArray.num = Len(call[t].ins)
        /\ \A i \in 1..inputArray.num : inputArray.signals[i] = call[t].ins[i]
        /\ outputArray.num = Len(call[t].outs)
        /\ \A i \in 1..outputArray.num : outputArray.signals[i] = call[t].outs[i]

(* Every call returns, and the lock it took is free again for the others.  *)
CallsReturn ==
    \A t \in Threads : call[t].pc # "idle" ~> call[t].pc = "idle" /\ lock.owner # t

(* "Mute the audio processing routine and zero all output" (TTAudioObject.h:97). *)
MutedIsSilent ==
    valid /\ mode.attrMute /\ ~mode.attrBypass => mode.currentProcessMethod = muteProcess
=============================================================================
