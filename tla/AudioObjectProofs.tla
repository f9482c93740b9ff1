-------------------------- MODULE AudioObjectProofs --------------------------
(***************************************************************************)
(* TTAudioObject for every number of threads and routines: which routine   *)
(* it runs, and that a routine finds its own signals in the shared arrays. *)
(*                                                                         *)
(* The second rests on the lock, so the invariant is strengthened with     *)
(* what the lock is worth: whoever is inside a call owns it, and has taken *)
(* it once for process() or calculate() and once more for the process()    *)
(* that calculate() calls.                                                 *)
(***************************************************************************)
EXTENDS AudioObject, SequenceTheorems, TLAPS

ModeType ==
    [attrBypass : BOOLEAN, attrMute : BOOLEAN,
     processMethod : SubclassProcess \cup {Uninitialized},
     currentProcessMethod : SubclassProcess \cup {muteProcess, Uninitialized},
     calculateMethod : SubclassCalculate \cup {Uninitialized, NULL},
     currentCalculateMethod : SubclassCalculate \cup {bypassCalculate, Uninitialized}]

(* The three properties of the setters, of the members m.                  *)
ModeOK(m) ==
    /\ m.processMethod # Uninitialized
    /\ m.currentProcessMethod \in {bypassProcess, muteProcess, m.processMethod}
    /\ m.calculateMethod \notin {Uninitialized, NULL}
    /\ m.currentCalculateMethod \in {bypassCalculate, m.calculateMethod}
    /\ m.attrBypass => /\ m.currentProcessMethod = bypassProcess
                       /\ m.currentCalculateMethod = bypassCalculate
    /\ ~m.attrBypass /\ ~m.attrMute => m.currentProcessMethod = m.processMethod

(* How often a thread that is where c says has taken the lock.             *)
Taken(c) == IF c.pc \in {"wrap", "run"} /\ c.left > 0 THEN 2 ELSE 1

LockOK ==
    /\ \A t \in Threads : call[t].pc # "idle" => /\ lock.owner = t
                                                 /\ lock.depth = Taken(call[t])
    /\ lock.owner = Nobody => lock.depth = 0
    /\ lock.owner # Nobody => call[lock.owner].pc # "idle"

(* No call passes more signals of a kind than the arrays have room for.    *)
FewSignals ==
    \A t \in Threads : Len(call[t].ins) \in 0..2 /\ Len(call[t].outs) \in 0..2

ModeInv ==
    /\ mode \in ModeType
    /\ valid \in BOOLEAN
    /\ ~valid => mode.attrMute = FALSE
    /\ valid => ModeOK(mode)

CallInv ==
    /\ inputArray \in Array
    /\ outputArray \in Array
    /\ lock \in [owner : Threads \cup {Nobody}, depth : 0..2]
    /\ call \in [Threads -> Call]
    /\ LockOK
    /\ FewSignals
    /\ RoutineSeesItsSignals

IInv == ModeInv /\ CallInv

----------------------------------------------------------------------------
(* Each setter, member by member.                                          *)
LEMMA ProcessMembers ==
    ASSUME NEW m \in ModeType, NEW p \in SubclassProcess, NEW r, r = WithProcess(m, p)
    PROVE  /\ r \in ModeType
           /\ r.attrBypass = m.attrBypass /\ r.attrMute = m.attrMute
           /\ r.processMethod = p
           /\ r.calculateMethod = IF m.calculateMethod = NULL THEN defaultCalculateMethod
                                  ELSE m.calculateMethod
           /\ r.currentProcessMethod = IF m.attrBypass THEN m.currentProcessMethod ELSE p
           /\ r.currentCalculateMethod =
                IF m.attrBypass THEN m.currentCalculateMethod ELSE r.calculateMethod
BY DEF ModeType, WithProcess, SubclassCalculate

LEMMA CalculateMembers ==
    ASSUME NEW m \in ModeType, NEW c \in SubclassCalculate, NEW r, r = WithCalculate(m, c)
    PROVE  /\ r \in ModeType
           /\ r.attrBypass = m.attrBypass /\ r.attrMute = m.attrMute
           /\ r.processMethod = m.processMethod
           /\ r.calculateMethod = c
           /\ r.currentProcessMethod = m.currentProcessMethod
           /\ r.currentCalculateMethod = IF m.attrBypass THEN m.currentCalculateMethod ELSE c
BY DEF ModeType, WithCalculate, SubclassCalculate

LEMMA BypassMembers ==
    ASSUME NEW m \in ModeType, NEW on \in BOOLEAN, NEW r, r = WithBypass(m, on)
    PROVE  /\ r \in ModeType
           /\ r.attrBypass = on /\ r.attrMute = m.attrMute
           /\ r.processMethod = m.processMethod
           /\ r.calculateMethod = m.calculateMethod
           /\ r.currentProcessMethod = IF on THEN bypassProcess
                                       ELSE IF m.attrMute THEN muteProcess
                                       ELSE m.processMethod
           /\ r.currentCalculateMethod = IF on THEN bypassCalculate
                                         ELSE IF m.attrMute THEN m.currentCalculateMethod
                                         ELSE IF m.calculateMethod # NULL THEN m.calculateMethod
                                         ELSE defaultCalculateMethod
BY DEF ModeType, WithBypass, SubclassProcess, SubclassCalculate

LEMMA MuteMembers ==
    ASSUME NEW m \in ModeType, NEW on \in BOOLEAN, NEW r, r = WithMute(m, on)
    PROVE  /\ r \in ModeType
           /\ r.attrBypass = m.attrBypass /\ r.attrMute = on
           /\ r.processMethod = m.processMethod
           /\ r.calculateMethod = m.calculateMethod
           /\ r.currentProcessMethod = IF m.attrBypass THEN bypassProcess
                                       ELSE IF on THEN muteProcess
                                       ELSE m.processMethod
           /\ r.currentCalculateMethod = m.currentCalculateMethod
BY DEF ModeType, WithMute, SubclassProcess, SubclassCalculate

(* The setters keep the object consistent, whatever it is set to.          *)
LEMMA SettersKeepMode ==
    ASSUME NEW m \in ModeType, ModeOK(m)
    PROVE  /\ \A p \in SubclassProcess :
                WithProcess(m, p) \in ModeType /\ ModeOK(WithProcess(m, p))
           /\ \A c \in SubclassCalculate :
                WithCalculate(m, c) \in ModeType /\ ModeOK(WithCalculate(m, c))
           /\ \A on \in BOOLEAN :
                /\ WithBypass(m, on) \in ModeType /\ ModeOK(WithBypass(m, on))
                /\ WithMute(m, on) \in ModeType /\ ModeOK(WithMute(m, on))
<1>1. ASSUME NEW p \in SubclassProcess
      PROVE  WithProcess(m, p) \in ModeType /\ ModeOK(WithProcess(m, p))
  <2> DEFINE r == WithProcess(m, p)
  <2>1. /\ r \in ModeType
        /\ r.attrBypass = m.attrBypass /\ r.attrMute = m.attrMute
        /\ r.processMethod = p
        /\ r.calculateMethod = IF m.calculateMethod = NULL THEN defaultCalculateMethod
                               ELSE m.calculateMethod
        /\ r.currentProcessMethod = IF m.attrBypass THEN m.currentProcessMethod ELSE p
        /\ r.currentCalculateMethod =
             IF m.attrBypass THEN m.currentCalculateMethod ELSE r.calculateMethod
      BY ProcessMembers
  <2> HIDE DEF r
  <2>2. ModeOK(r)
      BY <2>1, MethodsAssumption DEF ModeOK, SubclassProcess
  <2>. QED BY <2>1, <2>2 DEF r
<1>2. ASSUME NEW c \in SubclassCalculate
      PROVE  WithCalculate(m, c) \in ModeType /\ ModeOK(WithCalculate(m, c))
  <2> DEFINE r == WithCalculate(m, c)
  <2>1. /\ r \in ModeType
        /\ r.attrBypass = m.attrBypass /\ r.attrMute = m.attrMute
        /\ r.processMethod = m.processMethod
        /\ r.calculateMethod = c
        /\ r.currentProcessMethod = m.currentProcessMethod
        /\ r.currentCalculateMethod = IF m.attrBypass THEN m.currentCalculateMethod ELSE c
      BY CalculateMembers
  <2> HIDE DEF r
  <2>2. ModeOK(r)
      BY <2>1, MethodsAssumption DEF ModeOK, SubclassCalculate
  <2>. QED BY <2>1, <2>2 DEF r
<1>3. ASSUME NEW on \in BOOLEAN
      PROVE  WithBypass(m, on) \in ModeType /\ ModeOK(WithBypass(m, on))
  <2> DEFINE r == WithBypass(m, on)
  <2>1. /\ r \in ModeType
        /\ r.attrBypass = on /\ r.attrMute = m.attrMute
        /\ r.processMethod = m.processMethod
        /\ r.calculateMethod = m.calculateMethod
        /\ r.currentProcessMethod = IF on THEN bypassProcess
                                    ELSE IF m.attrMute THEN muteProcess
                                    ELSE m.processMethod
        /\ r.currentCalculateMethod = IF on THEN bypassCalculate
                                      ELSE IF m.attrMute THEN m.currentCalculateMethod
                                      ELSE IF m.calculateMethod # NULL THEN m.calculateMethod
                                      ELSE defaultCalculateMethod
      BY BypassMembers
  <2> HIDE DEF r
  <2>2. ModeOK(r)
      BY <2>1 DEF ModeOK
  <2>. QED BY <2>1, <2>2 DEF r
<1>4. ASSUME NEW on \in BOOLEAN
      PROVE  WithMute(m, on) \in ModeType /\ ModeOK(WithMute(m, on))
  <2> DEFINE r == WithMute(m, on)
  <2>1. /\ r \in ModeType
        /\ r.attrBypass = m.attrBypass /\ r.attrMute = on
        /\ r.processMethod = m.processMethod
        /\ r.calculateMethod = m.calculateMethod
        /\ r.currentProcessMethod = IF m.attrBypass THEN bypassProcess
                                    ELSE IF on THEN muteProcess
                                    ELSE m.processMethod
        /\ r.currentCalculateMethod = m.currentCalculateMethod
      BY MuteMembers
  <2> HIDE DEF r
  <2>2. ModeOK(r)
      BY <2>1 DEF ModeOK
  <2>. QED BY <2>1, <2>2 DEF r
<1>. QED BY <1>1, <1>2, <1>3, <1>4

(* And the constructor makes it so, whatever it found in memory: what      *)
(* setProcess() read of it is overwritten by setCalculate() and setBypass().*)
LEMMA ConstructedOK ==
    ASSUME NEW m \in ModeType, m.attrMute = FALSE
    PROVE  Constructed(m) \in ModeType /\ ModeOK(Constructed(m))
<1> DEFINE m1 == WithProcess(m, bypassProcess)
           m2 == WithCalculate(m1, defaultCalculateMethod)
           m3 == WithBypass(m2, FALSE)
<1>0. bypassProcess \in SubclassProcess /\ defaultCalculateMethod \in SubclassCalculate
    BY DEF SubclassProcess, SubclassCalculate
<1>1. m1 \in ModeType /\ m1.attrMute = FALSE /\ m1.processMethod = bypassProcess
    BY <1>0, ProcessMembers
<1> HIDE DEF m1
<1>2. /\ m2 \in ModeType /\ m2.attrMute = FALSE /\ m2.processMethod = bypassProcess
      /\ m2.calculateMethod = defaultCalculateMethod
    BY <1>0, <1>1, CalculateMembers
<1> HIDE DEF m2
<1>3. /\ m3 \in ModeType /\ m3.attrBypass = FALSE
      /\ m3.processMethod = bypassProcess /\ m3.calculateMethod = defaultCalculateMethod
      /\ m3.currentProcessMethod = m3.processMethod
      /\ m3.currentCalculateMethod = m3.calculateMethod
  <2>1. /\ m3 \in ModeType
        /\ m3.attrBypass = FALSE
        /\ m3.processMethod = m2.processMethod
        /\ m3.calculateMethod = m2.calculateMethod
        /\ m3.currentProcessMethod = IF m2.attrMute THEN muteProcess ELSE m2.processMethod
        /\ m3.currentCalculateMethod = IF m2.attrMute THEN m2.currentCalculateMethod
                                       ELSE IF m2.calculateMethod # NULL
                                       THEN m2.calculateMethod ELSE defaultCalculateMethod
      BY <1>2, BypassMembers
  <2> HIDE DEF m3
  <2>. QED BY <1>2, <2>1
<1>4. Constructed(m) = m3
    BY DEF Constructed, m1, m2, m3
<1> HIDE DEF m3
<1>5. ModeOK(m3)
    BY <1>3, MethodsAssumption DEF ModeOK
<1>. QED BY <1>3, <1>4, <1>5

----------------------------------------------------------------------------
(* Whoever is inside a call is alone there, and owns the lock.             *)
LEMMA Alone ==
    ASSUME CallInv, NEW t \in Threads, call[t].pc # "idle"
    PROVE  /\ lock.owner = t /\ lock.depth = Taken(call[t])
           /\ \A u \in Threads \ {t} : call[u].pc = "idle"
BY DEF CallInv, LockOK

(* A thread that may enter a call finds the lock free, and nobody inside.  *)
LEMMA Entering ==
    ASSUME CallInv, NEW t \in Threads, call[t].pc = "idle", MayLock(t)
    PROVE  /\ lock.owner = Nobody /\ lock.depth = 0
           /\ \A u \in Threads : call[u].pc = "idle"
           /\ Locked(t) = [owner |-> t, depth |-> 1]
<1>1. lock.owner = Nobody
    BY DEF CallInv, LockOK, MayLock
<1>2. lock.depth = 0
    BY <1>1 DEF CallInv, LockOK
<1>3. \A u \in Threads : call[u].pc = "idle"
    BY <1>1, CallersAssumption DEF CallInv, LockOK
<1>. QED BY <1>1, <1>2, <1>3 DEF Locked

(* What a step of one thread has to leave behind it: its own place in a    *)
(* call, with the lock taken as often as that place says, and the arrays.  *)
LEMMA ThreadStep ==
    ASSUME CallInv, NEW t \in Threads,
           call' \in [Threads -> Call],
           \A u \in Threads \ {t} : call'[u] = call[u] /\ call[u].pc = "idle",
           call'[t].pc = "idle" => lock' = [owner |-> Nobody, depth |-> 0],
           call'[t].pc # "idle" => lock' = [owner |-> t, depth |-> Taken(call'[t])],
           Len(call'[t].ins) \in 0..2, Len(call'[t].outs) \in 0..2,
           inputArray' \in Array, outputArray' \in Array,
           call'[t].pc = "run" /\ ~call'[t].own =>
             /\ inputArray'.num = Len(call'[t].ins)
             /\ \A i \in 1..inputArray'.num : inputArray'.signals[i] = call'[t].ins[i]
             /\ outputArray'.num = Len(call'[t].outs)
             /\ \A i \in 1..outputArray'.num : outputArray'.signals[i] = call'[t].outs[i]
    PROVE  CallInv'
<1>1. Taken(call'[t]) \in {1, 2}
    BY DEF Taken
<1>2. lock' \in [owner : Threads \cup {Nobody}, depth : 0..2]
    BY <1>1
<1>3. LockOK'
    BY <1>1, CallersAssumption DEF LockOK, Taken
<1>4. FewSignals'
    BY DEF FewSignals, CallInv
<1>5. RoutineSeesItsSignals'
    BY DEF RoutineSeesItsSignals
<1>. QED BY <1>2, <1>3, <1>4, <1>5 DEF CallInv

(* Two of the signals a thread passes are a short sequence of signals.     *)
LEMMA Passed ==
    ASSUME NEW two \in [1..2 -> Signals], NEW n \in 0..2
    PROVE  SubSeq(two, 1, n) \in Seq(Signals) /\ Len(SubSeq(two, 1, n)) = n
<1>1. \A i \in 1..n : two[i] \in Signals
    OBVIOUS
<1>. QED BY <1>1, SubSeqProperties

(* No call: the place every call starts from.                              *)
LEMMA IdleIsACall ==
    /\ Idle \in Call
    /\ Idle.pc = "idle" /\ Idle.own = FALSE /\ Idle.left = 0
    /\ Idle.ins = <<>> /\ Idle.outs = <<>>
    /\ Len(Idle.ins) = 0 /\ Len(Idle.outs) = 0
<1>1. /\ Idle \in Call
      /\ Idle.pc = "idle" /\ Idle.own = FALSE /\ Idle.left = 0
      /\ Idle.ins = <<>> /\ Idle.outs = <<>>
    BY CallersAssumption DEF Idle, Call
<1>2. Len(Idle.ins) = 0 /\ Len(Idle.outs) = 0
    BY <1>1
<1>. QED BY <1>1, <1>2

LEMMA ArrayWrapped ==
    ASSUME NEW array \in Array, NEW passed \in Seq(Signals), Len(passed) \in 0..2
    PROVE  LET w == Wrapped(array, passed)
           IN  /\ w \in Array
               /\ w.num = Len(passed)
               /\ \A i \in 1..w.num : w.signals[i] = passed[i]
<1>1. \A i \in 1..Len(passed) : passed[i] \in Signals
    OBVIOUS
<1>. QED BY <1>1 DEF Wrapped, Array

----------------------------------------------------------------------------
(* The steps of a call.                                                    *)
LEMMA EnterKeeps ==
    ASSUME IInv, NEW t \in Threads, Enter(t)
    PROVE  CallInv'
<1> USE DEF IInv
<1>0. /\ call[t].pc = "idle" /\ MayLock(t) /\ lock' = Locked(t)
      /\ UNCHANGED <<mode, valid, inputArray, outputArray>>
    BY DEF Enter, process, processArrays, calculate
<1>1. /\ lock' = [owner |-> t, depth |-> 1]
      /\ \A u \in Threads : call[u].pc = "idle"
    BY <1>0, Entering
<1>2. call \in [Threads -> Call] /\ inputArray \in Array /\ outputArray \in Array
    BY DEF CallInv
<1>3. CASE \E form \in Forms : process(t, form)
  <2>1. PICK form \in Forms : process(t, form)
      BY <1>3
  <2>2. form[1] \in 0..2 /\ form[2] \in 0..2
      BY DEF Forms
  <2> DEFINE ins == SubSeq(Inputs[t], 1, form[1])
             outs == SubSeq(Outputs[t], 1, form[2])
             c == [Idle EXCEPT !.pc = "wrap", !.ins = ins, !.outs = outs]
  <2>3. /\ ins \in Seq(Signals) /\ Len(ins) \in 0..2
        /\ outs \in Seq(Signals) /\ Len(outs) \in 0..2
      BY <2>2, Passed, CallersAssumption
  <2>4. call' = [call EXCEPT ![t] = c]
      BY <2>1 DEF process
  <2> HIDE DEF ins, outs
  <2>5. /\ c \in Call
        /\ c.pc = "wrap" /\ c.left = 0 /\ c.ins = ins /\ c.outs = outs
      BY <2>3, CallersAssumption, IdleIsACall DEF Call
  <2> HIDE DEF c
  <2>6. /\ call' \in [Threads -> Call]
        /\ call'[t] = c
        /\ \A u \in Threads \ {t} : call'[u] = call[u]
      BY <1>2, <2>4, <2>5
  <2>7. Taken(c) = 1
      BY <2>5 DEF Taken
  <2>. QED BY <1>0, <1>1, <1>2, <2>3, <2>5, <2>6, <2>7, ThreadStep
<1>4. CASE processArrays(t)
  <2> DEFINE c == [Idle EXCEPT !.pc = "run", !.own = TRUE,
                               !.routine = mode.currentProcessMethod]
  <2>1. call' = [call EXCEPT ![t] = c]
      BY <1>4 DEF processArrays
  <2>2. mode.currentProcessMethod \in SubclassProcess \cup {muteProcess, Uninitialized}
      BY DEF ModeInv, ModeType
  <2>3. /\ c \in Call
        /\ c.pc = "run" /\ c.own = TRUE /\ c.left = 0 /\ c.ins = <<>> /\ c.outs = <<>>
      BY <2>2, CallersAssumption, IdleIsACall DEF Call
  <2> HIDE DEF c
  <2>4. /\ call' \in [Threads -> Call]
        /\ call'[t] = c
        /\ \A u \in Threads \ {t} : call'[u] = call[u]
      BY <1>2, <2>1, <2>3
  <2>5. Taken(c) = 1
      BY <2>3 DEF Taken
  <2>6. Len(c.ins) = 0 /\ Len(c.outs) = 0
      BY <2>3
  <2>. QED BY <1>0, <1>1, <1>2, <2>3, <2>4, <2>5, <2>6, ThreadStep
<1>5. CASE \E n \in 0..MaxListLength : calculate(t, n)
  <2>1. PICK n \in 0..MaxListLength : calculate(t, n)
      BY <1>5
  <2> DEFINE c == [Idle EXCEPT !.pc = "calculate", !.left = n]
  <2>2. call' = [call EXCEPT ![t] = c]
      BY <2>1 DEF calculate
  <2>3. /\ c \in Call
        /\ c.pc = "calculate" /\ c.ins = <<>> /\ c.outs = <<>>
      BY CallersAssumption, IdleIsACall DEF Call
  <2> HIDE DEF c
  <2>4. /\ call' \in [Threads -> Call]
        /\ call'[t] = c
        /\ \A u \in Threads \ {t} : call'[u] = call[u]
      BY <1>2, <2>2, <2>3
  <2>5. Taken(c) = 1
      BY <2>3 DEF Taken
  <2>6. Len(c.ins) = 0 /\ Len(c.outs) = 0
      BY <2>3
  <2>. QED BY <1>0, <1>1, <1>2, <2>3, <2>4, <2>5, <2>6, ThreadStep
<1>. QED BY <1>3, <1>4, <1>5 DEF Enter

LEMMA WrapKeeps ==
    ASSUME IInv, NEW t \in Threads, Wrap(t)
    PROVE  CallInv'
<1> USE DEF IInv
<1>1. /\ call[t].pc = "wrap"
      /\ inputArray' = Wrapped(inputArray, call[t].ins)
      /\ outputArray' = Wrapped(outputArray, call[t].outs)
      /\ call' = [call EXCEPT ![t].pc = "run", ![t].routine = mode.currentProcessMethod]
      /\ lock' = lock
    BY DEF Wrap
<1>2. /\ call \in [Threads -> Call] /\ inputArray \in Array /\ outputArray \in Array
      /\ lock \in [owner : Threads \cup {Nobody}, depth : 0..2]
      /\ Len(call[t].ins) \in 0..2 /\ Len(call[t].outs) \in 0..2
    BY DEF CallInv, FewSignals
<1>3. /\ lock.owner = t /\ lock.depth = Taken(call[t])
      /\ \A u \in Threads \ {t} : call[u].pc = "idle"
    BY <1>1, Alone
<1>4. mode.currentProcessMethod \in SubclassProcess \cup {muteProcess, Uninitialized}
    BY DEF ModeInv, ModeType
<1>5. /\ call' \in [Threads -> Call]
      /\ \A u \in Threads \ {t} : call'[u] = call[u]
      /\ call'[t].pc = "run" /\ call'[t].left = call[t].left
      /\ call'[t].ins = call[t].ins /\ call'[t].outs = call[t].outs
  <2> DEFINE c == [call[t] EXCEPT !.pc = "run", !.routine = mode.currentProcessMethod]
  <2>1. call' = [call EXCEPT ![t] = c]
      BY <1>1, <1>2
  <2>2. /\ c \in Call
        /\ c.pc = "run" /\ c.left = call[t].left
        /\ c.ins = call[t].ins /\ c.outs = call[t].outs
      BY <1>2, <1>4 DEF Call
  <2> HIDE DEF c
  <2>. QED BY <1>2, <2>1, <2>2
<1>6. Taken(call'[t]) = Taken(call[t])
    BY <1>1, <1>5 DEF Taken
<1>7. lock' = [owner |-> t, depth |-> Taken(call'[t])]
    BY <1>1, <1>2, <1>3, <1>6
<1>8. call[t].ins \in Seq(Signals) /\ call[t].outs \in Seq(Signals)
    BY <1>2 DEF Call
<1>9. /\ inputArray' \in Array /\ outputArray' \in Array
      /\ inputArray'.num = Len(call'[t].ins)
      /\ \A i \in 1..inputArray'.num : inputArray'.signals[i] = call'[t].ins[i]
      /\ outputArray'.num = Len(call'[t].outs)
      /\ \A i \in 1..outputArray'.num : outputArray'.signals[i] = call'[t].outs[i]
    BY <1>1, <1>2, <1>5, <1>8, ArrayWrapped
<1>. QED BY <1>2, <1>3, <1>5, <1>7, <1>9, ThreadStep

LEMMA ReturnKeeps ==
    ASSUME IInv, NEW t \in Threads, Return(t)
    PROVE  CallInv'
<1> USE DEF IInv
<1>1. /\ call[t].pc = "run" /\ lock' = Unlocked
      /\ inputArray' = inputArray /\ outputArray' = outputArray
    BY DEF Return
<1>2. /\ call \in [Threads -> Call] /\ inputArray \in Array /\ outputArray \in Array
      /\ lock \in [owner : Threads \cup {Nobody}, depth : 0..2]
      /\ Len(call[t].ins) \in 0..2 /\ Len(call[t].outs) \in 0..2
    BY DEF CallInv, FewSignals
<1>3. /\ lock.owner = t /\ lock.depth = Taken(call[t])
      /\ \A u \in Threads \ {t} : call[u].pc = "idle"
    BY <1>1, Alone
<1>4. CASE call[t].left > 0
  <2> DEFINE c == [call[t] EXCEPT !.pc = "calculate", !.left = call[t].left - 1]
  <2>1. call' = [call EXCEPT ![t] = c]
      BY <1>2, <1>4 DEF Return
  <2>2. call[t].left - 1 \in 0..MaxListLength
      BY <1>2, <1>4, CallersAssumption DEF Call
  <2>3. /\ c \in Call
        /\ c.pc = "calculate" /\ c.ins = call[t].ins /\ c.outs = call[t].outs
      BY <1>2, <2>2 DEF Call
  <2> HIDE DEF c
  <2>4. /\ call' \in [Threads -> Call] /\ call'[t] = c
        /\ \A u \in Threads \ {t} : call'[u] = call[u]
      BY <1>2, <2>1, <2>3
  <2>5. Taken(call[t]) = 2 /\ Taken(c) = 1
      BY <1>1, <1>4, <2>3 DEF Taken
  <2>6. lock' = [owner |-> t, depth |-> 1]
      BY <1>1, <1>3, <2>5 DEF Unlocked
  <2>. QED BY <1>1, <1>2, <1>3, <2>3, <2>4, <2>5, <2>6, ThreadStep
<1>5. CASE ~(call[t].left > 0)
  <2>1. call' = [call EXCEPT ![t] = Idle]
      BY <1>5 DEF Return
  <2>2. /\ call' \in [Threads -> Call] /\ call'[t] = Idle
        /\ \A u \in Threads \ {t} : call'[u] = call[u]
      BY <1>2, <2>1, IdleIsACall
  <2>3. Taken(call[t]) = 1
      BY <1>5 DEF Taken
  <2>4. lock' = [owner |-> Nobody, depth |-> 0]
      BY <1>1, <1>3, <2>3 DEF Unlocked
  <2>5. /\ call'[t].pc = "idle"
        /\ Len(call'[t].ins) \in 0..2 /\ Len(call'[t].outs) \in 0..2
      BY <2>2, IdleIsACall
  <2>. QED BY <1>1, <1>2, <1>3, <2>2, <2>4, <2>5, ThreadStep
<1>. QED BY <1>4, <1>5

LEMMA CalculateOneKeeps ==
    ASSUME IInv, NEW t \in Threads, CalculateOne(t)
    PROVE  CallInv'
<1> USE DEF IInv
<1>1. /\ call[t].pc = "calculate" /\ call[t].left > 0
      /\ inputArray' = inputArray /\ outputArray' = outputArray
    BY DEF CalculateOne
<1>2. /\ call \in [Threads -> Call] /\ inputArray \in Array /\ outputArray \in Array
      /\ lock \in [owner : Threads \cup {Nobody}, depth : 0..2]
      /\ Len(call[t].ins) \in 0..2 /\ Len(call[t].outs) \in 0..2
      /\ call[t].left \in 0..MaxListLength
    BY DEF CallInv, FewSignals, Call
<1>3. /\ lock.owner = t /\ lock.depth = 1
      /\ \A u \in Threads \ {t} : call[u].pc = "idle"
    BY <1>1, Alone DEF Taken
<1>4. CASE mode.currentCalculateMethod = defaultCalculateMethod
  <2> DEFINE ins == <<Scratch[1]>>
             outs == <<Scratch[2]>>
             c == [call[t] EXCEPT !.pc = "wrap", !.ins = ins, !.outs = outs]
  <2>1. call' = [call EXCEPT ![t] = c]
      BY <1>2, <1>4 DEF CalculateOne
  <2>2. ins \in Seq(Signals) /\ outs \in Seq(Signals) /\ Len(ins) = 1 /\ Len(outs) = 1
      BY CallersAssumption
  <2> HIDE DEF ins, outs
  <2>3. /\ c \in Call
        /\ c.pc = "wrap" /\ c.left = call[t].left /\ c.ins = ins /\ c.outs = outs
      BY <1>2, <2>2 DEF Call
  <2> HIDE DEF c
  <2>4. /\ call' \in [Threads -> Call] /\ call'[t] = c
        /\ \A u \in Threads \ {t} : call'[u] = call[u]
      BY <1>2, <2>1, <2>3
  <2>5. Taken(c) = 2
      BY <1>1, <2>3 DEF Taken
  <2>6. lock' = [owner |-> t, depth |-> 2]
      BY <1>3, <1>4 DEF CalculateOne, Locked
  <2>. QED BY <1>1, <1>2, <1>3, <2>2, <2>3, <2>4, <2>5, <2>6, ThreadStep
<1>5. CASE mode.currentCalculateMethod # defaultCalculateMethod
  <2> DEFINE c == [call[t] EXCEPT !.left = call[t].left - 1]
  <2>1. call' = [call EXCEPT ![t] = c] /\ lock' = lock
      BY <1>2, <1>5 DEF CalculateOne
  <2>2. call[t].left - 1 \in 0..MaxListLength
      BY <1>1, <1>2, CallersAssumption
  <2>3. /\ c \in Call
        /\ c.pc = "calculate" /\ c.ins = call[t].ins /\ c.outs = call[t].outs
      BY <1>1, <1>2, <2>2 DEF Call
  <2> HIDE DEF c
  <2>4. /\ call' \in [Threads -> Call] /\ call'[t] = c
        /\ \A u \in Threads \ {t} : call'[u] = call[u]
      BY <1>2, <2>1, <2>3
  <2>5. Taken(c) = 1
      BY <2>3 DEF Taken
  <2>6. lock' = [owner |-> t, depth |-> 1]
      BY <1>2, <1>3, <2>1
  <2>. QED BY <1>1, <1>2, <1>3, <2>3, <2>4, <2>5, <2>6, ThreadStep
<1>. QED BY <1>4, <1>5

LEMMA CalculateReturnKeeps ==
    ASSUME IInv, NEW t \in Threads, CalculateReturn(t)
    PROVE  CallInv'
<1> USE DEF IInv
<1>1. /\ call[t].pc = "calculate" /\ lock' = Unlocked /\ call' = [call EXCEPT ![t] = Idle]
      /\ inputArray' = inputArray /\ outputArray' = outputArray
    BY DEF CalculateReturn
<1>2. call \in [Threads -> Call] /\ inputArray \in Array /\ outputArray \in Array
    BY DEF CallInv
<1>3. /\ lock.owner = t /\ lock.depth = 1
      /\ \A u \in Threads \ {t} : call[u].pc = "idle"
    BY <1>1, Alone DEF Taken
<1>4. lock' = [owner |-> Nobody, depth |-> 0]
    BY <1>1, <1>3 DEF Unlocked
<1>5. /\ call' \in [Threads -> Call] /\ call'[t] = Idle
      /\ \A u \in Threads \ {t} : call'[u] = call[u]
    BY <1>1, <1>2, IdleIsACall
<1>6. /\ call'[t].pc = "idle"
      /\ Len(call'[t].ins) \in 0..2 /\ Len(call'[t].outs) \in 0..2
    BY <1>5, IdleIsACall
<1>. QED BY <1>1, <1>2, <1>3, <1>4, <1>5, <1>6, ThreadStep

----------------------------------------------------------------------------
(* The invariant holds of a new object ...                                 *)
LEMMA InitOK == Init => IInv
<1> SUFFICES ASSUME Init PROVE IInv
    OBVIOUS
<1>1. mode \in ModeType /\ valid = FALSE /\ mode.attrMute = FALSE
    BY DEF Init, ModeType
<1>2. inputArray \in Array /\ outputArray \in Array
    BY DEF Init, EmptyArray, Array
<1>3. /\ call \in [Threads -> Call]
      /\ \A t \in Threads : call[t] = Idle
      /\ lock = [owner |-> Nobody, depth |-> 0]
    BY IdleIsACall DEF Init
<1>4. LockOK
    BY <1>3, IdleIsACall DEF LockOK
<1>5. FewSignals /\ RoutineSeesItsSignals
    BY <1>3, IdleIsACall DEF FewSignals, RoutineSeesItsSignals
<1>6. lock \in [owner : Threads \cup {Nobody}, depth : 0..2]
    BY <1>3
<1>. QED BY <1>1, <1>2, <1>3, <1>4, <1>5, <1>6 DEF IInv, ModeInv, CallInv

(* ... and every step keeps it: the constructor and the setters the one    *)
(* half, the steps of a call the other.                                    *)
LEMMA NextKeeps == IInv /\ [Next]_vars => IInv'
<1> SUFFICES ASSUME IInv, [Next]_vars PROVE IInv'
    OBVIOUS
<1>1. ASSUME UNCHANGED <<inputArray, outputArray, lock, call>> PROVE CallInv'
    BY <1>1 DEF IInv, CallInv, LockOK, FewSignals, RoutineSeesItsSignals
<1>2. ASSUME UNCHANGED <<mode, valid>> PROVE ModeInv'
    BY <1>2 DEF IInv, ModeInv
<1>3. ASSUME NEW p \in SubclassProcess, NEW c \in SubclassCalculate, construct(p, c)
      PROVE  IInv'
  <2> DEFINE m1 == Constructed(mode)
             m2 == WithProcess(m1, p)
             m3 == WithCalculate(m2, c)
  <2>1. mode \in ModeType /\ mode.attrMute = FALSE
      BY <1>3 DEF construct, IInv, ModeInv
  <2>2. m1 \in ModeType /\ ModeOK(m1)
      BY <2>1, ConstructedOK
  <2> HIDE DEF m1
  <2>3. m2 \in ModeType /\ ModeOK(m2)
      BY <2>2, SettersKeepMode
  <2> HIDE DEF m2
  <2>4. m3 \in ModeType /\ ModeOK(m3)
      BY <2>3, SettersKeepMode
  <2>5. /\ mode' = m3 /\ valid' = TRUE
        /\ UNCHANGED <<inputArray, outputArray, lock, call>>
      BY <1>3 DEF construct, m1, m2
  <2> HIDE DEF m3
  <2>. QED BY <1>1, <2>4, <2>5 DEF IInv, ModeInv
<1>4. ASSUME Setter PROVE IInv'
  <2>1. valid /\ mode \in ModeType /\ ModeOK(mode)
      BY <1>4 DEF Setter, setProcess, setCalculate, setBypass, setMute, Set, IInv, ModeInv
  <2>2. mode' \in ModeType /\ ModeOK(mode')
    <3>1. ASSUME NEW p \in Routines, setProcess(p) PROVE mode' \in ModeType /\ ModeOK(mode')
        BY <2>1, <3>1, SettersKeepMode DEF setProcess, Set, SubclassProcess
    <3>2. ASSUME NEW c \in Calculators, setCalculate(c)
          PROVE  mode' \in ModeType /\ ModeOK(mode')
        BY <2>1, <3>2, SettersKeepMode DEF setCalculate, Set, SubclassCalculate
    <3>3. ASSUME NEW on \in BOOLEAN, setBypass(on) PROVE mode' \in ModeType /\ ModeOK(mode')
        BY <2>1, <3>3, SettersKeepMode DEF setBypass, Set
    <3>4. ASSUME NEW on \in BOOLEAN, setMute(on) PROVE mode' \in ModeType /\ ModeOK(mode')
        BY <2>1, <3>4, SettersKeepMode DEF setMute, Set
    <3>. QED BY <1>4, <3>1, <3>2, <3>3, <3>4 DEF Setter
  <2>3. UNCHANGED <<valid, inputArray, outputArray, lock, call>>
      BY <1>4 DEF Setter, setProcess, setCalculate, setBypass, setMute, Set
  <2>. QED BY <1>1, <2>1, <2>2, <2>3 DEF IInv, ModeInv
<1>5. ASSUME NEW t \in Threads, Enter(t) PROVE IInv'
    BY <1>2, <1>5, EnterKeeps DEF IInv, Enter, process, processArrays, calculate
<1>6. ASSUME NEW t \in Threads, Inside(t) PROVE IInv'
  <2>1. UNCHANGED <<mode, valid>>
      BY <1>6 DEF Inside, Wrap, Return, CalculateOne, CalculateReturn
  <2>2. CallInv'
      BY <1>6, WrapKeeps, ReturnKeeps, CalculateOneKeeps, CalculateReturnKeeps DEF Inside
  <2>. QED BY <1>2, <2>1, <2>2 DEF IInv
<1>7. CASE UNCHANGED vars
    BY <1>1, <1>2, <1>7 DEF IInv, vars
<1>. QED BY <1>3, <1>4, <1>5, <1>6, <1>7 DEF Next

----------------------------------------------------------------------------
(* Any number of threads, routines and signals, and lists of any length.   *)
THEOREM Invariance == Spec => []IInv
<1>. QED BY InitOK, NextKeeps, PTL DEF Spec

(* The types of the members, and that no thread takes the lock more than   *)
(* twice.                                                                  *)
THEOREM ObjectTypeOK == Spec => []TypeOK
<1>1. IInv => TypeOK
    BY DEF IInv, ModeInv, CallInv, ModeType, TypeOK
<1>. QED BY <1>1, Invariance, PTL

(* The object never runs a routine the subclass has replaced, nor what the *)
(* constructor found in memory.                                            *)
THEOREM RoutineIsCurrent == Spec => []NoStaleRoutine
<1>1. IInv => NoStaleRoutine
    BY DEF IInv, ModeInv, ModeOK, NoStaleRoutine
<1>. QED BY <1>1, Invariance, PTL

(* Bypass wins over everything that is set while it is on.                 *)
THEOREM Bypassed == Spec => []BypassWins
<1>1. IInv => BypassWins
    BY DEF IInv, ModeInv, ModeOK, BypassWins
<1>. QED BY <1>1, Invariance, PTL

(* Neither bypassed nor muted, the object runs its own routine.            *)
THEOREM Heard == Spec => []UnmutedIsHeard
<1>1. IInv => UnmutedIsHeard
    BY DEF IInv, ModeInv, ModeOK, UnmutedIsHeard
<1>. QED BY <1>1, Invariance, PTL

(* A routine finds the signals of its own call in the two arrays that all  *)
(* calls on the object share, the nested ones of calculate() included.     *)
THEOREM SignalsAreItsOwn == Spec => []RoutineSeesItsSignals
<1>1. IInv => RoutineSeesItsSignals
    BY DEF IInv, CallInv
<1>. QED BY <1>1, Invariance, PTL

----------------------------------------------------------------------------
(* How many steps a call that is where c says may still take at most.      *)
StepsLeft(c) ==
    CASE c.pc = "idle"      -> 0
      [] c.pc = "run"       -> 3 * c.left + 1
      [] c.pc = "wrap"      -> 3 * c.left + 2
      [] c.pc = "calculate" -> 3 * c.left + 3

LEMMA InsideGoesForward ==
    ASSUME IInv, NEW t \in Threads, Inside(t)
    PROVE  /\ StepsLeft(call'[t]) < StepsLeft(call[t])
           /\ \A u \in Threads \ {t} : call'[u] = call[u]
<1>1. call \in [Threads -> Call] /\ call[t] \in Call
      BY DEF IInv, CallInv
<1> DEFINE c == call[t]
           n == c.left
<1>2. n \in Nat
      BY <1>1, CallersAssumption DEF Call
<1>3. CASE Wrap(t)
  <2>1. c.pc = "wrap" /\ call'[t].pc = "run" /\ call'[t].left = n
        BY <1>1, <1>3 DEF Wrap, Call
  <2>. QED BY <1>1, <1>2, <1>3, <2>1 DEF Wrap, StepsLeft
<1>4. CASE Return(t)
  <2>1. CASE n > 0
    <3>1. c.pc = "run" /\ call'[t].pc = "calculate" /\ call'[t].left = n - 1
          BY <1>1, <1>4, <2>1 DEF Return, Call
    <3>. QED BY <1>1, <1>2, <1>4, <2>1, <3>1 DEF Return, StepsLeft
  <2>2. CASE ~(n > 0)
    <3>1. c.pc = "run" /\ call'[t].pc = "idle"
          BY <1>1, <1>4, <2>2 DEF Return, Idle
    <3>. QED BY <1>1, <1>2, <1>4, <2>2, <3>1 DEF Return, StepsLeft
  <2>. QED BY <2>1, <2>2
<1>5. CASE CalculateOne(t)
  <2>1. c.pc = "calculate" /\ n > 0
        BY <1>5 DEF CalculateOne
  <2>2. CASE mode.currentCalculateMethod = defaultCalculateMethod
    <3>1. call'[t].pc = "wrap" /\ call'[t].left = n
          BY <1>1, <1>5, <2>2 DEF CalculateOne, Call
    <3>. QED BY <1>1, <1>2, <1>5, <2>1, <2>2, <3>1 DEF CalculateOne, StepsLeft
  <2>3. CASE mode.currentCalculateMethod # defaultCalculateMethod
    <3>1. call'[t].pc = "calculate" /\ call'[t].left = n - 1
          BY <1>1, <1>5, <2>1, <2>3 DEF CalculateOne, Call
    <3>. QED BY <1>1, <1>2, <1>5, <2>1, <2>3, <3>1 DEF CalculateOne, StepsLeft
  <2>. QED BY <2>2, <2>3
<1>6. CASE CalculateReturn(t)
  <2>1. c.pc = "calculate" /\ call'[t].pc = "idle"
        BY <1>1, <1>6 DEF CalculateReturn, Idle
  <2>. QED BY <1>1, <1>2, <1>6, <2>1 DEF CalculateReturn, StepsLeft
<1>. QED BY <1>3, <1>4, <1>5, <1>6 DEF Inside

(* No call goes round in circles or is moved by another: each of its own   *)
(* steps leaves fewer, also where calculate() calls process() for a list   *)
(* while the methods are changed under it.  With the fairness assumed this *)
(* is why CallsReturn holds.                                               *)
THEOREM CallsGoForward ==
    Spec => [][\A t \in Threads : call[t].pc # "idle" =>
                  \/ call'[t] = call[t]
                  \/ StepsLeft(call'[t]) < StepsLeft(call[t])]_vars
<1>1. ASSUME IInv, Next, NEW t \in Threads, call[t].pc # "idle"
      PROVE  call'[t] = call[t] \/ StepsLeft(call'[t]) < StepsLeft(call[t])
  <2>1. CASE UNCHANGED call
        BY <2>1
  <2>2. ASSUME NEW u \in Threads, Enter(u)
        PROVE  call'[t] = call[t]
    <3>1. call \in [Threads -> Call] /\ call[u].pc = "idle"
          BY <1>1, <2>2 DEF IInv, CallInv, Enter, process, processArrays, calculate
    <3>. QED BY <1>1, <2>2, <3>1 DEF Enter, process, processArrays, calculate
  <2>3. ASSUME NEW u \in Threads, Inside(u)
        PROVE  call'[t] = call[t] \/ StepsLeft(call'[t]) < StepsLeft(call[t])
        BY <1>1, <2>3, InsideGoesForward
  <2>. QED BY <1>1, <2>1, <2>2, <2>3
           DEF Next, construct, Setter, setProcess, setCalculate, setBypass, setMute, Set
<1>2. ASSUME IInv, [Next]_vars
      PROVE  [\A t \in Threads : call[t].pc # "idle" =>
                 \/ call'[t] = call[t]
                 \/ StepsLeft(call'[t]) < StepsLeft(call[t])]_vars
      BY <1>1, <1>2
<1>. QED BY <1>2, Invariance, PTL DEF Spec

(* A thread that has returned from its call has given the lock back, as    *)
(* often as it took it: the first half of CallsReturn's promise.           *)
THEOREM LockGivenBack == Spec => [](\A t \in Threads : call[t].pc = "idle" => lock.owner # t)
<1>1. ASSUME IInv, NEW t \in Threads, call[t].pc = "idle"
      PROVE  lock.owner # t
      BY <1>1, CallersAssumption DEF IInv, CallInv, LockOK
<1>2. IInv => \A t \in Threads : call[t].pc = "idle" => lock.owner # t
      BY <1>1
<1>. QED BY <1>2, Invariance, PTL
=============================================================================
