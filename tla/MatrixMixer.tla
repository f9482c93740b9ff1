---------------------------- MODULE MatrixMixer ----------------------------
(***************************************************************************)
(* TTMatrixMixer (extensions/MathLib/source/TTMatrixMixer.cpp): a gain for *)
(* every pair of an input and an output signal, in a matrix that every     *)
(* vector resizes to the signals it is given, by the numbers it compares.  *)
(* These are attributes too, and writing one does not resize anything.     *)
(* Messages set gains between vectors, for the pairs the matrix then has:  *)
(* SetGain and the others do not check, and are sent with indices in it.   *)
(***************************************************************************)
EXTENDS Integers

CONSTANTS Counts,  \* of signals
          Gains

ConstantsOK == Counts \subseteq Nat /\ Gains \subseteq Nat /\ 0 \in Gains

VARIABLES mNumInputs, mNumOutputs,
          mGainMatrix,  \* columns by input, each a vector of gains by output
          asked,        \* history: the gains set and not dropped since
          written       \* history: the numbers written since the matrix was resized to them

vars == <<mNumInputs, mNumOutputs, mGainMatrix, asked, written>>

UpTo(n) == 0..(n - 1)

(* vector::resize: what stays is kept, what is new is the default.         *)
resize(vector, n, default) ==
    [i \in UpTo(n) |-> IF i \in DOMAIN vector THEN vector[i] ELSE default]

Empty == [i \in {} |-> 0]

(* Slip: new columns are left without rows.                                *)
withInputsBare(m, columns, rows) == resize(m, columns, Empty)

(* setNumInputs(): the columns, and then the rows of each.                 *)
withInputs(m, columns, rows) ==
    LET resized == resize(m, columns, Empty)
    IN  [x \in UpTo(columns) |-> resize(resized[x], rows, 0)]

withOutputs(m, rows) == [x \in DOMAIN m |-> resize(m[x], rows, 0)]

----------------------------------------------------------------------------
Init ==
    /\ mNumInputs = 0 /\ mNumOutputs = 0
    /\ mGainMatrix = Empty
    /\ asked = Empty
    /\ written = {}

(* The attributes have no setter: the matrix stays as it is.               *)
writeNumInputs(n) ==
    /\ n # mNumInputs
    /\ mNumInputs' = n
    /\ written' = written \cup {"inputs"}
    /\ UNCHANGED <<mNumOutputs, mGainMatrix, asked>>

writeNumOutputs(n) ==
    /\ n # mNumOutputs
    /\ mNumOutputs' = n
    /\ written' = written \cup {"outputs"}
    /\ UNCHANGED <<mNumInputs, mGainMatrix, asked>>

(* SetGain(), SetLinearGain() and SetMidiGain().                           *)
SetGain(x, y, gain) ==
    /\ mGainMatrix' = [mGainMatrix EXCEPT ![x][y] = gain]
    /\ asked' = [p \in DOMAIN asked \cup {<<x, y>>} |-> IF p = <<x, y>> THEN gain ELSE asked[p]]
    /\ UNCHANGED <<mNumInputs, mNumOutputs, written>>

Clear ==
    /\ mGainMatrix' = [x \in DOMAIN mGainMatrix |-> [y \in UpTo(mNumOutputs) |-> 0]]
    /\ asked' = Empty
    /\ written' = written \ {"outputs"}
    /\ UNCHANGED <<mNumInputs, mNumOutputs>>

(* The gains left when there are no more than so many inputs, or outputs.  *)
ofInputs(gains, n) == [p \in {q \in DOMAIN gains : q[1] < n} |-> gains[p]]
ofOutputs(gains, n) == [p \in {q \in DOMAIN gains : q[2] < n} |-> gains[p]]

(* setNumInputs(), where the vector brings another number.                 *)
ResizedToInputs(n) ==
    IF n = mNumInputs THEN [m |-> mGainMatrix, gains |-> asked, written |-> written]
    ELSE [m |-> withInputs(mGainMatrix, n, mNumOutputs),
          gains |-> ofOutputs(ofInputs(asked, n), mNumOutputs),
          written |-> {}]

(* One vector: setNumInputs() and setNumOutputs(), then for every output   *)
(* the sum of the inputs by mGainMatrix[x][y].  After a write of the very  *)
(* number that comes, nothing is resized, and what it reads there may lie  *)
(* outside of the matrix.                                                  *)
processAudio(inputs, outputs) ==
    LET first == ResizedToInputs(inputs)
        same == outputs = mNumOutputs
    IN  /\ mNumInputs' = inputs /\ mNumOutputs' = outputs
        /\ mGainMatrix' = IF same THEN first.m ELSE withOutputs(first.m, outputs)
        /\ asked' = IF same THEN first.gains ELSE ofOutputs(first.gains, outputs)
        /\ written' = IF same THEN first.written ELSE first.written \ {"outputs"}

Next ==
    \/ \E n \in Counts : writeNumInputs(n) \/ writeNumOutputs(n)
    \/ \E x \in DOMAIN mGainMatrix, gain \in Gains :
          \E y \in DOMAIN mGainMatrix[x] : SetGain(x, y, gain)
    \/ Clear
    \/ \E inputs, outputs \in Counts : processAudio(inputs, outputs)

Spec == Init /\ [][Next]_vars

----------------------------------------------------------------------------
TypeOK ==
    /\ mNumInputs \in Counts \cup {0} /\ mNumOutputs \in Counts \cup {0}
    /\ \A x \in DOMAIN mGainMatrix : \A y \in DOMAIN mGainMatrix[x] : mGainMatrix[x][y] \in Gains
    /\ \A p \in DOMAIN asked : asked[p] \in Gains
    /\ written \subseteq {"inputs", "outputs"}

GainOf(gains, x, y) == IF <<x, y>> \in DOMAIN gains THEN gains[<<x, y>>] ELSE 0

(* However the numbers of signals came and went, the matrix has for every  *)
(* pair the gain that was set last, unless it was too small for it since   *)
(* ("should never decrease", TTMatrixMixer.cpp:48), and a vector finds one *)
(* for every pair of its signals, unless the attribute with their number   *)
(* was written since the matrix was resized to it ("TODO: set readonly     *)
(* property", :23).                                                        *)
EveryPairHasItsGain ==
    /\ \A x \in DOMAIN mGainMatrix : \A y \in DOMAIN mGainMatrix[x] :
          mGainMatrix[x][y] = GainOf(asked, x, y)
    /\ \A p \in DOMAIN asked : p[1] \in DOMAIN mGainMatrix /\ p[2] \in DOMAIN mGainMatrix[p[1]]
    /\ "inputs" \notin written => DOMAIN mGainMatrix = UpTo(mNumInputs)
    /\ "outputs" \notin written =>
          \A x \in DOMAIN mGainMatrix : DOMAIN mGainMatrix[x] = UpTo(mNumOutputs)
=============================================================================
