----------------------------- MODULE SFlowPrograms -----------------------------
(***************************************************************************)
(* What the readers of a record have in common, besides what SFlowDecode   *)
(* asks of them: the readers of a flow record move the cursor in multiples *)
(* of four bytes, those of a DDoS counter record take off the record's     *)
(* length what they read in front of the structure they fill, and the      *)
(* members a reader goes through are those of the structure.  The proofs   *)
(* about whole records rest on it; of the code's readers, those of         *)
(* SFlowRecords, TLC evaluates it.                                         *)
(***************************************************************************)
EXTENDS SFlowFixed

(***************************************************************************)
(* Flow records.                                                           *)
(***************************************************************************)

Fours == {4 * k : k \in Nat}

ReadKinds ==
    {"fixed", "string", "address", "array", "repeat", "iterate", "lookup",
     "header", "longOnly", "skip"}
AlignedOp ==
    {o \in CheckedOp : o.op \in ReadKinds /\ (o.op = "fixed" => o.n % 4 = 0)}

\* Strings, addresses and headers are padded, and everything else is words.
ASSUME AlignmentAssumption ==
    /\ \A t \in DOMAIN FlowReader : FlowReader[t] \in Seq(AlignedOp)
    /\ \A b \in DOMAIN Block : Block[b] \in Seq(AlignedOp)

(***************************************************************************)
(* Counted blocks.                                                         *)
(***************************************************************************)

\* A block begins with a read, so that a turn of its loop takes bytes.
ASSUME BlockAssumption ==
    \A b \in DOMAIN Block : Block[b] # <<>> /\ Takes(Block[b][1])

(***************************************************************************)
(* Records of fixed size.                                                  *)
(***************************************************************************)

\* A record with a structure has the structure's members read.
ASSUME StructureAssumption ==
    /\ "none" \notin DOMAIN Structure
    /\ \A table \in {FlowReader, CounterReader} :
          \A t \in DOMAIN Structure \cap DOMAIN table :
             ReadsMembers(table[t], Structure[t])

(***************************************************************************)
(* Counter records.                                                        *)
(***************************************************************************)

FillUnit == [fill64 |-> 8, fill32 |-> 4]
FillKinds == DOMAIN FillUnit

\* An operation in front of a fill: by how much it moves the cursor ahead of
\* what is taken off the length.
Ahead(o) == IF o.op = "fixed" THEN o.n ELSE IF o.op = "context" THEN -o.n ELSE 0

\* due[i] is what the operations of q from the i-th to the fill at k, but for the
\* fill itself, move the cursor ahead in all.
IsDue(due, q, k) ==
    /\ due \in [1 .. k -> Int] /\ due[k] = 0
    /\ \A i \in 1 .. k - 1 :
          /\ q[i].op \in {"fixed", "lookup", "context"}
          /\ due[i] = due[i + 1] + Ahead(q[i])
Due(q, k) == SumsTo([i \in 1 .. k - 1 |-> Ahead(q[i])], k)

\* The structure filled at k is one of whole units.
FillsAt(q, k) == q[k].op \in FillKinds /\ q[k].n % FillUnit[q[k].op] = 0

NoFill(q) == \A i \in 1 .. Len(q) : q[i].op \notin FillKinds \cup {"put"}

\* A reader fills no structure and has no batch to hand over, or it fills one, to
\* the end of the record, and may hand over a batch then.
ASSUME BalanceAssumption ==
    \A t \in DOMAIN CounterReader :
        LET q == CounterReader[t]
        IN  \/ NoFill(q)
            \/ \E k \in 1 .. Len(q) :
                  /\ FillsAt(q, k) /\ Due(q, k)[1] = 0
                  /\ \A i \in 1 .. k - 1 : q[i].op \in {"fixed", "lookup", "context"}
                  /\ Len(q) <= k + 1
                  /\ Len(q) = k + 1 => q[k + 1].op = "put"

=============================================================================
