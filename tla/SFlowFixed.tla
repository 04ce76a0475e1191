------------------------------ MODULE SFlowFixed ------------------------------
(***************************************************************************)
(* Records of fixed size: the structures they are sent as, and what it is  *)
(* for a reader to go through one member by member.                        *)
(***************************************************************************)
EXTENDS SFlowDecode

CONSTANT Structure   \* tags of records of fixed size -> bytes of the structure

\* The sums of a from each index to the last one before k
SumsTo(a, k) ==
    LET sum[i \in 1 .. k] == IF i = k THEN 0 ELSE sum[i + 1] + a[i] IN sum

MemberKinds == {"fixed", "lookup", "longOnly"}

\* What an operation takes of a record of n bytes.
Taken(o, n) ==
    IF o.op = "fixed" THEN o.n
    ELSE IF o.op = "longOnly" /\ n > o.n THEN 8 ELSE 0

\* The reader q goes through n bytes member by member.
ReadsMembers(q, n) ==
    /\ \A i \in 1 .. Len(q) : q[i].op \in MemberKinds
    /\ SumsTo([i \in 1 .. Len(q) |-> Taken(q[i], n)], Len(q) + 1)[1] = n

=============================================================================
