------------------------------- MODULE TsdbFeed -------------------------------
(***************************************************************************)
(* What opentsdb_simple_connect promises the record readers that hand it a *)
(* batch: each batch is offered once; it is taken by the connection of     *)
(* that moment, whole or cut short, or it is lost.  A batch is not kept    *)
(* for later, and is never taken twice.                                    *)
(***************************************************************************)
EXTENDS Naturals, Sequences

VARIABLES
    offered,    \* batches offered so far
    pending,    \* the last one is neither taken nor lost yet
    conns,      \* connections made so far
    taken       \* what the connections took, in the order they took it

vars == <<offered, pending, conns, taken>>

Init == offered = 0 /\ pending = FALSE /\ conns = 0 /\ taken = <<>>

Offer ==
    /\ ~pending
    /\ pending' = TRUE /\ offered' = offered + 1
    /\ UNCHANGED <<conns, taken>>

Connect ==
    /\ pending
    /\ conns' = conns + 1
    /\ UNCHANGED <<offered, pending, taken>>

Take ==
    /\ pending /\ conns > 0
    /\ \E whole \in BOOLEAN :
          taken' = Append(taken, [batch |-> offered, conn |-> conns, whole |-> whole])
    /\ pending' = FALSE
    /\ UNCHANGED <<offered, conns>>

Lose ==
    /\ pending
    /\ pending' = FALSE
    /\ UNCHANGED <<offered, conns, taken>>

Next == Offer \/ Connect \/ Take \/ Lose

Spec == Init /\ [][Next]_vars

=============================================================================
