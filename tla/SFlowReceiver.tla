---------------------------- MODULE SFlowReceiver ----------------------------
(***************************************************************************)
(* What receiveSFlowDatagram promises readPacket, with nothing said of the *)
(* records: the samples a datagram announces are taken one after the other *)
(* in the order of their bytes, none begins at or past the end, each one   *)
(* takes up bytes, the datagram is complete only when all of them were     *)
(* taken, and when it is given up nothing of it is looked at again.        *)
(***************************************************************************)
EXTENDS Naturals

VARIABLES
    phase,      \* "idle", "decoding", or "down" when the process has ended
    outcome,    \* of the last datagram
    left,       \* samples announced and not yet taken
    offset,     \* where the next sample begins
    end         \* size of the datagram

vars == <<phase, outcome, left, offset, end>>

\* A sample has at least a tag and one word more.
MinSample == 8

Init ==
    /\ phase = "idle" /\ outcome = "none"
    /\ left = 0 /\ offset = 0 /\ end = 0

Drop == left' = 0 /\ offset' = 0 /\ end' = 0

Receive ==
    /\ phase = "idle"
    /\ phase' = "decoding" /\ outcome' = "none"
    /\ left' \in Nat /\ end' \in Nat /\ offset' \in 0 .. end'

Reject ==
    /\ phase = "idle"
    /\ outcome' = "abandoned"
    /\ UNCHANGED <<phase, left, offset, end>>

TakeSample ==
    /\ phase = "decoding" /\ left > 0
    /\ offset < end
    /\ left' = left - 1
    /\ offset' \in Nat /\ offset' >= offset + MinSample
    /\ UNCHANGED <<phase, outcome, end>>

Complete ==
    /\ phase = "decoding" /\ left = 0
    /\ phase' = "idle" /\ outcome' = "complete"
    /\ Drop

\* An exception is thrown while samples are left.
Abandon ==
    /\ phase = "decoding" /\ left > 0
    /\ phase' = "idle" /\ outcome' = "abandoned"
    /\ Drop

\* The process ends: whatever is read is printed, and printing may fail.
Stop ==
    /\ phase # "down"
    /\ phase' = "down" /\ outcome' = "none"
    /\ Drop

Next == Receive \/ Reject \/ TakeSample \/ Complete \/ Abandon \/ Stop

Spec == Init /\ [][Next]_vars

=============================================================================
