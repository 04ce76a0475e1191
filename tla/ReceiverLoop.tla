------------------------------ MODULE ReceiverLoop ------------------------------
(***************************************************************************)
(* The input side of sflowtool: main opens one or two UDP sockets and then *)
(* turns between select and readPacket for ever; a datagram is forwarded   *)
(* to every target, or decoded where there are none.                       *)
(*                                                                         *)
(* The environment sends datagrams, which queue in the kernel up to a      *)
(* limit, may take one back between select and recvfrom (a bad checksum),  *)
(* and interrupts select with signals.  How a datagram is decoded is the   *)
(* subject of SFlowDecode; here it is decoded, or ends the process.        *)
(***************************************************************************)
EXTENDS Naturals, FiniteSets

CONSTANTS
    MaxTargets,  \* bound: forwarding targets on the command line
    QueueLimit   \* bound: datagrams in a socket's receive buffer

ASSUME LoopAssumption == MaxTargets \in Nat /\ QueueLimit \in Nat \ {0}

Families == {"v4", "v6"}

\* What the options leave in sfConfig: -4, -6, +4 or none of them, and -f as
\* many times as there are targets.
Configurations ==
    { [listen |-> l.listen, listenControlled |-> l.controlled, targets |-> n] :
        l \in { [listen |-> {"v4"}, controlled |-> FALSE],
               [listen |-> {"v4"}, controlled |-> TRUE],
               [listen |-> {"v6"}, controlled |-> TRUE],
               [listen |-> {"v4", "v6"}, controlled |-> TRUE] },
        n \in 0 .. MaxTargets }

VARIABLES
    pc,          \* where main is
    config,      \* the options that matter here
    soc,         \* families whose socket is open: soc4 and soc6 other than -1
    failed,      \* families whose socket could not be opened
    queue,       \* datagrams waiting at each socket
    readfds,     \* what select left in the set
    target,      \* the forwarding target whose turn it is
    reached,     \* targets the current datagram was sent to
    missed,      \* targets whose sendto failed for it
    exitCode     \* of custom_exit, 0 before

socketVars  == <<config, soc, failed>>
forwardVars == <<target, reached, missed>>
vars == <<pc, socketVars, queue, readfds, forwardVars, exitCode>>

\* The calls of readPacket, in the order of the loop: v4, then v6.
Reading(f) == IF f = "v4" THEN "read4" ELSE "read6"
Testing(f) == IF f = "v4" THEN "test4" ELSE "test6"
After(f)   == IF f = "v4" THEN "test6" ELSE "select"
Sending(f) == IF f = "v4" THEN "send4" ELSE "send6"

Targets == config.targets

Exit(code) == pc' = "exited" /\ exitCode' = code

(***************************************************************************)
(* Start: openInputUDPSocket, openInputUDP6Socket.                         *)
(***************************************************************************)

Init ==
    /\ config \in Configurations
    /\ pc = "open6"
    /\ soc = {} /\ failed = {}
    /\ queue = [f \in Families |-> 0]
    /\ readfds = {}
    /\ target = 0 /\ reached = {} /\ missed = {}
    /\ exitCode = 0

Opened(f) == soc' = soc \cup {f} /\ UNCHANGED failed
NotOpened(f) == failed' = failed \cup {f} /\ UNCHANGED soc

\* A socket that cannot be created ends the process, one that cannot be bound
\* does not.
Open6 ==
    /\ pc = "open6"
    /\ \/ /\ "v6" \in config.listen
          /\ \/ Opened("v6") /\ pc' = "open4" /\ UNCHANGED exitCode
             \/ NotOpened("v6") /\ pc' = "open4" /\ UNCHANGED exitCode
             \/ NotOpened("v6") /\ Exit(6)
       \/ /\ "v6" \notin config.listen
          /\ pc' = "open4" /\ UNCHANGED <<soc, failed, exitCode>>
    /\ UNCHANGED <<config, queue, readfds, forwardVars>>

\* Mutant: an IPv4 socket is only tried where it was asked for.
WantsIPv4_Asked == "v4" \in config.listen /\ "v6" \notin config.listen
WantsIPv4 ==
    \/ "v4" \in config.listen
    \/ "v6" \notin soc /\ ~config.listenControlled
Open4 ==
    /\ pc = "open4"
    /\ \/ WantsIPv4 /\ (Opened("v4") \/ NotOpened("v4"))
       \/ ~WantsIPv4 /\ UNCHANGED <<soc, failed>>
    /\ IF soc' = {} THEN Exit(7) ELSE pc' = "select" /\ UNCHANGED exitCode
    /\ UNCHANGED <<config, queue, readfds, forwardVars>>

(***************************************************************************)
(* The environment.                                                        *)
(***************************************************************************)

Arrive ==
    /\ \E f \in soc : queue[f] < QueueLimit /\ queue' = [queue EXCEPT ![f] = @ + 1]
    /\ UNCHANGED <<pc, socketVars, readfds, forwardVars, exitCode>>

\* A datagram that select has reported turns out to be damaged.
Discard ==
    /\ \E f \in soc : queue[f] > 0 /\ queue' = [queue EXCEPT ![f] = @ - 1]
    /\ UNCHANGED <<pc, socketVars, readfds, forwardVars, exitCode>>

(***************************************************************************)
(* The loop.                                                               *)
(***************************************************************************)

\* FD_SET only ever adds, so that the set also holds what the last select left.
Select ==
    /\ pc = "select"
    /\ readfds' = {f \in readfds \cup soc : queue[f] > 0}
    /\ pc' = IF readfds' = {} THEN "select" ELSE "test4"
    /\ UNCHANGED <<socketVars, queue, forwardVars, exitCode>>

\* A signal: nothing is read, whatever the set says.
SelectInterrupted ==
    /\ pc = "select"
    /\ readfds' \in {readfds \cup soc, {}}
    /\ UNCHANGED <<pc, socketVars, queue, forwardVars, exitCode>>

SelectFails ==
    /\ pc = "select" /\ Exit(9)
    /\ UNCHANGED <<socketVars, queue, readfds, forwardVars>>

\* FD_ISSET.  Mutant: the second socket has its turn only if the first had none.
Ready_ElseIf(f) == f \in soc \cap readfds /\ (f = "v6" => "v4" \notin readfds)
Ready(f) == f \in soc \cap readfds
Test(f) ==
    /\ pc = Testing(f)
    /\ pc' = IF Ready(f) THEN Reading(f) ELSE After(f)
    /\ UNCHANGED <<socketVars, queue, readfds, forwardVars, exitCode>>

\* recvfrom has nothing (EAGAIN): the sockets are non-blocking.
\* Mutant: they are not, and the call waits.
NonBlocking_Not == FALSE
NonBlocking == TRUE
ReadNothing(f) ==
    /\ pc = Reading(f) /\ queue[f] = 0 /\ NonBlocking
    /\ pc' = After(f)
    /\ UNCHANGED <<socketVars, queue, readfds, forwardVars, exitCode>>

Take(f) == pc = Reading(f) /\ queue[f] > 0 /\ queue' = [queue EXCEPT ![f] = @ - 1]

\* An empty datagram, or an error of the socket, is taken for a failure.
ReadEmpty(f) ==
    /\ Take(f) /\ pc' = After(f)
    /\ UNCHANGED <<socketVars, readfds, forwardVars, exitCode>>

\* receiveSFlowDatagram without targets: the datagram is decoded, or abandoned;
\* or the process ends.
Decode(f) ==
    /\ Targets = 0 /\ Take(f)
    /\ \/ pc' = After(f) /\ UNCHANGED exitCode
       \/ Exit(1)
    /\ UNCHANGED <<socketVars, readfds, forwardVars>>

\* ... and with targets.
BeginForwarding(f) ==
    /\ Targets > 0 /\ Take(f)
    /\ pc' = Sending(f)
    /\ target' = 1 /\ reached' = {} /\ missed' = {}
    /\ UNCHANGED <<socketVars, readfds, exitCode>>

\* sendto to one target.  Mutant: a failure ends the walk over the list.
NextTarget_StopOnFailure == IF target \in missed' THEN Targets + 1 ELSE target + 1
NextTarget == target + 1
SendTo(f) ==
    /\ pc = Sending(f) /\ target <= Targets
    /\ \/ reached' = reached \cup {target} /\ UNCHANGED missed
       \/ missed' = missed \cup {target} /\ UNCHANGED reached
    /\ target' = NextTarget
    /\ UNCHANGED <<pc, socketVars, queue, readfds, exitCode>>

EndForwarding(f) ==
    /\ pc = Sending(f) /\ target > Targets
    /\ pc' = After(f)
    /\ UNCHANGED <<socketVars, queue, readfds, forwardVars, exitCode>>

ReadPacket(f) ==
    \/ ReadNothing(f) \/ ReadEmpty(f) \/ Decode(f)
    \/ BeginForwarding(f) \/ SendTo(f) \/ EndForwarding(f)

Loop == Select \/ SelectFails \/ \E f \in Families : Test(f) \/ ReadPacket(f)

Next == Open6 \/ Open4 \/ Arrive \/ Discard \/ Loop \/ SelectInterrupted

Spec == Init /\ [][Next]_vars

\* The process is scheduled, and not every select is interrupted.
FairSpec ==
    /\ Spec
    /\ WF_vars(Open6) /\ WF_vars(Open4) /\ WF_vars(Select)
    /\ \A f \in Families : WF_vars(Test(f)) /\ WF_vars(ReadPacket(f))

(***************************************************************************)
(* Properties.                                                             *)
(***************************************************************************)

TypeOK ==
    /\ config \in Configurations
    /\ pc \in {"open6", "open4", "select", "exited"}
               \cup UNION {{Testing(f), Reading(f), Sending(f)} : f \in Families}
    /\ soc \subseteq Families /\ failed \subseteq Families
    /\ queue \in [Families -> 0 .. QueueLimit]
    /\ readfds \subseteq Families
    /\ target \in Nat /\ reached \subseteq Nat /\ missed \subseteq Nat
    /\ exitCode \in {0, 1, 6, 7, 9}

\* Nobody is starved: a datagram that waits at one socket is looked at, however
\* many keep coming in at the other and however often one is taken back.
\* (A datagram looked at is taken; with more waiting, so is the next.)
EverySocketServed ==
    \A f \in Families :
        queue[f] > 0 ~> (queue[f] = 0 \/ pc = Reading(f) \/ pc = "exited")

\* A target that fails costs the others nothing: when the walk over the targets
\* is over, each of them was sent the datagram or its own sendto failed.
FailureIsLocal ==
    [][ \A f \in Families : EndForwarding(f) =>
            /\ reached \cup missed = 1 .. Targets
            /\ reached \cap missed = {} ]_vars

\* The loop only runs, and only reads, with a socket it opened itself; where no
\* family was forced, the process is never without one while one could be bound.
ReadsOwnSocket ==
    /\ pc \notin {"open6", "open4", "exited"} => soc # {}
    /\ \A f \in Families : pc = Reading(f) => f \in soc
    /\ exitCode = 7 => \A f \in config.listen : f \in failed

=============================================================================
