-------------------------- MODULE ReceiverLoop_proofs --------------------------
(***************************************************************************)
(* Safety of the receiver loop, for any number of targets and any size of  *)
(* the receive buffers.                                                    *)
(***************************************************************************)
EXTENDS ReceiverLoop, TLAPS

\* How far the walk over the targets is.
Walk ==
    pc \in {"send4", "send6"} =>
        /\ target \in 1 .. Targets + 1
        /\ reached \cup missed = 1 .. target - 1
        /\ reached \cap missed = {}

\* What the start leaves behind when it is the turn of the IPv4 socket.
Started ==
    /\ pc = "open4" => ("v6" \in config.listen => "v6" \in soc \cup failed)
    /\ pc = "open6" => exitCode = 0
    /\ pc = "open4" => exitCode = 0
    /\ exitCode # 0 => pc = "exited"

Inv == TypeOK /\ Started /\ Walk /\ ReadsOwnSocket

\* The options are a set of families and a number of targets.
LEMMA TargetsOK == ASSUME TypeOK PROVE Targets \in Nat /\ config.listen \subseteq Families
<1>1. PICK l \in {{"v4"}, {"v6"}, {"v4", "v6"}}, n \in 0 .. MaxTargets :
          config.listen = l /\ config.targets = n
      BY DEF TypeOK, Configurations
<1> QED BY <1>1, LoopAssumption DEF Targets, Families

\* The invariant holds at the start.
LEMMA InitInv == Init => Inv
<1> SUFFICES ASSUME Init PROVE Inv OBVIOUS
<1>1. TypeOK BY LoopAssumption DEF Init, TypeOK
<1> QED BY <1>1 DEF Init, Inv, Started, Walk, ReadsOwnSocket, Reading

\* The IPv6 socket is opened, or its failure is remembered.
LEMMA Open6Inv == ASSUME Inv, Open6 PROVE Inv'
<1>1. /\ pc = "open6" /\ UNCHANGED <<config, queue, readfds, target, reached, missed>>
      BY DEF Open6, forwardVars
<1>2. /\ soc' \subseteq Families /\ failed' \subseteq Families
      /\ "v6" \in config.listen => "v6" \in soc' \cup failed'
      BY DEF Open6, Inv, TypeOK, Families, Opened, NotOpened
<1>3. \/ pc' = "open4" /\ exitCode' = 0
      \/ pc' = "exited" /\ exitCode' = 6
      BY <1>1 DEF Open6, Exit, Inv, Started
<1> QED BY <1>1, <1>2, <1>3 DEF Inv, TypeOK, Started, Walk, ReadsOwnSocket, Reading

\* The IPv4 socket is opened, or its failure is remembered.
LEMMA Open4Inv == ASSUME Inv, Open4 PROVE Inv'
<1>1. /\ pc = "open4" /\ UNCHANGED <<config, queue, readfds, target, reached, missed>>
      BY DEF Open4, forwardVars
<1>2. /\ soc' \subseteq Families /\ failed' \subseteq Families
      /\ soc \subseteq soc' /\ failed \subseteq failed'
      BY DEF Open4, Inv, TypeOK, Families, Opened, NotOpened
<1>3. \/ soc' = {} /\ pc' = "exited" /\ exitCode' = 7
      \/ soc' # {} /\ pc' = "select" /\ exitCode' = 0
      BY DEF Open4, Exit, Inv, Started
<1>4. TypeOK' /\ Started' /\ Walk'
      BY <1>1, <1>2, <1>3 DEF Inv, TypeOK, Started, Walk
<1>5. soc' = {} => \A f \in config.listen : f \in failed'
  <2> SUFFICES ASSUME soc' = {} PROVE \A f \in config.listen : f \in failed' OBVIOUS
  <2>0. config.listen \subseteq Families BY TargetsOK DEF Inv
  <2>1. "v6" \in config.listen => "v6" \in failed' BY <1>1, <1>2 DEF Inv, Started
  <2>2. "v4" \in config.listen => "v4" \in failed'
      BY DEF Open4, WantsIPv4, Opened, NotOpened
  <2> QED BY <2>0, <2>1, <2>2 DEF Families
<1>6. ReadsOwnSocket'
      BY <1>1, <1>3, <1>5 DEF ReadsOwnSocket, Reading
<1> QED BY <1>4, <1>6 DEF Inv

\* Datagrams come and are taken back in the queues only.
LEMMA EnvironmentInv == ASSUME Inv, Arrive \/ Discard PROVE Inv'
<1>1. queue' \in [Families -> 0 .. QueueLimit]
  <2>1. PICK f \in soc : \/ queue[f] < QueueLimit /\ queue' = [queue EXCEPT ![f] = @ + 1]
                         \/ queue[f] > 0 /\ queue' = [queue EXCEPT ![f] = @ - 1]
      BY DEF Arrive, Discard
  <2> QED BY <2>1, LoopAssumption DEF Inv, TypeOK
<1>2. UNCHANGED <<pc, config, soc, failed, readfds, target, reached, missed, exitCode>>
      BY DEF Arrive, Discard, socketVars, forwardVars
<1> QED BY <1>1, <1>2 DEF Inv, TypeOK, Started, Walk, ReadsOwnSocket, Targets

\* select changes the set of ready sockets, and may end the process.
LEMMA SelectInv == ASSUME Inv, Select \/ SelectInterrupted \/ SelectFails PROVE Inv'
<1>1. /\ pc = "select" /\ pc' \in {"select", "test4", "exited"}
      /\ exitCode' = exitCode \/ (exitCode' = 9 /\ pc' = "exited")
      /\ UNCHANGED <<config, soc, failed, queue, target, reached, missed>>
      BY DEF Select, SelectInterrupted, SelectFails, Exit, socketVars, forwardVars
<1>2. readfds' \subseteq Families
      BY DEF Select, SelectInterrupted, SelectFails, Inv, TypeOK
<1> QED BY <1>1, <1>2
    DEF Inv, TypeOK, Started, Walk, ReadsOwnSocket, Reading, Testing, Families

\* A socket is read only when it was opened.
LEMMA TestInv == ASSUME Inv, NEW f \in Families, Test(f) PROVE Inv'
<1>1. /\ pc = Testing(f) /\ ((f \in soc /\ pc' = Reading(f)) \/ pc' = After(f))
      /\ UNCHANGED <<config, soc, failed, queue, readfds, target, reached, missed, exitCode>>
      BY DEF Test, Ready, socketVars, forwardVars
<1> QED BY <1>1
    DEF Inv, TypeOK, Started, Walk, ReadsOwnSocket, Reading, Testing, After, Families

\* Reading and forwarding a datagram: each target is passed once, reached or missed.
LEMMA ReadInv == ASSUME Inv, NEW f \in Families, ReadPacket(f) PROVE Inv'
<1>0. /\ UNCHANGED <<config, soc, failed, readfds>>
      /\ pc \in {Reading(f), Sending(f)}
      BY DEF ReadPacket, ReadNothing, ReadEmpty, Decode, BeginForwarding, SendTo,
             EndForwarding, Take, socketVars
<1>T. Targets \in Nat /\ Targets' = Targets
      BY <1>0, TargetsOK DEF Inv, Targets
<1>1. queue' \in [Families -> 0 .. QueueLimit]
  <2>1. \/ queue' = queue
        \/ queue[f] > 0 /\ queue' = [queue EXCEPT ![f] = @ - 1]
      BY DEF ReadPacket, ReadNothing, ReadEmpty, Decode, BeginForwarding, SendTo,
             EndForwarding, Take
  <2> QED BY <2>1, LoopAssumption DEF Inv, TypeOK
<1>2. soc # {} /\ exitCode = 0
      BY <1>0 DEF Inv, Started, ReadsOwnSocket, Reading, Sending
<1>3. CASE ReadNothing(f) \/ ReadEmpty(f) \/ Decode(f)
  <2>1. /\ UNCHANGED <<target, reached, missed>>
        /\ \/ pc' = After(f) /\ exitCode' = exitCode
           \/ pc' = "exited" /\ exitCode' = 1
      BY <1>3 DEF ReadNothing, ReadEmpty, Decode, Exit, forwardVars
  <2> QED BY <1>0, <1>1, <1>2, <2>1
      DEF Inv, TypeOK, Started, Walk, ReadsOwnSocket, Reading, Testing, After, Families
<1>4. CASE BeginForwarding(f)
  <2>1. /\ pc' = Sending(f) /\ target' = 1 /\ reached' = {} /\ missed' = {}
        /\ exitCode' = exitCode /\ Targets > 0
      BY <1>4 DEF BeginForwarding
  <2> QED BY <1>0, <1>1, <1>2, <2>1, <1>T
      DEF Inv, TypeOK, Started, Walk, ReadsOwnSocket, Reading, Testing, Sending, Families
<1>5. CASE SendTo(f)
  <2>1. /\ pc \in {"send4", "send6"} /\ pc' = pc /\ exitCode' = exitCode
        /\ target <= Targets /\ target' = target + 1
        /\ \/ reached' = reached \cup {target} /\ missed' = missed
           \/ missed' = missed \cup {target} /\ reached' = reached
      BY <1>5 DEF SendTo, NextTarget, Sending
  <2>2. target \in 1 .. Targets BY <2>1, <1>T DEF Inv, Walk
  <2>3. target' \in 1 .. Targets + 1 /\ target' - 1 = target /\ target' \in Nat
      BY <2>1, <2>2, <1>T
  <2>4. reached \cup missed = 1 .. target - 1 /\ reached \cap missed = {}
      BY <2>1 DEF Inv, Walk
  <2>5. reached' \cup missed' = 1 .. target
      BY <2>1, <2>2, <2>4, LoopAssumption
  <2>6. target \notin reached \cup missed BY <2>2, <2>4, LoopAssumption
  <2>7. reached' \cap missed' = {} BY <2>1, <2>4, <2>6
  <2>8. Walk' BY <1>T, <2>1, <2>3, <2>5, <2>7 DEF Walk
  <2>9. reached' \subseteq Nat /\ missed' \subseteq Nat
      BY <2>1, <2>2, LoopAssumption DEF Inv, TypeOK
  <2> QED BY <1>0, <1>1, <1>2, <2>1, <2>3, <2>8, <2>9
      DEF Inv, TypeOK, Started, ReadsOwnSocket, Reading
<1>6. CASE EndForwarding(f)
  <2>1. UNCHANGED <<target, reached, missed, exitCode>> /\ pc' = After(f)
      BY <1>6 DEF EndForwarding, forwardVars
  <2> QED BY <1>0, <1>1, <1>2, <2>1
      DEF Inv, TypeOK, Started, Walk, ReadsOwnSocket, Reading, Testing, After, Families
<1> QED BY <1>3, <1>4, <1>5, <1>6 DEF ReadPacket

\* The invariant holds in every state.
LEMMA Invariant == Spec => []Inv
<1>1. Inv /\ [Next]_vars => Inv'
  <2> SUFFICES ASSUME Inv, [Next]_vars PROVE Inv' OBVIOUS
  <2>1. CASE UNCHANGED vars
      BY <2>1 DEF vars, socketVars, forwardVars, Inv, TypeOK, Started, Walk, ReadsOwnSocket, Targets
  <2> QED BY <2>1, Open6Inv, Open4Inv, EnvironmentInv, SelectInv, TestInv, ReadInv
      DEF Next, Loop
<1> QED BY InitInv, <1>1, PTL DEF Spec

\* The variables keep their ranges.
THEOREM TypeCorrect == Spec => []TypeOK
<1>1. Inv => TypeOK BY DEF Inv
<1> QED BY <1>1, Invariant, PTL

\* main never reads from a socket it did not open, and gives up at the start only
\* when every socket it was asked for has failed.
THEOREM SocketsCorrect == Spec => []ReadsOwnSocket
<1>1. Inv => ReadsOwnSocket BY DEF Inv
<1> QED BY <1>1, Invariant, PTL

\* The walk of receiveSFlowDatagram over the targets serves each of them, for
\* any number of targets and any of them failing.
THEOREM ForwardingCorrect == Spec => FailureIsLocal
<1> DEFINE Step == \A f \in Families : EndForwarding(f) =>
                      /\ reached \cup missed = 1 .. Targets
                      /\ reached \cap missed = {}
<1>1. Inv => Step
  <2> SUFFICES ASSUME Inv, NEW f \in Families, EndForwarding(f)
               PROVE  reached \cup missed = 1 .. Targets /\ reached \cap missed = {}
      OBVIOUS
  <2>0. Targets \in Nat BY TargetsOK DEF Inv
  <2>1. pc \in {"send4", "send6"} /\ target > Targets BY DEF EndForwarding, Sending
  <2>2. target = Targets + 1 BY <2>0, <2>1 DEF Inv, Walk
  <2>3. target - 1 = Targets BY <2>2, <2>0
  <2> QED BY <2>1, <2>3 DEF Inv, Walk
<1>2. Inv => [Step]_vars BY <1>1
<1> QED BY <1>2, Invariant, PTL DEF FailureIsLocal

(***************************************************************************)
(* Whose turn it is.  No socket waits for more than two rounds of the loop *)
(* while nothing but the loop makes steps, and what else happens does not  *)
(* lengthen the wait.                                                      *)
(***************************************************************************)

\* The steps of the longest round: select, and for each socket a test, a recvfrom
\* and the walk over the targets.
Round == 2 * Targets + 7

\* Inside a round: how many steps there are to the next select, at most.
ToSelect ==
    CASE pc = "test4" -> 2 * Targets + 6
      [] pc = "read4" -> 2 * Targets + 5
      [] pc = "send4" -> 2 * Targets + 5 - target
      [] pc = "test6" -> Targets + 3
      [] pc = "read6" -> Targets + 2
      [] pc = "send6" -> Targets + 2 - target
      [] OTHER -> 0

\* f has been reported by select and is still to be looked at in this round.
Coming(f) ==
    f \in readfds /\ (pc = "test4" \/ (f = "v6" /\ pc \in {"read4", "send4", "test6"}))

\* How many steps of the loop there are, at most, until f is looked at.
Turn(f) ==
    CASE pc = "open6" -> Round + 2
      [] pc = "open4" -> Round + 1
      [] pc = "select" -> Round
      [] pc = "exited" -> 0
      [] OTHER -> IF Coming(f) THEN ToSelect ELSE ToSelect + Round

\* Every step of main brings a socket with a datagram nearer to its turn, whatever
\* the other socket receives, and neither the environment nor a signal takes it
\* away again.
TurnComes ==
    [][ \A f \in Families :
          /\ queue[f] > 0 /\ queue'[f] > 0
          /\ pc' \notin {Reading(f), "exited"}
          => \/ Turn(f)' < Turn(f)
             \/ Turn(f)' = Turn(f) /\ (Arrive \/ Discard \/ SelectInterrupted) ]_vars

\* Datagrams wait at open sockets only.
Waiting == \A f \in Families : queue[f] > 0 => f \in soc

\* Each step keeps it.
LEMMA WaitingStep == ASSUME Inv, Waiting, [Next]_vars PROVE Waiting'
<1>1. queue \in [Families -> 0 .. QueueLimit] BY DEF Inv, TypeOK
<1>2. CASE UNCHANGED <<queue, soc>> BY <1>2 DEF Waiting
<1>3. CASE UNCHANGED queue /\ soc \subseteq soc' BY <1>3 DEF Waiting
<1>4. CASE Arrive \/ Discard
  <2>1. PICK f \in soc : \/ queue' = [queue EXCEPT ![f] = @ + 1]
                         \/ queue' = [queue EXCEPT ![f] = @ - 1]
      BY <1>4 DEF Arrive, Discard
  <2>2. soc' = soc BY <1>4 DEF Arrive, Discard, socketVars
  <2>3. \A g \in Families : g # f => queue'[g] = queue[g] BY <1>1, <2>1
  <2> QED BY <2>1, <2>2, <2>3 DEF Waiting
<1>5. ASSUME NEW f \in Families, Take(f), soc' = soc PROVE Waiting'
  <2>1. queue[f] > 0 /\ queue' = [queue EXCEPT ![f] = @ - 1] BY <1>5 DEF Take
  <2>2. f \in soc BY <2>1 DEF Waiting
  <2>3. \A g \in Families : g # f => queue'[g] = queue[g] BY <1>1, <2>1
  <2> QED BY <1>5, <2>2, <2>3 DEF Waiting
<1>6. CASE UNCHANGED vars BY <1>2, <1>6 DEF vars, socketVars
<1>7. CASE Open6 \/ Open4
  <2>1. UNCHANGED queue /\ soc \subseteq soc'
      BY <1>7 DEF Open6, Open4, Opened, NotOpened
  <2> QED BY <1>3, <2>1
<1>8. CASE Select \/ SelectFails \/ SelectInterrupted
      BY <1>2, <1>8 DEF Select, SelectFails, SelectInterrupted, socketVars
<1>9. ASSUME NEW f \in Families, Test(f) \/ ReadPacket(f) PROVE Waiting'
  <2>1. CASE Test(f) \/ ReadNothing(f) \/ SendTo(f) \/ EndForwarding(f)
      BY <1>2, <2>1 DEF Test, ReadNothing, SendTo, EndForwarding, socketVars
  <2>2. CASE ReadEmpty(f) \/ Decode(f) \/ BeginForwarding(f)
      BY <1>5, <2>2 DEF ReadEmpty, Decode, BeginForwarding, socketVars
  <2> QED BY <1>9, <2>1, <2>2 DEF ReadPacket
<1> QED BY <1>4, <1>6, <1>7, <1>8, <1>9 DEF Next, Loop

\* Turn where main is.
Turns(f) ==
    /\ pc = "open6" => Turn(f) = Round + 2
    /\ pc = "open4" => Turn(f) = Round + 1
    /\ pc = "select" => Turn(f) = Round
    /\ pc = "exited" => Turn(f) = 0
    /\ pc = "test4" => ToSelect = 2 * Targets + 6
    /\ pc = "read4" => ToSelect = 2 * Targets + 5
    /\ pc = "send4" => ToSelect = 2 * Targets + 5 - target
    /\ pc = "test6" => ToSelect = Targets + 3
    /\ pc = "read6" => ToSelect = Targets + 2
    /\ pc = "send6" => ToSelect = Targets + 2 - target
    /\ pc \in {"test4", "read4", "send4", "test6", "read6", "send6"} =>
         Turn(f) = IF Coming(f) THEN ToSelect ELSE ToSelect + Round

\* It is read off its definition.
LEMMA TurnRead == ASSUME NEW f PROVE Turns(f) /\ Turns(f)'
<1>1. Turns(f) BY DEF Turns, Turn, ToSelect
<1>2. Turns(f)' BY DEF Turns, Turn, ToSelect
<1> QED BY <1>1, <1>2

\* The steps of main.
LEMMA TurnStep ==
  ASSUME Inv, Inv', Waiting, [Next]_vars, ~UNCHANGED vars, NEW f \in Families,
         queue[f] > 0, queue'[f] > 0, pc' \notin {Reading(f), "exited"}
  PROVE  \/ Turn(f)' < Turn(f)
         \/ Turn(f)' = Turn(f) /\ (Arrive \/ Discard \/ SelectInterrupted)
<1>1. Targets \in Nat BY TargetsOK DEF Inv
<1>2. Targets' = Targets /\ Round' = Round /\ Round \in Nat /\ Round = 2 * Targets + 7
  <2>1. UNCHANGED config
    <3>1. CASE Open6 \/ Open4 \/ Arrive \/ Discard \/ Select \/ SelectFails \/ SelectInterrupted
        BY <3>1 DEF Open6, Open4, Arrive, Discard, Select, SelectFails, SelectInterrupted,
                    socketVars
    <3>2. ASSUME NEW g \in Families, Test(g) \/ ReadPacket(g) PROVE UNCHANGED config
        BY <3>2 DEF Test, ReadPacket, ReadNothing, ReadEmpty, Decode, BeginForwarding,
                    SendTo, EndForwarding, socketVars
    <3> QED BY <3>1, <3>2 DEF Next, Loop
  <2> QED BY <1>1, <2>1 DEF Targets, Round
<1>3. Turns(f) /\ Turns(f)' BY TurnRead
<1>4. /\ pc \in {"send4", "send6"} => target \in 1 .. Targets + 1
      /\ pc' \in {"send4", "send6"} => target' \in 1 .. Targets + 1
      BY <1>2 DEF Inv, Walk
<1>5. f \in soc BY DEF Waiting
<1>6. CASE Arrive \/ Discard
  <2>1. UNCHANGED <<pc, config, readfds, target>>
      BY <1>6 DEF Arrive, Discard, socketVars, forwardVars
  <2>2. Turn(f)' = Turn(f)
      BY <2>1 DEF Turn, Round, Targets, Coming, ToSelect
  <2> QED BY <1>6, <2>2
<1>7. CASE SelectInterrupted
      BY <1>2, <1>3, <1>7 DEF SelectInterrupted, Turns
<1>8. CASE Open6 \/ Open4
  <2>1. \/ pc = "open6" /\ pc' = "open4"
        \/ pc = "open4" /\ pc' = "select"
      BY <1>8 DEF Open6, Open4, Exit
  <2> QED BY <1>2, <1>3, <2>1 DEF Turns
<1>9. CASE Select
  <2>1. f \in readfds' BY <1>5, <1>9 DEF Select
  <2>2. pc = "select" /\ pc' = "test4" BY <1>9, <2>1 DEF Select
  <2>3. Turn(f)' = 2 * Targets + 6 BY <1>2, <1>3, <2>1, <2>2 DEF Turns, Coming
  <2> QED BY <1>1, <1>2, <1>3, <2>2, <2>3 DEF Turns
<1>10. CASE SelectFails
      BY <1>10 DEF SelectFails, Exit
<1>11. ASSUME NEW g \in Families, Test(g)
       PROVE  Turn(f)' < Turn(f)
  <2>1. /\ pc = Testing(g) /\ UNCHANGED readfds
        /\ pc' = IF g \in soc /\ g \in readfds THEN Reading(g) ELSE After(g)
      BY <1>11 DEF Test, Ready
  <2>2. CASE g = "v4"
    <3>1. pc = "test4" /\ pc' \in {"read4", "test6"} BY <2>1, <2>2 DEF Testing, Reading, After
    <3>2. Coming(f) => Coming(f)'
      <4>1. CASE f = "v6"
          BY <2>1, <3>1, <4>1 DEF Coming
      <4>2. CASE f = "v4"
          BY <1>5, <2>1, <2>2, <4>2 DEF Coming
      <4> QED BY <4>1, <4>2 DEF Families
    <3>3. ToSelect' < ToSelect /\ ToSelect \in Nat /\ ToSelect' \in Nat
        BY <1>1, <1>2, <1>3, <3>1 DEF Turns
    <3> QED BY <1>2, <1>3, <3>1, <3>2, <3>3 DEF Turns
  <2>3. CASE g = "v6"
    <3>1. pc = "test6" /\ pc' \in {"read6", "select"} BY <2>1, <2>3 DEF Testing, Reading, After
    <3>2. ~Coming(f)
      <4>1. SUFFICES ASSUME Coming(f) PROVE FALSE OBVIOUS
      <4>2. f = "v6" /\ f \in readfds BY <3>1, <4>1 DEF Coming
      <4> QED BY <1>5, <2>1, <2>3, <4>2
    <3>3. Turn(f) = Targets + 3 + Round BY <1>3, <3>1, <3>2 DEF Turns
    <3>4. CASE pc' = "select" BY <1>1, <1>2, <1>3, <3>3, <3>4 DEF Turns
    <3>5. CASE pc' = "read6"
      <4>1. Turn(f)' \in {Targets + 2, Targets + 2 + Round} BY <1>2, <1>3, <3>5 DEF Turns
      <4> QED BY <1>1, <1>2, <3>3, <4>1
    <3> QED BY <3>1, <3>4, <3>5
  <2> QED BY <2>2, <2>3 DEF Families
<1>12. ASSUME NEW g \in Families, ReadPacket(g)
       PROVE  Turn(f)' < Turn(f)
  <2>1. /\ UNCHANGED readfds
        /\ \/ pc = Reading(g) /\ pc' = After(g)
           \/ pc = Reading(g) /\ pc' = Sending(g) /\ target' = 1
           \/ pc = Sending(g) /\ pc' = Sending(g) /\ target <= Targets /\ target' = target + 1
           \/ pc = Sending(g) /\ pc' = After(g)
    <3>1. CASE ReadNothing(g) \/ ReadEmpty(g) \/ Decode(g)
        BY <3>1 DEF ReadNothing, ReadEmpty, Decode, Take, Exit
    <3>2. CASE BeginForwarding(g) \/ SendTo(g) \/ EndForwarding(g)
        BY <3>2 DEF BeginForwarding, SendTo, NextTarget, EndForwarding, Take
    <3> QED BY <1>12, <3>1, <3>2 DEF ReadPacket
  <2>2. CASE g = "v4"
    <3>1. \/ pc = "read4" /\ pc' = "test6"
          \/ pc = "read4" /\ pc' = "send4" /\ target' = 1
          \/ pc = "send4" /\ pc' = "send4" /\ target <= Targets /\ target' = target + 1
          \/ pc = "send4" /\ pc' = "test6"
        BY <2>1, <2>2 DEF Reading, Sending, After
    <3>2. Coming(f) => Coming(f)' BY <2>1, <3>1 DEF Coming
    <3>3. ToSelect' < ToSelect /\ ToSelect \in Nat /\ ToSelect' \in Nat
        BY <1>1, <1>2, <1>3, <1>4, <3>1 DEF Turns
    <3> QED BY <1>2, <1>3, <3>1, <3>2, <3>3 DEF Turns
  <2>3. CASE g = "v6"
    <3>1. \/ pc = "read6" /\ pc' = "select"
          \/ pc = "read6" /\ pc' = "send6" /\ target' = 1
          \/ pc = "send6" /\ pc' = "send6" /\ target <= Targets /\ target' = target + 1
          \/ pc = "send6" /\ pc' = "select"
        BY <2>1, <2>3 DEF Reading, Sending, After
    <3>2. pc' = "send6" => ~Coming(f)' BY <3>1 DEF Coming
    <3>3. ~Coming(f) BY <3>1 DEF Coming
    <3>4. CASE pc' = "select" BY <1>1, <1>2, <1>3, <1>4, <3>1, <3>3, <3>4 DEF Turns
    <3>5. CASE pc' = "send6"
      <4>1. ToSelect' < ToSelect /\ ToSelect \in Nat /\ ToSelect' \in Nat
          BY <1>1, <1>2, <1>3, <1>4, <3>1, <3>5 DEF Turns
      <4> QED BY <1>2, <1>3, <3>1, <3>2, <3>3, <3>5, <4>1 DEF Turns
    <3> QED BY <3>1, <3>4, <3>5
  <2> QED BY <2>2, <2>3 DEF Families
<1> QED BY <1>6, <1>7, <1>8, <1>9, <1>10, <1>11, <1>12 DEF Next, Loop

\* A wait is at most two rounds long.
LEMMA TurnBounded == ASSUME Inv, NEW f \in Families PROVE Turn(f) \in 0 .. 2 * Round
<1>1. Targets \in Nat /\ Round = 2 * Targets + 7 BY TargetsOK DEF Inv, Round
<1>2. Turns(f) BY TurnRead
<1>3. pc \in {"send4", "send6"} => target \in 1 .. Targets + 1 BY DEF Inv, Walk
<1>4. CASE pc \in {"open6", "open4", "select", "exited"} BY <1>1, <1>2, <1>4 DEF Turns
<1>5. CASE pc \in {"test4", "read4", "send4", "test6", "read6", "send6"}
  <2>1. ToSelect \in 0 .. Round BY <1>1, <1>2, <1>3, <1>5 DEF Turns
  <2>2. Turn(f) \in {ToSelect, ToSelect + Round} BY <1>2, <1>5 DEF Turns
  <2> QED BY <1>1, <2>1, <2>2
<1> QED BY <1>4, <1>5 DEF Inv, TypeOK, Families, Testing, Reading, Sending

\* The safety half of EverySocketServed: a datagram that waits is looked at after
\* at most two rounds of the loop, for any number of targets, whatever arrives at
\* either socket; what is left to fairness is that the loop goes on.
THEOREM ServedWithinTwoRounds ==
  Spec => [](\A f \in Families : Turn(f) \in 0 .. 2 * Round) /\ TurnComes
<1> DEFINE Bound == \A f \in Families : Turn(f) \in 0 .. 2 * Round
           Comes == \A f \in Families :
                      /\ queue[f] > 0 /\ queue'[f] > 0
                      /\ pc' \notin {Reading(f), "exited"}
                      => \/ Turn(f)' < Turn(f)
                         \/ Turn(f)' = Turn(f) /\ (Arrive \/ Discard \/ SelectInterrupted)
<1>1. Init => Waiting BY DEF Init, Waiting
<1>2. Spec => []Waiting BY <1>1, WaitingStep, Invariant, PTL DEF Spec
<1>3. Inv => Bound BY TurnBounded
<1>4. Inv /\ Inv' /\ Waiting /\ [Next]_vars => [Comes]_vars
  <2> SUFFICES ASSUME Inv, Inv', Waiting, [Next]_vars, ~UNCHANGED vars PROVE Comes
      OBVIOUS
  <2> QED BY TurnStep
<1> QED BY <1>2, <1>3, <1>4, Invariant, PTL DEF Spec, TurnComes

=============================================================================
