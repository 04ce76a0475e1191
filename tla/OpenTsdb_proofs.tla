---------------------------- MODULE OpenTsdb_proofs ----------------------------
(***************************************************************************)
(* Safety of the OpenTSDB client, for any number of batches: descriptors,  *)
(* the order of what is taken, the one retry, and the refinement of        *)
(* TsdbFeed.  One inductive invariant, Inv, serves them all.               *)
(***************************************************************************)
EXTENDS OpenTsdb, TLAPS

\* Nothing taken is younger than the current batch, or was taken by a
\* connection still to be made; the current batch itself is not among it while
\* the call lasts.
TakenBefore ==
    \A i \in 1 .. Len(taken) :
        /\ taken[i].batch <= batch
        /\ taken[i].conn <= conns
        /\ Calling => taken[i].batch < batch

\* A connection made in this call that did not break has taken nothing yet.
FreshQuiet ==
    /\ pc = "resend" => fresh
    /\ Calling /\ fresh /\ ~excuse =>
          peer = "up" /\ \A i \in 1 .. Len(taken) : taken[i].conn # conns

Inv == TypeOK /\ DescriptorKept /\ TakenBefore /\ InOrder /\ FreshQuiet /\ RetryIsEnough

\* The kernel finds a descriptor when none is open.
LEMMA DescriptorFree ==
    ASSUME open = {}
    PROVE  NewDescriptor \in Nat
<1>1. 1 \in 1 .. MaxBatches + 1 BY BatchesAssumption
<1>2. 1 \notin open /\ \A e \in 1 .. 1 - 1 : e \in open OBVIOUS
<1> QED BY <1>1, <1>2 DEF NewDescriptor

\* What a sequence is after one more piece was taken.
LEMMA OneMore ==
    ASSUME taken \in Seq([batch : Nat, conn : Nat, whole : BOOLEAN]),
           NEW piece \in [batch : Nat, conn : Nat, whole : BOOLEAN],
           taken' = Append(taken, piece)
    PROVE  /\ taken' \in Seq([batch : Nat, conn : Nat, whole : BOOLEAN])
           /\ Len(taken') = Len(taken) + 1
           /\ \A i \in 1 .. Len(taken) : taken'[i] = taken[i]
           /\ taken'[Len(taken) + 1] = piece
OBVIOUS

\* What a sequence is made of.
LEMMA SeqElement ==
    ASSUME NEW S, NEW s \in Seq(S), NEW i \in 1 .. Len(s)
    PROVE  s[i] \in S
OBVIOUS

\* The pieces of a sequence of pieces have numbers.
LEMMA Numbered ==
    ASSUME taken \in Seq([batch : Nat, conn : Nat, whole : BOOLEAN])
    PROVE  /\ Len(taken) \in Nat
           /\ \A i \in 1 .. Len(taken) : taken[i].batch \in Nat /\ taken[i].conn \in Nat
<1>1. \A i \in 1 .. Len(taken) : taken[i] \in [batch : Nat, conn : Nat, whole : BOOLEAN]
      BY SeqElement
<1>2. \A p \in [batch : Nat, conn : Nat, whole : BOOLEAN] : p.batch \in Nat /\ p.conn \in Nat
      OBVIOUS
<1> QED BY <1>1, <1>2

\* The initial states satisfy the invariant.
LEMMA InitInv == Init => Inv
<1> SUFFICES ASSUME Init PROVE Inv
    OBVIOUS
<1>1. taken \in Seq([batch : Nat, conn : Nat, whole : BOOLEAN]) /\ Len(taken) = 0
      BY DEF Init
<1>2. TypeOK BY <1>1 DEF Init, TypeOK, NoSocket, ignore_sigpipe
<1>3. DescriptorKept /\ RetryIsEnough BY DEF Init, DescriptorKept, RetryIsEnough
<1>4. TakenBefore /\ InOrder /\ FreshQuiet
      BY <1>1 DEF Init, TakenBefore, InOrder, FreshQuiet, Calling
<1> QED BY <1>2, <1>3, <1>4 DEF Inv

\* opentsdb_connect_socket preserves it, from either of its two calls.
LEMMA ConnectInv ==
    ASSUME Inv, NEW next \in {"send", "resend"},
           pc \in {"connect", "reconnect"},
           opentsdb_connect_socket(next)
    PROVE  Inv'
<1> USE DEF Inv
<1>1. open = {} /\ ~connected BY DEF TypeOK, DescriptorKept
<1>2. NewDescriptor \in Nat BY <1>1, DescriptorFree
<1>3. taken' = taken /\ batch' = batch /\ format' = format /\ sigpipe' = sigpipe
      BY DEF opentsdb_connect_socket
<1>4. CASE ConnectRefused /\ Return(1) /\ excuse' = TRUE
             /\ UNCHANGED <<connected, peer, conns, fresh>>
  <2>1. TypeOK' BY <1>1, <1>2, <1>3, <1>4
        DEF TypeOK, ConnectRefused, Return, NoSocket
  <2>2. DescriptorKept' BY <1>1, <1>4 DEF DescriptorKept, ConnectRefused
  <2>3. TakenBefore' BY <1>3, <1>4 DEF TakenBefore, Return, Calling
  <2>4. InOrder' BY <1>3 DEF InOrder
  <2>5. FreshQuiet' /\ RetryIsEnough' BY <1>4 DEF FreshQuiet, RetryIsEnough, Return, Calling
  <2> QED BY <2>1, <2>2, <2>3, <2>4, <2>5
<1>5. CASE /\ sock' = NewDescriptor /\ open' = open \cup {NewDescriptor}
           /\ connected' = TRUE /\ peer' = "up" /\ conns' = conns + 1
           /\ fresh' = TRUE /\ pc' = next /\ UNCHANGED <<ret, excuse>>
  <2>1. TypeOK' BY <1>1, <1>2, <1>3, <1>5 DEF TypeOK
  <2>2. DescriptorKept' BY <1>1, <1>5 DEF DescriptorKept
  <2>3. TakenBefore'
    <3>1. Calling BY DEF Calling
    <3>2. conns \in Nat /\ taken \in Seq([batch : Nat, conn : Nat, whole : BOOLEAN])
          BY DEF TypeOK
    <3> QED BY <1>3, <1>5, <3>1, <3>2, Numbered DEF TakenBefore
  <2>4. InOrder' BY <1>3 DEF InOrder
  <2>5. \A i \in 1 .. Len(taken) : taken[i].conn # conns + 1
        BY DEF TakenBefore, TypeOK
  <2>6. FreshQuiet' BY <1>3, <1>5, <2>5 DEF FreshQuiet, Calling
  <2>7. RetryIsEnough' BY <1>5 DEF RetryIsEnough
  <2> QED BY <2>1, <2>2, <2>3, <2>4, <2>6, <2>7
<1> QED BY <1>4, <1>5 DEF opentsdb_connect_socket

\* A send that is taken preserves it.
LEMMA TakesInv == ASSUME Inv, SendTakes PROVE Inv'
<1> USE DEF Inv
<1>1. PICK whole \in BOOLEAN :
          taken' = Append(taken, [batch |-> batch, conn |-> conns, whole |-> whole])
      BY DEF SendTakes
<1>2. pc \in {"send", "resend"} /\ pc' = "idle" /\ ret' = 0 /\ connected
      BY DEF SendTakes, AfterTake, Return, TypeOK
<1>3. UNCHANGED <<format, sigpipe, connected, sock, open, peer, conns, batch, fresh, excuse>>
      BY DEF SendTakes, clientVars, ghostVars
<1> DEFINE piece == [batch |-> batch, conn |-> conns, whole |-> whole]
<1>4. piece \in [batch : Nat, conn : Nat, whole : BOOLEAN] BY DEF TypeOK
<1>5. /\ taken' \in Seq([batch : Nat, conn : Nat, whole : BOOLEAN])
      /\ Len(taken') = Len(taken) + 1
      /\ \A i \in 1 .. Len(taken) : taken'[i] = taken[i]
      /\ taken'[Len(taken) + 1] = piece
      BY <1>1, <1>4, OneMore DEF TypeOK
<1>6. \A i \in 1 .. Len(taken) : taken[i].batch < batch /\ taken[i].conn <= conns
      BY <1>2 DEF TakenBefore, Calling
<1>7. Len(taken) \in Nat /\ batch \in Nat /\ conns \in Nat BY DEF TypeOK
<1>8. TypeOK' BY <1>2, <1>3, <1>5 DEF TypeOK
<1>9. DescriptorKept' BY <1>3 DEF DescriptorKept
<1>10. piece.batch = batch /\ piece.conn = conns OBVIOUS
<1> HIDE DEF piece
<1>11. \A i \in 1 .. Len(taken) + 1 : i \in 1 .. Len(taken) \/ i = Len(taken) + 1
       BY <1>7
<1>12. TakenBefore'
  <2> SUFFICES ASSUME NEW i \in 1 .. Len(taken) + 1
               PROVE  taken'[i].batch <= batch /\ taken'[i].conn <= conns
      BY <1>2, <1>3, <1>5 DEF TakenBefore, Calling
  <2>1. CASE i \in 1 .. Len(taken)
    <3>1. taken[i].batch \in Nat BY <2>1, Numbered DEF TypeOK
    <3> QED BY <3>1, <2>1, <1>5, <1>6, <1>7
  <2>2. CASE i = Len(taken) + 1 BY <2>2, <1>5, <1>10, <1>7
  <2> QED BY <2>1, <2>2, <1>11
<1>13. InOrder'
  <2> SUFFICES ASSUME NEW i \in 1 .. Len(taken) + 1, NEW j \in 1 .. Len(taken) + 1, i < j
               PROVE  taken'[i].batch < taken'[j].batch /\ taken'[i].conn <= taken'[j].conn
      BY <1>5 DEF InOrder
  <2>1. i \in 1 .. Len(taken) BY <1>7
  <2>2. CASE j \in 1 .. Len(taken) BY <2>1, <2>2, <1>5 DEF InOrder
  <2>3. CASE j = Len(taken) + 1 BY <2>1, <2>3, <1>5, <1>6, <1>10
  <2> QED BY <2>2, <2>3, <1>11
<1>14. FreshQuiet' /\ RetryIsEnough' BY <1>2 DEF FreshQuiet, RetryIsEnough, Calling
<1> QED BY <1>8, <1>9, <1>12, <1>13, <1>14

\* So does a send that fails.
LEMMA FailsInv == ASSUME Inv, CloseAndRetry PROVE Inv'
<1> USE DEF Inv
<1>1. /\ pc \in {"send", "resend"} /\ connected
      /\ UNCHANGED <<format, sigpipe, sock, peer, conns, taken, batch, fresh, excuse>>
      /\ open' = open \ {sock} /\ connected' = FALSE
      /\ AfterFailure
      BY DEF CloseAndRetry, SendFails, ghostVars, FlagAfterClose, TypeOK
<1>2. /\ pc' \in {"reconnect", "idle"} /\ ret' \in {0, 1}
      /\ pc' = "idle" => pc = "resend"
      BY <1>1 DEF AfterFailure, Return, TypeOK
<1>3. TypeOK' BY <1>1, <1>2 DEF TypeOK
<1>4. DescriptorKept' BY <1>1 DEF DescriptorKept
<1>5. TakenBefore' BY <1>1, <1>2 DEF TakenBefore, Calling
<1>6. InOrder' BY <1>1 DEF InOrder
<1>7. fresh => excuse BY <1>1 DEF FreshQuiet, CloseAndRetry, SendFails, Calling
<1>8. FreshQuiet' BY <1>1, <1>2, <1>7 DEF FreshQuiet
<1>9. RetryIsEnough' BY <1>1, <1>2, <1>7 DEF FreshQuiet, RetryIsEnough
<1> QED BY <1>3, <1>4, <1>5, <1>6, <1>8, <1>9

\* Every step preserves the invariant.
LEMMA NextInv == Inv /\ [Next]_vars => Inv'
<1> SUFFICES ASSUME Inv, [Next]_vars PROVE Inv'
    OBVIOUS
<1> USE DEF Inv
<1>1. CASE Call
  <2>1. pc' \in {"send", "connect"} /\ pc = "idle" BY <1>1 DEF Call
  <2>2. TypeOK'
    <3>1. pc' = IF connected THEN "send" ELSE "connect" BY <1>1 DEF Call
    <3>2. /\ UNCHANGED <<format, sigpipe, connected, sock, open, peer, conns, taken, ret>>
          /\ batch' = batch + 1 /\ fresh' = FALSE /\ excuse' = FALSE
          BY <1>1 DEF Call, clientVars
    <3>3. connected \in BOOLEAN BY DEF TypeOK
    <3>4. /\ pc' \in {"send", "connect"}
          /\ pc' = "send" => connected
          /\ pc' = "connect" => ~connected
          BY <3>1, <3>3
    <3>5. /\ pc' \in {"send", "resend"} => connected'
          /\ pc' \in {"connect", "reconnect"} => ~connected'
          /\ connected' => conns' > 0
          BY <3>2, <3>4, Zenon DEF TypeOK
    <3>6. batch' \in Nat BY <3>2 DEF TypeOK
    <3>7. pc' \in {"idle", "connect", "send", "reconnect", "resend", "down"} BY <3>4
    <3>8. fresh' \in BOOLEAN /\ excuse' \in BOOLEAN BY <3>2
    <3> QED BY <3>2, <3>5, <3>6, <3>7, <3>8, Zenon DEF TypeOK
  <2>3. DescriptorKept' /\ InOrder' BY <1>1 DEF Call, DescriptorKept, InOrder, clientVars
  <2>4. TakenBefore'
    <3>1. batch \in Nat /\ taken \in Seq([batch : Nat, conn : Nat, whole : BOOLEAN])
          BY DEF TypeOK
    <3>2. taken' = taken /\ conns' = conns /\ batch' = batch + 1 BY <1>1 DEF Call
    <3> QED BY <3>1, <3>2, Numbered DEF TakenBefore
  <2>5. FreshQuiet' /\ RetryIsEnough'
        BY <1>1, <2>1 DEF Call, FreshQuiet, RetryIsEnough, Calling
  <2> QED BY <2>2, <2>3, <2>4, <2>5
<1>2. CASE Connect BY <1>2, ConnectInv DEF Connect
<1>3. CASE Reconnect BY <1>3, ConnectInv DEF Reconnect
<1>4. CASE SendTakes BY <1>4, TakesInv
<1>5. CASE CloseAndRetry BY <1>5, FailsInv
<1>6. CASE SigPipe
  <2>1. /\ pc' = "down"
        /\ UNCHANGED <<format, sigpipe, connected, sock, open, peer, conns, taken,
                       batch, ret, fresh, excuse>>
        BY <1>6 DEF SigPipe, clientVars, callVars, ghostVars
  <2> QED BY <2>1 DEF TypeOK, DescriptorKept, TakenBefore, InOrder, FreshQuiet,
                      RetryIsEnough, Calling
<1>7. CASE ServerDrops
  <2>1. /\ peer' \in {"closed", "reset"}
        /\ UNCHANGED <<pc, format, sigpipe, connected, sock, open, conns, taken,
                       batch, ret, fresh>>
        /\ excuse' = (excuse \/ (Calling /\ fresh))
        BY <1>7 DEF ServerDrops, clientVars, callVars
  <2>2. excuse' \in BOOLEAN BY <2>1 DEF TypeOK, Calling
  <2>3. TypeOK' BY <2>1, <2>2 DEF TypeOK
  <2>4. DescriptorKept' /\ InOrder' /\ TakenBefore'
        BY <2>1 DEF DescriptorKept, InOrder, TakenBefore, Calling
  <2>5. FreshQuiet' /\ RetryIsEnough' BY <2>1 DEF FreshQuiet, RetryIsEnough, Calling
  <2> QED BY <2>3, <2>4, <2>5
<1>8. CASE UNCHANGED vars
  BY <1>8 DEF vars, clientVars, callVars, ghostVars, TypeOK, DescriptorKept,
              TakenBefore, InOrder, FreshQuiet, RetryIsEnough, Calling
<1> QED BY <1>1, <1>2, <1>3, <1>4, <1>5, <1>6, <1>7, <1>8 DEF Next

\* The invariant holds in every state.
LEMMA Invariance == Spec => []Inv
BY InitInv, NextInv, PTL DEF Spec

\* The variables keep their ranges and hang together.
THEOREM TypeCorrect == Spec => []TypeOK
BY Invariance, PTL DEF Inv

\* No failure of the server leaves a descriptor behind, and the flag is right.
THEOREM DescriptorsCorrect == Spec => []DescriptorKept
BY Invariance, PTL DEF Inv

\* Batches are taken in order and none twice.
THEOREM OrderCorrect == Spec => []InOrder
BY Invariance, PTL DEF Inv

\* A call only fails when the server refused or broke its new connection.
THEOREM RetryCorrect == Spec => []RetryIsEnough
BY Invariance, PTL DEF Inv

\* The setting of SIGPIPE follows from the output format, and is kept.
THEOREM SurvivalCorrect == Spec => []SurvivesServer
<1> DEFINE J == sigpipe = ignore_sigpipe(format) /\ SurvivesServer
<1>1. Init => J BY DEF Init, SurvivesServer
<1>2. ASSUME J, [Next]_vars PROVE J'
  <2>1. UNCHANGED <<format, sigpipe>>
        BY <1>2 DEF Next, vars, Call, Connect, Reconnect, opentsdb_connect_socket,
                    SendTakes, CloseAndRetry, SigPipe, ServerDrops
  <2>2. CASE SigPipe BY <2>1, <2>2, <1>2 DEF SigPipe, SurvivesServer, ignore_sigpipe
  <2>3. CASE ~SigPipe
    <3>1. pc' = "down" => pc = "down"
          BY <1>2, <2>3 DEF Next, vars, Call, Connect, Reconnect, SendTakes,
             opentsdb_connect_socket, CloseAndRetry, ServerDrops, AfterTake,
             AfterFailure, Return
    <3> QED BY <3>1, <2>1, <1>2 DEF SurvivesServer, ignore_sigpipe
  <2> QED BY <2>2, <2>3
<1>3. J => SurvivesServer OBVIOUS
<1> HIDE DEF J
<1> QED BY <1>1, <1>2, <1>3, PTL DEF Spec

\* The client implements TsdbFeed: each step is one of its steps or a stutter.
THEOREM FeedImplemented == Spec => ImplementsFeed
<1>1. Init => Feed!Init BY DEF Init, Feed!Init, Calling
<1>2. ASSUME Inv, [Next]_vars PROVE [Feed!Next]_Feed!vars
  <2> USE DEF Feed!vars
  <2>1. CASE Call
        BY <2>1 DEF Call, Calling, Feed!Next, Feed!Offer
  <2>2. ASSUME NEW next \in {"send", "resend"}, pc \in {"connect", "reconnect"},
               opentsdb_connect_socket(next)
        PROVE  [Feed!Next]_Feed!vars
        BY <2>2 DEF opentsdb_connect_socket, Calling, Return,
                    Feed!Next, Feed!Connect, Feed!Lose
  <2>3. CASE Connect BY <2>2, <2>3 DEF Connect
  <2>4. CASE Reconnect BY <2>2, <2>4 DEF Reconnect
  <2>5. CASE SendTakes
    <3>1. Calling /\ ~Calling' /\ conns > 0 /\ UNCHANGED <<batch, conns>>
          BY <1>2, <2>5 DEF SendTakes, AfterTake, Return, Calling, Inv, TypeOK
    <3>2. PICK whole \in BOOLEAN :
              taken' = Append(taken, [batch |-> batch, conn |-> conns, whole |-> whole])
          BY <2>5 DEF SendTakes
    <3>3. Calling' = FALSE BY <3>1 DEF Calling
    <3>4. Feed!Take BY <3>1, <3>2, <3>3 DEF Feed!Take
    <3> QED BY <3>4 DEF Feed!Next
  <2>6. CASE CloseAndRetry
        BY <2>6 DEF CloseAndRetry, SendFails, AfterFailure, Return, Calling,
                    Feed!Next, Feed!Lose
  <2>7. CASE SigPipe
        BY <2>7 DEF SigPipe, SendFails, Calling, callVars, Feed!Next, Feed!Lose
  <2>8. CASE ServerDrops BY <2>8 DEF ServerDrops, Calling, callVars
  <2>9. CASE UNCHANGED vars BY <2>9 DEF vars, callVars, Calling
  <2> QED BY <1>2, <2>1, <2>3, <2>4, <2>5, <2>6, <2>7, <2>8, <2>9 DEF Next
<1> QED BY <1>1, <1>2, Invariance, PTL DEF Spec, ImplementsFeed, Feed!Spec

=============================================================================
