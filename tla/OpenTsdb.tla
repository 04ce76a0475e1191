------------------------------- MODULE OpenTsdb -------------------------------
(***************************************************************************)
(* The OpenTSDB client of src/src/sflowtool.c: opentsdb_simple_connect and *)
(* opentsdb_connect_socket, with the two globals they keep between calls.  *)
(*                                                                         *)
(* A batch is a number.  What matters of the server is whether it still    *)
(* has the connection: it may close it, after which a first send still     *)
(* goes through and is lost, and the next one finds the connection reset.  *)
(* Sends do not block (MSG_DONTWAIT): with the socket's buffer full they   *)
(* take part of a batch, or fail.                                          *)
(***************************************************************************)
EXTENDS Naturals, Sequences

CONSTANTS MaxBatches      \* bound: calls considered

ASSUME BatchesAssumption == MaxBatches \in Nat

VARIABLES
    pc,          \* in opentsdb_simple_connect, "idle" outside, "down" after SIGPIPE
    format,      \* sfConfig.outputFormat, as far as it matters here
    sigpipe,     \* what SIGPIPE does: "ends" or "ignored"
    connected,   \* g_opentsdb_socket_connected
    sock,        \* g_opentsdb_sock
    open,        \* descriptors the process has open for this client
    peer,        \* the connection as the network has it: "up", "closed", "reset"
    conns,       \* connections made
    taken,       \* what was sent: batch, connection, whether it went whole
    batch,       \* the current batch, or the last one
    ret,         \* result of the last call
    fresh,       \* the connection was made in this call
    excuse       \* in this call a socket was refused, or a fresh connection broke

clientVars == <<connected, sock, open>>
callVars   == <<batch, ret>>
ghostVars  == <<fresh, excuse>>
vars == <<pc, format, sigpipe, clientVars, peer, conns, taken, callVars, ghostVars>>

NoSocket == 0
Calling == pc \notin {"idle", "down"}

\* main: SIGPIPE is ignored for one output format, batches are sent for all.
\* Mutant: the call of ignore_sigpipe is dropped.
ignore_sigpipe_Never(f) == "ends"
ignore_sigpipe(f) == IF f = "SFLFMT_TSD" THEN "ignored" ELSE "ends"

Init ==
    /\ pc = "idle"
    /\ format \in {"SFLFMT_TSD", "SFLFMT_FULL"}
    /\ sigpipe = ignore_sigpipe(format)
    /\ connected = FALSE /\ sock = NoSocket /\ open = {}
    /\ peer = "closed" /\ conns = 0 /\ taken = <<>>
    /\ batch = 0 /\ ret = 0
    /\ fresh = FALSE /\ excuse = FALSE

Return(value) == pc' = "idle" /\ ret' = value

\* The lowest descriptor that is free
NewDescriptor == CHOOSE d \in 1 .. MaxBatches + 1 :
                    d \notin open /\ \A e \in 1 .. d - 1 : e \in open

\* A reader calls opentsdb_simple_connect with the batch it put together.
Call ==
    /\ pc = "idle" /\ batch < MaxBatches
    /\ batch' = batch + 1
    /\ pc' = IF connected THEN "send" ELSE "connect"
    /\ fresh' = FALSE /\ excuse' = FALSE
    /\ UNCHANGED <<format, sigpipe, clientVars, peer, conns, taken, ret>>

\* opentsdb_connect_socket: no socket, no connection, or a connection.
\* Mutant: the descriptor of a refused connection is not closed.
ConnectRefused_Leak ==
    /\ sock' = NewDescriptor /\ open' = open \cup {NewDescriptor}
ConnectRefused ==
    /\ sock' \in {NoSocket, NewDescriptor} /\ open' = open

opentsdb_connect_socket(next) ==
    /\ UNCHANGED <<format, sigpipe, taken, batch>>
    /\ \/ /\ ConnectRefused
          /\ Return(1)
          /\ excuse' = TRUE
          /\ UNCHANGED <<connected, peer, conns, fresh>>
       \/ /\ sock' = NewDescriptor /\ open' = open \cup {NewDescriptor}
          /\ connected' = TRUE /\ peer' = "up" /\ conns' = conns + 1
          /\ fresh' = TRUE
          /\ pc' = next
          /\ UNCHANGED <<ret, excuse>>

Connect   == pc = "connect"   /\ opentsdb_connect_socket("send")
Reconnect == pc = "reconnect" /\ opentsdb_connect_socket("resend")

\* send returns how much it took, which nobody looks at.
\* Mutant: a batch cut short is sent again as a whole.
AfterTake_RetryShort(whole) == IF whole THEN Return(0) ELSE pc' = "resend" /\ UNCHANGED ret
AfterTake(whole) == Return(0)
SendTakes ==
    /\ pc \in {"send", "resend"}
    /\ peer # "reset"
    /\ \E whole \in BOOLEAN :
          /\ taken' = Append(taken, [batch |-> batch, conn |-> conns, whole |-> whole])
          /\ AfterTake(whole)
    /\ UNCHANGED <<format, sigpipe, clientVars, peer, conns, batch, ghostVars>>

\* It fails on a connection that was reset, or that still holds data to send.
SendFails ==
    /\ pc \in {"send", "resend"}
    /\ peer = "reset" \/ \E i \in 1 .. Len(taken) : taken[i].conn = conns

\* The first failure gets one more try on a new connection.
\* Mutant: it does not.
AfterFailure_GiveUp == Return(1)
AfterFailure ==
    IF pc = "send" THEN pc' = "reconnect" /\ UNCHANGED ret ELSE Return(1)

\* Mutant: the flag is not cleared.
FlagAfterClose_Kept == connected
FlagAfterClose == FALSE
CloseAndRetry ==
    /\ SendFails
    /\ open' = open \ {sock} /\ connected' = FlagAfterClose
    /\ AfterFailure
    /\ UNCHANGED <<format, sigpipe, sock, peer, conns, taken, batch, ghostVars>>

SigPipe ==
    /\ SendFails /\ peer = "reset" /\ sigpipe = "ends"
    /\ pc' = "down"
    /\ UNCHANGED <<format, sigpipe, clientVars, peer, conns, taken, callVars, ghostVars>>

\* The server, or the network, drops the connection at any time.
ServerDrops ==
    /\ connected /\ pc # "down"
    /\ \/ peer = "up" /\ peer' \in {"closed", "reset"}
       \/ peer = "closed" /\ peer' = "reset"
    /\ excuse' = (excuse \/ (Calling /\ fresh))
    /\ UNCHANGED <<pc, format, sigpipe, clientVars, conns, taken, callVars, fresh>>

Next ==
    \/ Call \/ Connect \/ Reconnect \/ SendTakes \/ CloseAndRetry \/ SigPipe
    \/ ServerDrops

Spec == Init /\ [][Next]_vars

(***************************************************************************)
(* Properties.                                                             *)
(***************************************************************************)

\* Ranges of the variables, and how they hang together: a send is only tried
\* on a connection, a connection is only made when there is none.
TypeOK ==
    /\ pc \in {"idle", "connect", "send", "reconnect", "resend", "down"}
    /\ format \in {"SFLFMT_TSD", "SFLFMT_FULL"} /\ sigpipe \in {"ends", "ignored"}
    /\ connected \in BOOLEAN /\ sock \in Nat /\ open \subseteq Nat
    /\ peer \in {"up", "closed", "reset"} /\ conns \in Nat
    /\ taken \in Seq([batch : Nat, conn : Nat, whole : BOOLEAN])
    /\ batch \in Nat /\ ret \in {0, 1}
    /\ fresh \in BOOLEAN /\ excuse \in BOOLEAN
    /\ pc \in {"send", "resend"} => connected
    /\ pc \in {"connect", "reconnect"} => ~connected
    /\ connected => conns > 0

\* Whatever fails, and in whatever call, the flag says whether g_opentsdb_sock
\* is open, and no other descriptor is left behind: a server that is away for
\* a day costs no descriptors.
DescriptorKept == open = IF connected THEN {sock} ELSE {}

\* The batches the connections took are in the order they were handed over
\* and none is there twice, although a failed send is tried again: the retry
\* never repeats what an earlier send took.
InOrder ==
    \A i, j \in 1 .. Len(taken) :
        i < j => taken[i].batch < taken[j].batch /\ taken[i].conn <= taken[j].conn

\* One retry is enough: the call fails only if the server refused a connection
\* or broke the one made in this very call.
RetryIsEnough == pc = "idle" /\ ret = 1 => excuse

\* With the time-series output no server restart ends the process.
SurvivesServer == format = "SFLFMT_TSD" => pc # "down"

\* The client does what its callers are promised.
Feed == INSTANCE TsdbFeed WITH offered <- batch, pending <- Calling
ImplementsFeed == Feed!Spec

=============================================================================
