----------------------------- MODULE RpcServer -----------------------------
(***************************************************************************)
(* mRpc::RpcServer and the answering side of RpcChannel: onConnection,     *)
(* which makes a channel for a new connection and installs it in the       *)
(* server's one read callback, and the REQUEST branch of onRpcMessage,     *)
(* which looks up a service and answers.                                   *)
(*                                                                         *)
(* Interleaving.  Connection c is served by thread Worker[c], one callback *)
(* at a time; different workers run at the same time and share read_cb.    *)
(*                                                                         *)
(* The channel of a connection is owned by a local shared_ptr and is       *)
(* deleted when onConnection returns, while read_cb keeps a raw pointer to *)
(* it.  A read callback on a deleted channel is undefined: either the      *)
(* memory still holds what it held and the channel answers as before, or   *)
(* the process crashes.  So may a call of read_cb, a std::function, that   *)
(* another worker assigns meanwhile.                                       *)
(*                                                                         *)
(* Abstraction.  A request is an element of Requests; Asks says who sends  *)
(* it, and Kind what is wrong with it.  Frames arrive whole (CodecLite).   *)
(***************************************************************************)
EXTENDS Naturals

CONSTANTS
  Conns,     \* the connections
  Workers,   \* the worker threads
  Worker,    \* Worker[c]: the worker that serves c
  Requests,  \* the requests sent by clients
  Asks,      \* Asks[r]: the connection r is sent on
  Kind,      \* Kind[r]: "good", "noService", "noMethod" or "unparsable"
  NoConn     \* the read callback is not set

ASSUME RpcServerAssumption ==
  /\ Worker \in [Conns -> Workers]
  /\ Asks \in [Requests -> Conns]
  /\ Kind \in [Requests -> {"good", "noService", "noMethod", "unparsable"}]
  /\ NoConn \notin Conns

VARIABLES
  registered, \* the service that the requests name is in the map of services
  stage,     \* stage[c]: "new", "made" and "bound" in onConnection, "open", "closed"
  alive,     \* alive[c]: the RpcChannel of connection c exists
  services,  \* services[c]: that channel's services pointer is not null
  readCb,    \* the connection whose channel read_cb points at
  sent,      \* requests sent and not read yet
  answered,  \* <<connection, request, error>>: the replies written
  crashed    \* the process is gone

vars == <<registered, stage, alive, services, readCb, sent, answered, crashed>>

Init ==
  /\ registered = FALSE
  /\ stage = [c \in Conns |-> "new"]
  /\ alive = [c \in Conns |-> FALSE]
  /\ services = [c \in Conns |-> FALSE]
  /\ readCb = NoConn
  /\ sent = {}
  /\ answered = {}
  /\ crashed = FALSE

(* Worker w is in its event loop.                                          *)
Free(w) == ~crashed /\ \A c \in Conns : Worker[c] = w => stage[c] \notin {"made", "bound"}

-----------------------------------------------------------------------------
(* registerService, which start(), as it does not return, comes after.     *)
RegisterService ==
  /\ \A c \in Conns : stage[c] = "new"
  /\ registered' = TRUE
  /\ UNCHANGED <<stage, alive, services, readCb, sent, answered, crashed>>

-----------------------------------------------------------------------------
(* onConnection                                                            *)

(* setServices assigns its parameter to itself: the member keeps its value.*)
SetServices(member, parameter) == member

(* A channel is made, with a null services pointer, and given the services.*)
MakeChannel(c) ==
  /\ Free(Worker[c])
  /\ stage[c] = "new"
  /\ stage' = [stage EXCEPT ![c] = "made"]
  /\ alive' = [alive EXCEPT ![c] = TRUE]
  /\ services' = [services EXCEPT ![c] = SetServices(FALSE, TRUE)]
  /\ UNCHANGED <<registered, readCb, sent, answered, crashed>>

(* setReadCallback replaces the callback of the whole server.              *)
Bind(c) ==
  /\ ~crashed
  /\ stage[c] = "made"
  /\ stage' = [stage EXCEPT ![c] = "bound"]
  /\ readCb' = c
  /\ UNCHANGED <<registered, alive, services, sent, answered, crashed>>

(* onConnection returns and the last shared_ptr to the channel goes.       *)
Return(c) ==
  /\ ~crashed
  /\ stage[c] = "bound"
  /\ stage' = [stage EXCEPT ![c] = "open"]
  /\ alive' = [alive EXCEPT ![c] = FALSE]
  /\ UNCHANGED <<registered, services, readCb, sent, answered, crashed>>

-----------------------------------------------------------------------------
(* A client sends a request on an accepted connection.                     *)
Ask(r) ==
  /\ stage[Asks[r]] # "closed"
  /\ r \notin sent /\ \A m \in answered : m[2] # r
  /\ sent' = sent \cup {r}
  /\ UNCHANGED <<registered, stage, alive, services, readCb, answered, crashed>>

(* What the REQUEST branch makes of a request.                             *)
ErrorOf(known, kind) ==
  IF ~known THEN "NO_SERVICE"
  ELSE [good |-> "NO_ERROR", noService |-> "NO_SERVICE",
        noMethod |-> "NO_METHOD", unparsable |-> "INVALID_REQUEST"][kind]

(* Mutant of ReplyTo: the error, too, goes to the channel's own connection.*)
ReplyToOwn(ch, c, error) == ch

(* Where the reply goes: an error to the connection the request came on;   *)
(* doneCallback, after a service was called, to the channel's own.         *)
ReplyTo(ch, c, error) == IF error = "NO_ERROR" THEN ch ELSE c

(* Mutant of Answer: an unknown service is not answered.                   *)
AnswerSilent(ch, r) ==
  LET error == ErrorOf(services[ch] /\ registered, Kind[r])
  IN  answered' = IF error = "NO_SERVICE" THEN answered
                  ELSE answered \cup {<<ReplyTo(ch, Asks[r], error), r, error>>}

Answer(ch, r) ==
  LET error == ErrorOf(services[ch] /\ registered, Kind[r])
  IN  answered' = answered \cup {<<ReplyTo(ch, Asks[r], error), r, error>>}

(* Mutant of Read: the request is not taken out of the buffer.             *)
ReadKeeps(r) ==
  /\ Free(Worker[Asks[r]])
  /\ stage[Asks[r]] = "open"
  /\ r \in sent
  /\ Answer(readCb, r)
  /\ UNCHANGED <<registered, stage, alive, services, readCb, sent, crashed>>

(* bufferReadCb on the connection of r: the channel in read_cb, alive or   *)
(* not, handles the request.                                               *)
Read(r) ==
  /\ Free(Worker[Asks[r]])
  /\ stage[Asks[r]] = "open"
  /\ r \in sent
  /\ sent' = sent \ {r}
  /\ Answer(readCb, r)
  /\ UNCHANGED <<registered, stage, alive, services, readCb, crashed>>

(* The channel in read_cb is gone, or another worker is about to assign    *)
(* read_cb and does so during the call: either may end the process.        *)
ReadCrashes(r) ==
  /\ Free(Worker[Asks[r]])
  /\ stage[Asks[r]] = "open"
  /\ r \in sent
  /\ ~alive[readCb] \/ \E c \in Conns : stage[c] = "made"
  /\ crashed' = TRUE
  /\ UNCHANGED <<registered, stage, alive, services, readCb, sent, answered>>

(* The client hangs up: bufferEventCb deletes the connection, read_cb      *)
(* stays as it is.                                                         *)
HangUp(c) ==
  /\ Free(Worker[c])
  /\ stage[c] = "open"
  /\ stage' = [stage EXCEPT ![c] = "closed"]
  /\ sent' = {r \in sent : Asks[r] # c}
  /\ UNCHANGED <<registered, alive, services, readCb, answered, crashed>>

OnConnection(c) == MakeChannel(c) \/ Bind(c) \/ Return(c)

Next ==
  \/ RegisterService
  \/ \E c \in Conns : OnConnection(c)
  \/ \E r \in Requests : Ask(r) \/ Read(r) \/ ReadCrashes(r)
  \/ \E c \in Conns : HangUp(c)

Spec == Init /\ [][Next]_vars

(* The workers run on.                                                     *)
FairSpec ==
  /\ Spec
  /\ \A c \in Conns : WF_vars(OnConnection(c))
  /\ \A r \in Requests : WF_vars(Read(r) \/ ReadCrashes(r))

-----------------------------------------------------------------------------
(* Properties.                                                             *)

(* A reply is written to the connection its request came on, although the  *)
(* channel that handles it belongs to whatever connection came last.       *)
ReplyToAsker == \A m \in answered : m[1] = Asks[m[2]]

(* A request that was sent is answered, whatever is wrong with it, unless  *)
(* the process is gone or the client hung up.                              *)
AskedAnswered ==
  \A r \in Requests :
    r \in sent ~> (\E m \in answered : m[2] = r) \/ crashed \/ stage[Asks[r]] = "closed"

(* onConnection's comment has the connection keep its channel: when a      *)
(* connection is open, its channel exists.                                 *)
ChannelOutlivesConnection == \A c \in Conns : stage[c] = "open" => alive[c]
=============================================================================
