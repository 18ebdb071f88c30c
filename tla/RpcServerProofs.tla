-------------------------- MODULE RpcServerProofs --------------------------
(* Machine-checked proofs about RpcServer, for any connections, workers    *)
(* and requests.                                                           *)
EXTENDS RpcServer, TLAPS

USE RpcServerAssumption

(* The requests and the stages have their types; no channel has services,  *)
(* since setServices sets nothing; and read_cb is bound before a           *)
(* connection is open.                                                     *)
IInv ==
  /\ stage \in [Conns -> {"new", "made", "bound", "open", "closed"}]
  /\ sent \subseteq Requests
  /\ services = [c \in Conns |-> FALSE]
  /\ (\E c \in Conns : stage[c] \in {"bound", "open", "closed"}) => readCb \in Conns
  /\ ReplyToAsker

(* A channel without services answers NO_SERVICE, to the asker.            *)
LEMMA AnswerToAsker ==
  ASSUME IInv, NEW r \in Requests, stage[Asks[r]] = "open", Answer(readCb, r)
  PROVE  ReplyToAsker'
<1>1. readCb \in Conns /\ services[readCb] = FALSE
  BY DEF IInv
<1>2. answered' = answered \cup {<<Asks[r], r, "NO_SERVICE">>}
  BY <1>1 DEF Answer, ErrorOf, ReplyTo
<1> QED
  BY <1>2 DEF IInv, ReplyToAsker

(* Every step of the server, and of its clients, keeps the invariant.      *)
LEMMA Step == IInv /\ [Next]_vars => IInv'
<1> SUFFICES ASSUME IInv, [Next]_vars PROVE IInv'
  OBVIOUS
<1>1. CASE RegisterService
  BY <1>1 DEF RegisterService, IInv, ReplyToAsker
<1>2. ASSUME NEW c \in Conns, MakeChannel(c) PROVE IInv'
  BY <1>2 DEF MakeChannel, SetServices, IInv, ReplyToAsker
<1>3. ASSUME NEW c \in Conns, Bind(c) PROVE IInv'
  BY <1>3 DEF Bind, IInv, ReplyToAsker
<1>4. ASSUME NEW c \in Conns, Return(c) PROVE IInv'
  BY <1>4 DEF Return, IInv, ReplyToAsker
<1>5. ASSUME NEW r \in Requests, Ask(r) PROVE IInv'
  BY <1>5 DEF Ask, IInv, ReplyToAsker
<1>6. ASSUME NEW r \in Requests, Read(r) PROVE IInv'
  <2>1. ReplyToAsker'
    BY <1>6, AnswerToAsker DEF Read
  <2> QED
    BY <1>6, <2>1 DEF Read, IInv
<1>7. ASSUME NEW r \in Requests, ReadCrashes(r) PROVE IInv'
  BY <1>7 DEF ReadCrashes, IInv, ReplyToAsker
<1>8. ASSUME NEW c \in Conns, HangUp(c) PROVE IInv'
  BY <1>8 DEF HangUp, IInv, ReplyToAsker
<1>9. CASE UNCHANGED vars
  BY <1>9 DEF vars, IInv, ReplyToAsker
<1> QED
  BY <1>1, <1>2, <1>3, <1>4, <1>5, <1>6, <1>7, <1>8, <1>9 DEF Next, OnConnection

(* Every reply is written to the connection its request came on, whatever  *)
(* channel read_cb points at, and whether that channel still exists.       *)
THEOREM RepliesGoBack == Spec => []ReplyToAsker
<1>1. Init => IInv
  BY DEF Init, IInv, ReplyToAsker
<1>2. IInv => ReplyToAsker
  BY DEF IInv
<1> QED
  BY <1>1, <1>2, Step, PTL DEF Spec
=============================================================================
