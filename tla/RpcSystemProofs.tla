-------------------------- MODULE RpcSystemProofs --------------------------
(* Machine-checked proofs about a client and a server together, for any    *)
(* calls, connections, workers and starts of the client, and any width of  *)
(* the counter: that the system implements each of its components, and the *)
(* safety properties that no component has by itself.                      *)
EXTENDS RpcSystem, RpcChannelProofs

USE SystemAssumption

-----------------------------------------------------------------------------
(* The inductive invariant, which joins RpcChannelProofs!IInv.             *)

InMethod(c) == stage[c] \notin {"new", "sent"}
WasAnswered(c) == \E m \in answered : m[2] = Request(c)

(* No channel of the server has services, and read_cb is bound before a    *)
(* connection is open.                                                     *)
ServerOK ==
  /\ svStage \in [Conns -> {"new", "made", "bound", "open", "closed"}]
  /\ services = [k \in Conns |-> FALSE]
  /\ (\E k \in Conns : svStage[k] \in {"bound", "open", "closed"}) => readCb \in Conns

(* conn_.writeBuf is that of the present connection as soon as there is    *)
(* one, and only the loop has a socket.                                    *)
BufOK ==
  /\ clMade \in 0 .. MaxStarts /\ clBev \in 0 .. clMade /\ clBuf \in 0 .. clMade
  /\ came \subseteq 1 .. clMade
  /\ clBev \in came => clBuf = clBev
  /\ clLink # "down" => clBev # 0
  /\ clOwner # "loop" \/ clExiting => clLink = "down"
  /\ clLink = "up" => clBev \in came

(* A request on the wire was sent on a connection that the server knows.   *)
ViaOK ==
  /\ via \in [Calls -> Nat]
  /\ \A c \in requests : via[c] \in 1 .. MaxStarts

(* What the server wrote went to the connection of a request that was sent *)
(* and is not on its way any more.                                         *)
AnswersOK ==
  \A m \in answered :
    \E c \in Calls : /\ m = <<via[c], Request(c), "NO_SERVICE">>
                     /\ c \notin requests /\ stage[c] = "sent"

(* A reply on its way, or in onRpcMessage, is one that the server wrote.   *)
RepliesOK ==
  /\ \A m \in replies : m[2] = "error" /\ WasAnswered(m[1])
  /\ \A ch \in Channels :
       rxpc[ch] # "idle" => rxmsg[ch][2] = "error" /\ WasAnswered(rxmsg[ch][1])

(* The client's one thread is in one CallMethod at a time.                 *)
OneAtATime ==
  /\ \A c, d \in Calls : InMethod(c) /\ InMethod(d) => c = d
  /\ overlapped = FALSE

(* A closure has run only for an answered call, unless the counter wrapped.*)
CompletedOK ==
  \A c \in Calls : answer[c] = NoCall /\ (runs[c] > 0 => wrapped \/ WasAnswered(c))

(* While a call made in a callback of a connection is in CallMethod, the   *)
(* callback runs, the connection is the present one and the channel knows  *)
(* its Conn.                                                               *)
InCallbackOK ==
  byCtor =>
    /\ \A c \in Calls : InMethod(c) /\ c \notin stray =>
                          conn = "conn" /\ clCb # "none" /\ clBev \in came
    /\ clCrash => stray # {}

SysInv ==
  /\ ServerOK /\ BufOK /\ ViaOK /\ AnswersOK /\ RepliesOK /\ OneAtATime /\ CompletedOK
  /\ InCallbackOK

-----------------------------------------------------------------------------
(* The system implements its components, step by step.                     *)

(* A request that is on the wire is one that the server can name.          *)
LEMMA RequestKnown ==
  ASSUME IInv, SysInv, NEW c \in requests
  PROVE  c \in Calls /\ via[c] \in Conns /\ Request(c) \in Requests
  BY DEF IInv, TypeOK, SysInv, ViaOK, Request, Requests

(* The server takes a request of the client's once and answers it, with    *)
(* NO_SERVICE, to its connection, whatever channel read_cb points at.      *)
LEMMA ReadAnswers ==
  ASSUME IInv, SysInv, NEW c \in requests, requests' \in SUBSET requests, UNCHANGED via,
         Srv!Read(Request(c))
  PROVE  /\ requests' = requests \ {c}
         /\ answered' \ answered = {<<via[c], Request(c), "NO_SERVICE">>}
         /\ answered' = answered \cup {<<via[c], Request(c), "NO_SERVICE">>}
<1> DEFINE r == Request(c)
           wire == {Request(d) : d \in requests}
<1>1. via[c] \in Conns /\ r \in Requests /\ r = <<c, via[c]>>
  BY RequestKnown DEF Request
<1>2. svStage[via[c]] = "open" /\ {Request(d) : d \in requests}' = wire \ {r}
  BY <1>1 DEF Srv!Read
<1>3. requests' = requests \ {c}
  <2>1. ASSUME NEW d \in requests' PROVE d # c
    <3>1. Request(d)' \in {Request(e) : e \in requests}'
      OBVIOUS
    <3>2. Request(d)' = Request(d)
      BY DEF Request
    <3> QED
      BY <1>2, <3>1, <3>2
  <2>2. ASSUME NEW d \in requests, d # c PROVE d \in requests'
    <3>1. Request(d) # Request(c)
      BY <2>2 DEF Request
    <3>2. Request(d) \in {Request(e) : e \in requests}'
      BY <1>2, <3>1
    <3>3. PICK e \in requests' : Request(d) = Request(e)'
      BY <3>2
    <3> QED
      BY <3>3 DEF Request
  <2> QED
    BY <2>1, <2>2
<1>4. readCb \in Conns /\ services[readCb] = FALSE
  BY <1>1, <1>2 DEF SysInv, ServerOK
<1>5. answered' = answered \cup {<<via[c], r, "NO_SERVICE">>}
  BY <1>1, <1>4 DEF Srv!Read, Srv!Answer, Srv!ErrorOf, Srv!ReplyTo
<1>6. <<via[c], r, "NO_SERVICE">> \notin answered
  <2>1. ASSUME NEW m \in answered, m = <<via[c], r, "NO_SERVICE">> PROVE FALSE
    <3>1. PICK d \in Calls : m = <<via[d], Request(d), "NO_SERVICE">> /\ d \notin requests
      BY DEF SysInv, AnswersOK
    <3> QED
      BY <2>1, <3>1 DEF Request
  <2> QED
    BY <2>1
<1> QED
  BY <1>3, <1>5, <1>6

(* So a read of the server is a Reply of the channel's environment.        *)
LEMMA ReadReplies ==
  ASSUME IInv, SysInv, NEW c \in Calls, ServerReads(c)
  PROVE  \/ /\ Reply(c, "error")
            /\ answered' = answered \cup {<<via[c], Request(c), "NO_SERVICE">>}
         \/ UNCHANGED <<vars, answered>>
<1>1. c \in requests /\ UNCHANGED <<chRest, via>>
  BY DEF ServerReads
<1>2. CASE /\ requests' \in SUBSET requests
           /\ Srv!Read(Request(c))
           /\ replies' = replies \cup UNION {Replied(c, m) : m \in answered' \ answered}
  <2>1. Replied(c, <<via[c], Request(c), "NO_SERVICE">>) = {<<c, "error">>}
    BY DEF Replied
  <2>2. replies' = replies \cup {<<c, "error">>}
    BY <1>1, <1>2, <2>1, ReadAnswers
  <2> QED
    BY <1>1, <1>2, <2>2, ReadAnswers DEF Reply, chRest
<1>3. CASE Srv!ReadCrashes(Request(c)) /\ UNCHANGED <<requests, replies>>
  BY <1>1, <1>3 DEF Srv!ReadCrashes, chRest, vars
<1> QED
  BY <1>2, <1>3 DEF ServerReads

(* A call that was answered was sent, and is not on the wire.              *)
LEMMA AnsweredOffWire ==
  ASSUME SysInv, NEW c, WasAnswered(c)
  PROVE  c \in Calls /\ c \notin requests /\ stage[c] = "sent"
  BY DEF SysInv, AnswersOK, WasAnswered, Request

(* When the server hangs up, requests are lost, or nothing is.             *)
LEMMA HangUpLoses ==
  ASSUME IInv, SysInv, NEW k \in Conns, ServerHangsUp(k)
  PROVE  (\E lost \in SUBSET Calls : Lose(lost)) \/ UNCHANGED vars
<1> DEFINE lost == {r \in requests : via[r] = k}
<1>1. requests' = requests \ lost /\ UNCHANGED <<replies, chRest>>
  BY DEF ServerHangsUp
<1>2. CASE lost = {}
  BY <1>1, <1>2 DEF chRest, vars
<1>3. CASE lost # {}
  <2>1. \A m \in replies : m[1] \notin lost
    BY AnsweredOffWire DEF SysInv, RepliesOK
  <2>2. lost \in SUBSET Calls
    BY DEF IInv, TypeOK
  <2>3. Lose(lost)
    BY <1>1, <1>3, <2>1 DEF Lose, chRest
  <2> QED
    BY <2>2, <2>3
<1> QED
  BY <1>2, <1>3

(* Every step of the system is one of the channel and its environment, or  *)
(* leaves the channel alone.                                               *)
LEMMA ChannelStep ==
  ASSUME IInv, SysInv, [SysNext]_sysVars
  PROVE  [Next]_vars
<1>1. ASSUME NEW c \in Calls, MakeCall(c) PROVE Next
  BY <1>1 DEF MakeCall, Next
<1>2. ASSUME NEW c \in Calls, MethodStep(c) PROVE Next
  BY <1>2 DEF MethodStep, SendRequest, Next, CallStep
<1>3. ASSUME NEW c \in Calls, SendCrashes(c) PROVE UNCHANGED vars
  BY <1>3 DEF SendCrashes
<1>4. ASSUME NEW c \in Calls, ServerReads(c) PROVE [Next]_vars
  <2>1. "error" \in Kinds
    BY DEF Kinds
  <2> QED
    BY <1>4, <2>1, ReadReplies DEF Next
<1>5. CASE Run \/ Connect \/ LoopStep \/ UserQuits \/ DestroyClient
  BY <1>5 DEF Run, Connect, LoopStep, UserQuits, DestroyClient
<1>6. CASE Register
  BY <1>6 DEF Register
<1>7. ASSUME NEW ch \in Channels, ReadFrame(ch) \/ HandleReply(ch) \/ DestroyChannel(ch)
      PROVE  Next
  BY <1>7 DEF ReadFrame, HandleReply, DestroyChannel, Next, RxStep
<1>8. ASSUME NEW k \in Conns, ServerConnects(k) PROVE UNCHANGED vars
  BY <1>8 DEF ServerConnects
<1>9. ASSUME NEW k \in Conns, ServerHangsUp(k) PROVE [Next]_vars
  BY <1>9, HangUpLoses DEF Next
<1>10. CASE UNCHANGED sysVars
  BY <1>10 DEF sysVars
<1> QED
  BY <1>1, <1>2, <1>3, <1>4, <1>5, <1>6, <1>7, <1>8, <1>9, <1>10 DEF SysNext

(* What the server does not see.                                           *)
LEMMA ServerSleeps ==
  ASSUME UNCHANGED <<requests, via, svRest>>
  PROVE  UNCHANGED Srv!vars
<1>1. {Request(d) : d \in requests}' = {Request(d) : d \in requests}
  BY DEF Request
<1> QED
  BY <1>1 DEF svRest, Srv!vars

(* Nor does it see a call that is sent to nobody.                          *)
LEMMA ViaOfOthers ==
  ASSUME IInv, SysInv, NEW c \in Calls, stage[c] = "send", via' = [via EXCEPT ![c] = clBuf]
  PROVE  /\ c \notin requests /\ ~WasAnswered(c) /\ Request(c)' = <<c, clBuf>>
         /\ \A d \in Calls \ {c} : via'[d] = via[d] /\ Request(d)' = Request(d)
<1>1. c \notin requests
  BY DEF IInv, WireOK
<1>2. ~WasAnswered(c)
  BY AnsweredOffWire
<1>3. via \in [Calls -> Nat]
  BY DEF SysInv, ViaOK
<1> QED
  BY <1>1, <1>2, <1>3 DEF Request

(* Every step of the system is one of the server and its clients, or       *)
(* leaves the server alone: the channel sends a request once, and the      *)
(* TcpClient not to a connection that is closed.                           *)
LEMMA ServerStep ==
  ASSUME IInv, SysInv, [SysNext]_sysVars
  PROVE  [Srv!Next]_Srv!vars
<1>1. ASSUME NEW c \in Calls, MakeCall(c) PROVE UNCHANGED Srv!vars
  BY <1>1, ServerSleeps DEF MakeCall, StartCall
<1>2. ASSUME NEW c \in Calls, MethodStep(c) PROVE [Srv!Next]_Srv!vars
  <2>1. UNCHANGED svRest
    BY <1>2 DEF MethodStep
  <2>2. CASE SendRequest(c)
    <3>1. stage[c] = "send" /\ via' = [via EXCEPT ![c] = clBuf]
      BY <2>2 DEF SendRequest, Send, SendFails, Advance
    <3>2. CASE SendFails(c)
      <4>1. UNCHANGED requests
        BY <3>2 DEF SendFails
      <4>2. requests \subseteq Calls \ {c}
        BY <3>1, ViaOfOthers DEF IInv, TypeOK
      <4>3. {Request(d) : d \in requests}' = {Request(d) : d \in requests}
        BY <3>1, <4>1, <4>2, ViaOfOthers
      <4> QED
        BY <2>1, <4>3 DEF svRest, Srv!vars
    <3>3. CASE OutputBuffer /\ svStage[clBuf] # "closed" /\ Send(c)
      <4> DEFINE r == <<c, clBuf>>
      <4>1. requests' = requests \cup {c} /\ requests \subseteq Calls \ {c}
        BY <3>1, <3>3, ViaOfOthers DEF Send, IInv, TypeOK
      <4>2. clBuf \in 1 .. MaxStarts
        BY <3>3 DEF OutputBuffer, SysInv, BufOK
      <4>3. r \in Requests
        BY <4>2 DEF Requests
      <4>4. {Request(d) : d \in requests}' = {Request(d) : d \in requests} \cup {r}
        BY <3>1, <4>1, ViaOfOthers
      <4>5. r \notin {Request(d) : d \in requests}
        BY <4>1 DEF Request
      <4>6. \A m \in answered : m[2] # r
        <5>1. ASSUME NEW m \in answered, m[2] = r PROVE FALSE
          BY <3>1, <5>1 DEF SysInv, AnswersOK, Request
        <5> QED
          BY <5>1
      <4>7. Srv!Ask(r)
        BY <2>1, <3>3, <4>3, <4>4, <4>5, <4>6 DEF Srv!Ask, svRest
      <4> QED
        BY <4>3, <4>7 DEF Srv!Next
    <3> QED
      BY <2>2, <3>2, <3>3 DEF SendRequest
  <2>3. CASE (LoadId(c) \/ StoreId(c) \/ ReloadId(c) \/ Lock(c) \/ Insert(c)) /\ UNCHANGED via
    BY <2>1, <2>3, ServerSleeps DEF LoadId, StoreId, ReloadId, Lock, Insert
  <2> QED
    BY <1>2, <2>2, <2>3 DEF MethodStep
<1>3. ASSUME NEW c \in Calls, SendCrashes(c) PROVE UNCHANGED Srv!vars
  BY <1>3, ServerSleeps DEF SendCrashes, vars
<1>4. ASSUME NEW c \in Calls, ServerReads(c) PROVE Srv!Next
  <2>1. Request(c) \in Requests
    BY <1>4, RequestKnown DEF ServerReads
  <2> QED
    BY <1>4, <2>1 DEF ServerReads, Srv!Next
<1>5. CASE Run \/ Connect \/ LoopStep \/ UserQuits \/ DestroyClient
  BY <1>5, ServerSleeps DEF Run, Connect, LoopStep, UserQuits, DestroyClient, vars
<1>6. CASE Register
  BY <1>6 DEF Register, Srv!Next
<1>7. ASSUME NEW ch \in Channels, ReadFrame(ch) \/ HandleReply(ch) \/ DestroyChannel(ch)
      PROVE  UNCHANGED Srv!vars
  BY <1>7, ServerSleeps DEF ReadFrame, Receive, HandleReply, RxLock, RxFind, TakeEntry, RxRun,
     RxReturn, DestroyChannel, Destroy
<1>8. ASSUME NEW k \in Conns, ServerConnects(k) \/ ServerHangsUp(k) PROVE Srv!Next
  BY <1>8 DEF ServerConnects, ServerHangsUp, Srv!Next
<1>9. CASE UNCHANGED sysVars
  BY <1>9, ServerSleeps DEF sysVars, vars
<1> QED
  BY <1>1, <1>2, <1>3, <1>4, <1>5, <1>6, <1>7, <1>8, <1>9 DEF SysNext

(* Every step of the system is one of the TcpClient, or leaves it alone.   *)
LEMMA ClientStep == ASSUME [SysNext]_sysVars PROVE [Client!Next]_Client!vars
<1> USE DEF clVars, Client!vars
<1>1. ASSUME NEW c \in Calls, MakeCall(c) \/ MethodStep(c) \/ SendCrashes(c) \/ ServerReads(c)
      PROVE  UNCHANGED Client!vars
  BY <1>1 DEF MakeCall, MethodStep, SendCrashes, ServerReads
<1>2. CASE Run \/ Connect \/ LoopStep \/ UserQuits \/ DestroyClient
  BY <1>2 DEF Run, Connect, LoopStep, UserQuits, DestroyClient, Client!Next
<1>3. CASE Register
  BY <1>3 DEF Register
<1>4. ASSUME NEW ch \in Channels, ReadFrame(ch) \/ HandleReply(ch) \/ DestroyChannel(ch)
      PROVE  [Client!Next]_Client!vars
  BY <1>4 DEF ReadFrame, HandleReply, DestroyChannel, Client!Next
<1>5. ASSUME NEW k \in Conns, ServerConnects(k) \/ ServerHangsUp(k) PROVE UNCHANGED Client!vars
  BY <1>5 DEF ServerConnects, ServerHangsUp
<1>6. CASE UNCHANGED sysVars
  BY <1>6 DEF sysVars
<1> QED
  BY <1>1, <1>2, <1>3, <1>4, <1>5, <1>6 DEF SysNext

-----------------------------------------------------------------------------
(* Every step keeps each part of the invariant.                            *)

(* The server binds read_cb before it reads, and gives nobody services.    *)
LEMMA ServerKeeps == ASSUME ServerOK, [Srv!Next]_Srv!vars PROVE ServerOK'
<1> USE DEF ServerOK
<1>1. CASE Srv!RegisterService
  BY <1>1 DEF Srv!RegisterService
<1>2. ASSUME NEW k \in Conns, Srv!MakeChannel(k) PROVE ServerOK'
  BY <1>2 DEF Srv!MakeChannel, Srv!SetServices
<1>3. ASSUME NEW k \in Conns, Srv!Bind(k) PROVE ServerOK'
  BY <1>3 DEF Srv!Bind
<1>4. ASSUME NEW k \in Conns, Srv!Return(k) PROVE ServerOK'
  BY <1>4 DEF Srv!Return
<1>5. ASSUME NEW r \in Requests, Srv!Ask(r) \/ Srv!Read(r) \/ Srv!ReadCrashes(r) PROVE ServerOK'
  BY <1>5 DEF Srv!Ask, Srv!Read, Srv!ReadCrashes
<1>6. ASSUME NEW k \in Conns, Srv!HangUp(k) PROVE ServerOK'
  BY <1>6 DEF Srv!HangUp
<1>7. CASE UNCHANGED Srv!vars
  BY <1>7 DEF Srv!vars
<1> QED
  BY <1>1, <1>2, <1>3, <1>4, <1>5, <1>6, <1>7 DEF Srv!Next, Srv!OnConnection

(* What a step does to the wire.                                           *)
QuietStep ==
  /\ requests' \subseteq requests /\ UNCHANGED <<answered, via>>
  /\ UNCHANGED <<replies, rxpc, rxmsg>> \/ \E ch \in Channels : RxStep(ch)
SendStep(c) ==
  /\ stage[c] = "send" /\ via' = [via EXCEPT ![c] = clBuf]
  /\ (Send(c) /\ clBuf # 0) \/ SendFails(c)
  /\ UNCHANGED answered
AnswerStep(c) ==
  /\ Reply(c, "error")
  /\ UNCHANGED via
  /\ answered' = answered \cup {<<via[c], Request(c), "NO_SERVICE">>}
OnTheWire == QuietStep \/ \E c \in Calls : SendStep(c) \/ AnswerStep(c)

(* Only a Send puts a request on the wire, only a read of the server takes *)
(* one off, writes an answer and puts a reply there, and only onRpcMessage *)
(* takes that.                                                             *)
LEMMA WireSteps ==
  ASSUME IInv, SysInv, [SysNext]_sysVars
  PROVE  OnTheWire
<1> USE DEF OnTheWire, QuietStep, SendStep, AnswerStep, RxStep
<1> USE DEF svRest, chRest
<1>1. ASSUME NEW c \in Calls, MakeCall(c) PROVE OnTheWire
  BY <1>1 DEF MakeCall, StartCall
<1>2. ASSUME NEW c \in Calls, MethodStep(c) PROVE OnTheWire
  <2>1. UNCHANGED answered
    BY <1>2 DEF MethodStep
  <2>2. CASE (LoadId(c) \/ StoreId(c) \/ ReloadId(c) \/ Lock(c) \/ Insert(c)) /\ UNCHANGED via
    BY <2>1, <2>2 DEF LoadId, StoreId, ReloadId, Lock, Insert
  <2>3. CASE SendRequest(c)
    BY <2>1, <2>3 DEF SendRequest, OutputBuffer, Send, SendFails, Advance
  <2> QED
    BY <1>2, <2>2, <2>3 DEF MethodStep
<1>3. ASSUME NEW c \in Calls, SendCrashes(c) PROVE OnTheWire
  BY <1>3 DEF SendCrashes, vars
<1>4. ASSUME NEW c \in Calls, ServerReads(c) PROVE OnTheWire
  <2>1. UNCHANGED via
    BY <1>4 DEF ServerReads
  <2> QED
    BY <1>4, <2>1, ReadReplies DEF vars
<1>5. CASE Run \/ Connect \/ LoopStep \/ UserQuits \/ DestroyClient
  BY <1>5 DEF Run, Connect, LoopStep, UserQuits, DestroyClient, vars
<1>6. CASE Register
  BY <1>6 DEF Register, Srv!RegisterService, vars
<1>7. ASSUME NEW ch \in Channels, ReadFrame(ch) PROVE OnTheWire
  BY <1>7 DEF ReadFrame, Receive
<1>8. ASSUME NEW ch \in Channels, HandleReply(ch) PROVE OnTheWire
  BY <1>8 DEF HandleReply, RxLock, RxFind, TakeEntry, RxRun, RxReturn
<1>9. ASSUME NEW ch \in Channels, DestroyChannel(ch) PROVE OnTheWire
  BY <1>9 DEF DestroyChannel, Destroy
<1>10. ASSUME NEW k \in Conns, ServerConnects(k) PROVE OnTheWire
  BY <1>10 DEF ServerConnects, Srv!OnConnection, Srv!MakeChannel, Srv!Bind, Srv!Return, vars
<1>11. ASSUME NEW k \in Conns, ServerHangsUp(k) PROVE OnTheWire
  BY <1>11 DEF ServerHangsUp, Srv!HangUp
<1>12. CASE UNCHANGED sysVars
  BY <1>12 DEF sysVars, vars
<1> QED
  BY <1>1, <1>2, <1>3, <1>4, <1>5, <1>6, <1>7, <1>8, <1>9, <1>10, <1>11, <1>12 DEF SysNext

(* Only CallMethod moves a call on, from a place inside it.                *)
LEMMA StageMoves ==
  ASSUME [Next]_vars
  PROVE  \/ UNCHANGED stage
         \/ \E d \in Calls : StartCall(d)
         \/ \E d \in Calls, from \in Stages \ {"new", "sent"}, to \in Stages : Advance(d, from, to)
<1>1. ASSUME NEW d \in Calls, CallStep(d)
      PROVE  \E from \in Stages \ {"new", "sent"}, to \in Stages : Advance(d, from, to)
  BY <1>1 DEF CallStep, LoadId, StoreId, ReloadId, Lock, Insert, Send, SendFails, Stages
<1>2. CASE UNCHANGED vars
  BY <1>2 DEF vars
<1>3. ASSUME NEW ch \in Channels, RxStep(ch) \/ Destroy(ch) PROVE UNCHANGED stage
  BY <1>3 DEF RxStep, Receive, RxLock, RxFind, TakeEntry, RxRun, RxReturn, Destroy
<1>4. ASSUME NEW d \in Calls, NEW kind \in Kinds, Reply(d, kind) PROVE UNCHANGED stage
  BY <1>4 DEF Reply
<1>5. ASSUME NEW lost \in SUBSET Calls, Lose(lost) PROVE UNCHANGED stage
  BY <1>5 DEF Lose
<1> QED
  BY <1>1, <1>2, <1>3, <1>4, <1>5 DEF Next

(* A call that was sent stays so.                                          *)
LEMMA SentStays ==
  ASSUME TypeOK, [Next]_vars, NEW c \in Calls, stage[c] = "sent"
  PROVE  stage'[c] = "sent"
  BY StageMoves DEF TypeOK, StartCall, Advance

(* What the server wrote for a call stays, and stays the answer to it: the *)
(* connection of a call is settled when it is sent.                        *)
LEMMA AnsweredStays ==
  ASSUME IInv, SysInv, OnTheWire, NEW c, WasAnswered(c)
  PROVE  WasAnswered(c)' /\ Request(c)' = Request(c)
<1>1. c \in Calls /\ stage[c] = "sent"
  BY AnsweredOffWire
<1>2. answered \subseteq answered'
  BY DEF OnTheWire, QuietStep, SendStep, AnswerStep
<1>3. Request(c)' = Request(c)
  <2>1. CASE UNCHANGED via
    BY <2>1 DEF Request
  <2>2. ASSUME NEW d \in Calls, SendStep(d) PROVE Request(c)' = Request(c)
    BY <1>1, <2>2, ViaOfOthers DEF SendStep
  <2> QED
    BY <2>1, <2>2 DEF OnTheWire, QuietStep, AnswerStep
<1> QED
  BY <1>2, <1>3 DEF WasAnswered

(* A request is sent on a connection of the client's.                      *)
LEMMA ViaKeeps == ASSUME IInv, SysInv, OnTheWire PROVE ViaOK'
<1>1. CASE QuietStep \/ \E c \in Calls : AnswerStep(c)
  BY <1>1 DEF QuietStep, AnswerStep, Reply, SysInv, ViaOK
<1>2. ASSUME NEW c \in Calls, SendStep(c) PROVE ViaOK'
  <2>0. clBuf \in 0 .. MaxStarts
    BY DEF SysInv, BufOK
  <2>1. clBuf \in 0 .. MaxStarts /\ via \in [Calls -> Nat] /\ c \notin requests
    BY <1>2, <2>0, ViaOfOthers DEF SysInv, ViaOK, SendStep
  <2>2. \/ requests' = requests
        \/ requests' = requests \cup {c} /\ clBuf # 0
    BY <1>2 DEF SendStep, Send, SendFails
  <2>3. requests \subseteq Calls /\ \A d \in requests : via'[d] \in 1 .. MaxStarts
    BY <1>2, <2>1 DEF SendStep, IInv, TypeOK, SysInv, ViaOK
  <2> QED
    BY <1>2, <2>1, <2>2, <2>3 DEF SendStep, ViaOK
<1> QED
  BY <1>1, <1>2 DEF OnTheWire

(* A call is answered once, after it was sent, to its own connection.      *)
LEMMA AnswersKeep ==
  ASSUME IInv, SysInv, [Next]_vars, OnTheWire
  PROVE  AnswersOK'
<1> DEFINE Of(m, c) == /\ m = <<via[c], Request(c), "NO_SERVICE">>
                       /\ c \notin requests /\ stage[c] = "sent"
<1>1. ASSUME NEW m \in answered PROVE \E c \in Calls : Of(m, c)'
  <2>1. PICK c \in Calls : Of(m, c)
    BY DEF SysInv, AnswersOK
  <2>2. WasAnswered(c)
    BY <2>1 DEF WasAnswered
  <2>3. Request(c)' = Request(c) /\ via'[c] = via[c]
    BY <2>2, AnsweredStays DEF Request
  <2>4. stage'[c] = "sent"
    BY <2>1, SentStays DEF IInv
  <2>5. c \notin requests'
    BY <2>1 DEF OnTheWire, QuietStep, SendStep, Send, SendFails, AnswerStep, Reply
  <2> QED
    BY <2>1, <2>3, <2>4, <2>5
<1>2. ASSUME NEW c \in Calls, AnswerStep(c)
      PROVE  Of(<<via[c], Request(c), "NO_SERVICE">>, c)'
  BY <1>2 DEF AnswerStep, Reply, Request, IInv, WireOK
<1>3. ASSUME NEW c \in Calls, AnswerStep(c), NEW m \in answered'
      PROVE  \E d \in Calls : Of(m, d)'
  <2>1. m \in answered \/ m = <<via[c], Request(c), "NO_SERVICE">>'
    BY <1>3 DEF AnswerStep, Request
  <2> QED
    BY <1>1, <1>2, <1>3, <2>1
<1>4. answered' = answered \/ \E c \in Calls : AnswerStep(c)
  BY DEF OnTheWire, QuietStep, SendStep
<1> QED
  BY <1>1, <1>3, <1>4 DEF AnswersOK

(* onRpcMessage is given nothing but what the server wrote.                *)
LEMMA RepliesKeep ==
  ASSUME IInv, SysInv, OnTheWire
  PROVE  RepliesOK'
<1> DEFINE done == {c \in Calls : WasAnswered(c)}
<1>0. ASSUME RepliesOK
      PROVE  /\ \A m \in replies : m[2] = "error" /\ m[1] \in done
             /\ \A ch \in Channels :
                  rxpc[ch] # "idle" => rxmsg[ch][2] = "error" /\ rxmsg[ch][1] \in done
  BY <1>0, AnsweredOffWire DEF RepliesOK
<1>1. /\ \A m \in replies : m[2] = "error" /\ m[1] \in done'
      /\ \A ch \in Channels : rxpc[ch] # "idle" => rxmsg[ch][2] = "error" /\ rxmsg[ch][1] \in done'
  <2>1. done \subseteq done'
    BY AnsweredStays
  <2>2. RepliesOK
    BY DEF SysInv
  <2> HIDE DEF done
  <2> QED
    BY <1>0, <2>1, <2>2
<1>2. SUFFICES /\ \A m \in replies' : m[2] = "error" /\ m[1] \in done'
               /\ \A ch \in Channels :
                    rxpc'[ch] # "idle" => rxmsg'[ch][2] = "error" /\ rxmsg'[ch][1] \in done'
  BY DEF RepliesOK
<1>3. ASSUME NEW c \in Calls, AnswerStep(c) PROVE c \in done'
  <2>1. Request(c)' = Request(c) /\ <<via[c], Request(c), "NO_SERVICE">> \in answered'
    BY <1>3 DEF AnswerStep, Request
  <2> QED
    BY <2>1 DEF WasAnswered
<1> HIDE DEF done
<1>4. CASE UNCHANGED <<replies, rxpc, rxmsg>>
  BY <1>1, <1>4
<1>5. ASSUME NEW ch \in Channels, Receive(ch)
      PROVE  /\ replies' \subseteq replies /\ rxmsg'[ch] \in replies
             /\ \A k \in Channels \ {ch} : rxpc'[k] = rxpc[k] /\ rxmsg'[k] = rxmsg[k]
  BY <1>5 DEF Receive, IInv, TypeOK
<1>6. ASSUME NEW ch \in Channels, RxLock(ch) \/ RxFind(ch) \/ RxRun(ch) \/ RxReturn(ch)
      PROVE  /\ UNCHANGED <<replies, rxmsg>> /\ rxpc[ch] # "idle"
             /\ \A k \in Channels \ {ch} : rxpc'[k] = rxpc[k]
  BY <1>6 DEF RxLock, RxFind, TakeEntry, RxRun, RxReturn, IInv, TypeOK
<1>7. ASSUME NEW c \in Calls, SendStep(c) \/ AnswerStep(c)
      PROVE  /\ UNCHANGED <<rxpc, rxmsg>>
             /\ UNCHANGED replies \/ (AnswerStep(c) /\ replies' = replies \cup {<<c, "error">>})
  BY <1>7 DEF SendStep, Send, SendFails, AnswerStep, Reply
<1>8. CASE \E ch \in Channels : RxStep(ch)
  BY <1>1, <1>5, <1>6, <1>8 DEF RxStep
<1>9. CASE \E c \in Calls : SendStep(c) \/ AnswerStep(c)
  BY <1>1, <1>3, <1>7, <1>9
<1> QED
  BY <1>4, <1>8, <1>9 DEF OnTheWire, QuietStep

(* A closure runs for an answered call: while the counter has not wrapped, *)
(* the entry that a reply takes out is that of the call it answers.        *)
LEMMA CompletedKeeps ==
  ASSUME IInv, SysInv, [Next]_vars, OnTheWire
  PROVE  CompletedOK'
<1>1. ASSUME NEW c \in Calls, WasAnswered(c) PROVE WasAnswered(c)'
  BY <1>1, AnsweredStays
<1>2. ASSUME NEW ch \in Channels, RxRun(ch) PROVE CompletedOK'
  <2>1. /\ rxout[ch] \in Calls /\ rxmsg[ch][1] \in Calls
        /\ Drew(rxout[ch]) /\ Drew(rxmsg[ch][1])
        /\ callId[rxout[ch]] = callId[rxmsg[ch][1]]
    BY <1>2 DEF RxRun, IInv, HandlerOK, Drew
  <2>2. WasAnswered(rxmsg[ch][1]) /\ rxmsg[ch][2] = "error"
    BY <1>2 DEF RxRun, SysInv, RepliesOK
  <2>3. wrapped \/ rxout[ch] = rxmsg[ch][1]
    BY <2>1 DEF IInv, CollisionNeedsRace, IdsUnique, SysInv, OneAtATime
  <2>4. /\ answer' = answer /\ wrapped' = wrapped
        /\ \A c \in Calls : c # rxout[ch] => runs'[c] = runs[c]
    BY <1>2, <2>1, <2>2 DEF RxRun, IInv, TypeOK
  <2>5. ASSUME NEW c \in Calls, runs'[c] > 0 PROVE wrapped \/ WasAnswered(c)
    BY <2>2, <2>3, <2>4, <2>5 DEF SysInv, CompletedOK
  <2> QED
    BY <1>1, <2>4, <2>5 DEF SysInv, CompletedOK
<1>3. CASE ~\E ch \in Channels : RxRun(ch)
  <2>1. UNCHANGED <<runs, answer>>
    BY <1>3 DEF Next, CallStep, RxStep, StartCall, LoadId, StoreId, ReloadId, Lock, Insert,
       Send, SendFails, Reply, Lose, Receive, RxLock, RxFind, TakeEntry, RxReturn, Destroy, vars
  <2>2. wrapped => wrapped'
    BY DEF Next, CallStep, RxStep, StartCall, LoadId, StoreId, ReloadId, Lock, Insert, Send,
       SendFails, Reply, Lose, Receive, RxLock, RxFind, TakeEntry, RxRun, RxReturn, Destroy, vars
  <2> QED
    BY <1>1, <2>1, <2>2 DEF SysInv, CompletedOK
<1> QED
  BY <1>2, <1>3

(* Only StartCall enters CallMethod.                                       *)
LEMMA EnteredByStart ==
  ASSUME TypeOK, [Next]_vars, NEW c \in Calls, InMethod(c)', ~InMethod(c)
  PROVE  StartCall(c)
  BY StageMoves DEF InMethod, TypeOK, StartCall, Advance

(* The thread that makes all calls is in no CallMethod when it makes one,  *)
(* so that increments of _id never overlap.                                *)
LEMMA OneAtATimeKeeps == ASSUME IInv, SysInv, [Next]_vars PROVE OneAtATime'
<1>0. TypeOK /\ OneAtATime
  BY DEF IInv, SysInv
<1>1. ASSUME NEW c \in Calls, StartCall(c), NEW d \in Calls PROVE ~InMethod(d)
  <2>1. Caller[d] = Caller[c]
    BY ThreadAssumption
  <2> QED
    BY <1>1, <2>1 DEF StartCall, InUserCode, Busy, InMethod
<1>2. ASSUME NEW c \in Calls, StartCall(c), NEW d \in Calls, InMethod(d)' PROVE d = c
  BY <1>0, <1>1, <1>2 DEF StartCall, Advance, InMethod, TypeOK
<1>3. ASSUME NEW c \in Calls, NEW d \in Calls, InMethod(c)', InMethod(d)' PROVE c = d
  BY <1>0, <1>2, <1>3, EnteredByStart DEF OneAtATime
<1>4. overlapped' = FALSE
  <2>1. ASSUME NEW c \in Calls, LoadId(c) PROVE overlapped' = FALSE
    BY <1>0, <2>1 DEF LoadId, Advance, OneAtATime, InMethod, TypeOK
  <2>2. CASE ~\E c \in Calls : LoadId(c)
    BY <1>0, <2>2 DEF OneAtATime, Next, CallStep, RxStep, StartCall, StoreId, ReloadId, Lock,
       Insert, Send, SendFails, Reply, Lose, Receive, RxLock, RxFind, TakeEntry, RxRun,
       RxReturn, Destroy, vars
  <2> QED
    BY <2>1, <2>2
<1> QED
  BY <1>3, <1>4 DEF OneAtATime

(* How the channel is constructed is settled.                              *)
LEMMA CtorSettled == ASSUME [SysNext]_sysVars PROVE byCtor' = byCtor
  BY DEF SysNext, sysVars, userVars, MakeCall, MethodStep, SendCrashes, ServerReads, Run, Connect,
         LoopStep, UserQuits, DestroyClient, Register, ReadFrame, HandleReply,
         DestroyChannel, ServerConnects, ServerHangsUp

(* conn_.writeBuf follows the connection: each one sets it when it comes   *)
(* about, and until then there is no socket that is up.                    *)
LEMMA BufKeeps == ASSUME SysInv, [SysNext]_sysVars PROVE BufOK'
<1> USE DEF clVars, Client!FreeBev
<1>0. BufOK /\ MaxStarts \in Nat
  BY DEF SysInv
<1>1. CASE UNCHANGED <<clVars, came>>
  BY <1>0, <1>1 DEF BufOK
<1>2. CASE Run
  <2>1. came' = came
    BY <1>2 DEF Run, userVars
  <2>2. CASE Client!StartRun
    BY <1>0, <2>1, <2>2 DEF Client!StartRun, BufOK
  <2>3. CASE Client!StartFails
    BY <1>0, <2>1, <2>3 DEF Client!StartFails, BufOK
  <2>4. CASE Client!StartThrows
    BY <1>0, <2>1, <2>4 DEF Client!StartThrows, BufOK
  <2>5. CASE Client!LoopReturns
    BY <1>0, <2>1, <2>5 DEF Client!LoopReturns, BufOK
  <2> QED
    BY <1>2, <2>2, <2>3, <2>4, <2>5 DEF Run
<1>3. CASE Connect
  BY <1>0, <1>3 DEF Connect, Client!Connected, Client!Enter, BufOK
<1>4. CASE LoopStep
  BY <1>0, <1>4 DEF LoopStep, userVars, Client!Written, Client!HungUp, Client!CallbackReturns,
     Client!Enter, BufOK
<1>5. CASE UserQuits \/ DestroyClient
  BY <1>0, <1>5 DEF UserQuits, DestroyClient, userVars, Client!Quit, Client!Destroy, BufOK
<1>6. ASSUME NEW ch \in Channels, ReadFrame(ch) PROVE BufOK'
  BY <1>0, <1>1, <1>6 DEF ReadFrame, userVars, Client!Readable, Client!Enter, BufOK
<1>7. CASE \/ Register \/ UNCHANGED sysVars
           \/ \E c \in Calls : MakeCall(c) \/ MethodStep(c) \/ SendCrashes(c) \/ ServerReads(c)
           \/ \E ch \in Channels : HandleReply(ch) \/ DestroyChannel(ch)
           \/ \E k \in Conns : ServerConnects(k) \/ ServerHangsUp(k)
  BY <1>1, <1>7 DEF Register, sysVars, userVars, MakeCall, MethodStep, SendCrashes, ServerReads,
     HandleReply, DestroyChannel, ServerConnects, ServerHangsUp
<1> QED
  BY <1>2, <1>3, <1>4, <1>5, <1>6, <1>7 DEF SysNext

(* A callback does not end, and no connection follows its own, while the   *)
(* thread is in a CallMethod made in it.                                   *)
LEMMA InCallbackKeeps ==
  ASSUME IInv, SysInv, [Next]_vars, [SysNext]_sysVars
  PROVE  InCallbackOK'
<1> SUFFICES ASSUME byCtor PROVE InCallbackOK'
  BY CtorSettled DEF InCallbackOK
<1>0. TypeOK /\ InCallbackOK /\ byCtor'
  BY CtorSettled DEF IInv, SysInv
<1> USE DEF userVars
<1>1. ASSUME NEW c \in Calls, MakeCall(c) PROVE InCallbackOK'
  <2>1. /\ StartCall(c) /\ conn = "conn" /\ UNCHANGED <<conn, clCb, clBev, came, clCrash>>
        /\ stray' = IF clCb = "none" \/ clBev \notin came THEN stray \cup {c} ELSE stray
    BY <1>1 DEF MakeCall, clVars
  <2>2. ASSUME NEW d \in Calls, InMethod(d)', d \notin stray' PROVE clCb # "none" /\ clBev \in came
    BY <1>0, <2>1, <2>2 DEF StartCall, Advance, InMethod, TypeOK, InCallbackOK
  <2> QED
    BY <1>0, <2>1, <2>2 DEF InCallbackOK
<1>2. CASE Run \/ Connect \/ LoopStep
  <2>1. ASSUME NEW c \in Calls PROVE ~InMethod(c)
    BY <1>2, ThreadAssumption DEF Run, Connect, LoopStep, Idle, Busy, InMethod
  <2>2. UNCHANGED <<stage, stray, clCrash>>
    BY <1>2 DEF Run, Connect, LoopStep, vars
  <2> QED
    BY <1>0, <2>1, <2>2 DEF InMethod, InCallbackOK
<1>3. ASSUME NEW ch \in Channels, ReadFrame(ch) PROVE InCallbackOK'
  <2>1. clCb' # "none" /\ UNCHANGED <<stage, conn, clBev, came, stray, clCrash>>
    BY <1>3 DEF ReadFrame, Receive, Client!Readable, Client!Enter, clVars
  <2> QED
    BY <1>0, <2>1 DEF InMethod, InCallbackOK
<1>4. ASSUME NEW c \in Calls, MethodStep(c) PROVE InCallbackOK'
  <2>1. UNCHANGED <<clCb, clBev, conn, came, stray, clCrash>>
    BY <1>4 DEF MethodStep, clVars
  <2>2. InMethod(c) /\ \A d \in Calls \ {c} : stage'[d] = stage[d]
    BY <1>0, <1>4 DEF MethodStep, SendRequest, LoadId, StoreId, ReloadId, Lock, Insert, Send,
       SendFails, Advance, InMethod, TypeOK
  <2> QED
    BY <1>0, <2>1, <2>2 DEF InMethod, InCallbackOK
<1>5. ASSUME NEW c \in Calls, SendCrashes(c) PROVE InCallbackOK'
  <2>1. InMethod(c) /\ ~OutputBuffer
    BY <1>5 DEF SendCrashes, InMethod
  <2>2. conn = "conn" /\ clCb # "none" /\ clBev \in came => OutputBuffer
    BY DEF SysInv, BufOK, OutputBuffer
  <2>3. c \in stray
    BY <1>0, <2>1, <2>2 DEF InCallbackOK
  <2>4. UNCHANGED <<stage, clCb, clBev, conn, came, stray>>
    BY <1>5 DEF SendCrashes, vars, clVars
  <2> QED
    BY <1>0, <2>3, <2>4 DEF InMethod, InCallbackOK
<1>6. CASE UNCHANGED <<stage, clCb, clBev, conn, came, stray, clCrash>>
  BY <1>0, <1>6 DEF InMethod, InCallbackOK
<1>7. CASE \/ UserQuits \/ DestroyClient \/ Register \/ UNCHANGED sysVars
           \/ \E c \in Calls : ServerReads(c)
           \/ \E ch \in Channels : HandleReply(ch) \/ DestroyChannel(ch)
           \/ \E k \in Conns : ServerConnects(k) \/ ServerHangsUp(k)
  BY <1>6, <1>7 DEF UserQuits, Client!Quit, DestroyClient, Client!Destroy, Register, ServerReads,
     HandleReply, RxLock, RxFind, TakeEntry, RxRun, RxReturn, DestroyChannel, Destroy,
     ServerConnects, ServerHangsUp, sysVars, vars, clVars, chRest
<1> QED
  BY <1>1, <1>2, <1>3, <1>4, <1>5, <1>7 DEF SysNext

-----------------------------------------------------------------------------
(* The theorems.                                                           *)

(* The invariant holds initially, when nothing was called or accepted.     *)
LEMMA SysStart == ASSUME SysInit PROVE IInv /\ SysInv
<1>1. Init /\ Srv!Init
  BY DEF SysInit
<1>2. IInv
  BY <1>1, InitIInv
<1>3. ServerOK
  BY <1>1 DEF Srv!Init, ServerOK
<1>4. AnswersOK /\ RepliesOK
  BY <1>1 DEF Init, Srv!Init, AnswersOK, RepliesOK
<1>5. OneAtATime
  BY <1>1 DEF Init, OneAtATime, InMethod
<1>6. CompletedOK
  BY <1>1 DEF Init, CompletedOK
<1>7. BufOK /\ ViaOK
  BY <1>1 DEF SysInit, Client!Init, Init, BufOK, ViaOK
<1>8. InCallbackOK
  BY <1>1 DEF SysInit, Init, InCallbackOK, InMethod
<1> QED
  BY <1>2, <1>3, <1>4, <1>5, <1>6, <1>7, <1>8 DEF SysInv

(* Every step of the system keeps the invariant.                           *)
LEMMA SysStep == ASSUME IInv, SysInv, [SysNext]_sysVars PROVE (IInv /\ SysInv)'
<1>1. [Next]_vars /\ [Srv!Next]_Srv!vars /\ OnTheWire
  BY ChannelStep, ServerStep, WireSteps
<1>2. IInv'
  BY <1>1, TypeStep, EntriesStep, WireStep, HandlerStep, CountsStep, CounterStep,
     UniqueStep, CompletedStep, OrphanStep DEF IInv
<1>3. ServerOK' /\ AnswersOK' /\ RepliesOK' /\ OneAtATime'
  BY <1>1, ServerKeeps, AnswersKeep, RepliesKeep, OneAtATimeKeeps DEF SysInv
<1>4. CompletedOK' /\ BufOK' /\ ViaOK' /\ InCallbackOK'
  BY <1>1, CompletedKeeps, BufKeeps, ViaKeeps, InCallbackKeeps
<1> QED
  BY <1>2, <1>3, <1>4 DEF SysInv

(* The invariant, with that of the channel, holds in every reachable state *)
(* of the system.                                                          *)
THEOREM SysInvariance == SysSpec => [](IInv /\ SysInv)
  BY SysStart, SysStep, PTL DEF SysSpec

(* The TcpClient and the RpcServer are an environment that the channel can *)
(* work with, so that what RpcChannelProofs shows of Spec, ImplementsCalls *)
(* included, is true of the system.                                        *)
THEOREM SystemRunsChannel == SysSpec => ImplementsChannel
<1>1. SysInit => Init
  BY DEF SysInit
<1> QED
  BY <1>1, SysInvariance, ChannelStep, PTL DEF SysSpec, Spec, ImplementsChannel

(* The channel and the TcpClient are a client that the server can work     *)
(* with: they send a request once and on a connection that is not closed.  *)
THEOREM SystemRunsServer == SysSpec => ImplementsServer
<1>1. SysInit => Srv!Init
  BY DEF SysInit
<1> QED
  BY <1>1, SysInvariance, ServerStep, PTL DEF SysSpec, Srv!Spec, ImplementsServer

(* What the channel, the server and the user do to the TcpClient is what   *)
(* its module allows.                                                      *)
THEOREM SystemRunsClient == SysSpec => Client!Spec
<1>1. SysInit => Client!Init
  BY DEF SysInit
<1> QED
  BY <1>1, ClientStep, PTL DEF SysSpec, Client!Spec

(* Until the counter wraps, a closure runs only for a call whose reply the *)
(* server wrote to the call's own connection, and it finds an answer       *)
(* exactly if that reply is no error.                                      *)
THEOREM ClosuresAnswered == SysSpec => [](~wrapped => EndToEnd)
<1>1. ASSUME SysInv, ~wrapped PROVE EndToEnd
  <2> SUFFICES ASSUME NEW c \in Calls, runs[c] > 0
               PROVE  \E m \in answered : /\ m[1] = via[c] /\ m[2] = Request(c)
                                          /\ answer[c] = c <=> m[3] = "NO_ERROR"
    BY DEF EndToEnd
  <2>1. PICK m \in answered : m[2] = Request(c)
    BY <1>1 DEF SysInv, CompletedOK, WasAnswered
  <2>2. m = <<via[c], Request(c), "NO_SERVICE">>
    BY <1>1, <2>1 DEF SysInv, AnswersOK, Request
  <2>3. answer[c] # c
    BY <1>1, ThreadAssumption DEF SysInv, CompletedOK
  <2> QED
    BY <2>1, <2>2, <2>3
<1> QED
  BY <1>1, SysInvariance, PTL

(* One thread draws every id, so no two calls have the same id until the   *)
(* counter wraps.                                                          *)
THEOREM OneThreadIdsUnique == SysSpec => [](~wrapped => IdsUnique)
<1>1. ASSUME IInv, SysInv PROVE ~wrapped => IdsUnique
  BY <1>1 DEF IInv, CollisionNeedsRace, SysInv, OneAtATime
<1> QED
  BY <1>1, SysInvariance, PTL

(* A CallMethod made in a callback of a connection that came about, on a   *)
(* channel constructed with its Conn, never touches freed memory, through  *)
(* any number of restarts: conn_.writeBuf is that connection's, whose      *)
(* bufferevent is freed only when the callback has returned, and           *)
(* CallMethod has returned before.                                         *)
THEOREM CallbacksSafe == SysSpec => []SafeInCallbacks
<1>1. SysInv => SafeInCallbacks
  BY DEF SysInv, InCallbackOK, SafeInCallbacks
<1> QED
  BY <1>1, SysInvariance, PTL

(* The calls of the client are remote calls, whatever the client, the      *)
(* server and their connection do: each is completed or dropped at most    *)
(* once, with its own answer or none unless the counter wrapped, as two    *)
(* increments of it never overlap.                                         *)
THEOREM SystemImplementsCalls == SysSpec => ImplementsCalls /\ [](overlapped = FALSE)
<1>1. SysInv => overlapped = FALSE
  BY DEF SysInv, OneAtATime
<1> QED
  BY <1>1, SysInvariance, SystemRunsChannel, ImplementsRemoteCall, PTL DEF ImplementsChannel
=============================================================================
