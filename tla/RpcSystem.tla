----------------------------- MODULE RpcSystem -----------------------------
(***************************************************************************)
(* A client and a server of mRpc together: an RpcChannel on a TcpClient,   *)
(* whose one thread makes the calls and runs the event loop, as in         *)
(* src/test/client.cpp, and an RpcServer, on which other clients connect   *)
(* too.  Each action joins the actions of the components that take part in *)
(* one step; what a component does is in its own module.                   *)
(*                                                                         *)
(* The user of the client makes calls in any callback, closures (read_cb   *)
(* is RpcChannel::onMessage) included, or, when startRun has returned,     *)
(* outside all callbacks; quits where QuitPlaces lets it; starts the       *)
(* client again when startRun has returned; and destroys first the         *)
(* channel, then the TcpClient.  The channel is given its Conn by its      *)
(* constructor, in the connect callback, or is default-constructed and     *)
(* told of it with setConnection.                                          *)
(*                                                                         *)
(* Every start of the client makes a connection of its own, which the      *)
(* server knows by the number of the start.  What was sent on one is       *)
(* answered on that one, and is never read when it has ended.              *)
(*                                                                         *)
(* A send through an uninitialised Conn, into no output buffer or into     *)
(* that of a freed bufferevent is undefined: the process crashes, or the   *)
(* request is lost.  libevent frees a bufferevent whose callback runs only *)
(* when that has returned.                                                 *)
(***************************************************************************)
EXTENDS RpcChannel

CONSTANTS
  MaxStarts, QuitPlaces,     \* as in TcpClient
  Conns, Workers, Worker,    \* as in RpcServer; the client's starts are some of the Conns
  NoConn

(* One thread makes the calls and runs the event loop of the channel, and  *)
(* the server sees the client's connections among its own.                 *)
ASSUME SystemAssumption ==
  /\ \A c \in Calls, ch \in Channels : Caller[c] = Loop[ch]
  /\ MaxStarts \in Nat /\ 1 .. MaxStarts \subseteq Conns
  /\ Worker \in [Conns -> Workers]

VARIABLES
  clOwner, clMade, clBev, clBuf, clFrees, clLink, clCb, clExiting, clBroken,
  clCareful,                                                           \* TcpClient
  registered, svStage, svAlive, services, readCb, answered, crashed,   \* RpcServer
  byCtor,   \* the channel is constructed with its Conn
  conn,     \* the channel's conn: "conn", or "garbage" as it is uninitialised
  via,      \* via[c]: the bufferevent of conn_.writeBuf when call c was sent
  came,     \* history: the starts of the client that led to a connection
  stray,    \* history: calls that were started outside all callbacks, or in
            \* the event_cb of a connection that did not come about
  clCrash   \* the client's process is gone

clVars == <<clOwner, clMade, clBev, clBuf, clFrees, clLink, clCb, clExiting, clBroken, clCareful>>
svRest == <<registered, svStage, svAlive, services, readCb, answered, crashed>>
chRest == <<lastId, stage, reg, callId, mutex, outstandings,
            rxpc, rxmsg, rxout, answer, runs, frees, alive, overlapped, wrapped>>
userVars == <<byCtor, conn, came, stray, clCrash>>
sysVars == <<vars, clVars, svRest, via, userVars>>

Client == INSTANCE TcpClient WITH
            owner <- clOwner, made <- clMade, bev <- clBev, buf <- clBuf,
            frees <- clFrees, link <- clLink, cb <- clCb, exiting <- clExiting,
            broken <- clBroken, careful <- clCareful

(* To the server a request is a call and the connection that it came on.   *)
Request(c) == <<c, via[c]>>
Requests == Calls \X (1 .. MaxStarts)

Srv == INSTANCE RpcServer WITH
         Asks <- [r \in Requests |-> r[2]], Kind <- [r \in Requests |-> "good"],
         sent <- {Request(c) : c \in requests}, stage <- svStage, alive <- svAlive

-----------------------------------------------------------------------------
(* setConnection assigns its parameter to itself: the member keeps its     *)
(* value.                                                                  *)
SetConnection(member, parameter) == member

SysInit ==
  /\ Init /\ Client!Init /\ Srv!Init
  /\ byCtor \in BOOLEAN
  /\ conn = "garbage"
  /\ via = [c \in Calls |-> 0]
  /\ came = {} /\ stray = {}
  /\ clCrash = FALSE

(* The client's thread runs user code: in a callback other than read_cb,   *)
(* in a closure, or outside startRun.                                      *)
UserRuns ==
  /\ ~clCrash /\ clBroken = "no"
  /\ \A ch \in Channels : InUserCode(Loop[ch]) /\ (clCb = "read" => rxpc[ch] = "running")
  /\ clCb = "none" => clOwner \in {"new", "returned"}

(* conn->writeBuf points at a buffer: it was set, and its bufferevent is   *)
(* not freed, or is the one whose callback runs.                           *)
OutputBuffer ==
  /\ conn = "conn"
  /\ clBuf # 0
  /\ clFrees[clBuf] = 0 \/ (clBuf = clBev /\ clCb # "none")

-----------------------------------------------------------------------------
(* The client: calls.                                                      *)

MakeCall(c) ==
  /\ UserRuns
  /\ byCtor => conn = "conn"
  /\ StartCall(c)
  /\ stray' = IF clCb = "none" \/ clBev \notin came THEN stray \cup {c} ELSE stray
  /\ UNCHANGED <<clVars, svRest, via, byCtor, conn, came, clCrash>>

(* The request gets to the server, or to nobody.                           *)
SendRequest(c) ==
  /\ IF OutputBuffer /\ clLink = "up" /\ svStage[clBuf] # "closed"
       THEN Send(c) ELSE SendFails(c)
  /\ via' = [via EXCEPT ![c] = clBuf]

MethodStep(c) ==
  /\ ~clCrash
  /\ \/ (LoadId(c) \/ StoreId(c) \/ ReloadId(c) \/ Lock(c) \/ Insert(c)) /\ UNCHANGED via
     \/ SendRequest(c)
  /\ UNCHANGED <<clVars, svRest, userVars>>

SendCrashes(c) ==
  /\ ~clCrash
  /\ stage[c] = "send" /\ ~OutputBuffer
  /\ clCrash' = TRUE
  /\ UNCHANGED <<vars, clVars, svRest, via, byCtor, conn, came, stray>>

-----------------------------------------------------------------------------
(* The client: its event loop.                                             *)

Idle == ~clCrash /\ \A ch \in Channels : rxpc[ch] = "idle" /\ ~Busy(Loop[ch])

(* startRun, in its three outcomes, and its return.                        *)
Run ==
  /\ Idle
  /\ Client!StartRun \/ Client!StartFails \/ Client!StartThrows \/ Client!LoopReturns
  /\ UNCHANGED <<vars, svRest, via, userVars>>

(* The connect callback: the user makes the channel, or sets its Conn.     *)
Connect ==
  /\ Idle
  /\ Client!Connected
  /\ conn' = IF byCtor THEN "conn" ELSE SetConnection(conn, "conn")
  /\ came' = came \cup {clBev}
  /\ UNCHANGED <<vars, svRest, via, byCtor, stray, clCrash>>

(* read_cb with the first whole frame, and onMessage's next round, which   *)
(* comes also when the closure has quit.                                   *)
ReadFrame(ch) ==
  /\ ~clCrash
  /\ Client!Readable \/ (clCb = "read" /\ UNCHANGED clVars)
  /\ Receive(ch)
  /\ via[rxmsg'[ch][1]] = clBev
  /\ UNCHANGED <<svRest, via, userVars>>

HandleReply(ch) ==
  /\ ~clCrash
  /\ RxLock(ch) \/ RxFind(ch) \/ RxRun(ch) \/ RxReturn(ch)
  /\ UNCHANGED <<clVars, svRest, via, userVars>>

(* What was written is out; the connection ends or is refused; a callback  *)
(* is over.                                                                *)
LoopStep ==
  /\ Idle
  /\ Client!Written \/ Client!HungUp \/ Client!CallbackReturns
  /\ UNCHANGED <<vars, svRest, via, userVars>>

UserQuits ==
  /\ UserRuns
  /\ Client!Quit
  /\ UNCHANGED <<vars, svRest, via, userVars>>

(* The members of the client go in reverse order: channel, TcpClient.      *)
DestroyChannel(ch) ==
  /\ UserRuns /\ clCb = "none"
  /\ Destroy(ch)
  /\ UNCHANGED <<clVars, svRest, via, userVars>>

DestroyClient ==
  /\ UserRuns /\ \A ch \in Channels : ~alive[ch]
  /\ Client!Destroy
  /\ UNCHANGED <<vars, svRest, via, userVars>>

-----------------------------------------------------------------------------
(* The server.                                                             *)

Register ==
  /\ UNCHANGED <<vars, clVars, via, userVars>>
  /\ Srv!RegisterService

(* A connection of the client's is accepted only if the client makes one;  *)
(* it may have ended there by then.                                        *)
ServerConnects(k) ==
  /\ k \in 1 .. MaxStarts => k \in came \/ (k = clBev /\ clLink = "connecting")
  /\ UNCHANGED <<vars, clVars, via, userVars>>
  /\ Srv!OnConnection(k)

(* What of a reply that the server wrote gets back to call c.              *)
Replied(c, m) ==
  {<<c, kind>> : kind \in IF m[1] # via[c] THEN {}
                          ELSE IF m[3] = "NO_ERROR" THEN {"response"} ELSE {"error"}}

ServerReads(c) ==
  /\ c \in requests
  /\ UNCHANGED <<chRest, clVars, via, userVars>>
  /\ \/ /\ requests' \in SUBSET requests
        /\ Srv!Read(Request(c))
        /\ replies' = replies \cup UNION {Replied(c, m) : m \in answered' \ answered}
     \/ UNCHANGED <<requests, replies>> /\ Srv!ReadCrashes(Request(c))

ServerHangsUp(k) ==
  /\ UNCHANGED <<replies, chRest, clVars, via, userVars>>
  /\ requests' = {c \in requests : via[c] # k}
  /\ Srv!HangUp(k)

-----------------------------------------------------------------------------
SysNext ==
  \/ \E c \in Calls : MakeCall(c) \/ MethodStep(c) \/ SendCrashes(c) \/ ServerReads(c)
  \/ Run \/ Connect \/ LoopStep \/ UserQuits \/ DestroyClient \/ Register
  \/ \E ch \in Channels : ReadFrame(ch) \/ HandleReply(ch) \/ DestroyChannel(ch)
  \/ \E k \in Conns : ServerConnects(k) \/ ServerHangsUp(k)

SysSpec == SysInit /\ [][SysNext]_sysVars

(* The client's thread and the server's workers run on; libevent calls     *)
(* back for data that has arrived, and ends a callback that has nothing    *)
(* left to do.  Users and connections may do what they like.               *)
SysFairSpec ==
  /\ SysSpec
  /\ \A c \in Calls : WF_sysVars(MethodStep(c)) /\ WF_sysVars(ServerReads(c))
  /\ \A ch \in Channels : SF_sysVars(ReadFrame(ch)) /\ WF_sysVars(HandleReply(ch))
  /\ WF_sysVars(LoopStep /\ clCb # "none")
  /\ \A k \in Conns : WF_sysVars(ServerConnects(k))

-----------------------------------------------------------------------------
(* Properties.                                                             *)

(* The TcpClient and the RpcServer, with all their ways to end, are an     *)
(* environment that the channel can work with: a request that was sent is  *)
(* answered at most once, and the channel is destroyed only when it is at  *)
(* rest.  So what is checked and proved of RpcChannel holds here.          *)
ImplementsChannel == Spec

(* The channel and the TcpClient are a client that the server can work     *)
(* with: a request is sent once, on a connection that is not closed.  So   *)
(* what is checked of RpcServer holds here.                                *)
ImplementsServer == Srv!Spec

(* A closure runs only for a call whose reply the server wrote to the      *)
(* call's own connection, and finds an answer exactly if that reply is     *)
(* not an error, although the server handles the request with whatever     *)
(* channel read_cb points at.                                              *)
EndToEnd ==
  \A c \in Calls :
    runs[c] > 0 => \E m \in answered : /\ m[1] = via[c] /\ m[2] = Request(c)
                                       /\ answer[c] = c <=> m[3] = "NO_ERROR"

(* The connection that call c was sent on has ended, at either end.        *)
Cut(c) == clLink = "down" \/ via[c] # clBev \/ svStage[clBev] = "closed"

(* A call made in a callback through a channel with a Conn is completed,   *)
(* unless its connection ends at either end or one of the processes does:  *)
(* then nothing but the destructor of the channel ever removes its entry.  *)
CallEnds ==
  \A c \in Calls :
    (stage[c] = "sent" /\ c \notin stray /\ byCtor)
      ~> runs[c] > 0 \/ ~alive[Chan[c]] \/ Cut(c) \/ clCrash \/ crashed

(* CallMethod never touches freed memory when it is called in a callback   *)
(* of a connection that came about, be it a closure that has quit,         *)
(* write_cb or event_cb, and through any number of restarts, if the        *)
(* channel was constructed with its Conn.                                  *)
SafeInCallbacks == clCrash /\ byCtor => stray # {}

(* What the test client and the test server expect of each other: the      *)
(* client's channel is told of its Conn with setConnection, the server has *)
(* registered the service, and a call made in the connect callback is      *)
(* answered by the service, unless the connection ends or the server does. *)
CallServed ==
  \A c \in Calls :
    (stage[c] = "sent" /\ c \notin stray /\ ~byCtor /\ registered)
      ~> answer[c] = c \/ ~alive[Chan[c]] \/ Cut(c) \/ crashed
=============================================================================
