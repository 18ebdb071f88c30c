----------------------------- MODULE TcpClient -----------------------------
(***************************************************************************)
(* mRpc::TcpClient: the life of its bufferevent, which startRun creates    *)
(* and which startRun, bufferEventCb, quit and, through quit, the          *)
(* destructor free, while conn_.bev and conn_.writeBuf keep pointing at    *)
(* it.                                                                     *)
(*                                                                         *)
(* Everything runs in the thread that called startRun: libevent's          *)
(* callbacks from inside event_base_dispatch, and quit from inside a       *)
(* user's callback, several times in one if the user likes (read_cb leads  *)
(* to the closures of all calls answered), or while startRun does not run. *)
(* Freeing a bufferevent removes its callbacks and its events, so that the *)
(* loop has nothing to wait for and returns.                               *)
(*                                                                         *)
(* Freeing a null pointer, or a bufferevent that is already freed, is      *)
(* undefined: the model records it in broken and ends.                     *)
(***************************************************************************)
EXTENDS Naturals

CONSTANTS
  MaxStarts,   \* bound on the calls of startRun
  QuitPlaces   \* where the user calls quit: in the callbacks "connect", "read",
               \* "write", "event", or in "none"

ASSUME ClientAssumption ==
  MaxStarts \in Nat /\ QuitPlaces \subseteq {"connect", "read", "write", "event", "none"}

VARIABLES
  owner,    \* the owner's thread: "new", "loop" (in startRun), "returned", "destroyed"
  made,     \* bufferevents created so far
  bev,      \* conn_.bev: the number of the bufferevent, 0 for null
  buf,      \* conn_.writeBuf: the bufferevent it belongs to, 0 for null
  frees,    \* frees[b]: how often bufferevent b was freed
  link,     \* the socket of the last bufferevent: "down", "connecting", "up"
  cb,       \* the callback that runs, or "none"
  exiting,  \* event_base_loopexit was called since the loop was last entered
  broken,   \* "no", or the undefined behaviour met: "null", "double"
  careful   \* history: the user called quit in connect_cb, read_cb or write_cb
            \* only, and once per startRun

vars == <<owner, made, bev, buf, frees, link, cb, exiting, broken, careful>>

Bevs == 1 .. MaxStarts

Init ==
  /\ owner = "new"
  /\ made = 0 /\ bev = 0 /\ buf = 0
  /\ frees = [b \in Bevs |-> 0]
  /\ link = "down"
  /\ cb = "none"
  /\ exiting = FALSE
  /\ broken = "no"
  /\ careful = TRUE

(* bufferevent_free(b)                                                     *)
FreeBev(b) ==
  /\ frees' = IF b = 0 THEN frees ELSE [frees EXCEPT ![b] = @ + 1]
  /\ broken' = IF b = 0 THEN "null" ELSE IF frees[b] > 0 THEN "double" ELSE broken
  /\ link' = "down"

-----------------------------------------------------------------------------
(* startRun up to event_base_dispatch.                                     *)
StartRun ==
  /\ broken = "no"
  /\ owner \in {"new", "returned"}
  /\ made < MaxStarts
  /\ made' = made + 1 /\ bev' = made + 1
  /\ link' = "connecting"
  /\ owner' = "loop"
  /\ exiting' = FALSE
  /\ UNCHANGED <<buf, frees, cb, broken, careful>>

(* Mutant of StartFails: the bufferevent is not freed.                     *)
StartFailsKeep ==
  /\ broken = "no"
  /\ owner \in {"new", "returned"}
  /\ made < MaxStarts
  /\ made' = made + 1 /\ bev' = made + 1
  /\ owner' = "returned"
  /\ UNCHANGED <<buf, frees, link, cb, exiting, broken, careful>>

(* bufferevent_socket_new fails: startRun throws and conn_.bev is null.    *)
(* (For an address that cannot be read it throws before any change.)       *)
StartThrows ==
  /\ broken = "no"
  /\ owner \in {"new", "returned"}
  /\ bev' = 0
  /\ owner' = "returned"
  /\ UNCHANGED <<made, buf, frees, link, cb, exiting, broken, careful>>

(* bufferevent_socket_connect fails: startRun frees what it created.       *)
StartFails ==
  /\ broken = "no"
  /\ owner \in {"new", "returned"}
  /\ made < MaxStarts
  /\ made' = made + 1 /\ bev' = made + 1
  /\ frees' = [frees EXCEPT ![made + 1] = @ + 1]
  /\ owner' = "returned"
  /\ UNCHANGED <<buf, link, cb, exiting, broken, careful>>

(* The loop calls back.                                                    *)
Enter(place) ==
  /\ broken = "no"
  /\ owner = "loop" /\ cb = "none" /\ ~exiting
  /\ cb' = place
  /\ UNCHANGED <<owner, made, bev, frees, exiting, broken, careful>>

(* Mutant of Connected: conn_.writeBuf is not set anew.                    *)
ConnectedStale ==
  Enter("connect") /\ link = "connecting" /\ link' = "up" /\ UNCHANGED buf

(* bufferEventCb with BEV_EVENT_CONNECTED.                                 *)
Connected == Enter("connect") /\ link = "connecting" /\ link' = "up" /\ buf' = bev

(* bufferReadCb                                                            *)
Readable == Enter("read") /\ link = "up" /\ UNCHANGED link /\ buf' = bev

(* bufferWriteCb                                                           *)
Written == Enter("write") /\ link = "up" /\ UNCHANGED link /\ buf' = bev

(* bufferEventCb with anything else: end of file, an error, no connection. *)
(* conn_.writeBuf stays what it was.                                       *)
HungUp == Enter("event") /\ link \in {"connecting", "up"} /\ UNCHANGED <<link, buf>>

(* Mutant of CallbackReturns: no early return after BEV_EVENT_CONNECTED.   *)
CallbackReturnsFree ==
  /\ broken = "no"
  /\ cb # "none"
  /\ cb' = "none"
  /\ IF cb \in {"connect", "event"}
       THEN FreeBev(bev) ELSE UNCHANGED <<frees, broken, link>>
  /\ UNCHANGED <<owner, made, bev, buf, exiting, careful>>

(* Mutant of CallbackReturns: bufferEventCb leaves the bufferevent alone.  *)
CallbackReturnsKeep ==
  /\ broken = "no"
  /\ cb # "none"
  /\ cb' = "none"
  /\ UNCHANGED <<owner, made, bev, buf, exiting, careful, frees, broken, link>>

(* The user's callback returns; bufferEventCb then frees the bufferevent,  *)
(* except after BEV_EVENT_CONNECTED.                                       *)
CallbackReturns ==
  /\ broken = "no"
  /\ cb # "none"
  /\ cb' = "none"
  /\ IF cb = "event" THEN FreeBev(bev) ELSE UNCHANGED <<frees, broken, link>>
  /\ UNCHANGED <<owner, made, bev, buf, exiting, careful>>

(* The user calls quit, in a callback or while startRun does not run.      *)
Quit ==
  /\ broken = "no"
  /\ cb \in QuitPlaces
  /\ cb = "none" => owner \in {"new", "returned"}
  /\ FreeBev(bev)
  /\ exiting' = TRUE
  /\ careful' = (careful /\ cb \notin {"none", "event"} /\ ~exiting)
  /\ UNCHANGED <<owner, made, bev, buf, cb>>

(* event_base_dispatch returns: it was told to, or has nothing to wait for.*)
LoopReturns ==
  /\ broken = "no"
  /\ owner = "loop" /\ cb = "none"
  /\ exiting \/ link = "down"
  /\ owner' = "returned"
  /\ UNCHANGED <<made, bev, buf, frees, link, cb, exiting, broken, careful>>

(* ~TcpClient: quit, then the loop is freed.                               *)
Destroy ==
  /\ broken = "no"
  /\ owner \in {"new", "returned"}
  /\ FreeBev(bev)
  /\ owner' = "destroyed"
  /\ UNCHANGED <<made, bev, buf, cb, exiting, careful>>

Next ==
  \/ StartRun \/ StartThrows \/ StartFails
  \/ Connected \/ Readable \/ Written \/ HungUp
  \/ CallbackReturns \/ Quit
  \/ LoopReturns
  \/ Destroy

Spec == Init /\ [][Next]_vars

(* The loop and the callbacks run on; nothing is assumed of the peer or of *)
(* the user.                                                               *)
FairSpec == Spec /\ WF_vars(CallbackReturns) /\ WF_vars(LoopReturns)

-----------------------------------------------------------------------------
(* Properties.                                                             *)

(* No bufferevent is freed twice before the destructor as long as the user *)
(* quits in connect_cb, read_cb or write_cb only and once per startRun,    *)
(* through any number of connections, disconnections and restarts; every   *)
(* other quit frees one twice, or null, at once or when event_cb returns.  *)
(* A connection is never served on a freed bufferevent.                    *)
FreedOnceWhileRunning ==
  /\ careful /\ owner # "destroyed" => broken = "no"
  /\ ~careful => broken # "no" \/ cb = "event"
  /\ link # "down" => bev = made /\ frees[bev] = 0

(* No bufferevent is left behind: when startRun has returned, every one it *)
(* ever created is freed.                                                  *)
NoneLeaked == owner = "returned" => \A b \in 1 .. made : frees[b] > 0

(* Hanging up or quitting ends startRun, or is a bufferevent freed twice.  *)
RunEnds ==
  (cb = "event" \/ exiting) ~> owner \in {"returned", "destroyed"} \/ broken # "no"

(* What the test client relies on: after one quit in a closure, startRun   *)
(* returns and the TcpClient goes out of scope without more ado.           *)
CleanDestruction == careful /\ exiting => broken = "no"
=============================================================================
