----------------------------- MODULE RpcChannel -----------------------------
(***************************************************************************)
(* The calling side of mRpc::RpcChannel: CallMethod, the RESPONSE branch   *)
(* of onRpcMessage and the destructor, for the channels of one process,    *)
(* which share the static counter _id.                                     *)
(*                                                                         *)
(* Interleaving.  CallMethod may run in any thread.  Its `++_id' is not    *)
(* atomic: the library in src/src/build is compiled without optimisation,  *)
(* and the increment is a load, a store of the sum, and a second load      *)
(* whose value becomes the id.  A block under the channel's mutex is one   *)
(* step; taking the mutex is a step of its own.  onRpcMessage runs in the  *)
(* event loop of the channel's connection, and the closure it runs may     *)
(* make further calls in that thread before it returns.                    *)
(*                                                                         *)
(* Abstraction.  A request or a reply is the call it belongs to: its id is *)
(* the callId of that call, its payload the call itself.  The peer answers *)
(* a request it received in any order, with a response or an error.  The   *)
(* connection is the concern of the codec and transport modules: here it   *)
(* may lose what is on its way, when it ends.  Logging is left out.        *)
(***************************************************************************)
EXTENDS Integers

CONSTANTS
  Threads,   \* the threads that make calls or run an event loop
  Channels,  \* the RpcChannel objects of the process
  Calls,     \* the calls made, one element per CallMethod
  Caller,    \* Caller[c]: the thread that makes call c
  Chan,      \* Chan[c]: the channel call c is made on
  Loop,      \* Loop[ch]: the thread whose event loop serves ch's connection
  MaxInt,    \* INT_MAX of the counter's type, int
  NoCall,    \* no OutstandingCall: outstandings.end(), { NULL, NULL }
  NoThread   \* the mutex is free

ASSUME ThreadAssumption ==
  /\ Caller \in [Calls -> Threads]
  /\ Chan \in [Calls -> Channels]
  /\ Loop \in [Channels -> Threads]
  /\ NoThread \notin Threads
  /\ NoCall \notin Calls

ASSUME IntAssumption == MaxInt \in Nat

VARIABLES
  lastId,        \* the static counter _id
  stage,         \* stage[c]: how far CallMethod has come for call c
  reg,           \* reg[c]: the register the increment of call c loaded _id into
  callId,        \* callId[c]: the id call c drew (0 before)
  mutex,         \* mutex[ch]: the thread that holds the channel's mutex
  outstandings,  \* outstandings[ch][i]: the call filed under id i, or NoCall
  requests,      \* calls whose request is on its way to the peer
  replies,       \* <<call, kind>>: replies on their way back
  rxpc,          \* rxpc[ch]: where the event loop is in onRpcMessage
  rxmsg,         \* rxmsg[ch]: the reply onRpcMessage was given
  rxout,         \* rxout[ch]: its local `out'
  answer,        \* answer[c]: the call whose payload was parsed into c's response
  runs,          \* runs[c]: how often done->Run() was called for c
  frees,         \* frees[c]: how often c's response object was deleted
  alive,         \* alive[ch]: the RpcChannel object exists
  overlapped,    \* history: two increments of _id have overlapped
  wrapped        \* history: _id has gone past MaxInt

vars == <<lastId, stage, reg, callId, mutex, outstandings, requests, replies,
          rxpc, rxmsg, rxout, answer, runs, frees, alive, overlapped, wrapped>>

-----------------------------------------------------------------------------
Ids == (-MaxInt - 1) .. MaxInt
Kinds == {"response", "error"}
Stages == {"new", "load", "store", "reload", "lock", "insert", "send", "sent"}
RxStages == {"idle", "lock", "find", "run", "running"}

(* Mutant of Inc: the counter is taken for an unbounded integer.           *)
IncUnbounded(i) == i + 1

(* `++_id' on an int, as the build computes it.                            *)
Inc(i) == IF i = MaxInt THEN -MaxInt - 1 ELSE i + 1

(* Thread t is inside CallMethod.                                          *)
Busy(t) == \E c \in Calls : Caller[c] = t /\ stage[c] \notin {"new", "sent"}

(* Thread t runs user code, which may make a call: it is not inside        *)
(* CallMethod, and if it is an event loop, it is not inside onRpcMessage   *)
(* except for the closure.                                                 *)
InUserCode(t) ==
  /\ ~Busy(t)
  /\ \A ch \in Channels : Loop[ch] = t => rxpc[ch] \in {"idle", "running"}

Init ==
  /\ lastId = 0
  /\ stage = [c \in Calls |-> "new"]
  /\ reg = [c \in Calls |-> 0]
  /\ callId = [c \in Calls |-> 0]
  /\ mutex = [ch \in Channels |-> NoThread]
  /\ outstandings = [ch \in Channels |-> [i \in Ids |-> NoCall]]
  /\ requests = {}
  /\ replies = {}
  /\ rxpc = [ch \in Channels |-> "idle"]
  /\ rxmsg = [ch \in Channels |-> <<NoCall, "error">>]
  /\ rxout = [ch \in Channels |-> NoCall]
  /\ answer = [c \in Calls |-> NoCall]
  /\ runs = [c \in Calls |-> 0]
  /\ frees = [c \in Calls |-> 0]
  /\ alive = [ch \in Channels |-> TRUE]
  /\ overlapped = FALSE
  /\ wrapped = FALSE

-----------------------------------------------------------------------------
(* CallMethod.                                                             *)

Advance(c, from, to) ==
  /\ stage[c] = from
  /\ stage' = [stage EXCEPT ![c] = to]

(* The caller has built the response object and the closure.               *)
StartCall(c) ==
  /\ alive[Chan[c]]
  /\ InUserCode(Caller[c])
  /\ Advance(c, "new", "load")
  /\ UNCHANGED <<lastId, reg, callId, mutex, outstandings, requests, replies,
                 rxpc, rxmsg, rxout, answer, runs, frees, alive, overlapped, wrapped>>

LoadId(c) ==
  /\ Advance(c, "load", "store")
  /\ reg' = [reg EXCEPT ![c] = lastId]
  /\ overlapped' = (overlapped \/ \E d \in Calls : stage[d] \in {"store", "reload"})
  /\ UNCHANGED <<lastId, callId, mutex, outstandings, requests, replies,
                 rxpc, rxmsg, rxout, answer, runs, frees, alive, wrapped>>

(* Mutant of StoreId: the sum is not written back to _id.                  *)
StoreIdLost(c) ==
  /\ Advance(c, "store", "reload")
  /\ UNCHANGED <<lastId, reg, callId, mutex, outstandings, requests, replies, rxpc,
                 rxmsg, rxout, answer, runs, frees, alive, overlapped, wrapped>>

StoreId(c) ==
  /\ Advance(c, "store", "reload")
  /\ lastId' = Inc(reg[c])
  /\ wrapped' = (wrapped \/ reg[c] = MaxInt)
  /\ UNCHANGED <<reg, callId, mutex, outstandings, requests, replies,
                 rxpc, rxmsg, rxout, answer, runs, frees, alive, overlapped>>

(* Mutant of ReloadId: the request leaves before its entry is filed.       *)
ReloadIdSend(c) ==
  /\ Advance(c, "reload", "lock")
  /\ callId' = [callId EXCEPT ![c] = lastId]
  /\ requests' = requests \cup {c}
  /\ UNCHANGED <<lastId, reg, mutex, outstandings, replies,
                 rxpc, rxmsg, rxout, answer, runs, frees, alive, overlapped, wrapped>>

ReloadId(c) ==
  /\ Advance(c, "reload", "lock")
  /\ callId' = [callId EXCEPT ![c] = lastId]
  /\ UNCHANGED <<lastId, reg, mutex, outstandings, requests, replies,
                 rxpc, rxmsg, rxout, answer, runs, frees, alive, overlapped, wrapped>>

Lock(c) ==
  /\ mutex[Chan[c]] = NoThread
  /\ Advance(c, "lock", "insert")
  /\ mutex' = [mutex EXCEPT ![Chan[c]] = Caller[c]]
  /\ UNCHANGED <<lastId, reg, callId, outstandings, requests, replies,
                 rxpc, rxmsg, rxout, answer, runs, frees, alive, overlapped, wrapped>>

Insert(c) ==
  /\ Advance(c, "insert", "send")
  /\ outstandings' = [outstandings EXCEPT ![Chan[c]][callId[c]] = c]
  /\ mutex' = [mutex EXCEPT ![Chan[c]] = NoThread]
  /\ UNCHANGED <<lastId, reg, callId, requests, replies,
                 rxpc, rxmsg, rxout, answer, runs, frees, alive, overlapped, wrapped>>

Send(c) ==
  /\ Advance(c, "send", "sent")
  /\ requests' = requests \cup {c}
  /\ UNCHANGED <<lastId, reg, callId, mutex, outstandings, replies,
                 rxpc, rxmsg, rxout, answer, runs, frees, alive, overlapped, wrapped>>

(* The frame does not get into the output buffer: addBufToWriteBuffer      *)
(* refuses it, which the codec logs, or nobody notices that two threads    *)
(* wrote to the buffer at once.  CallMethod returns as if the request were *)
(* sent.  (A frame that fillEmptyBuffer cuts short, for want of memory, is *)
(* not modelled.)                                                          *)
SendFails(c) ==
  /\ Advance(c, "send", "sent")
  /\ UNCHANGED <<lastId, reg, callId, mutex, outstandings, requests, replies,
                 rxpc, rxmsg, rxout, answer, runs, frees, alive, overlapped, wrapped>>

CallStep(c) ==
  \/ LoadId(c) \/ StoreId(c) \/ ReloadId(c)
  \/ Lock(c) \/ Insert(c) \/ Send(c) \/ SendFails(c)

-----------------------------------------------------------------------------
(* The peer and the connection, which are not part of this component.      *)

Reply(c, kind) ==
  /\ c \in requests
  /\ requests' = requests \ {c}
  /\ replies' = replies \cup {<<c, kind>>}
  /\ UNCHANGED <<lastId, stage, reg, callId, mutex, outstandings,
                 rxpc, rxmsg, rxout, answer, runs, frees, alive, overlapped, wrapped>>

(* A connection ends, and with it what was on its way for some calls.      *)
Lose(lost) ==
  /\ lost # {} /\ lost \subseteq requests \cup {m[1] : m \in replies}
  /\ requests' = requests \ lost
  /\ replies' = {m \in replies : m[1] \notin lost}
  /\ UNCHANGED <<lastId, stage, reg, callId, mutex, outstandings,
                 rxpc, rxmsg, rxout, answer, runs, frees, alive, overlapped, wrapped>>

-----------------------------------------------------------------------------
(* onRpcMessage, RESPONSE branch.                                          *)

Receive(ch) ==
  /\ alive[ch]
  /\ \A k \in Channels : Loop[k] = Loop[ch] => rxpc[k] = "idle"
  /\ ~Busy(Loop[ch])
  /\ \E m \in replies :
       /\ Chan[m[1]] = ch
       /\ replies' = replies \ {m}
       /\ rxmsg' = [rxmsg EXCEPT ![ch] = m]
  /\ rxpc' = [rxpc EXCEPT ![ch] = "lock"]
  /\ UNCHANGED <<lastId, stage, reg, callId, mutex, outstandings, requests,
                 rxout, answer, runs, frees, alive, overlapped, wrapped>>

RxLock(ch) ==
  /\ rxpc[ch] = "lock"
  /\ mutex[ch] = NoThread
  /\ mutex' = [mutex EXCEPT ![ch] = Loop[ch]]
  /\ rxpc' = [rxpc EXCEPT ![ch] = "find"]
  /\ UNCHANGED <<lastId, stage, reg, callId, outstandings, requests, replies,
                 rxmsg, rxout, answer, runs, frees, alive, overlapped, wrapped>>

(* Takes the entry filed under id, leaving the table and the mutex as      *)
(* given; the mutants of RxFind share it.                                  *)
TakeEntry(ch, id, table, holder, next) ==
  /\ rxpc[ch] = "find"
  /\ rxout' = [rxout EXCEPT ![ch] = outstandings[ch][id]]
  /\ outstandings' = [outstandings EXCEPT ![ch] = table]
  /\ mutex' = [mutex EXCEPT ![ch] = holder]
  /\ rxpc' = [rxpc EXCEPT ![ch] = next]
  /\ UNCHANGED <<lastId, stage, reg, callId, requests, replies,
                 rxmsg, answer, runs, frees, alive, overlapped, wrapped>>

NextAfterFind(ch, id) == IF outstandings[ch][id] = NoCall THEN "idle" ELSE "run"

(* Mutant: outstandings.erase(it) forgotten.                               *)
RxFindNoErase(ch) ==
  LET id == callId[rxmsg[ch][1]]
  IN  TakeEntry(ch, id, outstandings[ch], NoThread, NextAfterFind(ch, id))

(* Mutant: the oldest entry is taken instead of the one found by id.       *)
RxFindBegin(ch) ==
  \E id \in Ids :
    /\ \A i \in Ids : outstandings[ch][i] # NoCall => id <= i
    /\ TakeEntry(ch, id, [outstandings[ch] EXCEPT ![id] = NoCall], NoThread,
                 NextAfterFind(ch, id))

(* Mutant: an error reply returns early, with the entry already erased.    *)
RxFindErrorReturn(ch) ==
  LET id == callId[rxmsg[ch][1]]
  IN  TakeEntry(ch, id, [outstandings[ch] EXCEPT ![id] = NoCall], NoThread,
                IF rxmsg[ch][2] = "error" THEN "idle" ELSE NextAfterFind(ch, id))

(* Mutant: the mutex is not released before the closure runs.              *)
RxFindKeepLock(ch) ==
  LET id == callId[rxmsg[ch][1]]
  IN  TakeEntry(ch, id, [outstandings[ch] EXCEPT ![id] = NoCall], mutex[ch],
                NextAfterFind(ch, id))

(* find, copy out and erase under the mutex; without an entry, or without  *)
(* a response object in it, the handler has nothing more to do.            *)
RxFind(ch) ==
  LET id == callId[rxmsg[ch][1]]
  IN  TakeEntry(ch, id, [outstandings[ch] EXCEPT ![id] = NoCall], NoThread,
                NextAfterFind(ch, id))

(* Parse the payload, if there is one, into the response object and start  *)
(* the closure.                                                            *)
RxRun(ch) ==
  LET out == rxout[ch]
  IN  /\ rxpc[ch] = "run"
      /\ answer' = [answer EXCEPT ![out] =
                      IF rxmsg[ch][2] = "response" THEN rxmsg[ch][1] ELSE @]
      /\ runs' = [runs EXCEPT ![out] = @ + 1]
      /\ rxpc' = [rxpc EXCEPT ![ch] = "running"]
      /\ UNCHANGED <<lastId, stage, reg, callId, mutex, outstandings, requests,
                     replies, rxmsg, rxout, frees, alive, overlapped, wrapped>>

(* The closure returns and the unique_ptr deletes the response object.     *)
RxReturn(ch) ==
  /\ rxpc[ch] = "running"
  /\ ~Busy(Loop[ch])
  /\ frees' = [frees EXCEPT ![rxout[ch]] = @ + 1]
  /\ rxpc' = [rxpc EXCEPT ![ch] = "idle"]
  /\ UNCHANGED <<lastId, stage, reg, callId, mutex, outstandings, requests,
                 replies, rxmsg, rxout, answer, runs, alive, overlapped, wrapped>>

RxStep(ch) == Receive(ch) \/ RxLock(ch) \/ RxFind(ch) \/ RxRun(ch) \/ RxReturn(ch)

-----------------------------------------------------------------------------
(* ~RpcChannel: its owner calls it when no thread is in a method of it.    *)
(* Every response and closure still filed is deleted; no closure runs.     *)
Destroy(ch) ==
  /\ alive[ch]
  /\ rxpc[ch] = "idle"
  /\ \A c \in Calls : Chan[c] = ch => stage[c] \in {"new", "sent"}
  /\ alive' = [alive EXCEPT ![ch] = FALSE]
  /\ frees' = [c \in Calls |->
                 IF \E i \in Ids : outstandings[ch][i] = c THEN frees[c] + 1 ELSE frees[c]]
  /\ outstandings' = [outstandings EXCEPT ![ch] = [i \in Ids |-> NoCall]]
  /\ UNCHANGED <<lastId, stage, reg, callId, mutex, requests, replies,
                 rxpc, rxmsg, rxout, answer, runs, overlapped, wrapped>>

Next ==
  \/ \E c \in Calls : StartCall(c)
  \/ \E c \in Calls : CallStep(c)
  \/ \E c \in Calls, kind \in Kinds : Reply(c, kind)
  \/ \E lost \in SUBSET Calls : Lose(lost)
  \/ \E ch \in Channels : RxStep(ch)
  \/ \E ch \in Channels : Destroy(ch)

Spec == Init /\ [][Next]_vars

(* A started CallMethod and a running event loop are scheduled again and   *)
(* again.  Nothing is assumed of the peer, of the users' decision to call  *)
(* or of the owner's to destroy a channel.                                 *)
Fairness ==
  /\ \A c \in Calls : WF_vars(CallStep(c))
  /\ \A ch \in Channels : WF_vars(RxStep(ch))

FairSpec == Spec /\ Fairness

-----------------------------------------------------------------------------
(* Properties.                                                             *)

(* Every variable has its type; in particular _id stays an int.            *)
TypeOK ==
  /\ lastId \in Ids
  /\ stage \in [Calls -> Stages]
  /\ reg \in [Calls -> Ids]
  /\ callId \in [Calls -> Ids]
  /\ mutex \in [Channels -> Threads \cup {NoThread}]
  /\ outstandings \in [Channels -> [Ids -> Calls \cup {NoCall}]]
  /\ requests \subseteq Calls
  /\ replies \subseteq Calls \X Kinds
  /\ rxpc \in [Channels -> RxStages]
  /\ rxmsg \in [Channels -> (Calls \cup {NoCall}) \X Kinds]
  /\ rxout \in [Channels -> Calls \cup {NoCall}]
  /\ answer \in [Calls -> Calls \cup {NoCall}]
  /\ runs \in [Calls -> Nat]
  /\ frees \in [Calls -> Nat]
  /\ alive \in [Channels -> BOOLEAN]
  /\ overlapped \in BOOLEAN
  /\ wrapped \in BOOLEAN

(* Call c has its id; its entry is in the table; onRpcMessage holds it.    *)
Drew(c) == stage[c] \in {"lock", "insert", "send", "sent"}
IsFiled(c) == \E i \in Ids : outstandings[Chan[c]][i] = c
Held(c) == rxpc[Chan[c]] \in {"run", "running"} /\ rxout[Chan[c]] = c

(* Another call of the same channel drew the same id.                      *)
Collided(c) ==
  \E d \in Calls \ {c} :
    Chan[d] = Chan[c] /\ Drew(c) /\ Drew(d) /\ callId[d] = callId[c]

(* A response object has one owner at a time: the table, the handler that  *)
(* runs its closure, or nobody once it was deleted.  So CallMethod,        *)
(* onRpcMessage and the destructor never delete it twice, never delete it  *)
(* under a running closure and never run a closure twice, whatever threads *)
(* call and whatever ids they draw.                                        *)
OneOwner ==
  \A c \in Calls :
    /\ frees[c] <= 1 /\ runs[c] <= 1
    /\ frees[c] = 1 => ~IsFiled(c) /\ ~Held(c)
    /\ Held(c) => ~IsFiled(c)

(* A closure runs only after its own request was sent, and finds its own   *)
(* answer (or none, after an error) in the response object, unless another *)
(* call of the channel drew the same id.                                   *)
CompletedByOwnReply ==
  \A c \in Calls :
    runs[c] > 0 => Collided(c) \/ (stage[c] = "sent" /\ answer[c] \in {NoCall, c})

(* Once outstandings[id] = out is done, the call is filed, held by the     *)
(* handler or deleted: it is never forgotten, unless another call of the   *)
(* channel drew the same id and took its place.                            *)
NoOrphan ==
  \A c \in Calls :
    stage[c] \in {"send", "sent"} =>
      IsFiled(c) \/ Held(c) \/ frees[c] = 1 \/ Collided(c)

(* No two calls of the process drew the same id, on whatever channels.     *)
IdsUnique == \A c, d \in Calls : Drew(c) /\ Drew(d) /\ c # d => callId[c] # callId[d]

(* `++_id' hands out an id twice only after two increments overlapped or   *)
(* the counter went past MaxInt.                                           *)
CollisionNeedsRace == overlapped \/ wrapped \/ IdsUnique

(* The code's comments and its use of a single counter suggest that the    *)
(* entry of a call stays in the table until its reply, or the destructor,  *)
(* takes it out.                                                           *)
EveryCallKept ==
  \A c \in Calls :
    stage[c] \in {"send", "sent"} => IsFiled(c) \/ Held(c) \/ frees[c] = 1

(* The lock of one call, of another or of onRpcMessage never blocks a      *)
(* CallMethod for ever, not even one made by a closure that onRpcMessage   *)
(* runs.                                                                   *)
CallReturns == \A c \in Calls : stage[c] = "load" ~> stage[c] = "sent"

(* A reply that onRpcMessage is given ends its call: the closure runs and  *)
(* the response object is deleted, unless the id was drawn twice.          *)
ReplyHandled ==
  \A c \in Calls :
    (rxpc[Chan[c]] = "lock" /\ rxmsg[Chan[c]][1] = c) ~> (frees[c] = 1 \/ Collided(c))

(* What the user sees of a call.                                           *)
Phase(c) ==
  IF runs[c] > 0 THEN "done"
  ELSE IF frees[c] > 0 THEN "dropped"
  ELSE IF stage[c] = "new" THEN "new" ELSE "open"

Abstract == INSTANCE RemoteCall WITH
              phase <- [c \in Calls |-> Phase(c)],
              result <- answer,
              confused <- (overlapped \/ wrapped)

(* The channels of a process implement RemoteCall: whatever is lost,       *)
(* reordered or answered with an error, and whenever a channel goes, a     *)
(* closure runs at most once, for a call that is open, with its own answer *)
(* or none, and is not run once its response is deleted; only after two    *)
(* increments of _id overlapped, or it wrapped, may the answer be another  *)
(* call's.                                                                 *)
ImplementsCalls == Abstract!Spec
=============================================================================
