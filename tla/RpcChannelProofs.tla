-------------------------- MODULE RpcChannelProofs --------------------------
(* Machine-checked proofs of the safety properties of RpcChannel, for any  *)
(* threads, channels and calls and any width of the counter.               *)
EXTENDS RpcChannel, TLAPS

-----------------------------------------------------------------------------
(* The inductive invariant.                                                *)

(* An entry of the table belongs to a call of that channel, is filed under *)
(* the id the call drew, and is untouched.                                 *)
EntriesOK ==
  \A ch \in Channels, i \in Ids :
    LET c == outstandings[ch][i]
    IN  c # NoCall =>
          /\ Chan[c] = ch
          /\ callId[c] = i
          /\ stage[c] \in {"send", "sent"}
          /\ runs[c] = 0
          /\ frees[c] = 0

(* onRpcMessage works on a reply of its own channel, and the entry it took *)
(* was filed under the id of that reply and is in no table any more.       *)
HandlerOK ==
  \A ch \in Channels :
    /\ rxpc[ch] # "idle" =>
         /\ rxmsg[ch][1] \in Calls
         /\ Chan[rxmsg[ch][1]] = ch
         /\ stage[rxmsg[ch][1]] = "sent"
    /\ rxpc[ch] \in {"run", "running"} =>
         /\ rxout[ch] \in Calls
         /\ Chan[rxout[ch]] = ch
         /\ stage[rxout[ch]] \in {"send", "sent"}
         /\ callId[rxout[ch]] = callId[rxmsg[ch][1]]
         /\ frees[rxout[ch]] = 0
         /\ \A i \in Ids : outstandings[ch][i] # rxout[ch]
    /\ rxpc[ch] = "run" => runs[rxout[ch]] = 0

(* A call that is not filed yet is untouched, an answer is written only    *)
(* with a run, and nothing happens twice.                                  *)
CountsOK ==
  \A c \in Calls :
    /\ stage[c] \notin {"send", "sent"} => runs[c] = 0 /\ frees[c] = 0
    /\ runs[c] = 0 => answer[c] = NoCall
    /\ runs[c] <= 1 /\ frees[c] <= 1

(* Only a sent request is on the wire or answered.                         *)
WireOK ==
  /\ \A c \in requests : stage[c] = "sent"
  /\ \A m \in replies : stage[m[1]] = "sent"

(* While no increments overlapped and the counter has not wrapped, one     *)
(* increment runs at a time, and every id drawn is at most _id: below it   *)
(* from the store of the next increment on.                                *)
CounterOK ==
  ~overlapped /\ ~wrapped =>
    /\ \A c, d \in Calls :
         stage[c] \in {"store", "reload"} /\ stage[d] \in {"store", "reload"} => c = d
    /\ \A c \in Calls : stage[c] = "store" => reg[c] = lastId
    /\ \A c \in Calls : Drew(c) => callId[c] <= lastId
    /\ \A c, d \in Calls : stage[c] = "reload" /\ Drew(d) => callId[d] < lastId

IInv ==
  /\ TypeOK /\ EntriesOK /\ HandlerOK /\ CountsOK /\ WireOK /\ CounterOK
  /\ CompletedByOwnReply /\ NoOrphan /\ CollisionNeedsRace

USE ThreadAssumption, IntAssumption

-----------------------------------------------------------------------------
(* Each part of the invariant is preserved by every action.                *)

(* `++_id' stays within the type.                                          *)
LEMMA IncType == ASSUME NEW i \in Ids PROVE Inc(i) \in Ids
  BY DEF Inc, Ids

(* Every variable keeps its type.                                          *)
LEMMA TypeStep == TypeOK /\ HandlerOK /\ [Next]_vars => TypeOK'
<1> SUFFICES ASSUME TypeOK, HandlerOK, [Next]_vars PROVE TypeOK'
  OBVIOUS
<1> USE DEF TypeOK, Stages, RxStages
<1>1. ASSUME NEW c \in Calls, StartCall(c) PROVE TypeOK'
  BY <1>1 DEF StartCall, Advance
<1>2. ASSUME NEW c \in Calls, LoadId(c) PROVE TypeOK'
  BY <1>2 DEF LoadId, Advance
<1>3. ASSUME NEW c \in Calls, StoreId(c) PROVE TypeOK'
  <2>1. Inc(reg[c]) \in Ids
    BY IncType
  <2> QED
    BY <1>3, <2>1 DEF StoreId, Advance
<1>4. ASSUME NEW c \in Calls, ReloadId(c) PROVE TypeOK'
  BY <1>4 DEF ReloadId, Advance
<1>5. ASSUME NEW c \in Calls, Lock(c) PROVE TypeOK'
  BY <1>5 DEF Lock, Advance
<1>6. ASSUME NEW c \in Calls, Insert(c) PROVE TypeOK'
  BY <1>6 DEF Insert, Advance
<1>7. ASSUME NEW c \in Calls, Send(c) PROVE TypeOK'
  BY <1>7 DEF Send, Advance
<1>8. ASSUME NEW c \in Calls, NEW kind \in Kinds, Reply(c, kind) PROVE TypeOK'
  BY <1>8 DEF Reply
<1>9. ASSUME NEW ch \in Channels, Receive(ch) PROVE TypeOK'
  BY <1>9 DEF Receive
<1>10. ASSUME NEW ch \in Channels, RxLock(ch) PROVE TypeOK'
  BY <1>10 DEF RxLock
<1>11. ASSUME NEW ch \in Channels, RxFind(ch) PROVE TypeOK'
  <2>1. callId[rxmsg[ch][1]] \in Ids
    BY <1>11 DEF RxFind, TakeEntry, HandlerOK
  <2> QED
    BY <1>11, <2>1 DEF RxFind, TakeEntry, NextAfterFind
<1>12. ASSUME NEW ch \in Channels, RxRun(ch) PROVE TypeOK'
  <2>1. rxout[ch] \in Calls /\ rxmsg[ch][1] \in Calls
    BY <1>12 DEF RxRun, HandlerOK
  <2>2. runs' \in [Calls -> Nat]
    BY <1>12, <2>1 DEF RxRun
  <2>3. answer' \in [Calls -> Calls \cup {NoCall}]
    BY <1>12, <2>1 DEF RxRun
  <2> QED
    BY <1>12, <2>2, <2>3 DEF RxRun
<1>13. ASSUME NEW ch \in Channels, RxReturn(ch) PROVE TypeOK'
  <2>1. frees' \in [Calls -> Nat]
    BY <1>13 DEF RxReturn, HandlerOK
  <2> QED
    BY <1>13, <2>1 DEF RxReturn
<1>14. ASSUME NEW ch \in Channels, Destroy(ch) PROVE TypeOK'
  BY <1>14 DEF Destroy
<1>15. CASE UNCHANGED vars
  BY <1>15 DEF vars
<1>16. ASSUME NEW c \in Calls, SendFails(c) PROVE TypeOK'
  BY <1>16 DEF SendFails, Advance
<1>17. ASSUME NEW lost \in SUBSET Calls, Lose(lost) PROVE TypeOK'
  BY <1>17 DEF Lose
<1> QED
  BY <1>1, <1>2, <1>3, <1>4, <1>5, <1>6, <1>7, <1>8, <1>9, <1>10, <1>11, <1>12, <1>13, <1>14, <1>15, <1>16, <1>17 DEF Next, CallStep, RxStep

(* Entries stay where their calls filed them.                              *)
LEMMA EntriesStep == TypeOK /\ EntriesOK /\ HandlerOK /\ CountsOK /\ [Next]_vars => EntriesOK'
<1> SUFFICES ASSUME TypeOK, EntriesOK, HandlerOK, CountsOK, [Next]_vars PROVE EntriesOK'
  OBVIOUS
<1> USE DEF TypeOK, EntriesOK, HandlerOK, CountsOK
<1>1. ASSUME NEW c \in Calls, StartCall(c) PROVE EntriesOK'
  BY <1>1 DEF StartCall, Advance
<1>2. ASSUME NEW c \in Calls, LoadId(c) PROVE EntriesOK'
  BY <1>2 DEF LoadId, Advance
<1>3. ASSUME NEW c \in Calls, StoreId(c) PROVE EntriesOK'
  BY <1>3 DEF StoreId, Advance
<1>4. ASSUME NEW c \in Calls, ReloadId(c) PROVE EntriesOK'
  BY <1>4 DEF ReloadId, Advance
<1>5. ASSUME NEW c \in Calls, Lock(c) PROVE EntriesOK'
  BY <1>5 DEF Lock, Advance
<1>6. ASSUME NEW c \in Calls, Insert(c) PROVE EntriesOK'
  BY <1>6 DEF Insert, Advance
<1>7. ASSUME NEW c \in Calls, Send(c) PROVE EntriesOK'
  BY <1>7 DEF Send, Advance
<1>8. ASSUME NEW c \in Calls, NEW kind \in Kinds, Reply(c, kind) PROVE EntriesOK'
  BY <1>8 DEF Reply
<1>9. ASSUME NEW ch \in Channels, Receive(ch) PROVE EntriesOK'
  BY <1>9 DEF Receive
<1>10. ASSUME NEW ch \in Channels, RxLock(ch) PROVE EntriesOK'
  BY <1>10 DEF RxLock
<1>11. ASSUME NEW ch \in Channels, RxFind(ch) PROVE EntriesOK'
  BY <1>11 DEF RxFind, TakeEntry, NextAfterFind
<1>12. ASSUME NEW ch \in Channels, RxRun(ch) PROVE EntriesOK'
  BY <1>12 DEF RxRun
<1>13. ASSUME NEW ch \in Channels, RxReturn(ch) PROVE EntriesOK'
  BY <1>13 DEF RxReturn
<1>14. ASSUME NEW ch \in Channels, Destroy(ch) PROVE EntriesOK'
  BY <1>14 DEF Destroy
<1>15. CASE UNCHANGED vars
  BY <1>15 DEF vars
<1>16. ASSUME NEW c \in Calls, SendFails(c) PROVE EntriesOK'
  BY <1>16 DEF SendFails, Advance
<1>17. ASSUME NEW lost \in SUBSET Calls, Lose(lost) PROVE EntriesOK'
  BY <1>17 DEF Lose
<1> QED
  BY <1>1, <1>2, <1>3, <1>4, <1>5, <1>6, <1>7, <1>8, <1>9, <1>10, <1>11, <1>12, <1>13, <1>14, <1>15, <1>16, <1>17 DEF Next, CallStep, RxStep

(* Only sent requests are on the wire.                                     *)
LEMMA WireStep == TypeOK /\ WireOK /\ [Next]_vars => WireOK'
<1> SUFFICES ASSUME TypeOK, WireOK, [Next]_vars PROVE WireOK'
  OBVIOUS
<1> USE DEF TypeOK, WireOK
<1>1. ASSUME NEW c \in Calls, StartCall(c) PROVE WireOK'
  BY <1>1 DEF StartCall, Advance
<1>2. ASSUME NEW c \in Calls, LoadId(c) PROVE WireOK'
  BY <1>2 DEF LoadId, Advance
<1>3. ASSUME NEW c \in Calls, StoreId(c) PROVE WireOK'
  BY <1>3 DEF StoreId, Advance
<1>4. ASSUME NEW c \in Calls, ReloadId(c) PROVE WireOK'
  BY <1>4 DEF ReloadId, Advance
<1>5. ASSUME NEW c \in Calls, Lock(c) PROVE WireOK'
  BY <1>5 DEF Lock, Advance
<1>6. ASSUME NEW c \in Calls, Insert(c) PROVE WireOK'
  BY <1>6 DEF Insert, Advance
<1>7. ASSUME NEW c \in Calls, Send(c) PROVE WireOK'
  BY <1>7 DEF Send, Advance
<1>8. ASSUME NEW c \in Calls, NEW kind \in Kinds, Reply(c, kind) PROVE WireOK'
  BY <1>8 DEF Reply
<1>9. ASSUME NEW ch \in Channels, Receive(ch) PROVE WireOK'
  BY <1>9 DEF Receive
<1>10. ASSUME NEW ch \in Channels, RxLock(ch) PROVE WireOK'
  BY <1>10 DEF RxLock
<1>11. ASSUME NEW ch \in Channels, RxFind(ch) PROVE WireOK'
  BY <1>11 DEF RxFind, TakeEntry, NextAfterFind
<1>12. ASSUME NEW ch \in Channels, RxRun(ch) PROVE WireOK'
  BY <1>12 DEF RxRun
<1>13. ASSUME NEW ch \in Channels, RxReturn(ch) PROVE WireOK'
  BY <1>13 DEF RxReturn
<1>14. ASSUME NEW ch \in Channels, Destroy(ch) PROVE WireOK'
  BY <1>14 DEF Destroy
<1>15. CASE UNCHANGED vars
  BY <1>15 DEF vars
<1>16. ASSUME NEW c \in Calls, SendFails(c) PROVE WireOK'
  BY <1>16 DEF SendFails, Advance
<1>17. ASSUME NEW lost \in SUBSET Calls, Lose(lost) PROVE WireOK'
  BY <1>17 DEF Lose
<1> QED
  BY <1>1, <1>2, <1>3, <1>4, <1>5, <1>6, <1>7, <1>8, <1>9, <1>10, <1>11, <1>12, <1>13, <1>14, <1>15, <1>16, <1>17 DEF Next, CallStep, RxStep

(* The handler keeps hold of its entry.                                    *)
LEMMA HandlerStep == TypeOK /\ EntriesOK /\ HandlerOK /\ CountsOK /\ WireOK /\ [Next]_vars => HandlerOK'
<1> SUFFICES ASSUME TypeOK, EntriesOK, HandlerOK, CountsOK, WireOK, [Next]_vars PROVE HandlerOK'
  OBVIOUS
<1> USE DEF TypeOK, EntriesOK, HandlerOK, CountsOK, WireOK, RxStages
<1>1. ASSUME NEW c \in Calls, StartCall(c) PROVE HandlerOK'
  BY <1>1 DEF StartCall, Advance
<1>2. ASSUME NEW c \in Calls, LoadId(c) PROVE HandlerOK'
  BY <1>2 DEF LoadId, Advance
<1>3. ASSUME NEW c \in Calls, StoreId(c) PROVE HandlerOK'
  BY <1>3 DEF StoreId, Advance
<1>4. ASSUME NEW c \in Calls, ReloadId(c) PROVE HandlerOK'
  BY <1>4 DEF ReloadId, Advance
<1>5. ASSUME NEW c \in Calls, Lock(c) PROVE HandlerOK'
  BY <1>5 DEF Lock, Advance
<1>6. ASSUME NEW c \in Calls, Insert(c) PROVE HandlerOK'
  BY <1>6 DEF Insert, Advance
<1>7. ASSUME NEW c \in Calls, Send(c) PROVE HandlerOK'
  BY <1>7 DEF Send, Advance
<1>8. ASSUME NEW c \in Calls, NEW kind \in Kinds, Reply(c, kind) PROVE HandlerOK'
  BY <1>8 DEF Reply
<1>9. ASSUME NEW ch \in Channels, Receive(ch) PROVE HandlerOK'
  BY <1>9 DEF Receive
<1>10. ASSUME NEW ch \in Channels, RxLock(ch) PROVE HandlerOK'
  BY <1>10 DEF RxLock
<1>11. ASSUME NEW ch \in Channels, RxFind(ch) PROVE HandlerOK'
  BY <1>11 DEF RxFind, TakeEntry, NextAfterFind
<1>12. ASSUME NEW ch \in Channels, RxRun(ch) PROVE HandlerOK'
  BY <1>12 DEF RxRun
<1>13. ASSUME NEW ch \in Channels, RxReturn(ch) PROVE HandlerOK'
  BY <1>13 DEF RxReturn
<1>14. ASSUME NEW ch \in Channels, Destroy(ch) PROVE HandlerOK'
  BY <1>14 DEF Destroy
<1>15. CASE UNCHANGED vars
  BY <1>15 DEF vars
<1>16. ASSUME NEW c \in Calls, SendFails(c) PROVE HandlerOK'
  BY <1>16 DEF SendFails, Advance
<1>17. ASSUME NEW lost \in SUBSET Calls, Lose(lost) PROVE HandlerOK'
  BY <1>17 DEF Lose
<1> QED
  BY <1>1, <1>2, <1>3, <1>4, <1>5, <1>6, <1>7, <1>8, <1>9, <1>10, <1>11, <1>12, <1>13, <1>14, <1>15, <1>16, <1>17 DEF Next, CallStep, RxStep

(* Nothing happens twice.                                                  *)
LEMMA CountsStep == TypeOK /\ EntriesOK /\ HandlerOK /\ CountsOK /\ [Next]_vars => CountsOK'
<1> SUFFICES ASSUME TypeOK, EntriesOK, HandlerOK, CountsOK, [Next]_vars PROVE CountsOK'
  OBVIOUS
<1> USE DEF TypeOK, EntriesOK, HandlerOK, CountsOK
<1>1. ASSUME NEW c \in Calls, StartCall(c) PROVE CountsOK'
  BY <1>1 DEF StartCall, Advance
<1>2. ASSUME NEW c \in Calls, LoadId(c) PROVE CountsOK'
  BY <1>2 DEF LoadId, Advance
<1>3. ASSUME NEW c \in Calls, StoreId(c) PROVE CountsOK'
  BY <1>3 DEF StoreId, Advance
<1>4. ASSUME NEW c \in Calls, ReloadId(c) PROVE CountsOK'
  BY <1>4 DEF ReloadId, Advance
<1>5. ASSUME NEW c \in Calls, Lock(c) PROVE CountsOK'
  BY <1>5 DEF Lock, Advance
<1>6. ASSUME NEW c \in Calls, Insert(c) PROVE CountsOK'
  BY <1>6 DEF Insert, Advance
<1>7. ASSUME NEW c \in Calls, Send(c) PROVE CountsOK'
  BY <1>7 DEF Send, Advance
<1>8. ASSUME NEW c \in Calls, NEW kind \in Kinds, Reply(c, kind) PROVE CountsOK'
  BY <1>8 DEF Reply
<1>9. ASSUME NEW ch \in Channels, Receive(ch) PROVE CountsOK'
  BY <1>9 DEF Receive
<1>10. ASSUME NEW ch \in Channels, RxLock(ch) PROVE CountsOK'
  BY <1>10 DEF RxLock
<1>11. ASSUME NEW ch \in Channels, RxFind(ch) PROVE CountsOK'
  BY <1>11 DEF RxFind, TakeEntry, NextAfterFind
<1>12. ASSUME NEW ch \in Channels, RxRun(ch) PROVE CountsOK'
  BY <1>12 DEF RxRun
<1>13. ASSUME NEW ch \in Channels, RxReturn(ch) PROVE CountsOK'
  BY <1>13 DEF RxReturn
<1>14. ASSUME NEW ch \in Channels, Destroy(ch) PROVE CountsOK'
  BY <1>14 DEF Destroy
<1>15. CASE UNCHANGED vars
  BY <1>15 DEF vars
<1>16. ASSUME NEW c \in Calls, SendFails(c) PROVE CountsOK'
  BY <1>16 DEF SendFails, Advance
<1>17. ASSUME NEW lost \in SUBSET Calls, Lose(lost) PROVE CountsOK'
  BY <1>17 DEF Lose
<1> QED
  BY <1>1, <1>2, <1>3, <1>4, <1>5, <1>6, <1>7, <1>8, <1>9, <1>10, <1>11, <1>12, <1>13, <1>14, <1>15, <1>16, <1>17 DEF Next, CallStep, RxStep

(* The counter stays ahead of the ids drawn.                               *)
LEMMA CounterStep == TypeOK /\ CounterOK /\ [Next]_vars => CounterOK'
<1> SUFFICES ASSUME TypeOK, CounterOK, [Next]_vars PROVE CounterOK'
  OBVIOUS
<1> USE DEF TypeOK, CounterOK, Drew, Ids
<1>1. ASSUME NEW c \in Calls, StartCall(c) PROVE CounterOK'
  BY <1>1 DEF StartCall, Advance
<1>2. ASSUME NEW c \in Calls, LoadId(c) PROVE CounterOK'
  BY <1>2 DEF LoadId, Advance
<1>3. ASSUME NEW c \in Calls, StoreId(c) PROVE CounterOK'
  <2> SUFFICES ASSUME ~overlapped', ~wrapped' PROVE CounterOK'
    OBVIOUS
  <2>0. ~overlapped /\ ~wrapped /\ reg[c] # MaxInt
    BY <1>3, Zenon DEF StoreId
  <2>1. lastId' = lastId + 1 /\ lastId \in Int
    BY <1>3, <2>0 DEF StoreId, Advance, Inc
  <2>2. \A d \in Calls : d # c => stage[d] \notin {"store", "reload"}
    BY <1>3, <2>0 DEF StoreId, Advance
  <2>3. \A d \in Calls : Drew(d)' => Drew(d) /\ callId'[d] <= lastId
    BY <1>3, <2>0 DEF StoreId, Advance
  <2>4. \A d \in Calls : callId'[d] \in Int
    BY <1>3 DEF StoreId, Advance
  <2>5. \A d \in Calls : Drew(d)' => callId'[d] <= lastId' /\ callId'[d] < lastId'
    <3> HIDE DEF Drew
    <3> QED
      BY <2>1, <2>3, <2>4
  <2>6. \A d \in Calls : d # c => stage'[d] \notin {"store", "reload"}
    BY <1>3, <2>2 DEF StoreId, Advance
  <2>7. stage'[c] = "reload"
    BY <1>3 DEF StoreId, Advance
  <2> HIDE DEF Drew
  <2> QED
    BY <2>5, <2>6, <2>7
<1>4. ASSUME NEW c \in Calls, ReloadId(c) PROVE CounterOK'
  BY <1>4 DEF ReloadId, Advance
<1>5. ASSUME NEW c \in Calls, Lock(c) PROVE CounterOK'
  BY <1>5 DEF Lock, Advance
<1>6. ASSUME NEW c \in Calls, Insert(c) PROVE CounterOK'
  BY <1>6 DEF Insert, Advance
<1>7. ASSUME NEW c \in Calls, Send(c) PROVE CounterOK'
  BY <1>7 DEF Send, Advance
<1>8. ASSUME NEW c \in Calls, NEW kind \in Kinds, Reply(c, kind) PROVE CounterOK'
  BY <1>8 DEF Reply
<1>9. ASSUME NEW ch \in Channels, Receive(ch) PROVE CounterOK'
  BY <1>9 DEF Receive
<1>10. ASSUME NEW ch \in Channels, RxLock(ch) PROVE CounterOK'
  BY <1>10 DEF RxLock
<1>11. ASSUME NEW ch \in Channels, RxFind(ch) PROVE CounterOK'
  BY <1>11 DEF RxFind, TakeEntry, NextAfterFind
<1>12. ASSUME NEW ch \in Channels, RxRun(ch) PROVE CounterOK'
  BY <1>12 DEF RxRun
<1>13. ASSUME NEW ch \in Channels, RxReturn(ch) PROVE CounterOK'
  BY <1>13 DEF RxReturn
<1>14. ASSUME NEW ch \in Channels, Destroy(ch) PROVE CounterOK'
  BY <1>14 DEF Destroy
<1>15. CASE UNCHANGED vars
  BY <1>15 DEF vars
<1>16. ASSUME NEW c \in Calls, SendFails(c) PROVE CounterOK'
  BY <1>16 DEF SendFails, Advance
<1>17. ASSUME NEW lost \in SUBSET Calls, Lose(lost) PROVE CounterOK'
  BY <1>17 DEF Lose
<1> QED
  BY <1>1, <1>2, <1>3, <1>4, <1>5, <1>6, <1>7, <1>8, <1>9, <1>10, <1>11, <1>12, <1>13, <1>14, <1>15, <1>16, <1>17 DEF Next, CallStep, RxStep

(* An id is drawn twice only after a race or a wrap.                       *)
LEMMA UniqueStep == TypeOK /\ CounterOK /\ CollisionNeedsRace /\ [Next]_vars => CollisionNeedsRace'
<1> SUFFICES ASSUME TypeOK, CounterOK, CollisionNeedsRace, [Next]_vars PROVE CollisionNeedsRace'
  OBVIOUS
<1> USE DEF TypeOK, CounterOK, Drew, CollisionNeedsRace, IdsUnique, Ids
<1>1. ASSUME NEW c \in Calls, StartCall(c) PROVE CollisionNeedsRace'
  BY <1>1 DEF StartCall, Advance
<1>2. ASSUME NEW c \in Calls, LoadId(c) PROVE CollisionNeedsRace'
  BY <1>2 DEF LoadId, Advance
<1>3. ASSUME NEW c \in Calls, StoreId(c) PROVE CollisionNeedsRace'
  BY <1>3 DEF StoreId, Advance
<1>4. ASSUME NEW c \in Calls, ReloadId(c) PROVE CollisionNeedsRace'
  BY <1>4 DEF ReloadId, Advance
<1>5. ASSUME NEW c \in Calls, Lock(c) PROVE CollisionNeedsRace'
  BY <1>5 DEF Lock, Advance
<1>6. ASSUME NEW c \in Calls, Insert(c) PROVE CollisionNeedsRace'
  BY <1>6 DEF Insert, Advance
<1>7. ASSUME NEW c \in Calls, Send(c) PROVE CollisionNeedsRace'
  BY <1>7 DEF Send, Advance
<1>8. ASSUME NEW c \in Calls, NEW kind \in Kinds, Reply(c, kind) PROVE CollisionNeedsRace'
  BY <1>8 DEF Reply
<1>9. ASSUME NEW ch \in Channels, Receive(ch) PROVE CollisionNeedsRace'
  BY <1>9 DEF Receive
<1>10. ASSUME NEW ch \in Channels, RxLock(ch) PROVE CollisionNeedsRace'
  BY <1>10 DEF RxLock
<1>11. ASSUME NEW ch \in Channels, RxFind(ch) PROVE CollisionNeedsRace'
  BY <1>11 DEF RxFind, TakeEntry, NextAfterFind
<1>12. ASSUME NEW ch \in Channels, RxRun(ch) PROVE CollisionNeedsRace'
  BY <1>12 DEF RxRun
<1>13. ASSUME NEW ch \in Channels, RxReturn(ch) PROVE CollisionNeedsRace'
  BY <1>13 DEF RxReturn
<1>14. ASSUME NEW ch \in Channels, Destroy(ch) PROVE CollisionNeedsRace'
  BY <1>14 DEF Destroy
<1>15. CASE UNCHANGED vars
  BY <1>15 DEF vars
<1>16. ASSUME NEW c \in Calls, SendFails(c) PROVE CollisionNeedsRace'
  BY <1>16 DEF SendFails, Advance
<1>17. ASSUME NEW lost \in SUBSET Calls, Lose(lost) PROVE CollisionNeedsRace'
  BY <1>17 DEF Lose
<1> QED
  BY <1>1, <1>2, <1>3, <1>4, <1>5, <1>6, <1>7, <1>8, <1>9, <1>10, <1>11, <1>12, <1>13, <1>14, <1>15, <1>16, <1>17 DEF Next, CallStep, RxStep

(* A collision stays one: ids are drawn once.                              *)
LEMMA CollidedStep ==
  TypeOK /\ [Next]_vars => \A x \in Calls : Collided(x) => Collided(x)'
<1> SUFFICES ASSUME TypeOK, [Next]_vars, NEW x \in Calls, Collided(x)
             PROVE  Collided(x)'
  OBVIOUS
<1> USE DEF TypeOK, Collided, Drew
<1>1. ASSUME NEW c \in Calls, StartCall(c) PROVE Collided(x)'
  BY <1>1 DEF StartCall, Advance
<1>2. ASSUME NEW c \in Calls, LoadId(c) PROVE Collided(x)'
  BY <1>2 DEF LoadId, Advance
<1>3. ASSUME NEW c \in Calls, StoreId(c) PROVE Collided(x)'
  BY <1>3 DEF StoreId, Advance
<1>4. ASSUME NEW c \in Calls, ReloadId(c) PROVE Collided(x)'
  BY <1>4 DEF ReloadId, Advance
<1>5. ASSUME NEW c \in Calls, Lock(c) PROVE Collided(x)'
  BY <1>5 DEF Lock, Advance
<1>6. ASSUME NEW c \in Calls, Insert(c) PROVE Collided(x)'
  BY <1>6 DEF Insert, Advance
<1>7. ASSUME NEW c \in Calls, Send(c) PROVE Collided(x)'
  BY <1>7 DEF Send, Advance
<1>8. ASSUME NEW c \in Calls, NEW kind \in Kinds, Reply(c, kind) PROVE Collided(x)'
  BY <1>8 DEF Reply
<1>9. ASSUME NEW ch \in Channels, Receive(ch) PROVE Collided(x)'
  BY <1>9 DEF Receive
<1>10. ASSUME NEW ch \in Channels, RxLock(ch) PROVE Collided(x)'
  BY <1>10 DEF RxLock
<1>11. ASSUME NEW ch \in Channels, RxFind(ch) PROVE Collided(x)'
  BY <1>11 DEF RxFind, TakeEntry, NextAfterFind
<1>12. ASSUME NEW ch \in Channels, RxRun(ch) PROVE Collided(x)'
  BY <1>12 DEF RxRun
<1>13. ASSUME NEW ch \in Channels, RxReturn(ch) PROVE Collided(x)'
  BY <1>13 DEF RxReturn
<1>14. ASSUME NEW ch \in Channels, Destroy(ch) PROVE Collided(x)'
  BY <1>14 DEF Destroy
<1>15. CASE UNCHANGED vars
  BY <1>15 DEF vars
<1>16. ASSUME NEW c \in Calls, SendFails(c) PROVE Collided(x)'
  BY <1>16 DEF SendFails, Advance
<1>17. ASSUME NEW lost \in SUBSET Calls, Lose(lost) PROVE Collided(x)'
  BY <1>17 DEF Lose
<1> QED
  BY <1>1, <1>2, <1>3, <1>4, <1>5, <1>6, <1>7, <1>8, <1>9, <1>10, <1>11, <1>12, <1>13, <1>14, <1>15, <1>16, <1>17 DEF Next, CallStep, RxStep

(* A closure runs on its own answer.                                       *)
LEMMA CompletedStep == TypeOK /\ HandlerOK /\ CountsOK /\ CompletedByOwnReply /\ [Next]_vars => CompletedByOwnReply'
<1> SUFFICES ASSUME TypeOK, HandlerOK, CountsOK, CompletedByOwnReply, [Next]_vars PROVE CompletedByOwnReply'
  OBVIOUS
<1>0. \A x \in Calls : Collided(x) => Collided(x)'
  BY CollidedStep
<1> USE DEF TypeOK, HandlerOK, CountsOK, CompletedByOwnReply
<1>1. ASSUME NEW c \in Calls, StartCall(c) PROVE CompletedByOwnReply'
  BY <1>0, <1>1 DEF StartCall, Advance
<1>2. ASSUME NEW c \in Calls, LoadId(c) PROVE CompletedByOwnReply'
  BY <1>0, <1>2 DEF LoadId, Advance
<1>3. ASSUME NEW c \in Calls, StoreId(c) PROVE CompletedByOwnReply'
  BY <1>0, <1>3 DEF StoreId, Advance
<1>4. ASSUME NEW c \in Calls, ReloadId(c) PROVE CompletedByOwnReply'
  BY <1>0, <1>4 DEF ReloadId, Advance
<1>5. ASSUME NEW c \in Calls, Lock(c) PROVE CompletedByOwnReply'
  BY <1>0, <1>5 DEF Lock, Advance
<1>6. ASSUME NEW c \in Calls, Insert(c) PROVE CompletedByOwnReply'
  BY <1>0, <1>6 DEF Insert, Advance
<1>7. ASSUME NEW c \in Calls, Send(c) PROVE CompletedByOwnReply'
  BY <1>0, <1>7 DEF Send, Advance
<1>8. ASSUME NEW c \in Calls, NEW kind \in Kinds, Reply(c, kind) PROVE CompletedByOwnReply'
  BY <1>0, <1>8 DEF Reply
<1>9. ASSUME NEW ch \in Channels, Receive(ch) PROVE CompletedByOwnReply'
  BY <1>0, <1>9 DEF Receive
<1>10. ASSUME NEW ch \in Channels, RxLock(ch) PROVE CompletedByOwnReply'
  BY <1>0, <1>10 DEF RxLock
<1>11. ASSUME NEW ch \in Channels, RxFind(ch) PROVE CompletedByOwnReply'
  BY <1>0, <1>11 DEF RxFind, TakeEntry, NextAfterFind
<1>12. ASSUME NEW ch \in Channels, RxRun(ch) PROVE CompletedByOwnReply'
  <2> DEFINE out == rxout[ch]
             m == rxmsg[ch][1]
  <2>1. /\ out \in Calls /\ m \in Calls
        /\ Chan[out] = Chan[m] /\ callId[out] = callId[m]
        /\ stage[out] \in {"send", "sent"} /\ stage[m] = "sent"
        /\ answer[out] = NoCall
    BY <1>12 DEF RxRun
  <2>2. answer'[out] \in {NoCall, m}
    BY <1>12, <2>1 DEF RxRun
  <2>3. out # m => Collided(out)
    BY <2>1 DEF Collided, Drew
  <2>4. \A c \in Calls \ {out} : runs'[c] = runs[c] /\ answer'[c] = answer[c]
    BY <1>12 DEF RxRun
  <2>5. stage' = stage
    BY <1>12 DEF RxRun
  <2> HIDE DEF out, m
  <2> QED
    BY <1>0, <2>1, <2>2, <2>3, <2>4, <2>5
<1>13. ASSUME NEW ch \in Channels, RxReturn(ch) PROVE CompletedByOwnReply'
  BY <1>0, <1>13 DEF RxReturn
<1>14. ASSUME NEW ch \in Channels, Destroy(ch) PROVE CompletedByOwnReply'
  BY <1>0, <1>14 DEF Destroy
<1>15. CASE UNCHANGED vars
  BY <1>0, <1>15 DEF vars
<1>16. ASSUME NEW c \in Calls, SendFails(c) PROVE CompletedByOwnReply'
  BY <1>0, <1>16 DEF SendFails, Advance
<1>17. ASSUME NEW lost \in SUBSET Calls, Lose(lost) PROVE CompletedByOwnReply'
  BY <1>0, <1>17 DEF Lose
<1> QED
  BY <1>0, <1>1, <1>2, <1>3, <1>4, <1>5, <1>6, <1>7, <1>8, <1>9, <1>10, <1>11, <1>12, <1>13, <1>14, <1>15, <1>16, <1>17 DEF Next, CallStep, RxStep

(* The only place where a call can be filed is the id it drew.             *)
LEMMA FiledAtOwnId ==
  ASSUME TypeOK, EntriesOK, NEW c \in Calls
  PROVE  IsFiled(c) <=> outstandings[Chan[c]][callId[c]] = c
<1>1. Chan[c] \in Channels /\ callId[c] \in Ids /\ c # NoCall
  BY DEF TypeOK
<1>2. ASSUME NEW i \in Ids, outstandings[Chan[c]][i] = c PROVE i = callId[c]
  BY <1>1, <1>2 DEF EntriesOK
<1> QED
  BY <1>1, <1>2 DEF IsFiled

(* A filed call is never forgotten.                                        *)
LEMMA OrphanStep == TypeOK /\ EntriesOK /\ HandlerOK /\ CountsOK /\ NoOrphan /\ [Next]_vars => NoOrphan'
<1> SUFFICES ASSUME TypeOK, EntriesOK, HandlerOK, CountsOK, NoOrphan, [Next]_vars PROVE NoOrphan'
  OBVIOUS
<1>0. /\ \A x \in Calls : Collided(x) => Collided(x)'
      /\ \A x \in Calls : IsFiled(x) <=> outstandings[Chan[x]][callId[x]] = x
      /\ \A x \in Calls : outstandings'[Chan[x]][callId'[x]] = x => IsFiled(x)'
  <2>1. TypeOK'
    BY TypeStep
  <2> QED
    BY <2>1, CollidedStep, FiledAtOwnId DEF Held, TypeOK, IsFiled
<1> USE DEF Held, TypeOK, EntriesOK, HandlerOK, CountsOK, NoOrphan
<1>1. ASSUME NEW c \in Calls, StartCall(c) PROVE NoOrphan'
  BY <1>0, <1>1 DEF Held, StartCall, Advance
<1>2. ASSUME NEW c \in Calls, LoadId(c) PROVE NoOrphan'
  BY <1>0, <1>2 DEF Held, LoadId, Advance
<1>3. ASSUME NEW c \in Calls, StoreId(c) PROVE NoOrphan'
  BY <1>0, <1>3 DEF Held, StoreId, Advance
<1>4. ASSUME NEW c \in Calls, ReloadId(c) PROVE NoOrphan'
  BY <1>0, <1>4 DEF Held, ReloadId, Advance
<1>5. ASSUME NEW c \in Calls, Lock(c) PROVE NoOrphan'
  BY <1>0, <1>5 DEF Held, Lock, Advance
<1>6. ASSUME NEW c \in Calls, Insert(c) PROVE NoOrphan'
  <2> SUFFICES ASSUME NEW d \in Calls, stage'[d] \in {"send", "sent"}
               PROVE  (IsFiled(d) \/ Held(d) \/ frees[d] = 1 \/ Collided(d))'
    OBVIOUS
  <2>1. CASE d = c
    BY <1>0, <1>6, <2>1, <1>0 DEF Held, Insert, Advance
  <2>2. CASE d # c /\ Chan[d] = Chan[c] /\ callId[d] = callId[c]
    <3>1. Collided(d)
      BY <1>0, <1>6, <2>2 DEF Held, Insert, Advance, Collided, Drew
    <3> QED
      BY <3>1, <1>0
  <2>3. CASE d # c /\ ~(Chan[d] = Chan[c] /\ callId[d] = callId[c])
    <3>1. outstandings'[Chan[d]][callId'[d]] = outstandings[Chan[d]][callId[d]]
      BY <1>0, <1>6, <2>3 DEF Held, Insert
    <3> QED
      BY <1>0, <1>6, <2>3, <3>1, <1>0 DEF Held, Insert, Advance, Held
  <2> QED
    BY <2>1, <2>2, <2>3
<1>7. ASSUME NEW c \in Calls, Send(c) PROVE NoOrphan'
  BY <1>0, <1>7 DEF Held, Send, Advance
<1>8. ASSUME NEW c \in Calls, NEW kind \in Kinds, Reply(c, kind) PROVE NoOrphan'
  BY <1>0, <1>8 DEF Held, Reply
<1>9. ASSUME NEW ch \in Channels, Receive(ch) PROVE NoOrphan'
  BY <1>0, <1>9 DEF Held, Receive
<1>10. ASSUME NEW ch \in Channels, RxLock(ch) PROVE NoOrphan'
  BY <1>0, <1>10 DEF Held, RxLock
<1>11. ASSUME NEW ch \in Channels, RxFind(ch) PROVE NoOrphan'
  BY <1>0, <1>11 DEF Held, RxFind, TakeEntry, NextAfterFind
<1>12. ASSUME NEW ch \in Channels, RxRun(ch) PROVE NoOrphan'
  BY <1>0, <1>12 DEF Held, RxRun
<1>13. ASSUME NEW ch \in Channels, RxReturn(ch) PROVE NoOrphan'
  BY <1>0, <1>13 DEF Held, RxReturn
<1>14. ASSUME NEW ch \in Channels, Destroy(ch) PROVE NoOrphan'
  BY <1>0, <1>14 DEF Held, Destroy
<1>15. CASE UNCHANGED vars
  BY <1>0, <1>15 DEF Held, vars
<1>16. ASSUME NEW c \in Calls, SendFails(c) PROVE NoOrphan'
  BY <1>0, <1>16 DEF Held, SendFails, Advance
<1>17. ASSUME NEW lost \in SUBSET Calls, Lose(lost) PROVE NoOrphan'
  BY <1>0, <1>17 DEF Held, Lose
<1> QED
  BY <1>0, <1>1, <1>2, <1>3, <1>4, <1>5, <1>6, <1>7, <1>8, <1>9, <1>10, <1>11, <1>12, <1>13, <1>14, <1>15, <1>16, <1>17 DEF Held, Next, CallStep, RxStep

-----------------------------------------------------------------------------
(* The theorems.                                                           *)

(* The invariant holds initially.                                          *)
LEMMA InitIInv == Init => IInv
<1> SUFFICES ASSUME Init PROVE IInv
  OBVIOUS
<1> USE DEF Init
<1>1. TypeOK
  <2>1. 0 \in Ids
    BY DEF Ids
  <2>2. rxmsg \in [Channels -> (Calls \cup {NoCall}) \X Kinds]
    BY DEF Kinds
  <2> QED
    BY <2>1, <2>2 DEF TypeOK, Stages, RxStages
<1>2. EntriesOK /\ HandlerOK /\ CountsOK /\ WireOK
  BY DEF EntriesOK, HandlerOK, CountsOK, WireOK
<1>3. CounterOK /\ CollisionNeedsRace
  BY DEF CounterOK, CollisionNeedsRace, IdsUnique, Drew
<1>4. CompletedByOwnReply /\ NoOrphan
  BY DEF CompletedByOwnReply, NoOrphan
<1> QED
  BY <1>1, <1>2, <1>3, <1>4 DEF IInv

(* The invariant is inductive, so it holds in every reachable state.       *)
THEOREM Invariance == Spec => []IInv
<1>1. IInv /\ [Next]_vars => IInv'
  BY TypeStep, EntriesStep, WireStep, HandlerStep, CountsStep, CounterStep,
     UniqueStep, CompletedStep, OrphanStep DEF IInv
<1> QED
  BY InitIInv, <1>1, PTL DEF Spec

(* Type correctness: whatever threads call, _id and every id stay ints and *)
(* the tables of all channels hold calls.                                  *)
THEOREM TypeCorrect == Spec => []TypeOK
<1>1. IInv => TypeOK
  BY DEF IInv
<1> QED
  BY Invariance, <1>1, PTL

(* No response object is deleted twice, or under a running closure, and no *)
(* closure runs twice.                                                     *)
THEOREM SingleOwner == Spec => []OneOwner
<1>1. ASSUME IInv PROVE OneOwner
  <2> SUFFICES ASSUME NEW c \in Calls
               PROVE  /\ frees[c] <= 1 /\ runs[c] <= 1
                      /\ frees[c] = 1 => ~IsFiled(c) /\ ~Held(c)
                      /\ Held(c) => ~IsFiled(c)
    BY DEF OneOwner
  <2>1. frees[c] <= 1 /\ runs[c] <= 1
    BY <1>1 DEF IInv, CountsOK
  <2>2. IsFiled(c) => frees[c] = 0
    BY <1>1 DEF IInv, TypeOK, EntriesOK, IsFiled
  <2>3. Held(c) => frees[c] = 0 /\ ~IsFiled(c)
    BY <1>1 DEF IInv, TypeOK, HandlerOK, Held, IsFiled
  <2> QED
    BY <2>1, <2>2, <2>3
<1> QED
  BY Invariance, <1>1, PTL

(* A closure runs on its own answer, after its own request, unless another *)
(* call of the channel drew the same id.                                   *)
THEOREM OwnReply == Spec => []CompletedByOwnReply
<1>1. IInv => CompletedByOwnReply
  BY DEF IInv
<1> QED
  BY Invariance, <1>1, PTL

(* A filed call is never forgotten, unless another call of the channel     *)
(* drew the same id.                                                       *)
THEOREM NeverForgotten == Spec => []NoOrphan
<1>1. IInv => NoOrphan
  BY DEF IInv
<1> QED
  BY Invariance, <1>1, PTL

(* The counter hands out an id twice only after two increments overlapped  *)
(* or it wrapped.                                                          *)
THEOREM UniqueWithoutRace == Spec => []CollisionNeedsRace
<1>1. IInv => CollisionNeedsRace
  BY DEF IInv
<1> QED
  BY Invariance, <1>1, PTL

-----------------------------------------------------------------------------
(* RpcChannel implements RemoteCall.                                       *)

(* While the handler is in a closure, that closure was counted.            *)
RunningOK == \A ch \in Channels : rxpc[ch] = "running" => runs[rxout[ch]] > 0

(* The count of the closure that runs is kept by every action.             *)
LEMMA RunningStep == IInv /\ RunningOK /\ [Next]_vars => RunningOK'
<1> SUFFICES ASSUME IInv, RunningOK, [Next]_vars PROVE RunningOK'
  OBVIOUS
<1> USE DEF RunningOK
<1>1. ASSUME NEW c \in Calls, StartCall(c) \/ CallStep(c) PROVE RunningOK'
  BY <1>1 DEF StartCall, CallStep, LoadId, StoreId, ReloadId, Lock, Insert, Send, SendFails
<1>2. ASSUME NEW c \in Calls, NEW kind \in Kinds, Reply(c, kind) PROVE RunningOK'
  BY <1>2 DEF Reply
<1>3. ASSUME NEW lost \in SUBSET Calls, Lose(lost) PROVE RunningOK'
  BY <1>3 DEF Lose
<1>4. ASSUME NEW ch \in Channels, Receive(ch) PROVE RunningOK'
  BY <1>4 DEF Receive, IInv, TypeOK
<1>5. ASSUME NEW ch \in Channels, RxLock(ch) PROVE RunningOK'
  BY <1>5 DEF RxLock, IInv, TypeOK
<1>6. ASSUME NEW ch \in Channels, RxFind(ch) PROVE RunningOK'
  BY <1>6 DEF RxFind, TakeEntry, NextAfterFind, IInv, TypeOK
<1>7. ASSUME NEW ch \in Channels, RxRun(ch) PROVE RunningOK'
  <2>1. rxout[ch] \in Calls
    BY <1>7 DEF RxRun, IInv, HandlerOK
  <2>2. runs \in [Calls -> Nat] /\ rxpc \in [Channels -> RxStages]
    BY DEF IInv, TypeOK
  <2>3. ASSUME NEW k \in Channels, rxpc[k] = "running" PROVE rxout[k] \in Calls
    BY <2>3 DEF IInv, HandlerOK
  <2> QED
    BY <1>7, <2>1, <2>2, <2>3 DEF RxRun
<1>8. ASSUME NEW ch \in Channels, RxReturn(ch) PROVE RunningOK'
  BY <1>8 DEF RxReturn, IInv, TypeOK
<1>9. ASSUME NEW ch \in Channels, Destroy(ch) PROVE RunningOK'
  BY <1>9 DEF Destroy
<1>10. CASE UNCHANGED vars
  BY <1>10 DEF vars
<1> QED
  BY <1>1, <1>2, <1>3, <1>4, <1>5, <1>6, <1>7, <1>8, <1>9, <1>10 DEF Next, RxStep

(* A call of a state that collided with another drew its id in a race.     *)
LEMMA CollidedConfused ==
  ASSUME CollisionNeedsRace, NEW c \in Calls, Collided(c)
  PROVE  overlapped \/ wrapped
  BY DEF CollisionNeedsRace, IdsUnique, Collided

(* A step that leaves the stages, the counts, the answers and the history  *)
(* alone is invisible to the user.                                         *)
LEMMA Invisible ==
  ASSUME UNCHANGED <<runs, frees, stage, answer, overlapped, wrapped>>
  PROVE  UNCHANGED Abstract!vars
  BY DEF Abstract!vars, Phase

(* Within CallMethod a call stays open, and only the counter's history     *)
(* may change.                                                             *)
LEMMA CallStepMaps ==
  ASSUME IInv, NEW c \in Calls, CallStep(c)
  PROVE  [Abstract!Next]_Abstract!vars
<1>1. UNCHANGED <<runs, frees, answer>>
  BY DEF CallStep, LoadId, StoreId, ReloadId, Lock, Insert, Send, SendFails
<1>2. /\ stage[c] # "new" /\ stage'[c] # "new"
      /\ \A d \in Calls \ {c} : stage'[d] = stage[d]
  BY DEF CallStep, LoadId, StoreId, ReloadId, Lock, Insert, Send, SendFails, Advance,
         IInv, TypeOK
<1>3. (overlapped \/ wrapped) => (overlapped' \/ wrapped')
  BY DEF CallStep, LoadId, StoreId, ReloadId, Lock, Insert, Send, SendFails
<1>4. ASSUME NEW d \in Calls PROVE Phase(d)' = Phase(d)
  BY <1>1, <1>2 DEF Phase
<1>5. [d \in Calls |-> Phase(d)]' = [d \in Calls |-> Phase(d)] /\ answer' = answer
  BY <1>1, <1>4
<1>6. CASE (overlapped' \/ wrapped') = (overlapped \/ wrapped)
  BY <1>5, <1>6 DEF Abstract!vars
<1>7. CASE (overlapped' \/ wrapped') # (overlapped \/ wrapped)
  <2>1. (overlapped' \/ wrapped') = TRUE
    BY <1>3, <1>7 DEF IInv, TypeOK
  <2> QED
    BY <1>5, <2>1 DEF Abstract!Next, Abstract!Confuse
<1> QED
  BY <1>6, <1>7

(* Starting a closure completes its call, with its own answer or none      *)
(* unless ids were drawn in a race.                                        *)
LEMMA RxRunMaps ==
  ASSUME IInv, IInv', NEW ch \in Channels, RxRun(ch)
  PROVE  [Abstract!Next]_Abstract!vars
<1>0. PICK c \in Calls : c = rxout[ch]
  BY DEF RxRun, IInv, HandlerOK
<1>1. /\ runs[c] = 0 /\ frees[c] = 0
      /\ stage[c] \in {"send", "sent"} /\ rxmsg[ch][1] \in Calls
  BY <1>0 DEF RxRun, IInv, HandlerOK
<1>2. /\ runs' = [runs EXCEPT ![c] = 1]
      /\ answer' = [answer EXCEPT ![c] = answer'[c]]
      /\ answer'[c] \in Calls \cup {NoCall}
      /\ UNCHANGED <<frees, stage, overlapped, wrapped>>
  BY <1>0, <1>1 DEF RxRun, IInv, TypeOK
<1>3. Phase(c) = "open" /\ Phase(c)' = "done"
  BY <1>1, <1>2 DEF Phase, IInv, TypeOK
<1>4. ASSUME NEW d \in Calls, d # c PROVE Phase(d)' = Phase(d)
  BY <1>1, <1>2, <1>4 DEF Phase, IInv, TypeOK
<1>5. [d \in Calls |-> Phase(d)]' = [[d \in Calls |-> Phase(d)] EXCEPT ![c] = "done"]
  BY <1>1, <1>3, <1>4
<1>6. answer'[c] \in {c, NoCall} \/ overlapped \/ wrapped
  <2>1. runs'[c] > 0
    BY <1>1, <1>2 DEF IInv, TypeOK
  <2>2. CASE Collided(c)'
    BY <1>1, <1>2, <2>2, CollidedConfused DEF IInv, CollisionNeedsRace, IdsUnique, Collided
  <2>3. CASE ~Collided(c)'
    BY <1>1, <2>1, <2>3 DEF IInv, CompletedByOwnReply
  <2> QED
    BY <2>2, <2>3
<1>7. Abstract!Complete(c, answer'[c])
  BY <1>1, <1>2, <1>3, <1>5, <1>6 DEF Abstract!Complete
<1> QED
  BY <1>1, <1>2, <1>7 DEF Abstract!Next

(* The destructor drops the calls still filed.                             *)
LEMMA DestroyMaps ==
  ASSUME IInv, NEW ch \in Channels, Destroy(ch)
  PROVE  [Abstract!Next]_Abstract!vars
<1> DEFINE gone == {c \in Calls : \E i \in Ids : outstandings[ch][i] = c}
<1>1. UNCHANGED <<runs, stage, answer, overlapped, wrapped>>
  BY DEF Destroy
<1>2. frees' = [c \in Calls |-> IF c \in gone THEN frees[c] + 1 ELSE frees[c]]
  BY DEF Destroy
<1>3. ASSUME NEW c \in gone
      PROVE  runs[c] = 0 /\ frees[c] = 0 /\ stage[c] \in {"send", "sent"}
  BY DEF IInv, EntriesOK
<1>4. ASSUME NEW c \in gone PROVE Phase(c) = "open" /\ Phase(c)' = "dropped"
  BY <1>1, <1>2, <1>3 DEF Phase
<1>5. ASSUME NEW c \in Calls \ gone PROVE Phase(c)' = Phase(c)
  BY <1>1, <1>2 DEF Phase
<1>6. Abstract!Drop(gone)
  BY <1>1, <1>4, <1>5 DEF Abstract!Drop
<1> QED
  BY <1>6 DEF Abstract!Next

(* Every step is one of RemoteCall, or invisible to the user.              *)
LEMMA StepMaps ==
  ASSUME IInv, IInv', RunningOK, [Next]_vars
  PROVE  [Abstract!Next]_Abstract!vars
<1>1. ASSUME NEW c \in Calls, StartCall(c) PROVE [Abstract!Next]_Abstract!vars
  <2>1. runs[c] = 0 /\ frees[c] = 0
    BY <1>1 DEF StartCall, Advance, IInv, CountsOK
  <2>2. /\ UNCHANGED <<runs, frees, answer, overlapped, wrapped>>
        /\ stage[c] = "new" /\ stage' = [stage EXCEPT ![c] = "load"]
    BY <1>1 DEF StartCall, Advance
  <2>3. Phase(c) = "new" /\ Phase(c)' = "open"
    BY <2>1, <2>2 DEF Phase, IInv, TypeOK
  <2>4. ASSUME NEW d \in Calls, d # c PROVE Phase(d)' = Phase(d)
    BY <2>2, <2>4 DEF Phase, IInv, TypeOK
  <2>5. Abstract!Call(c)
    BY <2>2, <2>3, <2>4 DEF Abstract!Call
  <2> QED
    BY <2>5 DEF Abstract!Next
<1>2. ASSUME NEW c \in Calls, NEW kind \in Kinds, Reply(c, kind) PROVE UNCHANGED Abstract!vars
  BY <1>2, Invisible DEF Reply
<1>3. ASSUME NEW lost \in SUBSET Calls, Lose(lost) PROVE UNCHANGED Abstract!vars
  BY <1>3, Invisible DEF Lose
<1>4. ASSUME NEW ch \in Channels, Receive(ch) \/ RxLock(ch) \/ RxFind(ch)
      PROVE  UNCHANGED Abstract!vars
  BY <1>4, Invisible DEF Receive, RxLock, RxFind, TakeEntry
<1>5. ASSUME NEW ch \in Channels, RxReturn(ch) PROVE UNCHANGED Abstract!vars
  <2>1. rxout[ch] \in Calls /\ runs[rxout[ch]] > 0
    BY <1>5 DEF RxReturn, RunningOK, IInv, HandlerOK
  <2>2. /\ UNCHANGED <<runs, stage, answer, overlapped, wrapped>>
        /\ \A d \in Calls : d # rxout[ch] => frees'[d] = frees[d]
    BY <1>5 DEF RxReturn, IInv, TypeOK
  <2>3. ASSUME NEW d \in Calls PROVE Phase(d)' = Phase(d)
    BY <2>1, <2>2 DEF Phase
  <2> QED
    BY <2>2, <2>3 DEF Abstract!vars
<1>6. CASE UNCHANGED vars
  BY <1>6, Invisible DEF vars
<1> QED
  BY <1>1, <1>2, <1>3, <1>4, <1>5, <1>6, CallStepMaps, RxRunMaps, DestroyMaps
  DEF Next, RxStep

(* The channels of a process implement RemoteCall: a call is completed or  *)
(* dropped at most once, with its own answer or none unless two increments *)
(* of _id overlapped or it wrapped, whatever is lost or reordered.         *)
THEOREM ImplementsRemoteCall == Spec => ImplementsCalls
<1>1. Init => Abstract!Init
  BY DEF Init, Abstract!Init, Phase
<1>2. Init => RunningOK
  BY DEF Init, RunningOK
<1> QED
  BY <1>1, <1>2, Invariance, RunningStep, StepMaps, PTL DEF Spec, ImplementsCalls, Abstract!Spec
=============================================================================
