-------------------------- MODULE TcpClientProofs --------------------------
(* Machine-checked proofs about TcpClient, for any number of starts and    *)
(* any user.                                                               *)
EXTENDS TcpClient, TLAPS

USE ClientAssumption

TypeInv ==
  /\ owner \in {"new", "loop", "returned", "destroyed"}
  /\ made \in 0 .. MaxStarts
  /\ bev \in {0, made} /\ buf \in 0 .. made
  /\ frees \in [Bevs -> Nat]
  /\ link \in {"down", "connecting", "up"}
  /\ cb \in {"none", "connect", "read", "write", "event"}
  /\ exiting \in BOOLEAN /\ careful \in BOOLEAN
  /\ broken \in {"no", "null", "double"}

(* Bufferevents still to be made are unfreed; the ones made before the     *)
(* last are freed; the last is freed exactly when the link is down.        *)
FreesOK ==
  /\ \A b \in Bevs : b > made => frees[b] = 0
  /\ \A b \in Bevs : b < made => frees[b] > 0
  /\ made > 0 => (frees[made] = 0 <=> link # "down")

(* A link is served only inside startRun; a callback runs only there, with *)
(* its link up until quit is called.                                       *)
LoopOK ==
  /\ link # "down" => owner = "loop" /\ ~exiting
  /\ owner = "loop" => made > 0 /\ bev = made
  /\ cb # "none" => owner = "loop" /\ (link # "down" \/ exiting)
  /\ owner = "new" => made = 0

(* A user who was not careful has met undefined behaviour, or will when    *)
(* event_cb returns to bufferEventCb; a careful one has not, except in the *)
(* destructor.                                                             *)
QuitOK ==
  /\ careful /\ owner # "destroyed" => broken = "no"
  /\ careful /\ cb = "event" => link # "down"
  /\ ~careful => broken # "no" \/ (cb = "event" /\ link = "down")

IInv == TypeInv /\ FreesOK /\ LoopOK /\ QuitOK

(* bufferevent_free of conn_.bev takes the link down, and is undefined if  *)
(* the pointer is null or the link was down already.                       *)
LEMMA FreeLast ==
  ASSUME IInv, FreeBev(bev), UNCHANGED made
  PROVE  /\ link' = "down" /\ frees' \in [Bevs -> Nat] /\ FreesOK'
         /\ broken' \in {"no", "null", "double"}
         /\ link # "down" => broken' = broken
         /\ link = "down" => broken' # "no"
<1>1. /\ bev \in {0, made} /\ made \in 0 .. MaxStarts /\ frees \in [Bevs -> Nat]
      /\ broken \in {"no", "null", "double"}
      /\ link # "down" => made > 0 /\ bev = made
  BY DEF IInv, TypeInv, LoopOK
<1>2. made > 0 => made \in Bevs
  BY <1>1 DEF Bevs
<1>3. made > 0 => (frees[made] = 0 <=> link # "down")
  BY DEF IInv, FreesOK
<1>4. CASE bev = 0
  <2>1. frees' = frees /\ link = "down" /\ link' = "down" /\ broken' = "null"
    BY <1>1, <1>4 DEF FreeBev
  <2> QED
    BY <2>1, <1>1 DEF IInv, FreesOK
<1>5. CASE bev # 0
  <2>1. /\ bev = made /\ made \in Bevs /\ made > 0
        /\ frees' = [frees EXCEPT ![made] = @ + 1] /\ link' = "down"
        /\ broken' = IF frees[made] > 0 THEN "double" ELSE broken
    <3>1. bev = made /\ made > 0
      BY <1>1, <1>5
    <3> QED
      BY <3>1, <1>2, <1>5 DEF FreeBev
  <2>2. /\ frees' \in [Bevs -> Nat] /\ frees'[made] > 0 /\ frees[made] \in Nat
        /\ \A b \in Bevs : b # made => frees'[b] = frees[b]
    BY <2>1, <1>1
  <2>3. FreesOK'
    BY <2>1, <2>2, <1>1 DEF IInv, FreesOK, Bevs
  <2>4. link # "down" <=> ~(frees[made] > 0)
    BY <2>1, <2>2, <1>3
  <2> QED
    BY <2>1, <2>2, <2>3, <2>4, <1>1
<1> QED
  BY <1>4, <1>5

(* When no startRun is under way every bufferevent made is freed.          *)
LEMMA AllFreed ==
  ASSUME IInv, owner # "loop", NEW b \in Bevs, b <= made
  PROVE  frees[b] > 0
  BY DEF IInv, TypeInv, FreesOK, LoopOK, Bevs

(* Every action keeps the invariant.                                       *)
LEMMA Step == ASSUME IInv, [Next]_vars PROVE IInv'
<1> USE DEF IInv, TypeInv, LoopOK, QuitOK
<1>1. CASE StartRun
  <2>1. \A b \in Bevs : b <= made => frees[b] > 0
    BY <1>1, AllFreed DEF StartRun
  <2>2. FreesOK'
    BY <1>1, <2>1 DEF StartRun, FreesOK, Bevs
  <2>3. made' \in 0 .. MaxStarts /\ made' > 0
    BY <1>1 DEF StartRun, ClientAssumption
  <2>4. exiting' \in BOOLEAN /\ ~exiting'
    BY <1>1 DEF StartRun
  <2> QED
    BY <1>1, <2>2, <2>3, <2>4 DEF StartRun
<1>2. CASE StartThrows
  BY <1>2 DEF StartThrows, FreesOK
<1>3. CASE StartFails
  <2>1. \A b \in Bevs : b <= made => frees[b] > 0
    BY <1>3, AllFreed DEF StartFails
  <2>2. FreesOK'
    BY <1>3, <2>1 DEF StartFails, FreesOK, Bevs
  <2> QED
    BY <1>3, <2>2 DEF StartFails, Bevs
<1>4. CASE Connected \/ Readable \/ Written \/ HungUp
  BY <1>4 DEF Connected, Readable, Written, HungUp, Enter, FreesOK
<1>5. CASE CallbackReturns
  <2>1. CASE cb = "event"
    <3>1. FreeBev(bev) /\ UNCHANGED made
      BY <1>5, <2>1 DEF CallbackReturns
    <3>2. /\ link' = "down" /\ frees' \in [Bevs -> Nat] /\ FreesOK'
          /\ broken' \in {"no", "null", "double"}
          /\ link # "down" => broken' = broken
          /\ link = "down" => broken' # "no"
      BY <3>1, FreeLast
    <3> QED
      BY <1>5, <2>1, <3>2 DEF CallbackReturns
  <2>2. CASE cb # "event"
    BY <1>5, <2>2 DEF CallbackReturns, FreesOK
  <2> QED
    BY <2>1, <2>2
<1>6. CASE Quit
  <2>1. FreeBev(bev) /\ UNCHANGED <<owner, made, bev, buf, cb>> /\ exiting'
    BY <1>6 DEF Quit
  <2>2. /\ link' = "down" /\ frees' \in [Bevs -> Nat] /\ FreesOK'
        /\ broken' \in {"no", "null", "double"}
        /\ link # "down" => broken' = broken
        /\ link = "down" => broken' # "no"
    BY <2>1, FreeLast
  <2>3. exiting' \in BOOLEAN /\ careful' \in BOOLEAN
    BY <1>6 DEF Quit
  <2>4. TypeInv' /\ LoopOK'
    BY <2>1, <2>2, <2>3
  <2>5. CASE careful /\ cb \notin {"none", "event"} /\ ~exiting
    BY <1>6, <2>1, <2>2, <2>5 DEF Quit
  <2>6. CASE ~(careful /\ cb \notin {"none", "event"} /\ ~exiting)
    <3>1. ~careful'
      BY <1>6, <2>6 DEF Quit
    <3>2. broken' # "no" \/ cb = "event"
      BY <1>6, <2>1, <2>2, <2>6 DEF Quit
    <3> QED
      BY <2>1, <2>2, <2>4, <3>1, <3>2
  <2> QED
    BY <2>5, <2>6
<1>7. CASE LoopReturns
  BY <1>7 DEF LoopReturns, FreesOK
<1>8. CASE Destroy
  <2>1. FreesOK' /\ TypeInv'
    BY <1>8 DEF Destroy, FreeBev, FreesOK, Bevs
  <2> QED
    BY <1>8, <2>1 DEF Destroy, FreeBev
<1>9. CASE UNCHANGED vars
  BY <1>9 DEF vars, FreesOK
<1> QED
  BY <1>1, <1>2, <1>3, <1>4, <1>5, <1>6, <1>7, <1>8, <1>9 DEF Next

(* The invariant holds in every reachable state.                           *)
THEOREM Invariance == Spec => []IInv
<1>1. Init => IInv
  <2>1. Init => exiting \in BOOLEAN /\ careful \in BOOLEAN /\ QuitOK
    BY DEF Init, QuitOK
  <2>2. Init => made \in 0 .. MaxStarts /\ buf \in 0 .. made /\ frees \in [Bevs -> Nat]
    BY DEF Init, ClientAssumption
  <2>3. Init => FreesOK
    BY DEF Init, FreesOK, Bevs
  <2> QED
    BY <2>1, <2>2, <2>3 DEF Init, IInv, TypeInv, LoopOK
<1>2. IInv /\ [Next]_vars => IInv'
  BY Step
<1> QED
  BY <1>1, <1>2, PTL DEF Spec

(* However often startRun is called and however its connections end, no    *)
(* bufferevent is freed twice before the destructor runs, and none is      *)
(* served once it is freed, if the user quits once per startRun and in no  *)
(* other place than connect_cb, read_cb and write_cb; any other quit is a  *)
(* double free.                                                            *)
THEOREM FreedOnce == Spec => []FreedOnceWhileRunning
<1>1. IInv => (link # "down" => bev = made /\ frees[bev] = 0)
  BY DEF IInv, FreesOK, LoopOK
<1>2. IInv => FreedOnceWhileRunning
  BY <1>1 DEF IInv, QuitOK, FreedOnceWhileRunning
<1> QED
  BY <1>2, Invariance, PTL

(* When startRun has returned, every bufferevent it ever made is freed.    *)
THEOREM NothingLeft == Spec => []NoneLeaked
<1>1. IInv => NoneLeaked
  BY AllFreed DEF IInv, TypeInv, NoneLeaked, Bevs
<1> QED
  BY <1>1, Invariance, PTL
=============================================================================
