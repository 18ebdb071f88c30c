-------------------------- MODULE CodecLiteProofs --------------------------
(* Machine-checked proofs that the codec delivers a prefix of what was     *)
(* sent and refuses only what it should or what a lost header left over,   *)
(* for any message sizes, any limit and any way TCP cuts the stream.       *)
EXTENDS CodecLite, TLAPS

USE SizeAssumption

-----------------------------------------------------------------------------
(* The inductive invariant.                                                *)

(* The frames lie one after the other in the stream, without gaps.         *)
Layout ==
  /\ \A i \in 1 .. Len(sent) :
       /\ sent[i].len >= MinMessageLen
       /\ sent[i].start + HeaderLen + sent[i].len <= written
       /\ sent[i].start + HeaderLen + sent[i].len =
            IF i < Len(sent) THEN sent[i + 1].start ELSE written
  /\ \A i, j \in 1 .. Len(sent) :
       i < j => sent[i].start + HeaderLen + sent[i].len <= sent[j].start

(* onMessage stands at the start of the first frame not delivered or, once *)
(* that frame's header is lost, right behind the header.                   *)
Position ==
  /\ status = "open" /\ ~split =>
       rd = IF Len(delivered) < Len(sent) THEN sent[Len(delivered) + 1].start ELSE written
  /\ status = "open" /\ split =>
       Len(delivered) < Len(sent) /\ rd = sent[Len(delivered) + 1].start + HeaderLen
  /\ status # "open" => pc = "idle"

IInv == TypeOK /\ Layout /\ InOrder /\ Position /\ RefusalExplained

-----------------------------------------------------------------------------
(* What onMessage takes for a length is, while no header is lost, the      *)
(* length of the first frame not delivered; afterwards it is that frame's  *)
(* tag, which no length check accepts.                                     *)
LEMMA ReadsNext ==
  ASSUME IInv, pc = "loop", NEW i \in DOMAIN sent,
         NEW len \in {sent[i].len, Tag(sent[i])}, ReadsLen(i, len)
  PROVE  /\ Len(delivered) < Len(sent)
         /\ i = Len(delivered) + 1
         /\ split => len = Tag(sent[i]) /\ ~ValidLen(len)
         /\ ~split => len = sent[i].len /\ rd = sent[i].start
<1> DEFINE n == Len(delivered) + 1
<1>1. /\ i \in 1 .. Len(sent) /\ sent[i] \in Frames
      /\ Len(sent) \in Nat /\ Len(delivered) \in Nat
      /\ Len(delivered) <= Len(sent)
      /\ \A j \in 1 .. Len(sent) : sent[j] \in Frames
  BY DEF IInv, TypeOK, InOrder
<1>2. status = "open"
  BY DEF IInv, Position
<1>3. \A j \in 1 .. Len(sent) : sent[j].start \in Nat /\ sent[j].len \in Nat
  BY <1>1 DEF Frames
<1>4. rd = sent[i].start \/ rd = sent[i].start + HeaderLen
  BY DEF ReadsLen
<1>5. Tag(sent[i]) > MaxMessageLen /\ Tag(sent[i]) \in Int
  BY DEF Tag
<1>6. /\ \A j \in 1 .. Len(sent) :
           /\ sent[j].len >= 8 /\ sent[j].start \in Nat /\ sent[j].len \in Nat
           /\ sent[j].start + HeaderLen + sent[j].len <= written
      /\ \A j, k \in 1 .. Len(sent) :
           j < k => sent[j].start + HeaderLen + sent[j].len <= sent[k].start
  BY <1>3 DEF IInv, Layout, MinMessageLen, TagLen, ChecksumLen
<1>7. n \in 1 .. Len(sent) /\ (split => rd = sent[n].start + HeaderLen)
                           /\ (~split => rd = sent[n].start)
  <2>1. CASE split
    BY <2>1, <1>1, <1>2 DEF IInv, Position
  <2>2. CASE ~split
    <3>1. sent[i].start + HeaderLen < written
      BY <1>1, <1>6 DEF IInv, TypeOK, HeaderLen
    <3>2. rd # written
      BY <3>1, <1>3, <1>4, <1>1 DEF IInv, TypeOK, HeaderLen
    <3> QED
      BY <3>2, <2>2, <1>1, <1>2 DEF IInv, Position
  <2> QED
    BY <2>1, <2>2
<1>8. i = n
  <2>1. n \in 1 .. Len(sent)
    BY <1>7
  <2>2. rd = sent[n].start \/ rd = sent[n].start + HeaderLen
    BY <1>7
  <2> HIDE DEF n
  <2>3. CASE i < n
    <3>1. sent[i].start + HeaderLen + sent[i].len <= sent[n].start
      BY <2>3, <1>1, <1>6, <2>1
    <3>2. sent[i].start \in Nat /\ sent[n].start \in Nat /\ sent[i].len \in Nat /\ sent[i].len >= 8
      BY <1>1, <1>6, <2>1
    <3> QED
      BY <3>1, <3>2, <1>4, <2>2 DEF HeaderLen
  <2>4. CASE n < i
    <3>1. sent[n].start + HeaderLen + sent[n].len <= sent[i].start
      BY <2>4, <1>1, <1>6, <2>1
    <3>2. sent[i].start \in Nat /\ sent[n].start \in Nat /\ sent[n].len \in Nat /\ sent[n].len >= 8
      BY <1>1, <1>6, <2>1
    <3> QED
      BY <3>1, <3>2, <1>4, <2>2 DEF HeaderLen
  <2> QED
    BY <2>3, <2>4, <1>1, <1>7
<1>9. split => len = Tag(sent[i])
  BY <1>7, <1>8, <1>3, <1>1 DEF ReadsLen, HeaderLen
<1>10. ~split => len = sent[i].len /\ rd = sent[i].start
  BY <1>7, <1>8, <1>3, <1>1 DEF ReadsLen, HeaderLen
<1> QED
  BY <1>1, <1>5, <1>7, <1>8, <1>9, <1>10 DEF ValidLen

(* The frame that Deliver and ParseFail work on.                           *)
LEMMA WholeNext ==
  ASSUME IInv, NEW i \in DOMAIN sent, Whole(i)
  PROVE  /\ ~split /\ status = "open"
         /\ Len(delivered) < Len(sent) /\ i = Len(delivered) + 1
         /\ rd = sent[i].start
         /\ rd + HeaderLen + sent[i].len <= arrived
         /\ sent[i].len <= MaxMessageLen
<1>1. ReadsLen(i, sent[i].len) /\ ValidLen(sent[i].len) /\ pc = "loop"
  BY DEF Whole
<1>2. /\ Len(delivered) < Len(sent) /\ i = Len(delivered) + 1
      /\ split => ~ValidLen(sent[i].len)
      /\ ~split => rd = sent[i].start
  BY <1>1, ReadsNext
<1>3. sent[i].len \in Nat
  <2>1. sent[i] \in Frames
    BY DEF IInv, TypeOK
  <2> QED
    BY <2>1 DEF Frames
<1>4. arrived - rd - HeaderLen >= sent[i].len
  BY DEF Whole, Complete, Buffered
<1>5. arrived \in Int /\ rd \in Int
  BY DEF IInv, TypeOK
<1>6. status = "open"
  BY <1>1 DEF IInv, Position
<1> QED
  BY <1>1, <1>2, <1>3, <1>4, <1>5, <1>6 DEF ValidLen, HeaderLen

-----------------------------------------------------------------------------
(* send keeps the invariant: the new frame starts where the stream ended.  *)
LEMMA SendStep ==
  ASSUME IInv, NEW size \in Sizes, NEW fault \in Faults, Send(size, fault)
  PROVE  IInv'
<1> DEFINE len == TagLen + size + ChecksumLen
           f == [start |-> written, len |-> len, fault |-> fault]
<1>1. /\ sent' = Append(sent, f) /\ written' = written + HeaderLen + len
      /\ UNCHANGED <<arrived, rd, pc, status, delivered, split>>
  BY DEF Send
<1>2. size \in Nat /\ len \in Nat /\ len >= MinMessageLen /\ written \in Nat
  BY DEF TagLen, ChecksumLen, MinMessageLen, IInv, TypeOK
<1>3. f \in Frames /\ f.start = written /\ f.len = len
  BY <1>2 DEF Frames
<1>4. sent \in Seq(Frames) /\ delivered \in Seq(Frames) /\ Len(delivered) <= Len(sent)
  BY DEF IInv, TypeOK, InOrder
<1> HIDE DEF f, len
<1>5. /\ Len(sent') = Len(sent) + 1 /\ Len(sent) \in Nat /\ Len(delivered) \in Nat
      /\ sent'[Len(sent) + 1] = f
      /\ \A i \in 1 .. Len(sent) : sent'[i] = sent[i]
      /\ \A i \in 1 .. Len(sent) : sent[i] \in Frames
  BY <1>1, <1>3, <1>4
<1>6. TypeOK'
  BY <1>1, <1>2, <1>3, <1>4 DEF IInv, TypeOK, HeaderLen
<1>7. Layout'
  <2>1. \A i \in 1 .. Len(sent) : sent[i].start \in Nat /\ sent[i].len \in Nat
    BY <1>5 DEF Frames
  <2>2. \A i \in 1 .. Len(sent) :
          /\ sent[i].len >= MinMessageLen
          /\ sent[i].start + HeaderLen + sent[i].len <= written
          /\ sent[i].start + HeaderLen + sent[i].len =
               IF i < Len(sent) THEN sent[i + 1].start ELSE written
    BY DEF IInv, Layout
  <2>3. \A i, j \in 1 .. Len(sent) :
          i < j => sent[i].start + HeaderLen + sent[i].len <= sent[j].start
    BY DEF IInv, Layout
  <2>4. ASSUME NEW i \in 1 .. Len(sent')
        PROVE  /\ sent'[i].len >= MinMessageLen
               /\ sent'[i].start + HeaderLen + sent'[i].len <= written'
               /\ sent'[i].start + HeaderLen + sent'[i].len =
                    IF i < Len(sent') THEN sent'[i + 1].start ELSE written'
    <3>1. CASE i = Len(sent) + 1
      BY <3>1, <1>1, <1>2, <1>3, <1>5 DEF HeaderLen
    <3>2. CASE i \in 1 .. Len(sent)
      <4>1. sent'[i + 1].start = IF i < Len(sent) THEN sent[i + 1].start ELSE written
        BY <3>2, <1>3, <1>5
      <4>2. /\ sent'[i] = sent[i] /\ i < Len(sent')
            /\ sent[i].start \in Nat /\ sent[i].len \in Nat
        BY <3>2, <1>5, <2>1
      <4>3. /\ sent[i].len >= MinMessageLen
            /\ sent[i].start + HeaderLen + sent[i].len <= written
            /\ sent[i].start + HeaderLen + sent[i].len =
                 IF i < Len(sent) THEN sent[i + 1].start ELSE written
        BY <3>2, <2>2
      <4>4. sent[i].start + HeaderLen + sent[i].len \in Nat
        <5>1. \A x, y \in Nat : x + HeaderLen + y \in Nat
          BY DEF HeaderLen
        <5> QED
          BY <4>2, <5>1, Zenon
      <4>5. written' \in Nat /\ written <= written'
        BY <1>1, <1>2 DEF HeaderLen
      <4>6. sent[i].start + HeaderLen + sent[i].len <= written'
        BY <4>3, <4>4, <4>5, <1>2
      <4> QED
        BY <4>1, <4>2, <4>3, <4>6
    <3> QED
      BY <3>1, <3>2, <1>5
  <2>5. ASSUME NEW i \in 1 .. Len(sent'), NEW j \in 1 .. Len(sent'), i < j
        PROVE  sent'[i].start + HeaderLen + sent'[i].len <= sent'[j].start
    <3>1. i \in 1 .. Len(sent) /\ sent'[i] = sent[i]
      BY <2>5, <1>5
    <3>2. CASE j = Len(sent) + 1
      BY <3>1, <3>2, <2>2, <1>3, <1>5
    <3>3. CASE j \in 1 .. Len(sent)
      BY <2>5, <3>1, <3>3, <2>3, <1>5
    <3> QED
      BY <3>2, <3>3, <1>5
  <2> QED
    BY <2>4, <2>5 DEF Layout
<1>8. InOrder'
  BY <1>1, <1>4, <1>5 DEF IInv, InOrder
<1>9. Position'
  BY <1>1, <1>3, <1>4, <1>5 DEF IInv, Position
<1>10. RefusalExplained'
  BY <1>1, <1>4, <1>5 DEF IInv, RefusalExplained, Good, ParseOK
<1> QED
  BY <1>6, <1>7, <1>8, <1>9, <1>10 DEF IInv

(* Layout speaks of sent and written alone.                                *)
LEMMA LayoutUnchanged ==
  ASSUME IInv, UNCHANGED <<sent, written>> PROVE Layout'
  BY DEF IInv, Layout

(* The steps of the receiving side keep the invariant.                     *)
LEMMA ReceiveStep ==
  ASSUME IInv, (\E n \in 1 .. written - arrived : Arrive(n)) \/ OnMessage
  PROVE  IInv'
<1>1. ASSUME NEW n \in 1 .. written - arrived, Arrive(n) PROVE IInv'
  <2>1. TypeOK'
    BY <1>1 DEF Arrive, IInv, TypeOK
  <2>2. Layout'
    BY <1>1, LayoutUnchanged DEF Arrive
  <2>3. InOrder' /\ Position' /\ RefusalExplained'
    BY <1>1 DEF Arrive, IInv, InOrder, Position, RefusalExplained, Good, ParseOK
  <2> QED
    BY <2>1, <2>2, <2>3 DEF IInv
<1>2. CASE LoopExit
  <2>1. TypeOK'
    BY <1>2 DEF LoopExit, IInv, TypeOK
  <2>2. Layout'
    BY <1>2, LayoutUnchanged DEF LoopExit
  <2>3. InOrder' /\ Position' /\ RefusalExplained'
    BY <1>2 DEF LoopExit, IInv, InOrder, Position, RefusalExplained, Good, ParseOK
  <2> QED
    BY <2>1, <2>2, <2>3 DEF IInv
<1>3. ASSUME HasHeader, Refuse,
             split \/ (Len(delivered) < Len(sent) /\ ~Good(sent[Len(delivered) + 1]))
      PROVE  IInv'
  <2>1. TypeOK'
    BY <1>3 DEF Refuse, HasHeader, Buffered, HeaderLen, MinMessageLen, TagLen,
                ChecksumLen, IInv, TypeOK
  <2>2. Layout'
    BY <1>3, LayoutUnchanged DEF Refuse
  <2>3. InOrder' /\ Position'
    BY <1>3 DEF Refuse, IInv, InOrder, Position
  <2>4. RefusalExplained'
    BY <1>3 DEF Refuse, RefusalExplained, Good, ParseOK
  <2> QED
    BY <2>1, <2>2, <2>3, <2>4 DEF IInv
<1>4. CASE BadLength
  <2>0. PICK i \in DOMAIN sent : \E len \in {sent[i].len, Tag(sent[i])} :
          ReadsLen(i, len) /\ ~ValidLen(len)
    BY <1>4 DEF BadLength
  <2>1. PICK len \in {sent[i].len, Tag(sent[i])} : ReadsLen(i, len) /\ ~ValidLen(len)
    BY <2>0
  <2>2. /\ Len(delivered) < Len(sent) /\ i = Len(delivered) + 1
        /\ ~split => len = sent[i].len
    BY <1>4, <2>1, ReadsNext DEF BadLength
  <2>3. sent[i].len >= MinMessageLen
    BY DEF IInv, TypeOK, Layout
  <2>4. split \/ ~Good(sent[i])
    BY <2>1, <2>2, <2>3 DEF ValidLen, Good
  <2> QED
    BY <1>3, <1>4, <2>2, <2>4 DEF BadLength
<1>5. CASE Incomplete
  <2>0. PICK i \in DOMAIN sent : \E len \in {sent[i].len, Tag(sent[i])} :
          ReadsLen(i, len) /\ ValidLen(len)
    BY <1>5 DEF Incomplete
  <2>1. PICK len \in {sent[i].len, Tag(sent[i])} : ReadsLen(i, len) /\ ValidLen(len)
    BY <2>0
  <2>2. /\ Len(delivered) < Len(sent) /\ i = Len(delivered) + 1
        /\ ~split /\ rd = sent[i].start
    BY <1>5, <2>1, ReadsNext DEF Incomplete
  <2>3. TypeOK'
    BY <1>5 DEF Incomplete, HasHeader, Buffered, HeaderLen, MinMessageLen, TagLen,
                ChecksumLen, IInv, TypeOK
  <2>4. Layout'
    BY <1>5, LayoutUnchanged DEF Incomplete
  <2>5. InOrder' /\ Position'
    BY <1>5, <2>2 DEF Incomplete, IInv, InOrder, Position
  <2>6. RefusalExplained'
    BY <1>5 DEF Incomplete, RefusalExplained
  <2> QED
    BY <2>3, <2>4, <2>5, <2>6 DEF IInv
<1>6. CASE Deliver
  <2>1. PICK i \in DOMAIN sent :
          /\ Whole(i) /\ ParseOK(sent[i])
          /\ delivered' = Append(delivered, sent[i])
          /\ rd' = rd + HeaderLen + sent[i].len
    BY <1>6 DEF Deliver
  <2>2. /\ ~split /\ status = "open" /\ rd = sent[i].start
        /\ Len(delivered) < Len(sent) /\ i = Len(delivered) + 1
        /\ rd + HeaderLen + sent[i].len <= arrived
    BY <2>1, WholeNext
  <2>3. /\ sent \in Seq(Frames) /\ delivered \in Seq(Frames)
        /\ sent[i] \in Frames /\ sent[i].len \in Nat
        /\ Len(delivered) \in Nat /\ Len(sent) \in Nat /\ i \in 1 .. Len(sent)
    <3>1. sent \in Seq(Frames) /\ delivered \in Seq(Frames)
      BY DEF IInv, TypeOK
    <3>2. sent[i] \in Frames
      BY <3>1
    <3> QED
      BY <3>1, <3>2 DEF Frames
  <2>4. /\ delivered' \in Seq(Frames) /\ Len(delivered') = i
        /\ delivered'[i] = sent[i]
        /\ \A j \in 1 .. Len(delivered) : delivered'[j] = delivered[j]
    BY <2>1, <2>2, <2>3
  <2>5. UNCHANGED <<sent, written, arrived, pc, status, split>>
    BY <1>6 DEF Deliver
  <2>6. TypeOK'
    BY <2>1, <2>2, <2>3, <2>4, <2>5 DEF IInv, TypeOK, HeaderLen
  <2>7. Layout'
    BY <2>5, LayoutUnchanged
  <2>8. InOrder'
    <3>1. \A j \in 1 .. Len(delivered) : delivered[j] = sent[j]
      BY <2>3 DEF IInv, InOrder
    <3>2. \A j \in 1 .. i : delivered'[j] = sent[j]
      BY <3>1, <2>2, <2>3, <2>4
    <3>3. Len(delivered') <= Len(sent')
      BY <2>2, <2>3, <2>4, <2>5
    <3>4. DOMAIN delivered' = 1 .. i
      BY <2>4
    <3> QED
      BY <3>2, <3>3, <3>4, <2>5 DEF InOrder
  <2>9. Position'
    <3>1. rd' = IF i < Len(sent) THEN sent[i + 1].start ELSE written
      BY <2>1, <2>2, <2>3 DEF IInv, Layout
    <3> QED
      BY <3>1, <2>2, <2>4, <2>5 DEF Position
  <2>10. RefusalExplained'
    BY <2>2, <2>5 DEF RefusalExplained
  <2> QED
    BY <2>6, <2>7, <2>8, <2>9, <2>10 DEF IInv
<1>7. CASE ParseFail
  <2>1. PICK i \in DOMAIN sent : Whole(i) /\ ~ParseOK(sent[i])
    BY <1>7 DEF ParseFail
  <2>2. Len(delivered) < Len(sent) /\ i = Len(delivered) + 1
    BY <2>1, WholeNext
  <2> QED
    BY <1>3, <1>7, <2>1, <2>2 DEF ParseFail, Whole, Good
<1> QED
  BY <1>1, <1>2, <1>4, <1>5, <1>6, <1>7 DEF OnMessage

-----------------------------------------------------------------------------
(* The theorems.                                                           *)

(* The invariant is inductive, so it holds in every reachable state.       *)
THEOREM Invariance == Spec => []IInv
<1>1. Init => IInv
  <2> SUFFICES ASSUME Init PROVE IInv
    OBVIOUS
  <2>1. sent = <<>> /\ delivered = <<>> /\ Len(sent) = 0 /\ Len(delivered) = 0
    BY DEF Init
  <2>2. TypeOK
    <3>1. sent \in Seq(Frames) /\ delivered \in Seq(Frames)
      BY <2>1
    <3>2. /\ written \in Nat /\ arrived \in 0 .. written /\ rd \in 0 .. arrived
          /\ pc \in {"idle", "loop"} /\ status \in {"open", "closed", "crashed"}
      BY DEF Init
    <3>3. split \in BOOLEAN
      BY DEF Init
    <3> QED
      BY <3>1, <3>2, <3>3 DEF TypeOK
  <2>3. Layout
    BY <2>1 DEF Layout
  <2>4. InOrder
    BY <2>1 DEF InOrder
  <2>5. Position /\ RefusalExplained
    BY <2>1 DEF Init, Position, RefusalExplained
  <2> QED
    BY <2>2, <2>3, <2>4, <2>5 DEF IInv
<1>2. IInv /\ Next => IInv'
  BY SendStep, ReceiveStep DEF Next
<1>3. IInv /\ UNCHANGED vars => IInv'
  BY DEF vars, IInv, TypeOK, Layout, InOrder, Position, RefusalExplained, Good, ParseOK
<1> QED
  BY <1>1, <1>2, <1>3, PTL DEF Spec

(* No byte is read before it arrived.                                      *)
THEOREM TypeCorrect == Spec => []TypeOK
<1>1. IInv => TypeOK
  BY DEF IInv
<1> QED
  BY Invariance, <1>1, PTL

(* What reaches messageCallback is a prefix of what was sent.              *)
THEOREM DeliveredInOrder == Spec => []InOrder
<1>1. IInv => InOrder
  BY DEF IInv
<1> QED
  BY Invariance, <1>1, PTL

(* A refused connection has a bad frame or a lost header to blame.         *)
THEOREM RefusalHasCause == Spec => []RefusalExplained
<1>1. IInv => RefusalExplained
  BY DEF IInv
<1> QED
  BY Invariance, <1>1, PTL

(* The codec implements MessageStream, the channel of messages that        *)
(* RpcChannel relies on.                                                   *)
THEOREM Refinement == Spec => ImplementsStream
<1>1. Init => Stream!Init
  BY DEF Init, Stream!Init
<1>2. IInv /\ [Next]_vars => [Stream!Next]_Stream!vars
  <2> SUFFICES ASSUME IInv, [Next]_vars PROVE [Stream!Next]_Stream!vars
    OBVIOUS
  <2> USE DEF Stream!Next, Stream!vars
  <2>1. ASSUME NEW size \in Sizes, NEW fault \in Faults, Send(size, fault)
        PROVE  Stream!Send
    <3>1. sent' \in Seq(Frames)
      BY <2>1, SendStep DEF IInv, TypeOK
    <3>2. sent \in Seq(Frames)
      BY DEF IInv, TypeOK
    <3> QED
      BY <2>1, <3>1, <3>2 DEF Send, Stream!Send
  <2>2. ASSUME NEW n \in 1 .. written - arrived, Arrive(n) PROVE UNCHANGED Stream!vars
    BY <2>2 DEF Arrive
  <2>3. CASE LoopExit \/ Incomplete
    BY <2>3 DEF LoopExit, Incomplete
  <2>4. CASE BadLength \/ ParseFail
    <3>1. status = "open"
      BY <2>4 DEF BadLength, ParseFail, Whole, IInv, Position
    <3> QED
      BY <2>4, <3>1 DEF BadLength, ParseFail, Refuse, Stream!Stop
  <2>5. CASE Deliver
    <3>1. PICK i \in DOMAIN sent : Whole(i) /\ delivered' = Append(delivered, sent[i])
      BY <2>5 DEF Deliver
    <3>2. status = "open" /\ Len(delivered) < Len(sent) /\ i = Len(delivered) + 1
      BY <3>1, WholeNext
    <3> QED
      BY <2>5, <3>1, <3>2 DEF Deliver, Stream!Deliver
  <2>6. CASE UNCHANGED vars
    BY <2>6 DEF vars
  <2> QED
    BY <2>1, <2>2, <2>3, <2>4, <2>5, <2>6 DEF Next, OnMessage
<1> QED
  BY <1>1, <1>2, Invariance, PTL DEF Spec, ImplementsStream, Stream!Spec
=============================================================================
