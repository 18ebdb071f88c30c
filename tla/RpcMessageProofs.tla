-------------------------- MODULE RpcMessageProofs --------------------------
(* Machine-checked proofs about RpcMessage, for any objects, ids, texts,   *)
(* users and payloads.                                                     *)
EXTENDS RpcMessage, WellFoundedInduction, TLAPS

-----------------------------------------------------------------------------
(* Induction over the rounds of a loop.                                    *)

(* The order of the natural numbers, as a relation.                        *)
Less == {p \in Nat \X Nat : p[1] < p[2]}

(* A set that has 0 and, up to n, the successor of each of its elements.   *)
LEMMA Induction ==
  ASSUME NEW n \in Nat, NEW S, 0 \in S, \A k \in 0 .. n - 1 : k \in S => k + 1 \in S
  PROVE  \A k \in 0 .. n : k \in S
<1> SUFFICES ASSUME NEW j \in 0 .. n, j \notin S PROVE FALSE
  OBVIOUS
<1> DEFINE Bad == {k \in 0 .. n : k \notin S}
<1>1. IsWellFoundedOn(Less, Nat)
  BY NatLessThanWellFounded DEF OpToRel, Less
<1>2. Bad \subseteq Nat /\ Bad # {}
  OBVIOUS
<1>3. PICK x \in Bad : \A y \in Bad : ~(<<y, x>> \in Less)
  <2> HIDE DEF Bad
  <2> QED
    BY <1>1, <1>2, WFMin
<1>4. x # 0 /\ x - 1 \in 0 .. n - 1
  OBVIOUS
<1>5. x - 1 \notin Bad
  <2>1. <<x - 1, x>> \in Less
    BY <1>4 DEF Less
  <2> QED
    BY <1>3, <2>1
<1>6. x - 1 \in S
  BY <1>4, <1>5
<1> QED
  BY <1>4, <1>6

-----------------------------------------------------------------------------
(* What the loops compute.                                                 *)

(* The entries of a payload.                                               *)
Entries == [num : Nat, val : Nat, cut : BOOLEAN]

(* An entry has a number of bytes.                                         *)
LEMMA EntrySizeType == ASSUME NEW e \in Entries PROVE EntrySize(e) \in Nat
  BY DEF EntrySize, Entries, VarintSize

(* g has the bytes of the first entries of w, up to n of them.             *)
IsSum(g, w, n) ==
  /\ g \in [0 .. n -> Nat]
  /\ g[0] = 0
  /\ \A k \in 1 .. n : g[k] = g[k - 1] + EntrySize(w[k])

(* The sum of the bytes of any payload exists.                             *)
LEMMA SumExists ==
  ASSUME NEW w \in Seq(Entries)
  PROVE  \E g : IsSum(g, w, Len(w))
<1> DEFINE S == {n \in 0 .. Len(w) : \E g : IsSum(g, w, n)}
<1>1. 0 \in S
  <2>1. IsSum([k \in 0 .. 0 |-> 0], w, 0)
    BY DEF IsSum
  <2> QED
    BY <2>1
<1>2. ASSUME NEW n \in 0 .. Len(w) - 1, n \in S PROVE n + 1 \in S
  <2>1. PICK g : IsSum(g, w, n)
    BY <1>2
  <2> DEFINE h == [k \in 0 .. n + 1 |-> IF k = n + 1 THEN g[n] + EntrySize(w[n + 1]) ELSE g[k]]
  <2>2. EntrySize(w[n + 1]) \in Nat
    BY EntrySizeType
  <2>3. IsSum(h, w, n + 1)
    BY <2>1, <2>2 DEF IsSum
  <2> QED
    BY <2>3
<1>3. Len(w) \in Nat
  OBVIOUS
<1>4. Len(w) \in S
  <2> HIDE DEF S
  <2>1. \A k \in 0 .. Len(w) : k \in S
    BY <1>1, <1>2, <1>3, Induction
  <2> QED
    BY <1>3, <2>1
<1> QED
  BY <1>4

(* BytesUpTo is that sum.                                                  *)
LEMMA BytesUpToDef ==
  ASSUME NEW w \in Seq(Entries)
  PROVE  IsSum(BytesUpTo(w), w, Len(w))
<1> DEFINE F(g) == [k \in 0 .. Len(w) |-> IF k = 0 THEN 0 ELSE g[k - 1] + EntrySize(w[k])]
<1>1. PICK g : IsSum(g, w, Len(w))
  BY SumExists
<1>2. g = F(g)
  BY <1>1 DEF IsSum
<1>3. BytesUpTo(w) = CHOOSE h : h = F(h)
  BY DEF BytesUpTo
<1> HIDE DEF F
<1>4. BytesUpTo(w) = F(BytesUpTo(w))
  BY <1>2, <1>3, Zenon
<1> QED
  <2> DEFINE b == BytesUpTo(w)
  <2>1. b = F(b)
    BY <1>4
  <2> HIDE DEF b
  <2>2. b[0] = 0 /\ \A k \in 1 .. Len(w) : b[k] = b[k - 1] + EntrySize(w[k])
    BY <2>1 DEF F
  <2> DEFINE S == {k \in 0 .. Len(w) : b[k] \in Nat}
  <2>3. 0 \in S
    BY <2>2
  <2>4. ASSUME NEW k \in 0 .. Len(w) - 1, k \in S PROVE k + 1 \in S
    <3>1. k + 1 \in 1 .. Len(w) /\ (k + 1) - 1 = k /\ EntrySize(w[k + 1]) \in Nat
      BY EntrySizeType
    <3>2. b[k + 1] = b[k] + EntrySize(w[k + 1])
      BY <2>2, <3>1
    <3> QED
      BY <2>4, <3>1, <3>2
  <2>5. \A k \in 0 .. Len(w) : k \in S
    <3> HIDE DEF S
    <3>1. Len(w) \in Nat
      OBVIOUS
    <3> QED
      BY <2>3, <2>4, <3>1, Induction
  <2>6. b \in [0 .. Len(w) -> Nat]
    BY <2>1, <2>5 DEF F
  <2> QED
    BY <2>2, <2>6 DEF IsSum, b

(* The bytes of nothing, and of one entry.                                 *)
LEMMA BytesOne ==
  /\ Bytes(<<>>) = 0
  /\ \A e \in Entries : Bytes(<<e>>) = EntrySize(e)
<1>1. IsSum(BytesUpTo(<<>>), <<>>, 0)
  <2>1. <<>> \in Seq(Entries) /\ Len(<<>>) = 0
    OBVIOUS
  <2> QED
    BY <2>1, BytesUpToDef
<1>2. ASSUME NEW e \in Entries PROVE Bytes(<<e>>) = EntrySize(e)
  <2>1. <<e>> \in Seq(Entries) /\ Len(<<e>>) = 1 /\ <<e>>[1] = e
    OBVIOUS
  <2>2. IsSum(BytesUpTo(<<e>>), <<e>>, 1)
    BY <2>1, BytesUpToDef
  <2>3. BytesUpTo(<<e>>)[1] = 0 + EntrySize(e)
    BY <2>1, <2>2 DEF IsSum
  <2> QED
    BY <2>1, <2>3, EntrySizeType DEF Bytes
<1> QED
  BY <1>1, <1>2 DEF Bytes, IsSum

(* The bytes of two payloads are those of the first and of the second.     *)
LEMMA BytesConcat ==
  ASSUME NEW a \in Seq(Entries), NEW b \in Seq(Entries)
  PROVE  Bytes(a \o b) = Bytes(a) + Bytes(b)
<1> DEFINE c == a \o b
           A == BytesUpTo(a)
           B == BytesUpTo(b)
           C == BytesUpTo(c)
<1>1. /\ c \in Seq(Entries) /\ Len(c) = Len(a) + Len(b)
      /\ Len(a) \in Nat /\ Len(b) \in Nat
      /\ \A k \in 1 .. Len(a) : c[k] = a[k]
      /\ \A k \in 1 .. Len(b) : c[Len(a) + k] = b[k]
  OBVIOUS
<1> HIDE DEF c
<1>2. IsSum(A, a, Len(a)) /\ IsSum(B, b, Len(b)) /\ IsSum(C, c, Len(c))
  BY <1>1, BytesUpToDef
<1> HIDE DEF A, B, C
<1> DEFINE S == {k \in 0 .. Len(a) : C[k] = A[k]}
<1>3. 0 \in S
  BY <1>1, <1>2 DEF IsSum
<1>4. ASSUME NEW k \in 0 .. Len(a) - 1, k \in S PROVE k + 1 \in S
  <2>1. k + 1 \in 1 .. Len(a) /\ k + 1 \in 1 .. Len(c) /\ (k + 1) - 1 = k
    BY <1>1
  <2>2. A[k + 1] = A[k] + EntrySize(a[k + 1]) /\ C[k + 1] = C[k] + EntrySize(c[k + 1])
    BY <1>2, <2>1 DEF IsSum
  <2> QED
    BY <1>1, <1>4, <2>1, <2>2
<1>5. \A k \in 0 .. Len(a) : k \in S
  <2> HIDE DEF S
  <2> QED
    BY <1>1, <1>3, <1>4, Induction
<1>6. C[Len(a)] = A[Len(a)]
  <2>1. Len(a) \in S
    BY <1>1, <1>5
  <2> QED
    BY <2>1
<1> DEFINE T == {k \in 0 .. Len(b) : C[Len(a) + k] = A[Len(a)] + B[k]}
<1>7. 0 \in T
  <2>1. B[0] = 0 /\ A \in [0 .. Len(a) -> Nat]
    BY <1>2 DEF IsSum
  <2>2. A[Len(a)] \in Nat /\ Len(a) + 0 = Len(a) /\ 0 \in 0 .. Len(b)
    BY <1>1, <2>1
  <2>3. A[Len(a)] + B[0] = A[Len(a)]
    BY <2>1, <2>2
  <2> QED
    BY <1>6, <2>2, <2>3
<1>8. ASSUME NEW k \in 0 .. Len(b) - 1, k \in T PROVE k + 1 \in T
  <2>1. /\ k + 1 \in 1 .. Len(b) /\ (k + 1) - 1 = k /\ k \in 0 .. Len(b)
        /\ Len(a) + (k + 1) \in 1 .. Len(c) /\ (Len(a) + (k + 1)) - 1 = Len(a) + k
    BY <1>1
  <2>2. /\ B[k + 1] = B[k] + EntrySize(b[k + 1])
        /\ C[Len(a) + (k + 1)] = C[Len(a) + k] + EntrySize(c[Len(a) + (k + 1)])
    BY <1>2, <2>1 DEF IsSum
  <2>3. c[Len(a) + (k + 1)] = b[k + 1]
    BY <1>1, <2>1
  <2>4. EntrySize(b[k + 1]) \in Nat
    <3>1. b[k + 1] \in Entries
      BY <2>1
    <3> QED
      BY <3>1, EntrySizeType
  <2>5. A[Len(a)] \in Nat /\ B[k] \in Nat
    <3>1. A \in [0 .. Len(a) -> Nat] /\ B \in [0 .. Len(b) -> Nat] /\ Len(a) \in 0 .. Len(a)
      BY <1>1, <1>2 DEF IsSum
    <3> QED
      BY <2>1, <3>1
  <2> QED
    BY <1>8, <2>1, <2>2, <2>3, <2>4, <2>5
<1>9. \A k \in 0 .. Len(b) : k \in T
  <2> HIDE DEF T
  <2> QED
    BY <1>1, <1>7, <1>8, Induction
<1>10. C[Len(c)] = A[Len(a)] + B[Len(b)]
  BY <1>1, <1>9
<1> QED
  BY <1>10 DEF A, B, C, c, Bytes

(* g has the states of the first n rounds of a parse of w.                 *)
IsParse(g, p, w, n) == g = [k \in 0 .. n |-> IF k = 0 THEN p ELSE ParseField(g[k - 1], w[k])]

(* The rounds of a parse exist, however long the payload is.               *)
LEMMA ParseExists ==
  ASSUME NEW p, NEW w, NEW n \in Nat
  PROVE  \E g : IsParse(g, p, w, n)
<1> DEFINE S == {k \in 0 .. n : \E g : IsParse(g, p, w, k)}
<1>1. 0 \in S
  <2>1. IsParse([k \in 0 .. 0 |-> p], p, w, 0)
    BY DEF IsParse
  <2> QED
    BY <2>1
<1>2. ASSUME NEW j \in 0 .. n - 1, j \in S PROVE j + 1 \in S
  <2>1. PICK g : IsParse(g, p, w, j)
    BY <1>2
  <2> DEFINE h == [k \in 0 .. j + 1 |-> IF k = 0 THEN p ELSE ParseField(g[k - 1], w[k])]
  <2>2. ASSUME NEW k \in 0 .. j PROVE h[k] = g[k]
    <3>1. g[k] = IF k = 0 THEN p ELSE ParseField(g[k - 1], w[k])
      BY <2>1 DEF IsParse
    <3> QED
      BY <3>1
  <2>3. ASSUME NEW k \in 0 .. j + 1, k # 0 PROVE h[k - 1] = g[k - 1]
    <3>1. k - 1 \in 0 .. j
      BY <2>3
    <3> HIDE DEF h
    <3> QED
      BY <2>2, <3>1
  <2>4. h = [k \in 0 .. j + 1 |-> IF k = 0 THEN p ELSE ParseField(h[k - 1], w[k])]
    BY <2>3
  <2>5. IsParse(h, p, w, j + 1)
    BY <2>4 DEF IsParse
  <2> QED
    BY <2>5
<1>3. \A k \in 0 .. n : k \in S
  <2> HIDE DEF S
  <2> QED
    BY <1>1, <1>2, Induction
<1> QED
  BY <1>3

(* The rounds of a parse, each from the state the one before it left.      *)
LEMMA RoundsDef ==
  ASSUME NEW p, NEW w, Len(w) \in Nat
  PROVE  /\ Rounds(p, w)[0] = p
         /\ \A k \in 1 .. Len(w) : Rounds(p, w)[k] = ParseField(Rounds(p, w)[k - 1], w[k])
<1> DEFINE F(g) == [k \in 0 .. Len(w) |-> IF k = 0 THEN p ELSE ParseField(g[k - 1], w[k])]
<1>1. PICK g : IsParse(g, p, w, Len(w))
  BY ParseExists
<1>0. g = F(g)
  BY <1>1 DEF IsParse
<1>2. Rounds(p, w) = CHOOSE h : h = F(h)
  BY DEF Rounds
<1>3. Rounds(p, w) = F(Rounds(p, w))
  <2> HIDE DEF F
  <2> QED
    BY <1>0, <1>2, Zenon
<1> DEFINE r == Rounds(p, w)
<1>4. r = F(r)
  BY <1>3
<1> HIDE DEF r
<1>5. r[0] = p /\ \A k \in 1 .. Len(w) : r[k] = ParseField(r[k - 1], w[k])
  BY <1>4
<1> QED
  BY <1>5 DEF r

(* A parse of nothing, and of one entry.                                   *)
LEMMA ParseOne ==
  ASSUME NEW p
  PROVE  /\ MergePartial(p, <<>>) = p
         /\ \A e : MergePartial(p, <<e>>) = ParseField(p, e)
<1>1. MergePartial(p, <<>>) = p
  <2>1. Len(<<>>) = 0
    OBVIOUS
  <2> QED
    BY <2>1, RoundsDef DEF MergePartial
<1>2. ASSUME NEW e PROVE MergePartial(p, <<e>>) = ParseField(p, e)
  <2>1. Len(<<e>>) = 1 /\ <<e>>[1] = e
    OBVIOUS
  <2>2. /\ Rounds(p, <<e>>)[0] = p
        /\ Rounds(p, <<e>>)[1] = ParseField(Rounds(p, <<e>>)[1 - 1], <<e>>[1])
    BY <2>1, RoundsDef
  <2> QED
    BY <2>1, <2>2 DEF MergePartial
<1> QED
  BY <1>1, <1>2

(* A parse goes on where the parse of what came before ended.              *)
LEMMA ParseConcat ==
  ASSUME NEW p, NEW a \in Seq(Entries), NEW b \in Seq(Entries)
  PROVE  MergePartial(p, a \o b) = MergePartial(MergePartial(p, a), b)
<1> DEFINE c == a \o b
           q == MergePartial(p, a)
           A == Rounds(p, a)
           B == Rounds(q, b)
           C == Rounds(p, c)
<1>1. /\ Len(c) = Len(a) + Len(b)
      /\ Len(a) \in Nat /\ Len(b) \in Nat
      /\ \A k \in 1 .. Len(a) : c[k] = a[k]
      /\ \A k \in 1 .. Len(b) : c[Len(a) + k] = b[k]
  OBVIOUS
<1> HIDE DEF c, q
<1>2. /\ A[0] = p /\ \A k \in 1 .. Len(a) : A[k] = ParseField(A[k - 1], a[k])
      /\ B[0] = q /\ \A k \in 1 .. Len(b) : B[k] = ParseField(B[k - 1], b[k])
      /\ C[0] = p /\ \A k \in 1 .. Len(c) : C[k] = ParseField(C[k - 1], c[k])
  BY <1>1, RoundsDef
<1>3. A[Len(a)] = q
  BY DEF q, MergePartial
<1> HIDE DEF A, B, C
<1> DEFINE S == {k \in 0 .. Len(a) : C[k] = A[k]}
<1>4. 0 \in S
  BY <1>1, <1>2
<1>5. ASSUME NEW k \in 0 .. Len(a) - 1, k \in S PROVE k + 1 \in S
  <2>1. k + 1 \in 1 .. Len(a) /\ k + 1 \in 1 .. Len(c) /\ (k + 1) - 1 = k
    BY <1>1
  <2>2. A[k + 1] = ParseField(A[k], a[k + 1]) /\ C[k + 1] = ParseField(C[k], c[k + 1])
    BY <1>2, <2>1
  <2> QED
    BY <1>1, <1>5, <2>1, <2>2
<1>6. \A k \in 0 .. Len(a) : k \in S
  <2> HIDE DEF S
  <2> QED
    BY <1>1, <1>4, <1>5, Induction
<1>7. C[Len(a)] = q
  <2>1. Len(a) \in S
    BY <1>1, <1>6
  <2> QED
    BY <1>3, <2>1
<1> DEFINE T == {k \in 0 .. Len(b) : C[Len(a) + k] = B[k]}
<1>8. 0 \in T
  BY <1>1, <1>2, <1>7
<1>9. ASSUME NEW k \in 0 .. Len(b) - 1, k \in T PROVE k + 1 \in T
  <2>1. /\ k + 1 \in 1 .. Len(b) /\ (k + 1) - 1 = k
        /\ Len(a) + (k + 1) \in 1 .. Len(c) /\ (Len(a) + (k + 1)) - 1 = Len(a) + k
    BY <1>1
  <2>2. /\ B[k + 1] = ParseField(B[k], b[k + 1])
        /\ C[Len(a) + (k + 1)] = ParseField(C[Len(a) + k], c[Len(a) + (k + 1)])
    BY <1>2, <2>1
  <2>3. c[Len(a) + (k + 1)] = b[k + 1]
    BY <1>1, <2>1
  <2> QED
    BY <1>9, <2>1, <2>2, <2>3
<1>10. \A k \in 0 .. Len(b) : k \in T
  <2> HIDE DEF T
  <2> QED
    BY <1>1, <1>8, <1>9, Induction
<1>11. C[Len(c)] = B[Len(b)]
  BY <1>1, <1>10
<1> QED
  BY <1>11 DEF B, C, c, q, MergePartial

-----------------------------------------------------------------------------
(* Well-formed messages, and that the methods of the class keep to them.   *)

(* Objects of the class, and the states of a parse.                        *)
Messages == [has : SUBSET Fields, val : [Fields -> Nat], unknown : Seq(Entries)]
States == [msg : Messages, going : BOOLEAN]

(* Fields kept unread are whole, end no parse and are not known.           *)
Unread(u) == \A i \in DOMAIN u : ~Known(u[i]) /\ u[i].num # 0 /\ ~u[i].cut

MsgOK(m) ==
  /\ m \in Messages
  /\ MessageType_IsValid(m.val[TypeField])
  /\ ErrorCode_IsValid(m.val[ErrorField])
  /\ \A f \in Fields \ m.has : m.val[f] = 0
  /\ Unread(m.unknown)

(* A value that the setter of field f accepts.                             *)
Settable(f, v) ==
  /\ f \in Fields /\ v \in Nat
  /\ f = TypeField => MessageType_IsValid(v)
  /\ f = ErrorField => ErrorCode_IsValid(v)

(* A new object is well-formed.                                            *)
LEMMA EmptyOK == MsgOK(EmptyMessage)
  BY DEF MsgOK, EmptyMessage, Messages, Fields, TypeField, ErrorField, MessageType_IsValid,
         ErrorCode_IsValid, Unread

(* What set_f changes.                                                     *)
LEMMA SetForm ==
  ASSUME NEW m \in Messages, NEW f \in Fields, NEW v \in Nat
  PROVE  /\ SetField(m, f, v) \in Messages
         /\ SetField(m, f, v).has = m.has \cup {f}
         /\ SetField(m, f, v).val = [m.val EXCEPT ![f] = v]
         /\ SetField(m, f, v).unknown = m.unknown
  BY DEF SetField, Messages

(* set_f keeps a message well-formed.                                      *)
LEMMA SetOK ==
  ASSUME NEW m, MsgOK(m), NEW f, NEW v, Settable(f, v)
  PROVE  MsgOK(SetField(m, f, v))
<1> DEFINE r == SetField(m, f, v)
<1>1. m \in Messages /\ m.val \in [Fields -> Nat] /\ f \in Fields /\ v \in Nat
  BY DEF MsgOK, Settable, Messages
<1>2. /\ r \in Messages /\ r.has = m.has \cup {f} /\ r.unknown = m.unknown
      /\ r.val = [m.val EXCEPT ![f] = v]
  BY <1>1, SetForm
<1>3. \A g \in Fields : r.val[g] = IF g = f THEN v ELSE m.val[g]
  BY <1>1, <1>2
<1> HIDE DEF r
<1>4. TypeField \in Fields /\ ErrorField \in Fields
  BY DEF Fields, TypeField, ErrorField
<1>5. MsgOK(r)
  BY <1>2, <1>3, <1>4 DEF MsgOK, Settable
<1> QED
  BY <1>5 DEF r

(* So does mutable_f.                                                      *)
LEMMA MutableOK ==
  ASSUME NEW m, MsgOK(m), NEW f \in Fields
  PROVE  MsgOK(MutableField(m, f))
<1>1. /\ MutableField(m, f) \in Messages
      /\ MutableField(m, f).has = m.has \cup {f}
      /\ MutableField(m, f).val = m.val
      /\ MutableField(m, f).unknown = m.unknown
  BY DEF MutableField, Messages, MsgOK
<1> QED
  BY <1>1 DEF MsgOK

(* So does clear_f, which resets the value with the has-bit.               *)
LEMMA ClearFieldOK ==
  ASSUME NEW m, MsgOK(m), NEW f \in Fields
  PROVE  MsgOK(ClearField(m, f))
<1>1. /\ ClearField(m, f) \in Messages
      /\ ClearField(m, f).has = m.has \ {f}
      /\ ClearField(m, f).val = [m.val EXCEPT ![f] = 0]
      /\ ClearField(m, f).unknown = m.unknown
  BY DEF ClearField, Messages, MsgOK
<1> DEFINE r == ClearField(m, f)
<1>2. \A g \in Fields : r.val[g] = IF g = f THEN 0 ELSE m.val[g]
  BY <1>1 DEF MsgOK, Messages
<1>3. r \in Messages /\ r.has = m.has \ {f} /\ r.unknown = m.unknown
  BY <1>1
<1> HIDE DEF r
<1>4. TypeField \in Fields /\ ErrorField \in Fields
  BY DEF Fields, TypeField, ErrorField
<1>5. MessageType_IsValid(0) /\ ErrorCode_IsValid(0)
  BY DEF MessageType_IsValid, ErrorCode_IsValid
<1>6. MsgOK(r)
  BY <1>2, <1>3, <1>4, <1>5 DEF MsgOK
<1> QED
  BY <1>6 DEF r

(* So does set_allocated_f, with a text or with a null pointer.            *)
LEMMA SetAllocatedOK ==
  ASSUME NEW m, MsgOK(m), NEW f, NEW v, Settable(f, v), NEW text \in {{}, {v}}
  PROVE  MsgOK(SetAllocated(m, f, text))
<1>1. CASE text = {}
  BY <1>1, ClearFieldOK DEF SetAllocated, Settable
<1>2. CASE text = {v}
  <2>1. (CHOOSE x \in text : TRUE) = v
    BY <1>2
  <2> QED
    BY <1>2, <2>1, SetOK DEF SetAllocated
<1> QED
  BY <1>1, <1>2

(* As no value is stale, Clear leaves nothing behind.                      *)
LEMMA ClearEmpties == ASSUME NEW m, MsgOK(m) PROVE Clear(m) = EmptyMessage
  BY DEF MsgOK, Clear, EmptyMessage

(* Fields kept unread may follow one another.                              *)
LEMMA UnreadConcat ==
  ASSUME NEW a \in Seq(Entries), NEW b \in Seq(Entries), Unread(a), Unread(b)
  PROVE  Unread(a \o b)
<1> SUFFICES ASSUME NEW i \in DOMAIN (a \o b)
             PROVE  ~Known((a \o b)[i]) /\ (a \o b)[i].num # 0 /\ ~(a \o b)[i].cut
  BY DEF Unread
<1>1. CASE i \in 1 .. Len(a)
  <2>1. i \in DOMAIN a /\ (a \o b)[i] = a[i]
    BY <1>1
  <2> QED
    BY <2>1 DEF Unread
<1>2. CASE i \notin 1 .. Len(a)
  <2>1. i - Len(a) \in DOMAIN b /\ (a \o b)[i] = b[i - Len(a)]
    BY <1>2
  <2> QED
    BY <2>1 DEF Unread
<1> QED
  BY <1>1, <1>2

(* MergeFrom keeps a message well-formed.                                  *)
LEMMA MergeOK ==
  ASSUME NEW m, MsgOK(m), NEW from, MsgOK(from)
  PROVE  MsgOK(MergeFrom(m, from))
<1> DEFINE r == MergeFrom(m, from)
<1>1. r \in Messages
  BY DEF MergeFrom, MsgOK, Messages
<1>2. /\ r.has = m.has \cup from.has /\ r.unknown = m.unknown \o from.unknown
      /\ \A f \in Fields : r.val[f] = IF f \in from.has THEN from.val[f] ELSE m.val[f]
  BY DEF MergeFrom
<1>3. Unread(r.unknown)
  <2>1. /\ m.unknown \in Seq(Entries) /\ from.unknown \in Seq(Entries)
        /\ Unread(m.unknown) /\ Unread(from.unknown)
    BY DEF MsgOK, Messages
  <2> QED
    BY <1>2, <2>1, UnreadConcat
<1>4. /\ MessageType_IsValid(r.val[TypeField]) /\ ErrorCode_IsValid(r.val[ErrorField])
      /\ \A f \in Fields \ r.has : r.val[f] = 0
  BY <1>2 DEF MsgOK, Fields, TypeField, ErrorField
<1> QED
  BY <1>1, <1>3, <1>4 DEF MsgOK

(* A copy is the message it was made from.                                 *)
LEMMA CopySame ==
  ASSUME NEW m, MsgOK(m), NEW from, MsgOK(from)
  PROVE  CopyFrom(m, from) = from
<1>1. CopyFrom(m, from) = MergeFrom(EmptyMessage, from)
  BY ClearEmpties DEF CopyFrom
<1>2. /\ from.has = {} \cup from.has
      /\ from.val = [f \in Fields |-> IF f \in from.has THEN from.val[f] ELSE 0]
      /\ from.unknown = <<>> \o from.unknown
      /\ from = [has |-> from.has, val |-> from.val, unknown |-> from.unknown]
  BY DEF MsgOK, Messages
<1> QED
  BY <1>1, <1>2 DEF MergeFrom, EmptyMessage

-----------------------------------------------------------------------------
(* What one round of a parse does, and that a parse keeps to well-formed   *)
(* messages.                                                               *)

(* Message m with u kept unread.                                           *)
WithUnknown(m, u) == [has |-> m.has, val |-> m.val, unknown |-> u]

(* A round that has ended changes nothing; one that ends keeps what there  *)
(* is of a text; one that goes on sets a field or keeps it unread.         *)
LEMMA RoundForm ==
  ASSUME NEW p \in States, NEW e \in Entries
  PROVE  /\ ~p.going => ParseField(p, e) = p
         /\ p.going /\ (e.num = 0 \/ e.cut) =>
              ParseField(p, e) =
                [msg |-> CutField(p.msg, e), going |-> FALSE]
         /\ p.going /\ e.num # 0 /\ ~e.cut /\ Known(e) =>
              ParseField(p, e) = [msg |-> SetField(p.msg, e.num, e.val), going |-> TRUE]
         /\ p.going /\ e.num # 0 /\ ~e.cut /\ ~Known(e) =>
              ParseField(p, e) = [msg |-> WithUnknown(p.msg, Append(p.msg.unknown, e)),
                                  going |-> TRUE]
<1> USE DEF ParseField, ReadField
<1>1. ~p.going => ParseField(p, e) = p
  OBVIOUS
<1>2. p.going /\ (e.num = 0 \/ e.cut) =>
        ParseField(p, e) =
          [msg |-> CutField(p.msg, e), going |-> FALSE]
  OBVIOUS
<1>3. ASSUME p.going, e.num # 0, ~e.cut, Known(e)
      PROVE  ParseField(p, e) = [msg |-> SetField(p.msg, e.num, e.val), going |-> TRUE]
  BY <1>3 DEF States
<1>4. ASSUME p.going, e.num # 0, ~e.cut, ~Known(e)
      PROVE  ParseField(p, e) = [msg |-> WithUnknown(p.msg, Append(p.msg.unknown, e)),
                                 going |-> TRUE]
  BY <1>4 DEF States, Messages, WithUnknown
<1> QED
  BY <1>1, <1>2, <1>3, <1>4

(* A whole field that is not known may be kept unread.                     *)
LEMMA UnreadAppend ==
  ASSUME NEW u \in Seq(Entries), Unread(u), NEW e \in Entries,
         e.num # 0, ~e.cut, ~Known(e)
  PROVE  Append(u, e) \in Seq(Entries) /\ Unread(Append(u, e))
  BY DEF Unread

(* What is left of a field leaves all others alone.                        *)
LEMMA CutForm ==
  ASSUME NEW m \in Messages, NEW e \in Entries
  PROVE  /\ e.num \in Texts => CutField(m, e) = SetField(m, e.num, e.val)
         /\ e.num = OtherText =>
              CutField(m, e) = WithUnknown(m, Append(m.unknown, Entry(e.num, e.val)))
         /\ e.num \notin Texts \cup {OtherText} => CutField(m, e) = m
<1>1. ASSUME e.num = OtherText
      PROVE  CutField(m, e) = WithUnknown(m, Append(m.unknown, Entry(e.num, e.val)))
  <2> DEFINE u == Append(m.unknown, Entry(e.num, e.val))
  <2>1. e.num \notin Texts
    BY <1>1 DEF OtherText, Texts
  <2>2. CutField(m, e) = [m EXCEPT !.unknown = u]
    BY <1>1, <2>1 DEF CutField
  <2> HIDE DEF u
  <2>3. [m EXCEPT !.unknown = u] = WithUnknown(m, u)
    BY DEF Messages, WithUnknown
  <2> QED
    BY <2>2, <2>3 DEF u
<1> QED
  BY <1>1 DEF CutField

(* What is left of a field keeps the message well-formed.                  *)
LEMMA CutOK ==
  ASSUME NEW m, MsgOK(m), NEW e \in Entries
  PROVE  MsgOK(CutField(m, e))
<1>0. m \in Messages
  BY DEF MsgOK
<1>1. CASE e.num \in Texts
  <2>1. Settable(e.num, e.val)
    BY <1>1 DEF Texts, Settable, Fields, TypeField, ErrorField, Entries
  <2> QED
    BY <1>0, <1>1, <2>1, CutForm, SetOK
<1>2. CASE e.num = OtherText
  <2> DEFINE x == Entry(e.num, e.val)
             u == Append(m.unknown, x)
             n == WithUnknown(m, u)
  <2>1. x \in Entries /\ x.num # 0 /\ ~x.cut /\ ~Known(x)
    BY <1>2 DEF Entry, Entries, Known, OtherText, Fields
  <2> HIDE DEF x
  <2>2. u \in Seq(Entries) /\ Unread(u)
    BY <2>1, UnreadAppend DEF MsgOK, Messages
  <2> HIDE DEF u
  <2>3. n \in Messages /\ n.has = m.has /\ n.val = m.val /\ n.unknown = u
    BY <1>0, <2>2 DEF WithUnknown, Messages
  <2>4. CutField(m, e) = n
    BY <1>0, <1>2, CutForm DEF u, x
  <2> HIDE DEF n
  <2> QED
    BY <2>2, <2>3, <2>4 DEF MsgOK
<1>3. CASE e.num \notin Texts \cup {OtherText}
  BY <1>0, <1>3, CutForm
<1> QED
  BY <1>1, <1>2, <1>3

(* A round keeps the message well-formed.                                  *)
LEMMA RoundOK ==
  ASSUME NEW p \in States, MsgOK(p.msg), NEW e \in Entries
  PROVE  ParseField(p, e) \in States /\ MsgOK(ParseField(p, e).msg)
<1>1. CASE ~p.going
  BY <1>1, RoundForm
<1>2. CASE p.going /\ (e.num = 0 \/ e.cut)
  <2> DEFINE m == CutField(p.msg, e)
  <2>2. MsgOK(m)
    BY CutOK
  <2>3. m \in Messages
    BY <2>2 DEF MsgOK
  <2>4. ParseField(p, e) = [msg |-> m, going |-> FALSE]
    BY <1>2, RoundForm
  <2> HIDE DEF m
  <2> QED
    BY <2>2, <2>3, <2>4 DEF States
<1>3. CASE p.going /\ e.num # 0 /\ ~e.cut /\ Known(e)
  <2>1. Settable(e.num, e.val)
    BY <1>3 DEF Known, Settable, Entries
  <2> DEFINE m == SetField(p.msg, e.num, e.val)
  <2>2. MsgOK(m)
    BY <2>1, SetOK
  <2>3. m \in Messages
    BY <2>2 DEF MsgOK
  <2>4. ParseField(p, e) = [msg |-> m, going |-> TRUE]
    BY <1>3, RoundForm
  <2> HIDE DEF m
  <2> QED
    BY <2>2, <2>3, <2>4 DEF States
<1>4. CASE p.going /\ e.num # 0 /\ ~e.cut /\ ~Known(e)
  <2> DEFINE u == Append(p.msg.unknown, e)
             m == WithUnknown(p.msg, u)
  <2>1. u \in Seq(Entries) /\ Unread(u)
    BY <1>4, UnreadAppend DEF MsgOK, Messages
  <2> HIDE DEF u
  <2>2. m \in Messages /\ m.has = p.msg.has /\ m.val = p.msg.val /\ m.unknown = u
    BY <2>1 DEF WithUnknown, MsgOK, Messages
  <2>3. ParseField(p, e) = [msg |-> m, going |-> TRUE]
    BY <1>4, RoundForm DEF u
  <2> HIDE DEF m
  <2>4. MsgOK(m)
    BY <2>1, <2>2 DEF MsgOK
  <2> QED
    BY <2>2, <2>3, <2>4 DEF States
<1> QED
  BY <1>1, <1>2, <1>3, <1>4 DEF States

(* So do all rounds of a parse.                                            *)
LEMMA ParseOK ==
  ASSUME NEW p \in States, MsgOK(p.msg), NEW w \in Seq(Entries)
  PROVE  \A k \in 0 .. Len(w) : Rounds(p, w)[k] \in States /\ MsgOK(Rounds(p, w)[k].msg)
<1> DEFINE R == Rounds(p, w)
           S == {k \in 0 .. Len(w) : R[k] \in States /\ MsgOK(R[k].msg)}
<1>1. Len(w) \in Nat
  OBVIOUS
<1>2. R[0] = p /\ \A k \in 1 .. Len(w) : R[k] = ParseField(R[k - 1], w[k])
  BY <1>1, RoundsDef
<1> HIDE DEF R
<1>3. 0 \in S
  BY <1>1, <1>2
<1>4. ASSUME NEW k \in 0 .. Len(w) - 1, k \in S PROVE k + 1 \in S
  <2>1. k + 1 \in 1 .. Len(w) /\ (k + 1) - 1 = k /\ w[k + 1] \in Entries
    OBVIOUS
  <2>2. R[k + 1] = ParseField(R[k], w[k + 1])
    BY <1>2, <2>1
  <2>3. R[k] \in States /\ MsgOK(R[k].msg)
    BY <1>4
  <2>4. R[k + 1] \in States /\ MsgOK(R[k + 1].msg)
    BY <2>1, <2>2, <2>3, RoundOK
  <2> QED
    BY <2>1, <2>4
<1>5. \A k \in 0 .. Len(w) : k \in S
  <2> HIDE DEF S
  <2> QED
    BY <1>1, <1>3, <1>4, Induction
<1> QED
  BY <1>5 DEF R

(* Whatever is parsed into whatever object, the result is well-formed.     *)
LEMMA ParsedOK ==
  ASSUME NEW m, MsgOK(m), NEW w \in Seq(Entries)
  PROVE  MsgOK(Parse(m, w))
<1> DEFINE p == [msg |-> Clear(m), going |-> TRUE]
<1>1. Clear(m) = EmptyMessage
  BY ClearEmpties
<1>2. p \in States /\ MsgOK(p.msg)
  BY <1>1, EmptyOK DEF States, MsgOK
<1>3. Len(w) \in 0 .. Len(w)
  OBVIOUS
<1> HIDE DEF p
<1>4. MsgOK(Rounds(p, w)[Len(w)].msg)
  BY <1>2, <1>3, ParseOK
<1> QED
  BY <1>4 DEF p, Parse, MergePartial

-----------------------------------------------------------------------------
(* Parsing what was serialized.                                            *)

(* A well-formed message is written as a sequence of entries.              *)
LEMMA WrittenType ==
  ASSUME NEW m, MsgOK(m)
  PROVE  /\ \A f \in Fields : WriteField(m, f, m.has) \in Seq(Entries)
         /\ Serialize(m) \in Seq(Entries)
<1>1. ASSUME NEW f \in Fields PROVE WriteField(m, f, m.has) \in Seq(Entries)
  <2>1. Entry(f, m.val[f]) \in Entries
    BY DEF Entry, Entries, MsgOK, Messages, Fields
  <2> QED
    BY <2>1 DEF WriteField
<1>2. /\ 1 \in Fields /\ 2 \in Fields /\ 3 \in Fields /\ 4 \in Fields /\ 5 \in Fields
      /\ 6 \in Fields /\ 7 \in Fields
  BY DEF Fields
<1>3. m.unknown \in Seq(Entries)
  BY DEF MsgOK, Messages
<1> HIDE DEF WriteField
<1> QED
  BY <1>1, <1>2, <1>3 DEF Serialize, Write

(* The message with the fields of m up to number f, and none kept unread.  *)
UpTo(m, f) ==
  [has |-> m.has \cap 1 .. f,
   val |-> [g \in Fields |-> IF g <= f THEN m.val[g] ELSE 0],
   unknown |-> <<>>]
After(m, f) == [msg |-> UpTo(m, f), going |-> TRUE]

(* Parsing what the serializer writes for field f adds field f.            *)
LEMMA FieldParsed ==
  ASSUME NEW m, MsgOK(m), NEW f \in Fields
  PROVE  MergePartial(After(m, f - 1), WriteField(m, f, m.has)) = After(m, f)
<1> DEFINE p == After(m, f - 1)
<1>0. m.has \subseteq Fields /\ m.val \in [Fields -> Nat]
  BY DEF MsgOK, Messages
<1>1. p \in States
  BY <1>0 DEF After, UpTo, States, Messages, Fields
<1>2. CASE f \in m.has
  <2> DEFINE e == Entry(f, m.val[f])
  <2>1. e \in Entries /\ e.num = f /\ e.val = m.val[f] /\ e.cut = FALSE
    BY <1>0 DEF Entry, Entries, Fields
  <2>2. Known(e)
    BY <2>1 DEF Known, MsgOK
  <2> HIDE DEF e
  <2>3. ParseField(p, e) = [msg |-> SetField(p.msg, f, m.val[f]), going |-> TRUE]
    <3>1. p.going /\ f # 0
      BY DEF After, Fields
    <3> HIDE DEF p
    <3> QED
      BY <1>1, <2>1, <2>2, <3>1, RoundForm
  <2>4. SetField(p.msg, f, m.val[f]) = UpTo(m, f)
    <3>1. m.has \cap 1 .. f = (m.has \cap 1 .. (f - 1)) \cup {f}
      BY <1>0, <1>2 DEF Fields
    <3>2. [g \in Fields |-> IF g <= f THEN m.val[g] ELSE 0]
            = [[g \in Fields |-> IF g <= f - 1 THEN m.val[g] ELSE 0] EXCEPT ![f] = m.val[f]]
      <4>1. ASSUME NEW g \in Fields
            PROVE  (IF g <= f THEN m.val[g] ELSE 0)
                     = IF g = f THEN m.val[f] ELSE IF g <= f - 1 THEN m.val[g] ELSE 0
        BY DEF Fields
      <4> QED
        BY <4>1
    <3>3. /\ p.msg \in Messages /\ p.msg.has = m.has \cap 1 .. (f - 1)
          /\ p.msg.val = [g \in Fields |-> IF g <= f - 1 THEN m.val[g] ELSE 0]
          /\ p.msg.unknown = <<>>
      BY <1>1 DEF After, UpTo, States
    <3> DEFINE r == SetField(p.msg, f, m.val[f])
    <3>4. /\ r \in Messages /\ r.has = p.msg.has \cup {f}
          /\ r.val = [p.msg.val EXCEPT ![f] = m.val[f]] /\ r.unknown = p.msg.unknown
      <4> HIDE DEF p
      <4>1. m.val[f] \in Nat
        BY <1>0
      <4> QED
        BY <3>3, <4>1, SetForm
    <3> HIDE DEF r, p
    <3>5. r = [has |-> r.has, val |-> r.val, unknown |-> r.unknown]
      BY <3>4 DEF Messages
    <3>6. r = UpTo(m, f)
      BY <3>1, <3>2, <3>3, <3>4, <3>5 DEF UpTo
    <3> QED
      BY <3>6 DEF r
  <2>5. MergePartial(p, <<e>>) = ParseField(p, e)
    BY ParseOne
  <2> QED
    BY <1>2, <2>3, <2>4, <2>5 DEF WriteField, After, e
<1>3. CASE f \notin m.has
  <2>1. m.val[f] = 0
    BY <1>3 DEF MsgOK
  <2>2. m.has \cap 1 .. f = m.has \cap 1 .. (f - 1)
    BY <1>0, <1>3 DEF Fields
  <2>3. [g \in Fields |-> IF g <= f THEN m.val[g] ELSE 0]
          = [g \in Fields |-> IF g <= f - 1 THEN m.val[g] ELSE 0]
    BY <2>1 DEF Fields
  <2>4. p = After(m, f)
    BY <2>2, <2>3 DEF After, UpTo
  <2> QED
    BY <1>3, <2>4, ParseOne DEF WriteField
<1> QED
  BY <1>2, <1>3

(* Parsing the fields kept unread keeps them unread, in their order.       *)
LEMMA UnreadParsed ==
  ASSUME NEW m \in Messages, m.unknown = <<>>, NEW u \in Seq(Entries), Unread(u)
  PROVE  MergePartial([msg |-> m, going |-> TRUE], u)
           = [msg |-> WithUnknown(m, u), going |-> TRUE]
<1> DEFINE p == [msg |-> m, going |-> TRUE]
           R == Rounds(p, u)
           Q(k) == [msg |-> WithUnknown(m, SubSeq(u, 1, k)), going |-> TRUE]
           S == {k \in 0 .. Len(u) : R[k] = Q(k)}
<1>1. Len(u) \in Nat
  OBVIOUS
<1>2. R[0] = p /\ \A k \in 1 .. Len(u) : R[k] = ParseField(R[k - 1], u[k])
  BY <1>1, RoundsDef
<1> HIDE DEF R
<1>3. 0 \in S
  <2>1. SubSeq(u, 1, 0) = <<>>
    OBVIOUS
  <2>2. WithUnknown(m, <<>>) = m
    BY DEF WithUnknown, Messages
  <2>3. Q(0) = p
    BY <2>1, <2>2
  <2> HIDE DEF Q, p
  <2> QED
    BY <1>1, <1>2, <2>3
<1>4. ASSUME NEW k \in 0 .. Len(u) - 1, k \in S PROVE k + 1 \in S
  <2>1. k + 1 \in 1 .. Len(u) /\ (k + 1) - 1 = k /\ u[k + 1] \in Entries /\ k + 1 \in DOMAIN u
    OBVIOUS
  <2>2. R[k + 1] = ParseField(Q(k), u[k + 1])
    BY <1>2, <1>4, <2>1
  <2>3. ~Known(u[k + 1]) /\ u[k + 1].num # 0 /\ ~u[k + 1].cut
    BY <2>1 DEF Unread
  <2>4. SubSeq(u, 1, k) \in Seq(Entries)
    OBVIOUS
  <2>5. Append(SubSeq(u, 1, k), u[k + 1]) = SubSeq(u, 1, k + 1)
    OBVIOUS
  <2>6. Q(k) \in States
    BY <2>4 DEF States, WithUnknown, Messages
  <2>7. ParseField(Q(k), u[k + 1])
          = [msg |-> WithUnknown(Q(k).msg, Append(Q(k).msg.unknown, u[k + 1])), going |-> TRUE]
    <3>1. Q(k).going
      OBVIOUS
    <3> HIDE DEF Q
    <3> QED
      BY <2>1, <2>3, <2>6, <3>1, RoundForm
  <2>8. R[k + 1] = Q(k + 1)
    BY <2>2, <2>5, <2>7 DEF WithUnknown
  <2> QED
    BY <2>1, <2>8
<1>5. \A k \in 0 .. Len(u) : k \in S
  <2> HIDE DEF S
  <2> QED
    BY <1>1, <1>3, <1>4, Induction
<1>6. SubSeq(u, 1, Len(u)) = u
  OBVIOUS
<1>7. R[Len(u)] = Q(Len(u))
  BY <1>1, <1>5
<1> QED
  BY <1>6, <1>7 DEF R, MergePartial

(* Parsing what an object was serialized to gives it back.                 *)
LEMMA RoundTripOK ==
  ASSUME NEW m, MsgOK(m), NEW o, MsgOK(o)
  PROVE  Parse(o, Serialize(m)) = m
<1> DEFINE W(f) == WriteField(m, f, m.has)
           u == m.unknown
<1>1. /\ 1 \in Fields /\ 2 \in Fields /\ 3 \in Fields /\ 4 \in Fields /\ 5 \in Fields
      /\ 6 \in Fields /\ 7 \in Fields
  BY DEF Fields
<1>2. /\ W(1) \in Seq(Entries) /\ W(2) \in Seq(Entries) /\ W(3) \in Seq(Entries)
      /\ W(4) \in Seq(Entries) /\ W(5) \in Seq(Entries) /\ W(6) \in Seq(Entries)
      /\ W(7) \in Seq(Entries)
  BY <1>1, WrittenType
<1>3. /\ MergePartial(After(m, 0), W(1)) = After(m, 1)
      /\ MergePartial(After(m, 1), W(2)) = After(m, 2)
      /\ MergePartial(After(m, 2), W(3)) = After(m, 3)
      /\ MergePartial(After(m, 3), W(4)) = After(m, 4)
      /\ MergePartial(After(m, 4), W(5)) = After(m, 5)
      /\ MergePartial(After(m, 5), W(6)) = After(m, 6)
      /\ MergePartial(After(m, 6), W(7)) = After(m, 7)
  <2>1. ASSUME NEW f \in Fields, NEW g, g = f - 1 PROVE MergePartial(After(m, g), W(f)) = After(m, f)
    BY <2>1, FieldParsed
  <2>2. 0 = 1 - 1 /\ 1 = 2 - 1 /\ 2 = 3 - 1 /\ 3 = 4 - 1 /\ 4 = 5 - 1 /\ 5 = 6 - 1 /\ 6 = 7 - 1
    OBVIOUS
  <2> HIDE DEF W
  <2> QED
    BY <1>1, <2>1, <2>2
<1>4. Serialize(m) = W(1) \o W(2) \o W(3) \o W(4) \o W(5) \o W(6) \o W(7) \o u
  BY DEF Serialize, Write
<1> HIDE DEF W
<1> DEFINE w2 == W(1) \o W(2)
           w3 == w2 \o W(3)
           w4 == w3 \o W(4)
           w5 == w4 \o W(5)
           w6 == w5 \o W(6)
           w7 == w6 \o W(7)
<1>5. u \in Seq(Entries) /\ Unread(u)
  BY DEF MsgOK, Messages
<1>6. w2 \in Seq(Entries) /\ MergePartial(After(m, 0), w2) = After(m, 2)
  BY <1>2, <1>3, ParseConcat
<1> HIDE DEF w2
<1>7. w3 \in Seq(Entries) /\ MergePartial(After(m, 0), w3) = After(m, 3)
  BY <1>2, <1>3, <1>6, ParseConcat
<1> HIDE DEF w3
<1>8. w4 \in Seq(Entries) /\ MergePartial(After(m, 0), w4) = After(m, 4)
  BY <1>2, <1>3, <1>7, ParseConcat
<1> HIDE DEF w4
<1>9. w5 \in Seq(Entries) /\ MergePartial(After(m, 0), w5) = After(m, 5)
  BY <1>2, <1>3, <1>8, ParseConcat
<1> HIDE DEF w5
<1>10. w6 \in Seq(Entries) /\ MergePartial(After(m, 0), w6) = After(m, 6)
  BY <1>2, <1>3, <1>9, ParseConcat
<1> HIDE DEF w6
<1>11. w7 \in Seq(Entries) /\ MergePartial(After(m, 0), w7) = After(m, 7)
  BY <1>2, <1>3, <1>10, ParseConcat
<1> HIDE DEF w7, u
<1>12. MergePartial(After(m, 0), w7 \o u) = MergePartial(After(m, 7), u)
  BY <1>5, <1>11, ParseConcat
<1>13. UpTo(m, 7) = [has |-> m.has, val |-> m.val, unknown |-> <<>>]
  <2>1. m.has \cap 1 .. 7 = m.has
    BY DEF MsgOK, Messages, Fields
  <2>2. [g \in Fields |-> IF g <= 7 THEN m.val[g] ELSE 0] = m.val
    <3>1. m.val \in [Fields -> Nat]
      BY DEF MsgOK, Messages
    <3>2. \A g \in Fields : g <= 7
      BY DEF Fields
    <3> QED
      BY <3>1, <3>2
  <2> QED
    BY <2>1, <2>2 DEF UpTo
<1>14. MergePartial(After(m, 7), u) = [msg |-> WithUnknown(UpTo(m, 7), u), going |-> TRUE]
  <2>0. m.has \in SUBSET Fields /\ m.val \in [Fields -> Nat] /\ <<>> \in Seq(Entries)
    BY DEF MsgOK, Messages
  <2> DEFINE empty == <<>>
  <2>3. empty \in Seq(Entries) /\ UpTo(m, 7) = [has |-> m.has, val |-> m.val, unknown |-> empty]
    BY <1>13
  <2>4. UpTo(m, 7).unknown = empty
    BY <2>3
  <2> HIDE DEF empty
  <2>5. UpTo(m, 7) \in Messages
    BY <2>0, <2>3 DEF Messages
  <2>1. UpTo(m, 7) \in Messages /\ UpTo(m, 7).unknown = <<>>
    BY <2>4, <2>5 DEF empty
  <2> QED
    BY <1>5, <2>1, UnreadParsed DEF After
<1>15. WithUnknown(UpTo(m, 7), u) = m
  BY <1>13 DEF WithUnknown, MsgOK, Messages, u
<1>16. After(m, 0) = [msg |-> Clear(o), going |-> TRUE]
  <2>1. m.has \cap 1 .. 0 = {}
    OBVIOUS
  <2>2. [g \in Fields |-> IF g <= 0 THEN m.val[g] ELSE 0] = [g \in Fields |-> 0]
    BY DEF Fields
  <2> QED
    BY <2>1, <2>2, ClearEmpties DEF After, UpTo, EmptyMessage
<1>17. Serialize(m) = w7 \o u
  BY <1>4 DEF w2, w3, w4, w5, w6, w7
<1>18. MergePartial([msg |-> Clear(o), going |-> TRUE], Serialize(m)) = [msg |-> m, going |-> TRUE]
  BY <1>12, <1>14, <1>15, <1>16, <1>17
<1> QED
  BY <1>18 DEF Parse

(* The codec reserves the bytes it writes.                                 *)
LEMMA ByteSizeExact == ASSUME NEW m, MsgOK(m) PROVE ByteSize(m) = Bytes(Serialize(m))
<1> DEFINE W(f) == WriteField(m, f, m.has)
           size(f) == IF f \notin m.has THEN 0
                      ELSE IF f = IdField THEN 1 + 8
                      ELSE IF f \in Texts THEN 1 + VarintSize(m.val[f]) + m.val[f]
                      ELSE 1 + VarintSize(m.val[f])
           u == m.unknown
<1>1. ASSUME NEW f \in Fields
      PROVE  W(f) \in Seq(Entries) /\ Bytes(W(f)) = size(f) /\ size(f) \in Nat
  <2>1. W(f) \in Seq(Entries)
    BY WrittenType
  <2>2. m.val[f] \in Nat
    BY DEF MsgOK, Messages
  <2>3. Entry(f, m.val[f]) \in Entries
    BY <2>2 DEF Entry, Entries, Fields
  <2>4. f \in m.has => Bytes(W(f)) = EntrySize(Entry(f, m.val[f]))
    BY <2>3, BytesOne DEF WriteField
  <2>5. f \in m.has => EntrySize(Entry(f, m.val[f])) = size(f)
    BY <2>2 DEF EntrySize, Entry, VarintSize, OtherText, Fields
  <2>6. f \notin m.has => Bytes(W(f)) = 0
    BY BytesOne DEF WriteField
  <2>7. size(f) \in Nat
    BY <2>2 DEF VarintSize
  <2> QED
    BY <2>1, <2>4, <2>5, <2>6, <2>7
<1>2. ByteSize(m) = size(1) + size(2) + size(3) + size(4) + size(5) + size(6) + size(7) + Bytes(u)
  BY DEF ByteSize
<1>3. Serialize(m) = W(1) \o W(2) \o W(3) \o W(4) \o W(5) \o W(6) \o W(7) \o u
  BY DEF Serialize, Write
<1>4. u \in Seq(Entries)
  BY DEF MsgOK, Messages
<1>5. /\ 1 \in Fields /\ 2 \in Fields /\ 3 \in Fields /\ 4 \in Fields /\ 5 \in Fields
      /\ 6 \in Fields /\ 7 \in Fields
  BY DEF Fields
<1> HIDE DEF W, size, u
<1>6. Bytes(W(1) \o W(2)) = size(1) + size(2) /\ W(1) \o W(2) \in Seq(Entries)
  BY <1>1, <1>5, BytesConcat
<1> DEFINE w2 == W(1) \o W(2)
           w3 == w2 \o W(3)
           w4 == w3 \o W(4)
           w5 == w4 \o W(5)
           w6 == w5 \o W(6)
           w7 == w6 \o W(7)
<1>7. w2 \in Seq(Entries) /\ Bytes(w2) = size(1) + size(2)
  BY <1>6
<1> HIDE DEF w2
<1>8. w3 \in Seq(Entries) /\ Bytes(w3) = size(1) + size(2) + size(3)
  BY <1>1, <1>5, <1>7, BytesConcat
<1> HIDE DEF w3
<1>9. w4 \in Seq(Entries) /\ Bytes(w4) = size(1) + size(2) + size(3) + size(4)
  BY <1>1, <1>5, <1>8, BytesConcat
<1> HIDE DEF w4
<1>10. w5 \in Seq(Entries) /\ Bytes(w5) = size(1) + size(2) + size(3) + size(4) + size(5)
  BY <1>1, <1>5, <1>9, BytesConcat
<1> HIDE DEF w5
<1>11. w6 \in Seq(Entries) /\ Bytes(w6) = size(1) + size(2) + size(3) + size(4) + size(5) + size(6)
  BY <1>1, <1>5, <1>10, BytesConcat
<1> HIDE DEF w6
<1>12. /\ w7 \in Seq(Entries)
       /\ Bytes(w7) = size(1) + size(2) + size(3) + size(4) + size(5) + size(6) + size(7)
  BY <1>1, <1>5, <1>11, BytesConcat
<1> HIDE DEF w7
<1>13. Bytes(w7 \o u) = Bytes(w7) + Bytes(u)
  BY <1>4, <1>12, BytesConcat
<1>14. Serialize(m) = w7 \o u
  BY <1>3 DEF w2, w3, w4, w5, w6, w7
<1> QED
  BY <1>2, <1>12, <1>13, <1>14

(* The id of a call comes back through its two changes of sign.            *)
LEMMA IdsComeBack ==
  ASSUME NEW i \in CallIds
  PROVE  /\ ToUnsigned(i) \in 0 .. IdRange - 1
         /\ ToSigned(ToUnsigned(i)) = i
<1>1. PICK h \in Nat : IdRange = 2 * h /\ IdRange \div 2 = h
  BY MessageAssumption
<1>2. h > 0 /\ i \in Int /\ -h <= i /\ i < h
  BY <1>1, MessageAssumption
<1>3. ToUnsigned(i) = IF i < 0 THEN i + 2 * h ELSE i
  BY <1>1, <1>2 DEF ToUnsigned
<1> QED
  BY <1>1, <1>2, <1>3 DEF ToSigned

(* set_id gets an unsigned value.                                          *)
LEMMA UnsignedNat == ASSUME NEW i \in Int PROVE ToUnsigned(i) \in Nat
  BY MessageAssumption DEF ToUnsigned

-----------------------------------------------------------------------------
(* What a parse makes of any payload.                                      *)

(* The entries a parse of w ends at, and those it reads field f from.      *)
Stops(w) == {i \in DOMAIN w : w[i].num = 0 \/ w[i].cut}
Reads(w, f) ==
  {i \in DOMAIN w : /\ w[i].num = f /\ Known(w[i])
                    /\ \A j \in Stops(w) : i < j \/ (i = j /\ f \in Texts)}

(* Field f of m is as the first k entries of w have it.                    *)
FieldIs(m, w, f, k) ==
  LET r == {i \in Reads(w, f) : i <= k}
  IN  \/ r = {} /\ f \notin m.has /\ m.val[f] = 0
      \/ f \in m.has /\ \E i \in r : m.val[f] = w[i].val /\ \A j \in r : j <= i

(* An entry that field f is not read from leaves its account as it is.     *)
LEMMA FieldStays ==
  ASSUME NEW w \in Seq(Entries), NEW f \in Fields, NEW k \in 0 .. Len(w) - 1, NEW m, NEW n,
         FieldIs(m, w, f, k), k + 1 \notin Reads(w, f),
         f \in n.has <=> f \in m.has, n.val[f] = m.val[f]
  PROVE  FieldIs(n, w, f, k + 1)
<1>1. {i \in Reads(w, f) : i <= k + 1} = {i \in Reads(w, f) : i <= k}
  BY DEF Reads
<1> QED
  BY <1>1 DEF FieldIs

(* An entry that field f is read from gives it its last value so far.      *)
LEMMA FieldRead ==
  ASSUME NEW w \in Seq(Entries), NEW f \in Fields, NEW k \in 0 .. Len(w) - 1, NEW n,
         k + 1 \in Reads(w, f), f \in n.has, n.val[f] = w[k + 1].val
  PROVE  FieldIs(n, w, f, k + 1)
  BY DEF FieldIs, Reads

(* One round of a parse keeps the account of each field.                   *)
LEMMA RoundReads ==
  ASSUME NEW w \in Seq(Entries), NEW k \in 0 .. Len(w) - 1, NEW p \in States,
         p.going <=> \A j \in Stops(w) : j > k,
         \A f \in Fields : FieldIs(p.msg, w, f, k)
  PROVE  LET q == ParseField(p, w[k + 1])
         IN  /\ q.going <=> \A j \in Stops(w) : j > k + 1
             /\ \A f \in Fields : FieldIs(q.msg, w, f, k + 1)
<1> DEFINE e == w[k + 1]
           q == ParseField(p, e)
<1>1. e \in Entries /\ k + 1 \in DOMAIN w /\ Stops(w) \subseteq Nat
  BY DEF Stops
<1>2. k + 1 \in Stops(w) <=> e.num = 0 \/ e.cut
  BY <1>1 DEF Stops
<1>3. \A f \in Fields :
        k + 1 \in Reads(w, f) <=>
          e.num = f /\ Known(e) /\ \A j \in Stops(w) : k + 1 < j \/ (k + 1 = j /\ f \in Texts)
  BY <1>1 DEF Reads
<1>4. p.msg \in Messages
  BY DEF States
<1> HIDE DEF e
<1>5. CASE ~p.going
  <2>1. q = p
    BY <1>1, <1>5, RoundForm
  <2>2. PICK j \in Stops(w) : ~(j > k)
    BY <1>5
  <2>3. \A f \in Fields : k + 1 \notin Reads(w, f)
    BY <1>1, <1>3, <2>2
  <2>4. ~\A i \in Stops(w) : i > k + 1
    BY <1>1, <2>2
  <2> QED
    BY <1>5, <2>1, <2>3, <2>4, FieldStays DEF e
<1>6. CASE p.going /\ (e.num = 0 \/ e.cut)
  <2>1. q = [msg |-> CutField(p.msg, e), going |-> FALSE]
    BY <1>1, <1>6, RoundForm
  <2>2. ~\A i \in Stops(w) : i > k + 1
    BY <1>2, <1>6
  <2>3. ASSUME NEW f \in Fields PROVE FieldIs(q.msg, w, f, k + 1)
    <3>1. CASE f = e.num /\ f \in Texts
      <4>1. f # 1 /\ f # 7
        BY <3>1 DEF Texts
      <4>2. Known(e)
        BY <3>1, <4>1 DEF Known, TypeField, ErrorField
      <4>3. \A j \in Stops(w) : j > k
        BY <1>6
      <4>4. k + 1 \in Reads(w, f)
        BY <1>1, <1>3, <3>1, <4>2, <4>3
      <4>5. f \in q.msg.has /\ q.msg.val[f] = e.val
        <5>0. CutField(p.msg, e) = SetField(p.msg, e.num, e.val)
          BY <1>1, <1>4, <3>1, CutForm
        <5>1. q.msg = SetField(p.msg, f, e.val) /\ e.val \in Nat
          BY <1>1, <2>1, <3>1, <5>0 DEF Entries
        <5>2. q.msg.has = p.msg.has \cup {f} /\ q.msg.val = [p.msg.val EXCEPT ![f] = e.val]
          BY <1>4, <5>1, SetForm
        <5>3. p.msg.val \in [Fields -> Nat]
          BY <1>4 DEF Messages
        <5> QED
          BY <5>2, <5>3
      <4> QED
        BY <4>4, <4>5, FieldRead DEF e
    <3>2. CASE ~(f = e.num /\ f \in Texts)
      <4>1. k + 1 \notin Reads(w, f)
        BY <1>2, <1>3, <1>6, <3>2
      <4>2. (f \in q.msg.has <=> f \in p.msg.has) /\ q.msg.val[f] = p.msg.val[f]
        <5>1. CASE e.num \in Texts
          <6>1. e.num \in Fields /\ e.val \in Nat
            BY <1>1, <5>1 DEF Texts, Fields, Entries
          <6>2. q.msg = SetField(p.msg, e.num, e.val) /\ f # e.num
            BY <1>1, <1>4, <2>1, <3>2, <5>1, CutForm
          <6>3. /\ q.msg.has = p.msg.has \cup {e.num}
                /\ q.msg.val = [p.msg.val EXCEPT ![e.num] = e.val]
            BY <1>4, <6>1, <6>2, SetForm
          <6>4. p.msg.val \in [Fields -> Nat]
            BY <1>4 DEF Messages
          <6> QED
            BY <6>2, <6>3, <6>4
        <5>2. CASE e.num \notin Texts
          BY <1>1, <1>4, <2>1, <5>2, CutForm DEF WithUnknown
        <5> QED
          BY <5>1, <5>2
      <4> QED
        BY <4>1, <4>2, FieldStays
    <3> QED
      BY <3>1, <3>2
  <2> QED
    BY <2>1, <2>2, <2>3 DEF e
<1>7. CASE p.going /\ e.num # 0 /\ ~e.cut /\ Known(e)
  <2>1. q = [msg |-> SetField(p.msg, e.num, e.val), going |-> TRUE]
    BY <1>1, <1>7, RoundForm
  <2>2. \A j \in Stops(w) : j > k + 1
    BY <1>1, <1>2, <1>7
  <2>3. e.num \in Fields /\ e.val \in Nat
    BY <1>1, <1>7 DEF Known, Entries
  <2>4. /\ q.msg.has = p.msg.has \cup {e.num}
        /\ q.msg.val = [p.msg.val EXCEPT ![e.num] = e.val]
    BY <1>4, <2>1, <2>3, SetForm
  <2>5. ASSUME NEW f \in Fields PROVE FieldIs(q.msg, w, f, k + 1)
    <3>1. CASE f = e.num
      <4>1. k + 1 \in Reads(w, f)
        BY <1>1, <1>3, <1>7, <2>2, <3>1
      <4>2. f \in q.msg.has /\ q.msg.val[f] = e.val
        BY <1>4, <2>4, <3>1 DEF Messages
      <4> QED
        BY <4>1, <4>2, FieldRead DEF e
    <3>2. CASE f # e.num
      <4>1. k + 1 \notin Reads(w, f)
        BY <1>3, <3>2
      <4>2. (f \in q.msg.has <=> f \in p.msg.has) /\ q.msg.val[f] = p.msg.val[f]
        BY <1>4, <2>4, <3>2 DEF Messages
      <4> QED
        BY <4>1, <4>2, FieldStays
    <3> QED
      BY <3>1, <3>2
  <2> QED
    BY <2>1, <2>2, <2>5 DEF e
<1>8. CASE p.going /\ e.num # 0 /\ ~e.cut /\ ~Known(e)
  <2>1. q = [msg |-> WithUnknown(p.msg, Append(p.msg.unknown, e)), going |-> TRUE]
    BY <1>1, <1>8, RoundForm
  <2>2. \A j \in Stops(w) : j > k + 1
    BY <1>1, <1>2, <1>8
  <2>3. \A f \in Fields : k + 1 \notin Reads(w, f)
    BY <1>3, <1>8
  <2>4. q.msg.has = p.msg.has /\ q.msg.val = p.msg.val
    BY <2>1 DEF WithUnknown
  <2>5. ASSUME NEW f \in Fields PROVE FieldIs(q.msg, w, f, k + 1)
    BY <2>3, <2>4, FieldStays
  <2> QED
    BY <2>1, <2>2, <2>5 DEF e
<1> QED
  BY <1>5, <1>6, <1>7, <1>8

(* Each field has its last readable value when a parse is over.            *)
LEMMA LastRead ==
  ASSUME NEW w \in Seq(Entries), NEW f \in Fields
  PROVE  LET m == Parse(EmptyMessage, w)
         IN  IF Reads(w, f) = {} THEN f \notin m.has /\ m.val[f] = 0
             ELSE f \in m.has /\ m.val[f] = w[Max(Reads(w, f))].val
<1> DEFINE p == [msg |-> Clear(EmptyMessage), going |-> TRUE]
           R == Rounds(p, w)
           Account(k) == /\ R[k].going <=> \A j \in Stops(w) : j > k
                         /\ \A g \in Fields : FieldIs(R[k].msg, w, g, k)
           S == {k \in 0 .. Len(w) : Account(k)}
<1>1. Len(w) \in Nat /\ DOMAIN w = 1 .. Len(w)
  OBVIOUS
<1>2. p = [msg |-> EmptyMessage, going |-> TRUE]
  BY EmptyOK, ClearEmpties
<1>3. p \in States /\ MsgOK(p.msg)
  BY <1>2, EmptyOK DEF States, MsgOK
<1>4. /\ R[0] = p /\ \A k \in 1 .. Len(w) : R[k] = ParseField(R[k - 1], w[k])
      /\ \A k \in 0 .. Len(w) : R[k] \in States
  <2> HIDE DEF p
  <2> QED
    BY <1>1, <1>3, RoundsDef, ParseOK
<1> HIDE DEF R
<1>5. 0 \in S
  <2>1. \A j \in Stops(w) : j > 0
    BY <1>1 DEF Stops
  <2>2. \A g \in Fields : {i \in Reads(w, g) : i <= 0} = {}
    BY <1>1 DEF Reads
  <2>3. \A g \in Fields : FieldIs(EmptyMessage, w, g, 0)
    BY <2>2 DEF FieldIs, EmptyMessage
  <2>4. R[0].going /\ R[0].msg = EmptyMessage
    BY <1>2, <1>4
  <2> QED
    BY <1>1, <2>1, <2>3, <2>4
<1>6. ASSUME NEW k \in 0 .. Len(w) - 1, k \in S PROVE k + 1 \in S
  <2>1. /\ k + 1 \in 1 .. Len(w) /\ k + 1 \in 0 .. Len(w) /\ (k + 1) - 1 = k
        /\ k \in 0 .. Len(w)
    BY <1>1
  <2>2. R[k + 1] = ParseField(R[k], w[k + 1]) /\ R[k] \in States
    BY <1>4, <2>1
  <2>3. Account(k)
    BY <1>6
  <2>4. Account(k + 1)
    BY <2>2, <2>3, RoundReads
  <2> QED
    BY <2>1, <2>4
<1>7. \A k \in 0 .. Len(w) : k \in S
  <2> HIDE DEF S
  <2> QED
    BY <1>1, <1>5, <1>6, Induction
<1>8. FieldIs(R[Len(w)].msg, w, f, Len(w))
  BY <1>1, <1>7
<1> DEFINE m == R[Len(w)].msg
<1>9. {i \in Reads(w, f) : i <= Len(w)} = Reads(w, f) /\ Reads(w, f) \subseteq Nat
  BY <1>1 DEF Reads
<1> HIDE DEF m
<1>10. \/ Reads(w, f) = {} /\ f \notin m.has /\ m.val[f] = 0
       \/ /\ f \in m.has
          /\ \E i \in Reads(w, f) : m.val[f] = w[i].val /\ \A j \in Reads(w, f) : j <= i
  BY <1>8, <1>9 DEF FieldIs, m
<1>11. ASSUME NEW i \in Reads(w, f), \A j \in Reads(w, f) : j <= i PROVE Max(Reads(w, f)) = i
  <2>1. \A x \in Reads(w, f) : (\A y \in Reads(w, f) : x >= y) => x = i
    BY <1>9, <1>11
  <2>2. \A y \in Reads(w, f) : i >= y
    BY <1>9, <1>11
  <2> QED
    BY <2>1, <2>2 DEF Max
<1>12. IF Reads(w, f) = {} THEN f \notin m.has /\ m.val[f] = 0
       ELSE f \in m.has /\ m.val[f] = w[Max(Reads(w, f))].val
  BY <1>10, <1>11
<1>13. m = Parse(EmptyMessage, w)
  BY DEF m, R, Parse, MergePartial
<1> QED
  BY <1>12, <1>13

-----------------------------------------------------------------------------
(* The messages of RpcChannel.                                             *)

(* Who may have made a message.                                            *)
Whos == {"other", "call", "reply"} \X Int

(* A message made for call i, or to answer it, has its type and its id.    *)
Understood(m, who) ==
  \/ who = Other
  \/ \E i \in CallIds : /\ who = <<"call", i>>
                        /\ m.val[TypeField] = REQUEST /\ m.val[IdField] = ToUnsigned(i)
  \/ \E i \in CallIds : /\ who = <<"reply", i>>
                        /\ m.val[TypeField] = RESPONSE /\ m.val[IdField] = ToUnsigned(i)
                        /\ m.has \cap {6, ErrorField} # {}

(* onRpcMessage takes such a message for what it was made, with the id the *)
(* call drew.                                                              *)
LEMMA UnderstoodOnce ==
  ASSUME NEW m, NEW who, Understood(m, who), who # Other
  PROVE  OnRpcMessage(m) = <<IF who[1] = "call" THEN "serve" ELSE "complete", who[2]>>
<1>1. ASSUME NEW i \in CallIds, who = <<"call", i>>,
             m.val[TypeField] = REQUEST, m.val[IdField] = ToUnsigned(i)
      PROVE  OnRpcMessage(m) = <<"serve", i>>
  BY <1>1, IdsComeBack DEF OnRpcMessage, REQUEST, RESPONSE
<1>2. ASSUME NEW i \in CallIds, who = <<"reply", i>>, m.has \cap {6, ErrorField} # {},
             m.val[TypeField] = RESPONSE, m.val[IdField] = ToUnsigned(i)
      PROVE  OnRpcMessage(m) = <<"complete", i>>
  BY <1>2, IdsComeBack DEF OnRpcMessage, REQUEST, RESPONSE
<1> QED
  BY <1>1, <1>2 DEF Understood

(* CallMethod's request is well-formed and understood.                     *)
LEMMA RequestOK ==
  ASSUME NEW i \in CallIds, NEW n \in TextSizes
  PROVE  MsgOK(Request(i, n, n)) /\ Understood(Request(i, n, n), <<"call", i>>)
<1> DEFINE r == Request(i, n, n)
           v == <<REQUEST, ToUnsigned(i), n, n, n, 0, 0>>
<1>1. n \in Nat /\ ToUnsigned(i) \in Nat
  BY MessageAssumption, IdsComeBack
<1>0. Clear(EmptyMessage) = EmptyMessage
  BY EmptyOK, ClearEmpties
<1>2. r = [has |-> 1 .. 5, val |-> v, unknown |-> <<>>]
  <2>1. r = [EmptyMessage EXCEPT !.has = 1 .. 5, !.val = v]
    BY <1>0 DEF Request
  <2> QED
    BY <2>1 DEF EmptyMessage
<1>3. v \in [Fields -> Nat] /\ v[1] = 1 /\ v[2] = ToUnsigned(i) /\ v[6] = 0 /\ v[7] = 0
  BY <1>1 DEF Fields, REQUEST
<1> HIDE DEF r, v
<1>4. r \in Messages
  BY <1>2, <1>3 DEF Messages, Fields
<1>5. \A f \in Fields \ 1 .. 5 : f = 6 \/ f = 7
  BY DEF Fields
<1>6. Unread(<<>>)
  BY DEF Unread
<1>7. MsgOK(r)
  BY <1>2, <1>3, <1>4, <1>5, <1>6
  DEF MsgOK, TypeField, ErrorField, MessageType_IsValid, ErrorCode_IsValid
<1>8. Understood(r, <<"call", i>>)
  BY <1>2, <1>3 DEF Understood, TypeField, IdField, REQUEST
<1> QED
  BY <1>7, <1>8 DEF r

(* A reply has the type, the id and one more field.                        *)
LEMMA ReplyForm ==
  ASSUME NEW id \in Nat, NEW f \in {6, ErrorField}, NEW v, Settable(f, v)
  PROVE  LET r == SetField(SetField(SetField(EmptyMessage, TypeField, RESPONSE), IdField, id), f, v)
         IN  /\ MsgOK(r) /\ f \in r.has
             /\ r.val[TypeField] = RESPONSE /\ r.val[IdField] = id
<1> DEFINE a == SetField(EmptyMessage, TypeField, RESPONSE)
           b == SetField(a, IdField, id)
           r == SetField(b, f, v)
<1>1. Settable(TypeField, RESPONSE) /\ Settable(IdField, id)
  BY DEF Settable, TypeField, IdField, ErrorField, RESPONSE, Fields, MessageType_IsValid
<1>2. MsgOK(a)
  BY <1>1, EmptyOK, SetOK
<1>0. /\ TypeField \in Fields /\ RESPONSE \in Nat /\ IdField \in Fields
      /\ EmptyMessage \in Messages
  BY <1>1, EmptyOK DEF MsgOK, Settable
<1>3. a.val = [EmptyMessage.val EXCEPT ![TypeField] = RESPONSE]
  BY <1>0, SetForm
<1> HIDE DEF a
<1>4. MsgOK(b)
  BY <1>1, <1>2, SetOK
<1>5. b.val = [a.val EXCEPT ![IdField] = id]
  <2>1. a \in Messages
    BY <1>2 DEF MsgOK
  <2> QED
    BY <1>0, <2>1, SetForm
<1> HIDE DEF b
<1>6. MsgOK(r)
  BY <1>4, SetOK
<1>7. r.has = b.has \cup {f} /\ r.val = [b.val EXCEPT ![f] = v]
  BY <1>4, SetForm DEF MsgOK, Settable
<1> HIDE DEF r
<1>8. a.val \in [Fields -> Nat] /\ b.val \in [Fields -> Nat]
  BY <1>2, <1>4 DEF MsgOK, Messages
<1>9. /\ TypeField \in Fields /\ IdField \in Fields /\ TypeField # IdField
      /\ f # TypeField /\ f # IdField
  BY DEF TypeField, IdField, ErrorField, Fields
<1>10. EmptyMessage.val \in [Fields -> Nat]
  BY EmptyOK DEF MsgOK, Messages
<1>11. r.val[TypeField] = RESPONSE /\ r.val[IdField] = id /\ f \in r.has
  BY <1>3, <1>5, <1>7, <1>8, <1>9, <1>10
<1> QED
  BY <1>6, <1>11 DEF r, a, b

(* The replies to a request are well-formed, and understood if the request *)
(* was a call's.                                                           *)
LEMMA RepliesOK ==
  ASSUME NEW m, MsgOK(m), NEW who \in Whos, Understood(m, who),
         OnRpcMessage(m)[1] = "serve",
         NEW answer, \/ \E e \in Errors : answer = ErrorReply(m, e)
                     \/ \E n \in TextSizes : answer = Response(m, n)
  PROVE  /\ MsgOK(answer)
         /\ Understood(answer, IF who[1] = "call" THEN <<"reply", who[2]>> ELSE Other)
<1>1. m.val[IdField] \in Nat
  BY DEF MsgOK, Messages, IdField, Fields
<1> DEFINE
  Form(id, f, v) ==
    /\ Settable(f, v)
    /\ answer = SetField(SetField(SetField(EmptyMessage, TypeField, RESPONSE), IdField, id), f, v)
    /\ id = m.val[IdField] \/ id = ToUnsigned(ToSigned(m.val[IdField]))
<1>2. PICK id \in Nat, f \in {6, ErrorField}, v \in Nat : Form(id, f, v)
  <2>1. ASSUME NEW e \in Errors, answer = ErrorReply(m, e) PROVE Settable(ErrorField, e)
    BY MessageAssumption DEF Settable, ErrorField, TypeField, Fields, ErrorCode_IsValid
  <2>2. ASSUME NEW n \in TextSizes, answer = Response(m, n)
        PROVE  Settable(6, n) /\ ToUnsigned(ToSigned(m.val[IdField])) \in Nat
    <3>1. ToSigned(m.val[IdField]) \in Int
      BY <1>1, MessageAssumption DEF ToSigned
    <3> QED
      BY <3>1, UnsignedNat, MessageAssumption DEF Settable, ErrorField, TypeField, Fields
  <2>3. ASSUME NEW e \in Errors, answer = ErrorReply(m, e)
        PROVE  \E id \in Nat, f \in {6, ErrorField}, v \in Nat : Form(id, f, v)
    <3>1. e \in Nat /\ Form(m.val[IdField], ErrorField, e)
      BY <2>1, <2>3 DEF ErrorReply, Settable
    <3> QED
      BY <1>1, <3>1
  <2>4. ASSUME NEW n \in TextSizes, answer = Response(m, n)
        PROVE  \E id \in Nat, f \in {6, ErrorField}, v \in Nat : Form(id, f, v)
    <3>1. n \in Nat /\ Form(ToUnsigned(ToSigned(m.val[IdField])), 6, n)
      BY <2>2, <2>4 DEF Response, Settable
    <3> QED
      BY <2>2, <2>4, <3>1
  <2> QED
    BY <2>3, <2>4
<1>3. /\ MsgOK(answer) /\ f \in answer.has
      /\ answer.val[TypeField] = RESPONSE /\ answer.val[IdField] = id
  BY <1>2, ReplyForm
<1>4. ASSUME NEW i \in CallIds, who = <<"call", i>>, m.val[IdField] = ToUnsigned(i)
      PROVE  Understood(answer, <<"reply", i>>)
  <2>1. id = ToUnsigned(i)
    BY <1>2, <1>4, IdsComeBack
  <2> QED
    BY <1>3, <2>1 DEF Understood
<1> QED
  BY <1>3, <1>4 DEF Understood, Other

-----------------------------------------------------------------------------
(* The inductive invariant.                                                *)

(* Every object holds a well-formed message that is understood as what it  *)
(* was made for.                                                           *)
ObjectsOK ==
  /\ obj \in [Objs -> Messages] /\ made \in [Objs -> Whos]
  /\ \A o \in Objs : MsgOK(obj[o]) /\ Understood(obj[o], made[o])

(* What is on the wire came from another program, or is a message that was *)
(* serialized.                                                             *)
WireOK ==
  /\ wire \in Seq(Entries) /\ origin \in Whos
  /\ \/ space = -1 /\ origin = Other
     \/ /\ MsgOK(source) /\ Understood(source, origin)
        /\ wire = Serialize(source) /\ space = ByteSize(source)

IInv == ObjectsOK /\ WireOK

(* Nothing is said of the messages of others.                              *)
LEMMA OtherOK == Other \in Whos /\ \A m : Understood(m, Other)
  BY DEF Other, Whos, Understood

(* An empty message is written as an empty payload.                        *)
LEMMA EmptyWritten == Serialize(EmptyMessage) = <<>> /\ ByteSize(EmptyMessage) = 0
<1>1. Serialize(EmptyMessage) = <<>>
  BY DEF Serialize, Write, WriteField, EmptyMessage
<1> QED
  BY <1>1, EmptyOK, ByteSizeExact, BytesOne

(* An object may be given any well-formed message.                         *)
LEMMA PutOK ==
  ASSUME ObjectsOK, NEW o \in Objs, NEW m, NEW who \in Whos, MsgOK(m), Understood(m, who),
         Put(o, m, who)
  PROVE  ObjectsOK'
<1>1. m \in Messages
  BY DEF MsgOK
<1>2. obj' \in [Objs -> Messages] /\ made' \in [Objs -> Whos]
  BY <1>1 DEF ObjectsOK, Put
<1>3. ASSUME NEW p \in Objs PROVE MsgOK(obj'[p]) /\ Understood(obj'[p], made'[p])
  <2>1. CASE p = o
    BY <2>1 DEF ObjectsOK, Put
  <2>2. CASE p # o
    BY <2>2 DEF ObjectsOK, Put
  <2> QED
    BY <2>1, <2>2
<1> QED
  BY <1>2, <1>3 DEF ObjectsOK

(* So may it when the wire is left alone.                                  *)
LEMMA FillOK ==
  ASSUME IInv, NEW o \in Objs, NEW m, NEW who \in Whos, MsgOK(m), Understood(m, who),
         Fill(o, m, who)
  PROVE  IInv'
<1>1. ObjectsOK'
  BY PutOK DEF IInv, Fill
<1> QED
  BY <1>1 DEF IInv, Fill, WireOK

(* The users of the class set what the setters accept.                     *)
LEMMA UserSettable == ASSUME NEW s \in UserSets PROVE Settable(s[1], s[2])
  BY UserAssumption DEF Settable, Fields, TypeField, ErrorField, MessageType_IsValid,
     ErrorCode_IsValid

(* The other users of the class keep the invariant.                        *)
LEMMA ChangeOK == ASSUME IInv, NEW o \in Objs, Change(o) PROVE IInv'
<1>0. MsgOK(obj[o])
  BY DEF IInv, ObjectsOK
<1>1. ASSUME NEW m, MsgOK(m), Fill(o, m, Other) PROVE IInv'
  BY <1>1, FillOK, OtherOK
<1>2. ASSUME NEW s \in UserSets, Fill(o, SetField(obj[o], s[1], s[2]), Other) PROVE IInv'
  BY <1>0, <1>1, <1>2, UserSettable, SetOK
<1>3. ASSUME NEW s \in UserSets, Fill(o, ClearField(obj[o], s[1]), Other) PROVE IInv'
  BY <1>0, <1>1, <1>3, UserSettable, ClearFieldOK DEF Settable
<1>4. ASSUME NEW s \in UserSets, Fill(o, MutableField(obj[o], s[1]), Other) PROVE IInv'
  BY <1>0, <1>1, <1>4, UserSettable, MutableOK DEF Settable
<1>5. ASSUME NEW s \in UserSets, NEW text \in {{}, {s[2]}},
             Fill(o, SetAllocated(obj[o], s[1], text), Other)
      PROVE  IInv'
  BY <1>0, <1>1, <1>5, UserSettable, SetAllocatedOK
<1>6. ASSUME Fill(o, Clear(obj[o]), Other) PROVE IInv'
  BY <1>0, <1>1, <1>6, ClearEmpties, EmptyOK
<1> QED
  BY <1>2, <1>3, <1>4, <1>5, <1>6 DEF Change

(* The REQUEST branch keeps the invariant.                                 *)
LEMMA AnswerOK == ASSUME IInv, NEW o \in Objs, Answer(o) PROVE IInv'
<1> DEFINE who == IF made[o][1] = "call" THEN <<"reply", made[o][2]>> ELSE Other
<1>1. /\ MsgOK(obj[o]) /\ made[o] \in Whos /\ Understood(obj[o], made[o])
      /\ OnRpcMessage(obj[o])[1] = "serve"
  BY DEF IInv, ObjectsOK, Answer
<1>2. who \in Whos
  BY <1>1, OtherOK DEF Whos
<1>3. PICK m : /\ \/ \E e \in Errors : m = ErrorReply(obj[o], e)
                  \/ \E n \in TextSizes : m = Response(obj[o], n)
               /\ Fill(o, m, who)
  BY DEF Answer
<1>4. MsgOK(m) /\ Understood(m, who)
  BY <1>1, <1>3, RepliesOK
<1> HIDE DEF who
<1> QED
  BY <1>2, <1>3, <1>4, FillOK

(* Swap keeps the invariant.                                               *)
LEMMA SwapOK == ASSUME IInv, NEW o \in Objs, NEW p \in Objs, Swap(o, p) PROVE IInv'
<1>1. /\ obj' = [obj EXCEPT ![o] = obj[p], ![p] = obj[o]]
      /\ made' = [made EXCEPT ![o] = made[p], ![p] = made[o]]
      /\ obj \in [Objs -> Messages] /\ made \in [Objs -> Whos]
  BY DEF Swap, IInv, ObjectsOK
<1>2. obj' \in [Objs -> Messages] /\ made' \in [Objs -> Whos]
  BY <1>1
<1>3. ASSUME NEW q \in Objs PROVE \E r \in Objs : obj'[q] = obj[r] /\ made'[q] = made[r]
  BY <1>1
<1>4. ObjectsOK'
  BY <1>2, <1>3 DEF IInv, ObjectsOK
<1> QED
  BY <1>4 DEF Swap, IInv, WireOK

(* serializeToBuffer keeps the invariant.                                  *)
LEMMA SendOK == ASSUME IInv, NEW o \in Objs, Send(o) PROVE IInv'
<1>1. ObjectsOK'
  BY PutOK, EmptyOK, OtherOK DEF Send, IInv
<1>2. MsgOK(obj[o]) /\ Understood(obj[o], made[o]) /\ made[o] \in Whos
  BY DEF IInv, ObjectsOK
<1>3. WireOK'
  BY <1>2, WrittenType DEF Send, WireOK
<1> QED
  BY <1>1, <1>3 DEF IInv

(* Parsing a payload keeps the invariant, since it gives back the message  *)
(* that was written.                                                       *)
LEMMA ReceiveOK == ASSUME IInv, NEW o \in Objs, Receive(o) PROVE IInv'
<1>0. MsgOK(obj[o]) /\ wire \in Seq(Entries) /\ origin \in Whos
  BY DEF IInv, ObjectsOK, WireOK
<1>1. MsgOK(Parse(obj[o], wire))
  BY <1>0, ParsedOK
<1>2. Understood(Parse(obj[o], wire), origin)
  <2>1. CASE origin = Other
    BY <2>1, OtherOK
  <2>2. CASE origin # Other
    <3>1. MsgOK(source) /\ Understood(source, origin) /\ wire = Serialize(source)
      BY <2>2 DEF IInv, WireOK
    <3>2. Parse(obj[o], wire) = source
      BY <1>0, <3>1, RoundTripOK
    <3> QED
      BY <3>1, <3>2
  <2> QED
    BY <2>1, <2>2
<1>3. ObjectsOK'
  BY <1>0, <1>1, <1>2, PutOK DEF IInv, Receive
<1>4. WireOK'
  BY EmptyOK, EmptyWritten, OtherOK DEF Receive, WireOK
<1> QED
  BY <1>3, <1>4 DEF IInv

(* The invariant holds when all objects are new.                           *)
LEMMA Start == Init => IInv
<1> SUFFICES ASSUME Init PROVE IInv
  OBVIOUS
<1>1. ObjectsOK
  <2>1. EmptyMessage \in Messages
    BY EmptyOK DEF MsgOK
  <2> QED
    BY <2>1, EmptyOK, OtherOK DEF Init, ObjectsOK
<1>2. WireOK
  BY EmptyOK, EmptyWritten, OtherOK DEF Init, WireOK
<1> QED
  BY <1>1, <1>2 DEF IInv

(* Every step keeps the invariant.                                         *)
LEMMA Step == IInv /\ [Next]_vars => IInv'
<1> SUFFICES ASSUME IInv, [Next]_vars PROVE IInv'
  OBVIOUS
<1>1. ASSUME NEW o \in Objs, CallMethod(o) PROVE IInv'
  <2>1. PICK i \in CallIds, n \in TextSizes : Fill(o, Request(i, n, n), <<"call", i>>)
    BY <1>1 DEF CallMethod
  <2>2. <<"call", i>> \in Whos
    BY MessageAssumption DEF Whos
  <2> QED
    BY <2>1, <2>2, RequestOK, FillOK
<1>2. ASSUME NEW o \in Objs, NEW p \in Objs, Merge(o, p) PROVE IInv'
  <2>1. MsgOK(MergeFrom(obj[o], obj[p]))
    BY MergeOK DEF IInv, ObjectsOK
  <2> QED
    BY <1>2, <2>1, FillOK, OtherOK DEF Merge
<1>3. ASSUME NEW o \in Objs, NEW p \in Objs, Copy(o, p) PROVE IInv'
  <2>1. MsgOK(obj[o]) /\ MsgOK(obj[p]) /\ Understood(obj[p], made[p]) /\ made[p] \in Whos
    BY DEF IInv, ObjectsOK
  <2>2. Fill(o, obj[p], made[p])
    BY <1>3, <2>1, CopySame DEF Copy
  <2> QED
    BY <2>1, <2>2, FillOK
<1>4. ASSUME NEW w \in PeerWires, PeerSends(w) PROVE IInv'
  <2>1. w \in Seq(Entries)
    BY UserAssumption DEF Entries
  <2> QED
    BY <1>4, <2>1, OtherOK DEF PeerSends, IInv, ObjectsOK, WireOK
<1>5. CASE UNCHANGED vars
  BY <1>5 DEF vars, IInv, ObjectsOK, WireOK
<1> QED
  BY <1>1, <1>2, <1>3, <1>4, <1>5, AnswerOK, ChangeOK, SendOK, ReceiveOK, SwapOK DEF Next

-----------------------------------------------------------------------------
(* The theorems.                                                           *)

(* The invariant holds in every reachable state.                           *)
THEOREM Invariance == Spec => []IInv
  BY Start, Step, PTL DEF Spec

(* Whatever is set, merged or parsed, the enums of an object have values   *)
(* of their enum, and what is kept unread is nothing it could have read.   *)
THEOREM EnumsValid == Spec => []TypeOK
<1>1. IInv => TypeOK
  BY DEF IInv, ObjectsOK, MsgOK, Unread, TypeOK
<1> QED
  BY <1>1, Invariance, PTL

(* No sequence of operations leaves a value in a field that is not         *)
(* present, so that the getters, which do not look at the has-bits, never  *)
(* return a value from an earlier use of the object.                       *)
THEOREM NothingStale == Spec => []NoStaleValue
<1>1. IInv => NoStaleValue
  BY DEF IInv, ObjectsOK, MsgOK, NoStaleValue
<1> QED
  BY <1>1, Invariance, PTL

(* Any message that was serialized is parsed back to itself, with its      *)
(* default values and its unread fields, into any object.                  *)
THEOREM ParsedBack == Spec => []RoundTrip
<1>1. ASSUME IInv, space >= 0, NEW o \in Objs PROVE Parse(obj[o], wire) = source
  <2>1. MsgOK(obj[o])
    BY <1>1 DEF IInv, ObjectsOK
  <2>2. MsgOK(source) /\ wire = Serialize(source)
    BY <1>1 DEF IInv, WireOK
  <2> QED
    BY <2>1, <2>2, RoundTripOK
<1>2. IInv => RoundTrip
  BY <1>1 DEF RoundTrip
<1> QED
  BY <1>2, Invariance, PTL

(* ByteSize is exactly what SerializeWithCachedSizesToArray writes, so the *)
(* codec's consistency check never fails.                                  *)
THEOREM RoomExact == Spec => []SpaceExact
<1>1. ASSUME IInv, space >= 0 PROVE space = Bytes(wire)
  <2>1. MsgOK(source) /\ wire = Serialize(source) /\ space = ByteSize(source)
    BY <1>1 DEF IInv, WireOK
  <2> QED
    BY <2>1, ByteSizeExact
<1>2. IInv => SpaceExact
  BY <1>1 DEF SpaceExact
<1> QED
  BY <1>2, Invariance, PTL

(* Whatever id a call draws, negative ones included, and whatever texts it *)
(* carries, its request is served and the reply to it completes it.        *)
THEOREM CallsUnderstood == Spec => []OwnUnderstood
<1>1. IInv => OwnUnderstood
  BY UnderstoodOnce DEF IInv, ObjectsOK, OwnUnderstood
<1> QED
  BY <1>1, Invariance, PTL

(* Whatever another program sends, a parse gives each field its last       *)
(* readable value before the point where the parse ends.                   *)
THEOREM LastOneWins == Spec => []LastValueWins
<1>1. ASSUME IInv PROVE LastValueWins
  <2>1. wire \in Seq(Entries)
    BY <1>1 DEF IInv, WireOK
  <2> QED
    BY <2>1, LastRead DEF LastValueWins, Reads, Stops
<1> QED
  BY <1>1, Invariance, PTL
=============================================================================
