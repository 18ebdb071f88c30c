----------------------------- MODULE RpcMessage -----------------------------
(***************************************************************************)
(* mRpc::RpcMessage, the generated class of rpc.proto (rpc.pb.h and        *)
(* rpc.pb.cc), and what RpcChannel and the codec do with its objects: fill *)
(* a request or a reply, write it to the wire, parse it, choose a branch.  *)
(*                                                                         *)
(* A message has the has-bits, the values and the fields kept unread.  A   *)
(* text is its length.  The payload on the wire is a sequence of entries,  *)
(* one per field: number, value, and whether the payload ends inside it.   *)
(* The value of an enum is the int that the reader makes of its varint.    *)
(* Number 0 stands for the tags that end a parse (zero, end of a group);   *)
(* numbers 8 and 9 for any field that is not in rpc.proto or has another   *)
(* wire type than it: a number, and a text or a group.                     *)
(***************************************************************************)
EXTENDS Integers, Sequences, FiniteSetsExt

CONSTANTS
  Objs,       \* the RpcMessage objects
  IdRange,    \* 2^64: the ids are unsigned on the wire, signed in RpcChannel
  CallIds,    \* ids that calls draw
  Errors,     \* error codes that the REQUEST branch answers with
  TextSizes,  \* lengths of the texts that RpcChannel sets
  UserSets,   \* <<field, value>>: what other users of the class set
  PeerWires,  \* payloads that another program sends
  MaxOps      \* bound on the operations of other users and programs

ASSUME MessageAssumption ==
  /\ IdRange \in Nat \ {0} /\ IdRange % 2 = 0
  /\ CallIds \subseteq -(IdRange \div 2) .. (IdRange \div 2) - 1
  /\ Errors \subseteq 1 .. 6 /\ TextSizes \subseteq Nat
  /\ MaxOps \in Nat

(* The users of the class keep to the assertions of the setters; another   *)
(* program may send any payload.                                           *)
ASSUME UserAssumption ==
  /\ \A s \in UserSets : /\ s[1] \in 1 .. 7 /\ s[2] \in Nat
                         /\ s[1] = 1 => s[2] \in 0 .. 3
                         /\ s[1] = 7 => s[2] \in 0 .. 6
  /\ PeerWires \subseteq Seq([num : Nat, val : Nat, cut : BOOLEAN])

VARIABLES
  obj,     \* obj[o]: the message in object o
  wire,    \* the payload on the wire, one at a time
  space,   \* the bytes the codec reserved for it
  origin,  \* history: <<who, id>> of the message on the wire
  made,    \* history: <<who, id>> of the message in each object
  source,  \* history: the message that wire was made from
  ops      \* operations of other users and programs so far

vars == <<obj, wire, space, origin, made, source, ops>>

-----------------------------------------------------------------------------
(* The fields by number: type, id, service, method, request, response,     *)
(* error.                                                                  *)
Fields == 1 .. 7
TypeField == 1
IdField == 2
Texts == 3 .. 6
ErrorField == 7
OtherText == 9

REQUEST == 1
RESPONSE == 2
MessageType_IsValid(v) == v \in 0 .. 3
ErrorCode_IsValid(v) == v \in 0 .. 6

(* A new object: no has-bit is set and every value is its default, 0.      *)
EmptyMessage == [has |-> {}, val |-> [f \in Fields |-> 0], unknown |-> <<>>]

-----------------------------------------------------------------------------
(* Accessors.                                                              *)

(* set_f, for the texts in its three forms.                                *)
SetField(m, f, v) == [m EXCEPT !.has = @ \cup {f}, !.val[f] = v]

(* mutable_f: the caller gets the text as it is, and the field is present. *)
MutableField(m, f) == [m EXCEPT !.has = @ \cup {f}]

(* Mutant of ClearField: the has-bit goes, the value stays.                *)
ClearFieldBit(m, f) == [m EXCEPT !.has = @ \ {f}]

(* clear_f; release_f has the same effect, and gives the text away.        *)
ClearField(m, f) == [m EXCEPT !.has = @ \ {f}, !.val[f] = 0]

(* set_allocated_f: a null pointer clears the field.                       *)
SetAllocated(m, f, text) == IF text = {} THEN ClearField(m, f)
                            ELSE SetField(m, f, CHOOSE v \in text : TRUE)

(* Clear: any has-bit resets the numbers, and its own has-bit a text.      *)
Clear(m) ==
  [has |-> {},
   val |-> [f \in Fields |->
              IF f \in m.has \/ (f \notin Texts /\ m.has # {}) THEN 0 ELSE m.val[f]],
   unknown |-> <<>>]

MergeFrom(m, from) ==
  [has |-> m.has \cup from.has,
   val |-> [f \in Fields |-> IF f \in from.has THEN from.val[f] ELSE m.val[f]],
   unknown |-> m.unknown \o from.unknown]

CopyFrom(m, from) == MergeFrom(Clear(m), from)

-----------------------------------------------------------------------------
(* The wire.                                                               *)

Entry(f, v) == [num |-> f, val |-> v, cut |-> FALSE]

(* A field if it is in a set; the fields of a set by ascending number, and *)
(* then those kept unread.                                                 *)
WriteField(m, f, fields) == IF f \in fields THEN <<Entry(f, m.val[f])>> ELSE <<>>
Write(m, fields) ==
  WriteField(m, 1, fields) \o WriteField(m, 2, fields) \o WriteField(m, 3, fields)
    \o WriteField(m, 4, fields) \o WriteField(m, 5, fields) \o WriteField(m, 6, fields)
    \o WriteField(m, 7, fields) \o m.unknown

(* Mutant of Serialize: fields with default values are left out.           *)
SerializeNonDefault(m) == Write(m, {f \in m.has : m.val[f] # 0})

(* SerializeWithCachedSizesToArray: the fields that are present.           *)
Serialize(m) == Write(m, m.has)

(* Bytes of a varint of up to 32 bits and of an entry: what the protobuf   *)
(* library's functions write.                                              *)
VarintSize(n) ==
  IF n < 2^7 THEN 1 ELSE IF n < 2^14 THEN 2 ELSE IF n < 2^21 THEN 3
  ELSE IF n < 2^28 THEN 4 ELSE 5
EntrySize(e) ==
  1 + IF e.num = IdField THEN 8
      ELSE IF e.num \in Texts \cup {OtherText} THEN VarintSize(e.val) + e.val
      ELSE VarintSize(e.val)

(* The bytes of the first k entries of a sequence, and of all of them.     *)
BytesUpTo(w) ==
  LET sum[k \in 0 .. Len(w)] == IF k = 0 THEN 0 ELSE sum[k - 1] + EntrySize(w[k])
  IN  sum
Bytes(w) == BytesUpTo(w)[Len(w)]

(* Mutant of ByteSize: the length before a text is taken for one byte.     *)
ByteSizeShort(m) ==
  LET size(f) == IF f \notin m.has THEN 0
                 ELSE IF f = IdField THEN 9 ELSE IF f \in Texts THEN 2 + m.val[f] ELSE 2
  IN  size(1) + size(2) + size(3) + size(4) + size(5) + size(6) + size(7) + Bytes(m.unknown)

(* ByteSize: an enum is a varint, an id eight bytes, a text has its length *)
(* in front.                                                               *)
ByteSize(m) ==
  LET size(f) == IF f \notin m.has THEN 0
                 ELSE IF f = IdField THEN 1 + 8
                 ELSE IF f \in Texts THEN 1 + VarintSize(m.val[f]) + m.val[f]
                 ELSE 1 + VarintSize(m.val[f])
  IN  size(1) + size(2) + size(3) + size(4) + size(5) + size(6) + size(7) + Bytes(m.unknown)

(* A field of rpc.proto with a value that it may have.                     *)
Known(e) == /\ e.num \in Fields
            /\ e.num = TypeField => MessageType_IsValid(e.val)
            /\ e.num = ErrorField => ErrorCode_IsValid(e.val)

(* What is left of a field that the payload ends in: of a text, be it one  *)
(* to read or one kept unread, as much as there is.                        *)
CutField(m, e) ==
  IF e.num \in Texts THEN SetField(m, e.num, e.val)
  ELSE IF e.num = OtherText THEN [m EXCEPT !.unknown = Append(@, Entry(e.num, e.val))]
  ELSE m

(* One round of MergePartialFromCodedStream.  It ends at a tag that ends   *)
(* it or at a field the payload ends in; a field that is not known is kept *)
(* unread.                                                                 *)
ReadField(p, e, known) ==
  IF ~p.going THEN p
  ELSE IF e.num = 0 \/ e.cut THEN [msg |-> CutField(p.msg, e), going |-> FALSE]
  ELSE IF known THEN [p EXCEPT !.msg = SetField(@, e.num, e.val)]
  ELSE [p EXCEPT !.msg.unknown = Append(@, e)]

(* Mutant of ParseField: the values of enums are not checked.              *)
ParseFieldUnchecked(p, e) == ReadField(p, e, e.num \in Fields)

(* Mutant of ParseField: a field that is present is not overwritten.       *)
ParseFieldFirst(p, e) == IF e.num \in p.msg.has THEN p ELSE ReadField(p, e, Known(e))

ParseField(p, e) == ReadField(p, e, Known(e))

(* The rounds of a parse, and its state after the last.                    *)
Rounds(p, w) ==
  LET round[k \in 0 .. Len(w)] == IF k = 0 THEN p ELSE ParseField(round[k - 1], w[k])
  IN  round
MergePartial(p, w) == Rounds(p, w)[Len(w)]

(* ParseFromArray clears the object; the codec delivers what is then in it,*)
(* whether all of the payload was parsed or not.                           *)
Parse(m, w) == MergePartial([msg |-> Clear(m), going |-> TRUE], w).msg

-----------------------------------------------------------------------------
(* RpcChannel's use of the messages.                                       *)

(* set_id takes the signed id for an unsigned one, `int64_t id =           *)
(* message.id()' takes it back.                                            *)
ToUnsigned(i) == i % IdRange

(* Mutant of ToSigned: the id is kept in an unsigned variable.             *)
ToSignedNot(u) == u

ToSigned(u) == IF u < IdRange \div 2 THEN u ELSE u - IdRange

(* CallMethod's message, from a fresh object.                              *)
Request(i, name, body) ==
  [Clear(EmptyMessage) EXCEPT
     !.has = 1 .. 5,
     !.val = <<REQUEST, ToUnsigned(i), name, name, body, 0, 0>>]

(* onRpcMessage's reply with an error, and doneCallback's with a response. *)
ErrorReply(m, e) ==
  SetField(SetField(SetField(EmptyMessage, TypeField, RESPONSE),
                    IdField, m.val[IdField]), ErrorField, e)

Response(m, body) ==
  SetField(SetField(SetField(EmptyMessage, TypeField, RESPONSE),
                    IdField, ToUnsigned(ToSigned(m.val[IdField]))), 6, body)

(* The branch of onRpcMessage, and the id it works with.  A RESPONSE with  *)
(* neither a response nor an error fails its assertion.                    *)
OnRpcMessage(m) ==
  LET type == m.val[TypeField]
      branch == IF type = RESPONSE
                  THEN IF m.has \cap {6, ErrorField} # {} THEN "complete" ELSE "assert"
                  ELSE IF type = REQUEST THEN "serve" ELSE "ignore"
  IN  <<branch, ToSigned(m.val[IdField])>>

-----------------------------------------------------------------------------
Other == <<"other", 0>>

Init ==
  /\ obj = [o \in Objs |-> EmptyMessage]
  /\ wire = <<>> /\ space = 0 /\ source = EmptyMessage
  /\ origin = Other
  /\ made = [o \in Objs |-> Other]
  /\ ops = 0

(* An operation of the library itself; one of its other users.             *)
Own == UNCHANGED ops
Foreign == ops < MaxOps /\ ops' = ops + 1

(* Object o now holds message m, which who made.                           *)
Put(o, m, who) ==
  /\ obj' = [obj EXCEPT ![o] = m]
  /\ made' = [made EXCEPT ![o] = who]

Fill(o, m, who) == Put(o, m, who) /\ UNCHANGED <<wire, space, origin, source>>

(* CallMethod's local message is a new one.                                *)
CallMethod(o) ==
  /\ Own
  /\ obj[o] = EmptyMessage
  /\ \E i \in CallIds, n \in TextSizes : Fill(o, Request(i, n, n), <<"call", i>>)

(* The REQUEST branch answers the request in object o.                     *)
Answer(o) ==
  /\ Own
  /\ OnRpcMessage(obj[o])[1] = "serve"
  /\ LET who == IF made[o][1] = "call" THEN <<"reply", made[o][2]>> ELSE Other
     IN  \/ \E e \in Errors : Fill(o, ErrorReply(obj[o], e), who)
         \/ \E n \in TextSizes :
              OnRpcMessage(obj[o])[2] # 0 /\ Fill(o, Response(obj[o], n), who)

(* Another user of the class changes an object.                            *)
Change(o) ==
  /\ Foreign
  /\ \/ \E s \in UserSets : Fill(o, SetField(obj[o], s[1], s[2]), Other)
     \/ \E s \in UserSets : Fill(o, ClearField(obj[o], s[1]), Other)
     \/ \E s \in UserSets : s[1] \in Texts /\ Fill(o, MutableField(obj[o], s[1]), Other)
     \/ \E s \in UserSets : s[1] \in Texts /\ \E text \in {{}, {s[2]}} :
          Fill(o, SetAllocated(obj[o], s[1], text), Other)
     \/ Fill(o, Clear(obj[o]), Other)

Merge(o, p) == o # p /\ Foreign /\ Fill(o, MergeFrom(obj[o], obj[p]), Other)
Copy(o, p) == o # p /\ Foreign /\ Fill(o, CopyFrom(obj[o], obj[p]), made[p])

Swap(o, p) ==
  /\ Foreign
  /\ obj' = [obj EXCEPT ![o] = obj[p], ![p] = obj[o]]
  /\ made' = [made EXCEPT ![o] = made[p], ![p] = made[o]]
  /\ UNCHANGED <<wire, space, origin, source>>

(* serializeToBuffer: room for ByteSize bytes, then the fields.  The       *)
(* object was local to its sender, and goes.                               *)
Send(o) ==
  /\ Own /\ wire = <<>>
  /\ wire' = Serialize(obj[o])
  /\ space' = ByteSize(obj[o])
  /\ origin' = made[o] /\ source' = obj[o]
  /\ Put(o, EmptyMessage, Other)

(* Another program puts a payload on the wire.                             *)
PeerSends(w) ==
  /\ Foreign /\ wire = <<>>
  /\ wire' = w
  /\ space' = -1
  /\ origin' = Other /\ UNCHANGED <<obj, made, source>>

(* The codec parses the payload into a new object and drains it.           *)
Receive(o) ==
  /\ Own
  /\ obj[o] = EmptyMessage /\ wire # <<>>
  /\ Put(o, Parse(obj[o], wire), origin)
  /\ wire' = <<>> /\ space' = 0 /\ source' = EmptyMessage
  /\ origin' = Other

Next ==
  \/ \E o \in Objs : CallMethod(o) \/ Answer(o) \/ Change(o) \/ Send(o) \/ Receive(o)
  \/ \E o, p \in Objs : Merge(o, p) \/ Copy(o, p) \/ Swap(o, p)
  \/ \E w \in PeerWires : PeerSends(w)

Spec == Init /\ [][Next]_vars

-----------------------------------------------------------------------------
(* Properties.                                                             *)

(* The enums of an object, whatever was parsed into it, have values of     *)
(* their enum, as the assertions in set_type and set_error demand, and     *)
(* what is kept unread is nothing this class could have read.              *)
TypeOK ==
  \A o \in Objs :
    /\ MessageType_IsValid(obj[o].val[TypeField])
    /\ ErrorCode_IsValid(obj[o].val[ErrorField])
    /\ \A i \in DOMAIN obj[o].unknown : ~Known(obj[o].unknown[i])

(* A field that is not present has its default value, after any sequence   *)
(* of setting, clearing, merging, swapping and parsing: the getters do not *)
(* look at the has-bits, and Clear leaves the texts alone that have none.  *)
NoStaleValue == \A o \in Objs : \A f \in Fields \ obj[o].has : obj[o].val[f] = 0

(* Parsing what an object was serialized to gives that object back: the    *)
(* default values that were set, and the fields it could not read.         *)
RoundTrip == space >= 0 => \A o \in Objs : Parse(obj[o], wire) = source

(* The codec writes exactly the bytes it reserved, so that the consistency *)
(* check of serializeToBuffer never fails.                                 *)
SpaceExact == space >= 0 => space = Bytes(wire)

(* A request made by CallMethod reaches the branch that serves it and the  *)
(* reply to it the branch that completes the call, with the id the call    *)
(* drew, through two messages and the changes of its sign, whatever lengths*)
(* the texts have; its assertion on the reply holds.                       *)
OwnUnderstood ==
  \A o \in Objs :
    made[o] # Other =>
      OnRpcMessage(obj[o]) = <<IF made[o][1] = "call" THEN "serve" ELSE "complete", made[o][2]>>

(* A parse gives each field its last readable value before the point where *)
(* the payload ends or a tag ends it, and leaves the others at default.    *)
LastValueWins ==
  LET stops == {i \in DOMAIN wire : wire[i].num = 0 \/ wire[i].cut}
      read(f) == {i \in DOMAIN wire :
                    /\ wire[i].num = f /\ Known(wire[i])
                    /\ \A j \in stops : i < j \/ (i = j /\ f \in Texts)}
      m == Parse(EmptyMessage, wire)
  IN  \A f \in Fields :
        IF read(f) = {} THEN f \notin m.has /\ m.val[f] = 0
        ELSE f \in m.has /\ m.val[f] = wire[Max(read(f))].val
=============================================================================
