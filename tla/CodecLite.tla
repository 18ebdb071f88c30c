----------------------------- MODULE CodecLite -----------------------------
(***************************************************************************)
(* mRpc::ProtobufCodecLite over one direction of one connection: send      *)
(* with fillEmptyBuffer and serializeToBuffer on one side; onMessage,      *)
(* parse and defaultErrorCallback on the other.                            *)
(*                                                                         *)
(* The stream is modelled to the byte, as offsets.  A frame is a header of *)
(* HeaderLen bytes holding len, then len bytes: the tag, the payload and   *)
(* the checksum.  TCP hands the stream over in order, in pieces of any     *)
(* size; each piece triggers the read callback, which runs onMessage to    *)
(* its end before the event loop reads more.                               *)
(*                                                                         *)
(* Abstraction.  Of the bytes of a frame only the two words that onMessage *)
(* can ever take for a length are kept: the header and the tag.  What      *)
(* parse makes of the rest is the frame's fault: none, or the first test   *)
(* it fails (another checksum, another tag, not the message type).  The    *)
(* offsets other than these two are never read as a length: see Position   *)
(* in CodecLiteProofs.                                                     *)
(***************************************************************************)
EXTENDS Integers, Sequences

CONSTANTS
  MaxMessageLen,  \* maxMessageLen
  TagWord,        \* the bytes "mRpc" read as a big-endian int
  OtherTag,       \* the tag of another protocol, read likewise
  Sizes,          \* the sizes of the serialized messages
  Faults,         \* what can be wrong with a frame on arrival
  Linked,         \* the Conn is in its thread's queue: a server's is, a client's is not
  MaxFrames       \* bound on the number of frames sent

HeaderLen == 4
TagLen == 4
ChecksumLen == 4
MinMessageLen == TagLen + ChecksumLen

(* "mRpc" is 0x6D527063; the tag of any other printable protocol, too, is  *)
(* far above 64 MiB.                                                       *)
ASSUME SizeAssumption ==
  /\ MaxMessageLen \in Nat /\ MaxMessageLen >= MinMessageLen
  /\ TagWord \in Int /\ TagWord > MaxMessageLen
  /\ OtherTag \in Int /\ OtherTag > MaxMessageLen
  /\ Sizes \subseteq Nat
  /\ Faults \subseteq {"none", "checksum", "tag", "protobuf"}
  /\ Linked \in BOOLEAN

VARIABLES
  sent,       \* the frames sent, in order
  written,    \* bytes written to the stream
  arrived,    \* bytes that reached the read buffer
  rd,         \* bytes taken out of the read buffer
  pc,         \* "idle": in the event loop; "loop": at the head of onMessage's loop
  status,     \* "open", "closed" (freed by the error callback) or "crashed"
  delivered,  \* the frames handed to messageCallback
  split       \* history: a header was consumed before its frame was complete

vars == <<sent, written, arrived, rd, pc, status, delivered, split>>

Frames == [start : Nat, len : Nat, fault : Faults]
Tag(f) == IF f.fault = "tag" THEN OtherTag ELSE TagWord
Buffered == arrived - rd

Init ==
  /\ sent = <<>>
  /\ written = 0
  /\ arrived = 0
  /\ rd = 0
  /\ pc = "idle"
  /\ status = "open"
  /\ delivered = <<>>
  /\ split = FALSE

-----------------------------------------------------------------------------
(* send: the whole frame goes to the output buffer at once.  Its size is   *)
(* not checked against maxMessageLen.                                      *)
Send(size, fault) ==
  LET len == TagLen + size + ChecksumLen
  IN  /\ Len(sent) < MaxFrames
      /\ sent' = Append(sent, [start |-> written, len |-> len, fault |-> fault])
      /\ written' = written + HeaderLen + len
      /\ UNCHANGED <<arrived, rd, pc, status, delivered, split>>

(* The event loop reads n bytes and calls the read callback.               *)
Arrive(n) ==
  /\ status = "open" /\ pc = "idle"
  /\ arrived + n <= written
  /\ arrived' = arrived + n
  /\ pc' = "loop"
  /\ UNCHANGED <<sent, written, rd, status, delivered, split>>

-----------------------------------------------------------------------------
(* onMessage: one action per way through the body of its loop.             *)

(* len: what the next HeaderLen bytes of the read buffer spell.            *)
ReadsLen(i, len) ==
  \/ rd = sent[i].start /\ len = sent[i].len
  \/ rd = sent[i].start + HeaderLen /\ len = Tag(sent[i])

(* Mutant of HasHeader: > for >=.                                          *)
HasHeaderStrict == Buffered > MinMessageLen + HeaderLen

HasHeader == Buffered >= MinMessageLen + HeaderLen

(* Mutant of ValidLen: < for <=.                                           *)
ValidLenStrict(len) == len < MaxMessageLen /\ len >= MinMessageLen

(* The second test is one of unsigned numbers, which a negative len passes.*)
ValidLen(len) == len <= MaxMessageLen /\ (len < 0 \/ len >= MinMessageLen)

(* Mutant of Complete: the header is not deducted, although readBuffer has *)
(* already taken it out.                                                   *)
CompleteWithHeader(len) == Buffered >= len

(* The frame whose header was just removed is complete.  This test, too,   *)
(* is unsigned: a negative len is more than a buffer ever holds.           *)
Complete(len) == len >= 0 /\ Buffered - HeaderLen >= len

(* parse: a message that protobuf cannot parse counts as noError.          *)
ParseOK(f) == f.fault \in {"none", "protobuf"}

LoopExit ==
  /\ pc = "loop"
  /\ ~HasHeader
  /\ pc' = "idle"
  /\ UNCHANGED <<sent, written, arrived, rd, status, delivered, split>>

(* defaultErrorCallback: the bufferevent is freed and the Conn unlinked    *)
(* and deleted.  For a client's Conn, which is in no queue, unlinking      *)
(* follows a null pointer.                                                 *)
Refuse ==
  /\ status' = IF Linked THEN "closed" ELSE "crashed"
  /\ rd' = rd + HeaderLen
  /\ pc' = "idle"
  /\ UNCHANGED <<sent, written, arrived, delivered, split>>

BadLength ==
  /\ pc = "loop"
  /\ HasHeader
  /\ \E i \in DOMAIN sent : \E len \in {sent[i].len, Tag(sent[i])} :
       ReadsLen(i, len) /\ ~ValidLen(len)
  /\ Refuse

(* The header is gone, the body is not there yet: the loop is left.        *)
Incomplete ==
  /\ pc = "loop"
  /\ HasHeader
  /\ \E i \in DOMAIN sent : \E len \in {sent[i].len, Tag(sent[i])} :
       ReadsLen(i, len) /\ ValidLen(len) /\ ~Complete(len)
  /\ rd' = rd + HeaderLen
  /\ split' = TRUE
  /\ pc' = "idle"
  /\ UNCHANGED <<sent, written, arrived, status, delivered>>

(* Frame i is at the head of the read buffer, valid and complete.          *)
Whole(i) ==
  /\ pc = "loop"
  /\ HasHeader
  /\ ReadsLen(i, sent[i].len)
  /\ ValidLen(sent[i].len)
  /\ Complete(sent[i].len)

(* Mutant of Deliver: the frame is copied out but not drained.             *)
DeliverNoDrain ==
  /\ \E i \in DOMAIN sent :
       Whole(i) /\ ParseOK(sent[i]) /\ delivered' = Append(delivered, sent[i])
  /\ Len(delivered) < MaxFrames
  /\ UNCHANGED <<sent, written, arrived, rd, pc, status, split>>

(* messageCallback, then the drain.                                        *)
Deliver ==
  /\ \E i \in DOMAIN sent :
       /\ Whole(i)
       /\ ParseOK(sent[i])
       /\ delivered' = Append(delivered, sent[i])
       /\ rd' = rd + HeaderLen + sent[i].len
  /\ UNCHANGED <<sent, written, arrived, pc, status, split>>

(* Mutant of ParseFail: a frame that fails the tests is skipped.           *)
ParseFailSkip ==
  /\ \E i \in DOMAIN sent :
       Whole(i) /\ ~ParseOK(sent[i]) /\ rd' = rd + HeaderLen + sent[i].len
  /\ UNCHANGED <<sent, written, arrived, pc, status, delivered, split>>

ParseFail ==
  /\ \E i \in DOMAIN sent : Whole(i) /\ ~ParseOK(sent[i])
  /\ Refuse

OnMessage == LoopExit \/ BadLength \/ Incomplete \/ Deliver \/ ParseFail

Next ==
  \/ \E size \in Sizes, fault \in Faults : Send(size, fault)
  \/ \E n \in 1 .. written - arrived : Arrive(n)
  \/ OnMessage

Spec == Init /\ [][Next]_vars

(* TCP delivers what was written, and an event loop that runs the callback *)
(* comes to its end.                                                       *)
Fairness ==
  /\ WF_vars(\E n \in 1 .. written - arrived : Arrive(n))
  /\ WF_vars(OnMessage)

FairSpec == Spec /\ Fairness

-----------------------------------------------------------------------------
(* Properties.                                                             *)

(* Every variable has its type, and no byte is read before it arrived or   *)
(* arrives before it was written.                                          *)
TypeOK ==
  /\ sent \in Seq(Frames) /\ delivered \in Seq(Frames)
  /\ written \in Nat /\ arrived \in 0 .. written /\ rd \in 0 .. arrived
  /\ pc \in {"idle", "loop"}
  /\ status \in {"open", "closed", "crashed"}
  /\ split \in BOOLEAN

(* messageCallback gets the frames sent, in order, none twice and none     *)
(* skipped, however the stream is cut and whatever is wrong with a frame.  *)
InOrder ==
  /\ Len(delivered) <= Len(sent)
  /\ \A i \in DOMAIN delivered : delivered[i] = sent[i]

Stream == INSTANCE MessageStream WITH Message <- Frames, open <- status = "open"

(* The codec implements the stream of messages that RpcChannel relies on:  *)
(* in particular, nothing is delivered after the error callback.           *)
ImplementsStream == Stream!Spec

(* A frame the receiver should take: parse accepts it and its length is    *)
(* within the limit.                                                       *)
Good(f) == ParseOK(f) /\ f.len <= MaxMessageLen

(* The error callback closes a connection only for a frame that is not     *)
(* good, the first one not delivered, or after a header was consumed       *)
(* without its frame.                                                      *)
RefusalExplained ==
  status # "open" =>
    split \/ (Len(delivered) < Len(sent) /\ ~Good(sent[Len(delivered) + 1]))

(* A stream of good frames is delivered, unless a header is consumed       *)
(* without its frame.                                                      *)
GoodDelivered ==
  \A k \in 1 .. MaxFrames :
    (Len(sent) >= k /\ \A i \in 1 .. k : Good(sent[i]))
      ~> (Len(delivered) >= k \/ split)

(* What the wire format promises: a stream of good frames is not refused,  *)
(* however TCP cuts it.                                                    *)
GoodStreamAccepted ==
  (\A i \in DOMAIN sent : Good(sent[i])) => status = "open"
=============================================================================
