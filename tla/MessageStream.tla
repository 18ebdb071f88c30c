--------------------------- MODULE MessageStream ---------------------------
(***************************************************************************)
(* What ProtobufCodecLite promises the RpcChannel above it, and what the   *)
(* RpcChannel module takes for granted: the messages handed to             *)
(* messageCallback are the messages sent, in order, none twice and none    *)
(* skipped, until the connection stops for good.                           *)
(***************************************************************************)
EXTENDS Naturals, Sequences

CONSTANT Message   \* the messages that may be sent

VARIABLES
  sent,       \* the messages sent, in order
  delivered,  \* the messages handed to messageCallback, in order
  open        \* the receiving side still takes messages

vars == <<sent, delivered, open>>

Init == sent = <<>> /\ delivered = <<>> /\ open = TRUE

Send ==
  /\ sent' \in Seq(Message)
  /\ Len(sent') = Len(sent) + 1
  /\ \A i \in 1 .. Len(sent) : sent'[i] = sent[i]
  /\ UNCHANGED <<delivered, open>>

Deliver ==
  /\ open
  /\ Len(delivered) < Len(sent)
  /\ delivered' = Append(delivered, sent[Len(delivered) + 1])
  /\ UNCHANGED <<sent, open>>

Stop ==
  /\ open
  /\ open' = FALSE
  /\ UNCHANGED <<sent, delivered>>

Next == Send \/ Deliver \/ Stop

Spec == Init /\ [][Next]_vars
=============================================================================
