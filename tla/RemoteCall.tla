----------------------------- MODULE RemoteCall -----------------------------
(***************************************************************************)
(* What a user of mRpc may rely on: the abstract specification of a remote *)
(* call, which RpcChannel implements (RpcChannel!ImplementsCalls).         *)
(*                                                                         *)
(* A call is made and then, at most once, either completed, which runs its *)
(* closure on its own answer or on none (an error), or dropped with the    *)
(* channel, which runs no closure.  It may also stay open for ever.  Only  *)
(* when the calls of the process may have been confused with one another   *)
(* can a call be completed with the answer to another.                     *)
(***************************************************************************)
CONSTANTS
  Calls,   \* the calls
  NoCall   \* no answer: the call is not completed, or ended in an error

VARIABLES
  phase,    \* phase[c]: "new", "open", "done" or "dropped"
  result,   \* result[c]: the call whose answer c's closure was given
  confused  \* calls may have been confused with one another

vars == <<phase, result, confused>>

Init ==
  /\ phase = [c \in Calls |-> "new"]
  /\ result = [c \in Calls |-> NoCall]
  /\ confused = FALSE

Call(c) ==
  /\ phase[c] = "new"
  /\ phase' = [phase EXCEPT ![c] = "open"]
  /\ UNCHANGED <<result, confused>>

Complete(c, d) ==
  /\ phase[c] = "open"
  /\ d \in {c, NoCall} \/ confused
  /\ phase' = [phase EXCEPT ![c] = "done"]
  /\ result' = [result EXCEPT ![c] = d]
  /\ UNCHANGED confused

(* A channel goes and takes its open calls with it.                        *)
Drop(gone) ==
  /\ \A c \in gone : phase[c] = "open"
  /\ phase' = [c \in Calls |-> IF c \in gone THEN "dropped" ELSE phase[c]]
  /\ UNCHANGED <<result, confused>>

Confuse ==
  /\ confused' = TRUE
  /\ UNCHANGED <<phase, result>>

Next ==
  \/ \E c \in Calls : Call(c)
  \/ \E c \in Calls, d \in Calls \cup {NoCall} : Complete(c, d)
  \/ \E gone \in SUBSET Calls : Drop(gone)
  \/ Confuse

Spec == Init /\ [][Next]_vars
=============================================================================
