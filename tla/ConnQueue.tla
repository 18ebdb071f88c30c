----------------------------- MODULE ConnQueue -----------------------------
(***************************************************************************)
(* mRpc::ConnQueue, the doubly linked list of the connections of one       *)
(* worker: a head and a tail sentinel, the pointers next and pre, and the  *)
(* counter total.  A queue is a record; a Conn that is in no queue has     *)
(* null pointers.                                                          *)
(***************************************************************************)
EXTENDS Naturals, FiniteSets

CONSTANTS
  Conns,       \* the Conn objects
  HeadNode, TailNode,  \* the sentinels
  Null         \* the null pointer

Nodes == Conns \cup {HeadNode, TailNode}

(* ConnQueue::ConnQueue                                                    *)
EmptyQueue ==
  [next  |-> [n \in Nodes |-> IF n = HeadNode THEN TailNode ELSE Null],
   pre   |-> [n \in Nodes |-> IF n = TailNode THEN HeadNode ELSE Null],
   total |-> 0]

(* Mutant of InsertConn: the old first Conn keeps pointing at head.        *)
InsertConnForward(q, c) ==
  [next  |-> [q.next EXCEPT ![c] = q.next[HeadNode], ![HeadNode] = c],
   pre   |-> [q.pre EXCEPT ![c] = HeadNode],
   total |-> q.total + 1]

(* insertConn: between head and the first Conn.                            *)
InsertConn(q, c) ==
  LET first == q.next[HeadNode]
  IN  [next  |-> [q.next EXCEPT ![c] = first, ![HeadNode] = c],
       pre   |-> [q.pre EXCEPT ![c] = HeadNode, ![first] = c],
       total |-> q.total + 1]

(* deleteConn: the neighbours are joined and the Conn is deleted.          *)
DeleteConn(q, c) ==
  [next  |-> [q.next EXCEPT ![q.pre[c]] = q.next[c], ![c] = Null],
   pre   |-> [q.pre EXCEPT ![q.next[c]] = q.pre[c], ![c] = Null],
   total |-> q.total - 1]

(* The Conns linked into q.                                                *)
Linked(q) == {c \in Conns : q.next[c] # Null}

(* The k-th node of q when its Conns are in order s: head is node 0, tail  *)
(* the one after the last Conn.                                            *)
Node(q, s, k) == IF k = 0 THEN HeadNode ELSE IF k = q.total + 1 THEN TailNode ELSE s[k]

(* s is the order of the Conns of q: following next from head visits each  *)
(* of them once and ends at tail, as the destructor's loop needs; pre      *)
(* leads the same way back; total is their number.                         *)
OrderOf(q, s) ==
  /\ \A j, k \in 1 .. q.total : s[j] = s[k] => j = k
  /\ \A c \in Linked(q) : \E k \in 1 .. q.total : s[k] = c
  /\ \A k \in 0 .. q.total : /\ q.next[Node(q, s, k)] = Node(q, s, k + 1)
                             /\ q.pre[Node(q, s, k + 1)] = Node(q, s, k)

IsList(q) == q.total \in Nat /\ \E s \in [1 .. q.total -> Linked(q)] : OrderOf(q, s)
=============================================================================
