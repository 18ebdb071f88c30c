-------------------------- MODULE TcpServerProofs --------------------------
(* Machine-checked proofs about TcpServer and the ConnQueues of its        *)
(* workers, for any number of workers, connections, pipe entries and calls *)
(* of quit.                                                                *)
EXTENDS TcpServer, FiniteSetTheorems, TLAPS

-----------------------------------------------------------------------------
(* The list of a worker's connections.                                     *)

Queues ==
  [next : [Q!Nodes -> Q!Nodes \cup {Null}], pre : [Q!Nodes -> Q!Nodes \cup {Null}], total : Nat]

(* Sentinels and null are no connections, and differ.                      *)
LEMMA Distinct ==
  /\ HeadNode \notin Fds /\ TailNode \notin Fds /\ Null \notin Fds
  /\ HeadNode # TailNode /\ HeadNode # Null /\ TailNode # Null
  /\ Nobody \notin Fds /\ ExitCode \notin Fds
  BY ServerAssumption DEF ServerAssumption

(* A new queue is a list.                                                  *)
LEMMA EmptyIsList ==
  /\ Q!EmptyQueue \in Queues /\ Q!IsList(Q!EmptyQueue)
  /\ Q!Linked(Q!EmptyQueue) = {} /\ Q!EmptyQueue.total = 0
<1> DEFINE q == Q!EmptyQueue
<1>1. q \in Queues /\ q.total = 0
  BY DEF Queues, Q!EmptyQueue, Q!Nodes
<1>2. Q!Linked(q) = {}
  BY Distinct DEF Q!EmptyQueue, Q!Linked, Q!Nodes
<1>3. PICK s : s = [k \in 1 .. 0 |-> Null]
  OBVIOUS
<1>4. s \in [1 .. q.total -> Q!Linked(q)]
  BY <1>1, <1>3
<1>5. Q!OrderOf(q, s)
  BY <1>1, <1>2, Distinct DEF Q!OrderOf, Q!Node, Q!EmptyQueue, Q!Nodes
<1>6. q.total \in Nat
  BY <1>1
<1> HIDE DEF q
<1>7. Q!IsList(q)
  BY <1>4, <1>5, <1>6 DEF Q!IsList
<1> QED
  BY <1>1, <1>2, <1>7 DEF q

(* insertConn of a Conn that is in no list keeps the list, and adds it.    *)
LEMMA InsertKeepsList ==
  ASSUME NEW q \in Queues, Q!IsList(q), NEW c \in Fds, c \notin Q!Linked(q)
  PROVE  /\ Q!InsertConn(q, c) \in Queues /\ Q!IsList(Q!InsertConn(q, c))
         /\ Q!Linked(Q!InsertConn(q, c)) = Q!Linked(q) \cup {c}
<1> DEFINE p == Q!InsertConn(q, c)
           n == q.total
           first == q.next[HeadNode]
<1>1. PICK s \in [1 .. n -> Q!Linked(q)] : Q!OrderOf(q, s)
  BY DEF Q!IsList
<1>2. n \in Nat /\ q.next \in [Q!Nodes -> Q!Nodes \cup {Null}] /\ q.pre \in [Q!Nodes -> Q!Nodes \cup {Null}]
  BY DEF Queues
<1>3. \A k \in 1 .. n : s[k] \in Fds /\ s[k] # c /\ s[k] # HeadNode /\ s[k] # TailNode
  BY <1>1, Distinct DEF Q!Linked
<1>4. first = IF n = 0 THEN TailNode ELSE s[1]
  BY <1>1, <1>2 DEF Q!OrderOf, Q!Node
<1>5. first \in Q!Nodes /\ first # Null /\ first # c /\ first # HeadNode
  BY <1>2, <1>3, <1>4, Distinct DEF Q!Nodes
<1>6. c \in Q!Nodes /\ HeadNode \in Q!Nodes /\ c # HeadNode /\ c # Null
  BY Distinct DEF Q!Nodes
<1>7. /\ p.next = [[q.next EXCEPT ![c] = first] EXCEPT ![HeadNode] = c]
      /\ p.pre = [[q.pre EXCEPT ![c] = HeadNode] EXCEPT ![first] = c]
      /\ p.total = n + 1
  BY DEF Q!InsertConn
<1>8. p \in Queues
  BY <1>2, <1>5, <1>6 DEF Queues, Q!InsertConn
<1>9. Q!Linked(p) = Q!Linked(q) \cup {c}
  BY <1>2, <1>5, <1>6, <1>7, Distinct DEF Q!Linked, Q!Nodes
<1>10. PICK t : t = [k \in 1 .. n + 1 |-> IF k = 1 THEN c ELSE s[k - 1]]
  OBVIOUS
<1>17. 1 \in 1 .. n + 1 /\ t[1] = c
  BY <1>2, <1>10
<1> HIDE DEF p
<1>11. t \in [1 .. p.total -> Q!Linked(p)]
  BY <1>1, <1>2, <1>7, <1>9, <1>10
<1>12. /\ p.next[HeadNode] = c /\ p.next[c] = first
       /\ \A m \in Q!Nodes \ {c, HeadNode} : p.next[m] = q.next[m]
       /\ p.pre[first] = c /\ p.pre[c] = HeadNode
       /\ \A m \in Q!Nodes \ {c, first} : p.pre[m] = q.pre[m]
  BY <1>2, <1>5, <1>6, <1>7
<1>13. \A j, k \in 1 .. p.total : t[j] = t[k] => j = k
  BY <1>1, <1>2, <1>3, <1>7, <1>10 DEF Q!OrderOf
<1>14. \A d \in Q!Linked(p) : \E k \in 1 .. p.total : t[k] = d
  <2> SUFFICES ASSUME NEW d \in Q!Linked(p) PROVE \E k \in 1 .. n + 1 : t[k] = d
    BY <1>7
  <2>1. CASE d = c
    BY <2>1, <1>17
  <2>2. CASE d # c
    <3>1. PICK k \in 1 .. n : s[k] = d
      BY <2>2, <1>1, <1>9 DEF Q!OrderOf
    <3>2. k + 1 \in 1 .. n + 1 /\ t[k + 1] = d
      BY <3>1, <1>2, <1>10
    <3> QED
      BY <3>2
  <2> QED
    BY <2>1, <2>2
<1>15. ASSUME NEW k \in 0 .. p.total
       PROVE  /\ p.next[Q!Node(p, t, k)] = Q!Node(p, t, k + 1)
              /\ p.pre[Q!Node(p, t, k + 1)] = Q!Node(p, t, k)
  <2>1. CASE k = 0
    <3>1. Q!Node(p, t, 0) = HeadNode /\ Q!Node(p, t, 1) = c
      BY <1>2, <1>7, <1>17 DEF Q!Node
    <3> QED
      BY <2>1, <3>1, <1>12
  <2>2. CASE k = 1
    <3>1. Q!Node(p, t, 1) = c /\ Q!Node(p, t, 2) = first
      BY <1>2, <1>4, <1>7, <1>10 DEF Q!Node
    <3> QED
      BY <2>2, <3>1, <1>12
  <2>3. CASE k > 1
    <3>1. k - 1 \in 1 .. n
      BY <2>3, <1>2, <1>7
    <3>2. Q!Node(p, t, k) = s[k - 1] /\ s[k - 1] = Q!Node(q, s, k - 1)
      BY <3>1, <2>3, <1>2, <1>7, <1>10 DEF Q!Node
    <3>3. Q!Node(p, t, k + 1) = Q!Node(q, s, k)
      BY <3>1, <2>3, <1>2, <1>7, <1>10 DEF Q!Node
    <3>4. q.next[s[k - 1]] = Q!Node(q, s, k) /\ q.pre[Q!Node(q, s, k)] = s[k - 1]
      BY <3>1, <3>2, <1>1, <1>2 DEF Q!OrderOf
    <3>5. Q!Node(q, s, k) \in Q!Nodes \ {c, first}
      <4>1. CASE k = n + 1
        BY <4>1, <3>1, <1>2, <1>3, <1>4, Distinct DEF Q!Node, Q!Nodes
      <4>2. CASE k # n + 1
        BY <4>2, <3>1, <1>1, <1>2, <1>3, <1>4 DEF Q!Node, Q!Nodes, Q!OrderOf
      <4> QED
        BY <4>1, <4>2
    <3>6. s[k - 1] \in Q!Nodes \ {c, HeadNode}
      BY <3>1, <1>3 DEF Q!Nodes
    <3> QED
      BY <3>2, <3>3, <3>4, <3>5, <3>6, <1>12
  <2> QED
    BY <2>1, <2>2, <2>3, <1>2, <1>7
<1>16. Q!OrderOf(p, t)
  BY <1>13, <1>14, <1>15 DEF Q!OrderOf
<1> QED
  BY <1>2, <1>7, <1>8, <1>9, <1>11, <1>16 DEF Q!IsList, p

(* deleteConn of a Conn that is in the list keeps the list, and takes it   *)
(* out.                                                                    *)
LEMMA DeleteKeepsList ==
  ASSUME NEW q \in Queues, Q!IsList(q), NEW c \in Q!Linked(q)
  PROVE  /\ Q!DeleteConn(q, c) \in Queues /\ Q!IsList(Q!DeleteConn(q, c))
         /\ Q!Linked(Q!DeleteConn(q, c)) = Q!Linked(q) \ {c}
<1> DEFINE p == Q!DeleteConn(q, c)
           n == q.total
           a == q.pre[c]
           b == q.next[c]
<1>1. PICK s \in [1 .. n -> Q!Linked(q)] : Q!OrderOf(q, s)
  BY DEF Q!IsList
<1>2. n \in Nat /\ q.next \in [Q!Nodes -> Q!Nodes \cup {Null}] /\ q.pre \in [Q!Nodes -> Q!Nodes \cup {Null}]
  BY DEF Queues
<1>3. PICK j \in 1 .. n : s[j] = c
  BY <1>1 DEF Q!OrderOf
<1> DEFINE At(k) == Q!Node(q, s, k)
<1>4. \A k \in 1 .. n : At(k) = s[k] /\ s[k] \in Fds
  BY <1>1, <1>2 DEF Q!Linked, Q!Node
<1>5. At(0) = HeadNode /\ At(n + 1) = TailNode
  BY <1>2 DEF Q!Node
<1>6. \A k \in 0 .. n + 1 : At(k) \in Q!Nodes /\ At(k) # Null
  <2> SUFFICES ASSUME NEW k \in 0 .. n + 1 PROVE At(k) \in Q!Nodes /\ At(k) # Null
    OBVIOUS
  <2>1. k = 0 \/ k = n + 1 \/ k \in 1 .. n
    BY <1>2
  <2> QED
    BY <2>1, <1>4, <1>5, Distinct DEF Q!Nodes
<1>7. ASSUME NEW i \in 0 .. n + 1, NEW k \in 0 .. n + 1, At(i) = At(k) PROVE i = k
  <2>1. /\ i = 0 \/ i = n + 1 \/ i \in 1 .. n
        /\ k = 0 \/ k = n + 1 \/ k \in 1 .. n
    BY <1>2
  <2>2. CASE i \in 1 .. n /\ k \in 1 .. n
    BY <2>2, <1>1, <1>4, <1>7 DEF Q!OrderOf
  <2> HIDE DEF At
  <2>3. CASE ~(i \in 1 .. n /\ k \in 1 .. n)
    BY <2>1, <2>3, <1>4, <1>5, <1>7, Distinct
  <2> QED
    BY <2>2, <2>3
<1>8. \A k \in 0 .. n : q.next[At(k)] = At(k + 1) /\ q.pre[At(k + 1)] = At(k)
  BY <1>1 DEF Q!OrderOf
<1> HIDE DEF At
<1>9. At(j) = c /\ a = At(j - 1) /\ b = At(j + 1)
  <2>1. j \in 0 .. n /\ j - 1 \in 0 .. n /\ (j - 1) + 1 = j
    BY <1>2
  <2>2. At(j) = c
    BY <1>3, <1>4
  <2> QED
    BY <2>1, <2>2, <1>8
<1>10. a \in Q!Nodes /\ b \in Q!Nodes /\ c \in Q!Nodes /\ a # c /\ b # c /\ b # Null
  <2>1. j \in 0 .. n + 1 /\ j - 1 \in 0 .. n + 1 /\ j + 1 \in 0 .. n + 1 /\ j # j - 1 /\ j # j + 1
    BY <1>2
  <2> QED
    BY <2>1, <1>6, <1>7, <1>9
<1>11. /\ p.next = [[q.next EXCEPT ![a] = b] EXCEPT ![c] = Null]
       /\ p.pre = [[q.pre EXCEPT ![b] = a] EXCEPT ![c] = Null]
       /\ p.total = n - 1
  BY DEF Q!DeleteConn
<1>12. p \in Queues /\ p.total \in Nat
  BY <1>2, <1>10 DEF Queues, Q!DeleteConn
<1> HIDE DEF p
<1>13. /\ p.next[a] = b /\ p.next[c] = Null
       /\ \A m \in Q!Nodes \ {a, c} : p.next[m] = q.next[m]
       /\ p.pre[b] = a
       /\ \A m \in Q!Nodes \ {b, c} : p.pre[m] = q.pre[m]
  BY <1>2, <1>10, <1>11
<1>14. a \in Fds => a \in Q!Linked(q)
  <2>1. j - 1 = 0 \/ j - 1 \in 1 .. n
    BY <1>2
  <2> QED
    BY <2>1, <1>1, <1>4, <1>5, <1>9, Distinct
<1>15. Q!Linked(p) = Q!Linked(q) \ {c}
  BY <1>10, <1>13, <1>14 DEF Q!Linked, Q!Nodes
<1>16. PICK t : t = [k \in 1 .. n - 1 |-> IF k < j THEN s[k] ELSE s[k + 1]]
  OBVIOUS
<1>17. t \in [1 .. p.total -> Q!Linked(p)]
  <2> SUFFICES ASSUME NEW k \in 1 .. n - 1 PROVE t[k] \in Q!Linked(q) /\ t[k] # c
    BY <1>11, <1>15, <1>16
  <2>1. k \in 1 .. n /\ k + 1 \in 1 .. n
    BY <1>2
  <2>2. \A i \in 1 .. n : s[i] = c => i = j
    BY <1>1, <1>3 DEF Q!OrderOf
  <2>3. \A i \in 1 .. n : s[i] \in Q!Linked(q)
    BY <1>1
  <2>4. CASE k < j
    BY <2>1, <2>2, <2>3, <2>4, <1>2, <1>16
  <2>5. CASE ~(k < j)
    BY <2>1, <2>2, <2>3, <2>5, <1>2, <1>16
  <2> QED
    BY <2>4, <2>5
<1>18. \A i, k \in 1 .. p.total : t[i] = t[k] => i = k
  <2> SUFFICES ASSUME NEW i \in 1 .. n - 1, NEW k \in 1 .. n - 1, t[i] = t[k] PROVE i = k
    BY <1>11
  <2>1. i \in 1 .. n /\ i + 1 \in 1 .. n /\ k \in 1 .. n /\ k + 1 \in 1 .. n
    BY <1>2
  <2>2. \A x, y \in 1 .. n : s[x] = s[y] => x = y
    BY <1>1 DEF Q!OrderOf
  <2> QED
    BY <2>1, <2>2, <1>2, <1>16
<1>19. \A d \in Q!Linked(p) : \E k \in 1 .. p.total : t[k] = d
  <2> SUFFICES ASSUME NEW d \in Q!Linked(q), d # c PROVE \E k \in 1 .. n - 1 : t[k] = d
    BY <1>11, <1>15
  <2>1. PICK k \in 1 .. n : s[k] = d
    BY <1>1 DEF Q!OrderOf
  <2>2. CASE k < j
    <3>1. k \in 1 .. n - 1 /\ t[k] = d
      BY <2>1, <2>2, <1>2, <1>16
    <3> QED
      BY <3>1
  <2>3. CASE k > j
    <3>1. k - 1 \in 1 .. n - 1 /\ t[k - 1] = d
      BY <2>1, <2>3, <1>2, <1>16
    <3> QED
      BY <3>1
  <2> QED
    BY <2>1, <2>2, <2>3, <1>2, <1>3
<1>20. ASSUME NEW k \in 0 .. n PROVE Q!Node(p, t, k) = IF k < j THEN At(k) ELSE At(k + 1)
  <2>1. CASE k = 0 \/ k = n
    BY <2>1, <1>2, <1>5, <1>11 DEF Q!Node
  <2>2. CASE k \in 1 .. n - 1
    <3>1. k + 1 \in 1 .. n /\ k \in 1 .. n
      BY <2>2, <1>2
    <3>2. Q!Node(p, t, k) = t[k]
      BY <2>2, <1>2, <1>11 DEF Q!Node
    <3> QED
      BY <2>2, <3>1, <3>2, <1>4, <1>16
  <2> QED
    BY <2>1, <2>2, <1>2
<1>21. ASSUME NEW k \in 0 .. p.total
       PROVE  /\ p.next[Q!Node(p, t, k)] = Q!Node(p, t, k + 1)
              /\ p.pre[Q!Node(p, t, k + 1)] = Q!Node(p, t, k)
  <2>1. k \in 0 .. n /\ k + 1 \in 0 .. n /\ k + 1 \in 0 .. n + 1 /\ k + 2 \in 0 .. n + 1
        /\ j \in 0 .. n + 1 /\ j - 1 \in 0 .. n + 1 /\ j + 1 \in 0 .. n + 1 /\ k \in 0 .. n + 1
        /\ (k + 1) + 1 = k + 2
    BY <1>2, <1>11
  <2>2. CASE k = j - 1
    <3>1. Q!Node(p, t, k) = a /\ Q!Node(p, t, k + 1) = b
      BY <2>1, <2>2, <1>2, <1>9, <1>20
    <3> QED
      BY <3>1, <1>13
  <2>3. CASE k < j - 1
    <3>1. Q!Node(p, t, k) = At(k) /\ Q!Node(p, t, k + 1) = At(k + 1)
      BY <2>1, <2>3, <1>2, <1>20
    <3>2. At(k) \in Q!Nodes \ {a, c} /\ At(k + 1) \in Q!Nodes \ {b, c}
      BY <2>1, <2>3, <1>2, <1>6, <1>7, <1>9
    <3> QED
      BY <2>1, <3>1, <3>2, <1>8, <1>13
  <2>4. CASE k > j - 1
    <3>1. Q!Node(p, t, k) = At(k + 1) /\ Q!Node(p, t, k + 1) = At(k + 2)
      BY <2>1, <2>4, <1>2, <1>20
    <3>2. At(k + 1) \in Q!Nodes \ {a, c} /\ At(k + 2) \in Q!Nodes \ {b, c}
      BY <2>1, <2>4, <1>2, <1>6, <1>7, <1>9
    <3> QED
      BY <2>1, <3>1, <3>2, <1>8, <1>13
  <2> QED
    BY <2>1, <2>2, <2>3, <2>4
<1>22. Q!OrderOf(p, t)
  BY <1>18, <1>19, <1>21 DEF Q!OrderOf
<1> QED
  BY <1>12, <1>15, <1>17, <1>22 DEF Q!IsList, p
-----------------------------------------------------------------------------
(* The inductive invariant.                                                *)

(* Socket or EXIT_CODE x is in worker w's pipe.                            *)
Piped(w, x) == \E k \in 1 .. Len(pipe[w]) : pipe[w][k] = x

(* The queues are lists.                                                   *)
QueuesOK == queue \in [Workers -> Queues] /\ QueuesIntact

(* The main thread's loops stay within the workers, startRun has the       *)
(* workers from mi on still to create, a socket is held only inside        *)
(* acceptCb, a quit that runs was counted, and the main thread runs one in *)
(* the destructor only.                                                    *)
MainOK ==
  /\ mpc \in {"start", "scan"} => mi <= N
  /\ mpc = "start" => \A w \in Workers : mi <= w => wpc[w] = "new"
  /\ mfd \in Fds <=> mpc \in {"scan", "write"}
  /\ \A t \in Threads : qpc[t] # 0 => quits > 0
  /\ qpc[Main] # 0 => mpc = "destroy"

(* No socket is in two places, and none is where it was not put.           *)
NotTwice ==
  /\ mfd \in Fds => mfd \in accepted \ (closed \cup leaked)
  /\ closed \subseteq accepted /\ leaked \subseteq accepted /\ closed \cap leaked = {}
  /\ \A w \in Workers : \A fd \in Fds :
       /\ Piped(w, fd) => fd # mfd /\ fd \in accepted \ (closed \cup leaked)
       /\ fd \in Q!Linked(queue[w]) => fd # mfd /\ fd \in accepted \ (closed \cup leaked)
  /\ \A w, v \in Workers : \A fd \in Fds :
       /\ ~(Piped(w, fd) /\ fd \in Q!Linked(queue[v]))
       /\ Piped(w, fd) /\ Piped(v, fd) => w = v
       /\ fd \in Q!Linked(queue[w]) /\ fd \in Q!Linked(queue[v]) => w = v
  /\ \A w \in Workers : \A j, k \in 1 .. Len(pipe[w]) :
       pipe[w][j] = pipe[w][k] /\ pipe[w][j] \in Fds => j = k

(* Every socket accepted is somewhere.                                     *)
NotLost ==
  \A fd \in accepted :
    \/ fd = mfd \/ fd \in closed \/ fd \in leaked
    \/ \E w \in Workers : Piped(w, fd) \/ fd \in Q!Linked(queue[w])

(* What was handed over before quit comes before EXIT_CODE.                *)
OrderOK ==
  /\ early \subseteq accepted /\ mfd \notin early
  /\ quits = 0 => \A w \in Workers : wpc[w] # "stopped" /\ ~Piped(w, ExitCode)
  /\ \A w \in Workers : \A j, k \in 1 .. Len(pipe[w]) :
       pipe[w][j] = ExitCode /\ j < k => pipe[w][k] \notin early
  /\ \A w \in Workers :
       wpc[w] = "stopped" => \A k \in 1 .. Len(pipe[w]) : pipe[w][k] \notin early

(* A quit that runs has told the workers it has passed, the one that ended *)
(* in the destructor all of them.                                          *)
ToldOK ==
  \A w \in Workers :
    mpc = "freed" \/ (\E t \in Threads : w < qpc[t]) =>
      wpc[w] = "stopped" \/ Piped(w, ExitCode)

(* The scan has found the least loaded of the workers looked at so far.    *)
ScanOK ==
  steady =>
    /\ mpc = "scan" => \A w \in Workers : w < mi => queue[mnum].total <= queue[w].total
    /\ mpc = "write" => \A w \in Workers : queue[mnum].total <= queue[w].total

IInv ==
  TypeOK /\ QueuesOK /\ MainOK /\ NotTwice /\ NotLost /\ OrderOK /\ ToldOK /\ ScanOK

(* What writing x to worker w's pipe changes.                              *)
LEMMA PipePut ==
  ASSUME TypeOK, NEW w \in Workers, NEW x \in Fds \cup {ExitCode},
         pipe' = [pipe EXCEPT ![w] = Append(@, x)]
  PROVE  /\ pipe' \in [Workers -> Seq(Fds \cup {ExitCode})]
         /\ \A v \in Workers \ {w} : pipe'[v] = pipe[v]
         /\ Len(pipe[w]) \in Nat /\ Len(pipe'[w]) = Len(pipe[w]) + 1
         /\ \A k \in 1 .. Len(pipe[w]) : pipe'[w][k] = pipe[w][k]
         /\ pipe'[w][Len(pipe[w]) + 1] = x
         /\ \A v \in Workers : \A y \in Fds \cup {ExitCode} :
              Piped(v, y)' <=> Piped(v, y) \/ (v = w /\ y = x)
<1>1. pipe \in [Workers -> Seq(Fds \cup {ExitCode})]
  BY DEF TypeOK
<1>2. pipe'[w] = Append(pipe[w], x) /\ \A v \in Workers \ {w} : pipe'[v] = pipe[v]
  BY <1>1
<1>3. /\ Len(pipe[w]) \in Nat /\ Len(pipe'[w]) = Len(pipe[w]) + 1
      /\ \A k \in 1 .. Len(pipe[w]) : pipe'[w][k] = pipe[w][k]
      /\ pipe'[w][Len(pipe[w]) + 1] = x
      /\ pipe' \in [Workers -> Seq(Fds \cup {ExitCode})]
  BY <1>1, <1>2
<1>4. ASSUME NEW v \in Workers, NEW y \in Fds \cup {ExitCode}
      PROVE  Piped(v, y)' <=> Piped(v, y) \/ (v = w /\ y = x)
  <2>1. CASE v # w
    BY <2>1, <1>2 DEF Piped
  <2>2. CASE v = w
    <3>1. ASSUME Piped(v, y) PROVE Piped(v, y)'
      <4>1. PICK k \in 1 .. Len(pipe[w]) : pipe[w][k] = y
        BY <2>2, <3>1 DEF Piped
      <4>2. k \in 1 .. Len(pipe'[w]) /\ pipe'[w][k] = y
        BY <4>1, <1>3
      <4> QED
        BY <2>2, <4>2 DEF Piped
    <3>2. ASSUME y = x PROVE Piped(v, y)'
      <4>1. Len(pipe[w]) + 1 \in 1 .. Len(pipe'[w])
        BY <1>3
      <4> QED
        BY <2>2, <3>2, <4>1, <1>3 DEF Piped
    <3>3. ASSUME Piped(v, y)' PROVE Piped(v, y) \/ y = x
      <4>1. PICK k \in 1 .. Len(pipe'[w]) : pipe'[w][k] = y
        BY <2>2, <3>3 DEF Piped
      <4>2. k \in 1 .. Len(pipe[w]) \/ k = Len(pipe[w]) + 1
        BY <1>3
      <4> QED
        BY <2>2, <4>1, <4>2, <1>3 DEF Piped
    <3> QED
      BY <2>2, <3>1, <3>2, <3>3
  <2> QED
    BY <2>1, <2>2
<1> QED
  BY <1>2, <1>3, <1>4

(* What reading from worker w's pipe changes.                              *)
LEMMA PipeTake ==
  ASSUME TypeOK, NEW w \in Workers, pipe[w] # <<>>, pipe' = [pipe EXCEPT ![w] = Tail(@)]
  PROVE  /\ pipe' \in [Workers -> Seq(Fds \cup {ExitCode})]
         /\ \A v \in Workers \ {w} : pipe'[v] = pipe[v]
         /\ Len(pipe[w]) \in Nat \ {0} /\ Len(pipe'[w]) = Len(pipe[w]) - 1
         /\ \A k \in 1 .. Len(pipe'[w]) : pipe'[w][k] = pipe[w][k + 1]
         /\ Head(pipe[w]) = pipe[w][1] /\ Piped(w, Head(pipe[w]))
         /\ \A v \in Workers : \A y \in Fds \cup {ExitCode} :
              /\ Piped(v, y)' => Piped(v, y)
              /\ Piped(v, y) => Piped(v, y)' \/ (v = w /\ y = Head(pipe[w]))
<1>1. pipe \in [Workers -> Seq(Fds \cup {ExitCode})]
  BY DEF TypeOK
<1>2. pipe'[w] = Tail(pipe[w]) /\ \A v \in Workers \ {w} : pipe'[v] = pipe[v]
  BY <1>1
<1>3. /\ Len(pipe[w]) \in Nat \ {0} /\ Len(pipe'[w]) = Len(pipe[w]) - 1
      /\ \A k \in 1 .. Len(pipe'[w]) : pipe'[w][k] = pipe[w][k + 1]
      /\ Head(pipe[w]) = pipe[w][1]
      /\ pipe' \in [Workers -> Seq(Fds \cup {ExitCode})]
  BY <1>1, <1>2
<1>4. Piped(w, Head(pipe[w]))
  <2>1. 1 \in 1 .. Len(pipe[w])
    BY <1>3
  <2> QED
    BY <2>1, <1>3 DEF Piped
<1>5. ASSUME NEW v \in Workers, NEW y \in Fds \cup {ExitCode}
      PROVE  /\ Piped(v, y)' => Piped(v, y)
             /\ Piped(v, y) => Piped(v, y)' \/ (v = w /\ y = Head(pipe[w]))
  <2>1. CASE v # w
    BY <2>1, <1>2 DEF Piped
  <2>2. CASE v = w
    <3>1. ASSUME Piped(v, y)' PROVE Piped(v, y)
      <4>1. PICK k \in 1 .. Len(pipe'[w]) : pipe'[w][k] = y
        BY <2>2, <3>1 DEF Piped
      <4>2. k + 1 \in 1 .. Len(pipe[w]) /\ pipe[w][k + 1] = y
        BY <4>1, <1>3
      <4> QED
        BY <2>2, <4>2 DEF Piped
    <3>2. ASSUME Piped(v, y), y # Head(pipe[w]) PROVE Piped(v, y)'
      <4>1. PICK k \in 1 .. Len(pipe[w]) : pipe[w][k] = y
        BY <2>2, <3>2 DEF Piped
      <4>2. k # 1
        BY <4>1, <3>2, <1>3
      <4>3. k - 1 \in 1 .. Len(pipe'[w]) /\ pipe'[w][k - 1] = y
        BY <4>1, <4>2, <1>3
      <4> QED
        BY <2>2, <4>3 DEF Piped
    <3> QED
      BY <2>2, <3>1, <3>2
  <2> QED
    BY <2>1, <2>2
<1> QED
  BY <1>2, <1>3, <1>4, <1>5

(* Steps that move no socket keep what is known of their places.           *)
LEMMA SocketsStay ==
  ASSUME NotTwice, NotLost, UNCHANGED <<mfd, pipe, queue, accepted, closed, leaked>>
  PROVE  NotTwice' /\ NotLost'
  BY DEF NotTwice, NotLost, Piped

(* Steps that leave the queues alone keep them intact.                     *)
LEMMA QueuesStay == ASSUME QueuesOK, UNCHANGED queue PROVE QueuesOK'
  BY DEF QueuesOK, QueuesIntact

(* Numbers of workers.                                                     *)
LEMMA Numbers ==
  /\ N \in Nat /\ N > 0 /\ MaxQuits \in Nat /\ PipeCap \in Nat /\ PipeCap > 0
  /\ \A w : w \in Workers <=> w \in Nat /\ 1 <= w /\ w <= N
  BY ServerAssumption DEF ServerAssumption, Workers

-----------------------------------------------------------------------------
(* The main thread's steps.                                                *)

(* startRun creates a worker, or fails to.                                 *)
LEMMA StartKeeps == ASSUME IInv, CreateThread \/ CreateThreadFails PROVE IInv'
<1> USE DEF IInv
<1>1. /\ UNCHANGED <<mnum, mfd, pipe, queue, accepted, closed, leaked, qpc, quits,
                     exitAsked, early, steady>>
      /\ mpc = "start" /\ mpc' \in {"start", "dispatch", "returned"}
      /\ mi \in Workers
  <2>1. mpc = "start" /\ mpc' \in {"start", "dispatch", "returned"}
    BY DEF CreateThread, CreateThreadFails
  <2>2. mi \in 1 .. N + 1 /\ mi <= N
    BY <2>1 DEF TypeOK, MainOK
  <2>3. mi \in Workers
    BY <2>2, Numbers
  <2> QED
    BY <2>1, <2>3 DEF CreateThread, CreateThreadFails, quitVars
<1>2. \/ wpc' = wpc /\ mi' = mi /\ mpc' = "returned"
      \/ /\ wpc' = [wpc EXCEPT ![mi] = "loop"] /\ mi' = mi + 1
         /\ mpc' = IF mi = N THEN "dispatch" ELSE "start"
  BY DEF CreateThread, CreateThreadFails
<1>3. wpc \in [Workers -> {"new", "loop", "stopped"}] /\ wpc[mi] = "new"
  BY <1>1, Numbers DEF TypeOK, MainOK
<1>4. /\ wpc' \in [Workers -> {"new", "loop", "stopped"}]
      /\ \A w \in Workers : w # mi => wpc'[w] = wpc[w]
      /\ wpc'[mi] # "stopped" /\ wpc[mi] # "stopped"
  BY <1>1, <1>2, <1>3
<1>5. mi' \in 1 .. N + 1
  BY <1>1, <1>2, Numbers
<1>6. TypeOK'
  BY <1>1, <1>4, <1>5 DEF TypeOK
<1>7. QueuesOK' /\ NotTwice' /\ NotLost'
  BY <1>1, QueuesStay, SocketsStay
<1>8. MainOK'
  <2>1. mpc' = "start" => mi' <= N /\ \A w \in Workers : mi' <= w => wpc'[w] = "new"
    BY <1>1, <1>2, <1>4, Numbers DEF MainOK
  <2> QED
    BY <2>1, <1>1 DEF MainOK
<1>9. OrderOK'
  BY <1>1, <1>4 DEF OrderOK, Piped
<1>10. ToldOK'
  BY <1>1, <1>4 DEF ToldOK, Piped
<1>11. ScanOK'
  BY <1>1 DEF ScanOK
<1> QED
  BY <1>6, <1>7, <1>8, <1>9, <1>10, <1>11

(* acceptCb is called with a new socket.                                   *)
LEMMA AcceptKeeps == ASSUME IInv, NEW fd \in Fds, Accept(fd) PROVE IInv'
<1> USE DEF IInv
<1>1. /\ UNCHANGED <<wpc, pipe, queue, closed, leaked, qpc, quits,
                     exitAsked, early>>
      /\ mpc \in {"dispatch", "wait"} /\ mpc' = "scan" /\ mi' = 1 /\ mnum' = 1 /\ mfd' = fd
      /\ fd \notin accepted /\ accepted' = accepted \cup {fd} /\ steady' = TRUE
  BY DEF Accept, quitVars
<1>2. TypeOK'
  <2>1. steady' \in BOOLEAN
    BY <1>1
  <2>2. mi' \in 1 .. N + 1 /\ mnum' \in Workers
    BY <1>1, Numbers
  <2> QED
    BY <2>1, <2>2, <1>1 DEF TypeOK
<1>3. QueuesOK'
  BY <1>1, QueuesStay
<1>4. mfd \notin Fds
  BY <1>1 DEF MainOK
<1>5. MainOK'
  BY <1>1, Numbers DEF MainOK
<1>6. NotTwice'
  BY <1>1, <1>4 DEF NotTwice, Piped
<1>7. NotLost'
  <2>1. accepted \subseteq Fds /\ \A w \in Workers : \A x : Piped(w, x)' <=> Piped(w, x)
    BY <1>1 DEF TypeOK, Piped
  <2> QED
    BY <2>1, <1>1, <1>4 DEF NotLost
<1>8. OrderOK'
  BY <1>1 DEF OrderOK, Piped
<1>9. ToldOK'
  BY <1>1 DEF ToldOK, Piped
<1>10. ScanOK'
  BY <1>1, Numbers DEF ScanOK
<1> QED
  BY <1>2, <1>3, <1>5, <1>6, <1>7, <1>8, <1>9, <1>10

(* acceptCb looks at one worker.                                           *)
LEMMA ScanKeeps == ASSUME IInv, Scan PROVE IInv'
<1> USE DEF IInv
<1>1. /\ UNCHANGED <<mfd, wpc, pipe, queue, accepted, closed, leaked, qpc, quits,
                     exitAsked, early, steady>>
      /\ mpc = "scan" /\ mnum' = Least(mi, mnum) /\ mi' = mi + 1
      /\ mpc' = IF mi = N THEN "write" ELSE "scan"
  BY DEF Scan, quitVars
<1>2. mi \in Workers /\ mnum \in Workers
  <2>1. mi \in 1 .. N + 1 /\ mi <= N /\ mnum \in Workers
    BY <1>1 DEF TypeOK, MainOK
  <2> QED
    BY <2>1, Numbers
<1>3. mnum' \in Workers /\ mi' \in 1 .. N + 1 /\ (mpc' = "scan" => mi' <= N)
  BY <1>1, <1>2, Numbers DEF Least
<1>4. TypeOK'
  BY <1>1, <1>3 DEF TypeOK
<1>5. QueuesOK' /\ NotTwice' /\ NotLost'
  BY <1>1, QueuesStay, SocketsStay
<1>6. MainOK'
  BY <1>1, <1>3 DEF MainOK
<1>7. OrderOK' /\ ToldOK'
  BY <1>1 DEF OrderOK, ToldOK, Piped
<1>8. ScanOK'
  <2> SUFFICES ASSUME steady, NEW w \in Workers, w < mi + 1
               PROVE  queue[mnum'].total <= queue[w].total
    BY <1>1, <1>2, <1>3, Numbers DEF ScanOK
  <2>1. \A v \in Workers : queue[v].total \in Nat
    BY DEF QueuesOK, Queues
  <2>2. w < mi => queue[mnum].total <= queue[w].total
    BY <1>1 DEF ScanOK
  <2>3. w < mi \/ w = mi
    BY <1>2, Numbers
  <2> QED
    BY <2>1, <2>2, <2>3, <1>1, <1>2 DEF Least
<1> QED
  BY <1>4, <1>5, <1>6, <1>7, <1>8

(* acceptCb writes its socket to the pipe of the worker it found.          *)
LEMMA HandOverKeeps == ASSUME IInv, HandOver PROVE IInv'
<1> USE DEF IInv
<1>1. /\ UNCHANGED <<mi, mnum, wpc, queue, accepted, closed, leaked, qpc, quits,
                     exitAsked, steady>>
      /\ mpc = "write" /\ mpc' = "dispatch" /\ mfd' = Nobody
      /\ Len(pipe[mnum]) < PipeCap
      /\ pipe' = [pipe EXCEPT ![mnum] = Append(@, mfd)]
      /\ early' = IF quits = 0 THEN early \cup {mfd} ELSE early
  BY DEF HandOver, quitVars
<1>2. mfd \in Fds /\ mnum \in Workers
  BY <1>1 DEF TypeOK, MainOK
<1>3. /\ pipe' \in [Workers -> Seq(Fds \cup {ExitCode})]
      /\ \A v \in Workers \ {mnum} : pipe'[v] = pipe[v]
      /\ Len(pipe[mnum]) \in Nat /\ Len(pipe'[mnum]) = Len(pipe[mnum]) + 1
      /\ \A k \in 1 .. Len(pipe[mnum]) : pipe'[mnum][k] = pipe[mnum][k]
      /\ pipe'[mnum][Len(pipe[mnum]) + 1] = mfd
      /\ \A v \in Workers : \A y \in Fds \cup {ExitCode} :
           Piped(v, y)' <=> Piped(v, y) \/ (v = mnum /\ y = mfd)
  BY <1>1, <1>2, PipePut
<1>4. TypeOK'
  <2>1. \A w \in Workers : Len(pipe'[w]) <= PipeCap
    BY <1>1, <1>3, Numbers DEF TypeOK
  <2> QED
    BY <2>1, <1>1, <1>2, <1>3 DEF TypeOK
<1>5. QueuesOK'
  BY <1>1, QueuesStay
<1>6. MainOK'
  BY <1>1, Distinct DEF MainOK
<1>7. NotTwice'
  <2>1. ASSUME NEW w \in Workers, NEW j \in 1 .. Len(pipe'[w]), NEW k \in 1 .. Len(pipe'[w]),
               pipe'[w][j] = pipe'[w][k], pipe'[w][j] \in Fds
        PROVE  j = k
    <3>1. CASE w # mnum
      BY <2>1, <3>1, <1>3 DEF NotTwice
    <3>2. CASE w = mnum
      <4>1. \A i \in 1 .. Len(pipe[w]) : pipe[w][i] # mfd
        BY <1>2, <3>2 DEF NotTwice, Piped
      <4>2. /\ j \in 1 .. Len(pipe[w]) \/ j = Len(pipe[w]) + 1
            /\ k \in 1 .. Len(pipe[w]) \/ k = Len(pipe[w]) + 1
        BY <3>2, <1>3
      <4> QED
        BY <2>1, <3>2, <4>1, <4>2, <1>3 DEF NotTwice
    <3> QED
      BY <3>1, <3>2
  <2>2. \A w \in Workers : \A fd \in Fds :
          Piped(w, fd)' => fd # mfd' /\ fd \in accepted \ (closed \cup leaked)
    BY <1>1, <1>2, <1>3, Distinct DEF NotTwice
  <2>3. \A w, v \in Workers : \A fd \in Fds :
          /\ ~(Piped(w, fd)' /\ fd \in Q!Linked(queue[v]))
          /\ Piped(w, fd)' /\ Piped(v, fd)' => w = v
    BY <1>1, <1>2, <1>3 DEF NotTwice
  <2> QED
    BY <2>1, <2>2, <2>3, <1>1, Distinct DEF NotTwice
<1>8. NotLost'
  <2> SUFFICES ASSUME NEW fd \in accepted, fd \notin closed, fd \notin leaked,
                      ~\E w \in Workers : fd \in Q!Linked(queue[w])
               PROVE  \E w \in Workers : Piped(w, fd)'
    BY <1>1 DEF NotLost
  <2>1. fd = mfd \/ \E w \in Workers : Piped(w, fd)
    BY DEF NotLost
  <2>2. fd \in Fds
    BY DEF TypeOK
  <2> QED
    BY <2>1, <2>2, <1>2, <1>3
<1>9. OrderOK'
  <2>1. early' \subseteq accepted' /\ mfd' \notin early'
    BY <1>1, <1>2, Distinct DEF OrderOK, NotTwice, TypeOK
  <2>2. mfd # ExitCode /\ mfd \notin early
    BY <1>2, Distinct DEF OrderOK
  <2>3. quits' = 0 => \A w \in Workers : wpc'[w] # "stopped" /\ ~Piped(w, ExitCode)'
    BY <2>2, <1>1, <1>3 DEF OrderOK
  <2>4. CASE quits = 0
    BY <2>1, <2>3, <2>4, <1>1 DEF OrderOK, Piped
  <2>5. CASE quits # 0
    <3>1. early' = early
      BY <2>5, <1>1
    <3>2. ASSUME NEW w \in Workers, NEW j \in 1 .. Len(pipe'[w]), NEW k \in 1 .. Len(pipe'[w]),
                 pipe'[w][j] = ExitCode, j < k
          PROVE  pipe'[w][k] \notin early
      <4>1. CASE w # mnum
        BY <3>2, <4>1, <1>3 DEF OrderOK
      <4>2. CASE w = mnum
        <5>1. j \in 1 .. Len(pipe[w]) /\ (k \in 1 .. Len(pipe[w]) \/ k = Len(pipe[w]) + 1)
          BY <3>2, <4>2, <1>3
        <5> QED
          BY <3>2, <4>2, <5>1, <2>2, <1>3 DEF OrderOK
      <4> QED
        BY <4>1, <4>2
    <3>3. ASSUME NEW w \in Workers, wpc[w] = "stopped", NEW k \in 1 .. Len(pipe'[w])
          PROVE  pipe'[w][k] \notin early
      <4>1. CASE w # mnum
        BY <3>3, <4>1, <1>3 DEF OrderOK
      <4>2. CASE w = mnum
        <5>1. k \in 1 .. Len(pipe[w]) \/ k = Len(pipe[w]) + 1
          BY <4>2, <1>3
        <5> QED
          BY <3>3, <4>2, <5>1, <2>2, <1>3 DEF OrderOK
      <4> QED
        BY <4>1, <4>2
    <3> QED
      BY <2>1, <2>3, <3>1, <3>2, <3>3, <1>1 DEF OrderOK
  <2> QED
    BY <2>4, <2>5
<1>10. ToldOK'
  BY <1>1, <1>3 DEF ToldOK
<1>11. ScanOK'
  BY <1>1 DEF ScanOK
<1> QED
  BY <1>4, <1>5, <1>6, <1>7, <1>8, <1>9, <1>10, <1>11

(* The main loop waits for a connection, or returns.                       *)
LEMMA LoopKeeps == ASSUME IInv, Wait \/ MainReturn PROVE IInv'
<1> USE DEF IInv
<1>1. /\ UNCHANGED <<mi, mnum, mfd, wpc, pipe, queue, accepted, closed, leaked, qpc, quits,
                     exitAsked, early, steady>>
      /\ mpc = "dispatch" /\ mpc' \in {"wait", "returned"}
  BY DEF Wait, MainReturn, quitVars
<1>2. TypeOK' /\ MainOK' /\ ScanOK'
  BY <1>1 DEF TypeOK, MainOK, ScanOK
<1>3. QueuesOK' /\ NotTwice' /\ NotLost'
  BY <1>1, QueuesStay, SocketsStay
<1>4. OrderOK' /\ ToldOK'
  BY <1>1 DEF OrderOK, ToldOK, Piped
<1> QED
  BY <1>2, <1>3, <1>4

-----------------------------------------------------------------------------
(* The workers' steps.                                                     *)

(* notifyHandler takes over a connection, or fails to make a bufferevent   *)
(* for it.                                                                 *)
LEMMA NotifyConnKeeps ==
  ASSUME IInv, NEW w \in Workers, NEW fd \in Fds, Notified(w, fd),
         UNCHANGED <<mainVars, wpc, accepted, closed, quitVars, exitAsked, early>>,
         \/ /\ queue' = [queue EXCEPT ![w] = Q!InsertConn(@, fd)]
            /\ steady' = FALSE /\ UNCHANGED leaked
         \/ leaked' = leaked \cup {fd} /\ UNCHANGED <<queue, steady>>
  PROVE  IInv'
<1> USE DEF IInv
<1>1. /\ UNCHANGED <<mpc, mi, mnum, mfd, wpc, accepted, closed, qpc, quits,
                     exitAsked, early>>
      /\ pipe[w] # <<>> /\ fd = Head(pipe[w]) /\ pipe' = [pipe EXCEPT ![w] = Tail(@)]
  BY DEF Notified, mainVars, quitVars
<1>2. /\ pipe' \in [Workers -> Seq(Fds \cup {ExitCode})]
      /\ \A v \in Workers \ {w} : pipe'[v] = pipe[v]
      /\ Len(pipe[w]) \in Nat \ {0} /\ Len(pipe'[w]) = Len(pipe[w]) - 1
      /\ \A k \in 1 .. Len(pipe'[w]) : pipe'[w][k] = pipe[w][k + 1]
      /\ fd = pipe[w][1] /\ Piped(w, fd)
      /\ \A v \in Workers : \A y \in Fds \cup {ExitCode} :
           /\ Piped(v, y)' => Piped(v, y)
           /\ Piped(v, y) => Piped(v, y)' \/ (v = w /\ y = fd)
  BY <1>1, PipeTake
<1>3. ~Piped(w, fd)'
  <2> SUFFICES ASSUME NEW k \in 1 .. Len(pipe'[w]), pipe'[w][k] = fd PROVE FALSE
    BY DEF Piped
  <2>1. 1 \in 1 .. Len(pipe[w]) /\ k + 1 \in 1 .. Len(pipe[w]) /\ pipe[w][k + 1] = pipe[w][1]
    BY <1>2
  <2>2. k + 1 = 1
    BY <2>1, <1>2 DEF NotTwice
  <2> QED
    BY <2>2
<1>4. \A v \in Workers : fd \notin Q!Linked(queue[v]) /\ (v # w => ~Piped(v, fd))
  BY <1>2 DEF NotTwice
<1>5. queue \in [Workers -> Queues] /\ \A v \in Workers : Q!IsList(queue[v])
  BY DEF QueuesOK, QueuesIntact
<1>6. /\ QueuesOK'
      /\ \/ leaked' = leaked /\ steady' = FALSE
            /\ Q!Linked(queue'[w]) = Q!Linked(queue[w]) \cup {fd}
            /\ \A v \in Workers \ {w} : queue'[v] = queue[v]
         \/ leaked' = leaked \cup {fd} /\ queue' = queue /\ steady' = steady
  <2>1. CASE leaked' = leaked \cup {fd} /\ UNCHANGED <<queue, steady>>
    BY <2>1, QueuesStay
  <2>2. CASE /\ queue' = [queue EXCEPT ![w] = Q!InsertConn(@, fd)]
             /\ steady' = FALSE /\ UNCHANGED leaked
    <3>1. /\ Q!InsertConn(queue[w], fd) \in Queues /\ Q!IsList(Q!InsertConn(queue[w], fd))
          /\ Q!Linked(Q!InsertConn(queue[w], fd)) = Q!Linked(queue[w]) \cup {fd}
      BY <1>4, <1>5, InsertKeepsList
    <3>2. /\ queue' \in [Workers -> Queues] /\ queue'[w] = Q!InsertConn(queue[w], fd)
          /\ \A v \in Workers \ {w} : queue'[v] = queue[v]
      BY <2>2, <3>1, <1>5
    <3> QED
      BY <2>2, <3>1, <3>2, <1>5 DEF QueuesOK, QueuesIntact
  <2> QED
    BY <2>1, <2>2
<1>7. TypeOK'
  <2>1. \A v \in Workers : Len(pipe'[v]) <= PipeCap
    <3>1. \A v \in Workers : Len(pipe[v]) <= PipeCap
      BY DEF TypeOK
    <3>2. Len(pipe'[w]) <= PipeCap
      <4>1. Len(pipe[w]) <= PipeCap /\ Len(pipe[w]) \in Nat /\ Len(pipe'[w]) = Len(pipe[w]) - 1
        BY <3>1, <1>2
      <4> QED
        BY <4>1, Numbers
    <3> QED
      BY <3>1, <3>2, <1>2
  <2>2. steady' \in BOOLEAN
    BY <1>6 DEF TypeOK
  <2> QED
    BY <2>1, <2>2, <1>1, <1>2, <1>6 DEF TypeOK
<1>8. MainOK'
  BY <1>1 DEF MainOK
<1>9. NotTwice'
  <2>1. ASSUME NEW v \in Workers, NEW j \in 1 .. Len(pipe'[v]), NEW k \in 1 .. Len(pipe'[v]),
               pipe'[v][j] = pipe'[v][k], pipe'[v][j] \in Fds
        PROVE  j = k
    <3>1. CASE v # w
      BY <2>1, <3>1, <1>2 DEF NotTwice
    <3>2. CASE v = w
      <4>1. /\ j + 1 \in 1 .. Len(pipe[w]) /\ k + 1 \in 1 .. Len(pipe[w])
            /\ pipe[w][j + 1] = pipe[w][k + 1] /\ pipe[w][j + 1] \in Fds
        <5>1. j \in 1 .. Len(pipe'[w]) /\ k \in 1 .. Len(pipe'[w])
          BY <3>2
        <5>2. /\ Len(pipe[w]) \in Nat \ {0} /\ Len(pipe'[w]) = Len(pipe[w]) - 1
              /\ pipe'[w][j] = pipe[w][j + 1] /\ pipe'[w][k] = pipe[w][k + 1]
          BY <5>1, <1>2
        <5>3. j + 1 \in 1 .. Len(pipe[w]) /\ k + 1 \in 1 .. Len(pipe[w])
          BY <5>1, <5>2
        <5>4. pipe'[w][j] = pipe'[w][k] /\ pipe'[w][j] \in Fds
          BY <2>1, <3>2
        <5> QED
          BY <5>2, <5>3, <5>4
      <4>2. j + 1 = k + 1
        BY <4>1 DEF NotTwice
      <4> QED
        BY <4>2, <3>2, <1>2
    <3> QED
      BY <3>1, <3>2
  <2>2. fd \in accepted \ (closed \cup leaked) /\ fd # mfd
    BY <1>2 DEF NotTwice
  <2>3. \A v \in Workers : \A y \in Fds :
          /\ Piped(v, y)' => Piped(v, y) /\ y # fd
          /\ y \in Q!Linked(queue'[v]) => y \in Q!Linked(queue[v]) \/ (y = fd /\ v = w /\ leaked' = leaked)
    BY <1>2, <1>3, <1>4, <1>6
  <2>4. \A v \in Workers : \A y \in Fds :
          /\ Piped(v, y)' => y # mfd /\ y \in accepted \ (closed \cup leaked')
          /\ y \in Q!Linked(queue'[v]) => y # mfd /\ y \in accepted \ (closed \cup leaked')
    BY <2>2, <2>3, <1>4, <1>6 DEF NotTwice
  <2>5. \A u, v \in Workers : \A y \in Fds :
          /\ ~(Piped(u, y)' /\ y \in Q!Linked(queue'[v]))
          /\ Piped(u, y)' /\ Piped(v, y)' => u = v
          /\ y \in Q!Linked(queue'[u]) /\ y \in Q!Linked(queue'[v]) => u = v
    BY <2>3, <1>4 DEF NotTwice
  <2>6. /\ mfd \in Fds => mfd \in accepted \ (closed \cup leaked')
        /\ leaked' \subseteq accepted /\ closed \cap leaked' = {} /\ closed \subseteq accepted
    BY <2>2, <1>6 DEF NotTwice
  <2> QED
    BY <2>1, <2>4, <2>5, <2>6, <1>1 DEF NotTwice
<1>10. NotLost'
  <2> SUFFICES ASSUME NEW y \in accepted, y # mfd, y \notin closed, y \notin leaked'
               PROVE  \E v \in Workers : Piped(v, y)' \/ y \in Q!Linked(queue'[v])
    BY <1>1 DEF NotLost
  <2>1. y \in Fds /\ y \notin leaked
    BY <1>6 DEF TypeOK
  <2>2. PICK v \in Workers : Piped(v, y) \/ y \in Q!Linked(queue[v])
    BY <2>1 DEF NotLost
  <2>3. CASE y \in Q!Linked(queue[v])
    BY <2>2, <2>3, <1>6
  <2>4. CASE Piped(v, y) /\ y # fd
    BY <2>1, <2>4, <1>2
  <2>5. CASE y = fd
    BY <2>5, <1>6
  <2> QED
    BY <2>2, <2>3, <2>4, <2>5
<1>11. OrderOK'
  <2>1. ASSUME NEW v \in Workers, NEW j \in 1 .. Len(pipe'[v]), NEW k \in 1 .. Len(pipe'[v]),
               pipe'[v][j] = ExitCode, j < k
        PROVE  pipe'[v][k] \notin early
    <3>1. CASE v # w
      BY <2>1, <3>1, <1>2 DEF OrderOK
    <3>2. CASE v = w
      <4>1. j + 1 \in 1 .. Len(pipe[w]) /\ k + 1 \in 1 .. Len(pipe[w]) /\ j + 1 < k + 1
        BY <2>1, <3>2, <1>2
      <4>2. pipe[w][j + 1] = ExitCode /\ pipe'[w][k] = pipe[w][k + 1]
        BY <2>1, <3>2, <1>2
      <4>3. pipe[w][k + 1] \notin early
        BY <4>1, <4>2 DEF OrderOK
      <4> QED
        BY <3>2, <4>2, <4>3
    <3> QED
      BY <3>1, <3>2
  <2>2. ASSUME NEW v \in Workers, wpc[v] = "stopped", NEW k \in 1 .. Len(pipe'[v])
        PROVE  pipe'[v][k] \notin early
    <3>1. CASE v # w
      BY <2>2, <3>1, <1>2 DEF OrderOK
    <3>2. CASE v = w
      BY <2>2, <3>2 DEF Notified, InLoop
    <3> QED
      BY <3>1, <3>2
  <2>3. quits = 0 => \A v \in Workers : wpc[v] # "stopped" /\ ~Piped(v, ExitCode)'
    BY <1>2 DEF OrderOK
  <2> QED
    BY <2>1, <2>2, <2>3, <1>1 DEF OrderOK
<1>12. ToldOK'
  BY <1>1, <1>2, Distinct DEF ToldOK
<1>13. ScanOK'
  BY <1>1, <1>6 DEF ScanOK
<1> QED
  BY <1>6, <1>7, <1>8, <1>9, <1>10, <1>11, <1>12, <1>13

(* notifyHandler reads EXIT_CODE.                                          *)
LEMMA NotifyExitKeeps == ASSUME IInv, NEW w \in Workers, NotifyExit(w) PROVE IInv'
<1> USE DEF IInv
<1>1. /\ UNCHANGED <<mpc, mi, mnum, mfd, queue, accepted, closed, leaked, qpc, quits,
                     exitAsked, early, steady>>
      /\ pipe[w] # <<>> /\ ExitCode = Head(pipe[w]) /\ pipe' = [pipe EXCEPT ![w] = Tail(@)]
      /\ wpc' = [wpc EXCEPT ![w] = "stopped"] /\ wpc[w] = "loop"
  BY DEF NotifyExit, Notified, InLoop, mainVars, quitVars
<1>2. /\ pipe' \in [Workers -> Seq(Fds \cup {ExitCode})]
      /\ \A v \in Workers \ {w} : pipe'[v] = pipe[v]
      /\ Len(pipe[w]) \in Nat \ {0} /\ Len(pipe'[w]) = Len(pipe[w]) - 1
      /\ \A k \in 1 .. Len(pipe'[w]) : pipe'[w][k] = pipe[w][k + 1]
      /\ ExitCode = pipe[w][1] /\ Piped(w, ExitCode)
      /\ \A v \in Workers : \A y \in Fds \cup {ExitCode} :
           /\ Piped(v, y)' => Piped(v, y)
           /\ Piped(v, y) => Piped(v, y)' \/ (v = w /\ y = ExitCode)
  BY <1>1, PipeTake
<1>3. /\ wpc' \in [Workers -> {"new", "loop", "stopped"}] /\ wpc'[w] = "stopped"
      /\ \A v \in Workers \ {w} : wpc'[v] = wpc[v]
  BY <1>1 DEF TypeOK
<1>4. TypeOK'
  <2>1. \A v \in Workers : Len(pipe'[v]) <= PipeCap
    <3>1. \A v \in Workers : Len(pipe[v]) <= PipeCap
      BY DEF TypeOK
    <3>2. Len(pipe'[w]) <= PipeCap
      <4>1. Len(pipe[w]) <= PipeCap /\ Len(pipe[w]) \in Nat /\ Len(pipe'[w]) = Len(pipe[w]) - 1
        BY <3>1, <1>2
      <4> QED
        BY <4>1, Numbers
    <3> QED
      BY <3>1, <3>2, <1>2
  <2> QED
    BY <2>1, <1>1, <1>2, <1>3 DEF TypeOK
<1>5. QueuesOK'
  BY <1>1, QueuesStay
<1>6. MainOK'
  BY <1>1, <1>3 DEF MainOK
<1>7. \A v \in Workers : \A y \in Fds : Piped(v, y)' <=> Piped(v, y)
  BY <1>2, Distinct
<1>8. NotTwice'
  <2>1. ASSUME NEW v \in Workers, NEW j \in 1 .. Len(pipe'[v]), NEW k \in 1 .. Len(pipe'[v]),
               pipe'[v][j] = pipe'[v][k], pipe'[v][j] \in Fds
        PROVE  j = k
    <3>1. CASE v # w
      BY <2>1, <3>1, <1>2 DEF NotTwice
    <3>2. CASE v = w
      <4>1. /\ j + 1 \in 1 .. Len(pipe[w]) /\ k + 1 \in 1 .. Len(pipe[w])
            /\ pipe[w][j + 1] = pipe[w][k + 1] /\ pipe[w][j + 1] \in Fds
        <5>1. j \in 1 .. Len(pipe'[w]) /\ k \in 1 .. Len(pipe'[w])
          BY <3>2
        <5>2. /\ Len(pipe[w]) \in Nat \ {0} /\ Len(pipe'[w]) = Len(pipe[w]) - 1
              /\ pipe'[w][j] = pipe[w][j + 1] /\ pipe'[w][k] = pipe[w][k + 1]
          BY <5>1, <1>2
        <5>3. j + 1 \in 1 .. Len(pipe[w]) /\ k + 1 \in 1 .. Len(pipe[w])
          BY <5>1, <5>2
        <5>4. pipe'[w][j] = pipe'[w][k] /\ pipe'[w][j] \in Fds
          BY <2>1, <3>2
        <5> QED
          BY <5>2, <5>3, <5>4
      <4>2. j + 1 = k + 1
        BY <4>1 DEF NotTwice
      <4> QED
        BY <4>2, <3>2, <1>2
    <3> QED
      BY <3>1, <3>2
  <2> QED
    BY <2>1, <1>1, <1>7 DEF NotTwice
<1>9. NotLost'
  BY <1>1, <1>7 DEF NotLost, TypeOK
<1>10. OrderOK'
  <2>1. quits # 0
    BY <1>2 DEF OrderOK
  <2>2. ASSUME NEW k \in 1 .. Len(pipe'[w]) PROVE pipe'[w][k] \notin early
    <3>1. 1 \in 1 .. Len(pipe[w]) /\ k + 1 \in 1 .. Len(pipe[w]) /\ 1 < k + 1
      BY <1>2
    <3> QED
      BY <3>1, <1>2 DEF OrderOK
  <2>3. \A v \in Workers : \A j, k \in 1 .. Len(pipe'[v]) :
          pipe'[v][j] = ExitCode /\ j < k => pipe'[v][k] \notin early
    BY <2>2, <1>2 DEF OrderOK
  <2>4. \A v \in Workers : wpc'[v] = "stopped" =>
          \A k \in 1 .. Len(pipe'[v]) : pipe'[v][k] \notin early
    BY <2>2, <1>2, <1>3 DEF OrderOK
  <2> QED
    BY <2>1, <2>3, <2>4, <1>1 DEF OrderOK
<1>11. ToldOK'
  BY <1>1, <1>2, <1>3 DEF ToldOK
<1>12. ScanOK'
  BY <1>1 DEF ScanOK
<1> QED
  BY <1>4, <1>5, <1>6, <1>8, <1>9, <1>10, <1>11, <1>12

(* A connection is closed.                                                 *)
LEMMA CloseConnKeeps ==
  ASSUME IInv, NEW w \in Workers, NEW fd \in Fds, CloseConn(w, fd)
  PROVE  IInv'
<1> USE DEF IInv
<1>1. /\ UNCHANGED <<mpc, mi, mnum, mfd, wpc, pipe, accepted, leaked, qpc, quits,
                     exitAsked, early>>
      /\ fd \in Q!Linked(queue[w]) /\ closed' = closed \cup {fd} /\ steady' = FALSE
      /\ queue' = [queue EXCEPT ![w] = Q!DeleteConn(@, fd)]
  BY DEF CloseConn, mainVars, quitVars
<1>2. queue \in [Workers -> Queues] /\ \A v \in Workers : Q!IsList(queue[v])
  BY DEF QueuesOK, QueuesIntact
<1>3. /\ Q!DeleteConn(queue[w], fd) \in Queues /\ Q!IsList(Q!DeleteConn(queue[w], fd))
      /\ Q!Linked(Q!DeleteConn(queue[w], fd)) = Q!Linked(queue[w]) \ {fd}
  BY <1>1, <1>2, DeleteKeepsList
<1>4. /\ queue' \in [Workers -> Queues] /\ queue'[w] = Q!DeleteConn(queue[w], fd)
      /\ \A v \in Workers \ {w} : queue'[v] = queue[v]
  BY <1>1, <1>2, <1>3
<1>5. QueuesOK'
  BY <1>2, <1>3, <1>4 DEF QueuesOK, QueuesIntact
<1>6. TypeOK'
  <2>1. steady' \in BOOLEAN
    BY <1>1
  <2> QED
    BY <2>1, <1>1 DEF TypeOK
<1>7. MainOK'
  BY <1>1 DEF MainOK
<1>8. \A v \in Workers : \A y \in Fds :
        /\ Piped(v, y)' <=> Piped(v, y)
        /\ y \in Q!Linked(queue'[v]) <=> y \in Q!Linked(queue[v]) /\ y # fd
  <2>1. \A v \in Workers : fd \in Q!Linked(queue[v]) => v = w
    BY <1>1 DEF NotTwice
  <2> QED
    BY <2>1, <1>1, <1>3, <1>4 DEF Piped
<1>9. NotTwice'
  <2>1. fd \in accepted \ (closed \cup leaked) /\ fd # mfd /\ \A v \in Workers : ~Piped(v, fd)
    BY <1>1 DEF NotTwice
  <2> QED
    BY <2>1, <1>1, <1>8 DEF NotTwice
<1>10. NotLost'
  <2> SUFFICES ASSUME NEW y \in accepted, y # mfd, y \notin closed, y # fd, y \notin leaked
               PROVE  \E v \in Workers : Piped(v, y)' \/ y \in Q!Linked(queue'[v])
    BY <1>1 DEF NotLost
  <2>1. y \in Fds /\ \E v \in Workers : Piped(v, y) \/ y \in Q!Linked(queue[v])
    BY DEF NotLost, TypeOK
  <2> QED
    BY <2>1, <1>8
<1>11. OrderOK' /\ ToldOK'
  BY <1>1 DEF OrderOK, ToldOK, Piped
<1>12. ScanOK'
  BY <1>1 DEF ScanOK
<1> QED
  BY <1>5, <1>6, <1>7, <1>9, <1>10, <1>11, <1>12

-----------------------------------------------------------------------------
(* The steps of quit.                                                      *)

(* quit is called.                                                         *)
LEMMA StartQuitKeeps == ASSUME IInv, NEW t \in Threads, StartQuit(t) PROVE IInv'
<1> USE DEF IInv
<1>1. /\ UNCHANGED <<mi, mnum, mfd, wpc, pipe, queue, accepted, closed, leaked,
                     exitAsked, early, steady>>
      /\ quits < MaxQuits /\ qpc' = [qpc EXCEPT ![t] = 1] /\ quits' = quits + 1
      /\ (t # Main /\ mpc' = mpc) \/ (t = Main /\ mpc = "returned" /\ mpc' = "destroy")
  BY ServerAssumption DEF StartQuit, ServerAssumption
<1>2. quits \in Nat /\ quits' \in 0 .. MaxQuits /\ quits' > 0
  BY <1>1, Numbers DEF TypeOK
<1>3. /\ qpc' \in [Threads -> 0 .. N + 1] /\ qpc'[t] = 1
      /\ \A u \in Threads : u # t => qpc'[u] = qpc[u]
  BY <1>1, Numbers DEF TypeOK
<1>4. TypeOK'
  BY <1>1, <1>2, <1>3 DEF TypeOK
<1>5. QueuesOK' /\ NotTwice' /\ NotLost'
  BY <1>1, QueuesStay, SocketsStay
<1>6. MainOK'
  <2>1. Main \in Threads
    BY DEF Threads
  <2> QED
    BY <2>1, <1>1, <1>2, <1>3 DEF MainOK
<1>7. OrderOK'
  BY <1>1, <1>2 DEF OrderOK, Piped
<1>8. ToldOK'
  <2> SUFFICES ASSUME NEW w \in Workers, mpc' = "freed" \/ \E u \in Threads : w < qpc'[u]
               PROVE  wpc[w] = "stopped" \/ Piped(w, ExitCode)
    BY <1>1 DEF ToldOK, Piped
  <2>1. ~(w < 1)
    BY Numbers
  <2>2. mpc = "freed" \/ \E u \in Threads : w < qpc[u]
    BY <2>1, <1>1, <1>3
  <2> QED
    BY <2>2 DEF ToldOK
<1>9. ScanOK'
  BY <1>1 DEF ScanOK
<1> QED
  BY <1>4, <1>5, <1>6, <1>7, <1>8, <1>9

(* EXIT_CODE is written to a pipe.                                         *)
LEMMA QuitWriteKeeps == ASSUME IInv, NEW t \in Threads, QuitWrite(t) PROVE IInv'
<1> DEFINE q == qpc[t]
<1> USE DEF IInv
<1>1. /\ UNCHANGED <<mpc, mi, mnum, mfd, wpc, queue, accepted, closed, leaked, quits,
                     exitAsked, early, steady>>
      /\ q \in Workers /\ Len(pipe[q]) < PipeCap
      /\ pipe' = [pipe EXCEPT ![q] = Append(@, ExitCode)]
      /\ qpc' \in [Threads -> 0 .. N + 1] /\ qpc'[t] = q + 1
      /\ \A u \in Threads : u # t => qpc'[u] = qpc[u]
  <2>1. qpc \in [Threads -> 0 .. N + 1] /\ q \in Workers /\ qpc' = [qpc EXCEPT ![t] = q + 1]
    BY DEF QuitWrite, TypeOK
  <2>2. q + 1 \in 0 .. N + 1
    BY <2>1, Numbers
  <2> QED
    BY <2>1, <2>2 DEF QuitWrite, mainVars
<1> HIDE DEF q
<1>2. /\ pipe' \in [Workers -> Seq(Fds \cup {ExitCode})]
      /\ \A v \in Workers \ {q} : pipe'[v] = pipe[v]
      /\ Len(pipe[q]) \in Nat /\ Len(pipe'[q]) = Len(pipe[q]) + 1
      /\ \A k \in 1 .. Len(pipe[q]) : pipe'[q][k] = pipe[q][k]
      /\ pipe'[q][Len(pipe[q]) + 1] = ExitCode
      /\ \A v \in Workers : \A y \in Fds \cup {ExitCode} :
           Piped(v, y)' <=> Piped(v, y) \/ (v = q /\ y = ExitCode)
  BY <1>1, PipePut
<1>3. TypeOK'
  <2>1. \A w \in Workers : Len(pipe'[w]) <= PipeCap
    BY <1>1, <1>2, Numbers DEF TypeOK
  <2> QED
    BY <2>1, <1>1, <1>2 DEF TypeOK
<1>4. QueuesOK'
  BY <1>1, QueuesStay
<1>5. q # 0 /\ quits > 0
  BY <1>1, Numbers DEF MainOK, q
<1>6. MainOK'
  <2>1. qpc'[Main] # 0 => qpc[Main] # 0
    BY <1>1, <1>5 DEF Threads, q
  <2> QED
    BY <2>1, <1>1, <1>5 DEF MainOK
<1>7. \A v \in Workers : \A y \in Fds : Piped(v, y)' <=> Piped(v, y)
  BY <1>2, Distinct
<1>8. \A v \in Workers : \A k \in 1 .. Len(pipe'[v]) :
        \/ k \in 1 .. Len(pipe[v]) /\ pipe'[v][k] = pipe[v][k]
        \/ v = q /\ k = Len(pipe[v]) + 1 /\ pipe'[v][k] = ExitCode
  BY <1>2
<1>9. NotTwice'
  <2>1. \A v \in Workers : \A j, k \in 1 .. Len(pipe'[v]) :
          pipe'[v][j] = pipe'[v][k] /\ pipe'[v][j] \in Fds => j = k
    BY <1>8, Distinct DEF NotTwice
  <2> QED
    BY <2>1, <1>1, <1>7 DEF NotTwice
<1>10. NotLost'
  BY <1>1, <1>7 DEF NotLost, TypeOK
<1>11. OrderOK'
  <2>1. early \subseteq Fds
    BY DEF TypeOK
  <2>2. \A v \in Workers : \A j, k \in 1 .. Len(pipe'[v]) :
          pipe'[v][j] = ExitCode /\ j < k => pipe'[v][k] \notin early
    <3> SUFFICES ASSUME NEW v \in Workers, NEW j \in 1 .. Len(pipe'[v]), NEW k \in 1 .. Len(pipe'[v]),
                        pipe'[v][j] = ExitCode, j < k, pipe'[v][k] \in early
                 PROVE  FALSE
      OBVIOUS
    <3>1. k \in 1 .. Len(pipe[v]) /\ pipe'[v][k] = pipe[v][k]
      BY <1>8, <2>1, Distinct
    <3>2. j \in 1 .. Len(pipe[v]) /\ pipe'[v][j] = pipe[v][j]
      BY <3>1, <1>2, <1>8
    <3> QED
      BY <3>1, <3>2 DEF OrderOK
  <2>3. \A v \in Workers : wpc[v] = "stopped" =>
          \A k \in 1 .. Len(pipe'[v]) : pipe'[v][k] \notin early
    BY <2>1, <1>8, Distinct DEF OrderOK
  <2> QED
    BY <2>2, <2>3, <1>1, <1>5 DEF OrderOK
<1>12. ToldOK'
  <2> SUFFICES ASSUME NEW w \in Workers, mpc = "freed" \/ \E u \in Threads : w < qpc'[u]
               PROVE  wpc[w] = "stopped" \/ Piped(w, ExitCode)'
    BY <1>1 DEF ToldOK
  <2>1. CASE w = q
    BY <2>1, <1>2
  <2>2. CASE w # q
    <3>1. w < q + 1 => w < q
      BY <2>2, <1>1, Numbers
    <3>2. mpc = "freed" \/ \E u \in Threads : w < qpc[u]
      BY <3>1, <1>1 DEF q
    <3> QED
      BY <3>2, <1>2 DEF ToldOK
  <2> QED
    BY <2>1, <2>2
<1>13. ScanOK'
  BY <1>1 DEF ScanOK
<1> QED
  BY <1>3, <1>4, <1>6, <1>9, <1>10, <1>11, <1>12, <1>13

(* quit has written to all pipes.                                          *)
LEMMA QuitEndKeeps == ASSUME IInv, NEW t \in Threads, QuitEnd(t) PROVE IInv'
<1> USE DEF IInv
<1>1. /\ UNCHANGED <<mi, mnum, mfd, wpc, pipe, queue, accepted, closed, leaked, quits,
                     early, steady>>
      /\ qpc[t] = N + 1 /\ exitAsked' = TRUE /\ mpc' = AfterQuit(t)
      /\ qpc' = [qpc EXCEPT ![t] = 0]
  BY DEF QuitEnd
<1>2. /\ qpc' \in [Threads -> 0 .. N + 1] /\ qpc'[t] = 0
      /\ \A u \in Threads : u # t => qpc'[u] = qpc[u]
  BY <1>1, Numbers DEF TypeOK
<1>3. mpc' = mpc \/ (t = Main /\ mpc = "destroy" /\ mpc' = "freed")
  BY <1>1, Numbers DEF MainOK, AfterQuit
<1>4. TypeOK'
  <2>1. exitAsked' \in BOOLEAN
    BY <1>1
  <2> QED
    BY <2>1, <1>1, <1>2, <1>3 DEF TypeOK
<1>5. QueuesOK' /\ NotTwice' /\ NotLost'
  BY <1>1, QueuesStay, SocketsStay
<1>6. MainOK'
  <2>1. Main \in Threads
    BY DEF Threads
  <2> QED
    BY <2>1, <1>1, <1>2, <1>3 DEF MainOK
<1>7. OrderOK'
  BY <1>1 DEF OrderOK, Piped
<1>8. ToldOK'
  <2>1. \A w \in Workers : w < qpc[t] /\ ~(w < 0)
    BY <1>1, Numbers
  <2>2. \A w \in Workers : wpc[w] = "stopped" \/ Piped(w, ExitCode)
    BY <2>1 DEF ToldOK
  <2> QED
    BY <2>2, <1>1 DEF ToldOK, Piped
<1>9. ScanOK'
  BY <1>1, <1>3 DEF ScanOK
<1> QED
  BY <1>4, <1>5, <1>6, <1>7, <1>8, <1>9

-----------------------------------------------------------------------------
(* The theorems.                                                           *)

(* Every step of every thread keeps the invariant.                         *)
LEMMA Step == IInv /\ [Next]_vars => IInv'
<1> SUFFICES ASSUME IInv, [Next]_vars PROVE IInv'
  OBVIOUS
<1>1. CASE MainStep
  BY <1>1, StartKeeps, ScanKeeps, HandOverKeeps, LoopKeeps DEF MainStep
<1>2. CASE \E fd \in Fds : Accept(fd)
  BY <1>2, AcceptKeeps
<1>3. ASSUME NEW w \in Workers, WorkerStep(w) PROVE IInv'
  <2>1. CASE NotifyConn(w)
    BY <2>1, NotifyConnKeeps DEF NotifyConn
  <2>2. CASE NotifyFails(w)
    BY <2>2, NotifyConnKeeps DEF NotifyFails
  <2> QED
    BY <1>3, <2>1, <2>2, NotifyExitKeeps, CloseConnKeeps DEF WorkerStep
<1>4. ASSUME NEW t \in Threads, StartQuit(t) \/ QuitStep(t) PROVE IInv'
  BY <1>4, StartQuitKeeps, QuitWriteKeeps, QuitEndKeeps DEF QuitStep
<1>5. CASE UNCHANGED vars
  <2>1. UNCHANGED <<mpc, mi, mnum, mfd, wpc, pipe, queue, accepted, closed, leaked,
                    qpc, quits, exitAsked, early, steady>>
    BY <1>5 DEF vars, mainVars, quitVars
  <2>2. QueuesOK' /\ NotTwice' /\ NotLost'
    BY <2>1, QueuesStay, SocketsStay DEF IInv
  <2>3. TypeOK' /\ MainOK' /\ ScanOK'
    BY <2>1 DEF IInv, TypeOK, MainOK, ScanOK
  <2>4. OrderOK' /\ ToldOK'
    BY <2>1 DEF IInv, OrderOK, ToldOK, Piped
  <2> QED
    BY <2>2, <2>3, <2>4 DEF IInv
<1> QED
  BY <1>1, <1>2, <1>3, <1>4, <1>5 DEF Next

(* A server that was just constructed satisfies the invariant.             *)
LEMMA Start == Init => IInv
<1> SUFFICES ASSUME Init PROVE IInv
  OBVIOUS
<1> USE DEF Init
<1>1. \A w \in Workers : pipe[w] = <<>> /\ Len(pipe[w]) = 0 /\ queue[w] = Q!EmptyQueue
  OBVIOUS
<1>2. \A w \in Workers : Q!Linked(queue[w]) = {} /\ \A x : ~Piped(w, x)
  BY <1>1, EmptyIsList DEF Piped
<1>3. TypeOK
  <2>1. exitAsked \in BOOLEAN /\ steady \in BOOLEAN
    OBVIOUS
  <2>2. mi \in 1 .. N + 1 /\ mnum \in Workers /\ quits \in 0 .. MaxQuits
        /\ qpc \in [Threads -> 0 .. N + 1]
    BY Numbers
  <2>3. /\ pipe \in [Workers -> Seq(Fds \cup {ExitCode})]
        /\ \A w \in Workers : Len(pipe[w]) <= PipeCap
    BY <1>1, Numbers
  <2> QED
    BY <2>1, <2>2, <2>3 DEF TypeOK
<1>4. QueuesOK
  BY <1>1, EmptyIsList DEF QueuesOK, QueuesIntact
<1>5. MainOK
  BY Numbers, Distinct DEF MainOK, Threads
<1>6. NotTwice
  BY <1>1, <1>2, Distinct DEF NotTwice
<1>7. NotLost /\ OrderOK
  BY <1>1, <1>2 DEF NotLost, OrderOK
<1>8. ToldOK
  BY Numbers DEF ToldOK
<1>9. ScanOK
  BY DEF ScanOK
<1> QED
  BY <1>3, <1>4, <1>5, <1>6, <1>7, <1>8, <1>9 DEF IInv

(* The invariant holds in every reachable state.                           *)
THEOREM Invariance == Spec => []IInv
  BY Start, Step, PTL DEF Spec

(* The variables keep their types, and no pipe is filled beyond its size.  *)
THEOREM TypeCorrect == Spec => []TypeOK
<1>1. IInv => TypeOK
  BY DEF IInv
<1> QED
  BY <1>1, Invariance, PTL

(* insertConn and deleteConn keep the linked list of every worker intact,  *)
(* in both directions and with its counter, however connections come and   *)
(* go.                                                                     *)
THEOREM ListsIntact == Spec => []QueuesIntact
<1>1. IInv => QueuesIntact
  BY DEF IInv, QueuesOK
<1> QED
  BY <1>1, Invariance, PTL

(* acceptCb picks a least loaded worker, if no counter changes meanwhile.  *)
THEOREM LeastLoaded == Spec => []PicksLeastLoaded
<1>1. IInv => PicksLeastLoaded
  BY DEF IInv, ScanOK, PicksLeastLoaded
<1> QED
  BY <1>1, Invariance, PTL

(* No worker stops with a connection in its pipe that was handed over      *)
(* before quit.                                                            *)
THEOREM ExitComesLast == Spec => []NoneLeftBehind
<1>1. IInv => NoneLeftBehind
  <2> SUFFICES ASSUME IInv, NEW w \in Workers, wpc[w] = "stopped", NEW k \in DOMAIN pipe[w]
               PROVE  pipe[w][k] \notin early
    BY DEF NoneLeftBehind
  <2>1. k \in 1 .. Len(pipe[w])
    BY DEF IInv, TypeOK
  <2> QED
    BY <2>1 DEF IInv, OrderOK
<1> QED
  BY <1>1, Invariance, PTL

(* The destructor frees no worker's loop without having told the worker.   *)
THEOREM Told == Spec => []ToldBeforeFreed
<1>1. IInv => ToldBeforeFreed
  <2> SUFFICES ASSUME IInv, mpc = "freed", NEW w \in Workers, wpc[w] # "stopped"
               PROVE  \E k \in DOMAIN pipe[w] : pipe[w][k] = ExitCode
    BY DEF ToldBeforeFreed
  <2>1. DOMAIN pipe[w] = 1 .. Len(pipe[w])
    BY DEF IInv, TypeOK
  <2> QED
    BY <2>1 DEF IInv, ToldOK, Piped
<1> QED
  BY <1>1, Invariance, PTL

(* The places of a socket, one kind after the other.                       *)
LEMMA PlacesOf ==
  ASSUME TypeOK, NEW fd \in Fds
  PROVE  /\ InHand(fd) = IF mfd = fd THEN {<<"main">>} ELSE {}
         /\ \A x : x \in InPipes(fd) <=>
              \E w \in Workers : \E k \in 1 .. Len(pipe[w]) :
                pipe[w][k] = fd /\ x = <<"pipe", w, k>>
         /\ \A x : x \in InQueues(fd) <=>
              \E w \in Workers : fd \in Q!Linked(queue[w]) /\ x = <<"queue", w>>
<1>1. \A w \in Workers : DOMAIN pipe[w] = 1 .. Len(pipe[w])
  BY DEF TypeOK
<1>2. \A x : x \in InPipes(fd) <=>
        \E w \in Workers : \E k \in 1 .. Len(pipe[w]) :
          pipe[w][k] = fd /\ x = <<"pipe", w, k>>
  BY <1>1 DEF InPipes
<1> QED
  BY <1>2 DEF InHand, InQueues

(* Every socket that was accepted is in exactly one place.                 *)
THEOREM ExactlyOnePlace == Spec => []OnePlace
<1>1. IInv => OnePlace
  <2> SUFFICES ASSUME IInv, NEW fd \in Fds
               PROVE  Cardinality(InHand(fd) \cup InPipes(fd) \cup InQueues(fd) \cup Gone(fd))
                        = IF fd \in accepted THEN 1 ELSE 0
    BY DEF OnePlace
  <2> DEFINE P == InHand(fd) \cup InPipes(fd) \cup InQueues(fd) \cup Gone(fd)
  <2>1. TypeOK /\ NotTwice /\ NotLost
    BY DEF IInv
  <2>2. InPipes(fd) = {} <=> \A w \in Workers : ~Piped(w, fd)
    <3>1. \A x : x \in InPipes(fd) <=>
            \E w \in Workers : \E k \in 1 .. Len(pipe[w]) :
              pipe[w][k] = fd /\ x = <<"pipe", w, k>>
      BY <2>1, PlacesOf
    <3>2. ASSUME NEW w \in Workers, Piped(w, fd) PROVE InPipes(fd) # {}
      <4>1. PICK k \in 1 .. Len(pipe[w]) : pipe[w][k] = fd
        BY <3>2 DEF Piped
      <4> QED
        BY <3>1, <4>1
    <3>3. ASSUME NEW x \in InPipes(fd) PROVE \E w \in Workers : Piped(w, fd)
      BY <3>1 DEF Piped
    <3> QED
      BY <3>2, <3>3
  <2>3. InQueues(fd) = {} <=> \A w \in Workers : fd \notin Q!Linked(queue[w])
    <3>1. \A x : x \in InQueues(fd) <=>
            \E w \in Workers : fd \in Q!Linked(queue[w]) /\ x = <<"queue", w>>
      BY <2>1, PlacesOf
    <3> QED
      BY <3>1
  <2>4. CASE fd \notin accepted
    <3>1. P = {}
      BY <2>1, <2>2, <2>3, <2>4 DEF NotTwice, InHand, Gone
    <3> QED
      BY <2>4, <3>1, FS_EmptySet
  <2>5. CASE fd \in accepted
    <3>1. \E x : P = {x}
      <4>1. CASE fd = mfd
        <5>1. P = {<<"main">>}
          BY <4>1, <2>1, <2>2, <2>3 DEF NotTwice, InHand, Gone
        <5> QED
          BY <5>1
      <4>2. CASE fd \in closed
        <5>1. P = {<<"closed">>}
          BY <4>2, <2>1, <2>2, <2>3 DEF NotTwice, InHand, Gone
        <5> QED
          BY <5>1
      <4>3. CASE fd \in leaked
        <5>1. P = {<<"leaked">>}
          BY <4>3, <2>1, <2>2, <2>3 DEF NotTwice, InHand, Gone
        <5> QED
          BY <5>1
      <4>4. ASSUME NEW w \in Workers, Piped(w, fd) PROVE \E x : P = {x}
        <5>1. PICK k \in 1 .. Len(pipe[w]) : pipe[w][k] = fd
          BY <4>4 DEF Piped
        <5>2. \A v \in Workers : \A j \in 1 .. Len(pipe[v]) : pipe[v][j] = fd => v = w /\ j = k
          BY <4>4, <5>1, <2>1 DEF NotTwice, Piped
        <5>3. InPipes(fd) = {<<"pipe", w, k>>}
          BY <5>1, <5>2, <2>1, PlacesOf
        <5>4. InHand(fd) = {} /\ Gone(fd) = {} /\ InQueues(fd) = {}
          BY <4>4, <2>1, <2>3 DEF NotTwice, InHand, Gone
        <5> QED
          BY <5>3, <5>4
      <4>5. ASSUME NEW w \in Workers, fd \in Q!Linked(queue[w]) PROVE \E x : P = {x}
        <5>1. \A v \in Workers : fd \in Q!Linked(queue[v]) => v = w
          BY <4>5, <2>1 DEF NotTwice
        <5>2. InQueues(fd) = {<<"queue", w>>}
          BY <4>5, <5>1, <2>1, PlacesOf
        <5>3. InHand(fd) = {} /\ Gone(fd) = {} /\ InPipes(fd) = {}
          BY <4>5, <2>1, <2>2 DEF NotTwice, InHand, Gone
        <5> QED
          BY <5>2, <5>3
      <4> QED
        BY <4>1, <4>2, <4>3, <4>4, <4>5, <2>1, <2>5 DEF NotLost
    <3> HIDE DEF P
    <3>2. PICK x : P = {x}
      BY <3>1
    <3> QED
      BY <2>5, <3>2, FS_Singleton DEF P
  <2> QED
    BY <2>4, <2>5
<1> QED
  BY <1>1, Invariance, PTL
=============================================================================
