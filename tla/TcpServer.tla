----------------------------- MODULE TcpServer -----------------------------
(***************************************************************************)
(* mRpc::TcpServer: the main thread that accepts connections, the worker   *)
(* threads that serve them, the pipe from the main thread to each worker,  *)
(* quit and the destructor.                                                *)
(*                                                                         *)
(* Interleaving.  The main thread reads the workers' counters without a    *)
(* lock, one loop iteration of acceptCb at a time, while the workers       *)
(* change them.  A callback of a worker is one step: other threads see     *)
(* nothing of it but the pipe and the counter.  quit takes no lock: a      *)
(* worker's callback, other threads of the program and the destructor may  *)
(* be in it at once, each writing to one pipe after the other.  A write to *)
(* a full pipe blocks.                                                     *)
(*                                                                         *)
(* event_base_loopexit called from another thread does not wake a main     *)
(* loop that waits for connections (libevent is used without its thread    *)
(* support): the loop notices it before it waits, at its start or when     *)
(* acceptCb has run.                                                       *)
(*                                                                         *)
(* Abstraction.  An accepted socket and its Conn are one element of Fds.   *)
(* What is read from or written to a connection is the concern of          *)
(* CodecLite.  The failures of the constructor (event_base_new, pipe,      *)
(* event_add) and of startRun before the first pthread_create leave no     *)
(* server behind and are left out.                                         *)
(***************************************************************************)
EXTENDS Integers, Sequences, FiniteSets

CONSTANTS
  N,           \* thread_count
  Fds,         \* the sockets that clients connect
  PipeCap,     \* how many descriptors a pipe holds
  MaxQuits,    \* bound on the calls of quit, the destructor's included
  ExitCode,    \* EXIT_CODE
  Nobody,      \* no socket
  Main,        \* the thread that runs startRun and the destructor
  Others,      \* the other threads of the program that may call quit
  HeadNode, TailNode, Null  \* the sentinels and the null pointer of the queues

Workers == 1 .. N
Threads == Workers \cup Others \cup {Main}

Q == INSTANCE ConnQueue WITH Conns <- Fds

ASSUME ServerAssumption ==
  /\ N \in Nat \ {0} /\ PipeCap \in Nat \ {0} /\ MaxQuits \in Nat
  /\ IsFiniteSet(Fds)
  /\ {ExitCode, Nobody, HeadNode, TailNode, Null} \cap Fds = {}
  /\ HeadNode # TailNode /\ HeadNode # Null /\ TailNode # Null
  /\ Others \cap Workers = {} /\ Main \notin Workers \cup Others

VARIABLES
  mpc,       \* main thread: "start", "dispatch" (in its loop), "wait" (for a
             \* connection), "scan", "write", "returned", "destroy" (in
             \* ~TcpServer), "freed"
  mi, mnum,  \* startRun's and acceptCb's i; acceptCb's num
  mfd,       \* acceptCb's fd
  wpc,       \* wpc[w]: "new", "loop" (in event_base_dispatch) or "stopped"
  pipe,      \* pipe[w]: what was written to notify_send_fd and not read yet
  queue,     \* queue[w]: connect_queue
  accepted,  \* the sockets accepted
  closed,    \* the sockets closed by bufferevent_free
  leaked,    \* the sockets left behind when bufferevent_socket_new failed
  qpc,       \* qpc[t]: the worker that t's quit writes to next; 0 outside quit
  quits,     \* how often quit was called
  exitAsked, \* event_base_loopexit was called on the main loop
  early,     \* history: the sockets handed to a pipe before the first quit
  steady     \* history: no counter has changed since acceptCb began its scan

mainVars == <<mpc, mi, mnum, mfd>>
quitVars == <<qpc, quits>>
vars == <<mainVars, wpc, pipe, queue, accepted, closed, leaked,
          quitVars, exitAsked, early, steady>>

Init ==
  /\ mpc = "start" /\ mi = 1 /\ mnum = 1 /\ mfd = Nobody
  /\ wpc = [w \in Workers |-> "new"]
  /\ pipe = [w \in Workers |-> <<>>]
  /\ queue = [w \in Workers |-> Q!EmptyQueue]
  /\ accepted = {} /\ closed = {} /\ leaked = {}
  /\ qpc = [t \in Threads |-> 0] /\ quits = 0
  /\ exitAsked = FALSE
  /\ early = {}
  /\ steady = TRUE

-----------------------------------------------------------------------------
(* The main thread: startRun.                                              *)

(* pthread_create for worker mi; after the last one the main loop runs.    *)
CreateThread ==
  /\ mpc = "start"
  /\ wpc' = [wpc EXCEPT ![mi] = "loop"]
  /\ mi' = mi + 1
  /\ mpc' = IF mi = N THEN "dispatch" ELSE "start"
  /\ UNCHANGED <<mnum, mfd, pipe, queue, accepted, closed, leaked,
                 quitVars, exitAsked, early, steady>>

(* pthread_create fails: startRun throws, the workers created so far run.  *)
CreateThreadFails ==
  /\ mpc = "start"
  /\ mpc' = "returned"
  /\ UNCHANGED <<mi, mnum, mfd, wpc, pipe, queue, accepted, closed, leaked,
                 quitVars, exitAsked, early, steady>>

-----------------------------------------------------------------------------
(* The main thread: acceptCb.                                              *)

(* With nothing to do the loop waits for the listener's socket.            *)
Wait ==
  /\ mpc = "dispatch"
  /\ ~exitAsked
  /\ mpc' = "wait"
  /\ UNCHANGED <<mi, mnum, mfd, wpc, pipe, queue, accepted, closed, leaked,
                 quitVars, exitAsked, early, steady>>

(* Sockets differ in nothing but their names: they come in a fixed order.  *)
NextSocket == CHOOSE fd \in Fds : fd \notin accepted

(* The listener accepts as many connections as there are before the loop   *)
(* goes on.                                                                *)
Accept(fd) ==
  /\ mpc \in {"dispatch", "wait"}
  /\ fd \notin accepted /\ fd = NextSocket
  /\ accepted' = accepted \cup {fd}
  /\ mpc' = "scan" /\ mi' = 1 /\ mnum' = 1 /\ mfd' = fd
  /\ steady' = TRUE
  /\ UNCHANGED <<wpc, pipe, queue, closed, leaked, quitVars, exitAsked, early>>

(* Mutant of Least: the comparison the wrong way round.                    *)
LeastSwapped(i, num) == IF queue[num].total < queue[i].total THEN i ELSE num

Least(i, num) == IF queue[num].total > queue[i].total THEN i ELSE num

(* One iteration of the search for the worker with the fewest connections. *)
Scan ==
  /\ mpc = "scan"
  /\ mnum' = Least(mi, mnum)
  /\ mi' = mi + 1
  /\ mpc' = IF mi = N THEN "write" ELSE "scan"
  /\ UNCHANGED <<mfd, wpc, pipe, queue, accepted, closed, leaked,
                 quitVars, exitAsked, early, steady>>

(* Mutant of HandOver: a full pipe does not make the writer wait.          *)
HandOverUnbounded ==
  /\ mpc = "write"
  /\ pipe' = [pipe EXCEPT ![mnum] = Append(@, mfd)]
  /\ early' = IF quits = 0 THEN early \cup {mfd} ELSE early
  /\ mpc' = "dispatch" /\ mfd' = Nobody
  /\ UNCHANGED <<mi, mnum, wpc, queue, accepted, closed, leaked,
                 quitVars, exitAsked, steady>>

(* Mutant of HandOver: it waits until the worker has taken all it had.     *)
HandOverWaits ==
  /\ mpc = "write"
  /\ pipe[mnum] = <<>>
  /\ pipe' = [pipe EXCEPT ![mnum] = Append(@, mfd)]
  /\ early' = IF quits = 0 THEN early \cup {mfd} ELSE early
  /\ mpc' = "dispatch" /\ mfd' = Nobody
  /\ UNCHANGED <<mi, mnum, wpc, queue, accepted, closed, leaked,
                 quitVars, exitAsked, steady>>

(* Mutant of HandOver: the loop goes back to waiting for connections only. *)
HandOverNoCheck ==
  /\ mpc = "write"
  /\ Len(pipe[mnum]) < PipeCap
  /\ pipe' = [pipe EXCEPT ![mnum] = Append(@, mfd)]
  /\ early' = IF quits = 0 THEN early \cup {mfd} ELSE early
  /\ mpc' = "wait" /\ mfd' = Nobody
  /\ UNCHANGED <<mi, mnum, wpc, queue, accepted, closed, leaked,
                 quitVars, exitAsked, steady>>

(* The write to the worker's pipe; then the main loop looks around again.  *)
HandOver ==
  /\ mpc = "write"
  /\ Len(pipe[mnum]) < PipeCap
  /\ pipe' = [pipe EXCEPT ![mnum] = Append(@, mfd)]
  /\ early' = IF quits = 0 THEN early \cup {mfd} ELSE early
  /\ mpc' = "dispatch" /\ mfd' = Nobody
  /\ UNCHANGED <<mi, mnum, wpc, queue, accepted, closed, leaked,
                 quitVars, exitAsked, steady>>

(* event_base_dispatch returns, the listener is freed, startRun returns.   *)
MainReturn ==
  /\ mpc = "dispatch"
  /\ exitAsked
  /\ mpc' = "returned"
  /\ UNCHANGED <<mi, mnum, mfd, wpc, pipe, queue, accepted, closed, leaked,
                 quitVars, exitAsked, early, steady>>

-----------------------------------------------------------------------------
(* A worker.                                                               *)

(* Worker w is in its event loop, not inside a callback that runs quit.    *)
(* Once the destructor has freed the loop under a running worker its       *)
(* behaviour is undefined, and the model ends.                             *)
InLoop(w) ==
  /\ wpc[w] = "loop"
  /\ qpc[w] = 0
  /\ mpc # "freed"

(* notifyHandler reads x from the worker's pipe.                           *)
Notified(w, x) ==
  /\ InLoop(w)
  /\ pipe[w] # <<>>
  /\ x = Head(pipe[w])
  /\ pipe' = [pipe EXCEPT ![w] = Tail(@)]

(* Mutant of NotifyConn: the connection is counted but the descriptor is   *)
(* left in the pipe, as if it were peeked.                                 *)
NotifyConnPeek(w) ==
  \E fd \in Fds :
    /\ InLoop(w) /\ pipe[w] # <<>> /\ fd = Head(pipe[w])
    /\ fd \notin Q!Linked(queue[w])
    /\ queue' = [queue EXCEPT ![w] = Q!InsertConn(@, fd)]
    /\ steady' = FALSE
    /\ UNCHANGED <<mainVars, wpc, pipe, accepted, closed, leaked, quitVars, exitAsked, early>>

(* A new connection: its Conn is inserted and its callbacks are enabled.   *)
NotifyConn(w) ==
  \E fd \in Fds :
    /\ Notified(w, fd)
    /\ queue' = [queue EXCEPT ![w] = Q!InsertConn(@, fd)]
    /\ steady' = FALSE
    /\ UNCHANGED <<mainVars, wpc, accepted, closed, leaked, quitVars, exitAsked, early>>

(* bufferevent_socket_new fails: the handler returns, the socket stays.    *)
NotifyFails(w) ==
  \E fd \in Fds :
    /\ Notified(w, fd)
    /\ leaked' = leaked \cup {fd}
    /\ UNCHANGED <<mainVars, wpc, queue, accepted, closed, quitVars, exitAsked, early, steady>>

(* EXIT_CODE: the loop is left when the handler returns.                   *)
NotifyExit(w) ==
  /\ Notified(w, ExitCode)
  /\ wpc' = [wpc EXCEPT ![w] = "stopped"]
  /\ UNCHANGED <<mainVars, queue, accepted, closed, leaked, quitVars, exitAsked, early, steady>>

(* The Conn is unlinked and deleted, the bufferevent freed: bufferEventCb  *)
(* does it for an end of file or an error, the codec's error callback for  *)
(* a refused frame.                                                        *)
CloseConn(w, fd) ==
  /\ InLoop(w)
  /\ fd \in Q!Linked(queue[w])
  /\ queue' = [queue EXCEPT ![w] = Q!DeleteConn(@, fd)]
  /\ closed' = closed \cup {fd}
  /\ steady' = FALSE
  /\ UNCHANGED <<mainVars, wpc, pipe, accepted, leaked, quitVars, exitAsked, early>>

WorkerStep(w) ==
  NotifyConn(w) \/ NotifyFails(w) \/ NotifyExit(w) \/ \E fd \in Fds : CloseConn(w, fd)

-----------------------------------------------------------------------------
(* quit and ~TcpServer.                                                    *)

(* quit is called by a callback of one of a worker's connections, by a     *)
(* thread of the program's, or first thing by the destructor, once         *)
(* startRun is over.                                                       *)
StartQuit(t) ==
  /\ qpc[t] = 0
  /\ quits < MaxQuits
  /\ \/ t \in Workers /\ InLoop(t) /\ Q!Linked(queue[t]) # {} /\ mpc' = mpc
     \/ t \in Others /\ mpc \notin {"destroy", "freed"} /\ mpc' = mpc
     \/ t = Main /\ mpc = "returned" /\ mpc' = "destroy"
  /\ qpc' = [qpc EXCEPT ![t] = 1]
  /\ quits' = quits + 1
  /\ UNCHANGED <<mi, mnum, mfd, wpc, pipe, queue, accepted, closed, leaked,
                 exitAsked, early, steady>>

(* Mutant of QuitWrite: the worker's loop is broken at once.               *)
QuitWriteBreak(t) ==
  /\ qpc[t] \in Workers /\ mpc # "freed"
  /\ wpc' = [wpc EXCEPT ![qpc[t]] = "stopped"]
  /\ qpc' = [qpc EXCEPT ![t] = @ + 1]
  /\ UNCHANGED <<mainVars, pipe, queue, accepted, closed, leaked, quits,
                 exitAsked, early, steady>>

(* Mutant of QuitWrite: the loop starts at the second worker.              *)
QuitWriteSkip(t) ==
  /\ qpc[t] \in Workers /\ mpc # "freed"
  /\ Len(pipe[qpc[t]]) < PipeCap
  /\ pipe' = [pipe EXCEPT ![qpc[t]] = IF qpc[t] = 1 THEN @ ELSE Append(@, ExitCode)]
  /\ qpc' = [qpc EXCEPT ![t] = @ + 1]
  /\ UNCHANGED <<mainVars, wpc, queue, accepted, closed, leaked, quits,
                 exitAsked, early, steady>>

(* Mutant of QuitWrite: it waits until the worker has emptied its pipe.    *)
QuitWriteWaits(t) ==
  /\ qpc[t] \in Workers /\ mpc # "freed"
  /\ pipe[qpc[t]] = <<>>
  /\ pipe' = [pipe EXCEPT ![qpc[t]] = Append(@, ExitCode)]
  /\ qpc' = [qpc EXCEPT ![t] = @ + 1]
  /\ UNCHANGED <<mainVars, wpc, queue, accepted, closed, leaked, quits,
                 exitAsked, early, steady>>

(* EXIT_CODE goes to one worker after the other.  A quit that is under way *)
(* in another thread when the destructor has freed the server is undefined *)
(* behaviour; the model ends there.                                        *)
QuitWrite(t) ==
  /\ qpc[t] \in Workers /\ mpc # "freed"
  /\ Len(pipe[qpc[t]]) < PipeCap
  /\ pipe' = [pipe EXCEPT ![qpc[t]] = Append(@, ExitCode)]
  /\ qpc' = [qpc EXCEPT ![t] = @ + 1]
  /\ UNCHANGED <<mainVars, wpc, queue, accepted, closed, leaked, quits,
                 exitAsked, early, steady>>

(* The destructor, when its quit is over, frees the loops and the threads' *)
(* records without joining the threads; other callers go on as they were.  *)
AfterQuit(t) == IF t = Main THEN "freed" ELSE mpc

(* event_base_loopexit on the main loop.                                   *)
QuitEnd(t) ==
  /\ qpc[t] = N + 1 /\ mpc # "freed"
  /\ qpc' = [qpc EXCEPT ![t] = 0]
  /\ exitAsked' = TRUE
  /\ mpc' = AfterQuit(t)
  /\ UNCHANGED <<mi, mnum, mfd, wpc, pipe, queue, accepted, closed, leaked,
                 quits, early, steady>>

MainStep ==
  CreateThread \/ CreateThreadFails \/ Wait \/ Scan \/ HandOver \/ MainReturn
QuitStep(t) == QuitWrite(t) \/ QuitEnd(t)

Next ==
  \/ MainStep
  \/ \E fd \in Fds : Accept(fd)
  \/ \E w \in Workers : WorkerStep(w)
  \/ \E t \in Threads : StartQuit(t) \/ QuitStep(t)

Spec == Init /\ [][Next]_vars

(* Every thread that can go on does; nothing is assumed of the clients,    *)
(* who connect and hang up as they like, or of the callers of quit.        *)
Fairness ==
  /\ WF_vars(MainStep)
  /\ \A t \in Threads : WF_vars(QuitStep(t))
  /\ \A w \in Workers : WF_vars(NotifyConn(w) \/ NotifyFails(w) \/ NotifyExit(w))

FairSpec == Spec /\ Fairness

-----------------------------------------------------------------------------
(* Properties.                                                             *)

(* Every variable has its type, and no pipe holds more than it can.        *)
TypeOK ==
  /\ mpc \in {"start", "dispatch", "wait", "scan", "write", "returned", "destroy", "freed"}
  /\ mi \in 1 .. N + 1 /\ mnum \in Workers /\ mfd \in Fds \cup {Nobody}
  /\ wpc \in [Workers -> {"new", "loop", "stopped"}]
  /\ pipe \in [Workers -> Seq(Fds \cup {ExitCode})]
  /\ \A w \in Workers : Len(pipe[w]) <= PipeCap
  /\ accepted \subseteq Fds /\ closed \subseteq Fds /\ leaked \subseteq Fds
  /\ qpc \in [Threads -> 0 .. N + 1]
  /\ quits \in 0 .. MaxQuits
  /\ exitAsked \in BOOLEAN
  /\ early \subseteq Fds
  /\ steady \in BOOLEAN

(* Every worker's list of connections is intact: walking it visits every   *)
(* Conn once, both ways, and total counts them.                            *)
QueuesIntact == \A w \in Workers : Q!IsList(queue[w])

(* Where a socket can be.                                                  *)
InHand(fd) == IF mfd = fd THEN {<<"main">>} ELSE {}
InPipes(fd) ==
  UNION {{<<"pipe", w, k>> : k \in {j \in DOMAIN pipe[w] : pipe[w][j] = fd}} : w \in Workers}
InQueues(fd) == {<<"queue", w>> : w \in {v \in Workers : fd \in Q!Linked(queue[v])}}
Gone(fd) ==
  (IF fd \in closed THEN {<<"closed">>} ELSE {}) \cup
  (IF fd \in leaked THEN {<<"leaked">>} ELSE {})

(* A socket that was accepted is at every moment in one place only: held   *)
(* by acceptCb, in one pipe, in one worker's list, closed, or left behind  *)
(* by a failed bufferevent_socket_new.  It is never served by two workers, *)
(* handed over twice, or lost on the way.                                  *)
OnePlace ==
  \A fd \in Fds :
    Cardinality(InHand(fd) \cup InPipes(fd) \cup InQueues(fd) \cup Gone(fd))
      = IF fd \in accepted THEN 1 ELSE 0

(* acceptCb picks a worker with the fewest connections, provided no worker *)
(* gains or loses one while it looks.                                      *)
PicksLeastLoaded ==
  mpc = "write" /\ steady =>
    \A w \in Workers : queue[mnum].total <= queue[w].total

(* A worker stops only after it has taken over every connection that was   *)
(* handed to it before quit was called: EXIT_CODE does not overtake.       *)
NoneLeftBehind ==
  \A w \in Workers :
    wpc[w] = "stopped" => \A k \in DOMAIN pipe[w] : pipe[w][k] \notin early

(* When the destructor frees a worker's loop, that worker has stopped or   *)
(* has been told to.                                                       *)
ToldBeforeFreed ==
  mpc = "freed" =>
    \A w \in Workers :
      wpc[w] = "stopped" \/ \E k \in DOMAIN pipe[w] : pipe[w][k] = ExitCode

(* The pipes that are full for good.  Nobody empties the pipe of a worker  *)
(* that has stopped or was never created, nor that of a worker whose       *)
(* callback is in quit, at a pipe of the same kind: its own, or one of     *)
(* workers that wait for each other in a circle.                           *)
Jammed ==
  UNION {S \in SUBSET Workers :
           \A w \in S :
             /\ Len(pipe[w]) = PipeCap
             /\ \/ wpc[w] = "stopped"
                \/ wpc[w] = "new" /\ mpc # "start"
                \/ qpc[w] \in S}

(* Every quit comes to its end, however many run at once, unless it has to *)
(* write to a pipe that is full for good or the server is destroyed under  *)
(* it.                                                                     *)
QuitEnds ==
  \A t \in Threads : qpc[t] = 1 ~> qpc[t] = 0 \/ qpc[t] \in Jammed \/ mpc = "freed"

(* A connection handed over before quit is taken out of the pipe by its    *)
(* worker, unless that worker is in a quit that a pipe full for good holds *)
(* up, or the server is destroyed.                                         *)
HandedTaken ==
  \A fd \in Fds :
    fd \in early ~>
      \/ InPipes(fd) = {} \/ mpc = "freed"
      \/ \E w \in Workers :
           qpc[w] \in Jammed /\ \E k \in DOMAIN pipe[w] : pipe[w][k] = fd

(* acceptCb, which blocks the main loop while a pipe is full, returns to   *)
(* it, unless the pipe is full for good.                                   *)
AcceptReturns ==
  mpc = "scan" ~> mpc \notin {"scan", "write"} \/ (mpc = "write" /\ mnum \in Jammed)

(* The first connection accepted after quit ends the main loop, unless     *)
(* acceptCb hands it to a pipe that is full for good.                      *)
ExitNoticed ==
  exitAsked /\ mpc = "scan" ~>
    mpc \in {"returned", "destroy", "freed"} \/ (mpc = "write" /\ mnum \in Jammed)
=============================================================================
