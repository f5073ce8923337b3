----------------------------- MODULE ThreadPool -----------------------------
(***************************************************************************)
(* threadpool_server.c: one accepting thread (main) hands descriptors      *)
(* through a bounded ring (fd_queue_t) to a fixed set of workers.          *)
(*                                                                         *)
(* Threads interleave at every mutex, condition-variable and system-call   *)
(* operation.  apc and wpc name the next operation of main and of each     *)
(* worker.  A thread that returns from pthread_cond_wait owns the          *)
(* mutex again and re-tests the loop condition, so a woken thread goes     *)
(* back to its "lock" step.  The waiters of a condition variable are the   *)
(* threads whose pc says so.                                               *)
(*                                                                         *)
(* The kernel (listen backlog, descriptor table, signal delivery) and the  *)
(* clients are modelled from how the code uses them.                       *)
(***************************************************************************)
EXTENDS Integers, FiniteSets, Sequences

CONSTANTS
  Worker,       \* the worker threads (num_workers of them)
  Capacity,     \* queue_depth
  FD,           \* descriptors this process may still allocate
  Conn,         \* client connections; each connects once
  Backlog,      \* completed handshakes the kernel keeps for the listener
  Main,         \* the accepting thread, as an owner of the mutex
  Free,         \* the mutex has no owner
  None,         \* no descriptor, no connection
  MaxRefused,   \* bound: failed accepts for want of a descriptor
  MaxSpurious   \* bound: wakeups that no signal caused

\* main() refuses to start with fewer than one worker or one slot.
ASSUME CapacityAssumption == Capacity \in Nat \ {0}
ASSUME WorkerAssumption == Worker # {} /\ IsFiniteSet(Worker)
ASSUME DistinctAssumption ==
  /\ Main \notin Worker
  /\ Free \notin Worker \cup {Main}
  /\ None \notin FD \cup Conn
ASSUME BoundAssumption == Backlog \in Nat /\ MaxRefused \in Nat /\ MaxSpurious \in Nat

VARIABLES
  \* fd_queue_t
  fds, head, tail, count, total_enqueued, acceptor_blocked, lock,
  \* main
  apc, afd, stop_requested,
  \* worker_main
  wpc, wfd,
  \* the metrics registry, as far as this program writes it
  accepted, refused, active, queue_depth, workers_busy,
  \* the kernel and the clients
  idle, backlog, gone, sock, spurious

queue == <<fds, head, tail, count, total_enqueued>>
sync == <<lock, acceptor_blocked>>
hand == <<afd, stop_requested>>
acceptor == <<apc, hand>>
workers == <<wpc, wfd>>
metrics == <<accepted, refused, active, queue_depth, workers_busy>>
world == <<idle, backlog, gone, sock, spurious>>
vars == <<queue, sync, acceptor, workers, metrics, world>>

-----------------------------------------------------------------------------

Slot == 0 .. Capacity - 1

Alive == apc # "exit"

\* Main holds the mutex at these steps of queue_push, a worker at these of queue_pop.
PushHeld == {"push_check", "push_advance", "push_unlock"}
PopHeld == {"pop_check", "pop_advance", "pop_unlock"}

MainGoes(p, q) == apc = p /\ apc' = q
WorkerGoes(w, p, q) == wpc[w] = p /\ wpc' = [wpc EXCEPT ![w] = q]

Init ==
  /\ fds = [i \in Slot |-> None]
  /\ head = 0 /\ tail = 0 /\ count = 0 /\ total_enqueued = 0
  /\ lock = Free /\ acceptor_blocked = 0
  /\ apc = "spawn" /\ afd = None /\ stop_requested = FALSE
  /\ wpc = [w \in Worker |-> "unborn"]
  /\ wfd = [w \in Worker |-> None]
  /\ accepted = 0 /\ refused = 0 /\ active = 0 /\ queue_depth = 0 /\ workers_busy = 0
  /\ idle = Conn /\ backlog = {} /\ gone = {}
  /\ sock = [f \in FD |-> None]
  /\ spurious = 0

-----------------------------------------------------------------------------
\* main: start-up.

\* pthread_create of one worker; the workers start on queue_pop at once.
SpawnWorker(w) ==
  /\ apc = "spawn"
  /\ WorkerGoes(w, "unborn", "pop_lock")
  /\ UNCHANGED <<queue, sync, acceptor, wfd, metrics, world>>

\* listen_inet_socket, once every worker is running.
Listen ==
  /\ MainGoes("spawn", "test")
  /\ \A w \in Worker : wpc[w] # "unborn"
  /\ UNCHANGED <<queue, sync, hand, workers, metrics, world>>

-----------------------------------------------------------------------------
\* main: the accept loop.

\* while (!stop_requested).  The flag is read here; accept() is entered later.
TestStop ==
  /\ apc = "test"
  /\ apc' = IF stop_requested THEN "shutdown" ELSE "enter"
  /\ UNCHANGED <<queue, sync, hand, workers, metrics, world>>

EnterAccept ==
  /\ MainGoes("enter", "accept")
  /\ UNCHANGED <<queue, sync, hand, workers, metrics, world>>

\* accept() returns a descriptor for a connection of the backlog.
AcceptConn(c, f) ==
  /\ MainGoes("accept", "accepted")
  /\ c \in backlog /\ sock[f] = None
  /\ backlog' = backlog \ {c}
  /\ sock' = [sock EXCEPT ![f] = c] /\ afd' = f
  /\ UNCHANGED <<queue, sync, stop_requested, workers, metrics, idle, gone, spurious>>

\* ECONNABORTED: the client left before it was accepted.
AcceptAborted(c) ==
  /\ MainGoes("accept", "test")
  /\ c \in backlog \cap gone
  /\ backlog' = backlog \ {c}
  /\ UNCHANGED <<queue, sync, hand, workers, metrics, idle, gone, sock, spurious>>

\* EMFILE, ENFILE, ENOBUFS or ENOMEM: count a refusal, then poll() for a while.
\* The connection stays in the backlog.
AcceptRefused ==
  /\ MainGoes("accept", "backoff")
  /\ refused < MaxRefused /\ refused' = refused + 1
  /\ UNCHANGED <<queue, sync, hand, workers,
                 accepted, active, queue_depth, workers_busy, world>>

BackoffDone ==
  /\ MainGoes("backoff", "test")
  /\ UNCHANGED <<queue, sync, hand, workers, metrics, world>>

\* metrics_connection_accepted: two separate atomic increments.
CountAccepted ==
  /\ MainGoes("accepted", "active")
  /\ accepted' = accepted + 1
  /\ UNCHANGED <<queue, sync, hand, workers, refused, active, queue_depth, workers_busy, world>>

CountActive ==
  /\ MainGoes("active", "push_lock")
  /\ active' = active + 1
  /\ UNCHANGED <<queue, sync, hand, workers,
                 accepted, refused, queue_depth, workers_busy, world>>

-----------------------------------------------------------------------------
\* main: queue_push.

PushLock ==
  /\ MainGoes("push_lock", "push_check")
  /\ lock = Free /\ lock' = Main
  /\ UNCHANGED <<queue, acceptor_blocked, hand, workers, metrics, world>>

\* The queue is full: pthread_cond_wait(&q->not_full) releases the mutex and
\* starts to wait in one step.
PushWait ==
  /\ MainGoes("push_check", "push_wait")
  /\ count = Capacity
  /\ acceptor_blocked' = acceptor_blocked + 1 /\ lock' = Free
  /\ UNCHANGED <<queue, hand, workers, metrics, world>>

\* Mutant: the loop test is dropped.
PushStoreUnchecked ==
  /\ MainGoes("push_check", "push_advance")
  /\ fds' = [fds EXCEPT ![tail] = afd]
  /\ UNCHANGED <<head, tail, count, total_enqueued, sync, hand, workers, metrics, world>>

PushStore ==
  /\ MainGoes("push_check", "push_advance")
  /\ count # Capacity
  /\ fds' = [fds EXCEPT ![tail] = afd]
  /\ UNCHANGED <<head, tail, count, total_enqueued, sync, hand, workers, metrics, world>>

\* From here the descriptor is the queue's; main does not use it again.
PushAdvance ==
  /\ MainGoes("push_advance", "push_unlock")
  /\ tail' = (tail + 1) % Capacity
  /\ count' = count + 1 /\ total_enqueued' = total_enqueued + 1
  /\ afd' = None
  /\ UNCHANGED <<fds, head, sync, stop_requested, workers, metrics, world>>

\* metrics_queue_depth_set, then pthread_mutex_unlock.
PushUnlock ==
  /\ MainGoes("push_unlock", "push_signal")
  /\ queue_depth' = count /\ lock' = Free
  /\ UNCHANGED <<queue, acceptor_blocked, hand, workers,
                 accepted, refused, active, workers_busy, world>>

\* Threads blocked in pthread_cond_wait(&q->not_empty).
WaitingWorkers == {w \in Worker : wpc[w] = "pop_wait"}

\* Mutant: the signal is forgotten.
PushSignalMissing ==
  /\ MainGoes("push_signal", "test")
  /\ UNCHANGED <<queue, sync, hand, workers, metrics, world>>

\* pthread_cond_signal(&q->not_empty), after the unlock: one waiter wakes, if any.
PushSignal ==
  /\ MainGoes("push_signal", "test")
  /\ \/ /\ WaitingWorkers = {}
        /\ UNCHANGED wpc
     \/ \E w \in WaitingWorkers : wpc' = [wpc EXCEPT ![w] = "pop_lock"]
  /\ UNCHANGED <<queue, sync, hand, wfd, metrics, world>>

-----------------------------------------------------------------------------
\* main: the way out.

\* metrics_server_stop and close(listener): the kernel drops the backlog.
Shutdown ==
  /\ MainGoes("shutdown", "return")
  /\ backlog' = {}
  /\ UNCHANGED <<queue, sync, hand, workers, metrics, idle, gone, sock, spurious>>

\* The process ends with its workers wherever they are: main does not join
\* them.  The kernel closes every descriptor.
ProcessEnds ==
  /\ apc' = "exit"
  /\ backlog' = {}
  /\ sock' = [f \in FD |-> None]
  /\ UNCHANGED <<queue, sync, hand, workers, metrics, idle, gone, spurious>>

\* return 0 of main.
Return ==
  /\ apc = "return"
  /\ ProcessEnds

\* die() when pthread_create fails, perror_die() on any other accept() error.
Die ==
  /\ apc \in {"spawn", "accept"}
  /\ ProcessEnds

\* SIGINT or SIGTERM runs on_stop_signal in the main thread.  Installed without
\* SA_RESTART, it makes a blocked accept() or poll() return; a wait for the
\* mutex or for not_full goes on.
StopSignal ==
  /\ Alive
  /\ stop_requested' = TRUE
  /\ apc' = IF apc \in {"accept", "backoff"} THEN "test" ELSE apc
  /\ UNCHANGED <<queue, sync, afd, workers, metrics, world>>

-----------------------------------------------------------------------------
\* worker_main: queue_pop.

PopLock(w) ==
  /\ WorkerGoes(w, "pop_lock", "pop_check")
  /\ lock = Free /\ lock' = w
  /\ UNCHANGED <<queue, acceptor_blocked, acceptor, wfd, metrics, world>>

PopWait(w) ==
  /\ WorkerGoes(w, "pop_check", "pop_wait")
  /\ count = 0
  /\ lock' = Free
  /\ UNCHANGED <<queue, acceptor_blocked, acceptor, wfd, metrics, world>>

PopLoad(w) ==
  /\ WorkerGoes(w, "pop_check", "pop_advance")
  /\ count # 0
  /\ wfd' = [wfd EXCEPT ![w] = fds[head]]
  /\ UNCHANGED <<queue, sync, acceptor, metrics, world>>

\* Mutant: head stays where it is.
PopAdvanceStuck(w) ==
  /\ WorkerGoes(w, "pop_advance", "pop_unlock")
  /\ count' = count - 1
  /\ UNCHANGED <<fds, head, tail, total_enqueued, sync, acceptor, wfd, metrics, world>>

PopAdvance(w) ==
  /\ WorkerGoes(w, "pop_advance", "pop_unlock")
  /\ head' = (head + 1) % Capacity
  /\ count' = count - 1
  /\ UNCHANGED <<fds, tail, total_enqueued, sync, acceptor, wfd, metrics, world>>

PopUnlock(w) ==
  /\ WorkerGoes(w, "pop_unlock", "pop_signal")
  /\ queue_depth' = count /\ lock' = Free
  /\ UNCHANGED <<queue, acceptor_blocked, acceptor, wfd,
                 accepted, refused, active, workers_busy, world>>

\* Mutant: the worker signals not_empty, which wakes another worker instead of main.
PopSignalWrongCond(w) ==
  /\ wpc[w] = "pop_signal"
  /\ \E v \in WaitingWorkers \cup {w} :
       wpc' = [wpc EXCEPT ![v] = "pop_lock", ![w] = "start"]
  /\ UNCHANGED <<queue, sync, acceptor, wfd, metrics, world>>

\* pthread_cond_signal(&q->not_full): main is its only waiter.
PopSignal(w) ==
  /\ WorkerGoes(w, "pop_signal", "start")
  /\ apc' = IF apc = "push_wait" THEN "push_lock" ELSE apc
  /\ UNCHANGED <<queue, sync, hand, wfd, metrics, world>>

-----------------------------------------------------------------------------
\* worker_main: one connection.

\* metrics_workers_busy_add(1), then into serve_connection.
StartServing(w) ==
  /\ WorkerGoes(w, "start", "serve")
  /\ workers_busy' = workers_busy + 1
  /\ UNCHANGED <<queue, sync, acceptor, wfd, accepted, refused, active, queue_depth, world>>

\* serve_connection returns once the client closes or resets the connection;
\* metrics_workers_busy_add(-1).
StopServing(w) ==
  /\ WorkerGoes(w, "serve", "close")
  /\ sock[wfd[w]] \in gone
  /\ workers_busy' = workers_busy - 1
  /\ UNCHANGED <<queue, sync, acceptor, wfd, accepted, refused, active, queue_depth, world>>

\* Mutant: the descriptor is forgotten instead of closed.
CloseConnLeaks(w) ==
  /\ WorkerGoes(w, "close", "closed")
  /\ wfd' = [wfd EXCEPT ![w] = None]
  /\ UNCHANGED <<queue, sync, acceptor, metrics, world>>

\* close(sockfd): from here accept() may return the same descriptor again.
CloseConn(w) ==
  /\ WorkerGoes(w, "close", "closed")
  /\ sock' = [sock EXCEPT ![wfd[w]] = None]
  /\ wfd' = [wfd EXCEPT ![w] = None]
  /\ UNCHANGED <<queue, sync, acceptor, metrics, idle, backlog, gone, spurious>>

\* Mutant: the closed connection stays in the gauge.
CountClosedMissing(w) ==
  /\ WorkerGoes(w, "closed", "pop_lock")
  /\ UNCHANGED <<queue, sync, acceptor, wfd, metrics, world>>

\* metrics_connection_closed, then back to queue_pop.
CountClosed(w) ==
  /\ WorkerGoes(w, "closed", "pop_lock")
  /\ active' = active - 1
  /\ UNCHANGED <<queue, sync, acceptor, wfd,
                 accepted, refused, queue_depth, workers_busy, world>>

-----------------------------------------------------------------------------
\* The kernel and the clients.

\* POSIX lets pthread_cond_wait return without a signal.
SpuriousMain ==
  /\ MainGoes("push_wait", "push_lock")
  /\ spurious < MaxSpurious /\ spurious' = spurious + 1
  /\ UNCHANGED <<queue, sync, hand, workers, metrics, idle, backlog, gone, sock>>

SpuriousWorker(w) ==
  /\ Alive
  /\ WorkerGoes(w, "pop_wait", "pop_lock")
  /\ spurious < MaxSpurious /\ spurious' = spurious + 1
  /\ UNCHANGED <<queue, sync, acceptor, wfd, metrics, idle, backlog, gone, sock>>

\* The handshake completes in the kernel while the listener is open and its
\* backlog has room; until then the client keeps trying.
ClientConnects(c) ==
  /\ apc \notin {"spawn", "return", "exit"}
  /\ Cardinality(backlog) < Backlog
  /\ c \in idle /\ idle' = idle \ {c}
  /\ backlog' = backlog \cup {c}
  /\ UNCHANGED <<queue, sync, acceptor, workers, metrics, gone, sock, spurious>>

\* The client closes or resets, whatever the server has done with it so far.
ClientLeaves(c) ==
  /\ Alive
  /\ c \in Conn \ (idle \cup gone)
  /\ gone' = gone \cup {c}
  /\ UNCHANGED <<queue, sync, acceptor, workers, metrics, idle, backlog, sock, spurious>>

-----------------------------------------------------------------------------

\* What main does by itself; the error returns of accept() are not among them.
MainStep ==
  \/ \E w \in Worker : SpawnWorker(w)
  \/ Listen \/ TestStop \/ EnterAccept
  \/ \E c \in Conn, f \in FD : AcceptConn(c, f)
  \/ BackoffDone \/ CountAccepted \/ CountActive
  \/ PushLock \/ PushWait \/ PushStore \/ PushAdvance \/ PushUnlock \/ PushSignal
  \/ Shutdown \/ Return

MainError ==
  \/ AcceptRefused
  \/ \E c \in Conn : AcceptAborted(c)
  \/ Die

\* The threads run until the process ends.
WorkerStep(w) ==
  /\ Alive
  /\ \/ PopLock(w) \/ PopWait(w) \/ PopLoad(w) \/ PopAdvance(w) \/ PopUnlock(w) \/ PopSignal(w)
     \/ StartServing(w) \/ StopServing(w) \/ CloseConn(w) \/ CountClosed(w)

Environment ==
  \/ StopSignal
  \/ SpuriousMain \/ \E w \in Worker : SpuriousWorker(w)
  \/ \E c \in Conn : ClientConnects(c) \/ ClientLeaves(c)

\* Nothing is left to do once the process has ended.
Ended ==
  /\ ~Alive
  /\ UNCHANGED vars

Next ==
  \/ MainStep
  \/ MainError
  \/ \E w \in Worker : WorkerStep(w)
  \/ Environment
  \/ Ended

\* Safety only: what the proofs use.
SafeSpec == Init /\ [][Next]_vars

\* The scheduler runs every thread that can run.  Nothing is assumed of the
\* clients, of the signals, or of who gets a contended mutex.
Spec == SafeSpec /\ WF_vars(MainStep) /\ \A w \in Worker : WF_vars(WorkerStep(w))

-----------------------------------------------------------------------------
\* Properties.

MainPC ==
  {"spawn", "test", "enter", "accept", "backoff", "accepted", "active", "push_lock",
   "push_wait", "push_signal", "shutdown", "return", "exit"} \cup PushHeld

WorkerPC ==
  {"unborn", "pop_lock", "pop_wait", "pop_signal", "start", "serve", "close", "closed"}
    \cup PopHeld

\* The type invariant.
TypeOK ==
  /\ fds \in [Slot -> FD \cup {None}]
  /\ head \in Slot /\ tail \in Slot /\ count \in 0 .. Capacity
  /\ total_enqueued \in Nat /\ acceptor_blocked \in Nat
  /\ lock \in Worker \cup {Main, Free}
  /\ apc \in MainPC /\ afd \in FD \cup {None} /\ stop_requested \in BOOLEAN
  /\ wpc \in [Worker -> WorkerPC]
  /\ wfd \in [Worker -> FD \cup {None}]
  /\ accepted \in Nat /\ refused \in Nat /\ active \in Int
  /\ queue_depth \in 0 .. Capacity /\ workers_busy \in Int
  /\ idle \subseteq Conn /\ backlog \subseteq Conn /\ gone \subseteq Conn
  /\ sock \in [FD -> Conn \cup {None}]
  /\ spurious \in Nat

\* A slot of the ring between head and tail.
InRing(s) == (s - head) % Capacity < count

\* A worker owns the descriptor it popped once it has moved head past it.
Held(w) == IF wpc[w] = "pop_advance" THEN None ELSE wfd[w]

Owners(f) ==
  {s \in Slot : InRing(s) /\ fds[s] = f}
    \cup {w \in Worker : Held(w) = f}
    \cup {m \in {Main} : afd = f}

\* Between accept() and close() a descriptor has exactly one owner (main, a slot
\* of the ring, or a worker), and a closed one has none: no connection leaks, is
\* served twice, or is touched after close() made its number available again.
SingleOwner ==
  Alive =>
    \A f \in FD :
      IF sock[f] = None THEN Owners(f) = {} ELSE \E o \in Owners(f) : Owners(f) = {o}

\* Workers on their way to test the count of the queue.
Awake == {w \in Worker : wpc[w] \in {"pop_lock", "pop_check", "pop_advance"}}

\* Main has added a descriptor and not signalled not_empty yet.
SignalDue == IF apc \in {"push_unlock", "push_signal"} THEN 1 ELSE 0

\* No wakeup is lost although both signals are sent after the unlock: while a
\* worker waits for not_empty, each queued descriptor has a worker on its way to
\* it or a signal still to come; while main waits for not_full and a slot is
\* free, the worker that freed it has yet to signal.
NoLostWakeup ==
  /\ WaitingWorkers # {} => count <= Cardinality(Awake) + SignalDue
  /\ apc = "push_wait" /\ count < Capacity =>
       \E w \in Worker : wpc[w] \in {"pop_unlock", "pop_signal"}

\* The pool cannot fall asleep as a whole: main never waits for a free slot while
\* every worker waits for a descriptor, and with a descriptor in the queue all
\* workers wait only until main sends the signal it owes.
NeverAllAsleep ==
  WaitingWorkers = Worker =>
    apc # "push_wait" /\ (count > 0 => apc \in {"push_unlock", "push_signal"})

\* server_pool_queue_depth is the length of the queue whenever no thread holds
\* the mutex: both sides set it before they unlock, so two updates cannot cross.
DepthGaugeExact == lock = Free => queue_depth = count

\* server_connections_active counts the open connections, up to the one main has
\* not counted yet and those just closed, and never goes below zero, because main
\* counts a connection before any worker can see it; server_pool_workers_busy
\* counts the workers inside serve_connection; the depth is exact as above.
GaugesExact ==
  /\ DepthGaugeExact
  /\ Alive =>
       /\ active = Cardinality({f \in FD : sock[f] # None})
                   - (IF apc \in {"accepted", "active"} THEN 1 ELSE 0)
                   + Cardinality({w \in Worker : wpc[w] = "closed"})
       /\ active >= 0
       /\ workers_busy = Cardinality({w \in Worker : wpc[w] = "serve"})

\* Backpressure: the process never holds more connections than one per worker,
\* one per slot of the queue and the one main is handing over.
OpenBounded ==
  Alive => Cardinality({f \in FD : sock[f] # None}) <= Cardinality(Worker) + Capacity + 1

\* Every connection counted in server_connections_accepted_total is pushed exactly once.
EnqueuedOnce ==
  accepted = total_enqueued
             + (IF apc \in {"active", "push_lock", "push_wait", "push_check", "push_advance"}
                THEN 1 ELSE 0)

-----------------------------------------------------------------------------
\* The pool as the abstract Handoff sees it: descriptors stand for the
\* connections they are open on, and a connection that main still holds, or that
\* waits in the backlog, has not joined.

\* The descriptors in the ring, oldest first.
Queued == [i \in 1 .. count |-> fds[(head + i - 1) % Capacity]]

ConnOf(f) == IF f = None THEN None ELSE sock[f]

AbstractLine == IF Alive THEN [i \in 1 .. count |-> ConnOf(Queued[i])] ELSE <<>>

AbstractServing == [w \in Worker |-> IF Alive THEN ConnOf(Held(w)) ELSE None]

AbstractOutside ==
  IF Alive THEN idle \cup backlog \cup ({ConnOf(afd)} \ {None}) ELSE {}

Abstract == INSTANCE Handoff
  WITH outside <- AbstractOutside, line <- AbstractLine,
       serving <- AbstractServing, up <- Alive

\* The ring, its mutex and its two condition variables implement one bounded
\* first-in first-out line in which no connection is lost, duplicated or overtaken.
ImplementsHandoff == Abstract!Spec

\* A connection a worker is talking to.
Served(c) == \E w \in Worker : wpc[w] = "serve" /\ sock[wfd[w]] = c

\* serve_connection has no timeout, so nothing can be promised to the clients
\* behind one that stays forever.  Here a client that is being served eventually
\* closes or resets its connection.
PatientSpec ==
  Spec /\ \A c \in Conn : WF_vars(Served(c) /\ ClientLeaves(c))

\* A connection the server accepted is handed to a worker, served and closed.
AcceptedIsClosed ==
  \A c \in Conn : (\E f \in FD : sock[f] = c) ~> (\A f \in FD : sock[f] # c)

\* A client in the backlog is accepted, even after the process ran out of
\* descriptors, unless the server is stopping or has failed.
BacklogDrains ==
  \A c \in Conn : c \in backlog ~> (c \notin backlog \/ stop_requested)

\* After a stop request main never stays blocked in queue_push or in the back-off:
\* it leaves, or is back in accept().
StopOutlivesPush == stop_requested ~> apc \in {"accept", "exit"}

\* "accept() has to return EINTR for the loop to notice stop_requested": a main
\* that blocks in accept() after the request leaves it again.
StopNoticed == (stop_requested /\ apc = "accept") ~> apc # "accept"

=============================================================================
