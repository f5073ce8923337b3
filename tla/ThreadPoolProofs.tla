-------------------------- MODULE ThreadPoolProofs --------------------------
(***************************************************************************)
(* Safety of ThreadPool for every number of workers, queue capacity, set   *)
(* of descriptors and set of clients.  The inductive invariants build on   *)
(* each other: the mutex (LockInv), the ring indices (RingInv), ownership  *)
(* (OwnInv), then where each connection is (ConnInv), which together show  *)
(* that the pool implements Handoff.                                       *)
(***************************************************************************)
EXTENDS ThreadPool, FiniteSetTheorems, SequenceTheorems, TLAPS

USE DEF MainGoes, WorkerGoes

-----------------------------------------------------------------------------
\* Arithmetic of the ring.

\* An index taken modulo the capacity is a slot of the ring.
LEMMA ModRange == ASSUME NEW x \in Int PROVE x % Capacity \in Slot
  BY CapacityAssumption, SMT DEF Slot

\* An index inside the ring is its own remainder.
LEMMA ModSmall == ASSUME NEW x \in Int, 0 <= x, x < Capacity PROVE x % Capacity = x
  BY CapacityAssumption, SMT

\* One turn too far round the ring.
LEMMA ModOver ==
  ASSUME NEW x \in Int, Capacity <= x, x < 2 * Capacity PROVE x % Capacity = x - Capacity
  BY CapacityAssumption, SMT

\* One turn short of it.
LEMMA ModUnder ==
  ASSUME NEW x \in Int, -Capacity <= x, x < 0 PROVE x % Capacity = x + Capacity
  BY CapacityAssumption, SMT

\* How far slot s lies beyond slot h, going round the ring.
LEMMA ModDiff ==
  ASSUME NEW s \in Slot, NEW h \in Slot
  PROVE  (s - h) % Capacity = IF s >= h THEN s - h ELSE s - h + Capacity
  BY CapacityAssumption, ModSmall, ModUnder DEF Slot

\* Moving head or tail on by one slot.
LEMMA NextSlot == ASSUME NEW s \in Slot PROVE (s + 1) % Capacity \in Slot
  BY CapacityAssumption, SMT DEF Slot

-----------------------------------------------------------------------------
\* The mutex.

\* The thread inside a critical section is the owner of the mutex, and the count
\* it tested is still the count when it uses it.
LockInv ==
  /\ apc \in PushHeld <=> lock = Main
  /\ \A w \in Worker : wpc[w] \in PopHeld <=> lock = w
  /\ apc = "push_advance" => count < Capacity
  /\ \A w \in Worker : wpc[w] = "pop_advance" => count > 0

TypeInv == TypeOK /\ LockInv

\* The program starts with the mutex free and an empty ring.
LEMMA TypeInvInit == Init => TypeInv
  <1> SUFFICES ASSUME Init PROVE TypeInv
    BY Zenon
  <1>0. 0 \in Slot
    BY CapacityAssumption DEF Slot
  <1>a. /\ fds \in [Slot -> FD \cup {None}]
        /\ wpc \in [Worker -> WorkerPC]
        /\ wfd \in [Worker -> FD \cup {None}]
        /\ sock \in [FD -> Conn \cup {None}]
    BY Zenon DEF Init, WorkerPC
  <1>b. /\ count \in 0 .. Capacity
        /\ queue_depth \in 0 .. Capacity
    BY CapacityAssumption DEF Init
  <1>c. stop_requested \in BOOLEAN
    BY Zenon DEF Init
  <1>1. TypeOK
    BY <1>0, <1>a, <1>b, <1>c DEF Init, TypeOK, MainPC
  <1>2. LockInv
    BY CapacityAssumption, DistinctAssumption, Zenon DEF Init, LockInv, PushHeld, PopHeld
  <1> QED
    BY <1>1, <1>2, Zenon DEF TypeInv

\* Every step of main, of a worker and of the environment keeps TypeInv.
LEMMA TypeInvNext == TypeInv /\ [Next]_vars => TypeInv'
  <1> SUFFICES ASSUME TypeInv, [Next]_vars PROVE TypeInv'
    BY Zenon
  <1> USE CapacityAssumption, DistinctAssumption, BoundAssumption
      DEF TypeInv, TypeOK, LockInv, MainPC, WorkerPC, PushHeld, PopHeld
  <1> USE DEF queue, sync, hand, acceptor, workers, metrics, world
  <1>1. ASSUME NEW w \in Worker, SpawnWorker(w) PROVE TypeInv'
    BY <1>1, Zenon DEF SpawnWorker
  <1>2. ASSUME Listen PROVE TypeInv'
    BY <1>2, Zenon DEF Listen
  <1>3. ASSUME TestStop PROVE TypeInv'
    BY <1>3, Zenon DEF TestStop
  <1>4. ASSUME EnterAccept PROVE TypeInv'
    BY <1>4, Zenon DEF EnterAccept
  <1>5. ASSUME NEW c \in Conn, NEW f \in FD, AcceptConn(c, f) PROVE TypeInv'
    BY <1>5, Zenon DEF AcceptConn
  <1>6. ASSUME NEW c \in Conn, AcceptAborted(c) PROVE TypeInv'
    BY <1>6, Zenon DEF AcceptAborted
  <1>7. ASSUME AcceptRefused PROVE TypeInv'
    BY <1>7 DEF AcceptRefused
  <1>8. ASSUME BackoffDone PROVE TypeInv'
    BY <1>8, Zenon DEF BackoffDone
  <1>9. ASSUME CountAccepted PROVE TypeInv'
    BY <1>9 DEF CountAccepted
  <1>10. ASSUME CountActive PROVE TypeInv'
    BY <1>10 DEF CountActive
  <1>11. ASSUME PushLock PROVE TypeInv'
    BY <1>11, Zenon DEF PushLock
  <1>12. ASSUME PushWait PROVE TypeInv'
    BY <1>12 DEF PushWait
  <1>13. ASSUME PushStore PROVE TypeInv'
    BY <1>13 DEF PushStore
  <1>14. ASSUME PushAdvance PROVE TypeInv'
    <2>1. (tail + 1) % Capacity \in Slot
      BY NextSlot, Zenon
    <2>2. count < Capacity /\ lock = Main
      BY <1>14, Zenon DEF PushAdvance
    <2>3. \A w \in Worker : wpc[w] # "pop_advance"
      BY <2>2, Zenon
    <2> QED
      BY <2>1, <2>2, <2>3, <1>14 DEF PushAdvance
  <1>15. ASSUME PushUnlock PROVE TypeInv'
    BY <1>15, Zenon DEF PushUnlock
  <1>16. ASSUME PushSignal PROVE TypeInv'
    <2>1. CASE UNCHANGED wpc
      BY <2>1, <1>16, Zenon DEF PushSignal
    <2>2. ASSUME NEW w \in WaitingWorkers, wpc' = [wpc EXCEPT ![w] = "pop_lock"]
          PROVE TypeInv'
      BY <2>2, <1>16, Zenon DEF PushSignal, WaitingWorkers
    <2> QED
      BY <2>1, <2>2, <1>16, Zenon DEF PushSignal
  <1>17. ASSUME Shutdown PROVE TypeInv'
    BY <1>17, Zenon DEF Shutdown
  <1>18. ASSUME Return PROVE TypeInv'
    BY <1>18, Zenon DEF Return, ProcessEnds
  <1>19. ASSUME Die PROVE TypeInv'
    BY <1>19, Zenon DEF Die, ProcessEnds
  <1>20. ASSUME StopSignal PROVE TypeInv'
    BY <1>20, Zenon DEF StopSignal, Alive
  <1>21. ASSUME NEW w \in Worker, PopLock(w) PROVE TypeInv'
    BY <1>21, Zenon DEF PopLock
  <1>22. ASSUME NEW w \in Worker, PopWait(w) PROVE TypeInv'
    BY <1>22, Zenon DEF PopWait
  <1>23. ASSUME NEW w \in Worker, PopLoad(w) PROVE TypeInv'
    BY <1>23 DEF PopLoad
  <1>24. ASSUME NEW w \in Worker, PopAdvance(w) PROVE TypeInv'
    <2>1. (head + 1) % Capacity \in Slot
      BY NextSlot, Zenon
    <2>2. count > 0 /\ lock = w
      BY <1>24, Zenon DEF PopAdvance
    <2>3. apc # "push_advance"
      BY <2>2, Zenon
    <2>4. \A v \in Worker : v # w => wpc[v] # "pop_advance"
      BY <2>2, Zenon
    <2> QED
      BY <2>1, <2>2, <2>3, <2>4, <1>24 DEF PopAdvance
  <1>25. ASSUME NEW w \in Worker, PopUnlock(w) PROVE TypeInv'
    BY <1>25, Zenon DEF PopUnlock
  <1>26. ASSUME NEW w \in Worker, PopSignal(w) PROVE TypeInv'
    BY <1>26, Zenon DEF PopSignal
  <1>27. ASSUME NEW w \in Worker, StartServing(w) PROVE TypeInv'
    BY <1>27 DEF StartServing
  <1>28. ASSUME NEW w \in Worker, StopServing(w) PROVE TypeInv'
    BY <1>28 DEF StopServing
  <1>29. ASSUME NEW w \in Worker, CloseConn(w) PROVE TypeInv'
    BY <1>29, Zenon DEF CloseConn
  <1>30. ASSUME NEW w \in Worker, CountClosed(w) PROVE TypeInv'
    BY <1>30 DEF CountClosed
  <1>31. ASSUME SpuriousMain PROVE TypeInv'
    BY <1>31 DEF SpuriousMain
  <1>32. ASSUME NEW w \in Worker, SpuriousWorker(w) PROVE TypeInv'
    BY <1>32 DEF SpuriousWorker, Alive
  <1>33. ASSUME NEW c \in Conn, ClientConnects(c) PROVE TypeInv'
    BY <1>33, Zenon DEF ClientConnects
  <1>34. ASSUME NEW c \in Conn, ClientLeaves(c) PROVE TypeInv'
    BY <1>34, Zenon DEF ClientLeaves, Alive
  <1>35. ASSUME Ended PROVE TypeInv'
    BY <1>35, Zenon DEF Ended, vars
  <1>36. CASE UNCHANGED vars
    BY <1>36, Zenon DEF vars
  <1> QED
    BY <1>1, <1>2, <1>3, <1>4, <1>5, <1>6, <1>7, <1>8, <1>9, <1>10, <1>11, <1>12, <1>13, <1>14, <1>15,
       <1>16, <1>17, <1>18, <1>19, <1>20, <1>21, <1>22, <1>23, <1>24, <1>25, <1>26, <1>27, <1>28, <1>29, <1>30,
       <1>31, <1>32, <1>33, <1>34, <1>35, <1>36, Zenon
       DEF Next, MainStep, MainError, WorkerStep, Environment

\* The mutex discipline and the types hold throughout.
LEMMA TypeInvAlways == SafeSpec => []TypeInv
  BY TypeInvInit, TypeInvNext, PTL DEF SafeSpec

\* TypeOK holds in every reachable state: no index leaves the ring, and the count
\* of the queue stays within the capacity that queue_init allocated.
THEOREM TypeCorrect == SafeSpec => []TypeOK
  BY TypeInvAlways, PTL DEF TypeInv

-----------------------------------------------------------------------------
\* Wakeups.

\* There are finitely many workers on their way to the queue.
LEMMA AwakeFinite == IsFiniteSet(Awake) /\ Cardinality(Awake) \in Nat
  BY WorkerAssumption, FS_Subset, FS_CardinalityType, Zenon DEF Awake

\* A step that leaves the workers, the count and main's part in the condition
\* variables alone.
QuietStep ==
  /\ UNCHANGED <<wpc, count>>
  /\ SignalDue' = SignalDue
  /\ apc' = "push_wait" => apc = "push_wait"

\* A step that adds no descriptor, no waiter and no debt keeps the account of wakeups.
LEMMA QuietKeepsWakeups == NoLostWakeup /\ QuietStep => NoLostWakeup'
  <1> SUFFICES ASSUME NoLostWakeup, QuietStep PROVE NoLostWakeup'
    BY Zenon
  <1>1. Awake' = Awake /\ WaitingWorkers' = WaitingWorkers
    BY Zenon DEF QuietStep, Awake, WaitingWorkers
  <1> QED
    BY <1>1, Zenon DEF QuietStep, NoLostWakeup

\* One more worker on its way, and none that starts to wait.
LEMMA WakeOne ==
  ASSUME TypeInv, NoLostWakeup, NEW w \in Worker,
         wpc[w] \notin {"pop_lock", "pop_check", "pop_advance", "pop_unlock", "pop_signal"},
         wpc' = [wpc EXCEPT ![w] = "pop_lock"],
         count' = count, SignalDue <= SignalDue' + 1, SignalDue' \in Nat, SignalDue \in Nat,
         apc' = "push_wait" => apc = "push_wait"
  PROVE  NoLostWakeup'
  <1>1. Awake' = Awake \cup {w} /\ w \notin Awake
    BY Zenon DEF TypeInv, TypeOK, Awake
  <1>2. Cardinality(Awake') = Cardinality(Awake) + 1
    BY <1>1, AwakeFinite, FS_AddElement, Zenon
  <1>3. WaitingWorkers' \subseteq WaitingWorkers
    BY Zenon DEF TypeInv, TypeOK, WaitingWorkers
  <1>4. WaitingWorkers' # {} => count' <= Cardinality(Awake') + SignalDue'
    <2>1. count \in Nat
      BY CapacityAssumption DEF TypeInv, TypeOK
    <2>2. ASSUME WaitingWorkers # {} PROVE count' <= Cardinality(Awake') + SignalDue'
      <3>1. count <= Cardinality(Awake) + SignalDue
        BY <2>2, Zenon DEF NoLostWakeup
      <3>2. Cardinality(Awake) \in Nat
        BY AwakeFinite, Zenon
      <3> QED
        BY <1>2, <2>1, <3>1, <3>2, SMT DEF SignalDue
    <2> QED
      BY <1>3, <2>2, Zenon
  <1>5. ASSUME apc' = "push_wait", count' < Capacity
        PROVE  \E v \in Worker : wpc'[v] \in {"pop_unlock", "pop_signal"}
    BY <1>5, Zenon DEF NoLostWakeup, TypeInv, TypeOK
  <1> QED
    BY <1>4, <1>5, Zenon DEF NoLostWakeup

\* The steps of main, of the clients and of the kernel that are quiet.
LEMMA QuietActions ==
  ASSUME \/ Listen \/ TestStop \/ EnterAccept \/ BackoffDone \/ CountAccepted \/ CountActive
         \/ \E c \in Conn, f \in FD : AcceptConn(c, f)
         \/ \E c \in Conn : AcceptAborted(c) \/ ClientConnects(c) \/ ClientLeaves(c)
         \/ AcceptRefused \/ PushLock \/ PushStore \/ PushUnlock
         \/ Shutdown \/ Return \/ Die \/ StopSignal \/ SpuriousMain \/ UNCHANGED vars
  PROVE  QuietStep
  BY Zenon DEF QuietStep, SignalDue, Listen, TestStop, EnterAccept, BackoffDone, CountAccepted,
         CountActive, AcceptConn, AcceptAborted, ClientConnects, ClientLeaves, AcceptRefused,
         PushLock, PushStore, PushUnlock, Shutdown, Return, Die, ProcessEnds, StopSignal,
         SpuriousMain, queue, sync, hand, acceptor, workers, metrics, world, vars

\* Every step keeps the account of queued descriptors, woken workers and signals
\* still to be sent.
LEMMA WakeupsNext == TypeInv /\ NoLostWakeup /\ [Next]_vars => NoLostWakeup'
  <1> SUFFICES ASSUME TypeInv, NoLostWakeup, [Next]_vars PROVE NoLostWakeup'
    BY Zenon
  <1> USE DEF queue, sync, hand, acceptor, workers, metrics, world
  <1>0. /\ count \in Nat /\ Cardinality(Awake) \in Nat /\ SignalDue \in Nat
        /\ wpc \in [Worker -> WorkerPC]
    BY AwakeFinite, CapacityAssumption DEF TypeInv, TypeOK, SignalDue
  <1>1. ASSUME NEW w \in Worker, SpawnWorker(w) PROVE NoLostWakeup'
    <2>1. /\ wpc[w] = "unborn" /\ wpc' = [wpc EXCEPT ![w] = "pop_lock"]
          /\ UNCHANGED <<count, apc>>
      BY <1>1, Zenon DEF SpawnWorker
    <2>2. SignalDue <= SignalDue' + 1 /\ SignalDue' \in Nat /\ SignalDue \in Nat
      BY <2>1 DEF SignalDue
    <2> QED
      BY <2>1, <2>2, WakeOne, Zenon
  <1>2. ASSUME PushWait PROVE NoLostWakeup'
    <2>1. Awake' = Awake /\ WaitingWorkers' = WaitingWorkers
      BY <1>2, Zenon DEF PushWait, Awake, WaitingWorkers
    <2>2. count' = Capacity
      BY <1>2, Zenon DEF PushWait
    <2>3. SignalDue = 0 /\ SignalDue' = 0 /\ UNCHANGED count
      BY <1>2, Zenon DEF PushWait, SignalDue
    <2> QED
      BY <2>1, <2>2, <2>3, CapacityAssumption DEF NoLostWakeup
  <1>3. ASSUME PushAdvance PROVE NoLostWakeup'
    <2>1. Awake' = Awake /\ WaitingWorkers' = WaitingWorkers
      BY <1>3, Zenon DEF PushAdvance, Awake, WaitingWorkers
    <2>2. SignalDue = 0 /\ SignalDue' = 1 /\ count' = count + 1 /\ apc' # "push_wait"
      BY <1>3, Zenon DEF PushAdvance, SignalDue
    <2> QED
      BY <2>1, <2>2, <1>0 DEF NoLostWakeup
  <1>4. ASSUME PushSignal PROVE NoLostWakeup'
    <2>1. CASE WaitingWorkers = {} /\ UNCHANGED wpc
      <3>1. WaitingWorkers' = {} /\ apc' # "push_wait"
        BY <1>4, <2>1, Zenon DEF PushSignal, WaitingWorkers
      <3> QED
        BY <3>1, Zenon DEF NoLostWakeup
    <2>2. ASSUME NEW w \in WaitingWorkers, wpc' = [wpc EXCEPT ![w] = "pop_lock"]
          PROVE  NoLostWakeup'
      <3>1. w \in Worker /\ wpc[w] = "pop_wait"
        BY Zenon DEF WaitingWorkers
      <3>2. /\ count' = count
            /\ SignalDue <= SignalDue' + 1 /\ SignalDue' \in Nat /\ SignalDue \in Nat
            /\ apc' # "push_wait"
        BY <1>4 DEF PushSignal, SignalDue
      <3> QED
        BY <2>2, <3>1, <3>2, WakeOne, Zenon
    <2> QED
      BY <1>4, <2>1, <2>2, Zenon DEF PushSignal
  <1>5. ASSUME NEW w \in Worker, PopLock(w) \/ PopLoad(w) PROVE NoLostWakeup'
    <2>1. Awake' = Awake /\ WaitingWorkers' = WaitingWorkers
      BY <1>5, <1>0, Zenon DEF PopLock, PopLoad, Awake, WaitingWorkers
    <2>2. SignalDue' = SignalDue /\ UNCHANGED <<count, apc>>
      BY <1>5, Zenon DEF PopLock, PopLoad, SignalDue
    <2>3. \A v \in Worker : wpc[v] \in {"pop_unlock", "pop_signal"} => wpc'[v] = wpc[v]
      BY <1>5, <1>0, Zenon DEF PopLock, PopLoad
    <2> QED
      BY <2>1, <2>2, <2>3, Zenon DEF NoLostWakeup
  <1>6. ASSUME NEW w \in Worker, PopWait(w) PROVE NoLostWakeup'
    <2>1. count' = 0 /\ UNCHANGED <<count, apc>>
      BY <1>6, Zenon DEF PopWait
    <2>2. Cardinality(Awake') \in Nat
      BY WorkerAssumption, FS_Subset, FS_CardinalityType, Zenon DEF Awake
    <2>4. count' <= Cardinality(Awake') + SignalDue'
      BY <2>1, <2>2 DEF SignalDue
    <2>3. \A v \in Worker : wpc[v] \in {"pop_unlock", "pop_signal"} => wpc'[v] = wpc[v]
      BY <1>6, <1>0, Zenon DEF PopWait
    <2> QED
      BY <2>1, <2>3, <2>4, Zenon DEF NoLostWakeup
  <1>7. ASSUME NEW w \in Worker, PopAdvance(w) PROVE NoLostWakeup'
    <2>1. w \in Awake /\ Awake' = Awake \ {w} /\ WaitingWorkers' = WaitingWorkers
      BY <1>7, <1>0, Zenon DEF PopAdvance, Awake, WaitingWorkers
    <2>2. Cardinality(Awake') = Cardinality(Awake) - 1
      BY <2>1, AwakeFinite, FS_RemoveElement, Zenon
    <2>3. count' = count - 1 /\ SignalDue' = SignalDue
      BY <1>7, Zenon DEF PopAdvance, SignalDue
    <2>4. wpc'[w] = "pop_unlock"
      BY <1>7, <1>0, Zenon DEF PopAdvance
    <2>5. ASSUME WaitingWorkers # {} PROVE count' <= Cardinality(Awake') + SignalDue'
      BY <2>2, <2>3, <2>5, <1>0 DEF NoLostWakeup, SignalDue
    <2> QED
      BY <2>1, <2>4, <2>5, Zenon DEF NoLostWakeup
  <1>8. ASSUME NEW w \in Worker, PopUnlock(w) PROVE NoLostWakeup'
    <2>1. Awake' = Awake /\ WaitingWorkers' = WaitingWorkers
      BY <1>8, <1>0, Zenon DEF PopUnlock, Awake, WaitingWorkers
    <2>2. SignalDue' = SignalDue /\ UNCHANGED count
      BY <1>8, Zenon DEF PopUnlock, SignalDue
    <2>3. wpc'[w] = "pop_signal"
      BY <1>8, <1>0, Zenon DEF PopUnlock
    <2> QED
      BY <2>1, <2>2, <2>3, Zenon DEF NoLostWakeup
  <1>9. ASSUME NEW w \in Worker, PopSignal(w) PROVE NoLostWakeup'
    <2>1. Awake' = Awake /\ WaitingWorkers' = WaitingWorkers
      BY <1>9, <1>0, Zenon DEF PopSignal, Awake, WaitingWorkers
    <2>2. SignalDue' = SignalDue /\ UNCHANGED count /\ apc' # "push_wait"
      BY <1>9, Zenon DEF PopSignal, SignalDue
    <2> QED
      BY <2>1, <2>2, Zenon DEF NoLostWakeup
  <1>10. ASSUME NEW w \in Worker, StartServing(w) \/ StopServing(w) \/ CloseConn(w)
         PROVE  NoLostWakeup'
    <2>1. Awake' = Awake /\ WaitingWorkers' = WaitingWorkers
      BY <1>10, <1>0, Zenon DEF StartServing, StopServing, CloseConn, Awake, WaitingWorkers
    <2>2. SignalDue' = SignalDue /\ UNCHANGED <<count, apc>>
      BY <1>10, Zenon DEF StartServing, StopServing, CloseConn, SignalDue
    <2>3. \A v \in Worker : wpc[v] \in {"pop_unlock", "pop_signal"} => wpc'[v] = wpc[v]
      BY <1>10, <1>0, Zenon DEF StartServing, StopServing, CloseConn
    <2> QED
      BY <2>1, <2>2, <2>3, Zenon DEF NoLostWakeup
  <1>11. ASSUME NEW w \in Worker, CountClosed(w) \/ SpuriousWorker(w) PROVE NoLostWakeup'
    BY <1>11, <1>0, WakeOne DEF CountClosed, SpuriousWorker, SignalDue
  <1>12. CASE QuietStep
    BY <1>12, QuietKeepsWakeups, Zenon
  <1> QED
    BY <1>1, <1>2, <1>3, <1>4, <1>5, <1>6, <1>7, <1>8, <1>9, <1>10, <1>11, <1>12, QuietActions, Zenon
       DEF Next, MainStep, MainError, WorkerStep, Environment, Ended

\* No wakeup is ever lost, for any number of workers and any capacity: this is why
\* signalling after the unlock, with one signal per push and per pop, is enough.
THEOREM WakeupsSafe == SafeSpec => []NoLostWakeup
  <1>1. Init => NoLostWakeup
    BY Zenon DEF Init, NoLostWakeup, WaitingWorkers
  <1> QED
    BY <1>1, WakeupsNext, TypeInvAlways, PTL DEF SafeSpec

\* Main blocked in work_queue_push and all workers blocked in work_queue_pop, each
\* side waiting for the other's signal, is not a state the pool can reach; nor is a
\* queued descriptor that every worker sleeps through. Both follow from the
\* wakeups that are not lost, for any number of workers and slots.
THEOREM PoolNeverAllAsleep == SafeSpec => []NeverAllAsleep
  <1>1. TypeInv /\ NoLostWakeup => NeverAllAsleep
    <2> SUFFICES ASSUME TypeInv, NoLostWakeup, WaitingWorkers = Worker
                 PROVE  apc # "push_wait" /\ (count > 0 => apc \in {"push_unlock", "push_signal"})
      BY Zenon DEF NeverAllAsleep
    <2>1. \A w \in Worker : wpc[w] = "pop_wait"
      BY Zenon DEF WaitingWorkers
    <2>2. Awake = {} /\ Worker # {}
      BY <2>1, WorkerAssumption, Zenon DEF Awake
    <2>3. Cardinality(Awake) = 0
      BY <2>2, FS_EmptySet, Zenon
    <2>4. count <= SignalDue /\ count \in Nat
      BY <2>2, <2>3 DEF NoLostWakeup, SignalDue, TypeInv, TypeOK
    <2>5. count > 0 => apc \in {"push_unlock", "push_signal"}
      BY <2>4 DEF SignalDue
    <2>6. apc # "push_wait"
      BY <2>1, <2>4, CapacityAssumption DEF NoLostWakeup, SignalDue
    <2> QED
      BY <2>5, <2>6, Zenon
  <1> QED
    BY <1>1, TypeInvAlways, WakeupsSafe, PTL

-----------------------------------------------------------------------------
\* The queue-depth gauge.

\* Between an update of count and the unlock that follows it the gauge may be
\* behind; at every other point it is exact.
DepthInv ==
  apc # "push_unlock" /\ (\A w \in Worker : wpc[w] # "pop_unlock") => queue_depth = count

\* Every step keeps the gauge equal to the count outside the two critical sections.
LEMMA DepthNext == TypeInv /\ DepthInv /\ [Next]_vars => DepthInv'
  <1> SUFFICES ASSUME TypeInv, DepthInv, [Next]_vars PROVE DepthInv'
    BY Zenon
  <1>0. wpc \in [Worker -> WorkerPC]
    BY Zenon DEF TypeInv, TypeOK
  <1> USE DEF queue, sync, hand, acceptor, workers, metrics, world
  <1>1. CASE PushAdvance \/ PushUnlock
    BY <1>1, Zenon DEF PushAdvance, PushUnlock, DepthInv
  <1>2. ASSUME NEW w \in Worker, PopAdvance(w) \/ PopUnlock(w) PROVE DepthInv'
    BY <1>2, <1>0, Zenon DEF PopAdvance, PopUnlock, DepthInv
  <1>3. CASE PushSignal
    BY <1>3, <1>0, Zenon DEF PushSignal, WaitingWorkers, DepthInv
  <1>4. CASE PushWait
    BY <1>4, <1>0, Zenon DEF PushWait, DepthInv
  <1>5. ASSUME NEW w \in Worker,
               \/ SpawnWorker(w) \/ PopLock(w) \/ PopWait(w) \/ PopLoad(w) \/ PopSignal(w)
               \/ StartServing(w) \/ StopServing(w) \/ CloseConn(w) \/ CountClosed(w)
               \/ SpuriousWorker(w)
        PROVE  DepthInv'
    BY <1>5, <1>0, Zenon DEF SpawnWorker, PopLock, PopWait, PopLoad, PopSignal, StartServing,
       StopServing, CloseConn, CountClosed, SpuriousWorker, DepthInv
  <1>6. ASSUME NEW c \in Conn,
               AcceptAborted(c) \/ ClientConnects(c) \/ ClientLeaves(c)
                 \/ \E f \in FD : AcceptConn(c, f)
        PROVE  DepthInv'
    BY <1>6, Zenon DEF AcceptAborted, ClientConnects, ClientLeaves, AcceptConn, DepthInv
  <1>7. CASE \/ Listen \/ TestStop \/ EnterAccept \/ BackoffDone \/ CountAccepted \/ CountActive
             \/ AcceptRefused \/ PushLock \/ PushStore
             \/ Shutdown \/ Return \/ Die \/ StopSignal \/ SpuriousMain \/ UNCHANGED vars
    BY <1>7, Zenon DEF Listen, TestStop, EnterAccept, BackoffDone, CountAccepted, CountActive,
       AcceptRefused, PushLock, PushStore, Shutdown, Return, Die, ProcessEnds, StopSignal,
       SpuriousMain, vars, DepthInv
  <1> QED
    BY <1>1, <1>2, <1>3, <1>4, <1>5, <1>6, <1>7, Zenon
       DEF Next, MainStep, MainError, WorkerStep, Environment, Ended

\* A scrape that finds the mutex free reads the true length of the queue.
THEOREM DepthGaugeSafe == SafeSpec => []DepthGaugeExact
  <1>1. Init => DepthInv
    BY Zenon DEF Init, DepthInv
  <1>2. SafeSpec => []DepthInv
    BY <1>1, DepthNext, TypeInvAlways, PTL DEF SafeSpec
  <1>3. TypeInv /\ DepthInv => DepthGaugeExact
    BY DistinctAssumption, Zenon DEF TypeInv, LockInv, PushHeld, PopHeld, DepthInv, DepthGaugeExact
  <1> QED
    BY <1>2, <1>3, TypeInvAlways, PTL

-----------------------------------------------------------------------------
\* Ownership of descriptors.

\* Pushing at tail adds that slot to the ring, which did not contain it.
LEMMA RingPush ==
  ASSUME NEW s \in Slot, NEW h \in Slot, NEW c \in Nat, c < Capacity
  PROVE  /\ (s - h) % Capacity < c + 1 <=> (s - h) % Capacity < c \/ s = ((h + c) % Capacity)
         /\ ~((((h + c) % Capacity) - h) % Capacity < c)
         /\ (((h + c) % Capacity) + 1) % Capacity = (h + (c + 1)) % Capacity
  <1> USE CapacityAssumption
  <1>1. s \in Int /\ h \in Int /\ 0 <= s /\ s < Capacity /\ 0 <= h /\ h < Capacity
    BY DEF Slot
  <1>2. (s - h) % Capacity = IF s >= h THEN s - h ELSE s - h + Capacity
    BY ModDiff, Zenon
  <1>3. ((h + c) % Capacity) = IF h + c < Capacity THEN h + c ELSE h + c - Capacity
    BY <1>1, ModSmall, ModOver
  <1>4. (((h + c) % Capacity) - h) % Capacity = c
    BY <1>1, <1>3, ModSmall, ModUnder
  <1>5. (((h + c) % Capacity) + 1) % Capacity = (h + (c + 1)) % Capacity
    BY <1>1, <1>3, ModSmall, ModOver
  <1> QED
    BY <1>1, <1>2, <1>3, <1>4, <1>5

\* Popping at head takes that slot, which it contained, from the ring.
LEMMA RingPop ==
  ASSUME NEW s \in Slot, NEW h \in Slot, NEW c \in Nat, 0 < c, c <= Capacity
  PROVE  /\ (s - ((h + 1) % Capacity)) % Capacity < c - 1 <=> (s - h) % Capacity < c /\ s # h
         /\ (h - h) % Capacity < c
         /\ (((h + 1) % Capacity) + (c - 1)) % Capacity = ((h + c) % Capacity)
  <1> USE CapacityAssumption
  <1>1. s \in Int /\ h \in Int /\ 0 <= s /\ s < Capacity /\ 0 <= h /\ h < Capacity
    BY DEF Slot
  <1>2. (s - h) % Capacity = IF s >= h THEN s - h ELSE s - h + Capacity
    BY ModDiff, Zenon
  <1>3. ((h + 1) % Capacity) = IF h + 1 < Capacity THEN h + 1 ELSE 0
    BY <1>1, ModSmall, ModOver
  <1>4. (s - ((h + 1) % Capacity)) % Capacity =
          IF s >= ((h + 1) % Capacity) THEN s - ((h + 1) % Capacity)
                                     ELSE s - ((h + 1) % Capacity) + Capacity
    BY NextSlot, ModDiff, Zenon
  <1>5. (((h + 1) % Capacity) + (c - 1)) % Capacity = ((h + c) % Capacity)
    <2>1. ((h + c) % Capacity) = IF h + c < Capacity THEN h + c ELSE h + c - Capacity
      BY <1>1, ModSmall, ModOver
    <2>2. CASE h + 1 < Capacity
      BY <1>1, <1>3, <2>2
    <2>3. CASE h + 1 = Capacity
      <3>1. ((h + 1) % Capacity) + (c - 1) = c - 1
        BY <1>3, <2>3, <1>1
      <3>2. (c - 1) % Capacity = c - 1
        BY <1>1, ModSmall
      <3> QED
        BY <1>1, <2>1, <2>3, <3>1, <3>2
    <2> QED
      BY <1>1, <2>2, <2>3
  <1>6. (h - h) % Capacity = 0
    BY <1>1, ModSmall
  <1> QED
    BY <1>1, <1>2, <1>3, <1>4, <1>5, <1>6

\* Where main and the workers hold a descriptor.
HandPC == {"accepted", "active", "push_lock", "push_wait", "push_check", "push_advance"}
BusyPC == {"pop_advance", "pop_unlock", "pop_signal", "start", "serve", "close"}

\* The indices agree with the count, and a half-done push or pop has the
\* descriptor in the ring that it is about.
RingInv ==
  /\ tail = (head + count) % Capacity
  /\ afd # None <=> apc \in HandPC
  /\ \A w \in Worker : wfd[w] # None <=> wpc[w] \in BusyPC
  /\ apc = "push_advance" => fds[tail] = afd
  /\ \A w \in Worker : wpc[w] = "pop_advance" => wfd[w] = fds[head]

\* Main, the workers and the slots of the ring hold open descriptors, no two the
\* same, and every open descriptor is held.
OwnInv ==
  Alive =>
    /\ afd # None => sock[afd] # None
    /\ \A w \in Worker : Held(w) # None => sock[Held(w)] # None /\ Held(w) # afd
    /\ \A v, w \in Worker : Held(v) # None /\ Held(v) = Held(w) => v = w
    /\ \A s \in Slot : InRing(s) =>
         /\ fds[s] # None /\ sock[fds[s]] # None /\ fds[s] # afd
         /\ \A w \in Worker : Held(w) # fds[s]
    /\ \A s, t \in Slot : InRing(s) /\ InRing(t) /\ fds[s] = fds[t] => s = t
    /\ \A f \in FD : sock[f] # None =>
         \/ afd = f
         \/ \E w \in Worker : Held(w) = f
         \/ \E s \in Slot : InRing(s) /\ fds[s] = f

\* Every step keeps the indices in line; loading a descriptor needs OwnInv, for
\* the slot at head must hold one.
LEMMA RingNext == TypeInv /\ RingInv /\ OwnInv /\ [Next]_vars => RingInv'
  <1> SUFFICES ASSUME TypeInv, RingInv, OwnInv, [Next]_vars PROVE RingInv'
    BY Zenon
  <1>0. /\ wpc \in [Worker -> WorkerPC] /\ wfd \in [Worker -> FD \cup {None}]
        /\ fds \in [Slot -> FD \cup {None}] /\ head \in Slot /\ tail \in Slot
        /\ count \in Nat /\ count <= Capacity
    BY CapacityAssumption DEF TypeInv, TypeOK
  <1> USE DEF queue, sync, hand, acceptor, workers, metrics, world, RingInv, HandPC, BusyPC
  <1>1. CASE PushStore
    <2>1. lock = Main /\ \A w \in Worker : wpc[w] # "pop_advance"
      BY <1>1, DistinctAssumption, Zenon DEF PushStore, TypeInv, LockInv, PushHeld, PopHeld
    <2> QED
      BY <1>0, <1>1, <2>1, Zenon DEF PushStore
  <1>2. CASE PushAdvance
    <2>1. /\ count < Capacity /\ lock = Main
          /\ \A w \in Worker : wpc[w] # "pop_advance"
      BY <1>2, DistinctAssumption, Zenon DEF PushAdvance, TypeInv, LockInv, PushHeld, PopHeld
    <2>2. tail' = (head' + count') % Capacity
      BY <1>0, <1>2, <2>1, RingPush, Zenon DEF PushAdvance
    <2> QED
      BY <1>0, <1>2, <2>1, <2>2, Zenon DEF PushAdvance
  <1>3. ASSUME NEW w \in Worker, PopAdvance(w) PROVE RingInv'
    <2>1. /\ count > 0 /\ lock = w /\ apc # "push_advance"
          /\ \A v \in Worker : v # w => wpc[v] # "pop_advance"
      BY <1>3, DistinctAssumption, Zenon DEF PopAdvance, TypeInv, LockInv, PushHeld, PopHeld
    <2>2. tail' = (head' + count') % Capacity
      BY <1>0, <1>3, <2>1, RingPop, Zenon DEF PopAdvance
    <2> QED
      BY <1>0, <1>3, <2>1, <2>2, Zenon DEF PopAdvance
  <1>4. ASSUME NEW w \in Worker, Alive, PopLoad(w) PROVE RingInv'
    <2>1. InRing(head)
      BY <1>0, <1>4, RingPop DEF PopLoad, InRing
    <2>2. fds[head] # None
      BY <1>0, <1>4, <2>1, Zenon DEF OwnInv
    <2> QED
      BY <1>0, <1>4, <2>2, Zenon DEF PopLoad
  <1>5. CASE PushSignal
    BY <1>0, <1>5, Zenon DEF PushSignal, WaitingWorkers
  <1>6. ASSUME NEW w \in Worker,
               \/ SpawnWorker(w) \/ PopLock(w) \/ PopWait(w) \/ PopUnlock(w) \/ PopSignal(w)
               \/ StartServing(w) \/ StopServing(w) \/ CloseConn(w) \/ CountClosed(w)
               \/ SpuriousWorker(w)
        PROVE  RingInv'
    BY <1>0, <1>6, Zenon DEF SpawnWorker, PopLock, PopWait, PopUnlock, PopSignal, StartServing,
       StopServing, CloseConn, CountClosed, SpuriousWorker
  <1>7. ASSUME NEW c \in Conn,
               AcceptAborted(c) \/ ClientConnects(c) \/ ClientLeaves(c)
                 \/ \E f \in FD : AcceptConn(c, f)
        PROVE  RingInv'
    BY <1>7, DistinctAssumption, Zenon DEF AcceptAborted, ClientConnects, ClientLeaves, AcceptConn
  <1>8. CASE \/ Listen \/ TestStop \/ EnterAccept \/ BackoffDone \/ CountAccepted \/ CountActive
             \/ AcceptRefused \/ PushLock \/ PushWait \/ PushUnlock
             \/ Shutdown \/ Return \/ Die \/ StopSignal \/ SpuriousMain \/ UNCHANGED vars
    BY <1>8, Zenon DEF Listen, TestStop, EnterAccept, BackoffDone, CountAccepted, CountActive,
       AcceptRefused, PushLock, PushWait, PushUnlock, Shutdown, Return, Die, ProcessEnds,
       StopSignal, SpuriousMain, vars
  <1> QED
    BY <1>1, <1>2, <1>3, <1>4, <1>5, <1>6, <1>7, <1>8, Zenon
       DEF Next, MainStep, MainError, WorkerStep, Environment, Ended

\* A step that moves no descriptor.
OwnFrame ==
  /\ UNCHANGED <<fds, head, count, afd, sock>>
  /\ \A w \in Worker : Held(w)' = Held(w)
  /\ Alive' => Alive

\* A step that moves no descriptor keeps the descriptors apart.
LEMMA FrameKeepsOwn == OwnInv /\ OwnFrame => OwnInv'
  <1> SUFFICES ASSUME OwnInv, OwnFrame, Alive' PROVE OwnInv'
    BY Zenon DEF OwnInv
  <1>1. Alive /\ \A s \in Slot : InRing(s)' <=> InRing(s)
    BY Zenon DEF OwnFrame, InRing
  <1>2. /\ UNCHANGED <<fds, afd, sock>>
        /\ \A w \in Worker : Held(w)' = Held(w)
    BY Zenon DEF OwnFrame
  <1> HIDE DEF InRing, Held
  <1>3. /\ afd' # None => sock'[afd'] # None
        /\ \A w \in Worker : Held(w)' # None => sock'[Held(w)'] # None /\ Held(w)' # afd'
        /\ \A v, w \in Worker : Held(v)' # None /\ Held(v)' = Held(w)' => v = w
    BY <1>1, <1>2 DEF OwnInv
  <1>4. \A s \in Slot : InRing(s)' =>
          /\ fds'[s] # None /\ sock'[fds'[s]] # None /\ fds'[s] # afd'
          /\ \A w \in Worker : Held(w)' # fds'[s]
    BY <1>1, <1>2, Zenon DEF OwnInv
  <1>5. \A s, t \in Slot : InRing(s)' /\ InRing(t)' /\ fds'[s] = fds'[t] => s = t
    BY <1>1, <1>2, Zenon DEF OwnInv
  <1>6. \A f \in FD : sock'[f] # None =>
          \/ afd' = f
          \/ \E w \in Worker : Held(w)' = f
          \/ \E s \in Slot : InRing(s)' /\ fds'[s] = f
    BY <1>1, <1>2, Zenon DEF OwnInv
  <1> QED
    BY <1>3, <1>4, <1>5, <1>6, Zenon DEF OwnInv

\* Every step keeps the descriptors apart.
LEMMA OwnNext == TypeInv /\ RingInv /\ OwnInv /\ [Next]_vars => OwnInv'
  <1> SUFFICES ASSUME TypeInv, RingInv, OwnInv, [Next]_vars PROVE OwnInv'
    BY Zenon
  <1>0. /\ wpc \in [Worker -> WorkerPC] /\ wfd \in [Worker -> FD \cup {None}]
        /\ fds \in [Slot -> FD \cup {None}] /\ head \in Slot /\ tail \in Slot
        /\ afd \in FD \cup {None} /\ sock \in [FD -> Conn \cup {None}]
        /\ count \in Nat /\ count <= Capacity
        /\ None \notin FD /\ None \notin Conn
    BY CapacityAssumption, DistinctAssumption DEF TypeInv, TypeOK
  <1> USE DEF queue, sync, hand, acceptor, workers, metrics, world
  <1>1. ASSUME NEW c \in Conn, NEW f \in FD, AcceptConn(c, f) PROVE OwnInv'
    <2>1. /\ Alive /\ afd = None /\ sock[f] = None /\ c # None
          /\ sock' = [sock EXCEPT ![f] = c] /\ afd' = f
          /\ UNCHANGED <<fds, head, count>>
      BY <1>0, <1>1, Zenon DEF AcceptConn, RingInv, HandPC, Alive
    <2>2. \A w \in Worker : Held(w)' = Held(w) /\ Held(w) \in FD \cup {None}
      BY <1>0, <1>1, Zenon DEF AcceptConn, Held
    <2>3. \A s \in Slot : InRing(s)' <=> InRing(s)
      BY <2>1, Zenon DEF InRing
    <2> HIDE DEF InRing, Held
    <2> QED
      BY <1>0, <2>1, <2>2, <2>3 DEF OwnInv
  <1>2. CASE PushStore
    <2>1. /\ Alive /\ count < Capacity
          /\ fds' = [fds EXCEPT ![tail] = afd] /\ UNCHANGED <<head, count, afd, sock>>
      BY <1>0, <1>2, CapacityAssumption DEF PushStore, Alive
    <2>2. ~InRing(tail)
      BY <1>0, <2>1, RingPush, Zenon DEF RingInv, InRing
    <2>3. \A w \in Worker : Held(w)' = Held(w)
      BY <1>2, Zenon DEF PushStore, Held
    <2>4. \A s \in Slot : InRing(s)' <=> InRing(s)
      BY <2>1, Zenon DEF InRing
    <2>5. \A s \in Slot : InRing(s) => fds'[s] = fds[s]
      BY <1>0, <2>1, <2>2, Zenon
    <2> HIDE DEF InRing, Held
    <2> QED
      BY <1>0, <2>1, <2>3, <2>4, <2>5 DEF OwnInv
  <1>3. CASE PushAdvance
    <2>1. /\ Alive /\ count < Capacity /\ fds[tail] = afd /\ afd # None
          /\ count' = count + 1 /\ afd' = None /\ UNCHANGED <<fds, head, sock>>
      BY <1>0, <1>3, Zenon DEF PushAdvance, Alive, RingInv, HandPC, TypeInv, LockInv
    <2>2. \A s \in Slot : InRing(s)' <=> InRing(s) \/ s = tail
      BY <1>0, <2>1, RingPush, Zenon DEF RingInv, InRing
    <2>3. ~InRing(tail)
      BY <1>0, <2>1, RingPush, Zenon DEF RingInv, InRing
    <2>4. \A w \in Worker : Held(w)' = Held(w)
      BY <1>3, Zenon DEF PushAdvance, Held
    <2> HIDE DEF InRing, Held
    <2> QED
      BY <1>0, <2>1, <2>2, <2>3, <2>4 DEF OwnInv
  <1>4. ASSUME NEW w \in Worker, Alive, PopAdvance(w) PROVE OwnInv'
    <2>1. /\ count > 0 /\ wfd[w] = fds[head] /\ UNCHANGED <<fds, afd, sock>>
          /\ count' = count - 1 /\ head' = (head + 1) % Capacity
      BY <1>0, <1>4, Zenon DEF PopAdvance, RingInv, TypeInv, LockInv
    <2>2. \A s \in Slot : InRing(s)' <=> InRing(s) /\ s # head
      BY <1>0, <2>1, RingPop, Zenon DEF InRing
    <2>3. InRing(head)
      BY <1>0, <2>1, RingPop, Zenon DEF InRing
    <2>4. /\ Held(w) = None /\ Held(w)' = fds[head]
          /\ \A v \in Worker : v # w => Held(v)' = Held(v)
      BY <1>0, <1>4, <2>1, Zenon DEF PopAdvance, Held
    <2> HIDE DEF InRing, Held
    <2> QED
      BY <1>0, <1>4, <2>1, <2>2, <2>3, <2>4 DEF OwnInv
  <1>5. ASSUME NEW w \in Worker, Alive, CloseConn(w) PROVE OwnInv'
    <2>1. /\ wfd[w] # None /\ sock' = [sock EXCEPT ![wfd[w]] = None]
          /\ UNCHANGED <<fds, head, count, afd>>
      BY <1>0, <1>5, Zenon DEF CloseConn, RingInv, BusyPC
    <2>2. /\ Held(w) = wfd[w] /\ Held(w)' = None
          /\ \A v \in Worker : v # w => Held(v)' = Held(v)
      BY <1>0, <1>5, Zenon DEF CloseConn, Held
    <2>3. \A s \in Slot : InRing(s)' <=> InRing(s)
      BY <2>1, Zenon DEF InRing
    <2>4. \A v \in Worker : Held(v) \in FD \cup {None}
      BY <1>0, Zenon DEF Held
    <2> HIDE DEF InRing, Held
    <2> QED
      BY <1>0, <1>5, <2>1, <2>2, <2>3, <2>4 DEF OwnInv
  <1>6. CASE Return \/ Die
    BY <1>6, Zenon DEF Return, Die, ProcessEnds, OwnInv, Alive
  <1>7. ASSUME NEW w \in Worker,
               \/ SpawnWorker(w) \/ PopLock(w) \/ PopWait(w) \/ PopLoad(w) \/ PopUnlock(w)
               \/ PopSignal(w) \/ StartServing(w) \/ StopServing(w) \/ CountClosed(w)
               \/ SpuriousWorker(w)
        PROVE  OwnFrame
    BY <1>0, <1>7, Zenon DEF SpawnWorker, PopLock, PopWait, PopLoad, PopUnlock, PopSignal, StartServing,
       StopServing, CountClosed, SpuriousWorker, OwnFrame, Held, Alive, RingInv, BusyPC
  <1>8. ASSUME NEW c \in Conn, AcceptAborted(c) \/ ClientConnects(c) \/ ClientLeaves(c)
        PROVE  OwnFrame
    BY <1>8, Zenon DEF AcceptAborted, ClientConnects, ClientLeaves, OwnFrame, Held, Alive
  <1>9. CASE PushSignal
    BY <1>0, <1>9, FrameKeepsOwn, Zenon DEF PushSignal, WaitingWorkers, OwnFrame, Held, Alive
  <1>10. CASE \/ Listen \/ TestStop \/ EnterAccept \/ BackoffDone \/ CountAccepted \/ CountActive
              \/ AcceptRefused \/ PushLock \/ PushWait \/ PushUnlock
              \/ Shutdown \/ StopSignal \/ SpuriousMain \/ UNCHANGED vars
    BY <1>10, FrameKeepsOwn, Zenon DEF Listen, TestStop, EnterAccept, BackoffDone, CountAccepted,
       CountActive, AcceptRefused, PushLock, PushWait, PushUnlock, Shutdown, StopSignal,
       SpuriousMain, vars, OwnFrame, Held, Alive
  <1> QED
    BY <1>1, <1>2, <1>3, <1>4, <1>5, <1>6, <1>7, <1>8, <1>9, <1>10, FrameKeepsOwn, Zenon
       DEF Next, MainStep, MainError, WorkerStep, Environment, Ended

\* The strengthened invariant holds of every run.
LEMMA OwnAlways == SafeSpec => [](RingInv /\ OwnInv)
  <1>1. Init => RingInv /\ OwnInv
    BY CapacityAssumption, DistinctAssumption, ModSmall
       DEF Init, RingInv, OwnInv, HandPC, BusyPC, Held, InRing, Slot
  <1> QED
    BY <1>1, RingNext, OwnNext, TypeInvAlways, PTL DEF SafeSpec

\* Every open descriptor has exactly one owner and every closed one none, for any
\* number of workers, slots, descriptors and clients.
THEOREM OwnershipSafe == SafeSpec => []SingleOwner
  <1>1. TypeInv /\ OwnInv => SingleOwner
    <2> SUFFICES ASSUME TypeInv, OwnInv, Alive, NEW f \in FD
                 PROVE  IF sock[f] = None THEN Owners(f) = {}
                        ELSE \E o \in Owners(f) : Owners(f) = {o}
      BY Zenon DEF SingleOwner
    <2>0. f # None
      BY DistinctAssumption, Zenon
    <2>1. CASE sock[f] = None
      BY <2>0, <2>1 DEF OwnInv, Owners
    <2>2. CASE sock[f] # None /\ afd = f
      <3>1. Owners(f) = {Main}
        BY <2>0, <2>2, Zenon DEF OwnInv, Owners
      <3> QED
        BY <2>2, <3>1, Zenon
    <2>3. ASSUME sock[f] # None, NEW w \in Worker, Held(w) = f
          PROVE  \E o \in Owners(f) : Owners(f) = {o}
      <3>1. Owners(f) = {w}
        BY <2>0, <2>3 DEF OwnInv, Owners
      <3> QED
        BY <3>1, Zenon
    <2>4. ASSUME sock[f] # None, NEW s \in Slot, InRing(s), fds[s] = f
          PROVE  \E o \in Owners(f) : Owners(f) = {o}
      <3>1. Owners(f) = {s}
        BY <2>0, <2>4 DEF OwnInv, Owners
      <3> QED
        BY <3>1, Zenon
    <2> QED
      BY <2>1, <2>2, <2>3, <2>4, Zenon DEF OwnInv
  <1> QED
    BY <1>1, OwnAlways, TypeInvAlways, PTL

\* The size of a union.
LEMMA UnionBound ==
  ASSUME NEW S, IsFiniteSet(S), NEW T, IsFiniteSet(T), NEW m \in Nat, NEW n \in Nat,
         Cardinality(S) <= m, Cardinality(T) <= n
  PROVE  IsFiniteSet(S \cup T) /\ Cardinality(S \cup T) <= m + n
  <1>1. /\ IsFiniteSet(S \cup T)
        /\ Cardinality(S \cup T) = Cardinality(S) + Cardinality(T) - Cardinality(S \cap T)
    BY FS_Union, Zenon
  <1>2. IsFiniteSet(S \cap T)
    BY FS_Subset, Zenon
  <1>3. Cardinality(S) \in Nat /\ Cardinality(T) \in Nat /\ Cardinality(S \cap T) \in Nat
    BY <1>2, FS_CardinalityType, Zenon
  <1> QED
    BY <1>1, <1>3

\* Backpressure reaches the kernel: with every worker busy, the ring full and main
\* blocked, the process holds that many connections and no more.
THEOREM BackpressureSafe == SafeSpec => []OpenBounded
  <1>1. TypeInv /\ OwnInv => OpenBounded
    <2> SUFFICES ASSUME TypeInv, OwnInv, Alive
                 PROVE  Cardinality({f \in FD : sock[f] # None}) <= Cardinality(Worker) + Capacity + 1
      BY Zenon DEF OpenBounded
    <2> DEFINE Open == {f \in FD : sock[f] # None}
               ByMain == {f \in Open : afd = f}
               ByWorker == {f \in Open : \E w \in Worker : Held(w) = f}
               ByRing == {f \in Open : \E s \in Slot : InRing(s) /\ fds[s] = f}
    <2>1. Open = (ByMain \cup ByWorker) \cup ByRing
      BY Zenon DEF OwnInv
    <2>2. IsFiniteSet(ByMain) /\ Cardinality(ByMain) <= 1 /\ Cardinality(ByMain) \in Nat
      <3>1. ByMain \subseteq {afd}
        BY Zenon
      <3>2. IsFiniteSet({afd}) /\ Cardinality({afd}) = 1
        BY FS_Singleton, Zenon
      <3> HIDE DEF ByMain
      <3> QED
        BY <3>1, <3>2, FS_Subset, FS_CardinalityType, Zenon
    <2>3. /\ IsFiniteSet(ByWorker) /\ Cardinality(ByWorker) <= Cardinality(Worker)
          /\ Cardinality(ByWorker) \in Nat /\ Cardinality(Worker) \in Nat
      <3> DEFINE S == {w \in Worker : Held(w) \in ByWorker}
                 h == [w \in S |-> Held(w)]
      <3>1. IsFiniteSet(S) /\ Cardinality(S) <= Cardinality(Worker)
        BY WorkerAssumption, FS_Subset, Zenon
      <3>2. h \in Surjection(S, ByWorker)
        BY Zenon DEF Surjection
      <3> HIDE DEF S, h, ByWorker
      <3>3. IsFiniteSet(ByWorker) /\ Cardinality(ByWorker) <= Cardinality(S)
        BY <3>1, <3>2, FS_Surjection, Zenon
      <3> QED
        BY <3>1, <3>3, WorkerAssumption, FS_CardinalityType
    <2>4. /\ IsFiniteSet(ByRing) /\ Cardinality(ByRing) <= Capacity /\ Cardinality(ByRing) \in Nat
      <3> DEFINE S == {s \in Slot : InRing(s) /\ fds[s] \in ByRing}
                 h == [s \in S |-> fds[s]]
      <3>0. IsFiniteSet(Slot) /\ Cardinality(Slot) = Capacity
        BY CapacityAssumption, FS_Interval DEF Slot
      <3>1. IsFiniteSet(S) /\ Cardinality(S) <= Capacity
        BY <3>0, FS_Subset, Zenon
      <3>2. h \in Surjection(S, ByRing)
        BY Zenon DEF Surjection
      <3> HIDE DEF S, h, ByRing
      <3>3. IsFiniteSet(ByRing) /\ Cardinality(ByRing) <= Cardinality(S)
        BY <3>1, <3>2, FS_Surjection, Zenon
      <3> QED
        BY <3>1, <3>3, CapacityAssumption, FS_CardinalityType
    <2> HIDE DEF Open, ByMain, ByWorker, ByRing
    <2>5. /\ IsFiniteSet(ByMain \cup ByWorker)
          /\ Cardinality(ByMain \cup ByWorker) <= 1 + Cardinality(Worker)
      BY <2>2, <2>3, UnionBound, Zenon
    <2>6. Cardinality(Open) <= (1 + Cardinality(Worker)) + Capacity
      <3>1. 1 + Cardinality(Worker) \in Nat /\ Capacity \in Nat
        BY <2>3, CapacityAssumption
      <3>2. Cardinality((ByMain \cup ByWorker) \cup ByRing) <= (1 + Cardinality(Worker)) + Capacity
        BY <2>4, <2>5, <3>1, UnionBound, Zenon
      <3> QED
        BY <2>1, <3>2, Zenon
    <2>7. Cardinality(Open) \in Nat
      BY <2>1, <2>4, <2>5, FS_Union, FS_CardinalityType, Zenon
    <2> QED
      BY <2>3, <2>6, <2>7, CapacityAssumption DEF Open
  <1> QED
    BY <1>1, OwnAlways, TypeInvAlways, PTL

-----------------------------------------------------------------------------
\* The counters.

\* Every step of main moves a connection through the states between the two counts.
LEMMA EnqueuedNext == TypeInv /\ EnqueuedOnce /\ [Next]_vars => EnqueuedOnce'
  <1> SUFFICES ASSUME TypeInv, EnqueuedOnce, [Next]_vars PROVE EnqueuedOnce'
    BY Zenon
  <1>0. accepted \in Nat /\ total_enqueued \in Nat
    BY Zenon DEF TypeInv, TypeOK
  <1> USE DEF queue, sync, hand, acceptor, workers, metrics, world, MainGoes
  <1>1. CASE CountAccepted \/ PushAdvance
    BY <1>0, <1>1 DEF CountAccepted, PushAdvance, EnqueuedOnce
  <1>2. CASE \/ Listen \/ TestStop \/ EnterAccept \/ BackoffDone \/ CountActive \/ AcceptRefused
             \/ PushLock \/ PushWait \/ PushStore \/ PushUnlock \/ PushSignal \/ Shutdown \/ Return
             \/ Die \/ StopSignal \/ SpuriousMain \/ UNCHANGED vars
    BY <1>2, Zenon DEF Listen, TestStop, EnterAccept, BackoffDone, CountActive, AcceptRefused, PushLock,
       PushWait, PushStore, PushUnlock, PushSignal, Shutdown, Return, Die, ProcessEnds, StopSignal,
       SpuriousMain, vars, EnqueuedOnce
  <1>3. ASSUME NEW w \in Worker,
               \/ SpawnWorker(w) \/ PopLock(w) \/ PopWait(w) \/ PopLoad(w) \/ PopAdvance(w)
               \/ PopUnlock(w) \/ PopSignal(w) \/ StartServing(w) \/ StopServing(w) \/ CloseConn(w)
               \/ CountClosed(w) \/ SpuriousWorker(w)
        PROVE  EnqueuedOnce'
    BY <1>3, Zenon DEF SpawnWorker, PopLock, PopWait, PopLoad, PopAdvance, PopUnlock, PopSignal,
      StartServing,
       StopServing, CloseConn, CountClosed, SpuriousWorker, EnqueuedOnce
  <1>4. ASSUME NEW c \in Conn,
               AcceptAborted(c) \/ ClientConnects(c) \/ ClientLeaves(c)
                 \/ \E f \in FD : AcceptConn(c, f)
        PROVE  EnqueuedOnce'
    BY <1>4, Zenon DEF AcceptAborted, ClientConnects, ClientLeaves, AcceptConn, EnqueuedOnce
  <1> QED
    BY <1>1, <1>2, <1>3, <1>4, Zenon DEF Next, MainStep, MainError, WorkerStep, Environment, Ended

\* What server_connections_accepted_total counts is pushed once, whatever the schedule.
THEOREM EnqueuedOnceSafe == SafeSpec => []EnqueuedOnce
  <1>1. Init => EnqueuedOnce
    BY DEF Init, EnqueuedOnce
  <1> QED
    BY <1>1, EnqueuedNext, TypeInvAlways, PTL DEF SafeSpec

\* Open descriptors, and the workers at a place.
OpenSet == {f \in FD : sock[f] # None}
At(p) == {w \in Worker : wpc[w] = p}
Uncounted == IF apc \in {"accepted", "active"} THEN 1 ELSE 0

\* The gauges, without the claim that they are not negative, which follows.
GaugeInv ==
  /\ active \in Int /\ workers_busy \in Int
  /\ Alive => /\ active = Cardinality(OpenSet) - Uncounted + Cardinality(At("closed"))
              /\ workers_busy = Cardinality(At("serve"))

\* There are finitely many workers at any step, because there are finitely many workers.
LEMMA AtFinite == \A p : IsFiniteSet(At(p)) /\ Cardinality(At(p)) \in Nat
  BY WorkerAssumption, FS_Subset, FS_CardinalityType, Zenon DEF At

\* A worker that moves leaves one place and comes to another.
LEMMA WorkerMoves ==
  ASSUME wpc \in [Worker -> WorkerPC], NEW w \in Worker, NEW q, wpc' = [wpc EXCEPT ![w] = q], NEW p
  PROVE  /\ wpc[w] # p /\ q # p => At(p)' = At(p)
         /\ wpc[w] # p /\ q = p => Cardinality(At(p)') = Cardinality(At(p)) + 1
         /\ wpc[w] = p /\ q # p => Cardinality(At(p)') = Cardinality(At(p)) - 1
  <1>1. ASSUME wpc[w] # p, q # p PROVE At(p)' = At(p)
    BY <1>1, Zenon DEF At
  <1>2. ASSUME wpc[w] # p, q = p PROVE Cardinality(At(p)') = Cardinality(At(p)) + 1
    <2>1. At(p)' = At(p) \cup {w} /\ w \notin At(p)
      BY <1>2, Zenon DEF At
    <2> QED
      BY <2>1, AtFinite, FS_AddElement, Zenon
  <1>3. ASSUME wpc[w] = p, q # p PROVE Cardinality(At(p)') = Cardinality(At(p)) - 1
    <2>1. At(p)' = At(p) \ {w} /\ w \in At(p)
      BY <1>3, Zenon DEF At
    <2> QED
      BY <2>1, AtFinite, FS_RemoveElement, Zenon
  <1> QED
    BY <1>1, <1>2, <1>3, Zenon

\* Every step moves a count and its gauge together, or leaves the difference to Uncounted.
LEMMA GaugesNext ==
  ASSUME IsFiniteSet(FD)
  PROVE  TypeInv /\ RingInv /\ OwnInv /\ GaugeInv /\ [Next]_vars => GaugeInv'
  <1> SUFFICES ASSUME TypeInv, RingInv, OwnInv, GaugeInv, [Next]_vars PROVE GaugeInv'
    BY Zenon
  <1>0. /\ wpc \in [Worker -> WorkerPC] /\ wfd \in [Worker -> FD \cup {None}]
        /\ sock \in [FD -> Conn \cup {None}] /\ None \notin FD \cup Conn
    BY DistinctAssumption, Zenon DEF TypeInv, TypeOK
  <1>a. IsFiniteSet(OpenSet) /\ Cardinality(OpenSet) \in Nat
    BY FS_Subset, FS_CardinalityType, Zenon DEF OpenSet
  <1>b. \A p : IsFiniteSet(At(p)) /\ Cardinality(At(p)) \in Nat
    BY AtFinite, Zenon
  <1> USE DEF queue, sync, hand, acceptor, workers, metrics, world
  <1>1. ASSUME NEW c \in Conn, NEW f \in FD, AcceptConn(c, f) PROVE GaugeInv'
    <2>1. OpenSet' = OpenSet \cup {f} /\ f \notin OpenSet
      BY <1>0, <1>1, Zenon DEF AcceptConn, OpenSet
    <2>2. Cardinality(OpenSet') = Cardinality(OpenSet) + 1
      BY <1>a, <2>1, FS_AddElement, Zenon
    <2>3. Uncounted = 0 /\ Uncounted' = 1 /\ Alive
      BY <1>1, Zenon DEF AcceptConn, Uncounted, Alive
    <2>4. At("closed")' = At("closed") /\ At("serve")' = At("serve") /\ UNCHANGED <<active, workers_busy>>
      BY <1>1, Zenon DEF AcceptConn, At
    <2> QED
      BY <1>a, <1>b, <2>2, <2>3, <2>4 DEF GaugeInv
  <1>2. CASE CountActive
    <2>1. Uncounted = 1 /\ Uncounted' = 0 /\ Alive /\ active' = active + 1 /\ workers_busy' = workers_busy
      BY <1>2, Zenon DEF CountActive, Uncounted, Alive
    <2>2. At("closed")' = At("closed") /\ At("serve")' = At("serve") /\ OpenSet' = OpenSet
      BY <1>2, Zenon DEF CountActive, At, OpenSet
    <2> QED
      BY <1>a, <1>b, <2>1, <2>2 DEF GaugeInv
  <1>3. ASSUME NEW w \in Worker, StartServing(w), Alive PROVE GaugeInv'
    <2>1. Cardinality(At("serve")') = Cardinality(At("serve")) + 1 /\ At("closed")' = At("closed")
      BY <1>0, <1>3, WorkerMoves, Zenon DEF StartServing
    <2>2. OpenSet' = OpenSet /\ Uncounted' = Uncounted /\ active' = active /\ workers_busy' = workers_busy + 1
      BY <1>3, Zenon DEF StartServing, OpenSet, Uncounted
    <2> QED
      BY <1>a, <1>b, <1>3, <2>1, <2>2 DEF GaugeInv
  <1>4. ASSUME NEW w \in Worker, StopServing(w), Alive PROVE GaugeInv'
    <2>1. Cardinality(At("serve")') = Cardinality(At("serve")) - 1 /\ At("closed")' = At("closed")
      <3>1. wpc[w] = "serve" /\ wpc' = [wpc EXCEPT ![w] = "close"]
        BY <1>4, Zenon DEF StopServing
      <3>2. Cardinality(At("serve")') = Cardinality(At("serve")) - 1
        <4>1. At("serve")' = At("serve") \ {w} /\ w \in At("serve")
          BY <1>0, <3>1, Zenon DEF At
        <4> QED
          BY <1>b, <4>1, FS_RemoveElement, Zenon
      <3>3. At("closed")' = At("closed")
        BY <1>0, <3>1, WorkerMoves, Zenon
      <3> QED
        BY <3>2, <3>3, Zenon
    <2>2. OpenSet' = OpenSet /\ Uncounted' = Uncounted /\ active' = active /\ workers_busy' = workers_busy - 1
      BY <1>4, Zenon DEF StopServing, OpenSet, Uncounted
    <2> QED
      BY <1>a, <1>b, <1>4, <2>1, <2>2 DEF GaugeInv
  <1>5. ASSUME NEW w \in Worker, CloseConn(w), Alive PROVE GaugeInv'
    <2>1. Cardinality(At("closed")') = Cardinality(At("closed")) + 1 /\ At("serve")' = At("serve")
      BY <1>0, <1>5, WorkerMoves, Zenon DEF CloseConn
    <2>2. PICK f \in FD : wfd[w] = f /\ sock[f] # None
      BY <1>0, <1>5 DEF CloseConn, RingInv, BusyPC, OwnInv, Held
    <2>3. OpenSet' = OpenSet \ {f} /\ f \in OpenSet
      BY <1>0, <1>5, <2>2, Zenon DEF CloseConn, OpenSet
    <2>4. Cardinality(OpenSet') = Cardinality(OpenSet) - 1
      BY <1>a, <2>3, FS_RemoveElement, Zenon
    <2>5. Uncounted' = Uncounted /\ UNCHANGED <<active, workers_busy>>
      BY <1>5, Zenon DEF CloseConn, Uncounted
    <2>6. Uncounted \in Int
      BY DEF Uncounted
    <2> QED
      BY <1>a, <1>b, <1>5, <2>1, <2>4, <2>5, <2>6 DEF GaugeInv
  <1>6. ASSUME NEW w \in Worker, CountClosed(w), Alive PROVE GaugeInv'
    <2>1. Cardinality(At("closed")') = Cardinality(At("closed")) - 1 /\ At("serve")' = At("serve")
      <3>1. wpc[w] = "closed" /\ wpc' = [wpc EXCEPT ![w] = "pop_lock"]
        BY <1>6, Zenon DEF CountClosed
      <3>2. Cardinality(At("closed")') = Cardinality(At("closed")) - 1
        <4>1. At("closed")' = At("closed") \ {w} /\ w \in At("closed")
          BY <1>0, <3>1, Zenon DEF At
        <4> QED
          BY <1>b, <4>1, FS_RemoveElement, Zenon
      <3>3. At("serve")' = At("serve")
        BY <1>0, <3>1, WorkerMoves, Zenon
      <3> QED
        BY <3>2, <3>3, Zenon
    <2>2. OpenSet' = OpenSet /\ Uncounted' = Uncounted /\ active' = active - 1 /\ workers_busy' = workers_busy
      BY <1>6, Zenon DEF CountClosed, OpenSet, Uncounted
    <2>3. Uncounted \in Int
      BY DEF Uncounted
    <2> QED
      BY <1>a, <1>b, <1>6, <2>1, <2>2, <2>3 DEF GaugeInv
  <1>7. ASSUME Alive' => Alive, UNCHANGED <<active, workers_busy>>, OpenSet' = OpenSet,
               Uncounted' = Uncounted, At("closed")' = At("closed"), At("serve")' = At("serve")
        PROVE  GaugeInv'
    BY <1>7, Zenon DEF GaugeInv
  <1>8. ASSUME NEW w \in Worker,
               \/ SpawnWorker(w) \/ SpuriousWorker(w)
               \/ Alive /\ (PopLock(w) \/ PopWait(w) \/ PopLoad(w) \/ PopAdvance(w) \/ PopUnlock(w) \/ PopSignal(w))
        PROVE  GaugeInv'
    <2>1. PICK q : wpc' = [wpc EXCEPT ![w] = q] /\ {wpc[w], q} \cap {"closed", "serve"} = {}
      BY <1>8, Zenon DEF SpawnWorker, SpuriousWorker, PopLock, PopWait, PopLoad, PopAdvance, PopUnlock,
        PopSignal
    <2>2. At("closed")' = At("closed") /\ At("serve")' = At("serve")
      BY <1>0, <2>1, WorkerMoves, Zenon
    <2>3. Alive /\ sock' = sock /\ UNCHANGED <<active, workers_busy>> /\ Uncounted' = Uncounted
      BY <1>8, Zenon DEF SpawnWorker, SpuriousWorker, PopLock, PopWait, PopLoad, PopAdvance, PopUnlock,
        PopSignal,
         Uncounted, Alive
    <2>4. OpenSet' = OpenSet
      BY <2>3, Zenon DEF OpenSet
    <2> QED
      BY <1>7, <2>2, <2>3, <2>4, Zenon
  <1>9. CASE PushSignal
    <2>1. \A p \in {"closed", "serve"} : At(p)' = At(p)
      BY <1>0, <1>9, Zenon DEF PushSignal, WaitingWorkers, At
    <2>2. Uncounted' = Uncounted /\ OpenSet' = OpenSet /\ UNCHANGED <<active, workers_busy>> /\ Alive
      BY <1>9, Zenon DEF PushSignal, Uncounted, OpenSet, Alive
    <2> QED
      BY <1>7, <2>1, <2>2, Zenon
  <1>10. CASE \/ Listen \/ TestStop \/ EnterAccept \/ BackoffDone \/ AcceptRefused \/ PushLock \/ PushWait
              \/ PushStore \/ PushAdvance \/ PushUnlock \/ Shutdown \/ StopSignal \/ SpuriousMain
              \/ CountAccepted \/ UNCHANGED vars
    <2>1. UNCHANGED <<wpc, sock, active, workers_busy>> /\ (Alive' => Alive) /\ Uncounted' = Uncounted
      BY <1>10, Zenon DEF Listen, TestStop, EnterAccept, BackoffDone, AcceptRefused, PushLock, PushWait,
        PushStore,
         PushAdvance, PushUnlock, Shutdown, StopSignal, SpuriousMain, CountAccepted, vars, Alive, Uncounted
    <2> QED
      BY <1>7, <2>1, Zenon DEF OpenSet, At
  <1>11. CASE Return \/ Die
    BY <1>11, Zenon DEF Return, Die, ProcessEnds, GaugeInv, Alive
  <1>12. ASSUME NEW c \in Conn, AcceptAborted(c) \/ ClientConnects(c) \/ ClientLeaves(c) PROVE GaugeInv'
    <2>1. UNCHANGED <<wpc, sock, active, workers_busy>> /\ Alive /\ Uncounted' = Uncounted
      BY <1>12, Zenon DEF AcceptAborted, ClientConnects, ClientLeaves, Alive, Uncounted
    <2> QED
      BY <1>7, <2>1, Zenon DEF OpenSet, At
  <1> QED
    BY <1>1, <1>2, <1>3, <1>4, <1>5, <1>6, <1>8, <1>9, <1>10, <1>11, <1>12, Zenon
       DEF Next, MainStep, MainError, WorkerStep, Environment, Ended

\* The gauges are exact up to the updates under way, and the count of connections is
\* never negative, for any number of workers and any finite set of descriptors.
THEOREM GaugesSafe ==
  ASSUME IsFiniteSet(FD)
  PROVE  SafeSpec => []GaugesExact
  <1>1. Init => GaugeInv
    <2> SUFFICES ASSUME Init PROVE GaugeInv
      BY Zenon
    <2>1. OpenSet = {} /\ At("closed") = {} /\ At("serve") = {} /\ Uncounted = 0
      BY Zenon DEF Init, OpenSet, At, Uncounted
    <2> QED
      BY <2>1, FS_EmptySet DEF Init, GaugeInv
  <1>2. TypeInv /\ RingInv /\ OwnInv /\ GaugeInv /\ DepthGaugeExact => GaugesExact
    <2> SUFFICES ASSUME TypeInv, RingInv, OwnInv, GaugeInv, DepthGaugeExact, Alive PROVE GaugesExact
      BY Zenon DEF GaugesExact
    <2>1. IsFiniteSet(OpenSet) /\ Cardinality(OpenSet) \in Nat /\ Cardinality(At("closed")) \in Nat
      BY AtFinite, FS_Subset, FS_CardinalityType, Zenon DEF OpenSet
    <2>2. Uncounted = 1 => Cardinality(OpenSet) # 0
      <3>1. Uncounted = 1 => afd \in OpenSet
        BY DEF Uncounted, RingInv, HandPC, OwnInv, OpenSet, TypeInv, TypeOK
      <3> QED
        BY <2>1, <3>1, FS_EmptySet, Zenon
    <2>3. active >= 0
      BY <2>1, <2>2 DEF GaugeInv, Uncounted
    <2> QED
      BY <2>3, Zenon DEF GaugeInv, GaugesExact, OpenSet, At, Uncounted
  <1>3. TypeInv /\ RingInv /\ OwnInv /\ GaugeInv /\ [Next]_vars => GaugeInv'
    BY GaugesNext, Zenon
  <1> QED
    BY <1>1, <1>2, <1>3, OwnAlways, TypeInvAlways, DepthGaugeSafe, PTL DEF SafeSpec

-----------------------------------------------------------------------------
\* The pool implements the abstract line.

\* The i-th place of the ring, counted from head, is a slot of the ring, and
\* moving head on by one renumbers the places.
LEMMA RingPlace ==
  ASSUME NEW h \in Slot, NEW c \in Nat, c <= Capacity, NEW i \in 1 .. c
  PROVE  /\ (h + i - 1) % Capacity \in Slot
         /\ (((h + i - 1) % Capacity) - h) % Capacity < c
         /\ (((h + 1) % Capacity) + i - 1) % Capacity = (h + (i + 1) - 1) % Capacity
  <1> USE CapacityAssumption
  <1>1. h \in Int /\ 0 <= h /\ h < Capacity /\ i \in Int /\ 1 <= i /\ i <= Capacity /\ i <= c
    BY DEF Slot
  <1>2. (h + i - 1) % Capacity = IF h + i - 1 < Capacity THEN h + i - 1 ELSE h + i - 1 - Capacity
    BY <1>1, ModSmall, ModOver
  <1>3. (h + i - 1) % Capacity \in Slot
    BY <1>1, ModRange
  <1>4. (((h + i - 1) % Capacity) - h) % Capacity = i - 1
    BY <1>1, <1>2, ModSmall, ModUnder
  <1>5. (h + 1) % Capacity = IF h + 1 < Capacity THEN h + 1 ELSE 0
    BY <1>1, ModSmall, ModOver
  <1>6. (((h + 1) % Capacity) + i - 1) % Capacity = (h + (i + 1) - 1) % Capacity
    <2>1. CASE h + 1 < Capacity
      BY <1>1, <1>5, <2>1
    <2>2. CASE h + 1 = Capacity
      <3>1. (((h + 1) % Capacity) + i - 1) % Capacity = i - 1
        BY <1>1, <1>5, <2>2, ModSmall
      <3>2. (h + (i + 1) - 1) % Capacity = i - 1
        BY <1>1, <2>2, ModOver
      <3> QED
        BY <3>1, <3>2, Zenon
    <2> QED
      BY <1>1, <2>1, <2>2
  <1> QED
    BY <1>1, <1>3, <1>4, <1>6

\* A connection is in one place: not yet connected, in the backlog, or accepted.
ConnInv ==
  /\ idle \cap backlog = {}
  /\ \A f \in FD : sock[f] # None => sock[f] \notin idle \cup backlog

\* Connecting, accepting and closing keep each connection in one place.
LEMMA ConnAlways == SafeSpec => []ConnInv
  <1>1. Init => ConnInv
    BY Zenon DEF Init, ConnInv
  <1>2. TypeInv /\ ConnInv /\ [Next]_vars => ConnInv'
    <2> SUFFICES ASSUME TypeInv, ConnInv, [Next]_vars PROVE ConnInv'
      BY Zenon
    <2>0. sock \in [FD -> Conn \cup {None}] /\ idle \subseteq Conn /\ backlog \subseteq Conn
      BY Zenon DEF TypeInv, TypeOK
    <2> USE DEF queue, sync, hand, acceptor, workers, metrics, world, ConnInv
    <2>1. ASSUME NEW c \in Conn, NEW f \in FD, AcceptConn(c, f) PROVE ConnInv'
      BY <2>0, <2>1, Zenon DEF AcceptConn
    <2>2. ASSUME NEW w \in Worker, CloseConn(w) PROVE ConnInv'
      BY <2>0, <2>2, Zenon DEF CloseConn
    <2>3. ASSUME NEW c \in Conn, AcceptAborted(c) \/ ClientConnects(c) \/ ClientLeaves(c)
          PROVE  ConnInv'
      BY <2>0, <2>3, Zenon DEF AcceptAborted, ClientConnects, ClientLeaves
    <2>4. CASE Shutdown \/ Return \/ Die
      BY <2>4, Zenon DEF Shutdown, Return, Die, ProcessEnds
    <2>5. CASE UNCHANGED <<idle, backlog, sock>>
      BY <2>5, Zenon
    <2>6. ASSUME NEW w \in Worker,
                 \/ SpawnWorker(w) \/ PopLock(w) \/ PopWait(w) \/ PopLoad(w) \/ PopAdvance(w)
                 \/ PopUnlock(w) \/ PopSignal(w) \/ StartServing(w) \/ StopServing(w)
                 \/ CountClosed(w) \/ SpuriousWorker(w)
          PROVE  UNCHANGED <<idle, backlog, sock>>
      BY <2>6, Zenon DEF SpawnWorker, PopLock, PopWait, PopLoad, PopAdvance, PopUnlock, PopSignal,
         StartServing, StopServing, CountClosed, SpuriousWorker
    <2>7. CASE \/ Listen \/ TestStop \/ EnterAccept \/ BackoffDone \/ CountAccepted \/ CountActive
               \/ AcceptRefused \/ PushLock \/ PushWait \/ PushStore \/ PushAdvance \/ PushUnlock
               \/ PushSignal \/ StopSignal \/ SpuriousMain \/ UNCHANGED vars
      BY <2>7, Zenon DEF Listen, TestStop, EnterAccept, BackoffDone, CountAccepted, CountActive,
         AcceptRefused, PushLock, PushWait, PushStore, PushAdvance, PushUnlock, PushSignal,
         StopSignal, SpuriousMain, vars
    <2> QED
      BY <2>1, <2>2, <2>3, <2>4, <2>5, <2>6, <2>7, Zenon
         DEF Next, MainStep, MainError, WorkerStep, Environment, Ended
  <1> QED
    BY <1>1, <1>2, TypeInvAlways, PTL DEF SafeSpec

\* A line grown by one place at the end is the line with its last place appended.
LEMMA AppendIs ==
  ASSUME NEW S, NEW s \in Seq(S), NEW t \in Seq(S), NEW e \in S,
         Len(t) = Len(s) + 1, \A i \in 1 .. Len(s) : t[i] = s[i], t[Len(s) + 1] = e
  PROVE  t = Append(s, e)
  <1>1. Append(s, e) \in Seq(S) /\ Len(Append(s, e)) = Len(s) + 1
    BY AppendProperties, Zenon
  <1>2. \A i \in 1 .. Len(t) : t[i] = Append(s, e)[i]
    BY AppendProperties
  <1> QED
    BY <1>1, <1>2, SeqEqual, Zenon

\* A line whose places have all moved up by one is the tail of the line.
LEMMA TailIs ==
  ASSUME NEW S, NEW s \in Seq(S), NEW t \in Seq(S), s # << >>,
         Len(t) = Len(s) - 1, \A i \in 1 .. Len(t) : t[i] = s[i + 1]
  PROVE  t = Tail(s)
  <1>1. Tail(s) \in Seq(S) /\ Len(Tail(s)) = Len(s) - 1
    BY HeadTailProperties, Zenon
  <1>2. \A i \in 1 .. Len(t) : t[i] = Tail(s)[i]
    BY HeadTailProperties
  <1> QED
    BY <1>1, <1>2, SeqEqual, Zenon

\* The abstract line is a sequence of connections, one for each place of the ring.
LineInv ==
  IF Alive
  THEN /\ AbstractLine \in Seq(Conn) /\ Len(AbstractLine) = count
       /\ \A i \in 1 .. count : AbstractLine[i] = sock[fds[(head + i - 1) % Capacity]]
  ELSE AbstractLine = << >>

\* Every slot of the ring holds an open descriptor, so the line has no gaps.
LEMMA LineIs == TypeInv /\ OwnInv => LineInv
  <1> SUFFICES ASSUME TypeInv, OwnInv PROVE LineInv
    BY Zenon
  <1>0. /\ fds \in [Slot -> FD \cup {None}] /\ head \in Slot
        /\ sock \in [FD -> Conn \cup {None}]
        /\ count \in Nat /\ count <= Capacity
        /\ None \notin FD /\ None \notin Conn
    BY CapacityAssumption, DistinctAssumption DEF TypeInv, TypeOK
  <1>1. CASE ~Alive
    BY <1>1, Zenon DEF LineInv, AbstractLine
  <1>2. CASE Alive
    <2>1. \A i \in 1 .. count :
            /\ (head + i - 1) % Capacity \in Slot
            /\ InRing((head + i - 1) % Capacity)
      BY <1>0, RingPlace, Zenon DEF InRing
    <2>2. \A i \in 1 .. count :
            /\ fds[(head + i - 1) % Capacity] \in FD
            /\ sock[fds[(head + i - 1) % Capacity]] \in Conn
      BY <1>0, <1>2, <2>1, Zenon DEF OwnInv
    <2>3. \A i \in 1 .. count : ConnOf(Queued[i]) = sock[fds[(head + i - 1) % Capacity]]
      BY <1>0, <2>2, Zenon DEF ConnOf, Queued
    <2>4. AbstractLine = [i \in 1 .. count |-> sock[fds[(head + i - 1) % Capacity]]]
      BY <1>2, <2>3, Zenon DEF AbstractLine
    <2>5. [i \in 1 .. count |-> sock[fds[(head + i - 1) % Capacity]]] \in Seq(Conn)
      BY <1>0, <2>2
    <2> QED
      BY <1>0, <1>2, <2>4, <2>5 DEF LineInv
  <1> QED
    BY <1>1, <1>2, Zenon

\* A step that leaves the ring's indices and connections alone leaves the line alone.
LEMMA SameLine ==
  ASSUME head \in Slot, count \in Nat, count <= Capacity, Alive, Alive', LineInv, LineInv',
         UNCHANGED <<head, count>>,
         \A s \in Slot : InRing(s) => sock'[fds'[s]] = sock[fds[s]]
  PROVE  AbstractLine' = AbstractLine
  <1>1. \A i \in 1 .. count :
          sock'[fds'[(head + i - 1) % Capacity]] = sock[fds[(head + i - 1) % Capacity]]
    BY RingPlace, Zenon DEF InRing
  <1>2. /\ AbstractLine \in Seq(Conn) /\ Len(AbstractLine) = count
        /\ \A i \in 1 .. count : AbstractLine[i] = sock[fds[(head + i - 1) % Capacity]]
    BY Zenon DEF LineInv
  <1>3. /\ AbstractLine' \in Seq(Conn) /\ Len(AbstractLine') = count
        /\ \A i \in 1 .. count : AbstractLine'[i] = sock'[fds'[(head + i - 1) % Capacity]]
    BY Zenon DEF LineInv
  <1> HIDE DEF AbstractLine
  <1> QED
    BY <1>1, <1>2, <1>3, SeqEqual

\* What a step needs to leave the abstract line as it is.
ViewFrame ==
  /\ OwnFrame /\ Alive' = Alive
  /\ idle' \cup backlog' = idle \cup backlog

\* A step that moves no descriptor and no connection is a stuttering step.
LEMMA FrameStutters == ViewFrame => UNCHANGED Abstract!vars
  <1> SUFFICES ASSUME ViewFrame PROVE UNCHANGED Abstract!vars
    BY Zenon
  <1>1. AbstractOutside' = AbstractOutside
    BY Zenon DEF ViewFrame, OwnFrame, AbstractOutside, ConnOf
  <1>2. AbstractLine' = AbstractLine
    BY Zenon DEF ViewFrame, OwnFrame, AbstractLine, ConnOf, Queued
  <1>3. AbstractServing' = AbstractServing
    BY Zenon DEF ViewFrame, OwnFrame, AbstractServing, ConnOf
  <1> QED
    BY <1>1, <1>2, <1>3, Zenon DEF ViewFrame, Abstract!vars

\* Everything known of a step of the pool before the abstract line is looked at.
StepFacts ==
  /\ TypeInv /\ RingInv /\ OwnInv /\ ConnInv /\ LineInv
  /\ TypeInv' /\ OwnInv' /\ LineInv'

\* Moving a descriptor into the ring is joining the line, at its end.
LEMMA PushJoins ==
  ASSUME StepFacts, PushAdvance
  PROVE  \E c \in Conn : Abstract!Join(c)
  <1>0. /\ fds \in [Slot -> FD \cup {None}] /\ head \in Slot /\ tail \in Slot
        /\ afd \in FD \cup {None} /\ sock \in [FD -> Conn \cup {None}]
        /\ count \in Nat /\ None \notin FD /\ None \notin Conn
    BY DistinctAssumption DEF StepFacts, TypeInv, TypeOK
  <1>1. /\ Alive /\ Alive' /\ count < Capacity /\ fds[tail] = afd /\ afd # None
        /\ count' = count + 1 /\ afd' = None
        /\ UNCHANGED <<fds, head, sock, wpc, wfd, idle, backlog>>
    BY <1>0, Zenon DEF StepFacts, PushAdvance, Alive, RingInv, HandPC, TypeInv, LockInv,
       queue, sync, workers, world
  <1> DEFINE c == sock[afd]
  <1>2. c \in Conn /\ c \notin idle \cup backlog
    BY <1>0, <1>1, Zenon DEF StepFacts, OwnInv, ConnInv
  <1>3. /\ AbstractOutside = idle \cup backlog \cup {c}
        /\ AbstractOutside' = idle \cup backlog
    BY <1>0, <1>1, <1>2, Zenon DEF AbstractOutside, ConnOf
  <1>4. tail = (head + (count + 1) - 1) % Capacity
    BY <1>0 DEF StepFacts, RingInv
  <1>5. /\ AbstractLine \in Seq(Conn) /\ Len(AbstractLine) = count
        /\ \A i \in 1 .. count : AbstractLine[i] = sock[fds[(head + i - 1) % Capacity]]
    BY <1>1, Zenon DEF StepFacts, LineInv
  <1>6. /\ AbstractLine' \in Seq(Conn) /\ Len(AbstractLine') = count + 1
        /\ \A i \in 1 .. count + 1 : AbstractLine'[i] = sock[fds[(head + i - 1) % Capacity]]
    BY <1>1, Zenon DEF StepFacts, LineInv
  <1>7. AbstractServing' = AbstractServing
    BY <1>1, Zenon DEF AbstractServing, ConnOf, Held
  <1>8. c = sock[fds[tail]]
    BY <1>1, Zenon
  <1> HIDE DEF c
  <1>9. AbstractLine' = Append(AbstractLine, c)
    <2> HIDE DEF AbstractLine
    <2>1. \A i \in 1 .. Len(AbstractLine) : AbstractLine'[i] = AbstractLine[i]
      BY <1>0, <1>5, <1>6
    <2>2. AbstractLine'[Len(AbstractLine) + 1] = c
      BY <1>0, <1>4, <1>5, <1>6, <1>8
    <2>3. Len(AbstractLine') = Len(AbstractLine) + 1
      BY <1>5, <1>6, Zenon
    <2> QED
      BY <1>2, <1>5, <1>6, <2>1, <2>2, <2>3, AppendIs
  <1>10. Abstract!Join(c)
    <2>1. c \in AbstractOutside /\ AbstractOutside' = AbstractOutside \ {c}
      BY <1>2, <1>3, Zenon
    <2>2. Len(AbstractLine) < Capacity
      BY <1>1, <1>5, Zenon
    <2> QED
      BY <1>1, <1>7, <1>9, <2>1, <2>2, Zenon DEF Abstract!Join
  <1> QED
    BY <1>2, <1>10, Zenon

\* Moving head past a descriptor is taking the oldest connection of the line.
LEMMA PopTakes ==
  ASSUME StepFacts, NEW w \in Worker, Alive, PopAdvance(w)
  PROVE  Abstract!Take(w)
  <1>0. /\ wpc \in [Worker -> WorkerPC] /\ wfd \in [Worker -> FD \cup {None}]
        /\ fds \in [Slot -> FD \cup {None}] /\ head \in Slot
        /\ sock \in [FD -> Conn \cup {None}]
        /\ count \in Nat /\ count <= Capacity /\ None \notin FD /\ None \notin Conn
    BY CapacityAssumption, DistinctAssumption DEF StepFacts, TypeInv, TypeOK
  <1>1. /\ Alive' /\ count > 0 /\ wfd[w] = fds[head] /\ wfd[w] # None
        /\ count' = count - 1 /\ head' = (head + 1) % Capacity
        /\ UNCHANGED <<fds, sock, afd, idle, backlog>>
    BY <1>0, Zenon DEF StepFacts, PopAdvance, Alive, RingInv, BusyPC, TypeInv, LockInv,
       queue, acceptor, hand, world
  <1>2. /\ Held(w) = None /\ Held(w)' = fds[head]
        /\ \A v \in Worker : v # w => Held(v)' = Held(v)
    BY <1>0, <1>1, Zenon DEF PopAdvance, Held
  <1>3. AbstractOutside' = AbstractOutside
    BY <1>1, Zenon DEF AbstractOutside, ConnOf
  <1>4. /\ AbstractLine \in Seq(Conn) /\ Len(AbstractLine) = count
        /\ \A i \in 1 .. count : AbstractLine[i] = sock[fds[(head + i - 1) % Capacity]]
    BY Zenon DEF StepFacts, LineInv
  <1>5. /\ AbstractLine' \in Seq(Conn) /\ Len(AbstractLine') = count - 1
        /\ \A i \in 1 .. count - 1 :
             AbstractLine'[i] = sock[fds[(((head + 1) % Capacity) + i - 1) % Capacity]]
    BY <1>1, Zenon DEF StepFacts, LineInv
  <1>6. AbstractLine' = Tail(AbstractLine) /\ AbstractLine # << >>
    <2> HIDE DEF AbstractLine
    <2>1. AbstractLine # << >>
      BY <1>0, <1>1, <1>4, EmptySeq
    <2>2. \A i \in 1 .. count - 1 :
            (((head + 1) % Capacity) + i - 1) % Capacity = (head + (i + 1) - 1) % Capacity
      BY <1>0, RingPlace
    <2>3. ASSUME NEW i \in 1 .. count - 1 PROVE AbstractLine'[i] = AbstractLine[i + 1]
      <3>1. i + 1 \in 1 .. count
        BY <1>0
      <3>2. AbstractLine[i + 1] = sock[fds[(head + (i + 1) - 1) % Capacity]]
        BY <1>4, <3>1, Zenon
      <3> QED
        BY <1>5, <2>2, <3>2, Zenon
    <2> QED
      BY <1>4, <1>5, <2>1, <2>3, TailIs, Zenon
  <1>7. Head(AbstractLine) = sock[fds[head]]
    <2>1. (head + 1 - 1) % Capacity = head
      BY <1>0, CapacityAssumption, ModSmall DEF Slot
    <2>2. AbstractLine[1] = sock[fds[head]]
      BY <1>0, <1>1, <1>4, <2>1
    <2> HIDE DEF AbstractLine
    <2> QED
      BY <1>4, <1>6, <2>2
  <1>8. AbstractServing[w] = None
    BY <1>2, Zenon DEF AbstractServing, ConnOf
  <1>9. AbstractServing' = [AbstractServing EXCEPT ![w] = sock[fds[head]]]
    <2>1. \A v \in Worker : ConnOf(Held(v))' =
            IF v = w THEN sock[fds[head]] ELSE ConnOf(Held(v))
      BY <1>1, <1>2, Zenon DEF ConnOf
    <2> HIDE DEF Held, ConnOf
    <2> QED
      BY <1>1, <2>1, Zenon DEF AbstractServing
  <1> HIDE DEF AbstractServing, AbstractLine
  <1> QED
    BY <1>1, <1>3, <1>6, <1>7, <1>8, <1>9, Zenon DEF Abstract!Take

\* Closing a descriptor ends the worker's turn with its connection, and nobody else's.
LEMMA CloseFinishes ==
  ASSUME StepFacts, NEW w \in Worker, Alive, CloseConn(w)
  PROVE  Abstract!Finish(w)
  <1>0. /\ wpc \in [Worker -> WorkerPC] /\ wfd \in [Worker -> FD \cup {None}]
        /\ fds \in [Slot -> FD \cup {None}] /\ head \in Slot /\ afd \in FD \cup {None}
        /\ sock \in [FD -> Conn \cup {None}]
        /\ count \in Nat /\ count <= Capacity /\ None \notin FD /\ None \notin Conn
    BY CapacityAssumption, DistinctAssumption DEF StepFacts, TypeInv, TypeOK
  <1>1. /\ Alive' /\ wfd[w] # None /\ sock' = [sock EXCEPT ![wfd[w]] = None]
        /\ UNCHANGED <<fds, head, count, afd, idle, backlog>>
    BY <1>0, Zenon DEF StepFacts, CloseConn, Alive, RingInv, BusyPC, queue, acceptor, hand
  <1>2. /\ Held(w) = wfd[w] /\ Held(w)' = None
        /\ \A v \in Worker : v # w => Held(v)' = Held(v)
        /\ \A v \in Worker : Held(v) \in FD \cup {None}
    BY <1>0, Zenon DEF CloseConn, Held
  <1>3. /\ sock[wfd[w]] # None /\ wfd[w] # afd
        /\ \A v \in Worker : v # w => Held(v) # wfd[w]
        /\ \A s \in Slot : InRing(s) => fds[s] \in FD /\ fds[s] # wfd[w]
    <2> HIDE DEF InRing, Held
    <2> QED
      BY <1>0, <1>1, <1>2 DEF StepFacts, OwnInv
  <1>4. AbstractOutside' = AbstractOutside
    BY <1>0, <1>1, <1>3, Zenon DEF AbstractOutside, ConnOf
  <1>5. AbstractLine' = AbstractLine
    <2>1. \A s \in Slot : InRing(s) => sock'[fds'[s]] = sock[fds[s]]
      BY <1>0, <1>1, <1>3, Zenon
    <2> QED
      BY <1>0, <1>1, <2>1, SameLine, Zenon DEF StepFacts
  <1>6. AbstractServing[w] # None
    BY <1>1, <1>2, <1>3, Zenon DEF AbstractServing, ConnOf
  <1>7. AbstractServing' = [AbstractServing EXCEPT ![w] = None]
    <2>1. \A v \in Worker : ConnOf(Held(v))' = IF v = w THEN None ELSE ConnOf(Held(v))
      <3> HIDE DEF Held
      <3> QED
        BY <1>0, <1>1, <1>2, <1>3, Zenon DEF ConnOf
    <2> HIDE DEF Held, ConnOf
    <2> QED
      BY <1>1, <2>1, Zenon DEF AbstractServing
  <1> QED
    BY <1>1, <1>4, <1>5, <1>6, <1>7, Zenon DEF Abstract!Finish

\* accept() moves a connection from the backlog into main's hands: it has not
\* joined the line yet.
LEMMA AcceptStutters ==
  ASSUME StepFacts, NEW c \in Conn, NEW f \in FD, AcceptConn(c, f)
  PROVE  UNCHANGED Abstract!vars
  <1>0. /\ wpc \in [Worker -> WorkerPC] /\ wfd \in [Worker -> FD \cup {None}]
        /\ fds \in [Slot -> FD \cup {None}] /\ head \in Slot
        /\ sock \in [FD -> Conn \cup {None}]
        /\ count \in Nat /\ count <= Capacity /\ None \notin FD /\ None \notin Conn
    BY CapacityAssumption, DistinctAssumption DEF StepFacts, TypeInv, TypeOK
  <1>1. /\ Alive /\ Alive' /\ afd = None /\ afd' = f /\ sock[f] = None
        /\ sock' = [sock EXCEPT ![f] = c]
        /\ c \in backlog /\ backlog' = backlog \ {c}
        /\ UNCHANGED <<fds, head, count, idle, wpc, wfd>>
    BY Zenon DEF StepFacts, AcceptConn, Alive, RingInv, HandPC, queue, workers
  <1>2. \A w \in Worker : Held(w)' = Held(w) /\ Held(w) \in FD \cup {None}
    BY <1>0, <1>1, Zenon DEF Held
  <1>3. /\ \A w \in Worker : Held(w) # f
        /\ \A s \in Slot : InRing(s) => fds[s] \in FD /\ fds[s] # f
    <2> HIDE DEF InRing, Held
    <2> QED
      BY <1>0, <1>1, <1>2 DEF StepFacts, OwnInv
  <1>4. AbstractOutside' = AbstractOutside
    BY <1>0, <1>1 DEF AbstractOutside, ConnOf
  <1>5. AbstractLine' = AbstractLine
    <2>1. \A s \in Slot : InRing(s) => sock'[fds'[s]] = sock[fds[s]]
      BY <1>0, <1>1, <1>3, Zenon
    <2> QED
      BY <1>0, <1>1, <2>1, SameLine, Zenon DEF StepFacts
  <1>6. AbstractServing' = AbstractServing
    <2>1. \A w \in Worker : ConnOf(Held(w))' = ConnOf(Held(w))
      <3> HIDE DEF Held
      <3> QED
        BY <1>0, <1>1, <1>2, <1>3, Zenon DEF ConnOf
    <2> HIDE DEF Held, ConnOf
    <2> QED
      BY <1>1, <2>1, Zenon DEF AbstractServing
  <1> QED
    BY <1>1, <1>4, <1>5, <1>6, Zenon DEF Abstract!vars

\* Writing the slot at tail does not touch the line: that slot is not in the ring.
LEMMA StoreStutters == ASSUME StepFacts, PushStore PROVE UNCHANGED Abstract!vars
  <1>0. /\ fds \in [Slot -> FD \cup {None}] /\ head \in Slot /\ tail \in Slot
        /\ count \in Nat /\ count <= Capacity
    BY CapacityAssumption DEF StepFacts, TypeInv, TypeOK
  <1>1. /\ Alive /\ Alive' /\ count < Capacity /\ fds' = [fds EXCEPT ![tail] = afd]
        /\ UNCHANGED <<head, count, afd, sock, idle, backlog, wpc, wfd>>
    BY <1>0, CapacityAssumption DEF PushStore, Alive, hand, world, workers
  <1>2. ~InRing(tail)
    BY <1>0, <1>1, RingPush, Zenon DEF StepFacts, RingInv, InRing
  <1>3. AbstractLine' = AbstractLine
    <2>1. \A s \in Slot : InRing(s) => sock'[fds'[s]] = sock[fds[s]]
      <3> HIDE DEF InRing
      <3> QED
        BY <1>0, <1>1, <1>2, Zenon
    <2> QED
      BY <1>0, <1>1, <2>1, SameLine, Zenon DEF StepFacts
  <1> QED
    BY <1>1, <1>3, Zenon DEF Abstract!vars, AbstractOutside, AbstractServing, ConnOf, Held

\* A connection dropped from the backlog is lost before it was handed over.
LEMMA DropAbandons ==
  ASSUME StepFacts, Shutdown \/ \E c \in Conn : AcceptAborted(c)
  PROVE  \E S \in SUBSET AbstractOutside : Abstract!Abandon(S)
  <1>1. PICK S \in SUBSET backlog :
          /\ Alive /\ Alive' /\ afd = None /\ backlog' = backlog \ S
          /\ UNCHANGED <<fds, head, count, afd, sock, idle, wpc, wfd>>
    <2>1. CASE Shutdown
      <3>1. /\ Alive /\ Alive' /\ afd = None /\ backlog' = backlog \ backlog
            /\ UNCHANGED <<fds, head, count, afd, sock, idle, wpc, wfd>>
        BY <2>1, Zenon DEF StepFacts, Shutdown, Alive, RingInv, HandPC, queue, hand, workers
      <3> QED
        BY <3>1, Zenon
    <2>2. ASSUME NEW c \in Conn, AcceptAborted(c)
          PROVE  \E S \in SUBSET backlog :
                   /\ Alive /\ Alive' /\ afd = None /\ backlog' = backlog \ S
                   /\ UNCHANGED <<fds, head, count, afd, sock, idle, wpc, wfd>>
      <3>1. /\ Alive /\ Alive' /\ afd = None /\ backlog' = backlog \ {c} /\ c \in backlog
            /\ UNCHANGED <<fds, head, count, afd, sock, idle, wpc, wfd>>
        BY <2>2, Zenon DEF StepFacts, AcceptAborted, Alive, RingInv, HandPC, queue, hand, workers
      <3> QED
        BY <3>1, Zenon
    <2> QED
      BY <2>1, <2>2, Zenon
  <1>2. S \in SUBSET AbstractOutside /\ AbstractOutside' = AbstractOutside \ S
    BY <1>1, Zenon DEF StepFacts, ConnInv, AbstractOutside, ConnOf
  <1>3. AbstractLine' = AbstractLine /\ AbstractServing' = AbstractServing
    BY <1>1, Zenon DEF AbstractLine, AbstractServing, ConnOf, Held, Queued
  <1>4. Abstract!Abandon(S)
    BY <1>1, <1>2, <1>3, Zenon DEF Abstract!Abandon
  <1> QED
    BY <1>2, <1>4, Zenon

\* Every step of the pool is a step of the abstract line or leaves it alone.
LEMMA StepRefines == StepFacts /\ [Next]_vars => [Abstract!Next]_(Abstract!vars)
  <1> SUFFICES ASSUME StepFacts, [Next]_vars PROVE Abstract!Next \/ UNCHANGED Abstract!vars
    BY Zenon
  <1>0. /\ wpc \in [Worker -> WorkerPC] /\ wfd \in [Worker -> FD \cup {None}] /\ RingInv
    BY Zenon DEF StepFacts, TypeInv, TypeOK
  <1> USE DEF queue, sync, hand, acceptor, workers, metrics, world
  <1>1. CASE PushAdvance
    BY <1>1, PushJoins, Zenon DEF Abstract!Next
  <1>2. ASSUME NEW w \in Worker, Alive, PopAdvance(w) PROVE Abstract!Next
    BY <1>2, PopTakes, Zenon DEF Abstract!Next
  <1>3. ASSUME NEW w \in Worker, Alive, CloseConn(w) PROVE Abstract!Next
    BY <1>3, CloseFinishes, Zenon DEF Abstract!Next
  <1>4. ASSUME NEW c \in Conn, NEW f \in FD, AcceptConn(c, f) PROVE UNCHANGED Abstract!vars
    BY <1>4, AcceptStutters, Zenon
  <1>5. CASE PushStore
    BY <1>5, StoreStutters, Zenon
  <1>6. CASE Shutdown \/ \E c \in Conn : AcceptAborted(c)
    BY <1>6, DropAbandons, Zenon DEF Abstract!Next
  <1>7. CASE Return \/ Die
    <2>1. Alive /\ ~Alive'
      BY <1>7, Zenon DEF Return, Die, ProcessEnds, Alive
    <2>2. Abstract!GoDown
      BY <2>1 DEF Abstract!GoDown, AbstractOutside, AbstractLine, AbstractServing
    <2> QED
      BY <2>2, Zenon DEF Abstract!Next
  <1>8. ASSUME NEW w \in Worker,
               \/ SpawnWorker(w) \/ PopLock(w) \/ PopWait(w) \/ PopLoad(w) \/ PopUnlock(w)
               \/ PopSignal(w) \/ StartServing(w) \/ StopServing(w) \/ CountClosed(w)
               \/ SpuriousWorker(w)
        PROVE  ViewFrame
    BY <1>0, <1>8, Zenon DEF SpawnWorker, PopLock, PopWait, PopLoad, PopUnlock, PopSignal,
       StartServing, StopServing, CountClosed, SpuriousWorker, ViewFrame, OwnFrame, Held, Alive,
       RingInv, BusyPC
  <1>9. ASSUME NEW c \in Conn, ClientConnects(c) \/ ClientLeaves(c) PROVE ViewFrame
    BY <1>9, Zenon DEF ClientConnects, ClientLeaves, ViewFrame, OwnFrame, Held, Alive
  <1>10. CASE PushSignal
    BY <1>0, <1>10, FrameStutters, Zenon
       DEF PushSignal, WaitingWorkers, ViewFrame, OwnFrame, Held, Alive
  <1>11. CASE \/ Listen \/ TestStop \/ EnterAccept \/ BackoffDone \/ CountAccepted \/ CountActive
              \/ AcceptRefused \/ PushLock \/ PushWait \/ PushUnlock
              \/ StopSignal \/ SpuriousMain \/ UNCHANGED vars
    BY <1>11, FrameStutters, Zenon DEF Listen, TestStop, EnterAccept, BackoffDone, CountAccepted,
       CountActive, AcceptRefused, PushLock, PushWait, PushUnlock, StopSignal,
       SpuriousMain, vars, ViewFrame, OwnFrame, Held, Alive
  <1> QED
    BY <1>1, <1>2, <1>3, <1>4, <1>5, <1>6, <1>7, <1>8, <1>9, <1>10, <1>11, FrameStutters, Zenon
       DEF Next, MainStep, MainError, WorkerStep, Environment, Ended

\* The ring, its mutex and its two condition variables implement the bounded
\* first-in first-out line of Handoff, for any number of workers, slots,
\* descriptors and clients: queue_push and queue_pop lose, duplicate and reorder
\* no connection whatever the threads do.
THEOREM PoolImplementsHandoff == SafeSpec => ImplementsHandoff
  <1>1. Init => Abstract!Init
    <2> SUFFICES ASSUME Init PROVE Abstract!Init
      BY Zenon
    <2>1. Alive
      BY Zenon DEF Init, Alive
    <2>2. AbstractOutside = Conn
      BY <2>1, Zenon DEF Init, AbstractOutside, ConnOf
    <2>3. AbstractLine = << >>
      BY <2>1 DEF Init, AbstractLine
    <2>4. AbstractServing = [w \in Worker |-> None]
      BY <2>1, Zenon DEF Init, AbstractServing, ConnOf, Held
    <2> QED
      BY <2>1, <2>2, <2>3, <2>4, Zenon DEF Abstract!Init
  <1>2. TypeInv /\ RingInv /\ OwnInv /\ ConnInv /\ TypeInv' /\ OwnInv' /\ [Next]_vars
          => [Abstract!Next]_(Abstract!vars)
    <2>1. TypeInv' /\ OwnInv' => LineInv'
      BY LineIs, PTL
    <2> QED
      BY <2>1, LineIs, StepRefines, Zenon DEF StepFacts
  <1> QED
    BY <1>1, <1>2, TypeInvAlways, OwnAlways, ConnAlways, PTL
       DEF SafeSpec, ImplementsHandoff, Abstract!Spec

=============================================================================
