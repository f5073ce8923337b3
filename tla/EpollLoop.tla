------------------------------ MODULE EpollLoop ------------------------------
(***************************************************************************)
(* epoll_server.c: one thread, level-triggered epoll.  epoll_wait returns  *)
(* every ready descriptor (its buffer holds MAXFDS events); the batch is   *)
(* then dispatched one event at a time, in the kernel's order, while       *)
(* clients go on sending and leaving.                                      *)
(***************************************************************************)
EXTENDS Sockets, Functions

VARIABLES
  want,   \* the interest set: what each registered descriptor is watched for
  batch,  \* events returned by epoll_wait and not dispatched yet
  alive   \* "yes", or "no" after perror_die

vars == <<sockets, want, batch, alive>>

NoEvents == [d \in {} |-> {}]

Init == SocketsInit /\ want = [fd \in FD |-> NORW] /\ batch = NoEvents /\ alive = "yes"

Die == alive' = "no" /\ UNCHANGED <<sockets, want>>

\* close: the descriptor leaves the interest set with it.
CloseAndForget(fd) ==
  /\ open' = open \ {fd}
  /\ want' = [want EXCEPT ![fd] = NORW]
  /\ UNCHANGED <<gone, backlog, offered, rlimit, alive>>

\* Mutant: a peer that goes back to reading is registered for no event.
apply_status_deaf(fd, status) ==
  IF status = NORW THEN CloseAndForget(fd)
  ELSE /\ want' = [want EXCEPT ![fd] = status \cap W]
       /\ UNCHANGED <<open, gone, backlog, offered, rlimit, alive>>

\* EPOLL_CTL_MOD fails on a descriptor that is not registered.
apply_status(fd, status) ==
  IF status = NORW THEN CloseAndForget(fd)
  ELSE /\ want' = IF fd \in open THEN [want EXCEPT ![fd] = status] ELSE want
       /\ alive' = IF fd \in open THEN alive ELSE "no"
       /\ UNCHANGED <<open, gone, backlog, offered, rlimit>>

-----------------------------------------------------------------------------

Events(fd) ==
  (IF "read" \in want[fd] /\ Readable(fd) THEN {"in"} ELSE {})
    \cup (IF "write" \in want[fd] THEN {"out"} ELSE {})
    \cup (IF gone[fd] = "rst" THEN {"err"} ELSE {})

Ready ==
  {fd \in FD \cap open : Events(fd) # {}} \cup (IF backlog > 0 THEN {Listener} ELSE {})

EpollWait ==
  /\ alive = "yes" /\ DOMAIN batch = {} /\ Ready # {}
  /\ batch' = [d \in Ready |-> IF d = Listener THEN {"in"} ELSE Events(d)]
  /\ UNCHANGED <<sockets, want, alive>>

Take(d) ==
  /\ alive = "yes" /\ d \in DOMAIN batch
  /\ batch' = Restrict(batch, DOMAIN batch \ {d})

\* One connection per listener event: taken and watched, refused beyond MAXFDS,
\* given up by its client meanwhile, or fatal for want of descriptors.
DispatchAccept ==
  /\ Take(Listener)
  /\ IF Cardinality(open) >= rlimit THEN Die
     ELSE \/ /\ UNCHANGED <<open, pending, unread, gone, want, alive, offered, rlimit>>
             /\ backlog' = IF backlog > 0 THEN backlog - 1 ELSE backlog
          \/ \E fd \in Acceptable :
               /\ IF fd \in FD
                  THEN /\ accept(fd)
                       /\ pending' = pending \cup {fd}
                       /\ want' = [want EXCEPT ![fd] = W]
                  ELSE /\ backlog' = backlog - 1
                       /\ UNCHANGED <<open, pending, unread, gone, offered, rlimit, want>>
               /\ UNCHANGED alive

\* Mutant: an error on a peer ends the process.
DispatchErrorDies(fd) == Take(fd) /\ "err" \in batch[fd] /\ Die

\* Mutant: no continue after the close, the rest of the event is dispatched too.
DispatchErrorGoesOn(fd) ==
  /\ alive = "yes" /\ fd \in DOMAIN batch /\ "err" \in batch[fd]
  /\ batch' = [batch EXCEPT ![fd] = @ \ {"err"}]
  /\ CloseAndForget(fd)
  /\ UNCHANGED <<pending, unread>>

DispatchError(fd) ==
  /\ Take(fd) /\ "err" \in batch[fd]
  /\ CloseAndForget(fd)
  /\ UNCHANGED <<pending, unread>>

DispatchIn(fd) ==
  /\ Take(fd) /\ "err" \notin batch[fd] /\ "in" \in batch[fd]
  /\ \E status \in RecvStatuses(fd) : AfterRecv(fd, status) /\ apply_status(fd, status)

DispatchOut(fd) ==
  /\ Take(fd) /\ "err" \notin batch[fd] /\ "in" \notin batch[fd] /\ "out" \in batch[fd]
  /\ \E status \in SendStatuses(fd) : AfterSend(fd, status) /\ apply_status(fd, status)

ClientStep == Clients /\ UNCHANGED <<want, batch, alive>>

Next ==
  \/ ClientStep \/ EpollWait \/ DispatchAccept
  \/ \E fd \in FD : DispatchError(fd) \/ DispatchIn(fd) \/ DispatchOut(fd)

SafeSpec == Init /\ [][Next]_vars

\* The loop runs as long as something is ready; a client that keeps its
\* connection drains what it is sent sooner or later.
Fairness ==
  /\ WF_vars(EpollWait) /\ WF_vars(DispatchAccept)
  /\ \A fd \in FD :
       /\ WF_vars(DispatchError(fd)) /\ WF_vars(DispatchIn(fd)) /\ WF_vars(DispatchOut(fd))
       /\ SF_vars(DispatchOut(fd) /\ want'[fd] = R)

Spec == SafeSpec /\ Fairness

-----------------------------------------------------------------------------
\* Properties.

\* No event left in the batch is stale: its descriptor is still the connection
\* it was reported for, still registered, and still watched for that event, even
\* though earlier events of the batch closed descriptors and accepted new ones.
BatchFresh ==
  \A fd \in DOMAIN batch \ {Listener} :
    fd \in open /\ batch[fd] # {} /\ batch[fd] \subseteq {"err"} \cup
      (IF "read" \in want[fd] THEN {"in"} ELSE {}) \cup (IF "write" \in want[fd] THEN {"out"} ELSE {})

\* "One peer resetting must not take down every other connection": the loop ends
\* only when accept finds no descriptor left, whatever the clients do.
PeersCannotKill == alive = "no" => Cardinality(open) >= rlimit

Contract == INSTANCE PeerContract

\* The loop keeps its side of the contract: reads and writes only the peers whose
\* last status asked for it, and closes exactly those whose status asked for
\* nothing or that failed.
KeepsContract == Contract!Spec

=============================================================================
