---------------------------- MODULE MCEventLoops ----------------------------
(***************************************************************************)
(* The three event loops for TLC.  They serve the same clients under the   *)
(* same contract; a behaviour is that of one of the servers, chosen at the *)
(* start; the other two are off.  The select loop's variables and          *)
(* properties are those of SelectLoop itself.                              *)
(***************************************************************************)
EXTENDS SelectLoop

CONSTANT Depth

\* uring_server.c asks for at least 8.
ASSUME DepthAssumption == Depth \in Nat \ {0}

VARIABLES
  server,
  want, batch, alive,
  sq, inflight, cq, ringpc

epoll == <<want, batch, alive>>
uring == <<sq, inflight, cq, ringpc>>

Epoll == INSTANCE EpollLoop
Uring == INSTANCE UringLoop WITH pc <- ringpc

EpollOff == want = [fd \in FD |-> NORW] /\ batch = Epoll!NoEvents /\ alive = "no"
SelectOff ==
  /\ readfds_master = {} /\ writefds_master = {} /\ fdset_max = Listener
  /\ readfds = {} /\ writefds = {} /\ nready = 0 /\ at = 0 /\ closed = {} /\ pc = "died"
UringOff == sq = {} /\ inflight = {} /\ cq = {} /\ ringpc = "off"

LoopsInit ==
  \/ server = "epoll" /\ Epoll!Init /\ SelectOff /\ UringOff
  \/ server = "select" /\ Init /\ EpollOff /\ UringOff
  \/ server = "uring" /\ Uring!Init /\ EpollOff /\ SelectOff

LoopsNext ==
  \/ server = "epoll" /\ Epoll!Next /\ UNCHANGED <<server, masters, scan, pc, uring>>
  \/ server = "select" /\ Next /\ UNCHANGED <<server, epoll, uring>>
  \/ server = "uring" /\ Uring!Next /\ UNCHANGED <<server, masters, scan, pc, epoll>>

LoopsSafeSpec == LoopsInit /\ [][LoopsNext]_<<vars, server, epoll, uring>>

\* A server that is off takes no step, so its fairness asks for none.
LoopsSpec ==
  /\ LoopsSafeSpec
  /\ Epoll!Fairness /\ Fairness /\ Uring!Fairness

-----------------------------------------------------------------------------
\* Properties: those of the running server.

\* epoll_server.c: no event left in the batch is stale.
BatchFresh == server = "epoll" => Epoll!BatchFresh

\* uring_server.c: one operation or completion per open descriptor, none for a
\* closed one, one for the listener.
OneOutstanding == server = "uring" => Uring!OneOutstanding

\* epoll_server.c and select_server.c: only want of descriptors ends the server.
NoPeerKills ==
  /\ server = "epoll" => Epoll!PeersCannotKill
  /\ server = "select" => PeersCannotKill

Loops == INSTANCE PeerContract WITH
  open <- IF server = "uring" THEN Uring!Served ELSE open,
  want <- CASE server = "epoll" -> want
            [] server = "select" -> Interest
            [] server = "uring" -> Uring!Interest

\* All three loops act on the statuses peer_state.c returned, and on nothing else:
\* they implement its callers' side of the contract.
LoopsKeepContract == Loops!Spec

Ended == alive = "no" /\ pc = "died" /\ ringpc = "off"

\* Level-triggered readiness and one recv always queued come to the same: input left
\* behind by a handler does not sit unread for ever, though its client sends nothing
\* more.
InputConsumed ==
  \A fd \in FD : \A n \in 1 .. MaxUnread : []<>(unread[fd] # n \/ fd \notin open \/ Ended)

\* Clients in the accept queue do not stay there for ever while the process has
\* descriptors left.
NewcomersTaken == backlog > 0 ~> (backlog = 0 \/ Cardinality(open) >= rlimit \/ Ended)

=============================================================================
