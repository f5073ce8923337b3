----------------------------- MODULE SelectLoop -----------------------------
(***************************************************************************)
(* select_server.c: one thread, two master sets, and after every select a  *)
(* scan of the returned sets in ascending order that stops when nready     *)
(* events are handled.  The listener has the lowest number and comes first. *)
(***************************************************************************)
EXTENDS Sockets

VARIABLES
  readfds_master, writefds_master, fdset_max,
  readfds, writefds, nready,  \* what select returned, nready counted down
  at, closed,                 \* the descriptor being scanned, and its flag
  pc                          \* "read", "write": the part of the scan; "died"

masters == <<readfds_master, writefds_master, fdset_max>>
scan == <<readfds, writefds, nready, at, closed>>
vars == <<sockets, masters, scan, pc>>

Init ==
  /\ SocketsInit
  /\ readfds_master = {Listener} /\ writefds_master = {} /\ fdset_max = Listener
  /\ readfds = {} /\ writefds = {} /\ nready = 0
  /\ at = 0 /\ closed = {} /\ pc = "read"

apply_status(fd, status) ==
  /\ readfds_master' = IF "read" \in status THEN readfds_master \cup {fd} ELSE readfds_master \ {fd}
  /\ writefds_master' = IF "write" \in status THEN writefds_master \cup {fd} ELSE writefds_master \ {fd}
  /\ open' = IF status = NORW THEN open \ {fd} ELSE open

-----------------------------------------------------------------------------

ScanDone == nready = 0 \/ at > fdset_max

\* select blocks until something is ready, and may report a socket readable that
\* is not; a closed descriptor in a set is an error, which ends the process.
select ==
  /\ pc = "read" /\ ScanDone
  /\ IF (readfds_master \cup writefds_master) \subseteq open \cup {Listener}
     THEN \E spurious \in {{}} \cup {{fd} : fd \in readfds_master} :
            LET ready == {fd \in readfds_master :
                            IF fd = Listener THEN backlog > 0 ELSE Readable(fd)} \cup spurious
            IN
            /\ ready \cup writefds_master # {}
            /\ readfds' = ready /\ writefds' = writefds_master
            /\ nready' = Cardinality(ready) + Cardinality(writefds_master)
            /\ UNCHANGED pc
     ELSE pc' = "died" /\ UNCHANGED <<readfds, writefds, nready>>
  /\ at' = 0
  /\ UNCHANGED <<sockets, masters, closed>>

\* accept on the listener: out of descriptors, nobody there any more, beyond
\* FD_SETSIZE or the peer table, or a new peer at the lowest free number.
AcceptOne ==
  IF Cardinality(open) >= rlimit
  THEN pc' = "died" /\ UNCHANGED <<sockets, masters>>
  ELSE /\ pc' = "write"
       /\ \/ /\ backlog' = IF backlog > 0 THEN backlog - 1 ELSE backlog
             /\ UNCHANGED <<open, pending, unread, gone, offered, rlimit, masters>>
          \/ \E fd \in Acceptable :
               /\ \A other \in Acceptable : fd <= other
               /\ IF fd \in FD
                  THEN /\ accept(fd)
                       /\ fdset_max' = IF fd > fdset_max THEN fd ELSE fdset_max
                       /\ pending' = pending \cup {fd}
                       /\ readfds_master' = readfds_master \ {fd}
                       /\ writefds_master' = writefds_master \cup {fd}
                  ELSE /\ backlog' = backlog - 1
                       /\ UNCHANGED <<open, pending, unread, gone, offered, rlimit, masters>>

\* Mutant: a descriptor that was watched for both is counted twice on the read.
ScanReadCountsTwo ==
  /\ pc = "read" /\ ~ScanDone /\ at \in readfds \ {Listener}
  /\ nready' = IF nready > 1 THEN nready - 2 ELSE 0
  /\ \E status \in RecvStatuses(at) :
       /\ AfterRecv(at, status) /\ apply_status(at, status)
       /\ closed' = IF status = NORW THEN {at} ELSE {}
  /\ pc' = "write"
  /\ UNCHANGED <<fdset_max, gone, backlog, offered, rlimit, readfds, writefds, at>>

\* Mutant: reads on until nothing is left, whatever the status says.
ScanReadAgain ==
  /\ pc = "read" /\ ~ScanDone /\ at \in readfds \ {Listener}
  /\ \E status \in RecvStatuses(at) :
       /\ AfterRecv(at, status) /\ apply_status(at, status)
       /\ closed' = IF status = NORW THEN {at} ELSE {}
       /\ pc' = IF status = NORW THEN "write" ELSE "read"
       /\ nready' = IF status = NORW THEN nready - 1 ELSE nready
  /\ UNCHANGED <<fdset_max, gone, backlog, offered, rlimit, readfds, writefds, at>>

ScanRead ==
  /\ pc = "read" /\ ~ScanDone /\ at \in readfds \ {Listener}
  /\ nready' = nready - 1
  /\ \E status \in RecvStatuses(at) :
       /\ AfterRecv(at, status) /\ apply_status(at, status)
       /\ closed' = IF status = NORW THEN {at} ELSE {}
  /\ pc' = "write"
  /\ UNCHANGED <<fdset_max, gone, backlog, offered, rlimit, readfds, writefds, at>>

ScanListener ==
  /\ pc = "read" /\ ~ScanDone /\ at = Listener /\ at \in readfds
  /\ nready' = nready - 1
  /\ AcceptOne
  /\ UNCHANGED <<readfds, writefds, at, closed>>

ScanNoRead ==
  /\ pc = "read" /\ ~ScanDone /\ at \notin readfds
  /\ pc' = "write"
  /\ UNCHANGED <<sockets, masters, scan>>

ScanWrite ==
  /\ pc = "write" /\ pc' = "read" /\ at' = at + 1 /\ closed' = {}
  /\ IF at \in writefds \ closed
     THEN /\ nready' = nready - 1
          /\ \E status \in SendStatuses(at) : AfterSend(at, status) /\ apply_status(at, status)
          /\ UNCHANGED <<fdset_max, gone, backlog, offered, rlimit>>
     ELSE UNCHANGED <<sockets, masters, nready>>
  /\ UNCHANGED <<readfds, writefds>>

Loop == select \/ ScanListener \/ ScanRead \/ ScanNoRead \/ ScanWrite

ClientStep == Clients /\ UNCHANGED <<masters, scan, pc>>

Next == ClientStep \/ Loop

SafeSpec == Init /\ [][Next]_vars

\* The loop runs as long as something is ready; a client that keeps its
\* connection drains what it is sent sooner or later.
Fairness ==
  /\ WF_vars(Loop)
  /\ \A fd \in FD : SF_vars(ScanWrite /\ at = fd /\ fd \in pending /\ fd \notin pending')

Spec == SafeSpec /\ Fairness

-----------------------------------------------------------------------------
\* Properties.

\* The copies select returned are not stale where the scan still has to look: a
\* descriptor not passed yet is open and still in the master set it was copied
\* from, and one whose read closed it is marked before the write looks at it.
CopiesFresh ==
  pc # "died" /\ ~(pc = "read" /\ ScanDone) =>
    /\ \A fd \in readfds \ {Listener} : fd > at \/ (fd = at /\ pc = "read") => fd \in readfds_master \cap open
    /\ \A fd \in writefds : fd >= at /\ fd \notin closed => fd \in writefds_master \cap open

\* A scan that ends early has missed nothing: when the count of ready events is
\* used up, or the highest descriptor passed, no returned event is left behind.
ScanComplete == pc = "read" /\ ScanDone => \A fd \in readfds \cup writefds : fd < at

\* "One peer resetting must not take down every other connection": the server
\* ends only when accept finds no descriptor left.
PeersCannotKill == pc = "died" => Cardinality(open) >= rlimit

Interest ==
  [fd \in FD |-> (IF fd \in readfds_master THEN R ELSE {}) \cup (IF fd \in writefds_master THEN W ELSE {})]

Contract == INSTANCE PeerContract WITH want <- Interest

\* The loop keeps its side of the contract with peer_state.c, with the master sets
\* as the record of what each peer was last told to wait for.
KeepsContract == Contract!Spec

=============================================================================
