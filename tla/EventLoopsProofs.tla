-------------------------- MODULE EventLoopsProofs --------------------------
(***************************************************************************)
(* The three event loops, for any number of descriptors and clients, any   *)
(* descriptor limit and any queue depth: what a loop was told by the       *)
(* kernel is never stale when it acts on it, clients cannot end the        *)
(* process, and every loop keeps its contract with peer_state.c.  The      *)
(* select loop's definitions are SelectLoop's own; those of the other two  *)
(* are reached through the instances Epoll and Uring.                      *)
(***************************************************************************)
EXTENDS MCEventLoops, FiniteSetTheorems, TLAPS

-----------------------------------------------------------------------------
\* epoll_server.c.

\* What peer_state.c wants of a peer, given whether it has staged output.
Wanted(fd) == IF fd \notin open THEN Epoll!NORW ELSE IF fd \in pending THEN Epoll!W ELSE Epoll!R

\* The kernel's interest set is the wanted one, and nothing beyond the peer table stays open.
InterestInv ==
  /\ open \subseteq FD /\ pending \subseteq FD
  /\ want \in [FD -> SUBSET Epoll!RW]
  /\ \A fd \in FD : want[fd] = Wanted(fd)
  /\ DOMAIN batch \subseteq FD \cup {Listener}

EpollInv == InterestInv /\ Epoll!BatchFresh /\ Epoll!PeersCannotKill

\* The listener is no peer.
LEMMA ListenerApart == Listener \notin FD
  BY DescriptorAssumption DEF Number

\* Nothing is watched, returned or open before the loop starts.
LEMMA EpollInitInv == Epoll!Init => EpollInv
  BY Zenon DEF Epoll!Init, Epoll!SocketsInit, EpollInv, InterestInv, Wanted, Epoll!BatchFresh,
     Epoll!PeersCannotKill, Epoll!NoEvents, Epoll!NORW, Epoll!RW

\* What a call on a peer of the batch finds and what it may return.
LEMMA FreshRecv ==
  ASSUME EpollInv, NEW fd \in FD, fd \in DOMAIN batch, "in" \in batch[fd], NEW status \in Epoll!RecvStatuses(fd)
  PROVE  fd \in open /\ fd \notin pending /\ want[fd] = Epoll!R /\ status \in {Epoll!R, Epoll!W, Epoll!NORW}
<1>1. fd \in open /\ "read" \in want[fd]
  BY ListenerApart, Zenon DEF EpollInv, Epoll!BatchFresh
<1>2. want[fd] = Epoll!R /\ fd \notin pending
  BY <1>1, Zenon DEF EpollInv, InterestInv, Wanted, Epoll!R, Epoll!W
<1> QED
  BY <1>1, <1>2, Zenon DEF Epoll!RecvStatuses

\* The same for an event that says the peer can be written.
LEMMA FreshSend ==
  ASSUME EpollInv, NEW fd \in FD, fd \in DOMAIN batch, "out" \in batch[fd], NEW status \in Epoll!SendStatuses(fd)
  PROVE  fd \in open /\ fd \in pending /\ want[fd] = Epoll!W /\ status \in {Epoll!R, Epoll!W, Epoll!NORW}
<1>1. fd \in open /\ "write" \in want[fd]
  BY ListenerApart, Zenon DEF EpollInv, Epoll!BatchFresh
<1>2. want[fd] = Epoll!W /\ fd \in pending
  BY <1>1 DEF EpollInv, InterestInv, Wanted, Epoll!R, Epoll!W
<1> QED
  BY <1>1, <1>2, Zenon DEF Epoll!SendStatuses

\* A step on one open peer: its event leaves the batch, and the peer is closed, or left
\* with the interest that its staged output calls for.
EpollPeerStep(fd) ==
  /\ fd \in open /\ alive' = alive /\ rlimit' = rlimit /\ alive = "yes"
  /\ batch' = Epoll!Restrict(batch, DOMAIN batch \ {fd})
  /\ \/ open' = open \ {fd} /\ want' = [want EXCEPT ![fd] = Epoll!NORW] /\ pending' = pending
     \/ open' = open /\ want' = [want EXCEPT ![fd] = Epoll!W] /\ pending' = pending \cup {fd}
     \/ open' = open /\ want' = [want EXCEPT ![fd] = Epoll!R] /\ pending' = pending \ {fd}

\* Each of the three dispatches is such a step.
LEMMA DispatchIsPeerStep ==
  ASSUME EpollInv, NEW fd \in FD, Epoll!DispatchError(fd) \/ Epoll!DispatchIn(fd) \/ Epoll!DispatchOut(fd)
  PROVE  EpollPeerStep(fd)
<1>1. CASE Epoll!DispatchError(fd)
  <2>1. fd \in open
    BY <1>1, ListenerApart, Zenon DEF Epoll!DispatchError, Epoll!Take, EpollInv, Epoll!BatchFresh
  <2> QED
    BY <1>1, <2>1, Zenon DEF Epoll!DispatchError, Epoll!Take, Epoll!CloseAndForget, EpollPeerStep
<1>2. CASE Epoll!DispatchIn(fd)
  <2>1. PICK status \in Epoll!RecvStatuses(fd) : Epoll!AfterRecv(fd, status) /\ Epoll!apply_status(fd, status)
    BY <1>2, Zenon DEF Epoll!DispatchIn
  <2>2. fd \in open /\ fd \notin pending /\ want[fd] = Epoll!R /\ status \in {Epoll!R, Epoll!W, Epoll!NORW}
    BY <1>2, FreshRecv, Zenon DEF Epoll!DispatchIn, Epoll!Take
  <2>3. Epoll!Take(fd)
    BY <1>2, Zenon DEF Epoll!DispatchIn
  <2>4. CASE status = Epoll!NORW
    BY <2>1, <2>2, <2>3, <2>4, Zenon DEF Epoll!AfterRecv, Epoll!apply_status, Epoll!CloseAndForget,
      Epoll!Take,
       EpollPeerStep, Epoll!NORW, Epoll!W
  <2>5. CASE status = Epoll!W
    BY <2>1, <2>2, <2>3, <2>5, Zenon DEF Epoll!AfterRecv, Epoll!apply_status, Epoll!Take, EpollPeerStep,
       Epoll!NORW, Epoll!W
  <2>6. CASE status = Epoll!R
    BY <2>1, <2>2, <2>3, <2>6, Zenon DEF Epoll!AfterRecv, Epoll!apply_status, Epoll!Take, EpollPeerStep,
       Epoll!NORW, Epoll!R, Epoll!W
  <2> QED
    BY <2>2, <2>4, <2>5, <2>6, Zenon
<1>3. CASE Epoll!DispatchOut(fd)
  <2>1. PICK status \in Epoll!SendStatuses(fd) : Epoll!AfterSend(fd, status) /\ Epoll!apply_status(fd, status)
    BY <1>3, Zenon DEF Epoll!DispatchOut
  <2>2. fd \in open /\ fd \in pending /\ want[fd] = Epoll!W /\ status \in {Epoll!R, Epoll!W, Epoll!NORW}
    BY <1>3, FreshSend, Zenon DEF Epoll!DispatchOut, Epoll!Take
  <2>3. Epoll!Take(fd)
    BY <1>3, Zenon DEF Epoll!DispatchOut
  <2>4. CASE status = Epoll!NORW
    BY <2>1, <2>2, <2>3, <2>4, Zenon DEF Epoll!AfterSend, Epoll!apply_status, Epoll!CloseAndForget,
      Epoll!Take,
       EpollPeerStep, Epoll!NORW, Epoll!R
  <2>5. CASE status = Epoll!W
    <3>1. pending' = pending /\ pending = pending \cup {fd}
      BY <2>1, <2>2, <2>5, Zenon DEF Epoll!AfterSend, Epoll!R, Epoll!W
    <3> QED
      BY <2>1, <2>2, <2>3, <2>5, <3>1, Zenon DEF Epoll!apply_status, Epoll!Take, EpollPeerStep,
        Epoll!NORW,
        Epoll!W
  <2>6. CASE status = Epoll!R
    BY <2>1, <2>2, <2>3, <2>6, Zenon DEF Epoll!AfterSend, Epoll!apply_status, Epoll!Take, EpollPeerStep,
       Epoll!NORW, Epoll!R
  <2> QED
    BY <2>2, <2>4, <2>5, <2>6, Zenon
<1> QED
  BY <1>1, <1>2, <1>3, Zenon

\* Every step keeps the interest set right and the rest of the batch fresh.
LEMMA EpollNextInv == EpollInv /\ [Epoll!Next]_(Epoll!vars) => EpollInv'
<1> SUFFICES ASSUME EpollInv, [Epoll!Next]_(Epoll!vars) PROVE EpollInv'
  BY Zenon
<1> USE ListenerApart DEF EpollInv
<1>1. CASE Epoll!ClientStep
  BY <1>1, Zenon DEF Epoll!ClientStep, Epoll!Clients, Epoll!ClientConnects, Epoll!ClientSends,
    Epoll!ClientLeaves,
     InterestInv, Wanted,
     Epoll!BatchFresh, Epoll!PeersCannotKill
<1>2. CASE Epoll!EpollWait
  <2>1. open' = open /\ want' = want /\ alive' = alive /\ rlimit' = rlimit /\ pending' = pending
    BY <1>2, Zenon DEF Epoll!EpollWait, Epoll!sockets
  <2>2. DOMAIN batch' = Epoll!Ready /\ Epoll!Ready \subseteq (FD \cap open) \cup {Listener}
    BY <1>2, Zenon DEF Epoll!EpollWait, Epoll!Ready
  <2>3. \A fd \in Epoll!Ready \ {Listener} : fd \in open /\ batch'[fd] = Epoll!Events(fd) /\ Epoll!Events(fd) # {}
    BY <1>2, Zenon DEF Epoll!EpollWait, Epoll!Ready
  <2>4. Epoll!BatchFresh'
    BY <2>1, <2>2, <2>3 DEF Epoll!BatchFresh, Epoll!Events
  <2> QED
    BY <2>1, <2>2, <2>4, Zenon DEF InterestInv, Wanted, Epoll!PeersCannotKill
<1>3. CASE Epoll!DispatchAccept
  <2>1. alive = "yes" /\ DOMAIN batch' = DOMAIN batch \ {Listener}
        /\ \A d \in DOMAIN batch' : batch'[d] = batch[d]
    BY <1>3, Zenon DEF Epoll!DispatchAccept, Epoll!Take, Epoll!Restrict
  <2>2. CASE Epoll!Cardinality(open) >= rlimit
    BY <1>3, <2>1, <2>2, Zenon DEF Epoll!DispatchAccept, Epoll!Die, Epoll!sockets, InterestInv, Wanted,
       Epoll!BatchFresh, Epoll!PeersCannotKill
  <2>3. CASE UNCHANGED <<open, pending, want, alive>>
    BY <2>1, <2>3, Zenon DEF InterestInv, Wanted, Epoll!BatchFresh, Epoll!PeersCannotKill
  <2>4. ASSUME ~(Epoll!Cardinality(open) >= rlimit), NEW fd \in FD \ open, open' = open \cup {fd},
               pending' = pending \cup {fd}, want' = [want EXCEPT ![fd] = Epoll!W], alive' = alive
        PROVE EpollInv'
    <3>1. InterestInv'
      BY <2>1, <2>4, Zenon DEF InterestInv, Wanted, Epoll!W, Epoll!RW
    <3>2. Epoll!BatchFresh'
      BY <2>1, <2>4, Zenon DEF Epoll!BatchFresh, InterestInv
    <3> QED
      BY <2>1, <2>4, <3>1, <3>2, Zenon DEF Epoll!PeersCannotKill
  <2> QED
    BY <1>3, <2>2, <2>3, <2>4, Zenon DEF Epoll!DispatchAccept, Epoll!accept, Epoll!Acceptable
<1>4. ASSUME NEW fd \in FD, EpollPeerStep(fd) PROVE EpollInv'
  <2>1. DOMAIN batch' = DOMAIN batch \ {fd} /\ \A d \in DOMAIN batch' : batch'[d] = batch[d]
    BY <1>4, Zenon DEF EpollPeerStep, Epoll!Restrict
  <2>2. InterestInv'
    <3>1. \E to \in SUBSET Epoll!RW : want' = [want EXCEPT ![fd] = to]
      BY <1>4, Zenon DEF EpollPeerStep, Epoll!R, Epoll!W, Epoll!RW, Epoll!NORW
    <3>2. want' \in [FD -> SUBSET Epoll!RW] /\ open' \subseteq FD /\ pending' \subseteq FD
      BY <1>4, <3>1, Zenon DEF EpollPeerStep, InterestInv
    <3>3. \A d \in FD \ {fd} : want'[d] = Wanted(d)'
      BY <1>4, Zenon DEF EpollPeerStep, InterestInv, Wanted
    <3>4. want'[fd] = Wanted(fd)'
      BY <1>4, Zenon DEF EpollPeerStep, InterestInv, Wanted
    <3> QED
      BY <2>1, <3>2, <3>3, <3>4, Zenon DEF InterestInv
  <2>3. Epoll!BatchFresh'
    BY <1>4, <2>1, Zenon DEF EpollPeerStep, Epoll!BatchFresh, InterestInv
  <2> QED
    BY <1>4, <2>2, <2>3, Zenon DEF EpollPeerStep, Epoll!PeersCannotKill
<1>5. CASE UNCHANGED Epoll!vars
  BY <1>5, Zenon DEF Epoll!vars, Epoll!sockets, InterestInv, Wanted, Epoll!BatchFresh,
    Epoll!PeersCannotKill
<1> QED
  BY <1>1, <1>2, <1>3, <1>4, <1>5, DispatchIsPeerStep, Zenon DEF Epoll!Next

\* The invariant holds of every run.
LEMMA EpollInvariant == Epoll!SafeSpec => []EpollInv
  BY EpollInitInv, EpollNextInv, PTL DEF Epoll!SafeSpec

\* However accepts, closes and clients interleave with a batch, an event is dispatched
\* only to the connection it was reported for.
THEOREM EventsAreFresh == Epoll!SafeSpec => []Epoll!BatchFresh
  BY EpollInvariant, PTL DEF EpollInv

\* No client can end the loop, nor can EPOLL_CTL_MOD fail: only accept at the limit can.
THEOREM OnlyTheLimitKillsEpoll == Epoll!SafeSpec => []Epoll!PeersCannotKill
  BY EpollInvariant, PTL DEF EpollInv

\* Every step of the loop is a step of the contract with peer_state.c, or changes
\* nothing the contract speaks of.
LEMMA EpollStepKeepsContract ==
  EpollInv /\ EpollInv' /\ [Epoll!Next]_(Epoll!vars) => [Epoll!Contract!Next]_(Epoll!Contract!vars)
<1> SUFFICES ASSUME EpollInv, EpollInv', [Epoll!Next]_(Epoll!vars)
             PROVE  Epoll!Contract!Next \/ UNCHANGED <<open, want, pending>>
  BY Zenon DEF Epoll!Contract!vars
<1>1. CASE Epoll!ClientStep
  BY <1>1, Zenon DEF Epoll!ClientStep, Epoll!Clients, Epoll!ClientConnects, Epoll!ClientSends,
    Epoll!ClientLeaves
<1>2. CASE Epoll!EpollWait
  BY <1>2, Zenon DEF Epoll!EpollWait, Epoll!sockets
<1>3. CASE Epoll!DispatchAccept
  BY <1>3, Zenon DEF Epoll!DispatchAccept, Epoll!Die, Epoll!sockets, Epoll!accept, Epoll!Acceptable,
     Epoll!Contract!Next, Epoll!Contract!Connected,
     Epoll!W, Epoll!Contract!W
<1>4. ASSUME NEW fd \in FD, EpollPeerStep(fd) PROVE Epoll!Contract!Next \/ UNCHANGED <<open, want, pending>>
  <2>1. want \in [FD -> SUBSET Epoll!RW] /\ want[fd] = IF fd \in pending THEN Epoll!W ELSE Epoll!R
    BY <1>4, Zenon DEF EpollInv, InterestInv, Wanted, EpollPeerStep
  <2>2. CASE open' = open \ {fd}
    BY <1>4, <2>1, <2>2, Zenon DEF EpollPeerStep, Epoll!Contract!Next, Epoll!Contract!Closed, Epoll!NORW,
       Epoll!Contract!NORW
  <2>3. CASE open' = open /\ want' = [want EXCEPT ![fd] = Epoll!W] /\ pending' = pending \cup {fd}
    <3>1. CASE fd \in pending
      BY <2>1, <2>3, <3>1, Zenon
    <3>2. CASE fd \notin pending
      BY <1>4, <2>1, <2>3, <3>2, Zenon DEF EpollPeerStep, Epoll!Contract!Next, Epoll!Contract!Staged,
        Epoll!R,
         Epoll!W, Epoll!Contract!R, Epoll!Contract!W
    <3> QED
      BY <3>1, <3>2, Zenon
  <2>4. CASE open' = open /\ want' = [want EXCEPT ![fd] = Epoll!R] /\ pending' = pending \ {fd}
    <3>1. CASE fd \notin pending
      BY <2>1, <2>4, <3>1, Zenon
    <3>2. CASE fd \in pending
      BY <1>4, <2>1, <2>4, <3>2, Zenon DEF EpollPeerStep, Epoll!Contract!Next, Epoll!Contract!Drained,
        Epoll!R,
         Epoll!W, Epoll!Contract!R, Epoll!Contract!W
    <3> QED
      BY <3>1, <3>2, Zenon
  <2> QED
    BY <1>4, <2>2, <2>3, <2>4, Zenon DEF EpollPeerStep
<1>5. CASE UNCHANGED Epoll!vars
  BY <1>5, Zenon DEF Epoll!vars, Epoll!sockets
<1> QED
  BY <1>1, <1>2, <1>3, <1>4, <1>5, DispatchIsPeerStep, Zenon DEF Epoll!Next

\* epoll_server.c implements the loop's side of the contract, for every peer table.
THEOREM EpollKeepsContract == Epoll!SafeSpec => Epoll!KeepsContract
<1>1. Epoll!Init => Epoll!Contract!Init
  BY Zenon DEF Epoll!Init, Epoll!SocketsInit, Epoll!Contract!Init, Epoll!NORW, Epoll!Contract!NORW
<1> QED
  BY <1>1, EpollInvariant, EpollStepKeepsContract, PTL DEF Epoll!SafeSpec, Epoll!KeepsContract,
     Epoll!Contract!Spec

-----------------------------------------------------------------------------
\* select_server.c.

\* The events of the last select that the scan has still to handle.
ReadLeft == {fd \in readfds : fd > at \/ (fd = at /\ pc = "read")}
WriteLeft == {fd \in writefds : fd >= at /\ fd \notin closed}

\* The master sets are what the peers wait for, and lie below fdset_max.
MasterInv ==
  /\ open \subseteq FD /\ pending \subseteq FD
  /\ readfds_master = {Listener} \cup (open \ pending)
  /\ writefds_master = open \cap pending
  /\ fdset_max \in Nat /\ \A fd \in open \cup {Listener} : fd <= fdset_max

\* What is left to scan is in the masters, and nready counts it.
ScanInv ==
  /\ at \in Nat /\ pc \in {"read", "write", "died"}
  /\ readfds \subseteq FD \cup {Listener} /\ writefds \subseteq FD
  /\ closed \subseteq {at} /\ (pc = "read" => closed = {})
  /\ pc # "died" =>
       /\ ReadLeft \subseteq readfds_master /\ WriteLeft \subseteq writefds_master
       /\ nready = Cardinality(ReadLeft) + Cardinality(WriteLeft)

SelectInv == MasterInv /\ ScanInv /\ PeersCannotKill

\* Descriptors are naturals, finitely many, and the listener is no peer.
LEMMA Numbers ==
  Listener \in Nat /\ Listener \notin FD /\ FD \subseteq Nat /\ IsFiniteSet(FD \cup {Listener})
<1>1. Listener \in Nat /\ Listener \notin FD /\ FD \subseteq Nat /\ IsFiniteSet(FD)
  BY DescriptorAssumption DEF Number
<1> QED
  BY <1>1, FS_AddElement, Zenon

\* The sets of what is left are finite.
LEMMA LeftFinite ==
  ASSUME ScanInv
  PROVE  /\ IsFiniteSet(ReadLeft) /\ Cardinality(ReadLeft) \in Nat
         /\ IsFiniteSet(WriteLeft) /\ Cardinality(WriteLeft) \in Nat
<1>1. ReadLeft \subseteq FD \cup {Listener} /\ WriteLeft \subseteq FD \cup {Listener}
  BY Zenon DEF ScanInv, ReadLeft, WriteLeft
<1> QED
  BY <1>1, Numbers, FS_Subset, FS_CardinalityType, Zenon

\* The loop starts as if a scan had just ended.
LEMMA SelectInitInv == Init => SelectInv
<1> SUFFICES ASSUME Init PROVE SelectInv
  BY Zenon
<1>1. ReadLeft = {} /\ WriteLeft = {}
  BY Zenon DEF Init, ReadLeft, WriteLeft
<1> QED
  BY <1>1, Numbers, FS_EmptySet DEF Init, SocketsInit, SelectInv, MasterInv, ScanInv, PeersCannotKill

-----------------------------------------------------------------------------

\* One call on a peer and the apply_status after it: the peer is closed, waits to write
\* with output staged, or waits to read with none.
SelectPeerStep(fd) ==
  /\ fd \in open /\ UNCHANGED <<fdset_max, rlimit>>
  /\ readfds_master' \ {fd} = readfds_master \ {fd} /\ writefds_master' \ {fd} = writefds_master \ {fd}
  /\ \/ /\ open' = open \ {fd} /\ pending' = pending
        /\ fd \notin readfds_master' /\ fd \notin writefds_master'
     \/ /\ open' = open /\ pending' = pending \cup {fd}
        /\ fd \notin readfds_master' /\ fd \in writefds_master'
     \/ /\ open' = open /\ pending' = pending \ {fd}
        /\ fd \in readfds_master' /\ fd \notin writefds_master'

\* What peer_on_ready_recv makes of one peer, whatever recv returned.
LEMMA ReadIsPeerStep ==
  ASSUME SelectInv, ScanRead PROVE SelectPeerStep(at) /\ at \in FD
<1>1. at \in ReadLeft /\ at # Listener
  BY Zenon DEF ScanRead, ReadLeft
<1>2. at \in open \ pending /\ at \in FD
  BY <1>1, Zenon DEF ScanRead, SelectInv, ScanInv, MasterInv
<1>3. PICK status \in RecvStatuses(at) : AfterRecv(at, status) /\ apply_status(at, status)
  BY Zenon DEF ScanRead
<1>4. status \in {R, W, NORW}
  BY <1>2, Zenon DEF RecvStatuses
<1>5. UNCHANGED <<fdset_max, rlimit>>
  BY Zenon DEF ScanRead
<1>6. CASE status = R
  BY <1>2, <1>3, <1>5, <1>6, Zenon DEF AfterRecv, apply_status, SelectPeerStep, R, W, NORW
<1>7. CASE status = W
  BY <1>2, <1>3, <1>5, <1>7, Zenon DEF AfterRecv, apply_status, SelectPeerStep, R, W, NORW
<1>8. CASE status = NORW
  BY <1>2, <1>3, <1>5, <1>8, Zenon DEF AfterRecv, apply_status, SelectPeerStep, R, W, NORW
<1> QED
  BY <1>2, <1>4, <1>6, <1>7, <1>8, Zenon

\* What peer_on_ready_send makes of one peer, whatever send returned.
LEMMA WriteIsPeerStep ==
  ASSUME SelectInv, ScanWrite, at \in writefds \ closed PROVE SelectPeerStep(at) /\ at \in FD /\ at \in WriteLeft
<1>1. at \in WriteLeft
  BY DEF SelectInv, ScanInv, WriteLeft
<1>2. at \in open \cap pending /\ at \in FD
  BY <1>1, Zenon DEF ScanWrite, SelectInv, ScanInv, MasterInv
<1>3. PICK status \in SendStatuses(at) : AfterSend(at, status) /\ apply_status(at, status)
  BY Zenon DEF ScanWrite
<1>4. status \in {R, W, NORW}
  BY <1>2, Zenon DEF SendStatuses
<1>5. UNCHANGED <<fdset_max, rlimit>>
  BY Zenon DEF ScanWrite
<1>6. CASE status = R
  BY <1>1, <1>2, <1>3, <1>5, <1>6, Zenon DEF AfterSend, apply_status, SelectPeerStep, R, W, NORW
<1>7. CASE status = W
  <2>1. pending' = pending /\ pending = pending \cup {at}
    BY <1>2, <1>3, <1>7, Zenon DEF AfterSend, R, W
  <2> QED
    BY <1>1, <1>2, <1>3, <1>5, <1>7, <2>1, Zenon DEF apply_status, SelectPeerStep, R, W, NORW
<1>8. CASE status = NORW
  BY <1>1, <1>2, <1>3, <1>5, <1>8, Zenon DEF AfterSend, apply_status, SelectPeerStep, R, W, NORW
<1> QED
  BY <1>1, <1>2, <1>4, <1>6, <1>7, <1>8, Zenon

\* Such a call keeps the master sets right.
LEMMA PeerStepMasters ==
  ASSUME MasterInv, NEW fd \in FD, SelectPeerStep(fd) PROVE MasterInv'
  BY Numbers, Zenon DEF MasterInv, SelectPeerStep

-----------------------------------------------------------------------------

\* Every step keeps the masters, the freshness of the copies and the countdown.
LEMMA SelectNextInv == SelectInv /\ [Next]_vars => SelectInv'
<1> SUFFICES ASSUME SelectInv, [Next]_vars PROVE SelectInv'
  BY Zenon
<1> USE DEF SelectInv
<1>a. /\ IsFiniteSet(ReadLeft) /\ Cardinality(ReadLeft) \in Nat
      /\ IsFiniteSet(WriteLeft) /\ Cardinality(WriteLeft) \in Nat
  BY LeftFinite, Zenon
<1>1. CASE ClientStep \/ UNCHANGED vars
  <2>1. UNCHANGED <<open, pending, rlimit, masters, scan, pc>>
    BY <1>1, Zenon DEF ClientStep, Clients, ClientConnects, ClientSends, ClientLeaves, vars, sockets
  <2> QED
    BY <2>1, Zenon DEF masters, scan, MasterInv, ScanInv, ReadLeft, WriteLeft, PeersCannotKill
<1>2. CASE select
  <2>1. UNCHANGED <<open, pending, rlimit, masters, closed>> /\ pc = "read" /\ at' = 0 /\ closed = {}
    BY <1>2, Zenon DEF select, sockets, ScanInv
  <2>2. MasterInv'
    BY <2>1, Zenon DEF MasterInv, masters
  <2>3. (readfds_master \cup writefds_master) \subseteq open \cup {Listener}
    BY Zenon DEF MasterInv
  <2>4. PICK spurious \in {{}} \cup {{fd} : fd \in readfds_master} :
          LET ready == {fd \in readfds_master :
                          IF fd = Listener THEN backlog > 0 ELSE Readable(fd)} \cup spurious
          IN /\ readfds' = ready /\ writefds' = writefds_master
             /\ nready' = Cardinality(ready) + Cardinality(writefds_master) /\ UNCHANGED pc
    BY <1>2, <2>3, Zenon DEF select
  <2>5. /\ readfds' \subseteq readfds_master /\ writefds' = writefds_master /\ pc' = "read"
        /\ nready' = Cardinality(readfds') + Cardinality(writefds')
    BY <2>1, <2>4, Zenon
  <2>6. readfds' \subseteq FD \cup {Listener} /\ writefds' \subseteq FD
    BY <2>5, Zenon DEF MasterInv
  <2>7. ReadLeft' = readfds' /\ WriteLeft' = writefds'
    <3>1. \A fd \in readfds' \cup writefds' : (fd > 0 \/ fd = 0) /\ fd >= 0
      BY <2>6, Numbers
    <3> QED
      BY <2>1, <2>5, <3>1, Zenon DEF ReadLeft, WriteLeft
  <2>8. ScanInv'
    BY <2>1, <2>5, <2>6, <2>7, Zenon DEF ScanInv, masters
  <2> QED
    BY <2>1, <2>2, <2>5, <2>8, Zenon DEF PeersCannotKill
<1>3. CASE ScanListener
  <2>1. /\ pc = "read" /\ at = Listener /\ at \in readfds /\ nready' = nready - 1
        /\ UNCHANGED <<readfds, writefds, at, closed>> /\ closed = {}
    BY <1>3, Zenon DEF ScanListener, ScanInv
  <2>2. CASE Cardinality(open) >= rlimit
    <3>1. pc' = "died" /\ UNCHANGED <<open, pending, rlimit, masters>>
      BY <1>3, <2>2, Zenon DEF ScanListener, AcceptOne, sockets
    <3> QED
      BY <2>1, <2>2, <3>1, Zenon DEF MasterInv, masters, ScanInv, PeersCannotKill
  <2>3. CASE ~(Cardinality(open) >= rlimit)
    <3>1. pc' = "write"
      BY <1>3, <2>3, Zenon DEF ScanListener, AcceptOne
    <3>2. MasterInv' /\ readfds_master \subseteq readfds_master' /\ writefds_master \subseteq writefds_master'
      <4>1. CASE UNCHANGED <<open, pending, masters>>
        BY <4>1, Zenon DEF MasterInv, masters
      <4>2. ASSUME NEW fd \in FD \ open, open' = open \cup {fd}, pending' = pending \cup {fd},
                   fdset_max' = (IF fd > fdset_max THEN fd ELSE fdset_max),
                   readfds_master' = readfds_master \ {fd}, writefds_master' = writefds_master \cup {fd}
            PROVE MasterInv' /\ readfds_master \subseteq readfds_master' /\ writefds_master \subseteq writefds_master'
        BY <4>2, Numbers DEF MasterInv
      <4> QED
        BY <1>3, <2>3, <4>1, <4>2, Zenon DEF ScanListener, AcceptOne, accept, Acceptable
    <3>3. at \in ReadLeft /\ ReadLeft' = ReadLeft \ {at} /\ WriteLeft' = WriteLeft
      BY <2>1, <3>1, Numbers DEF ReadLeft, WriteLeft
    <3>4. Cardinality(ReadLeft') = Cardinality(ReadLeft) - 1
      BY <1>a, <3>3, FS_RemoveElement, Zenon
    <3>5. ScanInv'
      BY <1>a, <2>1, <3>1, <3>2, <3>3, <3>4 DEF ScanInv
    <3> QED
      BY <3>1, <3>2, <3>5, Zenon DEF PeersCannotKill
  <2> QED
    BY <2>2, <2>3, Zenon
<1>4. CASE ScanRead
  <2>1. SelectPeerStep(at) /\ at \in FD
    BY <1>4, ReadIsPeerStep, Zenon
  <2>2. MasterInv'
    BY <2>1, PeerStepMasters, Zenon
  <2>3. /\ pc = "read" /\ pc' = "write" /\ at \in readfds \ {Listener} /\ nready' = nready - 1
        /\ closed = {} /\ closed' \subseteq {at} /\ UNCHANGED <<readfds, writefds, at>>
    BY <1>4, Zenon DEF ScanRead, ScanInv
  <2>4. at \in ReadLeft /\ at \notin WriteLeft
    BY <2>3, Zenon DEF ReadLeft, ScanInv, MasterInv
  <2>5. ReadLeft' = ReadLeft \ {at} /\ WriteLeft' = WriteLeft
    <3>1. \A fd \in readfds : fd > at => fd # at
      BY <2>1, Numbers DEF ScanInv
    <3>2. ReadLeft' = {fd \in readfds : fd > at} /\ ReadLeft = {fd \in readfds : fd > at \/ fd = at}
      BY <2>3, Zenon DEF ReadLeft
    <3>3. WriteLeft' = {fd \in writefds : fd >= at /\ fd \notin closed'}
      BY <2>3, Zenon DEF WriteLeft
    <3>4. WriteLeft = {fd \in writefds : fd >= at} /\ closed' \cap WriteLeft = {}
      BY <2>3, <2>4, Zenon DEF WriteLeft
    <3> QED
      BY <3>1, <3>2, <3>3, <3>4, Zenon
  <2>6. Cardinality(ReadLeft') = Cardinality(ReadLeft) - 1
    BY <1>a, <2>4, <2>5, FS_RemoveElement, Zenon
  <2>7. ReadLeft' \subseteq readfds_master' /\ WriteLeft' \subseteq writefds_master'
    BY <2>1, <2>3, <2>4, <2>5, Zenon DEF SelectPeerStep, ScanInv
  <2>8. ScanInv'
    BY <1>a, <2>3, <2>5, <2>6, <2>7 DEF ScanInv
  <2> QED
    BY <2>2, <2>3, <2>8, Zenon DEF PeersCannotKill
<1>5. CASE ScanNoRead
  <2>1. /\ pc = "read" /\ pc' = "write" /\ at \notin readfds /\ UNCHANGED <<open, pending, rlimit, masters, scan>>
    BY <1>5, Zenon DEF ScanNoRead, sockets
  <2>2. ReadLeft' = ReadLeft /\ WriteLeft' = WriteLeft
    BY <2>1, Zenon DEF ReadLeft, WriteLeft, scan
  <2> QED
    BY <2>1, <2>2, Zenon DEF masters, scan, MasterInv, ScanInv, PeersCannotKill
<1>6. CASE ScanWrite
  <2>1. /\ pc = "write" /\ pc' = "read" /\ at' = at + 1 /\ closed' = {} /\ UNCHANGED <<readfds, writefds>>
        /\ at \in Nat /\ closed \subseteq {at}
    BY <1>6, Zenon DEF ScanWrite, ScanInv
  <2>2. ReadLeft' = ReadLeft
    <3>1. \A fd \in readfds : (fd > at + 1 \/ fd = at + 1) <=> fd > at
      BY <2>1, Numbers DEF ScanInv
    <3>2. ReadLeft' = {fd \in readfds : fd > at + 1 \/ fd = at + 1} /\ ReadLeft = {fd \in readfds : fd > at}
      BY <2>1, Zenon DEF ReadLeft
    <3> QED
      BY <3>1, <3>2, Zenon
  <2>3. WriteLeft' = WriteLeft \ {at}
    <3>1. \A fd \in writefds : fd >= at + 1 <=> fd >= at /\ fd # at
      BY <2>1, Numbers DEF ScanInv
    <3>2. WriteLeft' = {fd \in writefds : fd >= at + 1}
      BY <2>1, Zenon DEF WriteLeft
    <3> QED
      BY <2>1, <3>1, <3>2, Zenon DEF WriteLeft
  <2>r. at \notin ReadLeft
    BY <2>1, Numbers DEF ReadLeft, ScanInv
  <2>4. CASE at \in writefds \ closed
    <3>1. SelectPeerStep(at) /\ at \in FD /\ at \in WriteLeft
      BY <1>6, <2>4, WriteIsPeerStep, Zenon
    <3>2. MasterInv'
      BY <3>1, PeerStepMasters, Zenon
    <3>3. nready' = nready - 1
      BY <1>6, <2>4, Zenon DEF ScanWrite
    <3>4. Cardinality(WriteLeft') = Cardinality(WriteLeft) - 1
      BY <1>a, <2>3, <3>1, FS_RemoveElement, Zenon
    <3>5. ReadLeft' \subseteq readfds_master' /\ WriteLeft' \subseteq writefds_master'
      BY <2>1, <2>2, <2>3, <2>r, <3>1, Zenon DEF SelectPeerStep, ScanInv
    <3>6. ScanInv'
      BY <1>a, <2>1, <2>2, <3>3, <3>4, <3>5 DEF ScanInv
    <3> QED
      BY <2>1, <3>2, <3>6, Zenon DEF PeersCannotKill
  <2>5. CASE at \notin writefds \ closed
    <3>1. UNCHANGED <<open, pending, rlimit, masters, nready>>
      BY <1>6, <2>5, Zenon DEF ScanWrite, sockets
    <3>2. WriteLeft' = WriteLeft
      BY <2>3, <2>5, Zenon DEF WriteLeft
    <3> QED
      BY <2>1, <2>2, <3>1, <3>2 DEF masters, MasterInv, ScanInv, PeersCannotKill
  <2> QED
    BY <2>4, <2>5, Zenon
<1> QED
  BY <1>1, <1>2, <1>3, <1>4, <1>5, <1>6, Zenon DEF Next, Loop

\* The invariant holds of every run.
LEMMA SelectInvariant == SafeSpec => []SelectInv
  BY SelectInitInv, SelectNextInv, PTL DEF SafeSpec

\* A descriptor closed or accepted in the middle of a scan never makes the rest of the
\* copied sets wrong.
THEOREM CopiesStayFresh == SafeSpec => []CopiesFresh
<1>1. SelectInv => CopiesFresh
  <2> SUFFICES ASSUME SelectInv, pc # "died" PROVE CopiesFresh
    BY Zenon DEF CopiesFresh
  <2>1. ReadLeft \subseteq {Listener} \cup (readfds_master \cap open)
    BY Zenon DEF SelectInv, ScanInv, MasterInv
  <2>2. WriteLeft \subseteq writefds_master \cap open
    BY Zenon DEF SelectInv, ScanInv, MasterInv
  <2> QED
    BY <2>1, <2>2, Zenon DEF CopiesFresh, ReadLeft, WriteLeft
<1> QED
  BY <1>1, SelectInvariant, PTL

\* "nready" runs out exactly with the last event: stopping the scan early skips nobody.
THEOREM EarlyStopIsSafe == SafeSpec => []ScanComplete
<1>1. SelectInv => ScanComplete
  <2> SUFFICES ASSUME SelectInv, pc = "read", ScanDone, NEW fd \in readfds \cup writefds PROVE fd < at
    BY Zenon DEF ScanComplete
  <2>1. fd \in Nat /\ at \in Nat /\ closed = {}
    BY Numbers, Zenon DEF SelectInv, ScanInv
  <2>2. fd \notin ReadLeft \cup WriteLeft
    <3>1. CASE nready = 0
      <4>1. Cardinality(ReadLeft) = 0 /\ Cardinality(WriteLeft) = 0
        BY <3>1, LeftFinite DEF SelectInv, ScanInv
      <4> QED
        BY <4>1, LeftFinite, FS_EmptySet, Zenon DEF SelectInv
    <3>2. CASE at > fdset_max
      <4>1. \A d \in ReadLeft \cup WriteLeft : d \in Nat /\ d <= fdset_max /\ d >= at
        BY <2>1, Numbers DEF SelectInv, ScanInv, MasterInv, ReadLeft, WriteLeft
      <4> QED
        BY <2>1, <3>2, <4>1 DEF SelectInv, MasterInv
    <3> QED
      BY <3>1, <3>2, Zenon DEF ScanDone
  <2> QED
    BY <2>1, <2>2 DEF ReadLeft, WriteLeft
<1> QED
  BY <1>1, SelectInvariant, PTL

\* select never sees a closed descriptor, so no client can end the loop.
THEOREM OnlyTheLimitKillsSelect == SafeSpec => []PeersCannotKill
  BY SelectInvariant, PTL DEF SelectInv

-----------------------------------------------------------------------------
\* The contract with peer_state.c.

\* What the master sets say of one peer.
LEMMA InterestOf ==
  ASSUME MasterInv
  PROVE  Interest = [fd \in FD |-> IF fd \notin open THEN NORW ELSE IF fd \in pending THEN W ELSE R]
<1>1. \A fd \in FD :
        (IF fd \in readfds_master THEN R ELSE {}) \cup (IF fd \in writefds_master THEN W ELSE {})
          = IF fd \notin open THEN NORW ELSE IF fd \in pending THEN W ELSE R
  BY Numbers, Zenon DEF MasterInv, NORW, R, W
<1> QED
  BY <1>1, Zenon DEF Interest

\* A call on a peer, and an accept, are steps of the contract or change nothing in it.
LEMMA PeerStepContract ==
  ASSUME MasterInv, MasterInv', NEW fd \in FD,
         SelectPeerStep(fd) \/ (fd \notin open /\ open' = open \cup {fd} /\ pending' = pending \cup {fd})
  PROVE  Contract!Next \/ UNCHANGED <<open, Interest, pending>>
<1> DEFINE Of(o, p) == [d \in FD |-> IF d \notin o THEN NORW ELSE IF d \in p THEN W ELSE R]
<1>1. Interest = Of(open, pending)
  BY InterestOf, Zenon
<1>2. Interest' = Of(open', pending')
  <2>1. \A d \in FD :
          (IF d \in readfds_master' THEN R ELSE {}) \cup (IF d \in writefds_master' THEN W ELSE {})
            = IF d \notin open' THEN NORW ELSE IF d \in pending' THEN W ELSE R
    BY Numbers, Zenon DEF MasterInv, NORW, R, W
  <2> QED
    BY <2>1, Zenon DEF Interest
<1> HIDE DEF Of
<1>3. Of(open, pending)[fd] = IF fd \notin open THEN NORW ELSE IF fd \in pending THEN W ELSE R
  BY Zenon DEF Of
<1>4. ASSUME open' = open \cup {fd}, pending' = pending \cup {fd}
      PROVE  Of(open', pending') = [Of(open, pending) EXCEPT ![fd] = W]
  BY <1>4, Zenon DEF Of
<1>5. ASSUME open' = open \ {fd}, pending' = pending
      PROVE  Of(open', pending') = [Of(open, pending) EXCEPT ![fd] = NORW]
  BY <1>5, Zenon DEF Of
<1>6. ASSUME fd \in open, open' = open, pending' = pending \cup {fd}
      PROVE  Of(open', pending') = [Of(open, pending) EXCEPT ![fd] = W]
  BY <1>6, Zenon DEF Of
<1>7. ASSUME fd \in open, open' = open, pending' = pending \ {fd}
      PROVE  Of(open', pending') = [Of(open, pending) EXCEPT ![fd] = R]
  BY <1>7, Zenon DEF Of
<1> USE DEF Contract!Next, R, W, NORW, Contract!R, Contract!W, Contract!NORW
<1>8. CASE fd \notin open /\ open' = open \cup {fd} /\ pending' = pending \cup {fd}
  BY <1>1, <1>2, <1>4, <1>8, Zenon DEF Contract!Connected
<1>9. CASE fd \in open /\ open' = open \ {fd} /\ pending' = pending
  BY <1>1, <1>2, <1>5, <1>9, Zenon DEF Contract!Closed
<1>10. CASE fd \in open /\ open' = open /\ pending' = pending \cup {fd}
  <2>1. CASE fd \in pending
    <3>1. pending' = pending
      BY <1>10, <2>1, Zenon
    <3> QED
      BY <1>1, <1>2, <1>10, <3>1, Zenon
  <2>2. CASE fd \notin pending
    BY <1>1, <1>2, <1>3, <1>6, <1>10, <2>2, Zenon DEF Contract!Staged
  <2> QED
    BY <2>1, <2>2, Zenon
<1>11. CASE fd \in open /\ open' = open /\ pending' = pending \ {fd}
  <2>1. CASE fd \notin pending
    <3>1. pending' = pending
      BY <1>11, <2>1, Zenon
    <3> QED
      BY <1>1, <1>2, <1>11, <3>1, Zenon
  <2>2. CASE fd \in pending
    BY <1>1, <1>2, <1>3, <1>7, <1>11, <2>2, Zenon DEF Contract!Drained
  <2> QED
    BY <2>1, <2>2, Zenon
<1> QED
  BY <1>8, <1>9, <1>10, <1>11, Zenon DEF SelectPeerStep

\* Every step of the loop is a step of the contract, or changes nothing in it.
LEMMA SelectStepKeepsContract == SelectInv /\ SelectInv' /\ [Next]_vars => [Contract!Next]_(Contract!vars)
<1> SUFFICES ASSUME SelectInv, SelectInv', [Next]_vars
             PROVE  Contract!Next \/ UNCHANGED <<open, Interest, pending>>
  BY Zenon DEF Contract!vars
<1>1. CASE UNCHANGED <<open, pending, masters>>
  BY <1>1, Zenon DEF masters, Interest
<1>2. ASSUME NEW fd \in FD,
             SelectPeerStep(fd) \/ (fd \notin open /\ open' = open \cup {fd} /\ pending' = pending \cup {fd})
      PROVE  Contract!Next \/ UNCHANGED <<open, Interest, pending>>
  BY <1>2, PeerStepContract, Zenon DEF SelectInv
<1>3. CASE ClientStep \/ select \/ ScanNoRead \/ UNCHANGED vars
  BY <1>1, <1>3, Zenon DEF ClientStep, Clients, ClientConnects, ClientSends, ClientLeaves, select,
    ScanNoRead,
     vars, sockets
<1>4. CASE ScanListener
  BY <1>1, <1>2, <1>4, Zenon DEF ScanListener, AcceptOne, accept, Acceptable, sockets
<1>5. CASE ScanRead
  BY <1>2, <1>5, ReadIsPeerStep, Zenon
<1>6. CASE ScanWrite
  <2>1. CASE at \in writefds \ closed
    BY <1>2, <1>6, <2>1, WriteIsPeerStep, Zenon
  <2>2. CASE at \notin writefds \ closed
    BY <1>1, <1>6, <2>2, Zenon DEF ScanWrite, sockets
  <2> QED
    BY <2>1, <2>2, Zenon
<1> QED
  BY <1>3, <1>4, <1>5, <1>6, Zenon DEF Next, Loop

\* Before the loop starts the master sets watch no peer.
LEMMA SelectInitView == Init => Contract!Init
<1> SUFFICES ASSUME Init PROVE Contract!Init
  BY Zenon
<1>1. open = {} /\ pending = {} /\ MasterInv
  BY SelectInitInv, Zenon DEF Init, SocketsInit, SelectInv
<1>2. Interest = [fd \in FD |-> NORW]
  BY <1>1, InterestOf, Zenon
<1> QED
  BY <1>1, <1>2, Zenon DEF Contract!Init, NORW, Contract!NORW

\* select_server.c implements the loop's side of the contract, with its master sets as
\* the record of what each peer waits for.
THEOREM SelectKeepsContract == SafeSpec => KeepsContract
  BY SelectInitView, SelectInvariant, SelectStepKeepsContract, PTL DEF SafeSpec, KeepsContract,
    Contract!Spec

-----------------------------------------------------------------------------
\* uring_server.c.

\* Operations queued or submitted, those on d, and the completions about d.
Ops == sq \cup inflight
OpsOf(d) == {o \in Ops : o[2] = d}
CqOf(d) == {c \in cq : c[2] = d \/ c[4] = d}

Idle(d) == OpsOf(d) = {} /\ CqOf(d) = {}
One(d) ==
  \/ \E o \in Ops : OpsOf(d) = {o} /\ CqOf(d) = {}
  \/ \E c \in cq : OpsOf(d) = {} /\ CqOf(d) = {c}

\* What a recv and a send can complete with.
ResultsOf(name) ==
  IF name = "recv" THEN {"again", "error", "eof", "data"} ELSE {"again", "error", "some", "all"}

\* A completion is an accept's, with the new descriptor or the listener in its last
\* field, or a peer's.
Completion(c) ==
  \/ c[1] = "accept" /\ c[2] = Listener /\ c[4] \in Uring!Number \cup {Listener}
  \/ c[1] \in {"recv", "send"} /\ c[2] \in FD /\ c[4] = c[2] /\ c[3] \in ResultsOf(c[1])

UringInv ==
  /\ open \subseteq Uring!Number
  /\ sq \cap inflight = {}
  /\ \A c \in cq : Completion(c)
  /\ \A fd \in open : One(fd)
  /\ \A fd \in Uring!Number \ open : Idle(fd)
  /\ One(Listener)

\* Operations name what they are on.
LEMMA OpFields ==
  /\ Uring!Accept[1] = "accept" /\ Uring!Accept[2] = Listener
  /\ \A fd : Uring!Recv(fd)[1] = "recv" /\ Uring!Recv(fd)[2] = fd /\ Uring!Send(fd)[1] = "send" /\ Uring!Send(fd)[2] = fd
  BY Zenon DEF Uring!Accept, Uring!Recv, Uring!Send

\* No connection gets the number of the listener.
LEMMA ListenerNoPeer == Listener \notin Uring!Number
  BY DescriptorAssumption DEF Number, Uring!Number

\* get_sqe adds the operation, whether or not it has to flush.
LEMMA GetSqe ==
  ASSUME NEW q, NEW k, NEW op
  PROVE  LET r == Uring!get_sqe(<<q, k>>, op) IN
         /\ r = <<r[1], r[2]>> /\ r[1] \cup r[2] = q \cup k \cup {op}
         /\ q \cap k = {} /\ op \notin q \cup k => r[1] \cap r[2] = {}
  BY Zenon DEF Uring!get_sqe

\* arm_next closes the descriptor or queues one operation on it.
LEMMA ArmNext ==
  ASSUME NEW q, NEW k, NEW fd, NEW status, NEW staged, Uring!arm_next(<<q, k>>, fd, status, staged)
  PROVE  IF status = Uring!NORW
         THEN open' = open \ {fd} /\ sq' = q /\ inflight' = k
         ELSE \E op \in {Uring!Recv(fd), Uring!Send(fd)} :
                /\ open' = open /\ sq' \cup inflight' = q \cup k \cup {op}
                /\ q \cap k = {} /\ op \notin q \cup k => sq' \cap inflight' = {}
<1>1. CASE status = Uring!NORW
  BY <1>1, Zenon DEF Uring!arm_next, Uring!SetRing
<1>2. CASE status # Uring!NORW
  <2>1. PICK op \in {Uring!Recv(fd), Uring!Send(fd)} : Uring!SetRing(Uring!get_sqe(<<q, k>>, op)) /\ open' = open
    BY <1>2, Zenon DEF Uring!arm_next, Uring!queue_send, Uring!queue_recv
  <2> DEFINE r == Uring!get_sqe(<<q, k>>, op)
  <2>2. /\ r[1] \cup r[2] = q \cup k \cup {op}
        /\ q \cap k = {} /\ op \notin q \cup k => r[1] \cap r[2] = {}
    BY GetSqe, Zenon
  <2>3. sq' = r[1] /\ inflight' = r[2]
    BY <2>1, Zenon DEF Uring!SetRing
  <2> HIDE DEF r
  <2> QED
    BY <1>2, <2>1, <2>2, <2>3, Zenon
<1> QED
  BY <1>1, <1>2, Zenon

\* Only the accept is outstanding when the loop starts.
LEMMA UringInitInv == Uring!Init => UringInv
<1> SUFFICES ASSUME Uring!Init PROVE UringInv
  BY Zenon
<1>1. sq = {Uring!Accept} /\ inflight = {} /\ cq = {} /\ open = {}
  BY Zenon DEF Uring!Init, Uring!SocketsInit
<1>2. \A d : CqOf(d) = {}
  BY <1>1, Zenon DEF CqOf
<1>3. OpsOf(Listener) = {Uring!Accept} /\ Uring!Accept \in Ops
  BY <1>1, OpFields, Zenon DEF OpsOf, Ops
<1>4. \A fd \in Uring!Number : OpsOf(fd) = {}
  BY <1>1, OpFields, ListenerNoPeer, Zenon DEF OpsOf, Ops
<1> QED
  BY <1>1, <1>2, <1>3, <1>4, Zenon DEF UringInv, One, Idle

\* What is on d is untouched by a step that adds and removes only what is on others.
LEMMA Untouched ==
  ASSUME NEW d,
         \A o : o[2] = d => (o \in Ops' <=> o \in Ops),
         \A c : c[2] = d \/ c[4] = d => (c \in cq' <=> c \in cq)
  PROVE  (One(d) => One(d)') /\ (Idle(d) => Idle(d)')
<1>1. OpsOf(d)' = OpsOf(d)
  BY Zenon DEF OpsOf
<1>2. CqOf(d)' = CqOf(d)
  BY Zenon DEF CqOf
<1>3. \A o \in OpsOf(d) : o \in Ops'
  BY Zenon DEF OpsOf
<1>4. \A c \in CqOf(d) : c \in cq'
  BY Zenon DEF CqOf
<1> QED
  BY <1>1, <1>2, <1>3, <1>4, Zenon DEF One, Idle

\* The kernel turns the one operation on d into the one completion about it.
LEMMA Posted ==
  ASSUME UringInv, NEW op \in inflight, NEW res, NEW fd, Uring!PostFor(op, res, fd), One(op[2])
  PROVE  /\ One(op[2])' /\ sq' \cap inflight' = {} /\ Ops' = Ops \ {op}
         /\ cq' = cq \cup {<<op[1], op[2], res, fd>>}
<1> DEFINE c == <<op[1], op[2], res, fd>>
<1>1. sq' = sq /\ inflight' = inflight \ {op} /\ cq' = cq \cup {c} /\ sq \cap inflight = {}
  BY Zenon DEF Uring!PostFor, UringInv
<1>2. Ops' = Ops \ {op} /\ op \in Ops
  BY <1>1, Zenon DEF Ops
<1>3. OpsOf(op[2]) = {op} /\ CqOf(op[2]) = {}
  <2>1. op \in OpsOf(op[2])
    BY <1>2, Zenon DEF OpsOf
  <2> QED
    BY <2>1, Zenon DEF One
<1>4. OpsOf(op[2])' = {}
  BY <1>2, <1>3, Zenon DEF OpsOf
<1>5. CqOf(op[2])' = {c}
  <2>1. c[2] = op[2]
    BY Zenon
  <2>2. c \in cq'
    BY <1>1, Zenon
  <2> HIDE DEF c
  <2>3. \A x \in cq : ~(x[2] = op[2] \/ x[4] = op[2])
    BY <1>3, Zenon DEF CqOf
  <2> QED
    BY <1>1, <2>1, <2>2, <2>3, Zenon DEF CqOf
<1> QED
  BY <1>1, <1>2, <1>4, <1>5, Zenon DEF One

\* The loop turns the one completion about fd into the one operation on it, or closes it.
LEMMA Rearmed ==
  ASSUME UringInv, NEW c \in cq, NEW fd, c[2] = fd \/ c[4] = fd, One(fd), cq' = cq \ {c}
  PROVE  /\ OpsOf(fd) = {} /\ CqOf(fd) = {c} /\ CqOf(fd)' = {}
         /\ (\A o \in Ops' : o[2] # fd) => Idle(fd)'
         /\ \A op : op[2] = fd /\ op \in Ops' /\ (\A o \in Ops' : o[2] = fd => o = op) => One(fd)'
<1>1. c \in CqOf(fd)
  BY Zenon DEF CqOf
<1>2. OpsOf(fd) = {} /\ CqOf(fd) = {c}
  BY <1>1, Zenon DEF One
<1>3. CqOf(fd)' = {}
  BY <1>2, Zenon DEF CqOf
<1>4. ASSUME \A o \in Ops' : o[2] # fd PROVE Idle(fd)'
  BY <1>3, <1>4, Zenon DEF Idle, OpsOf
<1>5. ASSUME NEW op, op[2] = fd, op \in Ops', \A o \in Ops' : o[2] = fd => o = op PROVE One(fd)'
  <2>1. OpsOf(fd)' = {op}
    BY <1>5, Zenon DEF OpsOf
  <2> QED
    BY <1>3, <1>5, <2>1, Zenon DEF One
<1> QED
  BY <1>2, <1>3, <1>4, <1>5, Zenon

-----------------------------------------------------------------------------

\* A peer's operation completes.
LEMMA PostKeeps ==
  ASSUME UringInv, NEW fd \in FD, NEW op \in {Uring!Recv(fd), Uring!Send(fd)}, op \in inflight,
         NEW res \in ResultsOf(op[1]), Uring!Post(op, res), open' = open
  PROVE  UringInv'
<1>0. op[2] = fd /\ op[1] \in {"recv", "send"} /\ fd \in Uring!Number
  BY OpFields, Zenon DEF Uring!Number
<1>1. fd \in open /\ One(fd)
  <2>1. op \in OpsOf(fd)
    BY <1>0, Zenon DEF OpsOf, Ops
  <2> QED
    BY <1>0, <2>1, Zenon DEF UringInv, Idle
<1> DEFINE c == <<op[1], op[2], res, fd>>
<1>2. One(fd)' /\ sq' \cap inflight' = {} /\ Ops' = Ops \ {op} /\ cq' = cq \cup {c}
  BY <1>0, <1>1, Posted, Zenon DEF Uring!Post
<1>3. c[1] \in {"recv", "send"} /\ c[2] = fd /\ c[4] = fd /\ c[3] \in ResultsOf(c[1])
  BY <1>0, Zenon
<1> HIDE DEF c
<1>4. \A d : d # fd => (One(d) => One(d)') /\ (Idle(d) => Idle(d)')
  BY <1>0, <1>2, <1>3, Untouched, Zenon
<1>5. Listener # fd
  BY <1>0, ListenerNoPeer, Zenon
<1>6. \A x \in cq' : Completion(x)
  BY <1>2, <1>3, Zenon DEF UringInv, Completion
<1> QED
  BY <1>1, <1>2, <1>4, <1>5, <1>6, Zenon DEF UringInv, Completion

\* The accept completes, with a new descriptor or without.
LEMMA PostAcceptKeeps ==
  ASSUME UringInv, Uring!Accept \in inflight, NEW res, NEW fd \in (Uring!Number \ open) \cup {Listener},
         Uring!PostFor(Uring!Accept, res, fd), open' = open \cup ({fd} \ {Listener})
  PROVE  UringInv'
<1> DEFINE c == <<Uring!Accept[1], Uring!Accept[2], res, fd>>
<1>1. One(Listener)' /\ sq' \cap inflight' = {} /\ Ops' = Ops \ {Uring!Accept} /\ cq' = cq \cup {c}
  BY OpFields, Posted, Zenon DEF UringInv
<1>2. c[1] = "accept" /\ c[2] = Listener /\ c[4] = fd
  BY OpFields, Zenon
<1> HIDE DEF c
<1>3. \A d : d # Listener /\ d # fd => (One(d) => One(d)') /\ (Idle(d) => Idle(d)')
  BY <1>1, <1>2, OpFields, Untouched, Zenon
<1>4. \A x \in cq' : Completion(x)
  BY <1>1, <1>2, Zenon DEF UringInv, Completion
<1>5. ASSUME fd # Listener PROVE One(fd)'
  <2>1. OpsOf(fd) = {} /\ CqOf(fd) = {}
    BY <1>5, Zenon DEF UringInv, Idle
  <2>2. OpsOf(fd)' = {}
    BY <1>1, <2>1, Zenon DEF OpsOf
  <2>3. CqOf(fd)' = {c}
    BY <1>1, <1>2, <2>1, Zenon DEF CqOf
  <2> QED
    BY <1>1, <2>2, <2>3, Zenon DEF One
<1> QED
  BY <1>1, <1>3, <1>4, <1>5, ListenerNoPeer, Zenon DEF UringInv, Completion

\* A completion about a peer is handled.
LEMMA HandlePeerKeeps ==
  ASSUME UringInv, NEW c \in cq, c[1] \in {"recv", "send"}, cq' = cq \ {c}, NEW status, NEW staged,
         Uring!arm_next(Uring!Ring, c[2], status, staged)
  PROVE  UringInv'
<1>1. PICK fd \in FD : c[2] = fd /\ c[4] = fd
  BY Zenon DEF UringInv, Completion
<1>2. fd \in open /\ One(fd) /\ fd \in Uring!Number /\ fd # Listener
  <2>1. c \in CqOf(fd)
    BY <1>1, Zenon DEF CqOf
  <2> QED
    BY <2>1, ListenerNoPeer, Zenon DEF UringInv, Idle, Uring!Number
<1>3. OpsOf(fd) = {}
  BY <1>1, <1>2, Rearmed, Zenon
<1>4. \A x \in cq' : Completion(x)
  BY Zenon DEF UringInv
<1>5. CASE status = Uring!NORW
  <2>1. open' = open \ {fd} /\ sq' = sq /\ inflight' = inflight /\ Ops' = Ops
    BY <1>1, <1>5, ArmNext, Zenon DEF Uring!Ring, Ops
  <2>2. Idle(fd)'
    BY <1>1, <1>2, <1>3, <2>1, Rearmed, Zenon DEF OpsOf
  <2>3. \A d : d # fd => (One(d) => One(d)') /\ (Idle(d) => Idle(d)')
    BY <1>1, <2>1, Untouched, Zenon
  <2> QED
    BY <1>2, <1>4, <2>1, <2>2, <2>3, Zenon DEF UringInv, Completion
<1>6. CASE status # Uring!NORW
  <2>1. PICK op \in {Uring!Recv(fd), Uring!Send(fd)} :
          /\ open' = open /\ sq' \cup inflight' = sq \cup inflight \cup {op}
          /\ sq \cap inflight = {} /\ op \notin sq \cup inflight => sq' \cap inflight' = {}
    BY <1>1, <1>6, ArmNext DEF Uring!Ring
  <2>2. op[2] = fd /\ op \notin Ops /\ Ops' = Ops \cup {op}
    BY <1>3, <2>1, OpFields, Zenon DEF Ops, OpsOf
  <2>3. sq' \cap inflight' = {}
    BY <2>1, <2>2, Zenon DEF UringInv, Ops
  <2>4. One(fd)'
    BY <1>1, <1>2, <1>3, <2>2, Rearmed, Zenon DEF OpsOf
  <2>5. \A d : d # fd => (One(d) => One(d)') /\ (Idle(d) => Idle(d)')
    BY <1>1, <2>2, Untouched, Zenon
  <2> QED
    BY <1>2, <1>4, <2>1, <2>3, <2>4, <2>5, Zenon DEF UringInv, Completion
<1> QED
  BY <1>5, <1>6, Zenon

\* The accept is armed again, and the new descriptor gets its first operation or is
\* closed.
LEMMA HandleAcceptKeeps ==
  ASSUME UringInv, NEW c \in cq, Uring!HandleAccept(c) PROVE UringInv'
<1> DEFINE r == Uring!get_sqe(<<sq, inflight>>, Uring!Accept)
<1>1. PICK fd \in Uring!Number \cup {Listener} : c[2] = Listener /\ c[4] = fd /\ cq' = cq \ {c}
  BY Zenon DEF UringInv, Completion, Uring!HandleAccept, Uring!Take
<1>2. OpsOf(Listener) = {} /\ CqOf(Listener) = {c}
  BY <1>1, Rearmed, Zenon DEF UringInv
<1>3. fd # Listener => fd \in open /\ One(fd) /\ OpsOf(fd) = {}
  <2>1. c \in CqOf(fd)
    BY <1>1, Zenon DEF CqOf
  <2>2. fd # Listener => fd \in open /\ One(fd)
    BY <2>1, Zenon DEF UringInv, Idle
  <2> QED
    BY <1>1, <2>2, Rearmed, Zenon
<1>4. \A x \in cq' : Completion(x)
  BY <1>1, Zenon DEF UringInv
<1>5. Uring!Accept \notin Ops
  BY <1>2, OpFields, Zenon DEF OpsOf
<1>6. r = <<r[1], r[2]>> /\ r[1] \cup r[2] = Ops \cup {Uring!Accept} /\ r[1] \cap r[2] = {}
  BY <1>5, GetSqe DEF UringInv, Ops
<1>7. Uring!queue_accept(Uring!Ring) = r
  BY Zenon DEF Uring!queue_accept, Uring!Ring
<1> HIDE DEF r
<1>8. CASE fd \in FD
  <2>0. fd # Listener
    BY <1>8, ListenerNoPeer, Zenon DEF Uring!Number
  <2>1. Uring!arm_next(<<r[1], r[2]>>, fd, Uring!W, pending \cup {fd})
    BY <1>1, <1>6, <1>7, <1>8, Zenon DEF Uring!HandleAccept
  <2>2. Uring!W # Uring!NORW
    BY Zenon DEF Uring!W, Uring!NORW
  <2>3. PICK op \in {Uring!Recv(fd), Uring!Send(fd)} :
          /\ open' = open /\ sq' \cup inflight' = r[1] \cup r[2] \cup {op}
          /\ r[1] \cap r[2] = {} /\ op \notin r[1] \cup r[2] => sq' \cap inflight' = {}
    BY <2>1, <2>2, ArmNext
  <2>4. op[2] = fd /\ op \notin Ops /\ op # Uring!Accept
    BY <1>3, <2>0, OpFields, Zenon DEF OpsOf
  <2>5. Ops' = Ops \cup {Uring!Accept, op} /\ sq' \cap inflight' = {}
    BY <1>6, <2>3, <2>4, Zenon DEF Ops
  <2>6. One(fd)'
    BY <1>1, <1>3, <2>0, <2>4, <2>5, OpFields, Rearmed, Zenon DEF OpsOf
  <2>7. One(Listener)'
    BY <1>1, <1>2, <2>0, <2>4, <2>5, OpFields, Rearmed, Zenon DEF OpsOf, UringInv
  <2>8. \A d : d # fd /\ d # Listener => (One(d) => One(d)') /\ (Idle(d) => Idle(d)')
    BY <1>1, <2>4, <2>5, OpFields, Untouched, Zenon
  <2> QED
    BY <1>3, <1>4, <2>0, <2>3, <2>5, <2>6, <2>7, <2>8, ListenerNoPeer, Zenon DEF UringInv, Completion
<1>9. CASE fd \notin FD
  <2>1. sq' = r[1] /\ inflight' = r[2] /\ open' = open \ {fd}
    BY <1>1, <1>7, <1>9, Zenon DEF Uring!HandleAccept, Uring!SetRing
  <2>2. Ops' = Ops \cup {Uring!Accept} /\ sq' \cap inflight' = {}
    BY <1>6, <2>1, Zenon DEF Ops
  <2>3. One(Listener)'
    BY <1>1, <1>2, <2>2, OpFields, Rearmed, Zenon DEF OpsOf, UringInv
  <2>4. fd # Listener => Idle(fd)'
    BY <1>1, <1>3, <2>2, OpFields, Rearmed, Zenon DEF OpsOf
  <2>5. \A d : d # fd /\ d # Listener => (One(d) => One(d)') /\ (Idle(d) => Idle(d)')
    BY <1>1, <2>2, OpFields, Untouched, Zenon
  <2> QED
    BY <1>3, <1>4, <2>1, <2>2, <2>3, <2>4, <2>5, ListenerNoPeer, Zenon DEF UringInv, Completion
<1> QED
  BY <1>8, <1>9, Zenon

\* Every step of the loop, the kernel and the clients.
LEMMA UringNextInv == UringInv /\ [Uring!Next]_(Uring!vars) => UringInv'
<1> SUFFICES ASSUME UringInv, [Uring!Next]_(Uring!vars) PROVE UringInv'
  BY Zenon
<1>1. CASE Uring!ClientStep \/ Uring!DrainDone \/ UNCHANGED Uring!vars
  <2>1. UNCHANGED <<open, sq, inflight, cq>>
    BY <1>1, Zenon DEF Uring!ClientStep, Uring!Clients, Uring!ClientConnects, Uring!ClientSends,
       Uring!ClientLeaves, Uring!DrainDone, Uring!vars, Uring!ring, Uring!sockets
  <2> QED
    BY <2>1, Zenon DEF UringInv, One, Idle, OpsOf, CqOf, Ops, Completion
<1>2. CASE Uring!Submit
  <2>1. Ops' = Ops /\ cq' = cq /\ open' = open /\ sq' \cap inflight' = {}
    BY <1>2, Zenon DEF Uring!Submit, Ops, Uring!sockets
  <2> QED
    BY <2>1, Zenon DEF UringInv, One, Idle, OpsOf, CqOf, Completion
<1>3. CASE Uring!KernelAcceptFails
  BY <1>3, OpFields, PostAcceptKeeps, Zenon DEF Uring!KernelAcceptFails, Uring!Post
<1>4. ASSUME NEW fd \in Uring!Number, Uring!KernelAccepts(fd) PROVE UringInv'
  <2>1. fd \in Uring!Number \ open /\ open' = open \cup {fd} /\ fd # Listener
    BY <1>4, ListenerNoPeer, Zenon DEF Uring!KernelAccepts, Uring!accept, Uring!Acceptable
  <2> QED
    BY <1>4, <2>1, PostAcceptKeeps, Zenon DEF Uring!KernelAccepts
<1>5. ASSUME NEW fd \in FD, Uring!KernelReceives(fd) \/ Uring!KernelEof(fd) \/ Uring!KernelSends(fd)
               \/ Uring!KernelFails(Uring!Recv(fd)) \/ Uring!KernelFails(Uring!Send(fd))
      PROVE  UringInv'
  <2>1. PICK op \in {Uring!Recv(fd), Uring!Send(fd)} :
          op \in inflight /\ open' = open /\ \E res \in ResultsOf(op[1]) : Uring!Post(op, res)
    BY <1>5, OpFields, Zenon DEF Uring!KernelReceives, Uring!KernelEof, Uring!KernelSends,
      Uring!KernelFails,
       Uring!sockets, ResultsOf
  <2> QED
    BY <2>1, PostKeeps, Zenon
<1>6. ASSUME NEW c \in cq, Uring!HandleRecv(c) PROVE UringInv'
  <2>1. c[1] = "recv" /\ cq' = cq \ {c} /\ c[3] \in {"again", "error", "eof", "data"}
    BY <1>6, Zenon DEF Uring!HandleRecv, Uring!Take, UringInv, Completion, ResultsOf
  <2>2. \E status, staged : Uring!arm_next(Uring!Ring, c[2], status, staged)
    BY <1>6, <2>1, Zenon DEF Uring!HandleRecv
  <2> QED
    BY <2>1, <2>2, HandlePeerKeeps, Zenon
<1>7. ASSUME NEW c \in cq, Uring!HandleSend(c) PROVE UringInv'
  <2>1. c[1] = "send" /\ cq' = cq \ {c} /\ c[3] \in {"again", "error", "some", "all"}
    BY <1>7, Zenon DEF Uring!HandleSend, Uring!Take, UringInv, Completion, ResultsOf
  <2>2. \E status, staged : Uring!arm_next(Uring!Ring, c[2], status, staged)
    BY <1>7, <2>1, Zenon DEF Uring!HandleSend
  <2> QED
    BY <2>1, <2>2, HandlePeerKeeps, Zenon
<1> QED
  BY <1>1, <1>2, <1>3, <1>4, <1>5, <1>6, <1>7, HandleAcceptKeeps, Zenon DEF Uring!Next, Uring!Kernel,
    Uring!Handle

\* What holds of every run.
LEMMA UringInvariant == Uring!SafeSpec => []UringInv
  BY UringInitInv, UringNextInv, PTL DEF Uring!SafeSpec

\* The one thing outstanding on a descriptor, and where it is.
LEMMA OneThing ==
  ASSUME UringInv, NEW d, One(d)
  PROVE  \E x : /\ Uring!Outstanding(d) = {x}
                /\ \/ OpsOf(d) = {x[2]} /\ CqOf(d) = {}
                   \/ OpsOf(d) = {} /\ CqOf(d) = {x[2]}
<1>1. Uring!Outstanding(d) = {<<"sq", op>> : op \in {o \in sq : o[2] = d}}
        \cup {<<"kernel", op>> : op \in {o \in inflight : o[2] = d}} \cup {<<"cq", c>> : c \in CqOf(d)}
  BY Zenon DEF Uring!Outstanding, CqOf
<1>2. ASSUME NEW o \in Ops, OpsOf(d) = {o}, CqOf(d) = {}
      PROVE  \E x : Uring!Outstanding(d) = {x} /\ x[2] = o
  <2>1. CASE o \in sq
    <3>1. {p \in sq : p[2] = d} = {o} /\ {p \in inflight : p[2] = d} = {}
      BY <1>2, <2>1, Zenon DEF OpsOf, Ops, UringInv
    <3>2. Uring!Outstanding(d) = {<<"sq", o>>}
      BY <1>1, <1>2, <3>1, Zenon
    <3>3. <<"sq", o>>[2] = o
      BY Zenon
    <3> QED
      BY <3>2, <3>3, Zenon
  <2>2. CASE o \in inflight
    <3>1. {p \in inflight : p[2] = d} = {o} /\ {p \in sq : p[2] = d} = {}
      BY <1>2, <2>2, Zenon DEF OpsOf, Ops, UringInv
    <3>2. Uring!Outstanding(d) = {<<"kernel", o>>}
      BY <1>1, <1>2, <3>1, Zenon
    <3>3. <<"kernel", o>>[2] = o
      BY Zenon
    <3> QED
      BY <3>2, <3>3, Zenon
  <2> QED
    BY <1>2, <2>1, <2>2, Zenon DEF Ops
<1>3. ASSUME NEW c \in cq, OpsOf(d) = {}, CqOf(d) = {c}
      PROVE  \E x : Uring!Outstanding(d) = {x} /\ x[2] = c
  <2>1. {p \in inflight : p[2] = d} = {} /\ {p \in sq : p[2] = d} = {}
    BY <1>3, Zenon DEF OpsOf, Ops
  <2>2. Uring!Outstanding(d) = {<<"cq", c>>}
    BY <1>1, <1>3, <2>1, Zenon
  <2>3. <<"cq", c>>[2] = c
    BY Zenon
  <2> QED
    BY <2>2, <2>3, Zenon
<1> QED
  BY <1>2, <1>3, Zenon DEF One

\* The instance counts as the library does.
LEMMA SameCount == \A S : Uring!Cardinality(S) = Cardinality(S)
  BY Zenon DEF Cardinality, Uring!Cardinality

\* Nothing is outstanding on an idle descriptor.
LEMMA Nothing == ASSUME NEW d, Idle(d) PROVE Uring!Outstanding(d) = {}
  BY Zenon DEF Uring!Outstanding, Idle, OpsOf, CqOf, Ops

\* The invariant says where the one thing outstanding on a descriptor is.
LEMMA InvOneOutstanding == UringInv => Uring!OneOutstanding
<1> SUFFICES ASSUME UringInv PROVE Uring!OneOutstanding
  BY Zenon
<1>1. ASSUME NEW d, One(d) PROVE Uring!Cardinality(Uring!Outstanding(d)) = 1
  BY <1>1, OneThing, FS_Singleton, SameCount, Zenon
<1> QED
  BY <1>1, Nothing, Zenon DEF UringInv, Uring!OneOutstanding

\* A completion is never stale, a buffer never shared and accept_addr never overwritten
\* too early, for every queue depth and every order of completions.
THEOREM NothingStale == Uring!SafeSpec => []Uring!OneOutstanding
  BY InvOneOutstanding, UringInvariant, PTL

-----------------------------------------------------------------------------
\* The loop's side of the contract with peer_state.c.

\* Operations are on the listener or on peers, and a descriptor only comes with a
\* successful accept.
FieldsInv ==
  /\ \A o \in Ops : o = Uring!Accept \/ \E fd \in FD : o \in {Uring!Recv(fd), Uring!Send(fd)}
  /\ \A c \in cq : c[1] = "accept" /\ c[4] \in Uring!Number => c = <<"accept", Listener, "ok", c[4]>>

\* The kind of the one thing outstanding on a peer that was told a status.
Named(fd, n) == (\E o \in OpsOf(fd) : o[1] = n) \/ (\E c \in CqOf(fd) : c[1] = n)
Kind(fd) == IF Named(fd, "recv") THEN "recv" ELSE IF Named(fd, "send") THEN "send" ELSE "none"

\* A send is only outstanding for a peer that has output.
Staged == \A fd \in FD : Kind(fd) = "send" => fd \in pending

\* arm_next queues a send iff it was told to write and has output.
LEMMA ArmKind ==
  ASSUME NEW q, NEW k, NEW fd, NEW status, NEW staged, Uring!arm_next(<<q, k>>, fd, status, staged),
         status # Uring!NORW
  PROVE  /\ sq' \cup inflight' =
              q \cup k \cup {IF status = Uring!W /\ fd \in staged THEN Uring!Send(fd) ELSE Uring!Recv(fd)}
         /\ pending' = staged
<1> DEFINE op == IF status = Uring!W /\ fd \in staged THEN Uring!Send(fd) ELSE Uring!Recv(fd)
<1>1. Uring!SetRing(Uring!get_sqe(<<q, k>>, op)) /\ pending' = staged
  BY Zenon DEF Uring!arm_next, Uring!queue_send, Uring!queue_recv
<1> HIDE DEF op
<1> DEFINE r == Uring!get_sqe(<<q, k>>, op)
<1>2. r[1] \cup r[2] = q \cup k \cup {op}
  BY GetSqe, Zenon
<1>3. sq' = r[1] /\ inflight' = r[2]
  BY <1>1, Zenon DEF Uring!SetRing
<1> HIDE DEF r
<1>4. sq' \cup inflight' = q \cup k \cup {op}
  BY <1>2, <1>3, Zenon
<1> QED
  BY <1>1, <1>4, Zenon DEF op

\* A step that touches nothing on d leaves its kind.
LEMMA SameKind ==
  ASSUME NEW d,
         \A o : o[2] = d => (o \in Ops' <=> o \in Ops),
         \A c : c[2] = d \/ c[4] = d => (c \in cq' <=> c \in cq)
  PROVE  Kind(d)' = Kind(d)
<1>1. OpsOf(d)' = OpsOf(d)
  BY Zenon DEF OpsOf
<1>2. CqOf(d)' = CqOf(d)
  BY Zenon DEF CqOf
<1>3. \A n : Named(d, n)' <=> Named(d, n)
  BY <1>1, <1>2, Zenon DEF Named
<1> QED
  BY <1>3, Zenon DEF Kind

\* What a handler does to the kind of one peer and to what it has staged.
UringPeerStep(fd) ==
  /\ \A d \in FD \ {fd} : Kind(d)' = Kind(d)
  /\ \/ Kind(fd)' = Kind(fd) /\ pending' = pending
     \/ Kind(fd) # "none" /\ Kind(fd)' = "none" /\ pending' = pending
     \/ Kind(fd) = "none" /\ Kind(fd)' = "send" /\ pending' = pending \cup {fd}
     \/ Kind(fd) = "recv" /\ Kind(fd)' = "send" /\ pending' = pending \cup {fd}
     \/ Kind(fd) = "send" /\ Kind(fd)' = "recv" /\ pending' = pending \ {fd}

Stutter == (\A d \in FD : Kind(d)' = Kind(d)) /\ pending' = pending

\* A completion of an operation is of its kind.
LEMMA PostView ==
  ASSUME UringInv, NEW fd \in FD, NEW op \in {Uring!Recv(fd), Uring!Send(fd)}, op \in inflight,
         NEW res, Uring!Post(op, res), pending' = pending
  PROVE  Stutter
<1>0. op[2] = fd /\ op[1] \in {"recv", "send"} /\ fd \in Uring!Number
  BY OpFields, Zenon DEF Uring!Number
<1>1. One(fd) /\ op \in OpsOf(fd)
  <2>1. op \in OpsOf(fd)
    BY <1>0, Zenon DEF OpsOf, Ops
  <2> QED
    BY <1>0, <2>1, Zenon DEF UringInv, Idle
<1> DEFINE c == <<op[1], op[2], res, fd>>
<1>2. Ops' = Ops \ {op} /\ cq' = cq \cup {c}
  BY <1>0, <1>1, Posted, Zenon DEF Uring!Post
<1>3. c[1] = op[1] /\ c[2] = fd /\ c[4] = fd
  BY <1>0, Zenon
<1> HIDE DEF c
<1>4. OpsOf(fd) = {op} /\ CqOf(fd) = {}
  BY <1>1, Zenon DEF One
<1>5. OpsOf(fd)' = {} /\ CqOf(fd)' = {c}
  <2>1. \A o \in Ops : o[2] = fd => o = op
    BY <1>4, Zenon DEF OpsOf
  <2>2. \A x \in cq : ~(x[2] = fd \/ x[4] = fd)
    BY <1>4, Zenon DEF CqOf
  <2>3. OpsOf(fd)' = {}
    BY <1>2, <2>1, Zenon DEF OpsOf
  <2>4. CqOf(fd)' = {c}
    BY <1>2, <1>3, <2>2, Zenon DEF CqOf
  <2> QED
    BY <2>3, <2>4, Zenon
<1>6. \A n : Named(fd, n)' <=> Named(fd, n)
  BY <1>3, <1>4, <1>5, Zenon DEF Named
<1>7. Kind(fd)' = Kind(fd)
  BY <1>6, Zenon DEF Kind
<1>8. \A d \in FD \ {fd} : Kind(d)' = Kind(d)
  BY <1>0, <1>2, <1>3, SameKind, Zenon
<1> QED
  BY <1>7, <1>8, Zenon DEF Stutter

\* An accept completes: its descriptor is not served yet.
LEMMA PostAcceptView ==
  ASSUME UringInv, Uring!Accept \in inflight, NEW res, NEW fd \in (Uring!Number \ open) \cup {Listener},
         Uring!PostFor(Uring!Accept, res, fd), pending' = pending
  PROVE  Stutter
<1> DEFINE c == <<Uring!Accept[1], Uring!Accept[2], res, fd>>
<1>1. Ops' = Ops \ {Uring!Accept} /\ cq' = cq \cup {c}
  BY OpFields, Posted, Zenon DEF UringInv
<1>2. c[1] = "accept" /\ c[2] = Listener /\ c[4] = fd
  BY OpFields, Zenon
<1> HIDE DEF c
<1>3. \A d \in FD : d # fd => Kind(d)' = Kind(d)
  <2>1. \A d \in FD : d # Listener
    BY ListenerNoPeer, Zenon DEF Uring!Number
  <2> QED
    BY <1>1, <1>2, <2>1, OpFields, SameKind, Zenon
<1>4. ASSUME fd \in FD PROVE Kind(fd)' = Kind(fd)
  <2>1. OpsOf(fd) = {} /\ CqOf(fd) = {} /\ fd # Listener
    BY <1>4, ListenerNoPeer, Zenon DEF UringInv, Idle, Uring!Number
  <2>2. OpsOf(fd)' = {}
    BY <1>1, <2>1, Zenon DEF OpsOf
  <2>3. CqOf(fd)' = {c}
    BY <1>1, <1>2, <2>1, Zenon DEF CqOf
  <2>4. Kind(fd) = "none"
    BY <2>1, Zenon DEF Kind, Named
  <2>5. Kind(fd)' = "none"
    BY <1>2, <2>2, <2>3, Zenon DEF Kind, Named
  <2> QED
    BY <2>4, <2>5, Zenon
<1> QED
  BY <1>3, <1>4, Zenon DEF Stutter

\* Handling a peer's completion replaces it by what arm_next queues, if anything.
LEMMA HandlePeerView ==
  ASSUME UringInv, NEW fd \in FD, NEW c \in cq, c[2] = fd, c[4] = fd, c[1] \in {"recv", "send"},
         cq' = cq \ {c}, NEW status, NEW staged, Uring!arm_next(Uring!Ring, fd, status, staged)
  PROVE  /\ \A d \in FD \ {fd} : Kind(d)' = Kind(d)
         /\ Kind(fd) = c[1] /\ pending' = staged
         /\ Kind(fd)' = IF status = Uring!NORW THEN "none"
                        ELSE IF status = Uring!W /\ fd \in staged THEN "send" ELSE "recv"
<1>1. One(fd)
  <2>1. c \in CqOf(fd)
    BY Zenon DEF CqOf
  <2> QED
    BY <2>1, Zenon DEF UringInv, Idle, Uring!Number
<1>2. OpsOf(fd) = {} /\ CqOf(fd) = {c} /\ CqOf(fd)' = {}
  BY <1>1, Rearmed, Zenon
<1>3. Kind(fd) = c[1]
  BY <1>2, Zenon DEF Kind, Named
<1>4. pending' = staged
  BY Zenon DEF Uring!arm_next
<1>5. CASE status = Uring!NORW
  <2>1. Ops' = Ops
    BY <1>5, ArmNext, Zenon DEF Uring!Ring, Ops
  <2>2. OpsOf(fd)' = {}
    BY <1>2, <2>1, Zenon DEF OpsOf
  <2>3. Kind(fd)' = "none"
    BY <1>2, <2>2, Zenon DEF Kind, Named
  <2>4. \A d \in FD \ {fd} : Kind(d)' = Kind(d)
    BY <2>1, SameKind, Zenon
  <2> QED
    BY <1>3, <1>4, <1>5, <2>3, <2>4, Zenon
<1>6. CASE status # Uring!NORW
  <2> DEFINE op == IF status = Uring!W /\ fd \in staged THEN Uring!Send(fd) ELSE Uring!Recv(fd)
  <2>1. Ops' = Ops \cup {op}
    BY <1>6, ArmKind DEF Uring!Ring, Ops
  <2>2. op[2] = fd /\ op[1] = IF status = Uring!W /\ fd \in staged THEN "send" ELSE "recv"
    BY OpFields, Zenon
  <2> HIDE DEF op
  <2>3. OpsOf(fd)' = {op}
    BY <1>2, <2>1, <2>2, Zenon DEF OpsOf
  <2>4. Kind(fd)' = op[1]
    BY <1>2, <2>2, <2>3, Zenon DEF Kind, Named
  <2>5. \A d \in FD \ {fd} : Kind(d)' = Kind(d)
    BY <2>1, <2>2, SameKind, Zenon
  <2> QED
    BY <1>3, <1>4, <1>6, <2>2, <2>4, <2>5, Zenon
<1> QED
  BY <1>5, <1>6, Zenon

\* Handling an accept gives the peer its first send, or concerns no peer.
LEMMA HandleAcceptView ==
  ASSUME UringInv, NEW c \in cq, Uring!HandleAccept(c)
  PROVE  Stutter \/ \E fd \in FD : UringPeerStep(fd)
<1> DEFINE r == Uring!get_sqe(<<sq, inflight>>, Uring!Accept)
<1>1. PICK fd \in Uring!Number \cup {Listener} :
        c[1] = "accept" /\ c[2] = Listener /\ c[4] = fd /\ cq' = cq \ {c}
  BY Zenon DEF UringInv, Completion, Uring!HandleAccept, Uring!Take
<1>2. r = <<r[1], r[2]>> /\ r[1] \cup r[2] = Ops \cup {Uring!Accept}
  BY GetSqe DEF Ops
<1>3. Uring!queue_accept(Uring!Ring) = r
  BY Zenon DEF Uring!queue_accept, Uring!Ring
<1>4. \A d \in FD : d # Listener
  BY ListenerNoPeer, Zenon DEF Uring!Number
<1> HIDE DEF r
<1>5. CASE fd \in FD
  <2>1. Uring!arm_next(<<r[1], r[2]>>, fd, Uring!W, pending \cup {fd})
    BY <1>1, <1>2, <1>3, <1>5, Zenon DEF Uring!HandleAccept
  <2>2. Uring!W # Uring!NORW
    BY Zenon DEF Uring!W, Uring!NORW
  <2>3. Ops' = Ops \cup {Uring!Accept, Uring!Send(fd)} /\ pending' = pending \cup {fd}
    BY <1>2, <2>1, <2>2, ArmKind DEF Ops
  <2>4. One(fd)
    <3>1. c \in CqOf(fd)
      BY <1>1, Zenon DEF CqOf
    <3> QED
      BY <1>5, <3>1, Zenon DEF UringInv, Idle, Uring!Number
  <2>5. OpsOf(fd) = {} /\ CqOf(fd) = {c} /\ CqOf(fd)' = {}
    BY <1>1, <2>4, Rearmed, Zenon
  <2>6. Kind(fd) = "none"
    BY <1>1, <2>5, Zenon DEF Kind, Named
  <2>7. OpsOf(fd)' = {Uring!Send(fd)}
    BY <1>4, <1>5, <2>3, <2>5, OpFields, Zenon DEF OpsOf
  <2>8. Kind(fd)' = "send"
    BY <2>5, <2>7, OpFields, Zenon DEF Kind, Named
  <2>9. \A d \in FD \ {fd} : Kind(d)' = Kind(d)
    BY <1>1, <1>4, <2>3, OpFields, SameKind
  <2> QED
    BY <1>5, <2>3, <2>6, <2>8, <2>9, Zenon DEF UringPeerStep
<1>6. CASE fd \notin FD
  <2>1. Ops' = Ops \cup {Uring!Accept} /\ pending' = pending
    BY <1>1, <1>2, <1>3, <1>6, Zenon DEF Uring!HandleAccept, Uring!SetRing, Ops
  <2>2. \A d \in FD : Kind(d)' = Kind(d)
    BY <1>1, <1>4, <1>6, <2>1, OpFields, SameKind
  <2> QED
    BY <2>1, <2>2, Zenon DEF Stutter
<1> QED
  BY <1>5, <1>6, Zenon

\* Every step changes the kind of at most one peer, in one of five ways.
LEMMA NextView ==
  UringInv /\ Staged /\ [Uring!Next]_(Uring!vars) => Stutter \/ \E fd \in FD : UringPeerStep(fd)
<1> SUFFICES ASSUME UringInv, Staged, [Uring!Next]_(Uring!vars) PROVE Stutter \/ \E fd \in FD : UringPeerStep(fd)
  BY Zenon
<1>0. Uring!R # Uring!NORW /\ Uring!W # Uring!NORW /\ Uring!R # Uring!W
  BY Zenon DEF Uring!R, Uring!W, Uring!NORW
<1>1. CASE Uring!ClientStep \/ Uring!DrainDone \/ Uring!Submit \/ UNCHANGED Uring!vars
  <2>1. Ops' = Ops /\ cq' = cq /\ pending' = pending
    BY <1>1, Zenon DEF Uring!ClientStep, Uring!Clients, Uring!ClientConnects, Uring!ClientSends,
       Uring!ClientLeaves, Uring!DrainDone,
       Uring!Submit, Uring!vars, Uring!ring, Uring!sockets, Ops
  <2> QED
    BY <2>1, SameKind, Zenon DEF Stutter
<1>2. CASE Uring!KernelAcceptFails
  BY <1>2, OpFields, PostAcceptView, Zenon DEF Uring!KernelAcceptFails, Uring!Post
<1>3. ASSUME NEW fd \in Uring!Number, Uring!KernelAccepts(fd) PROVE Stutter
  <2>1. fd \in Uring!Number \ open
    BY <1>3, Zenon DEF Uring!KernelAccepts, Uring!accept, Uring!Acceptable
  <2> QED
    BY <1>3, <2>1, PostAcceptView, Zenon DEF Uring!KernelAccepts
<1>4. ASSUME NEW fd \in FD, Uring!KernelReceives(fd) \/ Uring!KernelEof(fd) \/ Uring!KernelSends(fd)
               \/ Uring!KernelFails(Uring!Recv(fd)) \/ Uring!KernelFails(Uring!Send(fd))
      PROVE  Stutter
  <2>1. PICK op \in {Uring!Recv(fd), Uring!Send(fd)} :
          op \in inflight /\ pending' = pending /\ \E res : Uring!Post(op, res)
    BY <1>4, Zenon DEF Uring!KernelReceives, Uring!KernelEof, Uring!KernelSends, Uring!KernelFails,
      Uring!sockets
  <2> QED
    BY <2>1, PostView, Zenon
<1>5. ASSUME NEW c \in cq, Uring!HandleRecv(c) PROVE \E fd \in FD : UringPeerStep(fd)
  <2>1. PICK fd \in FD : c[2] = fd /\ c[4] = fd /\ c[1] = "recv" /\ cq' = cq \ {c}
    BY <1>5, Zenon DEF Uring!HandleRecv, Uring!Take, UringInv, Completion
  <2>2. c[3] \in {"again", "error", "eof", "data"}
    BY <2>1, Zenon DEF UringInv, Completion, ResultsOf
  <2>3. \/ \E status \in {Uring!R, Uring!NORW} : Uring!arm_next(Uring!Ring, fd, status, pending)
        \/ Uring!arm_next(Uring!Ring, fd, Uring!W, pending \cup {fd})
    BY <1>5, <2>1, <2>2, Zenon DEF Uring!HandleRecv
  <2>4. CASE Uring!arm_next(Uring!Ring, fd, Uring!W, pending \cup {fd})
    BY <1>0, <2>1, <2>4, HandlePeerView DEF UringPeerStep
  <2>5. ASSUME NEW status \in {Uring!R, Uring!NORW}, Uring!arm_next(Uring!Ring, fd, status, pending)
        PROVE  UringPeerStep(fd)
    BY <1>0, <2>1, <2>5, HandlePeerView, Zenon DEF UringPeerStep
  <2> QED
    BY <2>3, <2>4, <2>5, Zenon
<1>6. ASSUME NEW c \in cq, Uring!HandleSend(c) PROVE \E fd \in FD : UringPeerStep(fd)
  <2>1. PICK fd \in FD : c[2] = fd /\ c[4] = fd /\ c[1] = "send" /\ cq' = cq \ {c}
    BY <1>6, Zenon DEF Uring!HandleSend, Uring!Take, UringInv, Completion
  <2>2. c[3] \in {"again", "error", "some", "all"}
    BY <2>1, Zenon DEF UringInv, Completion, ResultsOf
  <2>3. \/ \E status \in {Uring!W, Uring!NORW} : Uring!arm_next(Uring!Ring, fd, status, pending)
        \/ Uring!arm_next(Uring!Ring, fd, Uring!R, pending \ {fd})
    BY <1>6, <2>1, <2>2, Zenon DEF Uring!HandleSend
  <2>4. CASE Uring!arm_next(Uring!Ring, fd, Uring!R, pending \ {fd})
    BY <1>0, <2>1, <2>4, HandlePeerView, Zenon DEF UringPeerStep
  <2>5. ASSUME NEW status \in {Uring!W, Uring!NORW}, Uring!arm_next(Uring!Ring, fd, status, pending)
        PROVE  UringPeerStep(fd)
    BY <1>0, <2>1, <2>5, HandlePeerView, Zenon DEF UringPeerStep, Staged
  <2> QED
    BY <2>3, <2>4, <2>5, Zenon
<1> QED
  BY <1>1, <1>2, <1>3, <1>4, <1>5, <1>6, HandleAcceptView, Zenon DEF Uring!Next, Uring!Kernel,
    Uring!Handle

\* What is queued stays typed, and a descriptor only comes with a successful accept.
LEMMA FieldsNext == UringInv /\ FieldsInv /\ [Uring!Next]_(Uring!vars) => FieldsInv'
<1> SUFFICES ASSUME UringInv, FieldsInv, [Uring!Next]_(Uring!vars) PROVE FieldsInv'
  BY Zenon
<1> DEFINE Typed(o) == o = Uring!Accept \/ \E fd \in FD : o \in {Uring!Recv(fd), Uring!Send(fd)}
           Fine(c) == c[1] = "accept" /\ c[4] \in Uring!Number => c = <<"accept", Listener, "ok", c[4]>>
<1>0. ASSUME \A o \in Ops' : o \in Ops \/ Typed(o), \A c \in cq' : c \in cq \/ Fine(c)
      PROVE  FieldsInv'
  BY <1>0, Zenon DEF FieldsInv
<1>1. CASE Uring!ClientStep \/ Uring!DrainDone \/ Uring!Submit \/ UNCHANGED Uring!vars
  <2>1. Ops' = Ops /\ cq' = cq
    BY <1>1, Zenon DEF Uring!ClientStep, Uring!DrainDone, Uring!Submit, Uring!vars, Uring!ring, Ops
  <2> QED
    BY <1>0, <2>1, Zenon
<1>2. CASE Uring!KernelAcceptFails
  <2>1. Ops' \subseteq Ops /\ cq' = cq \cup {<<"accept", Listener, "error", Listener>>}
    BY <1>2, Zenon DEF Uring!KernelAcceptFails, Uring!Post, Uring!PostFor, Ops, Uring!Accept
  <2>2. Fine(<<"accept", Listener, "error", Listener>>)
    BY ListenerNoPeer, Zenon
  <2> HIDE DEF Fine, Typed
  <2> QED
    BY <1>0, <2>1, <2>2, Zenon
<1>3. ASSUME NEW fd \in Uring!Number, Uring!KernelAccepts(fd) PROVE FieldsInv'
  <2>1. Ops' \subseteq Ops /\ cq' = cq \cup {<<"accept", Listener, "ok", fd>>}
    BY <1>3, Zenon DEF Uring!KernelAccepts, Uring!PostFor, Ops, Uring!Accept
  <2>2. Fine(<<"accept", Listener, "ok", fd>>)
    BY Zenon
  <2> HIDE DEF Fine, Typed
  <2> QED
    BY <1>0, <2>1, <2>2, Zenon
<1>4. ASSUME NEW fd \in FD, Uring!KernelReceives(fd) \/ Uring!KernelEof(fd) \/ Uring!KernelSends(fd)
               \/ Uring!KernelFails(Uring!Recv(fd)) \/ Uring!KernelFails(Uring!Send(fd))
      PROVE  FieldsInv'
  <2>1. PICK op \in {Uring!Recv(fd), Uring!Send(fd)} : \E res : Uring!Post(op, res)
    BY <1>4, Zenon DEF Uring!KernelReceives, Uring!KernelEof, Uring!KernelSends, Uring!KernelFails
  <2>2. PICK res : Uring!Post(op, res)
    BY <2>1, Zenon
  <2>3. Ops' \subseteq Ops /\ cq' = cq \cup {<<op[1], op[2], res, op[2]>>}
    BY <2>2, Zenon DEF Uring!Post, Uring!PostFor, Ops
  <2>4. Fine(<<op[1], op[2], res, op[2]>>)
    <3>1. op[1] # "accept"
      BY OpFields, Zenon
    <3> QED
      BY <3>1, Zenon
  <2> HIDE DEF Fine, Typed
  <2> QED
    BY <1>0, <2>3, <2>4, Zenon
<1>5. ASSUME NEW c \in cq, NEW q, NEW k, NEW fd \in FD, NEW status, NEW staged,
             Uring!arm_next(<<q, k>>, fd, status, staged), cq' = cq \ {c},
             \A o \in q \cup k : o \in Ops \/ Typed(o)
      PROVE  FieldsInv'
  <2>1. CASE status = Uring!NORW
    <3>1. Ops' = q \cup k
      BY <1>5, <2>1, ArmNext, Zenon DEF Ops
    <3> QED
      BY <1>0, <1>5, <3>1, Zenon
  <2>2. CASE status # Uring!NORW
    <3>1. PICK op \in {Uring!Recv(fd), Uring!Send(fd)} : sq' \cup inflight' = q \cup k \cup {op}
      BY <1>5, <2>2, ArmNext
    <3>2. Typed(op) /\ Ops' = q \cup k \cup {op}
      BY <3>1, Zenon DEF Ops
    <3> HIDE DEF Fine, Typed
    <3> QED
      BY <1>0, <1>5, <3>2, Zenon
  <2> QED
    BY <2>1, <2>2, Zenon
<1>6. ASSUME NEW c \in cq, Uring!HandleRecv(c) PROVE FieldsInv'
  <2>1. c[2] \in FD /\ cq' = cq \ {c} /\ c[3] \in {"again", "error", "eof", "data"}
    BY <1>6, Zenon DEF Uring!HandleRecv, Uring!Take, UringInv, Completion, ResultsOf
  <2>2. \E status, staged : Uring!arm_next(<<sq, inflight>>, c[2], status, staged)
    BY <1>6, <2>1, Zenon DEF Uring!HandleRecv, Uring!Ring
  <2> QED
    BY <1>5, <2>1, <2>2, Zenon DEF Ops
<1>7. ASSUME NEW c \in cq, Uring!HandleSend(c) PROVE FieldsInv'
  <2>1. c[2] \in FD /\ cq' = cq \ {c} /\ c[3] \in {"again", "error", "some", "all"}
    BY <1>7, Zenon DEF Uring!HandleSend, Uring!Take, UringInv, Completion, ResultsOf
  <2>2. \E status, staged : Uring!arm_next(<<sq, inflight>>, c[2], status, staged)
    BY <1>7, <2>1, Zenon DEF Uring!HandleSend, Uring!Ring
  <2> QED
    BY <1>5, <2>1, <2>2, Zenon DEF Ops
<1>8. ASSUME NEW c \in cq, Uring!HandleAccept(c) PROVE FieldsInv'
  <2> DEFINE r == Uring!get_sqe(<<sq, inflight>>, Uring!Accept)
  <2>1. r = <<r[1], r[2]>> /\ r[1] \cup r[2] = Ops \cup {Uring!Accept}
    BY GetSqe DEF Ops
  <2>2. Uring!queue_accept(Uring!Ring) = r /\ cq' = cq \ {c}
    BY <1>8, Zenon DEF Uring!queue_accept, Uring!Ring, Uring!HandleAccept, Uring!Take
  <2>3. \A o \in r[1] \cup r[2] : o \in Ops \/ Typed(o)
    BY <2>1, Zenon
  <2> HIDE DEF r
  <2>4. CASE c[4] \in FD
    <3>1. Uring!arm_next(<<r[1], r[2]>>, c[4], Uring!W, pending \cup {c[4]})
      BY <1>8, <2>1, <2>2, <2>4, Zenon DEF Uring!HandleAccept
    <3> HIDE DEF Typed
    <3> QED
      BY <1>5, <2>2, <2>3, <2>4, <3>1, Zenon
  <2>5. CASE c[4] \notin FD
    <3>1. Ops' = r[1] \cup r[2]
      BY <1>8, <2>2, <2>5, Zenon DEF Uring!HandleAccept, Uring!SetRing, Ops
    <3> QED
      BY <1>0, <2>2, <2>3, <3>1, Zenon
  <2> QED
    BY <2>4, <2>5, Zenon
<1> QED
  BY <1>1, <1>2, <1>3, <1>4, <1>6, <1>7, <1>8, Zenon DEF Uring!Next, Uring!Kernel, Uring!Handle

\* The contract's view of a peer is the kind of what is outstanding on it.
WantOf(kind) == CASE kind = "recv" -> Uring!R [] kind = "send" -> Uring!W [] kind = "none" -> Uring!NORW

ViewInv ==
  \A fd \in FD : (fd \in Uring!Served <=> Kind(fd) # "none") /\ Uring!Interest[fd] = WantOf(Kind(fd))

\* It is so because at most one thing is outstanding on each peer.
LEMMA ViewIs == UringInv /\ FieldsInv => ViewInv
<1> SUFFICES ASSUME UringInv, FieldsInv, NEW fd \in FD
             PROVE  (fd \in Uring!Served <=> Kind(fd) # "none") /\ Uring!Interest[fd] = WantOf(Kind(fd))
  BY Zenon DEF ViewInv
<1>0. fd \in Uring!Number /\ fd # Listener
  BY ListenerNoPeer, Zenon DEF Uring!Number
<1> DEFINE Told == {y \in Uring!Outstanding(fd) : y[2][1] # "accept"}
<1>1. Uring!Interest[fd] = UNION {IF x[2][1] = "recv" THEN Uring!R ELSE Uring!W : x \in Told}
  BY Zenon DEF Uring!Interest
<1>2. CASE fd \notin open
  <2>1. Idle(fd)
    BY <1>0, <1>2, Zenon DEF UringInv
  <2>2. Kind(fd) = "none"
    BY <2>1, Zenon DEF Kind, Named, Idle
  <2>3. Told = {}
    BY <2>1, Nothing, Zenon
  <2>4. Uring!Interest[fd] = {}
    BY <1>1, <2>3, Zenon
  <2> QED
    BY <1>2, <2>2, <2>4, Zenon DEF Uring!Served, WantOf, Uring!NORW
<1>3. CASE fd \in open
  <2>1. PICK x : /\ Uring!Outstanding(fd) = {x}
                 /\ \/ OpsOf(fd) = {x[2]} /\ CqOf(fd) = {}
                    \/ OpsOf(fd) = {} /\ CqOf(fd) = {x[2]}
    BY <1>3, OneThing, Zenon DEF UringInv
  <2>2. ASSUME x[2][1] \in {"recv", "send"}, <<"accept", Listener, "ok", fd>> \notin cq
        PROVE  (fd \in Uring!Served <=> Kind(fd) # "none") /\ Uring!Interest[fd] = WantOf(Kind(fd))
    <3>1. Kind(fd) = x[2][1]
      BY <2>1, <2>2, Zenon DEF Kind, Named
    <3>2. Told = {x}
      BY <2>1, <2>2, Zenon
    <3>3. Uring!Interest[fd] = IF x[2][1] = "recv" THEN Uring!R ELSE Uring!W
      BY <1>1, <3>2
    <3> QED
      BY <1>3, <2>2, <3>1, <3>3, Zenon DEF Uring!Served, WantOf
  <2>3. CASE OpsOf(fd) = {x[2]} /\ CqOf(fd) = {}
    <3>1. x[2] \in Ops /\ x[2][2] = fd
      BY <2>3, Zenon DEF OpsOf
    <3>2. x[2][1] \in {"recv", "send"}
      BY <1>0, <3>1, OpFields, Zenon DEF FieldsInv
    <3>3. <<"accept", Listener, "ok", fd>> \notin cq
      BY <2>3 DEF CqOf
    <3> QED
      BY <2>2, <3>2, <3>3, Zenon
  <2>4. CASE OpsOf(fd) = {} /\ CqOf(fd) = {x[2]}
    <3>1. x[2] \in cq /\ (x[2][2] = fd \/ x[2][4] = fd)
      BY <2>4, Zenon DEF CqOf
    <3>2. CASE x[2][1] = "accept"
      <4>1. x[2] = <<"accept", Listener, "ok", fd>>
        BY <1>0, <3>1, <3>2, Zenon DEF FieldsInv, UringInv, Completion
      <4>2. fd \notin Uring!Served
        BY <3>1, <4>1, Zenon DEF Uring!Served
      <4>3. Told = {}
        BY <2>1, <3>2, Zenon
      <4>4. Uring!Interest[fd] = {}
        BY <1>1, <4>3, Zenon
      <4>5. Kind(fd) = "none"
        BY <2>4, <3>2, Zenon DEF Kind, Named
      <4> QED
        BY <4>2, <4>4, <4>5, Zenon DEF WantOf, Uring!NORW
    <3>3. CASE x[2][1] # "accept"
      <4>1. x[2][1] \in {"recv", "send"}
        BY <3>1, <3>3, Zenon DEF UringInv, Completion
      <4>2. <<"accept", Listener, "ok", fd>> \notin cq
        <5>1. ASSUME <<"accept", Listener, "ok", fd>> \in cq PROVE FALSE
          <6>1. <<"accept", Listener, "ok", fd>> \in CqOf(fd)
            BY <5>1, Zenon DEF CqOf
          <6> QED
            BY <2>4, <3>3, <6>1
        <5> QED
          BY <5>1, Zenon
      <4> QED
        BY <2>2, <4>1, <4>2, Zenon
    <3> QED
      BY <3>2, <3>3, Zenon
  <2> QED
    BY <2>1, <2>3, <2>4, Zenon
<1> QED
  BY <1>2, <1>3, Zenon

\* Such a step is a step of the contract.
LEMMA ViewStep ==
  ASSUME ViewInv, ViewInv', Stutter \/ \E fd \in FD : UringPeerStep(fd)
  PROVE  [Uring!Contract!Next]_(Uring!Contract!vars)
<1>1. /\ \A fd \in FD : (fd \in Uring!Served <=> Kind(fd) # "none") /\ Uring!Interest[fd] = WantOf(Kind(fd))
      /\ \A fd \in FD : (fd \in Uring!Served' <=> Kind(fd)' # "none") /\ Uring!Interest'[fd] = WantOf(Kind(fd)')
  BY Zenon DEF ViewInv
<1>2. /\ Uring!Interest = [fd \in FD |-> Uring!Interest[fd]] /\ Uring!Interest' = [fd \in FD |-> Uring!Interest'[fd]]
      /\ Uring!Served \subseteq FD /\ Uring!Served' \subseteq FD
  BY Zenon DEF Uring!Interest, Uring!Served
<1>3. /\ WantOf("recv") = Uring!Contract!R /\ WantOf("send") = Uring!Contract!W
      /\ WantOf("none") = Uring!Contract!NORW
  BY Zenon DEF WantOf, Uring!Contract!R, Uring!Contract!W, Uring!Contract!NORW, Uring!R, Uring!W,
    Uring!NORW
<1> HIDE DEF Uring!Interest, Uring!Served, Kind, WantOf
<1>4. CASE Stutter
  <2>1. Uring!Interest' = Uring!Interest /\ Uring!Served' = Uring!Served /\ pending' = pending
    BY <1>1, <1>2, <1>4, Zenon DEF Stutter
  <2> QED
    BY <2>1, Zenon DEF Uring!Contract!vars
<1>5. ASSUME NEW fd \in FD, UringPeerStep(fd) PROVE [Uring!Contract!Next]_(Uring!Contract!vars)
  <2>1. Uring!Interest' = [Uring!Interest EXCEPT ![fd] = WantOf(Kind(fd)')]
    BY <1>1, <1>2, <1>5, Zenon DEF UringPeerStep
  <2>2. \A d \in FD \ {fd} : d \in Uring!Served' <=> d \in Uring!Served
    BY <1>1, <1>5, Zenon DEF UringPeerStep
  <2>3. CASE Kind(fd)' = Kind(fd) /\ pending' = pending
    <3>1. Uring!Interest' = Uring!Interest /\ Uring!Served' = Uring!Served
      BY <1>1, <1>2, <2>1, <2>2, <2>3, Zenon
    <3> QED
      BY <2>3, <3>1, Zenon DEF Uring!Contract!vars
  <2>4. CASE Kind(fd) # "none" /\ Kind(fd)' = "none" /\ pending' = pending
    <3>1. fd \in Uring!Served /\ Uring!Served' = Uring!Served \ {fd}
      BY <1>1, <1>2, <2>2, <2>4, Zenon
    <3>2. Uring!Contract!Closed(fd)
      BY <1>3, <2>1, <2>4, <3>1, Zenon DEF Uring!Contract!Closed
    <3> QED
      BY <3>2, Zenon DEF Uring!Contract!Next
  <2>5. CASE Kind(fd) = "none" /\ Kind(fd)' = "send" /\ pending' = pending \cup {fd}
    <3>1. fd \notin Uring!Served /\ Uring!Served' = Uring!Served \cup {fd}
      BY <1>1, <1>2, <2>2, <2>5, Zenon
    <3>2. Uring!Contract!Connected(fd)
      BY <1>3, <2>1, <2>5, <3>1, Zenon DEF Uring!Contract!Connected
    <3> QED
      BY <3>2, Zenon DEF Uring!Contract!Next
  <2>6. CASE Kind(fd) = "recv" /\ Kind(fd)' = "send" /\ pending' = pending \cup {fd}
    <3>1. fd \in Uring!Served /\ Uring!Served' = Uring!Served /\ Uring!Interest[fd] = Uring!Contract!R
      BY <1>1, <1>2, <1>3, <2>2, <2>6, Zenon
    <3>2. Uring!Contract!Staged(fd)
      BY <1>3, <2>1, <2>6, <3>1, Zenon DEF Uring!Contract!Staged
    <3> QED
      BY <3>2, Zenon DEF Uring!Contract!Next
  <2>7. CASE Kind(fd) = "send" /\ Kind(fd)' = "recv" /\ pending' = pending \ {fd}
    <3>1. fd \in Uring!Served /\ Uring!Served' = Uring!Served /\ Uring!Interest[fd] = Uring!Contract!W
      BY <1>1, <1>2, <1>3, <2>2, <2>7, Zenon
    <3>2. Uring!Contract!Drained(fd)
      BY <1>3, <2>1, <2>7, <3>1, Zenon DEF Uring!Contract!Drained
    <3> QED
      BY <3>2, Zenon DEF Uring!Contract!Next
  <2> QED
    BY <1>5, <2>3, <2>4, <2>5, <2>6, <2>7, Zenon DEF UringPeerStep
<1> QED
  BY <1>4, <1>5, Zenon

\* Before the loop starts nothing is outstanding on a peer, as the contract has it.
LEMMA UringInitView == Uring!Init => FieldsInv /\ Staged /\ Uring!Contract!Init
<1> SUFFICES ASSUME Uring!Init PROVE FieldsInv /\ Staged /\ Uring!Contract!Init
  BY Zenon
<1>1. Ops = {Uring!Accept} /\ cq = {} /\ open = {} /\ pending = {}
  BY Zenon DEF Uring!Init, Uring!SocketsInit, Ops
<1>2. \A fd \in FD : Idle(fd)
  BY UringInitInv, <1>1, Zenon DEF UringInv, Uring!Number
<1>3. \A fd \in FD : Kind(fd) = "none"
  BY <1>2, Zenon DEF Kind, Named, Idle
<1>4. FieldsInv /\ Staged
  BY <1>1, <1>3, Zenon DEF FieldsInv, Staged
<1>5. Uring!Served = {} /\ Uring!Interest = [fd \in FD |-> {}]
  <2>1. Uring!Interest = [fd \in FD |-> Uring!Interest[fd]]
    BY Zenon DEF Uring!Interest
  <2>2. \A fd \in FD : Uring!Interest[fd] = {}
    BY <1>3, <1>4, UringInitInv, ViewIs, Zenon DEF ViewInv, WantOf, Uring!NORW
  <2> HIDE DEF Uring!Interest
  <2>3. Uring!Interest = [fd \in FD |-> {}]
    BY <2>1, <2>2, Zenon
  <2> QED
    BY <1>1, <2>3, Zenon DEF Uring!Served
<1> HIDE DEF Uring!Interest, Uring!Served
<1> QED
  BY <1>1, <1>4, <1>5, Zenon DEF Uring!Contract!Init, Uring!Contract!NORW

\* An operation that sends keeps finding output staged.
LEMMA StagedNext == UringInv /\ Staged /\ [Uring!Next]_(Uring!vars) => Staged'
  BY NextView, Zenon DEF Stutter, UringPeerStep, Staged

\* Every step of the loop is a step of the contract, or none.
LEMMA UringStepKeepsContract ==
  UringInv /\ FieldsInv /\ UringInv' /\ FieldsInv' /\ Staged /\ [Uring!Next]_(Uring!vars)
    => [Uring!Contract!Next]_(Uring!Contract!vars)
<1>1. UringInv' /\ FieldsInv' => ViewInv'
  BY ViewIs, PTL
<1> QED
  BY <1>1, ViewIs, NextView, ViewStep, Zenon

\* The loop keeps its side of the contract for every queue depth, every order of
\* completions and every error the kernel reports: arm_next always queues what the
\* status of peer_state.c asked for, and nothing else.
THEOREM UringKeepsContract == Uring!SafeSpec => Uring!KeepsContract
  BY UringInitView, StagedNext, UringStepKeepsContract, FieldsNext, UringInvariant, PTL
     DEF Uring!SafeSpec, Uring!KeepsContract, Uring!Contract!Spec

-----------------------------------------------------------------------------
\* How much can be outstanding.

Fits(q) == IsFiniteSet(q) /\ Cardinality(q) <= Depth

BoundInv == Fits(sq) /\ rlimit \in Nat /\ IsFiniteSet(open) /\ Cardinality(open) <= rlimit

\* get_sqe flushes the queue rather than overfill it.
LEMMA GetSqeFits ==
  ASSUME NEW q, NEW k, NEW op, Fits(q)
  PROVE  LET r == Uring!get_sqe(<<q, k>>, op) IN r = <<r[1], r[2]>> /\ Fits(r[1])
<1>1. Cardinality(q) \in Nat /\ Depth \in Nat /\ Depth > 0
  BY FS_CardinalityType, DepthAssumption DEF Fits
<1>2. CASE Cardinality(q) < Depth
  <2>1. Uring!get_sqe(<<q, k>>, op) = <<q \cup {op}, k>>
    BY <1>2, SameCount, Zenon DEF Uring!get_sqe
  <2>2. IsFiniteSet(q \cup {op}) /\ Cardinality(q \cup {op}) <= Cardinality(q) + 1
    BY <1>1, FS_AddElement DEF Fits
  <2>3. IsFiniteSet(q \cup {op}) /\ Cardinality(q \cup {op}) \in Nat
    BY <2>2, FS_CardinalityType, Zenon
  <2>4. Fits(q \cup {op})
    BY <1>1, <1>2, <2>2, <2>3 DEF Fits
  <2> QED
    BY <2>1, <2>4
<1>3. CASE ~(Cardinality(q) < Depth)
  <2>1. Uring!get_sqe(<<q, k>>, op) = <<{op}, k \cup q>>
    BY <1>3, SameCount, Zenon DEF Uring!get_sqe
  <2>2. IsFiniteSet({op}) /\ Cardinality({op}) = 1
    BY FS_Singleton, Zenon
  <2>3. Fits({op})
    BY <1>1, <2>2 DEF Fits
  <2> QED
    BY <2>1, <2>3
<1> QED
  BY <1>2, <1>3, Zenon

\* arm_next queues one operation at most.
LEMMA ArmFits ==
  ASSUME NEW q, NEW k, NEW fd, NEW status, NEW staged, Fits(q),
         Uring!arm_next(<<q, k>>, fd, status, staged)
  PROVE  Fits(sq') /\ open' \subseteq open
<1>1. open' \subseteq open
  BY Zenon DEF Uring!arm_next
<1>2. CASE status = Uring!NORW
  BY <1>1, <1>2, Zenon DEF Uring!arm_next, Uring!SetRing
<1>3. CASE status # Uring!NORW
  <2>1. PICK op \in {Uring!Recv(fd), Uring!Send(fd)} : Uring!SetRing(Uring!get_sqe(<<q, k>>, op))
    BY <1>3, Zenon DEF Uring!arm_next, Uring!queue_send, Uring!queue_recv
  <2>2. sq' = Uring!get_sqe(<<q, k>>, op)[1]
    BY <2>1, Zenon DEF Uring!SetRing
  <2> QED
    BY <1>1, <2>2, GetSqeFits, Zenon
<1> QED
  BY <1>2, <1>3, Zenon

\* What handling a completion queues and closes.
LEMMA HandleFits ==
  ASSUME BoundInv, NEW c, Completion(c), Uring!Handle(c)
  PROVE  Fits(sq') /\ open' \subseteq open /\ rlimit' = rlimit
<1>1. CASE Uring!HandleAccept(c)
  <2> DEFINE r == Uring!get_sqe(<<sq, inflight>>, Uring!Accept)
  <2>1. r = <<r[1], r[2]>> /\ Fits(r[1])
    BY GetSqeFits, Zenon DEF BoundInv
  <2>2. rlimit' = rlimit
    BY <1>1, Zenon DEF Uring!HandleAccept
  <2>3. \/ Uring!arm_next(r, c[4], Uring!W, pending \cup {c[4]})
        \/ Uring!SetRing(r) /\ open' = open \ {c[4]}
    BY <1>1, Zenon DEF Uring!HandleAccept, Uring!queue_accept, Uring!Ring
  <2> HIDE DEF r
  <2>4. CASE Uring!arm_next(r, c[4], Uring!W, pending \cup {c[4]})
    <3>1. Uring!arm_next(<<r[1], r[2]>>, c[4], Uring!W, pending \cup {c[4]})
      BY <2>1, <2>4, Zenon
    <3> QED
      BY <2>1, <2>2, <3>1, ArmFits, Zenon
  <2>5. CASE Uring!SetRing(r) /\ open' = open \ {c[4]}
    BY <2>1, <2>2, <2>5, Zenon DEF Uring!SetRing
  <2> QED
    BY <2>3, <2>4, <2>5, Zenon
<1>2. CASE Uring!HandleRecv(c) \/ Uring!HandleSend(c)
  <2>1. \E status, staged : Uring!arm_next(<<sq, inflight>>, c[2], status, staged)
    <3>1. CASE Uring!HandleRecv(c)
      <4>1. c[3] \in {"again", "error", "eof", "data"}
        BY <3>1, Zenon DEF Uring!HandleRecv, Completion, ResultsOf
      <4>2. \/ Uring!arm_next(<<sq, inflight>>, c[2], Uring!R, pending)
            \/ Uring!arm_next(<<sq, inflight>>, c[2], Uring!NORW, pending)
            \/ Uring!arm_next(<<sq, inflight>>, c[2], Uring!W, pending \cup {c[2]})
        BY <3>1, <4>1, Zenon DEF Uring!HandleRecv, Uring!Ring
      <4> QED
        BY <4>2, Zenon
    <3>2. CASE Uring!HandleSend(c)
      <4>1. c[3] \in {"again", "error", "some", "all"}
        BY <3>2, Zenon DEF Uring!HandleSend, Completion, ResultsOf
      <4>2. \/ Uring!arm_next(<<sq, inflight>>, c[2], Uring!W, pending)
            \/ Uring!arm_next(<<sq, inflight>>, c[2], Uring!NORW, pending)
            \/ Uring!arm_next(<<sq, inflight>>, c[2], Uring!R, pending \ {c[2]})
        BY <3>2, <4>1, Zenon DEF Uring!HandleSend, Uring!Ring
      <4> QED
        BY <4>2, Zenon
    <3> QED
      BY <1>2, <3>1, <3>2, Zenon
  <2>2. rlimit' = rlimit
    BY <1>2, Zenon DEF Uring!HandleRecv, Uring!HandleSend
  <2> QED
    BY <2>1, <2>2, ArmFits, Zenon DEF BoundInv
<1> QED
  BY <1>1, <1>2, Zenon DEF Uring!Handle

\* The bounds hold from step to step: only accept opens a descriptor, and not at the limit.
LEMMA BoundNext == UringInv /\ BoundInv /\ [Uring!Next]_(Uring!vars) => BoundInv'
<1> SUFFICES ASSUME UringInv, BoundInv, [Uring!Next]_(Uring!vars) PROVE BoundInv'
  BY Zenon
<1>1. ASSUME Fits(sq'), open' \subseteq open, rlimit' = rlimit PROVE BoundInv'
  <2>1. IsFiniteSet(open') /\ Cardinality(open') <= Cardinality(open)
    BY <1>1, FS_Subset, Zenon DEF BoundInv
  <2>2. Cardinality(open') \in Nat /\ Cardinality(open) \in Nat
    BY <2>1, FS_CardinalityType, Zenon DEF BoundInv
  <2> QED
    BY <1>1, <2>1, <2>2 DEF BoundInv, Fits
<1>2. CASE \E c \in cq : Uring!Handle(c)
  BY <1>1, <1>2, HandleFits, Zenon DEF UringInv
<1>3. ASSUME NEW fd, Uring!KernelAccepts(fd) PROVE BoundInv'
  <2>1. /\ Cardinality(open) < rlimit /\ open' = open \cup {fd} /\ sq' = sq /\ rlimit' = rlimit
    <3>1. fd \in Uring!Acceptable /\ open' = open \cup {fd} /\ sq' = sq /\ rlimit' = rlimit
      BY <1>3, Zenon DEF Uring!KernelAccepts, Uring!accept, Uring!PostFor
    <3>2. ~(Cardinality(open) >= rlimit)
      BY <3>1, SameCount, Zenon DEF Uring!Acceptable
    <3>3. Cardinality(open) \in Nat /\ rlimit \in Nat
      BY FS_CardinalityType, Zenon DEF BoundInv
    <3> QED
      BY <3>1, <3>2, <3>3
  <2>2. /\ IsFiniteSet(open')
        /\ Cardinality(open') = IF fd \in open THEN Cardinality(open) ELSE Cardinality(open) + 1
    BY <2>1, FS_AddElement, Zenon DEF BoundInv
  <2>3. Cardinality(open') \in Nat /\ Cardinality(open) \in Nat
    BY <2>2, FS_CardinalityType, Zenon DEF BoundInv
  <2> QED
    BY <2>1, <2>2, <2>3 DEF BoundInv, Fits
<1>4. CASE Uring!Submit
  <2>1. sq' = {} /\ open' = open /\ rlimit' = rlimit
    BY <1>4, Zenon DEF Uring!Submit, Uring!sockets
  <2>2. Fits({})
    BY FS_EmptySet, DepthAssumption DEF Fits
  <2> QED
    BY <1>1, <2>1, <2>2, Zenon
<1>5. CASE Uring!ClientStep \/ Uring!DrainDone \/ UNCHANGED Uring!vars
  <2>1. sq' = sq /\ open' = open /\ rlimit' = rlimit
    BY <1>5, Zenon DEF Uring!ClientStep, Uring!Clients, Uring!ClientConnects, Uring!ClientSends,
       Uring!ClientLeaves, Uring!DrainDone, Uring!vars, Uring!ring, Uring!sockets
  <2> QED
    BY <2>1, Zenon DEF BoundInv, Fits
<1>6. ASSUME Uring!Kernel, \A fd \in Uring!Number : ~Uring!KernelAccepts(fd) PROVE BoundInv'
  <2>1. sq' = sq /\ open' = open /\ rlimit' = rlimit
    BY <1>6, Zenon DEF Uring!Kernel, Uring!KernelAcceptFails, Uring!KernelReceives, Uring!KernelEof,
      Uring!KernelSends,
       Uring!KernelFails, Uring!Post, Uring!PostFor, Uring!sockets
  <2> QED
    BY <2>1, Zenon DEF BoundInv, Fits
<1> QED
  BY <1>2, <1>3, <1>4, <1>5, <1>6, Zenon DEF Uring!Next

\* Whatever is outstanding is the one thing outstanding on an open descriptor or on the
\* listener.
LEMMA EverythingBound ==
  ASSUME UringInv, FieldsInv, BoundInv
  PROVE  Cardinality(Uring!Everything) <= Cardinality(open) + 1
<1> DEFINE D == open \cup {Listener}
           f == [d \in D |-> CHOOSE x : Uring!Outstanding(d) = {x}]
<1>1. ASSUME NEW d \in FD, OpsOf(d) # {} \/ CqOf(d) # {} PROVE d \in D
  BY <1>1, Zenon DEF UringInv, Idle, Uring!Number
<1>2. ASSUME NEW o \in Ops PROVE o[2] \in D
  <2>1. o \in OpsOf(o[2])
    BY Zenon DEF OpsOf
  <2>2. CASE o = Uring!Accept
    BY <2>2, OpFields, Zenon
  <2>3. CASE \E fd \in FD : o \in {Uring!Recv(fd), Uring!Send(fd)}
    <3>1. o[2] \in FD
      BY <2>3, OpFields
    <3> QED
      BY <1>1, <2>1, <3>1, Zenon
  <2> QED
    BY <2>2, <2>3, Zenon DEF FieldsInv
<1>3. ASSUME NEW c \in cq PROVE c[2] \in D
  <2>1. c \in CqOf(c[2])
    BY Zenon DEF CqOf
  <2>2. c[2] = Listener \/ c[2] \in FD
    BY Zenon DEF UringInv, Completion
  <2> QED
    BY <1>1, <2>1, <2>2, Zenon
<1>4. ASSUME NEW x \in Uring!Everything PROVE \E d \in D : x \in Uring!Outstanding(d)
  <2>1. CASE \E o \in Ops : (x = <<"sq", o>> /\ o \in sq) \/ (x = <<"kernel", o>> /\ o \in inflight)
    <3>1. PICK o \in Ops : (x = <<"sq", o>> /\ o \in sq) \/ (x = <<"kernel", o>> /\ o \in inflight)
      BY <2>1, Zenon
    <3>2. x \in Uring!Outstanding(o[2])
      BY <3>1, Zenon DEF Uring!Outstanding
    <3> QED
      BY <1>2, <3>2, Zenon
  <2>2. CASE \E c \in cq : x = <<"cq", c>>
    <3>1. PICK c \in cq : x = <<"cq", c>>
      BY <2>2, Zenon
    <3>2. x \in Uring!Outstanding(c[2])
      BY <3>1, Zenon DEF Uring!Outstanding
    <3> QED
      BY <1>3, <3>2, Zenon
  <2> QED
    BY <2>1, <2>2, Zenon DEF Uring!Everything, Ops
<1>5. ASSUME NEW d \in D PROVE Uring!Outstanding(d) \subseteq Uring!Everything /\ Uring!Outstanding(d) = {f[d]}
  <2>1. One(d)
    BY Zenon DEF UringInv
  <2>2. \E x : Uring!Outstanding(d) = {x}
    BY <2>1, OneThing, Zenon
  <2>3. Uring!Outstanding(d) \subseteq Uring!Everything
    BY Zenon DEF Uring!Outstanding, Uring!Everything
  <2> QED
    BY <2>2, <2>3, Zenon
<1> HIDE DEF f
<1>6. f \in Surjection(D, Uring!Everything)
  <2>1. \A d \in D : f[d] \in Uring!Everything
    BY <1>5, Zenon
  <2>2. \A x \in Uring!Everything : \E d \in D : f[d] = x
    BY <1>4, <1>5, Zenon
  <2>3. f \in [D -> Uring!Everything]
    BY <2>1, Zenon DEF f
  <2> QED
    BY <2>2, <2>3, Zenon DEF Surjection
<1>7. IsFiniteSet(D) /\ Cardinality(D) = Cardinality(open) + 1
  <2>1. Listener \notin open
    BY ListenerNoPeer, Zenon DEF UringInv
  <2> QED
    BY <2>1, FS_AddElement, Zenon DEF BoundInv
<1> HIDE DEF D
<1>8. Cardinality(Uring!Everything) <= Cardinality(D)
  BY <1>6, <1>7, FS_Surjection, Zenon
<1> QED
  BY <1>7, <1>8, Zenon

\* uring_server.c: get_sqe never finds the submission queue exhausted, and no client, at
\* any queue depth, makes the loop or the kernel keep more than one operation or
\* completion per open descriptor and the accept.
THEOREM RingIsBounded == Uring!SafeSpec => []Uring!RingBounded
<1>1. Uring!Init => BoundInv
  <2> SUFFICES ASSUME Uring!Init PROVE BoundInv
    BY Zenon
  <2>1. sq = {Uring!Accept} /\ open = {} /\ rlimit \in Nat
    BY LimitAssumption, Zenon DEF Uring!Init, Uring!SocketsInit
  <2>2. IsFiniteSet({Uring!Accept}) /\ Cardinality({Uring!Accept}) = 1
    BY FS_Singleton, Zenon
  <2> QED
    BY <2>1, <2>2, FS_EmptySet, DepthAssumption DEF BoundInv, Fits
<1>2. UringInv /\ FieldsInv /\ BoundInv => Uring!RingBounded
  BY EverythingBound, SameCount, Zenon DEF Uring!RingBounded, BoundInv, Fits
<1> QED
  BY <1>1, <1>2, BoundNext, UringInitView, FieldsNext, UringInvariant, PTL DEF Uring!SafeSpec

-----------------------------------------------------------------------------
\* The composition: the server that was started keeps its own invariant, and the other
\* two stay off.

LoopsInv ==
  /\ server \in {"epoll", "select", "uring"}
  /\ server = "epoll" => EpollInv
  /\ server = "select" => SelectInv
  /\ server = "uring" => UringInv /\ FieldsInv /\ Staged
  /\ server # "select" => pc = "died"

loopsVars == <<vars, server, epoll, uring>>

\* A step of the composition is a step of the server that runs.
LEMMA LoopsStep ==
  ASSUME LoopsInv, [LoopsNext]_loopsVars
  PROVE  /\ server' = server
         /\ server = "epoll" => [Epoll!Next]_(Epoll!vars) /\ pc' = pc
         /\ server = "select" => [Next]_vars
         /\ server = "uring" => [Uring!Next]_(Uring!vars) /\ pc' = pc
<1>1. CASE LoopsNext
  BY <1>1, Zenon DEF LoopsNext
<1>2. CASE UNCHANGED loopsVars
  BY <1>2, Zenon DEF loopsVars, vars, epoll, uring, sockets, Epoll!vars, Epoll!sockets, Uring!vars,
    Uring!sockets,
     Uring!ring
<1> QED
  BY <1>1, <1>2, Zenon

\* The server that is started starts in its invariant.
LEMMA LoopsInitInv == LoopsInit => LoopsInv
  BY EpollInitInv, SelectInitInv, UringInitInv, UringInitView, Zenon DEF LoopsInit, LoopsInv, SelectOff

\* It keeps it.
LEMMA LoopsNextInv == LoopsInv /\ [LoopsNext]_loopsVars => LoopsInv'
<1> SUFFICES ASSUME LoopsInv, [LoopsNext]_loopsVars PROVE LoopsInv'
  BY Zenon
<1>1. CASE server = "epoll"
  BY <1>1, LoopsStep, EpollNextInv, Zenon DEF LoopsInv
<1>2. CASE server = "select"
  BY <1>2, LoopsStep, SelectNextInv, Zenon DEF LoopsInv
<1>3. CASE server = "uring"
  BY <1>3, LoopsStep, UringNextInv, FieldsNext, StagedNext, Zenon DEF LoopsInv
<1> QED
  BY <1>1, <1>2, <1>3 DEF LoopsInv

\* The invariant holds of every run, whichever server was started.
LEMMA LoopsInvariant == LoopsSafeSpec => []LoopsInv
  BY LoopsInitInv, LoopsNextInv, PTL DEF LoopsSafeSpec, loopsVars

\* Whatever the clients of epoll_server.c do between epoll_wait and the dispatch, no event
\* of the batch is stale.
THEOREM BatchesAreFresh == LoopsSafeSpec => []BatchFresh
<1>1. LoopsInv => BatchFresh
  BY Zenon DEF LoopsInv, BatchFresh, EpollInv
<1> QED
  BY <1>1, LoopsInvariant, PTL

\* uring_server.c never has two operations or completions on one descriptor, nor one on a
\* closed one.
THEOREM OneOperationEach == LoopsSafeSpec => []OneOutstanding
<1>1. LoopsInv => OneOutstanding
  BY InvOneOutstanding, Zenon DEF LoopsInv, OneOutstanding
<1> QED
  BY <1>1, LoopsInvariant, PTL

\* Neither epoll_server.c nor select_server.c can be ended by what its clients do: only by
\* accept with no descriptor left.
THEOREM ClientsCannotKill == LoopsSafeSpec => []NoPeerKills
<1>1. LoopsInv => NoPeerKills
  BY Zenon DEF LoopsInv, NoPeerKills, EpollInv, SelectInv
<1> QED
  BY <1>1, LoopsInvariant, PTL

\* Under the mapping of the composition each server's contract is the common one.
LEMMA LoopsStepKeepsContract ==
  LoopsInv /\ LoopsInv' /\ [LoopsNext]_loopsVars => [Loops!Next]_(Loops!vars)
<1> SUFFICES ASSUME LoopsInv, LoopsInv', [LoopsNext]_loopsVars PROVE [Loops!Next]_(Loops!vars)
  BY Zenon
<1> USE DEF Loops!Next, Loops!Connected, Loops!Closed, Loops!Staged, Loops!Drained, Loops!vars, Loops!R,
        Loops!W, Loops!NORW
<1>1. CASE server = "epoll"
  <2>1. server' = "epoll" /\ [Epoll!Contract!Next]_(Epoll!Contract!vars)
    BY <1>1, LoopsStep, EpollStepKeepsContract, Zenon DEF LoopsInv
  <2> QED
    BY <1>1, <2>1, Zenon DEF Epoll!Contract!Next, Epoll!Contract!Connected, Epoll!Contract!Closed,
       Epoll!Contract!Staged, Epoll!Contract!Drained, Epoll!Contract!vars, Epoll!Contract!R,
       Epoll!Contract!W, Epoll!Contract!NORW
<1>2. CASE server = "select"
  <2>1. server' = "select" /\ [Contract!Next]_(Contract!vars)
    BY <1>2, LoopsStep, SelectStepKeepsContract, Zenon DEF LoopsInv
  <2> QED
    BY <1>2, <2>1, Zenon DEF Contract!Next, Contract!Connected, Contract!Closed,
       Contract!Staged, Contract!Drained, Contract!vars, Contract!R, Contract!W, Contract!NORW
<1>3. CASE server = "uring"
  <2>1. server' = "uring" /\ [Uring!Contract!Next]_(Uring!Contract!vars)
    BY <1>3, LoopsStep, UringStepKeepsContract, Zenon DEF LoopsInv
  <2> QED
    BY <1>3, <2>1, Zenon DEF Uring!Contract!Next, Uring!Contract!Connected, Uring!Contract!Closed,
       Uring!Contract!Staged, Uring!Contract!Drained, Uring!Contract!vars, Uring!Contract!R,
       Uring!Contract!W, Uring!Contract!NORW
<1> QED
  BY <1>1, <1>2, <1>3, Zenon DEF LoopsInv

\* Whichever of the three servers is started, its loop acts on the statuses peer_state.c
\* returned and on nothing else.
THEOREM EveryLoopKeepsContract == LoopsSafeSpec => LoopsKeepContract
<1>1. LoopsInit => Loops!Init
  <2>1. ASSUME server = "epoll", Epoll!Init PROVE Loops!Init
    BY <2>1, Zenon DEF Epoll!Init, Epoll!SocketsInit, Epoll!NORW, Loops!Init, Loops!NORW
  <2>2. ASSUME server = "select", Init PROVE Loops!Init
    <3>1. Contract!Init
      BY <2>2, SelectInitView, Zenon
    <3> QED
      BY <2>2, <3>1, Zenon DEF Contract!Init, Loops!Init, Contract!NORW, Loops!NORW
  <2>3. ASSUME server = "uring", Uring!Init PROVE Loops!Init
    <3>1. Uring!Contract!Init
      BY <2>3, UringInitView, Zenon
    <3> QED
      BY <2>3, <3>1, Zenon DEF Uring!Contract!Init, Loops!Init, Uring!Contract!NORW, Loops!NORW
  <2> QED
    BY <2>1, <2>2, <2>3, Zenon DEF LoopsInit
<1> QED
  BY <1>1, LoopsInvariant, LoopsStepKeepsContract, PTL DEF LoopsSafeSpec, loopsVars, LoopsKeepContract,
    Loops!Spec


-----------------------------------------------------------------------------
\* What the contract itself promises, whoever keeps it.

\* The view of the running server, as the refinement mapping has it.
Peers == IF server = "uring" THEN Uring!Served ELSE open
Watched ==
  CASE server = "epoll" -> want [] server = "select" -> Interest [] server = "uring" -> Uring!Interest

\* Every peer has a status.
LEMMA WatchedIs == LoopsInv => DOMAIN Watched = FD
<1> SUFFICES ASSUME LoopsInv PROVE DOMAIN Watched = FD
  BY Zenon
<1>1. CASE server = "epoll"
  BY <1>1, Zenon DEF LoopsInv, EpollInv, InterestInv, Watched
<1>2. CASE server = "select"
  BY <1>2, Zenon DEF Interest, Watched
<1>3. CASE server = "uring"
  BY <1>3, Zenon DEF Uring!Interest, Watched
<1> QED
  BY <1>1, <1>2, <1>3, Zenon DEF LoopsInv

\* A step under the contract, in terms of the view.
LEMMA ContractStep ==
  ASSUME [Loops!Next]_(Loops!vars)
  PROVE  \/ Peers' = Peers /\ Watched' = Watched /\ pending' = pending
         \/ \E fd \in FD :
              \/ Peers' = Peers \cup {fd} /\ Watched' = [Watched EXCEPT ![fd] = W] /\ pending' = pending \cup {fd}
              \/ Peers' = Peers \ {fd} /\ Watched' = [Watched EXCEPT ![fd] = NORW] /\ pending' = pending
              \/ /\ fd \in Peers /\ Peers' = Peers
                 /\ Watched' = [Watched EXCEPT ![fd] = W] /\ pending' = pending \cup {fd}
              \/ /\ fd \in Peers /\ Peers' = Peers
                 /\ Watched' = [Watched EXCEPT ![fd] = R] /\ pending' = pending \ {fd}
<1>1. CASE UNCHANGED Loops!vars
  BY <1>1, Zenon DEF Loops!vars, Peers, Watched
<1>2. ASSUME NEW fd \in FD, Loops!Connected(fd)
      PROVE  Peers' = Peers \cup {fd} /\ Watched' = [Watched EXCEPT ![fd] = W] /\ pending' = pending \cup {fd}
  BY <1>2, Zenon DEF Loops!Connected, Loops!W, W, Peers, Watched
<1>3. ASSUME NEW fd \in FD, Loops!Closed(fd)
      PROVE  Peers' = Peers \ {fd} /\ Watched' = [Watched EXCEPT ![fd] = NORW] /\ pending' = pending
  BY <1>3, Zenon DEF Loops!Closed, Loops!NORW, NORW, Peers, Watched
<1>4. ASSUME NEW fd \in FD, Loops!Staged(fd)
      PROVE  /\ fd \in Peers /\ Peers' = Peers
             /\ Watched' = [Watched EXCEPT ![fd] = W] /\ pending' = pending \cup {fd}
  BY <1>4, Zenon DEF Loops!Staged, Loops!W, W, Peers, Watched
<1>5. ASSUME NEW fd \in FD, Loops!Drained(fd)
      PROVE  /\ fd \in Peers /\ Peers' = Peers
             /\ Watched' = [Watched EXCEPT ![fd] = R] /\ pending' = pending \ {fd}
  BY <1>5, Zenon DEF Loops!Drained, Loops!R, R, Peers, Watched
<1> QED
  BY <1>1, <1>2, <1>3, <1>4, <1>5, Zenon DEF Loops!Next

\* Every open peer waits in one direction.
OneWay == \A fd \in FD : Watched[fd] = IF fd \notin Peers THEN NORW ELSE IF fd \in pending THEN W ELSE R

LEMMA OneWayIs == Loops!OneDirection <=> OneWay
  BY Zenon DEF Loops!OneDirection, OneWay, Peers, Watched, Loops!R, Loops!W, Loops!NORW, R, W, NORW

LEMMA OneWayNext ==
  ASSUME DOMAIN Watched = FD, OneWay, [Loops!Next]_(Loops!vars)
  PROVE  OneWay'
  BY ContractStep, Zenon DEF OneWay

\* Nobody is forgotten, whichever server runs: epoll's interest set, select's master
\* sets and io_uring's outstanding operations name every open peer in exactly one
\* direction, the one its staged output asks for, and no closed one. That the loops keep
\* the contract is enough for it.
THEOREM NobodyIsForgotten == LoopsSafeSpec => []Loops!OneDirection
<1>1. Loops!Init => OneWay
  BY Zenon DEF Loops!Init, Loops!NORW, NORW, OneWay, Peers, Watched
<1>2. LoopsInv /\ OneWay /\ [Loops!Next]_(Loops!vars) => OneWay'
  BY WatchedIs, OneWayNext, Zenon
<1>3. LoopsSafeSpec => []OneWay
  BY <1>1, <1>2, LoopsInvariant, EveryLoopKeepsContract, PTL DEF LoopsKeepContract, Loops!Spec
<1> QED
  BY <1>3, OneWayIs, PTL

=============================================================================
