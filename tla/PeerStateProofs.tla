-------------------------- MODULE PeerStateProofs --------------------------
(***************************************************************************)
(* The staging buffer of peer_state.c is safe, its internal errors are     *)
(* unreachable, its status matches its buffer and it keeps its side of     *)
(* PeerContract, for every buffer size, every set of descriptors and every *)
(* input.                                                                  *)
(***************************************************************************)
EXTENDS PeerState, DataLemmas, SequenceTheorems, TLAPS

\* The inductive invariant.  A peer that waits for input has drained its buffer,
\* and a running peer_consume has room for every byte it still has to look at.
Idle(fd) == job # NoJob => job.fd # fd

Settled(fd) ==
  \/ want[fd] = W /\ sendptr[fd] < Len(sendbuf[fd])
  \/ want[fd] = R /\ sendptr[fd] = 0 /\ Len(sendbuf[fd]) = 0 /\ state[fd] # "INITIAL_ACK"

JobFits ==
  job # NoJob =>
    /\ job.fd \in open /\ state[job.fd] # "INITIAL_ACK" /\ sendptr[job.fd] = 0
    /\ Len(sendbuf[job.fd]) + Len(job.data) <= SENDBUF_SIZE
    /\ job.status = IF Len(sendbuf[job.fd]) > 0 THEN W ELSE R

PeerInv ==
  /\ BufferBounded /\ NoInternalError
  /\ \A fd \in open : Idle(fd) => Settled(fd)
  /\ JobFits

\* The statuses are sets of the two interests, and they differ.
LEMMA Statuses ==
  /\ R \in SUBSET RW /\ W \in SUBSET RW /\ RW \in SUBSET RW /\ NORW \in SUBSET RW
  /\ R # W /\ R # NORW /\ W # NORW /\ RW # NORW
  /\ "read" \in R /\ "write" \in W /\ "read" \notin W /\ "write" \notin R
  BY DEF R, W, RW, NORW

\* Updating a table at one descriptor keeps its type.
LEMMA UpdateType ==
  ASSUME NEW S, NEW f \in [FD -> S], NEW fd \in FD, NEW v \in S
  PROVE  [f EXCEPT ![fd] = v] \in [FD -> S]
  OBVIOUS

\* Acting on a status keeps the types of what it changes.
LEMMA ApplyType ==
  ASSUME TypeOK, NEW fd \in FD, NEW s \in SUBSET RW, Apply(fd, s)
  PROVE  open' \subseteq FD /\ want' \in [FD -> SUBSET RW]
  BY DEF TypeOK, Apply

\* Returning a status and touching nothing else but the job keeps the types.
LEMMA StatusType ==
  ASSUME TypeOK, NEW fd \in FD, NEW s \in SUBSET RW, Apply(fd, s),
         UNCHANGED <<peers, got, sent>>, job' \in {job, NoJob}
  PROVE  TypeOK'
  BY ApplyType DEF TypeOK, peers

\* So does closing a peer.
LEMMA CloseType ==
  ASSUME TypeOK, NEW fd \in FD, NEW reason \in Reasons, close_with(fd, reason),
         UNCHANGED <<state, sendbuf, sendptr, sent>>, got' \in [FD -> Seq(Byte)],
         job' \in {job, NoJob}
  PROVE  TypeOK'
<1>1. open' \subseteq FD /\ want' \in [FD -> SUBSET RW]
  BY Statuses, ApplyType DEF close_with
<1>2. close_reason' \in [FD -> Reasons]
  BY UpdateType DEF TypeOK, close_with
<1> QED
  BY <1>1, <1>2 DEF TypeOK

\* A read delivers a sequence of bytes.
LEMMA ReadsType ==
  ASSUME NEW fd \in FD, NEW data \in Reads(fd)
  PROVE  data \in Seq(Byte)
<1>1. PICK n \in Nat : data \in [1 .. n -> Byte]
  BY DEF Reads
<1> QED
  BY <1>1

\* Every step keeps the types.
LEMMA TypeNext == TypeOK /\ [Next]_vars => TypeOK'
<1> SUFFICES ASSUME TypeOK, [Next]_vars
             PROVE  TypeOK'
  OBVIOUS
<1>1. ASSUME NEW fd \in FD, peer_on_connected(fd)
      PROVE  TypeOK'
  <2>1. /\ W \in SUBSET RW
        /\ <<>> \in Seq(Octet) /\ <<>> \in Seq(Byte) /\ <<Star>> \in Seq(Octet)
    <3>1. Star \in Octet
      BY DEF Star, Octet
    <3> QED
      BY <3>1, Statuses, EmptySeq
  <2>2. sendbuf' \in [FD -> Seq(Octet)] /\ sent' \in [FD -> Seq(Octet)] /\ got' \in [FD -> Seq(Byte)]
    BY <1>1, <2>1, UpdateType DEF TypeOK, peer_on_connected, States, Reasons
  <2> QED
    BY <1>1, <2>1, <2>2 DEF TypeOK, peer_on_connected, States, Reasons
<1>2. ASSUME NEW fd \in FD, peer_fail(fd)
      PROVE  TypeOK'
  BY <1>2, CloseType DEF TypeOK, peer_fail, Reasons
<1>3. ASSUME NEW fd \in FD, RecvNothing(fd)
      PROVE  TypeOK'
  <2>1. got' \in [FD -> Seq(Byte)]
    BY <1>3 DEF TypeOK, RecvNothing
  <2>2. CASE \E s \in SUBSET RW : Apply(fd, s) /\ UNCHANGED close_reason
    BY <1>3, <2>2, StatusType DEF RecvNothing, peers
  <2>3. CASE \E reason \in Reasons : close_with(fd, reason)
    BY <1>3, <2>1, <2>3, CloseType DEF RecvNothing
  <2> QED
    BY <1>3, <2>2, <2>3, Statuses DEF RecvNothing, Reasons
<1>4. ASSUME NEW fd \in FD, SendNothing(fd)
      PROVE  TypeOK'
  <2>1. got' \in [FD -> Seq(Byte)]
    BY <1>4 DEF TypeOK, SendNothing
  <2>2. CASE \E s \in SUBSET RW : Apply(fd, s) /\ UNCHANGED close_reason
    BY <1>4, <2>2, StatusType DEF SendNothing, peers
  <2>3. CASE \E reason \in Reasons : close_with(fd, reason)
    BY <1>4, <2>1, <2>3, CloseType DEF SendNothing
  <2> QED
    BY <1>4, <2>2, <2>3, Statuses DEF SendNothing, Reasons
<1>5. ASSUME NEW fd \in FD, NEW data \in Reads(fd), RecvData(fd, data)
      PROVE  TypeOK'
  <2>1. data \in Seq(Byte)
    BY ReadsType
  <2>2. CASE Len(data) > peer_recv_room(fd)
    <3>1. /\ close_with(fd, "internal error")
          /\ UNCHANGED <<job, state, sendbuf, sendptr, got, sent>>
      BY <1>5, <2>2 DEF RecvData
    <3> QED
      BY <3>1, CloseType DEF TypeOK, Reasons
  <2>3. CASE ~(Len(data) > peer_recv_room(fd))
    <3>1. job' \in Call
      BY <1>5, <2>1, <2>3 DEF RecvData, Call
    <3> QED
      BY <1>5, <2>3, <3>1 DEF TypeOK, RecvData
  <2> QED
    BY <2>2, <2>3
<1>6. ASSUME NEW fd \in FD, NEW n \in 1 .. SENDBUF_SIZE, SendSome(fd, n)
      PROVE  TypeOK'
  <2> DEFINE part == SubSeq(sendbuf[fd], sendptr[fd] + 1, sendptr[fd] + n)
  <2>1. open' \subseteq FD /\ want' \in [FD -> SUBSET RW]
    BY <1>6, Statuses, ApplyType DEF SendSome
  <2>2. part \in Seq(Octet)
    <3>0. n \in Nat
      BY SizeAssumption
    <3>1. sendbuf[fd] \in Seq(Octet) /\ sendptr[fd] \in Nat
      BY DEF TypeOK
    <3>2. \A i \in sendptr[fd] + 1 .. sendptr[fd] + n : sendbuf[fd][i] \in Octet
      BY <1>6, <3>0, <3>1, LenProperties, ElementOfSeq DEF SendSome, peer_pending
    <3> QED
      BY <3>0, <3>1, <3>2, SubSeqProperties
  <2>3. sent' \in [FD -> Seq(Octet)]
    <3>1. sent[fd] \o part \in Seq(Octet)
      BY <2>2, ConcatProperties DEF TypeOK
    <3> QED
      BY <1>6, <3>1, UpdateType, Zenon DEF TypeOK, SendSome
  <2>4. sendbuf' \in [FD -> Seq(Octet)]
    <3>1. sendbuf \in [FD -> Seq(Octet)] /\ <<>> \in Seq(Octet)
      BY EmptySeq DEF TypeOK
    <3>2. [sendbuf EXCEPT ![fd] = <<>>] \in [FD -> Seq(Octet)]
      BY <3>1, UpdateType
    <3> QED
      BY <1>6, <3>1, <3>2, Zenon DEF SendSome
  <2>5. state' \in [FD -> States]
    <3>1. \/ state' = state
          \/ \E v \in States : state' = [state EXCEPT ![fd] = v]
      BY <1>6 DEF TypeOK, SendSome, States
    <3> QED
      BY <3>1, UpdateType, Zenon DEF TypeOK
  <2>6. sendptr' \in [FD -> Nat]
    <3>1. sendptr \in [FD -> Nat] /\ sendptr[fd] + n \in Nat
      BY SizeAssumption DEF TypeOK
    <3>2. \E v \in Nat : sendptr' = [sendptr EXCEPT ![fd] = v]
      BY <1>6, <3>1 DEF SendSome
    <3> QED
      BY <3>1, <3>2, UpdateType
  <2> QED
    BY <1>6, <2>1, <2>3, <2>4, <2>5, <2>6, Zenon DEF TypeOK, SendSome
<1>7. CASE ConsumeByte
  <2> DEFINE b == Head(job.data)
  <2>1. job.fd \in FD /\ job.data \in Seq(Byte) /\ job.data # <<>> /\ job.status \in {R, W}
    BY <1>7 DEF TypeOK, ConsumeByte, Call
  <2>2. b \in Byte /\ Tail(job.data) \in Seq(Byte) /\ Inc(b) \in Octet
    BY <2>1, HeadTailProperties, ByteAssumption, IncType
  <2>3. got' \in [FD -> Seq(Byte)]
    <3>1. Append(got[job.fd], b) \in Seq(Byte)
      BY <2>1, <2>2, AppendProperties DEF TypeOK
    <3> QED
      BY <1>7, <2>1, <3>1, UpdateType DEF TypeOK, ConsumeByte
  <2>4. CASE state[job.fd] = "INITIAL_ACK"
    BY <1>7, <2>1, <2>3, <2>4, CloseType DEF ConsumeByte, Reasons
  <2>5. CASE state[job.fd] # "INITIAL_ACK"
    <3>1. job' \in Call
      BY <1>7, <2>1, <2>2, <2>5 DEF ConsumeByte, Call
    <3>2. state' \in [FD -> States]
      <4>1. state \in [FD -> States]
        BY DEF TypeOK
      <4>2. PICK v \in States : state' = [state EXCEPT ![job.fd] = v]
        BY <1>7, <2>1, <2>5, <4>1 DEF ConsumeByte, States
      <4> QED
        BY <2>1, <4>1, <4>2, UpdateType
    <3>3. sendbuf' \in [FD -> Seq(Octet)]
      <4>1. Append(sendbuf[job.fd], Inc(b)) \in Seq(Octet) /\ sendbuf[job.fd] \in Seq(Octet)
        BY <2>1, <2>2, AppendProperties DEF TypeOK
      <4>2. \E v \in Seq(Octet) : sendbuf' = [sendbuf EXCEPT ![job.fd] = v]
        BY <1>7, <2>5, <4>1, Zenon DEF ConsumeByte
      <4> QED
        BY <2>1, <4>2, UpdateType DEF TypeOK
    <3> QED
      BY <1>7, <2>3, <2>5, <3>1, <3>2, <3>3 DEF TypeOK, ConsumeByte
  <2> QED
    BY <2>4, <2>5
<1>8. CASE ConsumeDone
  <2>1. job.fd \in FD /\ job.status \in SUBSET RW
    BY <1>8, Statuses DEF TypeOK, ConsumeDone, Call
  <2> QED
    BY <1>8, <2>1, StatusType DEF ConsumeDone
<1>9. CASE UNCHANGED vars
  BY <1>9 DEF TypeOK, vars, peers
<1> QED
  BY <1>1, <1>2, <1>3, <1>4, <1>5, <1>6, <1>7, <1>8, <1>9 DEF Next

\* The lengths the invariant speaks of are numbers.
LEMMA Lengths ==
  ASSUME TypeOK, NEW fd \in FD
  PROVE  Len(sendbuf[fd]) \in Nat /\ sendptr[fd] \in Nat
<1>1. sendbuf[fd] \in Seq(Octet) /\ sendptr[fd] \in Nat
  BY DEF TypeOK
<1> QED
  BY <1>1, LenProperties

\* A peer that is closed leaves nothing to show but a reason other than an internal error.
LEMMA CloseKeepsInv ==
  ASSUME TypeOK, PeerInv, NEW fd \in FD, NEW reason, reason # "internal error",
         close_with(fd, reason), job = NoJob,
         UNCHANGED <<state, sendbuf, sendptr, job>>
  PROVE  PeerInv'
<1>1. BufferBounded'
  BY DEF PeerInv, BufferBounded
<1>2. NoInternalError'
  BY DEF PeerInv, NoInternalError, TypeOK, close_with
<1>3. \A g \in open' : Settled(g)'
  BY Statuses DEF PeerInv, Settled, Idle, close_with, Apply, TypeOK
<1> QED
  BY <1>1, <1>2, <1>3 DEF PeerInv, JobFits

\* A call that moves no byte and repeats the status of a settled peer keeps the invariant.
LEMMA SameStatusKeepsInv ==
  ASSUME TypeOK, PeerInv, NEW fd \in FD, fd \in open, Apply(fd, want[fd]), job = NoJob,
         UNCHANGED <<peers, job>>
  PROVE  PeerInv'
<1>1. want[fd] # NORW
  BY Statuses DEF PeerInv, Settled, Idle
<1>2. want' = want /\ open' = open
  BY <1>1 DEF Apply, TypeOK
<1> QED
  BY <1>2 DEF PeerInv, BufferBounded, NoInternalError, Settled, Idle, JobFits, peers

\* A peer that may be read is drained: it has the whole buffer as room.
LEMMA ReadableIsDrained ==
  ASSUME TypeOK, PeerInv, NEW fd \in open, job = NoJob, "read" \in want[fd]
  PROVE  /\ want[fd] = R /\ sendptr[fd] = 0 /\ Len(sendbuf[fd]) = 0
         /\ state[fd] # "INITIAL_ACK" /\ peer_recv_room(fd) = SENDBUF_SIZE
<1>1. want[fd] = R /\ sendptr[fd] = 0 /\ Len(sendbuf[fd]) = 0 /\ state[fd] # "INITIAL_ACK"
  BY Statuses DEF PeerInv, Settled, Idle
<1> QED
  BY <1>1, SizeAssumption DEF peer_recv_room

\* A peer that may be written has something pending.
LEMMA WritableIsPending ==
  ASSUME TypeOK, PeerInv, NEW fd \in open, job = NoJob, "write" \in want[fd]
  PROVE  want[fd] = W /\ sendptr[fd] < Len(sendbuf[fd])
  BY Statuses DEF PeerInv, Settled, Idle

\* A read never returns more than there is room for.
LEMMA ReadsFit ==
  ASSUME TypeOK, NEW fd \in FD, peer_recv_room(fd) = SENDBUF_SIZE, NEW data \in Reads(fd)
  PROVE  Len(data) \in Nat /\ Len(data) <= SENDBUF_SIZE
<1>1. PICK n \in 1 .. recv_want(fd) : data \in [1 .. n -> Byte]
  BY DEF Reads
<1>2. recv_want(fd) = SENDBUF_SIZE
  BY SizeAssumption DEF recv_want
<1>3. n \in Nat /\ n <= SENDBUF_SIZE
  BY <1>1, <1>2, SizeAssumption
<1> QED
  BY <1>1, <1>3

\* Moving one byte of input to at most one byte of output needs no more room.
LEMMA FitsStep ==
  \A len, rest, end \in Nat :
    len + rest <= SENDBUF_SIZE /\ end <= len + 1 =>
      /\ end + (rest - 1) <= SENDBUF_SIZE
      /\ rest >= 1 => end <= SENDBUF_SIZE
  BY SizeAssumption

\* Every step keeps the invariant.
LEMMA InvNext == TypeOK /\ PeerInv /\ [Next]_vars => PeerInv'
<1> SUFFICES ASSUME TypeOK, PeerInv, [Next]_vars
             PROVE  PeerInv'
  OBVIOUS
<1>0. open \subseteq FD
  BY DEF TypeOK
<1>1. ASSUME NEW fd \in FD, peer_on_connected(fd)
      PROVE  PeerInv'
  <2>1. /\ Len(sendbuf'[fd]) = 1 /\ sendptr'[fd] = 0
        /\ close_reason'[fd] = "none" /\ want'[fd] = W
    BY <1>1 DEF peer_on_connected, TypeOK
  <2>2. \A g \in FD \ {fd} :
          /\ sendbuf'[g] = sendbuf[g] /\ sendptr'[g] = sendptr[g] /\ state'[g] = state[g]
          /\ close_reason'[g] = close_reason[g] /\ want'[g] = want[g]
    BY <1>1 DEF peer_on_connected, TypeOK
  <2>3. BufferBounded'
    <3>1. ASSUME NEW g \in FD
          PROVE  sendptr'[g] <= Len(sendbuf'[g]) /\ Len(sendbuf'[g]) <= SENDBUF_SIZE
      <4>1. CASE g = fd
        <5>1. 0 <= 1 /\ 1 <= SENDBUF_SIZE
          BY SizeAssumption
        <5> QED
          BY <2>1, <4>1, <5>1, Zenon
      <4>2. CASE g # fd
        BY <2>2, <4>2 DEF PeerInv, BufferBounded
      <4> QED
        BY <4>1, <4>2
    <3> QED
      BY <3>1 DEF BufferBounded
  <2>4. NoInternalError'
    BY <2>1, <2>2 DEF PeerInv, NoInternalError
  <2>5. \A g \in open' : Settled(g)'
    <3>1. 0 < 1
      OBVIOUS
    <3>2. Settled(fd)'
      BY <2>1, <3>1, Zenon DEF Settled
    <3>3. ASSUME NEW g \in open, g # fd
          PROVE  Settled(g)'
      <4>1. Settled(g)
        BY <1>1 DEF PeerInv, Idle, peer_on_connected
      <4> QED
        BY <1>0, <2>2, <3>3, <4>1 DEF Settled
    <3> QED
      BY <1>1, <3>2, <3>3 DEF peer_on_connected
  <2> QED
    BY <1>1, <2>3, <2>4, <2>5 DEF PeerInv, JobFits, peer_on_connected
<1>2. ASSUME NEW fd \in FD, peer_fail(fd)
      PROVE  PeerInv'
  BY <1>2, CloseKeepsInv DEF peer_fail
<1>3. ASSUME NEW fd \in FD, RecvNothing(fd)
      PROVE  PeerInv'
  <2>1. want[fd] = R /\ peer_recv_room(fd) # 0
    BY <1>3, ReadableIsDrained, SizeAssumption DEF RecvNothing
  <2>2. CASE Apply(fd, R) /\ UNCHANGED close_reason
    BY <1>3, <2>1, <2>2, SameStatusKeepsInv DEF RecvNothing, peers
  <2>3. CASE \E reason \in {"peer closed", "peer reset", "error"} : close_with(fd, reason)
    BY <1>3, <2>3, CloseKeepsInv DEF RecvNothing
  <2> QED
    BY <1>3, <2>1, <2>2, <2>3 DEF RecvNothing
<1>4. ASSUME NEW fd \in FD, SendNothing(fd)
      PROVE  PeerInv'
  <2>1. want[fd] = W /\ peer_pending(fd) # 0
    <3>1. want[fd] = W /\ sendptr[fd] < Len(sendbuf[fd])
      BY <1>4, WritableIsPending DEF SendNothing
    <3> QED
      BY <3>1, Lengths DEF peer_pending
  <2>2. CASE Apply(fd, W) /\ UNCHANGED close_reason
    BY <1>4, <2>1, <2>2, SameStatusKeepsInv DEF SendNothing, peers
  <2>3. CASE \E reason \in {"peer reset", "error"} : close_with(fd, reason)
    BY <1>4, <2>3, CloseKeepsInv DEF SendNothing
  <2> QED
    BY <1>4, <2>1, <2>2, <2>3 DEF SendNothing
<1>5. ASSUME NEW fd \in FD, NEW data \in Reads(fd), RecvData(fd, data)
      PROVE  PeerInv'
  <2>1. /\ sendptr[fd] = 0 /\ Len(sendbuf[fd]) = 0 /\ state[fd] # "INITIAL_ACK"
        /\ peer_recv_room(fd) = SENDBUF_SIZE
    BY <1>5, ReadableIsDrained DEF RecvData
  <2>2. Len(data) \in Nat /\ Len(data) <= SENDBUF_SIZE
    BY <2>1, ReadsFit
  <2>3. /\ job' = [fd |-> fd, data |-> data, status |-> R]
        /\ UNCHANGED <<peers, open, want>>
    <3>1. ~(Len(data) > peer_recv_room(fd))
      BY <2>1, <2>2, SizeAssumption
    <3> QED
      BY <1>5, <3>1 DEF RecvData, peers
  <2>4. JobFits'
    <3>1. job'.fd = fd /\ job'.data = data /\ job'.status = R /\ fd \in open
      BY <1>5, <2>3 DEF RecvData
    <3>2. sendbuf' = sendbuf /\ sendptr' = sendptr /\ state' = state /\ open' = open
      BY <2>3 DEF peers
    <3>3. Len(sendbuf[fd]) + Len(data) <= SENDBUF_SIZE
      BY <2>1, <2>2, SizeAssumption
    <3> QED
      BY <2>1, <3>1, <3>2, <3>3 DEF JobFits
  <2>5. BufferBounded' /\ NoInternalError'
    BY <2>3 DEF PeerInv, BufferBounded, NoInternalError, peers
  <2>6. \A g \in open' : Settled(g)'
    BY <1>5, <2>3 DEF PeerInv, Settled, Idle, RecvData, peers
  <2> QED
    BY <2>4, <2>5, <2>6 DEF PeerInv
<1>6. ASSUME NEW fd \in FD, NEW n \in 1 .. SENDBUF_SIZE, SendSome(fd, n)
      PROVE  PeerInv'
  <2>1. n \in Nat /\ n <= Len(sendbuf[fd]) - sendptr[fd] /\ fd \in open /\ job = NoJob /\ job' = job
    BY <1>6, SizeAssumption DEF SendSome, peer_pending
  <2>2. \A g \in FD \ {fd} :
          /\ sendbuf'[g] = sendbuf[g] /\ sendptr'[g] = sendptr[g] /\ state'[g] = state[g]
          /\ want'[g] = want[g]
    BY <1>6 DEF SendSome, Apply, TypeOK
  <2>3. open' = open /\ close_reason' = close_reason
    BY <1>6, Statuses DEF SendSome, Apply
  <2>4. /\ Settled(fd)' /\ sendptr'[fd] <= Len(sendbuf'[fd])
        /\ Len(sendbuf'[fd]) <= Len(sendbuf[fd])
    <3>1. CASE n < peer_pending(fd)
      <4>1. sendptr'[fd] = sendptr[fd] + n /\ sendbuf' = sendbuf /\ want'[fd] = W
        BY <1>6, <3>1 DEF SendSome, Apply, TypeOK
      <4> QED
        BY <2>1, <3>1, <4>1, Lengths DEF Settled, peer_pending
    <3>2. CASE ~(n < peer_pending(fd))
      <4>1. /\ sendptr'[fd] = 0 /\ sendbuf'[fd] = <<>> /\ want'[fd] = R
            /\ state'[fd] # "INITIAL_ACK"
        BY <1>6, <3>2 DEF SendSome, Apply, TypeOK
      <4>2. Len(sendbuf'[fd]) = 0
        BY <4>1, EmptySeq
      <4> QED
        BY <4>1, <4>2, Lengths DEF Settled
    <3> QED
      BY <3>1, <3>2
  <2>5. BufferBounded'
    BY <2>2, <2>4, TypeNext, Lengths, SizeAssumption DEF PeerInv, BufferBounded
  <2>6. \A g \in open' : Settled(g)'
    BY <1>0, <2>1, <2>2, <2>3, <2>4 DEF PeerInv, Settled, Idle
  <2> QED
    BY <2>1, <2>3, <2>5, <2>6 DEF PeerInv, NoInternalError, JobFits
<1>7. CASE ConsumeByte
  <2>0. job \in Call
    BY <1>7 DEF TypeOK, ConsumeByte
  <2>a. PICK fd \in FD : fd = job.fd
    BY <2>0 DEF Call
  <2>b. PICK b : b = Head(job.data)
    OBVIOUS
  <2> DEFINE payload == state[fd] = "IN_MSG" /\ b # Dollar
  <2>1. /\ fd \in open /\ job.data \in Seq(Byte) /\ job.data # <<>>
        /\ state[fd] # "INITIAL_ACK" /\ sendptr[fd] = 0 /\ job # NoJob
        /\ Len(sendbuf[fd]) + Len(job.data) <= SENDBUF_SIZE
        /\ job.status = IF Len(sendbuf[fd]) > 0 THEN W ELSE R
    BY <1>7, <2>0, <2>a DEF ConsumeByte, PeerInv, JobFits, Call
  <2>2. /\ b \in Byte /\ Len(job.data) \in Nat /\ Len(Tail(job.data)) = Len(job.data) - 1
        /\ Inc(b) \in Octet /\ sendbuf[fd] \in Seq(Octet) /\ Len(sendbuf[fd]) \in Nat
    BY <2>b, <2>1, HeadTailProperties, LenProperties, ByteAssumption, IncType DEF TypeOK
  <2>3. /\ UNCHANGED <<close_reason, open, want, sendptr>>
        /\ job' = [fd |-> fd, data |-> Tail(job.data), status |-> IF payload THEN W ELSE job.status]
        /\ sendbuf'[fd] = IF payload THEN Append(sendbuf[fd], Inc(b)) ELSE sendbuf[fd]
        /\ state'[fd] # "INITIAL_ACK"
        /\ \A g \in FD \ {fd} : sendbuf'[g] = sendbuf[g] /\ state'[g] = state[g]
    BY <1>7, <2>a, <2>b, <2>1 DEF TypeOK, ConsumeByte
  <2>4. Len(sendbuf'[fd]) = IF payload THEN Len(sendbuf[fd]) + 1 ELSE Len(sendbuf[fd])
    BY <2>2, <2>3, AppendProperties
  <2>4a. /\ Len(sendbuf'[fd]) + Len(Tail(job.data)) <= SENDBUF_SIZE
         /\ 0 <= Len(sendbuf'[fd]) /\ Len(sendbuf'[fd]) <= SENDBUF_SIZE
    <3>1. PICK len \in Nat : len = Len(sendbuf[fd])
      BY <2>2
    <3>2. PICK rest \in Nat : rest = Len(job.data)
      BY <2>2
    <3>3. PICK end \in Nat : end = Len(sendbuf'[fd]) /\ end <= len + 1
      BY <2>4, <3>1
    <3>4. len + rest <= SENDBUF_SIZE
      BY <2>1, <3>1, <3>2, Zenon
    <3>5. rest # 0
      BY <2>1, <3>2, EmptySeq
    <3>6. end + (rest - 1) <= SENDBUF_SIZE /\ 0 <= end /\ end <= SENDBUF_SIZE
      BY <3>3, <3>4, <3>5, FitsStep
    <3>7. Len(Tail(job.data)) = rest - 1
      BY <2>2, <3>2
    <3> QED
      BY <3>3, <3>6, <3>7, Zenon
  <2>5. JobFits'
    <3>1. job'.fd = fd /\ job'.data = Tail(job.data) /\ job'.status = IF payload THEN W ELSE job.status
      BY <2>3
    <3>2. job'.status = IF Len(sendbuf'[fd]) > 0 THEN W ELSE R
      BY <2>1, <2>2, <2>4, <3>1
    <3> QED
      BY <2>1, <2>3, <2>4a, <3>1, <3>2, Zenon DEF JobFits
  <2>6. BufferBounded'
    <3>1. Len(sendbuf'[fd]) <= SENDBUF_SIZE /\ sendptr'[fd] <= Len(sendbuf'[fd])
      BY <2>1, <2>3, <2>4a, Zenon
    <3> QED
      BY <2>3, <3>1, Zenon DEF PeerInv, BufferBounded
  <2>7. NoInternalError'
    BY <2>3 DEF PeerInv, NoInternalError
  <2>8. \A g \in open' : Idle(g)' => Settled(g)'
    <3>1. ASSUME NEW g \in open, g # fd
          PROVE  Settled(g)'
      <4>1. Settled(g)
        BY <2>a, <3>1 DEF PeerInv, Idle
      <4> QED
        BY <1>0, <2>3, <3>1, <4>1 DEF Settled
    <3>2. ~Idle(fd)'
      <4>1. job' \in Call /\ job'.fd = fd
        BY <2>1, <2>2, <2>3, HeadTailProperties DEF Call
      <4> QED
        BY <4>1, NoJobAssumption DEF Idle
    <3> QED
      BY <2>3, <3>1, <3>2
  <2> QED
    BY <2>5, <2>6, <2>7, <2>8 DEF PeerInv
<1>8. CASE ConsumeDone
  <2>0. PICK fd \in FD : fd = job.fd
    BY <1>8 DEF TypeOK, ConsumeDone, Call
  <2>1. /\ fd \in open /\ state[fd] # "INITIAL_ACK" /\ sendptr[fd] = 0
        /\ job.status = IF Len(sendbuf[fd]) > 0 THEN W ELSE R
    BY <1>8, <2>0 DEF ConsumeDone, PeerInv, JobFits
  <2>2. /\ open' = open /\ want' = [want EXCEPT ![fd] = job.status]
        /\ job' = NoJob /\ UNCHANGED peers
    BY <1>8, <2>0, <2>1, Statuses DEF ConsumeDone, Apply
  <2>3. Settled(fd)'
    <3>1. want'[fd] = job.status /\ UNCHANGED <<sendbuf, sendptr, state>>
      BY <2>2 DEF TypeOK, peers
    <3> QED
      BY <2>1, <3>1, Lengths DEF Settled
  <2>4. \A g \in open : Settled(g)'
    <3>1. ASSUME NEW g \in open, g # fd
          PROVE  Settled(g)'
      <4>1. Settled(g)
        BY <2>0, <3>1 DEF PeerInv, Idle
      <4> QED
        BY <1>0, <2>2, <3>1, <4>1 DEF Settled, peers, TypeOK
    <3> QED
      BY <2>3, <3>1
  <2> QED
    BY <2>2, <2>4 DEF PeerInv, BufferBounded, NoInternalError, JobFits, peers
<1>9. CASE UNCHANGED vars
  BY <1>9 DEF PeerInv, BufferBounded, NoInternalError, Settled, Idle, JobFits, vars, peers
<1> QED
  BY <1>1, <1>2, <1>3, <1>4, <1>5, <1>6, <1>7, <1>8, <1>9 DEF Next

\* The invariant holds in every state of every behaviour.
LEMMA InvAlways == Spec => [](TypeOK /\ PeerInv)
<1>1. Init => TypeOK /\ PeerInv
  <2> SUFFICES ASSUME Init
               PROVE  TypeOK /\ PeerInv
    OBVIOUS
  <2>1. TypeOK
    BY Statuses, EmptySeq DEF Init, TypeOK, States, Reasons
  <2>2. PeerInv
    BY EmptySeq, SizeAssumption DEF Init, PeerInv, BufferBounded, NoInternalError, JobFits
  <2> QED
    BY <2>1, <2>2
<1> QED
  BY <1>1, TypeNext, InvNext, PTL DEF Spec

\* The tables of peer_state.c keep their types.
THEOREM PeerTypeCorrect == Spec => []TypeOK
  BY InvAlways, PTL

\* No write of peer_consume runs past the send buffer, without a check in the loop.
THEOREM BufferSafe == Spec => []BufferBounded
  BY InvAlways, PTL DEF PeerInv

\* The branches of peer_consume marked as bugs of the caller, and as unreachable,
\* are not taken by a caller that acts on the returned status.
THEOREM InternalErrorsUnreachable == Spec => []NoInternalError
  BY InvAlways, PTL DEF PeerInv

\* An open peer is waited on for writing exactly while it has output, and for
\* reading exactly while it has none.
THEOREM InterestSafe == Spec => []InterestMatchesBuffer
<1>1. TypeOK /\ PeerInv => InterestMatchesBuffer
  <2> SUFFICES ASSUME TypeOK, PeerInv, NEW fd \in open, Idle(fd)
               PROVE  want[fd] = IF peer_pending(fd) > 0 THEN W ELSE R
    BY DEF InterestMatchesBuffer, Idle
  <2>1. Settled(fd) /\ fd \in FD
    BY DEF PeerInv, TypeOK
  <2> QED
    BY <2>1, Lengths DEF Settled, peer_pending
<1> QED
  BY <1>1, InvAlways, PTL

-----------------------------------------------------------------------------
\* What a peer is sent.

\* What fd has been sent and is about to be sent is right, and its parser knows
\* whether the input so far ends inside a message.
EchoesOn(fd) ==
  /\ sent[fd] \o Unsent(sendbuf[fd], sendptr[fd]) = <<Star>> \o Echo(got[fd])
  /\ state[fd] = "IN_MSG" <=> InMessage(got[fd])

EchoInv == \A fd \in open : EchoesOn(fd)

\* The histories and buffers are sequences of bytes, and the buffer is within bounds.
LEMMA OutputTypes ==
  ASSUME TypeOK, PeerInv, NEW fd \in FD
  PROVE  /\ sent[fd] \in Seq(Octet) /\ sendbuf[fd] \in Seq(Octet) /\ got[fd] \in Seq(Octet)
         /\ sendptr[fd] \in Nat /\ sendptr[fd] <= Len(sendbuf[fd])
         /\ Unsent(sendbuf[fd], sendptr[fd]) \in Seq(Octet)
<1>1. /\ sent[fd] \in Seq(Octet) /\ sendbuf[fd] \in Seq(Octet) /\ got[fd] \in Seq(Byte)
      /\ sendptr[fd] \in Nat
  BY DEF TypeOK
<1>2. got[fd] \in Seq(Octet)
  BY <1>1, ByteAssumption, SeqMonotonic
<1>3. sendptr[fd] <= Len(sendbuf[fd])
  BY DEF PeerInv, BufferBounded
<1> QED
  BY <1>1, <1>2, <1>3, UnsentType

\* The acknowledgement is a byte, and so is all that follows it.
LEMMA AckType ==
  ASSUME NEW s \in Seq(Octet)
  PROVE  Star \in Octet /\ <<Star>> \in Seq(Octet) /\ Echo(s) \in Seq(Octet)
<1>1. Star \in Octet
  BY DEF Star, Octet
<1> QED
  BY <1>1, EchoType

\* Whoever is not touched goes on as before.
LEMMA EchoesUntouched ==
  ASSUME NEW g \in FD, EchoesOn(g), sent'[g] = sent[g], sendbuf'[g] = sendbuf[g],
         sendptr'[g] = sendptr[g], got'[g] = got[g], state'[g] = state[g]
  PROVE  EchoesOn(g)'
  BY Zenon DEF EchoesOn

\* Every step keeps it.
LEMMA EchoNext == TypeOK /\ PeerInv /\ EchoInv /\ [Next]_vars => EchoInv'
<1> SUFFICES ASSUME TypeOK, PeerInv, EchoInv, [Next]_vars
             PROVE  EchoInv'
  OBVIOUS
<1>0. open \subseteq FD /\ TypeOK' /\ PeerInv'
  BY TypeNext, InvNext DEF TypeOK
<1>1. ASSUME NEW fd \in FD, peer_on_connected(fd)
      PROVE  EchoInv'
  <2>1. /\ sendbuf'[fd] = <<Star>> /\ sendptr'[fd] = 0 /\ sent'[fd] = <<>> /\ got'[fd] = <<>>
        /\ state'[fd] = "INITIAL_ACK" /\ open' = open \cup {fd}
    BY <1>1 DEF peer_on_connected, TypeOK
  <2>2. \A g \in FD \ {fd} :
          /\ sent'[g] = sent[g] /\ sendbuf'[g] = sendbuf[g] /\ sendptr'[g] = sendptr[g]
          /\ got'[g] = got[g] /\ state'[g] = state[g]
    BY <1>1 DEF peer_on_connected, TypeOK
  <2>3. EchoesOn(fd)'
    <3>1. <<Star>> \in Seq(Octet) /\ Len(<<Star>>) = 1
      BY AckType, EmptySeq, Zenon
    <3>2. Unsent(<<Star>>, 0) = <<Star>>
      BY <3>1, UnsentAll, Zenon
    <3>3. <<>> \o Unsent(<<Star>>, 0) = <<Star>> \o Echo(<<>>)
      BY <3>1, <3>2, EchoEmpty, ConcatEmptySeq, Zenon
    <3> QED
      BY <2>1, <3>3, OutsideFirst DEF EchoesOn
  <2>4. \A g \in open \ {fd} : EchoesOn(g)'
    BY <1>0, <2>2, EchoesUntouched DEF EchoInv
  <2> QED
    BY <2>1, <2>3, <2>4 DEF EchoInv
<1>2. ASSUME UNCHANGED <<state, sendbuf, sendptr, got, sent>>, open' \subseteq open
      PROVE  EchoInv'
  BY <1>0, <1>2, EchoesUntouched DEF EchoInv
<1>3. ASSUME NEW fd \in FD, NEW s, Apply(fd, s)
      PROVE  open' \subseteq open
  BY <1>3 DEF Apply
<1>4. ASSUME NEW fd \in FD, peer_fail(fd) \/ RecvNothing(fd) \/ SendNothing(fd)
      PROVE  EchoInv'
  BY <1>2, <1>3, <1>4 DEF peer_fail, RecvNothing, SendNothing, close_with
<1>5. ASSUME NEW fd \in FD, NEW data \in Reads(fd), RecvData(fd, data)
      PROVE  EchoInv'
  BY <1>2, <1>3, <1>5 DEF RecvData, close_with
<1>6. ASSUME NEW fd \in FD, NEW n \in 1 .. SENDBUF_SIZE, SendSome(fd, n)
      PROVE  EchoInv'
  <2>1. n \in Nat /\ n <= Len(sendbuf[fd]) - sendptr[fd] /\ fd \in open /\ open' = open
    BY <1>6, SizeAssumption, Statuses DEF SendSome, peer_pending, Apply
  <2>2. \A g \in FD \ {fd} :
          /\ sent'[g] = sent[g] /\ sendbuf'[g] = sendbuf[g] /\ sendptr'[g] = sendptr[g]
          /\ got'[g] = got[g] /\ state'[g] = state[g]
    BY <1>6, Zenon DEF SendSome, TypeOK
  <2>3. /\ sent[fd] \in Seq(Octet) /\ sendbuf[fd] \in Seq(Octet) /\ sendptr[fd] \in Nat
        /\ sendptr[fd] + n <= Len(sendbuf[fd]) /\ Len(sendbuf[fd]) \in Nat
    BY <2>1, OutputTypes, LenProperties
  <2> DEFINE part == SubSeq(sendbuf[fd], sendptr[fd] + 1, sendptr[fd] + n)
  <2>4. sent'[fd] = sent[fd] \o part /\ got'[fd] = got[fd]
        /\ (state'[fd] = "IN_MSG" <=> state[fd] = "IN_MSG")
    BY <1>6, Zenon DEF SendSome, TypeOK
  <2>5. (sent[fd] \o part) \o Unsent(sendbuf[fd], sendptr[fd] + n)
           = sent[fd] \o Unsent(sendbuf[fd], sendptr[fd])
    BY <2>1, <2>3, UnsentSplit, Zenon
  <2>6. EchoesOn(fd)
    BY <2>1 DEF EchoInv
  <2>7. Unsent(sendbuf'[fd], sendptr'[fd]) = Unsent(sendbuf[fd], sendptr[fd] + n)
    <3>1. CASE n < peer_pending(fd)
      BY <1>6, <3>1 DEF SendSome, TypeOK
    <3>2. CASE ~(n < peer_pending(fd))
      <4>1. sendptr'[fd] = 0 /\ sendbuf'[fd] = <<>>
        BY <1>6, <3>2 DEF SendSome, TypeOK
      <4>2. sendptr[fd] + n = Len(sendbuf[fd])
        <5>1. ~(n < Len(sendbuf[fd]) - sendptr[fd])
          BY <3>2, Zenon DEF peer_pending
        <5>2. ASSUME NEW x \in Nat, NEW y \in Nat, NEW z \in Nat, x <= y - z, ~(x < y - z)
              PROVE  z + x = y
          BY <5>2
        <5> QED
          BY <2>1, <2>3, <5>1, <5>2, Zenon
      <4>3. Unsent(<<>>, 0) = <<>>
        BY EmptySeq, SubSeqEmpty DEF Unsent
      <4>4. Unsent(sendbuf[fd], sendptr[fd] + n) = <<>>
        BY <2>3, <4>2, SubSeqEmpty DEF Unsent
      <4> QED
        BY <4>1, <4>3, <4>4
    <3> QED
      BY <3>1, <3>2
  <2>8. EchoesOn(fd)'
    BY <2>4, <2>5, <2>6, <2>7, Zenon DEF EchoesOn
  <2> QED
    BY <1>0, <2>1, <2>2, <2>8, EchoesUntouched DEF EchoInv
<1>7. CASE ConsumeByte
  <2>0. job \in Call
    BY <1>7 DEF TypeOK, ConsumeByte
  <2>1. PICK fd \in FD : fd = job.fd
    BY <2>0 DEF Call
  <2>2. PICK b : b = Head(job.data)
    OBVIOUS
  <2> DEFINE payload == state[fd] = "IN_MSG" /\ b # Dollar
             rest == Unsent(sendbuf[fd], sendptr[fd])
  <2>3. fd \in open /\ job.data \in Seq(Byte) /\ job.data # <<>> /\ state[fd] # "INITIAL_ACK"
    BY <1>7, <2>0, <2>1 DEF ConsumeByte, PeerInv, JobFits, Call
  <2>4. b \in Octet /\ Inc(b) \in Octet
    BY <2>2, <2>3, HeadTailProperties, ByteAssumption, IncType
  <2>5. /\ UNCHANGED <<open, sendptr, sent>>
        /\ got'[fd] = Append(got[fd], b)
        /\ sendbuf'[fd] = IF payload THEN Append(sendbuf[fd], Inc(b)) ELSE sendbuf[fd]
        /\ state'[fd] = IF state[fd] = "WAIT_FOR_MSG" /\ b = Hat THEN "IN_MSG"
                        ELSE IF state[fd] = "IN_MSG" /\ b = Dollar THEN "WAIT_FOR_MSG" ELSE state[fd]
        /\ \A g \in FD \ {fd} : sendbuf'[g] = sendbuf[g] /\ state'[g] = state[g] /\ got'[g] = got[g]
    BY <1>7, <2>1, <2>2, <2>3 DEF TypeOK, ConsumeByte
  <2>6. /\ sent[fd] \in Seq(Octet) /\ sendbuf[fd] \in Seq(Octet) /\ got[fd] \in Seq(Octet)
        /\ sendptr[fd] \in Nat /\ sendptr[fd] <= Len(sendbuf[fd]) /\ rest \in Seq(Octet)
        /\ <<Star>> \in Seq(Octet) /\ Echo(got[fd]) \in Seq(Octet)
    BY OutputTypes, AckType
  <2>7. EchoesOn(fd)
    BY <2>3 DEF EchoInv
  <2>8. state'[fd] = "IN_MSG" <=> InMessage(got'[fd])
    <3>1. InMessage(Append(got[fd], b)) <=> b = Hat \/ (InMessage(got[fd]) /\ b # Dollar)
      BY <2>4, <2>6, InMessageStep
    <3>2. state[fd] \in {"WAIT_FOR_MSG", "IN_MSG"} /\ Hat # Dollar
      BY <2>3 DEF TypeOK, States, Hat, Dollar
    <3> QED
      BY <2>5, <2>7, <3>1, <3>2 DEF EchoesOn
  <2>9. sent'[fd] \o Unsent(sendbuf'[fd], sendptr'[fd]) = <<Star>> \o Echo(got'[fd])
    <3>1. Echo(Append(got[fd], b)) = IF payload THEN Append(Echo(got[fd]), Inc(b)) ELSE Echo(got[fd])
      BY <2>4, <2>6, <2>7, EchoStep, Zenon DEF EchoesOn
    <3>2. CASE payload
      <4>1. Unsent(sendbuf'[fd], sendptr'[fd]) = Append(rest, Inc(b))
        BY <2>4, <2>5, <2>6, <3>2, UnsentAppend
      <4>2. sent[fd] \o Append(rest, Inc(b)) = Append(sent[fd] \o rest, Inc(b))
        BY <2>4, <2>6, ConcatAppend, Zenon
      <4>3. <<Star>> \o Append(Echo(got[fd]), Inc(b)) = Append(<<Star>> \o Echo(got[fd]), Inc(b))
        BY <2>4, <2>6, ConcatAppend
      <4>4. sent[fd] \o rest = <<Star>> \o Echo(got[fd])
        BY <2>7 DEF EchoesOn
      <4> QED
        BY <2>5, <3>1, <3>2, <4>1, <4>2, <4>3, <4>4, Zenon
    <3>3. CASE ~payload
      BY <2>5, <2>7, <3>1, <3>3, Zenon DEF EchoesOn
    <3> QED
      BY <3>2, <3>3, Zenon
  <2>10. EchoesOn(fd)'
    BY <2>8, <2>9 DEF EchoesOn
  <2> QED
    BY <1>0, <2>5, <2>10, EchoesUntouched DEF EchoInv
<1>8. CASE ConsumeDone
  <2>1. job.fd \in FD
    BY <1>8 DEF TypeOK, ConsumeDone, Call
  <2> QED
    BY <1>2, <1>3, <1>8, <2>1 DEF ConsumeDone, peers
<1>9. CASE UNCHANGED vars
  BY <1>2, <1>9 DEF vars, peers
<1> QED
  BY <1>1, <1>4, <1>5, <1>6, <1>7, <1>8, <1>9 DEF Next

\* Whatever the buffer size, the input, its cut into reads and the output's cut into
\* writes, a peer is sent the acknowledgement and the echo of exactly what it said,
\* also on a descriptor that had another owner before.
THEOREM PeerEchoExact == Spec => []EchoExact
<1>1. Init => EchoInv
  BY DEF Init, EchoInv
<1>2. EchoInv => EchoExact
  BY Zenon DEF EchoInv, EchoesOn, EchoExact, Unsent
<1> QED
  BY <1>1, <1>2, EchoNext, InvAlways, PTL DEF Spec

-----------------------------------------------------------------------------
\* The state machine's side of the contract with the event loops.

\* A peer has staged output that no running peer_consume is still adding to.
Out(fd) == peer_pending(fd) > 0 /\ Idle(fd)
Outs == {fd \in FD : Out(fd)}

\* peer_consume runs only on a peer whose last status asked for input.
JobReads == job # NoJob => want[job.fd] = R

\* Every step keeps it: nothing else is called while peer_consume runs.
LEMMA JobReadsNext == TypeOK /\ PeerInv /\ JobReads /\ [Next]_vars => JobReads'
<1> SUFFICES ASSUME TypeOK, PeerInv, JobReads, [Next]_vars
             PROVE  JobReads'
  OBVIOUS
<1>1. ASSUME NEW fd \in FD, NEW data \in Reads(fd), RecvData(fd, data)
      PROVE  JobReads'
  <2>1. want[fd] = R
    BY <1>1, ReadableIsDrained DEF RecvData
  <2>2. \/ job' = NoJob
        \/ job' = [fd |-> fd, data |-> data, status |-> R] /\ UNCHANGED want
    BY <1>1 DEF RecvData
  <2>3. CASE job' = NoJob
    BY <2>3 DEF JobReads
  <2>4. CASE job' = [fd |-> fd, data |-> data, status |-> R] /\ UNCHANGED want
    BY <2>1, <2>4 DEF JobReads
  <2> QED
    BY <2>2, <2>3, <2>4
<1>2. CASE ConsumeByte
  <2>1. state[job.fd] # "INITIAL_ACK"
    BY <1>2 DEF ConsumeByte, PeerInv, JobFits
  <2> QED
    BY <1>2, <2>1 DEF ConsumeByte, JobReads
<1>3. CASE ConsumeDone
  BY <1>3 DEF ConsumeDone, JobReads
<1>4. ASSUME NEW fd \in FD,
             \/ peer_on_connected(fd) \/ peer_fail(fd) \/ RecvNothing(fd) \/ SendNothing(fd)
             \/ \E n \in 1 .. SENDBUF_SIZE : SendSome(fd, n)
      PROVE  JobReads'
  BY <1>4 DEF peer_on_connected, peer_fail, RecvNothing, SendNothing, SendSome, JobReads
<1>5. CASE UNCHANGED vars
  BY <1>5 DEF vars, JobReads
<1> QED
  BY <1>1, <1>2, <1>3, <1>4, <1>5 DEF Next

\* What a handler does to the peer it works on, as the contract sees it: nothing,
\* or one step of the contract, and nothing to any other peer.
PeerStep(fd) ==
  /\ \A g \in FD \ {fd} : Out(g)' <=> Out(g)
  /\ \/ UNCHANGED <<open, want>> /\ (Out(fd)' <=> Out(fd))
     \/ fd \notin open /\ open' = open \cup {fd} /\ want' = [want EXCEPT ![fd] = W] /\ Out(fd)'
     \/ /\ fd \in open /\ open' = open \ {fd} /\ want' = [want EXCEPT ![fd] = NORW]
        /\ Out(fd)' <=> Out(fd)
     \/ /\ fd \in open /\ want[fd] = R /\ open' = open
        /\ want' = [want EXCEPT ![fd] = W] /\ Out(fd)'
     \/ /\ fd \in open /\ want[fd] = W /\ open' = open
        /\ want' = [want EXCEPT ![fd] = R] /\ ~Out(fd)'

\* Such a step is a step of the contract.
LEMMA PeerStepIsContract ==
  ASSUME NEW fd \in FD, PeerStep(fd)
  PROVE  [Contract!Next]_(Contract!vars)
<1> USE DEF Contract!R, Contract!W, Contract!NORW, R, W, NORW
<1>0. \A g \in FD : g \in Outs <=> Out(g)
  BY DEF Outs
<1>0p. \A g \in FD : g \in Outs' <=> Out(g)'
  BY DEF Outs
<1>1. \A g \in FD \ {fd} : Out(g)' <=> Out(g)
  BY DEF PeerStep
<1>a. Outs \subseteq FD /\ Outs' \subseteq FD
  BY DEF Outs
<1> HIDE DEF Outs, Out
<1>2. Out(fd)' => Outs' = Outs \cup {fd}
  BY <1>0, <1>0p, <1>1, <1>a
<1>3. ~Out(fd)' => Outs' = Outs \ {fd}
  BY <1>0, <1>0p, <1>1, <1>a
<1>4. (Out(fd)' <=> Out(fd)) => Outs' = Outs
  BY <1>0, <1>0p, <1>1, <1>a
<1>5. Outs = {g \in FD : peer_pending(g) > 0 /\ (job # NoJob => job.fd # g)}
  BY DEF Outs, Out, Idle
<1>6. Outs' = {g \in FD : peer_pending(g) > 0 /\ (job # NoJob => job.fd # g)}'
  BY DEF Outs, Out, Idle
<1>7. CASE UNCHANGED <<open, want>> /\ (Out(fd)' <=> Out(fd))
  BY <1>4, <1>5, <1>6, <1>7 DEF Contract!vars
<1>8. CASE /\ fd \notin open /\ open' = open \cup {fd}
           /\ want' = [want EXCEPT ![fd] = W] /\ Out(fd)'
  <2>1. Contract!Connected(fd)
    BY <1>2, <1>5, <1>6, <1>8 DEF Contract!Connected
  <2> QED
    BY <2>1 DEF Contract!Next
<1>9. CASE /\ fd \in open /\ open' = open \ {fd}
           /\ want' = [want EXCEPT ![fd] = NORW] /\ (Out(fd)' <=> Out(fd))
  <2>1. Contract!Closed(fd)
    BY <1>4, <1>5, <1>6, <1>9 DEF Contract!Closed
  <2> QED
    BY <2>1 DEF Contract!Next
<1>10. CASE /\ fd \in open /\ want[fd] = R /\ open' = open
            /\ want' = [want EXCEPT ![fd] = W] /\ Out(fd)'
  <2>1. Contract!Staged(fd)
    BY <1>2, <1>5, <1>6, <1>10 DEF Contract!Staged
  <2> QED
    BY <2>1 DEF Contract!Next
<1>11. CASE /\ fd \in open /\ want[fd] = W /\ open' = open
            /\ want' = [want EXCEPT ![fd] = R] /\ ~Out(fd)'
  <2>1. Contract!Drained(fd)
    BY <1>3, <1>5, <1>6, <1>11 DEF Contract!Drained
  <2> QED
    BY <2>1 DEF Contract!Next
<1> QED
  BY <1>7, <1>8, <1>9, <1>10, <1>11 DEF PeerStep

\* With no peer_consume running, whether output is staged is a matter of two tables.
LEMMA OutWhenIdle ==
  ASSUME job = NoJob, job' = NoJob, NEW g \in FD,
         sendbuf'[g] = sendbuf[g], sendptr'[g] = sendptr[g]
  PROVE  Out(g)' <=> Out(g)
  BY DEF Out, Idle, peer_pending

\* Closing a peer leaves what it had staged.
LEMMA CloseStep ==
  ASSUME TypeOK, NEW fd \in FD, fd \in open, NEW reason, close_with(fd, reason),
         job = NoJob, UNCHANGED <<sendbuf, sendptr, job>>
  PROVE  PeerStep(fd)
<1>1. open' = open \ {fd} /\ want' = [want EXCEPT ![fd] = NORW]
  BY DEF close_with, Apply
<1>2. \A g \in FD : Out(g)' <=> Out(g)
  BY OutWhenIdle
<1> QED
  BY <1>1, <1>2 DEF PeerStep

\* Repeating the status of a peer changes nothing.
LEMMA SameStatusStep ==
  ASSUME TypeOK, PeerInv, NEW fd \in FD, fd \in open, Apply(fd, want[fd]), job = NoJob,
         UNCHANGED <<sendbuf, sendptr, job>>
  PROVE  PeerStep(fd)
<1>1. want[fd] # NORW
  BY Statuses DEF PeerInv, Settled, Idle
<1>2. want' = want /\ open' = open
  BY <1>1 DEF Apply, TypeOK
<1>3. \A g \in FD : Out(g)' <=> Out(g)
  BY OutWhenIdle
<1> QED
  BY <1>2, <1>3 DEF PeerStep

\* Every step of the state machine is a step of the contract or leaves it alone.
LEMMA ContractStep ==
  TypeOK /\ PeerInv /\ JobReads /\ [Next]_vars => [Contract!Next]_(Contract!vars)
<1> SUFFICES ASSUME TypeOK, PeerInv, JobReads, [Next]_vars
             PROVE  [Contract!Next]_(Contract!vars)
  OBVIOUS
<1>0. open \subseteq FD
  BY DEF TypeOK
<1>1. ASSUME NEW fd \in FD, peer_on_connected(fd)
      PROVE  PeerStep(fd)
  <2>1. /\ Len(sendbuf'[fd]) = 1 /\ sendptr'[fd] = 0 /\ job = NoJob /\ job' = NoJob
        /\ fd \notin open /\ open' = open \cup {fd} /\ want' = [want EXCEPT ![fd] = W]
    BY <1>1 DEF peer_on_connected, TypeOK
  <2>2. \A g \in FD \ {fd} : sendbuf'[g] = sendbuf[g] /\ sendptr'[g] = sendptr[g]
    BY <1>1 DEF peer_on_connected, TypeOK
  <2>3. Out(fd)'
    <3>1. peer_pending(fd)' = 1
      BY <2>1 DEF peer_pending
    <3> QED
      BY <2>1, <3>1 DEF Out, Idle
  <2>4. \A g \in FD \ {fd} : Out(g)' <=> Out(g)
    BY <2>1, <2>2, OutWhenIdle
  <2> QED
    BY <2>1, <2>3, <2>4 DEF PeerStep
<1>2. ASSUME NEW fd \in FD, peer_fail(fd)
      PROVE  PeerStep(fd)
  BY <1>2, CloseStep DEF peer_fail
<1>3. ASSUME NEW fd \in FD, RecvNothing(fd)
      PROVE  PeerStep(fd)
  <2>1. want[fd] = R /\ peer_recv_room(fd) # 0
    BY <1>3, ReadableIsDrained, SizeAssumption DEF RecvNothing
  <2>2. CASE Apply(fd, R)
    BY <1>3, <2>1, <2>2, SameStatusStep DEF RecvNothing
  <2>3. CASE \E reason \in {"peer closed", "peer reset", "error"} : close_with(fd, reason)
    BY <1>3, <2>3, CloseStep DEF RecvNothing
  <2> QED
    BY <1>3, <2>1, <2>2, <2>3 DEF RecvNothing
<1>4. ASSUME NEW fd \in FD, SendNothing(fd)
      PROVE  PeerStep(fd)
  <2>1. want[fd] = W /\ peer_pending(fd) # 0
    <3>1. want[fd] = W /\ sendptr[fd] < Len(sendbuf[fd])
      BY <1>4, WritableIsPending DEF SendNothing
    <3> QED
      BY <3>1, Lengths DEF peer_pending
  <2>2. CASE Apply(fd, W)
    BY <1>4, <2>1, <2>2, SameStatusStep DEF SendNothing
  <2>3. CASE \E reason \in {"peer reset", "error"} : close_with(fd, reason)
    BY <1>4, <2>3, CloseStep DEF SendNothing
  <2> QED
    BY <1>4, <2>1, <2>2, <2>3 DEF SendNothing
<1>5. ASSUME NEW fd \in FD, NEW data \in Reads(fd), RecvData(fd, data)
      PROVE  PeerStep(fd)
  <2>1. /\ sendptr[fd] = 0 /\ Len(sendbuf[fd]) = 0 /\ peer_recv_room(fd) = SENDBUF_SIZE
    BY <1>5, ReadableIsDrained DEF RecvData
  <2>2. Len(data) \in Nat /\ Len(data) <= SENDBUF_SIZE
    BY <2>1, ReadsFit
  <2>3. /\ job = NoJob /\ job' = [fd |-> fd, data |-> data, status |-> R]
        /\ UNCHANGED <<open, want, sendbuf, sendptr>>
    <3>1. ~(Len(data) > peer_recv_room(fd))
      BY <2>1, <2>2, SizeAssumption
    <3> QED
      BY <1>5, <3>1 DEF RecvData
  <2>4. ~Out(fd) /\ ~Out(fd)'
    <3>1. peer_pending(fd) = 0
      BY <2>1 DEF peer_pending
    <3>2. peer_pending(fd)' = 0
      BY <2>1, <2>3 DEF peer_pending
    <3> QED
      BY <3>1, <3>2 DEF Out
  <2>5. \A g \in FD \ {fd} : Out(g)' <=> Out(g)
    <3>1. job'.fd = fd
      BY <2>3
    <3> QED
      BY <2>3, <3>1 DEF Out, Idle, peer_pending
  <2> QED
    BY <2>3, <2>4, <2>5 DEF PeerStep
<1>6. ASSUME NEW fd \in FD, NEW n \in 1 .. SENDBUF_SIZE, SendSome(fd, n)
      PROVE  PeerStep(fd)
  <2>1. /\ n \in Nat /\ n > 0 /\ n <= peer_pending(fd) /\ fd \in open
        /\ job = NoJob /\ job' = NoJob /\ want[fd] = W
    BY <1>0, <1>6, WritableIsPending, SizeAssumption DEF SendSome
  <2>2. \A g \in FD \ {fd} : sendbuf'[g] = sendbuf[g] /\ sendptr'[g] = sendptr[g]
    BY <1>6 DEF SendSome, TypeOK
  <2>3. \A g \in FD \ {fd} : Out(g)' <=> Out(g)
    BY <2>1, <2>2, OutWhenIdle
  <2>4. CASE n < peer_pending(fd)
    <3>1. sendptr'[fd] = sendptr[fd] + n /\ sendbuf' = sendbuf /\ Apply(fd, W)
      BY <1>6, <2>4 DEF SendSome, TypeOK
    <3>2. UNCHANGED <<open, want>>
      BY <2>1, <3>1, Statuses DEF Apply, TypeOK
    <3>3. Out(fd)
      BY <2>1, Lengths DEF Out, Idle, peer_pending
    <3>4. Out(fd)'
      <4>1. Len(sendbuf[fd]) - (sendptr[fd] + n) > 0
        BY <2>1, <2>4, Lengths DEF peer_pending
      <4>2. Len(sendbuf'[fd]) - sendptr'[fd] > 0
        BY <3>1, <4>1
      <4> QED
        BY <2>1, <4>2 DEF Out, Idle, peer_pending
    <3> QED
      BY <2>3, <3>2, <3>3, <3>4 DEF PeerStep
  <2>5. CASE ~(n < peer_pending(fd))
    <3>1. sendptr'[fd] = 0 /\ sendbuf'[fd] = <<>> /\ Apply(fd, R)
      BY <1>6, <2>5 DEF SendSome, TypeOK
    <3>2. open' = open /\ want' = [want EXCEPT ![fd] = R]
      BY <3>1, Statuses DEF Apply
    <3>3. ~Out(fd)'
      <4>1. Len(sendbuf'[fd]) = 0
        BY <3>1, EmptySeq
      <4>2. peer_pending(fd)' = 0
        BY <3>1, <4>1 DEF peer_pending
      <4> QED
        BY <4>2 DEF Out
    <3> QED
      BY <2>1, <2>3, <3>2, <3>3 DEF PeerStep
  <2> QED
    BY <2>4, <2>5
<1>7. CASE ConsumeByte
  <2>1. PICK fd \in FD : fd = job.fd
    BY <1>7 DEF TypeOK, ConsumeByte, Call
  <2>2. state[fd] # "INITIAL_ACK" /\ job # NoJob /\ job.data \in Seq(Byte) /\ job.data # <<>>
    BY <1>7, <2>1 DEF ConsumeByte, PeerInv, JobFits, TypeOK, Call
  <2>3. /\ UNCHANGED <<open, want, sendptr>> /\ job'.fd = fd
        /\ \A g \in FD \ {fd} : sendbuf'[g] = sendbuf[g]
    BY <1>7, <2>1, <2>2 DEF ConsumeByte, TypeOK
  <2>4. job' # NoJob
    <3>1. job.status \in {R, W} /\ Tail(job.data) \in Seq(Byte)
      BY <2>2, HeadTailProperties DEF TypeOK, Call
    <3>2. PICK s \in {R, W} : job' = [fd |-> fd, data |-> Tail(job.data), status |-> s]
      BY <1>7, <2>1, <2>2, <3>1 DEF ConsumeByte
    <3>3. job' \in Call
      BY <3>1, <3>2 DEF Call
    <3> QED
      BY <3>3, NoJobAssumption
  <2>5. ~Out(fd) /\ ~Out(fd)'
    BY <2>1, <2>2, <2>3, <2>4 DEF Out, Idle
  <2>6. \A g \in FD \ {fd} : Out(g)' <=> Out(g)
    BY <2>1, <2>2, <2>3 DEF Out, Idle, peer_pending
  <2>7. PeerStep(fd)
    BY <2>3, <2>5, <2>6 DEF PeerStep
  <2> QED
    BY <2>7, PeerStepIsContract
<1>8. CASE ConsumeDone
  <2>1. PICK fd \in FD : fd = job.fd
    BY <1>8 DEF TypeOK, ConsumeDone, Call
  <2>2. /\ fd \in open /\ sendptr[fd] = 0 /\ want[fd] = R /\ job # NoJob
        /\ job.status = IF Len(sendbuf[fd]) > 0 THEN W ELSE R
    BY <1>8, <2>1 DEF ConsumeDone, PeerInv, JobFits, JobReads
  <2>3. /\ open' = open /\ want' = [want EXCEPT ![fd] = job.status]
        /\ job' = NoJob /\ UNCHANGED <<sendbuf, sendptr>>
    BY <1>8, <2>1, <2>2, Statuses DEF ConsumeDone, Apply, peers
  <2>4. ~Out(fd)
    BY <2>1, <2>2 DEF Out, Idle
  <2>5. \A g \in FD \ {fd} : Out(g)' <=> Out(g)
    BY <2>1, <2>2, <2>3 DEF Out, Idle, peer_pending
  <2>6. Out(fd)' <=> Len(sendbuf[fd]) > 0
    <3>1. peer_pending(fd)' = Len(sendbuf[fd])
      BY <2>2, <2>3, Lengths DEF peer_pending
    <3> QED
      BY <2>3, <3>1 DEF Out, Idle
  <2>7. PeerStep(fd)
    <3>1. CASE Len(sendbuf[fd]) > 0
      BY <2>2, <2>3, <2>5, <2>6, <3>1, Zenon DEF PeerStep
    <3>2. CASE ~(Len(sendbuf[fd]) > 0)
      <4>1. want' = want
        BY <2>2, <2>3, <3>2 DEF TypeOK
      <4> QED
        BY <2>3, <2>4, <2>5, <2>6, <3>2, <4>1 DEF PeerStep
    <3> QED
      BY <3>1, <3>2
  <2> QED
    BY <2>7, PeerStepIsContract
<1>9. CASE UNCHANGED vars
  BY <1>9 DEF vars, peers, Contract!vars, peer_pending
<1> QED
  BY <1>1, <1>2, <1>3, <1>4, <1>5, <1>6, <1>7, <1>8, <1>9, PeerStepIsContract DEF Next

\* peer_state.c keeps its side of the contract for every buffer size, every set of
\* descriptors, every input and every way of cutting reads and writes: the loops
\* may rely on the returned status alone.
THEOREM StateMachineKeepsContract == Spec => ImplementsContract
<1>1. Init => Contract!Init /\ JobReads
  <2> SUFFICES ASSUME Init
               PROVE  Contract!Init /\ JobReads
    OBVIOUS
  <2>1. \A fd \in FD : peer_pending(fd) = 0
    BY EmptySeq DEF Init, peer_pending
  <2>2. {fd \in FD : peer_pending(fd) > 0 /\ (job # NoJob => job.fd # fd)} = {}
    BY <2>1
  <2> QED
    BY <2>2 DEF Init, Contract!Init, Contract!NORW, NORW, JobReads
<1> QED
  BY <1>1, JobReadsNext, ContractStep, InvAlways, PTL
     DEF Spec, ImplementsContract, Contract!Spec

=============================================================================
