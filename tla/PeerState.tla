----------------------------- MODULE PeerState -----------------------------
(***************************************************************************)
(* peer_state.c: the per-descriptor state machine behind the select, epoll *)
(* and io_uring servers, driven by any event loop that acts on the status  *)
(* the last call returned (want) and on nothing else: it reads only a peer *)
(* whose status says so, writes only a peer whose status says so, and      *)
(* closes a peer whose status says neither.  Which ready peer comes next,  *)
(* how many bytes a recv or a send moves, and every error are free.        *)
(***************************************************************************)
EXTENDS Integers, Sequences, Framing

CONSTANTS
  FD,           \* descriptors below peer_capacity
  Byte,         \* the bytes clients send
  SENDBUF_SIZE,
  NoJob,        \* peer_consume is not running
  MaxBytes      \* bound: bytes received on one connection

ASSUME SizeAssumption == SENDBUF_SIZE \in Nat \ {0}
ASSUME ByteAssumption == Byte \subseteq Octet
ASSUME MaxBytesAssumption == MaxBytes \in Nat

VARIABLES
  state, sendbuf, sendptr, close_reason,  \* peers[], sendbuf up to sendbuf_end
  open, want,    \* open descriptors, and the fd_status_t each was given last
  job,           \* the peer_consume call in progress: a Call, or NoJob
  got, sent      \* history: bytes consumed from, and sent to, the current peer

peers == <<state, sendbuf, sendptr, close_reason>>
vars == <<peers, open, want, job, got, sent>>

R == {"read"}
W == {"write"}
RW == {"read", "write"}
NORW == {}

\* Calls of peer_consume: ready_to_send is kept as the status it stands for.
Call == [fd : FD, data : Seq(Byte), status : {R, W}]

ASSUME NoJobAssumption == NoJob \notin Call

Init ==
  /\ state = [fd \in FD |-> "INITIAL_ACK"]
  /\ sendbuf = [fd \in FD |-> <<>>]
  /\ sendptr = [fd \in FD |-> 0]
  /\ close_reason = [fd \in FD |-> "none"]
  /\ open = {} /\ want = [fd \in FD |-> NORW]
  /\ job = NoJob
  /\ got = [fd \in FD |-> <<>>] /\ sent = [fd \in FD |-> <<>>]

\* What the servers do with a returned status: apply_status, or arm_next.
Apply(fd, status) ==
  /\ want' = [want EXCEPT ![fd] = status]
  /\ open' = IF status = NORW THEN open \ {fd} ELSE open

close_with(fd, reason) ==
  /\ close_reason' = [close_reason EXCEPT ![fd] = reason]
  /\ Apply(fd, NORW)

\* Mutant: the parser state of the previous owner survives.
peer_on_connected_stale(fd) ==
  /\ job = NoJob /\ fd \notin open
  /\ sendbuf' = [sendbuf EXCEPT ![fd] = <<Star>>]
  /\ sendptr' = [sendptr EXCEPT ![fd] = 0]
  /\ close_reason' = [close_reason EXCEPT ![fd] = "none"]
  /\ open' = open \cup {fd} /\ want' = [want EXCEPT ![fd] = W]
  /\ got' = [got EXCEPT ![fd] = <<>>] /\ sent' = [sent EXCEPT ![fd] = <<>>]
  /\ UNCHANGED <<state, job>>

peer_on_connected(fd) ==
  /\ job = NoJob /\ fd \notin open
  /\ state' = [state EXCEPT ![fd] = "INITIAL_ACK"]
  /\ sendbuf' = [sendbuf EXCEPT ![fd] = <<Star>>]
  /\ sendptr' = [sendptr EXCEPT ![fd] = 0]
  /\ close_reason' = [close_reason EXCEPT ![fd] = "none"]
  /\ open' = open \cup {fd} /\ want' = [want EXCEPT ![fd] = W]
  /\ got' = [got EXCEPT ![fd] = <<>>] /\ sent' = [sent EXCEPT ![fd] = <<>>]
  /\ UNCHANGED job

\* A failure the caller saw itself, such as a failed completion; then it closes.
peer_fail(fd) ==
  /\ job = NoJob /\ fd \in open
  /\ close_with(fd, "failed")
  /\ UNCHANGED <<state, sendbuf, sendptr, job, got, sent>>

-----------------------------------------------------------------------------
\* Reading.

peer_recv_room(fd) ==
  IF state[fd] = "INITIAL_ACK" \/ sendptr[fd] < Len(sendbuf[fd])
  THEN 0 ELSE SENDBUF_SIZE - Len(sendbuf[fd])

\* Mutant: the caller asks for more than there is room for.
recv_want_over(fd) == peer_recv_room(fd) + 1

\* How much peer_on_ready_recv asks recv for; its buffer has SENDBUF_SIZE bytes.
recv_want(fd) ==
  IF peer_recv_room(fd) < SENDBUF_SIZE THEN peer_recv_room(fd) ELSE SENDBUF_SIZE

\* recv of up to recv_want bytes hands data to peer_consume, which refuses more than room.
RecvData(fd, data) ==
  /\ job = NoJob /\ fd \in open /\ "read" \in want[fd]
  /\ IF Len(data) > peer_recv_room(fd)
     THEN close_with(fd, "internal error") /\ UNCHANGED job
     ELSE job' = [fd |-> fd, data |-> data, status |-> R] /\ UNCHANGED <<close_reason, open, want>>
  /\ UNCHANGED <<state, sendbuf, sendptr, got, sent>>

\* The other outcomes of peer_on_ready_recv: no room, EINTR or EAGAIN, end of
\* file, ECONNRESET, any other error.
RecvNothing(fd) ==
  /\ job = NoJob /\ fd \in open /\ "read" \in want[fd]
  /\ \/ /\ Apply(fd, IF peer_recv_room(fd) = 0 THEN W ELSE R)
        /\ UNCHANGED close_reason
     \/ /\ peer_recv_room(fd) # 0
        /\ \E reason \in {"peer closed", "peer reset", "error"} : close_with(fd, reason)
  /\ UNCHANGED <<state, sendbuf, sendptr, job, got, sent>>

\* One turn of the loop of peer_consume.
ConsumeByte ==
  /\ job # NoJob /\ job.data # <<>>
  /\ LET fd == job.fd
         b == Head(job.data)
         payload == state[fd] = "IN_MSG" /\ b # Dollar
     IN
     /\ got' = [got EXCEPT ![fd] = Append(@, b)]
     /\ IF state[fd] = "INITIAL_ACK"
        THEN close_with(fd, "internal error") /\ job' = NoJob /\ UNCHANGED <<state, sendbuf>>
        ELSE /\ state' = [state EXCEPT ![fd] =
                            IF @ = "WAIT_FOR_MSG" /\ b = Hat THEN "IN_MSG"
                            ELSE IF @ = "IN_MSG" /\ b = Dollar THEN "WAIT_FOR_MSG" ELSE @]
             /\ sendbuf' = [sendbuf EXCEPT ![fd] = IF payload THEN Append(@, Inc(b)) ELSE @]
             /\ job' = [fd |-> fd, data |-> Tail(job.data),
                        status |-> IF payload THEN W ELSE job.status]
             /\ UNCHANGED <<close_reason, open, want>>
  /\ UNCHANGED <<sendptr, sent>>

\* Mutant: always asks for more input.
ConsumeDoneReads ==
  /\ job # NoJob /\ job.data = <<>>
  /\ Apply(job.fd, R)
  /\ job' = NoJob
  /\ UNCHANGED <<peers, got, sent>>

ConsumeDone ==
  /\ job # NoJob /\ job.data = <<>>
  /\ Apply(job.fd, job.status)
  /\ job' = NoJob
  /\ UNCHANGED <<peers, got, sent>>

-----------------------------------------------------------------------------
\* Writing.

peer_pending(fd) == Len(sendbuf[fd]) - sendptr[fd]

\* Mutant: a drained buffer loses its end but not its read position.
SendSomeKeepsPtr(fd, n) ==
  /\ job = NoJob /\ fd \in open /\ "write" \in want[fd]
  /\ n \in 1 .. peer_pending(fd)
  /\ sent' = [sent EXCEPT ![fd] = @ \o SubSeq(sendbuf[fd], sendptr[fd] + 1, sendptr[fd] + n)]
  /\ sendptr' = [sendptr EXCEPT ![fd] = @ + n]
  /\ IF n < peer_pending(fd)
     THEN Apply(fd, W) /\ UNCHANGED <<state, sendbuf>>
     ELSE /\ sendbuf' = [sendbuf EXCEPT ![fd] = <<>>]
          /\ state' = [state EXCEPT ![fd] = IF @ = "INITIAL_ACK" THEN "WAIT_FOR_MSG" ELSE @]
          /\ Apply(fd, R)
  /\ UNCHANGED <<close_reason, job, got>>

\* send moves n bytes of what is pending, then peer_sent.
SendSome(fd, n) ==
  /\ job = NoJob /\ fd \in open /\ "write" \in want[fd]
  /\ n \in 1 .. peer_pending(fd)
  /\ sent' = [sent EXCEPT ![fd] = @ \o SubSeq(sendbuf[fd], sendptr[fd] + 1, sendptr[fd] + n)]
  /\ IF n < peer_pending(fd)
     THEN /\ sendptr' = [sendptr EXCEPT ![fd] = @ + n]
          /\ Apply(fd, W)
          /\ UNCHANGED <<state, sendbuf>>
     ELSE /\ sendptr' = [sendptr EXCEPT ![fd] = 0]
          /\ sendbuf' = [sendbuf EXCEPT ![fd] = <<>>]
          /\ state' = [state EXCEPT ![fd] = IF @ = "INITIAL_ACK" THEN "WAIT_FOR_MSG" ELSE @]
          /\ Apply(fd, R)
  /\ UNCHANGED <<close_reason, job, got>>

\* The other outcomes of peer_on_ready_send: nothing pending, EINTR or EAGAIN,
\* ECONNRESET or EPIPE, any other error.
SendNothing(fd) ==
  /\ job = NoJob /\ fd \in open /\ "write" \in want[fd]
  /\ \/ /\ Apply(fd, IF peer_pending(fd) = 0 THEN RW ELSE W)
        /\ UNCHANGED close_reason
     \/ /\ peer_pending(fd) # 0
        /\ \E reason \in {"peer reset", "error"} : close_with(fd, reason)
  /\ UNCHANGED <<state, sendbuf, sendptr, job, got, sent>>

-----------------------------------------------------------------------------

\* What one recv can return, within the bound on the input.
Reads(fd) ==
  UNION {[1 .. n -> Byte] :
           n \in {m \in 1 .. recv_want(fd) : Len(got[fd]) + m <= MaxBytes}}

Next ==
  \/ \E fd \in FD :
       \/ peer_on_connected(fd) \/ peer_fail(fd)
       \/ RecvNothing(fd) \/ SendNothing(fd)
       \/ \E data \in Reads(fd) : RecvData(fd, data)
       \/ \E n \in 1 .. SENDBUF_SIZE : SendSome(fd, n)
  \/ ConsumeByte \/ ConsumeDone

Spec == Init /\ [][Next]_vars

-----------------------------------------------------------------------------
\* Properties.

Reasons == {"none", "failed", "peer closed", "peer reset", "error", "internal error"}

States == {"INITIAL_ACK", "WAIT_FOR_MSG", "IN_MSG"}

\* The type invariant.
TypeOK ==
  /\ state \in [FD -> States]
  /\ sendbuf \in [FD -> Seq(Octet)]
  /\ sendptr \in [FD -> Nat]
  /\ close_reason \in [FD -> Reasons]
  /\ open \subseteq FD
  /\ want \in [FD -> SUBSET RW]
  /\ job \in Call \cup {NoJob}
  /\ got \in [FD -> Seq(Byte)]
  /\ sent \in [FD -> Seq(Octet)]

\* "Provably in range": staging a byte never runs past the send buffer, however
\* the input is cut into reads and the output into writes.
BufferBounded == \A fd \in FD : sendptr[fd] <= Len(sendbuf[fd]) /\ Len(sendbuf[fd]) <= SENDBUF_SIZE

\* Neither of the two internal errors of peer_consume is ever reported: the room
\* asked for is still there, and no input is consumed before the acknowledgement
\* has gone out ("Unreachable").
NoInternalError == \A fd \in FD : close_reason[fd] # "internal error"

\* Between calls an open peer waits for exactly one thing: for writing iff output
\* is pending, for reading iff none is.  So no staged byte is stranded, no input is
\* read over unsent output, and no open peer is left out of both sets.
InterestMatchesBuffer ==
  \A fd \in open :
    (job # NoJob => job.fd # fd) =>
      want[fd] = IF peer_pending(fd) > 0 THEN W ELSE R

\* What a peer was sent, and is about to be sent, is the acknowledgement followed
\* by the echo of all it said, whatever the previous owner of the descriptor left.
EchoExact ==
  \A fd \in open :
    sent[fd] \o SubSeq(sendbuf[fd], sendptr[fd] + 1, Len(sendbuf[fd]))
      = <<Star>> \o Echo(got[fd])

Contract == INSTANCE PeerContract WITH
  pending <- {fd \in FD : peer_pending(fd) > 0 /\ (job # NoJob => job.fd # fd)}

\* The state machine keeps its side of the contract with the event loops: the
\* status it returns is for writing iff output is staged, whatever was read,
\* written or refused, and never for both or, while the peer is open, for neither.
ImplementsContract == Contract!Spec

=============================================================================
