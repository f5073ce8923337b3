------------------------------ MODULE UringLoop ------------------------------
(***************************************************************************)
(* uring_server.c: the loop queues operations, submits them in batches and *)
(* handles completions; the kernel performs the operations in any order    *)
(* and on its own.  An operation is a pair <<op, fd>>; its completion      *)
(* repeats them and adds the result and the descriptor it is about, which  *)
(* for an accept is the new one.  The order in which the completions that  *)
(* are there get handled is left open.                                     *)
(***************************************************************************)
EXTENDS Sockets

CONSTANT Depth

VARIABLES
  sq,        \* operations queued and not submitted
  inflight,  \* operations the kernel works on
  cq,        \* completions not handled
  pc         \* "submit", "wait", "drain": where the loop is

ring == <<sq, inflight, cq>>
vars == <<sockets, ring, pc>>

Accept == <<"accept", Listener>>
Recv(fd) == <<"recv", fd>>
Send(fd) == <<"send", fd>>

Init == SocketsInit /\ sq = {Accept} /\ inflight = {} /\ cq = {} /\ pc = "submit"

-----------------------------------------------------------------------------
\* Queueing.

\* A ring here is the pair of what is queued and what was submitted.
Ring == <<sq, inflight>>

SetRing(r) == sq' = r[1] /\ inflight' = r[2]

\* A full submission queue is flushed before the operation is put in.
get_sqe(r, op) ==
  IF Cardinality(r[1]) < Depth THEN <<r[1] \cup {op}, r[2]>> ELSE <<{op}, r[2] \cup r[1]>>

queue_accept(r) == get_sqe(r, Accept)

queue_recv(r, fd) == get_sqe(r, Recv(fd))

queue_send(r, fd, staged) == IF fd \in staged THEN get_sqe(r, Send(fd)) ELSE queue_recv(r, fd)

\* Mutant: after a short write the loop goes back to reading.
arm_next_reads(r, fd, status, staged) ==
  /\ pending' = staged
  /\ open' = IF status = NORW THEN open \ {fd} ELSE open
  /\ SetRing(IF status = NORW THEN r ELSE queue_recv(r, fd))

\* Mutant: the next operation is queued although the descriptor was closed.
arm_next_closed(r, fd, status, staged) ==
  /\ pending' = staged
  /\ open' = IF status = NORW THEN open \ {fd} ELSE open
  /\ SetRing(IF status = W THEN queue_send(r, fd, staged) ELSE queue_recv(r, fd))

arm_next(r, fd, status, staged) ==
  /\ pending' = staged
  /\ open' = IF status = NORW THEN open \ {fd} ELSE open
  /\ SetRing(IF status = NORW THEN r
             ELSE IF status = W THEN queue_send(r, fd, staged)
             ELSE queue_recv(r, fd))

-----------------------------------------------------------------------------
\* The kernel.

PostFor(op, res, fd) ==
  /\ inflight' = inflight \ {op} /\ cq' = cq \cup {<<op[1], op[2], res, fd>>}
  /\ UNCHANGED <<sq, pc>>

Post(op, res) == PostFor(op, res, op[2])

KernelAccepts(fd) == Accept \in inflight /\ PostFor(Accept, "ok", fd) /\ accept(fd) /\ UNCHANGED pending

\* A connection given up by its client, or no descriptor left.
KernelAcceptFails ==
  /\ Accept \in inflight /\ Post(Accept, "error")
  /\ backlog > 0 \/ Cardinality(open) >= rlimit
  /\ backlog' = IF Cardinality(open) >= rlimit THEN backlog ELSE backlog - 1
  /\ UNCHANGED <<open, pending, unread, gone, offered, rlimit>>

\* A recv with no room, which is one queued with output staged, returns 0 at once.
KernelReceives(fd) ==
  /\ Recv(fd) \in inflight /\ fd \notin pending /\ unread[fd] > 0
  /\ Post(Recv(fd), "data")
  /\ \E n \in 0 .. unread[fd] - 1 : unread' = [unread EXCEPT ![fd] = n]
  /\ UNCHANGED <<open, pending, gone, backlog, offered, rlimit>>

KernelEof(fd) ==
  /\ Recv(fd) \in inflight /\ Post(Recv(fd), "eof")
  /\ fd \in pending \/ (gone[fd] = "fin" /\ unread[fd] = 0)
  /\ UNCHANGED sockets

KernelSends(fd) ==
  /\ Send(fd) \in inflight
  /\ \E res \in {"all", "some"} : Post(Send(fd), res)
  /\ UNCHANGED sockets

\* EINTR or EAGAIN at any time, an error after a reset or on a closed descriptor.
KernelFails(op) ==
  /\ op \in inflight \ {Accept}
  /\ \/ Post(op, "again")
     \/ (gone[op[2]] = "rst" \/ op[2] \notin open) /\ Post(op, "error")
  /\ UNCHANGED sockets

Kernel ==
  \/ KernelAcceptFails
  \/ \E fd \in Number : KernelAccepts(fd)
  \/ \E fd \in FD : KernelReceives(fd) \/ KernelEof(fd) \/ KernelSends(fd)
                      \/ KernelFails(Recv(fd)) \/ KernelFails(Send(fd))

-----------------------------------------------------------------------------
\* The loop.

\* io_uring_submit.
Submit ==
  /\ pc = "submit" /\ pc' = "wait"
  /\ inflight' = inflight \cup sq /\ sq' = {}
  /\ UNCHANGED <<sockets, cq>>

\* io_uring_wait_cqe returned and every completion posted by now is handled.
DrainDone == pc = "drain" /\ cq = {} /\ pc' = "submit" /\ UNCHANGED <<sockets, ring>>

Take(c) == pc \in {"wait", "drain"} /\ c \in cq /\ cq' = cq \ {c} /\ pc' = "drain"

\* Mutant: the accept is armed again only once a peer came of it.
HandleAcceptLate(c) ==
  /\ Take(c) /\ c[1] = "accept"
  /\ IF c[4] \in FD THEN arm_next(queue_accept(Ring), c[4], W, pending \cup {c[4]})
     ELSE open' = open \ {c[4]} /\ UNCHANGED <<sq, inflight, pending>>
  /\ UNCHANGED <<unread, gone, backlog, offered, rlimit>>

\* The accept is armed again first; then the peer gets its acknowledgement, or is
\* refused when its number is beyond the peer table, or there is none.
HandleAccept(c) ==
  /\ Take(c) /\ c[1] = "accept"
  /\ IF c[4] \in FD THEN arm_next(queue_accept(Ring), c[4], W, pending \cup {c[4]})
     ELSE /\ SetRing(queue_accept(Ring))
          /\ open' = open \ {c[4]} /\ UNCHANGED pending
  /\ UNCHANGED <<unread, gone, backlog, offered, rlimit>>

HandleRecv(c) ==
  /\ Take(c) /\ c[1] = "recv"
  /\ CASE c[3] = "again" -> arm_next(Ring, c[2], R, pending)
       [] c[3] \in {"error", "eof"} -> arm_next(Ring, c[2], NORW, pending)
       [] c[3] = "data" -> \/ arm_next(Ring, c[2], R, pending)
                           \/ arm_next(Ring, c[2], W, pending \cup {c[2]})
  /\ UNCHANGED <<unread, gone, backlog, offered, rlimit>>

HandleSend(c) ==
  /\ Take(c) /\ c[1] = "send"
  /\ CASE c[3] \in {"again", "some"} -> arm_next(Ring, c[2], W, pending)
       [] c[3] = "error" -> arm_next(Ring, c[2], NORW, pending)
       [] c[3] = "all" -> arm_next(Ring, c[2], R, pending \ {c[2]})
  /\ UNCHANGED <<unread, gone, backlog, offered, rlimit>>

Handle(c) == HandleAccept(c) \/ HandleRecv(c) \/ HandleSend(c)

ClientStep == Clients /\ UNCHANGED <<ring, pc>>

Next == ClientStep \/ Kernel \/ Submit \/ DrainDone \/ \E c \in cq : Handle(c)

SafeSpec == Init /\ [][Next]_vars

\* The loop runs whenever it is not waiting, and takes completions in order; the
\* kernel performs what it can, and does not answer EAGAIN for ever; a client
\* that keeps its connection drains what it is sent sooner or later.
Fairness ==
  /\ WF_vars(Submit) /\ WF_vars(DrainDone)
  /\ WF_vars(\E fd \in Number : KernelAccepts(fd))
  /\ \A fd \in FD :
       /\ WF_vars(\E c \in cq : c[2] = fd /\ Handle(c))
       /\ SF_vars(KernelReceives(fd))
       /\ SF_vars(Send(fd) \in inflight /\ Post(Send(fd), "all") /\ UNCHANGED sockets)
  /\ WF_vars(\E c \in cq : HandleAccept(c))

Spec == SafeSpec /\ Fairness

-----------------------------------------------------------------------------
\* Properties.

\* Everything outstanding that concerns d, wherever it is.
Outstanding(d) ==
  {<<"sq", op>> : op \in {o \in sq : o[2] = d}}
    \cup {<<"kernel", op>> : op \in {o \in inflight : o[2] = d}}
    \cup {<<"cq", c>> : c \in {x \in cq : d \in {x[2], x[4]}}}

\* Completions are never stale and buffers never shared: an open descriptor has
\* exactly one operation, completion or unhandled accept to its name, a closed one
\* none, so its number can be reused and the one buffer it owns is either the
\* kernel's or the loop's.  The listener has exactly one, so accept_addr, which is
\* read after the accept was armed again, still belongs to the completion handled.
OneOutstanding ==
  /\ \A fd \in open : Cardinality(Outstanding(fd)) = 1
  /\ \A fd \in Number \ open : Outstanding(fd) = {}
  /\ Cardinality(Outstanding(Listener)) = 1

Everything ==
  {<<"sq", op>> : op \in sq} \cup {<<"kernel", op>> : op \in inflight} \cup {<<"cq", c>> : c \in cq}

\* Nothing grows without bound: the submission queue holds no more than it was made for,
\* so that "submission queue exhausted" ends no server whose kernel takes submissions, and
\* there is at most one operation or completion per open descriptor besides the accept.
RingBounded ==
  /\ Cardinality(sq) <= Depth
  /\ Cardinality(open) <= rlimit
  /\ Cardinality(Everything) <= Cardinality(open) + 1

Served == {fd \in FD \cap open : <<"accept", Listener, "ok", fd>> \notin cq}

Interest ==
  [fd \in FD |-> UNION {IF x[2][1] = "recv" THEN R ELSE W :
                          x \in {y \in Outstanding(fd) : y[2][1] # "accept"}}]

Contract == INSTANCE PeerContract WITH open <- Served, want <- Interest

\* The loop keeps its side of the contract with peer_state.c, with the operation
\* outstanding as the record of what each peer was last told to wait for.
KeepsContract == Contract!Spec

=============================================================================
