------------------------------- MODULE UvServer -------------------------------
(***************************************************************************)
(* uv_server.c: the protocol as callbacks of libuv's loop.  libuv is       *)
(* external: uv_write writes at once what the socket takes, if no write is *)
(* queued before it, and the rest from the same buffer later; the callback *)
(* of a finished write comes before the next read of that client; a client *)
(* closed with writes queued gets their callbacks with an error.           *)
(***************************************************************************)
EXTENDS Framing, FiniteSets, SequencesExt

CONSTANTS
  Client,
  Byte,          \* bytes clients send
  KillByte,      \* a byte that stands for the three bytes WXY
  SENDBUF_SIZE,
  MaxInput       \* bound: bytes a client sends

ASSUME UvAssumption == Byte \cup {KillByte} \subseteq Octet /\ SENDBUF_SIZE \in Nat \ {0}

VARIABLES
  proc,  \* the process: "running", "stopped" by uv_stop, or "died"
  room,  \* whether sockets take every write whole: their clients read what they are sent
  peer   \* per client, its handle, its peer_state_t and its connection

vars == <<proc, room, peer>>

\* A write request: the first len bytes of sendbuf, of which the kernel took off.
Request(len, off) == [len |-> len, off |-> off]

Unconnected ==
  [handle |-> "none", state |-> "INITIAL_ACK", sendbuf |-> [k \in 1 .. SENDBUF_SIZE |-> 0],
   sendbuf_end |-> 0, writes |-> <<>>, sending |-> <<>>, gone |-> FALSE, got |-> <<>>, wire |-> <<>>]

Init == proc = "running" /\ room \in BOOLEAN /\ peer = [c \in Client |-> Unconnected]

Becomes(c, p) == peer' = [peer EXCEPT ![c] = p] /\ UNCHANGED room

-----------------------------------------------------------------------------
\* Clients: external.

ClientConnects(c) ==
  /\ proc = "running" /\ peer[c].handle = "none"
  /\ peer' = [peer EXCEPT ![c].handle = "backlog"] /\ UNCHANGED <<proc, room>>

ClientSends(c, b) ==
  /\ proc = "running" /\ peer[c].handle = "open" /\ ~peer[c].gone
  /\ Len(peer[c].got) + Len(peer[c].sending) < MaxInput
  /\ peer' = [peer EXCEPT ![c].sending = Append(@, b)] /\ UNCHANGED <<proc, room>>

ClientLeaves(c) ==
  /\ proc = "running" /\ peer[c].handle = "open" /\ ~peer[c].gone
  /\ peer' = [peer EXCEPT ![c].gone = TRUE] /\ UNCHANGED <<proc, room>>

-----------------------------------------------------------------------------
\* Writing.

Finished(p) == p.writes # <<>> /\ p.writes[1].off = p.writes[1].len

\* The kernel takes the next n bytes of the first request from sendbuf as it is now.
Take(p, n) ==
  LET off == p.writes[1].off IN
  [p EXCEPT !.writes[1].off = off + n, !.wire = @ \o [k \in 1 .. n |-> p.sendbuf[off + k]]]

\* What a write may take: all that is left, or less if sockets may be full.
Amounts(p) ==
  LET left == p.writes[1].len - p.writes[1].off IN IF room THEN {left} ELSE 0 .. left

\* uv_write of the first len bytes of sendbuf.
uv_write(p, len) ==
  LET q == [p EXCEPT !.writes = Append(@, Request(len, 0))]
  IN IF p.writes = <<>> THEN {Take(q, n) : n \in Amounts(q)} ELSE {q}

\* The socket has room again.
WriteMore(c) ==
  /\ proc = "running" /\ peer[c].writes # <<>> /\ ~Finished(peer[c])
  /\ \E n \in Amounts(peer[c]) \ {0} : Becomes(c, Take(peer[c], n)) /\ UNCHANGED proc

\* Mutant: reading is never started.
on_wrote_init_ack_deaf(p) == [p EXCEPT !.writes = Tail(@), !.sendbuf_end = 0]

on_wrote_init_ack(p) == [p EXCEPT !.writes = Tail(@), !.sendbuf_end = 0, !.state = "WAIT_FOR_MSG"]

\* Mutant: the buffer is not given back.
on_wrote_buf_full(p) == [p EXCEPT !.writes = Tail(@)]

on_wrote_buf(p) == [p EXCEPT !.writes = Tail(@), !.sendbuf_end = 0]

\* The kill switch: the message that was echoed ends as the one for testing does.
Killed(p) ==
  p.state # "INITIAL_ACK" /\ p.sendbuf_end > 0 /\ p.sendbuf[p.sendbuf_end] = Inc(KillByte)

\* The callback of the first request.  A write to a client that has left may fail, and
\* then the process dies, of the status or of SIGPIPE; uv_stop ends the loop.
WriteCallback(c) ==
  LET p == peer[c] IN
  /\ proc = "running" /\ Finished(p)
  /\ \E failed \in {FALSE, p.gone} :
       /\ proc' = IF failed THEN "died" ELSE IF Killed(p) THEN "stopped" ELSE proc
       /\ Becomes(c, IF failed \/ Killed(p) THEN p
                     ELSE IF p.state = "INITIAL_ACK" THEN on_wrote_init_ack(p) ELSE on_wrote_buf(p))

-----------------------------------------------------------------------------
\* Connecting and reading.

on_peer_connected(c) ==
  /\ proc = "running" /\ peer[c].handle = "backlog"
  /\ \E p \in uv_write([Unconnected EXCEPT !.handle = "open", !.sendbuf[1] = Star, !.sendbuf_end = 1], 1) :
       Becomes(c, p) /\ UNCHANGED proc

\* One byte of the state machine; a byte that does not fit fails the assertion.
Step(p, b) ==
  CASE p.state = "WAIT_FOR_MSG" -> IF b = Hat THEN [p EXCEPT !.state = "IN_MSG"] ELSE p
    [] p.state = "IN_MSG" /\ b = Dollar -> [p EXCEPT !.state = "WAIT_FOR_MSG"]
    [] p.state = "IN_MSG" /\ b # Dollar ->
         [p EXCEPT !.sendbuf_end = @ + 1,
                   !.sendbuf = [k \in DOMAIN @ |-> IF k = p.sendbuf_end + 1 THEN Inc(b) ELSE @[k]]]

Overflows(p) == p.sendbuf_end > SENDBUF_SIZE

\* on_peer_read with nread > 0; a chunk is what has arrived.
ReadData(c) ==
  LET p == peer[c] IN
  /\ proc = "running" /\ p.handle = "open" /\ p.state # "INITIAL_ACK" /\ ~Finished(p)
  /\ \E n \in 1 .. Len(p.sending) :
       LET r == [FoldLeft(Step, p, SubSeq(p.sending, 1, n)) EXCEPT
                   !.got = @ \o SubSeq(p.sending, 1, n), !.sending = SubSeq(@, n + 1, Len(@))]
       IN IF Overflows(r)
          THEN proc' = "died" /\ UNCHANGED <<room, peer>>
          ELSE /\ UNCHANGED proc
               /\ \E q \in IF r.sendbuf_end > 0 THEN uv_write(r, r.sendbuf_end) ELSE {r} : Becomes(c, q)

\* on_peer_read with nread < 0, then on_client_closed: writes still queued are called
\* back with an error, which ends the process; otherwise the handle and its peer state
\* are freed.  A reset comes before input that was not read, and discards it.
ReadEnd(c) ==
  LET p == peer[c] IN
  /\ proc = "running" /\ p.handle = "open" /\ p.state # "INITIAL_ACK" /\ ~Finished(p)
  /\ p.gone
  /\ IF p.writes # <<>> THEN proc' = "died" /\ UNCHANGED <<room, peer>>
     ELSE UNCHANGED proc /\ Becomes(c, [p EXCEPT !.handle = "closed", !.sending = <<>>])

Loop(c) == on_peer_connected(c) \/ WriteMore(c) \/ WriteCallback(c) \/ ReadData(c) \/ ReadEnd(c)

Next == \E c \in Client : Loop(c) \/ ClientConnects(c) \/ ClientLeaves(c) \/ \E b \in Byte : ClientSends(c, b)

\* The loop serves every client that has something for it.
Fairness == \A c \in Client : WF_vars(Loop(c))
Spec == Init /\ [][Next]_vars /\ Fairness

-----------------------------------------------------------------------------
\* Properties.

\* "Inside a frame, every byte is incremented by one and echoed back": what a client is
\* sent is the acknowledgement and then the answer to what has been read from it, each
\* byte once and in order, however its input is cut into reads.
EchoExact ==
  \A c \in Client : IsPrefix(peer[c].wire, <<Star>> \o Echo(peer[c].got))

\* The echo is exact, and complete once nothing is queued, as long as clients read what
\* they are sent, so that every write goes out whole: sendbuf is then given back before
\* the next read fills it.
EchoWhileRoom ==
  room =>
    /\ EchoExact
    /\ \A c \in Client :
         peer[c].handle = "open" /\ peer[c].writes = <<>> =>
           peer[c].wire = <<Star>> \o Echo(peer[c].got)

\* However slowly clients read, a queued write stays inside the buffer it points to: it ends
\* within sendbuf, the kernel takes it in order, none before those queued earlier, and the
\* peer state that holds sendbuf is freed only once nothing is queued.  The acknowledgement
\* is the only write of a client until its callback, so callbacks are told apart by state.
QueuedWritesSafe ==
  \A c \in Client :
    LET p == peer[c] IN
    /\ p.sendbuf_end <= SENDBUF_SIZE
    /\ p.writes # <<>> => p.handle = "open"
    /\ p.handle = "open" /\ p.state = "INITIAL_ACK" => Len(p.writes) = 1
    /\ \A i \in DOMAIN p.writes :
         /\ p.writes[i].off <= p.writes[i].len /\ p.writes[i].len <= SENDBUF_SIZE
         /\ i > 1 => p.writes[i].off = 0

\* While the process runs, the input of a client is read, or discarded by its reset.
InputTaken == \A c \in Client : peer[c].sending # <<>> ~> (peer[c].sending = <<>> \/ proc # "running")

=============================================================================
