--------------------------- MODULE ServeConnection ---------------------------
(***************************************************************************)
(* serve_connection of protocol.c, run by one thread on one blocking       *)
(* socket: acknowledge, then receive a buffer, transform it in place, send *)
(* the result, observe the request, and again, until the peer closes or a  *)
(* call fails.  EINTR is a retry that changes nothing.                     *)
(***************************************************************************)
EXTENDS Framing

CONSTANTS
  Byte,          \* bytes a client sends
  RECVBUF_SIZE,
  MaxInput       \* bound: bytes sent on one connection

ASSUME ByteAssumption == Byte \subseteq Octet
ASSUME SizeAssumption == RECVBUF_SIZE \in Nat \ {0} /\ MaxInput \in Nat

VARIABLES
  pc,       \* "idle", "ack", "recv", "transform", "send", "observe", "done"
  state,    \* the parser: "wait" or "in"
  recvbuf,  \* what the last recv returned, overwritten by the transformation
  i, nsend, \* bytes looked at, bytes produced
  sent,     \* bytes of the reply send_all has sent
  stream,   \* input on its way
  gone,     \* "no", or how the client left: "fin", "rst"
  got,      \* history: everything received on this connection
  wire,     \* history: everything sent on it
  requests, observed  \* buffers received, requests observed

local == <<state, recvbuf, i, nsend, sent>>
serving == <<pc, local, stream, gone, got, wire, requests, observed>>

Idle ==
  /\ pc = "idle" /\ state = "wait" /\ recvbuf = <<>> /\ i = 0 /\ nsend = 0 /\ sent = 0
  /\ stream = <<>> /\ gone = "no" /\ got = <<>> /\ wire = <<>> /\ requests = 0 /\ observed = 0

\* The call: a new connection, with the client still there or gone already.
Enter ==
  /\ pc' = "ack" /\ state' = "wait" /\ recvbuf' = <<>> /\ i' = 0 /\ nsend' = 0 /\ sent' = 0
  /\ stream' = <<>> /\ gone' = "no" /\ got' = <<>> /\ wire' = <<>>
  /\ requests' = 0 /\ observed' = 0

ClientSends(b) ==
  /\ pc # "idle" /\ gone = "no" /\ Len(got) + Len(stream) < MaxInput
  /\ stream' = Append(stream, b)
  /\ UNCHANGED <<pc, local, gone, got, wire, requests, observed>>

ClientLeaves(how) ==
  /\ pc # "idle" /\ gone = "no" /\ gone' = how
  /\ UNCHANGED <<pc, local, stream, got, wire, requests, observed>>

\* Mutant: an error of recv is retried like EINTR.
FailInSend ==
  /\ pc \in {"ack", "send"} /\ gone # "no"
  /\ pc' = "done"
  /\ UNCHANGED <<local, stream, gone, got, wire, requests, observed>>

\* A call that fails: a reset, or a write to a client that closed and answers with one.
\* classify_errno turns it into the result, and serve_connection returns.
Fail ==
  /\ pc \in {"ack", "recv", "send"} /\ gone # "no" /\ (pc = "recv" => gone = "rst")
  /\ pc' = "done"
  /\ UNCHANGED <<local, stream, gone, got, wire, requests, observed>>

SendAck ==
  /\ pc = "ack" /\ pc' = "recv"
  /\ wire' = Append(wire, Star)
  /\ UNCHANGED <<local, stream, gone, got, requests, observed>>

RecvSome ==
  /\ pc = "recv" /\ pc' = "transform"
  /\ \E len \in 1 .. Len(stream) :
       /\ len <= RECVBUF_SIZE
       /\ recvbuf' = SubSeq(stream, 1, len)
       /\ got' = got \o SubSeq(stream, 1, len)
       /\ stream' = SubSeq(stream, len + 1, Len(stream))
  /\ i' = 0 /\ nsend' = 0 /\ sent' = 0
  /\ requests' = requests + 1
  /\ UNCHANGED <<state, gone, wire, observed>>

RecvEof ==
  /\ pc = "recv" /\ gone = "fin" /\ stream = <<>> /\ pc' = "done"
  /\ UNCHANGED <<local, stream, gone, got, wire, requests, observed>>

\* Mutant: each byte inside a message is answered with two.
TransformTwice ==
  /\ pc = "transform" /\ i < Len(recvbuf) /\ i' = i + 1
  /\ IF state = "wait" \/ recvbuf[i + 1] = Dollar
     THEN /\ state' = IF recvbuf[i + 1] = Hat THEN "in" ELSE "wait"
          /\ UNCHANGED <<recvbuf, nsend>>
     ELSE /\ recvbuf' = [k \in 1 .. Len(recvbuf) |->
                          IF k \in {nsend + 1, nsend + 2} THEN Inc(recvbuf[i + 1]) ELSE recvbuf[k]]
          /\ nsend' = nsend + 2 /\ UNCHANGED state
  /\ UNCHANGED <<pc, sent, stream, gone, got, wire, requests, observed>>

\* One byte: the place written is one already looked at.
Transform ==
  /\ pc = "transform" /\ i < Len(recvbuf) /\ i' = i + 1
  /\ \/ /\ state = "wait" /\ state' = IF recvbuf[i + 1] = Hat THEN "in" ELSE state
        /\ UNCHANGED <<recvbuf, nsend>>
     \/ /\ state = "in" /\ recvbuf[i + 1] = Dollar /\ state' = "wait"
        /\ UNCHANGED <<recvbuf, nsend>>
     \/ /\ state = "in" /\ recvbuf[i + 1] # Dollar
        /\ recvbuf' = [recvbuf EXCEPT ![nsend + 1] = Inc(recvbuf[i + 1])] /\ nsend' = nsend + 1
        /\ UNCHANGED state
  /\ UNCHANGED <<pc, sent, stream, gone, got, wire, requests, observed>>

Transformed ==
  /\ pc = "transform" /\ i = Len(recvbuf)
  /\ pc' = IF nsend > 0 THEN "send" ELSE "observe"
  /\ UNCHANGED <<local, stream, gone, got, wire, requests, observed>>

\* Mutant: a short write is taken for a full one.
SendOnce ==
  /\ pc = "send" /\ pc' = "observe"
  /\ \E n \in 1 .. nsend - sent :
       sent' = sent + n /\ wire' = wire \o SubSeq(recvbuf, sent + 1, sent + n)
  /\ UNCHANGED <<state, recvbuf, i, nsend, stream, gone, got, requests, observed>>

\* send_all: one send of the loop, which may be short.
Send ==
  /\ pc = "send"
  /\ \E n \in 1 .. nsend - sent :
       /\ sent' = sent + n /\ wire' = wire \o SubSeq(recvbuf, sent + 1, sent + n)
       /\ pc' = IF sent + n < nsend THEN pc ELSE "observe"
  /\ UNCHANGED <<state, recvbuf, i, nsend, stream, gone, got, requests, observed>>

Observe ==
  /\ pc = "observe" /\ pc' = "recv" /\ observed' = observed + 1
  /\ UNCHANGED <<local, stream, gone, got, wire, requests>>

Serve == Fail \/ SendAck \/ RecvSome \/ RecvEof \/ Transform \/ Transformed \/ Send \/ Observe

Clients == (\E b \in Byte : ClientSends(b)) \/ \E how \in {"fin", "rst"} : ClientLeaves(how)

-----------------------------------------------------------------------------
\* Properties.

\* "reusing recvbuf is safe and needs no bounds check": the reply never runs ahead
\* of the input, so every byte is still what recv put there when it is looked at.
InPlaceSafe ==
  /\ nsend <= i
  /\ pc = "transform" =>
       \A k \in i + 1 .. Len(recvbuf) : recvbuf[k] = got[Len(got) - Len(recvbuf) + k]

\* What the client was sent is the acknowledgement and the echo of what it said,
\* however its input was cut into buffers and the replies into writes: a prefix of it
\* at any time, and all of it whenever the thread is back in recv, when every buffer
\* received so far, with a reply or without, is also in the latency histogram, once.
EchoExact ==
  LET due == <<Star>> \o Echo(got) IN
  /\ pc = "recv" => wire = due /\ observed = requests
  /\ Len(wire) <= Len(due) /\ wire = SubSeq(due, 1, Len(wire))

=============================================================================
