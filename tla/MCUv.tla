-------------------------------- MODULE MCUv --------------------------------
(***************************************************************************)
(* The two libuv servers, for TLC: a behaviour is that of one of them, and *)
(* the other has no clients.                                               *)
(***************************************************************************)
EXTENDS UvServer

CONSTANTS User, Requests, NotDigit, Half, MaxRequests

ASSUME RequestAssumption ==
  Requests \subseteq Seq(0 .. 9 \cup {NotDigit}) /\ NotDigit \notin 0 .. 9
ASSUME HalfAssumption == Half \in Nat /\ Half >= 4 /\ Half % 2 = 0

VARIABLES which, server, MODE, polite, conn, number, sendbuf, jobs

isprime_vars == <<server, MODE, polite, conn, number, sendbuf, jobs>>

Isprime == INSTANCE UvIsprime

BothInit ==
  /\ which \in {"uv_server", "uv_isprime_server"} /\ Init /\ Isprime!Init
  /\ (which = "uv_server") => (MODE = "WORK" /\ polite)
  /\ (which # "uv_server") => room

BothNext ==
  \/ which = "uv_server" /\ Next /\ UNCHANGED <<which, isprime_vars>>
  \/ which = "uv_isprime_server" /\ Isprime!Next /\ UNCHANGED <<which, vars>>

BothSpec == BothInit /\ [][BothNext]_<<which, vars, isprime_vars>> /\ Fairness /\ Isprime!Fairness

Bytes == {Hat, Dollar, KillByte}

\* A square with something after it, and a prime near the limit of six bits.
Numbers == {<<9, NotDigit>>, <<4, 7>>}

-----------------------------------------------------------------------------

\* uv_isprime_server.c: right answers, in order.
AnswerRight == Isprime!AnswerRight

\* uv_isprime_server.c: no use of a freed peer state.
OwnedWhileUsed == Isprime!OwnedWhileUsed

\* uv_isprime_server.c: every request is answered.
Answered == Isprime!Answered

=============================================================================
