------------------------------ MODULE UvIsprime ------------------------------
(***************************************************************************)
(* uv_isprime_server.c: a number comes in, "prime" or "composite" goes     *)
(* out, computed in the read callback (MODE=BLOCK) or by libuv's threads.  *)
(* peer_state_t is shared by the loop and the threads without a lock.      *)
(* libuv is external: a reply is short enough to be written at once.       *)
(***************************************************************************)
EXTENDS Integers, Sequences, FiniteSetsExt

CONSTANTS
  User,         \* clients
  Requests,     \* what they send: sequences of digits and of NotDigit
  NotDigit,
  Half,         \* 2^32: uint64_t counts modulo its square
  MaxRequests   \* bound: requests of all clients

VARIABLES
  server,   \* the process: "running", "died", or "undefined" after a use of freed memory
  MODE,     \* "BLOCK" or "WORK"
  polite,   \* whether clients await each answer before they send or leave
  conn,     \* per client, its handle and its connection
  number, sendbuf,  \* per client, its peer_state_t
  jobs      \* requests on the work queue: whose, and what a thread has read

state == <<conn, number, sendbuf, jobs>>
vars == <<server, MODE, polite, state>>

Fresh == [handle |-> "none", sending |-> <<>>, gone |-> FALSE, asked |-> <<>>, answers |-> <<>>]

Init ==
  /\ server = "running" /\ MODE \in {"BLOCK", "WORK"} /\ polite \in BOOLEAN
  /\ conn = [u \in User |-> Fresh] /\ number = [u \in User |-> 0]
  /\ sendbuf = [u \in User |-> "none"] /\ jobs = <<>>

Same == UNCHANGED <<MODE, polite>>

-----------------------------------------------------------------------------
\* Clients: external.

Idle(u) == Len(conn[u].answers) = Len(conn[u].asked) /\ conn[u].sending = <<>>

UserConnects(u) ==
  /\ server = "running" /\ conn[u].handle = "none" /\ conn' = [conn EXCEPT ![u].handle = "backlog"]
  /\ Same /\ UNCHANGED <<server, number, sendbuf, jobs>>

UserAsks(u, r) ==
  /\ server = "running" /\ conn[u].handle = "open" /\ ~conn[u].gone /\ conn[u].sending = <<>>
  /\ polite => Idle(u)
  /\ MapThenSumSet(LAMBDA v : Len(conn[v].asked) + (IF conn[v].sending = <<>> THEN 0 ELSE 1), User) < MaxRequests
  /\ conn' = [conn EXCEPT ![u].sending = r]
  /\ Same /\ UNCHANGED <<server, number, sendbuf, jobs>>

UserLeaves(u) ==
  /\ server = "running" /\ conn[u].handle = "open" /\ ~conn[u].gone
  /\ polite => Idle(u)
  /\ conn' = [conn EXCEPT ![u].gone = TRUE]
  /\ Same /\ UNCHANGED <<server, number, sendbuf, jobs>>

-----------------------------------------------------------------------------
\* The algorithms.

wrap(x) == x % (Half * Half)

\* Mutant: the bound of the trial divisors is exclusive.
isprime_strict(n) ==
  LET last == Min({r \in 3 .. n + 2 : r % 2 = 1 /\ (wrap(r * r) >= n \/ n % r = 0)})
  IN IF n % 2 = 0 THEN n = 2 ELSE wrap(last * last) >= n

\* The loop ends at the first odd r whose square, in machine arithmetic, exceeds n, with
\* TRUE, or that divides n, with FALSE.
isprime(n) ==
  LET last == Min({r \in 3 .. n + 2 : r % 2 = 1 /\ (wrap(r * r) > n \/ n % r = 0)})
  IN IF n % 2 = 0 THEN n = 2 ELSE wrap(last * last) > n

Digits(r) ==
  LET ends == {k \in DOMAIN r : r[k] = NotDigit}
  IN IF ends = {} THEN r ELSE SubSeq(r, 1, Min(ends) - 1)

\* What op makes of the elements of s, first to last, starting from 0.
LeftToRight(op(_, _), s) ==
  MapThenFoldSet(LAMBDA d, n : op(n, d), 0, LAMBDA i : s[i], LAMBDA places : Max(places), DOMAIN s)

\* The leading digits of a request; the number wraps.
Parse(r) == LeftToRight(LAMBDA n, d : wrap(n * 10 + d), Digits(r))

Verdict(n) == IF isprime(n) THEN "prime" ELSE "composite"

-----------------------------------------------------------------------------
\* The loop.

\* uv_write of v to u: on a handle that is closing it fails, after a reset it may fail,
\* and either ends the process.
Reply(u, v) ==
  \E failed \in IF conn[u].handle = "open" THEN {FALSE, conn[u].gone} ELSE {TRUE} :
    /\ server' = IF failed THEN "died" ELSE server
    /\ conn' = IF failed THEN conn ELSE [conn EXCEPT ![u].answers = Append(@, v)]

on_peer_connected(u) ==
  /\ server = "running" /\ conn[u].handle = "backlog" /\ conn' = [conn EXCEPT ![u].handle = "open"]
  /\ Same /\ UNCHANGED <<server, number, sendbuf, jobs>>

\* on_peer_read with nread > 0.  In BLOCK mode the write is attempted before it returns.
ReadRequest(u) ==
  LET n == Parse(conn[u].sending) IN
  /\ server = "running" /\ conn[u].handle = "open" /\ conn[u].sending # <<>>
  /\ number' = [number EXCEPT ![u] = n]
  /\ IF MODE = "BLOCK"
     THEN /\ sendbuf' = [sendbuf EXCEPT ![u] = Verdict(n)] /\ jobs' = jobs
          /\ \E failed \in {FALSE, conn[u].gone} :
               /\ server' = IF failed THEN "died" ELSE server
               /\ conn' = [conn EXCEPT ![u].sending = <<>>, ![u].asked = Append(@, conn[u].sending),
                                       ![u].answers = IF failed THEN @ ELSE Append(@, Verdict(n))]
     ELSE /\ jobs' = Append(jobs, [of |-> u, stage |-> "queued", read |-> 0])
          /\ conn' = [conn EXCEPT ![u].sending = <<>>, ![u].asked = Append(@, conn[u].sending)]
          /\ UNCHANGED <<server, sendbuf>>
  /\ Same

\* on_peer_read with nread < 0: uv_close.  A reset discards a request not yet read.
ReadEnd(u) ==
  /\ server = "running" /\ conn[u].handle = "open" /\ conn[u].gone
  /\ conn' = [conn EXCEPT ![u].handle = "closing", ![u].sending = <<>>]
  /\ Same /\ UNCHANGED <<server, number, sendbuf, jobs>>

\* Frees the peer state.
on_client_closed(u) ==
  /\ server = "running" /\ conn[u].handle = "closing" /\ conn' = [conn EXCEPT ![u].handle = "closed"]
  /\ Same /\ UNCHANGED <<server, number, sendbuf, jobs>>

Freed(u) == conn[u].handle = "closed"

\* Whatever follows a use of freed memory is not described.
Undefined == server' = "undefined" /\ UNCHANGED state

\* on_work_submitted, in a thread: reads the number, then stores the verdict.
WorkReads(k) ==
  LET u == jobs[k].of IN
  /\ server = "running" /\ jobs[k].stage = "queued"
  /\ IF Freed(u) THEN Undefined
     ELSE /\ jobs' = [jobs EXCEPT ![k].stage = "running", ![k].read = number[u]]
          /\ UNCHANGED <<server, conn, number, sendbuf>>
  /\ Same

\* Mutant: the thread writes the reply itself.
WorkReplies(k) ==
  LET u == jobs[k].of IN
  /\ server = "running" /\ jobs[k].stage = "running"
  /\ IF Freed(u) THEN Undefined
     ELSE /\ jobs' = [jobs EXCEPT ![k].stage = "done"] /\ Reply(u, Verdict(jobs[k].read))
          /\ UNCHANGED <<number, sendbuf>>
  /\ Same

WorkStores(k) ==
  LET u == jobs[k].of IN
  /\ server = "running" /\ jobs[k].stage = "running"
  /\ IF Freed(u) THEN Undefined
     ELSE /\ jobs' = [jobs EXCEPT ![k].stage = "done"]
          /\ sendbuf' = [sendbuf EXCEPT ![u] = Verdict(jobs[k].read)]
          /\ UNCHANGED <<server, conn, number>>
  /\ Same

Without(s, k) == SubSeq(s, 1, k - 1) \o SubSeq(s, k + 1, Len(s))

\* Mutant: the request is freed, and nothing is written.
on_work_completed_silent(k) ==
  /\ server = "running" /\ jobs[k].stage = "done" /\ jobs' = Without(jobs, k)
  /\ UNCHANGED <<server, conn, number, sendbuf>> /\ Same

on_work_completed(k) ==
  LET u == jobs[k].of IN
  /\ server = "running" /\ jobs[k].stage = "done"
  /\ IF Freed(u) THEN Undefined
     ELSE Reply(u, sendbuf[u]) /\ jobs' = Without(jobs, k) /\ UNCHANGED <<number, sendbuf>>
  /\ Same

Callback(u) == on_peer_connected(u) \/ ReadRequest(u) \/ ReadEnd(u) \/ on_client_closed(u)
Work == \E k \in DOMAIN jobs : WorkReads(k) \/ WorkStores(k) \/ on_work_completed(k)

Next ==
  \/ \E u \in User : UserConnects(u) \/ UserLeaves(u) \/ Callback(u) \/ \E r \in Requests : UserAsks(u, r)
  \/ Work

\* The loop and the threads take what is ready for them.
Fairness == WF_vars(Work) /\ \A u \in User : WF_vars(Callback(u))
Spec == Init /\ [][Next]_vars /\ Fairness

-----------------------------------------------------------------------------
\* Properties.

IsPrime(n) == n > 1 /\ \A d \in 2 .. n - 1 : n % d # 0
Value(r) == LeftToRight(LAMBDA n, d : n * 10 + d, Digits(r))

\* The squares of the trial divisors up to the first that exceeds n do not wrap; 1 is
\* taken for a prime.
Sure(n) == n # 1 /\ n < (Half - 1) * (Half - 1)

RightAnswers(u) ==
  \A k \in DOMAIN conn[u].answers :
    LET n == Value(conn[u].asked[k])
    IN Sure(n) => conn[u].answers[k] = IF IsPrime(n) THEN "prime" ELSE "composite"

\* A client that awaits its answers gets one for each request, in order, and right for
\* every number in range, in both modes.
AnswerRight == polite => \A u \in User : RightAnswers(u)

\* MODE=BLOCK asks no manners of its clients: nothing is on the work queue, so that no
\* freed peer state is used whenever they leave, only one that has left can end the
\* process, and the answers are right though requests follow without a pause.
BlockModeSafe ==
  MODE = "BLOCK" =>
    /\ jobs = <<>> /\ server # "undefined"
    /\ server = "died" => \E u \in User : conn[u].gone
    /\ \A u \in User : RightAnswers(u)

\* "The client handle owns the peer state": clients that await their answers never make
\* the loop or a thread touch a peer state that its handle has freed, nor end the process.
OwnedWhileUsed == polite => server = "running"

\* Every request of a client that waits is answered.
Answered == \A u \in User : (polite /\ conn[u].sending # <<>>) ~> Idle(u)

=============================================================================
