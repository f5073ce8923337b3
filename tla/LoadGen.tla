------------------------------- MODULE LoadGen -------------------------------
(***************************************************************************)
(* bench/loadgen.c: one thread per connection, a barrier between setting   *)
(* the connections up and making requests, and the report of main.  The    *)
(* server is a black box with a few workers that may answer, answer        *)
(* wrongly, hang up or go quiet.                                           *)
(***************************************************************************)
EXTENDS Integers, Sequences, FiniteSets, FiniteSetsExt, SequencesExt

CONSTANTS
  connections, messages,
  Main,
  Latency,       \* what a request may take, in us
  Workers,       \* connections the server serves at a time
  SpawnMayFail   \* whether pthread_create may fail

Conn == 1 .. connections

ASSUME ArgumentAssumption == connections \in Nat \ {0} /\ messages \in Nat \ {0} /\ Latency \subseteq Nat
ASSUME MainAssumption == Main \notin Conn

VARIABLES
  mpc,        \* main: "spawn", "missing", "wait", "join", "exit"
  spawned,
  missing,    \* barrier waits main still makes for threads that never started
  cpc,        \* per thread: "unborn", "connect", "arrive", "wait", "ack", "send", "recv", "over"
  connected, completed, errors, mismatches, latencies_us,
  barrier,    \* threads blocked in pthread_barrier_wait
  serving,    \* connections the server has taken
  wire,       \* per connection, what the client can read: "none", "right", "wrong", "eof"
  report      \* what main prints, and its exit code

ctx == <<connected, completed, errors, mismatches, latencies_us>>
vars == <<mpc, spawned, missing, cpc, ctx, barrier, serving, wire, report>>

Nothing == [total |-> 0, percentiles |-> <<>>, code |-> -1]

Init ==
  /\ mpc = "spawn" /\ spawned = 0 /\ missing = 0 /\ barrier = {}
  /\ cpc = [c \in Conn |-> "unborn"] /\ connected = [c \in Conn |-> FALSE]
  /\ completed = [c \in Conn |-> 0] /\ errors = [c \in Conn |-> 0]
  /\ mismatches = [c \in Conn |-> 0] /\ latencies_us = [c \in Conn |-> <<>>]
  /\ serving = {} /\ wire = [c \in Conn |-> "none"] /\ report = Nothing

-----------------------------------------------------------------------------
\* The barrier.

\* Mutant: main is not counted.
BarrierCountShort == connections

BarrierCount == connections + 1

\* The last to arrive releases everybody.
Arrive(t) == barrier' = IF Cardinality(barrier) + 1 = BarrierCount THEN {} ELSE barrier \cup {t}

-----------------------------------------------------------------------------
\* A connection's thread, conn_main.

Go(c, from, to) == cpc[c] = from /\ cpc' = [cpc EXCEPT ![c] = to]

\* connect_to: the handshake succeeds, or fails, or is given up after CONNECT_TIMEOUT_S.
Connect(c) ==
  /\ Go(c, "connect", "arrive")
  /\ \E ok \in BOOLEAN : connected' = [connected EXCEPT ![c] = ok]
  /\ UNCHANGED <<mpc, spawned, missing, completed, errors, mismatches, latencies_us, barrier, serving, wire, report>>

ArriveThread(c) ==
  /\ Go(c, "arrive", "wait") /\ Arrive(c)
  /\ UNCHANGED <<mpc, spawned, missing, ctx, serving, wire, report>>

\* Mutant: a connection that failed is not an error.
ReleasedSilent(c) ==
  /\ c \notin barrier /\ Go(c, "wait", IF connected[c] THEN "ack" ELSE "over")
  /\ UNCHANGED <<mpc, spawned, missing, ctx, barrier, serving, wire, report>>

Released(c) ==
  /\ c \notin barrier /\ Go(c, "wait", IF connected[c] THEN "ack" ELSE "over")
  /\ errors' = IF connected[c] THEN errors ELSE [errors EXCEPT ![c] = messages]
  /\ UNCHANGED <<mpc, spawned, missing, connected, completed, mismatches, latencies_us, barrier, serving, wire, report>>

\* close(fd): the server drops the connection.
Hangup(c) == serving' = serving \ {c} /\ wire' = [wire EXCEPT ![c] = "none"]

\* Mutant: no SO_RCVTIMEO.
Blocked(c) == wire[c] = "eof"

\* recv fails at the end of the stream and after IO_TIMEOUT_S without a byte.
RecvFails(c) == wire[c] \in {"eof", "none"}

TakeAck(c) ==
  /\ IF wire[c] = "right"
     THEN Go(c, "ack", "send") /\ wire' = [wire EXCEPT ![c] = "none"] /\ UNCHANGED <<errors, serving>>
     ELSE /\ RecvFails(c) \/ wire[c] = "wrong"
          /\ Go(c, "ack", "over") /\ errors' = [errors EXCEPT ![c] = messages] /\ Hangup(c)
  /\ UNCHANGED <<mpc, spawned, missing, connected, completed, mismatches, latencies_us, barrier, report>>

GiveUp(c, from) ==
  Go(c, from, "over") /\ errors' = [errors EXCEPT ![c] = @ + 1] /\ Hangup(c)

Send(c) ==
  /\ \/ Go(c, "send", "recv") /\ UNCHANGED <<errors, serving, wire>>
     \/ GiveUp(c, "send")
  /\ UNCHANGED <<mpc, spawned, missing, connected, completed, mismatches, latencies_us, barrier, report>>

\* An answer of the right length, right or wrong, counts as completed; the connection
\* is closed after the last.
Answer(c) ==
  /\ wire[c] \in {"right", "wrong"}
  /\ Go(c, "recv", IF completed[c] + 1 = messages THEN "over" ELSE "send")
  /\ completed' = [completed EXCEPT ![c] = @ + 1]
  /\ mismatches' = [mismatches EXCEPT ![c] = IF wire[c] = "wrong" THEN @ + 1 ELSE @]
  /\ \E t \in Latency : latencies_us' = [latencies_us EXCEPT ![c] = Append(@, t)]
  /\ wire' = [wire EXCEPT ![c] = "none"]
  /\ serving' = IF completed[c] + 1 = messages THEN serving \ {c} ELSE serving
  /\ UNCHANGED <<mpc, spawned, missing, connected, errors, barrier, report>>

NoAnswer(c) ==
  /\ RecvFails(c) /\ GiveUp(c, "recv")
  /\ UNCHANGED <<mpc, spawned, missing, connected, completed, mismatches, latencies_us, barrier, report>>

conn_main(c) ==
  Connect(c) \/ ArriveThread(c) \/ Released(c) \/ TakeAck(c) \/ Send(c) \/ Answer(c) \/ NoAnswer(c)

-----------------------------------------------------------------------------
\* The server: external.

ServerTakes(c) ==
  /\ connected[c] /\ cpc[c] \in {"arrive", "wait", "ack"} /\ c \notin serving
  /\ Cardinality(serving) < Workers /\ serving' = serving \cup {c}
  /\ \E w \in {"right", "wrong"} : wire' = [wire EXCEPT ![c] = w]
  /\ UNCHANGED <<mpc, spawned, missing, cpc, ctx, barrier, report>>

ServerAnswers(c) ==
  /\ c \in serving /\ cpc[c] = "recv" /\ wire[c] = "none"
  /\ \E w \in {"right", "wrong", "eof"} : wire' = [wire EXCEPT ![c] = w]
  /\ UNCHANGED <<mpc, spawned, missing, cpc, ctx, barrier, serving, report>>

-----------------------------------------------------------------------------
\* main.

Spawn ==
  /\ mpc = "spawn" /\ spawned < connections /\ spawned' = spawned + 1
  /\ cpc' = [cpc EXCEPT ![spawned'] = "connect"]
  /\ UNCHANGED <<mpc, missing, ctx, barrier, serving, wire, report>>

\* pthread_create fails: main waits once per missing thread, then as usual.
SpawnFails ==
  /\ SpawnMayFail /\ mpc = "spawn" /\ spawned < connections
  /\ missing' = connections - spawned /\ mpc' = "missing" /\ Arrive(Main)
  /\ UNCHANGED <<spawned, cpc, ctx, serving, wire, report>>

AllSpawned ==
  /\ mpc = "spawn" /\ spawned = connections /\ mpc' = "wait" /\ Arrive(Main)
  /\ UNCHANGED <<spawned, missing, cpc, ctx, serving, wire, report>>

MainReleased ==
  /\ mpc \in {"missing", "wait"} /\ Main \notin barrier
  /\ IF missing > 0
     THEN missing' = missing - 1 /\ Arrive(Main) /\ mpc' = IF missing = 1 THEN "wait" ELSE "missing"
     ELSE mpc' = "join" /\ UNCHANGED <<missing, barrier>>
  /\ UNCHANGED <<spawned, cpc, ctx, serving, wire, report>>

\* Mutant: the weights of the two neighbours are exchanged.
percentile_swapped(sorted, p) ==
  LET n == Len(sorted)  idx == p * (n - 1)  lo == idx \div 1000  frac == idx % 1000
      hi == IF lo + 1 >= n THEN n - 1 ELSE lo + 1
  IN IF n = 0 THEN 0 ELSE sorted[lo + 1] * frac + sorted[hi + 1] * (1000 - frac)

\* The p-th thousandth, interpolated, in thousandths of a us.
percentile(sorted, p) ==
  LET n == Len(sorted)  idx == p * (n - 1)  lo == idx \div 1000  frac == idx % 1000
      hi == IF lo + 1 >= n THEN n - 1 ELSE lo + 1
  IN IF n = 0 THEN 0 ELSE sorted[lo + 1] * (1000 - frac) + sorted[hi + 1] * frac

\* The i-th place gets the smallest value that at least i of the values do not exceed.
qsort(s) ==
  [i \in DOMAIN s |->
     Min({s[j] : j \in {j \in DOMAIN s : Cardinality({k \in DOMAIN s : s[k] <= s[j]}) >= i}})]

Reported == <<500, 900, 990, 999>>

SumOver(f) == MapThenSumSet(LAMBDA c : f[c], 1 .. spawned)

\* Once every thread has been joined: the totals, the sorted latencies and the code.
Report ==
  /\ mpc = "join" /\ mpc' = "exit" /\ \A c \in 1 .. spawned : cpc[c] = "over"
  /\ \E all \in {FlattenSeq([c \in 1 .. spawned |-> latencies_us[c]])} :
       report' = [total |-> SumOver(completed),
                  percentiles |-> [k \in DOMAIN Reported |-> percentile(qsort(all), Reported[k])],
                  code |-> IF SumOver(errors) > 0 \/ SumOver(mismatches) > 0 THEN 1 ELSE 0]
  /\ UNCHANGED <<spawned, missing, cpc, ctx, barrier, serving, wire>>

main == Spawn \/ SpawnFails \/ AllSpawned \/ MainReleased \/ Report

Next == main \/ \E c \in Conn : conn_main(c) \/ ServerTakes(c) \/ ServerAnswers(c)

\* Threads run and their system calls end; the server promises nothing.
Fairness == WF_vars(main) /\ \A c \in Conn : WF_vars(conn_main(c))
Spec == Init /\ [][Next]_vars /\ Fairness

-----------------------------------------------------------------------------
\* Properties.

\* "The request clock starts only once all of them are through": nobody is past the
\* barrier, and main has not started the clock, while a connection is still being set up.
StartTogether ==
  (mpc = "join" \/ \E c \in Conn : cpc[c] \in {"ack", "send", "recv", "over"}) =>
    \A c \in Conn : cpc[c] \notin {"unborn", "connect", "arrive"}

\* The exit code is 0 only if every connection asked for made every request and got
\* the right answer, and then the report counts them all: nothing that went wrong in
\* any thread, at any point, is lost on the way to the exit code.
ExitHonest ==
  report.code = 0 =>
    /\ \A c \in Conn : connected[c] /\ completed[c] = messages /\ mismatches[c] = 0
    /\ report.total = connections * messages

Rising(p) == \A k \in 1 .. Len(p) - 1 : p[k] <= p[k + 1]

\* The percentiles printed grow with the rank and lie between the fastest and the
\* slowest request.
PercentilesOrdered ==
  report.total > 0 =>
    LET taken == UNION {Range(latencies_us[c]) : c \in Conn}
    IN Rising(<<1000 * Min(taken)>> \o report.percentiles \o <<1000 * Max(taken)>>)

\* Once all its threads exist a run ends, though the server may refuse, hang up or go
\* quiet on any connection at any time.
RunEnds == mpc = "wait" /\ spawned = connections ~> mpc = "exit"

\* "Lower the count by waiting once per missing thread so the rest are released."
MissingReleased == mpc = "missing" ~> mpc # "missing"

=============================================================================
