------------------------------- MODULE Metrics -------------------------------
(***************************************************************************)
(* metrics.c: the registry that servers write with relaxed atomic          *)
(* operations and a scrape reads cell by cell.  The updates of one call    *)
(* reach the registry in any order and at any time until the call is over; *)
(* the scrape loads its cells in program order.                            *)
(***************************************************************************)
EXTENDS Integers, Sequences, FiniteSets, FiniteSetsExt

CONSTANTS
  Writer,
  Duration,  \* service times, in ns
  Upper,     \* k_bucket_upper_ns
  Depths,    \* queue lengths
  BODY_MAX,  \* room for the body of a scrape
  MaxCalls   \* bound: calls of the writers

BUCKET_COUNT == Len(Upper)

ASSUME UpperAssumption ==
  Upper \in Seq(Nat) /\ \A k \in 1 .. BUCKET_COUNT - 1 : Upper[k] < Upper[k + 1]
ASSUME DurationAssumption == Duration \subseteq Nat /\ Depths \subseteq Nat
ASSUME FiniteAssumption == IsFiniteSet(Writer) /\ IsFiniteSet(Duration)
ASSUME BodyAssumption == BODY_MAX \in Nat \ {0}

\* The cells of g, in the order metrics_render reads them.
Accepted == 1
Refused == 2
Active == 3
QueueDepth == 4
WorkersBusy == 5
LatencyCount(k) == 5 + k
LatencySum == 5 + BUCKET_COUNT + 2
Cell == 1 .. LatencySum

VARIABLES
  g,        \* the registry
  todo,     \* per writer, the updates of its call that have not happened yet
  doing,    \* per writer, the call: "none" or its name
  live,     \* connections accepted and not closed
  busy,     \* workers that have said they are busy
  seen,     \* history: observations begun, by duration
  done,     \* history: observations finished
  calls,
  body, len, kept,  \* the scrape: values rendered, length, bytes that fitted
  floor, last       \* history: done when the scrape began, the body before it

registry == <<g, todo, doing, live, busy, seen, done, calls>>
scrape == <<body, len, kept, floor, last>>
metrics == <<registry, scrape>>

metrics_init ==
  /\ g = [c \in Cell |-> 0]
  /\ todo = [w \in Writer |-> {}] /\ doing = [w \in Writer |-> "none"]
  /\ live = 0 /\ busy = {} /\ seen = [d \in Duration |-> 0] /\ done = 0 /\ calls = 0
  /\ body = <<>> /\ len = 0 /\ kept = 0 /\ floor = 0 /\ last = <<>>

-----------------------------------------------------------------------------
\* The writers.

Call(w, name, updates) ==
  /\ doing[w] = "none" /\ calls < MaxCalls /\ calls' = calls + 1
  /\ doing' = [doing EXCEPT ![w] = name] /\ todo' = [todo EXCEPT ![w] = updates]
  /\ UNCHANGED <<g, done, scrape>>

metrics_connection_accepted(w) ==
  /\ Call(w, "accepted", {<<Accepted, "add", 1>>, <<Active, "add", 1>>})
  /\ UNCHANGED <<live, busy, seen>>

metrics_connection_refused(w) ==
  Call(w, "refused", {<<Refused, "add", 1>>}) /\ UNCHANGED <<live, busy, seen>>

\* Only a connection whose acceptance is over can be closed: it was handed over
\* through the queue in between.
metrics_connection_closed(w) ==
  /\ live > 0 /\ live' = live - 1
  /\ Call(w, "closed", {<<Active, "add", -1>>}) /\ UNCHANGED <<busy, seen>>

\* Mutant: exclusive bounds.
bucket_index_exclusive(d) ==
  LET fits == {k \in 1 .. BUCKET_COUNT : d < Upper[k]}
  IN IF fits = {} THEN BUCKET_COUNT + 1 ELSE Min(fits)

bucket_index(d) ==
  LET fits == {k \in 1 .. BUCKET_COUNT : d <= Upper[k]}
  IN IF fits = {} THEN BUCKET_COUNT + 1 ELSE Min(fits)

metrics_request_observed(w, d) ==
  /\ Call(w, "observed", {<<LatencyCount(bucket_index(d)), "add", 1>>, <<LatencySum, "add", d>>})
  /\ seen' = [seen EXCEPT ![d] = @ + 1] /\ UNCHANGED <<live, busy>>

metrics_queue_depth_set(w, n) ==
  Call(w, "depth", {<<QueueDepth, "set", n>>}) /\ UNCHANGED <<live, busy, seen>>

\* A worker adds one before it serves and takes it back afterwards.
metrics_workers_busy_add(w) ==
  /\ busy' = IF w \in busy THEN busy \ {w} ELSE busy \cup {w}
  /\ Call(w, "busy", {<<WorkersBusy, "add", IF w \in busy THEN -1 ELSE 1>>})
  /\ UNCHANGED <<live, seen>>

\* One update becomes visible; the call returns with the last.
Update(w, u) ==
  /\ u \in todo[w]
  /\ g' = [g EXCEPT ![u[1]] = IF u[2] = "set" THEN u[3] ELSE @ + u[3]]
  /\ todo' = [todo EXCEPT ![w] = @ \ {u}]
  /\ IF todo[w] = {u}
     THEN /\ doing' = [doing EXCEPT ![w] = "none"]
          /\ live' = IF doing[w] = "accepted" THEN live + 1 ELSE live
          /\ done' = IF doing[w] = "observed" THEN done + 1 ELSE done
     ELSE UNCHANGED <<doing, live, done>>
  /\ UNCHANGED <<busy, seen, calls, scrape>>

Writers ==
  \E w \in Writer :
    \/ metrics_connection_accepted(w) \/ metrics_connection_refused(w)
    \/ metrics_connection_closed(w) \/ metrics_workers_busy_add(w)
    \/ \E d \in Duration : metrics_request_observed(w, d)
    \/ \E n \in Depths : metrics_queue_depth_set(w, n)
    \/ \E u \in todo[w] : Update(w, u)

-----------------------------------------------------------------------------
\* The scrape.

\* Mutant: the bounds check of the buffer is off by one.
appendf_over(n) ==
  /\ len' = len + n
  /\ kept' = IF len <= BODY_MAX THEN Min({len + n, BODY_MAX + 1}) ELSE kept

\* vsnprintf writes what fits, with the terminator, and returns what it would have
\* written; once len has reached the capacity nothing is written any more.
appendf(n) ==
  /\ len' = len + n
  /\ kept' = IF len < BODY_MAX THEN Min({len + n, BODY_MAX - 1}) ELSE kept

\* A line is longer the more digits its value has; two stand for all.
LineLength(v) == IF v \in 0 .. 1 THEN 1 ELSE 2

BeginRender ==
  /\ body' = <<>> /\ len' = 0 /\ kept' = 0 /\ floor' = done
  /\ last' = IF Len(body) = LatencySum THEN body ELSE last
  /\ UNCHANGED registry

\* Mutant: the buckets are rendered as they are.
RenderLineRaw ==
  /\ Len(body) < LatencySum
  /\ LET v == g[Len(body) + 1] IN body' = Append(body, v) /\ appendf(LineLength(v))
  /\ UNCHANGED <<registry, floor, last>>

\* The next value: a counter, a gauge, a bucket, which is rendered as the sum of the
\* buckets so far, or the sum of the durations.
RenderLine ==
  /\ Len(body) < LatencySum
  /\ LET c == Len(body) + 1
         v == IF c \in LatencyCount(2) .. LatencySum - 1 THEN body[c - 1] + g[c] ELSE g[c]
     IN body' = Append(body, v) /\ appendf(LineLength(v))
  /\ UNCHANGED <<registry, floor, last>>

Rendered == Len(body) = LatencySum

-----------------------------------------------------------------------------
\* Properties.

Total(f) == MapThenSumSet(LAMBDA x : f[x], DOMAIN f)
Observed(limit) == Total([d \in Duration |-> IF d <= limit THEN seen[d] ELSE 0])

\* When no call is in progress the registry tells the whole truth: every connection
\* and every request is in it once, and a request of exactly a bucket's bound is in
\* that bucket ("Boundaries are inclusive").
QuiescentExact ==
  (\A w \in Writer : doing[w] = "none") =>
    /\ g[Active] = live /\ g[WorkersBusy] = Cardinality(busy)
    /\ \A k \in 1 .. BUCKET_COUNT :
         Total([j \in 1 .. k |-> g[LatencyCount(j)]]) = Observed(Upper[k])
    /\ g[LatencySum] = Total([d \in Duration |-> d * seen[d]])

Monotone == {Accepted, Refused, LatencySum} \cup {LatencyCount(k) : k \in 1 .. BUCKET_COUNT + 1}

\* A *_total counter, a bucket or the sum of the durations is never lowered, whatever
\* the writers interleave: the concurrent gauges are the only cells that go down.
CountersNeverFall == [][\A c \in Monotone : g[c] <= g'[c]]_g

\* A scrape that runs beside the writers is torn, yet within bounds: its request
\* count covers every request finished before it began and none begun after it
\* ended, its buckets grow, no gauge of open connections is negative, and no counter
\* or bucket is lower than in the scrape before, which Prometheus would take for a
\* restart.
ScrapeBounded ==
  Rendered =>
    /\ floor <= body[LatencySum - 1]
    /\ body[LatencySum - 1] <= Total(seen)
    /\ \A k \in 1 .. BUCKET_COUNT : body[LatencyCount(k)] <= body[LatencyCount(k + 1)]
    /\ body[Active] >= 0
    /\ last # <<>> => \A c \in Monotone : last[c] <= body[c]

\* metrics_render never writes past the buffer, and a body that fits is there whole.
RenderInBounds ==
  kept <= len /\ kept < BODY_MAX /\ (len < BODY_MAX => kept = len)

=============================================================================
