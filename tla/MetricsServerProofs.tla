------------------------- MODULE MetricsServerProofs -------------------------
(***************************************************************************)
(* Metrics, for any buffer sizes, buckets, writers, durations and any      *)
(* sequence of starts and stops: the endpoint never outlives its listener, *)
(* never renders past its buffer and never says "200 OK" of a truncated    *)
(* body; the registry is exact whenever no call is in progress; and a      *)
(* scrape taken beside the writers is torn only within bounds.             *)
(***************************************************************************)
EXTENDS MetricsServer, DataLemmas

\* The endpoint between two calls and within one: the flags follow the thread.
LifeInv ==
  /\ mpc \in {"idle", "creating", "joining"}
  /\ mpc = "creating" => apc = "none" /\ g_listen_fd /\ g_running
  /\ mpc = "joining" => apc # "none"
  /\ apc # "none" => g_started /\ g_listen_fd
  /\ apc = "none" => ~g_started
  /\ mpc = "idle" /\ apc = "none" => ~g_listen_fd /\ ~g_running

\* A stop has cleared g_running before it joins, and it stays clear.
StopInv == mpc = "joining" => ~g_running

RenderInv ==
  /\ len \in Nat /\ kept \in Nat
  /\ RenderInBounds
  /\ reply # "none" => apc \in {"send", "close"}
  /\ ReplyWhole

\* The smaller of two naturals.
LEMMA MinOfTwo ==
  ASSUME NEW a \in Nat, NEW b \in Nat
  PROVE  Min({a, b}) = IF a <= b THEN a ELSE b
<1>1. \E x \in {a, b} : \A y \in {a, b} : x <= y
  OBVIOUS
<1>2. Min({a, b}) \in {a, b} /\ \A y \in {a, b} : Min({a, b}) <= y
  BY <1>1, Zenon DEF Min
<1> QED
  BY <1>2

-----------------------------------------------------------------------------
\* The life of the thread and its listener.

\* Nothing is started.
LEMMA InitLife == Init => LifeInv /\ StopInv
  BY Zenon DEF Init, LifeInv, StopInv

\* The caller and the thread keep the flags right, whoever moves first.
LEMMA NextLife == LifeInv /\ StopInv /\ [Next]_vars => LifeInv' /\ StopInv'
<1> SUFFICES ASSUME LifeInv, StopInv, [Next]_vars PROVE LifeInv' /\ StopInv'
  BY Zenon
<1> USE DEF LifeInv, StopInv
<1>1. CASE metrics_server_start
  <2>1. apc = "none" /\ mpc = "idle" /\ UNCHANGED <<apc, g_started>>
    BY <1>1, Zenon DEF metrics_server_start
  <2>2. CASE mpc' = "creating" /\ g_listen_fd' = TRUE /\ g_running' = TRUE
    BY <2>1, <2>2, Zenon
  <2>3. CASE UNCHANGED <<mpc, g_listen_fd, g_running>>
    BY <2>1, <2>3, Zenon
  <2> QED
    BY <1>1, <2>2, <2>3, Zenon DEF metrics_server_start
<1>2. CASE ThreadCreated
  BY <1>2, Zenon DEF ThreadCreated
<1>3. CASE ThreadNotCreated
  BY <1>3, Zenon DEF ThreadNotCreated
<1>4. CASE StopAsks
  BY <1>4, Zenon DEF StopAsks
<1>5. CASE StopJoins
  BY <1>5, Zenon DEF StopJoins
<1>6. CASE ScraperConnects
  BY <1>6, Zenon DEF ScraperConnects
<1>7. CASE accept_loop
  <2>1. apc # "none" /\ apc' # "none"
    BY <1>7, Zenon DEF accept_loop, TestRunning, Poll, PollOrAcceptFails, Accept, Recv, RecvEof,
      RecvFails,
       Dispatch, Render, ChooseStatus, SendReply, CloseClient, Goto
  <2>2. UNCHANGED <<mpc, g_listen_fd, g_running, g_started>>
    BY <1>7, Zenon DEF accept_loop, TestRunning, Poll, PollOrAcceptFails, Accept, Recv, RecvEof,
      RecvFails,
       Dispatch, Render, ChooseStatus, SendReply, CloseClient, Still
  <2> QED
    BY <2>1, <2>2, Zenon
<1>8. CASE Writers /\ UNCHANGED endpoint
  BY <1>8, Zenon DEF endpoint
<1>9. CASE UNCHANGED vars
  BY <1>9, Zenon DEF vars, endpoint
<1> QED
  BY <1>1, <1>2, <1>3, <1>4, <1>5, <1>6, <1>7, <1>8, <1>9, Zenon DEF Next

\* The thread never uses a closed listener, and no start or stop, failed or not, leaves
\* a thread or a listener behind.
THEOREM EndpointLifecycle == Spec => []Lifecycle
<1>1. LifeInv => Lifecycle
  BY Zenon DEF LifeInv, Lifecycle
<1> QED
  BY <1>1, InitLife, NextLife, PTL DEF Spec

-----------------------------------------------------------------------------
\* The body and the status of a scrape.

\* One appendf keeps the buffer within its bounds, however long the line.
LEMMA AppendKeepsBounds ==
  ASSUME len \in Nat, kept \in Nat, RenderInBounds, NEW n \in Nat, appendf(n)
  PROVE  len' \in Nat /\ kept' \in Nat /\ RenderInBounds'
<1>1. BODY_MAX \in Nat /\ BODY_MAX > 0
  BY BodyAssumption
<1>2. CASE len < BODY_MAX
  <2>1. kept' = IF len + n <= BODY_MAX - 1 THEN len + n ELSE BODY_MAX - 1
    BY <1>1, <1>2, MinOfTwo DEF appendf
  <2> QED
    BY <1>1, <1>2, <2>1 DEF appendf, RenderInBounds
<1>3. CASE ~(len < BODY_MAX)
  BY <1>1, <1>3 DEF appendf, RenderInBounds
<1> QED
  BY <1>2, <1>3, Zenon

\* The scrape starts empty and has sent nothing.
LEMMA InitRender == Init => RenderInv
  BY BodyAssumption DEF Init, metrics_init, RenderInv, RenderInBounds, ReplyWhole

\* Only the thread touches the body, and not between its status line and its close.
LEMMA NextRender == LifeInv /\ RenderInv /\ [Next]_vars => RenderInv'
<1> SUFFICES ASSUME LifeInv, RenderInv, [Next]_vars PROVE RenderInv'
  BY Zenon
<1> DEFINE Same == UNCHANGED <<body, len, kept>>
<1>0. ASSUME Same, reply' = reply, apc' = apc \/ reply = "none" \/ apc' = "close" PROVE RenderInv'
  BY <1>0, Zenon DEF RenderInv, RenderInBounds, ReplyWhole, Rendered
<1>1. CASE metrics_server_start \/ StopAsks \/ ScraperConnects \/ ThreadNotCreated
  BY <1>0, <1>1, Zenon DEF metrics_server_start, StopAsks, ScraperConnects, ThreadNotCreated, metrics,
    scrape
<1>2. CASE ThreadCreated \/ StopJoins
  <2>1. reply = "none"
    BY <1>2, Zenon DEF ThreadCreated, StopJoins, LifeInv, RenderInv
  <2> QED
    BY <1>0, <1>2, <2>1, Zenon DEF ThreadCreated, StopJoins, metrics, scrape
<1>3. CASE TestRunning \/ Poll \/ PollOrAcceptFails \/ Accept \/ Recv \/ RecvEof \/ RecvFails
  <2>1. reply = "none"
    BY <1>3, Zenon DEF TestRunning, Poll, PollOrAcceptFails, Accept, Recv, RecvEof, RecvFails, Goto,
      RenderInv
  <2> QED
    BY <1>0, <1>3, <2>1, Zenon DEF TestRunning, Poll, PollOrAcceptFails, Accept, Recv, RecvEof, RecvFails,
       metrics, scrape
<1>4. CASE Dispatch
  <2>1. reply = "none"
    BY <1>4, Zenon DEF Dispatch, Goto, RenderInv
  <2>2. CASE BeginRender /\ reply' = reply
    BY <2>1, <2>2, BodyAssumption DEF BeginRender, RenderInv, RenderInBounds, ReplyWhole
  <2>3. CASE Goto("dispatch", "send") /\ reply' = "404" /\ UNCHANGED metrics
    BY <2>3, Zenon DEF Goto, metrics, scrape, RenderInv, RenderInBounds, ReplyWhole
  <2> QED
    BY <1>4, <2>2, <2>3, Zenon DEF Dispatch
<1>5. CASE Render
  <2>1. reply = "none" /\ reply' = "none"
    BY <1>5, Zenon DEF Render, Goto, RenderInv
  <2>2. \E n \in Nat : appendf(n)
    BY <1>5, Zenon DEF Render, RenderLine, LineLength
  <2> QED
    BY <2>1, <2>2, AppendKeepsBounds, Zenon DEF RenderInv, ReplyWhole
<1>6. CASE ChooseStatus
  <2>1. Same /\ Rendered /\ apc' = "send" /\ reply' = IF len >= BODY_MAX THEN "500" ELSE "200"
    BY <1>6, Zenon DEF ChooseStatus, Goto, metrics, scrape
  <2> QED
    BY <2>1, BodyAssumption DEF RenderInv, RenderInBounds, ReplyWhole, Rendered
<1>7. CASE SendReply
  BY <1>0, <1>7, Zenon DEF SendReply, Goto, metrics, scrape
<1>8. CASE CloseClient
  BY <1>8, Zenon DEF CloseClient, metrics, scrape, RenderInv, RenderInBounds, ReplyWhole, Rendered
<1>9. CASE Writers /\ UNCHANGED endpoint
  <2>1. UNCHANGED scrape
    BY <1>9, Zenon DEF Writers, metrics_connection_accepted, metrics_connection_refused,
       metrics_connection_closed, metrics_workers_busy_add, metrics_request_observed,
       metrics_queue_depth_set, Call, Update
  <2> QED
    BY <1>0, <1>9, <2>1, Zenon DEF endpoint, scrape
<1>10. CASE UNCHANGED vars
  BY <1>0, <1>10, Zenon DEF vars, metrics, scrape, endpoint
<1> QED
  BY <1>1, <1>2, <1>3, <1>4, <1>5, <1>6, <1>7, <1>8, <1>9, <1>10, Zenon DEF Next, accept_loop

\* The invariant of the rendering holds of every run.
LEMMA RenderAlways == Spec => []RenderInv
  BY InitLife, NextLife, InitRender, NextRender, PTL DEF Spec

\* metrics_render stays inside the buffer for every size of it and every registry.
THEOREM RenderStaysInside == Spec => []RenderInBounds
  BY RenderAlways, PTL DEF RenderInv

\* A body that did not fit is never announced as whole.
THEOREM TruncationIsReported == Spec => []ReplyWhole
  BY RenderAlways, PTL DEF RenderInv


-----------------------------------------------------------------------------
\* The registry.

Bucket == 1 .. BUCKET_COUNT + 1

\* The cells follow one another without a gap.
LEMMA Cells ==
  /\ BUCKET_COUNT \in Nat /\ LatencySum = BUCKET_COUNT + 7 /\ Cell = 1 .. BUCKET_COUNT + 7
  /\ \A k \in Bucket : LatencyCount(k) = 5 + k /\ LatencyCount(k) \in Cell
<1>1. BUCKET_COUNT \in Nat
  BY UpperAssumption, LenProperties, Zenon DEF BUCKET_COUNT
<1> QED
  BY <1>1 DEF LatencySum, Cell, LatencyCount, Bucket

\* The bounds of the buckets grow.
LEMMA UpperGrows ==
  ASSUME NEW i \in 1 .. BUCKET_COUNT, NEW k \in 1 .. BUCKET_COUNT, i <= k
  PROVE  Upper[i] <= Upper[k]
<1> DEFINE N == {n \in Nat : i + n <= BUCKET_COUNT => Upper[i] <= Upper[i + n]}
<1>1. BUCKET_COUNT \in Nat /\ \A j \in 1 .. BUCKET_COUNT : Upper[j] \in Nat
  BY Cells, UpperAssumption, ElementOfSeq, Zenon DEF BUCKET_COUNT
<1>2. 0 \in N
  BY <1>1
<1>3. ASSUME NEW n \in Nat, n \in N PROVE n + 1 \in N
  <2> SUFFICES ASSUME i + (n + 1) <= BUCKET_COUNT PROVE Upper[i] <= Upper[i + (n + 1)]
    OBVIOUS
  <2> DEFINE j == i + n
  <2>1. /\ j \in 1 .. BUCKET_COUNT /\ j + 1 \in 1 .. BUCKET_COUNT /\ j \in 1 .. BUCKET_COUNT - 1
        /\ i + (n + 1) = j + 1 /\ Upper[i] <= Upper[j]
    BY <1>1, <1>3
  <2> HIDE DEF j
  <2>2. Upper[j] < Upper[j + 1]
    BY <2>1, UpperAssumption, Zenon
  <2>3. Upper[i] \in Nat /\ Upper[j] \in Nat /\ Upper[j + 1] \in Nat
    BY <1>1, <2>1, Zenon
  <2> QED
    BY <2>1, <2>2, <2>3
<1> HIDE DEF N
<1>4. k - i \in N
  <2>1. k - i \in Nat
    BY <1>1
  <2> QED
    BY <1>2, <1>3, <2>1, SetInduction, Zenon
<1>5. i + (k - i) = k /\ k <= BUCKET_COUNT
  BY <1>1
<1> QED
  BY <1>4, <1>5, Zenon DEF N

\* bucket_index: a duration is in a bucket up to k exactly if k's bound is not below it.
LEMMA BucketIndex ==
  ASSUME NEW d \in Duration
  PROVE  /\ bucket_index(d) \in Bucket
         /\ \A k \in 1 .. BUCKET_COUNT : bucket_index(d) <= k <=> d <= Upper[k]
<1> DEFINE fits == {k \in 1 .. BUCKET_COUNT : d <= Upper[k]}
           b == bucket_index(d)
<1>1. BUCKET_COUNT \in Nat /\ d \in Nat /\ \A j \in 1 .. BUCKET_COUNT : Upper[j] \in Nat
  BY Cells, UpperAssumption, DurationAssumption, ElementOfSeq, Zenon DEF BUCKET_COUNT
<1>2. CASE fits = {}
  <2>1. b = BUCKET_COUNT + 1
    BY <1>2, Zenon DEF bucket_index
  <2> QED
    BY <1>1, <1>2, <2>1 DEF Bucket
<1>3. CASE fits # {}
  <2>1. b = Min(fits)
    BY <1>3, Zenon DEF bucket_index
  <2>2. fits \subseteq Nat
    BY <1>1
  <2>3. \E x \in fits : \A y \in fits : x <= y
    BY <1>3, <2>2, LeastNat, Zenon
  <2>4. b \in fits /\ \A y \in fits : b <= y
    BY <2>1, <2>3, Zenon DEF Min
  <2> HIDE DEF b
  <2>5. b \in 1 .. BUCKET_COUNT /\ d <= Upper[b]
    BY <2>4, Zenon
  <2>6. ASSUME NEW k \in 1 .. BUCKET_COUNT, b <= k PROVE d <= Upper[k]
    <3>1. Upper[b] <= Upper[k]
      BY <2>5, <2>6, UpperGrows, Zenon
    <3> QED
      BY <1>1, <2>5, <3>1
  <2>7. ASSUME NEW k \in 1 .. BUCKET_COUNT, d <= Upper[k] PROVE b <= k
    BY <2>4, <2>7, Zenon
  <2>8. b \in Bucket
    BY <1>1, <2>5 DEF Bucket
  <2> QED
    BY <2>6, <2>7, <2>8, Zenon DEF b
<1> QED
  BY <1>2, <1>3, Zenon

\* One writer joins or leaves a set of them, or nobody does.
Joins(T, S, w) == (IF w \in T THEN 1 ELSE 0) - (IF w \in S THEN 1 ELSE 0)

\* How many there are then.
LEMMA CountStep ==
  ASSUME NEW S \in SUBSET Writer, NEW T \in SUBSET Writer, NEW w \in Writer,
         \A v \in Writer : v # w => (v \in S <=> v \in T)
  PROVE  /\ Cardinality(S) \in Nat /\ Cardinality(T) \in Nat
         /\ Cardinality(T) = Cardinality(S) + Joins(T, S, w)
<1>1. IsFiniteSet(S) /\ IsFiniteSet(T) /\ Cardinality(S) \in Nat /\ Cardinality(T) \in Nat
  BY FiniteAssumption, FS_Subset, FS_CardinalityType, Zenon
<1>2. CASE w \in S /\ w \in T
  <2>1. S = T
    BY <1>2
  <2> QED
    BY <1>1, <1>2, <2>1 DEF Joins
<1>3. CASE w \notin S /\ w \notin T
  <2>1. S = T
    BY <1>3
  <2> QED
    BY <1>1, <1>3, <2>1 DEF Joins
<1>4. CASE w \in S /\ w \notin T
  <2>1. S = T \cup {w}
    BY <1>4, Zenon
  <2>2. Cardinality(S) = Cardinality(T) + 1
    BY <1>1, <1>4, <2>1, FS_AddElement, Zenon
  <2> QED
    BY <1>1, <1>4, <2>2 DEF Joins
<1>5. CASE w \notin S /\ w \in T
  <2>1. T = S \cup {w}
    BY <1>5, Zenon
  <2>2. Cardinality(T) = Cardinality(S) + 1
    BY <1>1, <1>5, <2>1, FS_AddElement, Zenon
  <2> QED
    BY <1>1, <1>5, <2>2 DEF Joins
<1> QED
  BY <1>2, <1>3, <1>4, <1>5, Zenon

\* What a call in progress still has to do.
CallGood(w) ==
  \/ doing[w] = "none" /\ todo[w] = {}
  \/ /\ doing[w] = "accepted" /\ todo[w] # {}
     /\ todo[w] \subseteq {<<Accepted, "add", 1>>, <<Active, "add", 1>>}
  \/ doing[w] = "refused" /\ todo[w] = {<<Refused, "add", 1>>}
  \/ doing[w] = "closed" /\ todo[w] = {<<Active, "add", -1>>}
  \/ /\ doing[w] = "observed" /\ todo[w] # {}
     /\ \E d \in Duration :
          todo[w] \subseteq {<<LatencyCount(bucket_index(d)), "add", 1>>, <<LatencySum, "add", d>>}
  \/ doing[w] = "depth" /\ \E n \in Depths : todo[w] = {<<QueueDepth, "set", n>>}
  \/ doing[w] = "busy" /\ todo[w] = {<<WorkersBusy, "add", IF w \in busy THEN 1 ELSE -1>>}

RegistryType ==
  /\ g \in [Cell -> Int] /\ live \in Nat /\ busy \in SUBSET Writer
  /\ seen \in [Duration -> Nat] /\ done \in Nat
  /\ DOMAIN todo = Writer /\ DOMAIN doing = Writer
  /\ \A w \in Writer : CallGood(w)

\* What one writer does leaves the calls of the others as they are.
Apart(w) ==
  \A v \in Writer : v # w => /\ doing'[v] = doing[v] /\ todo'[v] = todo[v]
                             /\ (v \in busy' <=> v \in busy)

LEMMA OthersGood ==
  ASSUME RegistryType, NEW w \in Writer, Apart(w), CallGood(w)'
  PROVE  \A v \in Writer : CallGood(v)'
<1> SUFFICES ASSUME NEW v \in Writer, v # w PROVE CallGood(v)'
  BY Zenon
<1>1. CallGood(v) /\ doing'[v] = doing[v] /\ todo'[v] = todo[v] /\ (v \in busy' <=> v \in busy)
  BY Zenon DEF RegistryType, Apart
<1> QED
  BY <1>1, Zenon DEF CallGood

\* A call begins.
LEMMA CallBegins ==
  ASSUME RegistryType, NEW w \in Writer, NEW name, NEW updates, Call(w, name, updates),
         busy' = busy \/ busy' = busy \cup {w} \/ busy' = busy \ {w}
  PROVE  /\ doing[w] = "none" /\ todo[w] = {} /\ doing'[w] = name /\ todo'[w] = updates
         /\ Apart(w) /\ DOMAIN todo' = Writer /\ DOMAIN doing' = Writer
         /\ g' = g /\ done' = done /\ UNCHANGED scrape
<1>1. CallGood(w) /\ DOMAIN todo = Writer /\ DOMAIN doing = Writer
  BY Zenon DEF RegistryType
<1>2. /\ doing[w] = "none" /\ UNCHANGED <<g, done, scrape>>
      /\ doing' = [doing EXCEPT ![w] = name] /\ todo' = [todo EXCEPT ![w] = updates]
  BY Zenon DEF Call
<1>3. todo[w] = {}
  BY <1>1, <1>2, Zenon DEF CallGood
<1>4. /\ doing'[w] = name /\ todo'[w] = updates
      /\ \A v \in Writer : v # w => doing'[v] = doing[v] /\ todo'[v] = todo[v]
      /\ DOMAIN todo' = Writer /\ DOMAIN doing' = Writer
  BY <1>1, <1>2, Zenon
<1>5. Apart(w)
  BY <1>4, Zenon DEF Apart
<1> QED
  BY <1>2, <1>3, <1>4, <1>5, Zenon

\* What each writer's step does, apart from the call it begins.
LEMMA TypeOfCalls ==
  ASSUME RegistryType, NEW w \in Writer,
         \/ metrics_connection_accepted(w) \/ metrics_connection_refused(w)
         \/ metrics_connection_closed(w) \/ metrics_workers_busy_add(w)
         \/ \E d \in Duration : metrics_request_observed(w, d)
         \/ \E n \in Depths : metrics_queue_depth_set(w, n)
  PROVE  RegistryType'
<1>1. CASE metrics_connection_accepted(w)
  <2>1. Call(w, "accepted", {<<Accepted, "add", 1>>, <<Active, "add", 1>>}) /\ UNCHANGED <<live, busy, seen>>
    BY <1>1, Zenon DEF metrics_connection_accepted
  <2>2. doing'[w] = "accepted" /\ todo'[w] = {<<Accepted, "add", 1>>, <<Active, "add", 1>>} /\ Apart(w)
    BY <2>1, CallBegins, Zenon
  <2>3. todo'[w] # {} /\ todo'[w] \subseteq {<<Accepted, "add", 1>>, <<Active, "add", 1>>}
    BY <2>2, Zenon
  <2>4. CallGood(w)'
    BY <2>2, <2>3, Zenon DEF CallGood
  <2> QED
    BY <2>1, <2>2, <2>4, CallBegins, OthersGood, Zenon DEF RegistryType
<1>2. CASE metrics_connection_refused(w)
  <2>1. Call(w, "refused", {<<Refused, "add", 1>>}) /\ UNCHANGED <<live, busy, seen>>
    BY <1>2, Zenon DEF metrics_connection_refused
  <2>2. CallGood(w)' /\ Apart(w)
    BY <2>1, CallBegins, Zenon DEF CallGood
  <2> QED
    BY <2>1, <2>2, CallBegins, OthersGood, Zenon DEF RegistryType
<1>3. CASE metrics_connection_closed(w)
  <2>1. /\ Call(w, "closed", {<<Active, "add", -1>>}) /\ UNCHANGED <<busy, seen>>
        /\ live > 0 /\ live' = live - 1
    BY <1>3, Zenon DEF metrics_connection_closed
  <2>2. CallGood(w)' /\ Apart(w)
    BY <2>1, CallBegins, Zenon DEF CallGood
  <2>3. live' \in Nat
    BY <2>1 DEF RegistryType
  <2> QED
    BY <2>1, <2>2, <2>3, CallBegins, OthersGood, Zenon DEF RegistryType
<1>4. CASE metrics_workers_busy_add(w)
  <2>1. /\ Call(w, "busy", {<<WorkersBusy, "add", IF w \in busy THEN -1 ELSE 1>>}) /\ UNCHANGED <<live, seen>>
        /\ busy' = IF w \in busy THEN busy \ {w} ELSE busy \cup {w}
    BY <1>4, Zenon DEF metrics_workers_busy_add
  <2>2. doing'[w] = "busy" /\ todo'[w] = {<<WorkersBusy, "add", IF w \in busy THEN -1 ELSE 1>>} /\ Apart(w)
    BY <2>1, CallBegins, Zenon
  <2>3. (IF w \in busy THEN -1 ELSE 1) = (IF w \in busy' THEN 1 ELSE -1) /\ busy' \in SUBSET Writer
    BY <2>1, Zenon DEF RegistryType
  <2>4. CallGood(w)'
    BY <2>2, <2>3, Zenon DEF CallGood
  <2> QED
    BY <2>1, <2>2, <2>3, <2>4, CallBegins, OthersGood, Zenon DEF RegistryType
<1>5. ASSUME NEW d \in Duration, metrics_request_observed(w, d) PROVE RegistryType'
  <2>1. /\ Call(w, "observed", {<<LatencyCount(bucket_index(d)), "add", 1>>, <<LatencySum, "add", d>>})
        /\ UNCHANGED <<live, busy>> /\ seen' = [seen EXCEPT ![d] = @ + 1]
    BY <1>5, Zenon DEF metrics_request_observed
  <2> DEFINE U == {<<LatencyCount(bucket_index(d)), "add", 1>>, <<LatencySum, "add", d>>}
  <2>2. doing'[w] = "observed" /\ todo'[w] = U /\ Apart(w)
    BY <2>1, CallBegins, Zenon
  <2>3. todo'[w] # {} /\ todo'[w] \subseteq U
    BY <2>2, Zenon
  <2>4. CallGood(w)'
    BY <2>2, <2>3, Zenon DEF CallGood
  <2>5. seen' \in [Duration -> Nat]
    BY <2>1 DEF RegistryType
  <2> QED
    BY <2>1, <2>2, <2>4, <2>5, CallBegins, OthersGood, Zenon DEF RegistryType
<1>6. ASSUME NEW n \in Depths, metrics_queue_depth_set(w, n) PROVE RegistryType'
  <2>1. Call(w, "depth", {<<QueueDepth, "set", n>>}) /\ UNCHANGED <<live, busy, seen>>
    BY <1>6, Zenon DEF metrics_queue_depth_set
  <2>2. CallGood(w)' /\ Apart(w)
    BY <2>1, CallBegins, Zenon DEF CallGood
  <2> QED
    BY <2>1, <2>2, CallBegins, OthersGood, Zenon DEF RegistryType
<1> QED
  BY <1>1, <1>2, <1>3, <1>4, <1>5, <1>6, Zenon

\* A cell grows by x and no other changes.
Adds(c, x) == c \in Cell /\ x \in Int /\ g' = [g EXCEPT ![c] = g[c] + x]

\* The update u of the call of w, by the kind of the call.
Lands(w, u) ==
  \/ /\ doing[w] = "accepted" /\ todo[w] \subseteq {<<Accepted, "add", 1>>, <<Active, "add", 1>>}
     /\ \/ u = <<Accepted, "add", 1>> /\ Adds(Accepted, 1)
        \/ u = <<Active, "add", 1>> /\ Adds(Active, 1)
  \/ doing[w] = "refused" /\ todo[w] = {<<Refused, "add", 1>>} /\ todo[w] = {u} /\ Adds(Refused, 1)
  \/ doing[w] = "closed" /\ todo[w] = {<<Active, "add", -1>>} /\ todo[w] = {u} /\ Adds(Active, -1)
  \/ /\ doing[w] = "observed"
     /\ \E d \in Duration :
          /\ todo[w] \subseteq {<<LatencyCount(bucket_index(d)), "add", 1>>, <<LatencySum, "add", d>>}
          /\ \/ /\ u = <<LatencyCount(bucket_index(d)), "add", 1>>
                /\ Adds(LatencyCount(bucket_index(d)), 1)
             \/ u = <<LatencySum, "add", d>> /\ Adds(LatencySum, d)
  \/ /\ doing[w] = "depth" /\ todo[w] = {u}
     /\ \E n \in Depths : u = <<QueueDepth, "set", n>> /\ g' = [g EXCEPT ![QueueDepth] = n]
  \/ /\ doing[w] = "busy" /\ todo[w] = {<<WorkersBusy, "add", IF w \in busy THEN 1 ELSE -1>>} /\ todo[w] = {u}
     /\ Adds(WorkersBusy, IF w \in busy THEN 1 ELSE -1)

LEMMA UpdateLands ==
  ASSUME RegistryType, NEW w \in Writer, NEW u \in todo[w], Update(w, u)
  PROVE  Lands(w, u)
<1>1. CallGood(w) /\ u \in todo[w] /\ g \in [Cell -> Int]
  BY Zenon DEF RegistryType
<1>2. g' = [g EXCEPT ![u[1]] = IF u[2] = "set" THEN u[3] ELSE g[u[1]] + u[3]]
  BY Zenon DEF Update
<1>3. ASSUME NEW c \in Cell, NEW x \in Int, u = <<c, "add", x>> PROVE Adds(c, x)
  BY <1>2, <1>3, Zenon DEF Adds
<1>4. /\ {Accepted, Refused, Active, QueueDepth, WorkersBusy, LatencySum} \subseteq Cell
      /\ \A d \in Duration : LatencyCount(bucket_index(d)) \in Cell /\ d \in Int
  <2>1. /\ Accepted \in Cell /\ Refused \in Cell /\ Active \in Cell /\ QueueDepth \in Cell
        /\ WorkersBusy \in Cell /\ LatencySum \in Cell
    BY Cells DEF Accepted, Refused, Active, QueueDepth, WorkersBusy
  <2>2. \A d \in Duration : LatencyCount(bucket_index(d)) \in Cell
    BY Cells, BucketIndex, Zenon
  <2>3. \A d \in Duration : d \in Int
    BY DurationAssumption
  <2> QED
    BY <2>1, <2>2, <2>3, Zenon
<1>5. CASE doing[w] = "accepted"
  <2>1. todo[w] \subseteq {<<Accepted, "add", 1>>, <<Active, "add", 1>>}
    BY <1>1, <1>5, Zenon DEF CallGood
  <2>2. u = <<Accepted, "add", 1>> \/ u = <<Active, "add", 1>>
    BY <2>1, Zenon
  <2> QED
    BY <1>3, <1>4, <1>5, <2>1, <2>2 DEF Lands
<1>6. CASE doing[w] = "refused"
  <2>1. todo[w] = {<<Refused, "add", 1>>}
    BY <1>1, <1>6, Zenon DEF CallGood
  <2>2. u = <<Refused, "add", 1>> /\ todo[w] = {u}
    BY <2>1, Zenon
  <2> QED
    BY <1>3, <1>4, <1>6, <2>1, <2>2 DEF Lands
<1>7. CASE doing[w] = "closed"
  <2>1. todo[w] = {<<Active, "add", -1>>}
    BY <1>1, <1>7, Zenon DEF CallGood
  <2>2. u = <<Active, "add", -1>> /\ todo[w] = {u}
    BY <2>1, Zenon
  <2> QED
    BY <1>3, <1>4, <1>7, <2>1, <2>2 DEF Lands
<1>8. CASE doing[w] = "observed"
  <2>1. PICK d \in Duration :
          todo[w] \subseteq {<<LatencyCount(bucket_index(d)), "add", 1>>, <<LatencySum, "add", d>>}
    BY <1>1, <1>8, Zenon DEF CallGood
  <2>2. u = <<LatencyCount(bucket_index(d)), "add", 1>> \/ u = <<LatencySum, "add", d>>
    BY <2>1, Zenon
  <2>3. \/ u = <<LatencyCount(bucket_index(d)), "add", 1>> /\ Adds(LatencyCount(bucket_index(d)), 1)
        \/ u = <<LatencySum, "add", d>> /\ Adds(LatencySum, d)
    BY <1>3, <1>4, <2>2
  <2> QED
    BY <1>8, <2>1, <2>3, Zenon DEF Lands
<1>9. CASE doing[w] = "depth"
  <2>1. PICK n \in Depths : todo[w] = {<<QueueDepth, "set", n>>}
    BY <1>1, <1>9, Zenon DEF CallGood
  <2>2. u = <<QueueDepth, "set", n>> /\ todo[w] = {u}
    BY <2>1, Zenon
  <2>3. g' = [g EXCEPT ![QueueDepth] = n]
    BY <1>2, <2>2, Zenon
  <2> QED
    BY <1>9, <2>2, <2>3, Zenon DEF Lands
<1>10. CASE doing[w] = "busy"
  <2> DEFINE x == IF w \in busy THEN 1 ELSE -1
  <2>1. todo[w] = {<<WorkersBusy, "add", x>>} /\ x \in Int
    BY <1>1, <1>10 DEF CallGood
  <2>2. u = <<WorkersBusy, "add", x>> /\ todo[w] = {u}
    BY <2>1, Zenon
  <2>3. Adds(WorkersBusy, x)
    BY <1>3, <1>4, <2>1, <2>2, Zenon
  <2> QED
    BY <1>10, <2>1, <2>2, <2>3, Zenon DEF Lands
<1>11. doing[w] # "none"
  BY <1>1, Zenon DEF CallGood
<1> QED
  BY <1>1, <1>5, <1>6, <1>7, <1>8, <1>9, <1>10, <1>11, Zenon DEF CallGood

\* The call an update belongs to goes on or returns.
LEMMA UpdateReturns ==
  ASSUME RegistryType, NEW w \in Writer, NEW u \in todo[w], Update(w, u)
  PROVE  /\ Apart(w) /\ todo'[w] = todo[w] \ {u} /\ DOMAIN todo' = Writer /\ DOMAIN doing' = Writer
         /\ busy' = busy /\ seen' = seen /\ UNCHANGED scrape
         /\ \/ /\ todo[w] = {u} /\ todo'[w] = {} /\ doing'[w] = "none"
               /\ live' = IF doing[w] = "accepted" THEN live + 1 ELSE live
               /\ done' = IF doing[w] = "observed" THEN done + 1 ELSE done
            \/ todo[w] # {u} /\ todo'[w] # {} /\ doing'[w] = doing[w] /\ live' = live /\ done' = done
<1>1. DOMAIN todo = Writer /\ DOMAIN doing = Writer
  BY Zenon DEF RegistryType
<1>2. /\ todo' = [todo EXCEPT ![w] = todo[w] \ {u}] /\ UNCHANGED <<busy, seen, scrape>>
      /\ IF todo[w] = {u}
         THEN /\ doing' = [doing EXCEPT ![w] = "none"]
              /\ live' = IF doing[w] = "accepted" THEN live + 1 ELSE live
              /\ done' = IF doing[w] = "observed" THEN done + 1 ELSE done
         ELSE UNCHANGED <<doing, live, done>>
  BY Zenon DEF Update
<1>3. /\ todo'[w] = todo[w] \ {u} /\ DOMAIN todo' = Writer /\ DOMAIN doing' = Writer
      /\ \A v \in Writer : v # w => doing'[v] = doing[v] /\ todo'[v] = todo[v]
  BY <1>1, <1>2, Zenon
<1>4. Apart(w)
  BY <1>2, <1>3, Zenon DEF Apart
<1>5. CASE todo[w] = {u}
  BY <1>1, <1>2, <1>3, <1>4, <1>5, Zenon
<1>6. CASE todo[w] # {u}
  <2>1. todo'[w] # {}
    BY <1>3, <1>6, Zenon
  <2> QED
    BY <1>2, <1>3, <1>4, <1>6, <2>1, Zenon
<1> QED
  BY <1>5, <1>6, Zenon

LEMMA TypeOfUpdates ==
  ASSUME RegistryType, NEW w \in Writer, NEW u \in todo[w], Update(w, u)
  PROVE  RegistryType'
<1>1. Lands(w, u)
  BY UpdateLands, Zenon
<1>2. g' \in [Cell -> Int]
  <2>1. QueueDepth \in Cell /\ Depths \subseteq Int
    BY Cells, DurationAssumption DEF QueueDepth
  <2>2. \/ \E c \in Cell, x \in Int : g' = [g EXCEPT ![c] = g[c] + x]
        \/ \E n \in Depths : g' = [g EXCEPT ![QueueDepth] = n]
    BY <1>1, Zenon DEF Lands, Adds
  <2> QED
    BY <2>1, <2>2 DEF RegistryType
<1>3. live' \in Nat /\ done' \in Nat
  BY UpdateReturns DEF RegistryType
<1>4. CallGood(w)'
  <2>1. CASE todo[w] = {u}
    BY <2>1, UpdateReturns, Zenon DEF CallGood
  <2>2. CASE todo[w] # {u}
    <3>1. todo'[w] # {} /\ doing'[w] = doing[w] /\ todo'[w] \subseteq todo[w]
      BY <2>2, UpdateReturns, Zenon
    <3>2. doing[w] = "accepted" \/ doing[w] = "observed"
      BY <1>1, <2>2, Zenon DEF Lands
    <3>3. CASE doing[w] = "accepted"
      <4>1. todo'[w] \subseteq {<<Accepted, "add", 1>>, <<Active, "add", 1>>}
        BY <1>1, <3>1, <3>3, Zenon DEF Lands
      <4> QED
        BY <3>1, <3>3, <4>1, Zenon DEF CallGood
    <3>4. CASE doing[w] = "observed"
      <4>1. \E d \in Duration :
              todo'[w] \subseteq {<<LatencyCount(bucket_index(d)), "add", 1>>, <<LatencySum, "add", d>>}
        BY <1>1, <3>1, <3>4, Zenon DEF Lands
      <4> QED
        BY <3>1, <3>4, <4>1, Zenon DEF CallGood
    <3> QED
      BY <3>2, <3>3, <3>4, Zenon
  <2> QED
    BY <2>1, <2>2, Zenon
<1>5. \A v \in Writer : CallGood(v)'
  BY <1>4, UpdateReturns, OthersGood, Zenon
<1> QED
  BY <1>2, <1>3, <1>5, UpdateReturns, Zenon DEF RegistryType

-----------------------------------------------------------------------------
\* The gauges.

\* Writers whose call shows in the gauge of open connections and not in live.
Ahead == {w \in Writer : doing[w] = "closed" \/ (doing[w] = "accepted" /\ <<Active, "add", 1>> \notin todo[w])}

\* Workers the gauge shows as busy.
Shown == {w \in Writer : (w \in busy) # (doing[w] = "busy")}

\* A gauge differs from what it counts by the calls in progress.
GaugeInv == g[Active] = live + Cardinality(Ahead) /\ g[WorkersBusy] = Cardinality(Shown)

LEMMA GaugeSets ==
  ASSUME NEW w \in Writer, Apart(w)
  PROVE  /\ Cardinality(Ahead) \in Nat /\ Cardinality(Ahead)' \in Nat
         /\ Cardinality(Ahead)' = Cardinality(Ahead) + Joins(Ahead', Ahead, w)
         /\ Cardinality(Shown) \in Nat /\ Cardinality(Shown)' \in Nat
         /\ Cardinality(Shown)' = Cardinality(Shown) + Joins(Shown', Shown, w)
<1>1. /\ Ahead \in SUBSET Writer /\ Ahead' \in SUBSET Writer
      /\ \A v \in Writer : v # w => (v \in Ahead <=> v \in Ahead')
  BY Zenon DEF Ahead, Apart
<1>2. /\ Shown \in SUBSET Writer /\ Shown' \in SUBSET Writer
      /\ \A v \in Writer : v # w => (v \in Shown <=> v \in Shown')
  BY DEF Shown, Apart
<1> QED
  BY <1>1, <1>2, CountStep, Zenon

\* A step of w that moves the gauges by x and y, live by n, and w in and out of the
\* sets accordingly keeps the invariant.
LEMMA GaugeStep ==
  ASSUME RegistryType, GaugeInv, NEW w \in Writer, Apart(w), NEW n \in Int, live' = live + n,
         g'[Active] = g[Active] + n + Joins(Ahead', Ahead, w),
         g'[WorkersBusy] = g[WorkersBusy] + Joins(Shown', Shown, w)
  PROVE  GaugeInv'
<1>1. g[Active] \in Int /\ g[WorkersBusy] \in Int /\ live \in Int
  BY Cells DEF RegistryType, Active, WorkersBusy
<1>2. Joins(Ahead', Ahead, w) \in Int /\ Joins(Shown', Shown, w) \in Int
  BY DEF Joins
<1>3. g'[Active] = live' + Cardinality(Ahead)'
  BY <1>1, <1>2, GaugeSets DEF GaugeInv
<1>4. g'[WorkersBusy] = Cardinality(Shown)'
  BY <1>1, <1>2, GaugeSets, Zenon DEF GaugeInv
<1> QED
  BY <1>3, <1>4, Zenon DEF GaugeInv

LEMMA GaugeCalls ==
  ASSUME RegistryType, GaugeInv, NEW w \in Writer,
         \/ metrics_connection_accepted(w) \/ metrics_connection_refused(w)
         \/ metrics_connection_closed(w) \/ metrics_workers_busy_add(w)
         \/ \E d \in Duration : metrics_request_observed(w, d)
         \/ \E n \in Depths : metrics_queue_depth_set(w, n)
  PROVE  GaugeInv'
<1>0. g[Active] \in Int /\ g[WorkersBusy] \in Int /\ live \in Int
  BY Cells DEF RegistryType, Active, WorkersBusy
<1>1. ASSUME NEW name \in {"refused", "observed", "depth"}, NEW updates, Call(w, name, updates),
             UNCHANGED <<live, busy>>
      PROVE  GaugeInv'
  <2>1. /\ doing[w] = "none" /\ doing'[w] = name /\ g' = g /\ Apart(w)
    BY <1>1, CallBegins, Zenon
  <2>2. w \notin Ahead /\ w \notin Ahead' /\ (w \in Shown <=> w \in Shown')
    BY <1>1, <2>1, Zenon DEF Ahead, Shown
  <2>3. Joins(Ahead', Ahead, w) = 0 /\ Joins(Shown', Shown, w) = 0
    BY <2>2 DEF Joins
  <2> QED
    BY <1>0, <1>1, <2>1, <2>3, GaugeStep
<1>2. CASE metrics_connection_accepted(w)
  <2>1. Call(w, "accepted", {<<Accepted, "add", 1>>, <<Active, "add", 1>>}) /\ UNCHANGED <<live, busy>>
    BY <1>2, Zenon DEF metrics_connection_accepted
  <2>2. /\ doing[w] = "none" /\ doing'[w] = "accepted" /\ g' = g /\ Apart(w)
        /\ todo'[w] = {<<Accepted, "add", 1>>, <<Active, "add", 1>>}
    BY <2>1, CallBegins, Zenon
  <2>3. <<Active, "add", 1>> \in todo'[w]
    BY <2>2, Zenon
  <2>4. w \notin Ahead /\ w \notin Ahead' /\ (w \in Shown <=> w \in Shown')
    BY <2>1, <2>2, <2>3, Zenon DEF Ahead, Shown
  <2>5. Joins(Ahead', Ahead, w) = 0 /\ Joins(Shown', Shown, w) = 0
    BY <2>4 DEF Joins
  <2>6. /\ live' = live + 0 /\ g'[Active] = g[Active] + 0 + Joins(Ahead', Ahead, w)
        /\ g'[WorkersBusy] = g[WorkersBusy] + Joins(Shown', Shown, w)
    BY <1>0, <2>1, <2>2, <2>5
  <2> QED
    BY <2>2, <2>6, GaugeStep
<1>3. CASE metrics_connection_closed(w)
  <2>1. Call(w, "closed", {<<Active, "add", -1>>}) /\ UNCHANGED busy /\ live' = live + (-1)
    BY <1>0, <1>3, Zenon DEF metrics_connection_closed
  <2>2. /\ doing[w] = "none" /\ doing'[w] = "closed" /\ g' = g /\ Apart(w)
    BY <2>1, CallBegins, Zenon
  <2>3. w \notin Ahead /\ w \in Ahead' /\ (w \in Shown <=> w \in Shown')
    BY <2>1, <2>2, Zenon DEF Ahead, Shown
  <2>4. Joins(Ahead', Ahead, w) = 1 /\ Joins(Shown', Shown, w) = 0
    BY <2>3 DEF Joins
  <2> QED
    BY <1>0, <2>1, <2>2, <2>4, GaugeStep
<1>4. CASE metrics_workers_busy_add(w)
  <2>1. /\ Call(w, "busy", {<<WorkersBusy, "add", IF w \in busy THEN -1 ELSE 1>>}) /\ UNCHANGED live
        /\ busy' = IF w \in busy THEN busy \ {w} ELSE busy \cup {w}
    BY <1>4, Zenon DEF metrics_workers_busy_add
  <2>2. /\ doing[w] = "none" /\ doing'[w] = "busy" /\ g' = g /\ Apart(w)
    BY <2>1, CallBegins, Zenon
  <2>3. w \notin Ahead /\ w \notin Ahead' /\ (w \in Shown <=> w \in Shown')
    BY <2>1, <2>2 DEF Ahead, Shown
  <2>4. Joins(Ahead', Ahead, w) = 0 /\ Joins(Shown', Shown, w) = 0
    BY <2>3 DEF Joins
  <2> QED
    BY <1>0, <2>1, <2>2, <2>4, GaugeStep
<1> QED
  BY <1>1, <1>2, <1>3, <1>4, Zenon
     DEF metrics_connection_refused, metrics_request_observed, metrics_queue_depth_set

LEMMA GaugeUpdates ==
  ASSUME RegistryType, GaugeInv, NEW w \in Writer, NEW u \in todo[w], Update(w, u)
  PROVE  GaugeInv'
<1>0. /\ g[Active] \in Int /\ g[WorkersBusy] \in Int /\ live \in Int
      /\ \A c \in Cell : c # Active => \A x : [g EXCEPT ![c] = x][Active] = g[Active]
      /\ \A c \in Cell : c # WorkersBusy => \A x : [g EXCEPT ![c] = x][WorkersBusy] = g[WorkersBusy]
  BY Cells DEF RegistryType, Active, WorkersBusy
<1>1. Lands(w, u) /\ Apart(w) /\ busy' = busy
  BY UpdateLands, UpdateReturns, Zenon
<1>2. CASE doing[w] = "refused" \/ doing[w] = "observed" \/ doing[w] = "depth"
  <2>1. g'[Active] = g[Active] /\ g'[WorkersBusy] = g[WorkersBusy]
    <3>1. /\ \A d \in Duration : LatencyCount(bucket_index(d)) \in Cell \ {Active, WorkersBusy}
          /\ {Refused, QueueDepth, LatencySum} \subseteq Cell \ {Active, WorkersBusy}
      BY Cells, BucketIndex DEF Active, WorkersBusy, Refused, QueueDepth, Bucket
    <3>2. \E c \in Cell \ {Active, WorkersBusy} : \E x : g' = [g EXCEPT ![c] = x]
      BY <1>1, <1>2, <3>1, Zenon DEF Lands, Adds
    <3> QED
      BY <1>0, <3>2
  <2>2. live' = live /\ doing'[w] \in {"none", doing[w]}
    BY <1>2, UpdateReturns, Zenon
  <2>3. w \notin Ahead /\ w \notin Ahead' /\ (w \in Shown <=> w \in Shown')
    BY <1>1, <1>2, <2>2, Zenon DEF Ahead, Shown
  <2>4. Joins(Ahead', Ahead, w) = 0 /\ Joins(Shown', Shown, w) = 0
    BY <2>3 DEF Joins
  <2> QED
    BY <1>0, <1>1, <2>1, <2>2, <2>4, GaugeStep
<1>3. CASE doing[w] = "closed"
  <2>1. todo[w] = {u} /\ Adds(Active, -1)
    BY <1>1, <1>3, Zenon DEF Lands
  <2>2. live' = live /\ doing'[w] = "none"
    BY <1>3, <2>1, UpdateReturns, Zenon
  <2>3. w \in Ahead /\ w \notin Ahead' /\ (w \in Shown <=> w \in Shown')
    BY <1>1, <1>3, <2>2, Zenon DEF Ahead, Shown
  <2>4. Joins(Ahead', Ahead, w) = -1 /\ Joins(Shown', Shown, w) = 0
    BY <2>3 DEF Joins
  <2>5. g'[Active] = g[Active] + (-1) /\ g'[WorkersBusy] = g[WorkersBusy]
    BY <2>1, Cells DEF Adds, RegistryType, Active, WorkersBusy
  <2> QED
    BY <1>0, <1>1, <2>2, <2>4, <2>5, GaugeStep
<1>4. CASE doing[w] = "busy"
  <2> DEFINE x == IF w \in busy THEN 1 ELSE -1
  <2>1. todo[w] = {u} /\ Adds(WorkersBusy, x)
    BY <1>1, <1>4, Zenon DEF Lands
  <2>2. live' = live /\ doing'[w] = "none"
    BY <1>4, <2>1, UpdateReturns, Zenon
  <2>3. w \notin Ahead /\ w \notin Ahead' /\ (w \in Shown <=> w \notin busy) /\ (w \in Shown' <=> w \in busy)
    BY <1>1, <1>4, <2>2 DEF Ahead, Shown
  <2>4. Joins(Ahead', Ahead, w) = 0 /\ Joins(Shown', Shown, w) = x
    BY <2>3 DEF Joins
  <2>5. g'[Active] = g[Active] /\ g'[WorkersBusy] = g[WorkersBusy] + x
    BY <2>1, Cells DEF Adds, RegistryType, Active, WorkersBusy
  <2> QED
    BY <1>0, <1>1, <2>2, <2>4, <2>5, GaugeStep
<1>5. CASE doing[w] = "accepted"
  <2>1. todo[w] \subseteq {<<Accepted, "add", 1>>, <<Active, "add", 1>>}
    BY <1>1, <1>5, Zenon DEF Lands
  <2>2. (w \in Shown <=> w \in Shown') /\ doing'[w] \in {"none", "accepted"}
    BY <1>1, <1>5, UpdateReturns, Zenon DEF Shown
  <2>3. Joins(Shown', Shown, w) = 0
    BY <2>2 DEF Joins
  <2>4. <<Accepted, "add", 1>> # <<Active, "add", 1>>
    BY DEF Accepted, Active
  <2>5. CASE u = <<Accepted, "add", 1>>
    <3>1. Adds(Accepted, 1)
      BY <1>1, <1>5, <2>4, <2>5, Zenon DEF Lands
    <3>2. g'[Active] = g[Active] /\ g'[WorkersBusy] = g[WorkersBusy]
      BY <3>1, Cells DEF Adds, RegistryType, Active, WorkersBusy, Accepted
    <3>3. CASE todo[w] = {u}
      <4>1. <<Active, "add", 1>> \notin todo[w] /\ doing'[w] = "none" /\ live' = live + 1
        BY <1>5, <2>4, <2>5, <3>3, UpdateReturns, Zenon
      <4>2. w \in Ahead /\ w \notin Ahead'
        BY <1>5, <4>1, Zenon DEF Ahead
      <4>3. Joins(Ahead', Ahead, w) = -1
        BY <4>2 DEF Joins
      <4>4. /\ live' = live + 1 /\ g'[Active] = g[Active] + 1 + Joins(Ahead', Ahead, w)
            /\ g'[WorkersBusy] = g[WorkersBusy] + Joins(Shown', Shown, w)
        BY <1>0, <2>3, <3>2, <4>1, <4>3
      <4> QED
        BY <1>1, <4>4, GaugeStep
    <3>4. CASE todo[w] # {u}
      <4>1. <<Active, "add", 1>> \in todo[w]
        BY <2>1, <2>5, <3>4, Zenon
      <4>2. <<Active, "add", 1>> \in todo'[w] /\ live' = live
        BY <2>4, <2>5, <3>4, <4>1, UpdateReturns, Zenon
      <4>3. w \notin Ahead /\ w \notin Ahead'
        BY <1>5, <2>2, <4>1, <4>2, Zenon DEF Ahead
      <4>4. Joins(Ahead', Ahead, w) = 0
        BY <4>3 DEF Joins
      <4> QED
        BY <1>0, <1>1, <2>3, <3>2, <4>2, <4>4, GaugeStep
    <3> QED
      BY <3>3, <3>4, Zenon
  <2>6. CASE u = <<Active, "add", 1>>
    <3>1. Adds(Active, 1)
      BY <1>1, <1>5, <2>4, <2>6, Zenon DEF Lands
    <3>2. g'[Active] = g[Active] + 1 /\ g'[WorkersBusy] = g[WorkersBusy]
      BY <3>1, Cells DEF Adds, RegistryType, Active, WorkersBusy
    <3>3. w \notin Ahead
      BY <1>5, <2>6, Zenon DEF Ahead
    <3>4. CASE todo[w] = {u}
      <4>1. doing'[w] = "none" /\ live' = live + 1
        BY <1>5, <3>4, UpdateReturns, Zenon
      <4>2. w \notin Ahead'
        BY <4>1, Zenon DEF Ahead
      <4>3. Joins(Ahead', Ahead, w) = 0
        BY <3>3, <4>2 DEF Joins
      <4> QED
        BY <1>0, <1>1, <2>3, <3>2, <4>1, <4>3, GaugeStep
    <3>5. CASE todo[w] # {u}
      <4>1. doing'[w] = "accepted" /\ <<Active, "add", 1>> \notin todo'[w] /\ live' = live
        BY <1>5, <2>6, <3>5, UpdateReturns
      <4>2. w \in Ahead'
        BY <4>1, Zenon DEF Ahead
      <4>3. Joins(Ahead', Ahead, w) = 1
        BY <3>3, <4>2 DEF Joins
      <4> QED
        BY <1>0, <1>1, <2>3, <3>2, <4>1, <4>3, GaugeStep
    <3> QED
      BY <3>4, <3>5, Zenon
  <2> QED
    BY <1>1, <1>5, <2>5, <2>6, Zenon DEF Lands
<1> QED
  BY <1>1, <1>2, <1>3, <1>4, <1>5, Zenon DEF Lands

-----------------------------------------------------------------------------
\* The latency histogram.

\* What is still to be done of an observation.
HasCount(t, k) == <<LatencyCount(k), "add", 1>> \in t
HasSum(t, d) == <<LatencySum, "add", d>> \in t

\* A step of w is one of four for the histogram: none of its business, the beginning
\* of an observation, its count or its duration becoming visible.
Quiet(w) ==
  /\ Apart(w) /\ seen' = seen /\ done' = done /\ doing[w] # "observed" /\ doing'[w] # "observed"
  /\ \A c \in Cell : c > WorkersBusy => g'[c] = g[c]
  /\ \A k \in Bucket : ~HasCount(todo[w], k) /\ ~HasCount(todo'[w], k)
  /\ \A d \in Duration : ~HasSum(todo[w], d) /\ ~HasSum(todo'[w], d)
Observes(w, d) ==
  /\ Apart(w) /\ seen' = [seen EXCEPT ![d] = seen[d] + 1] /\ done' = done /\ g' = g
  /\ doing[w] # "observed" /\ doing'[w] = "observed"
  /\ \A k \in Bucket : ~HasCount(todo[w], k) /\ (HasCount(todo'[w], k) <=> k = bucket_index(d))
  /\ \A e \in Duration : ~HasSum(todo[w], e) /\ (HasSum(todo'[w], e) <=> e = d)
Ends(w) ==
  /\ doing[w] = "observed"
  /\ \/ doing'[w] = "observed" /\ done' = done
     \/ doing'[w] = "none" /\ done' = done + 1
CountLands(w, d) ==
  /\ Apart(w) /\ seen' = seen /\ Adds(LatencyCount(bucket_index(d)), 1) /\ Ends(w)
  /\ \A k \in Bucket : (HasCount(todo[w], k) <=> k = bucket_index(d)) /\ ~HasCount(todo'[w], k)
  /\ \A e \in Duration : HasSum(todo[w], e) <=> HasSum(todo'[w], e)
SumLands(w, d) ==
  /\ Apart(w) /\ seen' = seen /\ Adds(LatencySum, d) /\ Ends(w)
  /\ \A k \in Bucket : HasCount(todo[w], k) <=> HasCount(todo'[w], k)
  /\ \A e \in Duration : (HasSum(todo[w], e) <=> e = d) /\ ~HasSum(todo'[w], e)

HistogramStep(w) ==
  Quiet(w) \/ \E d \in Duration : Observes(w, d) \/ CountLands(w, d) \/ SumLands(w, d)

\* The updates of different cells differ.
LEMMA Distinct ==
  /\ \A j, k \in Bucket : <<LatencyCount(j), "add", 1>> = <<LatencyCount(k), "add", 1>> <=> j = k
  /\ \A d : \A k \in Bucket : <<LatencyCount(k), "add", 1>> # <<LatencySum, "add", d>>
  /\ \A d, e : <<LatencySum, "add", d>> = <<LatencySum, "add", e>> <=> d = e
<1>1. /\ \A j, k \in Bucket : LatencyCount(j) = LatencyCount(k) <=> j = k
      /\ \A k \in Bucket : LatencyCount(k) # LatencySum
  BY Cells DEF Bucket
<1> QED
  BY <1>1, Zenon

\* A call of another kind has no update of the histogram.
LEMMA Elsewhere ==
  ASSUME NEW t, NEW c, c \in {Accepted, Refused, Active, QueueDepth, WorkersBusy}, NEW e,
         NEW o, NEW x, NEW y, t \subseteq {<<Accepted, o, x>>, <<c, e, y>>}
  PROVE  (\A k \in Bucket : ~HasCount(t, k)) /\ (\A d \in Duration : ~HasSum(t, d))
<1>1. /\ \A k \in Bucket : LatencyCount(k) # c /\ LatencyCount(k) # Accepted
      /\ LatencySum # c /\ LatencySum # Accepted
  BY Cells DEF Bucket, Accepted, Refused, Active, QueueDepth, WorkersBusy
<1> QED
  BY <1>1, Zenon DEF HasCount, HasSum

LEMMA HistogramCalls ==
  ASSUME RegistryType, NEW w \in Writer,
         \/ metrics_connection_accepted(w) \/ metrics_connection_refused(w)
         \/ metrics_connection_closed(w) \/ metrics_workers_busy_add(w)
         \/ \E d \in Duration : metrics_request_observed(w, d)
         \/ \E n \in Depths : metrics_queue_depth_set(w, n)
  PROVE  HistogramStep(w)
<1>1. ASSUME NEW name \in {"accepted", "refused", "closed", "depth", "busy"},
             NEW c \in {Accepted, Refused, Active, QueueDepth, WorkersBusy}, NEW e, NEW y, NEW updates,
             updates \subseteq {<<Accepted, "add", 1>>, <<c, e, y>>},
             Call(w, name, updates), seen' = seen,
             busy' = busy \/ busy' = busy \cup {w} \/ busy' = busy \ {w}
      PROVE  Quiet(w)
  <2>1. /\ doing[w] = "none" /\ todo[w] = {} /\ doing'[w] = name /\ todo'[w] = updates
        /\ Apart(w) /\ g' = g /\ done' = done
    BY <1>1, CallBegins, Zenon
  <2>2. (\A k \in Bucket : ~HasCount(updates, k)) /\ (\A d \in Duration : ~HasSum(updates, d))
    BY <1>1, Elsewhere, Zenon
  <2>3. (\A k \in Bucket : ~HasCount(todo[w], k)) /\ (\A d \in Duration : ~HasSum(todo[w], d))
    BY <2>1, Zenon DEF HasCount, HasSum
  <2> QED
    BY <1>1, <2>1, <2>2, <2>3, Zenon DEF Quiet
<1>2. CASE metrics_connection_accepted(w)
  BY <1>1, <1>2, Zenon DEF metrics_connection_accepted, HistogramStep
<1>3. CASE metrics_connection_refused(w)
  <2>1. {<<Refused, "add", 1>>} \subseteq {<<Accepted, "add", 1>>, <<Refused, "add", 1>>}
    BY Zenon
  <2> QED
    BY <1>1, <1>3, <2>1 DEF metrics_connection_refused, HistogramStep
<1>4. CASE metrics_connection_closed(w)
  <2>1. {<<Active, "add", -1>>} \subseteq {<<Accepted, "add", 1>>, <<Active, "add", -1>>}
    BY Zenon
  <2>2. Call(w, "closed", {<<Active, "add", -1>>}) /\ seen' = seen /\ busy' = busy
    BY <1>4, Zenon DEF metrics_connection_closed
  <2>3. Quiet(w)
    BY <1>1, <2>1, <2>2
  <2> QED
    BY <2>3, Zenon DEF HistogramStep
<1>5. CASE metrics_workers_busy_add(w)
  <2> DEFINE x == IF w \in busy THEN -1 ELSE 1
  <2>1. {<<WorkersBusy, "add", x>>} \subseteq {<<Accepted, "add", 1>>, <<WorkersBusy, "add", x>>}
    BY Zenon
  <2>2. /\ Call(w, "busy", {<<WorkersBusy, "add", x>>}) /\ seen' = seen
        /\ busy' = busy \cup {w} \/ busy' = busy \ {w}
    BY <1>5, Zenon DEF metrics_workers_busy_add
  <2> HIDE DEF x
  <2> QED
    BY <1>1, <2>1, <2>2 DEF HistogramStep
<1>6. ASSUME NEW n \in Depths, metrics_queue_depth_set(w, n) PROVE HistogramStep(w)
  <2>1. {<<QueueDepth, "set", n>>} \subseteq {<<Accepted, "add", 1>>, <<QueueDepth, "set", n>>}
    BY Zenon
  <2> QED
    BY <1>1, <1>6, <2>1 DEF metrics_queue_depth_set, HistogramStep
<1>7. ASSUME NEW d \in Duration, metrics_request_observed(w, d) PROVE Observes(w, d)
  <2> DEFINE U == {<<LatencyCount(bucket_index(d)), "add", 1>>, <<LatencySum, "add", d>>}
  <2>1. Call(w, "observed", U) /\ seen' = [seen EXCEPT ![d] = seen[d] + 1] /\ busy' = busy
    BY <1>7, Zenon DEF metrics_request_observed
  <2>2. /\ doing[w] = "none" /\ todo[w] = {} /\ doing'[w] = "observed" /\ todo'[w] = U
        /\ Apart(w) /\ g' = g /\ done' = done
    BY <2>1, CallBegins, Zenon
  <2>3. bucket_index(d) \in Bucket
    BY BucketIndex, Zenon
  <2>4. \A k \in Bucket : ~HasCount(todo[w], k) /\ (HasCount(todo'[w], k) <=> k = bucket_index(d))
    BY <2>2, <2>3, Distinct, Zenon DEF HasCount
  <2>5. \A e \in Duration : ~HasSum(todo[w], e) /\ (HasSum(todo'[w], e) <=> e = d)
    BY <2>2, <2>3, Distinct, Zenon DEF HasSum
  <2> QED
    BY <2>1, <2>2, <2>4, <2>5, Zenon DEF Observes
<1> QED
  BY <1>2, <1>3, <1>4, <1>5, <1>6, <1>7, Zenon DEF HistogramStep

LEMMA HistogramUpdates ==
  ASSUME RegistryType, NEW w \in Writer, NEW u \in todo[w], Update(w, u)
  PROVE  HistogramStep(w)
<1>1. Lands(w, u) /\ Apart(w) /\ seen' = seen /\ todo'[w] = todo[w] \ {u}
  BY UpdateLands, UpdateReturns, Zenon
<1>2. CASE doing[w] # "observed"
  <2>1. done' = done /\ doing'[w] # "observed"
    BY <1>2, UpdateReturns, Zenon
  <2>2. \A c \in Cell : c > WorkersBusy => g'[c] = g[c]
    <3>1. \E b \in 1 .. 5 : \E x : g' = [g EXCEPT ![b] = x]
      BY <1>1, <1>2 DEF Lands, Adds, Accepted, Refused, Active, QueueDepth, WorkersBusy
    <3> QED
      BY <3>1, Cells DEF RegistryType, WorkersBusy
  <2>3. \E c \in {Accepted, Refused, Active, QueueDepth, WorkersBusy} : \E e, y :
          todo[w] \subseteq {<<Accepted, "add", 1>>, <<c, e, y>>}
    <3>1. CASE doing[w] = "accepted"
      BY <1>1, <3>1, Zenon DEF Lands
    <3>2. CASE doing[w] # "accepted"
      <4>1. \E c \in {Accepted, Refused, Active, QueueDepth, WorkersBusy} : \E e, y : todo[w] = {<<c, e, y>>}
        BY <1>1, <1>2, <3>2, Zenon DEF Lands
      <4> QED
        BY <4>1, Zenon
    <3> QED
      BY <3>1, <3>2, Zenon
  <2>4. (\A k \in Bucket : ~HasCount(todo[w], k)) /\ (\A d \in Duration : ~HasSum(todo[w], d))
    BY <2>3, Elsewhere, Zenon
  <2>5. (\A k \in Bucket : ~HasCount(todo'[w], k)) /\ (\A d \in Duration : ~HasSum(todo'[w], d))
    BY <1>1, <2>4, Zenon DEF HasCount, HasSum
  <2> QED
    BY <1>1, <1>2, <2>1, <2>2, <2>4, <2>5, Zenon DEF Quiet, HistogramStep
<1>3. CASE doing[w] = "observed"
  <2>1. Ends(w)
    BY <1>3, UpdateReturns, Zenon DEF Ends
  <2>2. PICK d \in Duration :
          /\ todo[w] \subseteq {<<LatencyCount(bucket_index(d)), "add", 1>>, <<LatencySum, "add", d>>}
          /\ \/ /\ u = <<LatencyCount(bucket_index(d)), "add", 1>>
                /\ Adds(LatencyCount(bucket_index(d)), 1)
             \/ u = <<LatencySum, "add", d>> /\ Adds(LatencySum, d)
    BY <1>1, <1>3, Zenon DEF Lands
  <2>3. bucket_index(d) \in Bucket
    BY BucketIndex, Zenon
  <2> DEFINE c == <<LatencyCount(bucket_index(d)), "add", 1>>
             s == <<LatencySum, "add", d>>
  <2>4. \A t : \A k \in Bucket : t \subseteq {c, s} => (HasCount(t, k) <=> k = bucket_index(d) /\ c \in t)
    BY <2>3, Distinct, Zenon DEF HasCount
  <2>5. \A t : \A e \in Duration : t \subseteq {c, s} => (HasSum(t, e) <=> e = d /\ s \in t)
    BY <2>3, Distinct, Zenon DEF HasSum
  <2>6. todo[w] \subseteq {c, s} /\ todo'[w] \subseteq {c, s} /\ c # s /\ u \in todo[w]
    BY <1>1, <2>2, <2>3, Distinct, Zenon
  <2>7. CASE u = c
    <3>1. c \in todo[w] /\ c \notin todo'[w] /\ (s \in todo[w] <=> s \in todo'[w])
      BY <1>1, <2>6, <2>7, Zenon
    <3>2. Adds(LatencyCount(bucket_index(d)), 1)
      BY <2>2, <2>6, <2>7, Zenon
    <3> HIDE DEF c, s
    <3>3. \A k \in Bucket : (HasCount(todo[w], k) <=> k = bucket_index(d)) /\ ~HasCount(todo'[w], k)
      BY <2>4, <2>6, <3>1, Zenon
    <3>4. \A e \in Duration : HasSum(todo[w], e) <=> HasSum(todo'[w], e)
      BY <2>5, <2>6, <3>1, Zenon
    <3> QED
      BY <1>1, <2>1, <3>2, <3>3, <3>4, Zenon DEF CountLands, HistogramStep
  <2>8. CASE u = s
    <3>1. s \in todo[w] /\ s \notin todo'[w] /\ (c \in todo[w] <=> c \in todo'[w])
      BY <1>1, <2>6, <2>8, Zenon
    <3>2. Adds(LatencySum, d)
      BY <2>2, <2>6, <2>8, Zenon
    <3> HIDE DEF c, s
    <3>3. \A k \in Bucket : HasCount(todo[w], k) <=> HasCount(todo'[w], k)
      BY <2>4, <2>6, <3>1, Zenon
    <3>4. \A e \in Duration : (HasSum(todo[w], e) <=> e = d) /\ ~HasSum(todo'[w], e)
      BY <2>5, <2>6, <3>1, Zenon
    <3> QED
      BY <1>1, <2>1, <3>2, <3>3, <3>4, Zenon DEF SumLands, HistogramStep
  <2> QED
    BY <2>2, <2>7, <2>8, Zenon
<1> QED
  BY <1>2, <1>3, Zenon

Counts == [k \in Bucket |-> g[LatencyCount(k)]]
Uncounted(k) == {w \in Writer : HasCount(todo[w], k)}
Counting == {w \in Writer : \E k \in Bucket : HasCount(todo[w], k)}
Observing == {w \in Writer : doing[w] = "observed"}

\* The observations s of bucket k, and the time of each.
In(s, k) == [d \in Duration |-> IF bucket_index(d) = k THEN s[d] ELSE 0]
Spent(s) == [d \in Duration |-> d * s[d]]

\* The duration an observation has not added yet.
Missing(t) == {d \in Duration : HasSum(t, d)}
Owed(t) == IF Missing(t) = {} THEN 0 ELSE Some(Missing(t))
Owings == [w \in Writer |-> Owed(todo[w])]

\* A bucket differs from the observations that belong to it by those whose count is
\* not visible, the sum of the durations by those whose duration is not.
BucketInv ==
  \A k \in Bucket :
    g[LatencyCount(k)] \in Nat /\ g[LatencyCount(k)] + Cardinality(Uncounted(k)) = Sum(In(seen, k), Duration)
TimeInv == g[LatencySum] + Sum(Owings, Writer) = Sum(Spent(seen), Duration)

\* All buckets together hold the requests observed but those uncounted, and these are
\* the finished ones and those in progress.
TotalInv ==
  /\ Sum(Counts, Bucket) + Cardinality(Counting) = Sum(seen, Duration)
  /\ Sum(seen, Duration) = done + Cardinality(Observing)

\* Durations are finitely many, and so are the terms of each sum.
LEMMA Terms ==
  ASSUME NEW s \in [Duration -> Nat]
  PROVE  /\ IsFiniteSet(Duration) /\ IsFiniteSet(Writer) /\ IsFiniteSet(Bucket)
         /\ IntOn(s, Duration) /\ IntOn(Spent(s), Duration) /\ \A k : IntOn(In(s, k), Duration)
<1>1. IsFiniteSet(Bucket)
  BY Cells, FS_Interval DEF Bucket
<1>2. \A d \in Duration : d \in Nat /\ s[d] \in Nat
  BY DurationAssumption, Zenon
<1>3. IntOn(s, Duration) /\ \A k : IntOn(In(s, k), Duration)
  BY <1>2 DEF IntOn, In
<1>4. IntOn(Spent(s), Duration)
  BY <1>2 DEF IntOn, Spent
<1> QED
  BY <1>1, <1>3, <1>4, FiniteAssumption, Zenon

\* One more observation of d.
SeenAgain(s, t, d) ==
  s \in [Duration -> Nat] /\ t \in [Duration -> Nat] /\ t[d] = s[d] + 1 /\ \A e \in Duration \ {d} : t[e] = s[e]
Belongs(d, k) == IF bucket_index(d) = k THEN 1 ELSE 0

LEMMA OneMoreSeen ==
  ASSUME NEW s, NEW t, NEW d \in Duration, SeenAgain(s, t, d)
  PROVE  /\ \A k : Sum(In(t, k), Duration) = Sum(In(s, k), Duration) + Belongs(d, k)
         /\ Sum(Spent(t), Duration) = Sum(Spent(s), Duration) + d
         /\ Sum(t, Duration) = Sum(s, Duration) + 1
<1>0. s \in [Duration -> Nat]
  BY Zenon DEF SeenAgain
<1>1. /\ t[d] = s[d] + 1 /\ s[d] \in Nat /\ d \in Nat
      /\ \A e \in Duration \ {d} : t[e] = s[e]
  BY DurationAssumption, Zenon DEF SeenAgain
<1>2. ASSUME NEW k PROVE Sum(In(t, k), Duration) = Sum(In(s, k), Duration) + Belongs(d, k)
  <2> DEFINE f == In(s, k)
             h == In(t, k)
             x == Belongs(d, k)
  <2>1. h[d] \in Int /\ f[d] \in Int /\ h[d] - f[d] = x /\ \A e \in Duration \ {d} : h[e] = f[e]
    BY <1>1 DEF In, Belongs
  <2>2. IsFiniteSet(Duration) /\ IntOn(f, Duration)
    BY <1>0, Terms, Zenon
  <2> HIDE DEF f, h, x
  <2>3. Sum(h, Duration) = Sum(f, Duration) + (h[d] - f[d])
    BY <2>1, <2>2, SumChange
  <2>4. Sum(h, Duration) = Sum(f, Duration) + x
    BY <2>1, <2>3, Zenon
  <2> QED
    BY <2>4, Zenon DEF f, h, x
<1>3. Sum(Spent(t), Duration) = Sum(Spent(s), Duration) + d
  <2> DEFINE f == Spent(s)
             h == Spent(t)
  <2>0. d * (s[d] + 1) = d * s[d] + d /\ d * s[d] \in Int /\ d * (s[d] + 1) \in Int
    BY <1>1
  <2>1. h[d] \in Int /\ f[d] \in Int /\ h[d] - f[d] = d /\ \A e \in Duration \ {d} : h[e] = f[e]
    <3>1. h[d] = d * (s[d] + 1) /\ f[d] = d * s[d] /\ \A e \in Duration \ {d} : h[e] = f[e]
      BY <1>1, Zenon DEF Spent
    <3> HIDE DEF f, h
    <3>2. h[d] = f[d] + d /\ f[d] \in Int /\ h[d] \in Int
      BY <2>0, <3>1, Zenon
    <3> QED
      BY <1>1, <3>1, <3>2
  <2>2. IsFiniteSet(Duration) /\ IntOn(f, Duration)
    BY <1>0, Terms, Zenon
  <2> HIDE DEF f, h
  <2>3. Sum(h, Duration) = Sum(f, Duration) + (h[d] - f[d])
    BY <2>1, <2>2, SumChange
  <2>4. Sum(h, Duration) = Sum(f, Duration) + d
    BY <2>1, <2>3, Zenon
  <2> QED
    BY <2>4, Zenon DEF f, h
<1>4. Sum(t, Duration) = Sum(s, Duration) + 1
  <2>1. IsFiniteSet(Duration) /\ IntOn(s, Duration) /\ t[d] \in Int
    BY <1>0, <1>1, Terms
  <2>2. Sum(t, Duration) = Sum(s, Duration) + (t[d] - s[d]) /\ Sum(s, Duration) \in Int
    BY <1>1, <2>1, SumChange, Zenon
  <2> QED
    BY <1>1, <2>2
<1> QED
  BY <1>2, <1>3, <1>4, Zenon

LEMMA BucketStep ==
  ASSUME RegistryType, BucketInv, NEW w \in Writer, HistogramStep(w)
  PROVE  BucketInv'
<1> SUFFICES ASSUME NEW k \in Bucket
             PROVE  /\ g'[LatencyCount(k)] \in Nat
                    /\ g'[LatencyCount(k)] + Cardinality(Uncounted(k))' = Sum(In(seen', k), Duration)
  BY Zenon DEF BucketInv
<1> DEFINE c == LatencyCount(k)
           j == Joins(Uncounted(k)', Uncounted(k), w)
<1>1. /\ c \in Cell /\ c > WorkersBusy /\ c # LatencySum
      /\ \A i \in Bucket : LatencyCount(i) = c <=> i = k
  BY Cells DEF Bucket, WorkersBusy
<1>2. g[c] \in Nat /\ g[c] + Cardinality(Uncounted(k)) = Sum(In(seen, k), Duration)
  BY Zenon DEF BucketInv
<1>3. Apart(w)
  BY Zenon DEF HistogramStep, Quiet, Observes, CountLands, SumLands
<1>4. /\ Cardinality(Uncounted(k)) \in Nat /\ Cardinality(Uncounted(k))' \in Nat
      /\ Cardinality(Uncounted(k))' = Cardinality(Uncounted(k)) + j
  <2>1. /\ Uncounted(k) \in SUBSET Writer /\ Uncounted(k)' \in SUBSET Writer
        /\ \A v \in Writer : v # w => (v \in Uncounted(k) <=> v \in Uncounted(k)')
    BY <1>3, Zenon DEF Uncounted, Apart
  <2> QED
    BY <2>1, CountStep, Zenon
<1>5. /\ w \in Uncounted(k) <=> HasCount(todo[w], k)
      /\ w \in Uncounted(k)' <=> HasCount(todo'[w], k)
  BY Zenon DEF Uncounted
<1>6. seen \in [Duration -> Nat] /\ DOMAIN g = Cell
  BY Zenon DEF RegistryType
<1> HIDE DEF c
<1>7. CASE Quiet(w)
  <2>1. g'[c] = g[c] /\ seen' = seen /\ ~HasCount(todo[w], k) /\ ~HasCount(todo'[w], k)
    BY <1>1, <1>7, Zenon DEF Quiet
  <2>2. j = 0
    BY <1>5, <2>1 DEF Joins
  <2> QED
    BY <1>2, <1>4, <2>1, <2>2 DEF c
<1>8. ASSUME NEW d \in Duration, Observes(w, d)
      PROVE  g'[c] \in Nat /\ g'[c] + Cardinality(Uncounted(k))' = Sum(In(seen', k), Duration)
  <2>1. /\ g'[c] = g[c] /\ seen' = [seen EXCEPT ![d] = seen[d] + 1]
        /\ ~HasCount(todo[w], k) /\ (HasCount(todo'[w], k) <=> k = bucket_index(d))
    BY <1>8, Zenon DEF Observes
  <2>2. j = Belongs(d, k) /\ j \in Int
    BY <1>5, <2>1 DEF Joins, Belongs
  <2>3. SeenAgain(seen, seen', d)
    BY <1>6, <2>1 DEF SeenAgain
  <2>4. Sum(In(seen', k), Duration) = Sum(In(seen, k), Duration) + Belongs(d, k)
    BY <2>3, OneMoreSeen
  <2> HIDE DEF j
  <2> QED
    BY <1>2, <1>4, <2>1, <2>2, <2>4
<1>9. ASSUME NEW d \in Duration, CountLands(w, d)
      PROVE  g'[c] \in Nat /\ g'[c] + Cardinality(Uncounted(k))' = Sum(In(seen', k), Duration)
  <2>1. /\ g' = [g EXCEPT ![LatencyCount(bucket_index(d))] = g[LatencyCount(bucket_index(d))] + 1]
        /\ (HasCount(todo[w], k) <=> k = bucket_index(d)) /\ ~HasCount(todo'[w], k) /\ seen' = seen
    BY <1>9, Zenon DEF CountLands, Adds
  <2>2. bucket_index(d) \in Bucket
    BY BucketIndex, Zenon
  <2>3. g'[c] = g[c] - j
    <3>1. CASE bucket_index(d) = k
      <4>1. j = -1
        BY <1>5, <2>1, <3>1 DEF Joins
      <4>2. g'[c] = g[c] + 1
        BY <1>1, <1>6, <2>1, <3>1, Zenon DEF c
      <4> QED
        BY <1>2, <4>1, <4>2
    <3>2. CASE bucket_index(d) # k
      <4>1. j = 0
        BY <1>5, <2>1, <3>2 DEF Joins
      <4>2. g'[c] = g[c]
        BY <1>1, <1>6, <2>1, <2>2, <3>2, Zenon
      <4> QED
        BY <1>2, <4>1, <4>2
    <3> QED
      BY <3>1, <3>2, Zenon
  <2>4. j \in {0, -1}
    BY <1>5, <2>1 DEF Joins
  <2> HIDE DEF j
  <2> QED
    BY <1>2, <1>4, <2>1, <2>3, <2>4
<1>10. ASSUME NEW d \in Duration, SumLands(w, d)
       PROVE  g'[c] \in Nat /\ g'[c] + Cardinality(Uncounted(k))' = Sum(In(seen', k), Duration)
  <2>1. /\ g' = [g EXCEPT ![LatencySum] = g[LatencySum] + d]
        /\ (HasCount(todo[w], k) <=> HasCount(todo'[w], k)) /\ seen' = seen
    BY <1>10, Zenon DEF SumLands, Adds
  <2>2. g'[c] = g[c]
    BY <1>1, <1>6, <2>1, Zenon
  <2>3. j = 0
    BY <1>5, <2>1 DEF Joins
  <2> QED
    BY <1>2, <1>4, <2>1, <2>2, <2>3
<1> QED
  BY <1>7, <1>8, <1>9, <1>10, Zenon DEF HistogramStep, c

\* What is owed, by what is missing.
LEMMA OwedIs ==
  ASSUME NEW t
  PROVE  /\ Owed(t) \in Nat
         /\ (\A e \in Duration : ~HasSum(t, e)) => Owed(t) = 0
         /\ \A d \in Duration : (\A e \in Duration : HasSum(t, e) <=> e = d) => Owed(t) = d
         /\ \A r : (\A e \in Duration : HasSum(t, e) <=> HasSum(r, e)) => Owed(t) = Owed(r)
<1>1. Missing(t) # {} => Some(Missing(t)) \in Missing(t)
  BY Zenon DEF Some
<1>2. Owed(t) \in Nat
  BY <1>1, DurationAssumption, Zenon DEF Owed, Missing
<1>3. (\A e \in Duration : ~HasSum(t, e)) => Owed(t) = 0
  BY Zenon DEF Owed, Missing
<1>4. ASSUME NEW d \in Duration, \A e \in Duration : HasSum(t, e) <=> e = d PROVE Owed(t) = d
  <2>1. Missing(t) = {d}
    BY <1>4, Zenon DEF Missing
  <2> QED
    BY <1>1, <2>1, Zenon DEF Owed
<1>5. ASSUME NEW r, \A e \in Duration : HasSum(t, e) <=> HasSum(r, e) PROVE Owed(t) = Owed(r)
  <2>1. Missing(t) = Missing(r)
    BY <1>5, Zenon DEF Missing
  <2> QED
    BY <2>1, Zenon DEF Owed
<1> QED
  BY <1>2, <1>3, <1>4, <1>5, Zenon

LEMMA TimeStep ==
  ASSUME RegistryType, TimeInv, NEW w \in Writer, HistogramStep(w)
  PROVE  TimeInv'
<1> DEFINE a == Owed(todo[w])
           b == Owed(todo'[w])
           x == Sum(Owings, Writer)
           y == Sum(Spent(seen), Duration)
<1>1. Apart(w) /\ seen \in [Duration -> Nat] /\ DOMAIN g = Cell /\ g[LatencySum] \in Int
  BY Cells DEF HistogramStep, Quiet, Observes, CountLands, SumLands, RegistryType
<1>2. Sum(Owings', Writer) = x + (b - a) /\ x \in Int /\ a \in Nat /\ b \in Nat
  <2> DEFINE f == Owings
             h == Owings'
  <2>1. f[w] = a /\ h[w] = b /\ a \in Nat /\ b \in Nat
    BY OwedIs, Zenon DEF Owings
  <2>2. \A v \in Writer : f[v] \in Nat
    BY OwedIs, Zenon DEF Owings
  <2>3. \A v \in Writer \ {w} : h[v] = f[v]
    BY <1>1, Zenon DEF Owings, Apart
  <2>4. IsFiniteSet(Writer) /\ IntOn(f, Writer)
    BY <2>2, FiniteAssumption DEF IntOn
  <2> HIDE DEF f, h, a, b
  <2>5. Sum(h, Writer) = Sum(f, Writer) + (h[w] - f[w]) /\ Sum(f, Writer) \in Int
    BY <2>1, <2>3, <2>4, SumChange
  <2> QED
    BY <2>1, <2>5, Zenon DEF f, h
<1>3. y \in Int /\ g[LatencySum] + x = y
  BY <1>1, Terms, SumType, Zenon DEF TimeInv
<1> SUFFICES g'[LatencySum] + Sum(Owings', Writer) = Sum(Spent(seen'), Duration)
  BY Zenon DEF TimeInv
<1> HIDE DEF x
<1>4. CASE Quiet(w)
  <2>1. g'[LatencySum] = g[LatencySum] /\ seen' = seen
    BY <1>4, Cells DEF Quiet, WorkersBusy
  <2>2. a = 0 /\ b = 0
    BY <1>4, OwedIs, Zenon DEF Quiet
  <2> HIDE DEF a, b, y
  <2>3. Sum(Spent(seen'), Duration) = y
    BY <2>1, Zenon DEF y
  <2> QED
    BY <1>1, <1>2, <1>3, <2>1, <2>2, <2>3
<1>5. ASSUME NEW d \in Duration, Observes(w, d)
      PROVE  g'[LatencySum] + Sum(Owings', Writer) = Sum(Spent(seen'), Duration)
  <2>1. g'[LatencySum] = g[LatencySum] /\ seen' = [seen EXCEPT ![d] = seen[d] + 1]
    BY <1>5, Zenon DEF Observes
  <2>2. a = 0 /\ b = d
    BY <1>5, OwedIs, Zenon DEF Observes
  <2>3. SeenAgain(seen, seen', d)
    BY <1>1, <2>1 DEF SeenAgain
  <2> HIDE DEF a, b
  <2>4. Sum(Spent(seen'), Duration) = y + d
    BY <2>3, OneMoreSeen, Zenon
  <2> HIDE DEF y
  <2> QED
    BY <1>1, <1>2, <1>3, <2>1, <2>2, <2>4
<1>6. ASSUME NEW d \in Duration, CountLands(w, d)
      PROVE  g'[LatencySum] + Sum(Owings', Writer) = Sum(Spent(seen'), Duration)
  <2>0. bucket_index(d) \in Bucket
    BY BucketIndex, Zenon
  <2>1. g'[LatencySum] = g[LatencySum] /\ seen' = seen
    <3>1. LatencyCount(bucket_index(d)) # LatencySum
      BY <2>0, Cells DEF Bucket
    <3> QED
      BY <1>1, <1>6, <3>1, Cells DEF CountLands, Adds
  <2>2. a = b
    BY <1>6, OwedIs, Zenon DEF CountLands
  <2> HIDE DEF a, b, y
  <2>3. Sum(Spent(seen'), Duration) = y
    BY <2>1, Zenon DEF y
  <2> QED
    BY <1>1, <1>2, <1>3, <2>1, <2>2, <2>3
<1>7. ASSUME NEW d \in Duration, SumLands(w, d)
      PROVE  g'[LatencySum] + Sum(Owings', Writer) = Sum(Spent(seen'), Duration)
  <2>1. g'[LatencySum] = g[LatencySum] + d /\ seen' = seen
    BY <1>1, <1>7, Cells, Zenon DEF SumLands, Adds
  <2>2. a = d /\ b = 0
    BY <1>7, OwedIs, Zenon DEF SumLands
  <2> HIDE DEF a, b, y
  <2>3. Sum(Spent(seen'), Duration) = y
    BY <2>1, Zenon DEF y
  <2> QED
    BY <1>1, <1>2, <1>3, <2>1, <2>2, <2>3
<1> QED
  BY <1>4, <1>5, <1>6, <1>7, Zenon DEF HistogramStep

LEMMA TotalStep ==
  ASSUME RegistryType, TotalInv, NEW w \in Writer, HistogramStep(w)
  PROVE  TotalInv'
<1> DEFINE x == Sum(Counts, Bucket)
           y == Sum(seen, Duration)
           jc == Joins(Counting', Counting, w)
           jo == Joins(Observing', Observing, w)
<1>1. Apart(w) /\ seen \in [Duration -> Nat] /\ g \in [Cell -> Int] /\ done \in Int
  BY DEF HistogramStep, Quiet, Observes, CountLands, SumLands, RegistryType
<1>2. /\ Cardinality(Counting) \in Nat /\ Cardinality(Counting)' = Cardinality(Counting) + jc
      /\ Cardinality(Observing) \in Nat /\ Cardinality(Observing)' = Cardinality(Observing) + jo
  <2>1. /\ Counting \in SUBSET Writer /\ Counting' \in SUBSET Writer
        /\ \A v \in Writer : v # w => (v \in Counting <=> v \in Counting')
    BY <1>1, Zenon DEF Counting, Apart
  <2>2. /\ Observing \in SUBSET Writer /\ Observing' \in SUBSET Writer
        /\ \A v \in Writer : v # w => (v \in Observing <=> v \in Observing')
    BY <1>1, Zenon DEF Observing, Apart
  <2> QED
    BY <2>1, <2>2, CountStep, Zenon
<1>3. /\ w \in Counting <=> \E k \in Bucket : HasCount(todo[w], k)
      /\ w \in Counting' <=> \E k \in Bucket : HasCount(todo'[w], k)
      /\ w \in Observing <=> doing[w] = "observed"
      /\ w \in Observing' <=> doing'[w] = "observed"
  BY Zenon DEF Counting, Observing
<1>4. IsFiniteSet(Bucket) /\ IntOn(Counts, Bucket) /\ x \in Int /\ y \in Int
  <2>1. IsFiniteSet(Bucket) /\ IntOn(seen, Duration) /\ IsFiniteSet(Duration)
    BY <1>1, Terms, Zenon
  <2>2. IntOn(Counts, Bucket)
    BY <1>1, Cells, Zenon DEF IntOn, Counts
  <2> QED
    BY <2>1, <2>2, SumType, Zenon
<1>5. x + Cardinality(Counting) = y /\ y = done + Cardinality(Observing)
  BY Zenon DEF TotalInv
<1> SUFFICES /\ Sum(Counts', Bucket) + Cardinality(Counting)' = Sum(seen', Duration)
             /\ Sum(seen', Duration) = done' + Cardinality(Observing)'
  BY Zenon DEF TotalInv
<1>6. ASSUME \A c \in Cell : c \in LatencyCount(1) .. LatencySum - 1 => g'[c] = g[c]
      PROVE  Sum(Counts', Bucket) = x
  <2>1. Counts' = Counts
    BY <1>6, Cells DEF Counts, Bucket
  <2> QED
    BY <2>1, Zenon
<1>7. CASE Quiet(w)
  <2>1. Sum(Counts', Bucket) = x
    BY <1>6, <1>7, Cells DEF Quiet, WorkersBusy, LatencyCount
  <2>2. jc = 0 /\ jo = 0
    BY <1>3, <1>7 DEF Quiet, Joins
  <2>3. Sum(seen', Duration) = y /\ done' = done
    BY <1>7, Zenon DEF Quiet
  <2> HIDE DEF x, y, jc, jo
  <2> QED
    BY <1>1, <1>2, <1>4, <1>5, <2>1, <2>2, <2>3
<1>8. ASSUME NEW d \in Duration, Observes(w, d)
      PROVE  /\ Sum(Counts', Bucket) + Cardinality(Counting)' = Sum(seen', Duration)
             /\ Sum(seen', Duration) = done' + Cardinality(Observing)'
  <2>0. bucket_index(d) \in Bucket
    BY BucketIndex, Zenon
  <2>1. Sum(Counts', Bucket) = x
    BY <1>6, <1>8, Zenon DEF Observes
  <2>2. w \notin Counting /\ w \in Counting' /\ w \notin Observing /\ w \in Observing'
    BY <1>3, <1>8, <2>0, Zenon DEF Observes
  <2>3. jc = 1 /\ jo = 1
    BY <2>2 DEF Joins
  <2>4. SeenAgain(seen, seen', d) /\ done' = done
    BY <1>1, <1>8 DEF SeenAgain, Observes
  <2>5. Sum(seen', Duration) = y + 1
    BY <2>4, OneMoreSeen, Zenon
  <2> HIDE DEF x, y, jc, jo
  <2> QED
    BY <1>1, <1>2, <1>4, <1>5, <2>1, <2>3, <2>4, <2>5
<1>9. ASSUME NEW d \in Duration, CountLands(w, d)
      PROVE  /\ Sum(Counts', Bucket) + Cardinality(Counting)' = Sum(seen', Duration)
             /\ Sum(seen', Duration) = done' + Cardinality(Observing)'
  <2> DEFINE k == bucket_index(d)
             f == Counts
             h == Counts'
  <2>0. k \in Bucket
    BY BucketIndex, Zenon
  <2>1. Sum(h, Bucket) = x + 1
    <3>1. g' = [g EXCEPT ![LatencyCount(k)] = g[LatencyCount(k)] + 1]
      BY <1>9, Zenon DEF CountLands, Adds
    <3> HIDE DEF k
    <3>2. /\ h[k] = f[k] + 1 /\ f[k] \in Int /\ h[k] \in Int
          /\ \A j \in Bucket \ {k} : h[j] = f[j]
      <4>1. \A j \in Bucket : f[j] = g[LatencyCount(j)] /\ h[j] = g'[LatencyCount(j)]
        BY Zenon DEF Counts
      <4>2. \A j \in Bucket : LatencyCount(j) \in Cell /\ (LatencyCount(j) = LatencyCount(k) <=> j = k)
        BY <2>0, Cells DEF Bucket
      <4>3. \A c \in Cell : g[c] \in Int /\ g'[c] = IF c = LatencyCount(k) THEN g[c] + 1 ELSE g[c]
        BY <1>1, <3>1, Zenon
      <4> HIDE DEF f, h
      <4> QED
        BY <2>0, <4>1, <4>2, <4>3
    <3> HIDE DEF f, h
    <3>3. IntOn(f, Bucket) /\ x = Sum(f, Bucket)
      BY <1>4, Zenon DEF f
    <3> HIDE DEF x
    <3>4. Sum(h, Bucket) = Sum(f, Bucket) + (h[k] - f[k])
      BY <1>4, <2>0, <3>2, <3>3, SumChange
    <3> QED
      BY <1>4, <3>2, <3>3, <3>4
  <2>2. w \in Counting /\ w \notin Counting' /\ w \in Observing
    BY <1>3, <1>9, <2>0, Zenon DEF CountLands, Ends
  <2>3. jc = -1 /\ jo \in Int /\ done' = done - jo
    BY <1>1, <1>3, <1>9, <2>2 DEF Joins, CountLands, Ends
  <2>4. Sum(seen', Duration) = y
    BY <1>9, Zenon DEF CountLands
  <2> HIDE DEF x, y, jc, jo, f, k
  <2> QED
    BY <1>1, <1>2, <1>4, <1>5, <2>1, <2>3, <2>4
<1>10. ASSUME NEW d \in Duration, SumLands(w, d)
       PROVE  /\ Sum(Counts', Bucket) + Cardinality(Counting)' = Sum(seen', Duration)
              /\ Sum(seen', Duration) = done' + Cardinality(Observing)'
  <2>1. Sum(Counts', Bucket) = x
    BY <1>1, <1>6, <1>10, Cells DEF SumLands, Adds, LatencyCount
  <2>2. (w \in Counting <=> w \in Counting') /\ w \in Observing
    BY <1>3, <1>10, Zenon DEF SumLands, Ends
  <2>3. jc = 0 /\ jo \in Int /\ done' = done - jo
    BY <1>1, <1>3, <1>10, <2>2 DEF Joins, SumLands, Ends
  <2>4. Sum(seen', Duration) = y
    BY <1>10, Zenon DEF SumLands
  <2> HIDE DEF x, y, jc, jo
  <2> QED
    BY <1>1, <1>2, <1>4, <1>5, <2>1, <2>3, <2>4
<1> QED
  BY <1>7, <1>8, <1>9, <1>10, Zenon DEF HistogramStep

-----------------------------------------------------------------------------
\* The registry holds together.

RegistryInv == RegistryType /\ GaugeInv /\ BucketInv /\ TimeInv /\ TotalInv

LEMMA WritersKeep ==
  ASSUME RegistryInv, Writers
  PROVE  RegistryInv' /\ UNCHANGED scrape /\ \E w \in Writer : HistogramStep(w)
<1> USE DEF RegistryInv
<1>1. PICK w \in Writer :
        \/ metrics_connection_accepted(w) \/ metrics_connection_refused(w)
        \/ metrics_connection_closed(w) \/ metrics_workers_busy_add(w)
        \/ \E d \in Duration : metrics_request_observed(w, d)
        \/ \E n \in Depths : metrics_queue_depth_set(w, n)
        \/ \E u \in todo[w] : Update(w, u)
  BY Zenon DEF Writers
<1>2. UNCHANGED scrape
  BY <1>1, Zenon DEF metrics_connection_accepted, metrics_connection_refused,
     metrics_connection_closed, metrics_workers_busy_add, metrics_request_observed,
     metrics_queue_depth_set, Call, Update
<1>3. RegistryType' /\ GaugeInv' /\ HistogramStep(w)
  <2>1. CASE \E u \in todo[w] : Update(w, u)
    BY <2>1, TypeOfUpdates, GaugeUpdates, HistogramUpdates, Zenon
  <2>2. CASE ~\E u \in todo[w] : Update(w, u)
    BY <1>1, <2>2, TypeOfCalls, GaugeCalls, HistogramCalls, Zenon
  <2> QED
    BY <2>1, <2>2, Zenon
<1> QED
  BY <1>2, <1>3, BucketStep, TimeStep, TotalStep, Zenon

LEMMA RegistryIdle ==
  ASSUME RegistryInv, UNCHANGED registry
  PROVE  RegistryInv'
<1>1. /\ g' = g /\ todo' = todo /\ doing' = doing /\ live' = live /\ busy' = busy
      /\ seen' = seen /\ done' = done
  BY Zenon DEF registry
<1>2. /\ Ahead' = Ahead /\ Shown' = Shown /\ Counting' = Counting /\ Observing' = Observing
      /\ Counts' = Counts /\ Owings' = Owings /\ \A k : Uncounted(k)' = Uncounted(k)
  BY <1>1, Zenon DEF Ahead, Shown, Counting, Observing, Counts, Owings, Uncounted
<1>3. RegistryType'
  BY <1>1 DEF RegistryInv, RegistryType, CallGood
<1>4. GaugeInv'
  BY <1>1, <1>2, Zenon DEF RegistryInv, GaugeInv
<1>5. BucketInv'
  BY <1>1, <1>2, Zenon DEF RegistryInv, BucketInv
<1>6. TimeInv'
  BY <1>1, <1>2, Zenon DEF RegistryInv, TimeInv
<1>7. TotalInv'
  BY <1>1, <1>2, Zenon DEF RegistryInv, TotalInv
<1> QED
  BY <1>3, <1>4, <1>5, <1>6, <1>7, Zenon DEF RegistryInv

\* A sum of zeros.
LEMMA SumZero ==
  ASSUME NEW S, IsFiniteSet(S), NEW f, \A x \in S : f[x] = 0
  PROVE  Sum(f, S) = 0
<1>1. Sum(f, S) = Cardinality(S) * 0 /\ Cardinality(S) \in Nat
  BY SumConstant, FS_CardinalityType, Zenon
<1> QED
  BY <1>1

\* Nothing has been counted and nothing seen.
LEMMA RegistryStarts == ASSUME metrics_init PROVE RegistryInv
<1>1. /\ g = [c \in Cell |-> 0] /\ todo = [w \in Writer |-> {}] /\ doing = [w \in Writer |-> "none"]
      /\ live = 0 /\ busy = {} /\ seen = [d \in Duration |-> 0] /\ done = 0
  BY Zenon DEF metrics_init
<1>2. RegistryType
  <2>1. g \in [Cell -> Int] /\ seen \in [Duration -> Nat]
    BY <1>1
  <2>2. \A w \in Writer : CallGood(w)
    BY <1>1, Zenon DEF CallGood
  <2> QED
    BY <1>1, <2>1, <2>2, Zenon DEF RegistryType
<1>3. Cardinality({}) = 0 /\ seen \in [Duration -> Nat]
  BY <1>1, FS_EmptySet, Zenon
<1>4. IsFiniteSet(Duration) /\ IsFiniteSet(Writer) /\ IsFiniteSet(Bucket)
  BY <1>3, Terms, Zenon
<1>5. GaugeInv
  <2>1. Ahead = {} /\ Shown = {}
    BY <1>1 DEF Ahead, Shown
  <2>2. g[Active] = 0 /\ g[WorkersBusy] = 0
    BY <1>1, Cells DEF Active, WorkersBusy
  <2> QED
    BY <1>1, <1>3, <2>1, <2>2 DEF GaugeInv
<1>6. BucketInv
  <2> SUFFICES ASSUME NEW k \in Bucket
               PROVE  /\ g[LatencyCount(k)] \in Nat
                      /\ g[LatencyCount(k)] + Cardinality(Uncounted(k)) = Sum(In(seen, k), Duration)
    BY Zenon DEF BucketInv
  <2>1. g[LatencyCount(k)] = 0
    BY <1>1, Cells, Zenon
  <2>2. Uncounted(k) = {}
    BY <1>1, Zenon DEF Uncounted, HasCount
  <2>3. \A d \in Duration : In(seen, k)[d] = 0
    BY <1>1, Zenon DEF In
  <2>4. Sum(In(seen, k), Duration) = 0
    BY <1>4, <2>3, SumZero, Zenon
  <2> QED
    BY <1>3, <2>1, <2>2, <2>4
<1>7. TimeInv
  <2>1. \A w \in Writer : Owings[w] = 0
    BY <1>1, OwedIs, Zenon DEF Owings, HasSum
  <2>2. \A d \in Duration : Spent(seen)[d] = 0
    BY <1>1, DurationAssumption DEF Spent
  <2>3. Sum(Owings, Writer) = 0 /\ Sum(Spent(seen), Duration) = 0
    BY <1>4, <2>1, <2>2, SumZero, Zenon
  <2>4. g[LatencySum] = 0
    BY <1>1, Cells
  <2> QED
    BY <2>3, <2>4 DEF TimeInv
<1>8. TotalInv
  <2>1. \A k \in Bucket : Counts[k] = 0
    BY <1>1, Cells, Zenon DEF Counts
  <2>2. \A d \in Duration : seen[d] = 0
    BY <1>1, Zenon
  <2>3. Sum(Counts, Bucket) = 0 /\ Sum(seen, Duration) = 0
    BY <1>4, <2>1, <2>2, SumZero, Zenon
  <2>4. Counting = {} /\ Observing = {}
    BY <1>1, Zenon DEF Counting, Observing, HasCount
  <2> QED
    BY <1>1, <1>3, <2>3, <2>4 DEF TotalInv
<1> QED
  BY <1>2, <1>5, <1>6, <1>7, <1>8, Zenon DEF RegistryInv

\* What a step of the program does to the metrics.
LEMMA MetricsSteps ==
  ASSUME [Next]_vars
  PROVE  Writers \/ BeginRender \/ RenderLine \/ UNCHANGED metrics
<1>1. CASE metrics_server_start \/ ThreadCreated \/ ThreadNotCreated \/ StopAsks \/ StopJoins \/ ScraperConnects
  BY <1>1, Zenon DEF metrics_server_start, ThreadCreated, ThreadNotCreated, StopAsks, StopJoins,
    ScraperConnects
<1>2. CASE accept_loop
  BY <1>2, Zenon DEF accept_loop, TestRunning, Poll, PollOrAcceptFails, Accept, Recv, RecvEof, RecvFails,
     Dispatch, Render, ChooseStatus, SendReply, CloseClient
<1>3. CASE UNCHANGED vars
  BY <1>3, Zenon DEF vars
<1> QED
  BY <1>1, <1>2, <1>3, Zenon DEF Next

LEMMA RegistryAlways == Spec => []RegistryInv
<1>1. Init => RegistryInv
  BY RegistryStarts, Zenon DEF Init
<1>2. RegistryInv /\ [Next]_vars => RegistryInv'
  <2> SUFFICES ASSUME RegistryInv, [Next]_vars PROVE RegistryInv'
    BY Zenon
  <2>1. CASE Writers
    BY <2>1, WritersKeep, Zenon
  <2>2. CASE UNCHANGED registry
    BY <2>2, RegistryIdle, Zenon
  <2> QED
    BY <2>1, <2>2, MetricsSteps, Zenon DEF BeginRender, RenderLine, metrics
<1> QED
  BY <1>1, <1>2, PTL DEF Spec

-----------------------------------------------------------------------------
\* The registry at rest.

\* The observations s of the buckets up to k.
FirstBuckets(s, k) == [d \in Duration |-> IF bucket_index(d) <= k THEN s[d] ELSE 0]

\* Adding up buckets that hold their own observations gives those of all of them.
LEMMA Cumulative ==
  ASSUME NEW s \in [Duration -> Nat], NEW f, NEW k \in Nat, k <= BUCKET_COUNT + 1,
         \A j \in Bucket : f[j] = Sum(In(s, j), Duration)
  PROVE  Sum(f, 1 .. k) = Sum(FirstBuckets(s, k), Duration)
<1> DEFINE N == {n \in Nat : n <= BUCKET_COUNT + 1 => Sum(f, 1 .. n) = Sum(FirstBuckets(s, n), Duration)}
<1>1. /\ IsFiniteSet(Duration) /\ IsFiniteSet(Bucket) /\ BUCKET_COUNT \in Nat
      /\ \A j : IntOn(In(s, j), Duration)
  BY Terms, Cells, Zenon
<1>2. IntOn(f, Bucket)
  BY <1>1, SumType, Zenon DEF IntOn
<1>3. \A d \in Duration : bucket_index(d) \in Nat /\ bucket_index(d) > 0 /\ s[d] \in Nat
  BY BucketIndex, <1>1 DEF Bucket
<1>4. 0 \in N
  <2>1. \A d \in Duration : FirstBuckets(s, 0)[d] = 0
    BY <1>3 DEF FirstBuckets
  <2>2. Sum(FirstBuckets(s, 0), Duration) = 0
    BY <1>1, <2>1, SumZero, Zenon
  <2>3. 1 .. 0 = {}
    OBVIOUS
  <2>4. Sum(f, 1 .. 0) = 0
    BY <2>3, SumEmpty, Zenon
  <2> QED
    BY <2>2, <2>4, Zenon
<1>5. ASSUME NEW n \in Nat, n \in N PROVE n + 1 \in N
  <2> SUFFICES ASSUME n + 1 <= BUCKET_COUNT + 1 PROVE Sum(f, 1 .. n + 1) = Sum(FirstBuckets(s, n + 1), Duration)
    OBVIOUS
  <2>1. Sum(f, 1 .. n) = Sum(FirstBuckets(s, n), Duration)
    BY <1>1, <1>5
  <2>2. /\ 1 .. n \in SUBSET Bucket /\ n + 1 \in Bucket /\ n + 1 \notin 1 .. n
        /\ 1 .. n + 1 = (1 .. n) \cup {n + 1}
    BY <1>1 DEF Bucket
  <2>3. Sum(f, 1 .. n + 1) = f[n + 1] + Sum(f, 1 .. n)
    <3> DEFINE T == 1 .. n
               x == n + 1
    <3>1. T \in SUBSET Bucket /\ x \in Bucket /\ x \notin T /\ 1 .. n + 1 = T \cup {x}
      BY <2>2, Zenon
    <3> HIDE DEF T, x
    <3>2. Sum(f, T \cup {x}) = f[x] + Sum(f, T)
      BY <1>1, <1>2, <3>1, SumAdd
    <3> QED
      BY <3>1, <3>2, Zenon DEF T, x
  <2>4. IntOn(FirstBuckets(s, n), Duration) /\ IntOn(In(s, n + 1), Duration)
    BY <1>1, <1>3 DEF IntOn, FirstBuckets
  <2>5. \A d \in Duration : FirstBuckets(s, n + 1)[d] = FirstBuckets(s, n)[d] + In(s, n + 1)[d]
    BY <1>3 DEF FirstBuckets, In
  <2>6. /\ Sum(FirstBuckets(s, n + 1), Duration) = Sum(FirstBuckets(s, n), Duration) + Sum(In(s, n + 1), Duration)
        /\ Sum(FirstBuckets(s, n), Duration) \in Int /\ Sum(In(s, n + 1), Duration) \in Int
    BY <1>1, <2>4, <2>5, SumPlus
  <2>7. f[n + 1] = Sum(In(s, n + 1), Duration)
    BY <2>2, Zenon
  <2> DEFINE a == Sum(FirstBuckets(s, n), Duration)
             b == Sum(In(s, n + 1), Duration)
  <2> HIDE DEF a, b
  <2>8. a + b = b + a
    BY <2>6 DEF a, b
  <2> QED
    BY <2>1, <2>3, <2>6, <2>7, <2>8, Zenon DEF a, b
<1> HIDE DEF N
<1>6. k \in N
  BY <1>4, <1>5, SetInduction, Zenon
<1> QED
  BY <1>6, Zenon DEF N

\* Total adds up a whole function.
LEMMA TotalIsSum == \A f : Total(f) = Sum(f, DOMAIN f)
  BY Zenon DEF Total, Sum

\* What the invariants say when nobody is in a call.
LEMMA RegistryAtRest == ASSUME RegistryInv PROVE QuiescentExact
<1> SUFFICES ASSUME \A w \in Writer : doing[w] = "none"
             PROVE  /\ g[Active] = live /\ g[WorkersBusy] = Cardinality(busy)
                    /\ \A k \in 1 .. BUCKET_COUNT :
                         Total([j \in 1 .. k |-> g[LatencyCount(j)]]) = Observed(Upper[k])
                    /\ g[LatencySum] = Total([d \in Duration |-> d * seen[d]])
  BY Zenon DEF QuiescentExact
<1> USE DEF RegistryInv
<1>1. /\ \A w \in Writer : todo[w] = {}
      /\ live \in Int /\ seen \in [Duration -> Nat] /\ g \in [Cell -> Int] /\ busy \subseteq Writer
  BY DEF RegistryType, CallGood
<1>2. Cardinality({}) = 0 /\ BUCKET_COUNT \in Nat
  BY FS_EmptySet, Cells, Zenon
<1>3. g[Active] = live /\ g[WorkersBusy] = Cardinality(busy)
  <2>1. Ahead = {} /\ Shown = busy
    BY <1>1 DEF Ahead, Shown
  <2> QED
    BY <1>1, <1>2, <2>1 DEF GaugeInv
<1>4. ASSUME NEW k \in Bucket PROVE g[LatencyCount(k)] = Sum(In(seen, k), Duration)
  <2>1. Uncounted(k) = {}
    BY <1>1, Zenon DEF Uncounted, HasCount
  <2>2. g[LatencyCount(k)] \in Nat /\ g[LatencyCount(k)] + Cardinality(Uncounted(k)) = Sum(In(seen, k), Duration)
    BY Zenon DEF BucketInv
  <2> QED
    BY <1>2, <2>1, <2>2
<1>5. ASSUME NEW k \in 1 .. BUCKET_COUNT
      PROVE  Total([j \in 1 .. k |-> g[LatencyCount(j)]]) = Observed(Upper[k])
  <2> DEFINE f == [j \in 1 .. k |-> g[LatencyCount(j)]]
             o == [d \in Duration |-> IF d <= Upper[k] THEN seen[d] ELSE 0]
  <2>1. k \in Nat /\ k <= BUCKET_COUNT + 1 /\ 1 .. k \subseteq Bucket
    BY <1>2 DEF Bucket
  <2>2. Sum(Counts, 1 .. k) = Sum(FirstBuckets(seen, k), Duration)
    <3>1. \A j \in Bucket : Counts[j] = Sum(In(seen, j), Duration)
      BY <1>4, Zenon DEF Counts
    <3> QED
      BY <1>1, <2>1, <3>1, Cumulative, Zenon
  <2>3. o = FirstBuckets(seen, k)
    BY BucketIndex, Zenon DEF FirstBuckets
  <2>4. Total(f) = Sum(f, 1 .. k)
    <3>1. DOMAIN f = 1 .. k
      BY Zenon
    <3> HIDE DEF f
    <3> QED
      BY <3>1, TotalIsSum, Zenon
  <2>5. Sum(f, 1 .. k) = Sum(Counts, 1 .. k)
    <3>1. \A j \in 1 .. k : Counts[j] \in Int /\ f[j] = Counts[j]
      BY <1>1, <2>1, Cells, Zenon DEF Counts
    <3>2. IsFiniteSet(1 .. k) /\ IntOn(Counts, 1 .. k)
      BY <2>1, <3>1, FS_Interval DEF IntOn
    <3> HIDE DEF f
    <3> QED
      BY <3>1, <3>2, SumSame, Zenon
  <2>6. Observed(Upper[k]) = Sum(o, Duration)
    <3>1. DOMAIN o = Duration /\ Observed(Upper[k]) = Total(o)
      BY Zenon DEF Observed
    <3> HIDE DEF o
    <3> QED
      BY <3>1, TotalIsSum, Zenon
  <2> HIDE DEF f, o
  <2>7. Total(f) = Observed(Upper[k])
    BY <2>2, <2>3, <2>4, <2>5, <2>6, Zenon
  <2> QED
    BY <2>7, Zenon DEF f
<1>6. g[LatencySum] = Total([d \in Duration |-> d * seen[d]])
  <2>1. \A w \in Writer : Owings[w] = 0
    BY <1>1, OwedIs, Zenon DEF Owings, HasSum
  <2>2. Sum(Owings, Writer) = 0
    BY <2>1, SumZero, FiniteAssumption, Zenon
  <2>3. g[LatencySum] \in Int
    BY <1>1, Cells
  <2>4. g[LatencySum] = Sum(Spent(seen), Duration)
    BY <2>2, <2>3 DEF TimeInv
  <2>5. Total(Spent(seen)) = Sum(Spent(seen), Duration)
    <3>1. DOMAIN Spent(seen) = Duration
      BY Zenon DEF Spent
    <3> QED
      BY <3>1, TotalIsSum, Zenon
  <2>6. g[LatencySum] = Total(Spent(seen))
    BY <2>4, <2>5, Zenon
  <2> QED
    BY <2>6, Zenon DEF Spent
<1> QED
  BY <1>3, <1>5, <1>6, Zenon

\* When no call is in progress the registry is exact, however the relaxed updates of
\* the calls before were ordered: the gauges of metrics_connection_accepted, _closed
\* and metrics_workers_busy_add, every cumulative bucket of metrics_request_observed
\* with its bound included, and the sum of the durations.
THEOREM RegistryIsExact == Spec => []QuiescentExact
  BY RegistryAlways, RegistryAtRest, PTL

-----------------------------------------------------------------------------
\* The scrape.

\* A body, whole or not, that could have been read from a registry on its way to r:
\* the counters and each bucket's share of its line are not beyond r.
Plausible(b, r) ==
  /\ b \in Seq(Int) /\ Len(b) <= LatencySum
  /\ \A c \in 1 .. Len(b) :
       /\ c \in {Accepted, Refused, LatencySum} => b[c] <= r[c]
       /\ c = Active => b[c] >= 0
       /\ c = LatencyCount(1) => 0 <= b[c] /\ b[c] <= r[c]
       /\ c \in LatencyCount(2) .. LatencySum - 1 => b[c - 1] <= b[c] /\ b[c] <= b[c - 1] + r[c]

\* The counters and buckets of one scrape are not below those of another.
NotBelow(a, b) == \A c \in Monotone : c <= Len(b) => a[c] <= b[c]

\* The requests in the lines so far, and the buckets they are from and those to come.
Got(b) ==
  IF Len(b) < LatencyCount(1) THEN 0 ELSE IF Len(b) = LatencySum THEN b[LatencySum - 1] ELSE b[Len(b)]
TakenAt(n) == {k \in Bucket : LatencyCount(k) <= n}
LeftAt(n) == {k \in Bucket : LatencyCount(k) > n}

ScrapeInv ==
  /\ Plausible(body, g) /\ Plausible(last, g) /\ (last = <<>> \/ Len(last) = LatencySum)
  /\ last # <<>> => NotBelow(last, body)
  /\ floor \in Int /\ floor <= Got(body) + Sum(Counts, LeftAt(Len(body)))
  /\ Got(body) <= Sum(Counts, TakenAt(Len(body)))

\* Which cells only grow.
LEMMA MonotoneCells ==
  /\ Monotone \subseteq Cell
  /\ \A c \in Cell : c \in Monotone <=> c <= 2 \/ c > 5
<1>1. \A c : (\E k \in 1 .. BUCKET_COUNT + 1 : c = LatencyCount(k)) <=> c \in 6 .. BUCKET_COUNT + 6
  <2>1. \A k \in 1 .. BUCKET_COUNT + 1 : LatencyCount(k) \in 6 .. BUCKET_COUNT + 6
    BY Cells DEF LatencyCount
  <2>2. ASSUME NEW c \in 6 .. BUCKET_COUNT + 6
        PROVE  c - 5 \in 1 .. BUCKET_COUNT + 1 /\ c = LatencyCount(c - 5)
    BY Cells DEF LatencyCount
  <2> QED
    BY <2>1, <2>2, Zenon
<1>2. Monotone = {Accepted, Refused, LatencySum} \cup (6 .. BUCKET_COUNT + 6)
  BY <1>1, Zenon DEF Monotone
<1> QED
  BY <1>2, Cells DEF Accepted, Refused

\* The writers never take one of them back.
LEMMA WritersRaise ==
  ASSUME RegistryInv, Writers
  PROVE  \A c \in Monotone : g[c] \in Int /\ g'[c] \in Int /\ g[c] <= g'[c]
<1>1. g \in [Cell -> Int] /\ Monotone \subseteq Cell /\ RegistryType
  BY MonotoneCells, Zenon DEF RegistryInv, RegistryType
<1>2. PICK w \in Writer :
        \/ metrics_connection_accepted(w) \/ metrics_connection_refused(w)
        \/ metrics_connection_closed(w) \/ metrics_workers_busy_add(w)
        \/ \E d \in Duration : metrics_request_observed(w, d)
        \/ \E n \in Depths : metrics_queue_depth_set(w, n)
        \/ \E u \in todo[w] : Update(w, u)
  BY Zenon DEF Writers
<1>3. CASE \E u \in todo[w] : Update(w, u)
  <2>1. PICK u \in todo[w] : Lands(w, u)
    BY <1>1, <1>3, UpdateLands, Zenon
  <2>2. \/ \E c \in Cell, x \in Nat : g' = [g EXCEPT ![c] = g[c] + x]
        \/ \E c \in {Active, QueueDepth, WorkersBusy} : \E x : g' = [g EXCEPT ![c] = x]
    BY <2>1, DurationAssumption, Zenon DEF Lands, Adds
  <2>3. CASE \E c \in Cell, x \in Nat : g' = [g EXCEPT ![c] = g[c] + x]
    BY <1>1, <2>3
  <2>4. CASE \E c \in {Active, QueueDepth, WorkersBusy} : \E x : g' = [g EXCEPT ![c] = x]
    <3>1. \A c \in Monotone : c # Active /\ c # QueueDepth /\ c # WorkersBusy
      BY MonotoneCells, Cells DEF Active, QueueDepth, WorkersBusy
    <3>2. \A c \in Monotone : g[c] \in Int /\ g'[c] = g[c]
      BY <1>1, <2>4, <3>1, Zenon
    <3> QED
      BY <3>2
  <2> QED
    BY <2>2, <2>3, <2>4, Zenon
<1>4. CASE ~\E u \in todo[w] : Update(w, u)
  <2>1. g' = g
    BY <1>2, <1>4, Zenon DEF metrics_connection_accepted, metrics_connection_refused,
       metrics_connection_closed, metrics_workers_busy_add, metrics_request_observed,
       metrics_queue_depth_set, Call
  <2> QED
    BY <1>1, <2>1
<1> QED
  BY <1>3, <1>4, Zenon

\* No step of a writer, of the endpoint or of a scrape lowers a counter, a bucket or
\* the latency sum: metrics.c only ever adds to them.
THEOREM CountersOnlyRise == Spec => CountersNeverFall
<1>1. RegistryInv /\ [Next]_vars => [\A c \in Monotone : g[c] <= g'[c]]_g
  <2> SUFFICES ASSUME RegistryInv, [Next]_vars PROVE [\A c \in Monotone : g[c] <= g'[c]]_g
    BY Zenon
  <2>1. CASE Writers
    BY <2>1, WritersRaise, Zenon
  <2>2. CASE BeginRender \/ RenderLine \/ UNCHANGED metrics
    BY <2>2, Zenon DEF BeginRender, RenderLine, metrics, registry
  <2> QED
    BY <2>1, <2>2, MetricsSteps, Zenon
<1> QED
  BY <1>1, RegistryAlways, PTL DEF Spec, CountersNeverFall

\* What could have been read on the way to r could on the way to a later q.
LEMMA PlausibleLater ==
  ASSUME NEW b, NEW r, NEW q, Plausible(b, r),
         \A c \in Monotone : r[c] \in Int /\ q[c] \in Int /\ r[c] <= q[c]
  PROVE  Plausible(b, q)
<1>1. \A c \in 1 .. Len(b) : c \in Cell /\ b[c] \in Int
  BY Cells, ElementOfSeq DEF Plausible
<1>2. /\ b \in Seq(Int) /\ Len(b) \in Nat /\ Len(b) <= LatencySum
      /\ BUCKET_COUNT \in Nat /\ LatencySum = BUCKET_COUNT + 7 /\ Cell = 1 .. BUCKET_COUNT + 7
  BY Cells, LenProperties, Zenon DEF Plausible
<1>3. ASSUME NEW c \in 1 .. Len(b)
      PROVE  /\ c \in {Accepted, Refused, LatencySum} => b[c] <= q[c]
             /\ c = Active => b[c] >= 0
             /\ c = LatencyCount(1) => 0 <= b[c] /\ b[c] <= q[c]
             /\ c \in LatencyCount(2) .. LatencySum - 1 => b[c - 1] <= b[c] /\ b[c] <= b[c - 1] + q[c]
  <2>1. /\ c \in {Accepted, Refused, LatencySum} => b[c] <= r[c]
        /\ c = Active => b[c] >= 0
        /\ c = LatencyCount(1) => 0 <= b[c] /\ b[c] <= r[c]
        /\ c \in LatencyCount(2) .. LatencySum - 1 => b[c - 1] <= b[c] /\ b[c] <= b[c - 1] + r[c]
    BY Zenon DEF Plausible
  <2>2. c \in Cell /\ b[c] \in Int
    BY <1>1, Zenon
  <2>3. CASE c \in Monotone
    <3>1. r[c] \in Int /\ q[c] \in Int /\ r[c] <= q[c]
      BY <2>3, Zenon
    <3>2. c \in LatencyCount(2) .. LatencySum - 1 => b[c - 1] \in Int
      <4>1. c \in LatencyCount(2) .. LatencySum - 1 => c - 1 \in 1 .. Len(b)
        BY <1>2 DEF LatencyCount
      <4> QED
        BY <1>1, <4>1, Zenon
    <3> QED
      BY <2>1, <2>2, <3>1, <3>2
  <2>4. CASE c \notin Monotone
    <3>1. /\ c \notin {Accepted, Refused, LatencySum} /\ c # LatencyCount(1)
          /\ c \notin LatencyCount(2) .. LatencySum - 1
      BY <1>2, <2>2, <2>4, MonotoneCells DEF Accepted, Refused, LatencyCount
    <3> QED
      BY <2>1, <3>1, Zenon
  <2> QED
    BY <2>3, <2>4, Zenon
<1> QED
  BY <1>2, <1>3, Zenon DEF Plausible

\* Any part of the buckets can be summed up.
LEMMA PartsOfBuckets ==
  ASSUME RegistryType, NEW T \in SUBSET Bucket
  PROVE  IsFiniteSet(T) /\ IntOn(Counts, T) /\ Sum(Counts, T) \in Int
<1>1. IsFiniteSet(Bucket)
  BY Cells, FS_Interval DEF Bucket
<1>2. IsFiniteSet(T)
  BY <1>1, FS_Subset, Zenon
<1>3. IntOn(Counts, T)
  BY Cells, Zenon DEF IntOn, Counts, RegistryType
<1> QED
  BY <1>2, <1>3, SumType, Zenon

\* The requests in a plausible body are counted in whole numbers.
LEMMA GotType ==
  ASSUME NEW b, NEW r, Plausible(b, r)
  PROVE  Got(b) \in Int /\ Len(b) \in Nat /\ \A c \in 1 .. Len(b) : b[c] \in Int
<1>1. b \in Seq(Int) /\ Len(b) \in Nat /\ \A c \in 1 .. Len(b) : b[c] \in Int
  BY ElementOfSeq, LenProperties, Zenon DEF Plausible
<1> QED
  BY <1>1, Cells DEF Got, LatencyCount

LEMMA GotIs ==
  ASSUME NEW b, NEW m \in Nat, Len(b) = m
  PROVE  /\ m < 6 => Got(b) = 0
         /\ m >= 6 /\ m # LatencySum => Got(b) = b[m]
         /\ m = LatencySum => Got(b) = b[LatencySum - 1]
<1>1. LatencyCount(1) = 6 /\ LatencySum >= 7
  BY Cells DEF LatencyCount
<1> QED
  BY <1>1 DEF Got

\* A scrape between two of its lines stays plausible whatever the writers do.
LEMMA ScrapeWaits ==
  ASSUME RegistryInv, ScrapeInv, Writers
  PROVE  ScrapeInv'
<1>1. body' = body /\ last' = last /\ floor' = floor /\ RegistryInv'
  BY WritersKeep, Zenon DEF scrape
<1>2. \A c \in Monotone : g[c] \in Int /\ g'[c] \in Int /\ g[c] <= g'[c]
  BY WritersRaise, Zenon
<1>3. Plausible(body, g') /\ Plausible(last, g')
  BY <1>2, PlausibleLater, Zenon DEF ScrapeInv
<1>4. ASSUME NEW T \in SUBSET Bucket
      PROVE  Sum(Counts, T) \in Int /\ Sum(Counts', T) \in Int /\ Sum(Counts, T) <= Sum(Counts', T)
  <2>1. IsFiniteSet(T) /\ IntOn(Counts, T) /\ Sum(Counts, T) \in Int
    BY PartsOfBuckets, Zenon DEF RegistryInv
  <2>2. \A k \in T : LatencyCount(k) \in Monotone
    BY Zenon DEF Monotone, Bucket
  <2>3. \A k \in T : Counts'[k] \in Int /\ Counts[k] <= Counts'[k]
    BY <1>2, <2>2, Zenon DEF Counts
  <2>4. IntOn(Counts', T)
    BY <2>3, Zenon DEF IntOn
  <2> QED
    BY <2>1, <2>3, <2>4, SumMonotone, SumType, Zenon
<1>5. LeftAt(Len(body)) \in SUBSET Bucket /\ TakenAt(Len(body)) \in SUBSET Bucket
  BY Zenon DEF LeftAt, TakenAt
<1>6. Got(body) \in Int
  BY GotType, Zenon DEF ScrapeInv
<1> DEFINE a == Sum(Counts, LeftAt(Len(body)))
           b == Sum(Counts', LeftAt(Len(body)))
           c == Sum(Counts, TakenAt(Len(body)))
           d == Sum(Counts', TakenAt(Len(body)))
<1>7. /\ a \in Int /\ b \in Int /\ c \in Int /\ d \in Int /\ a <= b /\ c <= d
  BY <1>4, <1>5, Zenon
<1>8. floor \in Int /\ floor <= Got(body) + a /\ Got(body) <= c
  BY Zenon DEF ScrapeInv
<1> HIDE DEF a, b, c, d
<1>9. floor <= Got(body) + b /\ Got(body) <= d
  BY <1>6, <1>7, <1>8
<1> QED
  BY <1>1, <1>3, <1>8, <1>9, Zenon DEF ScrapeInv, b, d

\* At most the observations in progress are uncounted.
LEMMA FinishedAreCounted ==
  ASSUME RegistryInv
  PROVE  /\ done <= Sum(Counts, Bucket) /\ Sum(Counts, Bucket) <= Sum(seen, Duration)
         /\ Sum(Counts, Bucket) \in Int /\ Sum(seen, Duration) \in Int
<1>1. Counting \subseteq Observing
  <2> SUFFICES ASSUME NEW w \in Writer, NEW k \in Bucket, HasCount(todo[w], k) PROVE doing[w] = "observed"
    BY Zenon DEF Counting, Observing
  <2>1. CallGood(w)
    BY Zenon DEF RegistryInv, RegistryType
  <2>2. LatencyCount(k) \notin {Accepted, Refused, Active, QueueDepth, WorkersBusy}
    BY Cells DEF Bucket, Accepted, Refused, Active, QueueDepth, WorkersBusy
  <2> QED
    BY <2>1, <2>2 DEF CallGood, HasCount
<1>2. IsFiniteSet(Observing) /\ IsFiniteSet(Counting)
  BY FiniteAssumption, FS_Subset, Zenon DEF Observing, Counting
<1>3. /\ Cardinality(Counting) \in Nat /\ Cardinality(Observing) \in Nat
      /\ Cardinality(Counting) <= Cardinality(Observing)
  BY <1>1, <1>2, FS_Subset, FS_CardinalityType, Zenon
<1>4. Sum(Counts, Bucket) \in Int /\ done \in Nat
  BY PartsOfBuckets, Zenon DEF RegistryInv, RegistryType
<1>5. Sum(Counts, Bucket) + Cardinality(Counting) = Sum(seen, Duration)
  BY Zenon DEF RegistryInv, TotalInv
<1>6. Sum(seen, Duration) = done + Cardinality(Observing)
  BY Zenon DEF RegistryInv, TotalInv
<1> QED
  BY <1>3, <1>4, <1>5, <1>6

\* A scrape begins.
LEMMA ScrapeBegins ==
  ASSUME RegistryInv, ScrapeInv, BeginRender
  PROVE  ScrapeInv'
<1>1. /\ body' = <<>> /\ floor' = done /\ last' = (IF Len(body) = LatencySum THEN body ELSE last)
      /\ g' = g /\ done \in Nat
  BY Zenon DEF BeginRender, registry, RegistryInv, RegistryType
<1>2. Counts' = Counts
  BY <1>1, Zenon DEF Counts
<1>3. Plausible(<<>>, g)
  BY Cells DEF Plausible
<1>4. Plausible(last', g) /\ (last' = <<>> \/ Len(last') = LatencySum)
  BY <1>1, Zenon DEF ScrapeInv
<1>5. NotBelow(last', <<>>)
  BY MonotoneCells, Cells DEF NotBelow
<1>6. Len(<<>>) = 0 /\ Got(<<>>) = 0
  BY DEF Got, LatencyCount
<1>7. LeftAt(0) = Bucket /\ TakenAt(0) = {}
  BY Cells DEF LeftAt, TakenAt, Bucket
<1>8. Sum(Counts, TakenAt(0)) = 0
  BY <1>7, SumEmpty, Zenon
<1>9. done <= 0 + Sum(Counts, LeftAt(0))
  BY <1>7, FinishedAreCounted
<1>10. /\ floor' \in Int /\ floor' <= Got(body') + Sum(Counts', LeftAt(Len(body')))
       /\ Got(body') <= Sum(Counts', TakenAt(Len(body')))
  BY <1>1, <1>2, <1>6, <1>8, <1>9
<1> QED
  BY <1>1, <1>3, <1>4, <1>5, <1>10, Zenon DEF ScrapeInv

\* The next line: a bucket, whose requests are added to those before, or another cell.
LEMMA ScrapeReads ==
  ASSUME RegistryInv, ScrapeInv, RenderLine
  PROVE  ScrapeInv'
<1> DEFINE n == Len(body)
           c == Len(body) + 1
           v == IF c \in LatencyCount(2) .. LatencySum - 1 THEN body[c - 1] + g[c] ELSE g[c]
           B == BUCKET_COUNT
<1>1. /\ n < LatencySum /\ body' = Append(body, v) /\ last' = last /\ floor' = floor /\ g' = g
      /\ Counts' = Counts
  BY Zenon DEF RenderLine, registry, Counts
<1>2. B \in Nat /\ LatencySum = B + 7 /\ Cell = 1 .. B + 7 /\ LatencyCount(1) = 6 /\ LatencyCount(2) = 7
  BY Cells DEF LatencyCount
<1>3. /\ body \in Seq(Int) /\ n \in Nat /\ Got(body) \in Int
      /\ \A i \in 1 .. n : body[i] \in Int
  BY GotType, Zenon DEF ScrapeInv, Plausible
<1>4. c \in Cell /\ c = n + 1 /\ c - 1 = n
  BY <1>1, <1>2, <1>3
<1>5. g[c] \in Int /\ (c \in 6 .. B + 6 => g[c] \in Nat) /\ (c = Active => g[c] >= 0)
  <2>1. g[c] \in Int
    BY <1>4, Zenon DEF RegistryInv, RegistryType
  <2>2. ASSUME c \in 6 .. B + 6 PROVE g[c] \in Nat
    <3>1. c - 5 \in Bucket /\ LatencyCount(c - 5) = c
      BY <1>2, <1>3, <2>2 DEF Bucket, LatencyCount
    <3> QED
      BY <3>1, Zenon DEF RegistryInv, BucketInv
  <2>3. g[Active] >= 0
    <3>1. IsFiniteSet(Ahead)
      BY FiniteAssumption, FS_Subset, Zenon DEF Ahead
    <3> QED
      BY <3>1, FS_CardinalityType DEF RegistryInv, GaugeInv, RegistryType
  <2> QED
    BY <2>1, <2>2, <2>3, Zenon
<1>6. /\ v \in Int /\ (c \in 7 .. B + 6 => v = body[n] + g[c] /\ body[n] \in Int)
      /\ (c \notin 7 .. B + 6 => v = g[c])
  BY <1>2, <1>3, <1>4, <1>5
<1> HIDE DEF v
<1>7. /\ body' \in Seq(Int) /\ Len(body') = c /\ body'[c] = v
      /\ \A i \in 1 .. n : body'[i] = body[i]
  BY <1>1, <1>3, <1>4, <1>6, AppendProperties
<1> HIDE DEF n, c, B
<1>8. Plausible(body', g)
  <2>1. ASSUME NEW i \in 1 .. n
        PROVE  /\ i \in {Accepted, Refused, LatencySum} => body'[i] <= g[i]
               /\ i = Active => body'[i] >= 0
               /\ i = LatencyCount(1) => 0 <= body'[i] /\ body'[i] <= g[i]
               /\ i \in LatencyCount(2) .. LatencySum - 1 =>
                    body'[i - 1] <= body'[i] /\ body'[i] <= body'[i - 1] + g[i]
    <3>1. /\ i \in {Accepted, Refused, LatencySum} => body[i] <= g[i]
          /\ i = Active => body[i] >= 0
          /\ i = LatencyCount(1) => 0 <= body[i] /\ body[i] <= g[i]
          /\ i \in LatencyCount(2) .. LatencySum - 1 => body[i - 1] <= body[i] /\ body[i] <= body[i - 1] + g[i]
      BY Zenon DEF ScrapeInv, Plausible, n
    <3>2. body'[i] = body[i]
      BY <1>7, Zenon
    <3>3. i \in LatencyCount(2) .. LatencySum - 1 => body'[i - 1] = body[i - 1]
      BY <1>2, <1>3, <1>7
    <3> QED
      BY <3>1, <3>2, <3>3, Zenon
  <2>2. /\ c \in {Accepted, Refused, LatencySum} => body'[c] <= g[c]
        /\ c = Active => body'[c] >= 0
        /\ c = LatencyCount(1) => 0 <= body'[c] /\ body'[c] <= g[c]
        /\ c \in LatencyCount(2) .. LatencySum - 1 =>
             body'[c - 1] <= body'[c] /\ body'[c] <= body'[c - 1] + g[c]
    <3>1. CASE c \in 7 .. B + 6
      <4>1. body'[c - 1] = body[n]
        BY <1>2, <1>3, <1>4, <1>7, <3>1
      <4>2. /\ c \notin {Accepted, Refused, LatencySum} /\ c # Active /\ c # LatencyCount(1)
            /\ g[c] \in Nat
        BY <1>2, <1>5, <3>1 DEF Accepted, Refused, Active
      <4> QED
        BY <1>6, <1>7, <3>1, <4>1, <4>2
    <3>2. CASE c \notin 7 .. B + 6
      <4>1. body'[c] = g[c] /\ c \notin LatencyCount(2) .. LatencySum - 1
        BY <1>2, <1>6, <1>7, <3>2
      <4>2. c = LatencyCount(1) => g[c] \in Nat
        BY <1>2, <1>5
      <4> QED
        BY <1>5, <4>1, <4>2
    <3> QED
      BY <3>1, <3>2, Zenon
  <2>3. c <= LatencySum
    BY <1>2, <1>4
  <2>4. \A i \in 1 .. c : i \in 1 .. n \/ i = c
    BY <1>3, <1>4
  <2> QED
    BY <1>7, <2>1, <2>2, <2>3, <2>4, Zenon DEF Plausible
<1>9. ASSUME last # <<>> PROVE NotBelow(last, body')
  <2>1. /\ Plausible(last, g) /\ Len(last) = LatencySum
        /\ \A i \in Monotone : i <= n => last[i] <= body[i]
    BY <1>9, Zenon DEF ScrapeInv, NotBelow, n
  <2>2. \A i \in Cell : last[i] \in Int
    BY <1>2, <2>1, GotType, Zenon
  <2>3. ASSUME NEW i \in Monotone, i <= n PROVE last[i] <= body'[i]
    <3>1. i \in 1 .. n
      BY <1>2, <1>3, <2>3, MonotoneCells
    <3> QED
      BY <1>7, <2>1, <2>3, <3>1, Zenon
  <2>4. ASSUME c \in Monotone PROVE last[c] <= body'[c]
    <3>1. c \in 1 .. Len(last) /\ (c <= 2 \/ c > 5)
      BY <1>2, <1>4, <2>1, <2>4, MonotoneCells, Zenon
    <3>2. CASE c \in 7 .. B + 6
      <4>1. last[c] <= last[c - 1] + g[c]
        BY <1>2, <2>1, <3>1, <3>2 DEF Plausible
      <4>2. n \in Monotone /\ n \in Cell
        BY <1>2, <1>3, <1>4, <3>2, MonotoneCells
      <4>3. last[n] <= body[n] /\ last[n] \in Int /\ last[c] \in Int
        BY <1>3, <1>4, <2>1, <2>2, <4>2
      <4>4. last[c] <= last[n] + g[c] /\ body'[c] = body[n] + g[c] /\ body[n] \in Int
        BY <1>4, <1>6, <1>7, <3>2, <4>1, Zenon
      <4> QED
        BY <1>5, <4>3, <4>4
    <3>3. CASE c \notin 7 .. B + 6
      <4>1. c \in {Accepted, Refused, LatencySum} \/ c = LatencyCount(1)
        BY <1>2, <1>4, <3>1, <3>3 DEF Accepted, Refused
      <4>2. last[c] <= g[c]
        BY <2>1, <3>1, <4>1, Zenon DEF Plausible
      <4> QED
        BY <1>6, <1>7, <3>3, <4>2, Zenon
    <3> QED
      BY <3>2, <3>3, Zenon
  <2>5. \A i \in Monotone : i <= c => i <= n \/ i = c
    BY <1>2, <1>3, <1>4, MonotoneCells
  <2> QED
    BY <1>7, <2>3, <2>4, <2>5, Zenon DEF NotBelow
<1> DEFINE L == LeftAt(n)
           T == TakenAt(n)
           M == LeftAt(c)
           U == TakenAt(c)
<1>10. L \in SUBSET Bucket /\ T \in SUBSET Bucket /\ RegistryType
  BY Zenon DEF LeftAt, TakenAt, RegistryInv
<1>11. Sum(Counts, L) \in Int /\ Sum(Counts, T) \in Int
  BY <1>10, PartsOfBuckets, Zenon
<1>12. floor \in Int /\ floor <= Got(body) + Sum(Counts, L) /\ Got(body) <= Sum(Counts, T)
  BY Zenon DEF ScrapeInv, n
<1>13. floor <= Got(body') + Sum(Counts, M) /\ Got(body') <= Sum(Counts, U)
  <2>1. CASE c \in 6 .. B + 6
    <3> DEFINE k == c - 5
    <3>1. k \in Bucket /\ LatencyCount(k) = c /\ Counts[k] = g[c]
      BY <1>2, <1>3, <2>1 DEF Bucket, LatencyCount, Counts, B
    <3>2. Got(body') = Got(body) + g[c]
      <4>1. CASE c = 6
        <5>0. Len(body) = n
          BY Zenon DEF n
        <5>1. n < 6 /\ c \in Nat /\ c >= 6 /\ c # LatencySum /\ c \notin 7 .. B + 6
          BY <1>2, <1>3, <1>4, <4>1
        <5>2. Got(body) = 0
          BY <1>3, <5>0, <5>1, GotIs, Zenon
        <5>3. Got(body') = body'[c]
          BY <1>7, <5>1, GotIs, Zenon
        <5> QED
          BY <1>5, <1>6, <1>7, <5>1, <5>2, <5>3
      <4>2. CASE c # 6
        <5>1. n >= 6 /\ n < LatencySum /\ c < LatencySum /\ c \in 7 .. B + 6
          BY <1>2, <1>3, <1>4, <2>1, <4>2
        <5>2. Got(body) = body[n] /\ Got(body') = body'[c]
          <6>0. Len(body) = n
            BY Zenon DEF n
          <6>1. n # LatencySum /\ c \in Nat /\ c >= 6 /\ c # LatencySum
            BY <1>2, <1>3, <5>1
          <6> QED
            BY <1>3, <1>7, <5>1, <6>0, <6>1, GotIs, Zenon
        <5> QED
          BY <1>6, <1>7, <5>1, <5>2, Zenon
      <4> QED
        BY <4>1, <4>2, Zenon
    <3>3. k \in L /\ M = L \ {k}
      BY <1>3, <1>4, <3>1, Cells DEF LeftAt, Bucket
    <3>4. k \notin T /\ U = T \cup {k}
      BY <1>3, <1>4, <3>1, Cells DEF TakenAt, Bucket
    <3> HIDE DEF k, L, T, M, U
    <3>5. Sum(Counts, L) = Counts[k] + Sum(Counts, M)
      <4>1. IsFiniteSet(L) /\ IntOn(Counts, L)
        BY <1>10, PartsOfBuckets, Zenon
      <4> QED
        BY <3>3, <4>1, SumStep, Zenon
    <3>6. Sum(Counts, U) = Counts[k] + Sum(Counts, T)
      <4>1. IsFiniteSet(Bucket) /\ IntOn(Counts, Bucket)
        BY <1>10, PartsOfBuckets, Zenon
      <4> QED
        BY <1>10, <3>1, <3>4, <4>1, SumAdd
    <3>7. Sum(Counts, M) \in Int /\ Sum(Counts, U) \in Int
      <4>1. M \in SUBSET Bucket /\ U \in SUBSET Bucket
        BY <1>10, <3>1, <3>3, <3>4, Zenon
      <4> QED
        BY <1>10, <4>1, PartsOfBuckets, Zenon
    <3> QED
      BY <1>3, <1>5, <1>11, <1>12, <3>1, <3>2, <3>5, <3>6, <3>7
  <2>2. CASE c \notin 6 .. B + 6
    <3>1. Got(body') = Got(body)
      <4>1. CASE c < 6
        <5>1. n < 6 /\ Len(body) = n /\ c \in Nat
          BY <1>3, <1>4, <4>1 DEF n
        <5> QED
          BY <1>3, <1>7, <4>1, <5>1, GotIs, Zenon
      <4>2. CASE c >= 6
        <5>1. c = LatencySum /\ n = LatencySum - 1 /\ n >= 6 /\ n \in 1 .. n
          BY <1>2, <1>3, <1>4, <2>2, <4>2
        <5>2. Got(body') = body'[n] /\ Got(body) = body[n]
          <6>1. Len(body) = n /\ n # LatencySum /\ c \in Nat
            BY <1>2, <1>3, <1>4, <5>1 DEF n
          <6> QED
            BY <1>3, <1>7, <5>1, <6>1, GotIs, Zenon
        <5> QED
          BY <1>7, <5>1, <5>2, Zenon
      <4> QED
        BY <1>2, <1>4, <4>1, <4>2
    <3>2. \A k \in Bucket : LatencyCount(k) \in Int /\ LatencyCount(k) # c
      BY <1>2, <1>4, <2>2 DEF Bucket, LatencyCount, B
    <3>3. M = L /\ U = T
      BY <1>3, <1>4, <3>2 DEF LeftAt, TakenAt
    <3> QED
      BY <1>12, <3>1, <3>3, Zenon
  <2> QED
    BY <2>1, <2>2, Zenon
<1>14. /\ floor' \in Int /\ floor' <= Got(body') + Sum(Counts', LeftAt(Len(body')))
       /\ Got(body') <= Sum(Counts', TakenAt(Len(body')))
  BY <1>1, <1>7, <1>12, <1>13, Zenon
<1>15. Plausible(last', g') /\ (last' = <<>> \/ Len(last') = LatencySum) /\ Plausible(body', g')
  BY <1>1, <1>8, Zenon DEF ScrapeInv
<1> QED
  BY <1>1, <1>9, <1>14, <1>15, Zenon DEF ScrapeInv

LEMMA ScrapeAlways == Spec => [](RegistryInv /\ ScrapeInv)
<1>1. Init => ScrapeInv
  <2> SUFFICES ASSUME Init PROVE ScrapeInv
    BY Zenon
  <2>1. body = <<>> /\ last = <<>> /\ floor = 0 /\ RegistryInv
    BY RegistryStarts, Zenon DEF Init, metrics_init
  <2>2. Plausible(<<>>, g)
    BY Cells DEF Plausible
  <2>3. Len(<<>>) = 0 /\ Got(<<>>) = 0 /\ LeftAt(0) = Bucket /\ TakenAt(0) = {}
    BY Cells DEF Got, LatencyCount, LeftAt, TakenAt, Bucket
  <2>4. Sum(Counts, TakenAt(0)) = 0
    BY <2>3, SumEmpty, Zenon
  <2>5. 0 <= 0 + Sum(Counts, LeftAt(0))
    BY <2>1, <2>3, FinishedAreCounted DEF RegistryInv, RegistryType
  <2> QED
    BY <2>1, <2>2, <2>3, <2>4, <2>5 DEF ScrapeInv
<1>2. RegistryInv /\ ScrapeInv /\ [Next]_vars => ScrapeInv'
  <2> SUFFICES ASSUME RegistryInv, ScrapeInv, [Next]_vars PROVE ScrapeInv'
    BY Zenon
  <2>1. CASE Writers
    BY <2>1, ScrapeWaits, Zenon
  <2>2. CASE BeginRender
    BY <2>2, ScrapeBegins, Zenon
  <2>3. CASE RenderLine
    BY <2>3, ScrapeReads, Zenon
  <2>4. CASE UNCHANGED metrics
    <3>1. g' = g /\ body' = body /\ last' = last /\ floor' = floor
      BY <2>4, Zenon DEF metrics, registry, scrape
    <3>2. Counts' = Counts
      BY <3>1, Zenon DEF Counts
    <3> QED
      BY <3>1, <3>2, Zenon DEF ScrapeInv
  <2> QED
    BY <2>1, <2>2, <2>3, <2>4, MetricsSteps, Zenon
<1> QED
  BY <1>1, <1>2, RegistryAlways, PTL DEF Spec

\* What the invariants say of a scrape that is complete.
LEMMA ScrapeWhole == ASSUME RegistryInv, ScrapeInv PROVE ScrapeBounded
<1> SUFFICES ASSUME Rendered
             PROVE  /\ floor <= body[LatencySum - 1]
                    /\ body[LatencySum - 1] <= Total(seen)
                    /\ \A k \in 1 .. BUCKET_COUNT : body[LatencyCount(k)] <= body[LatencyCount(k + 1)]
                    /\ body[Active] >= 0
                    /\ last # <<>> => \A c \in Monotone : last[c] <= body[c]
  BY Zenon DEF ScrapeBounded
<1>1. BUCKET_COUNT \in Nat /\ LatencySum = BUCKET_COUNT + 7 /\ Len(body) = LatencySum
  BY Cells, Zenon DEF Rendered
<1>2. Got(body) = body[LatencySum - 1] /\ body[LatencySum - 1] \in Int
  <2>1. Got(body) \in Int
    BY GotType, Zenon DEF ScrapeInv
  <2>2. LatencySum \in Nat
    BY <1>1
  <2> QED
    BY <1>1, <2>1, <2>2, GotIs, Zenon
<1>3. LeftAt(Len(body)) = {} /\ TakenAt(Len(body)) = Bucket
  BY <1>1, Cells DEF LeftAt, TakenAt, Bucket
<1>4. floor <= body[LatencySum - 1]
  <2>1. Sum(Counts, LeftAt(Len(body))) = 0
    BY <1>3, SumEmpty, Zenon
  <2>2. floor \in Int /\ floor <= Got(body) + Sum(Counts, LeftAt(Len(body)))
    BY Zenon DEF ScrapeInv
  <2> QED
    BY <1>2, <2>1, <2>2
<1>5. body[LatencySum - 1] <= Total(seen)
  <2>1. Got(body) <= Sum(Counts, Bucket)
    BY <1>3, Zenon DEF ScrapeInv
  <2>2. DOMAIN seen = Duration
    BY Zenon DEF RegistryInv, RegistryType
  <2>3. Total(seen) = Sum(seen, Duration)
    BY <2>2, TotalIsSum, Zenon
  <2> QED
    BY <1>2, <2>1, <2>3, FinishedAreCounted
<1>6. ASSUME NEW k \in 1 .. BUCKET_COUNT PROVE body[LatencyCount(k)] <= body[LatencyCount(k + 1)]
  <2> DEFINE c == k + 6
  <2>1. /\ c \in 1 .. Len(body) /\ c \in LatencyCount(2) .. LatencySum - 1
        /\ LatencyCount(k) = c - 1 /\ LatencyCount(k + 1) = c
    BY <1>1 DEF LatencyCount
  <2> HIDE DEF c
  <2> QED
    BY <2>1, Zenon DEF ScrapeInv, Plausible
<1>7. body[Active] >= 0
  <2>1. Active \in 1 .. Len(body)
    BY <1>1 DEF Active
  <2> QED
    BY <2>1, Zenon DEF ScrapeInv, Plausible
<1>8. last # <<>> => \A c \in Monotone : last[c] <= body[c]
  <2>1. \A c \in Monotone : c <= Len(body)
    BY <1>1, MonotoneCells, Cells
  <2> QED
    BY <2>1, Zenon DEF ScrapeInv, NotBelow
<1> QED
  BY <1>4, <1>5, <1>6, <1>7, <1>8, Zenon

\* metrics_render reads the registry cell by cell while the writers go on, and yet a
\* complete body counts every request finished before it began and none not yet begun,
\* its buckets grow, the gauge of open connections is not negative, and no counter or
\* bucket is lower than in the scrape before.
THEOREM ScrapesAreBounded == Spec => []ScrapeBounded
  BY ScrapeAlways, ScrapeWhole, PTL
=============================================================================
