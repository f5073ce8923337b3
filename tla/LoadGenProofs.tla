---------------------------- MODULE LoadGenProofs ----------------------------
(***************************************************************************)
(* The load generator, for any number of connections and requests: nobody  *)
(* passes the start barrier before all have arrived, and after a failed    *)
(* pthread_create nobody ever passes it; an exit status of 0 means that    *)
(* every request was echoed; and the percentiles it prints rise.           *)
(***************************************************************************)
EXTENDS LoadGen, DataLemmas

Place == {"unborn", "connect", "arrive", "wait", "ack", "send", "recv", "over"}
Past == {"ack", "send", "recv", "over"}
Before == {"unborn", "connect", "arrive"}

\* Who is blocked at the barrier, if it has not opened.
Waiters == {c \in Conn : cpc[c] = "wait"} \cup (IF mpc \in {"missing", "wait"} THEN {Main} ELSE {})

\* The barrier has not opened, and holds everybody who has arrived; or it has, once, with
\* everybody there.
BarrierInv ==
  \/ /\ barrier = Waiters /\ mpc \in {"spawn", "missing", "wait"}
     /\ \A c \in Conn : cpc[c] \notin Past
  \/ /\ barrier = {} /\ mpc \in {"wait", "join", "exit"}
     /\ \A c \in Conn : cpc[c] \notin Before

SpawnInv ==
  /\ spawned \in 0 .. connections /\ missing \in Nat /\ cpc \in [Conn -> Place]
  /\ \A c \in Conn : c > spawned => cpc[c] = "unborn"
  /\ mpc = "missing" => spawned < connections
  /\ mpc # "missing" => missing = 0

IInv == SpawnInv /\ BarrierInv

\* There are as many connections as asked for, and one more at the barrier.
LEMMA ConnCount ==
  IsFiniteSet(Conn) /\ Cardinality(Conn) = connections
  BY ArgumentAssumption, FS_Interval DEF Conn

\* A set of waiters that misses t and has as many members as there are connections is
\* everybody else.
LEMMA Everybody ==
  ASSUME NEW t \in Conn \cup {Main}, NEW S \in SUBSET ((Conn \cup {Main}) \ {t}),
         Cardinality(S) + 1 = BarrierCount
  PROVE  S = (Conn \cup {Main}) \ {t}
<1> DEFINE All == Conn \cup {Main}
<1>1. IsFiniteSet(All) /\ Cardinality(All) = connections + 1
  BY ConnCount, MainAssumption, FS_AddElement
<1>2. IsFiniteSet(All \ {t}) /\ Cardinality(All \ {t}) = connections
  <2>1. IsFiniteSet(All \ {t}) /\ Cardinality(All \ {t}) = Cardinality(All) - 1
    BY <1>1, FS_RemoveElement
  <2> QED
    BY <1>1, <2>1, ArgumentAssumption
<1>3. IsFiniteSet(S) /\ Cardinality(S) \in Nat
  BY <1>2, FS_Subset, FS_CardinalityType
<1>4. Cardinality(S) = connections
  BY <1>3, ArgumentAssumption DEF BarrierCount
<1> QED
  BY <1>2, <1>4, FS_Subset

\* Nobody is at the barrier before the program runs.
LEMMA InitIInv == Init => IInv
  BY ArgumentAssumption DEF Init, IInv, SpawnInv, BarrierInv, Waiters, Place, Past

\* Threads start in order, and main waits for missing ones only if there are some.
LEMMA NextSpawn == IInv /\ [Next]_vars => SpawnInv'
<1> SUFFICES ASSUME IInv, [Next]_vars PROVE SpawnInv'
  OBVIOUS
<1> USE DEF IInv, SpawnInv, Place, Go
<1>1. CASE Spawn
  BY <1>1, ArgumentAssumption DEF Spawn, Conn
<1>2. CASE SpawnFails
  BY <1>2, ArgumentAssumption DEF SpawnFails
<1>3. CASE AllSpawned
  BY <1>3 DEF AllSpawned
<1>4. CASE MainReleased
  <2>1. mpc = "wait"
    BY <1>4 DEF MainReleased, BarrierInv, Waiters
  <2> QED
    BY <1>4, <2>1 DEF MainReleased
<1>5. CASE Report
  BY <1>5 DEF Report
<1>6. ASSUME NEW c \in Conn, conn_main(c) PROVE SpawnInv'
  <2>1. PICK to \in Place : cpc[c] # "unborn" /\ cpc' = [cpc EXCEPT ![c] = to]
    BY <1>6 DEF conn_main, Connect, ArriveThread, Released, TakeAck, Send, GiveUp, Answer, NoAnswer
  <2>2. UNCHANGED <<mpc, spawned, missing>>
    BY <1>6 DEF conn_main, Connect, ArriveThread, Released, TakeAck, Send, Answer, NoAnswer
  <2> QED
    BY <2>1, <2>2
<1>7. ASSUME NEW c \in Conn, ServerTakes(c) \/ ServerAnswers(c) PROVE SpawnInv'
  BY <1>7 DEF ServerTakes, ServerAnswers
<1>8. CASE UNCHANGED vars
  BY <1>8 DEF vars
<1> QED
  BY <1>1, <1>2, <1>3, <1>4, <1>5, <1>6, <1>7, <1>8 DEF Next, main

\* The barrier opens with the last arrival and not before.
LEMMA NextBarrier == IInv /\ [Next]_vars => BarrierInv'
<1> SUFFICES ASSUME IInv, [Next]_vars PROVE BarrierInv'
  OBVIOUS
<1> USE DEF IInv, SpawnInv
<1>a. Waiters \subseteq Conn \cup {Main}
  BY DEF Waiters
<1>1. CASE Spawn
  <2>1. Waiters' = Waiters
    BY <1>1, ArgumentAssumption DEF Spawn, Waiters, Conn
  <2> QED
    BY <1>1, <2>1, ArgumentAssumption DEF Spawn, BarrierInv, Past, Conn
<1>2. CASE SpawnFails
  <2>1. barrier = Waiters /\ (\A c \in Conn : cpc[c] \notin Past) /\ cpc' = cpc /\ mpc' = "missing"
    BY <1>2 DEF SpawnFails, BarrierInv
  <2>2. Main \notin Waiters /\ Waiters' = Waiters \cup {Main}
    BY <1>2, <2>1, MainAssumption DEF SpawnFails, Waiters
  <2>3. Cardinality(barrier) + 1 # BarrierCount
    <3>1. SUFFICES ASSUME Cardinality(barrier) + 1 = BarrierCount PROVE FALSE
      OBVIOUS
    <3>2. Waiters = (Conn \cup {Main}) \ {Main}
      BY <1>a, <2>1, <2>2, <3>1, Everybody
    <3>3. connections \in Conn /\ cpc[connections] = "unborn"
      BY <1>2, ArgumentAssumption DEF SpawnFails, Conn
    <3> QED
      BY <3>2, <3>3, MainAssumption DEF Waiters
  <2> QED
    BY <1>2, <2>1, <2>2, <2>3 DEF SpawnFails, Arrive, BarrierInv
<1>3. CASE AllSpawned
  <2>1. barrier = Waiters /\ (\A c \in Conn : cpc[c] \notin Past) /\ cpc' = cpc /\ mpc' = "wait"
    BY <1>3 DEF AllSpawned, BarrierInv
  <2>2. Main \notin Waiters /\ Waiters' = Waiters \cup {Main}
    BY <1>3, <2>1, MainAssumption DEF AllSpawned, Waiters
  <2>3. CASE Cardinality(barrier) + 1 = BarrierCount
    <3>1. Waiters = (Conn \cup {Main}) \ {Main}
      BY <1>a, <2>1, <2>2, <2>3, Everybody
    <3>2. \A c \in Conn : cpc[c] = "wait"
      BY <3>1, MainAssumption DEF Waiters
    <3> QED
      BY <1>3, <2>1, <2>3, <3>2 DEF AllSpawned, Arrive, BarrierInv, Before
  <2>4. CASE Cardinality(barrier) + 1 # BarrierCount
    BY <1>3, <2>1, <2>2, <2>4 DEF AllSpawned, Arrive, BarrierInv
  <2> QED
    BY <2>3, <2>4
<1>4. CASE MainReleased
  <2>1. mpc = "wait" /\ missing = 0 /\ barrier = {} /\ \A c \in Conn : cpc[c] \notin Before
    BY <1>4 DEF MainReleased, BarrierInv, Waiters
  <2> QED
    BY <1>4, <2>1 DEF MainReleased, BarrierInv
<1>5. CASE Report
  BY <1>5 DEF Report, BarrierInv
<1>6. ASSUME NEW c \in Conn, ArriveThread(c) PROVE BarrierInv'
  <2>1. barrier = Waiters /\ mpc \in {"spawn", "missing", "wait"} /\ \A d \in Conn : cpc[d] \notin Past
    BY <1>6 DEF ArriveThread, Go, BarrierInv, Before
  <2>2. cpc[c] = "arrive" /\ cpc' = [cpc EXCEPT ![c] = "wait"] /\ mpc' = mpc
    BY <1>6 DEF ArriveThread, Go
  <2>3. c # Main /\ c \notin Waiters /\ Waiters' = Waiters \cup {c}
    BY <2>2, MainAssumption DEF Waiters
  <2>4. CASE Cardinality(barrier) + 1 = BarrierCount
    <3>1. Waiters = (Conn \cup {Main}) \ {c}
      BY <1>a, <2>1, <2>3, <2>4, Everybody
    <3>2. \A d \in Conn : d # c => cpc[d] = "wait"
      BY <3>1, MainAssumption DEF Waiters
    <3>3. mpc \in {"missing", "wait"}
      BY <3>1, <2>3, MainAssumption DEF Waiters
    <3>4. mpc # "missing"
      <4>1. SUFFICES ASSUME mpc = "missing" PROVE FALSE
        OBVIOUS
      <4>2. connections \in Conn /\ cpc[connections] = "unborn"
        BY <4>1, ArgumentAssumption DEF Conn
      <4> QED
        BY <4>2, <3>2, <2>2
    <3> QED
      BY <1>6, <2>2, <2>4, <3>2, <3>3, <3>4 DEF ArriveThread, Arrive, BarrierInv, Before
  <2>5. CASE Cardinality(barrier) + 1 # BarrierCount
    BY <1>6, <2>1, <2>2, <2>3, <2>5 DEF ArriveThread, Arrive, BarrierInv, Past
  <2> QED
    BY <2>4, <2>5
<1>7. ASSUME NEW c \in Conn, Connect(c) PROVE BarrierInv'
  <2>1. cpc[c] = "connect" /\ cpc' = [cpc EXCEPT ![c] = "arrive"] /\ UNCHANGED <<mpc, barrier>>
    BY <1>7 DEF Connect, Go
  <2>2. Waiters' = Waiters
    BY <2>1 DEF Waiters
  <2> QED
    BY <2>1, <2>2 DEF BarrierInv, Past, Before
<1>8. ASSUME NEW c \in Conn, Released(c) \/ TakeAck(c) \/ Send(c) \/ Answer(c) \/ NoAnswer(c)
      PROVE BarrierInv'
  <2>1. /\ cpc[c] \in Past \cup {"wait"} /\ (cpc[c] = "wait" => c \notin barrier)
        /\ UNCHANGED <<mpc, barrier>> /\ \E to \in Past : cpc' = [cpc EXCEPT ![c] = to]
    BY <1>8 DEF Released, TakeAck, Send, GiveUp, Answer, NoAnswer, Go, Past
  <2>2. barrier = {} /\ mpc \in {"wait", "join", "exit"} /\ \A d \in Conn : cpc[d] \notin Before
    BY <2>1 DEF BarrierInv, Waiters
  <2> QED
    BY <2>1, <2>2 DEF BarrierInv, Past, Before
<1>9. ASSUME NEW c \in Conn, ServerTakes(c) \/ ServerAnswers(c) PROVE BarrierInv'
  BY <1>9 DEF ServerTakes, ServerAnswers, BarrierInv, Waiters
<1>10. CASE UNCHANGED vars
  BY <1>10 DEF vars, BarrierInv, Waiters
<1> QED
  BY <1>1, <1>2, <1>3, <1>4, <1>5, <1>6, <1>7, <1>8, <1>9, <1>10 DEF Next, main, conn_main

\* The strengthened invariant holds of every run.
LEMMA Invariant == Spec => []IInv
<1>1. IInv /\ [Next]_vars => IInv'
  BY NextSpawn, NextBarrier DEF IInv
<1> QED
  BY InitIInv, <1>1, PTL DEF Spec

\* "The request clock starts only once all of them are through": for any number of
\* connections, nobody is past the barrier while a connection is being set up.
THEOREM RequestsStartTogether == Spec => []StartTogether
<1>1. IInv => StartTogether
  BY DEF IInv, BarrierInv, StartTogether, Past, Before
<1> QED
  BY <1>1, Invariant, PTL

\* A main that waits for threads that were never created.
Abandoned == mpc = "missing" => Main \in barrier /\ \A c \in Conn : cpc[c] \notin Past

\* After pthread_create has failed, main stays in its first wait and no thread ever makes
\* a request, for any number of connections and of threads that did start.
THEOREM MissingThreadsBlock == Spec => []Abandoned
<1>1. IInv => Abandoned
  BY DEF IInv, BarrierInv, Abandoned, Waiters
<1> QED
  BY <1>1, Invariant, PTL


-----------------------------------------------------------------------------
\* What the report says.

\* Every thread keeps one latency per completed request, makes requests only on a
\* connection, and ends with an error counted or with every request made.
CountInv ==
  /\ completed \in [Conn -> Nat] /\ errors \in [Conn -> Nat] /\ mismatches \in [Conn -> Nat]
  /\ latencies_us \in [Conn -> Seq(Nat)] /\ connected \in [Conn -> BOOLEAN]
  /\ \A c \in Conn :
       /\ Len(latencies_us[c]) = completed[c]
       /\ cpc[c] \in {"ack", "send", "recv"} => connected[c]
       /\ cpc[c] = "over" => errors[c] > 0 \/ (connected[c] /\ completed[c] = messages)

\* The report of threads that completed done, failed err and mismatched mis requests, in lat.
Outcome(done, err, mis, lat) ==
  [total |-> Sum(done, Conn),
   percentiles |-> [k \in DOMAIN Reported |-> percentile(qsort(FlattenSeq(lat)), Reported[k])],
   code |-> IF Sum(err, Conn) > 0 \/ Sum(mis, Conn) > 0 THEN 1 ELSE 0]

\* main reports once, with every thread that was asked for over, and nothing moves after it.
ReportInv ==
  /\ mpc # "exit" => report = Nothing
  /\ mpc = "exit" => /\ \A c \in Conn : cpc[c] = "over"
                     /\ report = Outcome(completed, errors, mismatches, latencies_us)

\* No thread has counted anything at first.
LEMMA InitCount == Init => CountInv /\ ReportInv
<1>1. <<>> \in Seq(Nat) /\ Len(<<>>) = 0
  BY EmptySeq
<1> QED
  BY <1>1 DEF Init, CountInv, ReportInv

\* One more latency is one longer.
LEMMA OneMore ==
  ASSUME NEW s \in Seq(Nat), NEW t \in Nat
  PROVE  Append(s, t) \in Seq(Nat) /\ Len(Append(s, t)) = Len(s) + 1
  BY AppendProperties

\* Threads count what happens to them.
LEMMA NextCount == IInv /\ CountInv /\ [Next]_vars => CountInv'
<1> SUFFICES ASSUME IInv, CountInv, [Next]_vars PROVE CountInv'
  OBVIOUS
<1> USE DEF CountInv
<1>0. cpc \in [Conn -> Place] /\ messages \in Nat /\ messages > 0
  BY ArgumentAssumption DEF IInv, SpawnInv
<1>1. CASE Spawn
  BY <1>1, <1>0, ArgumentAssumption DEF Spawn, ctx, Conn, IInv, SpawnInv
<1>2. CASE SpawnFails \/ AllSpawned \/ MainReleased \/ Report
  BY <1>2 DEF SpawnFails, AllSpawned, MainReleased, Report, ctx
<1>3. ASSUME NEW c \in Conn, Connect(c) \/ ArriveThread(c) PROVE CountInv'
  BY <1>0, <1>3, Zenon DEF Connect, ArriveThread, Go, ctx
<1>4. ASSUME NEW c \in Conn, Released(c) PROVE CountInv'
  BY <1>0, <1>4 DEF Released, Go
<1>5. ASSUME NEW c \in Conn, TakeAck(c) PROVE CountInv'
  BY <1>0, <1>5, ZenonT(40) DEF TakeAck, Go
<1>6. ASSUME NEW c \in Conn, Send(c) \/ NoAnswer(c) PROVE CountInv'
  <2>1. /\ cpc[c] \in {"send", "recv"} /\ UNCHANGED <<connected, completed, mismatches, latencies_us>>
        /\ \/ cpc' = [cpc EXCEPT ![c] = "recv"] /\ errors' = errors
           \/ cpc' = [cpc EXCEPT ![c] = "over"] /\ errors' = [errors EXCEPT ![c] = errors[c] + 1]
    BY <1>6 DEF Send, NoAnswer, GiveUp, Go
  <2>2. errors' \in [Conn -> Nat] /\ errors[c] + 1 > 0
    BY <2>1
  <2> QED
    BY <1>0, <2>1, <2>2
<1>7. ASSUME NEW c \in Conn, Answer(c) PROVE CountInv'
  <2>1. PICK t \in Nat : latencies_us' = [latencies_us EXCEPT ![c] = Append(@, t)]
    BY <1>7, ArgumentAssumption, Zenon DEF Answer
  <2>2. Append(latencies_us[c], t) \in Seq(Nat) /\ Len(Append(latencies_us[c], t)) = Len(latencies_us[c]) + 1
    BY OneMore
  <2>3. latencies_us' \in [Conn -> Seq(Nat)] /\ \A d \in Conn : Len(latencies_us'[d]) = completed'[d]
    BY <1>7, <2>1, <2>2 DEF Answer
  <2> QED
    BY <1>0, <1>7, <2>3 DEF Answer, Go
<1>8. ASSUME NEW c \in Conn, ServerTakes(c) \/ ServerAnswers(c) PROVE CountInv'
  BY <1>8 DEF ServerTakes, ServerAnswers, ctx
<1>9. CASE UNCHANGED vars
  BY <1>9 DEF vars, ctx
<1> QED
  BY <1>1, <1>2, <1>3, <1>4, <1>5, <1>6, <1>7, <1>8, <1>9 DEF Next, main, conn_main

\* The report is of the final state, and that state stays.
LEMMA NextReport == IInv /\ CountInv /\ ReportInv /\ [Next]_vars => ReportInv'
<1> SUFFICES ASSUME IInv, CountInv, ReportInv, [Next]_vars PROVE ReportInv'
  OBVIOUS
<1>1. CASE Spawn \/ SpawnFails \/ AllSpawned \/ MainReleased
  BY <1>1 DEF Spawn, SpawnFails, AllSpawned, MainReleased, ReportInv
<1>2. CASE Report
  <2>1. spawned = connections
    <3>1. connections \in Conn /\ \A c \in Conn : cpc[c] # "unborn"
      BY <1>2, ArgumentAssumption DEF Report, IInv, BarrierInv, Before, Conn
    <3> QED
      BY <3>1, ArgumentAssumption DEF IInv, SpawnInv
  <2>2. [c \in 1 .. spawned |-> latencies_us[c]] = latencies_us
    BY <2>1 DEF CountInv, Conn
  <2>3. /\ SumOver(completed) = Sum(completed, Conn) /\ SumOver(errors) = Sum(errors, Conn)
        /\ SumOver(mismatches) = Sum(mismatches, Conn)
    BY <2>1 DEF SumOver, Sum, Conn
  <2>4. report' = Outcome(completed, errors, mismatches, latencies_us)
    BY <1>2, <2>2, <2>3 DEF Report, Outcome
  <2> QED
    BY <1>2, <2>1, <2>4 DEF Report, ReportInv, ctx, Conn
<1>3. ASSUME NEW c \in Conn, conn_main(c) PROVE ReportInv'
  <2>1. cpc[c] # "over" /\ UNCHANGED <<mpc, report>>
    BY <1>3 DEF conn_main, Connect, ArriveThread, Released, TakeAck, Send, GiveUp, Answer, NoAnswer, Go
  <2> QED
    BY <2>1 DEF ReportInv
<1>4. ASSUME NEW c \in Conn, ServerTakes(c) \/ ServerAnswers(c) PROVE ReportInv'
  BY <1>4 DEF ServerTakes, ServerAnswers, ctx, ReportInv
<1>5. CASE UNCHANGED vars
  BY <1>5 DEF vars, ctx, ReportInv
<1> QED
  BY <1>1, <1>2, <1>3, <1>4, <1>5 DEF Next, main

\* The invariant the report rests on holds of every run.
LEMMA RunInvariant == Spec => [](IInv /\ CountInv /\ ReportInv)
<1>1. (IInv /\ CountInv /\ ReportInv) /\ [Next]_vars => (CountInv /\ ReportInv)'
  BY NextCount, NextReport
<1>2. IInv /\ [Next]_vars => IInv'
  BY NextSpawn, NextBarrier DEF IInv
<1> QED
  BY InitIInv, InitCount, <1>1, <1>2, PTL DEF Spec

\* Exit code 0 is honest, for any number of connections and of requests and whatever the
\* server does: every connection was made, every request was answered rightly and counted.
THEOREM ReportIsHonest == Spec => []ExitHonest
<1>1. IInv /\ CountInv /\ ReportInv => ExitHonest
  <2> SUFFICES ASSUME IInv, CountInv, ReportInv, report.code = 0
               PROVE  /\ \A c \in Conn : connected[c] /\ completed[c] = messages /\ mismatches[c] = 0
                      /\ report.total = connections * messages
    BY DEF ExitHonest
  <2>1. /\ \A c \in Conn : cpc[c] = "over"
        /\ report = Outcome(completed, errors, mismatches, latencies_us)
    BY DEF ReportInv, Nothing
  <2>2. IsFiniteSet(Conn) /\ Cardinality(Conn) = connections
    BY ConnCount
  <2>3. \A c \in Conn : errors[c] \in Nat /\ mismatches[c] \in Nat
    BY DEF CountInv
  <2>4. /\ Sum(errors, Conn) \in Nat /\ \A c \in Conn : errors[c] <= Sum(errors, Conn)
        /\ Sum(mismatches, Conn) \in Nat /\ \A c \in Conn : mismatches[c] <= Sum(mismatches, Conn)
    BY <2>2, <2>3, SumBounds
  <2>5. Sum(errors, Conn) = 0 /\ Sum(mismatches, Conn) = 0
    BY <2>1, <2>4 DEF Outcome
  <2>6. \A c \in Conn : connected[c] /\ completed[c] = messages /\ mismatches[c] = 0
    BY <2>1, <2>3, <2>4, <2>5 DEF CountInv
  <2>7. Sum(completed, Conn) = connections * messages
    <3>1. messages \in Nat
      BY ArgumentAssumption
    <3> QED
      BY <2>2, <2>6, <3>1, SumConstant
  <2> QED
    BY <2>1, <2>6, <2>7 DEF Outcome
<1> QED
  BY <1>1, RunInvariant, PTL

-----------------------------------------------------------------------------
\* The sorted latencies.

\* The smallest of a nonempty set of naturals.
LEMMA MinIsSmallest ==
  ASSUME NEW T \in SUBSET Nat, T # {}
  PROVE  Min(T) \in T /\ \A y \in T : Min(T) <= y
  BY LeastNat, Zenon DEF Min

\* f concatenates the sequences of ss, one after the other.
Flattens(f, ss) == f = [i \in 1 .. Len(ss) |-> IF i = 1 THEN ss[i] ELSE f[i - 1] \o ss[i]]

\* What has been copied of the first i threads' latencies.
Copied(f, ss, i) == f[i] \in Seq(Nat) /\ \A v : v \in Range(f[i]) <=> \E c \in 1 .. i : v \in Range(ss[c])

\* The elements of a concatenation.
LEMMA RangeConcat ==
  ASSUME NEW s \in Seq(Nat), NEW t \in Seq(Nat)
  PROVE  s \o t \in Seq(Nat) /\ \A v : v \in Range(s \o t) <=> v \in Range(s) \/ v \in Range(t)
<1> DEFINE m == Len(s)
           n == Len(t)
           u == s \o t
<1>1. m \in Nat /\ n \in Nat /\ DOMAIN s = 1 .. m /\ DOMAIN t = 1 .. n
  BY LenProperties
<1>2. /\ u \in Seq(Nat) /\ Len(u) = m + n
      /\ \A j \in 1 .. m + n : u[j] = IF j <= m THEN s[j] ELSE t[j - m]
  BY ConcatProperties
<1>3. DOMAIN u = 1 .. m + n
  BY <1>2, LenProperties
<1> HIDE DEF m, n, u
<1>4. \A j \in 1 .. m : j \in 1 .. m + n /\ u[j] = s[j]
  BY <1>1, <1>2
<1>5. \A j \in 1 .. n : m + j \in 1 .. m + n /\ u[m + j] = t[j]
  BY <1>1, <1>2
<1>6. \A j \in 1 .. m + n : (j \in 1 .. m /\ u[j] = s[j]) \/ (j - m \in 1 .. n /\ u[j] = t[j - m])
  BY <1>1, <1>2
<1>7. ASSUME NEW v PROVE v \in Range(u) <=> v \in Range(s) \/ v \in Range(t)
  <2>1. v \in Range(u) <=> \E j \in 1 .. m + n : u[j] = v
    BY <1>3 DEF Range
  <2>2. v \in Range(s) <=> \E j \in 1 .. m : s[j] = v
    BY <1>1 DEF Range
  <2>3. v \in Range(t) <=> \E j \in 1 .. n : t[j] = v
    BY <1>1 DEF Range
  <2>4. v \in Range(s) => v \in Range(u)
    BY <1>4, <2>1, <2>2
  <2>5. v \in Range(t) => v \in Range(u)
    BY <1>5, <2>1, <2>3, Zenon
  <2>6. v \in Range(u) => v \in Range(s) \/ v \in Range(t)
    BY <1>6, <2>1, <2>2, <2>3
  <2> QED
    BY <2>4, <2>5, <2>6
<1> QED
  BY <1>2, <1>7 DEF u

\* Concatenating the threads' latencies is well defined.
LEMMA FlattenExists ==
  ASSUME NEW n \in Nat \ {0}, NEW ss \in [1 .. n -> Seq(Nat)], Len(ss) = n
  PROVE  \E f : Flattens(f, ss)
<1> DEFINE step == [i \in 1 .. n |-> [a \in Seq(Nat) |-> a \o ss[i]]]
<1>1. Steps(step, 1 .. n, Seq(Nat))
  BY RangeConcat DEF Steps
<1>2. <<>> \in Seq(Nat)
  BY EmptySeq
<1>3. \A i \in 1 .. n, a \in Seq(Nat) : step[i][a] = a \o ss[i]
  OBVIOUS
<1> HIDE DEF step
<1>4. PICK g \in [SUBSET (1 .. n) -> Seq(Nat)] : LeftFold(g, n, <<>>, step)
  BY <1>1, <1>2, FoldLeftExists, Zenon
<1>5. g[UpTo(0)] = <<>>
  <2>1. UpTo(0) = {} /\ {} \in SUBSET (1 .. n)
    BY DEF UpTo
  <2> QED
    BY <1>4, <2>1, Zenon DEF LeftFold
<1>6. ASSUME NEW i \in Nat, i < n PROVE g[UpTo(i + 1)] = g[UpTo(i)] \o ss[i + 1]
  <2>1. /\ Max(UpTo(i + 1)) = i + 1 /\ UpTo(i + 1) \ {i + 1} = UpTo(i)
        /\ UpTo(i + 1) # {} /\ UpTo(i + 1) \in SUBSET (1 .. n)
    BY <1>6, MaxUpTo, Zenon
  <2>2. g[UpTo(i + 1)] = step[i + 1][g[UpTo(i)]]
    BY <1>4, <2>1, Zenon DEF LeftFold
  <2>3. UpTo(i) \in SUBSET (1 .. n)
    BY <2>1
  <2>4. i + 1 \in 1 .. n
    BY <1>6
  <2> QED
    BY <1>3, <1>4, <2>2, <2>3, <2>4, Zenon
<1> DEFINE f == [i \in 1 .. n |-> g[UpTo(i)]]
<1>7. ASSUME NEW i \in 1 .. n PROVE f[i] = IF i = 1 THEN ss[i] ELSE f[i - 1] \o ss[i]
  <2>1. i - 1 \in Nat /\ i - 1 < n /\ (i - 1) + 1 = i
    OBVIOUS
  <2>2. f[i] = g[UpTo(i - 1)] \o ss[i]
    BY <1>6, <2>1, Zenon
  <2>3. CASE i = 1
    <3>1. UpTo(i - 1) = UpTo(0)
      BY <2>3
    <3>2. ss[i] \in Seq(Nat)
      OBVIOUS
    <3>3. <<>> \o ss[i] = ss[i]
      BY <3>2, ConcatEmptySeq
    <3> QED
      BY <1>5, <2>2, <2>3, <3>1, <3>3, Zenon
  <2>4. CASE i # 1
    <3>1. i - 1 \in 1 .. n
      BY <2>4
    <3> QED
      BY <2>2, <2>4, <3>1, Zenon
  <2> QED
    BY <2>3, <2>4
<1>8. f = [i \in 1 .. Len(ss) |-> IF i = 1 THEN ss[i] ELSE f[i - 1] \o ss[i]]
  <2>1. DOMAIN f = 1 .. n
    OBVIOUS
  <2> HIDE DEF f
  <2>2. f = [i \in 1 .. n |-> f[i]]
    BY <2>1 DEF f
  <2> QED
    BY <1>7, <2>2, Zenon
<1> HIDE DEF f
<1> QED
  BY <1>8, Zenon DEF Flattens

\* The array main sorts holds the latencies of every thread and nothing else.
LEMMA FlattenAll ==
  ASSUME NEW n \in Nat \ {0}, NEW ss \in [1 .. n -> Seq(Nat)]
  PROVE  /\ FlattenSeq(ss) \in Seq(Nat)
         /\ \A v : v \in Range(FlattenSeq(ss)) <=> \E c \in 1 .. n : v \in Range(ss[c])
<1> DEFINE f == CHOOSE g : Flattens(g, ss)
<1>1. Len(ss) = n
  OBVIOUS
<1>2. Flattens(f, ss)
  BY <1>1, FlattenExists
<1>3. FlattenSeq(ss) = f[n]
  BY <1>1 DEF FlattenSeq, Flattens
<1> HIDE DEF f
<1>4. \A i \in 1 .. n : f[i] = IF i = 1 THEN ss[i] ELSE f[i - 1] \o ss[i]
  BY <1>1, <1>2, Zenon DEF Flattens
<1> DEFINE N == {i \in Nat : i > 0 /\ i <= n => Copied(f, ss, i)}
<1>5. 0 \in N
  OBVIOUS
<1>6. ASSUME NEW i \in Nat, i \in N PROVE i + 1 \in N
  <2> SUFFICES ASSUME i + 1 <= n PROVE Copied(f, ss, i + 1)
    OBVIOUS
  <2>1. i + 1 \in 1 .. n /\ ss[i + 1] \in Seq(Nat) /\ (i + 1 = 1 <=> i = 0) /\ (i + 1) - 1 = i
    OBVIOUS
  <2>2. \A c : c \in 1 .. i + 1 <=> c \in 1 .. i \/ c = i + 1
    OBVIOUS
  <2>3. CASE i = 0
    <3>1. f[i + 1] = ss[i + 1]
      BY <1>4, <2>1, <2>3
    <3>2. ASSUME NEW v
          PROVE  v \in Range(f[i + 1]) <=> \E c \in 1 .. i + 1 : v \in Range(ss[c])
      <4>1. \A c \in 1 .. i + 1 : c = i + 1
        BY <2>3
      <4>2. i + 1 \in 1 .. i + 1
        OBVIOUS
      <4> QED
        BY <3>1, <4>1, <4>2, Zenon
    <3> QED
      BY <2>1, <3>1, <3>2 DEF Copied
  <2>4. CASE i # 0
    <3>1. f[i + 1] = f[i] \o ss[i + 1]
      BY <1>4, <2>1, <2>4, Zenon
    <3>2. Copied(f, ss, i)
      BY <1>6, <2>4
    <3>3. f[i + 1] \in Seq(Nat) /\ \A v : v \in Range(f[i + 1]) <=> v \in Range(f[i]) \/ v \in Range(ss[i + 1])
      BY <2>1, <3>1, <3>2, RangeConcat DEF Copied
    <3> QED
      BY <2>2, <3>2, <3>3, Zenon DEF Copied
  <2> QED
    BY <2>3, <2>4
<1> HIDE DEF N
<1>7. n \in N
  BY <1>5, <1>6, SetInduction, Zenon
<1>8. Copied(f, ss, n)
  BY <1>7 DEF N
<1> QED
  BY <1>3, <1>8 DEF Copied

\* The positions of s whose value is at most the one at j, and the values that at least i
\* of the values do not exceed.
NotAbove(s, j) == {k \in DOMAIN s : s[k] <= s[j]}
Candidates(s, i) == {s[j] : j \in {j \in DOMAIN s : Cardinality(NotAbove(s, j)) >= i}}

\* t is in order and runs from the smallest to the largest value of s.
Orders(t, s) ==
  /\ t \in Seq(Nat) /\ Len(t) = Len(s)
  /\ \A i, j \in 1 .. Len(s) : i <= j => t[i] <= t[j]
  /\ t[1] = Min(Range(s)) /\ t[Len(s)] = Max(Range(s))

\* The largest value of a sequence.
LEMMA LargestValue ==
  ASSUME NEW s \in Seq(Nat), Len(s) > 0
  PROVE  \E j \in 1 .. Len(s) : \A k \in 1 .. Len(s) : s[k] <= s[j]
<1> DEFINE n == Len(s)
           N == {m \in Nat : m > 0 /\ m <= n => \E j \in 1 .. m : \A k \in 1 .. m : s[k] <= s[j]}
<1>1. n \in Nat /\ \A k \in 1 .. n : s[k] \in Nat
  BY LenProperties, ElementOfSeq
<1> HIDE DEF n
<1>2. 0 \in N
  OBVIOUS
<1>3. ASSUME NEW m \in Nat, m \in N PROVE m + 1 \in N
  <2> SUFFICES ASSUME m + 1 <= n PROVE \E j \in 1 .. m + 1 : \A k \in 1 .. m + 1 : s[k] <= s[j]
    OBVIOUS
  <2>1. /\ m + 1 \in 1 .. m + 1 /\ s[m + 1] \in Nat
        /\ \A k \in 1 .. m + 1 : s[k] \in Nat /\ (k \in 1 .. m \/ k = m + 1)
    BY <1>1
  <2>2. CASE m = 0
    <3>1. \A k \in 1 .. m + 1 : s[k] <= s[m + 1]
      BY <2>1, <2>2
    <3> QED
      BY <2>1, <3>1
  <2>3. CASE m # 0
    <3>1. PICK j \in 1 .. m : \A k \in 1 .. m : s[k] <= s[j]
      BY <1>1, <1>3, <2>3
    <3>2. j \in 1 .. m + 1 /\ s[j] \in Nat
      BY <2>1
    <3>3. CASE s[m + 1] <= s[j]
      BY <2>1, <3>1, <3>2, <3>3, Zenon
    <3>4. CASE s[j] <= s[m + 1]
      <4>1. \A k \in 1 .. m + 1 : s[k] <= s[m + 1]
        BY <2>1, <3>1, <3>2, <3>4
      <4> QED
        BY <2>1, <4>1
    <3>5. s[m + 1] <= s[j] \/ s[j] <= s[m + 1]
      BY <2>1, <3>2
    <3> QED
      BY <3>3, <3>4, <3>5
  <2> QED
    BY <2>2, <2>3
<1> HIDE DEF N
<1>4. n \in N
  BY <1>1, <1>2, <1>3, SetInduction, Zenon
<1> QED
  BY <1>1, <1>4 DEF N, n

\* qsort leaves the values in order, from the smallest to the largest.
LEMMA QsortOrders ==
  ASSUME NEW s \in Seq(Nat), Len(s) > 0
  PROVE  Orders(qsort(s), s)
<1> DEFINE n == Len(s)
           t == qsort(s)
           C(j) == Cardinality(NotAbove(s, j))
<1>1. n \in Nat /\ n > 0 /\ DOMAIN s = 1 .. n /\ \A k \in 1 .. n : s[k] \in Nat
  BY LenProperties, ElementOfSeq
<1>2. /\ DOMAIN t = 1 .. n
      /\ \A i \in 1 .. n : t[i] = Min(Candidates(s, i))
  BY <1>1 DEF qsort, Candidates, NotAbove
<1> HIDE DEF n, t
<1>3. ASSUME NEW j \in 1 .. n
      PROVE  C(j) \in 1 .. n /\ (C(j) = n <=> \A k \in 1 .. n : s[k] <= s[j])
  <2>1. NotAbove(s, j) \in SUBSET (1 .. n) /\ j \in NotAbove(s, j)
    BY <1>1 DEF NotAbove
  <2>2. IsFiniteSet(1 .. n) /\ Cardinality(1 .. n) = n
    BY <1>1, FS_Interval
  <2>3. IsFiniteSet(NotAbove(s, j)) /\ C(j) \in Nat /\ C(j) <= n
    BY <1>1, <2>1, <2>2, FS_Subset, FS_CardinalityType
  <2>4. C(j) # 0
    BY <2>1, <2>3, FS_EmptySet
  <2>5. C(j) = n <=> NotAbove(s, j) = 1 .. n
    BY <2>1, <2>2, FS_Subset, Zenon
  <2>6. NotAbove(s, j) = 1 .. n <=> \A k \in 1 .. n : s[k] <= s[j]
    BY <1>1 DEF NotAbove
  <2> QED
    BY <1>1, <2>3, <2>4, <2>5, <2>6
<1>4. \A i \in 1 .. n : \A v : v \in Candidates(s, i) <=> \E j \in 1 .. n : s[j] = v /\ C(j) >= i
  BY <1>1 DEF Candidates
<1>5. PICK h \in 1 .. n : \A k \in 1 .. n : s[k] <= s[h]
  BY <1>1, LargestValue, Zenon DEF n
<1> HIDE DEF C
<1>6. ASSUME NEW i \in 1 .. n
      PROVE  t[i] \in Candidates(s, i) /\ \A v \in Candidates(s, i) : t[i] <= v
  <2>1. s[h] \in Candidates(s, i)
    <3>1. C(h) = n /\ n >= i
      BY <1>1, <1>3, <1>5
    <3> QED
      BY <1>4, <3>1
  <2>2. Candidates(s, i) \in SUBSET Nat
    BY <1>1, <1>4
  <2> QED
    BY <1>2, <2>1, <2>2, MinIsSmallest
<1>7. \A i \in 1 .. n : t[i] \in Nat
  BY <1>1, <1>4, <1>6
<1>8. t \in Seq(Nat) /\ Len(t) = n
  <2>1. t = [i \in 1 .. n |-> t[i]]
    BY <1>2 DEF t, qsort
  <2>2. t \in [1 .. n -> Nat]
    BY <1>7, <2>1
  <2> QED
    BY <1>1, <2>2
<1>9. ASSUME NEW i \in 1 .. n, NEW j \in 1 .. n, i <= j PROVE t[i] <= t[j]
  <2>1. PICK k \in 1 .. n : s[k] = t[j] /\ C(k) >= j
    BY <1>4, <1>6, Zenon
  <2>2. C(k) >= i
    BY <1>1, <1>3, <1>9, <2>1
  <2> QED
    BY <1>4, <1>6, <2>1, <2>2
<1>10. Range(s) \in SUBSET Nat /\ \A v : v \in Range(s) <=> \E j \in 1 .. n : s[j] = v
  BY <1>1 DEF Range
<1>11. t[1] = Min(Range(s))
  <2>1. 1 \in 1 .. n /\ \A j \in 1 .. n : C(j) >= 1
    BY <1>1, <1>3
  <2>2. Candidates(s, 1) = Range(s)
    <3>1. \A v : v \in Candidates(s, 1) <=> v \in Range(s)
      BY <1>4, <1>10, <2>1
    <3> QED
      BY <3>1, Zenon
  <2> QED
    BY <1>2, <2>1, <2>2
<1>12. t[n] = Max(Range(s))
  <2>1. n \in 1 .. n
    BY <1>1
  <2>2. PICK k \in 1 .. n : s[k] = t[n] /\ C(k) >= n
    BY <1>4, <1>6, <2>1
  <2>3. C(k) = n
    BY <1>1, <1>3, <2>2
  <2>4. \A j \in 1 .. n : s[j] <= t[n]
    BY <1>3, <2>2, <2>3
  <2>5. t[n] \in Range(s) /\ (\A y \in Range(s) : t[n] >= y) /\ t[n] \in Nat
    BY <1>1, <1>7, <1>10, <2>1, <2>2, <2>4
  <2>6. Max(Range(s)) \in Range(s) /\ \A y \in Range(s) : Max(Range(s)) >= y
    BY <2>5 DEF Max
  <2> QED
    BY <1>10, <2>5, <2>6
<1> QED
  BY <1>8, <1>9, <1>11, <1>12 DEF Orders, n, t

-----------------------------------------------------------------------------
\* The percentiles.

\* Thousandths.
Permille == 0 .. 999
Scaled(a) == 1000 * a

\* The value at weight f, in thousandths, between a and b.
Weighted(a, b, f) == (a * (1000 - f)) + (b * f)

\* The product of naturals is one.
LEMMA Product == ASSUME NEW u \in Nat, NEW v \in Nat PROVE u * v \in Nat
  OBVIOUS

\* An interpolated value lies between its neighbours and grows with the weight of the
\* larger one.
LEMMA Interpolates ==
  ASSUME NEW a \in Nat, NEW b \in Nat, a <= b, NEW f \in Permille, NEW g \in Permille, f <= g
  PROVE  /\ Weighted(a, b, f) \in Nat /\ Scaled(a) <= Weighted(a, b, f)
         /\ Weighted(a, b, f) <= Scaled(b) /\ Weighted(a, b, f) <= Weighted(a, b, g)
<1> DEFINE d == b - a
           u == 1000 - f
           w == g - f
<1>1. d \in Nat /\ f \in Nat /\ g \in Nat /\ u \in Nat /\ w \in Nat
  BY DEF Permille
<1>2. /\ Weighted(a, b, f) = Scaled(a) + (d * f) /\ Scaled(b) = Weighted(a, b, f) + (d * u)
      /\ Weighted(a, b, g) = Weighted(a, b, f) + (d * w) /\ Scaled(a) \in Nat
  BY DEF Weighted, Scaled, Permille
<1> HIDE DEF d, u, w
<1>3. d * f \in Nat /\ d * u \in Nat /\ d * w \in Nat
  BY <1>1, Product, Zenon
<1> QED
  BY <1>2, <1>3

\* Where the p-th thousandth of n sorted values lies: between the places lo and hi.
Rank1000(n, p) == p * (n - 1)
Lo(n, p) == Rank1000(n, p) \div 1000
Hi(n, p) == IF Lo(n, p) + 1 >= n THEN n - 1 ELSE Lo(n, p) + 1
Frac(n, p) == Rank1000(n, p) % 1000

\* The places exist, and move up with p.
LEMMA Places ==
  ASSUME NEW n \in Nat \ {0}, NEW p \in Permille, NEW q \in Permille, p <= q
  PROVE  /\ Lo(n, p) \in 0 .. n - 1 /\ Hi(n, p) \in 0 .. n - 1 /\ Lo(n, p) <= Hi(n, p)
         /\ Frac(n, p) \in Permille
         /\ \/ Lo(n, p) = Lo(n, q) /\ Hi(n, p) = Hi(n, q) /\ Frac(n, p) <= Frac(n, q)
            \/ Hi(n, p) <= Lo(n, q)
<1> DEFINE a == Rank1000(n, p)
           b == Rank1000(n, q)
           m == n - 1
           d == q - p
           r == 999 - p
<1>1. m \in Nat /\ d \in Nat /\ r \in Nat /\ p \in Nat
  BY DEF Permille
<1>2. a = p * m /\ b = a + (d * m) /\ 999 * m = a + (r * m)
  BY DEF Rank1000, Permille
<1>3. m = n - 1
  OBVIOUS
<1> HIDE DEF a, b, m, d, r
<1>4. p * m \in Nat /\ d * m \in Nat /\ r * m \in Nat
  BY <1>1, Product, Zenon
<1>5. a \in Nat /\ b \in Nat /\ a <= b /\ a <= 999 * m
  BY <1>1, <1>2, <1>4
<1>6. /\ a \div 1000 \in Nat /\ a % 1000 \in 0 .. 999 /\ a = (1000 * (a \div 1000)) + (a % 1000)
      /\ b \div 1000 \in Nat /\ b % 1000 \in 0 .. 999 /\ b = (1000 * (b \div 1000)) + (b % 1000)
  BY <1>5, DivMod
<1>7. a \div 1000 <= n - 1 /\ a \div 1000 <= b \div 1000
  BY <1>1, <1>3, <1>5, <1>6, SMTT(20)
<1>8. a \div 1000 = b \div 1000 => a % 1000 <= b % 1000
  BY <1>5, <1>6
<1> DEFINE x == Lo(n, p)
           y == Lo(n, q)
           v == Frac(n, p)
           w == Frac(n, q)
           X == Hi(n, p)
           Y == Hi(n, q)
<1>9. x = a \div 1000 /\ y = b \div 1000 /\ v = a % 1000 /\ w = b % 1000
  BY DEF Lo, Frac, a, b
<1>10. X = (IF x + 1 >= n THEN n - 1 ELSE x + 1) /\ Y = (IF y + 1 >= n THEN n - 1 ELSE y + 1)
  BY ZenonT(40) DEF Hi
<1> HIDE DEF x, y, v, w, X, Y
<1>11. x \in Nat /\ y \in Nat /\ x <= y /\ x <= n - 1 /\ v \in Permille /\ (x = y => v <= w)
  BY <1>6, <1>7, <1>8, <1>9 DEF Permille
<1>12. /\ x \in 0 .. n - 1 /\ X \in 0 .. n - 1 /\ x <= X
       /\ (x = y /\ X = Y /\ v <= w) \/ X <= y
  BY <1>10, <1>11
<1> QED
  BY <1>11, <1>12 DEF x, y, v, w, X, Y

\* percentile grows with the rank asked for, between the smallest and the largest value.
LEMMA PercentileGrows ==
  ASSUME NEW n \in Nat \ {0}, NEW t \in Seq(Nat), Len(t) = n,
         \A i, j \in 1 .. n : i <= j => t[i] <= t[j],
         NEW p \in Permille, NEW q \in Permille, p <= q
  PROVE  /\ percentile(t, p) \in Nat /\ Scaled(t[1]) <= percentile(t, p)
         /\ percentile(t, p) <= Scaled(t[n]) /\ percentile(t, p) <= percentile(t, q)
<1> DEFINE x == Lo(n, p)
           X == Hi(n, p)
           y == Lo(n, q)
           Y == Hi(n, q)
           l == x + 1
           h == X + 1
           k == y + 1
           m == Y + 1
           f == Frac(n, p)
           g == Frac(n, q)
           P == percentile(t, p)
           Q == percentile(t, q)
<1>1. P = Weighted(t[l], t[h], f) /\ Q = Weighted(t[k], t[m], g)
  BY DEF percentile, Weighted, Lo, Hi, Frac, Rank1000
<1>2. q <= q
  BY DEF Permille
<1>3. /\ x \in 0 .. n - 1 /\ X \in 0 .. n - 1 /\ x <= X /\ f \in Permille
      /\ (x = y /\ X = Y /\ f <= g) \/ X <= y
  BY Places, Zenon
<1>4. y \in 0 .. n - 1 /\ Y \in 0 .. n - 1 /\ y <= Y /\ g \in Permille
  BY <1>2, Places, Zenon
<1> HIDE DEF x, X, y, Y, f, g
<1>5. /\ l \in 1 .. n /\ h \in 1 .. n /\ l <= h /\ k \in 1 .. n /\ m \in 1 .. n /\ k <= m
      /\ (l = k /\ h = m /\ f <= g) \/ h <= k
  BY <1>3, <1>4
<1>6. f <= f /\ g <= g
  BY <1>3, <1>4 DEF Permille
<1> HIDE DEF l, h, k, m, P, Q
<1>7. t[l] <= t[h] /\ t[k] <= t[m] /\ t[1] <= t[l] /\ t[h] <= t[n] /\ (h <= k => t[h] <= t[k])
  BY <1>5
<1>8. t[l] \in Nat /\ t[h] \in Nat /\ t[k] \in Nat /\ t[m] \in Nat /\ t[1] \in Nat /\ t[n] \in Nat
  BY <1>5, ElementOfSeq
<1>9. P \in Nat /\ Scaled(t[l]) <= P /\ P <= Scaled(t[h])
  BY <1>1, <1>3, <1>6, <1>7, <1>8, Interpolates, Zenon
<1>10. Q \in Nat /\ Scaled(t[k]) <= Q
  BY <1>1, <1>4, <1>6, <1>7, <1>8, Interpolates, Zenon
<1>11. P <= Q
  <2>1. CASE l = k /\ h = m /\ f <= g
    BY <1>1, <1>3, <1>4, <1>7, <1>8, <2>1, Interpolates, Zenon
  <2>2. CASE h <= k
    BY <1>7, <1>8, <1>9, <1>10, <2>2 DEF Scaled
  <2> QED
    BY <1>5, <2>1, <2>2
<1>12. Scaled(t[1]) <= P /\ P <= Scaled(t[n])
  BY <1>7, <1>8, <1>9 DEF Scaled
<1> QED
  BY <1>9, <1>11, <1>12 DEF P, Q

\* Four values in order, between the extremes.
LEMMA Printed ==
  ASSUME NEW lo \in Nat, NEW hi \in Nat, NEW a \in Nat, NEW b \in Nat, NEW c \in Nat, NEW d \in Nat,
         lo <= a, a <= b, b <= c, c <= d, d <= hi
  PROVE  Rising(<<lo>> \o <<a, b, c, d>> \o <<hi>>)
<1> DEFINE s == <<lo>>
           t == <<a, b, c, d>>
           e == <<hi>>
           m == s \o t
           u == m \o e
<1>1. /\ s \in Seq(Nat) /\ t \in Seq(Nat) /\ e \in Seq(Nat) /\ Len(s) = 1 /\ Len(t) = 4 /\ Len(e) = 1
      /\ s[1] = lo /\ t[1] = a /\ t[2] = b /\ t[3] = c /\ t[4] = d /\ e[1] = hi
  OBVIOUS
<1> HIDE DEF s, t, e
<1>2. /\ m \in Seq(Nat) /\ Len(m) = Len(s) + Len(t)
      /\ \A i \in 1 .. Len(s) + Len(t) : m[i] = IF i <= Len(s) THEN s[i] ELSE t[i - Len(s)]
  BY <1>1, ConcatProperties, Zenon
<1> HIDE DEF m
<1>3. Len(m) = 5 /\ m[1] = lo /\ m[2] = a /\ m[3] = b /\ m[4] = c /\ m[5] = d
  BY <1>1, <1>2
<1>4. /\ Len(u) = Len(m) + Len(e)
      /\ \A i \in 1 .. Len(m) + Len(e) : u[i] = IF i <= Len(m) THEN m[i] ELSE e[i - Len(m)]
  BY <1>1, <1>2, ConcatProperties, ZenonT(40)
<1> HIDE DEF u
<1>5. Len(u) = 6 /\ u[1] = lo /\ u[2] = a /\ u[3] = b /\ u[4] = c /\ u[5] = d /\ u[6] = hi
  BY <1>1, <1>3, <1>4
<1>6. \A k \in 1 .. 5 : k = 1 \/ k = 2 \/ k = 3 \/ k = 4 \/ k = 5
  OBVIOUS
<1>7. \A k \in 1 .. 5 : u[k] <= u[k + 1]
  <2>1. 1 + 1 = 2 /\ 2 + 1 = 3 /\ 3 + 1 = 4 /\ 4 + 1 = 5 /\ 5 + 1 = 6
    OBVIOUS
  <2> QED
    BY <1>5, <1>6, <2>1
<1>8. Rising(u)
  BY <1>5, <1>7 DEF Rising
<1> QED
  BY <1>8 DEF u, m, s, t, e

\* What is printed of f: four values.
LEMMA FourRanks ==
  ASSUME NEW f PROVE [k \in DOMAIN Reported |-> f[Reported[k]]] = <<f[500], f[900], f[990], f[999]>>
  BY DEF Reported

\* The latencies printed are in order and between the fastest and the slowest request,
\* for any number of connections and of requests and any latencies.
THEOREM PercentilesAreOrdered == Spec => []PercentilesOrdered
<1>1. IInv /\ CountInv /\ ReportInv => PercentilesOrdered
  <2> DEFINE taken == UNION {Range(latencies_us[c]) : c \in Conn}
             all == FlattenSeq(latencies_us)
             t == qsort(all)
             n == Len(all)
  <2> SUFFICES ASSUME IInv, CountInv, ReportInv, report.total > 0
               PROVE  Rising(<<Scaled(Min(taken))>> \o report.percentiles \o <<Scaled(Max(taken))>>)
    BY DEF PercentilesOrdered, Scaled
  <2>1. /\ report.total = Sum(completed, Conn)
        /\ report.percentiles = [k \in DOMAIN Reported |-> percentile(t, Reported[k])]
    <3>1. report = Outcome(completed, errors, mismatches, latencies_us)
      BY DEF ReportInv, Nothing
    <3> QED
      BY <3>1 DEF Outcome
  <2>2. latencies_us \in [1 .. connections -> Seq(Nat)] /\ connections \in Nat \ {0}
    BY ArgumentAssumption DEF CountInv, Conn
  <2>3. all \in Seq(Nat) /\ \A v : v \in Range(all) <=> \E c \in 1 .. connections : v \in Range(latencies_us[c])
    BY <2>2, FlattenAll, Zenon
  <2>4. Range(all) = taken
    <3>1. \A v : v \in Range(all) <=> v \in taken
      BY <2>3 DEF Conn
    <3> QED
      BY <3>1
  <2>5. PICK c \in Conn : completed[c] # 0
    <3> SUFFICES ASSUME \A c \in Conn : completed[c] = 0 PROVE FALSE
      OBVIOUS
    <3>1. Sum(completed, Conn) = Cardinality(Conn) * 0 /\ 0 \in Nat
      BY ConnCount, SumConstant
    <3>2. Sum(completed, Conn) = 0
      BY <3>1, ConnCount, ArgumentAssumption
    <3> QED
      BY <2>1, <3>2
  <2>6. taken # {}
    <3>1. latencies_us[c] \in Seq(Nat) /\ Len(latencies_us[c]) # 0
      BY <2>5 DEF CountInv
    <3>2. 1 \in DOMAIN latencies_us[c]
      BY <3>1, LenProperties
    <3> QED
      BY <3>2 DEF Range
  <2> HIDE DEF taken, all, t, n
  <2>7. n \in Nat \ {0}
    <3>1. n \in Nat /\ DOMAIN all = 1 .. n
      BY <2>3, LenProperties DEF n
    <3>2. PICK i \in DOMAIN all : TRUE
      BY <2>4, <2>6 DEF Range
    <3> QED
      BY <3>1, <3>2
  <2>8. Orders(t, all)
    BY <2>3, <2>7, QsortOrders DEF n, t
  <2>9. /\ t \in Seq(Nat) /\ Len(t) = n /\ \A i, j \in 1 .. n : i <= j => t[i] <= t[j]
        /\ t[1] = Min(taken) /\ t[n] = Max(taken) /\ t[1] \in Nat /\ t[n] \in Nat
    <3>1. 1 \in 1 .. n /\ n \in 1 .. n
      BY <2>7
    <3> QED
      BY <2>4, <2>8, <3>1, ElementOfSeq DEF Orders, n
  <2> DEFINE f == [p \in Permille |-> percentile(t, p)]
  <2>10. \A p, q \in Permille : p <= q =>
           f[p] \in Nat /\ Scaled(t[1]) <= f[p] /\ f[p] <= Scaled(t[n]) /\ f[p] <= f[q]
    BY <2>7, <2>9, PercentileGrows
  <2>11. /\ 500 \in Permille /\ 900 \in Permille /\ 990 \in Permille /\ 999 \in Permille
         /\ 500 <= 900 /\ 900 <= 990 /\ 990 <= 999 /\ 999 <= 999
    BY DEF Permille
  <2>12. report.percentiles = <<f[500], f[900], f[990], f[999]>>
    <3>1. \A k \in DOMAIN Reported : Reported[k] \in Permille
      BY DEF Reported, Permille
    <3>2. report.percentiles = [k \in DOMAIN Reported |-> f[Reported[k]]]
      BY <2>1, <3>1
    <3> QED
      BY <3>2, FourRanks
  <2> HIDE DEF f
  <2>13. /\ f[500] \in Nat /\ f[900] \in Nat /\ f[990] \in Nat /\ f[999] \in Nat
         /\ Scaled(t[1]) <= f[500] /\ f[500] <= f[900] /\ f[900] <= f[990] /\ f[990] <= f[999]
         /\ f[999] <= Scaled(t[n])
    BY <2>10, <2>11
  <2>14. Scaled(t[1]) \in Nat /\ Scaled(t[n]) \in Nat
    BY <2>9 DEF Scaled
  <2> DEFINE v == f[500]
             w == f[900]
             x == f[990]
             y == f[999]
  <2>15. /\ v \in Nat /\ w \in Nat /\ x \in Nat /\ y \in Nat /\ report.percentiles = <<v, w, x, y>>
         /\ Scaled(t[1]) <= v /\ v <= w /\ w <= x /\ x <= y /\ y <= Scaled(t[n])
    BY <2>12, <2>13
  <2> HIDE DEF v, w, x, y
  <2>16. Rising(<<Scaled(t[1])>> \o <<v, w, x, y>> \o <<Scaled(t[n])>>)
    BY <2>14, <2>15, Printed, Zenon
  <2> QED
    BY <2>9, <2>15, <2>16
<1> QED
  BY <1>1, RunInvariant, PTL
=============================================================================
