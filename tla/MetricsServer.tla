---------------------------- MODULE MetricsServer ----------------------------
(***************************************************************************)
(* metrics_server.c: the thread that answers scrapes of the registry, and  *)
(* the calls that start and stop it.  One thread starts and stops the      *)
(* endpoint, as main() of threadpool_server.c does; writers of the         *)
(* registry run beside both.                                               *)
(***************************************************************************)
EXTENDS Metrics

CONSTANTS
  REQUEST_MAX,  \* room for a request, with its terminator
  MaxStarts,    \* bound: calls of metrics_server_start
  MaxScrapers,  \* bound: connections to the endpoint
  MaxFaults     \* bound: failures of poll and accept

ASSUME RequestAssumption == REQUEST_MAX \in Nat \ {0, 1}

VARIABLES
  mpc,         \* the caller: "idle", "creating" a thread or "joining" it
  apc,         \* the thread: "none", a place in accept_loop, or "exited"
  g_listen_fd, \* TRUE while the listening socket is open
  g_running, g_started,
  reqlen,      \* bytes of the request read so far
  reply,       \* the answer under way: "none", "200", "404" or "500"
  pending,     \* connections in the backlog
  starts, scrapers, faults

endpoint == <<mpc, apc, g_listen_fd, g_running, g_started, reqlen, reply, pending, starts, scrapers, faults>>
vars == <<metrics, endpoint>>

Init ==
  /\ metrics_init
  /\ mpc = "idle" /\ apc = "none" /\ g_listen_fd = FALSE /\ g_running = FALSE
  /\ g_started = FALSE /\ reqlen = 0 /\ reply = "none" /\ pending = 0
  /\ starts = 0 /\ scrapers = 0 /\ faults = 0

-----------------------------------------------------------------------------
\* The caller.

\* open_listener either returns a listening socket or closes what it had opened.  A
\* start while g_started is set fails with EALREADY and changes nothing.
metrics_server_start ==
  /\ mpc = "idle" /\ ~g_started /\ starts < MaxStarts /\ starts' = starts + 1
  /\ \/ mpc' = "creating" /\ g_listen_fd' = TRUE /\ g_running' = TRUE
     \/ UNCHANGED <<mpc, g_listen_fd, g_running>>
  /\ UNCHANGED <<metrics, apc, g_started, reqlen, reply, pending, scrapers, faults>>

ThreadCreated ==
  /\ mpc = "creating" /\ mpc' = "idle" /\ apc' = "test" /\ g_started' = TRUE
  /\ UNCHANGED <<metrics, g_listen_fd, g_running, reqlen, reply, pending, starts, scrapers, faults>>

ThreadNotCreated ==
  /\ mpc = "creating" /\ mpc' = "idle" /\ g_running' = FALSE /\ g_listen_fd' = FALSE
  /\ pending' = 0
  /\ UNCHANGED <<metrics, apc, g_started, reqlen, reply, starts, scrapers, faults>>

\* Mutant: the listener is closed before the thread is joined.
StopAsksAndCloses ==
  /\ mpc = "idle" /\ g_started /\ g_running' = FALSE /\ mpc' = "joining" /\ g_listen_fd' = FALSE
  /\ UNCHANGED <<metrics, apc, g_started, reqlen, reply, pending, starts, scrapers, faults>>

StopAsks ==
  /\ mpc = "idle" /\ g_started /\ g_running' = FALSE /\ mpc' = "joining"
  /\ UNCHANGED <<metrics, apc, g_listen_fd, g_started, reqlen, reply, pending, starts, scrapers, faults>>

\* pthread_join returns; connections still in the backlog are reset with the listener.
StopJoins ==
  /\ mpc = "joining" /\ apc = "exited"
  /\ mpc' = "idle" /\ apc' = "none" /\ g_listen_fd' = FALSE /\ g_started' = FALSE /\ pending' = 0
  /\ UNCHANGED <<metrics, g_running, reqlen, reply, starts, scrapers, faults>>

-----------------------------------------------------------------------------
\* The thread.

Goto(from, to) == apc = from /\ apc' = to

Still == UNCHANGED <<mpc, g_listen_fd, g_running, g_started, starts, scrapers>>

ScraperConnects ==
  /\ g_listen_fd /\ scrapers < MaxScrapers
  /\ scrapers' = scrapers + 1 /\ pending' = pending + 1
  /\ UNCHANGED <<metrics, mpc, apc, g_listen_fd, g_running, g_started, reqlen, reply, starts, faults>>

TestRunning ==
  /\ Goto("test", IF g_running THEN "poll" ELSE "exited")
  /\ Still /\ UNCHANGED <<metrics, reqlen, reply, pending, faults>>

\* Mutant: poll waits for ever.
PollForever ==
  /\ pending > 0 /\ Goto("poll", "accept")
  /\ Still /\ UNCHANGED <<metrics, reqlen, reply, pending, faults>>

\* poll returns with a connection, or after ACCEPT_POLL_MS without one.
Poll ==
  /\ Goto("poll", IF pending > 0 THEN "accept" ELSE "test")
  /\ Still /\ UNCHANGED <<metrics, reqlen, reply, pending, faults>>

\* EINTR in poll, and EINTR, ECONNABORTED and EMFILE in accept, are tried again; any
\* other error ends the thread.  An aborted connection is gone from the backlog.
PollOrAcceptFails ==
  /\ apc \in {"poll", "accept"} /\ faults < MaxFaults /\ faults' = faults + 1
  /\ apc' \in {"test", "exited"}
  /\ pending' \in {pending} \cup (IF apc = "accept" THEN {pending - 1} ELSE {})
  /\ Still /\ UNCHANGED <<metrics, reqlen, reply>>

Accept ==
  /\ Goto("accept", "read") /\ pending' = pending - 1 /\ reqlen' = 0
  /\ Still /\ UNCHANGED <<metrics, reply, faults>>

\* Mutant: each recv starts the buffer again.
RecvAgain ==
  /\ apc = "read" /\ apc' \in {"read", "dispatch"} /\ reqlen' \in 1 .. REQUEST_MAX - 1
  /\ Still /\ UNCHANGED <<metrics, reply, pending, faults>>

\* The request is over with a blank line, or when its buffer is full.
Recv ==
  /\ apc = "read"
  /\ \E n \in 1 .. REQUEST_MAX - 1 - reqlen :
       /\ reqlen' = reqlen + n
       /\ apc' \in {"dispatch"} \cup (IF reqlen' + 1 < REQUEST_MAX THEN {"read"} ELSE {})
  /\ Still /\ UNCHANGED <<metrics, reply, pending, faults>>

\* End of file: what has been read is the request, if there is anything.
RecvEof ==
  /\ Goto("read", IF reqlen > 0 THEN "dispatch" ELSE "close")
  /\ Still /\ UNCHANGED <<metrics, reqlen, reply, pending, faults>>

\* An error, or CLIENT_TIMEOUT_MS without a byte.
RecvFails ==
  /\ Goto("read", "close")
  /\ Still /\ UNCHANGED <<metrics, reqlen, reply, pending, faults>>

Dispatch ==
  /\ \/ Goto("dispatch", "render") /\ BeginRender /\ reply' = reply
     \/ Goto("dispatch", "send") /\ reply' = "404" /\ UNCHANGED metrics
  /\ Still /\ UNCHANGED <<reqlen, pending, faults>>

Render ==
  /\ Goto("render", "render") /\ RenderLine
  /\ Still /\ UNCHANGED <<reqlen, reply, pending, faults>>

\* Mutant: a body as long as the buffer is taken to fit.
ChooseStatusLate ==
  /\ Rendered /\ Goto("render", "send") /\ reply' = IF len > BODY_MAX THEN "500" ELSE "200"
  /\ Still /\ UNCHANGED <<metrics, reqlen, pending, faults>>

ChooseStatus ==
  /\ Rendered /\ Goto("render", "send") /\ reply' = IF len >= BODY_MAX THEN "500" ELSE "200"
  /\ Still /\ UNCHANGED <<metrics, reqlen, pending, faults>>

\* write_all of the head and the body, whole or up to an error or a time-out: serve()
\* goes on to close the connection in either case.
SendReply ==
  /\ Goto("send", "close")
  /\ Still /\ UNCHANGED <<metrics, reqlen, reply, pending, faults>>

CloseClient ==
  /\ Goto("close", "test") /\ reply' = "none" /\ reqlen' = 0
  /\ Still /\ UNCHANGED <<metrics, pending, faults>>

accept_loop ==
  \/ TestRunning \/ Poll \/ PollOrAcceptFails \/ Accept \/ Recv \/ RecvEof \/ RecvFails
  \/ Dispatch \/ Render \/ ChooseStatus \/ SendReply \/ CloseClient

Next ==
  \/ metrics_server_start \/ ThreadCreated \/ ThreadNotCreated \/ StopAsks \/ StopJoins
  \/ ScraperConnects \/ accept_loop
  \/ Writers /\ UNCHANGED endpoint

\* Every wait of the thread has a time-out, so the thread keeps going; the caller does
\* what it has begun.
Fairness == WF_vars(accept_loop) /\ WF_vars(ThreadCreated \/ ThreadNotCreated) /\ WF_vars(StopJoins)
Spec == Init /\ [][Next]_vars /\ Fairness

-----------------------------------------------------------------------------
\* Properties.

\* The thread never polls or accepts on a closed descriptor, there is a thread to join
\* exactly when g_started says so, and a start that failed or a stop that returned
\* leaves no thread and no listener behind.
Lifecycle ==
  /\ apc \notin {"none", "exited"} => g_listen_fd
  /\ g_started <=> apc # "none"
  /\ mpc = "idle" /\ ~g_started => ~g_listen_fd /\ ~g_running

\* "200 OK" is only ever said of a body that is there to its last line: a truncated one
\* is answered with 500.
ReplyWhole == reply = "200" => Rendered /\ kept = len

\* metrics_server_stop returns, whatever the thread was doing when it was called and
\* however slowly its client sends.
StopReturns == mpc = "joining" ~> mpc = "idle"

\* While the thread lives, the backlog is worked off: no client holds the endpoint for
\* ever.
ScrapeServed == pending > 0 ~> (pending = 0 \/ apc = "exited")

=============================================================================
