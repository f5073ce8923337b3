--------------------------- MODULE ThreadedServer ---------------------------
(***************************************************************************)
(* threaded_server.c: main accepts and starts a detached thread for each   *)
(* connection, handing it the descriptor in a heap object that the thread  *)
(* frees.  serve_connection (module ServeConnection) is one step here,     *)
(* which ends once its client has left.                                    *)
(***************************************************************************)
EXTENDS Naturals, FiniteSets

CONSTANTS
  FD,         \* descriptors
  Thread,     \* threads
  None,
  MaxArrivals \* bound: connections made

VARIABLES
  mpc,       \* main: "accept", "create", "died"
  newsockfd, \* main's local
  config,    \* the heap objects: a function from owner to sockfd, None when free
  tpc,       \* threads: "none", "start", "serve", "close"
  sockfd,    \* their locals
  opened,    \* open descriptors
  left,      \* descriptors whose client has left
  waiting, arrived  \* clients to be accepted, clients so far

vars == <<mpc, newsockfd, config, tpc, sockfd, opened, left, waiting, arrived>>

Init ==
  /\ mpc = "accept" /\ newsockfd = None
  /\ config = [t \in Thread |-> None]
  /\ tpc = [t \in Thread |-> "none"] /\ sockfd = [t \in Thread |-> None]
  /\ opened = {} /\ left = {} /\ waiting = 0 /\ arrived = 0

ClientArrives ==
  /\ arrived < MaxArrivals /\ arrived' = arrived + 1 /\ waiting' = waiting + 1
  /\ UNCHANGED <<mpc, newsockfd, config, tpc, sockfd, opened, left>>

ClientQuits(fd) ==
  /\ fd \in opened \ left /\ left' = left \cup {fd}
  /\ UNCHANGED <<mpc, newsockfd, config, tpc, sockfd, opened, waiting, arrived>>

\* accept: a descriptor, or none left, which is fatal.  A client that gave up
\* (ECONNABORTED) is passed over.
MainAccept ==
  /\ mpc = "accept" /\ waiting > 0
  /\ \/ /\ waiting' = waiting - 1 /\ UNCHANGED <<mpc, newsockfd, opened, left>>
     \/ /\ opened = FD /\ mpc' = "died" /\ UNCHANGED <<newsockfd, opened, left, waiting>>
     \/ \E fd \in FD \ opened :
          /\ newsockfd' = fd /\ opened' = opened \cup {fd} /\ left' = left \ {fd}
          /\ mpc' = "create" /\ waiting' = waiting - 1
  /\ UNCHANGED <<config, tpc, sockfd, arrived>>

\* The heap object belongs to the thread from here on.
CreateThread(t) ==
  /\ mpc = "create" /\ tpc[t] = "none"
  /\ config' = [config EXCEPT ![t] = newsockfd] /\ tpc' = [tpc EXCEPT ![t] = "start"]
  /\ mpc' = "accept"
  /\ UNCHANGED <<newsockfd, sockfd, opened, left, waiting, arrived>>

\* Out of threads, which others in the system use too: this peer is dropped and not the server.
CreateFails ==
  /\ mpc = "create"
  /\ opened' = opened \ {newsockfd} /\ mpc' = "accept"
  /\ UNCHANGED <<newsockfd, config, tpc, sockfd, left, waiting, arrived>>

\* Mutant: the thread is handed the address of main's local.
ThreadStartsLate(t) ==
  /\ tpc[t] = "start" /\ tpc' = [tpc EXCEPT ![t] = "serve"]
  /\ sockfd' = [sockfd EXCEPT ![t] = newsockfd] /\ config' = [config EXCEPT ![t] = None]
  /\ UNCHANGED <<mpc, newsockfd, opened, left, waiting, arrived>>

ThreadStarts(t) ==
  /\ tpc[t] = "start" /\ tpc' = [tpc EXCEPT ![t] = "serve"]
  /\ sockfd' = [sockfd EXCEPT ![t] = config[t]] /\ config' = [config EXCEPT ![t] = None]
  /\ UNCHANGED <<mpc, newsockfd, opened, left, waiting, arrived>>

ThreadServes(t) ==
  /\ tpc[t] = "serve" /\ sockfd[t] \in left /\ tpc' = [tpc EXCEPT ![t] = "close"]
  /\ UNCHANGED <<mpc, newsockfd, config, sockfd, opened, left, waiting, arrived>>

ThreadCloses(t) ==
  /\ tpc[t] = "close" /\ tpc' = [tpc EXCEPT ![t] = "none"]
  /\ opened' = opened \ {sockfd[t]}
  /\ UNCHANGED <<mpc, newsockfd, config, sockfd, left, waiting, arrived>>

ThreadStep(t) == ThreadStarts(t) \/ ThreadServes(t) \/ ThreadCloses(t)

MainStep == MainAccept \/ CreateFails \/ \E t \in Thread : CreateThread(t)

Next ==
  \/ ClientArrives \/ MainStep
  \/ \E fd \in FD : ClientQuits(fd)
  \/ \E t \in Thread : ThreadStep(t)

SafeSpec == Init /\ [][Next]_vars

\* Every thread runs; a client leaves sooner or later.
Fairness ==
  /\ WF_vars(MainStep) /\ \A t \in Thread : WF_vars(ThreadStep(t))
  /\ \A fd \in FD : WF_vars(ClientQuits(fd))

Spec == SafeSpec /\ Fairness

-----------------------------------------------------------------------------
\* Properties.

\* The type invariant.
TypeOK ==
  /\ mpc \in {"accept", "create", "died"} /\ newsockfd \in FD \cup {None}
  /\ config \in [Thread -> FD \cup {None}] /\ sockfd \in [Thread -> FD \cup {None}]
  /\ tpc \in [Thread -> {"none", "start", "serve", "close"}]
  /\ opened \subseteq FD /\ left \subseteq FD
  /\ waiting \in Nat /\ arrived \in Nat

Holders(fd) ==
  {t \in Thread : (tpc[t] = "start" /\ config[t] = fd) \/ (tpc[t] \in {"serve", "close"} /\ sockfd[t] = fd)}
    \cup (IF mpc = "create" /\ newsockfd = fd THEN {None} ELSE {})

\* "no shared mutable state exists and no lock is needed": every open descriptor is
\* in the hands of exactly one of main, a heap object or a thread, and a closed one
\* of nobody, though numbers are reused while threads start and end.
SingleHolder ==
  /\ \A fd \in opened : \E h \in Holders(fd) : Holders(fd) = {h}
  /\ \A fd \in FD \ opened : Holders(fd) = {}

\* Every connection taken is closed in the end: by its thread or, without a thread, by
\* main; no descriptor leaks.
EachIsClosed == \A fd \in FD : fd \in opened ~> fd \notin opened

=============================================================================
