-------------------------- MODULE SequentialServer --------------------------
(***************************************************************************)
(* sequential_server.c: accept, serve to completion, close, and again.     *)
(***************************************************************************)
EXTENDS ServeConnection

CONSTANT MaxClients  \* bound: connections made

VARIABLES
  backlog,  \* clients waiting to be accepted
  offered,  \* clients that have connected so far
  isopen    \* the connection's descriptor: "open" or "closed"

accepting == <<backlog, offered, isopen>>
vars == <<serving, accepting>>

Init == Idle /\ backlog = 0 /\ offered = 0 /\ isopen = "closed"

ClientConnects ==
  /\ offered < MaxClients /\ offered' = offered + 1 /\ backlog' = backlog + 1
  /\ UNCHANGED <<serving, isopen>>

\* accept, and the call of serve_connection.
AcceptConn ==
  /\ pc = "idle" /\ backlog > 0 /\ backlog' = backlog - 1 /\ isopen' = "open"
  /\ Enter /\ UNCHANGED offered

\* ECONNABORTED: the client gave up while it waited.
AcceptAborted ==
  /\ pc = "idle" /\ backlog > 0 /\ backlog' = backlog - 1
  /\ UNCHANGED <<serving, offered, isopen>>

\* serve_connection has returned.
Close ==
  /\ pc = "done" /\ pc' = "idle" /\ isopen' = "closed"
  /\ UNCHANGED <<local, stream, gone, got, wire, requests, observed, backlog, offered>>

Main == AcceptConn \/ AcceptAborted \/ Close \/ (Serve /\ UNCHANGED accepting)

Next == ClientConnects \/ (Clients /\ UNCHANGED accepting) \/ Main

SafeSpec == Init /\ [][Next]_vars

\* The one thread runs; a client leaves sooner or later.
Fairness == WF_vars(Main) /\ WF_vars(\E how \in {"fin", "rst"} : ClientLeaves(how) /\ UNCHANGED accepting)

Spec == SafeSpec /\ Fairness

-----------------------------------------------------------------------------
\* Properties.

\* "A slow peer blocks everybody behind it", and no longer than that: once clients
\* leave, resets and half-closed connections included, each one in the queue has
\* its turn.
EverybodyHasATurn == backlog > 0 ~> backlog = 0

=============================================================================
