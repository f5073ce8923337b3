-------------------------- MODULE MCBlockingServers --------------------------
(***************************************************************************)
(* The two servers that block on their clients, for TLC: a behaviour is    *)
(* that of one of them, and the other is off.  Only the delimiters and the *)
(* byte whose successor wraps stand for all bytes.                         *)
(***************************************************************************)
EXTENDS ServeConnection, ThreadedServer

CONSTANT MaxClients

VARIABLES server, backlog, offered, isopen

sequential == <<serving, backlog, offered, isopen>>

Sequential == INSTANCE SequentialServer

Bytes == {Hat, Dollar, 255}

BothInit == Sequential!Init /\ Init /\ server \in {"sequential", "threaded"}

BothNext ==
  \/ server = "sequential" /\ Sequential!Next /\ UNCHANGED <<server, vars>>
  \/ server = "threaded" /\ Next /\ UNCHANGED <<server, sequential>>

\* A server that has no client takes no step, so its fairness asks for none.
BothSpec ==
  BothInit /\ [][BothNext]_<<server, sequential, vars>> /\ Sequential!Fairness /\ Fairness

-----------------------------------------------------------------------------

\* sequential_server.c: once clients leave, each one that waits has its turn.
\* threaded_server.c: every connection taken is closed in the end.
EverybodyServed == Sequential!EverybodyHasATurn /\ EachIsClosed

=============================================================================
