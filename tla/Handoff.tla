------------------------------- MODULE Handoff -------------------------------
(***************************************************************************)
(* What the worker pool promises, with no threads, mutex or descriptors:   *)
(* connections join one bounded line, leave it in the order they joined,   *)
(* each goes to exactly one worker, and a worker has one at a time.        *)
(***************************************************************************)
EXTENDS Naturals, Sequences

CONSTANTS Worker, Conn, Capacity, None

VARIABLES
  outside,   \* connections that have not been handed over yet
  line,      \* connections waiting for a worker, oldest first
  serving,   \* the connection of each worker
  up         \* the server runs

vars == <<outside, line, serving, up>>

Init ==
  /\ outside = Conn
  /\ line = <<>>
  /\ serving = [w \in Worker |-> None]
  /\ up = TRUE

Join(c) ==
  /\ up
  /\ c \in outside
  /\ Len(line) < Capacity
  /\ line' = Append(line, c)
  /\ outside' = outside \ {c}
  /\ UNCHANGED <<serving, up>>

Take(w) ==
  /\ up
  /\ serving[w] = None
  /\ line # <<>>
  /\ serving' = [serving EXCEPT ![w] = Head(line)]
  /\ line' = Tail(line)
  /\ UNCHANGED <<outside, up>>

Finish(w) ==
  /\ up
  /\ serving[w] # None
  /\ serving' = [serving EXCEPT ![w] = None]
  /\ UNCHANGED <<outside, line, up>>

\* Connections that were never handed over are lost to the server.
Abandon(S) ==
  /\ up
  /\ outside' = outside \ S
  /\ UNCHANGED <<line, serving, up>>

\* The process ends, with whatever is waiting or being served.
GoDown ==
  /\ up
  /\ up' = FALSE
  /\ outside' = {}
  /\ line' = <<>>
  /\ serving' = [w \in Worker |-> None]

Next ==
  \/ \E c \in Conn : Join(c)
  \/ \E S \in SUBSET outside : Abandon(S)
  \/ \E w \in Worker : Take(w) \/ Finish(w)
  \/ GoDown

Spec == Init /\ [][Next]_vars

=============================================================================
