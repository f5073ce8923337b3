------------------------------ MODULE MCMetrics ------------------------------
(***************************************************************************)
(* The registry and its endpoint, for TLC.  Calls, starts, scrapers and    *)
(* faults share one bound, so that a behaviour rich in one is poor in the  *)
(* others.                                                                 *)
(***************************************************************************)
EXTENDS MetricsServer

CONSTANT MaxEvents

OneBound == <<2>>

MCNext == Next /\ calls' + starts' + scrapers' + faults' <= MaxEvents
MCSpec == Init /\ [][MCNext]_vars /\ Fairness

=============================================================================
