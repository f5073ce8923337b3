---------------------------- MODULE MCThreadPool ----------------------------
(***************************************************************************)
(* ThreadPool on small instances.                                          *)
(***************************************************************************)
EXTENDS ThreadPool, TLC

Symmetric == Permutations(Worker) \cup Permutations(Conn) \cup Permutations(FD)

=============================================================================
