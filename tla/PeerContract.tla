---------------------------- MODULE PeerContract ----------------------------
(***************************************************************************)
(* What peer_state.c and an event loop owe each other.  The loop reads a   *)
(* peer only if the status it was given last says so, writes it only if    *)
(* that status says so, and closes it when the status says neither; in     *)
(* return an open peer always waits for exactly one of the two, for        *)
(* writing iff output is staged.  PeerState implements one side of it, the *)
(* three loops (EpollLoop, SelectLoop, UringLoop) the other.               *)
(***************************************************************************)
CONSTANT FD

VARIABLES
  open,     \* peers with a connection
  want,     \* the fd_status_t each was given last
  pending   \* peers with staged output

vars == <<open, want, pending>>

R == {"read"}
W == {"write"}
RW == {"read", "write"}
NORW == {}

Init == open = {} /\ want = [fd \in FD |-> NORW] /\ pending = {}

Connected(fd) ==
  /\ fd \notin open
  /\ open' = open \cup {fd}
  /\ want' = [want EXCEPT ![fd] = W]
  /\ pending' = pending \cup {fd}

Closed(fd) ==
  /\ fd \in open
  /\ open' = open \ {fd}
  /\ want' = [want EXCEPT ![fd] = NORW]
  /\ UNCHANGED pending

\* Input was read and produced output; without output nothing changes.
Staged(fd) ==
  /\ fd \in open /\ want[fd] = R
  /\ want' = [want EXCEPT ![fd] = W]
  /\ pending' = pending \cup {fd}
  /\ UNCHANGED open

\* The last of the staged output was written; a partial write changes nothing.
Drained(fd) ==
  /\ fd \in open /\ want[fd] = W
  /\ want' = [want EXCEPT ![fd] = R]
  /\ pending' = pending \ {fd}
  /\ UNCHANGED open

Next == \E fd \in FD : Connected(fd) \/ Closed(fd) \/ Staged(fd) \/ Drained(fd)

Spec == Init /\ [][Next]_vars

\* Nobody is forgotten: every open peer is waited for in exactly one direction, for
\* writing iff it has staged output, and a closed one in none.
OneDirection ==
  \A fd \in FD : want[fd] = IF fd \notin open THEN NORW ELSE IF fd \in pending THEN W ELSE R

=============================================================================
