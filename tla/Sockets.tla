------------------------------- MODULE Sockets -------------------------------
(***************************************************************************)
(* What the three event loops share: the connections as the kernel sees    *)
(* them, the clients, and peer_state.c reduced to whether output is        *)
(* staged.  The calls on a peer are total: a loop that reads a peer with   *)
(* staged output, writes one without, or uses a closed descriptor gets     *)
(* what the code would return.                                             *)
(***************************************************************************)
EXTENDS Naturals, FiniteSets

CONSTANTS
  FD,         \* the descriptors below MAXFDS that accept can return
  Beyond,     \* the ones at or above it
  Listener,   \* the listening socket, opened before any peer
  RLIMITS,    \* descriptors a process may be allowed for peers (RLIMIT_NOFILE)
  MaxUnread,  \* bound: input waiting on one connection
  MaxClients  \* bound: connections made

Number == FD \cup Beyond

ASSUME DescriptorAssumption ==
  /\ Listener \in Nat /\ Number \subseteq Nat /\ IsFiniteSet(FD)
  /\ \A fd \in Number : Listener < fd
  /\ \A fd \in FD, beyond \in Beyond : fd < beyond

ASSUME LimitAssumption == RLIMITS \subseteq Nat

VARIABLES
  open,     \* descriptors the kernel has open for peers
  pending,  \* peers with staged output
  unread,   \* input that has arrived and was not read yet
  gone,     \* "no", or how the client left: "fin", "rst"
  backlog,  \* clients waiting to be accepted
  offered,  \* clients that have connected so far
  rlimit    \* what this process was allowed when it was started

sockets == <<open, pending, unread, gone, backlog, offered, rlimit>>

R == {"read"}
W == {"write"}
RW == {"read", "write"}
NORW == {}

SocketsInit ==
  /\ open = {} /\ pending = {}
  /\ unread = [fd \in Number |-> 0] /\ gone = [fd \in Number |-> "no"]
  /\ backlog = 0 /\ offered = 0 /\ rlimit \in RLIMITS

-----------------------------------------------------------------------------
\* The clients.

ClientConnects ==
  /\ offered < MaxClients
  /\ offered' = offered + 1 /\ backlog' = backlog + 1
  /\ UNCHANGED <<open, pending, unread, gone, rlimit>>

ClientSends(fd) ==
  /\ fd \in open /\ gone[fd] = "no" /\ unread[fd] < MaxUnread
  /\ unread' = [unread EXCEPT ![fd] = @ + 1]
  /\ UNCHANGED <<open, pending, gone, backlog, offered, rlimit>>

ClientLeaves(fd, how) ==
  /\ fd \in open /\ gone[fd] = "no"
  /\ gone' = [gone EXCEPT ![fd] = how]
  /\ UNCHANGED <<open, pending, unread, backlog, offered, rlimit>>

Clients ==
  \/ ClientConnects
  \/ \E fd \in FD : ClientSends(fd) \/ \E how \in {"fin", "rst"} : ClientLeaves(fd, how)

-----------------------------------------------------------------------------
\* The calls.

Readable(fd) == unread[fd] > 0 \/ gone[fd] # "no"

\* accept returns the lowest free number, so one of Beyond only once FD is used up.
\* At the limit it fails with EMFILE.
Acceptable ==
  IF backlog = 0 \/ Cardinality(open) >= rlimit THEN {}
  ELSE IF FD \subseteq open THEN Beyond \ open ELSE FD \ open

accept(fd) ==
  /\ fd \in Acceptable
  /\ open' = open \cup {fd}
  /\ unread' = [unread EXCEPT ![fd] = 0] /\ gone' = [gone EXCEPT ![fd] = "no"]
  /\ backlog' = backlog - 1
  /\ UNCHANGED <<offered, rlimit>>

\* The statuses peer_on_ready_recv can return: no room, data that stages no
\* output or some, nothing there, end of file or an error.
RecvStatuses(fd) ==
  IF fd \notin open THEN {NORW}
  ELSE IF fd \in pending THEN {W}
  ELSE (IF unread[fd] > 0 THEN {R, W} ELSE IF gone[fd] = "no" THEN {R} ELSE {})
         \cup (IF gone[fd] = "rst" \/ (gone[fd] = "fin" /\ unread[fd] = 0) THEN {NORW} ELSE {})

\* The statuses peer_on_ready_send can return: nothing staged, a partial write
\* or none, a full one, an error.
SendStatuses(fd) ==
  IF fd \notin open THEN {NORW}
  ELSE IF fd \notin pending THEN {RW}
  ELSE {W, R} \cup (IF gone[fd] = "rst" THEN {NORW} ELSE {})

\* How a call that returned status leaves the input and the staged output.
AfterRecv(fd, status) ==
  /\ IF fd \in open \ pending /\ status # NORW /\ unread[fd] > 0
     THEN \E n \in 0 .. unread[fd] - 1 : unread' = [unread EXCEPT ![fd] = n]
     ELSE UNCHANGED unread
  /\ pending' = IF status = W THEN pending \cup {fd} ELSE pending

AfterSend(fd, status) ==
  /\ pending' = IF status = R THEN pending \ {fd} ELSE pending
  /\ UNCHANGED unread

=============================================================================
