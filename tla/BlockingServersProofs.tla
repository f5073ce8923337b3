------------------------ MODULE BlockingServersProofs ----------------------
(***************************************************************************)
(* The blocking servers, for any set of descriptors and any number of      *)
(* threads and clients: every open descriptor of threaded_server.c has one *)
(* holder, and serve_connection, which writes its answer over its input,   *)
(* never overwrites a byte it still has to read and echoes exactly.        *)
(***************************************************************************)
EXTENDS MCBlockingServers, DataLemmas, TLAPS

\* What a holder holds is a descriptor: main's local while it creates a thread, the heap
\* object of a thread that starts, the local of one that serves or closes.
HoldersHold ==
  /\ mpc = "create" => newsockfd \in FD
  /\ \A t \in Thread : tpc[t] = "start" => config[t] \in FD
  /\ \A t \in Thread : tpc[t] \in {"serve", "close"} => sockfd[t] \in FD

IInv == TypeOK /\ HoldersHold /\ SingleHolder

\* At the start nothing is open and nobody holds anything.
LEMMA InitIInv == Init => IInv
  BY DEF Init, IInv, TypeOK, HoldersHold, SingleHolder, Holders

\* A step leaves descriptors and threads within their types.
LEMMA NextType == TypeOK /\ HoldersHold /\ [Next]_vars => TypeOK' /\ HoldersHold'
<1> SUFFICES ASSUME TypeOK, HoldersHold, [Next]_vars PROVE TypeOK' /\ HoldersHold'
  OBVIOUS
<1> USE DEF TypeOK, HoldersHold
<1>1. CASE ClientArrives
  BY <1>1 DEF ClientArrives
<1>2. CASE MainAccept
  BY <1>2 DEF MainAccept
<1>3. CASE CreateFails
  BY <1>3 DEF CreateFails
<1>4. ASSUME NEW t \in Thread, CreateThread(t) PROVE TypeOK' /\ HoldersHold'
  BY <1>4 DEF CreateThread
<1>5. ASSUME NEW fd \in FD, ClientQuits(fd) PROVE TypeOK' /\ HoldersHold'
  BY <1>5 DEF ClientQuits
<1>6. ASSUME NEW t \in Thread, ThreadStarts(t) PROVE TypeOK' /\ HoldersHold'
  BY <1>6 DEF ThreadStarts
<1>7. ASSUME NEW t \in Thread, ThreadServes(t) PROVE TypeOK' /\ HoldersHold'
  BY <1>7 DEF ThreadServes
<1>8. ASSUME NEW t \in Thread, ThreadCloses(t) PROVE TypeOK' /\ HoldersHold'
  BY <1>8 DEF ThreadCloses
<1>9. CASE UNCHANGED vars
  BY <1>9 DEF vars
<1> QED
  BY <1>1, <1>2, <1>3, <1>4, <1>5, <1>6, <1>7, <1>8, <1>9 DEF Next, MainStep, ThreadStep

\* Steps that neither open, close nor hand over a descriptor leave the holders alone.
LEMMA SameHolders ==
  ASSUME NEW fd, UNCHANGED <<mpc, newsockfd, config, tpc, sockfd>>
  PROVE Holders(fd)' = Holders(fd)
  BY DEF Holders

\* A step keeps one holder for each open descriptor and none for a closed one.
LEMMA NextSingle ==
  ASSUME None \notin Thread PROVE IInv /\ [Next]_vars => SingleHolder'
<1> SUFFICES ASSUME IInv, [Next]_vars PROVE SingleHolder'
  OBVIOUS
<1> USE DEF IInv, TypeOK, HoldersHold
<1>0. /\ \A fd \in opened : \E h \in Holders(fd) : Holders(fd) = {h}
      /\ \A fd \in FD \ opened : Holders(fd) = {}
  BY DEF SingleHolder
<1>1. CASE ClientArrives
  BY <1>1, <1>0, SameHolders DEF ClientArrives, SingleHolder
<1>2. CASE MainAccept
  <2>1. CASE UNCHANGED <<mpc, newsockfd, opened>>
    BY <1>2, <1>0, <2>1, SameHolders DEF MainAccept, SingleHolder
  <2>2. CASE mpc' = "died" /\ UNCHANGED <<newsockfd, opened>>
    <3>1. ASSUME NEW fd PROVE Holders(fd)' = Holders(fd)
      BY <1>2, <2>2 DEF MainAccept, Holders
    <3> QED
      BY <1>0, <2>2, <3>1 DEF SingleHolder
  <2>3. ASSUME NEW new \in FD \ opened, newsockfd' = new, opened' = opened \cup {new}, mpc' = "create"
        PROVE SingleHolder'
    <3>1. ASSUME NEW fd, fd # new PROVE Holders(fd)' = Holders(fd)
      BY <1>2, <2>3, <3>1 DEF MainAccept, Holders
    <3>2. Holders(new) = {}
      BY <1>0
    <3>3. Holders(new)' = {None}
      BY <1>2, <2>3, <3>2 DEF MainAccept, Holders
    <3> QED
      BY <1>0, <2>3, <3>1, <3>3 DEF SingleHolder
  <2> QED
    BY <1>2, <2>1, <2>2, <2>3 DEF MainAccept
<1>3. CASE CreateFails
  <2>1. newsockfd \in FD /\ None \in Holders(newsockfd)
    BY <1>3 DEF CreateFails, Holders
  <2>2. newsockfd \in opened /\ Holders(newsockfd) = {None}
    BY <1>0, <2>1
  <2>3. ASSUME NEW fd, fd # newsockfd PROVE Holders(fd)' = Holders(fd)
    BY <1>3, <2>3 DEF CreateFails, Holders
  <2>4. Holders(newsockfd)' = {}
    <3>1. \A t \in Thread : t \notin Holders(newsockfd)
      BY <2>2
    <3> QED
      BY <1>3, <3>1 DEF CreateFails, Holders
  <2> QED
    BY <1>0, <1>3, <2>2, <2>3, <2>4 DEF CreateFails, SingleHolder
<1>4. ASSUME NEW t \in Thread, CreateThread(t) PROVE SingleHolder'
  <2>1. PICK fd \in FD : fd = newsockfd
    BY <1>4 DEF CreateThread
  <2>2. fd \in opened /\ Holders(fd) = {None}
    <3>1. None \in Holders(fd)
      BY <1>4, <2>1 DEF CreateThread, Holders
    <3> QED
      BY <1>0, <3>1
  <2>3. \A u \in Thread : u \notin Holders(fd)
    BY <2>2
  <2>4. Holders(fd)' = {t}
    BY <1>4, <2>1, <2>3 DEF CreateThread, Holders
  <2>5. ASSUME NEW other, other # fd PROVE Holders(other)' = Holders(other)
    BY <1>4, <2>1, <2>5 DEF CreateThread, Holders
  <2> QED
    BY <1>0, <1>4, <2>2, <2>4, <2>5 DEF CreateThread, SingleHolder
<1>5. ASSUME NEW fd \in FD, ClientQuits(fd) PROVE SingleHolder'
  BY <1>5, <1>0, SameHolders DEF ClientQuits, SingleHolder
<1>6. ASSUME NEW t \in Thread, ThreadStarts(t) PROVE SingleHolder'
  <2>1. ASSUME NEW fd PROVE Holders(fd)' = Holders(fd)
    BY <1>6 DEF ThreadStarts, Holders
  <2> QED
    BY <1>0, <1>6, <2>1 DEF ThreadStarts, SingleHolder
<1>7. ASSUME NEW t \in Thread, ThreadServes(t) PROVE SingleHolder'
  <2>1. ASSUME NEW fd PROVE Holders(fd)' = Holders(fd)
    BY <1>7 DEF ThreadServes, Holders
  <2> QED
    BY <1>0, <1>7, <2>1 DEF ThreadServes, SingleHolder
<1>8. ASSUME NEW t \in Thread, ThreadCloses(t) PROVE SingleHolder'
  <2>1. sockfd[t] \in FD /\ t \in Holders(sockfd[t])
    BY <1>8 DEF ThreadCloses, Holders
  <2>2. sockfd[t] \in opened /\ Holders(sockfd[t]) = {t}
    BY <1>0, <2>1
  <2>3. ASSUME NEW fd, fd # sockfd[t] PROVE Holders(fd)' = Holders(fd)
    BY <1>8, <2>3 DEF ThreadCloses, Holders
  <2>4. Holders(sockfd[t])' = {}
    BY <1>8, <2>2 DEF ThreadCloses, Holders
  <2> QED
    BY <1>0, <1>8, <2>2, <2>3, <2>4 DEF ThreadCloses, SingleHolder
<1>9. CASE UNCHANGED vars
  BY <1>9, <1>0, SameHolders DEF vars, SingleHolder
<1> QED
  BY <1>1, <1>2, <1>3, <1>4, <1>5, <1>6, <1>7, <1>8, <1>9 DEF Next, MainStep, ThreadStep

\* However threads start and end and numbers are reused, every open descriptor is in the
\* hands of exactly one of main, a heap object or a thread, and a closed one of nobody.
THEOREM DescriptorsHaveOneHolder ==
  ASSUME None \notin Thread PROVE SafeSpec => []SingleHolder
<1>1. IInv /\ [Next]_vars => IInv'
  BY NextType, NextSingle DEF IInv
<1>2. IInv => SingleHolder
  BY DEF IInv
<1> QED
  BY InitIInv, <1>1, <1>2, PTL DEF SafeSpec

-----------------------------------------------------------------------------
(***************************************************************************)
(* serve_connection, as the sequential server calls it.                    *)
(***************************************************************************)

Phase == {"idle", "ack", "recv", "transform", "send", "observe", "done"}

ServeType ==
  /\ pc \in Phase /\ state \in {"wait", "in"}
  /\ recvbuf \in Seq(Octet) /\ stream \in Seq(Octet) /\ got \in Seq(Octet) /\ wire \in Seq(Octet)
  /\ i \in Nat /\ nsend \in Nat /\ sent \in Nat /\ requests \in Nat /\ observed \in Nat

\* What a client is owed for an input.
Due(s) == <<Star>> \o Echo(s)

\* The part of the input that the parser has looked at, and the reply it has made of the
\* last buffer and not sent yet.
looked == Len(got) - Len(recvbuf) + i
reply == SubSeq(recvbuf, sent + 1, nsend)

\* The inductive invariant: the counters are in order, the bytes not looked at are still
\* what recv put there, the parser knows whether it is inside a message, and what was
\* sent with what is still to be sent is what is due for the bytes looked at.
Counters ==
  /\ sent <= nsend /\ nsend <= i /\ i <= Len(recvbuf) /\ Len(recvbuf) <= Len(got)
  /\ pc \in {"recv", "send", "observe"} => i = Len(recvbuf)
  /\ pc \in {"recv", "observe"} => sent = nsend
  /\ pc = "transform" => sent = 0
  /\ pc \in {"ack", "recv"} => observed = requests
  /\ pc \in {"transform", "send", "observe"} => observed + 1 = requests

Unread ==
  pc = "transform" => \A k \in i + 1 .. Len(recvbuf) : recvbuf[k] = got[Len(got) - Len(recvbuf) + k]

Parsed == pc \notin {"idle", "done"} => (state = "in" <=> InMessage(Upto(got, looked)))

Replied ==
  /\ pc = "ack" => wire = <<>> /\ got = <<>> /\ recvbuf = <<>>
  /\ pc \in {"recv", "transform", "send", "observe"} => wire \o reply = Due(Upto(got, looked))
  /\ pc \in {"idle", "done"} => Prefix(wire, Due(got))

ServeInv == ServeType /\ Counters /\ Unread /\ Parsed /\ Replied

\* What is due is a sequence of bytes, and for a prefix it is a prefix.
LEMMA DueType ==
  ASSUME NEW s \in Seq(Octet)
  PROVE  <<Star>> \in Seq(Octet) /\ Echo(s) \in Seq(Octet) /\ Due(s) \in Seq(Octet)
<1>1. Star \in Octet
  BY DEF Star, Octet
<1>2. <<Star>> \in Seq(Octet) /\ Echo(s) \in Seq(Octet)
  BY <1>1, EchoType
<1> QED
  BY <1>2, ConcatProperties DEF Due

\* What is due for the beginning of the input comes first in what is due for all of it.
LEMMA DueMonotone ==
  ASSUME NEW s \in Seq(Octet), NEW n \in 0 .. Len(s)
  PROVE  Prefix(Due(Upto(s, n)), Due(s))
<1>1. Prefix(Echo(Upto(s, n)), Echo(s))
  BY LenProperties, EchoMonotone
<1>2. Upto(s, n) \in Seq(Octet)
  BY UptoType
<1> QED
  BY <1>1, <1>2, DueType, PrefixBehind, Zenon DEF Due

\* A byte more: due as EchoStep says.
LEMMA DueStep ==
  ASSUME NEW s \in Seq(Octet), NEW b \in Octet
  PROVE  Due(Append(s, b)) = IF InMessage(s) /\ b # Dollar THEN Append(Due(s), Inc(b)) ELSE Due(s)
<1>1. <<Star>> \in Seq(Octet) /\ Echo(s) \in Seq(Octet) /\ Inc(b) \in Octet
  BY DueType, IncType
<1>2. <<Star>> \o Append(Echo(s), Inc(b)) = Append(<<Star>> \o Echo(s), Inc(b))
  BY <1>1, ConcatAppend
<1> QED
  BY <1>2, EchoStep, Zenon DEF Due

\* How many bytes have been looked at.
LEMMA LookedType ==
  ASSUME ServeType, Counters
  PROVE  /\ looked \in 0 .. Len(got) /\ Len(recvbuf) \in Nat /\ Len(got) \in Nat
         /\ i = Len(recvbuf) => looked = Len(got) /\ Upto(got, looked) = got
         /\ Upto(got, looked) \in Seq(Octet)
<1>1. got \in Seq(Octet) /\ Len(recvbuf) \in Nat /\ Len(got) \in Nat /\ i \in Nat
  BY LenProperties DEF ServeType
<1>2. looked \in 0 .. Len(got) /\ (i = Len(recvbuf) => looked = Len(got))
  BY <1>1 DEF Counters, looked
<1> QED
  BY <1>1, <1>2, UptoAll, UptoType

\* The reply lies within the buffer.
LEMMA ReplyType ==
  ASSUME ServeType, Counters
  PROVE  /\ reply \in Seq(Octet) /\ Len(reply) = nsend - sent
         /\ \A j \in 1 .. nsend - sent : reply[j] = recvbuf[sent + j]
<1>1. Len(recvbuf) \in Nat /\ sent \in Nat /\ nsend \in Nat /\ i \in Nat /\ recvbuf \in Seq(Octet)
  BY LenProperties DEF ServeType
<1>2. sent <= nsend /\ nsend <= Len(recvbuf)
  BY <1>1 DEF Counters
<1> QED
  BY <1>1, <1>2, SliceType DEF reply

\* What was sent is always the beginning of what is due.
LEMMA WirePrefix == ServeInv => Prefix(wire, Due(got))
<1> SUFFICES ASSUME ServeInv PROVE Prefix(wire, Due(got))
  OBVIOUS
<1>1. ServeType /\ Counters
  BY DEF ServeInv
<1>2. got \in Seq(Octet) /\ wire \in Seq(Octet) /\ Due(got) \in Seq(Octet)
  BY DueType DEF ServeInv, ServeType
<1>3. CASE pc \in {"idle", "done"}
  BY <1>3 DEF ServeInv, Replied
<1>4. CASE pc = "ack"
  <2>1. wire = <<>> /\ Len(wire) = 0 /\ Len(Due(got)) \in Nat
    BY <1>2, <1>4, LenProperties DEF ServeInv, Replied
  <2> QED
    BY <2>1 DEF Prefix
<1>5. CASE pc \in {"recv", "transform", "send", "observe"}
  <2>1. wire \o reply = Due(Upto(got, looked)) /\ reply \in Seq(Octet)
    BY <1>1, <1>5, ReplyType DEF ServeInv, Replied
  <2>2. Prefix(wire, Due(Upto(got, looked)))
    BY <1>2, <2>1, PrefixConcat, Zenon
  <2>3. Prefix(Due(Upto(got, looked)), Due(got)) /\ Due(Upto(got, looked)) \in Seq(Octet)
    BY <1>1, <1>2, LookedType, DueMonotone, DueType
  <2> QED
    BY <1>2, <2>2, <2>3, PrefixTransitive
<1> QED
  BY <1>3, <1>4, <1>5 DEF ServeInv, ServeType, Phase

\* The invariant says what the properties say.
LEMMA ServeInvSays == ServeInv => InPlaceSafe /\ EchoExact
<1> SUFFICES ASSUME ServeInv PROVE InPlaceSafe /\ EchoExact
  OBVIOUS
<1>0. ServeType /\ Counters
  BY DEF ServeInv
<1>1. InPlaceSafe
  BY DEF ServeInv, Counters, Unread, InPlaceSafe
<1>2. got \in Seq(Octet) /\ wire \in Seq(Octet) /\ Due(got) \in Seq(Octet)
  BY DueType DEF ServeInv, ServeType
<1>3. ASSUME pc = "recv" PROVE wire = Due(got) /\ observed = requests
  <2>1. i = Len(recvbuf) /\ sent = nsend /\ observed = requests
    BY <1>3 DEF ServeInv, Counters
  <2>2. reply \in Seq(Octet) /\ Len(reply) = 0
    BY <1>0, <2>1, ReplyType DEF ServeType
  <2>3. reply = <<>>
    BY <2>2, EmptySeq
  <2>4. wire \o reply = Due(got)
    BY <1>0, <1>3, <2>1, LookedType DEF ServeInv, Replied
  <2> QED
    BY <1>2, <2>1, <2>3, <2>4, ConcatEmptySeq
<1>4. Prefix(wire, Due(got))
  BY WirePrefix
<1>5. wire = SubSeq(Due(got), 1, Len(wire)) /\ Len(wire) <= Len(Due(got))
  BY <1>2, <1>4, PrefixIsUpto DEF Prefix
<1> QED
  BY <1>1, <1>3, <1>5, Zenon DEF EchoExact, Due

\* Before the first connection nothing has been received or sent.
LEMMA ServeStarts == Idle => ServeInv
<1> SUFFICES ASSUME Idle PROVE ServeInv
  OBVIOUS
<1> USE DEF Idle
<1>1. <<>> \in Seq(Octet) /\ Len(<<>>) = 0 /\ 0 \in Nat
  BY EmptySeq
<1>2. ServeType /\ Counters /\ Unread
  BY <1>1 DEF ServeType, Counters, Unread, Phase
<1>3. Parsed
  BY DEF Parsed
<1>4. Replied
  <2>1. Due(<<>>) \in Seq(Octet) /\ Len(Due(<<>>)) \in Nat
    BY <1>1, DueType, LenProperties, Zenon
  <2>2. Prefix(<<>>, Due(<<>>))
    BY <1>1, <2>1 DEF Prefix
  <2> QED
    BY <2>2 DEF Replied
<1> QED
  BY <1>2, <1>3, <1>4 DEF ServeInv

\* Nor has anything when one is taken, whatever the last one left.
LEMMA EnterKeeps == Enter => ServeInv'
<1> SUFFICES ASSUME Enter PROVE ServeInv'
  OBVIOUS
<1> USE DEF Enter
<1>1. <<>> \in Seq(Octet) /\ Len(<<>>) = 0 /\ 0 \in Nat
  BY EmptySeq
<1>2. ServeType' /\ Counters' /\ Unread'
  BY <1>1 DEF ServeType, Counters, Unread, Phase
<1>3. Parsed'
  <2>1. Upto(<<>>, 0) = <<>>
    BY <1>1, UptoAll, Zenon
  <2>2. looked' = 0
    BY <1>1 DEF looked
  <2> QED
    BY <2>1, <2>2, OutsideFirst DEF Parsed
<1>4. Replied'
  BY DEF Replied
<1> QED
  BY <1>2, <1>3, <1>4 DEF ServeInv

\* What the client does touches its stream only.
LEMMA ClientsKeep == ServeInv /\ Clients => ServeInv'
<1> SUFFICES ASSUME ServeInv, Clients PROVE ServeInv'
  OBVIOUS
<1>1. UNCHANGED <<pc, local, got, wire, requests, observed>>
  BY DEF Clients, ClientSends, ClientLeaves
<1>2. stream' \in Seq(Octet)
  <2>1. stream \in Seq(Octet)
    BY DEF ServeInv, ServeType
  <2>2. ASSUME NEW b \in Byte, ClientSends(b) PROVE stream' \in Seq(Octet)
    <3>1. b \in Octet /\ stream' = Append(stream, b)
      BY <2>2, ByteAssumption DEF ClientSends
    <3> QED
      BY <2>1, <3>1, AppendProperties
  <2> QED
    BY <2>1, <2>2 DEF Clients, ClientLeaves
<1> QED
  BY <1>1, <1>2, Zenon DEF ServeInv, ServeType, Counters, Unread, Parsed, Replied, looked, reply, local

\* Nor does the end of a call change anything but where the thread is.
LEMMA EndKeeps ==
  ASSUME ServeInv, pc' \in {"done", "idle"}, stream' = stream,
         UNCHANGED <<local, got, wire, requests, observed>>
  PROVE  ServeInv'
<1>1. ServeType' /\ Counters' /\ Unread' /\ Parsed'
  BY DEF ServeInv, ServeType, Counters, Unread, Parsed, Phase, local
<1>2. Replied'
  BY WirePrefix DEF Replied
<1> QED
  BY <1>1, <1>2 DEF ServeInv

\* The acknowledgement is all that is due before any input.
LEMMA SendAckKeeps == ServeInv /\ SendAck => ServeInv'
<1> SUFFICES ASSUME ServeInv, SendAck PROVE ServeInv'
  OBVIOUS
<1> USE DEF SendAck, local
<1>1. wire = <<>> /\ got = <<>> /\ recvbuf = <<>> /\ Len(<<>>) = 0 /\ <<>> \in Seq(Octet)
  BY EmptySeq DEF ServeInv, Replied
<1>2. i = 0 /\ nsend = 0 /\ sent = 0
  BY <1>1 DEF ServeInv, Counters, ServeType
<1>3. wire' = <<Star>> /\ <<Star>> \in Seq(Octet)
  <2>1. wire' = Append(<<>>, Star) /\ <<Star>> \in Seq(Octet)
    BY <1>1, DueType, Zenon
  <2> QED
    BY <2>1
<1>4. ServeType' /\ Counters' /\ Unread'
  BY <1>1, <1>2, <1>3 DEF ServeInv, ServeType, Counters, Unread, Phase
<1>5. Parsed'
  BY DEF ServeInv, Parsed, looked
<1>6. Replied'
  <2>0. Upto(<<>>, 0) = <<>>
    BY <1>1, UptoAll, Zenon
  <2>1. looked' = 0 /\ Upto(<<>>, 0) = <<>>
    BY <1>1, <1>2, <2>0 DEF looked
  <2>2. reply' = <<>>
    BY <1>1, <1>2, SubSeqEmpty DEF reply
  <2>3. <<Star>> \o <<>> = Due(<<>>)
    BY EchoEmpty DEF Due
  <2> QED
    BY <1>1, <1>3, <2>1, <2>2, <2>3 DEF Replied
<1> QED
  BY <1>4, <1>5, <1>6 DEF ServeInv

\* The end of the transformation, and of the observation, moves no byte.
LEMMA MoveOnKeeps == ServeInv /\ (Transformed \/ Observe) => ServeInv'
<1> SUFFICES ASSUME ServeInv, Transformed \/ Observe PROVE ServeInv'
  OBVIOUS
<1>1. UNCHANGED <<local, stream, got, wire, requests>>
  BY DEF Transformed, Observe
<1>2. ServeType'
  BY <1>1 DEF Transformed, Observe, ServeInv, ServeType, Phase, local
<1>3. Counters'
  BY <1>1 DEF Transformed, Observe, ServeInv, ServeType, Counters, local
<1>4. Unread' /\ Parsed' /\ Replied'
  BY <1>1, Zenon DEF Transformed, Observe, ServeInv, Unread, Parsed, Replied, looked, reply, local
<1> QED
  BY <1>2, <1>3, <1>4 DEF ServeInv

\* A received buffer has not been looked at, and nothing is due for it yet.
LEMMA RecvSomeKeeps == ServeInv /\ RecvSome => ServeInv'
<1> SUFFICES ASSUME ServeInv, RecvSome PROVE ServeInv'
  OBVIOUS
<1>0. /\ ServeType /\ Counters /\ pc = "recv" /\ pc' = "transform" /\ i' = 0 /\ nsend' = 0 /\ sent' = 0
      /\ requests' = requests + 1 /\ UNCHANGED <<state, wire, observed>>
  BY DEF ServeInv, RecvSome
<1>1. /\ got \in Seq(Octet) /\ stream \in Seq(Octet) /\ wire \in Seq(Octet)
      /\ Len(got) \in Nat /\ Len(stream) \in Nat
  BY <1>0, LenProperties DEF ServeType
<1>2. PICK len \in 1 .. Len(stream) :
        /\ recvbuf' = SubSeq(stream, 1, len) /\ got' = got \o SubSeq(stream, 1, len)
        /\ stream' = SubSeq(stream, len + 1, Len(stream))
  BY DEF RecvSome
<1> DEFINE part == SubSeq(stream, 1, len)
<1>3. len \in Nat /\ len \in 0 .. Len(stream) /\ len > 0 /\ len <= Len(stream)
  BY <1>1, <1>2
<1>4. part \in Seq(Octet) /\ Len(part) = len
  BY <1>1, <1>3, UptoType DEF Upto
<1>5. stream' \in Seq(Octet)
  BY <1>1, <1>2, <1>3, UnsentType DEF Unsent
<1>6. recvbuf' = part /\ got' = got \o part
  BY <1>2
<1> HIDE DEF part
<1>7. /\ got' \in Seq(Octet) /\ Len(got') = Len(got) + len /\ recvbuf' \in Seq(Octet) /\ Len(recvbuf') = len
      /\ \A k \in 1 .. Len(got) + len : got'[k] = IF k <= Len(got) THEN got[k] ELSE part[k - Len(got)]
  BY <1>1, <1>4, <1>6, ConcatProperties, Zenon
<1>8. ServeType'
  BY <1>0, <1>5, <1>7 DEF ServeType, Phase
<1>9. observed + 1 = requests'
  BY <1>0 DEF Counters, ServeType
<1>10. Counters'
  BY <1>0, <1>1, <1>3, <1>7, <1>9 DEF Counters
<1>11. Unread'
  <2>1. ASSUME NEW k \in 1 .. len PROVE recvbuf'[k] = got'[Len(got) + k]
    <3>1. Len(got) + k \in 1 .. Len(got) + len /\ ~(Len(got) + k <= Len(got)) /\ Len(got) + k - Len(got) = k
      BY <1>1, <1>3
    <3> QED
      BY <1>6, <1>7, <3>1
  <2>2. Len(got') - Len(recvbuf') = Len(got)
    BY <1>1, <1>3, <1>7
  <2>3. i' + 1 = 1
    BY <1>0
  <2> QED
    BY <1>7, <2>1, <2>2, <2>3 DEF Unread
<1>12. looked' = Len(got) /\ Upto(got', looked') = got
  <2>1. looked' = Len(got)
    BY <1>0, <1>1, <1>3, <1>7 DEF looked
  <2> QED
    BY <1>1, <1>4, <1>6, <2>1, UptoConcat
<1>13. Upto(got, looked) = got /\ i = Len(recvbuf) /\ sent = nsend
  BY <1>0, LookedType DEF Counters
<1>14. Parsed'
  BY <1>0, <1>12, <1>13 DEF ServeInv, Parsed
<1>15. Replied'
  <2>1. reply \in Seq(Octet) /\ Len(reply) = 0
    BY <1>0, <1>13, ReplyType DEF ServeType
  <2>2. reply = <<>>
    BY <2>1, EmptySeq
  <2>3. wire \o <<>> = Due(got)
    BY <1>0, <1>13, <2>2 DEF ServeInv, Replied
  <2>4. reply' = <<>>
    BY <1>0, SubSeqEmpty DEF reply
  <2> QED
    BY <1>0, <1>12, <2>3, <2>4 DEF Replied
<1> QED
  BY <1>8, <1>10, <1>11, <1>14, <1>15 DEF ServeInv

\* A send moves bytes from the reply to the wire.
LEMMA SendKeeps == ServeInv /\ Send => ServeInv'
<1> SUFFICES ASSUME ServeInv, Send PROVE ServeInv'
  OBVIOUS
<1>0. /\ ServeType /\ Counters /\ pc = "send"
      /\ UNCHANGED <<state, recvbuf, i, nsend, stream, got, requests, observed>>
  BY DEF ServeInv, Send
<1>1. /\ recvbuf \in Seq(Octet) /\ wire \in Seq(Octet) /\ Len(recvbuf) \in Nat /\ sent \in Nat /\ nsend \in Nat
      /\ i \in Nat /\ sent <= nsend /\ nsend <= Len(recvbuf)
  BY <1>0, LenProperties DEF ServeType, Counters
<1>2. PICK n \in 1 .. nsend - sent :
        /\ sent' = sent + n /\ wire' = wire \o SubSeq(recvbuf, sent + 1, sent + n)
        /\ pc' = IF sent + n < nsend THEN pc ELSE "observe"
  BY Zenon DEF Send
<1>3. n \in Nat /\ n > 0 /\ sent + n <= nsend
  BY <1>1
<1> DEFINE part == SubSeq(recvbuf, sent + 1, sent + n)
<1>5. part \in Seq(Octet)
  BY <1>1, <1>3, SliceType
<1>6. wire' \in Seq(Octet) /\ wire' = wire \o part
  <2> HIDE DEF part
  <2>1. wire' = wire \o part
    BY <1>2 DEF part
  <2> QED
    BY <1>1, <1>5, <2>1, ConcatProperties
<1>7. ServeType'
  BY <1>0, <1>1, <1>2, <1>3, <1>6 DEF ServeType, Phase
<1>8. Counters'
  BY <1>0, <1>1, <1>2, <1>3 DEF Counters
<1>9. Unread' /\ Parsed'
  BY <1>0, <1>2 DEF ServeInv, Unread, Parsed, looked
<1>10. reply' = SubSeq(recvbuf, sent + n + 1, nsend)
  BY <1>0, <1>2 DEF reply
<1>11. reply' \in Seq(Octet)
  BY <1>1, <1>3, <1>10, SliceType
<1>12. part \o reply' = reply
  <2>1. sent + 1 \in Nat \ {0} /\ sent + n \in Nat /\ sent + n + 1 \in Nat /\ sent + 1 <= sent + n + 1
    BY <1>1, <1>3
  <2>2. SubSeq(recvbuf, sent + 1, sent + n) \o SubSeq(recvbuf, sent + n + 1, nsend) = SubSeq(recvbuf, sent + 1, nsend)
    BY <1>1, <1>3, <2>1, SliceConcat
  <2> QED
    BY <1>10, <2>2, Zenon DEF reply
<1>13. Replied'
  <2>1. wire \o reply = Due(Upto(got, looked))
    BY <1>0 DEF ServeInv, Replied
  <2>2. wire' \o reply' = wire \o reply
    <3> HIDE DEF part
    <3>1. (wire \o part) \o reply' = wire \o (part \o reply')
      BY <1>1, <1>5, <1>11, OutputAssociative
    <3> QED
      BY <1>6, <1>12, <3>1
  <2>3. looked' = looked /\ got' = got /\ pc' \in {"send", "observe"}
    BY <1>0, <1>2 DEF looked
  <2> QED
    BY <2>1, <2>2, <2>3 DEF Replied
<1> QED
  BY <1>7, <1>8, <1>9, <1>13 DEF ServeInv

\* One turn of the transformation looks at one byte more and, if it has an answer, puts
\* that behind the reply, in a place already looked at.
LEMMA TransformKeeps == ServeInv /\ Transform => ServeInv'
<1> SUFFICES ASSUME ServeInv, Transform PROVE ServeInv'
  OBVIOUS
<1>0. /\ ServeType /\ Counters /\ pc = "transform" /\ i < Len(recvbuf) /\ i' = i + 1
      /\ UNCHANGED <<pc, sent, stream, got, wire, requests, observed>>
  BY DEF ServeInv, Transform
<1>1. /\ recvbuf \in Seq(Octet) /\ got \in Seq(Octet) /\ wire \in Seq(Octet) /\ i \in Nat /\ nsend \in Nat
      /\ Len(recvbuf) \in Nat /\ Len(got) \in Nat /\ sent = 0 /\ nsend <= i /\ Len(recvbuf) <= Len(got)
  BY <1>0, LenProperties DEF ServeType, Counters
<1> DEFINE b == recvbuf[i + 1]
           seen == Upto(got, looked)
           payload == state = "in" /\ b # Dollar
<1>2. b \in Octet /\ b = got[looked + 1]
  <2>1. i + 1 \in 1 .. Len(recvbuf) /\ i + 1 \in i + 1 .. Len(recvbuf)
    BY <1>0, <1>1
  <2>2. recvbuf[i + 1] = got[Len(got) - Len(recvbuf) + (i + 1)]
    BY <1>0, <2>1 DEF ServeInv, Unread
  <2>3. Len(got) - Len(recvbuf) + (i + 1) = looked + 1
    BY <1>1 DEF looked
  <2> QED
    BY <1>1, <2>1, <2>2, <2>3, ElementOfSeq
<1>3. /\ recvbuf' = IF payload THEN [recvbuf EXCEPT ![nsend + 1] = Inc(b)] ELSE recvbuf
      /\ nsend' = IF payload THEN nsend + 1 ELSE nsend
      /\ state' = IF state = "wait" /\ b = Hat THEN "in" ELSE IF state = "in" /\ b = Dollar THEN "wait" ELSE state
  BY <1>0 DEF Transform, ServeType
<1> HIDE DEF b
<1>4. /\ recvbuf' \in Seq(Octet) /\ Len(recvbuf') = Len(recvbuf)
      /\ \A j \in 1 .. Len(recvbuf) : recvbuf'[j] = IF payload /\ j = nsend + 1 THEN Inc(b) ELSE recvbuf[j]
  <2>1. nsend + 1 \in 1 .. Len(recvbuf) /\ Inc(b) \in Octet
    BY <1>0, <1>1, <1>2, IncType
  <2> DEFINE new == [recvbuf EXCEPT ![nsend + 1] = Inc(b)]
  <2>2. /\ new \in Seq(Octet) /\ Len(new) = Len(recvbuf)
        /\ \A j \in 1 .. Len(recvbuf) : new[j] = IF j = nsend + 1 THEN Inc(b) ELSE recvbuf[j]
    BY <1>1, <2>1, ExceptSeq
  <2>3. recvbuf' = IF payload THEN new ELSE recvbuf
    BY <1>3
  <2> HIDE DEF new
  <2>4. CASE payload
    BY <2>2, <2>3, <2>4
  <2>5. CASE ~payload
    BY <1>1, <2>3, <2>5
  <2> QED
    BY <2>4, <2>5
<1>5. ServeType'
  BY <1>0, <1>1, <1>3, <1>4 DEF ServeType
<1>6. Counters'
  BY <1>0, <1>1, <1>3, <1>4 DEF Counters
<1>7. Unread'
  <2>1. ASSUME NEW j \in i + 2 .. Len(recvbuf) PROVE recvbuf'[j] = got[Len(got) - Len(recvbuf) + j]
    <3>1. j \in i + 1 .. Len(recvbuf) /\ j \in 1 .. Len(recvbuf) /\ j # nsend + 1
      BY <1>0, <1>1
    <3> QED
      BY <1>0, <1>4, <3>1 DEF ServeInv, Unread
  <2>2. i' + 1 = i + 2 /\ got' = got
    BY <1>0, <1>1
  <2> QED
    BY <1>4, <2>1, <2>2 DEF Unread
<1>8. looked \in Nat /\ looked < Len(got) /\ looked' = looked + 1 /\ looked \in 0 .. Len(got)
  BY <1>0, <1>1, <1>4 DEF looked
<1>9. seen \in Seq(Octet) /\ Upto(got', looked') = Append(seen, b)
  BY <1>0, <1>1, <1>2, <1>8, UptoType, UptoStep, Zenon
<1>10. state = "in" <=> InMessage(seen)
  BY <1>0 DEF ServeInv, Parsed
<1> HIDE DEF seen
<1>11. Parsed'
  <2>1. InMessage(Append(seen, b)) <=> b = Hat \/ (InMessage(seen) /\ b # Dollar)
    BY <1>2, <1>9, InMessageStep
  <2>2. state \in {"wait", "in"} /\ Hat # Dollar
    BY <1>0 DEF ServeType, Hat, Dollar
  <2>3. state' = "in" <=> InMessage(Append(seen, b))
    BY <1>3, <1>10, <2>1, <2>2
  <2> QED
    BY <1>9, <2>3 DEF Parsed
<1>12. wire \o reply = Due(seen) /\ Due(Append(seen, b)) = IF payload THEN Append(Due(seen), Inc(b)) ELSE Due(seen)
  <2>1. wire \o reply = Due(seen)
    BY <1>0 DEF ServeInv, Replied, seen
  <2> QED
    BY <1>2, <1>9, <1>10, <2>1, DueStep, Zenon
<1>13. /\ reply \in Seq(Octet) /\ Len(reply) = nsend /\ \A j \in 1 .. nsend : reply[j] = recvbuf[j]
  BY <1>0, <1>1, ReplyType
<1>14. wire \o reply' = Due(Append(seen, b))
  <2>1. CASE payload
    <3>1. nsend + 1 \in 1 .. Len(recvbuf) /\ nsend' = nsend + 1 /\ nsend < Len(recvbuf)
      BY <1>0, <1>1, <1>3, <2>1
    <3>2. reply' = Upto(recvbuf', nsend + 1)
      <4>1. sent' + 1 = 1
        BY <1>0, <1>1
      <4> QED
        BY <3>1, <4>1 DEF reply, Upto
    <3>3. PICK new \in Seq(Octet) : new = recvbuf'
      BY <1>4
    <3>4. Upto(new, nsend + 1) = Append(Upto(new, nsend), new[nsend + 1]) /\ new[nsend + 1] = Inc(b)
      BY <1>1, <1>4, <2>1, <3>1, <3>3, UptoStep
    <3>5. Upto(new, nsend) = reply
      <4>0. nsend \in 0 .. Len(new)
        BY <1>1, <1>4, <3>1, <3>3
      <4>1. /\ Upto(new, nsend) \in Seq(Octet) /\ Len(Upto(new, nsend)) = nsend
            /\ \A j \in 1 .. nsend : Upto(new, nsend)[j] = new[j]
        BY <4>0, UptoType
      <4>2. \A j \in 1 .. nsend : j \in 1 .. Len(recvbuf) /\ j # nsend + 1
        BY <1>1, <3>1
      <4>3. \A j \in 1 .. nsend : new[j] = reply[j]
        BY <1>4, <1>13, <3>3, <4>2
      <4> QED
        BY <1>13, <4>1, <4>3, SameBytes
    <3>6. reply' = Append(reply, Inc(b)) /\ Inc(b) \in Octet
      BY <1>2, <3>2, <3>3, <3>4, <3>5, IncType
    <3>7. wire \o Append(reply, Inc(b)) = Append(wire \o reply, Inc(b))
      BY <1>1, <1>13, <3>6, ConcatAppend
    <3> QED
      BY <1>12, <2>1, <3>6, <3>7
  <2>2. CASE ~payload
    <3>1. reply' = reply
      BY <1>0, <1>3, <2>2, Zenon DEF reply
    <3> QED
      BY <1>12, <2>2, <3>1
  <2> QED
    BY <2>1, <2>2
<1>15. Replied'
  BY <1>0, <1>9, <1>14 DEF Replied
<1> QED
  BY <1>5, <1>6, <1>7, <1>11, <1>15 DEF ServeInv

\* What the sequential server can do to a connection.
LEMMA SequentialSteps ==
  [Sequential!Next]_(Sequential!vars) =>
     UNCHANGED serving \/ Serve \/ Sequential!Close \/ Enter \/ Clients
<1>1. Sequential!Serve => Serve
  <2> USE DEF Sequential!local, local
  <2>1. Sequential!Fail => Fail
    BY DEF Sequential!Fail, Fail
  <2>2. Sequential!SendAck => SendAck
    BY DEF Sequential!SendAck, SendAck, Sequential!Star, Star
  <2>3. Sequential!RecvSome => RecvSome
    BY DEF Sequential!RecvSome, RecvSome
  <2>4. Sequential!RecvEof => RecvEof
    BY DEF Sequential!RecvEof, RecvEof
  <2>5. Sequential!Transform => Transform
    BY DEF Sequential!Transform, Transform, Sequential!Hat, Hat, Sequential!Dollar, Dollar,
      Sequential!Inc, Inc
  <2>6. Sequential!Transformed => Transformed
    BY DEF Sequential!Transformed, Transformed
  <2>7. Sequential!Send => Send
    BY Zenon DEF Sequential!Send, Send
  <2>8. Sequential!Observe => Observe
    BY DEF Sequential!Observe, Observe
  <2> QED
    BY <2>1, <2>2, <2>3, <2>4, <2>5, <2>6, <2>7, <2>8 DEF Sequential!Serve, Serve
<1>2. Sequential!Clients => Clients
  BY DEF Sequential!Clients, Clients, Sequential!ClientSends, ClientSends, Sequential!ClientLeaves,
    ClientLeaves,
         Sequential!local, local
<1>3. Sequential!Enter => Enter
  BY DEF Sequential!Enter, Enter
<1>4. UNCHANGED Sequential!serving => UNCHANGED serving
  BY DEF Sequential!serving, serving, Sequential!local, local
<1> QED
  BY <1>1, <1>2, <1>3, <1>4
     DEF Sequential!Next, Sequential!Main, Sequential!ClientConnects, Sequential!AcceptConn,
         Sequential!AcceptAborted, Sequential!vars

\* Every step of the sequential server keeps the invariant.
LEMMA SequentialNext == ServeInv /\ [Sequential!Next]_(Sequential!vars) => ServeInv'
<1> SUFFICES ASSUME ServeInv, [Sequential!Next]_(Sequential!vars) PROVE ServeInv'
  OBVIOUS
<1>1. ASSUME UNCHANGED serving PROVE ServeInv'
  BY <1>1, Zenon DEF serving, ServeInv, ServeType, Counters, Unread, Parsed, Replied, looked, reply, local
<1>2. CASE Serve
  BY <1>2, EndKeeps, SendAckKeeps, RecvSomeKeeps, TransformKeeps, MoveOnKeeps, SendKeeps DEF Serve,
    Fail, RecvEof
<1>3. CASE Sequential!Close
  BY <1>3, EndKeeps DEF Sequential!Close, local, Sequential!local
<1>4. CASE Enter \/ Clients
  BY <1>4, EnterKeeps, ClientsKeep
<1> QED
  BY <1>1, <1>2, <1>3, <1>4, SequentialSteps

\* Every call of serve_connection transforms in place without overtaking itself, for
\* every buffer size, input and cut into buffers.
THEOREM InPlaceIsSafe == Sequential!SafeSpec => []InPlaceSafe
<1>1. Sequential!Init => ServeInv
  BY ServeStarts DEF Sequential!Init, Sequential!Idle, Idle
<1> QED
  BY <1>1, SequentialNext, ServeInvSays, PTL DEF Sequential!SafeSpec

\* What a client of serve_connection has been sent is at any time the beginning of what
\* it is owed, and all of it whenever the thread waits for input again; each buffer is
\* observed once.
THEOREM ConnectionEchoExact == Sequential!SafeSpec => []EchoExact
<1>1. Sequential!Init => ServeInv
  BY ServeStarts DEF Sequential!Init, Sequential!Idle, Idle
<1> QED
  BY <1>1, SequentialNext, ServeInvSays, PTL DEF Sequential!SafeSpec

=============================================================================
