------------------------------- MODULE Framing -------------------------------
(***************************************************************************)
(* The framing every server speaks, as a function of the whole input: a    *)
(* message runs from '^' to '$', and each byte inside one is answered with *)
(* its successor.  Reference definition, independent of how the input is   *)
(* cut into reads.                                                         *)
(***************************************************************************)
EXTENDS Naturals, Sequences, FiniteSets

Hat == 94      \* '^'
Dollar == 36   \* '$'
Star == 42     \* '*', the acknowledgement

Octet == 0 .. 255

\* uint8_t arithmetic: data[i] + 1 wraps.
Inc(b) == (b + 1) % 256

\* Byte i of s lies inside a message: an earlier '^' has no '$' after it.
Inside(s, i) ==
  \E j \in 1 .. i - 1 : s[j] = Hat /\ \A k \in j + 1 .. i - 1 : s[k] # Dollar

Payload(s) == {i \in 1 .. Len(s) : Inside(s, i) /\ s[i] # Dollar}

\* The n-th smallest of a set of positions.
Nth(P, n) == CHOOSE i \in P : Cardinality({j \in P : j <= i}) = n

Echo(s) == [n \in 1 .. Cardinality(Payload(s)) |-> Inc(s[Nth(Payload(s), n)])]

=============================================================================
