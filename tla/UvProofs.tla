------------------------------ MODULE UvProofs ------------------------------
(***************************************************************************)
(* The two libuv servers, for every number of clients: uv_isprime_server.c *)
(* answers a client that waits rightly and never uses a peer state that    *)
(* was freed, and uv_server.c echoes exactly while its clients read.       *)
(***************************************************************************)
EXTENDS MCUv, DataLemmas

-----------------------------------------------------------------------------
(***************************************************************************)
(* isprime() of uv_isprime_server.c.                                       *)
(***************************************************************************)

\* A nonempty set of naturals has its least element as Min.
LEMMA MinIsLeast ==
  ASSUME NEW T, T \subseteq Nat, T # {}
  PROVE  Isprime!Min(T) \in T /\ \A y \in T : Isprime!Min(T) <= y
  BY LeastNat, Zenon DEF Isprime!Min

\* Up to Half - 1, squares do not wrap.
LEMMA NoWrap ==
  ASSUME NEW r \in Nat, r <= Half - 1
  PROVE  Isprime!wrap(r * r) = r * r
<1> DEFINE a == r * r
           b == Half * Half
<1>1. r < Half /\ Half \in Nat
  BY HalfAssumption
<1>2. a \in Nat /\ b \in Nat /\ a < b
  BY <1>1
<1> HIDE DEF a, b
<1>3. a % b = a
  BY <1>2, Small, Zenon
<1> QED
  BY <1>3, Zenon DEF a, b, Isprime!wrap

\* The trial divisors at which the loop of isprime() may end for an odd n, and the first.
Ends(n) == {r \in 3 .. n + 2 : r % 2 = 1 /\ (Isprime!wrap(r * r) > n \/ n % r = 0)}
LastTried(n) == Isprime!Min(Ends(n))

\* The loop ends, before a square wraps.
LEMMA LoopEnds ==
  ASSUME NEW n \in Nat, n >= 3, n % 2 = 1, n < (Half - 1) * (Half - 1)
  PROVE  /\ LastTried(n) \in Ends(n) /\ \A y \in Ends(n) : LastTried(n) <= y
         /\ Isprime!wrap(LastTried(n) * LastTried(n)) = LastTried(n) * LastTried(n)
<1> DEFINE D == Ends(n)
           H == Half - 1
<1>1. n \in D
  <2>1. n % n = 0
    OBVIOUS
  <2> QED
    BY <2>1 DEF Ends
<1>2. D \subseteq Nat
  BY DEF Ends
<1> HIDE DEF D
<1>3. Isprime!Min(D) \in D /\ \A y \in D : Isprime!Min(D) <= y
  BY <1>1, <1>2, MinIsLeast, Zenon
<1>4. H \in Nat /\ H >= 3 /\ H % 2 = 1
  BY HalfAssumption
<1>5. Isprime!wrap(H * H) = H * H
  BY <1>4, NoWrap
<1>6. H <= n + 2 => H \in D
  <2> HIDE DEF H
  <2>1. H * H > n
    <3> DEFINE b == H * H
    <3>1. b \in Nat /\ n < b
      BY <1>4 DEF H
    <3> QED
      BY <3>1, Zenon
  <2> QED
    BY <1>4, <1>5, <2>1 DEF D, Ends
<1>7. LastTried(n) <= H /\ LastTried(n) \in Nat
  <2>1. LastTried(n) \in 3 .. n + 2
    BY <1>3, Zenon DEF D, Ends, LastTried
  <2>2. LastTried(n) = Isprime!Min(D)
    BY Zenon DEF LastTried, D
  <2> HIDE DEF H
  <2> QED
    BY <1>3, <1>4, <1>6, <2>1, <2>2
<1> QED
  BY <1>3, <1>7, NoWrap, Zenon DEF D, LastTried

\* A factor of an odd n, and its cofactor: the smaller is a trial divisor.
LEMMA TrialDivisor ==
  ASSUME NEW n \in Nat, n % 2 = 1, NEW d \in 2 .. n - 1, n % d = 0
  PROVE  \E e, f \in Nat : n = e * f /\ e <= f /\ e % 2 = 1 /\ n % e = 0 /\ e >= 3
<1> DEFINE q == n \div d
<1>1. q \in Nat /\ n = d * q /\ d \in Nat /\ d >= 2
  BY DivMod
<1> HIDE DEF q
<1>2. q >= 2
  <2>1. q # 0 /\ q # 1
    BY <1>1
  <2> QED
    BY <1>1, <2>1
<1>3. n = q * d
  BY <1>1
<1>4. d % 2 = 1 /\ q % 2 = 1
  BY <1>1, <1>3, OddFactor, Zenon
<1>5. n % q = 0
  <2>1. ((q * d) + 0) % q = 0
    BY <1>1, <1>2, ModUnique
  <2>2. q * d \in Nat /\ q * d = (q * d) + 0
    BY <1>1
  <2> QED
    BY <1>3, <2>1, <2>2, Zenon
<1>6. d >= 3 /\ q >= 3
  BY <1>1, <1>2, <1>4
<1>7. CASE d <= q
  BY <1>1, <1>4, <1>6, <1>7, Zenon
<1>8. CASE q <= d
  BY <1>1, <1>3, <1>4, <1>5, <1>6, <1>8, Zenon
<1> QED
  BY <1>1, <1>7, <1>8

\* isprime() is right for every number but 1 whose trial divisors do not wrap.
THEOREM TrialDivisionIsRight ==
  ASSUME NEW n \in Nat, Isprime!Sure(n)
  PROVE  Isprime!isprime(n) <=> Isprime!IsPrime(n)
<1>1. CASE n % 2 = 0
  <2>1. Isprime!isprime(n) <=> n = 2
    BY <1>1, Zenon DEF Isprime!isprime
  <2>2. n = 2 => Isprime!IsPrime(n)
    BY DEF Isprime!IsPrime
  <2>3. n # 2 /\ n > 1 => 2 \in 2 .. n - 1
    OBVIOUS
  <2> QED
    BY <1>1, <2>1, <2>2, <2>3, Zenon DEF Isprime!IsPrime
<1>2. CASE n % 2 # 0
  <2>1. n % 2 = 1 /\ n # 1
    BY <1>2 DEF Isprime!Sure
  <2>2. n >= 3 /\ n < (Half - 1) * (Half - 1)
    <3>1. n >= 3
      BY <2>1
    <3> QED
      BY <3>1, Zenon DEF Isprime!Sure
  <2> DEFINE l == LastTried(n)
  <2>3. l \in Ends(n) /\ (\A y \in Ends(n) : l <= y) /\ Isprime!wrap(l * l) = l * l
    BY <2>1, <2>2, LoopEnds, Zenon
  <2>4. Isprime!isprime(n) <=> l * l > n
    BY <1>2, <2>3, Zenon DEF Isprime!isprime, LastTried, Ends
  <2> HIDE DEF l
  <2>5. l \in Nat /\ l >= 3
    BY <2>3 DEF Ends
  <2>6. ASSUME l * l > n PROVE Isprime!IsPrime(n)
    <3> SUFFICES ASSUME NEW d \in 2 .. n - 1, n % d = 0 PROVE FALSE
      BY <2>2 DEF Isprime!IsPrime
    <3>1. PICK e, f \in Nat : n = e * f /\ e <= f /\ e % 2 = 1 /\ n % e = 0 /\ e >= 3
      BY <2>1, TrialDivisor, Zenon
    <3>2. e * f < l * l
      BY <2>6, <3>1, <2>5, Zenon
    <3>3. e < l
      BY <3>1, <3>2, <2>5, SmallFactor, Zenon
    <3>4. e <= n
      BY <3>1
    <3>5. e \in Ends(n)
      BY <3>1, <3>4 DEF Ends
    <3> QED
      BY <2>3, <2>5, <3>1, <3>3, <3>5
  <2>7. ASSUME ~(l * l > n) PROVE ~Isprime!IsPrime(n)
    <3>1. n % l = 0
      BY <2>3, <2>7, Zenon DEF Ends
    <3>2. l < n
      <4> DEFINE a == l * l
      <4>1. a >= 3 * l /\ a \in Nat /\ a <= n
        BY <2>5, <2>7
      <4> HIDE DEF a
      <4> QED
        BY <4>1, <2>5
    <3>3. l \in 2 .. n - 1
      BY <2>5, <3>2
    <3> QED
      BY <3>1, <3>3, Zenon DEF Isprime!IsPrime
  <2> QED
    BY <2>4, <2>6, <2>7, Zenon
<1> QED
  BY <1>1, <1>2, Zenon

-----------------------------------------------------------------------------
(***************************************************************************)
(* The parsing of a request.                                               *)
(***************************************************************************)

Request10 == Seq(0 .. 9 \cup {NotDigit})

\* The leading digits are digits.
LEMMA DigitsType ==
  ASSUME NEW r \in Request10
  PROVE  Isprime!Digits(r) \in Seq(0 .. 9)
<1> DEFINE ends == {k \in DOMAIN r : r[k] = NotDigit}
<1>1. ends \subseteq Nat /\ ends \subseteq 1 .. Len(r)
  BY DEF Request10
<1>2. \A k \in 1 .. Len(r) : k \notin ends => r[k] \in 0 .. 9
  BY DEF Request10
<1>3. Isprime!Digits(r) = IF ends = {} THEN r ELSE SubSeq(r, 1, Isprime!Min(ends) - 1)
  BY Zenon DEF Isprime!Digits
<1>4. CASE ends = {}
  BY <1>2, <1>3, <1>4 DEF Request10
<1>5. CASE ends # {}
  <2>1. Isprime!Min(ends) \in ends /\ \A y \in ends : Isprime!Min(ends) <= y
    BY <1>1, <1>5, MinIsLeast, Zenon
  <2> DEFINE e == Isprime!Min(ends)
             m == e - 1
  <2> HIDE DEF ends, e
  <2>7. e \in ends /\ \A y \in ends : e <= y
    BY <2>1, Zenon DEF e
  <2>8. Len(r) \in Nat
    BY DEF Request10
  <2>2. /\ e \in 1 .. Len(r) /\ e \in Nat /\ Len(r) \in Nat
        /\ \A y \in ends : y \in Nat /\ e <= y
    BY <1>1, <2>7, <2>8, Zenon
  <2>5. m \in 0 .. Len(r) /\ m < e
    BY <2>2
  <2>6. \A k \in 1 .. m : k \notin ends
    BY <2>2, <2>5
  <2> HIDE DEF m
  <2>3. \A k \in 1 .. m : r[k] \in 0 .. 9
    BY <1>2, <2>2, <2>5, <2>6 DEF Request10
  <2>4. SubSeq(r, 1, m) \in Seq(0 .. 9)
    BY <2>5, <2>3 DEF Request10
  <2> QED
    BY <1>3, <1>5, <2>4, Zenon DEF m, e
<1> QED
  BY <1>4, <1>5, Zenon

\* The number read, and the number meant, of the first i digits.
MeantBody(s, iter) ==
  [t \in SUBSET DOMAIN s |-> IF t = {} THEN 0 ELSE iter[t \ {Max(t)}] * 10 + s[Max(t)]]
ReadBody(s, iter) ==
  [t \in SUBSET DOMAIN s |-> IF t = {} THEN 0 ELSE Isprime!wrap(iter[t \ {Max(t)}] * 10 + s[Max(t)])]
Meant(s) == CHOOSE iter : iter = MeantBody(s, iter)
Read(s) == CHOOSE iter : iter = ReadBody(s, iter)

\* They are what the folds compute.
LEMMA FoldsUnfold ==
  ASSUME NEW r
  PROVE  LET s == Isprime!Digits(r)
         IN Isprime!Value(r) = Meant(s)[DOMAIN s] /\ Isprime!Parse(r) = Read(s)[DOMAIN s]
<1>1. Isprime!Value(r) = Meant(Isprime!Digits(r))[DOMAIN Isprime!Digits(r)]
  BY Zenon DEF Isprime!Value, Isprime!LeftToRight, Isprime!MapThenFoldSet, Isprime!Max, Max, Meant,
    MeantBody
<1>2. Isprime!Parse(r) = Read(Isprime!Digits(r))[DOMAIN Isprime!Digits(r)]
  BY Zenon DEF Isprime!Parse, Isprime!LeftToRight, Isprime!MapThenFoldSet, Isprime!Max, Max, Read,
    ReadBody
<1> QED
  BY <1>1, <1>2, Zenon

\* Both folds are well defined; each digit adds a decimal place.
LEMMA MeantSteps ==
  ASSUME NEW s \in Seq(0 .. 9)
  PROVE  /\ Meant(s)[{}] = 0
         /\ \A i \in Nat : i < Len(s) => Meant(s)[UpTo(i + 1)] = Meant(s)[UpTo(i)] * 10 + s[i + 1]
<1> DEFINE n == Len(s)
           step == [x \in 1 .. n |-> [a \in Nat |-> a * 10 + s[x]]]
<1>1. n \in Nat /\ DOMAIN s = 1 .. n /\ \A x \in 1 .. n : s[x] \in Nat
  OBVIOUS
<1> HIDE DEF n
<1>2. Steps(step, 1 .. n, Nat)
  BY <1>1 DEF Steps
<1>3. \A x \in 1 .. n, a \in Nat : step[x][a] = a * 10 + s[x]
  BY Zenon
<1> HIDE DEF step
<1>4. PICK g \in [SUBSET (1 .. n) -> Nat] : LeftFold(g, n, 0, step)
  BY <1>1, <1>2, FoldLeftExists, Zenon
<1>5. ASSUME NEW t \in SUBSET (1 .. n)
      PROVE  g[t] = IF t = {} THEN 0 ELSE g[t \ {Max(t)}] * 10 + s[Max(t)]
  <2>1. g[t] = IF t = {} THEN 0 ELSE step[Max(t)][g[t \ {Max(t)}]]
    BY <1>4, Zenon DEF LeftFold
  <2>2. t # {} => Max(t) \in 1 .. n /\ g[t \ {Max(t)}] \in Nat
    BY <1>1, MaxIsLargest, Zenon
  <2> QED
    BY <1>3, <2>1, <2>2, Zenon
<1>6. g = MeantBody(s, g)
  BY <1>1, <1>4, <1>5, Zenon DEF MeantBody
<1> DEFINE p == Meant(s)
<1>7. p = MeantBody(s, p)
  BY <1>6, Zenon DEF Meant
<1> HIDE DEF p
<1>8. p[{}] = 0
  BY <1>1, <1>7, Zenon DEF MeantBody
<1>9. ASSUME NEW i \in Nat, i < n PROVE p[UpTo(i + 1)] = p[UpTo(i)] * 10 + s[i + 1]
  <2> DEFINE t == UpTo(i + 1)
  <2>1. Max(t) = i + 1 /\ t \ {i + 1} = UpTo(i) /\ t # {} /\ t \in SUBSET (1 .. n)
    BY <1>1, <1>9, MaxUpTo, Zenon
  <2>3. p[t] = p[t \ {Max(t)}] * 10 + s[Max(t)]
    BY <1>1, <1>7, <2>1, Zenon DEF MeantBody
  <2> QED
    BY <2>1, <2>3, Zenon
<1> QED
  BY <1>8, <1>9, Zenon DEF p, n

LEMMA ReadSteps ==
  ASSUME NEW s \in Seq(0 .. 9)
  PROVE  /\ Read(s)[{}] = 0
         /\ \A i \in Nat : i < Len(s) =>
              Read(s)[UpTo(i + 1)] = Isprime!wrap(Read(s)[UpTo(i)] * 10 + s[i + 1])
<1> DEFINE n == Len(s)
           step == [x \in 1 .. n |-> [a \in Nat |-> Isprime!wrap(a * 10 + s[x])]]
<1>1. n \in Nat /\ DOMAIN s = 1 .. n /\ \A x \in 1 .. n : s[x] \in Nat
  OBVIOUS
<1> HIDE DEF n
<1>2. Steps(step, 1 .. n, Nat)
  <2> DEFINE w == Half * Half
  <2>1. w \in Nat /\ w > 0
    BY HalfAssumption
  <2> HIDE DEF w
  <2>2. ASSUME NEW x \in 1 .. n, NEW a \in Nat PROVE (a * 10 + s[x]) % w \in Nat
    <3>1. a * 10 + s[x] \in Nat
      BY <1>1
    <3> QED
      BY <2>1, <3>1, DivMod, Zenon
  <2> QED
    BY <2>2, Zenon DEF Steps, Isprime!wrap, w
<1>3. \A x \in 1 .. n, a \in Nat : step[x][a] = Isprime!wrap(a * 10 + s[x])
  BY Zenon
<1> HIDE DEF step
<1>4. PICK g \in [SUBSET (1 .. n) -> Nat] : LeftFold(g, n, 0, step)
  BY <1>1, <1>2, FoldLeftExists, Zenon
<1>5. ASSUME NEW t \in SUBSET (1 .. n)
      PROVE  g[t] = IF t = {} THEN 0 ELSE Isprime!wrap(g[t \ {Max(t)}] * 10 + s[Max(t)])
  <2>1. g[t] = IF t = {} THEN 0 ELSE step[Max(t)][g[t \ {Max(t)}]]
    BY <1>4, Zenon DEF LeftFold
  <2>2. t # {} => Max(t) \in 1 .. n /\ g[t \ {Max(t)}] \in Nat
    BY <1>1, MaxIsLargest, Zenon
  <2> QED
    BY <1>3, <2>1, <2>2, Zenon
<1>6. g = ReadBody(s, g)
  BY <1>1, <1>4, <1>5, Zenon DEF ReadBody
<1> DEFINE p == Read(s)
<1>7. p = ReadBody(s, p)
  BY <1>6, Zenon DEF Read
<1> HIDE DEF p
<1>8. p[{}] = 0
  BY <1>1, <1>7, Zenon DEF ReadBody
<1>9. ASSUME NEW i \in Nat, i < n PROVE p[UpTo(i + 1)] = Isprime!wrap(p[UpTo(i)] * 10 + s[i + 1])
  <2> DEFINE t == UpTo(i + 1)
  <2>1. Max(t) = i + 1 /\ t \ {i + 1} = UpTo(i) /\ t # {} /\ t \in SUBSET (1 .. n)
    BY <1>1, <1>9, MaxUpTo, Zenon
  <2>3. p[t] = Isprime!wrap(p[t \ {Max(t)}] * 10 + s[Max(t)])
    BY <1>1, <1>7, <2>1, Zenon DEF ReadBody
  <2> QED
    BY <2>1, <2>3, Zenon
<1> QED
  BY <1>8, <1>9, Zenon DEF p, n

\* What on_peer_read reads is the number that is meant, modulo the width of uint64_t.
LEMMA ParseWraps ==
  ASSUME NEW r \in Request10
  PROVE  Isprime!Value(r) \in Nat /\ Isprime!Parse(r) = Isprime!wrap(Isprime!Value(r))
<1> DEFINE s == Isprime!Digits(r)
           n == Len(s)
           w == Half * Half
           m == Meant(s)
           p == Read(s)
           I == {i \in Nat : i <= n => m[UpTo(i)] \in Nat /\ p[UpTo(i)] = m[UpTo(i)] % w}
<1>1. s \in Seq(0 .. 9) /\ n \in Nat /\ DOMAIN s = 1 .. n /\ \A x \in 1 .. n : s[x] \in Nat
  BY DigitsType
<1>2. w \in Nat /\ w > 0
  BY HalfAssumption
<1> HIDE DEF s
<1>3. m[{}] = 0 /\ \A i \in Nat : i < n => m[UpTo(i + 1)] = m[UpTo(i)] * 10 + s[i + 1]
  BY <1>1, MeantSteps, Zenon
<1>4. p[{}] = 0 /\ \A i \in Nat : i < n => p[UpTo(i + 1)] = (p[UpTo(i)] * 10 + s[i + 1]) % w
  BY <1>1, ReadSteps, Zenon DEF Isprime!wrap
<1> HIDE DEF n, m, p, w
<1>5. 0 \in I
  <2>1. UpTo(0) = {} /\ 0 % w = 0
    BY <1>2, Small DEF UpTo
  <2>2. m[UpTo(0)] = 0 /\ p[UpTo(0)] = 0
    BY <1>3, <1>4, <2>1, Zenon
  <2> QED
    BY <2>1, <2>2
<1>6. ASSUME NEW i \in Nat, i \in I PROVE i + 1 \in I
  <2> SUFFICES ASSUME i + 1 <= n
               PROVE m[UpTo(i + 1)] \in Nat /\ p[UpTo(i + 1)] = m[UpTo(i + 1)] % w
    OBVIOUS
  <2> DEFINE v == m[UpTo(i)]
             q == v \div w
             x == v % w
             d == s[i + 1]
  <2>1. i < n /\ i <= n /\ i + 1 \in 1 .. n
    BY <1>1
  <2>2. v \in Nat /\ p[UpTo(i)] = x /\ d \in Nat
    BY <1>1, <1>6, <2>1, Zenon
  <2>3. m[UpTo(i + 1)] = v * 10 + d /\ p[UpTo(i + 1)] = (x * 10 + d) % w
    BY <1>3, <1>4, <2>1, <2>2, Zenon
  <2> HIDE DEF v, d
  <2>4. q \in Nat /\ x \in Nat /\ v = (w * q) + x
    BY <1>2, <2>2, DivMod, Zenon
  <2> HIDE DEF q, x
  <2>5. v * 10 + d = (w * (q * 10)) + (x * 10 + d) /\ q * 10 \in Nat /\ x * 10 + d \in Nat
    BY <1>2, <2>2, <2>4
  <2>6. (v * 10 + d) % w = (x * 10 + d) % w
    BY <1>2, <2>5, ModMultiple, Zenon
  <2> QED
    BY <2>2, <2>3, <2>6
<1> HIDE DEF I
<1>7. n \in I
  BY <1>1, <1>5, <1>6, SetInduction, Zenon
<1>8. m[UpTo(n)] \in Nat /\ p[UpTo(n)] = m[UpTo(n)] % w
  BY <1>1, <1>7 DEF I
<1>9. Isprime!Value(r) = m[DOMAIN s] /\ Isprime!Parse(r) = p[DOMAIN s]
  BY FoldsUnfold, Zenon DEF m, p, s
<1> QED
  BY <1>1, <1>8, <1>9, Zenon DEF Isprime!wrap, w, UpTo

\* The verdict on a request is right if the number meant is in range.
LEMMA VerdictIsRight ==
  ASSUME NEW r \in Request10, Isprime!Sure(Isprime!Value(r))
  PROVE  /\ Isprime!IsPrime(Isprime!Value(r)) => Isprime!Verdict(Isprime!Parse(r)) = "prime"
         /\ ~Isprime!IsPrime(Isprime!Value(r)) => Isprime!Verdict(Isprime!Parse(r)) = "composite"
<1> DEFINE v == Isprime!Value(r)
<1>1. v \in Nat /\ Isprime!Parse(r) = Isprime!wrap(v)
  BY ParseWraps, Zenon
<1> HIDE DEF v
<1>2. v < Half * Half
  <2> DEFINE a == (Half - 1) * (Half - 1)
             b == Half * Half
  <2>1. a \in Int /\ b \in Int /\ a < b
    BY HalfAssumption
  <2>2. v < a
    BY Zenon DEF Isprime!Sure, v
  <2> HIDE DEF a, b
  <2>3. v < b
    BY <1>1, <2>1, <2>2
  <2> QED
    BY <2>3, Zenon DEF b
<1>3. Isprime!Parse(r) = v
  <2> DEFINE b == Half * Half
  <2>1. b \in Nat /\ v < b
    BY <1>2, HalfAssumption
  <2> HIDE DEF b
  <2>2. v % b = v
    BY <1>1, <2>1, Small, Zenon
  <2> QED
    BY <1>1, <2>2, Zenon DEF b, Isprime!wrap
<1>4. Isprime!isprime(v) <=> Isprime!IsPrime(v)
  BY <1>1, TrialDivisionIsRight, Zenon DEF v
<1> QED
  BY <1>3, <1>4, Zenon DEF v, Isprime!Verdict

-----------------------------------------------------------------------------
(***************************************************************************)
(* uv_isprime_server.c: the invariant.                                     *)
(***************************************************************************)

Handle == {"none", "backlog", "open", "closing", "closed"}
Word == {"none", "prime", "composite"}
Connection ==
  [handle : Handle, sending : Request10, gone : BOOLEAN, asked : Seq(Request10), answers : Seq(Word)]
Job == [of : User, stage : {"queued", "running", "done"}, read : Nat]

IsprimeType ==
  /\ MODE \in {"BLOCK", "WORK"} /\ polite \in BOOLEAN
  /\ conn \in [User -> Connection] /\ number \in [User -> Nat] /\ sendbuf \in [User -> Word]
  /\ jobs \in Seq(Job)

Waiting(u) == \E k \in DOMAIN jobs : jobs[k].of = u

\* A request on the work queue is its client's only one, and the last it sent; the client
\* waits, so that its handle stays open.  number is what the request said; what a thread
\* has read of it, and the verdict it stored, are still good.
JobGood(k) ==
  LET u == jobs[k].of
      c == conn[u]
  IN /\ c.handle = "open" /\ ~c.gone /\ c.sending = <<>> /\ Len(c.asked) = Len(c.answers) + 1
     /\ number[u] = Isprime!Parse(c.asked[Len(c.asked)])
     /\ jobs[k].stage = "running" => jobs[k].read = number[u]
     /\ jobs[k].stage = "done" => sendbuf[u] = Isprime!Verdict(number[u])

UserGood(u) ==
  LET c == conn[u]
  IN /\ ~Waiting(u) => Len(c.asked) = Len(c.answers)
     /\ c.sending # <<>> => c.handle = "open" /\ ~c.gone
     /\ c.gone => Isprime!Idle(u)
     /\ Len(c.answers) <= Len(c.asked)
     /\ \A k \in DOMAIN c.answers : c.answers[k] = Isprime!Verdict(Isprime!Parse(c.asked[k]))

PoliteInv ==
  /\ server = "running"
  /\ \A j, k \in DOMAIN jobs : jobs[j].of = jobs[k].of => j = k
  /\ \A k \in DOMAIN jobs : JobGood(k)
  /\ \A u \in User : UserGood(u)

IsprimeInv == IsprimeType /\ (polite => PoliteInv)

LEMMA ParseType == \A r \in Request10 : Isprime!Parse(r) \in Nat
<1> SUFFICES ASSUME NEW r \in Request10 PROVE Isprime!Parse(r) \in Nat
  BY Zenon
<1> DEFINE v == Isprime!Value(r)
           w == Half * Half
<1>1. v \in Nat /\ Isprime!Parse(r) = v % w
  BY ParseWraps, Zenon DEF Isprime!wrap
<1>2. w \in Nat /\ w > 0
  BY HalfAssumption
<1> HIDE DEF v, w
<1> QED
  BY <1>1, <1>2, DivMod, Zenon

LEMMA RequestType == Requests \subseteq Request10 /\ <<>> \in Request10
  BY RequestAssumption DEF Request10

LEMMA VerdictType == \A n : Isprime!Verdict(n) \in Word
  BY Zenon DEF Isprime!Verdict, Word

\* RemoveAt keeps the others, in order.
Skip(k, i) == IF i < k THEN i ELSE i + 1

LEMMA RemoveAtKeeps ==
  ASSUME NEW S, NEW s \in Seq(S), NEW k \in 1 .. Len(s)
  PROVE  LET t == Isprime!Without(s, k)
         IN /\ t \in Seq(S) /\ Len(t) = Len(s) - 1
            /\ \A i \in DOMAIN t : Skip(k, i) \in DOMAIN s /\ Skip(k, i) # k /\ t[i] = s[Skip(k, i)]
            /\ \A j \in DOMAIN s : j # k => \E i \in DOMAIN t : Skip(k, i) = j
<1> DEFINE a == SubSeq(s, 1, k - 1)
           b == SubSeq(s, k + 1, Len(s))
           t == Isprime!Without(s, k)
<1>1. a \in Seq(S) /\ Len(a) = k - 1 /\ \A i \in 1 .. k - 1 : a[i] = s[i]
  OBVIOUS
<1>2. b \in Seq(S) /\ Len(b) = Len(s) - k /\ \A i \in 1 .. Len(s) - k : b[i] = s[k + i]
  OBVIOUS
<1>3. t = a \o b
  BY Zenon DEF Isprime!Without
<1> HIDE DEF a, b, t
<1>4. t \in Seq(S) /\ Len(t) = Len(s) - 1 /\ DOMAIN t = 1 .. Len(s) - 1
  BY <1>1, <1>2, <1>3
<1>5. \A i \in 1 .. Len(s) - 1 : t[i] = IF i < k THEN s[i] ELSE s[i + 1]
  <2> SUFFICES ASSUME NEW i \in 1 .. Len(s) - 1 PROVE t[i] = IF i < k THEN s[i] ELSE s[i + 1]
    BY Zenon
  <2>1. CASE i < k
    BY <1>1, <1>2, <1>3, <2>1
  <2>2. CASE i >= k
    <3> DEFINE j == i - (k - 1)
    <3>1. j \in 1 .. Len(s) - k /\ k + j = i + 1
      BY <2>2
    <3>2. t[i] = b[j]
      BY <1>1, <1>2, <1>3, <2>2
    <3> HIDE DEF j
    <3> QED
      BY <1>2, <2>2, <3>1, <3>2
  <2> QED
    BY <2>1, <2>2
<1>6. \A i \in 1 .. Len(s) - 1 : Skip(k, i) \in 1 .. Len(s) /\ Skip(k, i) # k
  BY DEF Skip
<1>7. \A i \in 1 .. Len(s) - 1 : t[i] = s[Skip(k, i)]
  BY <1>5, Zenon DEF Skip
<1>8. ASSUME NEW j \in 1 .. Len(s), j # k PROVE \E i \in 1 .. Len(s) - 1 : Skip(k, i) = j
  <2>1. CASE j < k
    BY <2>1 DEF Skip
  <2>2. CASE j > k
    <3>1. j - 1 \in 1 .. Len(s) - 1 /\ Skip(k, j - 1) = j
      BY <2>2 DEF Skip
    <3> QED
      BY <3>1, Zenon
  <2> QED
    BY <1>8, <2>1, <2>2
<1>9. DOMAIN s = 1 .. Len(s)
  OBVIOUS
<1>10. \A i \in DOMAIN t : Skip(k, i) \in DOMAIN s /\ Skip(k, i) # k /\ t[i] = s[Skip(k, i)]
  BY <1>4, <1>6, <1>7, <1>9, Zenon
<1>11. \A j \in DOMAIN s : j # k => \E i \in DOMAIN t : Skip(k, i) = j
  BY <1>4, <1>8, <1>9, Zenon
<1> QED
  BY <1>4, <1>10, <1>11, Zenon DEF t

\* The type of a job, of what it refers to, and of the queue with one changed.
LEMMA JobType ==
  ASSUME IsprimeType, NEW k \in DOMAIN jobs
  PROVE  /\ jobs[k] \in Job /\ jobs[k].of \in User /\ jobs[k].read \in Nat
         /\ number[jobs[k].of] \in Nat /\ conn[jobs[k].of] \in Connection
         /\ sendbuf[jobs[k].of] \in Word /\ jobs \in Seq(Job) /\ k \in 1 .. Len(jobs)
         /\ \A x \in Job : LET t == [jobs EXCEPT ![k] = x] IN t \in Seq(Job) /\ DOMAIN t = DOMAIN jobs
<1>1. jobs[k] \in Job /\ jobs \in Seq(Job) /\ k \in 1 .. Len(jobs)
  BY DEF IsprimeType
<1>2. jobs[k].of \in User /\ jobs[k].read \in Nat
  BY <1>1, Zenon DEF Job
<1>3. /\ number[jobs[k].of] \in Nat /\ conn[jobs[k].of] \in Connection
      /\ sendbuf[jobs[k].of] \in Word
  BY <1>2, Zenon DEF IsprimeType
<1>4. \A x \in Job : LET t == [jobs EXCEPT ![k] = x] IN t \in Seq(Job) /\ DOMAIN t = DOMAIN jobs
  BY <1>1
<1> QED
  BY <1>1, <1>2, <1>3, <1>4, Zenon

\* The type of a connection with an answer added, or a request taken.
LEMMA ConnectionType ==
  ASSUME NEW c \in Connection
  PROVE  /\ \A w \in Word : [c EXCEPT !.answers = Append(@, w)] \in Connection
         /\ [c EXCEPT !.sending = <<>>, !.asked = Append(@, c.sending)] \in Connection
<1>1. c.asked \in Seq(Request10) /\ c.answers \in Seq(Word) /\ c.sending \in Request10
  BY Zenon DEF Connection
<1>2. Append(c.asked, c.sending) \in Seq(Request10) /\ \A w \in Word : Append(c.answers, w) \in Seq(Word)
  BY <1>1
<1> QED
  BY <1>2, RequestType, Zenon DEF Connection

\* The types, step by step.
LEMMA IsprimeTyped ==
  /\ Isprime!Init => IsprimeType
  /\ IsprimeType /\ [Isprime!Next]_(Isprime!vars) => IsprimeType'
<1>1. Isprime!Init => IsprimeType
  BY RequestType DEF Isprime!Init, Isprime!Fresh, IsprimeType, Connection, Job, Handle, Word
<1>2. ASSUME IsprimeType, [Isprime!Next]_(Isprime!vars) PROVE IsprimeType'
  <2> USE <1>2, RequestType
  <2>1. ASSUME NEW u \in User, Isprime!UserConnects(u) PROVE IsprimeType'
    BY <2>1, Zenon DEF Isprime!UserConnects, Isprime!Same, IsprimeType, Connection, Handle
  <2>2. ASSUME NEW u \in User, Isprime!UserLeaves(u) PROVE IsprimeType'
    BY <2>2, Zenon DEF Isprime!UserLeaves, Isprime!Same, IsprimeType, Connection, Handle
  <2>3. ASSUME NEW u \in User, NEW r \in Requests, Isprime!UserAsks(u, r) PROVE IsprimeType'
    BY <2>3, Zenon DEF Isprime!UserAsks, Isprime!Same, IsprimeType, Connection, Handle
  <2>4. ASSUME NEW u \in User, Isprime!on_peer_connected(u) PROVE IsprimeType'
    BY <2>4, Zenon DEF Isprime!on_peer_connected, Isprime!Same, IsprimeType, Connection, Handle
  <2>5. ASSUME NEW u \in User, Isprime!ReadRequest(u) PROVE IsprimeType'
    <3> DEFINE n == Isprime!Parse(conn[u].sending)
               v == Isprime!Verdict(n)
    <3>1. n \in Nat /\ v \in Word
      BY ParseType, VerdictType, Zenon DEF IsprimeType, Connection, Handle
    <3> HIDE DEF v
    <3>2. CASE MODE = "BLOCK"
      <4>1. PICK failed \in {FALSE, conn[u].gone} :
              conn' = [conn EXCEPT ![u].sending = <<>>, ![u].asked = Append(@, conn[u].sending),
                                   ![u].answers = IF failed THEN @ ELSE Append(@, v)]
        BY <2>5, <3>2, Zenon DEF Isprime!ReadRequest, v
      <4>2. conn' \in [User -> Connection]
        BY <3>1, <4>1 DEF IsprimeType, Connection, Handle
      <4>3. number' = [number EXCEPT ![u] = n] /\ sendbuf' = [sendbuf EXCEPT ![u] = v] /\ jobs' = jobs
        BY <2>5, <3>2, Zenon DEF Isprime!ReadRequest, v
      <4> HIDE DEF n
      <4> QED
        BY <2>5, <3>1, <4>2, <4>3, Zenon DEF Isprime!ReadRequest, Isprime!Same, IsprimeType
    <3>3. CASE MODE # "BLOCK"
      <4>1. /\ conn' = [conn EXCEPT ![u].sending = <<>>, ![u].asked = Append(@, conn[u].sending)]
            /\ number' = [number EXCEPT ![u] = n] /\ sendbuf' = sendbuf
            /\ jobs' = Append(jobs, [of |-> u, stage |-> "queued", read |-> 0])
        BY <2>5, <3>3, Zenon DEF Isprime!ReadRequest
      <4> HIDE DEF n
      <4>2. conn' \in [User -> Connection]
        <5>1. conn[u] \in Connection /\ conn \in [User -> Connection]
          BY Zenon DEF IsprimeType
        <5>2. conn' = [conn EXCEPT ![u] = [conn[u] EXCEPT !.sending = <<>>, !.asked = Append(@, conn[u].sending)]]
          BY <4>1, <5>1, Zenon
        <5> QED
          BY <5>1, <5>2, ConnectionType, Zenon
      <4>3. jobs' \in Seq(Job)
        BY <4>1 DEF IsprimeType, Job
      <4> QED
        BY <2>5, <3>1, <4>1, <4>2, <4>3 DEF Isprime!ReadRequest, Isprime!Same, IsprimeType
    <3> QED
      BY <3>2, <3>3, Zenon
  <2>6. ASSUME NEW u \in User, Isprime!ReadEnd(u) PROVE IsprimeType'
    BY <2>6, Zenon DEF Isprime!ReadEnd, Isprime!Same, IsprimeType, Connection, Handle
  <2>7. ASSUME NEW u \in User, Isprime!on_client_closed(u) PROVE IsprimeType'
    BY <2>7, Zenon DEF Isprime!on_client_closed, Isprime!Same, IsprimeType, Connection, Handle
  <2>8. ASSUME NEW k \in DOMAIN jobs, Isprime!WorkReads(k) PROVE IsprimeType'
    <3> DEFINE x == [jobs[k] EXCEPT !.stage = "running", !.read = number[jobs[k].of]]
    <3>1. x \in Job
      BY JobType, Zenon DEF Job
    <3>2. jobs' = jobs \/ jobs' = [jobs EXCEPT ![k] = x]
      BY <2>8, JobType, Zenon DEF Isprime!WorkReads, Isprime!Undefined, Isprime!state
    <3> HIDE DEF x
    <3>3. jobs' \in Seq(Job)
      BY <3>1, <3>2, JobType, Zenon
    <3> QED
      BY <2>8, <3>3, Zenon DEF Isprime!WorkReads, Isprime!Undefined, Isprime!state, Isprime!Same,
        IsprimeType
  <2>9. ASSUME NEW k \in DOMAIN jobs, Isprime!WorkStores(k) PROVE IsprimeType'
    <3> DEFINE v == Isprime!Verdict(jobs[k].read)
               x == [jobs[k] EXCEPT !.stage = "done"]
    <3>1. x \in Job /\ v \in Word
      BY VerdictType, JobType DEF Job
    <3>2. \/ jobs' = jobs /\ sendbuf' = sendbuf
          \/ jobs' = [jobs EXCEPT ![k] = x] /\ sendbuf' = [sendbuf EXCEPT ![jobs[k].of] = v]
      BY <2>9, Zenon DEF Isprime!WorkStores, Isprime!Undefined, Isprime!state
    <3> HIDE DEF v, x
    <3>3. jobs' \in Seq(Job)
      BY <3>1, <3>2, JobType
    <3>4. sendbuf' \in [User -> Word]
      BY <3>1, <3>2, Zenon DEF IsprimeType
    <3> QED
      BY <2>9, <3>3, <3>4, Zenon DEF Isprime!WorkStores, Isprime!Undefined, Isprime!state, Isprime!Same,
        IsprimeType
  <2>10. ASSUME NEW k \in DOMAIN jobs, Isprime!on_work_completed(k) PROVE IsprimeType'
    <3> DEFINE u == jobs[k].of
               c == [conn[u] EXCEPT !.answers = Append(@, sendbuf[u])]
    <3>1. jobs' = jobs \/ jobs' = Isprime!Without(jobs, k)
      BY <2>10, Zenon DEF Isprime!on_work_completed, Isprime!Undefined, Isprime!state
    <3>2. jobs' \in Seq(Job)
      BY <3>1, JobType, RemoveAtKeeps
    <3>3. conn' = conn \/ conn' = [conn EXCEPT ![u] = c]
      BY <2>10, Zenon DEF Isprime!on_work_completed, Isprime!Undefined, Isprime!Reply, Isprime!state
    <3>4. c \in Connection
      BY JobType, ConnectionType, Zenon
    <3> HIDE DEF c
    <3>5. conn' \in [User -> Connection]
      BY <3>3, <3>4, Zenon DEF IsprimeType
    <3> QED
      BY <2>10, <3>2, <3>5, Zenon DEF Isprime!on_work_completed, Isprime!Undefined, Isprime!state,
        Isprime!Same, IsprimeType
  <2>11. CASE UNCHANGED Isprime!vars
    BY <2>11, Zenon DEF Isprime!vars, Isprime!state, IsprimeType
  <2> QED
    BY <2>1, <2>2, <2>3, <2>4, <2>5, <2>6, <2>7, <2>8, <2>9, <2>10, <2>11, Zenon
    DEF Isprime!Next, Isprime!Callback, Isprime!Work
<1> QED
  BY <1>1, <1>2, Zenon

\* A user with a handle that is not open, that has left, that sends, or that has all its
\* answers, has nothing on the work queue.
LEMMA NotWaiting ==
  ASSUME IsprimeType, PoliteInv, NEW u \in User,
         \/ conn[u].handle # "open" \/ conn[u].gone \/ conn[u].sending # <<>>
         \/ Len(conn[u].asked) = Len(conn[u].answers)
  PROVE  ~Waiting(u)
<1> SUFFICES ASSUME NEW k \in DOMAIN jobs, jobs[k].of = u PROVE FALSE
  BY Zenon DEF Waiting
<1>1. JobGood(k)
  BY Zenon DEF PoliteInv
<1>2. Len(conn[u].asked) \in Nat /\ Len(conn[u].answers) \in Nat
  BY DEF IsprimeType, Connection
<1>3. Len(conn[u].asked) # Len(conn[u].answers)
  BY <1>1, <1>2 DEF JobGood
<1> QED
  BY <1>1, <1>3, Zenon DEF JobGood

\* A step that concerns only a user with nothing on the work queue, and leaves the queue,
\* disturbs nobody else.
LEMMA QuietStep ==
  ASSUME IsprimeType, PoliteInv, NEW u \in User, ~Waiting(u),
         NEW c, conn' = [conn EXCEPT ![u] = c],
         \A v \in User : v # u => number'[v] = number[v] /\ sendbuf'[v] = sendbuf[v],
         jobs' = jobs, server' = server, UserGood(u)'
  PROVE  PoliteInv'
<1>1. server' = "running" /\ \A j, k \in DOMAIN jobs' : jobs'[j].of = jobs'[k].of => j = k
  BY Zenon DEF PoliteInv
<1>2. ASSUME NEW k \in DOMAIN jobs' PROVE JobGood(k)'
  <2> DEFINE v == jobs[k].of
  <2>1. k \in DOMAIN jobs /\ v \in User /\ v # u /\ JobGood(k)
    BY JobType, Zenon DEF PoliteInv, Waiting
  <2>2. conn'[v] = conn[v] /\ number'[v] = number[v] /\ sendbuf'[v] = sendbuf[v] /\ jobs'[k] = jobs[k]
    BY <2>1, Zenon DEF IsprimeType
  <2> QED
    BY <2>1, <2>2, Zenon DEF JobGood
<1>3. ASSUME NEW v \in User PROVE UserGood(v)'
  <2>1. CASE v = u
    BY <2>1, Zenon
  <2>2. CASE v # u
    <3>1. conn'[v] = conn[v] /\ UserGood(v)
      BY <2>2, Zenon DEF IsprimeType, PoliteInv
    <3> QED
      BY <3>1, Zenon DEF UserGood, Waiting, Isprime!Idle
  <2> QED
    BY <2>1, <2>2, Zenon
<1> QED
  BY <1>1, <1>2, <1>3, Zenon DEF PoliteInv

LEMMA ConnectsPolite ==
  ASSUME IsprimeType, PoliteInv, NEW u \in User,
         Isprime!UserConnects(u) \/ Isprime!on_peer_connected(u) \/ Isprime!on_client_closed(u)
  PROVE  PoliteInv'
<1>1. PICK h : conn' = [conn EXCEPT ![u] = [conn[u] EXCEPT !.handle = h]]
  BY Zenon DEF Isprime!UserConnects, Isprime!on_peer_connected, Isprime!on_client_closed
<1>2. conn[u].handle # "open" /\ UNCHANGED <<server, number, sendbuf, jobs>>
  BY Zenon DEF Isprime!UserConnects, Isprime!on_peer_connected, Isprime!on_client_closed
<1>3. ~Waiting(u) /\ UserGood(u)
  BY <1>2, NotWaiting, Zenon DEF PoliteInv
<1>4. /\ conn'[u].sending = conn[u].sending /\ conn'[u].gone = conn[u].gone
      /\ conn'[u].asked = conn[u].asked /\ conn'[u].answers = conn[u].answers
  BY <1>1, Zenon DEF IsprimeType, Connection
<1>5. UserGood(u)'
  BY <1>2, <1>3, <1>4, Zenon DEF UserGood, Waiting, Isprime!Idle
<1> QED
  BY <1>1, <1>2, <1>3, <1>5, QuietStep, Zenon

LEMMA AsksPolite ==
  ASSUME IsprimeType, PoliteInv, polite, NEW u \in User, NEW r \in Requests, Isprime!UserAsks(u, r)
  PROVE  PoliteInv'
<1>1. /\ conn' = [conn EXCEPT ![u] = [conn[u] EXCEPT !.sending = r]]
      /\ UNCHANGED <<server, number, sendbuf, jobs>>
      /\ conn[u].handle = "open" /\ ~conn[u].gone /\ Isprime!Idle(u)
  BY Zenon DEF Isprime!UserAsks
<1>2. ~Waiting(u) /\ UserGood(u)
  BY <1>1, NotWaiting, Zenon DEF PoliteInv, Isprime!Idle
<1>3. /\ conn'[u].handle = conn[u].handle /\ conn'[u].gone = conn[u].gone
      /\ conn'[u].asked = conn[u].asked /\ conn'[u].answers = conn[u].answers
  BY <1>1, Zenon DEF IsprimeType, Connection
<1>4. UserGood(u)'
  BY <1>1, <1>2, <1>3, Zenon DEF UserGood, Waiting, Isprime!Idle
<1> QED
  BY <1>1, <1>2, <1>4, QuietStep, Zenon

LEMMA LeavesPolite ==
  ASSUME IsprimeType, PoliteInv, polite, NEW u \in User, Isprime!UserLeaves(u)
  PROVE  PoliteInv'
<1>1. /\ conn' = [conn EXCEPT ![u] = [conn[u] EXCEPT !.gone = TRUE]]
      /\ UNCHANGED <<server, number, sendbuf, jobs>> /\ Isprime!Idle(u)
  BY Zenon DEF Isprime!UserLeaves
<1>2. ~Waiting(u) /\ UserGood(u)
  BY <1>1, NotWaiting, Zenon DEF PoliteInv, Isprime!Idle
<1>3. /\ conn'[u].handle = conn[u].handle /\ conn'[u].sending = conn[u].sending
      /\ conn'[u].asked = conn[u].asked /\ conn'[u].answers = conn[u].answers
  BY <1>1, Zenon DEF IsprimeType, Connection
<1>4. UserGood(u)'
  BY <1>1, <1>2, <1>3, Zenon DEF UserGood, Waiting, Isprime!Idle
<1> QED
  BY <1>1, <1>2, <1>4, QuietStep, Zenon

LEMMA ReadEndPolite ==
  ASSUME IsprimeType, PoliteInv, NEW u \in User, Isprime!ReadEnd(u)
  PROVE  PoliteInv'
<1>1. /\ conn' = [conn EXCEPT ![u] = [conn[u] EXCEPT !.handle = "closing", !.sending = <<>>]]
      /\ UNCHANGED <<server, number, sendbuf, jobs>> /\ conn[u].gone
  BY Zenon DEF Isprime!ReadEnd, IsprimeType
<1>2. ~Waiting(u) /\ UserGood(u)
  BY <1>1, NotWaiting, Zenon DEF PoliteInv
<1>3. /\ conn'[u].sending = <<>> /\ conn'[u].gone = conn[u].gone
      /\ conn'[u].asked = conn[u].asked /\ conn'[u].answers = conn[u].answers
  BY <1>1, Zenon DEF IsprimeType, Connection
<1>4. UserGood(u)'
  BY <1>1, <1>2, <1>3, Zenon DEF UserGood, Waiting, Isprime!Idle
<1> QED
  BY <1>1, <1>2, <1>4, QuietStep, Zenon

\* One more answer, right for one more request.
LEMMA AnswerAdded ==
  ASSUME NEW a \in Seq(Request10), NEW w \in Seq(Word), Len(a) = Len(w) + 1, NEW x \in Word,
         \A k \in DOMAIN w : w[k] = Isprime!Verdict(Isprime!Parse(a[k])),
         x = Isprime!Verdict(Isprime!Parse(a[Len(a)]))
  PROVE  LET t == Append(w, x)
         IN Len(t) = Len(a) /\ \A k \in DOMAIN t : t[k] = Isprime!Verdict(Isprime!Parse(a[k]))
<1> DEFINE t == Append(w, x)
<1>1. Len(t) = Len(w) + 1 /\ DOMAIN t = 1 .. Len(w) + 1 /\ DOMAIN w = 1 .. Len(w) /\ Len(w) \in Nat
  OBVIOUS
<1>2. t[Len(w) + 1] = x /\ \A k \in 1 .. Len(w) : t[k] = w[k]
  OBVIOUS
<1> HIDE DEF t
<1>3. ASSUME NEW k \in DOMAIN t PROVE t[k] = Isprime!Verdict(Isprime!Parse(a[k]))
  <2>1. CASE k \in 1 .. Len(w)
    BY <1>1, <1>2, <2>1, Zenon
  <2>2. CASE k = Len(w) + 1
    BY <1>2, <2>2, Zenon
  <2> QED
    BY <1>1, <2>1, <2>2
<1> QED
  BY <1>1, <1>3, Zenon DEF t

\* One more request.
LEMMA RequestAdded ==
  ASSUME NEW a \in Seq(Request10), NEW w \in Seq(Word), Len(a) = Len(w), NEW r \in Request10,
         \A k \in DOMAIN w : w[k] = Isprime!Verdict(Isprime!Parse(a[k]))
  PROVE  LET b == Append(a, r)
         IN /\ b \in Seq(Request10) /\ Len(b) = Len(w) + 1 /\ b[Len(b)] = r
            /\ \A k \in DOMAIN w : w[k] = Isprime!Verdict(Isprime!Parse(b[k]))
<1> DEFINE b == Append(a, r)
<1>1. b \in Seq(Request10) /\ Len(b) = Len(a) + 1 /\ b[Len(a) + 1] = r /\ \A k \in 1 .. Len(a) : b[k] = a[k]
  OBVIOUS
<1>2. DOMAIN w = 1 .. Len(a)
  OBVIOUS
<1> HIDE DEF b
<1> QED
  BY <1>1, <1>2, Zenon DEF b

LEMMA ReadPolite ==
  ASSUME IsprimeType, PoliteInv, NEW u \in User, Isprime!ReadRequest(u)
  PROVE  PoliteInv'
<1> DEFINE r == conn[u].sending
           a == conn[u].asked
           w == conn[u].answers
           b == Append(a, r)
           n == Isprime!Parse(r)
           x == Isprime!Verdict(n)
<1>1. r \in Request10 /\ a \in Seq(Request10) /\ w \in Seq(Word) /\ x \in Word /\ conn[u] \in Connection
  BY VerdictType, Zenon DEF IsprimeType, Connection
<1>2. conn[u].handle = "open" /\ r # <<>>
  BY Zenon DEF Isprime!ReadRequest
<1>3. ~Waiting(u) /\ UserGood(u)
  BY <1>2, NotWaiting, Zenon DEF PoliteInv
<1>4. ~conn[u].gone /\ Len(a) = Len(w) /\ \A k \in DOMAIN w : w[k] = Isprime!Verdict(Isprime!Parse(a[k]))
  BY <1>2, <1>3, Zenon DEF UserGood
<1> HIDE DEF a, w, r
<1>5. /\ b \in Seq(Request10) /\ Len(b) = Len(w) + 1 /\ b[Len(b)] = r
      /\ \A k \in DOMAIN w : w[k] = Isprime!Verdict(Isprime!Parse(b[k]))
  BY <1>1, <1>4, RequestAdded, Zenon
<1> HIDE DEF b
<1>6. CASE MODE = "BLOCK"
  <2> DEFINE t == Append(w, x)
             c == [conn[u] EXCEPT !.sending = <<>>, !.asked = b, !.answers = t]
  <2>1. /\ server' = server /\ jobs' = jobs /\ conn' = [conn EXCEPT ![u] = c]
        /\ number' = [number EXCEPT ![u] = n] /\ sendbuf' = [sendbuf EXCEPT ![u] = x]
    BY <1>4, <1>6, Zenon DEF Isprime!ReadRequest, IsprimeType, r, a, w, b
  <2>2. Len(t) = Len(b) /\ \A k \in DOMAIN t : t[k] = Isprime!Verdict(Isprime!Parse(b[k]))
    BY <1>1, <1>5, AnswerAdded, Zenon
  <2>3. Len(t) \in Nat
    BY <1>1
  <2> HIDE DEF t
  <2>4. c.sending = <<>> /\ c.gone = conn[u].gone /\ c.asked = b /\ c.answers = t
    BY <1>1, Zenon DEF Connection
  <2>5. conn'[u] = c
    BY <2>1, Zenon DEF IsprimeType
  <2> HIDE DEF c, n, x
  <2>6. UserGood(u)'
    BY <1>4, <2>2, <2>3, <2>4, <2>5 DEF UserGood
  <2>7. \A v \in User : v # u => number'[v] = number[v] /\ sendbuf'[v] = sendbuf[v]
    BY <2>1, Zenon DEF IsprimeType
  <2> QED
    BY <1>3, <2>1, <2>6, <2>7, QuietStep, Zenon
<1>7. CASE MODE # "BLOCK"
  <2> DEFINE c == [conn[u] EXCEPT !.sending = <<>>, !.asked = b]
             j == [of |-> u, stage |-> "queued", read |-> 0]
  <2> PICK m \in Nat : m = Len(jobs) + 1
    BY DEF IsprimeType
  <2>1. /\ server' = server /\ sendbuf' = sendbuf /\ jobs' = Append(jobs, j)
        /\ conn' = [conn EXCEPT ![u] = c] /\ number' = [number EXCEPT ![u] = n]
    BY <1>7, Zenon DEF Isprime!ReadRequest, IsprimeType, r, a, b
  <2>2. /\ c.handle = "open" /\ c.sending = <<>> /\ c.gone = conn[u].gone /\ c.asked = b /\ c.answers = w
    BY <1>1, <1>2, Zenon DEF Connection, w
  <2>3. conn'[u] = c /\ number'[u] = n /\ \A v \in User : v # u => conn'[v] = conn[v] /\ number'[v] = number[v]
    BY <2>1, Zenon DEF IsprimeType
  <2>4. /\ DOMAIN jobs' = 1 .. m /\ m \in DOMAIN jobs' /\ jobs'[m] = j /\ DOMAIN jobs = 1 .. m - 1
        /\ \A k \in DOMAIN jobs : k # m /\ k \in DOMAIN jobs' /\ jobs'[k] = jobs[k]
    BY <2>1 DEF IsprimeType
  <2> HIDE DEF c, n
  <2>5. \A k \in DOMAIN jobs' : k = m \/ k \in DOMAIN jobs
    BY <2>4
  <2>6. \A k \in DOMAIN jobs : jobs[k].of # u /\ jobs[k].of \in User
    BY <1>3, JobType, Zenon DEF Waiting
  <2>7. ASSUME NEW k \in DOMAIN jobs', NEW i \in DOMAIN jobs', jobs'[k].of = jobs'[i].of PROVE k = i
    BY <2>4, <2>5, <2>6, <2>7 DEF PoliteInv
  <2>8. JobGood(m)'
    BY <1>4, <1>5, <2>2, <2>3, <2>4 DEF JobGood, n
  <2>9. ASSUME NEW k \in DOMAIN jobs PROVE JobGood(k)'
    <3>1. JobGood(k)
      BY Zenon DEF PoliteInv
    <3>2. /\ conn'[jobs[k].of] = conn[jobs[k].of] /\ number'[jobs[k].of] = number[jobs[k].of]
          /\ sendbuf' = sendbuf /\ jobs'[k] = jobs[k]
      BY <2>1, <2>3, <2>4, <2>6, Zenon
    <3> QED
      BY <3>1, <3>2, Zenon DEF JobGood
  <2>10. Waiting(u)'
    <3>1. m \in DOMAIN jobs' /\ jobs'[m].of = u
      BY <2>4
    <3> QED
      BY <3>1, Zenon DEF Waiting
  <2>11. UserGood(u)'
    <3>1. Len(w) <= Len(b)
      BY <1>1, <1>5
    <3> QED
      BY <1>4, <1>5, <2>2, <2>3, <2>10, <3>1, Zenon DEF UserGood
  <2>12. ASSUME NEW v \in User, v # u PROVE UserGood(v)'
    <3>1. UserGood(v) /\ conn'[v] = conn[v]
      BY <2>3, <2>12, Zenon DEF PoliteInv
    <3>2. Waiting(v) => Waiting(v)'
      BY <2>4, Zenon DEF Waiting
    <3> QED
      BY <3>1, <3>2, Zenon DEF UserGood, Isprime!Idle
  <2>13. \A k \in DOMAIN jobs' : JobGood(k)'
    BY <2>5, <2>8, <2>9, Zenon
  <2>14. server' = "running"
    BY <2>1, Zenon DEF PoliteInv
  <2> QED
    BY <2>7, <2>11, <2>12, <2>13, <2>14, Zenon DEF PoliteInv
<1> QED
  BY <1>6, <1>7, Zenon

\* A thread reads the number, or stores the verdict: its client waits.
LEMMA ThreadPolite ==
  ASSUME IsprimeType, PoliteInv, NEW k \in DOMAIN jobs, Isprime!WorkReads(k) \/ Isprime!WorkStores(k)
  PROVE  PoliteInv'
<1> DEFINE u == jobs[k].of
<1>1. u \in User /\ jobs[k] \in Job /\ JobGood(k)
  BY JobType, Zenon DEF PoliteInv
<1>2. conn[u].handle = "open" /\ ~Isprime!Freed(u)
  BY <1>1, Zenon DEF JobGood, Isprime!Freed
<1>3. PICK x \in Job :
        /\ x.of = u /\ jobs' = [jobs EXCEPT ![k] = x]
        /\ \/ x.stage = "running" /\ x.read = number[u] /\ sendbuf' = sendbuf
           \/ /\ x.stage = "done" /\ jobs[k].stage = "running"
              /\ sendbuf' = [sendbuf EXCEPT ![u] = Isprime!Verdict(jobs[k].read)]
  <2>1. CASE Isprime!WorkReads(k)
    <3> DEFINE x == [jobs[k] EXCEPT !.stage = "running", !.read = number[u]]
    <3>1. jobs' = [jobs EXCEPT ![k] = x] /\ sendbuf' = sendbuf
      BY <1>2, <2>1, JobType, Zenon DEF Isprime!WorkReads
    <3>2. x \in Job /\ x.of = u /\ x.stage = "running" /\ x.read = number[u]
      BY JobType, Zenon DEF Job
    <3> QED
      BY <3>1, <3>2, Zenon
  <2>2. CASE Isprime!WorkStores(k)
    <3> DEFINE x == [jobs[k] EXCEPT !.stage = "done"]
    <3>1. /\ jobs' = [jobs EXCEPT ![k] = x] /\ jobs[k].stage = "running"
          /\ sendbuf' = [sendbuf EXCEPT ![u] = Isprime!Verdict(jobs[k].read)]
      BY <1>2, <2>2, Zenon DEF Isprime!WorkStores
    <3>2. x \in Job /\ x.of = u /\ x.stage = "done"
      BY JobType, Zenon DEF Job
    <3> QED
      BY <3>1, <3>2, Zenon
  <2> QED
    BY <2>1, <2>2, Zenon
<1>4. UNCHANGED <<server, conn, number>>
  BY <1>2, Zenon DEF Isprime!WorkReads, Isprime!WorkStores
<1>5. /\ DOMAIN jobs' = DOMAIN jobs /\ jobs'[k] = x
      /\ \A i \in DOMAIN jobs : jobs'[i].of = jobs[i].of /\ (i # k => jobs'[i] = jobs[i])
  BY <1>3, JobType, Zenon
<1>6. ASSUME NEW i \in DOMAIN jobs', NEW j \in DOMAIN jobs', jobs'[i].of = jobs'[j].of PROVE i = j
  BY <1>5, <1>6, Zenon DEF PoliteInv
<1>7. JobGood(k)'
  <2>1. conn' = conn /\ number' = number /\ jobs'[k] = x /\ x.of = u
    BY <1>3, <1>4, <1>5, Zenon
  <2>2. x.stage = "running" => x.read = number[u]
    BY <1>3, Zenon
  <2>3. x.stage = "done" => sendbuf'[u] = Isprime!Verdict(number[u])
    <3> SUFFICES ASSUME x.stage = "done" PROVE sendbuf'[u] = Isprime!Verdict(number[u])
      BY Zenon
    <3>1. jobs[k].stage = "running" /\ sendbuf' = [sendbuf EXCEPT ![u] = Isprime!Verdict(jobs[k].read)]
      BY <1>3, Zenon
    <3>2. jobs[k].read = number[u]
      BY <1>1, <3>1, Zenon DEF JobGood
    <3>3. sendbuf'[u] = Isprime!Verdict(jobs[k].read)
      BY <1>1, <3>1, Zenon DEF IsprimeType
    <3> QED
      BY <3>2, <3>3, Zenon
  <2> QED
    BY <1>1, <2>1, <2>2, <2>3, Zenon DEF JobGood
<1>8. ASSUME NEW i \in DOMAIN jobs, i # k PROVE JobGood(i)'
  <2>1. JobGood(i) /\ jobs[i].of # u /\ jobs[i].of \in User
    BY <1>8, JobType, Zenon DEF PoliteInv
  <2>2. sendbuf'[jobs[i].of] = sendbuf[jobs[i].of] /\ jobs'[i] = jobs[i]
    BY <1>3, <1>5, <1>8, <2>1, Zenon DEF IsprimeType
  <2> QED
    BY <1>4, <2>1, <2>2, Zenon DEF JobGood
<1>9. ASSUME NEW v \in User PROVE UserGood(v)'
  <2>1. Waiting(v) => Waiting(v)'
    BY <1>5, Zenon DEF Waiting
  <2>2. UserGood(v)
    BY Zenon DEF PoliteInv
  <2> QED
    BY <1>4, <2>1, <2>2, Zenon DEF UserGood, Isprime!Idle
<1>10. \A i \in DOMAIN jobs' : JobGood(i)'
  BY <1>5, <1>7, <1>8, Zenon
<1>11. server' = "running"
  BY <1>4, Zenon DEF PoliteInv
<1> QED
  BY <1>6, <1>9, <1>10, <1>11, Zenon DEF PoliteInv

\* The answer goes to a client that still waits for it.
LEMMA CompletedPolite ==
  ASSUME IsprimeType, PoliteInv, NEW k \in DOMAIN jobs, Isprime!on_work_completed(k)
  PROVE  PoliteInv'
<1> PICK u \in User : u = jobs[k].of
  BY JobType, Zenon
<1> DEFINE a == conn[u].asked
           w == conn[u].answers
           x == sendbuf[u]
           t == Append(w, x)
           c == [conn[u] EXCEPT !.answers = t]
<1>1. conn[u] \in Connection /\ x \in Word /\ jobs \in Seq(Job) /\ k \in 1 .. Len(jobs)
  BY JobType, Zenon
<1>2. a \in Seq(Request10) /\ w \in Seq(Word)
  BY <1>1, Zenon DEF Connection
<1>3. JobGood(k) /\ UserGood(u) /\ jobs[k].stage = "done"
  BY Zenon DEF PoliteInv, Isprime!on_work_completed
<1>4. /\ conn[u].handle = "open" /\ ~conn[u].gone /\ conn[u].sending = <<>> /\ Len(a) = Len(w) + 1
      /\ x = Isprime!Verdict(Isprime!Parse(a[Len(a)]))
  BY <1>3, Zenon DEF JobGood
<1>5. \A i \in DOMAIN w : w[i] = Isprime!Verdict(Isprime!Parse(a[i]))
  BY <1>3, Zenon DEF UserGood
<1>6. /\ server' = server /\ conn' = [conn EXCEPT ![u] = c] /\ number' = number /\ sendbuf' = sendbuf
      /\ jobs' = Isprime!Without(jobs, k)
  BY <1>4, Zenon DEF Isprime!on_work_completed, Isprime!Freed, Isprime!Reply
<1>7. Len(t) = Len(a) /\ \A i \in DOMAIN t : t[i] = Isprime!Verdict(Isprime!Parse(a[i]))
  BY <1>1, <1>2, <1>4, <1>5, AnswerAdded, Zenon
<1>8. Len(a) \in Nat
  BY <1>2
<1> HIDE DEF t
<1>9. /\ c.handle = "open" /\ c.sending = <<>> /\ ~c.gone /\ c.asked = a /\ c.answers = t
  BY <1>1, <1>4, Zenon DEF Connection
<1> HIDE DEF c, x
<1>10. conn'[u] = c /\ \A v \in User : v # u => conn'[v] = conn[v]
  BY <1>6, Zenon DEF IsprimeType
<1>11. /\ \A i \in DOMAIN jobs' : Skip(k, i) \in DOMAIN jobs /\ Skip(k, i) # k /\ jobs'[i] = jobs[Skip(k, i)]
       /\ \A j \in DOMAIN jobs : j # k => \E i \in DOMAIN jobs' : Skip(k, i) = j
       /\ DOMAIN jobs' \subseteq Int
  BY <1>1, <1>6, RemoveAtKeeps
<1>12. \A i, j \in Int : Skip(k, i) = Skip(k, j) => i = j
  BY <1>1 DEF Skip
<1>13. ASSUME NEW i \in DOMAIN jobs', NEW j \in DOMAIN jobs', jobs'[i].of = jobs'[j].of PROVE i = j
  <2>1. Skip(k, i) = Skip(k, j)
    BY <1>11, <1>13, Zenon DEF PoliteInv
  <2> QED
    BY <1>11, <1>12, <2>1, Zenon
<1>14. ASSUME NEW i \in DOMAIN jobs' PROVE JobGood(i)'
  <2> PICK j \in DOMAIN jobs : j # k /\ jobs'[i] = jobs[j]
    BY <1>11, Zenon
  <2>1. JobGood(j) /\ jobs[j].of # u /\ jobs[j].of \in User
    BY JobType, Zenon DEF PoliteInv
  <2>2. conn'[jobs[j].of] = conn[jobs[j].of]
    BY <1>10, <2>1, Zenon
  <2> QED
    BY <1>6, <2>1, <2>2, Zenon DEF JobGood
<1>15. UserGood(u)'
  <2>1. Len(c.asked) = Len(c.answers) /\ Len(c.answers) <= Len(c.asked)
    BY <1>7, <1>8, <1>9
  <2> QED
    BY <1>7, <1>9, <1>10, <2>1, Zenon DEF UserGood
<1>16. ASSUME NEW v \in User, v # u PROVE UserGood(v)'
  <2>1. UserGood(v) /\ conn'[v] = conn[v]
    BY <1>10, <1>16, Zenon DEF PoliteInv
  <2>2. ASSUME Waiting(v) PROVE Waiting(v)'
    <3>1. PICK j \in DOMAIN jobs : jobs[j].of = v
      BY <2>2, Zenon DEF Waiting
    <3>2. PICK i \in DOMAIN jobs' : Skip(k, i) = j
      BY <1>11, <1>16, <3>1, Zenon
    <3> QED
      BY <1>11, <3>1, <3>2, Zenon DEF Waiting
  <2> QED
    BY <2>1, <2>2, Zenon DEF UserGood, Isprime!Idle
<1>17. server' = "running"
  BY <1>6, Zenon DEF PoliteInv
<1> QED
  BY <1>13, <1>14, <1>15, <1>16, <1>17, Zenon DEF PoliteInv

LEMMA IsprimeInvInit == BothInit => IsprimeInv
<1> SUFFICES ASSUME Isprime!Init PROVE IsprimeInv
  BY Zenon DEF BothInit
<1>1. IsprimeType
  BY IsprimeTyped, Zenon
<1>2. jobs = <<>> /\ DOMAIN jobs = {} /\ server = "running"
  BY DEF Isprime!Init
<1>3. ASSUME NEW u \in User PROVE UserGood(u)
  BY <1>2 DEF Isprime!Init, Isprime!Fresh, UserGood, Waiting
<1> QED
  BY <1>1, <1>2, <1>3, Zenon DEF IsprimeInv, PoliteInv

LEMMA IsprimeInvNext == IsprimeInv /\ [BothNext]_<<which, vars, isprime_vars>> => IsprimeInv'
<1> SUFFICES ASSUME IsprimeInv, [BothNext]_<<which, vars, isprime_vars>> PROVE IsprimeInv'
  BY Zenon
<1>1. CASE UNCHANGED isprime_vars
  <2>1. UNCHANGED <<server, MODE, polite, conn, number, sendbuf, jobs>>
    BY <1>1, Zenon DEF isprime_vars
  <2> QED
    BY <2>1, Zenon DEF IsprimeInv, IsprimeType, PoliteInv, JobGood, UserGood, Waiting, Isprime!Idle
<1>2. CASE Isprime!Next
  <2>1. IsprimeType /\ IsprimeType'
    BY <1>2, IsprimeTyped, Zenon DEF IsprimeInv
  <2>2. polite' = polite
    BY <1>2, Zenon DEF Isprime!Next, Isprime!Callback, Isprime!Work, Isprime!Same, Isprime!UserConnects,
      Isprime!UserAsks, Isprime!UserLeaves, Isprime!on_peer_connected, Isprime!ReadRequest,
      Isprime!ReadEnd, Isprime!on_client_closed, Isprime!WorkReads, Isprime!WorkStores,
      Isprime!on_work_completed
  <2>3. ASSUME polite PROVE PoliteInv'
    <3>1. PoliteInv
      BY <2>3, Zenon DEF IsprimeInv
    <3> QED
      BY <1>2, <2>1, <2>3, <3>1, ConnectsPolite, AsksPolite, LeavesPolite, ReadPolite, ReadEndPolite,
         ThreadPolite, CompletedPolite, Zenon DEF Isprime!Next, Isprime!Callback, Isprime!Work
  <2> QED
    BY <2>1, <2>2, <2>3, Zenon DEF IsprimeInv
<1> QED
  BY <1>1, <1>2, Zenon DEF BothNext

\* "The client handle owns the peer state": while clients await their answers, neither the
\* loop nor a thread uses a peer state that was freed, and the process goes on, with any
\* number of clients, requests and threads.
THEOREM PeerStateOwned == BothSpec => []OwnedWhileUsed
<1>1. IsprimeInv => OwnedWhileUsed
  BY Zenon DEF IsprimeInv, PoliteInv, OwnedWhileUsed, Isprime!OwnedWhileUsed
<1> QED
  BY <1>1, IsprimeInvInit, IsprimeInvNext, PTL DEF BothSpec

\* on_peer_read, on_work_submitted and on_work_completed: a client that awaits its answers
\* gets, for each request, the right one, in both modes, whatever the threads' order.
THEOREM AnswersAreRight == BothSpec => []AnswerRight
<1>1. IsprimeInv => AnswerRight
  <2> SUFFICES ASSUME IsprimeInv, polite, NEW u \in User, NEW k \in DOMAIN conn[u].answers,
                      Isprime!Sure(Isprime!Value(conn[u].asked[k]))
               PROVE  conn[u].answers[k] =
                        IF Isprime!IsPrime(Isprime!Value(conn[u].asked[k])) THEN "prime" ELSE "composite"
    BY Zenon DEF AnswerRight, Isprime!AnswerRight, Isprime!RightAnswers
  <2>1. UserGood(u) /\ conn[u] \in Connection
    BY Zenon DEF IsprimeInv, PoliteInv, IsprimeType
  <2>2. conn[u].answers \in Seq(Word) /\ conn[u].asked \in Seq(Request10)
    BY <2>1, Zenon DEF Connection
  <2>3. Len(conn[u].answers) <= Len(conn[u].asked)
    BY <2>1, Zenon DEF UserGood
  <2>4. conn[u].asked[k] \in Request10
    BY <2>2, <2>3
  <2>5. conn[u].answers[k] = Isprime!Verdict(Isprime!Parse(conn[u].asked[k]))
    BY <2>1, Zenon DEF UserGood
  <2> QED
    BY <2>4, <2>5, VerdictIsRight, Zenon
<1> QED
  BY <1>1, IsprimeInvInit, IsprimeInvNext, PTL DEF BothSpec

-----------------------------------------------------------------------------
\* uv_isprime_server.c with MODE=BLOCK, for clients of any manners.

\* The answers are those of the requests read so far; only the request whose reply failed
\* has none.
BlockGood(u) ==
  LET c == conn[u]
  IN /\ Len(c.answers) <= Len(c.asked) /\ (server = "running" => Len(c.asked) = Len(c.answers))
     /\ \A k \in DOMAIN c.answers : c.answers[k] = Isprime!Verdict(Isprime!Parse(c.asked[k]))

BlockInv ==
  MODE = "BLOCK" =>
    /\ jobs = <<>> /\ server # "undefined"
    /\ server = "died" => \E u \in User : conn[u].gone
    /\ \A u \in User : BlockGood(u)

\* What a step other than the read of a request does to a connection.
LEMMA OtherSteps ==
  ASSUME IsprimeType, NEW u \in User,
         \/ Isprime!UserConnects(u) \/ Isprime!UserLeaves(u) \/ (\E r \in Requests : Isprime!UserAsks(u, r))
         \/ Isprime!on_peer_connected(u) \/ Isprime!ReadEnd(u) \/ Isprime!on_client_closed(u)
  PROVE  /\ server' = server /\ jobs' = jobs /\ MODE' = MODE
         /\ \A v \in User : /\ conn'[v].asked = conn[v].asked /\ conn'[v].answers = conn[v].answers
                            /\ conn[v].gone => conn'[v].gone
<1>1. conn \in [User -> Connection]
  BY Zenon DEF IsprimeType
<1>2. CASE Isprime!UserConnects(u) \/ Isprime!on_peer_connected(u) \/ Isprime!on_client_closed(u)
  <2>1. PICK h : conn' = [conn EXCEPT ![u].handle = h]
    BY <1>2, Zenon DEF Isprime!UserConnects, Isprime!on_peer_connected, Isprime!on_client_closed
  <2>2. server' = server /\ jobs' = jobs /\ MODE' = MODE
    BY <1>2, Zenon DEF Isprime!UserConnects, Isprime!on_peer_connected, Isprime!on_client_closed,
      Isprime!Same
  <2> QED
    BY <1>1, <2>1, <2>2, Zenon DEF Connection
<1>3. CASE \E r \in Requests : Isprime!UserAsks(u, r)
  <2>1. PICK r \in Requests : Isprime!UserAsks(u, r)
    BY <1>3, Zenon
  <2>2. /\ conn' = [conn EXCEPT ![u].sending = r]
        /\ server' = server /\ jobs' = jobs /\ MODE' = MODE
    BY <2>1, Zenon DEF Isprime!UserAsks, Isprime!Same
  <2> QED
    BY <1>1, <2>2, Zenon DEF Connection
<1>4. CASE Isprime!UserLeaves(u)
  BY <1>1, <1>4, Zenon DEF Isprime!UserLeaves, Isprime!Same, Connection
<1>5. CASE Isprime!ReadEnd(u)
  BY <1>1, <1>5, Zenon DEF Isprime!ReadEnd, Isprime!Same, Connection
<1> QED
  BY <1>2, <1>3, <1>4, <1>5, Zenon

\* The read of a request, its verdict and the attempt to write it.
LEMMA BlockRead ==
  ASSUME IsprimeType, BlockInv, MODE = "BLOCK", NEW u \in User, Isprime!ReadRequest(u)
  PROVE  BlockInv'
<1> DEFINE r == conn[u].sending
           a == conn[u].asked
           w == conn[u].answers
           b == Append(a, r)
           x == Isprime!Verdict(Isprime!Parse(r))
           t == Append(w, x)
<1>1. r \in Request10 /\ a \in Seq(Request10) /\ w \in Seq(Word) /\ x \in Word
  BY VerdictType, Zenon DEF IsprimeType, Connection
<1>2. server = "running" /\ jobs' = <<>>
  BY Zenon DEF Isprime!ReadRequest, BlockInv
<1>3. Len(a) = Len(w) /\ \A k \in DOMAIN w : w[k] = Isprime!Verdict(Isprime!Parse(a[k]))
  BY <1>2, Zenon DEF BlockInv, BlockGood
<1>4. /\ b \in Seq(Request10) /\ Len(b) = Len(w) + 1 /\ b[Len(b)] = r
      /\ \A k \in DOMAIN w : w[k] = Isprime!Verdict(Isprime!Parse(b[k]))
  <2> HIDE DEF r, a, w
  <2> QED
    BY <1>1, <1>3, RequestAdded, Zenon
<1>5. Len(t) = Len(b) /\ \A k \in DOMAIN t : t[k] = Isprime!Verdict(Isprime!Parse(b[k]))
  <2> HIDE DEF r, a, w, b
  <2> QED
    BY <1>1, <1>4, AnswerAdded, Zenon
<1>6. PICK failed \in {FALSE, conn[u].gone} :
        /\ server' = IF failed THEN "died" ELSE server
        /\ conn' = [conn EXCEPT ![u] =
                      [conn[u] EXCEPT !.sending = <<>>, !.asked = b, !.answers = IF failed THEN w ELSE t]]
  BY Zenon DEF Isprime!ReadRequest, IsprimeType
<1>7. /\ conn'[u].asked = b /\ conn'[u].answers = (IF failed THEN w ELSE t) /\ conn'[u].gone = conn[u].gone
      /\ \A v \in User : v # u => conn'[v] = conn[v]
  <2> HIDE DEF b, w, t
  <2> QED
    BY <1>6, Zenon DEF IsprimeType, Connection
<1>8. Len(w) \in Nat /\ Len(b) \in Nat
  BY <1>1, <1>4
<1> HIDE DEF r, a, b, w, x, t
<1>9. BlockGood(u)'
  BY <1>2, <1>4, <1>5, <1>6, <1>7, <1>8 DEF BlockGood
<1>10. ASSUME NEW v \in User, v # u PROVE BlockGood(v)'
  <2>1. conn'[v] = conn[v] /\ BlockGood(v) /\ Len(conn[v].answers) = Len(conn[v].asked)
    BY <1>2, <1>7, <1>10, Zenon DEF BlockInv, BlockGood
  <2> QED
    BY <2>1, Zenon DEF BlockGood
<1>11. server' # "undefined" /\ (server' = "died" => \E v \in User : conn'[v].gone)
  BY <1>2, <1>6, <1>7, Zenon
<1> QED
  BY <1>2, <1>9, <1>10, <1>11, Zenon DEF BlockInv

LEMMA BlockNext == IsprimeType /\ BlockInv /\ [BothNext]_<<which, vars, isprime_vars>> => BlockInv'
<1> SUFFICES ASSUME IsprimeType, BlockInv, [BothNext]_<<which, vars, isprime_vars>>, MODE' = "BLOCK"
             PROVE  BlockInv'
  BY Zenon DEF BlockInv
<1>1. CASE UNCHANGED isprime_vars
  BY <1>1, Zenon DEF isprime_vars, BlockInv, BlockGood
<1>2. CASE Isprime!Next
  <2>1. MODE = "BLOCK"
    BY <1>2, Zenon DEF Isprime!Next, Isprime!Callback, Isprime!Work, Isprime!Same, Isprime!UserConnects,
      Isprime!UserAsks, Isprime!UserLeaves, Isprime!on_peer_connected, Isprime!ReadRequest,
      Isprime!ReadEnd, Isprime!on_client_closed, Isprime!WorkReads, Isprime!WorkStores,
      Isprime!on_work_completed
  <2>2. jobs = <<>> /\ DOMAIN jobs = {}
    BY <2>1 DEF BlockInv
  <2>3. PICK u \in User :
          \/ Isprime!ReadRequest(u)
          \/ \/ Isprime!UserConnects(u) \/ Isprime!UserLeaves(u) \/ (\E r \in Requests : Isprime!UserAsks(u, r))
             \/ Isprime!on_peer_connected(u) \/ Isprime!ReadEnd(u) \/ Isprime!on_client_closed(u)
    BY <1>2, <2>2, Zenon DEF Isprime!Next, Isprime!Callback, Isprime!Work
  <2>4. CASE Isprime!ReadRequest(u)
    BY <2>1, <2>4, BlockRead, Zenon
  <2>5. CASE ~Isprime!ReadRequest(u)
    <3>1. /\ server' = server /\ jobs' = jobs
          /\ \A v \in User : /\ conn'[v].asked = conn[v].asked /\ conn'[v].answers = conn[v].answers
                             /\ conn[v].gone => conn'[v].gone
      BY <2>3, <2>5, OtherSteps, Zenon
    <3> QED
      BY <2>1, <3>1 DEF BlockInv, BlockGood
  <2> QED
    BY <2>4, <2>5, Zenon
<1> QED
  BY <1>1, <1>2, Zenon DEF BothNext

\* on_peer_read with MODE=BLOCK: computing in the callback makes the server safe for
\* clients that do not wait, which MODE=WORK is not.
THEOREM BlockingModeIsSafe == BothSpec => []Isprime!BlockModeSafe
<1>1. BothInit => BlockInv
  BY DEF BothInit, Isprime!Init, Isprime!Fresh, BlockInv, BlockGood
<1>2. ASSUME IsprimeType, BlockInv PROVE Isprime!BlockModeSafe
  <2> SUFFICES ASSUME MODE = "BLOCK", NEW u \in User, NEW k \in DOMAIN conn[u].answers,
                      Isprime!Sure(Isprime!Value(conn[u].asked[k]))
               PROVE  conn[u].answers[k] =
                        IF Isprime!IsPrime(Isprime!Value(conn[u].asked[k])) THEN "prime" ELSE "composite"
    BY <1>2, Zenon DEF BlockInv, Isprime!BlockModeSafe, Isprime!RightAnswers
  <2>1. conn[u].answers \in Seq(Word) /\ conn[u].asked \in Seq(Request10)
    BY <1>2, Zenon DEF IsprimeType, Connection
  <2>2. /\ Len(conn[u].answers) <= Len(conn[u].asked)
        /\ conn[u].answers[k] = Isprime!Verdict(Isprime!Parse(conn[u].asked[k]))
    BY <1>2, Zenon DEF BlockInv, BlockGood
  <2>3. conn[u].asked[k] \in Request10
    BY <2>1, <2>2
  <2> QED
    BY <2>2, <2>3, VerdictIsRight, Zenon
<1>3. IsprimeInv => IsprimeType
  BY Zenon DEF IsprimeInv
<1> QED
  BY <1>1, <1>2, <1>3, BlockNext, IsprimeInvInit, IsprimeInvNext, PTL DEF BothSpec

-----------------------------------------------------------------------------
(***************************************************************************)
(* uv_server.c: the invariant, for clients that read what they are sent.   *)
(***************************************************************************)

PeerType ==
  [handle : {"none", "backlog", "open", "closed"}, state : {"INITIAL_ACK", "WAIT_FOR_MSG", "IN_MSG"},
   sendbuf : [1 .. SENDBUF_SIZE -> Octet], sendbuf_end : Nat, writes : Seq([len : Nat, off : Nat]),
   sending : Seq(Octet), gone : BOOLEAN, got : Seq(Octet), wire : Seq(Octet)]

\* Every write went out whole: at most one awaits its callback, and it is finished.  The
\* buffer is empty whenever the client can be read from.
PeerGood(p) ==
  /\ p.handle \in {"none", "backlog"} => p.got = <<>> /\ p.wire = <<>>
  /\ p.handle \in {"open", "closed"} => p.wire = <<Star>> \o Echo(p.got)
  /\ p.writes # <<>> => p.handle = "open" /\ Len(p.writes) = 1 /\ p.writes[1].off = p.writes[1].len
  /\ p.handle = "open" /\ p.state = "INITIAL_ACK" => p.got = <<>> /\ p.writes # <<>>
  /\ p.handle = "open" /\ p.state # "INITIAL_ACK" =>
       (p.state = "IN_MSG" <=> InMessage(p.got)) /\ (p.writes = <<>> => p.sendbuf_end = 0)

UvInv == room \in BOOLEAN /\ (room => \A c \in Client : peer[c] \in PeerType /\ PeerGood(peer[c]))
         /\ DOMAIN peer = Client

\* A client that can be read from.
Reader == {p \in PeerType : p.state # "INITIAL_ACK"}

\* What a step of the state machine changes.
SameOutside(q, p) ==
  /\ q.handle = p.handle /\ q.writes = p.writes /\ q.sending = p.sending
  /\ q.gone = p.gone /\ q.got = p.got /\ q.wire = p.wire

\* What is in the send buffer.
Filled(p) == [k \in 1 .. p.sendbuf_end |-> p.sendbuf[k]]

LEMMA StepType ==
  ASSUME NEW p \in Reader, NEW b \in Octet
  PROVE  Step(p, b) \in Reader /\ SameOutside(Step(p, b), p)
<1>1. /\ p.state \in {"WAIT_FOR_MSG", "IN_MSG"} /\ p.sendbuf \in [1 .. SENDBUF_SIZE -> Octet]
      /\ p.sendbuf_end \in Nat
  BY Zenon DEF Reader, PeerType
<1>2. CASE p.state = "WAIT_FOR_MSG"
  BY <1>2, Zenon DEF Step, Reader, PeerType, SameOutside
<1>3. CASE p.state = "IN_MSG" /\ b = Dollar
  BY <1>3, Zenon DEF Step, Reader, PeerType, SameOutside
<1>4. CASE p.state = "IN_MSG" /\ b # Dollar
  <2> DEFINE buf == [k \in DOMAIN p.sendbuf |-> IF k = p.sendbuf_end + 1 THEN Inc(b) ELSE p.sendbuf[k]]
  <2>1. buf \in [1 .. SENDBUF_SIZE -> Octet]
    BY <1>1, IncType, Zenon
  <2>2. Step(p, b) = [p EXCEPT !.sendbuf_end = p.sendbuf_end + 1, !.sendbuf = buf]
    BY <1>4, Zenon DEF Step
  <2> HIDE DEF buf
  <2>3. PICK e \in Nat : e = p.sendbuf_end + 1
    BY <1>1
  <2>4. p \in PeerType /\ [p EXCEPT !.sendbuf_end = e, !.sendbuf = buf] \in PeerType
    BY <2>1, <2>3, Zenon DEF Reader, PeerType
  <2>5. Step(p, b).state = p.state /\ SameOutside(Step(p, b), p)
    BY <2>2, <2>4, Zenon DEF PeerType, SameOutside
  <2> QED
    BY <1>4, <2>2, <2>3, <2>4, <2>5, Zenon DEF Reader
<1> QED
  BY <1>1, <1>2, <1>3, <1>4, Zenon

\* What a byte does to the state and the buffer.
LEMMA StepEffect ==
  ASSUME NEW p \in Reader, NEW b \in Octet
  PROVE  LET q == Step(p, b)
             adds == p.state = "IN_MSG" /\ b # Dollar
         IN /\ q.state = "IN_MSG" <=> (p.state = "WAIT_FOR_MSG" /\ b = Hat) \/ adds
            /\ ~adds => q.sendbuf = p.sendbuf /\ q.sendbuf_end = p.sendbuf_end
            /\ adds => /\ q.sendbuf_end = p.sendbuf_end + 1
                       /\ \A k \in 1 .. SENDBUF_SIZE :
                            q.sendbuf[k] = IF k = p.sendbuf_end + 1 THEN Inc(b) ELSE p.sendbuf[k]
<1>1. p.state \in {"WAIT_FOR_MSG", "IN_MSG"} /\ p.sendbuf \in [1 .. SENDBUF_SIZE -> Octet]
  BY Zenon DEF Reader, PeerType
<1>2. CASE p.state = "WAIT_FOR_MSG"
  BY <1>2, Zenon DEF Step, Reader, PeerType
<1>3. CASE p.state = "IN_MSG" /\ b = Dollar
  BY <1>3, Zenon DEF Step, Reader, PeerType
<1>4. CASE p.state = "IN_MSG" /\ b # Dollar
  <2> DEFINE buf == [k \in DOMAIN p.sendbuf |-> IF k = p.sendbuf_end + 1 THEN Inc(b) ELSE p.sendbuf[k]]
  <2>1. \A k \in 1 .. SENDBUF_SIZE : buf[k] = IF k = p.sendbuf_end + 1 THEN Inc(b) ELSE p.sendbuf[k]
    BY <1>1, Zenon
  <2>2. Step(p, b) = [p EXCEPT !.sendbuf_end = p.sendbuf_end + 1, !.sendbuf = buf]
    BY <1>4, Zenon DEF Step
  <2> HIDE DEF buf
  <2>3. /\ Step(p, b).sendbuf = buf /\ Step(p, b).sendbuf_end = p.sendbuf_end + 1
        /\ Step(p, b).state = p.state
    BY <2>2, Zenon DEF Reader, PeerType
  <2> QED
    BY <1>4, <2>1, <2>3, Zenon
<1> QED
  BY <1>1, <1>2, <1>3, <1>4, Zenon

\* The buffer holds octets, and a byte added comes last.
LEMMA FilledType ==
  ASSUME NEW p \in Reader, p.sendbuf_end <= SENDBUF_SIZE
  PROVE  Filled(p) \in Seq(Octet) /\ Len(Filled(p)) = p.sendbuf_end
<1>1. p.sendbuf_end \in Nat /\ \A k \in 1 .. p.sendbuf_end : p.sendbuf[k] \in Octet
  BY UvAssumption DEF Reader, PeerType
<1> DEFINE e == p.sendbuf_end
           f == [k \in 1 .. e |-> p.sendbuf[k]]
<1>2. f \in [1 .. e -> Octet]
  BY <1>1, Zenon
<1>3. f \in Seq(Octet) /\ Len(f) = e
  BY <1>1, <1>2, IsASeq, LenProperties
<1> QED
  BY <1>3, Zenon DEF Filled

LEMMA FilledStep ==
  ASSUME NEW p \in Reader, NEW b \in Octet, p.state = "IN_MSG", b # Dollar, p.sendbuf_end + 1 <= SENDBUF_SIZE
  PROVE  Filled(Step(p, b)) = Append(Filled(p), Inc(b))
<1> DEFINE q == Step(p, b)
           e == p.sendbuf_end
           f == Filled(p)
           g == Filled(q)
<1>1. e \in Nat /\ SENDBUF_SIZE \in Nat /\ e <= SENDBUF_SIZE
  BY UvAssumption DEF Reader, PeerType
<1>2. /\ q.sendbuf_end = e + 1
      /\ \A k \in 1 .. SENDBUF_SIZE : q.sendbuf[k] = IF k = e + 1 THEN Inc(b) ELSE p.sendbuf[k]
  BY StepEffect, Zenon
<1>3. q \in Reader
  BY StepType, Zenon
<1> HIDE DEF q
<1>4. f \in Seq(Octet) /\ Len(f) = e /\ \A k \in 1 .. e : f[k] = p.sendbuf[k]
  BY <1>1, FilledType, Zenon DEF Filled
<1>5. g \in Seq(Octet) /\ Len(g) = e + 1 /\ \A k \in 1 .. e + 1 : g[k] = q.sendbuf[k]
  BY <1>1, <1>2, <1>3, FilledType, Zenon DEF Filled
<1> HIDE DEF f, g, e
<1>6. Inc(b) \in Octet
  BY IncType, Zenon
<1>7. Append(f, Inc(b)) \in Seq(Octet) /\ Len(Append(f, Inc(b))) = e + 1
  BY <1>4, <1>6
<1>8. ASSUME NEW k \in 1 .. e + 1 PROVE g[k] = Append(f, Inc(b))[k]
  <2>1. k \in 1 .. SENDBUF_SIZE
    BY <1>1 DEF e
  <2>2. CASE k = e + 1
    BY <1>2, <1>4, <1>5, <2>1, <2>2
  <2>3. CASE k # e + 1
    <3>1. k \in 1 .. e
      BY <1>1, <2>3
    <3>2. Append(f, Inc(b))[k] = f[k]
      BY <1>4, <3>1
    <3> QED
      BY <1>2, <1>4, <1>5, <2>1, <2>3, <3>1, <3>2, Zenon
  <2> QED
    BY <2>2, <2>3, Zenon
<1>9. g = Append(f, Inc(b))
  BY <1>5, <1>7, <1>8, SameBytes, Zenon
<1> QED
  BY <1>9, Zenon DEF f, g, q

\* The fold over a chunk, at each of its prefixes.
ChunkBody(p, s, iter) ==
  [t \in SUBSET DOMAIN s |-> IF t = {} THEN p ELSE Step(iter[t \ {Max(t)}], s[Max(t)])]
Chunk(p, s) == CHOOSE iter : iter = ChunkBody(p, s, iter)

LEMMA ChunkUnfolds == \A p, s : FoldLeft(Step, p, s) = Chunk(p, s)[DOMAIN s]
  BY Zenon DEF FoldLeft, MapThenFoldSet, Chunk, ChunkBody

LEMMA ChunkSteps ==
  ASSUME NEW p \in Reader, NEW s \in Seq(Octet)
  PROVE  /\ Chunk(p, s)[UpTo(0)] = p
         /\ \A i \in Nat : i < Len(s) => Chunk(p, s)[UpTo(i + 1)] = Step(Chunk(p, s)[UpTo(i)], s[i + 1])
<1> DEFINE n == Len(s)
           step == [x \in 1 .. n |-> [q \in Reader |-> Step(q, s[x])]]
<1>1. n \in Nat /\ DOMAIN s = 1 .. n /\ \A x \in 1 .. n : s[x] \in Octet
  OBVIOUS
<1> HIDE DEF n
<1>2. \A x \in 1 .. n, q \in Reader : Step(q, s[x]) \in Reader
  BY <1>1, StepType, Zenon
<1>3. Steps(step, 1 .. n, Reader)
  BY <1>2, Zenon DEF Steps
<1>4. \A x \in 1 .. n, q \in Reader : step[x][q] = Step(q, s[x])
  BY Zenon
<1> HIDE DEF step
<1>5. PICK g \in [SUBSET (1 .. n) -> Reader] : LeftFold(g, n, p, step)
  BY <1>1, <1>3, FoldLeftExists, Zenon
<1>6. ASSUME NEW t \in SUBSET (1 .. n)
      PROVE  g[t] = IF t = {} THEN p ELSE Step(g[t \ {Max(t)}], s[Max(t)])
  <2>1. g[t] = IF t = {} THEN p ELSE step[Max(t)][g[t \ {Max(t)}]]
    BY <1>5, Zenon DEF LeftFold
  <2>2. t # {} => Max(t) \in 1 .. n /\ g[t \ {Max(t)}] \in Reader
    BY <1>1, MaxIsLargest, Zenon
  <2> QED
    BY <1>4, <2>1, <2>2, Zenon
<1>7. g = ChunkBody(p, s, g)
  BY <1>1, <1>5, <1>6, Zenon DEF ChunkBody
<1> DEFINE h == Chunk(p, s)
<1>8. h = ChunkBody(p, s, h)
  BY <1>7, Zenon DEF Chunk
<1> HIDE DEF h
<1>9. h[UpTo(0)] = p
  <2>1. UpTo(0) = {}
    BY DEF UpTo
  <2> QED
    BY <1>1, <1>8, <2>1, Zenon DEF ChunkBody
<1>10. ASSUME NEW i \in Nat, i < n PROVE h[UpTo(i + 1)] = Step(h[UpTo(i)], s[i + 1])
  <2> DEFINE t == UpTo(i + 1)
  <2>1. Max(t) = i + 1 /\ t \ {i + 1} = UpTo(i) /\ t # {} /\ t \in SUBSET (1 .. n)
    BY <1>1, <1>10, MaxUpTo
  <2>2. h[t] = Step(h[t \ {Max(t)}], s[Max(t)])
    BY <1>1, <1>8, <2>1, Zenon DEF ChunkBody
  <2> QED
    BY <2>1, <2>2, Zenon
<1> QED
  BY <1>9, <1>10, Zenon DEF h, n

LEMMA StarType == <<Star>> \in Seq(Octet)
<1>1. Star \in Octet
  BY DEF Star, Octet
<1> QED
  BY <1>1

\* q is p after the bytes u of a chunk: what the client was sent and what the buffer holds
\* is the answer to all that was read from it.
Digested(p, q, u) ==
  /\ q \in Reader /\ SameOutside(q, p)
  /\ q.state = "IN_MSG" <=> InMessage(p.got \o u)
  /\ q.sendbuf_end <= SENDBUF_SIZE => p.wire \o Filled(q) = <<Star>> \o Echo(p.got \o u)

LEMMA DigestStep ==
  ASSUME NEW p \in Reader, NEW q, NEW u \in Seq(Octet), Digested(p, q, u), NEW b \in Octet
  PROVE  Digested(p, Step(q, b), Append(u, b))
<1> DEFINE r == Step(q, b)
           s == p.got \o u
           adds == q.state = "IN_MSG" /\ b # Dollar
<1>1. p.got \in Seq(Octet) /\ p.wire \in Seq(Octet) /\ s \in Seq(Octet)
  BY DEF Reader, PeerType
<1>2. q \in Reader /\ r \in Reader /\ SameOutside(q, p) /\ SameOutside(r, q)
  BY StepType, Zenon DEF Digested
<1>3. SameOutside(r, p)
  BY <1>2, Zenon DEF SameOutside
<1>4. p.got \o Append(u, b) = Append(s, b)
  BY <1>1, ConcatAppend, Zenon
<1>5. /\ q.state \in {"WAIT_FOR_MSG", "IN_MSG"} /\ (q.state = "IN_MSG" <=> InMessage(s))
      /\ q.sendbuf_end \in Nat /\ SENDBUF_SIZE \in Nat
  BY <1>2, UvAssumption, Zenon DEF Reader, PeerType, Digested
<1>6. /\ r.state = "IN_MSG" <=> (q.state = "WAIT_FOR_MSG" /\ b = Hat) \/ adds
      /\ ~adds => r.sendbuf = q.sendbuf /\ r.sendbuf_end = q.sendbuf_end
      /\ adds => r.sendbuf_end = q.sendbuf_end + 1
  BY <1>2, StepEffect, Zenon
<1>7. Echo(Append(s, b)) = IF adds THEN Append(Echo(s), Inc(b)) ELSE Echo(s)
  BY <1>1, <1>5, EchoStep, Zenon
<1>8. q.sendbuf_end <= SENDBUF_SIZE => p.wire \o Filled(q) = <<Star>> \o Echo(s)
  BY Zenon DEF Digested
<1> HIDE DEF s, r
<1>9. r.state = "IN_MSG" <=> InMessage(Append(s, b))
  <2>1. Hat # Dollar
    BY DEF Hat, Dollar
  <2> QED
    BY <1>1, <1>5, <1>6, <2>1, InMessageStep, Zenon
<1>10. ASSUME r.sendbuf_end <= SENDBUF_SIZE PROVE p.wire \o Filled(r) = <<Star>> \o Echo(Append(s, b))
  <2>1. CASE ~adds
    <3>1. Filled(r) = Filled(q)
      BY <1>6, <2>1, Zenon DEF Filled
    <3> QED
      BY <1>6, <1>7, <1>8, <1>10, <2>1, <3>1, Zenon
  <2>2. CASE adds
    <3>1. q.sendbuf_end + 1 <= SENDBUF_SIZE /\ q.sendbuf_end <= SENDBUF_SIZE
      BY <1>5, <1>6, <1>10, <2>2
    <3>2. Filled(r) = Append(Filled(q), Inc(b))
      BY <1>2, <2>2, <3>1, FilledStep, Zenon DEF r
    <3>3. Filled(q) \in Seq(Octet) /\ Inc(b) \in Octet /\ Echo(s) \in Seq(Octet) /\ <<Star>> \in Seq(Octet)
      BY <1>1, <1>2, <3>1, FilledType, IncType, EchoType, StarType
    <3>4. p.wire \o Append(Filled(q), Inc(b)) = Append(p.wire \o Filled(q), Inc(b))
      BY <1>1, <3>3, ConcatAppend, Zenon
    <3>5. <<Star>> \o Append(Echo(s), Inc(b)) = Append(<<Star>> \o Echo(s), Inc(b))
      BY <3>3, ConcatAppend, Zenon
    <3> QED
      BY <1>7, <1>8, <2>2, <3>1, <3>2, <3>4, <3>5, Zenon
  <2> QED
    BY <2>1, <2>2, Zenon
<1> QED
  BY <1>2, <1>3, <1>4, <1>9, <1>10, Zenon DEF Digested, r

\* The loop of on_peer_read over the bytes of a chunk.
LEMMA ChunkDigested ==
  ASSUME NEW p \in Reader, NEW s \in Seq(Octet), Digested(p, p, <<>>)
  PROVE  Digested(p, FoldLeft(Step, p, s), s)
<1> DEFINE n == Len(s)
           h == Chunk(p, s)
           I == {i \in Nat : i <= n => Digested(p, h[UpTo(i)], Upto(s, i))}
<1>1. n \in Nat /\ DOMAIN s = 1 .. n /\ \A i \in 1 .. n : s[i] \in Octet
  OBVIOUS
<1>2. h[UpTo(0)] = p /\ \A i \in Nat : i < n => h[UpTo(i + 1)] = Step(h[UpTo(i)], s[i + 1])
  BY ChunkSteps, Zenon
<1> HIDE DEF n, h
<1>3. 0 \in I
  <2>1. Upto(s, 0) = <<>>
    BY DEF Upto
  <2> QED
    BY <1>2, <2>1, Zenon
<1>4. ASSUME NEW i \in Nat, i \in I PROVE i + 1 \in I
  <2> SUFFICES ASSUME i + 1 <= n PROVE Digested(p, h[UpTo(i + 1)], Upto(s, i + 1))
    OBVIOUS
  <2>1. i < n /\ i <= n /\ i + 1 \in 1 .. n /\ i \in 0 .. n
    BY <1>1
  <2>2. Digested(p, h[UpTo(i)], Upto(s, i))
    BY <1>4, <2>1, Zenon
  <2>3. h[UpTo(i + 1)] = Step(h[UpTo(i)], s[i + 1]) /\ s[i + 1] \in Octet
    BY <1>1, <1>2, <2>1, Zenon
  <2>4. Upto(s, i) \in Seq(Octet) /\ Upto(s, i + 1) = Append(Upto(s, i), s[i + 1])
    BY <2>1, UptoType, UptoStep, Zenon DEF n
  <2> QED
    BY <2>2, <2>3, <2>4, DigestStep, Zenon
<1> HIDE DEF I
<1>5. n \in I
  BY <1>1, <1>3, <1>4, SetInduction, Zenon
<1>6. Digested(p, h[UpTo(n)], Upto(s, n))
  BY <1>1, <1>5 DEF I
<1>7. Upto(s, n) = s
  BY UptoAll, Zenon DEF n
<1>8. FoldLeft(Step, p, s) = h[UpTo(n)]
  BY <1>1, ChunkUnfolds, Zenon DEF h, UpTo
<1> QED
  BY <1>6, <1>7, <1>8, Zenon

\* With room, a write to a client without writes queued goes out whole, at once.
LEMMA WriteGoesOut ==
  ASSUME room, NEW p \in PeerType, p.writes = <<>>, NEW len \in Nat, len <= SENDBUF_SIZE,
         NEW q \in uv_write(p, len)
  PROVE  /\ q \in PeerType /\ q.wire = p.wire \o [k \in 1 .. len |-> p.sendbuf[k]]
         /\ q.writes # <<>> /\ Len(q.writes) = 1 /\ q.writes[1].off = q.writes[1].len
         /\ q.handle = p.handle /\ q.state = p.state /\ q.got = p.got
<1> DEFINE w == [len |-> len, off |-> 0]
           x == [len |-> len, off |-> len]
           m == [p EXCEPT !.writes = <<w>>]
           out == [k \in 1 .. len |-> p.sendbuf[k]]
<1>1. m = [p EXCEPT !.writes = Append(@, Request(len, 0))]
  BY DEF Request, PeerType
<1>2. m.writes[1] = w /\ m.wire = p.wire /\ m.sendbuf = p.sendbuf /\ w.off = 0 /\ w.len = len /\ len - 0 = len
  BY DEF PeerType
<1>3. Amounts(m) = {len}
  BY <1>2, Zenon DEF Amounts
<1>4. q = Take(m, len)
  BY <1>1, <1>3, Zenon DEF uv_write
<1>5. Take(m, len) = [p EXCEPT !.writes = <<x>>, !.wire = p.wire \o out]
  <2>1. [k \in 1 .. len |-> m.sendbuf[m.writes[1].off + k]] = out
    BY <1>2 DEF PeerType
  <2>2. m.writes = <<w>> /\ [w EXCEPT !.off = 0 + len] = x
    BY DEF PeerType
  <2>3. [<<w>> EXCEPT ![1] = x] = <<x>>
    <3> HIDE DEF w, x
    <3> QED
      OBVIOUS
  <2> HIDE DEF w, x, out
  <2>4. [m.writes EXCEPT ![1].off = 0 + len] = <<x>>
    BY <2>2, <2>3
  <2>5. Take(m, len) = [m EXCEPT !.writes = [m.writes EXCEPT ![1].off = 0 + len], !.wire = p.wire \o out]
    BY <1>2, <2>1, Zenon DEF Take
  <2>6. Take(m, len) = [m EXCEPT !.writes = <<x>>, !.wire = p.wire \o out]
    BY <2>4, <2>5, Zenon
  <2> QED
    BY <2>6, Zenon DEF PeerType
<1>6. out \in Seq(Octet) /\ p.wire \in Seq(Octet)
  <2>1. out \in [1 .. len -> Octet]
    BY UvAssumption DEF PeerType
  <2> QED
    BY <2>1, IsASeq DEF PeerType
<1>7. p.wire \o out \in Seq(Octet)
  BY <1>6
<1>8. <<x>> \in Seq([len : Nat, off : Nat]) /\ <<x>> # <<>> /\ Len(<<x>>) = 1 /\ <<x>>[1].off = <<x>>[1].len
  OBVIOUS
<1> HIDE DEF out, m, w, x
<1>9. q = [p EXCEPT !.writes = <<x>>, !.wire = p.wire \o out]
  BY <1>4, <1>5, Zenon
<1>10. q \in PeerType
  BY <1>7, <1>8, <1>9, Zenon DEF PeerType
<1>11. /\ q.wire = p.wire \o out /\ q.writes = <<x>> /\ q.handle = p.handle /\ q.state = p.state
       /\ q.got = p.got
  BY <1>9, Zenon DEF PeerType
<1> QED
  BY <1>8, <1>10, <1>11, Zenon DEF out

\* A client's answer is empty before it has sent anything.
LEMMA AckOnly == <<Star>> \o Echo(<<>>) = <<Star>> /\ <<>> \o <<Star>> = <<Star>>
  BY EchoEmpty, StarType, ConcatEmptySeq, Zenon

LEMMA UnconnectedType ==
  /\ Unconnected \in PeerType /\ Unconnected.handle = "none" /\ Unconnected.state = "INITIAL_ACK"
  /\ Unconnected.writes = <<>> /\ Unconnected.got = <<>> /\ Unconnected.wire = <<>>
<1> DEFINE z == [k \in 1 .. SENDBUF_SIZE |-> 0]
<1>1. z \in [1 .. SENDBUF_SIZE -> Octet]
  BY DEF Octet
<1> HIDE DEF z
<1>2. Unconnected = [handle |-> "none", state |-> "INITIAL_ACK", sendbuf |-> z, sendbuf_end |-> 0,
                     writes |-> <<>>, sending |-> <<>>, gone |-> FALSE, got |-> <<>>, wire |-> <<>>]
  BY Zenon DEF Unconnected, z
<1>3. Unconnected \in PeerType
  BY <1>1, <1>2, EmptySeq, Zenon DEF PeerType
<1> QED
  BY <1>2, <1>3, Zenon

LEMMA ConnectedGood ==
  ASSUME room, NEW c \in Client, peer[c] \in PeerType, PeerGood(peer[c]), on_peer_connected(c)
  PROVE  \E q \in PeerType : PeerGood(q) /\ peer' = [peer EXCEPT ![c] = q]
<1> DEFINE z == [k \in 1 .. SENDBUF_SIZE |-> 0]
           buf == [z EXCEPT ![1] = Star]
           u == [Unconnected EXCEPT !.handle = "open", !.sendbuf = buf, !.sendbuf_end = 1]
<1>1. PICK q \in uv_write(u, 1) : peer' = [peer EXCEPT ![c] = q]
  BY Zenon DEF on_peer_connected, Becomes, Unconnected
<1>2. buf \in [1 .. SENDBUF_SIZE -> Octet] /\ buf[1] = Star /\ 1 <= SENDBUF_SIZE
  BY UvAssumption DEF Octet, Star
<1> HIDE DEF buf
<1>3. u \in PeerType
  BY <1>2, UnconnectedType, Zenon DEF PeerType
<1>8. /\ u.writes = <<>> /\ u.sendbuf = buf /\ u.wire = <<>> /\ u.got = <<>> /\ u.handle = "open"
      /\ u.state = "INITIAL_ACK"
  BY UnconnectedType, Zenon DEF PeerType
<1> HIDE DEF u
<1>9. /\ q \in PeerType /\ q.wire = u.wire \o [k \in 1 .. 1 |-> u.sendbuf[k]]
      /\ q.writes # <<>> /\ Len(q.writes) = 1 /\ q.writes[1].off = q.writes[1].len
      /\ q.handle = u.handle /\ q.state = u.state /\ q.got = u.got
  <2>1. 1 \in Nat /\ 1 <= SENDBUF_SIZE /\ u.writes = <<>>
    BY <1>2, <1>8, Zenon
  <2> QED
    BY <1>1, <1>3, <2>1, WriteGoesOut
<1>4. /\ q \in PeerType /\ q.wire = <<>> \o [k \in 1 .. 1 |-> buf[k]]
      /\ q.writes # <<>> /\ Len(q.writes) = 1 /\ q.writes[1].off = q.writes[1].len
      /\ q.handle = "open" /\ q.state = "INITIAL_ACK" /\ q.got = <<>>
  BY <1>8, <1>9, Zenon
<1>5. [k \in 1 .. 1 |-> buf[k]] = <<Star>>
  BY <1>2
<1>6. q.wire = <<Star>> \o Echo(q.got)
  BY <1>4, <1>5, AckOnly, Zenon
<1> QED
  BY <1>1, <1>4, <1>6, Zenon DEF PeerGood

LEMMA CallbackGood ==
  ASSUME room, NEW c \in Client, peer[c] \in PeerType, PeerGood(peer[c]), WriteCallback(c)
  PROVE  \E q \in PeerType : PeerGood(q) /\ peer' = [peer EXCEPT ![c] = q]
<1> DEFINE p == peer[c]
           t == Tail(p.writes)
<1>1. p.writes # <<>> /\ p.writes \in Seq([len : Nat, off : Nat]) /\ Len(p.writes) = 1 /\ p.handle = "open"
  BY Zenon DEF WriteCallback, Finished, PeerGood, PeerType
<1>2. t = <<>> /\ t \in Seq([len : Nat, off : Nat])
  <2>1. t \in Seq([len : Nat, off : Nat]) /\ Len(t) = 0
    BY <1>1, HeadTailProperties
  <2> HIDE DEF t
  <2> QED
    BY <2>1, EmptySeq, Zenon
<1>8. \/ peer' = [peer EXCEPT ![c] = p]
      \/ p.state = "INITIAL_ACK" /\ peer' = [peer EXCEPT ![c] = on_wrote_init_ack(p)]
      \/ p.state # "INITIAL_ACK" /\ peer' = [peer EXCEPT ![c] = on_wrote_buf(p)]
  BY Zenon DEF WriteCallback, Becomes
<1>3. PICK q :
        /\ peer' = [peer EXCEPT ![c] = q]
        /\ \/ q = p
           \/ p.state = "INITIAL_ACK" /\ q = on_wrote_init_ack(p)
           \/ p.state # "INITIAL_ACK" /\ q = on_wrote_buf(p)
  BY <1>8, Zenon
<1>4. CASE q = p
  BY <1>3, <1>4, Zenon
<1>5. CASE p.state = "INITIAL_ACK" /\ q = [p EXCEPT !.writes = t, !.sendbuf_end = 0, !.state = "WAIT_FOR_MSG"]
  <2>1. q \in PeerType
    BY <1>2, <1>5, Zenon DEF PeerType
  <2>2. /\ q.handle = p.handle /\ q.wire = p.wire /\ q.got = p.got /\ q.writes = <<>>
        /\ q.sendbuf_end = 0 /\ q.state = "WAIT_FOR_MSG"
    BY <1>2, <1>5, Zenon DEF PeerType
  <2>3. p.got = <<>> /\ p.wire = <<Star>> \o Echo(p.got)
    BY <1>1, <1>5, Zenon DEF PeerGood
  <2> QED
    BY <1>1, <1>3, <2>1, <2>2, <2>3, OutsideFirst, Zenon DEF PeerGood
<1>6. CASE p.state # "INITIAL_ACK" /\ q = [p EXCEPT !.writes = t, !.sendbuf_end = 0]
  <2>1. q \in PeerType
    BY <1>2, <1>6, Zenon DEF PeerType
  <2>2. /\ q.handle = p.handle /\ q.wire = p.wire /\ q.got = p.got /\ q.writes = <<>>
        /\ q.sendbuf_end = 0 /\ q.state = p.state
    BY <1>2, <1>6, Zenon DEF PeerType
  <2> QED
    BY <1>1, <1>3, <1>6, <2>1, <2>2, Zenon DEF PeerGood
<1>7. \/ q = p
      \/ p.state = "INITIAL_ACK" /\ q = [p EXCEPT !.writes = t, !.sendbuf_end = 0, !.state = "WAIT_FOR_MSG"]
      \/ p.state # "INITIAL_ACK" /\ q = [p EXCEPT !.writes = t, !.sendbuf_end = 0]
  BY <1>3 DEF on_wrote_init_ack, on_wrote_buf
<1> QED
  BY <1>4, <1>5, <1>6, <1>7

LEMMA ReadGood ==
  ASSUME room, NEW c \in Client, peer[c] \in PeerType, PeerGood(peer[c]), ReadData(c)
  PROVE  peer' = peer \/ \E q \in PeerType : PeerGood(q) /\ peer' = [peer EXCEPT ![c] = q]
<1> DEFINE p == peer[c]
<1>1. p \in Reader /\ p.handle = "open" /\ p.writes = <<>>
  BY Zenon DEF ReadData, Reader, PeerGood, Finished
<1>2. /\ p.wire = <<Star>> \o Echo(p.got) /\ (p.state = "IN_MSG" <=> InMessage(p.got)) /\ p.sendbuf_end = 0
      /\ p.got \in Seq(Octet) /\ p.wire \in Seq(Octet) /\ p.sending \in Seq(Octet)
  BY <1>1, Zenon DEF PeerGood, Reader, PeerType
<1>3. SENDBUF_SIZE \in Nat /\ 0 <= SENDBUF_SIZE
  BY UvAssumption
<1>4. Digested(p, p, <<>>)
  <2>1. p.got \o <<>> = p.got
    BY <1>2, ConcatEmptySeq, Zenon
  <2>2. Filled(p) = <<>>
    <3>1. Filled(p) \in Seq(Octet) /\ Len(Filled(p)) = 0
      BY <1>1, <1>2, <1>3, FilledType, Zenon
    <3> QED
      BY <3>1, EmptySeq, Zenon
  <2>3. p.wire \o <<>> = p.wire
    BY <1>2, ConcatEmptySeq
  <2> QED
    BY <1>1, <1>2, <2>1, <2>2, <2>3 DEF Digested, SameOutside
<1>5. PICK n \in 1 .. Len(p.sending) :
        LET s == SubSeq(p.sending, 1, n)
            r == [FoldLeft(Step, p, s) EXCEPT !.got = @ \o s, !.sending = SubSeq(@, n + 1, Len(@))]
        IN IF Overflows(r) THEN peer' = peer
           ELSE \E q \in IF r.sendbuf_end > 0 THEN uv_write(r, r.sendbuf_end) ELSE {r} :
                  peer' = [peer EXCEPT ![c] = q]
  BY Zenon DEF ReadData, Becomes
<1> DEFINE s == SubSeq(p.sending, 1, n)
           d == FoldLeft(Step, p, s)
           r == [d EXCEPT !.got = @ \o s, !.sending = SubSeq(@, n + 1, Len(@))]
<1>6. s \in Seq(Octet)
  BY <1>2
<1>7. Digested(p, d, s)
  BY <1>1, <1>4, <1>6, ChunkDigested, Zenon
<1>8. IF Overflows(r) THEN peer' = peer
      ELSE \E q \in IF r.sendbuf_end > 0 THEN uv_write(r, r.sendbuf_end) ELSE {r} :
             peer' = [peer EXCEPT ![c] = q]
  BY <1>5, Zenon
<1> HIDE DEF d, s
<1>9. d \in PeerType /\ d.state # "INITIAL_ACK" /\ SameOutside(d, p) /\ (d.state = "IN_MSG" <=> InMessage(p.got \o s))
  BY <1>7, Zenon DEF Digested, Reader
<1>10. r = [d EXCEPT !.got = p.got \o s, !.sending = SubSeq(p.sending, n + 1, Len(p.sending))]
  BY <1>9, Zenon DEF SameOutside
<1>11. p.got \o s \in Seq(Octet) /\ SubSeq(p.sending, n + 1, Len(p.sending)) \in Seq(Octet)
  BY <1>2, <1>6
<1> HIDE DEF r
<1>12. r \in PeerType
  BY <1>9, <1>10, <1>11, Zenon DEF PeerType
<1>13. /\ r.handle = "open" /\ r.state = d.state /\ r.sendbuf = d.sendbuf /\ r.sendbuf_end = d.sendbuf_end
       /\ r.writes = <<>> /\ r.got = p.got \o s /\ r.wire = p.wire
  BY <1>1, <1>9, <1>10, Zenon DEF PeerType, SameOutside
<1>14. r.sendbuf_end \in Nat
  BY <1>12, Zenon DEF PeerType
<1>15. CASE Overflows(r)
  BY <1>8, <1>15, Zenon
<1>16. CASE ~Overflows(r)
  <2>1. r.sendbuf_end <= SENDBUF_SIZE
    BY <1>3, <1>14, <1>16 DEF Overflows
  <2>2. p.wire \o Filled(r) = <<Star>> \o Echo(r.got)
    BY <1>7, <1>13, <2>1, Zenon DEF Digested, Filled
  <2>3. PICK q \in IF r.sendbuf_end > 0 THEN uv_write(r, r.sendbuf_end) ELSE {r} : peer' = [peer EXCEPT ![c] = q]
    BY <1>8, <1>16
  <2>4. CASE r.sendbuf_end > 0
    <3>1. q \in uv_write(r, r.sendbuf_end)
      BY <2>3, <2>4, Zenon
    <3>2. /\ q \in PeerType /\ q.wire = r.wire \o [k \in 1 .. r.sendbuf_end |-> r.sendbuf[k]]
          /\ q.writes # <<>> /\ Len(q.writes) = 1 /\ q.writes[1].off = q.writes[1].len
          /\ q.handle = r.handle /\ q.state = r.state /\ q.got = r.got
      BY <1>12, <1>13, <1>14, <2>1, <3>1, WriteGoesOut, Zenon
    <3>3. q.wire = <<Star>> \o Echo(q.got)
      BY <1>13, <2>2, <3>2, Zenon DEF Filled
    <3>4. PeerGood(q)
      BY <1>9, <1>13, <3>2, <3>3, Zenon DEF PeerGood
    <3> QED
      BY <2>3, <3>2, <3>4, Zenon
  <2>5. CASE ~(r.sendbuf_end > 0)
    <3>1. q = r /\ r.sendbuf_end = 0
      BY <1>14, <2>3, <2>5
    <3>2. Filled(r) = <<>>
      <4>1. r \in Reader
        BY <1>9, <1>12, <1>13, Zenon DEF Reader
      <4>2. Filled(r) \in Seq(Octet) /\ Len(Filled(r)) = 0
        BY <2>1, <3>1, <4>1, FilledType
      <4> QED
        BY <4>2, EmptySeq, Zenon
    <3>3. r.wire = <<Star>> \o Echo(r.got)
      <4>1. p.wire \o <<>> = p.wire
        BY <1>2, ConcatEmptySeq, Zenon
      <4> QED
        BY <1>13, <2>2, <3>2, <4>1
    <3>4. PeerGood(r)
      BY <1>9, <1>13, <3>1, <3>3, Zenon DEF PeerGood
    <3> QED
      BY <1>12, <2>3, <3>1, <3>4, Zenon
  <2> QED
    BY <2>4, <2>5, Zenon
<1> QED
  BY <1>15, <1>16, Zenon

\* A client connects, sends or leaves, or its connection ends: nothing is answered.
LEMMA OtherGood ==
  ASSUME room, NEW c \in Client, peer[c] \in PeerType, PeerGood(peer[c]),
         \/ ClientConnects(c) \/ ClientLeaves(c) \/ ReadEnd(c) \/ WriteMore(c)
         \/ \E b \in Byte : ClientSends(c, b)
  PROVE  peer' = peer \/ \E q \in PeerType : PeerGood(q) /\ peer' = [peer EXCEPT ![c] = q]
<1> DEFINE p == peer[c]
<1>1. CASE ClientConnects(c)
  <2> DEFINE q == [p EXCEPT !.handle = "backlog"]
  <2>1. peer' = [peer EXCEPT ![c] = q] /\ p.handle = "none"
    BY <1>1, Zenon DEF ClientConnects
  <2>2. q \in PeerType /\ q.handle = "backlog" /\ q.got = p.got /\ q.wire = p.wire /\ q.writes = p.writes
    BY Zenon DEF PeerType
  <2>3. PeerGood(q)
    BY <2>1, <2>2, Zenon DEF PeerGood
  <2> QED
    BY <2>1, <2>2, <2>3, Zenon
<1>2. CASE ClientLeaves(c)
  <2> DEFINE q == [p EXCEPT !.gone = TRUE]
  <2>1. peer' = [peer EXCEPT ![c] = q]
    BY <1>2, Zenon DEF ClientLeaves
  <2>2. /\ q \in PeerType /\ q.handle = p.handle /\ q.got = p.got /\ q.wire = p.wire /\ q.writes = p.writes
        /\ q.state = p.state /\ q.sendbuf_end = p.sendbuf_end
    BY Zenon DEF PeerType
  <2>3. PeerGood(q)
    BY <2>2, Zenon DEF PeerGood
  <2> QED
    BY <2>1, <2>2, <2>3, Zenon
<1>3. ASSUME NEW b \in Byte, ClientSends(c, b)
      PROVE  \E q \in PeerType : PeerGood(q) /\ peer' = [peer EXCEPT ![c] = q]
  <2> DEFINE s == Append(p.sending, b)
             q == [p EXCEPT !.sending = s]
  <2>1. peer' = [peer EXCEPT ![c] = q]
    BY <1>3, Zenon DEF ClientSends
  <2>2. s \in Seq(Octet)
    BY UvAssumption DEF PeerType
  <2> HIDE DEF s
  <2>3. /\ q \in PeerType /\ q.handle = p.handle /\ q.got = p.got /\ q.wire = p.wire /\ q.writes = p.writes
        /\ q.state = p.state /\ q.sendbuf_end = p.sendbuf_end
    BY <2>2, Zenon DEF PeerType
  <2>4. PeerGood(q)
    BY <2>3, Zenon DEF PeerGood
  <2> QED
    BY <2>1, <2>3, <2>4, Zenon
<1>4. CASE ReadEnd(c)
  <2> DEFINE q == [p EXCEPT !.handle = "closed", !.sending = <<>>]
  <2>1. p.writes = <<>> /\ p.handle = "open" /\ (peer' = peer \/ peer' = [peer EXCEPT ![c] = q])
    BY <1>4, Zenon DEF ReadEnd, Becomes, Finished, PeerGood
  <2>2. q \in PeerType /\ q.handle = "closed" /\ q.got = p.got /\ q.wire = p.wire /\ q.writes = p.writes
    BY EmptySeq, Zenon DEF PeerType
  <2>3. PeerGood(q)
    BY <2>1, <2>2, Zenon DEF PeerGood
  <2> QED
    BY <2>1, <2>2, <2>3, Zenon
<1>5. CASE WriteMore(c)
  BY <1>5, Zenon DEF WriteMore, Finished, PeerGood
<1> QED
  BY <1>1, <1>2, <1>3, <1>4, <1>5

LEMMA UvInvInit == Init => UvInv
<1> SUFFICES ASSUME Init PROVE UvInv
  BY Zenon
<1>1. PeerGood(Unconnected)
  BY UnconnectedType, Zenon DEF PeerGood
<1> QED
  BY <1>1, UnconnectedType, Zenon DEF UvInv, Init

LEMMA UvInvNext == UvInv /\ [Next]_vars => UvInv'
<1> SUFFICES ASSUME UvInv, [Next]_vars PROVE UvInv'
  BY Zenon
<1>1. CASE UNCHANGED vars
  BY <1>1, Zenon DEF vars, UvInv
<1>2. CASE Next
  <2>1. PICK c \in Client :
          \/ on_peer_connected(c) \/ WriteCallback(c) \/ ReadData(c)
          \/ \/ ClientConnects(c) \/ ClientLeaves(c) \/ ReadEnd(c) \/ WriteMore(c)
             \/ \E b \in Byte : ClientSends(c, b)
    BY <1>2, Zenon DEF Next, Loop
  <2>2. room' = room /\ DOMAIN peer' = DOMAIN peer
    BY <2>1, Zenon DEF on_peer_connected, WriteCallback, ReadData, ClientConnects, ClientLeaves, ReadEnd,
      WriteMore,
      ClientSends, Becomes
  <2>3. ASSUME room PROVE peer' = peer \/ \E q \in PeerType : PeerGood(q) /\ peer' = [peer EXCEPT ![c] = q]
    <3>1. peer[c] \in PeerType /\ PeerGood(peer[c])
      BY <2>3, Zenon DEF UvInv
    <3> QED
      BY <2>1, <2>3, <3>1, ConnectedGood, CallbackGood, ReadGood, OtherGood, Zenon
  <2>4. ASSUME room, NEW e \in Client PROVE peer'[e] \in PeerType /\ PeerGood(peer'[e])
    <3>1. peer[e] \in PeerType /\ PeerGood(peer[e]) /\ DOMAIN peer = Client
      BY <2>4, Zenon DEF UvInv
    <3> QED
      BY <2>3, <2>4, <3>1, Zenon
  <2> QED
    BY <2>2, <2>4, Zenon DEF UvInv
<1> QED
  BY <1>1, <1>2, Zenon

\* on_peer_read and the write callbacks of uv_server.c: for any number of clients and any
\* input, cut into reads in any way, the echo is exact and complete as long as the clients
\* read what they are sent.
THEOREM EchoIsExactWhileRoom == BothSpec => []EchoWhileRoom
<1>1. UvInv => EchoWhileRoom
  <2> SUFFICES ASSUME UvInv, room, NEW c \in Client
               PROVE  /\ IsPrefix(peer[c].wire, <<Star>> \o Echo(peer[c].got))
                      /\ peer[c].handle = "open" => peer[c].wire = <<Star>> \o Echo(peer[c].got)
    BY Zenon DEF EchoWhileRoom, EchoExact
  <2>1. peer[c] \in PeerType /\ PeerGood(peer[c])
    BY Zenon DEF UvInv
  <2> DEFINE w == peer[c].wire
             e == <<Star>> \o Echo(peer[c].got)
  <2>2. w = e \/ w = <<>>
    BY <2>1, Zenon DEF PeerGood, PeerType
  <2>3. w \in Seq(Octet) /\ peer[c].got \in Seq(Octet)
    BY <2>1, Zenon DEF PeerType
  <2>4. e \in Seq(Octet)
    BY <2>3, EchoType, StarType
  <2> HIDE DEF w, e
  <2>5. IsPrefix(w, e)
    <3>1. CASE w = e
      BY <2>4, <3>1 DEF IsPrefix
    <3>2. CASE w = <<>>
      <4>1. Len(w) = 0 /\ SubSeq(w, 1, 0) = <<>> /\ SubSeq(e, 1, 0) = <<>> /\ 0 <= Len(e)
        BY <2>4, <3>2
      <4> QED
        BY <4>1, Zenon DEF IsPrefix
    <3> QED
      BY <2>2, <3>1, <3>2, Zenon
  <2> QED
    BY <2>1, <2>5, Zenon DEF w, e, PeerGood
<1>2. BothInit => UvInv
  BY UvInvInit, Zenon DEF BothInit
<1>3. UvInv /\ [BothNext]_<<which, vars, isprime_vars>> => UvInv'
  BY UvInvNext, Zenon DEF BothNext
<1> QED
  BY <1>1, <1>2, <1>3, PTL DEF BothSpec

-----------------------------------------------------------------------------
(***************************************************************************)
(* uv_server.c: the queue of writes, however slowly clients read.          *)
(***************************************************************************)

WriteQueue == Seq([len : Nat, off : Nat])

\* The requests of a queue point into the buffer, and only the first has been begun.
QueueGood(w) ==
  \A i \in DOMAIN w : w[i].off <= w[i].len /\ w[i].len <= SENDBUF_SIZE /\ (i > 1 => w[i].off = 0)

BufferGood(p) ==
  /\ p \in PeerType /\ p.sendbuf_end <= SENDBUF_SIZE /\ QueueGood(p.writes)
  /\ p.writes # <<>> => p.handle = "open"
  /\ p.handle = "open" /\ p.state = "INITIAL_ACK" => Len(p.writes) = 1

BufferInv == DOMAIN peer = Client /\ \A c \in Client : BufferGood(peer[c])

LEMMA QueueElements ==
  ASSUME NEW S, NEW w \in Seq(S)
  PROVE  /\ Len(w) \in Nat /\ DOMAIN w = 1 .. Len(w) /\ \A i \in DOMAIN w : w[i] \in S
         /\ w # <<>> => 1 \in DOMAIN w
  OBVIOUS

\* The kernel takes bytes of the first request.
LEMMA TakeGood ==
  ASSUME NEW p \in PeerType, p.writes # <<>>, QueueGood(p.writes), p.handle = "open",
         p.sendbuf_end <= SENDBUF_SIZE, p.state = "INITIAL_ACK" => Len(p.writes) = 1,
         NEW n \in Amounts(p)
  PROVE  BufferGood(Take(p, n))
<1> DEFINE w == p.writes
           off == w[1].off
           x == [w[1] EXCEPT !.off = off + n]
           v == [w EXCEPT ![1] = x]
           out == [k \in 1 .. n |-> p.sendbuf[off + k]]
           q == [p EXCEPT !.writes = v, !.wire = p.wire \o out]
<1>1. /\ w \in WriteQueue /\ 1 \in DOMAIN w /\ w[1] \in [len : Nat, off : Nat] /\ DOMAIN w = 1 .. Len(w)
      /\ Len(w) \in Nat
  <2>1. w \in WriteQueue /\ w # <<>>
    BY Zenon DEF PeerType, WriteQueue
  <2> HIDE DEF w
  <2> QED
    BY <2>1, QueueElements, Zenon DEF WriteQueue
<1>2. w[1].len \in Nat /\ off \in Nat /\ off <= w[1].len /\ w[1].len <= SENDBUF_SIZE /\ SENDBUF_SIZE \in Nat
  BY <1>1, UvAssumption, Zenon DEF QueueGood
<1>3. n \in Nat /\ off + n <= w[1].len
  BY <1>2 DEF Amounts
<1>4. x \in [len : Nat, off : Nat] /\ x.len = w[1].len /\ x.off = off + n
  BY <1>1, <1>2, <1>3
<1>5. out \in Seq(Octet)
  <2>1. \A k \in 1 .. n : off + k \in 1 .. SENDBUF_SIZE
    BY <1>2, <1>3
  <2>2. out \in [1 .. n -> Octet]
    BY <2>1, Zenon DEF PeerType
  <2> QED
    BY <1>3, <2>2, IsASeq
<1>6. p.wire \o out \in Seq(Octet)
  BY <1>5 DEF PeerType
<1>7. Take(p, n) = q
  BY Zenon DEF Take
<1> HIDE DEF x, out
<1>8. v \in WriteQueue /\ DOMAIN v = DOMAIN w /\ Len(v) = Len(w) /\ v # <<>>
  BY <1>1, <1>4 DEF WriteQueue
<1>9. QueueGood(v)
  <2> SUFFICES ASSUME NEW i \in DOMAIN w
               PROVE  v[i].off <= v[i].len /\ v[i].len <= SENDBUF_SIZE /\ (i > 1 => v[i].off = 0)
    BY <1>8, Zenon DEF QueueGood
  <2>1. CASE i = 1
    BY <1>1, <1>2, <1>3, <1>4, <2>1
  <2>2. CASE i # 1
    BY <1>1, <2>2, Zenon DEF QueueGood
  <2> QED
    BY <2>1, <2>2, Zenon
<1> HIDE DEF v
<1>10. q \in PeerType
  BY <1>6, <1>8, Zenon DEF PeerType, WriteQueue
<1>11. /\ q.writes = v /\ q.handle = p.handle /\ q.state = p.state /\ q.sendbuf_end = p.sendbuf_end
  BY Zenon DEF PeerType
<1> QED
  BY <1>7, <1>8, <1>9, <1>10, <1>11, Zenon DEF BufferGood

\* uv_write appends a request, and begins it if it is the only one.
LEMMA WriteQueued ==
  ASSUME NEW p \in PeerType, QueueGood(p.writes), p.handle = "open", p.sendbuf_end <= SENDBUF_SIZE,
         p.state = "INITIAL_ACK" => p.writes = <<>>,
         NEW len \in Nat, len <= SENDBUF_SIZE, NEW q \in uv_write(p, len)
  PROVE  BufferGood(q)
<1> DEFINE x == [len |-> len, off |-> 0]
           v == Append(p.writes, x)
           m == [p EXCEPT !.writes = v]
<1>1. p.writes \in WriteQueue /\ x \in [len : Nat, off : Nat]
  BY Zenon DEF PeerType, WriteQueue
<1>2. IF p.writes = <<>> THEN \E n \in Amounts(m) : q = Take(m, n) ELSE q = m
  BY Zenon DEF uv_write, Request
<1>3. x.off = 0 /\ x.len = len
  BY Zenon
<1> HIDE DEF x
<1>4. /\ v \in WriteQueue /\ v # <<>> /\ Len(v) = Len(p.writes) + 1 /\ DOMAIN v = 1 .. Len(p.writes) + 1
      /\ Len(p.writes) \in Nat
  BY <1>1 DEF WriteQueue
<1>5. QueueGood(v)
  <2> SUFFICES ASSUME NEW i \in 1 .. Len(p.writes) + 1
               PROVE  v[i].off <= v[i].len /\ v[i].len <= SENDBUF_SIZE /\ (i > 1 => v[i].off = 0)
    BY <1>4, Zenon DEF QueueGood
  <2>1. CASE i = Len(p.writes) + 1
    <3>1. v[i] = x
      BY <1>1, <2>1 DEF WriteQueue
    <3> QED
      BY <1>3, <3>1
  <2>2. CASE i # Len(p.writes) + 1
    <3>1. i \in DOMAIN p.writes /\ v[i] = p.writes[i]
      BY <1>1, <1>4, <2>2 DEF WriteQueue
    <3> QED
      BY <3>1, Zenon DEF QueueGood
  <2> QED
    BY <2>1, <2>2, Zenon
<1>6. p.writes = <<>> => Len(v) = 1
  BY <1>4
<1> HIDE DEF v
<1>7. m \in PeerType
  BY <1>4, Zenon DEF PeerType, WriteQueue
<1>8. m.writes = v /\ m.handle = "open" /\ m.state = p.state /\ m.sendbuf_end = p.sendbuf_end
  BY Zenon DEF PeerType
<1> HIDE DEF m
<1>9. BufferGood(m)
  BY <1>4, <1>5, <1>6, <1>7, <1>8, Zenon DEF BufferGood
<1> QED
  BY <1>2, <1>4, <1>5, <1>6, <1>7, <1>8, <1>9, TakeGood, Zenon

\* The loop of on_peer_read leaves all but the state and the buffer alone.
LEMMA ChunkOutside ==
  ASSUME NEW p \in Reader, NEW s \in Seq(Octet)
  PROVE  FoldLeft(Step, p, s) \in Reader /\ SameOutside(FoldLeft(Step, p, s), p)
<1> DEFINE n == Len(s)
           h == Chunk(p, s)
           I == {i \in Nat : i <= n => h[UpTo(i)] \in Reader /\ SameOutside(h[UpTo(i)], p)}
<1>1. n \in Nat /\ DOMAIN s = 1 .. n /\ \A i \in 1 .. n : s[i] \in Octet
  OBVIOUS
<1>2. h[UpTo(0)] = p /\ \A i \in Nat : i < n => h[UpTo(i + 1)] = Step(h[UpTo(i)], s[i + 1])
  BY ChunkSteps
<1>3. FoldLeft(Step, p, s) = h[UpTo(n)]
  BY <1>1, ChunkUnfolds, Zenon DEF UpTo
<1> HIDE DEF n, h
<1>4. 0 \in I
  BY <1>2, Zenon DEF SameOutside
<1>5. ASSUME NEW i \in Nat, i \in I PROVE i + 1 \in I
  <2> SUFFICES ASSUME i + 1 <= n PROVE h[UpTo(i + 1)] \in Reader /\ SameOutside(h[UpTo(i + 1)], p)
    OBVIOUS
  <2>1. i < n /\ i <= n /\ i + 1 \in 1 .. n
    BY <1>1
  <2>2. h[UpTo(i)] \in Reader /\ SameOutside(h[UpTo(i)], p)
    BY <1>5, <2>1, Zenon
  <2>3. h[UpTo(i + 1)] = Step(h[UpTo(i)], s[i + 1]) /\ s[i + 1] \in Octet
    BY <1>1, <1>2, <2>1, Zenon
  <2>4. h[UpTo(i + 1)] \in Reader /\ SameOutside(h[UpTo(i + 1)], h[UpTo(i)])
    BY <2>2, <2>3, StepType, Zenon
  <2> QED
    BY <2>2, <2>4, Zenon DEF SameOutside
<1> HIDE DEF I
<1>6. n \in I
  BY <1>1, <1>4, <1>5, SetInduction
<1> QED
  BY <1>1, <1>3, <1>6 DEF I

LEMMA BufferConnected ==
  ASSUME NEW c \in Client, on_peer_connected(c)
  PROVE  \E q : BufferGood(q) /\ peer' = [peer EXCEPT ![c] = q]
<1> DEFINE z == [k \in 1 .. SENDBUF_SIZE |-> 0]
           buf == [z EXCEPT ![1] = Star]
           u == [Unconnected EXCEPT !.handle = "open", !.sendbuf = buf, !.sendbuf_end = 1]
<1>1. PICK q \in uv_write(u, 1) : peer' = [peer EXCEPT ![c] = q]
  BY Zenon DEF on_peer_connected, Becomes, Unconnected
<1>2. buf \in [1 .. SENDBUF_SIZE -> Octet] /\ 1 <= SENDBUF_SIZE /\ 1 \in Nat
  BY UvAssumption DEF Octet, Star
<1> HIDE DEF buf
<1>3. u \in PeerType
  BY <1>2, UnconnectedType, Zenon DEF PeerType
<1>4. u.writes = <<>> /\ u.sendbuf_end = 1 /\ u.handle = "open"
  BY UnconnectedType, Zenon DEF PeerType
<1> HIDE DEF u
<1>5. QueueGood(u.writes) /\ u.sendbuf_end <= SENDBUF_SIZE
  BY <1>2, <1>4 DEF QueueGood
<1> QED
  BY <1>1, <1>2, <1>3, <1>4, <1>5, WriteQueued, Zenon

\* The callback of the first request takes it off the queue.
LEMMA BufferCallback ==
  ASSUME NEW c \in Client, BufferGood(peer[c]), WriteCallback(c)
  PROVE  \E q : BufferGood(q) /\ peer' = [peer EXCEPT ![c] = q]
<1> DEFINE p == peer[c]
           t == Tail(p.writes)
<1>1. p \in PeerType /\ p.writes # <<>> /\ p.handle = "open" /\ QueueGood(p.writes)
  BY Zenon DEF WriteCallback, Finished, BufferGood
<1>2. p.writes \in WriteQueue
  BY <1>1, Zenon DEF PeerType, WriteQueue
<1>3. /\ t \in WriteQueue /\ QueueGood(t)
  <2> DEFINE w == p.writes
  <2>1. /\ t \in WriteQueue /\ Len(t) = Len(w) - 1 /\ Len(w) \in Nat /\ Len(w) > 0
        /\ \A i \in 1 .. Len(t) : t[i] = w[i + 1]
    BY <1>1, <1>2 DEF WriteQueue
  <2> HIDE DEF w, t
  <2>2. \A i \in DOMAIN t : i + 1 \in DOMAIN w /\ i + 1 > 1 /\ t[i] = w[i + 1] /\ w[i + 1] \in [len : Nat, off : Nat]
    <3> DEFINE R == [len : Nat, off : Nat]
    <3>1. DOMAIN w = 1 .. Len(w) /\ DOMAIN t = 1 .. Len(t) /\ \A i \in DOMAIN w : w[i] \in R
      BY <1>2, <2>1, QueueElements, Zenon DEF WriteQueue, w
    <3> HIDE DEF R
    <3> QED
      BY <2>1, <3>1 DEF R
  <2>3. QueueGood(w)
    BY <1>1, Zenon DEF w
  <2> QED
    BY <2>1, <2>2, <2>3 DEF QueueGood
<1> HIDE DEF t
<1>4. PICK q :
        /\ peer' = [peer EXCEPT ![c] = q]
        /\ \/ q = p
           \/ q = [p EXCEPT !.writes = t, !.sendbuf_end = 0, !.state = "WAIT_FOR_MSG"]
           \/ p.state # "INITIAL_ACK" /\ q = [p EXCEPT !.writes = t, !.sendbuf_end = 0]
  <2>1. \/ peer' = [peer EXCEPT ![c] = p]
        \/ peer' = [peer EXCEPT ![c] = on_wrote_init_ack(p)]
        \/ p.state # "INITIAL_ACK" /\ peer' = [peer EXCEPT ![c] = on_wrote_buf(p)]
    BY Zenon DEF WriteCallback, Becomes
  <2> QED
    BY <2>1, Zenon DEF on_wrote_init_ack, on_wrote_buf, t
<1>5. CASE q = p
  BY <1>4, <1>5, Zenon
<1>6. 0 \in Nat /\ 0 <= SENDBUF_SIZE
  BY UvAssumption
<1>7. CASE q = [p EXCEPT !.writes = t, !.sendbuf_end = 0, !.state = "WAIT_FOR_MSG"]
  <2>1. q \in PeerType
    BY <1>1, <1>3, <1>6, <1>7, Zenon DEF PeerType, WriteQueue
  <2>2. q.handle = "open" /\ q.writes = t /\ q.sendbuf_end = 0 /\ q.state = "WAIT_FOR_MSG"
    BY <1>1, <1>7, Zenon DEF PeerType
  <2> QED
    BY <1>3, <1>4, <1>6, <2>1, <2>2, Zenon DEF BufferGood
<1>8. CASE p.state # "INITIAL_ACK" /\ q = [p EXCEPT !.writes = t, !.sendbuf_end = 0]
  <2>1. q \in PeerType
    BY <1>1, <1>3, <1>6, <1>8, Zenon DEF PeerType, WriteQueue
  <2>2. q.handle = "open" /\ q.writes = t /\ q.sendbuf_end = 0 /\ q.state # "INITIAL_ACK"
    BY <1>1, <1>8, Zenon DEF PeerType
  <2> QED
    BY <1>3, <1>4, <1>6, <2>1, <2>2, Zenon DEF BufferGood
<1> QED
  BY <1>4, <1>5, <1>7, <1>8, Zenon

LEMMA BufferRead ==
  ASSUME NEW c \in Client, BufferGood(peer[c]), ReadData(c)
  PROVE  peer' = peer \/ \E q : BufferGood(q) /\ peer' = [peer EXCEPT ![c] = q]
<1> DEFINE p == peer[c]
<1>1. p \in Reader /\ p.handle = "open" /\ QueueGood(p.writes)
  BY Zenon DEF ReadData, Reader, BufferGood
<1>2. p.got \in Seq(Octet) /\ p.sending \in Seq(Octet) /\ SENDBUF_SIZE \in Nat
  BY <1>1, UvAssumption, Zenon DEF Reader, PeerType
<1>3. PICK n \in 1 .. Len(p.sending) :
        LET s == SubSeq(p.sending, 1, n)
            r == [FoldLeft(Step, p, s) EXCEPT !.got = @ \o s, !.sending = SubSeq(@, n + 1, Len(@))]
        IN IF Overflows(r) THEN peer' = peer
           ELSE \E q \in IF r.sendbuf_end > 0 THEN uv_write(r, r.sendbuf_end) ELSE {r} :
                  peer' = [peer EXCEPT ![c] = q]
  BY Zenon DEF ReadData, Becomes
<1> DEFINE s == SubSeq(p.sending, 1, n)
           d == FoldLeft(Step, p, s)
           r == [d EXCEPT !.got = @ \o s, !.sending = SubSeq(@, n + 1, Len(@))]
<1>4. s \in Seq(Octet)
  BY <1>2
<1>5. d \in Reader /\ SameOutside(d, p)
  BY <1>1, <1>4, ChunkOutside, Zenon
<1>6. IF Overflows(r) THEN peer' = peer
      ELSE \E q \in IF r.sendbuf_end > 0 THEN uv_write(r, r.sendbuf_end) ELSE {r} :
             peer' = [peer EXCEPT ![c] = q]
  BY <1>3, Zenon
<1> HIDE DEF d, s
<1>7. d \in PeerType /\ d.state # "INITIAL_ACK"
  BY <1>5, Zenon DEF Reader
<1>8. r = [d EXCEPT !.got = p.got \o s, !.sending = SubSeq(p.sending, n + 1, Len(p.sending))]
  BY <1>5, <1>7, Zenon DEF SameOutside
<1>9. p.got \o s \in Seq(Octet) /\ SubSeq(p.sending, n + 1, Len(p.sending)) \in Seq(Octet)
  BY <1>2, <1>4
<1> HIDE DEF r
<1>10. r \in PeerType
  BY <1>7, <1>8, <1>9, Zenon DEF PeerType
<1>11. r.handle = "open" /\ r.state # "INITIAL_ACK" /\ r.writes = p.writes /\ r.sendbuf_end \in Nat
  <2>1. r.handle = d.handle /\ r.state = d.state /\ r.writes = d.writes
    BY <1>7, <1>8, Zenon DEF PeerType
  <2> QED
    BY <1>1, <1>5, <1>7, <1>10, <2>1, Zenon DEF SameOutside, PeerType
<1>12. CASE Overflows(r)
  BY <1>6, <1>12, Zenon
<1>13. CASE ~Overflows(r)
  <2>1. r.sendbuf_end <= SENDBUF_SIZE
    BY <1>2, <1>11, <1>13 DEF Overflows
  <2>2. PICK q \in IF r.sendbuf_end > 0 THEN uv_write(r, r.sendbuf_end) ELSE {r} : peer' = [peer EXCEPT ![c] = q]
    BY <1>6, <1>13, Zenon
  <2>3. CASE r.sendbuf_end > 0
    BY <1>1, <1>10, <1>11, <2>1, <2>2, <2>3, WriteQueued, Zenon
  <2>4. CASE ~(r.sendbuf_end > 0)
    <3>1. BufferGood(r)
      BY <1>1, <1>10, <1>11, <2>1, Zenon DEF BufferGood
    <3> QED
      BY <2>2, <2>4, <3>1, Zenon
  <2> QED
    BY <2>3, <2>4, Zenon
<1> QED
  BY <1>12, <1>13, Zenon

LEMMA BufferOther ==
  ASSUME NEW c \in Client, BufferGood(peer[c]),
         \/ ClientConnects(c) \/ ClientLeaves(c) \/ ReadEnd(c) \/ WriteMore(c)
         \/ \E b \in Byte : ClientSends(c, b)
  PROVE  peer' = peer \/ \E q : BufferGood(q) /\ peer' = [peer EXCEPT ![c] = q]
<1> DEFINE p == peer[c]
<1>1. p \in PeerType
  BY Zenon DEF BufferGood
<1>2. ASSUME NEW q, q \in PeerType, q.writes = p.writes, q.sendbuf_end = p.sendbuf_end, q.state = p.state,
             q.handle = p.handle \/ (p.handle # "open" /\ q.handle # "open") \/ (p.writes = <<>> /\ q.handle = "closed")
      PROVE  BufferGood(q)
  BY <1>2, Zenon DEF BufferGood
<1>3. CASE ClientConnects(c)
  <2> DEFINE q == [p EXCEPT !.handle = "backlog"]
  <2>1. peer' = [peer EXCEPT ![c] = q] /\ p.handle = "none"
    BY <1>3, Zenon DEF ClientConnects
  <2>2. /\ q \in PeerType /\ q.writes = p.writes /\ q.sendbuf_end = p.sendbuf_end /\ q.state = p.state
        /\ q.handle = "backlog"
    BY <1>1, Zenon DEF PeerType
  <2> QED
    BY <1>2, <2>1, <2>2, Zenon
<1>4. CASE ClientLeaves(c)
  <2> DEFINE q == [p EXCEPT !.gone = TRUE]
  <2>1. peer' = [peer EXCEPT ![c] = q]
    BY <1>4, Zenon DEF ClientLeaves
  <2>2. /\ q \in PeerType /\ q.writes = p.writes /\ q.sendbuf_end = p.sendbuf_end /\ q.state = p.state
        /\ q.handle = p.handle
    BY <1>1, Zenon DEF PeerType
  <2> QED
    BY <1>2, <2>1, <2>2, Zenon
<1>5. ASSUME NEW b \in Byte, ClientSends(c, b)
      PROVE  \E q : BufferGood(q) /\ peer' = [peer EXCEPT ![c] = q]
  <2> DEFINE s == Append(p.sending, b)
             q == [p EXCEPT !.sending = s]
  <2>1. peer' = [peer EXCEPT ![c] = q]
    BY <1>5, Zenon DEF ClientSends
  <2>2. s \in Seq(Octet)
    BY <1>1, UvAssumption DEF PeerType
  <2> HIDE DEF s
  <2>3. /\ q \in PeerType /\ q.writes = p.writes /\ q.sendbuf_end = p.sendbuf_end /\ q.state = p.state
        /\ q.handle = p.handle
    BY <1>1, <2>2, Zenon DEF PeerType
  <2> QED
    BY <1>2, <2>1, <2>3, Zenon
<1>6. CASE ReadEnd(c)
  <2> DEFINE q == [p EXCEPT !.handle = "closed", !.sending = <<>>]
  <2>1. peer' = peer \/ (p.writes = <<>> /\ peer' = [peer EXCEPT ![c] = q])
    BY <1>6, Zenon DEF ReadEnd, Becomes
  <2>2. /\ q \in PeerType /\ q.writes = p.writes /\ q.sendbuf_end = p.sendbuf_end /\ q.state = p.state
        /\ q.handle = "closed"
    BY <1>1, EmptySeq, Zenon DEF PeerType
  <2> QED
    BY <1>2, <2>1, <2>2, Zenon
<1>7. CASE WriteMore(c)
  <2>1. PICK n \in Amounts(p) : peer' = [peer EXCEPT ![c] = Take(p, n)]
    BY <1>7, Zenon DEF WriteMore, Becomes
  <2>2. /\ p.writes # <<>> /\ QueueGood(p.writes) /\ p.handle = "open" /\ p.sendbuf_end <= SENDBUF_SIZE
        /\ (p.state = "INITIAL_ACK" => Len(p.writes) = 1)
    BY <1>7, Zenon DEF WriteMore, BufferGood
  <2> QED
    BY <1>1, <2>1, <2>2, TakeGood, Zenon
<1> QED
  BY <1>3, <1>4, <1>5, <1>6, <1>7, Zenon

LEMMA BufferInvInit == Init => BufferInv
<1> SUFFICES ASSUME Init PROVE BufferInv
  BY Zenon
<1>1. Unconnected.sendbuf_end <= SENDBUF_SIZE
  BY UvAssumption DEF Unconnected
<1>2. QueueGood(<<>>)
  BY DEF QueueGood
<1>3. BufferGood(Unconnected)
  BY <1>1, <1>2, UnconnectedType, Zenon DEF BufferGood
<1> QED
  BY <1>3, Zenon DEF BufferInv, Init

LEMMA BufferInvNext == BufferInv /\ [Next]_vars => BufferInv'
<1> SUFFICES ASSUME BufferInv, [Next]_vars PROVE BufferInv'
  BY Zenon
<1>1. CASE UNCHANGED vars
  BY <1>1, Zenon DEF vars, BufferInv
<1>2. CASE Next
  <2>1. PICK c \in Client :
          \/ on_peer_connected(c) \/ WriteCallback(c) \/ ReadData(c)
          \/ \/ ClientConnects(c) \/ ClientLeaves(c) \/ ReadEnd(c) \/ WriteMore(c)
             \/ \E b \in Byte : ClientSends(c, b)
    BY <1>2, Zenon DEF Next, Loop
  <2>2. DOMAIN peer = Client /\ \A e \in Client : BufferGood(peer[e])
    BY Zenon DEF BufferInv
  <2>3. peer' = peer \/ \E q : BufferGood(q) /\ peer' = [peer EXCEPT ![c] = q]
    BY <2>1, <2>2, BufferConnected, BufferCallback, BufferRead, BufferOther, Zenon
  <2>4. DOMAIN peer' = Client /\ \A e \in Client : BufferGood(peer'[e])
    BY <2>2, <2>3, Zenon
  <2> QED
    BY <2>4, Zenon DEF BufferInv
<1> QED
  BY <1>1, <1>2, Zenon

\* uv_write, on_wrote_buf and on_client_closed of uv_server.c: for any number of clients,
\* any input and any pace of reading, every write queued stays inside the buffer of a peer
\* state that is still allocated, whatever is sent wrong to a slow reader.
THEOREM QueuedWritesAreSafe == BothSpec => []QueuedWritesSafe
<1>1. BufferInv => QueuedWritesSafe
  BY Zenon DEF BufferInv, BufferGood, QueueGood, QueuedWritesSafe
<1>2. BothInit => BufferInv
  BY BufferInvInit, Zenon DEF BothInit
<1>3. BufferInv /\ [BothNext]_<<which, vars, isprime_vars>> => BufferInv'
  BY BufferInvNext, Zenon DEF BothNext
<1> QED
  BY <1>1, <1>2, <1>3, PTL DEF BothSpec

=============================================================================
