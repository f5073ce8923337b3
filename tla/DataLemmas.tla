----------------------------- MODULE DataLemmas -----------------------------
(***************************************************************************)
(* What the proofs of several components need to know about data:          *)
(* induction, folds and sums over finite sets, ranks, the reference echo   *)
(* of Framing and how it grows with its input, buffers and prefixes.       *)
(***************************************************************************)
EXTENDS Framing, FiniteSetsExt, SequenceTheorems, FiniteSetTheorems, WellFoundedInduction, TLAPS

-----------------------------------------------------------------------------
(***************************************************************************)
(* Induction, in forms that need no operator parameter.                    *)
(***************************************************************************)

\* Every nonempty set of naturals has a least element: induction over the
\* naturals, in the form that needs no operator parameter.
LEMMA LeastNat ==
  ASSUME NEW T, T \subseteq Nat, T # {}
  PROVE  \E x \in T : \A y \in T : x <= y
<1> DEFINE R == OpToRel(<, Nat)
<1>1. IsWellFoundedOn(R, Nat)
  BY NatLessThanWellFounded
<1>2. \A x, y \in Nat : <<y, x>> \in R <=> y < x
  BY DEF OpToRel
<1> HIDE DEF R
<1>3. PICK x \in T : \A y \in T : ~(<<y, x>> \in R)
  BY <1>1, WFMin, Zenon
<1>4. \A y \in T : ~(y < x)
  BY <1>2, <1>3, Zenon
<1>5. \A y \in T : x <= y
  BY <1>4
<1> QED BY <1>5

\* A set that holds 0 and the successor of each number it holds holds them all.
LEMMA SetInduction ==
  ASSUME NEW S, 0 \in S, \A n \in Nat : n \in S => n + 1 \in S
  PROVE  \A n \in Nat : n \in S
<1> DEFINE T == Nat \ S
<1>1. SUFFICES ASSUME T # {} PROVE FALSE
  OBVIOUS
<1>2. PICK n \in T : \A y \in T : n <= y
  BY <1>1, LeastNat, Zenon
<1>3. n \in Nat /\ n # 0 /\ n \notin S
  BY <1>2
<1>4. n - 1 \in Nat /\ n - 1 \notin T
  BY <1>2, <1>3
<1>5. n - 1 + 1 \in S /\ n - 1 + 1 = n
  BY <1>3, <1>4
<1> QED
  BY <1>3, <1>5

\* Induction over the subsets of a finite set, one element at a time.
LEMMA FiniteInduction ==
  ASSUME NEW S, IsFiniteSet(S), NEW P, {} \in P,
         \A T \in SUBSET S, x \in S : x \notin T /\ T \in P => T \cup {x} \in P
  PROVE  \A T \in SUBSET S : T \in P
<1> DEFINE N == {n \in Nat : \A T \in SUBSET S : Cardinality(T) = n => T \in P}
<1>1. \A T \in SUBSET S : IsFiniteSet(T) /\ Cardinality(T) \in Nat
  BY FS_Subset, FS_CardinalityType
<1>2. 0 \in N
  <2>1. \A T \in SUBSET S : Cardinality(T) = 0 => T = {}
    BY <1>1, FS_EmptySet
  <2> QED
    BY <2>1
<1>3. ASSUME NEW n \in Nat, n \in N PROVE n + 1 \in N
  <2> SUFFICES ASSUME NEW T \in SUBSET S, Cardinality(T) = n + 1 PROVE T \in P
    OBVIOUS
  <2>1. T # {}
    <3>1. Cardinality({}) = 0 /\ n + 1 # 0
      BY FS_EmptySet
    <3> QED
      BY <3>1, Zenon
  <2>2. PICK x \in T : TRUE
    BY <2>1
  <2>3. Cardinality(T \ {x}) = n
    <3>1. Cardinality(T \ {x}) = Cardinality(T) - 1
      BY <1>1, FS_RemoveElement, Zenon
    <3> QED
      BY <3>1
  <2>4. T \ {x} \in P /\ x \in S /\ x \notin T \ {x} /\ T \ {x} \in SUBSET S
    BY <1>3, <2>3
  <2>5. (T \ {x}) \cup {x} \in P
    BY <2>4
  <2>6. (T \ {x}) \cup {x} = T
    OBVIOUS
  <2> QED
    BY <2>5, <2>6, Zenon
<1> HIDE DEF N
<1>4. \A n \in Nat : n \in N
  BY <1>2, <1>3, SetInduction
<1> QED
  BY <1>1, <1>4 DEF N

\* ch takes an element of every nonempty subset of S; step stays within A.
Chooses(ch, S) == \A s \in SUBSET S : s # {} => ch[s] \in s
Steps(step, S, A) == \A x \in S, a \in A : step[x][a] \in A

\* iter folds step over the subsets of S.
FoldOf(iter, S, base, ch, step) ==
  iter = [s \in SUBSET S |-> IF s = {} THEN base ELSE step[ch[s]][iter[s \ {ch[s]}]]]

\* A fold over the subsets of a finite set S, which takes the element ch[s] out of s, is
\* well defined: there is such a function, and its values are of the fold's type.
LEMMA FoldExists ==
  ASSUME NEW S, IsFiniteSet(S), NEW A, NEW base \in A, NEW ch, Chooses(ch, S),
         NEW step, Steps(step, S, A)
  PROVE  \E iter \in [SUBSET S -> A] : FoldOf(iter, S, base, ch, step)
<1> USE DEF Chooses, Steps
<1> DEFINE D(n) == {s \in SUBSET S : Cardinality(s) <= n}
           Rest(s) == s \ {ch[s]}
           F(g, s) == IF s = {} THEN base ELSE step[ch[s]][g[Rest(s)]]
           N == {n \in Nat : \E g \in [D(n) -> A] : \A s \in D(n) : g[s] = F(g, s)}
<1>1. \A s \in SUBSET S : IsFiniteSet(s) /\ Cardinality(s) \in Nat /\ (Cardinality(s) = 0 <=> s = {})
  BY FS_Subset, FS_CardinalityType, FS_EmptySet
<1>2. \A s \in SUBSET S : s # {} => Rest(s) \in SUBSET S /\ Cardinality(Rest(s)) = Cardinality(s) - 1 /\ ch[s] \in S
  BY <1>1, FS_RemoveElement
<1>3. \A n \in Nat : \A s \in D(n + 1) : s # {} => Rest(s) \in D(n)
  BY <1>1, <1>2
<1>4. \A n \in Nat : \A s \in D(n) : s # {} => Rest(s) \in D(n)
  BY <1>1, <1>2
<1>5. \A n \in Nat : D(n) \subseteq D(n + 1) /\ {} \in D(n) 
  BY <1>1
<1>6. \A s \in D(0) : s = {}
  BY <1>1
<1>7. 0 \in N
  <2> DEFINE g == [s \in D(0) |-> base]
  <2>1. g \in [D(0) -> A] /\ \A s \in D(0) : g[s] = F(g, s)
    BY <1>6
  <2> QED
    BY <2>1, Zenon
<1>8. ASSUME NEW n \in Nat, n \in N PROVE n + 1 \in N
  <2>1. PICK g \in [D(n) -> A] : \A s \in D(n) : g[s] = F(g, s)
    BY <1>8, Zenon
  <2> HIDE DEF D, Rest
  <2> DEFINE h == [s \in D(n + 1) |-> F(g, s)]
  <2>2. \A s \in D(n + 1) : h[s] \in A
    <3> SUFFICES ASSUME NEW s \in D(n + 1) PROVE F(g, s) \in A
      OBVIOUS
    <3>1. s # {} => ch[s] \in S /\ g[Rest(s)] \in A
      BY <1>2, <1>3, <2>1 DEF D
    <3> QED
      BY <3>1
  <2>3. \A s \in D(n) : h[s] = g[s]
    BY <1>5, <2>1
  <2>4. \A s \in D(n + 1) : h[s] = F(h, s)
    <3> SUFFICES ASSUME NEW s \in D(n + 1) PROVE F(g, s) = F(h, s)
      OBVIOUS
    <3> HIDE DEF h
    <3>1. s # {} => g[Rest(s)] = h[Rest(s)]
      BY <1>3, <2>3
    <3> QED
      BY <3>1
  <2>5. h \in [D(n + 1) -> A]
    BY <2>2
  <2> HIDE DEF h, F
  <2>6. n + 1 \in Nat
    OBVIOUS
  <2> QED
    BY <2>4, <2>5, <2>6 
<1> HIDE DEF N
<1>9. \A n \in Nat : n \in N
  BY <1>7, <1>8, SetInduction
<1>10. Cardinality(S) \in Nat /\ D(Cardinality(S)) = SUBSET S
  <2>1. \A s \in SUBSET S : Cardinality(s) <= Cardinality(S)
    BY FS_Subset
  <2> QED
    BY <2>1, <1>1
<1> HIDE DEF D
<1>11. PICK g \in [SUBSET S -> A] : \A s \in SUBSET S : g[s] = F(g, s)
  <2> DEFINE c == Cardinality(S)
  <2>1. c \in N /\ D(c) = SUBSET S
    BY <1>9, <1>10
  <2> HIDE DEF c, F
  <2>2. \E g \in [D(c) -> A] : \A s \in D(c) : g[s] = F(g, s)
    BY <2>1, Zenon DEF N
  <2> QED
    BY <2>1, <2>2
<1>12. g = [s \in SUBSET S |-> F(g, s)]
  BY <1>11, Zenon
<1> QED
  BY <1>12, Zenon DEF FoldOf

\* The largest element of a nonempty set of numbers up to n.
LEMMA MaxIsLargest ==
  ASSUME NEW n \in Nat, NEW s \in SUBSET (1 .. n), s # {}
  PROVE  Max(s) \in s /\ \A y \in s : y <= Max(s)
<1> DEFINE U == {k \in Nat : \A y \in s : y <= k}
<1>1. U \subseteq Nat /\ n \in U
  OBVIOUS
<1>2. PICK m \in U : \A k \in U : m <= k
  BY <1>1, LeastNat, Zenon
<1>3. m \in Nat /\ \A y \in s : y <= m
  BY <1>2
<1>4. m \in s
  <2> SUFFICES ASSUME m \notin s PROVE FALSE
    OBVIOUS
  <2>1. \A y \in s : y \in Nat /\ y >= 1 /\ y <= m /\ y # m
    BY <1>3
  <2> HIDE DEF U
  <2>2. m >= 1 /\ m - 1 \in Nat
    <3>1. PICK y \in s : TRUE
      BY Zenon
    <3> QED
      BY <1>3, <2>1, <3>1
  <2>3. ASSUME NEW y \in s PROVE y <= m - 1
    <3>1. y \in Nat /\ y <= m /\ y # m /\ m \in Nat
      BY <1>3, <2>1
    <3> QED
      BY <3>1
  <2>4. m - 1 \in U
    BY <2>2, <2>3 DEF U
  <2> QED
    BY <1>2, <1>3, <2>4
<1>5. m \in s /\ \A y \in s : m >= y
  BY <1>3, <1>4
<1> QED
  BY <1>5, Zenon DEF Max

UpTo(i) == 1 .. i

LEMMA MaxUpTo ==
  ASSUME NEW n \in Nat, NEW i \in Nat, i < n
  PROVE  /\ Max(UpTo(i + 1)) = i + 1 /\ UpTo(i + 1) \ {i + 1} = UpTo(i)
         /\ UpTo(i + 1) # {} /\ UpTo(i + 1) \in SUBSET (1 .. n)
<1>1. 1 .. i + 1 # {} /\ i + 1 \in Nat /\ 1 .. i + 1 \in SUBSET (1 .. n)
  OBVIOUS
<1>2. Max(1 .. i + 1) \in 1 .. i + 1 /\ \A y \in 1 .. i + 1 : y <= Max(1 .. i + 1)
  BY <1>1, MaxIsLargest, Zenon
<1> QED
  BY <1>1, <1>2 DEF UpTo

\* g folds step from the left over the positions up to n.
LeftFold(g, n, base, step) ==
  \A t \in SUBSET (1 .. n) : g[t] = IF t = {} THEN base ELSE step[Max(t)][g[t \ {Max(t)}]]

\* A fold from the left of n elements is well defined.
LEMMA FoldLeftExists ==
  ASSUME NEW n \in Nat, NEW A, NEW base \in A, NEW step, Steps(step, 1 .. n, A)
  PROVE  \E g \in [SUBSET (1 .. n) -> A] : LeftFold(g, n, base, step)
<1> DEFINE S == 1 .. n
           ch == [s \in SUBSET S |-> Max(s)]
<1>1. IsFiniteSet(S)
  BY FS_Interval
<1>2. Chooses(ch, S)
  BY MaxIsLargest, Zenon DEF Chooses
<1>3. \A s \in SUBSET S : ch[s] = Max(s)
  OBVIOUS
<1> HIDE DEF ch, S
<1>4. PICK g \in [SUBSET S -> A] : FoldOf(g, S, base, ch, step)
  BY <1>1, <1>2, FoldExists, Zenon DEF S
<1>5. \A t \in SUBSET S : g[t] = IF t = {} THEN base ELSE step[Max(t)][g[t \ {Max(t)}]]
  BY <1>3, <1>4, Zenon DEF FoldOf
<1> QED
  BY <1>4, <1>5, Zenon DEF LeftFold, S

-----------------------------------------------------------------------------
(***************************************************************************)
(* Sums.                                                                   *)
(***************************************************************************)

\* The sum of f over S, as the folds of the library compute it: whichever element they
\* choose first.
Sum(f, S) == MapThenSumSet(LAMBDA x : f[x], S)

Some(s) == CHOOSE x \in s : TRUE
Partial(f, S) ==
  CHOOSE iter : iter = [s \in SUBSET S |-> IF s = {} THEN 0 ELSE f[Some(s)] + iter[s \ {Some(s)}]]

IntOn(f, S) == \A x \in S : f[x] \in Int

\* g adds f up over the subsets of S.
AddsUp(g, f, S) ==
  g[{}] = 0 /\ \A s \in SUBSET S : s # {} => g[s] = f[Some(s)] + g[s \ {Some(s)}]

\* Two functions that do so agree.
LEMMA FoldsAgree ==
  ASSUME NEW S, IsFiniteSet(S), NEW f, NEW g, NEW h, AddsUp(g, f, S), AddsUp(h, f, S)
  PROVE  \A s \in SUBSET S : g[s] = h[s]
<1> USE DEF AddsUp
<1> DEFINE N == {n \in Nat : \A s \in SUBSET S : Cardinality(s) = n => g[s] = h[s]}
<1>1. \A s \in SUBSET S : IsFiniteSet(s) /\ Cardinality(s) \in Nat /\ (Cardinality(s) = 0 <=> s = {})
  BY FS_Subset, FS_CardinalityType, FS_EmptySet
<1>2. 0 \in N
  BY <1>1
<1>3. ASSUME NEW n \in Nat, n \in N PROVE n + 1 \in N
  <2> SUFFICES ASSUME NEW s \in SUBSET S, Cardinality(s) = n + 1 PROVE g[s] = h[s]
    OBVIOUS
  <2> DEFINE x == Some(s)
  <2>1. s # {}
    <3>1. n + 1 # 0
      OBVIOUS
    <3> QED
      BY <1>1, <3>1
  <2>2. x \in s
    BY <2>1 DEF Some
  <2> HIDE DEF x
  <2>3. Cardinality(s \ {x}) = n
    <3>1. Cardinality(s \ {x}) = Cardinality(s) - 1
      BY <1>1, <2>2, FS_RemoveElement
    <3> QED
      BY <3>1
  <2>4. g[s \ {x}] = h[s \ {x}]
    BY <1>3, <2>3
  <2> QED
    BY <2>1, <2>4 DEF x
<1> HIDE DEF N
<1>4. \A n \in Nat : n \in N
  BY <1>2, <1>3, SetInduction
<1> QED
  BY <1>1, <1>4 DEF N

\* The partial sums exist and are integers.
LEMMA PartialSums ==
  ASSUME NEW S, IsFiniteSet(S), NEW f, IntOn(f, S)
  PROVE  /\ Sum(f, S) = Partial(f, S)[S] /\ AddsUp(Partial(f, S), f, S)
         /\ \A s \in SUBSET S : Partial(f, S)[s] \in Int
<1> DEFINE ch == [s \in SUBSET S |-> Some(s)]
           step == [x \in S |-> [a \in Int |-> f[x] + a]]
           Body(iter) == [s \in SUBSET S |-> IF s = {} THEN 0 ELSE f[Some(s)] + iter[s \ {Some(s)}]]
<1>1. \A s \in SUBSET S : s # {} => Some(s) \in s
  BY DEF Some
<1>2. Chooses(ch, S)
  BY <1>1 DEF Chooses
<1>3. \A x \in S, a \in Int : step[x][a] = f[x] + a
  OBVIOUS
<1>4. Steps(step, S, Int)
  BY DEF Steps, IntOn
<1>5. \A s \in SUBSET S : ch[s] = Some(s)
  OBVIOUS
<1> HIDE DEF ch, step
<1>6. PICK g \in [SUBSET S -> Int] : FoldOf(g, S, 0, ch, step)
  <2>1. 0 \in Int
    OBVIOUS
  <2> QED
    BY <1>2, <1>4, <2>1, FoldExists, Zenon
<1>7. \A s \in SUBSET S : s # {} => g[s] = f[Some(s)] + g[s \ {Some(s)}]
  <2> SUFFICES ASSUME NEW s \in SUBSET S, s # {} PROVE g[s] = f[Some(s)] + g[s \ {Some(s)}]
    OBVIOUS
  <2>1. g[s] = step[ch[s]][g[s \ {ch[s]}]]
    BY <1>6, Zenon DEF FoldOf
  <2>2. Some(s) \in S /\ s \ {Some(s)} \in SUBSET S /\ g[s \ {Some(s)}] \in Int
    BY <1>1, <1>6
  <2> QED
    BY <1>3, <1>5, <2>1, <2>2, Zenon
<1>8. g[{}] = 0
  BY <1>6 DEF FoldOf
<1>9. g = Body(g)
  <2>1. \A s \in SUBSET S : g[s] = IF s = {} THEN 0 ELSE f[Some(s)] + g[s \ {Some(s)}]
    BY <1>7, <1>8, Zenon
  <2> QED
    BY <1>6, <2>1
<1> DEFINE p == Partial(f, S)
<1>10. p = Body(p)
  <2>1. p = CHOOSE iter : iter = Body(iter)
    BY DEF Partial
  <2> HIDE DEF Body, p
  <2> QED
    BY <1>9, <2>1
<1> HIDE DEF p
<1>11. AddsUp(p, f, S)
  BY <1>10, Zenon DEF AddsUp
<1>12. AddsUp(g, f, S)
  BY <1>7, <1>8 DEF AddsUp
<1>13. \A s \in SUBSET S : g[s] = p[s]
  BY <1>11, <1>12, FoldsAgree
<1>14. Sum(f, S) = p[S]
  BY DEF p, Sum, MapThenSumSet, MapThenFoldSet, Partial, Some
<1>15. \A s \in SUBSET S : p[s] \in Int
  BY <1>6, <1>13
<1> QED
  BY <1>11, <1>14, <1>15 DEF p

\* A subset has the partial sums of the whole.
LEMMA SumOfSubset ==
  ASSUME NEW S, IsFiniteSet(S), NEW f, IntOn(f, S), NEW T \in SUBSET S
  PROVE  Sum(f, T) = Partial(f, S)[T]
<1>1. IsFiniteSet(T) /\ IntOn(f, T)
  BY FS_Subset DEF IntOn
<1>2. Sum(f, T) = Partial(f, T)[T] /\ AddsUp(Partial(f, T), f, T)
  BY <1>1, PartialSums
<1>3. AddsUp(Partial(f, S), f, S)
  BY PartialSums
<1>4. AddsUp(Partial(f, S), f, T)
  BY <1>3 DEF AddsUp
<1>5. \A s \in SUBSET T : Partial(f, T)[s] = Partial(f, S)[s]
  BY <1>1, <1>2, <1>4, FoldsAgree
<1> QED
  BY <1>2, <1>5

\* The sum over the empty set.
LEMMA SumEmpty == \A f : Sum(f, {}) = 0
<1> SUFFICES ASSUME NEW f PROVE Sum(f, {}) = 0
  OBVIOUS
<1>1. IsFiniteSet({}) /\ IntOn(f, {})
  BY FS_EmptySet DEF IntOn
<1> QED
  BY <1>1, PartialSums DEF AddsUp

\* Sums of integers are integers.
LEMMA SumType ==
  ASSUME NEW S, IsFiniteSet(S), NEW f, IntOn(f, S)
  PROVE  Sum(f, S) \in Int
<1>1. S \in SUBSET S
  OBVIOUS
<1> QED
  BY <1>1, PartialSums

\* The order in which the elements are taken does not matter: any may be the first.
LEMMA SumStep ==
  ASSUME NEW S, IsFiniteSet(S), NEW f, IntOn(f, S), NEW x \in S
  PROVE  Sum(f, S) = f[x] + Sum(f, S \ {x})
<1> DEFINE p == Partial(f, S)
           N == {n \in Nat : \A s \in SUBSET S : Cardinality(s) = n =>
                               \A y \in s : p[s] = f[y] + p[s \ {y}]}
<1>1. \A s \in SUBSET S : IsFiniteSet(s) /\ Cardinality(s) \in Nat /\ (Cardinality(s) = 0 <=> s = {})
  BY FS_Subset, FS_CardinalityType, FS_EmptySet
<1>2. \A s \in SUBSET S : p[s] \in Int /\ (s # {} => p[s] = f[Some(s)] + p[s \ {Some(s)}])
  <2>1. AddsUp(p, f, S) /\ \A s \in SUBSET S : p[s] \in Int
    BY PartialSums
  <2> HIDE DEF p
  <2> QED
    BY <2>1 DEF AddsUp
<1> HIDE DEF p
<1>3. 0 \in N
  BY <1>1
<1>4. ASSUME NEW n \in Nat, n \in N PROVE n + 1 \in N
  <2> SUFFICES ASSUME NEW s \in SUBSET S, Cardinality(s) = n + 1, NEW y \in s
               PROVE  p[s] = f[y] + p[s \ {y}]
    OBVIOUS
  <2> DEFINE c == Some(s)
  <2>1. s # {} /\ c \in s
    BY DEF Some
  <2>2. p[s] = f[c] + p[s \ {c}]
    BY <1>2, <2>1
  <2> HIDE DEF c
  <2>3. \A z \in s : Cardinality(s \ {z}) = n
    <3>1. \A z \in s : Cardinality(s \ {z}) = Cardinality(s) - 1
      BY <1>1, FS_RemoveElement
    <3> QED
      BY <3>1
  <2>4. CASE y = c
    BY <2>2, <2>4
  <2>5. CASE y # c
    <3>1. y \in s \ {c} /\ c \in s \ {y} /\ (s \ {c}) \ {y} = (s \ {y}) \ {c}
      BY <2>1, <2>5
    <3>2. p[s \ {c}] = f[y] + p[(s \ {c}) \ {y}]
      BY <1>4, <2>1, <2>3, <3>1
    <3>3. p[s \ {y}] = f[c] + p[(s \ {y}) \ {c}]
      BY <1>4, <2>3, <3>1
    <3> DEFINE rest == p[(s \ {c}) \ {y}]
    <3>4. rest \in Int /\ f[y] \in Int /\ f[c] \in Int
      BY <1>2, <2>1, Zenon DEF IntOn
    <3>5. p[s] = f[c] + (f[y] + rest) /\ p[s \ {y}] = f[c] + rest
      BY <2>2, <3>1, <3>2, <3>3
    <3> HIDE DEF rest
    <3> QED
      BY <3>4, <3>5
  <2> QED
    BY <2>4, <2>5
<1> HIDE DEF N
<1>5. \A n \in Nat : n \in N
  BY <1>3, <1>4, SetInduction
<1>6. p[S] = f[x] + p[S \ {x}]
  BY <1>1, <1>5 DEF N
<1>7. Sum(f, S) = p[S] /\ Sum(f, S \ {x}) = p[S \ {x}]
  BY SumOfSubset DEF p
<1> QED
  BY <1>6, <1>7

\* The same, from the smaller set.
LEMMA SumAdd ==
  ASSUME NEW S, IsFiniteSet(S), NEW f, IntOn(f, S), NEW T \in SUBSET S, NEW x \in S, x \notin T
  PROVE  Sum(f, T \cup {x}) = f[x] + Sum(f, T) /\ Sum(f, T) \in Int /\ f[x] \in Int
<1> DEFINE U == T \cup {x}
<1>1. IsFiniteSet(U) /\ IntOn(f, U) /\ x \in U /\ U \ {x} = T
  <2>1. U \in SUBSET S
    OBVIOUS
  <2> QED
    BY <2>1, FS_Subset DEF IntOn
<1>2. IsFiniteSet(T) /\ IntOn(f, T)
  BY FS_Subset DEF IntOn
<1> HIDE DEF U
<1>3. Sum(f, U) = f[x] + Sum(f, U \ {x})
  BY <1>1, SumStep
<1>4. Sum(f, T) \in Int
  BY <1>2, SumType
<1> QED
  BY <1>1, <1>3, <1>4, Zenon DEF U, IntOn

\* The sum depends on the values of f on S only.
LEMMA SumSame ==
  ASSUME NEW S, IsFiniteSet(S), NEW f, IntOn(f, S), NEW g, \A x \in S : g[x] = f[x]
  PROVE  Sum(g, S) = Sum(f, S)
<1> DEFINE P == {T \in SUBSET S : Sum(g, T) = Sum(f, T)}
<1>1. {} \in P
  BY SumEmpty
<1>2. IntOn(g, S)
  BY DEF IntOn
<1>3. ASSUME NEW T \in SUBSET S, NEW x \in S, x \notin T, T \in P PROVE T \cup {x} \in P
  <2>1. Sum(f, T \cup {x}) = f[x] + Sum(f, T) /\ Sum(g, T \cup {x}) = g[x] + Sum(g, T)
    BY <1>2, <1>3, SumAdd
  <2> QED
    BY <1>3, <2>1
<1> HIDE DEF P
<1>4. S \in P
  BY <1>1, <1>3, FiniteInduction
<1> QED
  BY <1>4 DEF P

\* Changing f in one place changes the sum by as much.
LEMMA SumChange ==
  ASSUME NEW S, IsFiniteSet(S), NEW f, IntOn(f, S), NEW x \in S, NEW g, g[x] \in Int,
         \A y \in S \ {x} : g[y] = f[y]
  PROVE  Sum(g, S) = Sum(f, S) + (g[x] - f[x]) /\ Sum(f, S) \in Int
<1> DEFINE T == S \ {x}
<1>1. IsFiniteSet(T) /\ IntOn(f, T)
  BY FS_Subset DEF IntOn
<1>2. IntOn(g, S)
  BY DEF IntOn
<1>3. Sum(g, T) = Sum(f, T)
  BY <1>1, SumSame
<1>4. Sum(f, S) = f[x] + Sum(f, T) /\ Sum(g, S) = g[x] + Sum(g, T)
  BY <1>2, SumStep
<1>5. Sum(f, T) \in Int /\ f[x] \in Int
  BY <1>1, SumType DEF IntOn
<1> HIDE DEF T
<1> QED
  BY <1>3, <1>4, <1>5

\* Sums add up pointwise.
LEMMA SumPlus ==
  ASSUME NEW S, IsFiniteSet(S), NEW f, IntOn(f, S), NEW g, IntOn(g, S), NEW h,
         \A x \in S : h[x] = f[x] + g[x]
  PROVE  Sum(h, S) = Sum(f, S) + Sum(g, S) /\ Sum(f, S) \in Int /\ Sum(g, S) \in Int
<1> DEFINE P == {T \in SUBSET S : Sum(h, T) = Sum(f, T) + Sum(g, T)}
<1>1. IntOn(h, S)
  BY DEF IntOn
<1>2. {} \in P
  BY SumEmpty
<1>3. ASSUME NEW T \in SUBSET S, NEW x \in S, x \notin T, T \in P PROVE T \cup {x} \in P
  <2>1. Sum(f, T \cup {x}) = f[x] + Sum(f, T) /\ Sum(f, T) \in Int /\ f[x] \in Int
    BY <1>3, SumAdd
  <2>2. Sum(g, T \cup {x}) = g[x] + Sum(g, T) /\ Sum(g, T) \in Int /\ g[x] \in Int
    BY <1>3, SumAdd
  <2>3. Sum(h, T \cup {x}) = h[x] + Sum(h, T)
    BY <1>1, <1>3, SumAdd
  <2>4. Sum(h, T \cup {x}) = Sum(f, T \cup {x}) + Sum(g, T \cup {x})
    BY <1>3, <2>1, <2>2, <2>3
  <2> QED
    BY <2>4
<1> HIDE DEF P
<1>4. S \in P
  <2>1. \A T \in SUBSET S : T \in P
    BY <1>2, <1>3, FiniteInduction
  <2> QED
    BY <2>1
<1> QED
  BY <1>4, SumType DEF P

\* Larger terms, larger sum.
LEMMA SumMonotone ==
  ASSUME NEW S, IsFiniteSet(S), NEW f, IntOn(f, S), NEW g, IntOn(g, S), \A x \in S : f[x] <= g[x]
  PROVE  Sum(f, S) <= Sum(g, S)
<1> DEFINE P == {T \in SUBSET S : Sum(f, T) <= Sum(g, T)}
<1>1. {} \in P
  BY SumEmpty
<1>2. ASSUME NEW T \in SUBSET S, NEW x \in S, x \notin T, T \in P PROVE T \cup {x} \in P
  <2>1. /\ Sum(f, T \cup {x}) = f[x] + Sum(f, T) /\ Sum(g, T \cup {x}) = g[x] + Sum(g, T)
        /\ Sum(f, T) \in Int /\ f[x] \in Int /\ Sum(g, T) \in Int /\ g[x] \in Int
    BY <1>2, SumAdd
  <2>2. Sum(f, T) <= Sum(g, T) /\ f[x] <= g[x]
    BY <1>2
  <2> QED
    BY <2>1, <2>2
<1> HIDE DEF P
<1>3. S \in P
  BY <1>1, <1>2, FiniteInduction
<1> QED
  BY <1>3 DEF P

\* A sum of naturals is at least each of them.
LEMMA SumBounds ==
  ASSUME NEW S, IsFiniteSet(S), NEW f, \A x \in S : f[x] \in Nat
  PROVE  Sum(f, S) \in Nat /\ \A x \in S : f[x] <= Sum(f, S)
<1> DEFINE P == {T \in SUBSET S : Sum(f, T) \in Nat}
<1>1. IntOn(f, S)
  BY DEF IntOn
<1>2. {} \in P
  BY SumEmpty
<1>3. ASSUME NEW T \in SUBSET S, NEW x \in S, x \notin T, T \in P PROVE T \cup {x} \in P
  <2>1. Sum(f, T \cup {x}) = f[x] + Sum(f, T) /\ f[x] \in Nat
    BY <1>1, <1>3, SumAdd
  <2> QED
    BY <1>3, <2>1
<1> HIDE DEF P
<1>4. \A T \in SUBSET S : T \in P
  BY <1>2, <1>3, FiniteInduction, Zenon
<1>5. ASSUME NEW x \in S PROVE f[x] <= Sum(f, S)
  <2>1. Sum(f, S) = f[x] + Sum(f, S \ {x})
    BY <1>1, SumStep
  <2>2. Sum(f, S \ {x}) \in Nat
    BY <1>4 DEF P
  <2> QED
    BY <2>1, <2>2
<1> QED
  BY <1>4, <1>5 DEF P

\* The sum of a constant.
LEMMA SumConstant ==
  ASSUME NEW S, IsFiniteSet(S), NEW m \in Nat, NEW f, \A x \in S : f[x] = m
  PROVE  Sum(f, S) = Cardinality(S) * m
<1> DEFINE P == {T \in SUBSET S : Sum(f, T) = Cardinality(T) * m}
<1>1. IntOn(f, S)
  BY DEF IntOn
<1>2. {} \in P
  BY SumEmpty, FS_EmptySet
<1>3. ASSUME NEW T \in SUBSET S, NEW x \in S, x \notin T, T \in P PROVE T \cup {x} \in P
  <2>1. Sum(f, T \cup {x}) = f[x] + Sum(f, T) /\ f[x] = m
    BY <1>1, <1>3, SumAdd
  <2>2. IsFiniteSet(T) /\ Cardinality(T) \in Nat
    BY FS_Subset, FS_CardinalityType
  <2>3. Cardinality(T \cup {x}) = Cardinality(T) + 1
    BY <1>3, <2>2, FS_AddElement, Zenon
  <2> DEFINE c == Cardinality(T)
  <2>4. (c + 1) * m = m + c * m
    <3> HIDE DEF c
    <3>1. \A k \in Nat : (k + 1) * m = m + k * m
      OBVIOUS
    <3> QED
      BY <2>2, <3>1 DEF c
  <2> QED
    BY <1>3, <2>1, <2>3, <2>4
<1> HIDE DEF P
<1>4. S \in P
  BY <1>2, <1>3, FiniteInduction, Zenon
<1> QED
  BY <1>4 DEF P

-----------------------------------------------------------------------------
(***************************************************************************)
(* Division.                                                               *)
(***************************************************************************)

\* Quotient and remainder.
LEMMA DivMod ==
  ASSUME NEW n \in Nat, NEW d \in Nat, d > 0
  PROVE  /\ n \div d \in Nat /\ n % d \in Nat /\ n % d < d
         /\ n = (d * (n \div d)) + (n % d)
<1>1. n % d \in Nat /\ n % d < d
  OBVIOUS
<1>2. n \div d \in Int
  OBVIOUS
<1>3. n = (d * (n \div d)) + (n % d)
  OBVIOUS
<1>4. n \div d >= 0
  OBVIOUS
<1> QED
  BY <1>1, <1>2, <1>3, <1>4

\* A remainder is its own.
LEMMA Small ==
  ASSUME NEW a \in Nat, NEW b \in Nat, a < b
  PROVE  a % b = a
  OBVIOUS

\* Quotient and remainder are unique.
LEMMA ModUnique ==
  ASSUME NEW d \in Nat, NEW q \in Nat, NEW r \in Nat, r < d
  PROVE  ((d * q) + r) % d = r
  OBVIOUS

\* Multiples of the divisor do not count.
LEMMA ModMultiple ==
  ASSUME NEW d \in Nat, d > 0, NEW q \in Nat, NEW x \in Nat
  PROVE  ((d * q) + x) % d = x % d
<1>1. x % d \in Nat /\ x % d < d /\ x = (d * (x \div d)) + (x % d) /\ x \div d \in Nat
  BY DivMod
<1> DEFINE r == x % d
           p == x \div d
           y == (d * q) + x
<1>2. y = (d * (q + p)) + r
  BY <1>1
<1>3. r \in Nat /\ r < d /\ q + p \in Nat
  BY <1>1
<1> HIDE DEF r, p, y
<1>4. y % d = r
  BY <1>2, <1>3, ModUnique, Zenon
<1> QED
  BY <1>4 DEF y, r

\* The factors of an odd number are odd.
LEMMA OddFactor ==
  ASSUME NEW a \in Nat, NEW b \in Nat, (a * b) % 2 = 1
  PROVE  a % 2 = 1
<1> SUFFICES ASSUME a % 2 # 1 PROVE FALSE
  OBVIOUS
<1>1. a % 2 = 0 /\ a = 2 * (a \div 2) /\ a \div 2 \in Nat
  OBVIOUS
<1>2. PICK k \in Nat : a = 2 * k
  BY <1>1
<1> DEFINE m == k * b
           p == a * b
<1>3. m \in Nat /\ p = 2 * m /\ p % 2 = 1
  BY <1>2
<1> HIDE DEF m, p
<1> QED
  BY <1>3

\* The smaller of two factors is at most the root, and comes before a number whose
\* square exceeds the product.
LEMMA SmallFactor ==
  ASSUME NEW a \in Nat, NEW b \in Nat, NEW m \in Nat, a <= b, a * b < m * m
  PROVE  a < m
<1> SUFFICES ASSUME m <= a PROVE FALSE
  OBVIOUS
<1>1. m * m <= a * a
  OBVIOUS
<1>2. a * a <= a * b
  OBVIOUS
<1> DEFINE p == a * b
           q == a * a
           r == m * m
<1>3. p \in Nat /\ q \in Nat /\ r \in Nat /\ r <= q /\ q <= p /\ p < r
  BY <1>1, <1>2
<1> HIDE DEF p, q, r
<1> QED
  BY <1>3

-----------------------------------------------------------------------------
(***************************************************************************)
(* Framing: what is inside a message.                                      *)
(***************************************************************************)

\* Inc yields a byte.
LEMMA IncType == \A b \in Octet : Inc(b) \in Octet
  BY DEF Inc, Octet

\* The input s ends inside a message.
InMessage(s) == Inside(s, Len(s) + 1)

\* Nothing is inside a message before the first byte.
LEMMA OutsideFirst == ~InMessage(<<>>)
  BY EmptySeq DEF InMessage, Inside

\* What is inside depends on earlier bytes only.
LEMMA InsideEarlier ==
  ASSUME NEW s \in Seq(Octet), NEW b \in Octet, NEW i \in 1 .. Len(s) + 1
  PROVE  Inside(Append(s, b), i) <=> Inside(s, i)
<1>1. \A j \in 1 .. i - 1 : Append(s, b)[j] = s[j]
  BY AppendProperties
<1> DEFINE t == Append(s, b)
<1> HIDE DEF t
<1>2. \A j \in 1 .. i - 1 : t[j] = s[j]
  BY <1>1 DEF t
<1>3. \A j \in 1 .. i - 1 : \A k \in j + 1 .. i - 1 : k \in 1 .. i - 1
  OBVIOUS
<1>4. Inside(t, i) <=> Inside(s, i)
  BY <1>2, <1>3 DEF Inside
<1> QED
  BY <1>4 DEF t

\* '^' opens a message, '$' closes it, any other byte leaves it as it is.
LEMMA InMessageStep ==
  ASSUME NEW s \in Seq(Octet), NEW b \in Octet
  PROVE  InMessage(Append(s, b)) <=> b = Hat \/ (InMessage(s) /\ b # Dollar)
<1> DEFINE t == Append(s, b)
           n == Len(s)
<1>1. n \in Nat /\ Len(t) = n + 1 /\ t[n + 1] = b /\ \A j \in 1 .. n : t[j] = s[j]
  BY AppendProperties, LenProperties
<1>2. InMessage(t) <=> \E j \in 1 .. n + 1 : t[j] = Hat /\ \A k \in j + 1 .. n + 1 : t[k] # Dollar
  BY <1>1 DEF InMessage, Inside
<1>3. InMessage(s) <=> \E j \in 1 .. n : s[j] = Hat /\ \A k \in j + 1 .. n : s[k] # Dollar
  BY <1>1 DEF InMessage, Inside
<1> HIDE DEF t, n
<1>4. ASSUME b = Hat PROVE InMessage(t)
  <2>1. t[n + 1] = Hat /\ \A k \in n + 2 .. n + 1 : t[k] # Dollar
    BY <1>1, <1>4
  <2> QED
    BY <1>1, <1>2, <2>1
<1>5. ASSUME b # Dollar, NEW j \in 1 .. n, s[j] = Hat, \A k \in j + 1 .. n : s[k] # Dollar
      PROVE  InMessage(t)
  <2>1. \A k \in j + 1 .. n + 1 : t[k] # Dollar
    BY <1>1, <1>5
  <2>2. j \in 1 .. n + 1 /\ t[j] = Hat
    BY <1>1, <1>5
  <2> QED
    BY <1>2, <2>1, <2>2
<1>6. ASSUME NEW j \in 1 .. n + 1, t[j] = Hat, \A k \in j + 1 .. n + 1 : t[k] # Dollar, b # Hat
      PROVE  InMessage(s) /\ b # Dollar
  <2>1. j \in 1 .. n
    BY <1>1, <1>6
  <2>2. b # Dollar
    BY <1>1, <1>6, <2>1
  <2>3. s[j] = Hat /\ \A k \in j + 1 .. n : s[k] # Dollar
    BY <1>1, <1>6, <2>1
  <2> QED
    BY <1>3, <2>1, <2>2, <2>3
<1>7. InMessage(t) <=> b = Hat \/ (InMessage(s) /\ b # Dollar)
  BY <1>2, <1>3, <1>4, <1>5, <1>6
<1> QED
  BY <1>7 DEF t

-----------------------------------------------------------------------------
(***************************************************************************)
(* Ranks in a finite set of naturals.                                      *)
(***************************************************************************)

\* The elements of P up to i, and their number.
Below(P, i) == {j \in P : j <= i}
Rank(P, i) == Cardinality(Below(P, i))

\* A set of positions up to m is finite.
LEMMA PositionsFinite ==
  ASSUME NEW m \in Nat, NEW P \in SUBSET (1 .. m)
  PROVE  IsFiniteSet(P) /\ Cardinality(P) \in Nat
<1>1. IsFiniteSet(1 .. m)
  <2>1. 1 \in Int /\ m \in Int
    OBVIOUS
  <2> QED
    BY <2>1, FS_Interval
<1>2. IsFiniteSet(P)
  BY <1>1, FS_Subset, Zenon
<1> QED
  BY <1>2, FS_CardinalityType

\* Adding a position above all of P leaves P's ranks and takes the next one.
LEMMA RankAbove ==
  ASSUME NEW m \in Nat, NEW P \in SUBSET (1 .. m)
  PROVE  /\ Cardinality(P \cup {m + 1}) = Cardinality(P) + 1
         /\ Rank(P \cup {m + 1}, m + 1) = Cardinality(P) + 1
         /\ \A i \in P : Rank(P \cup {m + 1}, i) = Rank(P, i)
<1>1. Cardinality(P \cup {m + 1}) = Cardinality(P) + 1
  BY PositionsFinite, FS_AddElement
<1>2. Below(P \cup {m + 1}, m + 1) = P \cup {m + 1}
  <2>1. \A j \in P \cup {m + 1} : j <= m + 1
    OBVIOUS
  <2> QED
    BY <2>1, Zenon DEF Below
<1>3. ASSUME NEW i \in P PROVE Below(P \cup {m + 1}, i) = Below(P, i)
  BY DEF Below
<1> QED
  BY <1>1, <1>2, <1>3 DEF Rank

\* No element's rank exceeds the size of the set.
LEMMA RankBounded ==
  ASSUME NEW m \in Nat, NEW P \in SUBSET (1 .. m), NEW i \in P
  PROVE  Rank(P, i) \in 1 .. Cardinality(P)
<1>1. Below(P, i) \in SUBSET P /\ i \in Below(P, i)
  BY DEF Below
<1>2. Rank(P, i) <= Cardinality(P)
  BY <1>1, PositionsFinite, FS_Subset DEF Rank
<1>3. IsFiniteSet(Below(P, i)) /\ Rank(P, i) \in Nat /\ Rank(P, i) # 0
  BY <1>1, PositionsFinite, FS_Subset, FS_CardinalityType, FS_EmptySet, Zenon DEF Rank
<1> QED
  BY <1>2, <1>3, PositionsFinite

\* Every rank up to the size of the set is taken.
LEMMA RanksTaken ==
  \A m \in Nat : \A P \in SUBSET (1 .. m) : \A n \in 1 .. Cardinality(P) : \E i \in P : Rank(P, i) = n
<1> DEFINE Q(m) == \A P \in SUBSET (1 .. m) : \A n \in 1 .. Cardinality(P) : \E i \in P : Rank(P, i) = n
           S == {m \in Nat : Q(m)}
<1>1. Q(0)
  <2> SUFFICES ASSUME NEW P \in SUBSET (1 .. 0) PROVE 1 .. Cardinality(P) = {}
    OBVIOUS
  <2>1. P = {}
    OBVIOUS
  <2>2. Cardinality(P) = 0
    BY <2>1, FS_EmptySet
  <2> QED
    BY <2>2
<1>2. ASSUME NEW m \in Nat, Q(m) PROVE Q(m + 1)
  <2> SUFFICES ASSUME NEW P \in SUBSET (1 .. m + 1), NEW n \in 1 .. Cardinality(P)
               PROVE  \E i \in P : Rank(P, i) = n
    OBVIOUS
  <2>1. CASE m + 1 \notin P
    <3>1. P \in SUBSET (1 .. m)
      BY <2>1
    <3> QED
      BY <1>2, <3>1
  <2>2. CASE m + 1 \in P
    <3> DEFINE O == P \ {m + 1}
    <3>1. O \in SUBSET (1 .. m) /\ P = O \cup {m + 1}
      BY <2>2
    <3> HIDE DEF O
    <3>2. Cardinality(O) \in Nat /\ Cardinality(P) = Cardinality(O) + 1
      BY <3>1, PositionsFinite, RankAbove, Zenon
    <3>3. CASE n = Cardinality(O) + 1
      <4>1. Rank(P, m + 1) = n
        BY <3>1, <3>3, RankAbove
      <4> QED
        BY <2>2, <4>1
    <3>4. CASE n # Cardinality(O) + 1
      <4>1. n \in 1 .. Cardinality(O)
        BY <3>2, <3>4
      <4>2. PICK i \in O : Rank(O, i) = n
        BY <1>2, <3>1, <4>1
      <4>3. i \in P /\ Rank(P, i) = n
        BY <3>1, <4>2, RankAbove
      <4> QED
        BY <4>3
    <3> QED
      BY <3>3, <3>4
  <2> QED
    BY <2>1, <2>2
<1> HIDE DEF Q
<1>3. 0 \in S /\ \A n \in Nat : n \in S => n + 1 \in S
  BY <1>1, <1>2
<1>4. \A m \in Nat : m \in S
  <2> HIDE DEF S
  <2> QED
    BY <1>3, SetInduction
<1> QED
  BY <1>4 DEF Q

-----------------------------------------------------------------------------
(***************************************************************************)
(* The echo of a longer input.                                             *)
(***************************************************************************)

\* The n-th position is a position, of rank n.
LEMMA NthProperties ==
  ASSUME NEW m \in Nat, NEW P \in SUBSET (1 .. m), NEW n \in 1 .. Cardinality(P)
  PROVE  Nth(P, n) \in P /\ Rank(P, Nth(P, n)) = n
<1>1. \E i \in P : Rank(P, i) = n
  BY RanksTaken
<1>2. Nth(P, n) = CHOOSE i \in P : Rank(P, i) = n
  BY DEF Nth, Rank, Below
<1> QED
  BY <1>1, <1>2

\* Distinct positions have distinct ranks.
LEMMA RankInjective ==
  ASSUME NEW m \in Nat, NEW P \in SUBSET (1 .. m), NEW i \in P, NEW j \in P, Rank(P, i) = Rank(P, j)
  PROVE  i = j
<1>1. ASSUME NEW a \in P, NEW b \in P, a < b PROVE Rank(P, a) < Rank(P, b)
  <2>1. Below(P, a) \in SUBSET Below(P, b) /\ b \in Below(P, b) /\ b \notin Below(P, a)
    <3>1. a \in Nat /\ b \in Nat /\ \A x \in P : x \in Nat
      OBVIOUS
    <3>2. (\A x \in P : x <= a => x <= b) /\ b <= b /\ ~(b <= a)
      BY <1>1, <3>1
    <3> QED
      BY <3>2, Zenon DEF Below
  <2>2. Below(P, b) \in SUBSET (1 .. m) /\ Below(P, a) \in SUBSET (1 .. m)
    BY Zenon DEF Below
  <2>3. IsFiniteSet(Below(P, b)) /\ Rank(P, b) \in Nat /\ Rank(P, a) \in Nat
    BY <2>2, PositionsFinite DEF Rank
  <2>4. Rank(P, a) <= Rank(P, b) /\ (Rank(P, a) = Rank(P, b) => Below(P, a) = Below(P, b))
    BY <2>1, <2>3, FS_Subset DEF Rank
  <2> QED
    BY <2>1, <2>3, <2>4
<1>2. Rank(P, i) \in Nat
  <2>1. Rank(P, i) \in 1 .. Cardinality(P)
    BY RankBounded, Zenon
  <2>2. Cardinality(P) \in Nat
    BY PositionsFinite, Zenon
  <2> QED
    BY <2>1, <2>2
<1>3. ~(i < j) /\ ~(j < i)
  BY <1>1, <1>2
<1>4. i \in Nat /\ j \in Nat
  OBVIOUS
<1> QED
  BY <1>3, <1>4

\* Payload positions of an input and of that input with a byte more.
LEMMA PayloadStep ==
  ASSUME NEW s \in Seq(Octet), NEW b \in Octet
  PROVE  /\ Payload(s) \in SUBSET (1 .. Len(s))
         /\ Payload(Append(s, b)) = IF InMessage(s) /\ b # Dollar
                                      THEN Payload(s) \cup {Len(s) + 1} ELSE Payload(s)
<1> DEFINE t == Append(s, b)
           n == Len(s)
<1>1. n \in Nat /\ Len(t) = n + 1 /\ t[n + 1] = b /\ \A j \in 1 .. n : t[j] = s[j]
  BY AppendProperties, LenProperties
<1>2. \A i \in 1 .. n : Inside(t, i) <=> Inside(s, i)
  BY <1>1, InsideEarlier
<1>3. Inside(t, n + 1) <=> InMessage(s)
  BY <1>1, InsideEarlier DEF InMessage
<1>4. Payload(t) = {i \in 1 .. n + 1 : Inside(t, i) /\ t[i] # Dollar}
  BY <1>1 DEF Payload
<1>5. Payload(s) = {i \in 1 .. n : Inside(s, i) /\ s[i] # Dollar}
  BY DEF Payload
<1> HIDE DEF t, n
<1>6. \A i \in 1 .. n : i \in Payload(t) <=> i \in Payload(s)
  BY <1>1, <1>2, <1>4, <1>5
<1>7. n + 1 \in Payload(t) <=> InMessage(s) /\ b # Dollar
  BY <1>1, <1>3, <1>4
<1>8. Payload(t) \subseteq 1 .. n + 1 /\ Payload(s) \subseteq 1 .. n
  BY <1>4, <1>5
<1>9. \A i \in 1 .. n + 1 : i \in 1 .. n \/ i = n + 1
  BY <1>1
<1>10. n + 1 \notin Payload(s)
  BY <1>1, <1>8
<1>11. CASE InMessage(s) /\ b # Dollar
  <2>1. Payload(t) = Payload(s) \cup {n + 1}
    BY <1>6, <1>7, <1>8, <1>9, <1>11
  <2> QED
    BY <1>8, <1>11, <2>1 DEF t, n
<1>12. CASE ~(InMessage(s) /\ b # Dollar)
  <2>1. Payload(t) = Payload(s)
    BY <1>6, <1>7, <1>8, <1>9, <1>10, <1>12, Zenon
  <2> QED
    BY <1>8, <1>12, <2>1 DEF t, n
<1> QED
  BY <1>11, <1>12

\* The echo is a sequence of bytes, one for each payload byte.
LEMMA EchoType ==
  ASSUME NEW s \in Seq(Octet)
  PROVE  /\ Echo(s) \in Seq(Octet)
         /\ Len(Echo(s)) = Cardinality(Payload(s))
         /\ Cardinality(Payload(s)) \in Nat
         /\ \A n \in 1 .. Cardinality(Payload(s)) : Echo(s)[n] = Inc(s[Nth(Payload(s), n)])
<1> DEFINE P == Payload(s)
<1>1. Len(s) \in Nat /\ P \in SUBSET (1 .. Len(s)) /\ \A i \in 1 .. Len(s) : s[i] \in Octet
  BY LenProperties, ElementOfSeq DEF Payload
<1>2. Cardinality(P) \in Nat
  BY <1>1, PositionsFinite, Zenon
<1>3. \A n \in 1 .. Cardinality(P) : Inc(s[Nth(P, n)]) \in Octet
  BY <1>1, NthProperties, IncType, Zenon
<1> HIDE DEF P
<1>4. Echo(s) = [n \in 1 .. Cardinality(P) |-> Inc(s[Nth(P, n)])]
  BY DEF Echo, P
<1>5. Echo(s) \in Seq(Octet) /\ Len(Echo(s)) = Cardinality(P)
  BY <1>2, <1>3, <1>4
<1> QED
  BY <1>2, <1>4, <1>5 DEF P

\* No input, no echo.
LEMMA EchoEmpty == Echo(<<>>) = <<>>
<1>1. Payload(<<>>) = {}
  BY EmptySeq DEF Payload
<1>2. Cardinality(Payload(<<>>)) = 0
  BY <1>1, FS_EmptySet
<1>3. Echo(<<>>) \in Seq(Octet) /\ Len(Echo(<<>>)) = 0
  BY <1>2, EchoType, EmptySeq, Zenon
<1> QED
  BY <1>3, EmptySeq

\* A byte inside a message, other than '$', appends its successor to the echo;
\* any other byte leaves the echo as it is.
LEMMA EchoStep ==
  ASSUME NEW s \in Seq(Octet), NEW b \in Octet
  PROVE  Echo(Append(s, b)) = IF InMessage(s) /\ b # Dollar THEN Append(Echo(s), Inc(b)) ELSE Echo(s)
<1> DEFINE t == Append(s, b)
           m == Len(s)
           P == Payload(s)
           Q == Payload(t)
           c == Cardinality(P)
<1>1. m \in Nat /\ t \in Seq(Octet) /\ t[m + 1] = b /\ \A j \in 1 .. m : t[j] = s[j]
  BY AppendProperties, LenProperties
<1>2. P \in SUBSET (1 .. m) /\ Q = IF InMessage(s) /\ b # Dollar THEN P \cup {m + 1} ELSE P
  BY PayloadStep
<1>3. /\ Echo(s) \in Seq(Octet) /\ Len(Echo(s)) = c /\ c \in Nat
      /\ \A n \in 1 .. c : Echo(s)[n] = Inc(s[Nth(P, n)])
  BY EchoType
<1>4. /\ Echo(t) \in Seq(Octet) /\ Len(Echo(t)) = Cardinality(Q)
      /\ \A n \in 1 .. Cardinality(Q) : Echo(t)[n] = Inc(t[Nth(Q, n)])
  BY <1>1, EchoType, Zenon
<1> HIDE DEF t, m, P, Q
<1>5. \A n \in 1 .. c : Nth(P, n) \in P /\ Rank(P, Nth(P, n)) = n
  BY <1>1, <1>2, NthProperties, Zenon
<1>6. CASE InMessage(s) /\ b # Dollar
  <2>grown. Q = P \cup {m + 1}
    BY <1>2, <1>6
  <2>range. m + 1 \in Nat /\ m + 1 \in 1 .. m + 1 /\ \A i \in 1 .. m : i \in 1 .. m + 1
    BY <1>1
  <2>1. Q = P \cup {m + 1} /\ Q \in SUBSET (1 .. m + 1) /\ m + 1 \in Nat
    BY <1>2, <2>grown, <2>range, Zenon
  <2>2. Cardinality(Q) = c + 1 /\ Rank(Q, m + 1) = c + 1 /\ \A i \in P : Rank(Q, i) = Rank(P, i)
    <3>1. /\ Cardinality(P \cup {m + 1}) = Cardinality(P) + 1
          /\ Rank(P \cup {m + 1}, m + 1) = Cardinality(P) + 1
          /\ \A i \in P : Rank(P \cup {m + 1}, i) = Rank(P, i)
      BY <1>1, <1>2, RankAbove, Zenon
    <3> QED
      BY <2>1, <3>1, Zenon
  <2> HIDE DEF c
  <2>3. \A n \in 1 .. c + 1 : Nth(Q, n) \in Q /\ Rank(Q, Nth(Q, n)) = n
    BY <2>1, <2>2, NthProperties, Zenon
  <2>4. Nth(Q, c + 1) = m + 1
    <3>1. c + 1 \in 1 .. c + 1
      BY <1>3
    <3>2. Nth(Q, c + 1) \in Q /\ Rank(Q, Nth(Q, c + 1)) = Rank(Q, m + 1) /\ m + 1 \in Q
      BY <2>1, <2>2, <2>3, <3>1, Zenon
    <3> QED
      BY <2>1, <3>2, RankInjective, Zenon
  <2>5. ASSUME NEW n \in 1 .. c PROVE Nth(Q, n) = Nth(P, n)
    <3>1. Nth(P, n) \in Q /\ Rank(Q, Nth(P, n)) = n
      BY <1>5, <2>1, <2>2, Zenon
    <3>2. Nth(Q, n) \in Q /\ Rank(Q, Nth(Q, n)) = n
      BY <1>3, <2>3
    <3>3. Rank(Q, Nth(Q, n)) = Rank(Q, Nth(P, n))
      BY <3>1, <3>2, Zenon
    <3> QED
      BY <2>1, <3>1, <3>2, <3>3, RankInjective, Zenon
  <2>6. \A n \in 1 .. c : Nth(P, n) \in 1 .. m
    BY <1>2, <1>5, Zenon
  <2>7. ASSUME NEW n \in 1 .. c PROVE Echo(t)[n] = Echo(s)[n]
    <3>1. n \in 1 .. c + 1
      BY <1>3
    <3>2. Echo(t)[n] = Inc(t[Nth(Q, n)])
      BY <1>4, <2>2, <3>1, Zenon
    <3>3. t[Nth(P, n)] = s[Nth(P, n)]
      BY <1>1, <2>6, Zenon
    <3> QED
      BY <1>3, <2>5, <3>2, <3>3, Zenon
  <2>8. Echo(t)[c + 1] = Inc(b)
    BY <1>1, <1>3, <1>4, <2>2, <2>4
  <2>9. Inc(b) \in Octet
    BY IncType
  <2>10. Len(Echo(t)) = c + 1 /\ Len(Append(Echo(s), Inc(b))) = c + 1 /\ Append(Echo(s), Inc(b)) \in Seq(Octet)
         /\ Append(Echo(s), Inc(b))[c + 1] = Inc(b)
         /\ \A n \in 1 .. c : Append(Echo(s), Inc(b))[n] = Echo(s)[n]
    BY <1>3, <1>4, <2>2, <2>9, AppendProperties
  <2>11. \A n \in 1 .. c + 1 : Echo(t)[n] = Append(Echo(s), Inc(b))[n]
    BY <1>3, <2>7, <2>8, <2>10
  <2>12. Echo(t) = Append(Echo(s), Inc(b))
    BY <1>4, <2>10, <2>11, SeqEqual
  <2> QED
    BY <1>6, <2>12 DEF t
<1>7. CASE ~(InMessage(s) /\ b # Dollar)
  <2>1. Q = P
    BY <1>2, <1>7
  <2>2. \A n \in 1 .. c : Nth(P, n) \in 1 .. m
    BY <1>2, <1>5, Zenon
  <2>3. Len(Echo(t)) = c /\ \A n \in 1 .. c : Echo(t)[n] = Echo(s)[n]
    BY <1>1, <1>3, <1>4, <2>1, <2>2
  <2>4. Echo(t) = Echo(s)
    BY <1>3, <1>4, <2>3, SeqEqual
  <2> QED
    BY <1>7, <2>4 DEF t
<1> QED
  BY <1>6, <1>7

-----------------------------------------------------------------------------
(***************************************************************************)
(* Output staged behind a read position.                                   *)
(***************************************************************************)

\* What a buffer still has to send.
Unsent(buf, p) == SubSeq(buf, p + 1, Len(buf))

\* A slice of a buffer is a sequence of bytes.
LEMMA SliceType ==
  ASSUME NEW buf \in Seq(Octet), NEW a \in Nat, NEW b \in Nat, a <= b, b <= Len(buf)
  PROVE  /\ SubSeq(buf, a + 1, b) \in Seq(Octet)
         /\ Len(SubSeq(buf, a + 1, b)) = b - a
         /\ \A j \in 1 .. b - a : SubSeq(buf, a + 1, b)[j] = buf[a + j]
<1>1. Len(buf) \in Nat /\ \A j \in a + 1 .. b : buf[j] \in Octet
  BY LenProperties, ElementOfSeq
<1>2. /\ SubSeq(buf, a + 1, b) \in Seq(Octet)
      /\ Len(SubSeq(buf, a + 1, b)) = IF a + 1 <= b THEN b - (a + 1) + 1 ELSE 0
      /\ \A j \in 1 .. b - (a + 1) + 1 : SubSeq(buf, a + 1, b)[j] = buf[a + 1 + j - 1]
  BY <1>1, SubSeqProperties
<1> QED
  BY <1>1, <1>2

\* Adjacent slices make a slice.
LEMMA SliceConcat ==
  ASSUME NEW buf \in Seq(Octet), NEW a \in Nat \ {0}, NEW b \in Nat, NEW c \in Nat, NEW d \in Nat,
         a <= c, c = b + 1, b <= d, d <= Len(buf)
  PROVE  SubSeq(buf, a, b) \o SubSeq(buf, c, d) = SubSeq(buf, a, d)
<1>1. Len(buf) \in Nat
  BY LenProperties
<1>2. a \in 1 .. Len(buf) + 1 /\ b \in a - 1 .. Len(buf) /\ d \in b .. Len(buf)
  BY <1>1
<1>3. SubSeq(buf, a, b) \o SubSeq(buf, b + 1, d) = SubSeq(buf, a, d)
  BY <1>2, ConcatAdjacentSubSeq
<1> QED
  BY <1>3

\* So is what is unsent.
LEMMA UnsentType ==
  ASSUME NEW buf \in Seq(Octet), NEW p \in Nat, p <= Len(buf)
  PROVE  /\ Unsent(buf, p) \in Seq(Octet)
         /\ Len(Unsent(buf, p)) = Len(buf) - p
         /\ \A j \in 1 .. Len(buf) - p : Unsent(buf, p)[j] = buf[p + j]
<1>1. Len(buf) \in Nat /\ Len(buf) <= Len(buf)
  BY LenProperties
<1> QED
  BY <1>1, SliceType DEF Unsent

\* Nothing sent yet, everything unsent.
LEMMA UnsentAll ==
  ASSUME NEW buf \in Seq(Octet)
  PROVE  Unsent(buf, 0) = buf
<1>1. 0 + 1 = 1
  OBVIOUS
<1>2. Unsent(buf, 0) = SubSeq(buf, 1, Len(buf))
  BY <1>1, Zenon DEF Unsent
<1> QED
  BY <1>2, SubSeqFull

\* Appending to a concatenation appends to its second part.
LEMMA ConcatAppend ==
  ASSUME NEW s \in Seq(Octet), NEW t \in Seq(Octet), NEW b \in Octet
  PROVE  s \o Append(t, b) = Append(s \o t, b)
<1> DEFINE l == s \o Append(t, b)
           r == Append(s \o t, b)
<1>1. Append(t, b) \in Seq(Octet) /\ Len(Append(t, b)) = Len(t) + 1 /\ Append(t, b)[Len(t) + 1] = b
      /\ \A i \in 1 .. Len(t) : Append(t, b)[i] = t[i]
  BY AppendProperties
<1>2. s \o t \in Seq(Octet) /\ Len(s \o t) = Len(s) + Len(t) /\ Len(s) \in Nat /\ Len(t) \in Nat
      /\ \A i \in 1 .. Len(s) + Len(t) : (s \o t)[i] = IF i <= Len(s) THEN s[i] ELSE t[i - Len(s)]
  BY ConcatProperties, LenProperties
<1>3. l \in Seq(Octet) /\ Len(l) = Len(s) + (Len(t) + 1)
      /\ \A i \in 1 .. Len(s) + (Len(t) + 1) : l[i] = IF i <= Len(s) THEN s[i] ELSE Append(t, b)[i - Len(s)]
  BY <1>1, ConcatProperties
<1>4. r \in Seq(Octet) /\ Len(r) = Len(s) + Len(t) + 1 /\ r[Len(s) + Len(t) + 1] = b
      /\ \A i \in 1 .. Len(s) + Len(t) : r[i] = (s \o t)[i]
  BY <1>2, AppendProperties
<1> HIDE DEF l, r
<1>5. ASSUME NEW i \in 1 .. Len(s) + Len(t) + 1 PROVE l[i] = r[i]
  <2>1. CASE i <= Len(s)
    <3>1. i \in 1 .. Len(s) + Len(t) /\ i \in 1 .. Len(s) + (Len(t) + 1)
      BY <1>2, <2>1
    <3>2. l[i] = s[i] /\ r[i] = (s \o t)[i] /\ (s \o t)[i] = s[i]
      BY <1>2, <1>3, <1>4, <2>1, <3>1
    <3> QED
      BY <3>2
  <2>2. CASE i > Len(s) /\ i <= Len(s) + Len(t)
    <3>1. i - Len(s) \in 1 .. Len(t)
      BY <1>2, <2>2
    <3> QED
      BY <1>1, <1>2, <1>3, <1>4, <2>2, <3>1
  <2>3. CASE i = Len(s) + Len(t) + 1
    <3>1. i - Len(s) = Len(t) + 1 /\ ~(i <= Len(s))
      BY <1>2, <2>3
    <3> QED
      BY <1>1, <1>2, <1>3, <1>4, <2>3, <3>1
  <2> QED
    BY <1>2, <2>1, <2>2, <2>3
<1>6. Len(l) = Len(r) /\ \A i \in 1 .. Len(l) : l[i] = r[i]
  BY <1>2, <1>3, <1>4, <1>5
<1>7. l = r
  BY <1>3, <1>4, <1>6, SeqEqual
<1> QED
  BY <1>7 DEF l, r

\* Staging a byte puts it behind all that is unsent.
LEMMA UnsentAppend ==
  ASSUME NEW buf \in Seq(Octet), NEW p \in Nat, p <= Len(buf), NEW b \in Octet
  PROVE  Unsent(Append(buf, b), p) = Append(Unsent(buf, p), b)
<1> DEFINE l == Unsent(Append(buf, b), p)
           r == Append(Unsent(buf, p), b)
           n == Len(buf) - p
<1>1. Len(buf) \in Nat /\ n \in Nat
  BY LenProperties
<1>2. Append(buf, b) \in Seq(Octet) /\ Len(Append(buf, b)) = Len(buf) + 1 /\ Append(buf, b)[Len(buf) + 1] = b
      /\ \A i \in 1 .. Len(buf) : Append(buf, b)[i] = buf[i]
  BY AppendProperties
<1>3. Unsent(buf, p) \in Seq(Octet) /\ Len(Unsent(buf, p)) = n
      /\ \A i \in 1 .. n : Unsent(buf, p)[i] = buf[p + i]
  BY UnsentType
<1>4. l \in Seq(Octet) /\ Len(l) = Len(buf) + 1 - p
      /\ \A i \in 1 .. Len(buf) + 1 - p : l[i] = Append(buf, b)[p + i]
  <2>1. p <= Len(Append(buf, b))
    BY <1>1, <1>2
  <2> DEFINE t == Append(buf, b)
  <2>2. t \in Seq(Octet) /\ p <= Len(t) /\ Len(t) = Len(buf) + 1
    BY <1>2, <2>1
  <2> HIDE DEF t
  <2>3. /\ Unsent(t, p) \in Seq(Octet) /\ Len(Unsent(t, p)) = Len(t) - p
        /\ \A i \in 1 .. Len(t) - p : Unsent(t, p)[i] = t[p + i]
    BY <2>2, UnsentType, Zenon
  <2>4. /\ Unsent(t, p) \in Seq(Octet) /\ Len(Unsent(t, p)) = Len(buf) + 1 - p
        /\ \A i \in 1 .. Len(buf) + 1 - p : Unsent(t, p)[i] = t[p + i]
    BY <2>2, <2>3
  <2> QED
    BY <2>4, Zenon DEF t
<1>5. r \in Seq(Octet) /\ Len(r) = n + 1 /\ r[n + 1] = b /\ \A i \in 1 .. n : r[i] = Unsent(buf, p)[i]
  BY <1>3, AppendProperties
<1>6. Len(buf) + 1 - p = n + 1 /\ p + (n + 1) = Len(buf) + 1 /\ \A i \in 1 .. n : p + i \in 1 .. Len(buf)
  BY <1>1
<1> HIDE DEF l, r, n
<1>7. ASSUME NEW i \in 1 .. n PROVE l[i] = r[i]
  <2>1. i \in 1 .. n + 1
    BY <1>1
  <2>2. l[i] = Append(buf, b)[p + i]
    BY <1>4, <1>6, <2>1
  <2>3. Append(buf, b)[p + i] = buf[p + i]
    BY <1>2, <1>6
  <2> QED
    BY <1>3, <1>5, <2>2, <2>3
<1>8. l[n + 1] = r[n + 1]
  BY <1>1, <1>2, <1>4, <1>5, <1>6
<1>9. Len(l) = Len(r) /\ \A i \in 1 .. Len(l) : l[i] = r[i]
  BY <1>1, <1>4, <1>5, <1>6, <1>7, <1>8
<1>10. l = r
  BY <1>4, <1>5, <1>9, SeqEqual
<1> QED
  BY <1>10 DEF l, r

\* Concatenation of outputs is associative.
LEMMA OutputAssociative == \A s, t, u \in Seq(Octet) : (s \o t) \o u = s \o (t \o u)
  BY ConcatAssociative

\* Sending moves bytes from the front of what is unsent to the end of what was sent.
LEMMA UnsentSplit ==
  ASSUME NEW out \in Seq(Octet), NEW buf \in Seq(Octet), NEW p \in Nat, NEW n \in Nat, p + n <= Len(buf)
  PROVE  (out \o SubSeq(buf, p + 1, p + n)) \o Unsent(buf, p + n) = out \o Unsent(buf, p)
<1> DEFINE part == SubSeq(buf, p + 1, p + n)
           rest == Unsent(buf, p + n)
           all == Unsent(buf, p)
<1>1. Len(buf) \in Nat /\ p + n \in Nat /\ p <= p + n
  BY LenProperties
<1>2. part \in Seq(Octet) /\ rest \in Seq(Octet)
  BY <1>1, SliceType, UnsentType
<1>3. part \o rest = all
  <2> DEFINE a == p + 1
             b == p + n
             c == p + n + 1
             d == Len(buf)
  <2>1. /\ a \in Nat \ {0} /\ b \in Nat /\ c \in Nat /\ d \in Nat
        /\ a <= c /\ c = b + 1 /\ b <= d /\ d <= Len(buf)
    BY <1>1
  <2> HIDE DEF a, b, c, d
  <2>2. SubSeq(buf, a, b) \o SubSeq(buf, c, d) = SubSeq(buf, a, d)
    BY <2>1, SliceConcat
  <2> QED
    BY <2>2, Zenon DEF Unsent, a, b, c, d
<1> HIDE DEF part, rest, all
<1>4. (out \o part) \o rest = out \o (part \o rest)
  BY <1>2, OutputAssociative
<1>5. (out \o part) \o rest = out \o all
  BY <1>3, <1>4
<1> QED
  BY <1>5, Zenon DEF part, rest, all

-----------------------------------------------------------------------------
(***************************************************************************)
(* Prefixes.                                                               *)
(***************************************************************************)

\* The first k bytes of s.
Upto(s, k) == SubSeq(s, 1, k)

\* They are a sequence of k bytes.
LEMMA UptoType ==
  ASSUME NEW s \in Seq(Octet), NEW k \in 0 .. Len(s)
  PROVE  /\ Upto(s, k) \in Seq(Octet) /\ Len(Upto(s, k)) = k
         /\ \A j \in 1 .. k : Upto(s, k)[j] = s[j]
<1>1. k \in Nat /\ Len(s) \in Nat /\ \A j \in 1 .. k : s[j] \in Octet
  BY LenProperties, ElementOfSeq
<1>2. /\ Upto(s, k) \in Seq(Octet)
      /\ Len(Upto(s, k)) = IF 1 <= k THEN k - 1 + 1 ELSE 0
      /\ \A j \in 1 .. k - 1 + 1 : Upto(s, k)[j] = s[1 + j - 1]
  BY <1>1, SubSeqProperties DEF Upto
<1> QED
  BY <1>1, <1>2

\* Two sequences of bytes with the same bytes are the same.
LEMMA SameBytes ==
  ASSUME NEW s \in Seq(Octet), NEW t \in Seq(Octet), Len(s) = Len(t),
         \A j \in 1 .. Len(s) : s[j] = t[j]
  PROVE  s = t
  BY SeqEqual

\* One byte more.
LEMMA UptoStep ==
  ASSUME NEW s \in Seq(Octet), NEW k \in Nat, k < Len(s)
  PROVE  Upto(s, k + 1) = Append(Upto(s, k), s[k + 1])
<1> DEFINE l == Upto(s, k + 1)
           u == Upto(s, k)
           r == Append(u, s[k + 1])
<1>1. Len(s) \in Nat /\ k \in 0 .. Len(s) /\ k + 1 \in 0 .. Len(s) /\ k + 1 \in 1 .. Len(s)
  BY LenProperties
<1>2. l \in Seq(Octet) /\ Len(l) = k + 1 /\ \A j \in 1 .. k + 1 : l[j] = s[j]
  BY <1>1, UptoType
<1>3. u \in Seq(Octet) /\ Len(u) = k /\ \A j \in 1 .. k : u[j] = s[j]
  BY <1>1, UptoType, Zenon
<1>4. s[k + 1] \in Octet
  BY <1>1, ElementOfSeq
<1> HIDE DEF u
<1>5. r \in Seq(Octet) /\ Len(r) = k + 1 /\ r[k + 1] = s[k + 1] /\ \A j \in 1 .. k : r[j] = u[j]
  BY <1>3, <1>4, AppendProperties
<1> HIDE DEF l, r
<1>6. \A j \in 1 .. k + 1 : l[j] = r[j]
  BY <1>2, <1>3, <1>5
<1>7. l = r
  BY <1>2, <1>5, <1>6, SameBytes
<1> QED
  BY <1>7 DEF l, r, u

\* All of it.
LEMMA UptoAll ==
  ASSUME NEW s \in Seq(Octet)
  PROVE  Upto(s, Len(s)) = s
  BY SubSeqFull DEF Upto

\* What follows does not matter.
LEMMA UptoConcat ==
  ASSUME NEW s \in Seq(Octet), NEW t \in Seq(Octet)
  PROVE  Upto(s \o t, Len(s)) = s
<1> DEFINE c == s \o t
<1>1. c \in Seq(Octet) /\ Len(c) = Len(s) + Len(t) /\ Len(s) \in Nat /\ Len(t) \in Nat
      /\ \A j \in 1 .. Len(s) + Len(t) : c[j] = IF j <= Len(s) THEN s[j] ELSE t[j - Len(s)]
  BY ConcatProperties, LenProperties
<1>2. \A j \in 1 .. Len(s) : c[j] = s[j]
  BY <1>1
<1> HIDE DEF c
<1>3. Len(s) \in 0 .. Len(c)
  BY <1>1
<1>4. Upto(c, Len(s)) \in Seq(Octet) /\ Len(Upto(c, Len(s))) = Len(s)
      /\ \A j \in 1 .. Len(s) : Upto(c, Len(s))[j] = c[j]
  BY <1>1, <1>3, UptoType, Zenon
<1>5. Upto(c, Len(s)) = s
  BY <1>2, <1>4, SameBytes
<1> QED
  BY <1>5 DEF c

\* w is what d begins with.
Prefix(w, d) == Len(w) <= Len(d) /\ \A j \in 1 .. Len(w) : w[j] = d[j]

\* The two ways to say so agree.
LEMMA PrefixIsUpto ==
  ASSUME NEW w \in Seq(Octet), NEW d \in Seq(Octet), Prefix(w, d)
  PROVE  w = SubSeq(d, 1, Len(w))
<1>1. Len(w) \in 0 .. Len(d)
  BY LenProperties DEF Prefix
<1>2. /\ Upto(d, Len(w)) \in Seq(Octet) /\ Len(Upto(d, Len(w))) = Len(w)
      /\ \A j \in 1 .. Len(w) : Upto(d, Len(w))[j] = d[j]
  BY <1>1, UptoType
<1>3. w = Upto(d, Len(w))
  BY <1>2, SameBytes DEF Prefix
<1> QED
  BY <1>3 DEF Upto

\* A prefix of a prefix is one.
LEMMA PrefixTransitive ==
  ASSUME NEW a \in Seq(Octet), NEW b \in Seq(Octet), NEW c \in Seq(Octet), Prefix(a, b), Prefix(b, c)
  PROVE  Prefix(a, c)
<1>1. Len(a) \in Nat /\ Len(b) \in Nat /\ Len(c) \in Nat
  BY LenProperties
<1>2. Len(a) <= Len(c)
  BY <1>1 DEF Prefix
<1>3. \A j \in 1 .. Len(a) : j \in 1 .. Len(b)
  BY <1>1 DEF Prefix
<1> QED
  BY <1>2, <1>3 DEF Prefix

\* What comes first is a prefix of the whole.
LEMMA PrefixConcat ==
  ASSUME NEW a \in Seq(Octet), NEW b \in Seq(Octet)
  PROVE  Prefix(a, a \o b)
<1>1. /\ Len(a \o b) = Len(a) + Len(b) /\ Len(a) \in Nat /\ Len(b) \in Nat
      /\ \A j \in 1 .. Len(a) + Len(b) : (a \o b)[j] = IF j <= Len(a) THEN a[j] ELSE b[j - Len(a)]
  BY ConcatProperties, LenProperties
<1>2. \A j \in 1 .. Len(a) : (a \o b)[j] = a[j]
  BY <1>1
<1> QED
  BY <1>1, <1>2 DEF Prefix

\* The same bytes may come in front of both.
LEMMA PrefixBehind ==
  ASSUME NEW h \in Seq(Octet), NEW a \in Seq(Octet), NEW b \in Seq(Octet), Prefix(a, b)
  PROVE  Prefix(h \o a, h \o b)
<1>1. /\ Len(h \o a) = Len(h) + Len(a) /\ Len(h) \in Nat /\ Len(a) \in Nat /\ Len(b) \in Nat
      /\ \A j \in 1 .. Len(h) + Len(a) : (h \o a)[j] = IF j <= Len(h) THEN h[j] ELSE a[j - Len(h)]
  BY ConcatProperties, LenProperties
<1>2. /\ Len(h \o b) = Len(h) + Len(b)
      /\ \A j \in 1 .. Len(h) + Len(b) : (h \o b)[j] = IF j <= Len(h) THEN h[j] ELSE b[j - Len(h)]
  BY ConcatProperties
<1>3. Len(a) <= Len(b) /\ \A j \in 1 .. Len(a) : a[j] = b[j]
  BY DEF Prefix
<1> DEFINE ha == h \o a
           hb == h \o b
<1>4. /\ Len(ha) = Len(h) + Len(a) /\ Len(hb) = Len(h) + Len(b)
      /\ \A j \in 1 .. Len(h) + Len(a) : ha[j] = IF j <= Len(h) THEN h[j] ELSE a[j - Len(h)]
      /\ \A j \in 1 .. Len(h) + Len(b) : hb[j] = IF j <= Len(h) THEN h[j] ELSE b[j - Len(h)]
  BY <1>1, <1>2
<1> HIDE DEF ha, hb
<1>5. ASSUME NEW j \in 1 .. Len(h) + Len(a) PROVE ha[j] = hb[j]
  <2>1. j \in 1 .. Len(h) + Len(b)
    BY <1>1, <1>3
  <2>2. CASE j <= Len(h)
    BY <1>4, <2>1, <2>2
  <2>3. CASE ~(j <= Len(h))
    <3>1. j - Len(h) \in 1 .. Len(a)
      BY <1>1, <2>3
    <3> QED
      BY <1>3, <1>4, <2>1, <2>3, <3>1
  <2> QED
    BY <2>2, <2>3
<1>6. Prefix(ha, hb)
  BY <1>1, <1>3, <1>4, <1>5 DEF Prefix
<1> QED
  BY <1>6 DEF ha, hb

\* The echo of a prefix of the input is a prefix of the echo.
LEMMA EchoMonotone ==
  \A n \in Nat : \A s \in Seq(Octet) : \A k \in 0 .. n :
    Len(s) = n => Prefix(Echo(Upto(s, k)), Echo(s))
<1> DEFINE Q(n) == \A s \in Seq(Octet) : \A k \in 0 .. n : Len(s) = n => Prefix(Echo(Upto(s, k)), Echo(s))
           S == {n \in Nat : Q(n)}
<1>0. \A e \in Seq(Octet) : Prefix(e, e)
  <2> TAKE e \in Seq(Octet)
  <2>1. Len(e) \in Nat
    BY LenProperties
  <2> QED
    BY <2>1 DEF Prefix
<1>1. ASSUME NEW s \in Seq(Octet) PROVE Prefix(Echo(Upto(s, Len(s))), Echo(s))
  BY <1>0, UptoAll, EchoType
<1>2. Q(0)
  <2> SUFFICES ASSUME NEW s \in Seq(Octet), NEW k \in 0 .. 0, Len(s) = 0 PROVE Prefix(Echo(Upto(s, k)), Echo(s))
    BY Zenon
  <2>1. k = Len(s)
    OBVIOUS
  <2> QED
    BY <1>1, <2>1, Zenon
<1>3. ASSUME NEW n \in Nat, Q(n) PROVE Q(n + 1)
  <2> SUFFICES ASSUME NEW s \in Seq(Octet), NEW k \in 0 .. n + 1, Len(s) = n + 1
               PROVE  Prefix(Echo(Upto(s, k)), Echo(s))
    OBVIOUS
  <2>1. CASE k = n + 1
    BY <1>1, <2>1
  <2>2. CASE k \in 0 .. n
    <3> DEFINE f == Upto(s, n)
    <3>1. n \in 0 .. Len(s) /\ n < Len(s) /\ k \in 0 .. Len(s) /\ n + 1 \in 1 .. Len(s)
      BY <2>2
    <3>2. f \in Seq(Octet) /\ Len(f) = n /\ \A j \in 1 .. n : f[j] = s[j]
      BY <3>1, UptoType
    <3>3. s = Append(f, s[n + 1]) /\ s[n + 1] \in Octet
      BY <3>1, UptoStep, UptoAll, ElementOfSeq
    <3> HIDE DEF f
    <3>4. Upto(f, k) = Upto(s, k)
      <4>1. Upto(f, k) \in Seq(Octet) /\ Len(Upto(f, k)) = k /\ \A j \in 1 .. k : Upto(f, k)[j] = f[j]
        BY <2>2, <3>2, UptoType, Zenon
      <4>2. Upto(s, k) \in Seq(Octet) /\ Len(Upto(s, k)) = k /\ \A j \in 1 .. k : Upto(s, k)[j] = s[j]
        BY <3>1, UptoType
      <4>3. \A j \in 1 .. k : j \in 1 .. n
        BY <2>2
      <4> QED
        BY <3>2, <4>1, <4>2, <4>3, SameBytes
    <3>5. Prefix(Echo(Upto(s, k)), Echo(f))
      BY <1>3, <2>2, <3>2, <3>4
    <3>6. Echo(Upto(s, k)) \in Seq(Octet) /\ Echo(f) \in Seq(Octet) /\ Echo(s) \in Seq(Octet)
      BY <3>1, <3>2, UptoType, EchoType
    <3>7. Prefix(Echo(f), Echo(s))
      <4>1. PICK b \in Octet : b = s[n + 1]
        BY <3>3
      <4>2. Echo(s) = IF InMessage(f) /\ b # Dollar THEN Append(Echo(f), Inc(b)) ELSE Echo(f)
        BY <3>2, <3>3, <4>1, EchoStep, Zenon
      <4>3. Prefix(Echo(f), Append(Echo(f), Inc(b)))
        <5> DEFINE e == Echo(f)
        <5>1. e \in Seq(Octet) /\ Inc(b) \in Octet
          BY <3>6, IncType
        <5> HIDE DEF e
        <5>2. Len(e) \in Nat /\ Len(Append(e, Inc(b))) = Len(e) + 1
              /\ \A j \in 1 .. Len(e) : Append(e, Inc(b))[j] = e[j]
          BY <5>1, AppendProperties, LenProperties
        <5>3. Prefix(e, Append(e, Inc(b)))
          BY <5>2 DEF Prefix
        <5> QED
          BY <5>3 DEF e
      <4> QED
        BY <1>0, <3>6, <4>2, <4>3
    <3> QED
      BY <3>5, <3>6, <3>7, PrefixTransitive
  <2> QED
    BY <2>1, <2>2
<1> HIDE DEF Q
<1>4. 0 \in S /\ \A n \in Nat : n \in S => n + 1 \in S
  BY <1>2, <1>3
<1>5. \A m \in Nat : m \in S
  <2> HIDE DEF S
  <2> QED
    BY <1>4, SetInduction
<1> QED
  BY <1>5 DEF Q

=============================================================================
