--------------------------- MODULE InductionLemmas ---------------------------
(***************************************************************************)
(* Induction over numbers as the proofs here use it: a claim that fails     *)
(* for some number fails for a least one.                                   *)
(***************************************************************************)
EXTENDS Integers, FiniteSets, TLAPS, WellFoundedInduction, FiniteSetTheorems

\* A non-empty set of natural numbers has a least element.
LEMMA LeastNatural ==
    ASSUME NEW T, T \subseteq Nat, T # {}
    PROVE  \E x \in T : \A y \in T : x <= y
<1>. DEFINE Less == {ss \in Nat \X Nat : ss[1] < ss[2]}
<1>1. PICK x \in T : \A y \in T : ~(<<y, x>> \in OpToRel(<, Nat))
  BY NatLessThanWellFounded, WFMin
<1>2. OpToRel(<, Nat) = Less
  BY DEF OpToRel
<1>3. \A y \in T : ~(<<y, x>> \in Less)
  BY <1>1, <1>2, Zenon
<1>4. \A y \in T : x <= y
  <2>. TAKE y \in T
  <2>1. x \in Nat /\ y \in Nat
    OBVIOUS
  <2>2. ~(y < x)
    BY <1>3, <2>1
  <2>. QED BY <2>1, <2>2
<1>. QED BY <1>4

\* A non-empty finite set of integers has a greatest element: the one with the
\* fewest above it.
LEMMA GreatestOfFinite ==
    ASSUME NEW S, S \subseteq Int, IsFiniteSet(S), S # {}
    PROVE  \E x \in S : \A y \in S : y <= x
<1>. DEFINE Above(x) == {y \in S : x < y}
            counts == {Cardinality(Above(x)) : x \in S}
<1>1. \A x \in S : IsFiniteSet(Above(x)) /\ Cardinality(Above(x)) \in Nat
  BY FS_Subset, FS_CardinalityType
<1>2. PICK n \in counts : \A k \in counts : n <= k
  <2>1. counts \subseteq Nat /\ counts # {}
    BY <1>1
  <2>. HIDE DEF counts
  <2>. QED BY <2>1, LeastNatural
<1>3. PICK x \in S : n = Cardinality(Above(x))
  OBVIOUS
<1>4. ASSUME NEW y \in S, x < y PROVE FALSE
  <2>1. Above(y) \in SUBSET Above(x) /\ Above(y) # Above(x)
    <3>1. \A z \in S : y < z => x < z
      BY <1>4
    <3>2. y \in Above(x) /\ y \notin Above(y)
      BY <1>4
    <3>. QED BY <3>1, <3>2
  <2>2. Cardinality(Above(y)) <= Cardinality(Above(x))
        /\ Cardinality(Above(y)) # Cardinality(Above(x))
    <3>. HIDE DEF Above
    <3>. QED BY <1>1, <1>3, <2>1, FS_Subset
  <2>3. Cardinality(Above(x)) <= Cardinality(Above(y))
    BY <1>2, <1>3, <1>4
  <2>. QED BY <1>1, <1>3, <1>4, <2>2, <2>3
<1>. QED BY <1>3, <1>4

\* The values of a recursion that starts with e, and of a loop of n steps.
Iterates(g, T, e, F) == g \in [Nat -> T] /\ g[0] = e /\ \A n \in Nat : g[n + 1] = F[n][g[n]]
LoopValues(h, T, e, n, F) == h \in [0..n -> T] /\ h[0] = e /\ \A i \in 1..n : h[i] = F[i][h[i - 1]]

\* A step function, applied over and over, yields one value for every number.
LEMMA RecursionOverNat ==
    ASSUME NEW T, NEW e \in T, NEW F \in [Nat -> [T -> T]]
    PROVE  \E g : Iterates(g, T, e, F)
<1>. DEFINE UpTo(n, g) == /\ g \in [0..n -> T] /\ g[0] = e
                          /\ \A k \in Nat : k + 1 \in 0..n => g[k + 1] = F[k][g[k]]
<1>1. \A n \in Nat : \E g : UpTo(n, g)
  <2>. DEFINE without == {n \in Nat : ~\E g : UpTo(n, g)}
  <2>. SUFFICES ASSUME without # {} PROVE FALSE
    OBVIOUS
  <2>1. PICK x \in without : \A y \in without : x <= y
    <3>1. without \subseteq Nat
      OBVIOUS
    <3>. HIDE DEF without
    <3>. QED BY <3>1, LeastNatural
  <2>2. CASE x = 0
    <3>1. UpTo(0, [k \in 0..0 |-> e])
      OBVIOUS
    <3>. QED BY <2>1, <2>2, <3>1
  <2>3. CASE x # 0
    <3>1. x - 1 \in Nat /\ x \in Nat
      BY <2>3
    <3>2. PICK g : UpTo(x - 1, g)
      <4>1. x - 1 \notin without
        BY <2>1, <3>1
      <4>. HIDE DEF UpTo
      <4>. QED BY <3>1, <4>1
    <3>. DEFINE h == [k \in 0..x |-> IF k = x THEN F[x - 1][g[x - 1]] ELSE g[k]]
    <3>3. g[x - 1] \in T /\ F[x - 1][g[x - 1]] \in T
      BY <3>1, <3>2
    <3>4. h \in [0..x -> T] /\ h[0] = e
      BY <2>3, <3>1, <3>2, <3>3
    <3>5. ASSUME NEW k \in Nat, k + 1 \in 0..x PROVE h[k + 1] = F[k][h[k]]
      <4>1. k \in 0..x /\ k # x /\ h[k] = g[k]
        BY <3>5
      <4>2. CASE k + 1 = x
        BY <3>5, <4>1, <4>2
      <4>3. CASE k + 1 # x
        BY <3>1, <3>2, <3>5, <4>1, <4>3
      <4>. QED BY <4>2, <4>3
    <3>. QED BY <3>4, <3>5
  <2>. QED BY <2>2, <2>3
<1>2. ASSUME NEW n \in Nat, NEW m \in Nat, NEW g, NEW h, UpTo(n, g), UpTo(m, h)
      PROVE  \A k \in Nat : k <= n /\ k <= m => g[k] = h[k]
  <2>. DEFINE apart == {k \in Nat : k <= n /\ k <= m /\ g[k] # h[k]}
  <2>. SUFFICES ASSUME apart # {} PROVE FALSE
    OBVIOUS
  <2>1. PICK x \in apart : \A y \in apart : x <= y
    <3>1. apart \subseteq Nat
      OBVIOUS
    <3>. HIDE DEF apart
    <3>. QED BY <3>1, LeastNatural
  <2>2. x # 0
    BY <1>2, <2>1
  <2>3. x - 1 \in Nat /\ x - 1 \notin apart /\ (x - 1) + 1 = x
    BY <2>1, <2>2
  <2>4. g[x - 1] = h[x - 1]
    BY <2>1, <2>3
  <2>5. g[x] = F[x - 1][g[x - 1]] /\ h[x] = F[x - 1][h[x - 1]]
    BY <1>2, <2>1, <2>3
  <2>. QED BY <2>1, <2>4, <2>5
<1>. DEFINE G(n) == CHOOSE g : UpTo(n, g)
            f == [n \in Nat |-> G(n)[n]]
<1>3. \A n \in Nat : UpTo(n, G(n))
  <2>. HIDE DEF UpTo
  <2>. QED BY <1>1
<1>4. f \in [Nat -> T] /\ f[0] = e
  <2>. HIDE DEF G
  <2>. QED BY <1>3
<1>5. ASSUME NEW n \in Nat PROVE f[n + 1] = F[n][f[n]]
  <2>. HIDE DEF G
  <2>1. n + 1 \in Nat /\ UpTo(n, G(n)) /\ UpTo(n + 1, G(n + 1))
    BY <1>3
  <2>2. G(n)[n] = G(n + 1)[n]
    <3>. HIDE DEF UpTo
    <3>. QED BY <1>2, <2>1
  <2>3. G(n + 1)[n + 1] = F[n][G(n + 1)[n]]
    BY <2>1
  <2>. QED BY <2>1, <2>2, <2>3
<1>. HIDE DEF f
<1>6. Iterates(f, T, e, F)
  BY <1>4, <1>5 DEF Iterates
<1>. QED BY <1>6

\* So a loop of n steps has a value after each of them.
LEMMA LoopHasValues ==
    ASSUME NEW T, NEW e \in T, NEW n \in Nat, NEW F \in [1..n -> [T -> T]]
    PROVE  \E h : LoopValues(h, T, e, n, F)
<1>. DEFINE step == [k \in Nat |-> [x \in T |-> IF k + 1 \in 1..n THEN F[k + 1][x] ELSE x]]
<1>1. step \in [Nat -> [T -> T]]
  OBVIOUS
<1>2. \A k \in Nat, x \in T : k + 1 \in 1..n => step[k][x] = F[k + 1][x]
  OBVIOUS
<1>. HIDE DEF step
<1>3. PICK g : Iterates(g, T, e, step)
  BY <1>1, RecursionOverNat
<1>. DEFINE h == [i \in 0..n |-> g[i]]
<1>4. h \in [0..n -> T] /\ h[0] = e
  BY <1>3 DEF Iterates
<1>5. ASSUME NEW i \in 1..n PROVE h[i] = F[i][h[i - 1]]
  <2>1. i - 1 \in Nat /\ (i - 1) + 1 = i /\ i - 1 \in 0..n /\ i \in 0..n
    OBVIOUS
  <2>2. g[i] = step[i - 1][g[i - 1]] /\ g[i - 1] \in T
    BY <1>3, <2>1 DEF Iterates
  <2>. QED BY <1>2, <2>1, <2>2
<1>6. LoopValues(h, T, e, n, F)
  <2>. HIDE DEF h
  <2>. QED BY <1>4, <1>5 DEF LoopValues
<1>. QED BY <1>6
=============================================================================
