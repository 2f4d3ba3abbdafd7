--------------------------- MODULE ReconcileProofs ---------------------------
(***************************************************************************)
(* Proofs about the pending set: what the operations on its ranges cover,   *)
(* and what the commit and the orphan scan do to the messages.              *)
(***************************************************************************)
EXTENDS Reconcile, InductionLemmas, FunctionTheorems, SequenceTheorems, TLAPS

(***************************************************************************)
(* Sorting.                                                                *)
(***************************************************************************)
IsTotalOrder(R, S) ==
    /\ \A x \in S : <<x, x>> \notin R
    /\ \A x, y \in S : x = y \/ <<x, y>> \in R \/ <<y, x>> \in R
    /\ \A x, y, z \in S : <<x, y>> \in R /\ <<y, z>> \in R => <<x, z>> \in R

\* s lists the elements of S, each once, in the order R.
Lists(s, S, R) ==
    /\ s \in [1..Cardinality(S) -> S] /\ Cardinality(S) \in Nat
    /\ \A x \in S : \E i \in 1..Cardinality(S) : s[i] = x
    /\ \A i, j \in 1..Cardinality(S) : i < j => <<s[i], s[j]>> \in R

\* The number of elements before it tells every element of a finite ordered set
\* from the others, so sorted() lists each of them once, in order.
LEMMA SortedLists ==
    ASSUME NEW S, IsFiniteSet(S), NEW R, IsTotalOrder(R, S)
    PROVE  Lists(Sorted(S, R), S, R)
<1>. DEFINE Below(x) == {y \in S : <<y, x>> \in R}
            n == Cardinality(S)
            rank == [x \in S |-> Cardinality(Below(x)) + 1]
            s == Sorted(S, R)
<1>1. n \in Nat /\ \A x \in S : IsFiniteSet(Below(x)) /\ Cardinality(Below(x)) \in Nat
  BY FS_Subset, FS_CardinalityType
<1>2. ASSUME NEW x \in S, NEW y \in S, <<x, y>> \in R PROVE Cardinality(Below(x)) < Cardinality(Below(y))
  <2>1. Below(x) \in SUBSET Below(y)
    BY <1>2 DEF IsTotalOrder
  <2>2. x \in Below(y) /\ x \notin Below(x)
    BY <1>2 DEF IsTotalOrder
  <2>. HIDE DEF Below
  <2>3. Cardinality(Below(x)) <= Cardinality(Below(y)) /\ Cardinality(Below(x)) # Cardinality(Below(y))
    BY <1>1, <2>1, <2>2, FS_Subset
  <2>. QED BY <1>1, <2>3
<1>3. ASSUME NEW x \in S PROVE rank[x] \in 1..n
  <2>1. Below(x) \in SUBSET S /\ x \in S /\ x \notin Below(x)
    BY DEF IsTotalOrder
  <2>. HIDE DEF Below
  <2>2. Cardinality(Below(x)) <= Cardinality(S) /\ Cardinality(Below(x)) # Cardinality(S)
    BY <2>1, FS_Subset
  <2>. QED BY <1>1, <2>2
<1>4. rank \in Injection(S, 1..n)
  <2>1. ASSUME NEW x \in S, NEW y \in S, rank[x] = rank[y] PROVE x = y
    <3>1. Cardinality(Below(x)) = Cardinality(Below(y))
      <4>. HIDE DEF Below
      <4>. QED BY <1>1, <2>1
    <3>. HIDE DEF Below
    <3>2. ~(<<x, y>> \in R) /\ ~(<<y, x>> \in R)
      BY <1>1, <1>2, <3>1
    <3>. QED BY <3>2 DEF IsTotalOrder
  <2>2. rank \in [S -> 1..n]
    <3>. HIDE DEF n
    <3>. QED BY <1>3
  <2>. HIDE DEF rank, n
  <2>. QED BY <2>1, <2>2 DEF Injection, IsInjective
<1>5. IsFiniteSet(1..n) /\ Cardinality(1..n) = n
  <2>. HIDE DEF n
  <2>. QED BY <1>1, FS_Interval
<1>6. ASSUME NEW i \in 1..n PROVE \E x \in S : rank[x] = i
  <2>. HIDE DEF rank
  <2>1. rank \in Surjection(S, 1..n)
    BY <1>4, <1>5, FS_Injection
  <2>. HIDE DEF n
  <2>. QED BY <2>1 DEF Surjection
<1>7. ASSUME NEW i \in 1..n PROVE s[i] \in S /\ rank[s[i]] = i
  <2>1. s[i] = CHOOSE x \in S : Cardinality(Below(x)) = i - 1
    BY DEF Sorted
  <2>2. \E x \in S : Cardinality(Below(x)) = i - 1
    <3>1. PICK x \in S : rank[x] = i
      BY <1>6
    <3>2. Cardinality(Below(x)) + 1 = i
      BY <3>1
    <3>. HIDE DEF Below, n
    <3>3. Cardinality(Below(x)) = i - 1
      BY <1>1, <3>2
    <3>. QED BY <3>3
  <2>3. s[i] \in S /\ Cardinality(Below(s[i])) = i - 1
    <3>. HIDE DEF s, n, Below
    <3>. QED BY <2>1, <2>2
  <2>. HIDE DEF Below, s, n
  <2>. QED BY <1>1, <2>3
<1>8. s \in [1..n -> S]
  <2>. DEFINE Nth(i) == CHOOSE x \in S : Cardinality(Below(x)) = i - 1
  <2>0. s = [i \in 1..n |-> Nth(i)]
    BY Zenon DEF Sorted
  <2>. HIDE DEF Nth
  <2>1. s = [i \in 1..n |-> s[i]]
    <3>. HIDE DEF s, n
    <3>. QED BY <2>0
  <2>. HIDE DEF s, rank, n
  <2>. QED BY <1>7, <2>1
<1>9. ASSUME NEW x \in S PROVE \E i \in 1..n : s[i] = x
  <2>1. rank[x] \in 1..n
    BY <1>3
  <2>2. rank[s[rank[x]]] = rank[x] /\ s[rank[x]] \in S
    <3>. HIDE DEF s, rank, n
    <3>. QED BY <1>7, <2>1
  <2>. HIDE DEF s, rank, n
  <2>. QED BY <1>4, <2>1, <2>2 DEF Injection, IsInjective
<1>10. ASSUME NEW i \in 1..n, NEW j \in 1..n, i < j PROVE <<s[i], s[j]>> \in R
  <2>1. s[i] \in S /\ s[j] \in S /\ rank[s[i]] = i /\ rank[s[j]] = j
    BY <1>7
  <2>2. Cardinality(Below(s[i])) + 1 = i /\ Cardinality(Below(s[j])) + 1 = j
    <3>. HIDE DEF s, n
    <3>. QED BY <2>1
  <2>. HIDE DEF s, n, Below
  <2>3. ~(<<s[j], s[i]>> \in R) /\ s[i] # s[j]
    BY <1>1, <1>2, <1>10, <2>1, <2>2
  <2>. QED BY <2>1, <2>3 DEF IsTotalOrder
<1>. HIDE DEF s, rank, Below
<1>11. Lists(s, S, R)
  BY <1>1, <1>8, <1>9, <1>10, Zenon DEF Lists
<1>. QED BY <1>11 DEF s

\* sorted() of sequence numbers: each of them once, ascending.
LEMMA AscendingLists ==
    ASSUME NEW S, IsFiniteSet(S), S \subseteq Int
    PROVE  /\ Ascending(S) \in Seq(S) /\ Len(Ascending(S)) = Cardinality(S) /\ ToSet(Ascending(S)) = S
           /\ \A i, j \in DOMAIN Ascending(S) : i < j => Ascending(S)[i] < Ascending(S)[j]
<1>. DEFINE R == {p \in S \X S : p[1] < p[2]}
            s == Ascending(S)
<1>1. \A x, y \in S : <<x, y>> \in R <=> x < y
  OBVIOUS
<1>2. IsTotalOrder(R, S)
  <2>. HIDE DEF R
  <2>. QED BY <1>1 DEF IsTotalOrder
<1>3. Lists(s, S, R)
  <2>1. s = Sorted(S, R)
    BY DEF Ascending
  <2>. HIDE DEF R
  <2>. QED BY <1>2, <2>1, SortedLists
<1>. HIDE DEF s, R
<1>4. s \in Seq(S) /\ Len(s) = Cardinality(S) /\ DOMAIN s = 1..Cardinality(S)
  BY <1>3 DEF Lists
<1>5. ToSet(s) = S
  BY <1>3, <1>4 DEF Lists, ToSet
<1>6. \A i, j \in DOMAIN s : i < j => s[i] < s[j]
  BY <1>1, <1>3, <1>4 DEF Lists
<1>. QED BY <1>4, <1>5, <1>6 DEF s

\* sorted() of ranges: each of them once, by where they start.
LEMMA InOrderLists ==
    ASSUME NEW S, IsFiniteSet(S), S \subseteq Int \X Int
    PROVE  /\ InOrder(S) \in Seq(S) /\ Len(InOrder(S)) = Cardinality(S) /\ ToSet(InOrder(S)) = S
           /\ \A i, j \in DOMAIN InOrder(S) : i < j => InOrder(S)[i][1] <= InOrder(S)[j][1]
<1>. DEFINE R == {p \in S \X S : Before(p[1], p[2])}
            s == InOrder(S)
<1>1. \A x, y \in S : <<x, y>> \in R <=> Before(x, y)
  <2>. HIDE DEF Before
  <2>. QED OBVIOUS
<1>2. IsTotalOrder(R, S)
  <2>. HIDE DEF R
  <2>1. \A x \in S : x[1] \in Int /\ x[2] \in Int /\ x = <<x[1], x[2]>>
    OBVIOUS
  <2>2. \A x \in S : <<x, x>> \notin R
    BY <1>1, <2>1 DEF Before
  <2>3. ASSUME NEW x \in S, NEW y \in S PROVE x = y \/ <<x, y>> \in R \/ <<y, x>> \in R
    <3>1. x[1] = y[1] /\ x[2] = y[2] => x = y
      BY <2>1, Zenon
    <3>. QED BY <1>1, <2>1, <3>1 DEF Before
  <2>4. \A x, y, z \in S : <<x, y>> \in R /\ <<y, z>> \in R => <<x, z>> \in R
    BY <1>1, <2>1 DEF Before
  <2>. QED BY <2>2, <2>3, <2>4 DEF IsTotalOrder
<1>3. Lists(s, S, R)
  <2>1. s = Sorted(S, R)
    BY DEF InOrder
  <2>. HIDE DEF R
  <2>. QED BY <1>2, <2>1, SortedLists
<1>. HIDE DEF s, R
<1>4. s \in Seq(S) /\ Len(s) = Cardinality(S) /\ DOMAIN s = 1..Cardinality(S)
  BY <1>3 DEF Lists
<1>5. ToSet(s) = S
  BY <1>3, <1>4 DEF Lists, ToSet
<1>6. ASSUME NEW i \in DOMAIN s, NEW j \in DOMAIN s, i < j PROVE s[i][1] <= s[j][1]
  <2>1. s[i] \in S /\ s[j] \in S /\ Before(s[i], s[j])
    BY <1>1, <1>3, <1>4, <1>6 DEF Lists
  <2>. QED BY <2>1 DEF Before
<1>. QED BY <1>4, <1>5, <1>6 DEF s

(***************************************************************************)
(* Ranges.                                                                 *)
(***************************************************************************)
Ranges == Seq(Int \X Int)

\* What a list of ranges is made of, and what it covers.
LEMMA RangesAreLists ==
    ASSUME NEW m \in Ranges
    PROVE  /\ DOMAIN m = 1..Len(m) /\ Len(m) \in Nat
           /\ \A i \in DOMAIN m : m[i] \in Int \X Int /\ m[i] = <<m[i][1], m[i][2]>>
                                  /\ m[i][1] \in Int /\ m[i][2] \in Int
           /\ \A q : q \in Cover(m) <=> \E i \in DOMAIN m : q \in m[i][1]..m[i][2]
<1>1. \A i \in DOMAIN m : m[i] \in Int \X Int
  BY DEF Ranges
<1>2. \A q : q \in Cover(m) <=> \E i \in DOMAIN m : q \in m[i][1]..m[i][2]
  BY DEF Cover, ToSet
<1>. QED BY <1>1, <1>2 DEF Ranges

\* Replacing the last range, or appending one.
LEMMA LastReplaced ==
    ASSUME NEW m \in Ranges, m # <<>>, NEW r \in Int \X Int
    PROVE  LET j == Append(Front(m), r) IN
           /\ j \in Ranges /\ Len(j) = Len(m) /\ Last(j) = r /\ j # <<>>
           /\ \A i \in 1..Len(m) : j[i] = IF i = Len(m) THEN r ELSE m[i]
<1>. DEFINE f == Front(m)
            j == Append(f, r)
            n == Len(m)
<1>1. n \in Nat \ {0} /\ DOMAIN m = 1..n
  BY DEF Ranges
<1>2. f \in Seq(Int \X Int) /\ Len(f) = n - 1 /\ \A i \in 1..(n - 1) : f[i] = m[i]
  <2>. DEFINE T == Int \X Int
  <2>1. m \in Seq(T) /\ f = SubSeq(m, 1, n - 1)
    BY DEF Front, Ranges
  <2>. HIDE DEF T, f, n
  <2>2. \A i \in 1..(n - 1) : m[i] \in T
    BY <1>1, <2>1
  <2>3. 1 \in Int /\ n - 1 \in Int
    BY <1>1
  <2>4. /\ SubSeq(m, 1, n - 1) \in Seq(T) /\ Len(SubSeq(m, 1, n - 1)) = (IF 1 <= n - 1 THEN (n - 1) - 1 + 1 ELSE 0)
        /\ \A i \in 1..((n - 1) - 1 + 1) : SubSeq(m, 1, n - 1)[i] = m[1 + i - 1]
    BY <2>2, <2>3, SubSeqProperties
  <2>5. Len(f) = n - 1
    BY <1>1, <2>1, <2>4
  <2>6. \A i \in 1..(n - 1) : i \in 1..((n - 1) - 1 + 1) /\ 1 + i - 1 = i
    BY <1>1
  <2>. QED BY <2>1, <2>4, <2>5, <2>6 DEF T
<1>. HIDE DEF f, n
<1>3. /\ j \in Seq(Int \X Int) /\ j # <<>> /\ Len(j) = Len(f) + 1 /\ j[Len(f) + 1] = r
      /\ \A i \in 1..Len(f) : j[i] = f[i]
  <2>. DEFINE T == Int \X Int
  <2>1. f \in Seq(T) /\ r \in T
    BY <1>2
  <2>. HIDE DEF T
  <2>2. /\ Append(f, r) \in Seq(T) /\ Append(f, r) # <<>> /\ Len(Append(f, r)) = Len(f) + 1
        /\ \A i \in 1..Len(f) : Append(f, r)[i] = f[i]
        /\ Append(f, r)[Len(f) + 1] = r
    BY <2>1, AppendProperties
  <2>. QED BY <2>2, Zenon DEF T
<1>. HIDE DEF j
<1>4. Len(f) + 1 = n /\ Len(j) = n /\ n \in 1..n
  BY <1>1, <1>2, <1>3
<1>5. ASSUME NEW i \in 1..n PROVE j[i] = IF i = n THEN r ELSE m[i]
  <2>1. i # n => i \in 1..Len(f) /\ i \in 1..(n - 1)
    BY <1>1, <1>4
  <2>2. i # n => j[i] = m[i]
    BY <1>2, <1>3, <2>1, Zenon
  <2>3. i = n => j[i] = r
    BY <1>3, <1>4, Zenon
  <2>. QED BY <2>2, <2>3, Zenon
<1>6. Last(j) = r
  BY <1>3, <1>4, Zenon DEF Last
<1>. QED BY <1>3, <1>4, <1>5, <1>6, Zenon DEF f, j, n, Ranges

\* merge_ranges, one range: joined with the last one or put after it, it adds
\* exactly what it covers and leaves the list canonical.
LEMMA JoinedCovers ==
    ASSUME NEW m \in Ranges, Canonical(m), NEW r \in Int \X Int, r[1] <= r[2],
           m # <<>> => Last(m)[1] <= r[1]
    PROVE  LET j == JoinedWith(m, r) IN
           /\ j \in Ranges /\ Canonical(j) /\ j # <<>> /\ Last(j)[1] <= r[1]
           /\ Cover(j) = Cover(m) \cup r[1]..r[2]
<1>. DEFINE j == JoinedWith(m, r)
            n == Len(m)
<1>0. r[1] \in Int /\ r[2] \in Int
  OBVIOUS
<1>1. CASE m # <<>> /\ r[1] <= Last(m)[2] + 1
  <2>. DEFINE last == <<Last(m)[1], Max2(Last(m)[2], r[2])>>
  <2>1. j = Append(Front(m), last)
    BY <1>1 DEF JoinedWith
  <2>2. n \in Nat \ {0} /\ Last(m) = m[n] /\ n \in DOMAIN m
    BY <1>1, RangesAreLists DEF Last, Ranges
  <2>3. m[n][1] \in Int /\ m[n][2] \in Int /\ m[n][1] <= m[n][2] /\ m[n][1] <= r[1] /\ r[1] <= m[n][2] + 1
    BY <1>1, <2>2, RangesAreLists DEF Canonical
  <2>4. last \in Int \X Int /\ last[1] = m[n][1] /\ last[2] \in Int /\ last[2] >= m[n][2] /\ last[2] >= r[2]
        /\ (last[2] = m[n][2] \/ last[2] = r[2])
    BY <1>0, <2>2, <2>3 DEF Max2
  <2>. HIDE DEF last, j, n
  <2>5. j \in Ranges /\ Len(j) = n /\ Last(j) = last /\ j # <<>>
        /\ \A i \in 1..n : j[i] = IF i = n THEN last ELSE m[i]
    BY <1>1, <2>1, <2>4, LastReplaced DEF n
  <2>6. Canonical(j)
    <3>1. DOMAIN j = 1..n /\ DOMAIN m = 1..n
      BY <2>5, RangesAreLists DEF n
    <3>2. \A i \in 1..n : m[i][1] \in Int /\ m[i][2] \in Int /\ m[i][1] <= m[i][2]
      BY <3>1, RangesAreLists DEF Canonical
    <3>3. \A i \in 1..n : i > 1 => m[i - 1][2] + 1 < m[i][1]
      BY <3>1 DEF Canonical
    <3>4. ASSUME NEW i \in 1..n PROVE j[i][1] <= j[i][2]
      BY <2>3, <2>4, <2>5, <3>2
    <3>5. ASSUME NEW i \in 1..n, i > 1 PROVE j[i - 1][2] + 1 < j[i][1]
      <4>1. i - 1 \in 1..n /\ i - 1 # n /\ j[i - 1] = m[i - 1] /\ j[i][1] = m[i][1]
        BY <2>2, <2>4, <2>5, <3>5
      <4>. QED BY <3>3, <3>5, <4>1
    <3>. QED BY <3>1, <3>4, <3>5 DEF Canonical
  <2>7. last[1]..last[2] = m[n][1]..m[n][2] \cup r[1]..r[2]
    BY <1>0, <2>3, <2>4
  <2>8. Cover(j) = Cover(m) \cup r[1]..r[2]
    <3>1. \A q : q \in Cover(j) <=> \E i \in 1..n : q \in j[i][1]..j[i][2]
      BY <2>5, RangesAreLists
    <3>2. \A q : q \in Cover(m) <=> \E i \in 1..n : q \in m[i][1]..m[i][2]
      BY <2>2, RangesAreLists DEF n
    <3>3. \A q : (\E i \in 1..n : q \in j[i][1]..j[i][2])
                 <=> (q \in last[1]..last[2] \/ \E i \in 1..n : i # n /\ q \in m[i][1]..m[i][2])
      BY <2>2, <2>5
    <3>4. \A q : (\E i \in 1..n : q \in m[i][1]..m[i][2])
                 <=> (q \in m[n][1]..m[n][2] \/ \E i \in 1..n : i # n /\ q \in m[i][1]..m[i][2])
      BY <2>2
    <3>. QED BY <2>7, <3>1, <3>2, <3>3, <3>4
  <2>. QED BY <2>3, <2>4, <2>5, <2>6, <2>8 DEF j
<1>2. CASE m = <<>> \/ r[1] > Last(m)[2] + 1
  <2>1. j = Append(m, r)
    <3>1. CASE m = <<>>
      BY <3>1 DEF JoinedWith
    <3>2. CASE m # <<>>
      <4>1. Last(m)[2] \in Int
        BY <3>2, RangesAreLists DEF Last, Ranges
      <4>. QED BY <1>0, <1>2, <3>2, <4>1 DEF JoinedWith
    <3>. QED BY <3>1, <3>2
  <2>2. n \in Nat /\ DOMAIN m = 1..n
    BY RangesAreLists
  <2>. HIDE DEF j, n
  <2>3. j \in Ranges /\ Len(j) = n + 1 /\ Last(j) = r /\ j # <<>>
        /\ j[n + 1] = r /\ \A i \in 1..n : j[i] = m[i]
    BY <2>1, <2>2 DEF Ranges, Last, n
  <2>4. m # <<>> => n > 0 /\ Last(m) = m[n]
    BY <2>2 DEF Last, Ranges, n
  <2>5. Canonical(j)
    <3>1. \A i \in DOMAIN j : i \in 1..n \/ i = n + 1
      BY <2>2, <2>3, RangesAreLists
    <3>2. ASSUME NEW i \in DOMAIN j PROVE j[i][1] <= j[i][2]
      BY <2>2, <2>3, <3>1, <3>2 DEF Canonical
    <3>3. ASSUME NEW i \in DOMAIN j, i > 1 PROVE j[i - 1][2] + 1 < j[i][1]
      <4>1. CASE i \in 1..n
        BY <2>2, <2>3, <3>3, <4>1 DEF Canonical
      <4>2. CASE i = n + 1
        <5>1. n > 0 /\ m # <<>> /\ i - 1 = n /\ n \in 1..n
          BY <2>2, <3>3, <4>2 DEF n
        <5>2. m[n][2] \in Int
          BY <2>2, <5>1, RangesAreLists
        <5>. QED BY <1>0, <1>2, <2>3, <2>4, <4>2, <5>1, <5>2
      <4>. QED BY <3>1, <4>1, <4>2
    <3>. QED BY <3>2, <3>3 DEF Canonical
  <2>6. Cover(j) = Cover(m) \cup r[1]..r[2]
    <3>1. \A q : q \in Cover(j) <=> \E i \in 1..(n + 1) : q \in j[i][1]..j[i][2]
      BY <2>3, RangesAreLists
    <3>2. \A q : q \in Cover(m) <=> \E i \in 1..n : q \in m[i][1]..m[i][2]
      BY <2>2, RangesAreLists
    <3>3. \A i \in 1..(n + 1) : i \in 1..n \/ i = n + 1
      BY <2>2
    <3>4. \A i \in 1..n : i \in 1..(n + 1)
      BY <2>2
    <3>5. n + 1 \in 1..(n + 1)
      BY <2>2
    <3>. QED BY <2>3, <3>1, <3>2, <3>3, <3>4, <3>5
  <2>. QED BY <1>0, <2>3, <2>5, <2>6 DEF j
<1>3. m # <<>> => Last(m)[2] \in Int
  BY RangesAreLists DEF Last, Ranges
<1>. QED BY <1>0, <1>1, <1>2, <1>3

\* Joining a range, whatever the list looks like, gives a list of ranges.
LEMMA JoinedIsTyped ==
    ASSUME NEW m \in Ranges, NEW r \in Int \X Int
    PROVE  JoinedWith(m, r) \in Ranges
<1>1. CASE m # <<>> /\ r[1] <= Last(m)[2] + 1
  <2>1. Last(m)[1] \in Int /\ Last(m)[2] \in Int
    BY <1>1, RangesAreLists DEF Last, Ranges
  <2>. DEFINE last == <<Last(m)[1], Max2(Last(m)[2], r[2])>>
  <2>2. last \in Int \X Int /\ JoinedWith(m, r) = Append(Front(m), last)
    BY <1>1, <2>1 DEF JoinedWith, Max2
  <2>. HIDE DEF last
  <2>3. Append(Front(m), last) \in Ranges
    BY <1>1, <2>2, LastReplaced, Zenon
  <2>. QED BY <2>2, <2>3, Zenon
<1>2. CASE ~(m # <<>> /\ r[1] <= Last(m)[2] + 1)
  BY <1>2 DEF JoinedWith, Ranges
<1>. QED BY <1>1, <1>2

\* merge_ranges keeps what the ranges cover, whatever their order and overlaps,
\* and leaves them sorted with a gap between any two.
LEMMA MergedCovers ==
    ASSUME NEW ranges \in Ranges
    PROVE  /\ MergeRanges(ranges) \in Ranges /\ Canonical(MergeRanges(ranges))
           /\ Cover(MergeRanges(ranges)) = Cover(ranges)
<1>. DEFINE S == {r \in ToSet(ranges) : r[1] <= r[2]}
            s == InOrder(S)
            n == Len(s)
            g == CHOOSE h : h = [i \in 0..n |-> IF i = 0 THEN <<>> ELSE JoinedWith(h[i - 1], s[i])]
<1>1. MergeRanges(ranges) = g[n]
  BY DEF MergeRanges
<1>2. IsFiniteSet(S) /\ S \subseteq Int \X Int /\ \A r \in S : r[1] <= r[2]
  <2>1. IsFiniteSet(ToSet(ranges)) /\ ToSet(ranges) \subseteq Int \X Int
    <3>1. DOMAIN ranges = 1..Len(ranges) /\ Len(ranges) \in Nat
      BY RangesAreLists
    <3>2. IsFiniteSet(1..Len(ranges))
      BY <3>1, FS_Interval
    <3>3. ToSet(ranges) = {ranges[i] : i \in 1..Len(ranges)}
      BY <3>1 DEF ToSet
    <3>4. IsFiniteSet({ranges[i] : i \in 1..Len(ranges)})
      <4>. DEFINE f == [i \in 1..Len(ranges) |-> ranges[i]]
      <4>1. f \in Surjection(1..Len(ranges), {ranges[i] : i \in 1..Len(ranges)})
        BY DEF Surjection
      <4>. HIDE DEF f
      <4>. QED BY <3>2, <4>1, FS_Surjection
    <3>5. \A i \in DOMAIN ranges : ranges[i] \in Int \X Int
      BY RangesAreLists
    <3>6. ToSet(ranges) \subseteq Int \X Int
      BY <3>5 DEF ToSet
    <3>. QED BY <3>3, <3>4, <3>6
  <2>. QED BY <2>1, FS_Subset
<1>. HIDE DEF S
<1>3. /\ s \in Seq(S) /\ ToSet(s) = S /\ n \in Nat /\ DOMAIN s = 1..n
      /\ \A i, j \in 1..n : i < j => s[i][1] <= s[j][1]
  <2>1. IsFiniteSet(S) /\ S \subseteq Int \X Int
    BY <1>2
  <2>2. /\ s \in Seq(S) /\ Len(s) = Cardinality(S) /\ ToSet(s) = S
        /\ \A i, j \in DOMAIN s : i < j => s[i][1] <= s[j][1]
    BY <2>1, InOrderLists
  <2>. HIDE DEF s
  <2>3. n \in Nat /\ DOMAIN s = 1..n
    BY <2>2
  <2>. QED BY <2>2, <2>3
<1>. HIDE DEF s, n
<1>4. \A i \in 1..n : s[i] \in Int \X Int /\ s[i][1] <= s[i][2]
  BY <1>2, <1>3
<1>5. g = [i \in 0..n |-> IF i = 0 THEN <<>> ELSE JoinedWith(g[i - 1], s[i])]
  <2>. DEFINE F == [i \in 1..n |-> [m \in Ranges |-> JoinedWith(m, s[i])]]
  <2>1. F \in [1..n -> [Ranges -> Ranges]]
    BY <1>4, JoinedIsTyped
  <2>2. <<>> \in Ranges
    BY DEF Ranges
  <2>3. \A i \in 1..n : \A m \in Ranges : F[i][m] = JoinedWith(m, s[i])
    OBVIOUS
  <2>. HIDE DEF F
  <2>4. PICK h : LoopValues(h, Ranges, <<>>, n, F)
    BY <1>3, <2>1, <2>2, LoopHasValues
  <2>5. h = [i \in 0..n |-> IF i = 0 THEN <<>> ELSE JoinedWith(h[i - 1], s[i])]
    BY <1>3, <2>3, <2>4 DEF LoopValues
  <2>. QED BY <2>5
<1>. HIDE DEF g
<1>. DEFINE Before1(i) == UNION {s[k][1]..s[k][2] : k \in 1..i}
            Good(i) == /\ g[i] \in Ranges /\ Canonical(g[i])
                       /\ i = 0 => g[i] = <<>>
                       /\ i > 0 => g[i] # <<>> /\ Last(g[i])[1] <= s[i][1]
                       /\ Cover(g[i]) = Before1(i)
            bad == {i \in 0..n : ~Good(i)}
<1>6. Good(0)
  <2>1. g[0] = <<>>
    BY <1>3, <1>5
  <2>2. <<>> \in Ranges /\ Canonical(<<>>) /\ Cover(<<>>) = {}
    BY DEF Ranges, Canonical, Cover, ToSet
  <2>3. Before1(0) = {}
    OBVIOUS
  <2>. QED BY <2>1, <2>2, <2>3
<1>7. ASSUME NEW i \in 1..n, Good(i - 1) PROVE Good(i)
  <2>1. g[i] = JoinedWith(g[i - 1], s[i])
    <3>1. i \in 0..n /\ i # 0
      BY <1>3
    <3>. HIDE DEF Good
    <3>. QED BY <1>5, <3>1, Zenon
  <2>2. g[i - 1] # <<>> => Last(g[i - 1])[1] <= s[i][1]
    <3>1. CASE i - 1 = 0
      BY <1>7, <3>1
    <3>2. CASE i - 1 # 0
      <4>1. i - 1 \in 1..n /\ i - 1 < i
        BY <1>3, <3>2
      <4>2. s[i - 1][1] <= s[i][1] /\ s[i - 1][1] \in Int /\ s[i][1] \in Int
        BY <1>3, <1>4, <4>1
      <4>3. g[i - 1] # <<>> /\ Last(g[i - 1])[1] <= s[i - 1][1]
        BY <1>7, <4>1
      <4>4. Last(g[i - 1])[1] \in Int
        BY <1>7, <4>3, RangesAreLists DEF Last, Ranges
      <4>. QED BY <4>2, <4>3, <4>4
    <3>. QED BY <3>1, <3>2
  <2>3. /\ g[i] \in Ranges /\ Canonical(g[i]) /\ g[i] # <<>> /\ Last(g[i])[1] <= s[i][1]
        /\ Cover(g[i]) = Cover(g[i - 1]) \cup s[i][1]..s[i][2]
    BY <1>4, <1>7, <2>1, <2>2, JoinedCovers
  <2>4. Before1(i) = Before1(i - 1) \cup s[i][1]..s[i][2]
    <3>1. \A k \in 1..i : k \in 1..(i - 1) \/ k = i
      OBVIOUS
    <3>2. (\A k \in 1..(i - 1) : k \in 1..i) /\ i \in 1..i
      OBVIOUS
    <3>. QED BY <3>1, <3>2
  <2>5. Cover(g[i - 1]) = Before1(i - 1) /\ i # 0
    BY <1>7
  <2>. HIDE DEF Before1
  <2>. QED BY <2>3, <2>4, <2>5
<1>8. bad = {}
  <2>. SUFFICES ASSUME bad # {} PROVE FALSE
    OBVIOUS
  <2>1. PICK x \in bad : \A y \in bad : x <= y
    <3>1. bad \subseteq Nat
      BY <1>3
    <3>. HIDE DEF bad
    <3>. QED BY <3>1, LeastNatural
  <2>2. x \in 0..n /\ ~Good(x)
    OBVIOUS
  <2>. HIDE DEF Good
  <2>3. x # 0
    BY <1>6, <2>2
  <2>4. x \in 1..n /\ x - 1 \in 0..n /\ x - 1 \notin bad
    BY <1>3, <2>1, <2>2, <2>3
  <2>. QED BY <1>7, <2>2, <2>4
<1>9. Good(n)
  <2>. HIDE DEF Good
  <2>. QED BY <1>3, <1>8
<1>10. Before1(n) = Cover(ranges)
  <2>1. \A q : q \in Before1(n) <=> \E r \in S : q \in r[1]..r[2]
    BY <1>3 DEF ToSet
  <2>2. \A q : q \in Cover(ranges) <=> \E r \in ToSet(ranges) : q \in r[1]..r[2]
    BY DEF Cover
  <2>3. \A r \in ToSet(ranges) : r[1] \in Int /\ r[2] \in Int
    BY RangesAreLists DEF ToSet
  <2>4. \A r \in ToSet(ranges) : \A q \in r[1]..r[2] : r \in S
    BY <2>3 DEF S
  <2>5. \A r \in S : r \in ToSet(ranges)
    BY DEF S
  <2>. HIDE DEF Before1
  <2>. QED BY <2>1, <2>2, <2>4, <2>5
<1>. QED BY <1>1, <1>9, <1>10

\* to_ranges, one sequence number: it is added, and nothing else is.
LEMMA ExtendedCovers ==
    ASSUME NEW m \in Ranges, NEW seq \in Int, m # <<>> => Last(m)[1] <= Last(m)[2]
    PROVE  LET e == ExtendedBy(m, seq) IN
           /\ e \in Ranges /\ e # <<>> /\ Last(e)[1] <= Last(e)[2] /\ Cover(e) = Cover(m) \cup {seq}
<1>. DEFINE e == ExtendedBy(m, seq)
            n == Len(m)
<1>1. n \in Nat /\ DOMAIN m = 1..n
  BY RangesAreLists
<1>2. \A q : q \in Cover(m) <=> \E i \in 1..n : q \in m[i][1]..m[i][2]
  BY RangesAreLists
<1>3. m # <<>> => n > 0 /\ n \in 1..n /\ Last(m) = m[n] /\ Last(m)[1] \in Int /\ Last(m)[2] \in Int
  BY RangesAreLists DEF Last, Ranges
<1>4. CASE m # <<>> /\ seq = Last(m)[2] + 1
  <2>. DEFINE last == <<Last(m)[1], seq>>
  <2>1. e = Append(Front(m), last)
    BY <1>4 DEF ExtendedBy
  <2>2. last \in Int \X Int /\ last[1] = Last(m)[1] /\ last[2] = seq
    BY <1>3, <1>4
  <2>. HIDE DEF last, e, n
  <2>3. /\ e \in Ranges /\ Len(e) = n /\ Last(e) = last /\ e # <<>>
        /\ \A i \in 1..n : e[i] = IF i = n THEN last ELSE m[i]
    BY <1>4, <2>1, <2>2, LastReplaced DEF n
  <2>4. last[1] <= last[2] /\ last[1]..last[2] = Last(m)[1]..Last(m)[2] \cup {seq}
    BY <1>3, <1>4, <2>2
  <2>5. \A q : q \in Cover(e) <=> \E i \in 1..n : q \in e[i][1]..e[i][2]
    BY <2>3, RangesAreLists
  <2>6. \A q : (\E i \in 1..n : q \in e[i][1]..e[i][2])
               <=> (q \in last[1]..last[2] \/ \E i \in 1..n : i # n /\ q \in m[i][1]..m[i][2])
    BY <1>3, <1>4, <2>3
  <2>7. \A q : (\E i \in 1..n : q \in m[i][1]..m[i][2])
               <=> (q \in Last(m)[1]..Last(m)[2] \/ \E i \in 1..n : i # n /\ q \in m[i][1]..m[i][2])
    BY <1>3, <1>4
  <2>8. Cover(e) = Cover(m) \cup {seq}
    BY <1>2, <2>4, <2>5, <2>6, <2>7
  <2>. QED BY <2>3, <2>4, <2>8, Zenon DEF e
<1>5. CASE ~(m # <<>> /\ seq = Last(m)[2] + 1)
  <2>. DEFINE r == <<seq, seq>>
  <2>1. e = Append(m, r) /\ r \in Int \X Int /\ r[1] = seq /\ r[2] = seq
    BY <1>5 DEF ExtendedBy
  <2>. HIDE DEF r
  <2>2. /\ e \in Seq(Int \X Int) /\ e # <<>> /\ Len(e) = Len(m) + 1 /\ e[Len(m) + 1] = r
        /\ \A i \in 1..Len(m) : e[i] = m[i]
    BY <2>1, AppendProperties DEF Ranges
  <2>3. e \in Ranges /\ Len(e) = n + 1 /\ e[n + 1] = r /\ Last(e) = r /\ \A i \in 1..n : e[i] = m[i]
    <3>. HIDE DEF e
    <3>. QED BY <2>2, Zenon DEF Ranges, Last
  <2>. HIDE DEF e, n
  <2>4. \A q : q \in Cover(e) <=> \E i \in 1..(n + 1) : q \in e[i][1]..e[i][2]
    BY <2>3, RangesAreLists
  <2>5. (\A i \in 1..(n + 1) : i \in 1..n \/ i = n + 1) /\ (\A i \in 1..n : i \in 1..(n + 1)) /\ n + 1 \in 1..(n + 1)
    BY <1>1
  <2>6. r[1]..r[2] = {seq}
    BY <2>1
  <2>7. Cover(e) = Cover(m) \cup {seq}
    BY <1>2, <2>3, <2>4, <2>5, <2>6
  <2>8. Last(e)[1] <= Last(e)[2]
    BY <2>1, <2>3
  <2>. QED BY <2>2, <2>3, <2>7, <2>8, Zenon DEF e
<1>. QED BY <1>4, <1>5

\* Extending, whatever the list looks like, gives a list of ranges.
LEMMA ExtendedIsTyped ==
    ASSUME NEW m \in Ranges, NEW seq \in Int
    PROVE  ExtendedBy(m, seq) \in Ranges
<1>1. CASE m # <<>> /\ seq = Last(m)[2] + 1
  <2>1. Last(m)[1] \in Int
    BY <1>1, RangesAreLists DEF Last, Ranges
  <2>. DEFINE last == <<Last(m)[1], seq>>
  <2>2. last \in Int \X Int /\ ExtendedBy(m, seq) = Append(Front(m), last)
    BY <1>1, <2>1 DEF ExtendedBy
  <2>. HIDE DEF last
  <2>3. Append(Front(m), last) \in Ranges
    BY <1>1, <2>2, LastReplaced, Zenon
  <2>. QED BY <2>2, <2>3, Zenon
<1>2. CASE ~(m # <<>> /\ seq = Last(m)[2] + 1)
  BY <1>2 DEF ExtendedBy, Ranges
<1>. QED BY <1>1, <1>2

\* to_ranges covers exactly the sequence numbers it is given.
LEMMA ToRangesCovers ==
    ASSUME NEW S, IsFiniteSet(S), S \subseteq Int
    PROVE  ToRanges(S) \in Ranges /\ Cover(ToRanges(S)) = S
<1>. DEFINE s == Ascending(S)
            n == Len(s)
            g == CHOOSE h : h = [i \in 0..n |-> IF i = 0 THEN <<>> ELSE ExtendedBy(h[i - 1], s[i])]
<1>1. ToRanges(S) = g[n]
  BY DEF ToRanges
<1>2. s \in Seq(S) /\ ToSet(s) = S
  BY AscendingLists, Zenon
<1>. HIDE DEF s
<1>3. s \in Seq(S) /\ ToSet(s) = S /\ n \in Nat /\ DOMAIN s = 1..n
  BY <1>2
<1>. HIDE DEF n
<1>4. \A i \in 1..n : s[i] \in Int
  <2>1. \A i \in 1..n : s[i] \in S
    BY <1>3
  <2>. QED BY <2>1
<1>5. g = [i \in 0..n |-> IF i = 0 THEN <<>> ELSE ExtendedBy(g[i - 1], s[i])]
  <2>. DEFINE F == [i \in 1..n |-> [m \in Ranges |-> ExtendedBy(m, s[i])]]
  <2>1. F \in [1..n -> [Ranges -> Ranges]]
    BY <1>4, ExtendedIsTyped
  <2>2. <<>> \in Ranges
    BY DEF Ranges
  <2>3. \A i \in 1..n : \A m \in Ranges : F[i][m] = ExtendedBy(m, s[i])
    OBVIOUS
  <2>. HIDE DEF F
  <2>4. PICK h : LoopValues(h, Ranges, <<>>, n, F)
    BY <1>3, <2>1, <2>2, LoopHasValues
  <2>5. h = [i \in 0..n |-> IF i = 0 THEN <<>> ELSE ExtendedBy(h[i - 1], s[i])]
    BY <1>3, <2>3, <2>4 DEF LoopValues
  <2>. QED BY <2>5
<1>. HIDE DEF g
<1>. DEFINE First(i) == {s[k] : k \in 1..i}
            Good(i) == /\ g[i] \in Ranges /\ (g[i] # <<>> => Last(g[i])[1] <= Last(g[i])[2])
                       /\ Cover(g[i]) = First(i)
            bad == {i \in 0..n : ~Good(i)}
<1>6. Good(0)
  <2>1. g[0] = <<>>
    BY <1>3, <1>5
  <2>2. <<>> \in Ranges /\ Cover(<<>>) = {}
    BY DEF Ranges, Cover, ToSet
  <2>3. First(0) = {}
    OBVIOUS
  <2>. QED BY <2>1, <2>2, <2>3
<1>7. ASSUME NEW i \in 1..n, Good(i - 1) PROVE Good(i)
  <2>1. g[i] = ExtendedBy(g[i - 1], s[i])
    <3>1. i \in 0..n /\ i # 0
      BY <1>3
    <3>. HIDE DEF Good
    <3>. QED BY <1>5, <3>1, Zenon
  <2>2. /\ g[i] \in Ranges /\ Last(g[i])[1] <= Last(g[i])[2]
        /\ Cover(g[i]) = Cover(g[i - 1]) \cup {s[i]}
    BY <1>4, <1>7, <2>1, ExtendedCovers
  <2>3. First(i) = First(i - 1) \cup {s[i]}
    <3>1. (\A k \in 1..i : k \in 1..(i - 1) \/ k = i) /\ (\A k \in 1..(i - 1) : k \in 1..i) /\ i \in 1..i
      OBVIOUS
    <3>. QED BY <3>1
  <2>. HIDE DEF First
  <2>. QED BY <1>7, <2>2, <2>3
<1>8. bad = {}
  <2>. SUFFICES ASSUME bad # {} PROVE FALSE
    OBVIOUS
  <2>1. PICK x \in bad : \A y \in bad : x <= y
    <3>1. bad \subseteq Nat
      BY <1>3
    <3>. HIDE DEF bad
    <3>. QED BY <3>1, LeastNatural
  <2>2. x \in 0..n /\ ~Good(x)
    OBVIOUS
  <2>. HIDE DEF Good
  <2>3. x # 0
    BY <1>6, <2>2
  <2>4. x \in 1..n /\ x - 1 \in 0..n /\ x - 1 \notin bad
    BY <1>3, <2>1, <2>2, <2>3
  <2>. QED BY <1>7, <2>2, <2>4
<1>9. Good(n)
  <2>. HIDE DEF Good
  <2>. QED BY <1>3, <1>8
<1>10. First(n) = S
  BY <1>3 DEF ToSet
<1>. QED BY <1>1, <1>9, <1>10

\* PendingGroup.tail keeps exactly the sequence numbers from first on.
LEMMA TailCovers ==
    ASSUME NEW ranges \in Ranges, NEW first \in Int
    PROVE  /\ TailFrom(ranges, first) \in Ranges
           /\ Cover(TailFrom(ranges, first)) = {q \in Cover(ranges) : q >= first}
<1>. DEFINE m == MergeRanges(ranges)
            kept == {i \in DOMAIN m : m[i][2] >= first}
            s == Ascending(kept)
            t == [i \in DOMAIN s |-> <<Max2(m[s[i]][1], first), m[s[i]][2]>>]
<1>1. TailFrom(ranges, first) = t
  BY DEF TailFrom
<1>2. m \in Ranges /\ Cover(m) = Cover(ranges)
  BY MergedCovers
<1>. HIDE DEF m
<1>3. DOMAIN m = 1..Len(m) /\ Len(m) \in Nat /\ \A i \in DOMAIN m : m[i][1] \in Int /\ m[i][2] \in Int
  BY <1>2, RangesAreLists
<1>4. IsFiniteSet(kept) /\ kept \subseteq Int
  <2>1. IsFiniteSet(1..Len(m))
    BY <1>3, FS_Interval
  <2>2. kept \in SUBSET (1..Len(m)) /\ kept \subseteq Int
    BY <1>3
  <2>. HIDE DEF kept
  <2>3. IsFiniteSet(kept)
    BY <2>1, <2>2, FS_Subset
  <2>. QED BY <2>2, <2>3
<1>5. s \in Seq(kept) /\ ToSet(s) = kept /\ DOMAIN s = 1..Len(s) /\ Len(s) \in Nat
  <2>. HIDE DEF kept
  <2>1. s \in Seq(kept) /\ ToSet(s) = kept
    BY <1>4, AscendingLists, Zenon
  <2>. HIDE DEF s
  <2>. QED BY <2>1
<1>. HIDE DEF s
<1>6. \A i \in DOMAIN s : s[i] \in kept /\ s[i] \in DOMAIN m
  BY <1>5
<1>7. \A i \in DOMAIN s : <<Max2(m[s[i]][1], first), m[s[i]][2]>> \in Int \X Int
  BY <1>3, <1>6 DEF Max2
<1>8. t \in Ranges /\ DOMAIN t = DOMAIN s
  BY <1>5, <1>7 DEF Ranges
<1>9. \A q : q \in Cover(t) <=> \E i \in DOMAIN s : q \in Max2(m[s[i]][1], first)..m[s[i]][2]
  BY <1>8, RangesAreLists
<1>10. \A q : q \in Cover(t) <=> \E k \in kept : q \in Max2(m[k][1], first)..m[k][2]
  BY <1>5, <1>9 DEF ToSet
<1>11. \A k \in DOMAIN m : \A q : q \in Max2(m[k][1], first)..m[k][2] <=> q \in m[k][1]..m[k][2] /\ q >= first
  BY <1>3 DEF Max2
<1>12. \A k \in DOMAIN m : \A q \in m[k][1]..m[k][2] : q >= first => k \in kept
  BY <1>3
<1>13. \A q : q \in Cover(m) <=> \E k \in DOMAIN m : q \in m[k][1]..m[k][2]
  BY <1>2, RangesAreLists
<1>14. kept \subseteq DOMAIN m
  OBVIOUS
<1>. HIDE DEF t, kept
<1>15. Cover(t) = {q \in Cover(m) : q >= first}
  BY <1>10, <1>11, <1>12, <1>13, <1>14
<1>. QED BY <1>1, <1>2, <1>8, <1>15

(***************************************************************************)
(* Lists of sequence numbers and of calls.                                 *)
(***************************************************************************)
Increasing(s) == \A i, j \in DOMAIN s : i < j => s[i] < s[j]

\* The elements of a concatenation, and where they stand.
LEMMA ConcatLists ==
    ASSUME NEW T, NEW a \in Seq(T), NEW b \in Seq(T)
    PROVE  /\ a \o b \in Seq(T) /\ Len(a \o b) = Len(a) + Len(b) /\ ToSet(a \o b) = ToSet(a) \cup ToSet(b)
           /\ \A i \in DOMAIN a : (a \o b)[i] = a[i]
           /\ \A i \in DOMAIN b : (a \o b)[Len(a) + i] = b[i]
           /\ \A k \in DOMAIN (a \o b) : k \in DOMAIN a \/ \E i \in DOMAIN b : k = Len(a) + i
<1>. DEFINE c == a \o b
            n == Len(a)
            m == Len(b)
<1>1. /\ c \in Seq(T) /\ Len(c) = n + m
      /\ \A i \in 1..(n + m) : c[i] = IF i <= n THEN a[i] ELSE b[i - n]
  BY ConcatProperties
<1>2. n \in Nat /\ m \in Nat /\ DOMAIN a = 1..n /\ DOMAIN b = 1..m
  OBVIOUS
<1>. HIDE DEF c, n, m
<1>3. DOMAIN c = 1..(n + m)
  BY <1>1
<1>4. \A i \in DOMAIN a : c[i] = a[i] /\ i \in DOMAIN c
  BY <1>1, <1>2, <1>3
<1>5. ASSUME NEW i \in DOMAIN b PROVE c[n + i] = b[i] /\ n + i \in DOMAIN c
  <2>1. n + i \in 1..(n + m) /\ ~(n + i <= n) /\ (n + i) - n = i
    BY <1>2
  <2>. QED BY <1>1, <1>3, <2>1
<1>6. ASSUME NEW k \in DOMAIN c PROVE k \in DOMAIN a \/ \E i \in DOMAIN b : k = n + i
  <2>1. k \in 1..n \/ (k - n \in 1..m /\ k = n + (k - n))
    BY <1>2, <1>3
  <2>. QED BY <1>2, <2>1
<1>7. ToSet(c) = ToSet(a) \cup ToSet(b)
  BY <1>4, <1>5, <1>6 DEF ToSet
<1>. QED BY <1>1, <1>4, <1>5, <1>6, <1>7 DEF c, n, m

\* Increasing lists one after the other, everything of the first below everything
\* of the second.
LEMMA ConcatIncreases ==
    ASSUME NEW a \in Seq(Int), NEW b \in Seq(Int), Increasing(a), Increasing(b),
           \A x \in ToSet(a), y \in ToSet(b) : x < y
    PROVE  Increasing(a \o b)
<1>. DEFINE c == a \o b
            n == Len(a)
<1>1. /\ \A i \in DOMAIN a : c[i] = a[i]
      /\ \A i \in DOMAIN b : c[n + i] = b[i]
      /\ \A k \in DOMAIN c : k \in DOMAIN a \/ \E i \in DOMAIN b : k = n + i
  BY ConcatLists
<1>2. n \in Nat /\ DOMAIN a = 1..n /\ DOMAIN b = 1..Len(b)
  OBVIOUS
<1>. HIDE DEF c, n
<1>3. ASSUME NEW j \in DOMAIN c, NEW k \in DOMAIN c, j < k PROVE c[j] < c[k]
  <2>1. CASE k \in DOMAIN a
    <3>1. j \in DOMAIN a
      BY <1>1, <1>2, <1>3, <2>1
    <3>. QED BY <1>1, <1>3, <2>1, <3>1 DEF Increasing
  <2>2. CASE k \notin DOMAIN a
    <3>1. PICK i \in DOMAIN b : k = n + i
      BY <1>1, <2>2
    <3>2. CASE j \in DOMAIN a
      <4>1. a[j] \in ToSet(a) /\ b[i] \in ToSet(b)
        BY <3>1, <3>2 DEF ToSet
      <4>. QED BY <1>1, <3>1, <3>2, <4>1
    <3>3. CASE j \notin DOMAIN a
      <4>1. PICK h \in DOMAIN b : j = n + h
        BY <1>1, <3>3
      <4>2. h < i
        BY <1>2, <1>3, <3>1, <4>1
      <4>. QED BY <1>1, <3>1, <4>1, <4>2 DEF Increasing
    <3>. QED BY <3>2, <3>3
  <2>. QED BY <2>1, <2>2
<1>. QED BY <1>3 DEF Increasing, c

\* The values of a loop that concatenates lists, one after the other.
Flattens(h, lists, T) ==
    /\ h \in [0..Len(lists) -> Seq(T)] /\ h[0] = <<>> /\ FlattenSeq(lists) = h[Len(lists)]
    /\ \A i \in 1..Len(lists) : h[i] = h[i - 1] \o lists[i]

\* FlattenSeq has the values of a loop that appends list after list.
LEMMA FlattenUnfolds ==
    ASSUME NEW T, NEW lists \in Seq(Seq(T))
    PROVE  \E h : Flattens(h, lists, T)
<1>. DEFINE n == Len(lists)
            F == [i \in 1..n |-> [x \in Seq(T) |-> x \o lists[i]]]
<1>1. n \in Nat /\ DOMAIN lists = 1..n /\ \A i \in 1..n : lists[i] \in Seq(T)
  OBVIOUS
<1>2. F \in [1..n -> [Seq(T) -> Seq(T)]]
  <2>1. \A i \in 1..n : \A x \in Seq(T) : x \o lists[i] \in Seq(T)
    BY <1>1, ConcatProperties
  <2>. HIDE DEF n
  <2>. QED BY <2>1
<1>3. \A i \in 1..n : \A x \in Seq(T) : F[i][x] = x \o lists[i]
  OBVIOUS
<1>4. <<>> \in Seq(T)
  OBVIOUS
<1>. HIDE DEF F
<1>5. PICK h : LoopValues(h, Seq(T), <<>>, n, F)
  <2>. HIDE DEF n
  <2>. QED BY <1>1, <1>2, <1>4, LoopHasValues
<1>. HIDE DEF n
<1>6. h \in [0..n -> Seq(T)] /\ h[0] = <<>>
  BY <1>5 DEF LoopValues
<1>7. \A i \in 1..n : h[i] = h[i - 1] \o lists[i]
  <2>. TAKE i \in 1..n
  <2>1. i - 1 \in 0..n
    BY <1>1
  <2>2. h[i - 1] \in Seq(T) /\ h[i] = F[i][h[i - 1]]
    BY <1>5, <1>6, <2>1 DEF LoopValues
  <2>. QED BY <1>3, <2>2
<1>0. 1 \in 1..n => h[1] = lists[1]
  <2>. HAVE 1 \in 1..n
  <2>0. 1 - 1 = 0
    OBVIOUS
  <2>1. h[1] = h[1 - 1] \o lists[1]
    BY <1>7, Zenon
  <2>2. h[1] = <<>> \o lists[1] /\ lists[1] \in Seq(T)
    BY <1>1, <1>6, <2>0, <2>1, Zenon
  <2>. QED BY <2>2, ConcatEmptySeq
<1>8. FlattenSeq(lists) = h[n]
  <2>1. CASE n = 0
    <3>1. FlattenSeq(lists) = lists
      BY <2>1 DEF FlattenSeq, n
    <3>2. lists = <<>>
      BY <2>1 DEF n
    <3>. QED BY <1>6, <2>1, <3>1, <3>2
  <2>2. CASE n # 0
    <3>. DEFINE g == CHOOSE f : f = [i \in 1..n |-> IF i = 1 THEN lists[i] ELSE f[i - 1] \o lists[i]]
                k == [i \in 1..n |-> h[i]]
    <3>1. FlattenSeq(lists) = g[n]
      BY <2>2 DEF FlattenSeq, n
    <3>2. k = [i \in 1..n |-> IF i = 1 THEN lists[i] ELSE k[i - 1] \o lists[i]]
      <4>1. ASSUME NEW i \in 1..n PROVE h[i] = IF i = 1 THEN lists[i] ELSE k[i - 1] \o lists[i]
        <5>1. CASE i = 1
          BY <1>0, <5>1
        <5>2. CASE i # 1
          <6>1. i - 1 \in 1..n
            BY <1>1, <5>2
          <6>. QED BY <1>7, <5>2, <6>1
        <5>. QED BY <5>1, <5>2
      <4>2. k = [i \in 1..n |-> h[i]]
        OBVIOUS
      <4>. HIDE DEF k
      <4>. QED BY <4>1, <4>2
    <3>. HIDE DEF k
    <3>3. g = [i \in 1..n |-> IF i = 1 THEN lists[i] ELSE g[i - 1] \o lists[i]]
      BY <3>2
    <3>. HIDE DEF g
    <3>. DEFINE apart == {i \in Nat : i \in 1..n /\ g[i] # h[i]}
    <3>4. apart = {}
      <4>. SUFFICES ASSUME apart # {} PROVE FALSE
        OBVIOUS
      <4>1. PICK x \in apart : \A y \in apart : x <= y
        <5>1. apart \subseteq Nat
          OBVIOUS
        <5>. HIDE DEF apart
        <5>. QED BY <5>1, LeastNatural
      <4>2. x \in 1..n /\ g[x] # h[x]
        OBVIOUS
      <4>3. CASE x = 1
        <5>1. g[1] = lists[1]
          BY <3>3, <4>2, <4>3
        <5>. QED BY <1>0, <4>2, <4>3, <5>1
      <4>4. CASE x # 1
        <5>1. x - 1 \in 1..n /\ x - 1 \in Nat /\ x - 1 \notin apart
          BY <1>1, <4>1, <4>2, <4>4
        <5>2. g[x - 1] = h[x - 1]
          BY <5>1
        <5>3. g[x] = g[x - 1] \o lists[x] /\ h[x] = h[x - 1] \o lists[x]
          BY <1>7, <3>3, <4>2, <4>4, Zenon
        <5>. QED BY <4>2, <5>2, <5>3
      <4>. QED BY <4>3, <4>4
    <3>5. n \in 1..n /\ n \in Nat
      BY <1>1, <2>2
    <3>. QED BY <3>1, <3>4, <3>5
  <2>. QED BY <2>1, <2>2
<1>9. Flattens(h, lists, T)
  BY <1>6, <1>7, <1>8 DEF Flattens, n
<1>. QED BY <1>9

\* The sequence numbers of one range, ascending.
LEMMA ExpandedLists ==
    ASSUME NEW r \in Int \X Int, r[1] <= r[2]
    PROVE  Expanded(r) \in Seq(Int) /\ Increasing(Expanded(r)) /\ ToSet(Expanded(r)) = r[1]..r[2]
<1>. DEFINE a == r[1]
            b == r[2]
            n == b - a + 1
            s == Expanded(r)
<1>1. a \in Int /\ b \in Int /\ a <= b /\ n \in Nat /\ s = [k \in 1..n |-> a + k - 1]
  BY DEF Expanded
<1>. HIDE DEF a, b, s
<1>2. s \in Seq(Int) /\ DOMAIN s = 1..n
  BY <1>1
<1>3. Increasing(s)
  BY <1>1, <1>2 DEF Increasing
<1>4. ToSet(s) = a..b
  <2>1. ASSUME NEW q \in a..b PROVE q \in ToSet(s)
    <3>1. q - a + 1 \in 1..n /\ s[q - a + 1] = q
      BY <1>1
    <3>. QED BY <1>2, <3>1 DEF ToSet
  <2>2. \A k \in 1..n : s[k] \in a..b
    BY <1>1
  <2>. QED BY <1>2, <2>1, <2>2 DEF ToSet
<1>. QED BY <1>2, <1>3, <1>4 DEF a, b, s

\* iter_ranges yields every covered sequence number once, ascending.
LEMMA IterLists ==
    ASSUME NEW ranges \in Ranges
    PROVE  /\ IterRanges(ranges) \in Seq(Int) /\ Increasing(IterRanges(ranges))
           /\ ToSet(IterRanges(ranges)) = Cover(ranges)
<1>. DEFINE m == MergeRanges(ranges)
            n == Len(m)
            lists == [i \in DOMAIN m |-> Expanded(m[i])]
<1>1. IterRanges(ranges) = FlattenSeq(lists)
  BY DEF IterRanges
<1>2. m \in Ranges /\ Canonical(m) /\ Cover(m) = Cover(ranges)
  BY MergedCovers
<1>. HIDE DEF m
<1>3. /\ DOMAIN m = 1..n /\ n \in Nat
      /\ \A i \in 1..n : m[i] \in Int \X Int /\ m[i][1] \in Int /\ m[i][2] \in Int /\ m[i][1] <= m[i][2]
      /\ \A i \in 1..n : i > 1 => m[i - 1][2] + 1 < m[i][1]
  BY <1>2, RangesAreLists DEF Canonical
<1>4. \A q : q \in Cover(m) <=> \E i \in 1..n : q \in m[i][1]..m[i][2]
  BY <1>2, <1>3, RangesAreLists
<1>. HIDE DEF n
<1>5. \A i \in 1..n : Expanded(m[i]) \in Seq(Int) /\ Increasing(Expanded(m[i]))
                      /\ ToSet(Expanded(m[i])) = m[i][1]..m[i][2]
  BY <1>3, ExpandedLists
<1>6. lists \in Seq(Seq(Int)) /\ Len(lists) = n /\ \A i \in 1..n : lists[i] = Expanded(m[i])
  BY <1>3, <1>5
<1>. HIDE DEF lists
<1>7. PICK h : Flattens(h, lists, Int)
  BY <1>6, FlattenUnfolds
<1>8. /\ h \in [0..n -> Seq(Int)] /\ h[0] = <<>> /\ FlattenSeq(lists) = h[n]
      /\ \A i \in 1..n : h[i] = h[i - 1] \o Expanded(m[i])
  BY <1>6, <1>7 DEF Flattens
<1>. DEFINE First(i) == UNION {m[k][1]..m[k][2] : k \in 1..i}
            Good(i) == /\ Increasing(h[i]) /\ ToSet(h[i]) = First(i)
                       /\ \A x \in First(i) : i > 0 /\ x <= m[i][2]
            bad == {i \in 0..n : ~Good(i)}
<1>9. Good(0)
  <2>1. First(0) = {}
    OBVIOUS
  <2>2. Increasing(<<>>) /\ ToSet(<<>>) = {}
    BY DEF Increasing, ToSet
  <2>. HIDE DEF First
  <2>. QED BY <1>8, <2>1, <2>2
<1>10. ASSUME NEW i \in 1..n, Good(i - 1) PROVE Good(i)
  <2>0. i - 1 \in 0..n /\ h[i - 1] \in Seq(Int) /\ i \in Nat /\ i > 0
    <3>. HIDE DEF Good
    <3>1. i - 1 \in 0..n /\ i \in Nat /\ i > 0
      BY <1>3
    <3>2. h[i - 1] \in Seq(Int)
      BY <1>8, <3>1, Zenon
    <3>. QED BY <3>1, <3>2
  <2>1. First(i) = First(i - 1) \cup m[i][1]..m[i][2]
    <3>1. (\A k \in 1..i : k \in 1..(i - 1) \/ k = i) /\ (\A k \in 1..(i - 1) : k \in 1..i) /\ i \in 1..i
      OBVIOUS
    <3>. QED BY <3>1
  <2>. HIDE DEF First
  <2>2. \A x \in First(i - 1) : x \in Int
    <3>1. ToSet(h[i - 1]) \subseteq Int
      BY <2>0 DEF ToSet
    <3>. QED BY <1>10, <3>1
  <2>3. ASSUME NEW x \in First(i - 1) PROVE x < m[i][1]
    <3>1. i - 1 > 0 /\ x <= m[i - 1][2]
      BY <1>10
    <3>2. i > 1 /\ i - 1 \in 1..n
      BY <2>0, <3>1
    <3>3. m[i - 1][2] \in Int /\ m[i][1] \in Int /\ m[i - 1][2] + 1 < m[i][1]
      BY <1>3, <3>2
    <3>. QED BY <2>2, <3>1, <3>3
  <2>4. \A x \in First(i - 1), y \in m[i][1]..m[i][2] : x < y
    BY <1>3, <2>2, <2>3
  <2>5. h[i] = h[i - 1] \o Expanded(m[i])
    BY <1>8
  <2>6. Increasing(h[i])
    BY <1>5, <1>10, <2>0, <2>4, <2>5, ConcatIncreases
  <2>7. ToSet(h[i]) = First(i)
    <3>1. ToSet(h[i - 1] \o Expanded(m[i])) = ToSet(h[i - 1]) \cup ToSet(Expanded(m[i]))
      BY <1>5, <2>0, ConcatLists
    <3>. QED BY <1>5, <1>10, <2>1, <2>5, <3>1
  <2>8. \A x \in First(i) : x <= m[i][2]
    BY <1>3, <2>1, <2>2, <2>3
  <2>. QED BY <2>0, <2>6, <2>7, <2>8
<1>11. bad = {}
  <2>. SUFFICES ASSUME bad # {} PROVE FALSE
    OBVIOUS
  <2>1. PICK x \in bad : \A y \in bad : x <= y
    <3>1. bad \subseteq Nat
      BY <1>3
    <3>. HIDE DEF bad
    <3>. QED BY <3>1, LeastNatural
  <2>2. x \in 0..n /\ ~Good(x)
    OBVIOUS
  <2>. HIDE DEF Good
  <2>3. x # 0
    BY <1>9, <2>2
  <2>4. x \in 1..n /\ x - 1 \in 0..n /\ x - 1 \notin bad
    BY <1>3, <2>1, <2>2, <2>3
  <2>. QED BY <1>10, <2>2, <2>4
<1>12. Good(n)
  <2>. HIDE DEF Good
  <2>. QED BY <1>3, <1>11
<1>13. First(n) = Cover(m)
  BY <1>4
<1>14. n \in 0..n
  BY <1>3
<1>15. h[n] \in Seq(Int)
  BY <1>8, <1>14, Zenon
<1>. QED BY <1>1, <1>2, <1>8, <1>12, <1>13, <1>15, Zenon

\* Integer division: the quotient is within one divisor.
LEMMA DivBounds ==
    ASSUME NEW a \in Nat, NEW b \in Nat \ {0}
    PROVE  a \div b \in Nat /\ (a \div b) * b <= a /\ a < (a \div b) * b + b
<1>1. a \div b \in Int
  OBVIOUS
<1>2. (a \div b) * b <= a
  OBVIOUS
<1>3. a < (a \div b) * b + b
  OBVIOUS
<1>4. a \div b >= 0
  OBVIOUS
<1>. QED BY <1>1, <1>2, <1>3, <1>4

\* Products with a fixed natural number are monotonic.
LEMMA Multiples ==
    ASSUME NEW c \in Nat
    PROVE  \A a, b \in Int : /\ a * c \in Int /\ (a - 1) * c = a * c - c
                             /\ a <= b => a * c <= b * c
OBVIOUS

\* What the calls of a list ask for, together.
Asked(cs) == UNION {ToSet(cs[i]) : i \in DOMAIN cs}

\* cs cuts an ascending list of X into pieces, none of them empty.
Cuts(cs, X) ==
    /\ cs \in Seq(Seq(Int)) /\ Asked(cs) = X
    /\ \A i \in DOMAIN cs : cs[i] # <<>> /\ Increasing(cs[i])
    /\ \A i, j \in DOMAIN cs : i < j => \A x \in ToSet(cs[i]), y \in ToSet(cs[j]) : x < y

\* batched: the slices cut the list into pieces of at most the batch size, in order,
\* with nothing missing and nothing twice.
LEMMA BatchedCuts ==
    ASSUME NEW s \in Seq(Int), Increasing(s), NEW size \in Nat \ {0}
    PROVE  Cuts(Batched(s, size), ToSet(s)) /\ \A i \in DOMAIN Batched(s, size) : Len(Batched(s, size)[i]) <= size
<1>. DEFINE L == Len(s)
            n == (L + size - 1) \div size
            Lo(i) == (i - 1) * size + 1
            Hi(i) == Min2(i * size, L)
            cs == Batched(s, size)
<1>1. cs = [i \in 1..n |-> SubSeq(s, Lo(i), Hi(i))]
  BY DEF Batched
<1>2. L \in Nat /\ DOMAIN s = 1..L /\ \A k \in 1..L : s[k] \in Int
  OBVIOUS
<1>. HIDE DEF cs, L
<1>3. n \in Nat /\ n * size < L + size /\ L <= n * size
  <2>1. L + size - 1 \in Nat
    BY <1>2
  <2>2. n \in Nat /\ n * size <= L + size - 1 /\ L + size - 1 < n * size + size
    BY <2>1, DivBounds
  <2>3. n * size \in Int
    BY <2>2
  <2>. HIDE DEF n
  <2>. QED BY <1>2, <2>2, <2>3
<1>. HIDE DEF n
<1>4. ASSUME NEW i \in 1..n
      PROVE  /\ Lo(i) \in 1..L /\ Hi(i) \in 1..L /\ Lo(i) <= Hi(i) /\ Hi(i) <= i * size /\ Hi(i) - Lo(i) + 1 <= size
             /\ i * size \in Int /\ (Hi(i) = i * size \/ Hi(i) = L)
  <2>1. i * size \in Int /\ (i - 1) * size = i * size - size /\ i * size <= n * size /\ n * size \in Int
    BY <1>3, Multiples
  <2>2. 0 <= (i - 1) * size
    <3>1. 0 * size <= (i - 1) * size /\ 0 * size = 0
      BY Multiples
    <3>. QED BY <3>1
  <2>. QED BY <1>2, <1>3, <2>1, <2>2 DEF Min2
<1>5. ASSUME NEW i \in 1..n
      PROVE  /\ cs[i] \in Seq(Int) /\ Len(cs[i]) = Hi(i) - Lo(i) + 1 /\ cs[i] # <<>>
             /\ DOMAIN cs[i] = 1..(Hi(i) - Lo(i) + 1)
             /\ \A k \in DOMAIN cs[i] : cs[i][k] = s[Lo(i) + k - 1]
  <2>1. cs[i] = SubSeq(s, Lo(i), Hi(i))
    BY <1>1
  <2>2. Lo(i) \in 1..L /\ Hi(i) \in 1..L /\ Lo(i) <= Hi(i)
    BY <1>4
  <2>. HIDE DEF Lo, Hi
  <2>3. \A k \in Lo(i)..Hi(i) : s[k] \in Int
    BY <1>2, <2>2
  <2>4. /\ cs[i] \in Seq(Int) /\ Len(cs[i]) = IF Lo(i) <= Hi(i) THEN Hi(i) - Lo(i) + 1 ELSE 0
        /\ \A k \in 1..(Hi(i) - Lo(i) + 1) : cs[i][k] = s[Lo(i) + k - 1]
    <3>1. Lo(i) \in Int /\ Hi(i) \in Int
      BY <1>2, <2>2
    <3>. QED BY <2>1, <2>3, <3>1, SubSeqProperties
  <2>5. Len(cs[i]) = Hi(i) - Lo(i) + 1 /\ Len(cs[i]) > 0
    BY <1>2, <2>2, <2>4
  <2>6. cs[i] # <<>> /\ DOMAIN cs[i] = 1..Len(cs[i])
    BY <2>4, <2>5
  <2>. QED BY <2>4, <2>5, <2>6, Zenon
<1>6. cs \in Seq(Seq(Int)) /\ DOMAIN cs = 1..n
  <2>1. \A i \in 1..n : SubSeq(s, Lo(i), Hi(i)) \in Seq(Int)
    BY <1>1, <1>5
  <2>. HIDE DEF Lo, Hi
  <2>. QED BY <1>1, <1>3, <2>1
<1>7. ASSUME NEW i \in 1..n PROVE \A x : x \in ToSet(cs[i]) <=> \E k \in Lo(i)..Hi(i) : x = s[k]
  <2>0. Lo(i) \in Int /\ Hi(i) \in Int
    BY <1>2, <1>4
  <2>. HIDE DEF Lo, Hi
  <2>1. ASSUME NEW k \in Lo(i)..Hi(i) PROVE s[k] \in ToSet(cs[i])
    <3>1. k - Lo(i) + 1 \in DOMAIN cs[i] /\ Lo(i) + (k - Lo(i) + 1) - 1 = k
      BY <1>5, <2>0
    <3>2. cs[i][k - Lo(i) + 1] = s[k]
      BY <1>5, <3>1
    <3>. QED BY <3>1, <3>2 DEF ToSet
  <2>2. ASSUME NEW x \in ToSet(cs[i]) PROVE \E k \in Lo(i)..Hi(i) : x = s[k]
    <3>1. PICK k \in DOMAIN cs[i] : x = cs[i][k]
      BY DEF ToSet
    <3>2. Lo(i) + k - 1 \in Lo(i)..Hi(i)
      <4>1. k \in 1..(Hi(i) - Lo(i) + 1)
        BY <1>5, Zenon
      <4>. HIDE <3>1
      <4>. QED BY <2>0, <4>1
    <3>. QED BY <1>5, <3>1, <3>2, Zenon
  <2>. QED BY <2>1, <2>2
<1>8. ASSUME NEW i \in 1..n PROVE Increasing(cs[i])
  <2>0. Lo(i) \in 1..L /\ Hi(i) \in 1..L
    BY <1>4
  <2>. HIDE DEF Lo, Hi
  <2>1. ASSUME NEW j \in DOMAIN cs[i], NEW k \in DOMAIN cs[i], j < k PROVE cs[i][j] < cs[i][k]
    <3>0. j \in 1..(Hi(i) - Lo(i) + 1) /\ k \in 1..(Hi(i) - Lo(i) + 1)
      BY <1>5, Zenon
    <3>1. Lo(i) + j - 1 \in DOMAIN s /\ Lo(i) + k - 1 \in DOMAIN s /\ Lo(i) + j - 1 < Lo(i) + k - 1
      <4>. DEFINE lo == Lo(i)
                  hi == Hi(i)
      <4>1. lo \in 1..L /\ hi \in 1..L /\ j \in 1..(hi - lo + 1) /\ k \in 1..(hi - lo + 1) /\ L \in Nat
        BY <1>2, <2>0, <3>0
      <4>. HIDE DEF lo, hi
      <4>2. lo + j - 1 \in 1..L /\ lo + k - 1 \in 1..L /\ lo + j - 1 < lo + k - 1
        BY <2>1, <4>1
      <4>. QED BY <1>2, <4>2 DEF lo
    <3>. QED BY <1>5, <3>1 DEF Increasing
  <2>. QED BY <2>1 DEF Increasing
<1>9. ASSUME NEW i \in 1..n, NEW j \in 1..n, i < j, NEW x \in ToSet(cs[i]), NEW y \in ToSet(cs[j])
      PROVE  x < y
  <2>1. i * size <= (j - 1) * size /\ (j - 1) * size \in Int
    BY <1>9, Multiples
  <2>2. Hi(i) < Lo(j)
    <3>1. Lo(j) = (j - 1) * size + 1
      OBVIOUS
    <3>2. Hi(i) \in 1..L /\ Hi(i) <= i * size /\ i * size \in Int
      BY <1>4, Zenon
    <3>. DEFINE a == i * size
                b == (j - 1) * size
    <3>3. a <= b /\ a \in Int /\ b \in Int /\ Lo(j) = b + 1 /\ Hi(i) <= a /\ Hi(i) \in Int
      BY <1>2, <2>1, <3>1, <3>2
    <3>. HIDE DEF Lo, Hi, a, b
    <3>. QED BY <3>3
  <2>3. Lo(i) \in 1..L /\ Hi(i) \in 1..L /\ Lo(j) \in 1..L /\ Hi(j) \in 1..L
    BY <1>4
  <2>. HIDE DEF Lo, Hi
  <2>4. PICK k \in Lo(i)..Hi(i) : x = s[k]
    BY <1>7
  <2>5. PICK l \in Lo(j)..Hi(j) : y = s[l]
    BY <1>7
  <2>6. k \in DOMAIN s /\ l \in DOMAIN s /\ k < l
    <3>1. /\ Lo(i) \in Int /\ Hi(i) \in Int /\ Lo(j) \in Int /\ Hi(j) \in Int /\ L \in Int
          /\ 1 <= Lo(i) /\ Hi(i) <= L /\ 1 <= Lo(j) /\ Hi(j) <= L
      BY <1>2, <2>3
    <3>2. k \in 1..L /\ l \in 1..L
      BY <2>4, <2>5, <3>1
    <3>3. k < l
      BY <2>2, <2>4, <2>5, <3>1
    <3>. QED BY <1>2, <3>2, <3>3, Zenon
  <2>. QED BY <2>4, <2>5, <2>6 DEF Increasing
<1>10. Asked(cs) = ToSet(s)
  <2>1. ASSUME NEW k \in 1..L PROVE \E i \in 1..n : k \in Lo(i)..Hi(i)
    <3>. DEFINE d == (k - 1) \div size
    <3>1. k - 1 \in Nat /\ k \in Int
      BY <1>2
    <3>2. d \in Nat /\ d * size <= k - 1 /\ k - 1 < d * size + size
      BY <3>1, DivBounds
    <3>. HIDE DEF d
    <3>3. d + 1 \in Int /\ (d + 1) - 1 = d /\ (d + 1) * size \in Int /\ d * size \in Int
          /\ d * size = (d + 1) * size - size
      <4>1. d + 1 \in Int /\ (d + 1) - 1 = d
        BY <3>2
      <4>2. ((d + 1) - 1) * size = (d + 1) * size - size /\ (d + 1) * size \in Int /\ d * size \in Int
        BY <3>2, <4>1, Multiples
      <4>. QED BY <4>1, <4>2
    <3>4. d + 1 <= n
      <4>1. ~(n <= d)
        <5>1. n <= d => n * size <= d * size
          BY <1>3, <3>2, Multiples
        <5>2. n * size \in Int
          BY <1>3, Multiples
        <5>. QED BY <1>2, <1>3, <3>1, <3>2, <3>3, <5>1, <5>2
      <4>. QED BY <1>3, <3>2, <4>1
    <3>5. d + 1 \in 1..n
      BY <1>3, <3>2, <3>4
    <3>6. Lo(d + 1) = d * size + 1 /\ Hi(d + 1) = Min2((d + 1) * size, L)
      BY <3>3
    <3>7. k \in Lo(d + 1)..Hi(d + 1)
      BY <1>2, <3>1, <3>2, <3>3, <3>6 DEF Min2
    <3>. HIDE DEF Lo, Hi
    <3>. QED BY <3>5, <3>7
  <2>0. \A i \in 1..n : Lo(i) \in 1..L /\ Hi(i) \in 1..L
    BY <1>4, Zenon
  <2>. HIDE DEF Lo, Hi
  <2>2. \A i \in 1..n : \A k \in Lo(i)..Hi(i) : k \in 1..L
    BY <1>2, <2>0
  <2>3. ToSet(s) = {s[k] : k \in 1..L}
    BY <1>2 DEF ToSet
  <2>4. \A x : x \in Asked(cs) <=> \E i \in 1..n : x \in ToSet(cs[i])
    BY <1>6 DEF Asked
  <2>5. ASSUME NEW x \in Asked(cs) PROVE x \in ToSet(s)
    <3>1. PICK i \in 1..n : x \in ToSet(cs[i])
      BY <2>4
    <3>2. PICK k \in Lo(i)..Hi(i) : x = s[k]
      BY <1>7, <3>1
    <3>. QED BY <2>2, <2>3, <3>2
  <2>6. ASSUME NEW k \in 1..L PROVE s[k] \in Asked(cs)
    <3>1. PICK i \in 1..n : k \in Lo(i)..Hi(i)
      BY <2>1
    <3>2. s[k] \in ToSet(cs[i])
      BY <1>7, <3>1
    <3>. QED BY <2>4, <3>2
  <2>. QED BY <2>3, <2>5, <2>6
<1>11. \A i \in 1..n : Len(cs[i]) <= size
  BY <1>4, <1>5
<1>. HIDE DEF Lo, Hi
<1>12. Cuts(cs, ToSet(s))
  BY <1>5, <1>6, <1>8, <1>9, <1>10 DEF Cuts
<1>. QED BY <1>6, <1>11, <1>12 DEF cs

Distinct(s) == \A i, j \in DOMAIN s : s[i] = s[j] => i = j

\* cs is a list of calls to make: none is empty, and no message is in two of them
\* or twice in one.
Queue(cs) ==
    /\ cs \in Seq(Seq(Int))
    /\ \A i \in DOMAIN cs : cs[i] # <<>> /\ Distinct(cs[i])
    /\ \A i, j \in DOMAIN cs : i # j => ToSet(cs[i]) \cap ToSet(cs[j]) = {}

\* What the first call of a list asks for.
FirstOf(cs) == IF cs = <<>> THEN {} ELSE ToSet(cs[1])

\* The calls of a list, by their numbers.
LEMMA QueueFacts ==
    ASSUME NEW cs, Queue(cs)
    PROVE  /\ Len(cs) \in Nat /\ DOMAIN cs = 1..Len(cs) /\ (cs # <<>> <=> 1 \in DOMAIN cs)
           /\ (cs # <<>> <=> Len(cs) > 0)
           /\ \A i \in DOMAIN cs : cs[i] \in Seq(Int) /\ cs[i] # <<>> /\ Distinct(cs[i]) /\ ToSet(cs[i]) # {}
           /\ \A x : x \in Asked(cs) <=> \E i \in DOMAIN cs : x \in ToSet(cs[i])
<1>1. /\ Len(cs) \in Nat /\ DOMAIN cs = 1..Len(cs) /\ (cs # <<>> <=> 1 \in DOMAIN cs)
      /\ (cs # <<>> <=> Len(cs) > 0)
  BY DEF Queue
<1>2. \A i \in DOMAIN cs : cs[i] \in Seq(Int) /\ cs[i] # <<>> /\ Distinct(cs[i])
  BY DEF Queue
<1>3. ASSUME NEW i \in DOMAIN cs PROVE ToSet(cs[i]) # {}
  <2>. DEFINE s == cs[i]
  <2>1. s \in Seq(Int) /\ s # <<>>
    BY <1>2
  <2>. HIDE DEF s
  <2>2. 1 \in DOMAIN s
    BY <2>1
  <2>3. s[1] \in ToSet(s)
    BY <2>2 DEF ToSet
  <2>. QED BY <2>3 DEF s
<1>4. \A x : x \in Asked(cs) <=> \E i \in DOMAIN cs : x \in ToSet(cs[i])
  BY DEF Asked
<1>. QED BY <1>1, <1>2, <1>3, <1>4

\* The first call is made: the others are left.
LEMMA QueueTail ==
    ASSUME NEW cs, Queue(cs), cs # <<>>
    PROVE  /\ Queue(Tail(cs)) /\ Len(Tail(cs)) = Len(cs) - 1
           /\ \A i \in DOMAIN Tail(cs) : i + 1 \in DOMAIN cs /\ Tail(cs)[i] = cs[i + 1]
           /\ Asked(Tail(cs)) = Asked(cs) \ ToSet(cs[1])
           /\ FirstOf(cs) = ToSet(cs[1]) /\ ToSet(cs[1]) \subseteq Asked(cs)
<1>. DEFINE n == Len(cs)
            t == Tail(cs)
<1>1. /\ n \in Nat /\ DOMAIN cs = 1..n /\ 1 \in DOMAIN cs
      /\ \A x : x \in Asked(cs) <=> \E i \in DOMAIN cs : x \in ToSet(cs[i])
  BY QueueFacts
<1>2. /\ t \in Seq(Seq(Int)) /\ Len(t) = n - 1 /\ DOMAIN t = 1..(n - 1)
      /\ \A i \in 1..(n - 1) : t[i] = cs[i + 1]
  BY DEF Queue
<1>. HIDE DEF n, t
<1>3. \A i \in DOMAIN t : i + 1 \in DOMAIN cs /\ t[i] = cs[i + 1] /\ i + 1 # 1
  BY <1>1, <1>2
<1>4. \A i, j \in DOMAIN t : i # j => i + 1 # j + 1
  BY <1>1, <1>2
<1>5. Queue(t)
  BY <1>2, <1>3, <1>4 DEF Queue
<1>6. \A i \in DOMAIN cs : i # 1 => i - 1 \in DOMAIN t /\ (i - 1) + 1 = i
  BY <1>1, <1>2
<1>7. ASSUME NEW x \in Asked(t) PROVE x \in Asked(cs) /\ x \notin ToSet(cs[1])
  <2>1. PICK i \in DOMAIN t : x \in ToSet(t[i])
    BY DEF Asked
  <2>2. i + 1 \in DOMAIN cs /\ x \in ToSet(cs[i + 1]) /\ i + 1 # 1
    BY <1>3, <2>1
  <2>3. ToSet(cs[i + 1]) \cap ToSet(cs[1]) = {}
    BY <1>1, <2>2 DEF Queue
  <2>. QED BY <1>1, <2>2, <2>3
<1>8. ASSUME NEW x \in Asked(cs), x \notin ToSet(cs[1]) PROVE x \in Asked(t)
  <2>1. PICK i \in DOMAIN cs : x \in ToSet(cs[i])
    BY <1>1
  <2>2. i - 1 \in DOMAIN t /\ (i - 1) + 1 = i
    BY <1>6, <1>8, <2>1
  <2>3. t[i - 1] = cs[i]
    BY <1>3, <2>2
  <2>. QED BY <2>1, <2>2, <2>3 DEF Asked
<1>9. Asked(t) = Asked(cs) \ ToSet(cs[1])
  BY <1>7, <1>8
<1>10. ToSet(cs[1]) \subseteq Asked(cs)
  BY <1>1
<1>. QED BY <1>2, <1>3, <1>5, <1>9, <1>10 DEF n, t, FirstOf

\* A single call.
LEMMA QueueOne ==
    ASSUME NEW s \in Seq(Int), s # <<>>, Distinct(s)
    PROVE  Queue(<<s>>) /\ Asked(<<s>>) = ToSet(s) /\ <<s>> # <<>>
<1>. DEFINE cs == <<s>>
<1>1. cs \in Seq(Seq(Int)) /\ DOMAIN cs = {1} /\ cs[1] = s /\ cs # <<>>
  OBVIOUS
<1>. HIDE DEF cs
<1>2. Queue(cs)
  BY <1>1 DEF Queue
<1>3. Asked(cs) = ToSet(s)
  BY <1>1 DEF Asked
<1>. QED BY <1>1, <1>2, <1>3 DEF cs

\* No call is left.
LEMMA QueueNone == Queue(<<>>) /\ Asked(<<>>) = {} /\ FirstOf(<<>>) = {}
<1>1. <<>> \in Seq(Seq(Int)) /\ DOMAIN <<>> = {}
  OBVIOUS
<1>. QED BY <1>1 DEF Queue, Asked, FirstOf

\* The halves of a list hold its messages, each once.
LEMMA HalvesSplit ==
    ASSUME NEW s \in Seq(Int), Distinct(s), Len(s) > 1
    PROVE  /\ Halves(s) \in Seq(Seq(Int)) /\ Len(Halves(s)) = 2 /\ DOMAIN Halves(s) = {1, 2}
           /\ Halves(s)[1] # <<>> /\ Halves(s)[2] # <<>> /\ Distinct(Halves(s)[1]) /\ Distinct(Halves(s)[2])
           /\ ToSet(Halves(s)[1]) \cap ToSet(Halves(s)[2]) = {}
           /\ ToSet(Halves(s)[1]) \cup ToSet(Halves(s)[2]) = ToSet(s)
<1>. DEFINE n == Len(s)
            h == n \div 2
            a == SubSeq(s, 1, h)
            b == SubSeq(s, h + 1, n)
<1>1. n \in Nat /\ DOMAIN s = 1..n /\ \A k \in 1..n : s[k] \in Int
  OBVIOUS
<1>. HIDE DEF n
<1>2. h \in 1..(n - 1)
  BY <1>1 DEF n
<1>. HIDE DEF h
<1>3. a \in Seq(Int) /\ Len(a) = h /\ DOMAIN a = 1..h /\ \A k \in 1..h : a[k] = s[k] /\ k \in DOMAIN s
  <2>1. 1 \in 1..(n + 1) /\ h \in 0..n /\ \A k \in 1..h : s[k] \in Int
    BY <1>1, <1>2
  <2>2. /\ a \in Seq(Int) /\ Len(a) = IF 1 <= h THEN h - 1 + 1 ELSE 0
        /\ \A k \in 1..(h - 1 + 1) : a[k] = s[1 + k - 1]
    BY <1>1, <1>2, <2>1, SubSeqProperties DEF n
  <2>. QED BY <1>1, <1>2, <2>2
<1>4. /\ b \in Seq(Int) /\ Len(b) = n - h /\ DOMAIN b = 1..(n - h)
      /\ \A k \in 1..(n - h) : b[k] = s[h + k] /\ h + k \in DOMAIN s
  <2>1. h + 1 \in 1..n /\ n \in 1..n /\ \A k \in (h + 1)..n : s[k] \in Int
    BY <1>1, <1>2
  <2>2. /\ b \in Seq(Int) /\ Len(b) = IF h + 1 <= n THEN n - (h + 1) + 1 ELSE 0
        /\ \A k \in 1..(n - (h + 1) + 1) : b[k] = s[(h + 1) + k - 1]
    BY <1>1, <1>2, <2>1, SubSeqProperties DEF n
  <2>3. Len(b) = n - h
    BY <1>1, <1>2, <2>2
  <2>4. ASSUME NEW k \in 1..(n - h) PROVE b[k] = s[h + k] /\ h + k \in DOMAIN s
    <3>1. k \in 1..(n - (h + 1) + 1) /\ (h + 1) + k - 1 = h + k /\ h + k \in DOMAIN s
      BY <1>1, <1>2
    <3>. QED BY <2>2, <3>1
  <2>5. DOMAIN b = 1..Len(b)
    BY <2>2
  <2>. HIDE DEF b
  <2>. QED BY <2>2, <2>3, <2>4, <2>5
<1>5. Halves(s) = <<a, b>>
  BY DEF Halves, a, b, h, n
<1>. HIDE DEF a, b
<1>6. a # <<>> /\ b # <<>>
  BY <1>1, <1>2, <1>3, <1>4
<1>7. Distinct(a)
  BY <1>3 DEF Distinct
<1>8. Distinct(b)
  <2>1. \A i, j \in DOMAIN b : b[i] = b[j] => h + i = h + j
    BY <1>4 DEF Distinct
  <2>. QED BY <1>1, <1>2, <1>4, <2>1 DEF Distinct
<1>9. ToSet(a) \cap ToSet(b) = {}
  <2>. SUFFICES ASSUME NEW i \in 1..h, NEW j \in 1..(n - h), a[i] = b[j] PROVE FALSE
    BY <1>3, <1>4 DEF ToSet
  <2>1. s[i] = s[h + j] /\ i \in DOMAIN s /\ h + j \in DOMAIN s
    BY <1>3, <1>4
  <2>2. i = h + j
    BY <2>1 DEF Distinct
  <2>. QED BY <1>1, <1>2, <2>2
<1>10. ToSet(a) \cup ToSet(b) = ToSet(s)
  <2>1. ToSet(a) \subseteq ToSet(s) /\ ToSet(b) \subseteq ToSet(s)
    BY <1>3, <1>4 DEF ToSet
  <2>2. ASSUME NEW k \in DOMAIN s PROVE s[k] \in ToSet(a) \cup ToSet(b)
    <3>1. CASE k <= h
      <4>1. k \in DOMAIN a /\ a[k] = s[k]
        BY <1>1, <1>2, <1>3, <3>1
      <4>. QED BY <4>1 DEF ToSet
    <3>2. CASE ~(k <= h)
      <4>0. k \in 1..n /\ h \in Nat /\ n \in Nat
        BY <1>1, <1>2
      <4>1. k - h \in DOMAIN b /\ h + (k - h) = k
        <5>1. k - h \in 1..(n - h) /\ h + (k - h) = k
          BY <3>2, <4>0
        <5>. QED BY <1>4, <5>1, Zenon
      <4>2. b[k - h] = s[k]
        BY <1>4, <4>1
      <4>. QED BY <4>1, <4>2 DEF ToSet
    <3>. QED BY <3>1, <3>2
  <2>. QED BY <2>1, <2>2 DEF ToSet
<1>11. <<a, b>> \in Seq(Seq(Int)) /\ Len(<<a, b>>) = 2 /\ DOMAIN <<a, b>> = {1, 2} /\ <<a, b>>[1] = a /\ <<a, b>>[2] = b
  BY <1>3, <1>4
<1>. QED BY <1>5, <1>6, <1>7, <1>8, <1>9, <1>10, <1>11

\* Two lists of calls that ask for different messages, one after the other.
LEMMA QueueConcat ==
    ASSUME NEW a, Queue(a), NEW b, Queue(b), Asked(a) \cap Asked(b) = {}
    PROVE  Queue(a \o b) /\ Asked(a \o b) = Asked(a) \cup Asked(b)
<1>. DEFINE c == a \o b
            n == Len(a)
<1>1. /\ DOMAIN a = 1..n /\ n \in Nat /\ a \in Seq(Seq(Int)) /\ \A i \in DOMAIN a : a[i] # <<>> /\ Distinct(a[i])
      /\ \A i, j \in DOMAIN a : i # j => ToSet(a[i]) \cap ToSet(a[j]) = {}
      /\ \A x : x \in Asked(a) <=> \E i \in DOMAIN a : x \in ToSet(a[i])
  BY DEF Queue, Asked
<1>2. /\ DOMAIN b = 1..Len(b) /\ Len(b) \in Nat /\ b \in Seq(Seq(Int)) /\ \A i \in DOMAIN b : b[i] # <<>> /\ Distinct(b[i])
      /\ \A i, j \in DOMAIN b : i # j => ToSet(b[i]) \cap ToSet(b[j]) = {}
      /\ \A x : x \in Asked(b) <=> \E i \in DOMAIN b : x \in ToSet(b[i])
  BY DEF Queue, Asked
<1>3. /\ c \in Seq(Seq(Int)) /\ Len(c) = n + Len(b)
      /\ \A i \in DOMAIN a : c[i] = a[i]
      /\ \A i \in DOMAIN b : c[n + i] = b[i]
      /\ \A k \in DOMAIN c : k \in DOMAIN a \/ \E i \in DOMAIN b : k = n + i
  <2>. DEFINE T == Seq(Int)
  <2>1. a \in Seq(T) /\ b \in Seq(T)
    BY <1>1, <1>2
  <2>. HIDE DEF T
  <2>2. a \o b \in Seq(T)
    BY <2>1, ConcatLists
  <2>. QED BY <2>1, <2>2, ConcatLists DEF T
<1>4. DOMAIN c = 1..(n + Len(b))
  BY <1>3
<1>. HIDE DEF c, n
<1>5. /\ \A i \in DOMAIN a : i \in DOMAIN c
      /\ \A i \in DOMAIN b : n + i \in DOMAIN c /\ n + i \notin DOMAIN a
  BY <1>1, <1>2, <1>4
<1>6. ASSUME NEW k \in DOMAIN c, k \notin DOMAIN a PROVE \E i \in DOMAIN b : k = n + i /\ c[k] = b[i]
  BY <1>3, <1>6
<1>7. \A k \in DOMAIN c : c[k] # <<>> /\ Distinct(c[k])
  <2>. SUFFICES ASSUME NEW k \in DOMAIN c PROVE c[k] # <<>> /\ Distinct(c[k])
    OBVIOUS
  <2>1. CASE k \in DOMAIN a
    BY <1>1, <1>3, <2>1
  <2>2. CASE k \notin DOMAIN a
    BY <1>2, <1>6, <2>2
  <2>. QED BY <2>1, <2>2
<1>8. \A i \in DOMAIN a, j \in DOMAIN b : ToSet(a[i]) \cap ToSet(b[j]) = {}
  BY <1>1, <1>2
<1>9. ASSUME NEW i \in DOMAIN c, NEW j \in DOMAIN c, i # j PROVE ToSet(c[i]) \cap ToSet(c[j]) = {}
  <2>1. CASE i \in DOMAIN a /\ j \in DOMAIN a
    BY <1>1, <1>3, <1>9, <2>1
  <2>2. CASE i \in DOMAIN a /\ j \notin DOMAIN a
    <3>1. PICK l \in DOMAIN b : c[j] = b[l]
      BY <1>6, <2>2
    <3>. QED BY <1>3, <1>8, <2>2, <3>1
  <2>3. CASE i \notin DOMAIN a /\ j \in DOMAIN a
    <3>1. PICK l \in DOMAIN b : c[i] = b[l]
      BY <1>6, <2>3
    <3>. QED BY <1>3, <1>8, <2>3, <3>1
  <2>4. CASE i \notin DOMAIN a /\ j \notin DOMAIN a
    <3>1. PICK k \in DOMAIN b : i = n + k /\ c[i] = b[k]
      BY <1>6, <2>4
    <3>2. PICK l \in DOMAIN b : j = n + l /\ c[j] = b[l]
      BY <1>6, <2>4
    <3>3. k # l
      BY <1>9, <3>1, <3>2
    <3>. QED BY <1>2, <3>1, <3>2, <3>3
  <2>. QED BY <2>1, <2>2, <2>3, <2>4
<1>10. Queue(c)
  BY <1>3, <1>7, <1>9 DEF Queue
<1>11. Asked(c) = Asked(a) \cup Asked(b)
  <2>1. \A x : x \in Asked(c) <=> \E k \in DOMAIN c : x \in ToSet(c[k])
    BY DEF Asked
  <2>2. ASSUME NEW k \in DOMAIN c, NEW x \in ToSet(c[k]) PROVE x \in Asked(a) \cup Asked(b)
    <3>1. CASE k \in DOMAIN a
      BY <1>1, <1>3, <3>1
    <3>2. CASE k \notin DOMAIN a
      BY <1>2, <1>6, <3>2
    <3>. QED BY <3>1, <3>2
  <2>3. \A x \in Asked(a) : x \in Asked(c)
    BY <1>1, <1>3, <1>5, <2>1
  <2>4. \A x \in Asked(b) : x \in Asked(c)
    BY <1>2, <1>3, <1>5, <2>1
  <2>. QED BY <2>1, <2>2, <2>3, <2>4
<1>. QED BY <1>10, <1>11 DEF c

\* The first call is bisected: the same messages are asked for.
LEMMA QueueHalved ==
    ASSUME NEW cs, Queue(cs), cs # <<>>, Len(cs[1]) # 1
    PROVE  Queue(Halves(cs[1]) \o Tail(cs)) /\ Asked(Halves(cs[1]) \o Tail(cs)) = Asked(cs)
<1>. DEFINE s == cs[1]
            H == Halves(s)
            t == Tail(cs)
<1>1. s \in Seq(Int) /\ s # <<>> /\ Distinct(s) /\ Len(s) # 1
  BY QueueFacts
<1>2. Queue(t) /\ Asked(t) = Asked(cs) \ ToSet(s) /\ ToSet(s) \subseteq Asked(cs)
  BY QueueTail
<1>. HIDE DEF s, t
<1>3. Len(s) > 1
  <2>1. \A z \in Seq(Int) : z # <<>> => Len(z) \in Nat /\ Len(z) # 0
    OBVIOUS
  <2>. DEFINE n == Len(s)
  <2>3. n \in Nat /\ n # 0 /\ n # 1
    BY <1>1, <2>1
  <2>. HIDE DEF n
  <2>4. n > 1
    BY <2>3
  <2>. QED BY <2>4 DEF n
<1>4. /\ H \in Seq(Seq(Int)) /\ Len(H) = 2 /\ DOMAIN H = {1, 2}
      /\ H[1] # <<>> /\ H[2] # <<>> /\ Distinct(H[1]) /\ Distinct(H[2])
      /\ ToSet(H[1]) \cap ToSet(H[2]) = {} /\ ToSet(H[1]) \cup ToSet(H[2]) = ToSet(s)
  BY <1>1, <1>3, HalvesSplit
<1>. HIDE DEF H
<1>5. Queue(H)
  BY <1>4 DEF Queue
<1>6. Asked(H) = ToSet(s)
  BY <1>4 DEF Asked
<1>7. Queue(H \o t) /\ Asked(H \o t) = Asked(H) \cup Asked(t)
  BY <1>2, <1>5, <1>6, QueueConcat
<1>. QED BY <1>2, <1>6, <1>7 DEF H, s, t

\* The pieces of an ascending list are calls to make.
LEMMA CutsQueue ==
    ASSUME NEW cs, NEW X, Cuts(cs, X)
    PROVE  Queue(cs) /\ Asked(cs) = X /\ X \subseteq Int
<1>1. /\ cs \in Seq(Seq(Int)) /\ DOMAIN cs = 1..Len(cs) /\ Len(cs) \in Nat
      /\ \A i \in DOMAIN cs : cs[i] \in Seq(Int) /\ cs[i] # <<>> /\ Increasing(cs[i])
      /\ \A i, j \in DOMAIN cs : i < j => \A x \in ToSet(cs[i]), y \in ToSet(cs[j]) : x < y
  BY DEF Cuts
<1>2. ASSUME NEW s \in Seq(Int) PROVE ToSet(s) \subseteq Int
  BY DEF ToSet
<1>3. ASSUME NEW s \in Seq(Int), Increasing(s) PROVE Distinct(s)
  <2>1. ASSUME NEW i \in DOMAIN s, NEW j \in DOMAIN s, s[i] = s[j], i # j PROVE FALSE
    <3>1. s[i] \in Int /\ s[j] \in Int /\ i \in Int /\ j \in Int /\ (i < j \/ j < i)
      BY <2>1
    <3>2. s[i] < s[j] \/ s[j] < s[i]
      BY <1>3, <3>1 DEF Increasing
    <3>. QED BY <2>1, <3>1, <3>2
  <2>. QED BY <2>1 DEF Distinct
<1>4. ASSUME NEW i \in DOMAIN cs, NEW j \in DOMAIN cs, i # j PROVE ToSet(cs[i]) \cap ToSet(cs[j]) = {}
  <2>1. i < j \/ j < i
    BY <1>1, <1>4
  <2>2. \A x \in ToSet(cs[i]) : x \in Int
    BY <1>1, <1>2
  <2>3. \A x \in ToSet(cs[i]) : x \in ToSet(cs[j]) => x < x
    BY <1>1, <2>1
  <2>4. \A x \in Int : ~(x < x)
    OBVIOUS
  <2>. QED BY <2>2, <2>3, <2>4
<1>5. Queue(cs)
  <2>1. \A i \in DOMAIN cs : Distinct(cs[i])
    BY <1>1, <1>3
  <2>. QED BY <1>1, <1>4, <2>1 DEF Queue
<1>6. Asked(cs) \subseteq Int
  BY <1>1, <1>2 DEF Asked
<1>. QED BY <1>5, <1>6 DEF Cuts

\* The first piece holds what lies up to its last element, the others the rest.
LEMMA CutsTail ==
    ASSUME NEW cs, NEW X, Cuts(cs, X), cs # <<>>
    PROVE  /\ Last(cs[1]) \in X /\ \A x \in X : x \in ToSet(cs[1]) <=> x < Last(cs[1]) + 1
           /\ Cuts(Tail(cs), {x \in X : x >= Last(cs[1]) + 1})
<1>. DEFINE s == cs[1]
            t == Tail(cs)
            l == Last(s)
<1>1. Queue(cs) /\ Asked(cs) = X /\ X \subseteq Int
  BY CutsQueue
<1>2. /\ \A i \in DOMAIN cs : cs[i] \in Seq(Int) /\ cs[i] # <<>> /\ Increasing(cs[i])
      /\ \A i, j \in DOMAIN cs : i < j => \A x \in ToSet(cs[i]), y \in ToSet(cs[j]) : x < y
      /\ DOMAIN cs = 1..Len(cs) /\ Len(cs) \in Nat /\ 1 \in DOMAIN cs
  BY DEF Cuts
<1>3. /\ Queue(t) /\ Asked(t) = X \ ToSet(s) /\ ToSet(s) \subseteq X
      /\ \A i \in DOMAIN t : i + 1 \in DOMAIN cs /\ t[i] = cs[i + 1]
      /\ DOMAIN t \subseteq Nat
  <2>1. Queue(t) /\ Asked(t) = X \ ToSet(s) /\ ToSet(s) \subseteq X
        /\ \A i \in DOMAIN t : i + 1 \in DOMAIN cs /\ t[i] = cs[i + 1]
    BY <1>1, QueueTail
  <2>2. DOMAIN t = 1..Len(t) /\ Len(t) \in Nat
    BY <2>1, QueueFacts
  <2>. QED BY <2>1, <2>2
<1>4. s \in Seq(Int) /\ s # <<>> /\ Increasing(s)
  BY <1>2
<1>. HIDE DEF s, t
<1>5. l \in ToSet(s) /\ l \in Int /\ \A x \in ToSet(s) : x \in Int /\ x <= l
  <2>1. Len(s) \in DOMAIN s /\ l = s[Len(s)] /\ DOMAIN s = 1..Len(s) /\ Len(s) \in Nat
        /\ \A k \in DOMAIN s : s[k] \in Int
    BY <1>4 DEF Last
  <2>. HIDE DEF l
  <2>2. \A k \in DOMAIN s : k = Len(s) \/ k < Len(s)
    BY <2>1
  <2>3. \A k \in DOMAIN s : s[k] <= l
    BY <1>4, <2>1, <2>2 DEF Increasing
  <2>. QED BY <2>1, <2>3 DEF ToSet
<1>. HIDE DEF l
<1>6. \A x \in Asked(t) : x > l
  <2>. SUFFICES ASSUME NEW i \in DOMAIN t, NEW x \in ToSet(t[i]) PROVE x > l
    BY DEF Asked
  <2>1. i + 1 \in DOMAIN cs /\ 1 < i + 1 /\ x \in ToSet(cs[i + 1])
    BY <1>3
  <2>2. l < x
    BY <1>2, <1>5, <2>1 DEF s
  <2>3. x \in Int
    BY <1>1, <2>1 DEF Asked
  <2>. QED BY <1>5, <2>2, <2>3
<1>7. \A x \in X : x \in ToSet(s) <=> x < l + 1
  <2>. SUFFICES ASSUME NEW x \in X PROVE x \in ToSet(s) <=> x < l + 1
    OBVIOUS
  <2>1. x \in Int /\ (x \in ToSet(s) \/ x \in Asked(t))
    BY <1>1, <1>3
  <2>2. x \in ToSet(s) => x <= l
    BY <1>5
  <2>3. x \in Asked(t) => x > l
    BY <1>6
  <2>. QED BY <1>5, <2>1, <2>2, <2>3
<1>8. Asked(t) = {x \in X : x >= l + 1}
  <2>1. \A x \in X : x \in Asked(t) <=> ~(x < l + 1)
    BY <1>3, <1>7
  <2>2. \A x \in X : ~(x < l + 1) <=> x >= l + 1
    BY <1>1, <1>5
  <2>. QED BY <1>3, <2>1, <2>2
<1>9. \A i \in DOMAIN t : t[i] # <<>> /\ Increasing(t[i])
  BY <1>2, <1>3
<1>10. \A i, j \in DOMAIN t : i < j => \A x \in ToSet(t[i]), y \in ToSet(t[j]) : x < y
  <2>1. \A i, j \in DOMAIN t : i < j => i + 1 < j + 1
    BY <1>3
  <2>. QED BY <1>2, <1>3, <2>1
<1>11. Cuts(t, {x \in X : x >= l + 1})
  BY <1>3, <1>8, <1>9, <1>10 DEF Cuts, Queue
<1>. QED BY <1>3, <1>5, <1>7, <1>11 DEF l, s, t

\* _recover's calls ask for each orphan once.
LEMMA RecoveryCallsQueue ==
    ASSUME NEW O, O \subseteq Seqs
    PROVE  Queue(RecoveryCalls(O)) /\ Asked(RecoveryCalls(O)) = O
<1>. DEFINE size == Min2(CommitMaxCount, BatchSize)
            Part(q) == PartitionOf[GroupOf[q]]
            parts == {Part(q) : q \in O}
            Of(p) == {q \in O : Part(q) = p}
            ordered == Ascending(parts)
            n == Len(ordered)
            lists == [i \in DOMAIN ordered |-> Batched(Ascending(Of(ordered[i])), size)]
<1>1. RecoveryCalls(O) = FlattenSeq(lists)
  BY DEF RecoveryCalls
<1>2. size \in Nat \ {0}
  BY CommitAssumption, RowsAssumption DEF Min2
<1>3. IsFiniteSet(O) /\ O \subseteq Int /\ \A q \in O : Part(q) \in Nat
  <2>1. IsFiniteSet(O)
    BY CommitAssumption, FS_Subset
  <2>2. O \subseteq Int
    BY CommitAssumption
  <2>3. \A q \in O : Part(q) \in Nat
    BY CommitAssumption, RowsAssumption
  <2>. QED BY <2>1, <2>2, <2>3
<1>4. IsFiniteSet(parts) /\ parts \subseteq Int
  <2>1. parts \subseteq Int
    BY <1>3
  <2>2. IsFiniteSet(parts)
    <3>. DEFINE f == [q \in O |-> Part(q)]
    <3>1. parts = {f[q] : q \in O}
      OBVIOUS
    <3>2. f \in Surjection(O, parts)
      BY DEF Surjection
    <3>. QED BY <1>3, <3>2, FS_Surjection
  <2>. QED BY <2>1, <2>2
<1>. HIDE DEF parts, size, Part
<1>5. ordered \in Seq(parts) /\ ToSet(ordered) = parts /\ \A i, j \in DOMAIN ordered : i < j => ordered[i] < ordered[j]
  BY <1>4, AscendingLists
<1>. HIDE DEF ordered
<1>6. DOMAIN ordered = 1..n /\ n \in Nat /\ \A i \in 1..n : ordered[i] \in Int
  <2>1. DOMAIN ordered = 1..n /\ n \in Nat /\ \A i \in 1..n : ordered[i] \in parts
    BY <1>5
  <2>. QED BY <1>4, <2>1
<1>. HIDE DEF n
<1>7. ASSUME NEW p
      PROVE  /\ Queue(Batched(Ascending(Of(p)), size)) /\ Batched(Ascending(Of(p)), size) \in Seq(Seq(Int))
             /\ Asked(Batched(Ascending(Of(p)), size)) = Of(p)
  <2>. DEFINE s == Ascending(Of(p))
  <2>1. Of(p) \subseteq O /\ Of(p) \subseteq Int
    BY <1>3
  <2>2. IsFiniteSet(Of(p))
    BY <1>3, <2>1, FS_Subset
  <2>. HIDE DEF Of
  <2>3. s \in Seq(Of(p)) /\ ToSet(s) = Of(p) /\ \A i, j \in DOMAIN s : i < j => s[i] < s[j]
    BY <2>1, <2>2, AscendingLists
  <2>. HIDE DEF s
  <2>4. s \in Seq(Int) /\ Increasing(s)
    BY <2>1, <2>3 DEF Increasing
  <2>5. Cuts(Batched(s, size), Of(p))
    BY <1>2, <2>3, <2>4, BatchedCuts
  <2>6. Queue(Batched(s, size)) /\ Asked(Batched(s, size)) = Of(p)
    BY <2>5, CutsQueue
  <2>. QED BY <2>6 DEF s, Queue
<1>8. lists \in Seq(Seq(Seq(Int))) /\ Len(lists) = n /\ \A i \in 1..n : lists[i] = Batched(Ascending(Of(ordered[i])), size)
  <2>. DEFINE B(p) == Batched(Ascending(Of(p)), size)
  <2>1. \A p : B(p) \in Seq(Seq(Int))
    BY <1>7
  <2>2. lists = [i \in 1..n |-> B(ordered[i])]
    BY <1>6
  <2>. HIDE DEF B, lists
  <2>3. lists \in Seq(Seq(Seq(Int))) /\ Len(lists) = n /\ \A i \in 1..n : lists[i] = B(ordered[i])
    BY <1>6, <2>1, <2>2
  <2>. QED BY <2>3 DEF B
<1>9. \A i \in 1..n : Queue(lists[i]) /\ Asked(lists[i]) = Of(ordered[i])
  BY <1>7, <1>8
<1>. HIDE DEF lists
<1>10. PICK h : Flattens(h, lists, Seq(Int))
  BY <1>8, FlattenUnfolds
<1>11. /\ h \in [0..n -> Seq(Seq(Int))] /\ h[0] = <<>> /\ FlattenSeq(lists) = h[n]
       /\ \A i \in 1..n : h[i] = h[i - 1] \o lists[i]
  BY <1>8, <1>10 DEF Flattens
<1>. DEFINE First(i) == UNION {Of(ordered[k]) : k \in 1..i}
            Good(i) == Queue(h[i]) /\ Asked(h[i]) = First(i)
            bad == {i \in 0..n : ~Good(i)}
<1>12. Good(0)
  <2>1. First(0) = {}
    OBVIOUS
  <2>. HIDE DEF First
  <2>. QED BY <1>11, <2>1, QueueNone
<1>13. ASSUME NEW i \in 1..n, Good(i - 1) PROVE Good(i)
  <2>0. i \in Nat /\ i > 0
    BY <1>6
  <2>1. First(i) = First(i - 1) \cup Of(ordered[i])
    <3>1. (\A k \in 1..i : k \in 1..(i - 1) \/ k = i) /\ (\A k \in 1..(i - 1) : k \in 1..i) /\ i \in 1..i
      BY <2>0
    <3>. HIDE DEF Of
    <3>. QED BY <3>1
  <2>2. First(i - 1) \cap Of(ordered[i]) = {}
    <3>. SUFFICES ASSUME NEW k \in 1..(i - 1), NEW q \in Of(ordered[k]), q \in Of(ordered[i]) PROVE FALSE
      OBVIOUS
    <3>1. k \in DOMAIN ordered /\ i \in DOMAIN ordered /\ k < i
      BY <1>6
    <3>2. ordered[k] < ordered[i] /\ ordered[k] \in Int
      BY <1>5, <1>6, <3>1
    <3>3. ordered[k] = ordered[i]
      OBVIOUS
    <3>. QED BY <3>2, <3>3
  <2>. HIDE DEF First, Of
  <2>3. h[i] = h[i - 1] \o lists[i]
    BY <1>11
  <2>4. Queue(h[i - 1] \o lists[i]) /\ Asked(h[i - 1] \o lists[i]) = First(i - 1) \cup Of(ordered[i])
    BY <1>9, <1>13, <2>2, QueueConcat
  <2>. QED BY <2>1, <2>3, <2>4
<1>14. bad = {}
  <2>. SUFFICES ASSUME bad # {} PROVE FALSE
    OBVIOUS
  <2>1. PICK x \in bad : \A y \in bad : x <= y
    <3>1. bad \subseteq Nat
      BY <1>6
    <3>. HIDE DEF bad
    <3>. QED BY <3>1, LeastNatural
  <2>2. x \in 0..n /\ ~Good(x)
    OBVIOUS
  <2>. HIDE DEF Good
  <2>3. x # 0
    BY <1>12, <2>2
  <2>4. x \in 1..n /\ x - 1 \in 0..n /\ x - 1 \notin bad
    BY <1>6, <2>1, <2>2, <2>3
  <2>. QED BY <1>13, <2>2, <2>4
<1>15. Good(n)
  <2>. HIDE DEF Good
  <2>. QED BY <1>6, <1>14
<1>16. First(n) = O
  <2>1. \A q \in O : \E k \in 1..n : ordered[k] = Part(q)
    BY <1>5, <1>6 DEF ToSet, parts
  <2>. QED BY <2>1
<1>. QED BY <1>1, <1>11, <1>15, <1>16
\* g sums up f, from 1 on.
SumsUp(g, n, f) == g = [i \in 0..n |-> IF i = 0 THEN 0 ELSE g[i - 1] + f[i]]

\* The running sum of a list of counts is well defined.
LEMMA SumExists ==
    ASSUME NEW n \in Nat, NEW f \in [1..n -> Nat]
    PROVE  \E g : SumsUp(g, n, f)
<1>. DEFINE F == [i \in 1..n |-> [x \in Nat |-> x + f[i]]]
<1>1. F \in [1..n -> [Nat -> Nat]]
  OBVIOUS
<1>2. \A i \in 1..n : \A x \in Nat : F[i][x] = x + f[i]
  OBVIOUS
<1>. HIDE DEF F
<1>3. PICK h : LoopValues(h, Nat, 0, n, F)
  BY <1>1, LoopHasValues
<1>4. h \in [0..n -> Nat] /\ h[0] = 0 /\ \A i \in 1..n : h[i] = h[i - 1] + f[i]
  <2>1. h \in [0..n -> Nat] /\ h[0] = 0 /\ \A i \in 1..n : h[i] = F[i][h[i - 1]]
    BY <1>3 DEF LoopValues
  <2>. SUFFICES ASSUME NEW i \in 1..n PROVE h[i] = h[i - 1] + f[i]
    BY <2>1
  <2>2. h[i - 1] \in Nat
    BY <2>1
  <2>. QED BY <1>2, <2>1, <2>2
<1>5. h = [i \in 0..n |-> IF i = 0 THEN 0 ELSE h[i - 1] + f[i]]
  <2>1. \A i \in 0..n : h[i] = IF i = 0 THEN 0 ELSE h[i - 1] + f[i]
    BY <1>4
  <2>. QED BY <1>4, <2>1
<1>. QED BY <1>5 DEF SumsUp

\* A sum of naturals is at least as large as any of them.
LEMMA SumBounds ==
    ASSUME NEW n \in Nat, NEW f \in [1..n -> Nat], NEW g, SumsUp(g, n, f)
    PROVE  g[n] \in Nat /\ \A i \in 1..n : f[i] <= g[n]
<1>. DEFINE Good(i) == g[i] \in Nat /\ \A k \in 1..i : f[k] <= g[i]
            bad == {i \in 0..n : ~Good(i)}
<1>1. g[0] = 0 /\ \A i \in 1..n : g[i] = g[i - 1] + f[i]
  BY DEF SumsUp
<1>2. Good(0)
  BY <1>1
<1>3. ASSUME NEW i \in 1..n, Good(i - 1) PROVE Good(i)
  <2>1. g[i] = g[i - 1] + f[i] /\ f[i] \in Nat /\ g[i - 1] \in Nat
    BY <1>1, <1>3
  <2>2. ASSUME NEW k \in 1..i PROVE f[k] <= g[i]
    <3>1. CASE k = i
      BY <2>1, <3>1
    <3>2. CASE k # i
      <4>1. k \in 1..(i - 1) /\ k \in 1..n
        BY <3>2
      <4>2. f[k] <= g[i - 1] /\ f[k] \in Nat
        BY <1>3, <4>1
      <4>. QED BY <2>1, <4>2
    <3>. QED BY <3>1, <3>2
  <2>. QED BY <2>1, <2>2
<1>4. bad = {}
  <2>. SUFFICES ASSUME bad # {} PROVE FALSE
    OBVIOUS
  <2>1. PICK x \in bad : \A y \in bad : x <= y
    <3>1. bad \subseteq Nat
      OBVIOUS
    <3>. HIDE DEF bad
    <3>. QED BY <3>1, LeastNatural
  <2>2. x \in 0..n /\ ~Good(x)
    OBVIOUS
  <2>. HIDE DEF Good
  <2>3. x # 0
    BY <1>2, <2>2
  <2>4. x \in 1..n /\ x - 1 \in 0..n /\ x - 1 \notin bad
    BY <2>1, <2>2, <2>3
  <2>. QED BY <1>3, <2>2, <2>4
<1>5. Good(n)
  <2>. HIDE DEF Good
  <2>. QED BY <1>4
<1>. QED BY <1>5

\* W falls into sets that do not meet, of the sizes f.
Pieces(W, n, T, f) ==
    /\ \A i \in 1..n : IsFiniteSet(T[i]) /\ Cardinality(T[i]) = f[i]
    /\ \A i, j \in 1..n : i # j => T[i] \cap T[j] = {}
    /\ \A x : x \in W <=> \E i \in 1..n : x \in T[i]

\* Then its size is the sum of theirs.
LEMMA SumOfSizes ==
    ASSUME NEW n \in Nat, NEW f \in [1..n -> Nat], NEW g, SumsUp(g, n, f), NEW T, NEW W, Pieces(W, n, T, f)
    PROVE  IsFiniteSet(W) /\ Cardinality(W) = g[n]
<1>. DEFINE U(i) == UNION {T[k] : k \in 1..i}
            Good(i) == IsFiniteSet(U(i)) /\ Cardinality(U(i)) = g[i]
            bad == {i \in 0..n : ~Good(i)}
<1>0. /\ \A i \in 1..n : IsFiniteSet(T[i]) /\ Cardinality(T[i]) = f[i]
      /\ \A i, j \in 1..n : i # j => T[i] \cap T[j] = {}
      /\ \A x : x \in W <=> \E i \in 1..n : x \in T[i]
  BY DEF Pieces
<1>1. g[0] = 0 /\ \A i \in 1..n : g[i] = g[i - 1] + f[i]
  BY DEF SumsUp
<1>2. Good(0)
  <2>1. U(0) = {}
    OBVIOUS
  <2>. HIDE DEF U
  <2>. QED BY <1>1, <2>1, FS_EmptySet
<1>3. ASSUME NEW i \in 1..n, Good(i - 1) PROVE Good(i)
  <2>1. 1..i = 1..(i - 1) \cup {i} /\ 1..(i - 1) \subseteq 1..n /\ i \notin 1..(i - 1)
    OBVIOUS
  <2>2. U(i) = U(i - 1) \cup T[i]
    BY <2>1
  <2>3. U(i - 1) \cap T[i] = {}
    BY <1>0, <2>1
  <2>. HIDE DEF U
  <2>4. IsFiniteSet(U(i - 1)) /\ IsFiniteSet(T[i])
    BY <1>0, <1>3
  <2>5. IsFiniteSet(U(i)) /\ Cardinality(U(i)) = Cardinality(U(i - 1)) + Cardinality(T[i]) - Cardinality({})
    <3>. DEFINE A == U(i - 1)
                B == T[i]
    <3>1. U(i) = A \cup B /\ A \cap B = {} /\ IsFiniteSet(A) /\ IsFiniteSet(B)
      BY <2>2, <2>3, <2>4
    <3>. HIDE DEF A, B
    <3>2. IsFiniteSet(U(i)) /\ Cardinality(U(i)) = Cardinality(A) + Cardinality(B) - Cardinality({})
      BY <3>1, FS_Union
    <3>. QED BY <3>2 DEF A, B
  <2>6. Cardinality({}) = 0 /\ Cardinality(U(i - 1)) = g[i - 1] /\ Cardinality(T[i]) = f[i]
    BY <1>0, <1>3, FS_EmptySet
  <2>7. g[i - 1] \in Nat
    BY <2>4, <2>6, FS_CardinalityType
  <2>8. f[i] \in Nat
    OBVIOUS
  <2>9. g[i] = g[i - 1] + f[i] - 0
    BY <1>1, <2>7, <2>8
  <2>. QED BY <2>5, <2>6, <2>9
<1>4. bad = {}
  <2>. SUFFICES ASSUME bad # {} PROVE FALSE
    OBVIOUS
  <2>1. PICK x \in bad : \A y \in bad : x <= y
    <3>1. bad \subseteq Nat
      OBVIOUS
    <3>. HIDE DEF bad
    <3>. QED BY <3>1, LeastNatural
  <2>2. x \in 0..n /\ ~Good(x)
    OBVIOUS
  <2>. HIDE DEF Good
  <2>3. x # 0
    BY <1>2, <2>2
  <2>4. x \in 1..n /\ x - 1 \in 0..n /\ x - 1 \notin bad
    BY <2>1, <2>2, <2>3
  <2>. QED BY <1>3, <2>2, <2>4
<1>5. Good(n)
  <2>. HIDE DEF Good
  <2>. QED BY <1>4
<1>6. U(n) = W
  BY <1>0
<1>. HIDE DEF U
<1>. QED BY <1>5, <1>6

\* count_ranges counts what the ranges cover.
LEMMA CountIsSize ==
    ASSUME NEW ranges \in Ranges
    PROVE  IsFiniteSet(Cover(ranges)) /\ CountRanges(ranges) = Cardinality(Cover(ranges))
<1>. DEFINE m == MergeRanges(ranges)
            n == Len(m)
            f == [i \in 1..n |-> m[i][2] - m[i][1] + 1]
            g == CHOOSE h : h = [i \in 0..n |-> IF i = 0 THEN 0 ELSE h[i - 1] + (m[i][2] - m[i][1] + 1)]
            T == [i \in 1..n |-> m[i][1]..m[i][2]]
<1>1. CountRanges(ranges) = g[n]
  BY DEF CountRanges
<1>2. m \in Ranges /\ Canonical(m) /\ Cover(m) = Cover(ranges)
  BY MergedCovers
<1>. HIDE DEF m
<1>3. /\ DOMAIN m = 1..n /\ n \in Nat
      /\ \A i \in 1..n : m[i][1] \in Int /\ m[i][2] \in Int /\ m[i][1] <= m[i][2]
      /\ \A i \in 1..n : i > 1 => m[i - 1][2] + 1 < m[i][1]
      /\ \A q : q \in Cover(m) <=> \E i \in 1..n : q \in m[i][1]..m[i][2]
  BY <1>2, RangesAreLists DEF Canonical
<1>. HIDE DEF n
<1>4. f \in [1..n -> Nat] /\ \A i \in 1..n : f[i] = m[i][2] - m[i][1] + 1
  BY <1>3
<1>. HIDE DEF f
<1>5. g = [i \in 0..n |-> IF i = 0 THEN 0 ELSE g[i - 1] + (m[i][2] - m[i][1] + 1)]
  <2>1. PICK h : SumsUp(h, n, f)
    BY <1>3, <1>4, SumExists
  <2>2. \A i \in 0..n : i # 0 => i \in 1..n
    BY <1>3
  <2>3. h = [i \in 0..n |-> IF i = 0 THEN 0 ELSE h[i - 1] + (m[i][2] - m[i][1] + 1)]
    BY <1>4, <2>1, <2>2 DEF SumsUp
  <2>. QED BY <2>3
<1>. HIDE DEF g
<1>6. SumsUp(g, n, f)
  <2>1. \A i \in 0..n : i # 0 => i \in 1..n
    BY <1>3
  <2>. QED BY <1>4, <1>5, <2>1 DEF SumsUp
<1>7. \A i \in 1..n : T[i] = m[i][1]..m[i][2]
  OBVIOUS
<1>8. \A i \in 1..n : IsFiniteSet(T[i]) /\ Cardinality(T[i]) = f[i]
  <2>1. ASSUME NEW i \in 1..n PROVE IsFiniteSet(T[i]) /\ Cardinality(T[i]) = f[i]
    <3>. DEFINE a == m[i][1]
                b == m[i][2]
    <3>1. a \in Int /\ b \in Int /\ ~(a > b) /\ f[i] = b - a + 1 /\ T[i] = a..b
      BY <1>3, <1>4, <1>7
    <3>. HIDE DEF a, b, T
    <3>. QED BY <3>1, FS_Interval
  <2>. QED BY <2>1
<1>9. \A x : x \in Cover(ranges) <=> \E i \in 1..n : x \in T[i]
  BY <1>2, <1>3
<1>. HIDE DEF T
<1>10. \A i, j \in 1..n : i < j => m[i][2] < m[j][1]
  <2>. DEFINE Apart(j) == \A i \in 1..n : i < j => m[i][2] < m[j][1]
              bad == {j \in 1..n : ~Apart(j)}
  <2>1. bad = {}
    <3>. SUFFICES ASSUME bad # {} PROVE FALSE
      OBVIOUS
    <3>1. PICK j \in bad : \A y \in bad : j <= y
      <4>1. bad \subseteq Nat
        OBVIOUS
      <4>. HIDE DEF bad
      <4>. QED BY <4>1, LeastNatural
    <3>2. PICK i \in 1..n : i < j /\ ~(m[i][2] < m[j][1])
      OBVIOUS
    <3>3. j \in 1..n /\ j > 1 /\ j - 1 \in 1..n
      BY <1>3, <3>1, <3>2
    <3>4. Apart(j - 1)
      <4>. HIDE DEF Apart
      <4>1. j - 1 \notin bad
        <5>. HIDE DEF bad
        <5>1. j \in Int
          BY <1>3, <3>3
        <5>. QED BY <3>1, <5>1
      <4>. QED BY <3>3, <4>1
    <3>5. m[j - 1][2] + 1 < m[j][1] /\ m[j - 1][1] <= m[j - 1][2] /\ m[j - 1][1] \in Int /\ m[j - 1][2] \in Int
          /\ m[j][1] \in Int /\ m[i][2] \in Int
      BY <1>3, <3>2, <3>3
    <3>6. CASE i = j - 1
      BY <3>2, <3>5, <3>6
    <3>7. CASE i # j - 1
      <4>1. i < j - 1
        BY <3>2, <3>3, <3>7
      <4>2. m[i][2] < m[j - 1][1]
        BY <3>4, <4>1
      <4>. QED BY <3>2, <3>5, <4>2
    <3>. QED BY <3>6, <3>7
  <2>. QED BY <2>1
<1>11. \A i, j \in 1..n : i # j => T[i] \cap T[j] = {}
  <2>1. ASSUME NEW i \in 1..n, NEW j \in 1..n, i < j PROVE T[i] \cap T[j] = {}
    <3>1. m[i][2] < m[j][1] /\ m[i][1] \in Int /\ m[i][2] \in Int /\ m[j][1] \in Int /\ m[j][2] \in Int
      BY <1>3, <1>10, <2>1
    <3>. QED BY <1>7, <3>1
  <2>2. ASSUME NEW i \in 1..n, NEW j \in 1..n, i # j PROVE T[i] \cap T[j] = {}
    <3>1. i < j \/ j < i
      BY <1>3, <2>2
    <3>2. CASE i < j
      BY <2>1, <3>2
    <3>3. CASE j < i
      <4>1. T[j] \cap T[i] = {}
        BY <2>1, <3>3
      <4>. QED BY <4>1
    <3>. QED BY <3>1, <3>2, <3>3
  <2>. QED BY <2>2
<1>12. IsFiniteSet(Cover(ranges)) /\ Cardinality(Cover(ranges)) = g[n]
  <2>1. Pieces(Cover(ranges), n, T, f)
    BY <1>8, <1>9, <1>11 DEF Pieces
  <2>. QED BY <1>3, <1>4, <1>6, <2>1, SumOfSizes
<1>. QED BY <1>1, <1>12

\* count_ranges counts something if the ranges cover something.
LEMMA CountIsPositive ==
    ASSUME NEW ranges \in Ranges
    PROVE  CountRanges(ranges) \in Nat /\ (Cover(ranges) # {} => CountRanges(ranges) > 0)
<1>1. IsFiniteSet(Cover(ranges)) /\ CountRanges(ranges) = Cardinality(Cover(ranges))
  BY CountIsSize
<1>2. Cardinality(Cover(ranges)) \in Nat /\ (Cover(ranges) # {} => Cardinality(Cover(ranges)) # 0)
  BY <1>1, FS_CardinalityType, FS_EmptySet
<1>. QED BY <1>1, <1>2

\* The count over groups is a sum.
LEMMA CountOfSums ==
    ASSUME \A g \in Groups : saved[g].ranges \in Ranges, NEW S
    PROVE  /\ GroupCount \in Nat /\ Groups = 1..GroupCount
           /\ \E f \in [1..GroupCount -> Nat] : \E s :
                 /\ \A g \in 1..GroupCount : f[g] = IF g \in S THEN CountRanges(saved[g].ranges) ELSE 0
                 /\ SumsUp(s, GroupCount, f) /\ CountOf(S) = s[GroupCount]
<1>. DEFINE n == GroupCount
            f == [g \in 1..n |-> IF g \in S THEN CountRanges(saved[g].ranges) ELSE 0]
            s == CHOOSE h : h = [g \in 0..n |-> IF g = 0 THEN 0
                                    ELSE h[g - 1] + (IF g \in S THEN CountRanges(saved[g].ranges) ELSE 0)]
<1>1. CountOf(S) = s[n]
  BY DEF CountOf
<1>2. n \in Nat /\ Groups = 1..n
  BY CommitAssumption DEF Groups
<1>. HIDE DEF n
<1>3. \A g \in 1..n : CountRanges(saved[g].ranges) \in Nat
  BY <1>2, CountIsPositive
<1>4. f \in [1..n -> Nat] /\ \A g \in 1..n : f[g] = IF g \in S THEN CountRanges(saved[g].ranges) ELSE 0
  BY <1>3
<1>. HIDE DEF f
<1>5. \A g \in 0..n : g # 0 => g \in 1..n
  BY <1>2
<1>6. s = [g \in 0..n |-> IF g = 0 THEN 0
                              ELSE s[g - 1] + (IF g \in S THEN CountRanges(saved[g].ranges) ELSE 0)]
  <2>1. PICK h : SumsUp(h, n, f)
    BY <1>2, <1>4, SumExists
  <2>2. h = [g \in 0..n |-> IF g = 0 THEN 0
                                ELSE h[g - 1] + (IF g \in S THEN CountRanges(saved[g].ranges) ELSE 0)]
    BY <1>4, <1>5, <2>1 DEF SumsUp
  <2>. QED BY <2>2
<1>. HIDE DEF s
<1>7. SumsUp(s, n, f)
  BY <1>4, <1>5, <1>6 DEF SumsUp
<1>8. \E ff \in [1..n -> Nat] : \E ss :
          /\ \A g \in 1..n : ff[g] = IF g \in S THEN CountRanges(saved[g].ranges) ELSE 0
          /\ SumsUp(ss, n, ff) /\ CountOf(S) = ss[n]
  BY <1>1, <1>4, <1>7
<1>. QED BY <1>2, <1>8 DEF n

\* So it is positive when there is something to count.
LEMMA CountOfIsPositive ==
    ASSUME \A g \in Groups : saved[g].ranges \in Ranges, NEW S, S \subseteq Groups
    PROVE  CountOf(S) \in Nat /\ \A g \in S : Cover(saved[g].ranges) # {} => CountOf(S) > 0
<1>1. GroupCount \in Nat /\ Groups = 1..GroupCount
  BY CountOfSums
<1>2. PICK f, s :
          /\ f \in [1..GroupCount -> Nat]
          /\ \A g \in 1..GroupCount : f[g] = IF g \in S THEN CountRanges(saved[g].ranges) ELSE 0
          /\ SumsUp(s, GroupCount, f) /\ CountOf(S) = s[GroupCount]
  BY CountOfSums
<1>3. s[GroupCount] \in Nat /\ \A g \in 1..GroupCount : f[g] <= s[GroupCount]
  BY <1>1, <1>2, SumBounds
<1>4. ASSUME NEW g \in S, Cover(saved[g].ranges) # {} PROVE s[GroupCount] > 0
  <2>1. g \in 1..GroupCount /\ CountRanges(saved[g].ranges) > 0 /\ CountRanges(saved[g].ranges) \in Nat
    BY <1>1, <1>4, CountIsPositive
  <2>2. f[g] = CountRanges(saved[g].ranges) /\ f[g] <= s[GroupCount]
    BY <1>2, <1>3, <2>1
  <2>. QED BY <1>3, <2>1, <2>2
<1>. QED BY <1>2, <1>3, <1>4

(***************************************************************************)
(* The invariant.                                                          *)
(***************************************************************************)
Cell(g) == {q \in Seqs : GroupOf[q] = g}
Phases == {"idle", "open", "call", "committed", "scan", "recover", "receive", "finish", "failed"}

\* The broker: locked messages are deferred ones, and only they may have used up
\* their deliveries.
BrokerInv ==
    /\ place \in [Seqs -> {"deferred", "fresh", "used", "gone", "exhausted"}]
    /\ locked \subseteq {q \in Seqs : place[q] = "deferred"}
    /\ dc \in [Seqs -> 0..MaxDelivery]
    /\ \A q \in Seqs : place[q] = "fresh" => dc[q] = 0
    /\ \A q \in Seqs : place[q] = "deferred" /\ q \notin locked => dc[q] < MaxDelivery

\* The run and where it is.
RunInv ==
    /\ row \in Rows /\ runs \in 0..row.maxRuns /\ mode \in {"defer_commit", "complete"}
    /\ pc \in Phases
    /\ at \in 1..(GroupCount + 1) /\ (Committing => at \in Groups)
    /\ tries \in 0..Retries /\ sessionRetry \in BOOLEAN /\ nextSeq \in Nat
    /\ stats \in [committed : Nat, alreadyGone : Nat, carriedForward : Nat, droppedStale : Nat]

\* The state: a group owns imported messages of its own, carries some of them, and
\* carries only if its session may be held by another receiver.
StateInv ==
    /\ saved \in [Groups -> [ranges : Ranges, maxBody : Nat]]
    /\ carried \in [Groups -> [ranges : Ranges, maxBody : Nat]]
    /\ draft \in [Groups -> [seqs : SUBSET Seqs, maxBody : Nat]]
    /\ imported \subseteq Seqs
    /\ \A g \in Groups :
          /\ Cover(saved[g].ranges) \subseteq Cell(g) \cap imported
          /\ Cover(carried[g].ranges) \subseteq Cover(saved[g].ranges)
          /\ Cover(carried[g].ranges) # {} => g \in row.sessionGroups
          /\ draft[g].seqs \subseteq Cell(g)

\* The calls are pieces of the first chunk, and their messages are not answered for.
QueueInv ==
    /\ Queue(chunks) /\ Queue(calls) /\ Asked(chunks) \subseteq Seqs
    /\ Asked(calls) \cup found \cup missing \subseteq FirstOf(chunks)
    /\ found \cap missing = {} /\ Asked(calls) \cap (found \cup missing) = {}

\* The scan: pages are within the cap and the K rule counts no further than K.
ScanTypes ==
    /\ partitioned \in BOOLEAN /\ next \in Nat \ {0} /\ shown \subseteq Seqs
    /\ pages \in 0..PageCap /\ consecutive \in 0..K /\ stopped \in BOOLEAN
    /\ guarded \subseteq Seqs
    /\ warnings \subseteq {"sessions", "best_effort", "incomplete", "foreign"}
    /\ deleted \subseteq Seqs /\ lost \subseteq Seqs /\ unfound \subseteq Seqs

(***************************************************************************)
(* The steps.                                                              *)
(***************************************************************************)

\* The steps that change nothing but where the run is, and its warnings.
Quiet == ScanFails \/ NoScanOfSessions \/ StartScan \/ ScanDone \/ Probe \/ JobFails

\* What they leave alone.
LEMMA QuietSteps ==
    ASSUME Quiet
    PROVE  UNCHANGED <<place, locked, dc, runs, mode, row, saved, at, nextSeq, chunks, calls, tries,
                       sessionRetry, found, missing, carried, stats, imported, deleted, partitioned,
                       next, shown, pages, consecutive, stopped, draft, guarded, lost, unfound>>
<1>. USE DEF Unscanned, broker, call, progress, outcome, history, scanVars, runVars, results
<1>1. CASE ScanFails
  BY <1>1 DEF ScanFails
<1>2. CASE NoScanOfSessions
  BY <1>2 DEF NoScanOfSessions
<1>3. CASE StartScan
  BY <1>3 DEF StartScan
<1>4. CASE ScanDone
  BY <1>4 DEF ScanDone
<1>5. CASE Probe
  BY <1>5 DEF Probe
<1>6. CASE JobFails
  BY <1>6 DEF JobFails
<1>. QED BY <1>1, <1>2, <1>3, <1>4, <1>5, <1>6 DEF Quiet

\* What a quiet step does to the phase.
LEMMA QuietMoves ==
    ASSUME Quiet
    PROVE  \/ pc' \in {"idle", "failed"}
           \/ pc = "committed" /\ pc' = "receive"
           \/ pc = "scan" /\ pc' = "receive"
           \/ pc = "committed" /\ pc' = "scan" /\ ~row.sessionEnabled
BY DEF Quiet, ScanFails, NoScanOfSessions, StartScan, ScanDone, Probe, JobFails

\* The commit leaves the rest of the run alone.
LEMMA CommitFrame ==
    ASSUME H5
    PROVE  UNCHANGED <<locked, dc, runs, mode, row, saved, imported, partitioned, next, shown, pages,
                       consecutive, stopped, draft, guarded, warnings, lost, unfound>>
<1>. USE DEF broker, history, scanVars, results
<1>1. UNCHANGED <<dc, runs, mode, partitioned, next, shown, pages, consecutive, stopped, draft,
                  guarded, warnings, lost, unfound>>
  BY DEF H5
<1>2. UNCHANGED <<locked, row, saved, imported>>
  BY DEF H5, Commit, OpenGroupFails, CommitCallFails, OpenGroup, CommitCall, CommitCallNotFound
<1>. QED BY <1>1, <1>2

\* A call that raised is retried, or ends its group, or the run.
Retried ==
    /\ tries < Retries /\ tries' = tries + 1
    /\ UNCHANGED <<pc, at, nextSeq, chunks, calls, sessionRetry, found, missing, carried, stats>>
Stopped ==
    /\ pc' = "failed"
    /\ UNCHANGED <<at, nextSeq, chunks, calls, tries, sessionRetry, found, missing, carried, stats>>
CarriedOn == HasSession(at) /\ CarryGroup /\ OnTo(From(at + 1))
DroppedOn ==
    /\ EntityOf[at] # "own" /\ DropStale /\ UNCHANGED carried
    /\ OnTo({h \in From(at + 1) : EntityOf[h] # EntityOf[at]})

\* with_transient_retry and the except clauses of _commit_entity: these four and
\* no other.
LEMMA FailureMoves ==
    ASSUME NEW error \in Errors, NEW retryable, RetryOr(error, retryable, GroupFails(error))
    PROVE  Retried \/ Stopped \/ CarriedOn \/ DroppedOn
<1>. USE DEF call, progress, outcome
<1>1. Retried \/ GroupFails(error)
  BY DEF RetryOr, Retried
<1>2. ASSUME GroupFails(error) PROVE Stopped \/ CarriedOn \/ DroppedOn
  <2>1. error = "session_locked" => HasSession(at)
    BY DEF Errors
  <2>. QED BY <1>2, <2>1 DEF GroupFails, Stopped, CarriedOn, DroppedOn
<1>. QED BY <1>1, <1>2

\* The messages of the first call are deleted.
Deletes == /\ Available(calls[1]) /\ place' = Gone(calls[1]) /\ deleted' = deleted \cup ToSet(calls[1])
Keeps == UNCHANGED <<place, deleted>>

\* The calls of the chunk that are left, the next chunk, the bisected call.
NextCall(F, M) ==
    /\ Len(calls) # 1 /\ calls' = Tail(calls) /\ found' = F /\ missing' = M /\ tries' = 0
    /\ UNCHANGED <<pc, at, nextSeq, chunks, sessionRetry, stats>>
NextChunk(F, M) ==
    /\ Len(calls) = 1 /\ Len(chunks) # 1 /\ tries' = 0
    /\ stats' = [stats EXCEPT !.committed = @ + Cardinality(F), !.alreadyGone = @ + Cardinality(M)]
    /\ nextSeq' = Last(chunks[1]) + 1 /\ chunks' = Tail(chunks) /\ calls' = <<chunks[2]>>
    /\ found' = {} /\ missing' = {} /\ sessionRetry' = FALSE /\ UNCHANGED <<at, pc>>
LastChunk(F, M) ==
    /\ Len(calls) = 1 /\ Len(chunks) = 1 /\ OnTo(From(at + 1))
    /\ stats' = [stats EXCEPT !.committed = @ + Cardinality(F), !.alreadyGone = @ + Cardinality(M)]
Bisected ==
    /\ Len(calls[1]) # 1 /\ calls' = Halves(calls[1]) \o Tail(calls) /\ tries' = 0
    /\ UNCHANGED <<pc, at, nextSeq, chunks, sessionRetry, found, missing, stats>>
Answered(F, M) == UNCHANGED carried /\ (NextCall(F, M) \/ NextChunk(F, M) \/ LastChunk(F, M))

\* The steps of the commit, by what they do to the messages and to the calls.
Opened ==
    LET todo == Batched(IterRanges(saved[at].ranges), CommitChunkSize(saved[at].maxBody))
    IN  /\ pc = "open" /\ todo # <<>> /\ chunks' = todo /\ calls' = <<todo[1]>> /\ pc' = "call" /\ tries' = 0
        /\ Keeps /\ UNCHANGED <<at, nextSeq, sessionRetry, found, missing, carried, stats>>
OpenedNone ==
    /\ pc = "open" /\ Batched(IterRanges(saved[at].ranges), CommitChunkSize(saved[at].maxBody)) = <<>>
    /\ OnTo(From(at + 1)) /\ Keeps /\ UNCHANGED <<carried, stats>>
OpenFails == pc = "open" /\ Keeps /\ (Retried \/ Stopped \/ CarriedOn \/ DroppedOn)
CallSucceeds == pc = "call" /\ Deletes /\ Answered(found \cup ToSet(calls[1]), missing)
CallFindsNone ==
    /\ pc = "call" /\ Keeps /\ ~Available(calls[1]) /\ Len(calls[1]) = 1
    /\ Answered(found, missing \cup ToSet(calls[1]))
CallBisects == pc = "call" /\ Keeps /\ ~Available(calls[1]) /\ Bisected /\ UNCHANGED carried
CallFails == pc = "call" /\ (Keeps \/ Deletes) /\ (Retried \/ Stopped \/ CarriedOn \/ DroppedOn)

\* Every step of the commit is one of these.
LEMMA CommitMoves ==
    ASSUME H5
    PROVE  \/ Opened \/ OpenedNone \/ OpenFails
           \/ CallSucceeds \/ CallFindsNone \/ CallBisects \/ CallFails
<1>. USE DEF broker, history, progress, call, outcome
<1>1. CASE OpenGroup
  BY <1>1 DEF OpenGroup, Opened, OpenedNone, Keeps
<1>2. CASE OpenGroupFails
  <2>1. PICK error \in Errors : RetryOr(error, {"transient", "session_locked"}, GroupFails(error))
    BY <1>2 DEF OpenGroupFails
  <2>2. Retried \/ Stopped \/ CarriedOn \/ DroppedOn
    BY <2>1, FailureMoves
  <2>. QED BY <1>2, <2>2 DEF OpenGroupFails, OpenFails, Keeps
<1>3. ASSUME NEW F, NEW M, CallDone(F, M), UNCHANGED carried PROVE Answered(F, M)
  BY <1>3 DEF CallDone, ChunkDone, Answered, NextCall, NextChunk, LastChunk
<1>4. CASE CommitCall
  BY <1>3, <1>4 DEF CommitCall, CallSucceeds, Deletes
<1>5. CASE CommitCallNotFound
  BY <1>3, <1>5 DEF CommitCallNotFound, CallFindsNone, CallBisects, Bisected, Keeps
<1>6. CASE CommitCallFails
  <2>1. PICK error \in Errors :
          /\ Keeps \/ Deletes
          /\ RetryOr(error, {"transient"} \cup (IF sessionRetry THEN {"session_locked"} ELSE {}), GroupFails(error))
    BY <1>6 DEF CommitCallFails, Keeps, Deletes
  <2>2. Retried \/ Stopped \/ CarriedOn \/ DroppedOn
    BY <2>1, FailureMoves
  <2>. QED BY <1>6, <2>1, <2>2 DEF CommitCallFails, CallFails
<1>. QED BY <1>1, <1>2, <1>4, <1>5, <1>6 DEF H5, Commit

\* Every step of the system.
LEMMA Steps ==
    ASSUME [Next]_vars
    PROVE  \/ UNCHANGED vars \/ Quiet \/ StartRun \/ H5 \/ ScanPage
           \/ RecoverCallFails \/ RecoverCall \/ RecoverCallNotFound \/ RecoverChunk
           \/ Receive \/ JobSucceeds \/ \E q \in Seqs : LockLapses(q) \/ Expires(q)
BY DEF Next, Run, Scan, Quiet

\* The first of some groups.
LEMMA FirstGroup ==
    ASSUME NEW S, S \subseteq Groups, S # {}
    PROVE  Min(S) \in S /\ \A h \in S : Min(S) <= h
<1>1. S \subseteq Nat
  BY CommitAssumption DEF Groups
<1>2. \E x \in S : \A y \in S : x <= y
  BY <1>1, LeastNatural
<1>. QED BY <1>2 DEF Min

\* The greatest of some numbers.
LEMMA GreatestNumber ==
    ASSUME NEW S, S \subseteq Nat, IsFiniteSet(S), S # {}
    PROVE  Max(S) \in S /\ \A x \in S : x <= Max(S)
<1>1. S \subseteq Int
  OBVIOUS
<1>2. \E x \in S : \A y \in S : y <= x
  BY <1>1, GreatestOfFinite
<1>3. \E x \in S : \A y \in S : x >= y
  BY <1>1, <1>2
<1>. QED BY <1>1, <1>3 DEF Max

\* A chunk holds at least one message.
LEMMA ChunkSizeIsPositive ==
    ASSUME NEW maxBody \in Nat
    PROVE  CommitChunkSize(maxBody) \in Nat \ {0}
<1>. DEFINE m == Max2(1, maxBody)
            d == CommitMaxBytes \div m
<1>1. m \in Nat \ {0}
  BY DEF Max2
<1>. HIDE DEF m
<1>2. d \in Nat
  BY <1>1, CommitAssumption, DivBounds
<1>3. CommitChunkSize(maxBody) = Max2(1, Min2(CommitMaxCount, d))
  BY DEF CommitChunkSize, d, m
<1>. HIDE DEF d
<1>. QED BY <1>2, <1>3, CommitAssumption DEF Max2, Min2

\* The groups to work on.
LEMMA FromGroups ==
    ASSUME NEW g
    PROVE  From(g) \subseteq Groups
BY DEF From

\* On to the next group, or past the last one.
LEMMA OnToGroup ==
    ASSUME NEW S, S \subseteq Groups, OnTo(S)
    PROVE  /\ at' \in 1..(GroupCount + 1) /\ nextSeq' = 0 /\ tries' = 0 /\ sessionRetry' = TRUE
           /\ chunks' = <<>> /\ calls' = <<>> /\ found' = {} /\ missing' = {}
           /\ S = {} => pc' = "committed"
           /\ S # {} => pc' = "open" /\ at' \in S /\ at' \in Groups /\ \A h \in S : at' <= h
<1>1. S # {} => Min(S) \in S /\ \A h \in S : Min(S) <= h
  BY FirstGroup
<1>2. \A g \in Groups : g \in 1..(GroupCount + 1)
  BY CommitAssumption DEF Groups
<1>3. GroupCount + 1 \in 1..(GroupCount + 1)
  BY CommitAssumption
<1>4. CASE S = {}
  BY <1>3, <1>4 DEF OnTo
<1>5. CASE S # {}
  BY <1>1, <1>2, <1>5 DEF OnTo
<1>. QED BY <1>4, <1>5

\* PendingSetBuilder.add.
LEMMA DraftingAdds ==
    ASSUME StateInv, NEW S, S \subseteq Seqs
    PROVE  /\ Drafting(S) \in [Groups -> [seqs : SUBSET Seqs, maxBody : Nat]]
           /\ \A g \in Groups : Drafting(S)[g].seqs = draft[g].seqs \cup {q \in S : GroupOf[q] = g}
           /\ \A g \in Groups : Drafting(S)[g].seqs \subseteq Cell(g)
           /\ \A g \in Groups : draft[g].maxBody <= Drafting(S)[g].maxBody
           /\ \A q \in S : BodySize[q] <= Drafting(S)[GroupOf[q]].maxBody
<1>. DEFINE new(g) == {q \in S : GroupOf[q] = g}
            sizes(g) == {draft[g].maxBody} \cup {BodySize[q] : q \in new(g)}
<1>1. ASSUME NEW g \in Groups PROVE Max(sizes(g)) \in Nat /\ \A x \in sizes(g) : x <= Max(sizes(g))
  <2>1. draft[g].maxBody \in Nat
    BY DEF StateInv
  <2>2. \A q \in new(g) : BodySize[q] \in Nat
    BY CommitAssumption
  <2>3. sizes(g) \subseteq Nat /\ sizes(g) # {}
    BY <2>1, <2>2
  <2>4. IsFiniteSet(sizes(g))
    <3>1. IsFiniteSet(new(g))
      BY CommitAssumption, FS_Subset
    <3>. DEFINE f == [q \in new(g) |-> BodySize[q]]
    <3>2. f \in Surjection(new(g), {BodySize[q] : q \in new(g)})
      BY DEF Surjection
    <3>. HIDE DEF f, new
    <3>3. IsFiniteSet({BodySize[q] : q \in new(g)})
      BY <3>1, <3>2, FS_Surjection
    <3>4. IsFiniteSet({draft[g].maxBody})
      BY FS_Singleton
    <3>. QED BY <3>3, <3>4, FS_Union
  <2>. HIDE DEF sizes
  <2>. QED BY <2>3, <2>4, GreatestNumber
<1>2. Drafting(S) = [g \in Groups |-> [seqs |-> draft[g].seqs \cup new(g), maxBody |-> Max(sizes(g))]]
  BY DEF Drafting
<1>. HIDE DEF sizes
<1>3. \A g \in Groups : draft[g].seqs \in SUBSET Seqs /\ draft[g].seqs \subseteq Cell(g)
  BY DEF StateInv
<1>4. \A g \in Groups : new(g) \subseteq Cell(g) /\ new(g) \subseteq Seqs
  BY DEF Cell
<1>. HIDE DEF new
<1>5. \A g \in Groups : [seqs |-> draft[g].seqs \cup new(g), maxBody |-> Max(sizes(g))]
                            \in [seqs : SUBSET Seqs, maxBody : Nat]
  BY <1>1, <1>3, <1>4
<1>6. Drafting(S) \in [Groups -> [seqs : SUBSET Seqs, maxBody : Nat]]
  BY <1>2, <1>5
<1>7. \A g \in Groups : Drafting(S)[g].seqs = draft[g].seqs \cup new(g)
  BY <1>2
<1>8. \A g \in Groups : Drafting(S)[g].seqs \subseteq Cell(g)
  BY <1>3, <1>4, <1>7
<1>9. \A g \in Groups : draft[g].maxBody <= Drafting(S)[g].maxBody
  BY <1>1, <1>2 DEF sizes
<1>10. ASSUME NEW q \in S PROVE BodySize[q] <= Drafting(S)[GroupOf[q]].maxBody
  <2>1. GroupOf[q] \in Groups
    BY CommitAssumption
  <2>2. BodySize[q] \in sizes(GroupOf[q])
    BY DEF sizes, new
  <2>. QED BY <1>1, <1>2, <2>1, <2>2
<1>. QED BY <1>6, <1>7, <1>8, <1>9, <1>10 DEF new

\* The initial state.
LEMMA InitParts ==
    ASSUME Init
    PROVE  BrokerInv /\ RunInv /\ StateInv /\ QueueInv /\ ScanTypes
<1>. USE RowsAssumption DEF Init
<1>1. BrokerInv
  <2>1. place \in [Seqs -> {"deferred", "fresh", "used", "gone"}] /\ row.delivered \in 0..(MaxDelivery - 1)
    OBVIOUS
  <2>2. MaxDelivery \in Nat \ {0}
    OBVIOUS
  <2>3. dc = [q \in Seqs |-> IF place[q] = "deferred" THEN row.delivered ELSE 0] /\ locked = {}
    OBVIOUS
  <2>4. \A q \in Seqs : dc[q] \in 0..MaxDelivery /\ (place[q] = "fresh" => dc[q] = 0) /\ dc[q] < MaxDelivery
    BY <2>1, <2>2, <2>3
  <2>. QED BY <2>1, <2>3, <2>4 DEF BrokerInv
<1>2. RunInv
  <2>1. 1 \in 1..(GroupCount + 1) /\ 0 \in 0..Retries
    BY CommitAssumption
  <2>2. row.maxRuns \in Nat /\ mode \in {"defer_commit", "complete"} /\ row \in Rows
    OBVIOUS
  <2>3. stats \in [committed : Nat, alreadyGone : Nat, carriedForward : Nat, droppedStale : Nat]
    BY DEF NoStats
  <2>. QED BY <2>1, <2>2, <2>3 DEF RunInv, Phases, Committing
<1>3. StateInv
  <2>1. saved \in [Groups -> [ranges : Ranges, maxBody : Nat]]
    BY DEF Ranges
  <2>2. <<>> \in Ranges /\ Cover(<<>>) = {}
    BY DEF Ranges, Cover, ToSet
  <2>3. carried \in [Groups -> [ranges : Ranges, maxBody : Nat]] /\ \A g \in Groups : carried[g].ranges = <<>>
    BY <2>2 DEF Nothing
  <2>4. draft \in [Groups -> [seqs : SUBSET Seqs, maxBody : Nat]] /\ \A g \in Groups : draft[g].seqs = {}
    BY DEF NoDraft
  <2>5. \A g \in Groups : Cover(saved[g].ranges) \subseteq Cell(g) /\ Cover(saved[g].ranges) \subseteq imported
    BY DEF Cell
  <2>6. imported \subseteq Seqs
    BY DEF Cell
  <2>. QED BY <2>1, <2>2, <2>3, <2>4, <2>5, <2>6 DEF StateInv
<1>4. QueueInv
  BY QueueNone DEF QueueInv
<1>5. ScanTypes
  <2>1. 0 \in 0..PageCap /\ 0 \in 0..K /\ 1 \in Nat \ {0}
    OBVIOUS
  <2>. QED BY <2>1 DEF ScanTypes
<1>. QED BY <1>1, <1>2, <1>3, <1>4, <1>5

\* The first call asks for messages of the first chunk.
LEMMA FirstCall ==
    ASSUME QueueInv, calls # <<>>
    PROVE  /\ chunks # <<>> /\ FirstOf(chunks) = ToSet(chunks[1]) /\ FirstOf(chunks) \subseteq Asked(chunks)
           /\ ToSet(calls[1]) \subseteq FirstOf(chunks) /\ ToSet(calls[1]) \subseteq Seqs
           /\ ToSet(calls[1]) \subseteq Asked(calls) /\ Asked(Tail(calls)) = Asked(calls) \ ToSet(calls[1])
           /\ ToSet(calls[1]) # {}
<1>1. Queue(calls) /\ Queue(chunks) /\ Asked(calls) \subseteq FirstOf(chunks) /\ Asked(chunks) \subseteq Seqs
  BY DEF QueueInv
<1>2. ToSet(calls[1]) \subseteq Asked(calls) /\ Asked(Tail(calls)) = Asked(calls) \ ToSet(calls[1])
  BY <1>1, QueueTail
<1>3. ToSet(calls[1]) # {}
  BY <1>1, QueueFacts
<1>4. chunks # <<>>
  BY <1>1, <1>2, <1>3 DEF FirstOf
<1>5. FirstOf(chunks) = ToSet(chunks[1]) /\ ToSet(chunks[1]) \subseteq Asked(chunks)
  BY <1>1, <1>4, QueueTail
<1>. QED BY <1>1, <1>2, <1>3, <1>4, <1>5

\* A deferred receive, a lapsed lock, an expired message.
LEMMA BrokerStep ==
    ASSUME BrokerInv, RunInv, QueueInv, pc = "call" => calls # <<>>, [Next]_vars
    PROVE  BrokerInv'
<1>. USE DEF BrokerInv
<1>0. MaxDelivery \in Nat \ {0}
  BY RowsAssumption
<1>1. CASE UNCHANGED <<place, locked, dc>>
  BY <1>1
<1>2. CASE UNCHANGED vars \/ Quiet \/ StartRun \/ ScanPage \/ RecoverCallNotFound \/ JobSucceeds
  <2>1. UNCHANGED <<place, locked, dc>>
    <3>1. CASE UNCHANGED vars
      BY <3>1 DEF vars, broker
    <3>2. CASE Quiet
      BY <3>2, QuietSteps
    <3>3. CASE StartRun \/ ScanPage \/ RecoverCallNotFound \/ JobSucceeds
      BY <3>3 DEF StartRun, ScanPage, RecoverCallNotFound, JobSucceeds, broker
    <3>. QED BY <1>2, <3>1, <3>2, <3>3
  <2>. QED BY <1>1, <2>1
<1>3. ASSUME NEW seqs, Available(seqs), Locks(seqs), locked' = locked \cup ToSet(seqs), ToSet(seqs) \subseteq Seqs
      PROVE  BrokerInv'
  <2>1. \A q \in ToSet(seqs) : place[q] = "deferred" /\ q \notin locked /\ dc[q] < MaxDelivery
    BY <1>3 DEF Available
  <2>2. dc' = [q \in Seqs |-> IF q \in ToSet(seqs) THEN dc[q] + 1 ELSE dc[q]] /\ place' = place
    BY <1>3 DEF Locks
  <2>3. dc' \in [Seqs -> 0..MaxDelivery]
    BY <1>0, <2>1, <2>2
  <2>4. locked' \subseteq {q \in Seqs : place'[q] = "deferred"}
    BY <1>3, <2>1, <2>2
  <2>5. \A q \in Seqs : q \notin ToSet(seqs) => dc'[q] = dc[q]
    BY <2>2
  <2>. QED BY <1>3, <2>1, <2>2, <2>3, <2>4, <2>5
<1>4. CASE RecoverCall \/ RecoverCallFails
  <2>1. CASE UNCHANGED <<place, locked, dc>>
    BY <1>1, <2>1
  <2>2. CASE Available(calls[1]) /\ Locks(calls[1]) /\ locked' = locked \cup ToSet(calls[1])
    <3>1. ToSet(calls[1]) \subseteq Seqs
      BY <1>4, FirstCall DEF RecoverCall, RecoverCallFails
    <3>. QED BY <1>3, <2>2, <3>1
  <2>. QED BY <1>4, <2>1, <2>2 DEF RecoverCall, RecoverCallFails, broker
<1>5. CASE H5
  <2>1. locked' = locked /\ dc' = dc
    BY <1>5, CommitFrame
  <2>2. CASE Keeps
    BY <1>1, <2>1, <2>2 DEF Keeps
  <2>3. CASE Deletes
    <3>1. place' = [q \in Seqs |-> IF q \in ToSet(calls[1]) THEN "gone" ELSE place[q]]
          /\ \A q \in ToSet(calls[1]) : q \notin locked
      BY <2>3 DEF Deletes, Gone, Available
    <3>2. place' \in [Seqs -> {"deferred", "fresh", "used", "gone", "exhausted"}]
      BY <3>1
    <3>3. \A q \in Seqs : place'[q] # "gone" => place'[q] = place[q]
      BY <3>1
    <3>4. \A q \in locked : place'[q] = "deferred"
      BY <3>1
    <3>. QED BY <2>1, <3>2, <3>3, <3>4
  <2>4. Keeps \/ Deletes
    BY <1>5, CommitMoves DEF Opened, OpenedNone, OpenFails, CallSucceeds, CallFindsNone, CallBisects, CallFails
  <2>. QED BY <2>2, <2>3, <2>4
<1>6. CASE RecoverChunk
  <2>1. /\ \A q \in Seqs : place'[q] = CASE q \in found \cap locked \cap Bad -> "gone"
                             [] q \in (found \cap locked) \ Bad /\ dc[q] >= MaxDelivery -> "exhausted"
                             [] OTHER -> place[q]
        /\ locked' = locked \ found /\ dc' = dc
        /\ place' \in [Seqs -> {"deferred", "fresh", "used", "gone", "exhausted"}]
    BY <1>6 DEF RecoverChunk, OrphansProcessed
  <2>2. \A q \in Seqs : q \notin found \cap locked => place'[q] = place[q]
    BY <2>1
  <2>3. \A q \in Seqs : place'[q] \in {"deferred", "fresh"} => place'[q] = place[q]
    BY <2>1
  <2>4. \A q \in Seqs : q \in found \cap locked /\ place'[q] = "deferred" => ~(dc[q] >= MaxDelivery)
    BY <2>1
  <2>5. \A q \in Seqs : dc[q] \in Nat
    BY <1>0
  <2>6. \A q \in Seqs : q \in found \cap locked /\ place'[q] = "deferred" => dc[q] < MaxDelivery
    BY <1>0, <2>4, <2>5
  <2>7. locked' \subseteq {q \in Seqs : place'[q] = "deferred"}
    BY <2>1, <2>2
  <2>8. \A q \in Seqs : place'[q] = "deferred" /\ q \notin locked' => dc'[q] < MaxDelivery
    BY <2>1, <2>3, <2>6
  <2>. QED BY <2>1, <2>3, <2>7, <2>8
<1>7. CASE Receive
  <2>1. PICK S \in SUBSET {q \in Seqs : Own(q) /\ place[q] = "fresh"} :
            place' = [q \in Seqs |-> IF q \in S THEN "deferred" ELSE place[q]]
    BY <1>7 DEF Receive
  <2>2. locked' = locked /\ dc' = dc
    BY <1>7 DEF Receive
  <2>3. place' \in [Seqs -> {"deferred", "fresh", "used", "gone", "exhausted"}]
    BY <2>1
  <2>4. \A q \in Seqs : q \in S => dc[q] = 0 /\ place[q] = "fresh"
    BY <2>1
  <2>5. 0 < MaxDelivery
    BY <1>0
  <2>. QED BY <2>1, <2>2, <2>3, <2>4, <2>5
<1>8. ASSUME NEW q \in Seqs, LockLapses(q) PROVE BrokerInv'
  <2>1. q \in locked /\ locked' = locked \ {q} /\ dc' = dc
        /\ place' = [place EXCEPT ![q] = IF dc[q] >= MaxDelivery THEN "exhausted" ELSE @]
    BY <1>8 DEF LockLapses
  <2>2. place' \in [Seqs -> {"deferred", "fresh", "used", "gone", "exhausted"}]
    BY <2>1
  <2>3. \A k \in Seqs : k # q => place'[k] = place[k]
    BY <2>1
  <2>4. place'[q] = "exhausted" \/ (place'[q] = "deferred" /\ ~(dc[q] >= MaxDelivery))
    BY <2>1
  <2>5. ~(dc[q] >= MaxDelivery) => dc[q] < MaxDelivery
    BY <1>0
  <2>. QED BY <2>1, <2>2, <2>3, <2>4, <2>5
<1>9. ASSUME NEW q \in Seqs, Expires(q) PROVE BrokerInv'
  <2>1. q \notin locked /\ locked' = locked /\ dc' = dc /\ place' = [place EXCEPT ![q] = "gone"]
    BY <1>9 DEF Expires
  <2>. QED BY <2>1
<1>. QED BY <1>2, <1>4, <1>5, <1>6, <1>7, <1>8, <1>9, Steps

\* The commit's calls return messages of the model, so their counts are numbers.
LEMMA CountsAreNumbers ==
    ASSUME QueueInv, calls # <<>>
    PROVE  /\ Cardinality(found \cup ToSet(calls[1])) \in Nat /\ Cardinality(missing) \in Nat
           /\ Cardinality(found) \in Nat /\ Cardinality(missing \cup ToSet(calls[1])) \in Nat
           /\ found \cup missing \subseteq Seqs
<1>1. found \subseteq Seqs /\ missing \subseteq Seqs /\ ToSet(calls[1]) \subseteq Seqs
  BY FirstCall DEF QueueInv
<1>2. \A T \in SUBSET Seqs : Cardinality(T) \in Nat
  BY CommitAssumption, FS_Subset, FS_CardinalityType
<1>. QED BY <1>1, <1>2

\* The counters of the commit.
LEMMA StatsStep ==
    ASSUME RunInv, StateInv, QueueInv, pc = "call" => calls # <<>>, H5
    PROVE  /\ stats' \in [committed : Nat, alreadyGone : Nat, carriedForward : Nat, droppedStale : Nat]
           /\ stats'.droppedStale >= stats.droppedStale
<1>. DEFINE Counts == [committed : Nat, alreadyGone : Nat, carriedForward : Nat, droppedStale : Nat]
            Good == stats' \in Counts /\ stats'.droppedStale >= stats.droppedStale
<1>1. stats \in Counts /\ stats.droppedStale \in Nat
  BY DEF RunInv
<1>2. CASE UNCHANGED stats
  BY <1>1, <1>2
<1>3. ASSUME NEW F, NEW M, Answered(F, M), Cardinality(F) \in Nat, Cardinality(M) \in Nat PROVE Good
  <2>1. CASE NextCall(F, M)
    BY <1>2, <2>1 DEF NextCall
  <2>2. CASE stats' = [stats EXCEPT !.committed = @ + Cardinality(F), !.alreadyGone = @ + Cardinality(M)]
    <3>1. stats.committed + Cardinality(F) \in Nat /\ stats.alreadyGone + Cardinality(M) \in Nat
      BY <1>1, <1>3
    <3>2. stats' \in Counts /\ stats'.droppedStale = stats.droppedStale
      BY <1>1, <2>2, <3>1
    <3>. QED BY <1>1, <3>2
  <2>. QED BY <1>3, <2>1, <2>2 DEF Answered, NextChunk, LastChunk
<1>4. ASSUME at \in Groups, CarryGroup PROVE Good
  <2>. DEFINE c == CountRanges(TailFrom(saved[at].ranges, nextSeq))
  <2>1. saved[at].ranges \in Ranges /\ nextSeq \in Int
    BY <1>4 DEF StateInv, RunInv
  <2>2. c \in Nat
    BY <2>1, TailCovers, CountIsPositive
  <2>3. stats' = [stats EXCEPT !.carriedForward = @ + c]
    BY <1>4 DEF CarryGroup
  <2>. HIDE DEF c
  <2>4. stats' \in Counts /\ stats'.droppedStale = stats.droppedStale
    BY <1>1, <2>2, <2>3
  <2>. QED BY <1>1, <2>4
<1>5. ASSUME at \in Groups, DropStale PROVE Good
  <2>. DEFINE S == {h \in From(at + 1) : EntityOf[h] = EntityOf[at]}
              c == CountRanges(TailFrom(saved[at].ranges, nextSeq)) + CountOf(S)
  <2>1. saved[at].ranges \in Ranges /\ nextSeq \in Int
    BY <1>5 DEF StateInv, RunInv
  <2>2. CountRanges(TailFrom(saved[at].ranges, nextSeq)) \in Nat
    BY <2>1, TailCovers, CountIsPositive
  <2>3. CountOf(S) \in Nat
    <3>1. S \subseteq Groups /\ \A g \in Groups : saved[g].ranges \in Ranges
      BY FromGroups DEF StateInv
    <3>. QED BY <3>1, CountOfIsPositive
  <2>. DEFINE d == stats.droppedStale + CountRanges(TailFrom(saved[at].ranges, nextSeq)) + CountOf(S)
  <2>4. stats' = [stats EXCEPT !.droppedStale = d]
    BY <1>5 DEF DropStale
  <2>5. d \in Nat /\ d >= stats.droppedStale
    BY <1>1, <2>2, <2>3
  <2>. HIDE DEF d
  <2>6. stats' \in Counts /\ stats'.droppedStale = d
    BY <1>1, <2>4, <2>5
  <2>. QED BY <2>5, <2>6
<1>6. ASSUME at \in Groups, Retried \/ Stopped \/ CarriedOn \/ DroppedOn PROVE Good
  BY <1>2, <1>4, <1>5, <1>6 DEF Retried, Stopped, CarriedOn, DroppedOn
<1>7. Committing => at \in Groups
  BY DEF RunInv
<1>. HIDE DEF Good
<1>8. CASE Opened \/ OpenedNone \/ CallBisects
  <2>1. UNCHANGED stats
    BY <1>8 DEF Opened, OpenedNone, CallBisects, Bisected
  <2>. QED BY <1>2, <2>1 DEF Good
<1>9. CASE OpenFails \/ CallFails
  <2>1. at \in Groups
    BY <1>7, <1>9 DEF OpenFails, CallFails, Committing
  <2>. QED BY <1>6, <1>9, <2>1 DEF OpenFails, CallFails, Good
<1>10. CASE CallSucceeds
  BY <1>3, <1>10, CountsAreNumbers DEF CallSucceeds, Good
<1>11. CASE CallFindsNone
  BY <1>3, <1>11, CountsAreNumbers DEF CallFindsNone, Good
<1>. QED BY <1>8, <1>9, <1>10, <1>11, CommitMoves DEF Good

\* Where the run is.
LEMMA RunStep ==
    ASSUME RunInv, StateInv, QueueInv, pc = "call" => calls # <<>>, [Next]_vars
    PROVE  RunInv' /\ row' = row
<1>. USE DEF RunInv
<1>0. row \in Rows /\ row.maxRuns \in Nat /\ row.modes \subseteq {"defer_commit", "complete"} /\ Retries \in Nat
      /\ 0 \in 0..Retries
  <2>1. row \in Rows
    OBVIOUS
  <2>2. row.maxRuns \in Nat /\ row.modes \subseteq {"defer_commit", "complete"}
    BY <2>1, RowsAssumption
  <2>3. Retries \in Nat
    BY CommitAssumption
  <2>. QED BY <2>1, <2>2, <2>3
<1>1. CASE UNCHANGED <<row, runs, mode, at, tries, sessionRetry, nextSeq, stats>> /\ (pc' = pc \/ pc' \in Phases \ {"open", "call"})
  BY <1>1 DEF Committing
<1>2. CASE UNCHANGED vars
  BY <1>1, <1>2 DEF vars, runVars, progress, call, outcome
<1>3. CASE Quiet
  <2>1. pc' \in Phases \ {"open", "call"}
    BY <1>3, QuietMoves DEF Phases
  <2>. QED BY <1>1, <1>3, <2>1, QuietSteps
<1>4. CASE Receive \/ JobSucceeds \/ \E q \in Seqs : LockLapses(q) \/ Expires(q)
  BY <1>1, <1>4 DEF Receive, JobSucceeds, LockLapses, Expires, runVars, progress, call, outcome, Phases
<1>5. CASE ScanPage \/ RecoverCall \/ RecoverCallNotFound \/ RecoverChunk \/ RecoverCallFails
  <2>1. UNCHANGED <<row, runs, mode, at, sessionRetry, nextSeq, stats>>
    BY <1>5 DEF ScanPage, RecoverCall, RecoverCallNotFound, RecoverChunk, RecoverCallFails, runVars,
                progress, call, outcome
  <2>2. pc' = pc \/ pc' \in Phases \ {"open", "call"}
    BY <1>5 DEF ScanPage, RecoverCall, RecoverCallNotFound, RecoverChunk, RecoverCallFails, Phases
  <2>3. tries' = tries \/ tries' = 0 \/ (tries < Retries /\ tries' = tries + 1)
    BY <1>5 DEF ScanPage, RecoverCall, RecoverCallNotFound, RecoverChunk, RecoverCallFails, call
  <2>4. tries' \in 0..Retries
    BY <1>0, <2>3
  <2>. QED BY <2>1, <2>2, <2>4 DEF Committing
<1>6. ASSUME NEW S, S \subseteq Groups, OnTo(S)
      PROVE  /\ pc' \in Phases /\ at' \in 1..(GroupCount + 1) /\ (Committing' => at' \in Groups)
             /\ tries' \in 0..Retries /\ sessionRetry' \in BOOLEAN /\ nextSeq' \in Nat
  <2>1. /\ at' \in 1..(GroupCount + 1) /\ nextSeq' = 0 /\ tries' = 0 /\ sessionRetry' = TRUE
        /\ pc' \in {"committed", "open"} /\ (pc' = "open" => at' \in Groups)
    BY <1>6, OnToGroup
  <2>2. pc' \in Phases /\ (Committing' => at' \in Groups)
    BY <2>1 DEF Phases, Committing
  <2>. QED BY <1>0, <2>1, <2>2
<1>7. CASE StartRun
  <2>1. /\ runs < row.maxRuns /\ runs' = runs + 1 /\ mode' \in row.modes /\ row' = row /\ OnTo(From(1))
        /\ stats' = NoStats
    BY <1>7 DEF StartRun
  <2>2. From(1) \subseteq Groups
    BY FromGroups
  <2>3. stats' \in [committed : Nat, alreadyGone : Nat, carriedForward : Nat, droppedStale : Nat]
    BY <2>1 DEF NoStats
  <2>4. runs' \in 0..row.maxRuns
    BY <1>0, <2>1
  <2>5. mode' \in {"defer_commit", "complete"}
    BY <1>0, <2>1
  <2>. QED BY <1>6, <2>1, <2>2, <2>3, <2>4, <2>5
<1>8. CASE H5
  <2>1. UNCHANGED <<row, runs, mode>>
    BY <1>8, CommitFrame
  <2>2. stats' \in [committed : Nat, alreadyGone : Nat, carriedForward : Nat, droppedStale : Nat]
    BY <1>8, StatsStep
  <2>. DEFINE Good == /\ pc' \in Phases /\ at' \in 1..(GroupCount + 1) /\ (Committing' => at' \in Groups)
                      /\ tries' \in 0..Retries /\ sessionRetry' \in BOOLEAN /\ nextSeq' \in Nat
  <2>3. \A g : From(g) \subseteq Groups /\ {h \in From(g) : EntityOf[h] # EntityOf[at]} \subseteq Groups
    BY FromGroups
  <2>4. ASSUME Retried \/ Stopped \/ CarriedOn \/ DroppedOn PROVE Good
    <3>1. CASE Retried
      <4>1. tries' \in 0..Retries
        BY <1>0, <3>1 DEF Retried
      <4>. QED BY <3>1, <4>1 DEF Retried, Committing
    <3>2. CASE Stopped
      BY <3>2 DEF Stopped, Committing, Phases
    <3>3. CASE CarriedOn \/ DroppedOn
      BY <1>6, <2>3, <3>3 DEF CarriedOn, DroppedOn
    <3>. QED BY <2>4, <3>1, <3>2, <3>3
  <2>5. ASSUME calls # <<>>, pc = "call", NEW F, NEW M, Answered(F, M) PROVE Good
    <3>1. CASE NextCall(F, M)
      BY <1>0, <3>1 DEF NextCall, Committing
    <3>2. CASE NextChunk(F, M)
      <4>1. chunks[1] \in Seq(Int) /\ chunks[1] # <<>> /\ ToSet(chunks[1]) \subseteq Seqs
        <5>1. chunks # <<>> /\ ToSet(chunks[1]) \subseteq Seqs /\ Queue(chunks)
          BY <2>5, FirstCall DEF QueueInv
        <5>. QED BY <5>1, QueueFacts
      <4>2. Last(chunks[1]) \in ToSet(chunks[1])
        <5>. DEFINE s == chunks[1]
        <5>1. s \in Seq(Int) /\ s # <<>>
          BY <4>1
        <5>. HIDE DEF s
        <5>2. Len(s) \in DOMAIN s
          BY <5>1
        <5>3. s[Len(s)] \in ToSet(s)
          BY <5>2 DEF ToSet
        <5>. QED BY <5>3 DEF Last, s
      <4>3. Last(chunks[1]) + 1 \in Nat
        <5>1. Last(chunks[1]) \in Seqs
          BY <4>1, <4>2
        <5>2. \A q \in Seqs : q + 1 \in Nat
          BY CommitAssumption
        <5>. QED BY <5>1, <5>2
      <4>. QED BY <1>0, <3>2, <4>3 DEF NextChunk, Committing
    <3>3. CASE LastChunk(F, M)
      BY <1>6, <2>3, <3>3 DEF LastChunk
    <3>. QED BY <2>5, <3>1, <3>2, <3>3 DEF Answered
  <2>6. ASSUME Opened PROVE Good
    BY <1>0, <2>6 DEF Opened, Committing, Phases
  <2>7. ASSUME OpenedNone PROVE Good
    BY <1>6, <2>3, <2>7 DEF OpenedNone
  <2>8. ASSUME CallBisects PROVE Good
    BY <1>0, <2>8 DEF CallBisects, Bisected, Committing
  <2>9. ASSUME OpenFails \/ CallFails PROVE Good
    BY <2>4, <2>9 DEF OpenFails, CallFails
  <2>10. ASSUME CallSucceeds PROVE Good
    BY <2>5, <2>10 DEF CallSucceeds
  <2>11. ASSUME CallFindsNone PROVE Good
    BY <2>5, <2>11 DEF CallFindsNone
  <2>12. Good
    BY <1>8, <2>6, <2>7, <2>8, <2>9, <2>10, <2>11, CommitMoves
  <2>. QED BY <2>1, <2>2, <2>12
<1>. QED BY <1>2, <1>3, <1>4, <1>5, <1>7, <1>8, Steps

\* PendingSetBuilder.build: the state owns what it carried and what it deferred.
LEMMA BuiltCovers ==
    ASSUME StateInv, NEW g \in Groups
    PROVE  /\ Built(g) \in [ranges : Ranges, maxBody : Nat] /\ Canonical(Built(g).ranges)
           /\ Cover(Built(g).ranges) = Cover(carried[g].ranges) \cup draft[g].seqs
<1>. DEFINE c == carried[g].ranges
            d == draft[g].seqs
            a == MergeRanges(c)
            b == ToRanges(d)
            m == Max2(carried[g].maxBody, draft[g].maxBody)
<1>1. c \in Ranges /\ d \subseteq Seqs /\ carried[g].maxBody \in Nat /\ draft[g].maxBody \in Nat
  BY DEF StateInv
<1>2. Built(g) = [ranges |-> MergeRanges(a \o b), maxBody |-> m]
  BY DEF Built
<1>3. m \in Nat
  BY <1>1 DEF Max2
<1>. HIDE DEF c, d, m
<1>4. a \in Ranges /\ Cover(a) = Cover(c)
  BY <1>1, MergedCovers
<1>5. b \in Ranges /\ Cover(b) = d
  <2>1. IsFiniteSet(d) /\ d \subseteq Int
    <3>1. IsFiniteSet(d)
      BY <1>1, CommitAssumption, FS_Subset
    <3>2. d \subseteq Int
      BY <1>1, CommitAssumption
    <3>. QED BY <3>1, <3>2
  <2>. QED BY <2>1, ToRangesCovers
<1>. HIDE DEF a, b
<1>6. a \o b \in Ranges /\ ToSet(a \o b) = ToSet(a) \cup ToSet(b)
  BY <1>4, <1>5, ConcatLists DEF Ranges
<1>7. Cover(a \o b) = Cover(a) \cup Cover(b)
  BY <1>6 DEF Cover
<1>8. MergeRanges(a \o b) \in Ranges /\ Canonical(MergeRanges(a \o b)) /\ Cover(MergeRanges(a \o b)) = Cover(a \o b)
  BY <1>6, MergedCovers
<1>9. Built(g).ranges = MergeRanges(a \o b) /\ Built(g) \in [ranges : Ranges, maxBody : Nat]
  BY <1>2, <1>3, <1>8
<1>. QED BY <1>4, <1>5, <1>7, <1>8, <1>9 DEF c, d

\* What the state owns, carries and defers.
LEMMA StateStep ==
    ASSUME RunInv, StateInv, QueueInv, pc = "call" => calls # <<>>, [Next]_vars
    PROVE  StateInv'
<1>0. row' = row
  BY RunStep
<1>1. CASE UNCHANGED <<saved, carried, draft, imported>>
  BY <1>0, <1>1 DEF StateInv
<1>2. CASE UNCHANGED vars \/ Quiet \/ ScanPage \/ RecoverCallNotFound \/ RecoverCall \/ RecoverCallFails
           \/ \E q \in Seqs : LockLapses(q) \/ Expires(q)
  <2>1. UNCHANGED <<saved, carried, draft, imported>>
    <3>1. CASE UNCHANGED vars
      BY <3>1 DEF vars, outcome, history, results
    <3>2. CASE Quiet
      BY <3>2, QuietSteps
    <3>3. CASE ScanPage \/ RecoverCallNotFound \/ RecoverCall \/ RecoverCallFails
               \/ \E q \in Seqs : LockLapses(q) \/ Expires(q)
      BY <3>3 DEF ScanPage, RecoverCallNotFound, RecoverCall, RecoverCallFails, LockLapses, Expires,
                  outcome, history, results
    <3>. QED BY <1>2, <3>1, <3>2, <3>3
  <2>. QED BY <1>1, <2>1
<1>3. CASE StartRun
  <2>1. UNCHANGED <<saved, imported>> /\ carried' = [g \in Groups |-> Nothing] /\ draft' = NoDraft
    BY <1>3 DEF StartRun, history
  <2>2. <<>> \in Ranges /\ Cover(<<>>) = {}
    BY DEF Ranges, Cover, ToSet
  <2>3. carried' \in [Groups -> [ranges : Ranges, maxBody : Nat]] /\ \A g \in Groups : carried'[g].ranges = <<>>
    BY <2>1, <2>2 DEF Nothing
  <2>4. draft' \in [Groups -> [seqs : SUBSET Seqs, maxBody : Nat]] /\ \A g \in Groups : draft'[g].seqs = {}
    BY <2>1 DEF NoDraft
  <2>. QED BY <1>0, <2>1, <2>2, <2>3, <2>4 DEF StateInv
<1>4. CASE H5
  <2>1. UNCHANGED <<saved, imported, draft>>
    BY <1>4, CommitFrame
  <2>2. carried' = carried \/ (at \in Groups /\ HasSession(at) /\ CarryGroup)
    <3>1. Committing => at \in Groups
      BY DEF RunInv
    <3>. QED
      BY <1>4, <3>1, CommitMoves DEF Opened, OpenedNone, OpenFails, CallSucceeds, CallFindsNone, CallBisects,
          CallFails, Retried, Stopped, CarriedOn, DroppedOn, Answered, Committing
  <2>3. CASE at \in Groups /\ HasSession(at) /\ CarryGroup
    <3>. DEFINE left == TailFrom(saved[at].ranges, nextSeq)
    <3>1. saved[at] \in [ranges : Ranges, maxBody : Nat] /\ nextSeq \in Int /\ saved[at].ranges \in Ranges
      BY <2>3 DEF StateInv, RunInv
    <3>2. left \in Ranges /\ Cover(left) = {q \in Cover(saved[at].ranges) : q >= nextSeq}
      BY <3>1, TailCovers
    <3>3. carried' = [carried EXCEPT ![at] = [saved[at] EXCEPT !.ranges = left]]
      BY <2>3 DEF CarryGroup
    <3>. HIDE DEF left
    <3>4. [saved[at] EXCEPT !.ranges = left] \in [ranges : Ranges, maxBody : Nat]
          /\ [saved[at] EXCEPT !.ranges = left].ranges = left
      BY <3>1, <3>2
    <3>5. carried \in [Groups -> [ranges : Ranges, maxBody : Nat]]
      BY DEF StateInv
    <3>6. carried' \in [Groups -> [ranges : Ranges, maxBody : Nat]] /\ carried'[at].ranges = left
          /\ \A g \in Groups : g # at => carried'[g] = carried[g]
      BY <2>3, <3>3, <3>4, <3>5
    <3>7. at \in row.sessionGroups
      BY <2>3 DEF HasSession
    <3>8. \A g \in Groups : /\ Cover(carried'[g].ranges) \subseteq Cover(saved[g].ranges)
                            /\ Cover(carried'[g].ranges) # {} => g \in row.sessionGroups
      BY <3>2, <3>6, <3>7 DEF StateInv
    <3>. QED BY <1>0, <2>1, <3>6, <3>8 DEF StateInv
  <2>. QED BY <1>1, <2>1, <2>2, <2>3
<1>5. ASSUME NEW S, S \subseteq Seqs, draft' = Drafting(S), UNCHANGED <<saved, carried, imported>> PROVE StateInv'
  <2>1. draft' \in [Groups -> [seqs : SUBSET Seqs, maxBody : Nat]] /\ \A g \in Groups : draft'[g].seqs \subseteq Cell(g)
    BY <1>5, DraftingAdds
  <2>. QED BY <1>0, <1>5, <2>1 DEF StateInv
<1>6. CASE RecoverChunk
  <2>1. found \ Bad \subseteq Seqs
    <3>1. chunks # <<>> => FirstOf(chunks) \subseteq Seqs
      BY QueueTail DEF QueueInv
    <3>2. FirstOf(chunks) \subseteq Seqs
      BY <3>1 DEF FirstOf
    <3>. QED BY <3>2 DEF QueueInv
  <2>2. draft' = Drafting(found \ Bad) /\ UNCHANGED <<saved, carried, imported>>
    BY <1>6 DEF RecoverChunk, OrphansProcessed, outcome, history
  <2>. QED BY <1>5, <2>1, <2>2
<1>7. CASE Receive
  <2>1. PICK S \in SUBSET {q \in Seqs : Own(q) /\ place[q] = "fresh"} : draft' = Drafting(S)
    BY <1>7 DEF Receive
  <2>2. S \subseteq Seqs /\ UNCHANGED <<saved, carried, imported>>
    BY <1>7 DEF Receive, outcome, history
  <2>. QED BY <1>5, <2>1, <2>2
<1>8. CASE JobSucceeds
  <2>1. /\ saved' = [g \in Groups |-> Built(g)] /\ imported' = imported \cup Drafted
        /\ UNCHANGED <<carried, draft>>
    BY <1>8 DEF JobSucceeds, outcome, results
  <2>2. saved' \in [Groups -> [ranges : Ranges, maxBody : Nat]]
    BY <2>1, BuiltCovers
  <2>3. \A g \in Groups : Cover(saved'[g].ranges) = Cover(carried[g].ranges) \cup draft[g].seqs
    BY <2>1, BuiltCovers
  <2>4. \A g \in Groups : draft[g].seqs \subseteq Drafted /\ draft[g].seqs \subseteq Cell(g)
    BY DEF Drafted, StateInv
  <2>5. Drafted \subseteq Seqs
    BY DEF Drafted, StateInv
  <2>6. \A g \in Groups : /\ Cover(carried[g].ranges) \subseteq Cell(g) \cap imported
                          /\ Cover(carried[g].ranges) # {} => g \in row.sessionGroups
    BY DEF StateInv
  <2>7. \A g \in Groups : Cover(saved'[g].ranges) \subseteq Cell(g) \cap imported'
    BY <2>1, <2>3, <2>4, <2>6
  <2>. QED BY <1>0, <2>1, <2>2, <2>3, <2>4, <2>5, <2>6, <2>7 DEF StateInv
<1>. QED BY <1>2, <1>3, <1>4, <1>6, <1>7, <1>8, Steps

\* While the commit works on a group: its chunks are what is left of it, from
\* next_seq on, and a message of the first chunk is asked for, or not deferred.
ChunkInv ==
    /\ pc = "open" => nextSeq = 0 /\ chunks = <<>>
    /\ pc = "call" =>
          /\ calls # <<>> /\ Cuts(chunks, {q \in Cover(saved[at].ranges) : q >= nextSeq})
          /\ \A q \in Cover(saved[at].ranges) : q < nextSeq => place[q] # "deferred"
          /\ \A q \in FirstOf(chunks) : q \in Asked(calls) \/ place[q] # "deferred"
    /\ pc = "recover" => chunks # <<>>

\* The first call is answered.
LEMMA CallAnswered ==
    ASSUME QueueInv, calls # <<>>, NEW F, NEW M,
           \/ F = found \cup ToSet(calls[1]) /\ M = missing
           \/ F = found /\ M = missing \cup ToSet(calls[1])
    PROVE  /\ Queue(Tail(calls)) /\ Asked(Tail(calls)) \cup F \cup M \subseteq FirstOf(chunks)
           /\ F \cap M = {} /\ Asked(Tail(calls)) \cap (F \cup M) = {}
<1>1. Queue(Tail(calls))
  BY QueueTail DEF QueueInv
<1>2. /\ ToSet(calls[1]) \subseteq FirstOf(chunks) /\ ToSet(calls[1]) \subseteq Asked(calls)
      /\ Asked(Tail(calls)) = Asked(calls) \ ToSet(calls[1])
  BY FirstCall
<1>. QED BY <1>1, <1>2 DEF QueueInv

\* The last call of a list.
LEMMA LastCall ==
    ASSUME NEW cs, Queue(cs), Len(cs) = 1
    PROVE  Asked(cs) = ToSet(cs[1]) /\ FirstOf(cs) = ToSet(cs[1]) /\ cs # <<>>
<1>1. DOMAIN cs = 1..Len(cs) /\ \A x : x \in Asked(cs) <=> \E i \in DOMAIN cs : x \in ToSet(cs[i])
  BY QueueFacts
<1>2. DOMAIN cs = {1}
  BY <1>1
<1>3. cs # <<>>
  BY QueueFacts
<1>. QED BY <1>1, <1>2, <1>3 DEF FirstOf

\* The first chunk is complete.
LEMMA ChunkCompleted ==
    ASSUME QueueInv, chunks # <<>>
    PROVE  /\ Queue(Tail(chunks)) /\ Asked(Tail(chunks)) \subseteq Seqs
           /\ Asked(Tail(chunks)) = Asked(chunks) \ FirstOf(chunks)
           /\ Len(chunks) = 1 => Tail(chunks) = <<>>
           /\ Len(chunks) # 1 => /\ Tail(chunks) # <<>> /\ Queue(<<chunks[2]>>)
                                 /\ Asked(<<chunks[2]>>) = FirstOf(Tail(chunks))
                                 /\ <<chunks[2]>> # <<>>
<1>. DEFINE t == Tail(chunks)
<1>1. /\ Queue(t) /\ Len(t) = Len(chunks) - 1 /\ \A i \in DOMAIN t : i + 1 \in DOMAIN chunks /\ t[i] = chunks[i + 1]
      /\ Asked(t) = Asked(chunks) \ FirstOf(chunks)
  BY QueueTail DEF QueueInv
<1>2. Len(chunks) \in Nat /\ Len(chunks) > 0 /\ DOMAIN chunks = 1..Len(chunks)
  BY QueueFacts DEF QueueInv
<1>3. /\ Len(t) \in Nat /\ (t # <<>> <=> Len(t) > 0) /\ (t # <<>> <=> 1 \in DOMAIN t)
      /\ \A i \in DOMAIN t : t[i] \in Seq(Int) /\ t[i] # <<>> /\ Distinct(t[i])
  BY <1>1, QueueFacts
<1>. HIDE DEF t
<1>4. Asked(t) \subseteq Seqs
  BY <1>1 DEF QueueInv
<1>5. Len(chunks) = 1 => t = <<>>
  BY <1>1, <1>2, <1>3
<1>6. ASSUME Len(chunks) # 1
      PROVE  t # <<>> /\ Queue(<<chunks[2]>>) /\ Asked(<<chunks[2]>>) = FirstOf(t) /\ <<chunks[2]>> # <<>>
  <2>1. t # <<>>
    BY <1>1, <1>2, <1>3, <1>6
  <2>2. t[1] = chunks[2] /\ t[1] \in Seq(Int) /\ t[1] # <<>> /\ Distinct(t[1])
    BY <1>1, <1>3, <2>1
  <2>3. Queue(<<t[1]>>) /\ Asked(<<t[1]>>) = ToSet(t[1]) /\ <<t[1]>> # <<>>
    BY <2>2, QueueOne
  <2>. QED BY <2>1, <2>2, <2>3 DEF FirstOf
<1>. QED BY <1>1, <1>4, <1>5, <1>6 DEF t

\* The chunks of a group cut what its ranges cover.
LEMMA GroupIsCut ==
    ASSUME StateInv, at \in Groups
    PROVE  Cuts(Batched(IterRanges(saved[at].ranges), CommitChunkSize(saved[at].maxBody)), Cover(saved[at].ranges))
<1>1. saved[at].ranges \in Ranges /\ saved[at].maxBody \in Nat
  BY DEF StateInv
<1>2. CommitChunkSize(saved[at].maxBody) \in Nat \ {0}
  BY <1>1, ChunkSizeIsPositive
<1>3. /\ IterRanges(saved[at].ranges) \in Seq(Int) /\ Increasing(IterRanges(saved[at].ranges))
      /\ ToSet(IterRanges(saved[at].ranges)) = Cover(saved[at].ranges)
  BY <1>1, IterLists
<1>. DEFINE s == IterRanges(saved[at].ranges)
            size == CommitChunkSize(saved[at].maxBody)
<1>4. s \in Seq(Int) /\ Increasing(s) /\ size \in Nat \ {0} /\ ToSet(s) = Cover(saved[at].ranges)
  BY <1>2, <1>3
<1>. HIDE DEF s, size
<1>5. Cuts(Batched(s, size), ToSet(s))
  BY <1>4, BatchedCuts
<1>. QED BY <1>4, <1>5 DEF s, size

\* The first of the lists that cut a set.
LEMMA CutsFirst ==
    ASSUME NEW cs, NEW X, Cuts(cs, X), cs # <<>>
    PROVE  Queue(<<cs[1]>>) /\ Asked(<<cs[1]>>) = FirstOf(cs) /\ <<cs[1]>> # <<>>
<1>1. Queue(cs)
  BY CutsQueue
<1>2. cs[1] \in Seq(Int) /\ cs[1] # <<>> /\ Distinct(cs[1])
  BY <1>1, QueueFacts
<1>. QED BY <1>2, QueueOne DEF FirstOf

\* The calls of the chunk.
LEMMA QueueStep ==
    ASSUME RunInv, StateInv, QueueInv, ChunkInv, [Next]_vars
    PROVE  QueueInv'
<1>1. CASE UNCHANGED <<chunks, calls, found, missing>>
  BY <1>1 DEF QueueInv
<1>2. CASE UNCHANGED vars \/ Quiet \/ Receive \/ JobSucceeds \/ RecoverCallFails
           \/ \E q \in Seqs : LockLapses(q) \/ Expires(q)
  <2>1. CASE UNCHANGED vars
    BY <1>1, <2>1 DEF vars, call
  <2>2. CASE Quiet
    BY <1>1, <2>2, QuietSteps
  <2>3. CASE Receive \/ JobSucceeds \/ RecoverCallFails \/ \E q \in Seqs : LockLapses(q) \/ Expires(q)
    BY <1>1, <2>3 DEF Receive, JobSucceeds, RecoverCallFails, LockLapses, Expires, call
  <2>. QED BY <1>2, <2>1, <2>2, <2>3
<1>3. ASSUME NEW S, OnTo(S) PROVE QueueInv'
  <2>1. chunks' = <<>> /\ calls' = <<>> /\ found' = {} /\ missing' = {}
    BY <1>3 DEF OnTo
  <2>. QED BY <2>1, QueueNone DEF QueueInv
<1>4. CASE StartRun
  BY <1>3, <1>4 DEF StartRun
<1>5. ASSUME NEW cs, NEW X, Cuts(cs, X), X \subseteq Seqs, cs # <<>>, chunks' = cs, calls' = <<cs[1]>>,
             found' = {}, missing' = {}
      PROVE  QueueInv'
  <2>1. Queue(cs) /\ Asked(cs) = X
    BY <1>5, CutsQueue
  <2>2. Queue(<<cs[1]>>) /\ Asked(<<cs[1]>>) = FirstOf(cs)
    BY <1>5, CutsFirst
  <2>. QED BY <1>5, <2>1, <2>2 DEF QueueInv
<1>6. CASE H5
  <2>1. ASSUME NEW F, NEW M, calls # <<>>, Answered(F, M),
               \/ F = found \cup ToSet(calls[1]) /\ M = missing
               \/ F = found /\ M = missing \cup ToSet(calls[1])
        PROVE  QueueInv'
    <3>1. CASE NextCall(F, M)
      <4>1. /\ Queue(Tail(calls)) /\ Asked(Tail(calls)) \cup F \cup M \subseteq FirstOf(chunks)
            /\ F \cap M = {} /\ Asked(Tail(calls)) \cap (F \cup M) = {}
        BY <2>1, CallAnswered
      <4>2. chunks' = chunks /\ calls' = Tail(calls) /\ found' = F /\ missing' = M
        BY <3>1 DEF NextCall
      <4>. QED BY <4>1, <4>2 DEF QueueInv
    <3>2. CASE NextChunk(F, M)
      <4>1. chunks # <<>>
        BY <2>1, FirstCall
      <4>2. Len(chunks) # 1 /\ chunks' = Tail(chunks) /\ calls' = <<chunks[2]>> /\ found' = {} /\ missing' = {}
        BY <3>2 DEF NextChunk
      <4>. QED BY <4>1, <4>2, ChunkCompleted DEF QueueInv
    <3>3. CASE LastChunk(F, M)
      BY <1>3, <3>3 DEF LastChunk
    <3>. QED BY <2>1, <3>1, <3>2, <3>3 DEF Answered
  <2>2. CASE Opened
    <3>. DEFINE cs == Batched(IterRanges(saved[at].ranges), CommitChunkSize(saved[at].maxBody))
                X == Cover(saved[at].ranges)
    <3>1. pc = "open" /\ cs # <<>> /\ chunks' = cs /\ calls' = <<cs[1]>> /\ found' = found /\ missing' = missing
      BY <2>2 DEF Opened
    <3>2. found = {} /\ missing = {}
      BY <3>1 DEF ChunkInv, QueueInv, FirstOf
    <3>3. at \in Groups
      BY <3>1 DEF RunInv, Committing
    <3>4. Cuts(cs, X)
      BY <3>3, GroupIsCut
    <3>5. X \subseteq Seqs
      BY <3>3 DEF StateInv, Cell
    <3>. HIDE DEF cs, X
    <3>. QED BY <1>5, <3>1, <3>2, <3>4, <3>5
  <2>3. CASE OpenedNone
    BY <1>3, <2>3 DEF OpenedNone
  <2>4. CASE OpenFails \/ CallFails
    <3>1. CASE Retried \/ Stopped
      BY <1>1, <3>1 DEF Retried, Stopped
    <3>2. CASE CarriedOn \/ DroppedOn
      BY <1>3, <3>2 DEF CarriedOn, DroppedOn
    <3>. QED BY <2>4, <3>1, <3>2 DEF OpenFails, CallFails
  <2>5. CASE CallSucceeds
    BY <2>1, <2>5 DEF CallSucceeds, ChunkInv
  <2>6. CASE CallFindsNone
    BY <2>1, <2>6 DEF CallFindsNone, ChunkInv
  <2>7. CASE CallBisects
    <3>1. calls # <<>> /\ Len(calls[1]) # 1 /\ calls' = Halves(calls[1]) \o Tail(calls)
          /\ UNCHANGED <<chunks, found, missing>>
      BY <2>7 DEF CallBisects, Bisected, ChunkInv
    <3>2. Queue(Halves(calls[1]) \o Tail(calls)) /\ Asked(Halves(calls[1]) \o Tail(calls)) = Asked(calls)
      BY <3>1, QueueHalved DEF QueueInv
    <3>. QED BY <3>1, <3>2 DEF QueueInv
  <2>. QED BY <1>6, <2>2, <2>3, <2>4, <2>5, <2>6, <2>7, CommitMoves
<1>7. CASE ScanPage
  <2>1. PICK P \in SUBSET Ahead :
          LET orphans == {q \in Reached(P) : place[q] = "deferred" /\ dc[q] < GuardThreshold}
              todo == RecoveryCalls(orphans)
          IN  IF todo = <<>> THEN UNCHANGED <<pc, call>>
              ELSE /\ pc' = "recover" /\ chunks' = todo /\ calls' = <<todo[1]>>
                   /\ tries' = 0 /\ found' = {} /\ missing' = {} /\ UNCHANGED sessionRetry
    BY <1>7 DEF ScanPage
  <2>. DEFINE O == {q \in Reached(P) : place[q] = "deferred" /\ dc[q] < GuardThreshold}
              todo == RecoveryCalls(O)
  <2>2. O \subseteq Seqs
    BY DEF Reached, Ahead, Present
  <2>3. Queue(todo) /\ Asked(todo) = O
    BY <2>2, RecoveryCallsQueue
  <2>4. CASE todo = <<>>
    BY <1>1, <2>1, <2>4 DEF call
  <2>5. CASE todo # <<>>
    <3>1. chunks' = todo /\ calls' = <<todo[1]>> /\ found' = {} /\ missing' = {}
      BY <2>1, <2>5
    <3>. HIDE DEF todo, O
    <3>2. todo[1] \in Seq(Int) /\ todo[1] # <<>> /\ Distinct(todo[1])
      BY <2>3, <2>5, QueueFacts
    <3>3. Queue(<<todo[1]>>) /\ Asked(<<todo[1]>>) = FirstOf(todo)
      BY <2>5, <3>2, QueueOne DEF FirstOf
    <3>. QED BY <2>2, <2>3, <3>1, <3>3 DEF QueueInv
  <2>. QED BY <2>4, <2>5
<1>8. CASE RecoverCall
  <2>1. calls # <<>> /\ UNCHANGED <<chunks, missing>> /\ found' = found \cup ToSet(calls[1]) /\ calls' = Tail(calls)
    BY <1>8 DEF RecoverCall
  <2>. QED BY <2>1, CallAnswered DEF QueueInv
<1>9. CASE RecoverCallNotFound
  <2>1. calls # <<>> /\ UNCHANGED <<chunks, found>>
    BY <1>9 DEF RecoverCallNotFound
  <2>2. CASE Len(calls[1]) = 1
    <3>1. missing' = missing \cup ToSet(calls[1]) /\ calls' = Tail(calls)
      BY <1>9, <2>2 DEF RecoverCallNotFound
    <3>. QED BY <2>1, <3>1, CallAnswered DEF QueueInv
  <2>3. CASE Len(calls[1]) # 1
    <3>1. calls' = Halves(calls[1]) \o Tail(calls) /\ missing' = missing
      BY <1>9, <2>3 DEF RecoverCallNotFound
    <3>2. Queue(Halves(calls[1]) \o Tail(calls)) /\ Asked(Halves(calls[1]) \o Tail(calls)) = Asked(calls)
      BY <2>1, <2>3, QueueHalved DEF QueueInv
    <3>. QED BY <2>1, <3>1, <3>2 DEF QueueInv
  <2>. QED BY <2>2, <2>3
<1>10. CASE RecoverChunk
  <2>1. chunks # <<>> /\ chunks' = Tail(chunks) /\ found' = {} /\ missing' = {}
    BY <1>10 DEF RecoverChunk, ChunkInv
  <2>2. CASE Len(chunks) = 1
    <3>1. calls' = <<>>
      BY <1>10, <2>2 DEF RecoverChunk
    <3>. QED BY <2>1, <2>2, <3>1, ChunkCompleted, QueueNone DEF QueueInv
  <2>3. CASE Len(chunks) # 1
    <3>1. calls' = <<chunks[2]>>
      BY <1>10, <2>3 DEF RecoverChunk
    <3>. QED BY <2>1, <2>3, <3>1, ChunkCompleted DEF QueueInv
  <2>. QED BY <2>2, <2>3
<1>. QED BY <1>2, <1>4, <1>6, <1>7, <1>8, <1>9, <1>10, Steps

\* A locked message is not one the state owns, and not one this run deferred: only
\* an unanswered deferred receive leaves a lock behind.
LockInv == \A q \in locked : ~Stored(q) /\ q \notin Drafted

\* What the commit is asked to delete is owned by the state.
LEMMA GroupIsStored ==
    ASSUME StateInv, at \in Groups, NEW q \in Cover(saved[at].ranges)
    PROVE  q \in Seqs /\ GroupOf[q] = at /\ Stored(q) /\ q \in imported
BY DEF StateInv, Cell, Stored

\* No step of the commit defers a message.
LEMMA CommitNeverDefers ==
    ASSUME H5 \/ \E q \in Seqs : LockLapses(q) \/ Expires(q), BrokerInv
    PROVE  \A q \in Seqs : place'[q] = "deferred" => place[q] = "deferred"
<1>1. CASE H5
  <2>1. Keeps \/ Deletes
    BY <1>1, CommitMoves DEF Opened, OpenedNone, OpenFails, CallSucceeds, CallFindsNone, CallBisects, CallFails
  <2>. QED BY <2>1 DEF Keeps, Deletes, Gone
<1>2. CASE \E q \in Seqs : LockLapses(q) \/ Expires(q)
  BY <1>2 DEF LockLapses, Expires, BrokerInv
<1>. QED BY <1>1, <1>2

\* An answered call leaves none of its messages deferred: they are deleted, or the
\* one that was not found is not there.
LEMMA AnsweredIsNotDeferred ==
    ASSUME BrokerInv, RunInv, StateInv, QueueInv, ChunkInv, LockInv, CallSucceeds \/ CallFindsNone
    PROVE  \A q \in ToSet(calls[1]) : place'[q] # "deferred"
<1>0. pc = "call" /\ calls # <<>> /\ at \in Groups /\ Cuts(chunks, {q \in Cover(saved[at].ranges) : q >= nextSeq})
  BY DEF CallSucceeds, CallFindsNone, ChunkInv, RunInv, Committing
<1>1. ToSet(calls[1]) \subseteq Seqs /\ ToSet(calls[1]) \subseteq Asked(chunks)
  BY <1>0, FirstCall
<1>2. CASE CallSucceeds
  BY <1>1, <1>2 DEF CallSucceeds, Deletes, Gone
<1>3. CASE CallFindsNone
  <2>1. Len(calls[1]) = 1 /\ ~Available(calls[1]) /\ place' = place
    BY <1>3 DEF CallFindsNone, Keeps
  <2>2. \A q \in ToSet(calls[1]) : Stored(q)
    <3>1. Asked(chunks) \subseteq Cover(saved[at].ranges)
      BY <1>0, CutsQueue
    <3>. QED BY <1>0, <1>1, <3>1, GroupIsStored
  <2>3. \A q \in ToSet(calls[1]) : q \notin locked
    BY <2>2 DEF LockInv
  <2>4. \A q, k \in ToSet(calls[1]) : q = k
    <3>. DEFINE s == calls[1]
    <3>1. s \in Seq(Int) /\ Len(s) = 1
      BY <1>0, <2>1, QueueFacts DEF QueueInv
    <3>. HIDE DEF s
    <3>2. DOMAIN s = {1}
      BY <3>1
    <3>3. \A q, k \in ToSet(s) : q = k
      BY <3>2 DEF ToSet
    <3>. QED BY <3>3 DEF s
  <2>. QED BY <2>1, <2>3, <2>4 DEF Available
<1>. QED BY <1>2, <1>3

\* Once its first chunk is complete, nothing of the group up to the chunk's end is
\* deferred.
LEMMA ChunkIsDone ==
    ASSUME BrokerInv, RunInv, StateInv, QueueInv, ChunkInv, LockInv, H5,
           CallSucceeds \/ CallFindsNone, Len(calls) = 1
    PROVE  \A q \in Cover(saved[at].ranges) : q < Last(chunks[1]) + 1 => place'[q] # "deferred"
<1>. DEFINE C == Cover(saved[at].ranges)
            X == {q \in C : q >= nextSeq}
<1>0. /\ pc = "call" /\ calls # <<>> /\ at \in Groups /\ Cuts(chunks, X) /\ nextSeq \in Nat
      /\ \A q \in C : q < nextSeq => place[q] # "deferred"
      /\ \A q \in FirstOf(chunks) : q \in Asked(calls) \/ place[q] # "deferred"
  BY DEF CallSucceeds, CallFindsNone, ChunkInv, RunInv, Committing
<1>1. chunks # <<>> /\ FirstOf(chunks) = ToSet(chunks[1])
  BY <1>0, FirstCall
<1>2. C \subseteq Seqs
  BY <1>0, GroupIsStored
<1>3. \A q \in Seqs : place'[q] = "deferred" => place[q] = "deferred"
  BY CommitNeverDefers
<1>4. Asked(calls) = ToSet(calls[1])
  BY LastCall DEF QueueInv
<1>5. \A q \in Asked(calls) : place'[q] # "deferred"
  BY <1>4, AnsweredIsNotDeferred
<1>6. \A x \in X : x \in ToSet(chunks[1]) <=> x < Last(chunks[1]) + 1
  <2>. HIDE DEF X
  <2>. QED BY <1>0, <1>1, CutsTail
<1>7. \A q \in C : q \in Int
  <2>1. \A q \in Seqs : q \in Int
    BY CommitAssumption
  <2>. QED BY <1>2, <2>1
<1>. SUFFICES ASSUME NEW q \in C, q < Last(chunks[1]) + 1 PROVE place'[q] # "deferred"
  OBVIOUS
<1>8. CASE q \in X
  <2>1. q \in FirstOf(chunks)
    BY <1>1, <1>6, <1>8
  <2>. QED BY <1>0, <1>2, <1>3, <1>5, <2>1
<1>9. CASE q \notin X
  <2>1. q < nextSeq
    BY <1>0, <1>7, <1>9
  <2>. QED BY <1>0, <1>2, <1>3, <2>1
<1>. QED BY <1>8, <1>9

\* The progress of the commit through its group.
LEMMA ChunkStep ==
    ASSUME BrokerInv, RunInv, StateInv, QueueInv, ChunkInv, LockInv, [Next]_vars
    PROVE  ChunkInv'
<1>. DEFINE C == Cover(saved[at].ranges)
<1>1. CASE pc' \notin {"open", "call", "recover"}
  BY <1>1 DEF ChunkInv
<1>2. ASSUME \A q \in Seqs : place'[q] = "deferred" => place[q] = "deferred",
             UNCHANGED <<pc, nextSeq, chunks, calls, saved, at>>
      PROVE  ChunkInv'
  <2>1. pc = "call" => at \in Groups /\ C \subseteq Seqs
    BY GroupIsStored DEF RunInv, Committing
  <2>2. FirstOf(chunks) \subseteq Seqs
    <3>1. chunks # <<>> => FirstOf(chunks) \subseteq Seqs
      BY QueueTail DEF QueueInv
    <3>. QED BY <3>1 DEF FirstOf
  <2>3. UNCHANGED <<C, FirstOf(chunks), Asked(calls), Cuts(chunks, {q \in C : q >= nextSeq})>>
    BY <1>2
  <2>4. pc = "call" => \A q \in C : q < nextSeq => place'[q] # "deferred"
    BY <1>2, <2>1 DEF ChunkInv
  <2>5. pc = "call" => \A q \in FirstOf(chunks) : q \in Asked(calls) \/ place'[q] # "deferred"
    BY <1>2, <2>2 DEF ChunkInv
  <2>. QED BY <1>2, <2>3, <2>4, <2>5 DEF ChunkInv
<1>3. ASSUME NEW S, S \subseteq Groups, OnTo(S) PROVE ChunkInv'
  BY <1>3, OnToGroup DEF ChunkInv
<1>4. \A g : From(g) \subseteq Groups /\ {h \in From(g) : EntityOf[h] # EntityOf[at]} \subseteq Groups
  BY FromGroups
<1>5. CASE UNCHANGED vars
  BY <1>2, <1>5 DEF vars, broker, progress, call
<1>6. CASE Quiet
  BY <1>1, <1>6, QuietMoves
<1>7. CASE StartRun
  BY <1>3, <1>4, <1>7 DEF StartRun
<1>8. CASE ScanPage
  <2>1. CASE pc' = "scan"
    BY <1>1, <2>1
  <2>2. CASE pc' # "scan"
    <3>1. pc' = "recover" /\ chunks' # <<>>
      BY <1>8, <2>2 DEF ScanPage
    <3>. QED BY <3>1 DEF ChunkInv
  <2>. QED BY <2>1, <2>2
<1>9. CASE RecoverCall \/ RecoverCallNotFound \/ RecoverCallFails
  <2>1. pc = "recover" /\ chunks' = chunks /\ (pc' = "recover" \/ pc' = "failed")
    BY <1>9 DEF RecoverCall, RecoverCallNotFound, RecoverCallFails
  <2>. QED BY <2>1 DEF ChunkInv
<1>10. CASE RecoverChunk
  <2>1. CASE Len(chunks) = 1
    BY <1>1, <1>10, <2>1 DEF RecoverChunk
  <2>2. CASE Len(chunks) # 1
    <3>1. pc' = "recover" /\ chunks' = Tail(chunks) /\ chunks # <<>>
      BY <1>10, <2>2 DEF RecoverChunk, ChunkInv
    <3>2. Tail(chunks) # <<>>
      BY <2>2, <3>1, ChunkCompleted
    <3>. QED BY <3>1, <3>2 DEF ChunkInv
  <2>. QED BY <2>1, <2>2
<1>11. CASE Receive \/ JobSucceeds
  BY <1>1, <1>11 DEF Receive, JobSucceeds
<1>12. CASE \E q \in Seqs : LockLapses(q) \/ Expires(q)
  <2>1. UNCHANGED <<pc, nextSeq, chunks, calls, saved, at>>
    BY <1>12 DEF LockLapses, Expires, progress, call
  <2>. QED BY <1>2, <1>12, <2>1, CommitNeverDefers
<1>13. CASE H5
  <2>0. saved' = saved /\ \A q \in Seqs : place'[q] = "deferred" => place[q] = "deferred"
    BY <1>13, CommitFrame, CommitNeverDefers
  <2>1. CASE Opened
    <3>. DEFINE cs == Batched(IterRanges(saved[at].ranges), CommitChunkSize(saved[at].maxBody))
    <3>1. /\ pc = "open" /\ pc' = "call" /\ cs # <<>> /\ chunks' = cs /\ calls' = <<cs[1]>>
          /\ nextSeq' = nextSeq /\ at' = at
      BY <2>1 DEF Opened
    <3>2. at \in Groups /\ nextSeq = 0
      BY <3>1 DEF RunInv, Committing, ChunkInv
    <3>3. Cuts(cs, C)
      BY <3>2, GroupIsCut
    <3>4. C \subseteq Nat
      BY <3>2, GroupIsStored, CommitAssumption
    <3>. HIDE DEF cs
    <3>5. Asked(<<cs[1]>>) = FirstOf(cs) /\ <<cs[1]>> # <<>>
      BY <3>1, <3>3, CutsFirst
    <3>6. {q \in C : q >= 0} = C /\ \A q \in C : ~(q < 0)
      BY <3>4
    <3>7. C' = C
      BY <2>0, <3>1
    <3>. HIDE DEF C
    <3>8. {q \in C : q >= nextSeq}' = C
      BY <3>1, <3>2, <3>6, <3>7
    <3>. QED BY <3>1, <3>2, <3>3, <3>5, <3>6, <3>7, <3>8 DEF ChunkInv, C
  <2>2. CASE OpenedNone
    BY <1>3, <1>4, <2>2 DEF OpenedNone
  <2>3. CASE Retried
    BY <1>2, <2>0, <2>3 DEF Retried
  <2>4. CASE Stopped
    BY <1>1, <2>4 DEF Stopped
  <2>5. CASE CarriedOn \/ DroppedOn
    BY <1>3, <1>4, <2>5 DEF CarriedOn, DroppedOn
  <2>6. CASE CallBisects
    <3>1. /\ pc = "call" /\ calls # <<>> /\ Len(calls[1]) # 1 /\ calls' = Halves(calls[1]) \o Tail(calls)
          /\ UNCHANGED <<pc, at, nextSeq, chunks, place>>
      BY <2>6 DEF CallBisects, Bisected, ChunkInv, Keeps
    <3>2. Queue(Halves(calls[1]) \o Tail(calls)) /\ Asked(Halves(calls[1]) \o Tail(calls)) = Asked(calls)
      BY <3>1, QueueHalved DEF QueueInv
    <3>3. ToSet(calls[1]) # {} /\ ToSet(calls[1]) \subseteq Asked(calls)
      BY <3>1, FirstCall
    <3>4. calls' # <<>>
      BY <3>1, <3>2, <3>3, QueueNone
    <3>5. Asked(calls') = Asked(calls)
      BY <3>1, <3>2
    <3>. QED BY <2>0, <3>1, <3>4, <3>5 DEF ChunkInv
  <2>7. CASE CallSucceeds \/ CallFindsNone
    <3>1. PICK F, M : Answered(F, M)
      BY <2>7 DEF CallSucceeds, CallFindsNone
    <3>2. pc = "call" /\ calls # <<>> /\ at \in Groups
      BY <2>7 DEF CallSucceeds, CallFindsNone, ChunkInv, RunInv, Committing
    <3>3. CASE LastChunk(F, M)
      BY <1>3, <1>4, <3>3 DEF LastChunk
    <3>4. CASE NextCall(F, M)
      <4>1. Len(calls) # 1 /\ calls' = Tail(calls) /\ UNCHANGED <<pc, at, nextSeq, chunks>>
        BY <3>4 DEF NextCall
      <4>2. calls' # <<>>
        <5>1. Queue(calls) /\ Queue(Tail(calls)) /\ Len(Tail(calls)) = Len(calls) - 1
          BY <3>2, QueueTail DEF QueueInv
        <5>2. Len(calls) \in Nat /\ Len(calls) > 0
          BY <3>2, <5>1, QueueFacts
        <5>3. Tail(calls) # <<>> <=> Len(Tail(calls)) > 0
          BY <5>1, QueueFacts
        <5>. DEFINE n == Len(calls)
        <5>4. n \in Nat /\ n > 0 /\ n # 1 /\ Len(Tail(calls)) = n - 1
          BY <4>1, <5>1, <5>2
        <5>. HIDE DEF n
        <5>5. n - 1 > 0
          BY <5>4
        <5>. QED BY <4>1, <5>3, <5>4, <5>5
      <4>3. Asked(calls') = Asked(calls) \ ToSet(calls[1])
        BY <3>2, <4>1, FirstCall
      <4>4. \A q \in ToSet(calls[1]) : place'[q] # "deferred"
        BY <2>7, AnsweredIsNotDeferred
      <4>5. C \subseteq Seqs /\ FirstOf(chunks) \subseteq Seqs
        BY <3>2, GroupIsStored, FirstCall DEF QueueInv
      <4>6. \A q \in C : q < nextSeq => place'[q] # "deferred"
        BY <2>0, <3>2, <4>5 DEF ChunkInv
      <4>7. \A q \in FirstOf(chunks) : q \in Asked(calls') \/ place'[q] # "deferred"
        BY <2>0, <3>2, <4>3, <4>4, <4>5 DEF ChunkInv
      <4>. QED BY <2>0, <3>2, <4>1, <4>2, <4>6, <4>7 DEF ChunkInv
    <3>5. CASE NextChunk(F, M)
      <4>. DEFINE l == Last(chunks[1])
                  X == {q \in C : q >= nextSeq}
      <4>1. /\ Len(calls) = 1 /\ Len(chunks) # 1 /\ nextSeq' = l + 1 /\ chunks' = Tail(chunks)
            /\ calls' = <<chunks[2]>> /\ UNCHANGED <<pc, at>>
        BY <3>5 DEF NextChunk
      <4>2. \A q \in C : q < l + 1 => place'[q] # "deferred"
        BY <1>13, <2>7, <4>1, ChunkIsDone
      <4>3. chunks # <<>> /\ Cuts(chunks, X) /\ nextSeq \in Nat
        BY <3>2, FirstCall DEF ChunkInv, RunInv
      <4>4. Tail(chunks) # <<>> /\ Asked(calls') = FirstOf(chunks') /\ calls' # <<>>
        BY <4>1, <4>3, ChunkCompleted
      <4>5. l \in X /\ Cuts(Tail(chunks), {x \in X : x >= l + 1})
        <5>. HIDE DEF X
        <5>. QED BY <4>3, CutsTail
      <4>6. \A q \in C : q \in Int
        <5>1. \A q \in Seqs : q \in Int
          BY CommitAssumption
        <5>. QED BY <3>2, <5>1, GroupIsStored
      <4>7. {x \in X : x >= l + 1} = {q \in C : q >= l + 1}
        <5>1. l \in Int /\ l >= nextSeq
          BY <4>5, <4>6
        <5>2. \A q \in C : q >= l + 1 => q >= nextSeq
          BY <4>3, <4>6, <5>1
        <5>. QED BY <5>2
      <4>8. C' = C
        BY <2>0, <4>1
      <4>9. Cuts(chunks', {q \in C : q >= l + 1})
        BY <4>1, <4>5, <4>7
      <4>. HIDE DEF l, C
      <4>10. {q \in C : q >= nextSeq}' = {q \in C : q >= l + 1}
        BY <4>1, <4>8
      <4>. QED BY <3>2, <4>1, <4>2, <4>4, <4>8, <4>9, <4>10 DEF ChunkInv, C
    <3>. QED BY <3>1, <3>3, <3>4, <3>5 DEF Answered
  <2>. QED BY <1>13, <2>1, <2>2, <2>3, <2>4, <2>5, <2>6, <2>7, CommitMoves DEF OpenFails, CallFails
<1>. QED BY <1>5, <1>6, <1>7, <1>8, <1>9, <1>10, <1>11, <1>12, <1>13, Steps

\* Carried forward, or reported as stale.
Kept(q) == q \in Cover(carried[GroupOf[q]].ranges) \/ (~Own(q) /\ stats.droppedStale > 0)

\* What is still deferred of the groups that the commit is done with is kept.
DoneInv ==
    /\ Committing => \A q \in Seqs : Stored(q) /\ place[q] = "deferred" /\ GroupOf[q] < at => Kept(q)
    /\ AfterCommit => \A q \in Seqs : Stored(q) /\ place[q] = "deferred" => Kept(q) \/ q \in Drafted

\* On to the groups S, when what is deferred of the others is kept.
LEMMA OnToDone ==
    ASSUME NEW S, S \subseteq Groups, OnTo(S),
           \A q \in Seqs : Stored(q)' /\ place'[q] = "deferred" /\ GroupOf[q] \notin S => Kept(q)'
    PROVE  DoneInv'
<1>1. CASE S = {}
  <2>1. pc' = "committed"
    BY <1>1, OnToGroup
  <2>. QED BY <1>1, <2>1 DEF DoneInv, Committing
<1>2. CASE S # {}
  <2>1. pc' = "open" /\ at' \in Groups /\ \A h \in S : at' <= h
    BY <1>2, OnToGroup
  <2>2. \A g \in Groups : g < at' => g \notin S
    BY <2>1 DEF Groups
  <2>3. \A q \in Seqs : GroupOf[q] \in Groups
    BY CommitAssumption
  <2>. QED BY <2>1, <2>2, <2>3 DEF DoneInv, AfterCommit
<1>. QED BY <1>1, <1>2

\* The groups after g: every one that owns something.
LEMMA LaterGroups ==
    ASSUME NEW g \in Groups, NEW q \in Seqs, Stored(q), ~(GroupOf[q] < g), GroupOf[q] # g
    PROVE  GroupOf[q] \in From(g + 1)
<1>1. GroupOf[q] \in Groups /\ GroupOf[q] \in Nat /\ g \in Nat
  BY CommitAssumption DEF Groups
<1>2. GroupOf[q] >= g + 1
  BY <1>1
<1>3. saved[GroupOf[q]].ranges # <<>>
  <2>1. Cover(<<>>) = {}
    BY DEF Cover, ToSet
  <2>. QED BY <2>1 DEF Stored
<1>. QED BY <1>1, <1>2, <1>3 DEF From

\* What of the current group is still deferred lies in its tail.
LEMMA DeferredIsInTail ==
    ASSUME BrokerInv, RunInv, StateInv, ChunkInv, Committing, NEW q \in Seqs, Stored(q), GroupOf[q] = at,
           place[q] = "deferred"
    PROVE  q \in Cover(TailFrom(saved[at].ranges, nextSeq))
<1>1. at \in Groups /\ nextSeq \in Nat /\ saved[at].ranges \in Ranges
  BY DEF RunInv, StateInv
<1>2. q \in Cover(saved[at].ranges) /\ q \in Nat
  BY CommitAssumption DEF Stored
<1>3. ~(q < nextSeq)
  <2>1. CASE pc = "open"
    BY <1>2, <2>1 DEF ChunkInv
  <2>2. CASE pc = "call"
    BY <1>2, <2>2 DEF ChunkInv
  <2>. QED BY <2>1, <2>2 DEF Committing
<1>4. q >= nextSeq
  BY <1>1, <1>2, <1>3
<1>5. Cover(TailFrom(saved[at].ranges, nextSeq)) = {k \in Cover(saved[at].ranges) : k >= nextSeq}
  BY <1>1, TailCovers
<1>. QED BY <1>2, <1>4, <1>5

\* What the commit is done with, group by group.
LEMMA DoneInCommit ==
    ASSUME BrokerInv, RunInv, StateInv, QueueInv, ChunkInv, LockInv, DoneInv, H5
    PROVE  DoneInv'
<1>0. /\ saved' = saved /\ \A q \in Seqs : place'[q] = "deferred" => place[q] = "deferred"
      /\ \A q : Stored(q)' <=> Stored(q)
  BY CommitFrame, CommitNeverDefers DEF Stored
<1>1. Committing /\ at \in Groups
  BY CommitMoves DEF Opened, OpenedNone, OpenFails, CallSucceeds, CallFindsNone, CallBisects, CallFails,
                     RunInv, Committing
<1>2. \A q \in Seqs : Stored(q) /\ place'[q] = "deferred" /\ GroupOf[q] < at => Kept(q)
  BY <1>0, <1>1 DEF DoneInv
<1>3. stats.droppedStale \in Nat /\ stats'.droppedStale \in Nat /\ stats'.droppedStale >= stats.droppedStale
  <2>1. pc = "call" => calls # <<>>
    BY DEF ChunkInv
  <2>2. stats' \in [committed : Nat, alreadyGone : Nat, carriedForward : Nat, droppedStale : Nat]
        /\ stats'.droppedStale >= stats.droppedStale
    BY <2>1, StatsStep
  <2>. QED BY <2>2 DEF RunInv
<1>4. carried' = carried \/ CarryGroup
  BY CommitMoves DEF Opened, OpenedNone, OpenFails, CallSucceeds, CallFindsNone, CallBisects, CallFails, Retried,
                     Stopped, CarriedOn, DroppedOn, Answered
<1>5. ASSUME NEW q \in Seqs, GroupOf[q] # at, Kept(q) PROVE Kept(q)'
  <2>1. GroupOf[q] \in Groups /\ carried \in [Groups -> [ranges : Ranges, maxBody : Nat]]
    BY CommitAssumption DEF StateInv
  <2>2. carried'[GroupOf[q]] = carried[GroupOf[q]]
    BY <1>4, <1>5, <2>1 DEF CarryGroup
  <2>3. stats.droppedStale > 0 => stats'.droppedStale > 0
    BY <1>3
  <2>. QED BY <1>5, <2>2, <2>3 DEF Kept, Own
<1>6. \A q \in Seqs : Stored(q) /\ place'[q] = "deferred" /\ GroupOf[q] < at => Kept(q)'
  <2>1. \A q \in Seqs : GroupOf[q] < at => GroupOf[q] # at
    BY <1>1, CommitAssumption DEF Groups
  <2>. QED BY <1>2, <1>5, <2>1
<1>7. ASSUME \A q \in Seqs : Stored(q) /\ place'[q] = "deferred" /\ GroupOf[q] = at => Kept(q)', OnTo(From(at + 1))
      PROVE  DoneInv'
  <2>1. \A q \in Seqs : Stored(q) /\ GroupOf[q] \notin From(at + 1) => GroupOf[q] < at \/ GroupOf[q] = at
    BY <1>1, LaterGroups
  <2>2. \A q \in Seqs : Stored(q)' /\ place'[q] = "deferred" /\ GroupOf[q] \notin From(at + 1) => Kept(q)'
    BY <1>0, <1>6, <1>7, <2>1
  <2>. QED BY <1>7, <2>2, FromGroups, OnToDone
<1>8. CASE pc' \in {"open", "call"} /\ at' = at
  BY <1>0, <1>6, <1>8 DEF DoneInv, AfterCommit
<1>9. CASE Opened
  BY <1>8, <1>9 DEF Opened
<1>10. CASE OpenedNone
  <2>1. Batched(IterRanges(saved[at].ranges), CommitChunkSize(saved[at].maxBody)) = <<>> /\ OnTo(From(at + 1))
    BY <1>10 DEF OpenedNone
  <2>2. Cover(saved[at].ranges) = {}
    <3>. DEFINE cs == Batched(IterRanges(saved[at].ranges), CommitChunkSize(saved[at].maxBody))
    <3>1. Cuts(cs, Cover(saved[at].ranges)) /\ cs = <<>>
      BY <1>1, <2>1, GroupIsCut
    <3>. HIDE DEF cs
    <3>2. Asked(cs) = Cover(saved[at].ranges)
      BY <3>1, CutsQueue
    <3>. QED BY <3>1, <3>2, QueueNone
  <2>3. \A q \in Seqs : ~(Stored(q) /\ GroupOf[q] = at)
    BY <2>2 DEF Stored
  <2>. QED BY <1>7, <2>1, <2>3
<1>11. CASE Retried
  BY <1>1, <1>8, <1>11 DEF Retried, Committing
<1>12. CASE Stopped
  BY <1>12 DEF Stopped, DoneInv, Committing, AfterCommit
<1>13. CASE CarriedOn
  <2>1. CarryGroup /\ OnTo(From(at + 1))
    BY <1>13 DEF CarriedOn
  <2>2. ASSUME NEW q \in Seqs, Stored(q), place'[q] = "deferred", GroupOf[q] = at PROVE Kept(q)'
    <3>. DEFINE left == TailFrom(saved[at].ranges, nextSeq)
    <3>1. q \in Cover(left)
      BY <1>0, <1>1, <2>2, DeferredIsInTail
    <3>2. carried' = [carried EXCEPT ![at] = [saved[at] EXCEPT !.ranges = left]]
      BY <2>1 DEF CarryGroup
    <3>. HIDE DEF left
    <3>3. carried'[at].ranges = left
      BY <1>1, <3>2 DEF StateInv
    <3>. QED BY <2>2, <3>1, <3>3 DEF Kept
  <2>. QED BY <1>7, <2>1, <2>2
<1>14. CASE DroppedOn
  <2>. DEFINE S == {h \in From(at + 1) : EntityOf[h] # EntityOf[at]}
              D == {h \in From(at + 1) : EntityOf[h] = EntityOf[at]}
              c == CountRanges(TailFrom(saved[at].ranges, nextSeq))
  <2>1. EntityOf[at] # "own" /\ OnTo(S)
    BY <1>14 DEF DroppedOn
  <2>2. saved[at].ranges \in Ranges /\ nextSeq \in Int /\ \A g \in Groups : saved[g].ranges \in Ranges
    BY <1>1 DEF StateInv, RunInv
  <2>3. c \in Nat /\ (Cover(TailFrom(saved[at].ranges, nextSeq)) # {} => c > 0)
    BY <2>2, TailCovers, CountIsPositive
  <2>4. CountOf(D) \in Nat /\ \A g \in D : Cover(saved[g].ranges) # {} => CountOf(D) > 0
    BY <2>2, FromGroups, CountOfIsPositive
  <2>5. stats'.droppedStale = stats.droppedStale + c + CountOf(D)
    BY <1>14 DEF DroppedOn, DropStale, RunInv
  <2>. HIDE DEF c
  <2>6. c > 0 => stats'.droppedStale > 0
    BY <1>3, <2>3, <2>4, <2>5
  <2>7. CountOf(D) > 0 => stats'.droppedStale > 0
    BY <1>3, <2>3, <2>4, <2>5
  <2>8. ASSUME NEW q \in Seqs, Stored(q), place'[q] = "deferred", GroupOf[q] \notin S PROVE Kept(q)'
    <3>1. CASE GroupOf[q] < at
      BY <1>6, <2>8, <3>1
    <3>2. CASE GroupOf[q] = at
      <4>1. Cover(TailFrom(saved[at].ranges, nextSeq)) # {}
        BY <1>0, <1>1, <2>8, <3>2, DeferredIsInTail
      <4>2. ~Own(q)
        BY <2>1, <3>2 DEF Own
      <4>. QED BY <2>3, <2>6, <4>1, <4>2 DEF Kept, Own
    <3>3. CASE ~(GroupOf[q] < at) /\ GroupOf[q] # at
      <4>1. GroupOf[q] \in D
        BY <1>1, <2>8, <3>3, LaterGroups
      <4>2. Cover(saved[GroupOf[q]].ranges) # {}
        BY <2>8 DEF Stored
      <4>3. ~Own(q)
        BY <2>1, <4>1 DEF Own
      <4>. QED BY <2>4, <2>7, <4>1, <4>2, <4>3 DEF Kept, Own
    <3>. QED BY <3>1, <3>2, <3>3
  <2>9. S \subseteq Groups
    BY FromGroups
  <2>. HIDE DEF S
  <2>. QED BY <1>0, <2>1, <2>8, <2>9, OnToDone
<1>15. CASE CallBisects
  BY <1>1, <1>8, <1>15 DEF CallBisects, Bisected, Committing
<1>16. CASE CallSucceeds \/ CallFindsNone
  <2>1. PICK F, M : Answered(F, M)
    BY <1>16 DEF CallSucceeds, CallFindsNone
  <2>2. CASE NextCall(F, M) \/ NextChunk(F, M)
    BY <1>1, <1>8, <2>2 DEF NextCall, NextChunk, Committing
  <2>3. CASE LastChunk(F, M)
    <3>. DEFINE C == Cover(saved[at].ranges)
                X == {q \in C : q >= nextSeq}
                l == Last(chunks[1])
    <3>1. Len(calls) = 1 /\ Len(chunks) = 1 /\ OnTo(From(at + 1))
      BY <2>3 DEF LastChunk
    <3>2. \A q \in C : q < l + 1 => place'[q] # "deferred"
      BY <1>16, <3>1, ChunkIsDone
    <3>3. Cuts(chunks, X) /\ nextSeq \in Nat
      BY <1>16 DEF CallSucceeds, CallFindsNone, ChunkInv, RunInv
    <3>4. chunks # <<>> /\ Asked(chunks) = ToSet(chunks[1])
      BY <3>1, LastCall DEF QueueInv
    <3>5. \A q \in C : q \in Int
      <4>1. \A q \in Seqs : q \in Int
        BY CommitAssumption
      <4>. QED BY <1>1, <4>1, GroupIsStored
    <3>6. l \in X /\ \A x \in X : x < l + 1
      <4>1. Asked(chunks) = X
        BY <3>3, CutsQueue
      <4>. HIDE DEF X
      <4>2. l \in X /\ \A x \in X : x \in ToSet(chunks[1]) <=> x < l + 1
        BY <3>3, <3>4, CutsTail
      <4>. QED BY <3>4, <4>1, <4>2
    <3>7. \A q \in C : q < l + 1
      <4>1. l \in Int /\ l >= nextSeq
        BY <3>5, <3>6
      <4>. HIDE DEF l
      <4>2. ASSUME NEW q \in C PROVE q < l + 1
        <5>1. CASE q >= nextSeq
          BY <3>6, <5>1
        <5>2. CASE ~(q >= nextSeq)
          BY <3>3, <3>5, <4>1, <5>2
        <5>. QED BY <5>1, <5>2
      <4>. QED BY <4>2
    <3>8. \A q \in Seqs : ~(Stored(q) /\ place'[q] = "deferred" /\ GroupOf[q] = at)
      BY <3>2, <3>7 DEF Stored
    <3>. QED BY <1>7, <3>1, <3>8
  <2>. QED BY <2>1, <2>2, <2>3 DEF Answered
<1>. QED BY <1>9, <1>10, <1>11, <1>12, <1>13, <1>14, <1>15, <1>16, CommitMoves DEF OpenFails, CallFails

\* What a draft holds once messages are added to it.
LEMMA DraftedAdds ==
    ASSUME StateInv, NEW S, S \subseteq Seqs, draft' = Drafting(S)
    PROVE  Drafted' = Drafted \cup S
<1>1. \A g \in Groups : draft'[g].seqs = draft[g].seqs \cup {q \in S : GroupOf[q] = g}
  BY DraftingAdds
<1>2. \A q \in S : GroupOf[q] \in Groups
  BY CommitAssumption
<1>3. \A q : q \in Drafted' <=> \E g \in Groups : q \in draft'[g].seqs
  BY DEF Drafted
<1>4. \A q : q \in Drafted <=> \E g \in Groups : q \in draft[g].seqs
  BY DEF Drafted
<1>5. \A q : q \in Drafted' <=> q \in Drafted \cup S
  BY <1>1, <1>2, <1>3, <1>4
<1>. QED BY <1>5

\* The rest of the run.
LEMMA DoneStep ==
    ASSUME BrokerInv, RunInv, StateInv, QueueInv, ChunkInv, LockInv, DoneInv, [Next]_vars
    PROVE  DoneInv'
<1>1. CASE pc' \in {"idle", "failed"}
  BY <1>1 DEF DoneInv, Committing, AfterCommit
<1>2. ASSUME AfterCommit, AfterCommit', UNCHANGED <<saved, carried, stats>>, Drafted \subseteq Drafted',
             \A q \in Seqs : place'[q] = "deferred" => place[q] = "deferred" \/ q \in Drafted'
      PROVE  DoneInv'
  <2>1. \A q \in Seqs : (Stored(q)' <=> Stored(q)) /\ (Kept(q)' <=> Kept(q))
    BY <1>2 DEF Stored, Kept, Own
  <2>2. ~Committing'
    BY <1>2 DEF AfterCommit, Committing
  <2>. QED BY <1>2, <2>1, <2>2 DEF DoneInv
<1>3. ASSUME UNCHANGED <<pc, at, saved, carried, stats, draft>>,
             \A q \in Seqs : place'[q] = "deferred" => place[q] = "deferred"
      PROVE  DoneInv'
  <2>1. \A q \in Seqs : (Stored(q)' <=> Stored(q)) /\ (Kept(q)' <=> Kept(q)) /\ Drafted' = Drafted
    BY <1>3 DEF Stored, Kept, Own, Drafted
  <2>2. (Committing' <=> Committing) /\ (AfterCommit' <=> AfterCommit)
    BY <1>3 DEF Committing, AfterCommit
  <2>. QED BY <1>3, <2>1, <2>2 DEF DoneInv
<1>4. CASE UNCHANGED vars
  BY <1>3, <1>4 DEF vars, broker, progress, outcome, results
<1>5. CASE Quiet
  <2>1. UNCHANGED <<place, saved, carried, stats, draft>>
    BY <1>5, QuietSteps
  <2>2. CASE AfterCommit /\ AfterCommit'
    <3>1. Drafted' = Drafted
      BY <2>1 DEF Drafted
    <3>. QED BY <1>2, <2>1, <2>2, <3>1
  <2>3. pc' \in {"idle", "failed"} \/ (AfterCommit /\ AfterCommit')
    BY <1>5, QuietMoves DEF AfterCommit
  <2>. QED BY <1>1, <2>2, <2>3
<1>6. CASE StartRun
  <2>1. OnTo(From(1)) /\ saved' = saved
    BY <1>6 DEF StartRun
  <2>2. \A q \in Seqs : Stored(q)' => GroupOf[q] \in From(1)
    <3>1. \A q \in Seqs : GroupOf[q] \in Groups /\ GroupOf[q] >= 1
      BY CommitAssumption DEF Groups
    <3>2. Cover(<<>>) = {}
      BY DEF Cover, ToSet
    <3>. QED BY <2>1, <3>1, <3>2 DEF Stored, From
  <2>. QED BY <2>1, <2>2, FromGroups, OnToDone
<1>7. CASE H5
  BY <1>7, DoneInCommit
<1>8. CASE ScanPage \/ RecoverCall \/ RecoverCallNotFound \/ RecoverCallFails
  <2>1. pc \in {"scan", "recover"} /\ pc' \in {"scan", "recover", "failed"}
    BY <1>8 DEF ScanPage, RecoverCall, RecoverCallNotFound, RecoverCallFails
  <2>2. UNCHANGED <<place, saved, carried, stats, draft>>
    BY <1>8 DEF ScanPage, RecoverCall, RecoverCallNotFound, RecoverCallFails, Locks, broker, outcome, results
  <2>3. Drafted' = Drafted
    BY <2>2 DEF Drafted
  <2>. QED BY <1>1, <1>2, <2>1, <2>2, <2>3 DEF AfterCommit
<1>9. CASE RecoverChunk
  <2>1. pc = "recover" /\ pc' \in {"scan", "recover"} /\ UNCHANGED <<saved, carried, stats>> /\ draft' = Drafting(found \ Bad)
    BY <1>9 DEF RecoverChunk, OrphansProcessed, outcome
  <2>2. found \subseteq Seqs
    <3>1. chunks # <<>>
      BY <2>1 DEF ChunkInv
    <3>. QED BY <3>1, QueueTail DEF QueueInv
  <2>3. Drafted \subseteq Drafted'
    BY <2>1, <2>2, DraftedAdds
  <2>4. \A q \in Seqs : place'[q] = "deferred" => place[q] = "deferred"
    BY <1>9 DEF RecoverChunk, OrphansProcessed
  <2>. QED BY <1>2, <2>1, <2>3, <2>4 DEF AfterCommit
<1>10. CASE Receive
  <2>1. PICK S \in SUBSET {q \in Seqs : Own(q) /\ place[q] = "fresh"} :
            place' = [q \in Seqs |-> IF q \in S THEN "deferred" ELSE place[q]] /\ draft' = Drafting(S)
    BY <1>10 DEF Receive
  <2>2. pc = "receive" /\ pc' = "finish" /\ UNCHANGED <<saved, carried, stats>>
    BY <1>10 DEF Receive, outcome
  <2>3. Drafted' = Drafted \cup S
    BY <2>1, DraftedAdds
  <2>4. \A q \in Seqs : place'[q] = "deferred" => place[q] = "deferred" \/ q \in Drafted'
    BY <2>1, <2>3
  <2>. QED BY <1>2, <2>2, <2>3, <2>4 DEF AfterCommit
<1>11. CASE JobSucceeds
  BY <1>1, <1>11 DEF JobSucceeds
<1>12. CASE \E q \in Seqs : LockLapses(q) \/ Expires(q)
  <2>1. UNCHANGED <<pc, at, saved, carried, stats, draft>>
    BY <1>12 DEF LockLapses, Expires, progress, outcome, results
  <2>. QED BY <1>3, <1>12, <2>1, CommitNeverDefers
<1>. QED BY <1>4, <1>5, <1>6, <1>7, <1>8, <1>9, <1>10, <1>11, <1>12, Steps

\* The scan recovers what it has shown, and nothing twice.
ScanInv ==
    /\ pc \in {"open", "call", "committed"} => Drafted = {} /\ shown = {}
    /\ pc \in {"scan", "recover"} =>
          /\ ~row.sessionEnabled /\ Drafted \subseteq shown
          /\ ~partitioned => \A q \in shown : q < next
    /\ pc = "recover" => \A q \in Asked(chunks) : Own(q) /\ q \in shown /\ q \notin Drafted

\* A page, and what the scan makes of it.
PageRead(P) ==
    LET orphans == {q \in Reached(P) : place[q] = "deferred" /\ dc[q] < GuardThreshold}
        todo == RecoveryCalls(orphans)
    IN  /\ P \subseteq Ahead /\ P # {} /\ IsPage(P) /\ pages < PageCap
        /\ guarded' = guarded \cup (Deferrals(Reached(P)) \ orphans)
        /\ partitioned' = (partitioned \/ \E q \in Reached(P) : Reveals(q))
        /\ warnings' \subseteq warnings \cup {"best_effort"}
        /\ consecutive' = IF Stops(P) # {} THEN K ELSE ConsecutiveAt(P, Max(P) + 1)
        /\ stopped' = (Stops(P) # {})
        /\ next' = Max(P) + 1 /\ shown' = shown \cup P /\ pages' = pages + 1
        /\ IF todo = <<>> THEN UNCHANGED <<pc, call>>
           ELSE /\ pc' = "recover" /\ chunks' = todo /\ calls' = <<todo[1]>>
                /\ tries' = 0 /\ found' = {} /\ missing' = {} /\ UNCHANGED sessionRetry

\* Every page of the scan is read like this.
LEMMA PageStep ==
    ASSUME ScanPage
    PROVE  \E P \in SUBSET Seqs : PageRead(P)
<1>1. PICK P \in SUBSET Ahead :
          LET orphans == {q \in Reached(P) : place[q] = "deferred" /\ dc[q] < GuardThreshold}
              todo == RecoveryCalls(orphans)
          IN  /\ IsPage(P)
              /\ guarded' = guarded \cup (Deferrals(Reached(P)) \ orphans)
              /\ partitioned' = (partitioned \/ \E q \in Reached(P) : Reveals(q))
              /\ warnings' = IF \E q \in Reached(P) \ Deferrals(P) : BestEffort(P, q)
                             THEN BestEffortWarned \cup {"best_effort"} ELSE BestEffortWarned
              /\ consecutive' = IF Stops(P) # {} THEN K ELSE ConsecutiveAt(P, Max(P) + 1)
              /\ stopped' = (Stops(P) # {})
              /\ next' = Max(P) + 1 /\ shown' = shown \cup P /\ pages' = pages + 1
              /\ IF todo = <<>> THEN UNCHANGED <<pc, call>>
                 ELSE /\ pc' = "recover" /\ chunks' = todo /\ calls' = <<todo[1]>>
                      /\ tries' = 0 /\ found' = {} /\ missing' = {} /\ UNCHANGED sessionRetry
  BY DEF ScanPage
<1>2. pages < PageCap /\ Ahead # {}
  BY DEF ScanPage
<1>3. P # {}
  BY <1>1, <1>2 DEF IsPage
<1>4. warnings' \subseteq warnings \cup {"best_effort"}
  BY <1>1 DEF BestEffortWarned
<1>5. P \in SUBSET Seqs
  BY <1>1 DEF Ahead, Present
<1>. QED BY <1>1, <1>2, <1>3, <1>4, <1>5 DEF PageRead

\* The greatest message of a page.
LEMMA PageEnd ==
    ASSUME NEW P \in SUBSET Seqs, P # {}
    PROVE  Max(P) \in P /\ Max(P) \in Nat \ {0} /\ \A q \in P : q \in Nat /\ q <= Max(P)
<1>1. P \subseteq Nat /\ \A q \in P : q \in Nat \ {0}
  BY CommitAssumption
<1>2. IsFiniteSet(P)
  BY CommitAssumption, FS_Subset
<1>. QED BY <1>1, <1>2, GreatestNumber

\* The K rule: unless the scan stops, fewer than K consecutive messages qualified.
LEMMA ConsecutiveIsBounded ==
    ASSUME NEW P \in SUBSET Seqs, P # {}, consecutive \in 0..K, Stops(P) = {}
    PROVE  ConsecutiveAt(P, Max(P) + 1) \in 0..K
<1>. DEFINE end == Max(P) + 1
            since == {d \in Deferrals(P) : d < end}
            run == {k \in P : k <= end /\ Qualifies(P, k) /\ \A d \in since : d < k}
<1>1. \A q \in P : q \in Nat /\ q <= Max(P)
  BY PageEnd
<1>2. Max(P) \in Nat /\ K \in Nat
  BY PageEnd, RowsAssumption
<1>3. IsFiniteSet(P)
  BY CommitAssumption, FS_Subset
<1>4. ConsecutiveAt(P, end) = Cardinality(run) + (IF since = {} THEN consecutive ELSE 0)
  BY DEF ConsecutiveAt
<1>5. IsFiniteSet(run) /\ Cardinality(run) \in Nat
  BY <1>3, FS_Subset, FS_CardinalityType
<1>6. since \subseteq P /\ \A d \in since : d \in Nat
  BY <1>1 DEF Deferrals
<1>7. CASE run = {}
  <2>1. Cardinality(run) = 0
    BY <1>7, FS_EmptySet
  <2>. HIDE DEF run, since, end
  <2>2. ConsecutiveAt(P, end) \in 0..K
    BY <1>2, <1>4, <2>1
  <2>. QED BY <2>2 DEF end
<1>8. CASE run # {}
  <2>. DEFINE m == Max(run)
  <2>1. run \subseteq Nat
    BY <1>1
  <2>2. m \in run /\ \A k \in run : k <= m
    BY <1>5, <1>8, <2>1, GreatestNumber
  <2>. HIDE DEF m
  <2>3. m \in P /\ Qualifies(P, m) /\ (\A d \in since : d < m) /\ m \in Nat
    BY <1>1, <2>2
  <2>4. {d \in Deferrals(P) : d < m} = since
    <3>1. \A d \in Deferrals(P) : d < m => d < end
      BY <1>1, <1>2, <2>3 DEF Deferrals
    <3>2. \A d \in since : d \in Deferrals(P) /\ d < m
      BY <2>3
    <3>. QED BY <3>1, <3>2
  <2>5. {k \in P : k <= m /\ Qualifies(P, k) /\ \A d \in since : d < k} = run
    <3>1. \A k \in P : k <= m => k <= end
      BY <1>1, <1>2
    <3>2. \A k \in run : k <= m
      BY <2>2
    <3>. QED BY <3>1, <3>2
  <2>6. ConsecutiveAt(P, m) = Cardinality(run) + (IF since = {} THEN consecutive ELSE 0)
    <3>1. ConsecutiveAt(P, m) = Cardinality({k \in P : k <= m /\ Qualifies(P, k) /\ \A d \in {e \in Deferrals(P) : e < m} : d < k})
              + (IF {e \in Deferrals(P) : e < m} = {} THEN consecutive ELSE 0)
      BY DEF ConsecutiveAt
    <3>. HIDE DEF since, run
    <3>. QED BY <2>4, <2>5, <3>1
  <2>7. ~(ConsecutiveAt(P, m) >= K)
    BY <2>3 DEF Stops
  <2>. DEFINE c == ConsecutiveAt(P, end)
  <2>8. ConsecutiveAt(P, m) = c
    BY <1>4, <2>6
  <2>9. c \in Nat
    <3>1. (IF since = {} THEN consecutive ELSE 0) \in Nat
      OBVIOUS
    <3>. HIDE DEF since, run, end
    <3>. QED BY <1>4, <1>5, <3>1
  <2>10. ~(c >= K)
    BY <2>7, <2>8
  <2>. HIDE DEF c
  <2>11. c \in 0..K
    BY <1>2, <2>9, <2>10
  <2>. QED BY <2>11 DEF c
<1>. QED BY <1>7, <1>8

\* The types of the scan, and of the history.
LEMMA ScanTypesStep ==
    ASSUME RunInv, QueueInv, ChunkInv, ScanTypes, [Next]_vars
    PROVE  ScanTypes'
<1>. DEFINE Kinds == {"sessions", "best_effort", "incomplete", "foreign"}
<1>0. PageCap \in Nat /\ K \in Nat
  BY RowsAssumption
<1>1. CASE UNCHANGED <<partitioned, next, shown, pages, consecutive, stopped, guarded, warnings, deleted, lost, unfound>>
  BY <1>1 DEF ScanTypes
<1>2. CASE UNCHANGED vars \/ RecoverCall \/ RecoverChunk \/ Receive \/ JobSucceeds
           \/ \E q \in Seqs : LockLapses(q) \/ Expires(q)
  <2>1. CASE UNCHANGED vars
    BY <1>1, <2>1 DEF vars, scanVars, results, history
  <2>2. CASE RecoverCall \/ RecoverChunk \/ Receive \/ JobSucceeds \/ \E q \in Seqs : LockLapses(q) \/ Expires(q)
    BY <1>1, <2>2 DEF RecoverCall, RecoverChunk, Receive, JobSucceeds, LockLapses, Expires, scanVars, results, history
  <2>. QED BY <1>2, <2>1, <2>2
<1>3. CASE Quiet
  <2>1. UNCHANGED <<partitioned, next, shown, pages, consecutive, stopped, guarded, deleted, lost, unfound>>
    BY <1>3, QuietSteps
  <2>2. warnings' \subseteq Kinds
    <3>1. warnings \subseteq Kinds
      BY DEF ScanTypes
    <3>. USE DEF results
    <3>2. CASE ScanFails
      BY <3>1, <3>2 DEF ScanFails
    <3>3. CASE StartScan
      BY <3>1, <3>3 DEF StartScan
    <3>4. CASE JobFails
      BY <3>1, <3>4 DEF JobFails
    <3>5. CASE NoScanOfSessions
      BY <3>5 DEF NoScanOfSessions
    <3>6. CASE Probe
      BY <3>6 DEF Probe
    <3>7. CASE ScanDone
      BY <3>1, <3>7 DEF ScanDone, BestEffortWarned
    <3>. QED BY <1>3, <3>2, <3>3, <3>4, <3>5, <3>6, <3>7 DEF Quiet
  <2>. QED BY <2>1, <2>2 DEF ScanTypes
<1>4. CASE StartRun
  <2>1. /\ partitioned' \in BOOLEAN /\ next' = 1 /\ shown' = {} /\ pages' = 0 /\ consecutive' = 0 /\ stopped' = FALSE
        /\ guarded' = {} /\ warnings' = {} /\ unfound' = {} /\ UNCHANGED <<deleted, lost>>
    BY <1>4 DEF StartRun, history
  <2>2. 0 \in 0..PageCap /\ 0 \in 0..K /\ 1 \in Nat \ {0}
    BY <1>0
  <2>. QED BY <2>1, <2>2 DEF ScanTypes
<1>5. CASE H5
  <2>1. UNCHANGED <<partitioned, next, shown, pages, consecutive, stopped, guarded, warnings, lost, unfound>>
    BY <1>5, CommitFrame
  <2>2. deleted' = deleted \/ (pc = "call" /\ deleted' = deleted \cup ToSet(calls[1]))
    BY <1>5, CommitMoves DEF Opened, OpenedNone, OpenFails, CallSucceeds, CallFindsNone, CallBisects, CallFails, Keeps, Deletes
  <2>3. pc = "call" => ToSet(calls[1]) \subseteq Seqs
    BY FirstCall DEF ChunkInv
  <2>. QED BY <2>1, <2>2, <2>3 DEF ScanTypes
<1>6. CASE RecoverCallFails
  <2>1. UNCHANGED <<partitioned, next, shown, pages, consecutive, stopped, guarded, warnings, deleted, unfound>>
    BY <1>6 DEF RecoverCallFails, scanVars, results, history
  <2>2. calls # <<>> /\ (lost' = lost \/ lost' = lost \cup ToSet(calls[1]))
    BY <1>6 DEF RecoverCallFails
  <2>3. ToSet(calls[1]) \subseteq Seqs
    BY <2>2, FirstCall
  <2>. QED BY <2>1, <2>2, <2>3 DEF ScanTypes
<1>7. CASE RecoverCallNotFound
  <2>1. UNCHANGED <<partitioned, next, shown, pages, consecutive, stopped, guarded, warnings, deleted, lost>>
    BY <1>7 DEF RecoverCallNotFound, scanVars, results, history
  <2>2. calls # <<>> /\ (unfound' = unfound \/ unfound' = unfound \cup ToSet(calls[1]))
    BY <1>7 DEF RecoverCallNotFound
  <2>3. ToSet(calls[1]) \subseteq Seqs
    BY <2>2, FirstCall
  <2>. QED BY <2>1, <2>2, <2>3 DEF ScanTypes
<1>8. CASE ScanPage
  <2>1. PICK P \in SUBSET Seqs : PageRead(P)
    BY <1>8, PageStep
  <2>2. UNCHANGED <<deleted, lost, unfound>>
    BY <1>8 DEF ScanPage, history
  <2>3. P # {} /\ next' = Max(P) + 1 /\ shown' = shown \cup P /\ pages < PageCap /\ pages' = pages + 1
        /\ warnings' \subseteq warnings \cup {"best_effort"}
    BY <2>1 DEF PageRead
  <2>9. stopped' \in BOOLEAN /\ partitioned' \in BOOLEAN
    <3>1. stopped' = (Stops(P) # {}) /\ partitioned' = (partitioned \/ \E q \in Reached(P) : Reveals(q))
      BY <2>1, Zenon DEF PageRead
    <3>. QED BY <3>1, Zenon
  <2>10. (Stops(P) # {} => consecutive' = K) /\ (Stops(P) = {} => consecutive' = ConsecutiveAt(P, Max(P) + 1))
    BY <2>1 DEF PageRead
  <2>4. next' \in Nat \ {0}
    BY <2>3, PageEnd
  <2>5. pages' \in 0..PageCap
    BY <1>0, <2>3 DEF ScanTypes
  <2>6. consecutive' \in 0..K
    <3>1. CASE Stops(P) # {}
      <4>1. K \in 0..K
        BY <1>0
      <4>. QED BY <2>10, <3>1, <4>1
    <3>2. CASE Stops(P) = {}
      <4>1. consecutive \in 0..K
        BY DEF ScanTypes
      <4>2. ConsecutiveAt(P, Max(P) + 1) \in 0..K
        BY <2>3, <3>2, <4>1, ConsecutiveIsBounded
      <4>. QED BY <2>10, <3>2, <4>2
    <3>. QED BY <3>1, <3>2
  <2>7. guarded' \subseteq Seqs
    <3>1. Deferrals(Reached(P)) \subseteq Seqs
      BY DEF Deferrals, Reached
    <3>. QED BY <2>1, <3>1 DEF PageRead, ScanTypes
  <2>8. shown' \subseteq Seqs /\ warnings' \subseteq Kinds
    BY <2>3 DEF ScanTypes
  <2>11. (deleted \subseteq Seqs /\ lost \subseteq Seqs /\ unfound \subseteq Seqs)'
    BY <2>2 DEF ScanTypes
  <2>. QED BY <2>4, <2>5, <2>6, <2>7, <2>8, <2>9, <2>11 DEF ScanTypes
<1>. QED BY <1>2, <1>3, <1>4, <1>5, <1>6, <1>7, <1>8, Steps

\* What the scan has shown and drafted.
LEMMA ScanStep ==
    ASSUME RunInv, StateInv, QueueInv, ChunkInv, ScanTypes, ScanInv, [Next]_vars
    PROVE  ScanInv'
<1>0. row' = row
  BY RunStep DEF ChunkInv
<1>1. CASE pc' \in {"idle", "failed", "receive", "finish"}
  BY <1>1 DEF ScanInv
<1>2. ASSUME UNCHANGED <<pc, draft, shown, partitioned, next, chunks>> PROVE ScanInv'
  <2>1. Drafted' = Drafted /\ Asked(chunks') = Asked(chunks)
    BY <1>2 DEF Drafted
  <2>. QED BY <1>0, <1>2, <2>1 DEF ScanInv, Own
<1>3. CASE UNCHANGED vars
  BY <1>2, <1>3 DEF vars, results, scanVars, call
<1>4. CASE \E q \in Seqs : LockLapses(q) \/ Expires(q)
  BY <1>2, <1>4 DEF LockLapses, Expires, results, scanVars, call
<1>5. CASE RecoverCall \/ RecoverCallNotFound \/ RecoverCallFails
  <2>1. UNCHANGED <<draft, shown, partitioned, next, chunks>> /\ (pc' = pc \/ pc' = "failed")
    BY <1>5 DEF RecoverCall, RecoverCallNotFound, RecoverCallFails, results, scanVars
  <2>. QED BY <1>1, <1>2, <2>1
<1>6. CASE Receive \/ JobSucceeds
  BY <1>1, <1>6 DEF Receive, JobSucceeds
<1>7. CASE Quiet
  <2>1. UNCHANGED <<draft, shown, partitioned, next, chunks>>
    BY <1>7, QuietSteps
  <2>2. CASE pc = "committed" /\ pc' = "scan" /\ ~row.sessionEnabled
    <3>1. Drafted' = {} /\ shown' = {}
      BY <2>1, <2>2 DEF Drafted, ScanInv
    <3>. QED BY <1>0, <2>2, <3>1 DEF ScanInv
  <2>. QED BY <1>1, <1>7, <2>2, QuietMoves
<1>8. CASE StartRun
  <2>1. draft' = NoDraft /\ shown' = {} /\ pc' \in {"open", "committed"}
    BY <1>8 DEF StartRun, OnTo
  <2>2. Drafted' = {}
    BY <2>1 DEF Drafted, NoDraft
  <2>. QED BY <2>1, <2>2 DEF ScanInv
<1>9. CASE H5
  <2>1. UNCHANGED <<draft, shown>>
    BY <1>9, CommitFrame
  <2>2. pc \in {"open", "call"} /\ pc' \in {"open", "call", "committed", "failed"}
    <3>1. ASSUME NEW S, OnTo(S) PROVE pc' \in {"open", "committed"}
      BY <3>1 DEF OnTo
    <3>2. pc \in {"open", "call"}
      BY <1>9, CommitMoves DEF Opened, OpenedNone, OpenFails, CallSucceeds, CallFindsNone, CallBisects, CallFails
    <3>3. pc' = pc \/ pc' \in {"open", "committed", "failed", "call"}
      BY <1>9, <3>1, CommitMoves DEF Opened, OpenedNone, OpenFails, CallSucceeds, CallFindsNone, CallBisects, CallFails,
          Answered, NextCall, NextChunk, LastChunk, Bisected, Retried, Stopped, CarriedOn, DroppedOn
    <3>. QED BY <3>2, <3>3
  <2>3. Drafted' = {} /\ shown' = {}
    BY <2>1, <2>2 DEF Drafted, ScanInv
  <2>. QED BY <2>2, <2>3 DEF ScanInv
<1>10. CASE ScanPage
  <2>1. PICK P \in SUBSET Seqs : PageRead(P)
    BY <1>10, PageStep
  <2>2. pc = "scan" /\ draft' = draft
    BY <1>10 DEF ScanPage
  <2>3. ~row.sessionEnabled /\ Drafted \subseteq shown /\ (~partitioned => \A q \in shown : q < next)
    BY <2>2 DEF ScanInv
  <2>4. P \subseteq Ahead /\ P # {} /\ next' = Max(P) + 1 /\ shown' = shown \cup P
        /\ (~partitioned' => ~partitioned)
    BY <2>1 DEF PageRead
  <2>5. Drafted' = Drafted
    BY <2>2 DEF Drafted
  <2>6. Max(P) \in Nat /\ \A q \in P : q \in Nat /\ q <= Max(P)
    BY <2>4, PageEnd
  <2>7. shown \subseteq Seqs /\ next \in Nat
    BY DEF ScanTypes
  <2>8. ASSUME ~partitioned PROVE \A q \in shown' : q < next'
    <3>1. \A q \in P : q >= next
      BY <2>4, <2>8 DEF Ahead
    <3>2. next <= Max(P)
      <4>1. PICK q \in P : TRUE
        BY <2>4
      <4>. QED BY <2>6, <2>7, <3>1, <4>1
    <3>3. \A q \in shown : q < Max(P) + 1
      <4>1. \A q \in shown : q \in Nat /\ q < next
        BY <2>3, <2>7, <2>8, CommitAssumption
      <4>. QED BY <2>6, <2>7, <3>2, <4>1
    <3>4. \A q \in P : q < Max(P) + 1
      BY <2>6
    <3>. QED BY <2>4, <3>3, <3>4
  <2>9. \A q \in P : q \notin shown /\ Own(q)
    <3>1. CASE partitioned
      BY <2>4, <3>1 DEF Ahead, Present
    <3>2. CASE ~partitioned
      <4>1. \A q \in P : q \in Nat /\ q >= next /\ Own(q)
        BY <2>4, <2>6, <3>2 DEF Ahead, Present
      <4>2. \A q \in P : ~(q < next)
        BY <2>7, <4>1
      <4>. QED BY <2>3, <3>2, <4>1, <4>2
    <3>. QED BY <3>1, <3>2
  <2>10. CASE pc' = "scan"
    BY <1>0, <2>3, <2>4, <2>5, <2>8, <2>10 DEF ScanInv
  <2>11. CASE pc' # "scan"
    <3>. DEFINE O == {q \in Reached(P) : place[q] = "deferred" /\ dc[q] < GuardThreshold}
    <3>1. pc' = "recover" /\ chunks' = RecoveryCalls(O)
      BY <2>1, <2>2, <2>11 DEF PageRead
    <3>2. O \subseteq P
      BY DEF Reached
    <3>. HIDE DEF O
    <3>3. Asked(chunks') = O
      BY <3>1, <3>2, RecoveryCallsQueue
    <3>4. \A q \in Asked(chunks') : Own(q) /\ q \in shown' /\ q \notin Drafted'
      BY <2>3, <2>4, <2>5, <2>9, <3>2, <3>3
    <3>. QED BY <1>0, <2>3, <2>4, <2>5, <2>8, <3>1, <3>4 DEF ScanInv, Own
  <2>. QED BY <2>10, <2>11
<1>11. CASE RecoverChunk
  <2>1. pc = "recover" /\ pc' \in {"scan", "recover"} /\ UNCHANGED <<shown, partitioned, next>>
        /\ draft' = Drafting(found \ Bad) /\ chunks' = Tail(chunks)
    BY <1>11 DEF RecoverChunk, OrphansProcessed, scanVars
  <2>2. chunks # <<>> /\ ~row.sessionEnabled /\ Drafted \subseteq shown /\ (~partitioned => \A q \in shown : q < next)
        /\ \A q \in Asked(chunks) : Own(q) /\ q \in shown /\ q \notin Drafted
    BY <2>1 DEF ScanInv, ChunkInv
  <2>3. FirstOf(chunks) \subseteq Asked(chunks) /\ Asked(chunks') = Asked(chunks) \ FirstOf(chunks)
    BY <2>1, <2>2, QueueTail, ChunkCompleted DEF QueueInv
  <2>4. found \subseteq FirstOf(chunks) /\ Asked(chunks) \subseteq Seqs
    BY DEF QueueInv
  <2>5. Drafted' = Drafted \cup (found \ Bad)
    BY <2>1, <2>3, <2>4, DraftedAdds
  <2>6. Drafted' \subseteq shown' /\ \A q \in Asked(chunks') : Own(q) /\ q \in shown' /\ q \notin Drafted'
    BY <2>1, <2>2, <2>3, <2>4, <2>5
  <2>. QED BY <1>0, <2>1, <2>2, <2>6 DEF ScanInv, Own
<1>. QED BY <1>3, <1>4, <1>5, <1>6, <1>7, <1>8, <1>9, <1>10, <1>11, Steps

\* A recovery call never locks what the state owns: the configured entity has no
\* sessions then, so the commit carried nothing of it.
LEMMA RecoveredIsNotStored ==
    ASSUME RunInv, StateInv, QueueInv, DoneInv, ScanInv, pc = "recover", calls # <<>>, Available(calls[1])
    PROVE  \A q \in ToSet(calls[1]) : q \in Seqs /\ place[q] = "deferred" /\ ~Stored(q) /\ q \notin Drafted
<1>. SUFFICES ASSUME NEW q \in ToSet(calls[1])
              PROVE  q \in Seqs /\ place[q] = "deferred" /\ ~Stored(q) /\ q \notin Drafted
  OBVIOUS
<1>1. q \in Seqs /\ q \in Asked(chunks)
  BY FirstCall
<1>2. place[q] = "deferred"
  BY DEF Available
<1>3. Own(q) /\ q \notin Drafted /\ ~row.sessionEnabled
  BY <1>1 DEF ScanInv
<1>4. GroupOf[q] \in Groups
  BY <1>1, CommitAssumption
<1>5. ASSUME Stored(q) PROVE FALSE
  <2>1. Kept(q)
    BY <1>1, <1>2, <1>3, <1>5 DEF DoneInv, AfterCommit
  <2>2. q \in Cover(carried[GroupOf[q]].ranges)
    BY <1>3, <2>1 DEF Kept
  <2>3. GroupOf[q] \in row.sessionGroups
    BY <1>4, <2>2 DEF StateInv
  <2>4. EntityOf[GroupOf[q]] # "own"
    BY <1>3, <2>3, RowsAssumption DEF RunInv
  <2>. QED BY <1>3, <2>4 DEF Own
<1>. QED BY <1>1, <1>2, <1>3, <1>5

\* Locks on messages nobody owns.
LEMMA LockStep ==
    ASSUME BrokerInv, RunInv, StateInv, QueueInv, ChunkInv, DoneInv, ScanInv, LockInv, [Next]_vars
    PROVE  LockInv'
<1>1. ASSUME UNCHANGED saved, locked' \subseteq locked, Drafted' \subseteq Drafted PROVE LockInv'
  BY <1>1 DEF LockInv, Stored
<1>2. CASE UNCHANGED vars \/ Quiet \/ H5 \/ ScanPage \/ RecoverCallNotFound
           \/ \E q \in Seqs : LockLapses(q) \/ Expires(q)
  <2>1. locked' \subseteq locked /\ UNCHANGED <<saved, draft>>
    <3>1. CASE UNCHANGED vars
      BY <3>1 DEF vars, broker, results
    <3>2. CASE Quiet
      BY <3>2, QuietSteps
    <3>3. CASE H5
      BY <3>3, CommitFrame
    <3>4. CASE ScanPage \/ RecoverCallNotFound \/ \E q \in Seqs : LockLapses(q) \/ Expires(q)
      BY <3>4 DEF ScanPage, RecoverCallNotFound, LockLapses, Expires, broker, results
    <3>. QED BY <1>2, <3>1, <3>2, <3>3, <3>4
  <2>2. Drafted' = Drafted
    BY <2>1 DEF Drafted
  <2>. QED BY <1>1, <2>1, <2>2
<1>3. CASE StartRun
  <2>1. UNCHANGED <<saved, locked>> /\ draft' = NoDraft
    BY <1>3 DEF StartRun, broker
  <2>2. Drafted' = {}
    BY <2>1 DEF Drafted, NoDraft
  <2>. QED BY <1>1, <2>1, <2>2
<1>4. CASE RecoverCall \/ RecoverCallFails
  <2>1. pc = "recover" /\ calls # <<>> /\ UNCHANGED <<saved, draft>>
    BY <1>4 DEF RecoverCall, RecoverCallFails, results
  <2>2. Drafted' = Drafted
    BY <2>1 DEF Drafted
  <2>3. locked' = locked \/ (Available(calls[1]) /\ locked' = locked \cup ToSet(calls[1]))
    BY <1>4 DEF RecoverCall, RecoverCallFails, broker
  <2>4. CASE locked' = locked
    BY <1>1, <2>1, <2>2, <2>4
  <2>5. CASE Available(calls[1]) /\ locked' = locked \cup ToSet(calls[1])
    <3>1. \A q \in ToSet(calls[1]) : ~Stored(q) /\ q \notin Drafted
      BY <2>1, <2>5, RecoveredIsNotStored
    <3>. QED BY <2>1, <2>2, <2>5, <3>1 DEF LockInv, Stored
  <2>. QED BY <2>3, <2>4, <2>5
<1>5. CASE RecoverChunk
  <2>1. pc = "recover" /\ saved' = saved /\ locked' = locked \ found /\ draft' = Drafting(found \ Bad)
    BY <1>5 DEF RecoverChunk, OrphansProcessed
  <2>2. found \subseteq Seqs
    <3>1. chunks # <<>>
      BY <2>1 DEF ChunkInv
    <3>. QED BY <3>1, QueueTail DEF QueueInv
  <2>3. Drafted' = Drafted \cup (found \ Bad)
    BY <2>1, <2>2, DraftedAdds
  <2>. QED BY <2>1, <2>3 DEF LockInv, Stored
<1>6. CASE Receive
  <2>1. PICK S \in SUBSET {q \in Seqs : Own(q) /\ place[q] = "fresh"} : draft' = Drafting(S)
    BY <1>6 DEF Receive
  <2>2. UNCHANGED <<saved, locked>>
    BY <1>6 DEF Receive
  <2>3. Drafted' = Drafted \cup S
    BY <2>1, DraftedAdds
  <2>4. \A q \in locked : q \notin S
    BY <2>1 DEF BrokerInv
  <2>. QED BY <2>2, <2>3, <2>4 DEF LockInv, Stored
<1>7. CASE JobSucceeds
  <2>1. saved' = [g \in Groups |-> Built(g)] /\ UNCHANGED <<locked, draft>>
    BY <1>7 DEF JobSucceeds, broker, results
  <2>2. Drafted' = Drafted
    BY <2>1 DEF Drafted
  <2>3. ASSUME NEW q \in locked PROVE ~Stored(q)'
    <3>1. GroupOf[q] \in Groups
      BY CommitAssumption DEF BrokerInv
    <3>2. Cover(saved'[GroupOf[q]].ranges) = Cover(carried[GroupOf[q]].ranges) \cup draft[GroupOf[q]].seqs
      BY <2>1, <3>1, BuiltCovers
    <3>3. q \notin Cover(carried[GroupOf[q]].ranges)
      BY <3>1 DEF LockInv, Stored, StateInv
    <3>4. q \notin draft[GroupOf[q]].seqs
      BY <3>1 DEF LockInv, Drafted
    <3>. QED BY <3>2, <3>3, <3>4 DEF Stored
  <2>. QED BY <2>1, <2>2, <2>3 DEF LockInv
<1>. QED BY <1>2, <1>3, <1>4, <1>5, <1>6, <1>7, Steps

\* What the recovery is still to receive.
ToRecover == IF pc = "recover" THEN Asked(calls) \cup Asked(Tail(chunks)) ELSE {}

\* Unless a reply was lost or the maximum is not known, a message has a delivery
\* left, and one more while it is still to be recovered.
GuardInv ==
    \A q \in Seqs :
        \/ q \in lost \/ row.metadata = "unknown"
        \/ /\ place[q] # "exhausted" /\ dc[q] <= MaxDelivery - 1
           /\ q \in ToRecover => dc[q] <= MaxDelivery - 2

\* The guard: a recovery takes a delivery only from a message that has two left.
LEMMA GuardStep ==
    ASSUME BrokerInv, RunInv, StateInv, QueueInv, ChunkInv, GuardInv, [Next]_vars
    PROVE  GuardInv'
<1>0. MaxDelivery \in Nat \ {0} /\ row' = row
  BY RowsAssumption, RunStep DEF ChunkInv
<1>1. \A q \in Seqs : dc[q] \in Nat
  BY <1>0 DEF BrokerInv
<1>2. ASSUME dc' = dc, lost \subseteq lost', ToRecover' \subseteq ToRecover,
             \A q \in Seqs : place'[q] = "exhausted" => place[q] = "exhausted" \/ dc[q] >= MaxDelivery
      PROVE  GuardInv'
  <2>1. \A q \in Seqs : dc[q] <= MaxDelivery - 1 => ~(dc[q] >= MaxDelivery)
    BY <1>0, <1>1
  <2>. HIDE DEF ToRecover
  <2>. QED BY <1>0, <1>2, <2>1 DEF GuardInv
<1>3. CASE UNCHANGED vars
  BY <1>2, <1>3 DEF vars, broker, call, ToRecover
<1>4. CASE Quiet
  <2>1. UNCHANGED <<place, dc, lost>>
    BY <1>4, QuietSteps
  <2>2. pc' # "recover"
    BY <1>4, QuietMoves
  <2>. QED BY <1>2, <2>1, <2>2 DEF ToRecover
<1>5. CASE StartRun \/ JobSucceeds
  <2>1. UNCHANGED <<place, dc, lost>> /\ pc' # "recover"
    BY <1>5 DEF StartRun, JobSucceeds, broker, OnTo
  <2>. QED BY <1>2, <2>1 DEF ToRecover
<1>6. CASE H5
  <2>1. UNCHANGED <<dc, lost>>
    BY <1>6, CommitFrame
  <2>2. pc' # "recover"
    <3>1. ASSUME NEW S, OnTo(S) PROVE pc' # "recover"
      BY <3>1 DEF OnTo
    <3>. QED
      BY <1>6, <3>1, CommitMoves DEF Opened, OpenedNone, OpenFails, CallSucceeds, CallFindsNone, CallBisects, CallFails,
          Answered, NextCall, NextChunk, LastChunk, Bisected, Retried, Stopped, CarriedOn, DroppedOn
  <2>3. Keeps \/ Deletes
    BY <1>6, CommitMoves DEF Opened, OpenedNone, OpenFails, CallSucceeds, CallFindsNone, CallBisects, CallFails
  <2>4. \A q \in Seqs : place'[q] = "exhausted" => place[q] = "exhausted"
    BY <2>3 DEF Keeps, Deletes, Gone
  <2>. QED BY <1>2, <2>1, <2>2, <2>4 DEF ToRecover
<1>7. CASE ScanPage
  <2>1. PICK P \in SUBSET Seqs : PageRead(P)
    BY <1>7, PageStep
  <2>2. UNCHANGED <<place, dc, lost>> /\ pc = "scan"
    BY <1>7 DEF ScanPage, broker
  <2>3. CASE pc' = pc
    BY <1>2, <2>2, <2>3 DEF ToRecover
  <2>4. CASE pc' # pc
    <3>. DEFINE O == {q \in Reached(P) : place[q] = "deferred" /\ dc[q] < GuardThreshold}
    <3>1. pc' = "recover" /\ chunks' = RecoveryCalls(O) /\ calls' = <<RecoveryCalls(O)[1]>> /\ RecoveryCalls(O) # <<>>
      BY <2>1, <2>2, <2>4 DEF PageRead
    <3>2. O \subseteq Seqs /\ \A q \in O : dc[q] < GuardThreshold
      BY DEF Reached
    <3>. HIDE DEF O
    <3>. DEFINE todo == RecoveryCalls(O)
    <3>3. Queue(todo) /\ Asked(todo) = O
      BY <3>2, RecoveryCallsQueue
    <3>4. todo # <<>> /\ chunks' = todo /\ calls' = <<todo[1]>>
      BY <3>1
    <3>. HIDE DEF todo
    <3>5. todo[1] \in Seq(Int) /\ todo[1] # <<>> /\ Distinct(todo[1])
      BY <3>3, <3>4, QueueFacts
    <3>6. Asked(<<todo[1]>>) = ToSet(todo[1])
      BY <3>5, QueueOne
    <3>7. ToSet(todo[1]) \subseteq Asked(todo) /\ Asked(Tail(todo)) \subseteq Asked(todo)
      BY <3>3, <3>4, QueueTail
    <3>8. ToRecover' \subseteq O
      BY <3>1, <3>3, <3>4, <3>6, <3>7 DEF ToRecover
    <3>9. ASSUME row.metadata # "unknown", NEW q \in O PROVE dc[q] <= MaxDelivery - 2
      <4>1. GuardThreshold = MaxDelivery - 1
        BY <3>9 DEF GuardThreshold
      <4>. QED BY <1>0, <1>1, <3>2, <4>1
    <3>. HIDE DEF ToRecover
    <3>. QED BY <1>0, <2>2, <3>8, <3>9 DEF GuardInv
  <2>. QED BY <2>3, <2>4
<1>8. CASE RecoverCall
  <2>1. /\ pc = "recover" /\ calls # <<>> /\ place' = place /\ lost' = lost /\ pc' = pc
        /\ calls' = Tail(calls) /\ chunks' = chunks
        /\ dc' = [q \in Seqs |-> IF q \in ToSet(calls[1]) THEN dc[q] + 1 ELSE dc[q]]
    BY <1>8 DEF RecoverCall, Locks
  <2>2. /\ chunks # <<>> /\ ToSet(calls[1]) \subseteq FirstOf(chunks)
        /\ ToSet(calls[1]) \subseteq Asked(calls) /\ Asked(Tail(calls)) = Asked(calls) \ ToSet(calls[1])
    BY <2>1, FirstCall
  <2>3. Asked(Tail(chunks)) = Asked(chunks) \ FirstOf(chunks)
    BY <2>2, ChunkCompleted
  <2>4. ToRecover' = ToRecover \ ToSet(calls[1]) /\ ToSet(calls[1]) \subseteq ToRecover
    BY <2>1, <2>2, <2>3 DEF ToRecover
  <2>. HIDE DEF ToRecover
  <2>5. ASSUME NEW q \in Seqs, q \notin lost, row.metadata # "unknown"
        PROVE  place'[q] # "exhausted" /\ dc'[q] <= MaxDelivery - 1 /\ (q \in ToRecover' => dc'[q] <= MaxDelivery - 2)
    <3>1. place[q] # "exhausted" /\ dc[q] <= MaxDelivery - 1 /\ (q \in ToRecover => dc[q] <= MaxDelivery - 2)
      BY <2>5 DEF GuardInv
    <3>2. CASE q \in ToSet(calls[1])
      <4>1. dc'[q] = dc[q] + 1 /\ q \notin ToRecover' /\ dc[q] <= MaxDelivery - 2
        BY <2>1, <2>4, <3>1, <3>2
      <4>. QED BY <1>0, <1>1, <2>1, <3>1, <4>1
    <3>3. CASE q \notin ToSet(calls[1])
      <4>1. dc'[q] = dc[q] /\ (q \in ToRecover' => q \in ToRecover)
        BY <2>1, <2>4, <3>3
      <4>. QED BY <2>1, <3>1, <4>1
    <3>. QED BY <3>2, <3>3
  <2>. QED BY <1>0, <2>1, <2>5 DEF GuardInv
<1>9. CASE RecoverCallNotFound
  <2>1. calls # <<>> /\ UNCHANGED <<place, dc, lost, chunks, pc>>
    BY <1>9 DEF RecoverCallNotFound, broker
  <2>2. Asked(calls') \subseteq Asked(calls)
    <3>1. CASE Len(calls[1]) = 1
      <4>1. calls' = Tail(calls)
        BY <1>9, <3>1 DEF RecoverCallNotFound
      <4>. QED BY <2>1, <4>1, FirstCall
    <3>2. CASE Len(calls[1]) # 1
      <4>1. calls' = Halves(calls[1]) \o Tail(calls)
        BY <1>9, <3>2 DEF RecoverCallNotFound
      <4>. QED BY <2>1, <3>2, <4>1, QueueHalved DEF QueueInv
    <3>. QED BY <3>1, <3>2
  <2>3. ToRecover' \subseteq ToRecover
    BY <2>1, <2>2 DEF ToRecover
  <2>. QED BY <1>2, <2>1, <2>3
<1>10. CASE RecoverCallFails
  <2>1. UNCHANGED <<calls, chunks>> /\ (pc' = pc \/ pc' = "failed") /\ calls # <<>>
    BY <1>10 DEF RecoverCallFails
  <2>2. ToRecover' \subseteq ToRecover
    BY <2>1 DEF ToRecover
  <2>3. CASE UNCHANGED <<place, dc, lost>>
    BY <1>2, <2>2, <2>3
  <2>4. CASE Locks(calls[1]) /\ lost' = lost \cup ToSet(calls[1])
    <3>1. place' = place /\ \A q \in Seqs : q \notin lost' => dc'[q] = dc[q]
      BY <2>4 DEF Locks
    <3>. HIDE DEF ToRecover
    <3>. QED BY <1>0, <2>2, <2>4, <3>1 DEF GuardInv
  <2>. QED BY <1>10, <2>3, <2>4 DEF RecoverCallFails, broker
<1>11. CASE RecoverChunk
  <2>1. /\ pc = "recover" /\ UNCHANGED <<dc, lost>> /\ chunks' = Tail(chunks)
        /\ place' = [q \in Seqs |->
               CASE q \in found \cap locked \cap Bad -> "gone"
                 [] q \in (found \cap locked) \ Bad /\ dc[q] >= MaxDelivery -> "exhausted"
                 [] OTHER -> place[q]]
        /\ IF Len(chunks) = 1 THEN pc' = "scan" ELSE calls' = <<chunks[2]>> /\ pc' = pc
    BY <1>11 DEF RecoverChunk, OrphansProcessed
  <2>2. chunks # <<>>
    BY <2>1 DEF ChunkInv
  <2>3. ToRecover' \subseteq ToRecover
    <3>1. CASE Len(chunks) = 1
      BY <2>1, <3>1 DEF ToRecover
    <3>2. CASE Len(chunks) # 1
      <4>1. Queue(Tail(chunks)) /\ Tail(chunks) # <<>> /\ Asked(<<chunks[2]>>) = FirstOf(Tail(chunks))
        BY <2>2, <3>2, ChunkCompleted
      <4>2. FirstOf(Tail(chunks)) \subseteq Asked(Tail(chunks)) /\ Asked(Tail(Tail(chunks))) \subseteq Asked(Tail(chunks))
        BY <4>1, QueueTail DEF FirstOf
      <4>. QED BY <2>1, <3>2, <4>1, <4>2 DEF ToRecover
    <3>. QED BY <3>1, <3>2
  <2>4. \A q \in Seqs : place'[q] = "exhausted" => place[q] = "exhausted" \/ dc[q] >= MaxDelivery
    BY <2>1
  <2>. QED BY <1>2, <2>1, <2>3, <2>4
<1>12. CASE Receive
  <2>1. PICK S \in SUBSET {q \in Seqs : Own(q) /\ place[q] = "fresh"} :
            place' = [q \in Seqs |-> IF q \in S THEN "deferred" ELSE place[q]]
    BY <1>12 DEF Receive
  <2>2. UNCHANGED <<dc, lost>> /\ pc' # "recover"
    BY <1>12 DEF Receive
  <2>3. \A q \in Seqs : place'[q] = "exhausted" => place[q] = "exhausted"
    BY <2>1
  <2>. QED BY <1>2, <2>2, <2>3 DEF ToRecover
<1>13. ASSUME NEW q \in Seqs, LockLapses(q) \/ Expires(q) PROVE GuardInv'
  <2>1. UNCHANGED <<dc, lost, pc, calls, chunks>>
    BY <1>13 DEF LockLapses, Expires, call
  <2>2. \A k \in Seqs : place'[k] = "exhausted" => place[k] = "exhausted" \/ dc[k] >= MaxDelivery
    BY <1>13 DEF LockLapses, Expires, BrokerInv
  <2>3. ToRecover' = ToRecover
    BY <2>1 DEF ToRecover
  <2>. QED BY <1>2, <2>1, <2>2, <2>3
<1>. QED BY <1>3, <1>4, <1>5, <1>6, <1>7, <1>8, <1>9, <1>10, <1>11, <1>12, <1>13, Steps

\* H5 deletes messages of its chunks: imported ones.
LEMMA DeletedStep ==
    ASSUME BrokerInv, RunInv, StateInv, QueueInv, ChunkInv, OnlyImportedDeleted, [Next]_vars
    PROVE  OnlyImportedDeleted'
<1>1. ASSUME deleted' = deleted, imported \subseteq imported' PROVE OnlyImportedDeleted'
  BY <1>1 DEF OnlyImportedDeleted
<1>2. CASE UNCHANGED vars \/ Quiet \/ StartRun \/ ScanPage \/ RecoverCallNotFound \/ RecoverCall
           \/ RecoverCallFails \/ RecoverChunk \/ Receive \/ JobSucceeds
           \/ \E q \in Seqs : LockLapses(q) \/ Expires(q)
  <2>1. CASE UNCHANGED vars
    BY <1>1, <2>1 DEF vars, history
  <2>2. CASE Quiet
    BY <1>1, <2>2, QuietSteps
  <2>3. CASE StartRun \/ ScanPage \/ RecoverCallNotFound \/ RecoverCall
             \/ RecoverCallFails \/ RecoverChunk \/ Receive \/ JobSucceeds
             \/ \E q \in Seqs : LockLapses(q) \/ Expires(q)
    <3>1. deleted' = deleted /\ (imported' = imported \/ imported' = imported \cup Drafted)
      BY <2>3 DEF StartRun, ScanPage, RecoverCallNotFound, RecoverCall, RecoverCallFails, RecoverChunk, Receive,
          JobSucceeds, LockLapses, Expires, history
    <3>. QED BY <1>1, <3>1
  <2>. QED BY <1>2, <2>1, <2>2, <2>3
<1>3. CASE H5
  <2>1. imported' = imported
    BY <1>3, CommitFrame
  <2>2. Keeps \/ (pc = "call" /\ Deletes)
    BY <1>3, CommitMoves DEF Opened, OpenedNone, OpenFails, CallSucceeds, CallFindsNone, CallBisects, CallFails
  <2>3. CASE Keeps
    BY <1>1, <2>1, <2>3 DEF Keeps
  <2>4. CASE pc = "call" /\ Deletes
    <3>1. calls # <<>> /\ at \in Groups /\ Cuts(chunks, {q \in Cover(saved[at].ranges) : q >= nextSeq})
      BY <2>4 DEF ChunkInv, RunInv, Committing
    <3>2. ToSet(calls[1]) \subseteq Asked(chunks)
      BY <3>1, FirstCall
    <3>3. Asked(chunks) \subseteq Cover(saved[at].ranges)
      BY <3>1, CutsQueue
    <3>4. ToSet(calls[1]) \subseteq imported
      BY <3>1, <3>2, <3>3, GroupIsStored
    <3>. QED BY <2>1, <2>4, <3>4 DEF Deletes, OnlyImportedDeleted
  <2>. QED BY <2>2, <2>3, <2>4
<1>. QED BY <1>2, <1>3, Steps

(***************************************************************************)
(* The theorems.                                                           *)
(***************************************************************************)

\* The inductive invariant of the start of a run.
IInv ==
    /\ BrokerInv /\ RunInv /\ StateInv /\ QueueInv /\ ScanTypes /\ ChunkInv
    /\ LockInv /\ DoneInv /\ ScanInv /\ GuardInv /\ OnlyImportedDeleted

\* It holds before the first run.
LEMMA InitInv ==
    ASSUME Init
    PROVE  IInv
<1>1. BrokerInv /\ RunInv /\ StateInv /\ QueueInv /\ ScanTypes
  BY InitParts
<1>2. pc = "idle" /\ locked = {} /\ deleted = {} /\ lost = {}
  BY DEF Init
<1>3. ChunkInv /\ LockInv /\ DoneInv /\ ScanInv /\ OnlyImportedDeleted
  BY <1>2 DEF ChunkInv, LockInv, DoneInv, ScanInv, OnlyImportedDeleted, Committing, AfterCommit
<1>4. GuardInv
  <2>1. place \in [Seqs -> {"deferred", "fresh", "used", "gone"}] /\ row.delivered \in 0..(MaxDelivery - 1)
    BY RowsAssumption DEF Init
  <2>2. MaxDelivery \in Nat \ {0}
    BY RowsAssumption
  <2>3. dc = [q \in Seqs |-> IF place[q] = "deferred" THEN row.delivered ELSE 0]
    BY DEF Init
  <2>4. \A q \in Seqs : dc[q] <= MaxDelivery - 1 /\ place[q] # "exhausted"
    BY <2>1, <2>2, <2>3
  <2>5. ToRecover = {}
    BY <1>2 DEF ToRecover
  <2>. QED BY <2>4, <2>5 DEF GuardInv
<1>. QED BY <1>1, <1>3, <1>4 DEF IInv

\* Every step keeps it.
LEMMA NextInv ==
    ASSUME IInv, [Next]_vars
    PROVE  IInv'
<1>. USE DEF IInv
<1>0. pc = "call" => calls # <<>>
  BY DEF ChunkInv
<1>1. BrokerInv'
  BY <1>0, BrokerStep
<1>2. RunInv'
  BY <1>0, RunStep
<1>3. StateInv'
  BY <1>0, StateStep
<1>4. QueueInv'
  BY QueueStep
<1>5. ScanTypes'
  BY ScanTypesStep
<1>6. ChunkInv'
  BY ChunkStep
<1>7. LockInv'
  BY LockStep
<1>8. DoneInv'
  BY DoneStep
<1>9. ScanInv'
  BY ScanStep
<1>10. GuardInv'
  BY GuardStep
<1>11. OnlyImportedDeleted'
  BY DeletedStep
<1>. QED BY <1>1, <1>2, <1>3, <1>4, <1>5, <1>6, <1>7, <1>8, <1>9, <1>10, <1>11

\* The inductive invariant always holds.
LEMMA InvHolds == Spec => []IInv
<1>1. Init => IInv
  BY InitInv
<1>2. IInv /\ [Next]_vars => IInv'
  BY NextInv
<1>. QED BY <1>1, <1>2, PTL DEF Spec

\* Type correctness of the start of a run: pending_commit, the retries, the page
\* cap and k_stop keep their ranges, the calls of receive_deferred_bisect are
\* pieces of the chunk they came from, and a carried group never covers more than
\* the stored one.
THEOREM TypeCorrect == Spec => []TypeOK
<1>1. ASSUME IInv PROVE TypeOK
  <2>1. ASSUME NEW i \in DOMAIN calls PROVE calls[i] # <<>> /\ ToSet(calls[i]) \subseteq ToSet(chunks[1])
    <3>1. Queue(calls) /\ Asked(calls) \subseteq FirstOf(chunks)
      BY <1>1 DEF IInv, QueueInv
    <3>2. calls[i] # <<>> /\ ToSet(calls[i]) \subseteq Asked(calls)
      BY <2>1, <3>1, QueueFacts
    <3>3. calls # <<>>
      BY <2>1
    <3>4. FirstOf(chunks) = ToSet(chunks[1])
      BY <1>1, <3>3, FirstCall DEF IInv
    <3>. QED BY <3>1, <3>2, <3>4
  <2>2. found \cup missing \subseteq Seqs /\ found \cap missing = {}
    <3>1. chunks # <<>> => FirstOf(chunks) \subseteq Asked(chunks)
      BY <1>1, QueueTail DEF IInv, QueueInv, FirstOf
    <3>2. FirstOf(chunks) \subseteq Seqs
      BY <1>1, <3>1 DEF IInv, QueueInv, FirstOf
    <3>. QED BY <1>1, <3>2 DEF IInv, QueueInv
  <2>3. /\ place \in [Seqs -> {"deferred", "fresh", "used", "gone", "exhausted"}]
        /\ locked \subseteq {q \in Seqs : place[q] = "deferred"} /\ dc \in [Seqs -> 0..MaxDelivery]
    BY <1>1 DEF IInv, BrokerInv
  <2>4. /\ runs \in 0..row.maxRuns /\ mode \in {"defer_commit", "complete"} /\ pc \in Phases
        /\ at \in 1..(GroupCount + 1) /\ tries \in 0..Retries /\ sessionRetry \in BOOLEAN /\ nextSeq \in Nat
    BY <1>1 DEF IInv, RunInv
  <2>5. imported \subseteq Seqs /\ \A g \in Groups : Cover(carried[g].ranges) \subseteq Cover(saved[g].ranges)
    BY <1>1 DEF IInv, StateInv
  <2>6. ScanTypes
    BY <1>1 DEF IInv
  <2>. QED BY <2>1, <2>2, <2>3, <2>4, <2>5, <2>6 DEF TypeOK, Phases, ScanTypes
<1>. QED BY <1>1, InvHolds, PTL

\* H5 deletes only messages whose rows were imported, whatever ranges the stored
\* state holds, whatever is bisected, carried, merged and re-encoded, and whatever
\* fails on the way.
THEOREM ImportedBeforeDeleted == Spec => []OnlyImportedDeleted
<1>1. IInv => OnlyImportedDeleted
  BY DEF IInv
<1>. QED BY <1>1, InvHolds, PTL

\* _GroupProgress: of the group that H5 works on, nothing below next_seq is still
\* deferred, so the tail from there on misses nothing.
THEOREM ProgressIsDeleted == Spec => []BelowIsDeleted
<1>1. ASSUME IInv PROVE BelowIsDeleted
  <2>1. ASSUME NEW q \in Seqs, Committing, q < nextSeq, q \in Cover(saved[at].ranges) PROVE place[q] # "deferred"
    <3>1. CASE pc = "open"
      <4>1. nextSeq = 0 /\ q \in Nat
        BY <1>1, <3>1, CommitAssumption DEF IInv, ChunkInv
      <4>. QED BY <2>1, <4>1
    <3>2. CASE pc = "call"
      BY <1>1, <2>1, <3>2 DEF IInv, ChunkInv
    <3>. QED BY <2>1, <3>1, <3>2 DEF Committing
  <2>. QED BY <2>1 DEF BelowIsDeleted
<1>. QED BY <1>1, InvHolds, PTL

\* A commit that ends well forgets nothing the state owned: what is still deferred
\* is carried into the new state, reported as stale, or recovered by the scan.
THEOREM NothingIsForgotten == Spec => []RestIsCarried
<1>1. ASSUME IInv PROVE RestIsCarried
  BY <1>1 DEF IInv, DoneInv, Kept, RestIsCarried
<1>. QED BY <1>1, InvHolds, PTL

\* orphan_guard_threshold: no recovery, over any number of runs, uses up a
\* message's deliveries, unless one of its deferred receives was not answered or
\* the entity's maximum was not known.
THEOREM NoneIsExhausted == Spec => []GuardHolds
<1>1. ASSUME IInv PROVE GuardHolds
  BY <1>1 DEF IInv, GuardInv, GuardHolds
<1>. QED BY <1>1, InvHolds, PTL

\* PendingSetBuilder: the state a run saves owns exactly the messages it carried
\* and the ones it deferred, as sorted ranges with gaps between them.
THEOREM SavedExactly == Spec => SavedIsExact
<1>. DEFINE Exact == saved' # saved => \A g \in Groups :
                         /\ Cover(saved'[g].ranges) = Cover(carried[g].ranges) \cup draft[g].seqs
                         /\ Canonical(saved'[g].ranges)
<1>1. ASSUME IInv, [Next]_vars PROVE [Exact]_vars
  <2>1. CASE UNCHANGED vars
    BY <2>1
  <2>2. CASE Quiet
    BY <2>2, QuietSteps
  <2>3. CASE H5
    BY <2>3, CommitFrame
  <2>4. CASE StartRun \/ ScanPage \/ RecoverCallNotFound \/ RecoverCall \/ RecoverCallFails \/ RecoverChunk
             \/ Receive \/ \E q \in Seqs : LockLapses(q) \/ Expires(q)
    BY <2>4 DEF StartRun, ScanPage, RecoverCallNotFound, RecoverCall, RecoverCallFails, RecoverChunk, Receive,
        LockLapses, Expires
  <2>5. CASE JobSucceeds
    <3>1. saved' = [g \in Groups |-> Built(g)]
      BY <2>5 DEF JobSucceeds
    <3>. QED BY <1>1, <3>1, BuiltCovers DEF IInv
  <2>. QED BY <1>1, <2>1, <2>2, <2>3, <2>4, <2>5, Steps
<1>2. IInv /\ [Next]_vars => [Exact]_vars
  BY <1>1
<1>. QED BY <1>2, InvHolds, PTL DEF Spec, SavedIsExact

(***************************************************************************)
(* The sizes of the calls.                                                 *)
(***************************************************************************)

\* No call of the list asks for more than n messages.
Short(cs, n) == \A i \in DOMAIN cs : Len(cs[i]) <= n

\* The calls that are left, and a call split in two, are no longer.
LEMMA ShortCalls ==
    ASSUME NEW cs, Queue(cs), cs # <<>>, NEW n \in Nat, Short(cs, n)
    PROVE  /\ Short(Tail(cs), n) /\ Short(<<cs[1]>>, n)
           /\ Len(cs[1]) # 1 => Short(Halves(cs[1]) \o Tail(cs), n)
<1>1. 1 \in DOMAIN cs /\ cs[1] \in Seq(Int) /\ Len(cs[1]) <= n /\ cs[1] # <<>> /\ Distinct(cs[1])
  BY QueueFacts DEF Short
<1>2. Short(Tail(cs), n)
  BY QueueTail DEF Short
<1>3. Short(<<cs[1]>>, n)
  <2>. DEFINE s == cs[1]
  <2>1. Len(s) <= n
    BY <1>1
  <2>. HIDE DEF s
  <2>2. DOMAIN <<s>> = {1} /\ <<s>>[1] = s
    OBVIOUS
  <2>3. Short(<<s>>, n)
    BY <2>1, <2>2 DEF Short
  <2>. QED BY <2>3 DEF s
<1>4. ASSUME Len(cs[1]) # 1 PROVE Short(Halves(cs[1]) \o Tail(cs), n)
  <2>. DEFINE s == cs[1]
              l == Len(s)
              h == l \div 2
              a == SubSeq(s, 1, h)
              b == SubSeq(s, h + 1, l)
              t == Tail(cs)
  <2>1. s \in Seq(Int) /\ l \in Nat /\ l <= n /\ l # 0 /\ l # 1 /\ \A k \in 1..l : s[k] \in Int
    BY <1>1, <1>4
  <2>2. Halves(s) = <<a, b>>
    BY DEF Halves
  <2>. HIDE DEF s, l
  <2>3. h \in Nat /\ h <= l
    BY <2>1
  <2>. HIDE DEF h
  <2>4. a \in Seq(Int) /\ Len(a) <= n
    <3>1. \A k \in 1..h : s[k] \in Int
      BY <2>1, <2>3
    <3>2. a \in Seq(Int) /\ Len(a) = IF 1 <= h THEN h - 1 + 1 ELSE 0
      BY <2>3, <3>1, SubSeqProperties
    <3>. HIDE DEF a
    <3>. QED BY <2>1, <2>3, <3>2
  <2>5. b \in Seq(Int) /\ Len(b) <= n
    <3>1. \A k \in (h + 1)..l : s[k] \in Int
      BY <2>1, <2>3
    <3>2. b \in Seq(Int) /\ Len(b) = IF h + 1 <= l THEN l - (h + 1) + 1 ELSE 0
      BY <2>1, <2>3, <3>1, SubSeqProperties
    <3>. HIDE DEF b
    <3>. QED BY <2>1, <2>3, <3>2
  <2>. HIDE DEF a, b
  <2>. DEFINE T == Seq(Int)
              H == <<a, b>>
  <2>6. H \in Seq(T) /\ DOMAIN H = {1, 2} /\ H[1] = a /\ H[2] = b
    BY <2>4, <2>5
  <2>7. t \in Seq(T) /\ Short(t, n)
    BY <1>2, QueueTail DEF Queue
  <2>. HIDE DEF T, H, t
  <2>8. /\ \A i \in DOMAIN H : (H \o t)[i] = H[i]
        /\ \A i \in DOMAIN t : (H \o t)[Len(H) + i] = t[i]
        /\ \A k \in DOMAIN (H \o t) : k \in DOMAIN H \/ \E i \in DOMAIN t : k = Len(H) + i
    <3>1. H \in Seq(T) /\ t \in Seq(T)
      BY <2>6, <2>7
    <3>. QED BY <3>1, ConcatLists
  <2>9. ASSUME NEW k \in DOMAIN (H \o t) PROVE Len((H \o t)[k]) <= n
    <3>1. CASE k \in DOMAIN H
      BY <2>4, <2>5, <2>6, <2>8, <3>1
    <3>2. CASE \E i \in DOMAIN t : k = Len(H) + i
      <4>1. PICK i \in DOMAIN t : k = Len(H) + i
        BY <3>2
      <4>2. (H \o t)[k] = t[i]
        BY <2>8, <4>1, Zenon
      <4>. QED BY <2>7, <4>2 DEF Short
    <3>. QED BY <2>8, <3>1, <3>2
  <2>10. Short(H \o t, n)
    BY <2>9 DEF Short
  <2>. QED BY <2>2, <2>10 DEF H, s, t
<1>. QED BY <1>2, <1>3, <1>4

\* max_body_bytes bounds the bodies of a group, stored, carried or drafted.
SizeInv ==
    \A g \in Groups :
        /\ \A q \in Cover(saved[g].ranges) : BodySize[q] <= saved[g].maxBody
        /\ \A q \in Cover(carried[g].ranges) : BodySize[q] <= carried[g].maxBody
        /\ \A q \in draft[g].seqs : BodySize[q] <= draft[g].maxBody

\* The chunks of the commit and the calls they are split into have the size that
\* the group's largest body allows.
LengthInv ==
    pc = "call" => /\ Short(chunks, CommitChunkSize(saved[at].maxBody))
                   /\ Short(calls, CommitChunkSize(saved[at].maxBody))

\* The largest body of a group survives the carrying and the building.
LEMMA SizeStep ==
    ASSUME RunInv, StateInv, QueueInv, ChunkInv, SizeInv, [Next]_vars
    PROVE  SizeInv'
<1>1. CASE UNCHANGED <<saved, carried, draft>>
  BY <1>1 DEF SizeInv
<1>2. CASE UNCHANGED vars \/ Quiet \/ ScanPage \/ RecoverCallNotFound \/ RecoverCall \/ RecoverCallFails
           \/ \E q \in Seqs : LockLapses(q) \/ Expires(q)
  <2>1. CASE UNCHANGED vars
    BY <1>1, <2>1 DEF vars, outcome, results
  <2>2. CASE Quiet
    BY <1>1, <2>2, QuietSteps
  <2>3. CASE ScanPage \/ RecoverCallNotFound \/ RecoverCall \/ RecoverCallFails
             \/ \E q \in Seqs : LockLapses(q) \/ Expires(q)
    BY <1>1, <2>3 DEF ScanPage, RecoverCallNotFound, RecoverCall, RecoverCallFails, LockLapses, Expires, outcome, results
  <2>. QED BY <1>2, <2>1, <2>2, <2>3
<1>3. CASE StartRun
  <2>1. saved' = saved /\ carried' = [g \in Groups |-> Nothing] /\ draft' = NoDraft
    BY <1>3 DEF StartRun
  <2>2. Cover(<<>>) = {}
    BY DEF Cover, ToSet
  <2>. QED BY <2>1, <2>2 DEF SizeInv, Nothing, NoDraft
<1>4. CASE H5
  <2>1. UNCHANGED <<saved, draft>>
    BY <1>4, CommitFrame
  <2>2. carried' = carried \/ (at \in Groups /\ CarryGroup)
    <3>1. Committing => at \in Groups
      BY DEF RunInv
    <3>. QED
      BY <1>4, <3>1, CommitMoves DEF Opened, OpenedNone, OpenFails, CallSucceeds, CallFindsNone, CallBisects,
          CallFails, Retried, Stopped, CarriedOn, DroppedOn, Answered, Committing
  <2>3. CASE at \in Groups /\ CarryGroup
    <3>. DEFINE left == TailFrom(saved[at].ranges, nextSeq)
    <3>1. saved[at] \in [ranges : Ranges, maxBody : Nat] /\ nextSeq \in Int /\ saved[at].ranges \in Ranges
          /\ carried \in [Groups -> [ranges : Ranges, maxBody : Nat]]
      BY <2>3 DEF StateInv, RunInv
    <3>2. Cover(left) \subseteq Cover(saved[at].ranges)
      BY <3>1, TailCovers
    <3>3. carried' = [carried EXCEPT ![at] = [saved[at] EXCEPT !.ranges = left]]
      BY <2>3 DEF CarryGroup
    <3>. HIDE DEF left
    <3>4. carried'[at].ranges = left /\ carried'[at].maxBody = saved[at].maxBody
          /\ \A g \in Groups : g # at => carried'[g] = carried[g]
      BY <2>3, <3>1, <3>3
    <3>. QED BY <2>1, <2>3, <3>2, <3>4 DEF SizeInv
  <2>. QED BY <1>1, <2>1, <2>2, <2>3
<1>5. ASSUME NEW S, S \subseteq Seqs, draft' = Drafting(S), UNCHANGED <<saved, carried>> PROVE SizeInv'
  <2>1. ASSUME NEW g \in Groups, NEW q \in draft'[g].seqs PROVE BodySize[q] <= draft'[g].maxBody
    <3>1. /\ draft'[g].seqs = draft[g].seqs \cup {k \in S : GroupOf[k] = g}
          /\ draft[g].maxBody <= draft'[g].maxBody /\ draft'[g].maxBody \in Nat
          /\ \A k \in S : BodySize[k] <= draft'[GroupOf[k]].maxBody
      BY <1>5, DraftingAdds
    <3>2. CASE q \in S /\ GroupOf[q] = g
      BY <3>1, <3>2
    <3>3. CASE q \in draft[g].seqs
      <4>1. BodySize[q] <= draft[g].maxBody /\ draft[g].maxBody \in Nat /\ q \in Seqs
        BY <3>3 DEF SizeInv, StateInv
      <4>2. BodySize[q] \in Nat
        BY <4>1, CommitAssumption
      <4>. DEFINE x == BodySize[q]
                  y == draft[g].maxBody
                  z == draft'[g].maxBody
      <4>3. x \in Nat /\ y \in Nat /\ z \in Nat /\ x <= y /\ y <= z
        BY <3>1, <4>1, <4>2
      <4>. HIDE DEF x, y, z
      <4>4. x <= z
        BY <4>3
      <4>. QED BY <4>4 DEF x, z
    <3>. QED BY <3>1, <3>2, <3>3
  <2>. QED BY <1>5, <2>1 DEF SizeInv
<1>6. CASE RecoverChunk
  <2>1. found \ Bad \subseteq Seqs
    <3>1. chunks # <<>> => FirstOf(chunks) \subseteq Seqs
      BY QueueTail DEF QueueInv
    <3>2. FirstOf(chunks) \subseteq Seqs
      BY <3>1 DEF FirstOf
    <3>. QED BY <3>2 DEF QueueInv
  <2>2. draft' = Drafting(found \ Bad) /\ UNCHANGED <<saved, carried>>
    BY <1>6 DEF RecoverChunk, OrphansProcessed, outcome
  <2>. QED BY <1>5, <2>1, <2>2
<1>7. CASE Receive
  <2>1. PICK S \in SUBSET {q \in Seqs : Own(q) /\ place[q] = "fresh"} : draft' = Drafting(S)
    BY <1>7 DEF Receive
  <2>2. S \subseteq Seqs /\ UNCHANGED <<saved, carried>>
    BY <1>7 DEF Receive, outcome
  <2>. QED BY <1>5, <2>1, <2>2
<1>8. CASE JobSucceeds
  <2>1. saved' = [g \in Groups |-> Built(g)] /\ UNCHANGED <<carried, draft>>
    BY <1>8 DEF JobSucceeds, outcome, results
  <2>2. ASSUME NEW g \in Groups, NEW q \in Cover(saved'[g].ranges) PROVE BodySize[q] <= saved'[g].maxBody
    <3>1. Cover(saved'[g].ranges) = Cover(carried[g].ranges) \cup draft[g].seqs
      BY <2>1, BuiltCovers
    <3>2. saved'[g].maxBody = Max2(carried[g].maxBody, draft[g].maxBody)
      BY <2>1 DEF Built
    <3>3. q \in Seqs /\ carried[g].maxBody \in Nat /\ draft[g].maxBody \in Nat
      BY <2>2, <3>1 DEF StateInv, Cell
    <3>4. BodySize[q] \in Nat
      BY <3>3, CommitAssumption
    <3>5. BodySize[q] <= carried[g].maxBody \/ BodySize[q] <= draft[g].maxBody
      BY <2>2, <3>1 DEF SizeInv
    <3>. DEFINE x == BodySize[q]
                y == carried[g].maxBody
                z == draft[g].maxBody
    <3>6. x \in Nat /\ y \in Nat /\ z \in Nat /\ (x <= y \/ x <= z) /\ saved'[g].maxBody = Max2(y, z)
      BY <3>2, <3>3, <3>4, <3>5
    <3>. HIDE DEF x, y, z
    <3>7. x <= Max2(y, z)
      BY <3>6 DEF Max2
    <3>. QED BY <3>6, <3>7 DEF x
  <2>. QED BY <2>1, <2>2 DEF SizeInv
<1>. QED BY <1>2, <1>3, <1>4, <1>6, <1>7, <1>8, Steps

\* The chunks of a group have the size that its largest body allows.
LEMMA GroupIsShort ==
    ASSUME StateInv, at \in Groups
    PROVE  LET size == CommitChunkSize(saved[at].maxBody) IN
           size \in Nat \ {0} /\ Short(Batched(IterRanges(saved[at].ranges), size), size)
<1>1. saved[at].ranges \in Ranges /\ saved[at].maxBody \in Nat
  BY DEF StateInv
<1>. DEFINE s == IterRanges(saved[at].ranges)
            size == CommitChunkSize(saved[at].maxBody)
<1>2. size \in Nat \ {0}
  BY <1>1, ChunkSizeIsPositive
<1>3. s \in Seq(Int) /\ Increasing(s)
  BY <1>1, IterLists
<1>. HIDE DEF s, size
<1>4. Short(Batched(s, size), size)
  BY <1>2, <1>3, BatchedCuts DEF Short
<1>. QED BY <1>2, <1>4 DEF s, size

\* Opening, splitting and going on keep the calls that short.
LEMMA LengthStep ==
    ASSUME RunInv, StateInv, QueueInv, ChunkInv, LengthInv, [Next]_vars
    PROVE  LengthInv'
<1>1. CASE pc' # "call"
  BY <1>1 DEF LengthInv
<1>2. CASE UNCHANGED <<pc, chunks, calls, saved, at>>
  BY <1>2 DEF LengthInv, Short
<1>3. CASE UNCHANGED vars
  BY <1>2, <1>3 DEF vars, call, progress
<1>4. CASE \E q \in Seqs : LockLapses(q) \/ Expires(q)
  BY <1>2, <1>4 DEF LockLapses, Expires, call, progress
<1>5. CASE Quiet
  BY <1>1, <1>5, QuietMoves
<1>6. CASE StartRun \/ Receive \/ JobSucceeds \/ ScanPage \/ RecoverCall \/ RecoverCallNotFound
           \/ RecoverCallFails \/ RecoverChunk
  <2>1. pc' # "call"
    BY <1>6 DEF StartRun, OnTo, Receive, JobSucceeds, ScanPage, RecoverCall, RecoverCallNotFound,
        RecoverCallFails, RecoverChunk
  <2>. QED BY <1>1, <2>1
<1>7. ASSUME NEW S, OnTo(S) PROVE LengthInv'
  BY <1>7 DEF OnTo, LengthInv
<1>8. CASE H5
  <2>. DEFINE size == CommitChunkSize(saved[at].maxBody)
  <2>0. saved' = saved
    BY <1>8, CommitFrame
  <2>1. CASE Opened
    <3>. DEFINE cs == Batched(IterRanges(saved[at].ranges), size)
    <3>1. pc = "open" /\ cs # <<>> /\ chunks' = cs /\ calls' = <<cs[1]>> /\ at' = at
      BY <2>1 DEF Opened
    <3>2. at \in Groups
      BY <3>1 DEF RunInv, Committing
    <3>3. size \in Nat /\ Short(cs, size) /\ Queue(cs)
      BY <3>2, GroupIsShort, GroupIsCut, CutsQueue
    <3>4. size' = size
      BY <2>0, <3>1
    <3>. HIDE DEF cs, size
    <3>5. Short(<<cs[1]>>, size)
      BY <3>1, <3>3, ShortCalls
    <3>6. Short(chunks', size') /\ Short(calls', size')
      BY <3>1, <3>3, <3>4, <3>5
    <3>. QED BY <3>6 DEF LengthInv, size
  <2>2. CASE OpenedNone
    BY <1>7, <2>2 DEF OpenedNone
  <2>3. CASE Retried
    BY <1>2, <2>0, <2>3 DEF Retried
  <2>4. CASE Stopped
    BY <1>1, <2>4 DEF Stopped
  <2>5. CASE CarriedOn \/ DroppedOn
    BY <1>7, <2>5 DEF CarriedOn, DroppedOn
  <2>6. ASSUME pc = "call"
        PROVE  /\ size \in Nat /\ Short(chunks, size) /\ Short(calls, size)
               /\ Queue(chunks) /\ Queue(calls) /\ calls # <<>> /\ chunks # <<>>
    <3>1. at \in Groups /\ calls # <<>>
      BY <2>6 DEF RunInv, ChunkInv, Committing
    <3>. QED BY <2>6, <3>1, GroupIsShort, FirstCall DEF LengthInv, QueueInv
  <2>. HIDE DEF size
  <2>7. CASE CallBisects
    <3>1. pc = "call" /\ Len(calls[1]) # 1 /\ calls' = Halves(calls[1]) \o Tail(calls) /\ UNCHANGED <<at, chunks>>
      BY <2>7 DEF CallBisects, Bisected
    <3>2. Short(chunks', size) /\ Short(calls', size)
      BY <2>6, <3>1, ShortCalls
    <3>. QED BY <2>0, <3>1, <3>2 DEF LengthInv, size
  <2>8. CASE CallSucceeds \/ CallFindsNone
    <3>1. PICK F, M : Answered(F, M)
      BY <2>8 DEF CallSucceeds, CallFindsNone
    <3>2. pc = "call"
      BY <2>8 DEF CallSucceeds, CallFindsNone
    <3>3. CASE LastChunk(F, M)
      BY <1>7, <3>3 DEF LastChunk
    <3>4. CASE NextCall(F, M)
      <4>1. calls' = Tail(calls) /\ UNCHANGED <<at, chunks>>
        BY <3>4 DEF NextCall
      <4>2. Short(chunks', size) /\ Short(calls', size)
        BY <2>6, <3>2, <4>1, ShortCalls
      <4>. QED BY <2>0, <4>1, <4>2 DEF LengthInv, size
    <3>5. CASE NextChunk(F, M)
      <4>1. Len(chunks) # 1 /\ chunks' = Tail(chunks) /\ calls' = <<chunks[2]>> /\ at' = at
        BY <3>5 DEF NextChunk
      <4>2. Short(Tail(chunks), size)
        BY <2>6, <3>2, ShortCalls
      <4>3. Queue(Tail(chunks)) /\ Tail(chunks) # <<>>
        BY <2>6, <3>2, <4>1, ChunkCompleted
      <4>4. Tail(chunks)[1] = chunks[2]
        BY <2>6, <3>2, <4>3, QueueTail, QueueFacts
      <4>5. Short(<<Tail(chunks)[1]>>, size)
        BY <2>6, <3>2, <4>2, <4>3, ShortCalls
      <4>6. Short(chunks', size) /\ Short(calls', size)
        BY <4>1, <4>2, <4>4, <4>5
      <4>. QED BY <2>0, <4>1, <4>6 DEF LengthInv, size
    <3>. QED BY <3>1, <3>3, <3>4, <3>5 DEF Answered
  <2>. QED BY <1>8, <2>1, <2>2, <2>3, <2>4, <2>5, <2>7, <2>8, CommitMoves DEF OpenFails, CallFails
<1>. QED BY <1>3, <1>4, <1>5, <1>6, <1>8, Steps

\* A sum of at most n numbers, none above b.
LEMMA SumWithin ==
    ASSUME NEW n \in Nat, NEW f \in [1..n -> Nat], NEW g, SumsUp(g, n, f),
           NEW b \in Nat, \A i \in 1..n : f[i] <= b
    PROVE  g[n] \in Nat /\ g[n] <= n * b
<1>. DEFINE Good(i) == g[i] \in Nat /\ g[i] <= i * b
            bad == {i \in 0..n : ~Good(i)}
<1>1. g[0] = 0 /\ \A i \in 1..n : g[i] = g[i - 1] + f[i]
  BY DEF SumsUp
<1>2. Good(0)
  BY <1>1
<1>3. ASSUME NEW i \in 1..n, Good(i - 1) PROVE Good(i)
  <2>1. g[i] = g[i - 1] + f[i] /\ f[i] \in Nat /\ f[i] <= b
    BY <1>1
  <2>2. (i - 1) * b = i * b - b /\ i * b \in Int
    BY Multiples
  <2>. DEFINE p == (i - 1) * b
              r == i * b
  <2>3. p = r - b /\ r \in Int /\ g[i - 1] \in Nat /\ g[i - 1] <= p
    BY <1>3, <2>2
  <2>. HIDE DEF p, r
  <2>4. g[i] \in Nat /\ g[i] <= r
    BY <2>1, <2>3
  <2>. QED BY <2>4 DEF r
<1>4. bad = {}
  <2>. SUFFICES ASSUME bad # {} PROVE FALSE
    OBVIOUS
  <2>1. PICK x \in bad : \A y \in bad : x <= y
    <3>1. bad \subseteq Nat
      OBVIOUS
    <3>. HIDE DEF bad
    <3>. QED BY <3>1, LeastNatural
  <2>2. x \in 0..n /\ ~Good(x)
    OBVIOUS
  <2>. HIDE DEF Good
  <2>3. x # 0
    BY <1>2, <2>2
  <2>4. x \in 1..n /\ x - 1 \in 0..n /\ x - 1 \notin bad
    BY <2>1, <2>2, <2>3
  <2>. QED BY <1>3, <2>2, <2>4
<1>5. Good(n)
  <2>. HIDE DEF Good
  <2>. QED BY <1>4
<1>. QED BY <1>5

\* The bodies of a list of messages, none larger than b.
LEMMA BytesWithin ==
    ASSUME NEW s \in Seq(Int), ToSet(s) \subseteq Seqs, NEW b \in Nat, \A q \in ToSet(s) : BodySize[q] <= b
    PROVE  BytesOf(s) \in Nat /\ BytesOf(s) <= Len(s) * b
<1>. DEFINE n == Len(s)
            f == [i \in 1..n |-> BodySize[s[i]]]
            g == CHOOSE h : h = [i \in 0..n |-> IF i = 0 THEN 0 ELSE h[i - 1] + BodySize[s[i]]]
<1>1. BytesOf(s) = g[n]
  BY DEF BytesOf
<1>2. n \in Nat /\ DOMAIN s = 1..n
  OBVIOUS
<1>. HIDE DEF n
<1>3. \A i \in 1..n : s[i] \in ToSet(s)
  BY <1>2 DEF ToSet
<1>4. f \in [1..n -> Nat] /\ \A i \in 1..n : f[i] <= b /\ f[i] = BodySize[s[i]]
  BY <1>3, CommitAssumption
<1>. HIDE DEF f
<1>5. SumsUp(g, n, f)
  <2>1. PICK h : SumsUp(h, n, f)
    BY <1>2, <1>4, SumExists
  <2>2. h = [i \in 0..n |-> IF i = 0 THEN 0 ELSE h[i - 1] + f[i]]
    BY <2>1 DEF SumsUp
  <2>3. \A x : [i \in 0..n |-> IF i = 0 THEN 0 ELSE x[i - 1] + f[i]]
                   = [i \in 0..n |-> IF i = 0 THEN 0 ELSE x[i - 1] + BodySize[s[i]]]
    BY <1>2, <1>4
  <2>4. h = [i \in 0..n |-> IF i = 0 THEN 0 ELSE h[i - 1] + BodySize[s[i]]]
    BY <2>2, <2>3
  <2>5. g = [i \in 0..n |-> IF i = 0 THEN 0 ELSE g[i - 1] + BodySize[s[i]]]
    BY <2>4
  <2>. HIDE DEF g
  <2>. QED BY <2>3, <2>5 DEF SumsUp
<1>. HIDE DEF g
<1>6. g[n] \in Nat /\ g[n] <= n * b
  BY <1>2, <1>4, <1>5, SumWithin
<1>. QED BY <1>1, <1>6 DEF n

\* commit_chunk_size: as many of the largest bodies as the limit takes, or one.
LEMMA ChunkSizeFits ==
    ASSUME NEW b \in Nat, NEW l \in Nat, l <= CommitChunkSize(b)
    PROVE  l <= 1 \/ (l <= CommitMaxCount /\ l * b <= CommitMaxBytes)
<1>. DEFINE m == Max2(1, b)
            d == CommitMaxBytes \div m
<1>0. CommitMaxBytes \in Nat \ {0} /\ CommitMaxCount \in Nat \ {0}
  BY CommitAssumption
<1>1. m \in Nat \ {0} /\ b <= m
  BY DEF Max2
<1>. HIDE DEF m
<1>2. d \in Nat /\ d * m <= CommitMaxBytes
  BY <1>0, <1>1, DivBounds
<1>3. CommitChunkSize(b) = Max2(1, Min2(CommitMaxCount, d))
  BY DEF CommitChunkSize, d, m
<1>. HIDE DEF d
<1>. SUFFICES ASSUME ~(l <= 1) PROVE l <= CommitMaxCount /\ l * b <= CommitMaxBytes
  OBVIOUS
<1>4. l <= CommitMaxCount /\ l <= d
  BY <1>0, <1>2, <1>3 DEF Max2, Min2
<1>5. l * m \in Int /\ d * m \in Int /\ l * m <= d * m
  BY <1>1, <1>2, <1>4, Multiples
<1>6. l * b <= l * m /\ l * b \in Int
  <2>1. b * l <= m * l /\ b * l \in Int
    BY <1>1, Multiples
  <2>2. b * l = l * b /\ m * l = l * m
    BY <1>1
  <2>. QED BY <2>1, <2>2
<1>. DEFINE x == l * b
            y == l * m
            z == d * m
<1>7. x <= y /\ y <= z /\ z <= CommitMaxBytes /\ x \in Int /\ y \in Int /\ z \in Int
  BY <1>2, <1>5, <1>6
<1>. HIDE DEF x, y, z
<1>8. x <= CommitMaxBytes
  BY <1>0, <1>7
<1>. QED BY <1>4, <1>8 DEF x

\* commit_chunk_size, with the max_body_bytes that the state carries from run to
\* run: no deferred receive asks for more than the limits, unless for one message.
THEOREM CallsFit == Spec => []ChunksFit
<1>1. Init => SizeInv /\ LengthInv
  <2>1. ASSUME Init PROVE SizeInv
    <3>1. row \in Rows /\ saved = row.saved /\ carried = [g \in Groups |-> Nothing] /\ draft = NoDraft
      BY <2>1 DEF Init
    <3>2. \A g \in Groups : \A q \in Cover(row.saved[g].ranges) : BodySize[q] <= row.saved[g].maxBody
      BY <3>1, RowsAssumption
    <3>3. Cover(<<>>) = {}
      BY DEF Cover, ToSet
    <3>. QED BY <3>1, <3>2, <3>3 DEF SizeInv, Nothing, NoDraft
  <2>2. Init => LengthInv
    BY DEF Init, LengthInv
  <2>. QED BY <2>1, <2>2
<1>2. IInv /\ SizeInv /\ LengthInv /\ [Next]_vars => SizeInv' /\ LengthInv'
  BY SizeStep, LengthStep DEF IInv
<1>3. ASSUME IInv, SizeInv, LengthInv PROVE ChunksFit
  <2>. SUFFICES ASSUME pc = "call"
                PROVE  Len(calls[1]) = 1 \/ (Len(calls[1]) <= CommitMaxCount /\ BytesOf(calls[1]) <= CommitMaxBytes)
    BY DEF ChunksFit
  <2>. DEFINE s == calls[1]
              b == saved[at].maxBody
  <2>1. calls # <<>> /\ at \in Groups /\ b \in Nat /\ Queue(calls)
        /\ Cuts(chunks, {q \in Cover(saved[at].ranges) : q >= nextSeq})
    BY <1>3 DEF IInv, ChunkInv, RunInv, Committing, StateInv, QueueInv
  <2>2. s \in Seq(Int) /\ s # <<>> /\ Len(s) <= CommitChunkSize(b)
    <3>1. 1 \in DOMAIN calls /\ s \in Seq(Int) /\ s # <<>>
      BY <2>1, QueueFacts
    <3>. QED BY <1>3, <3>1 DEF LengthInv, Short
  <2>3. ToSet(s) \subseteq Cover(saved[at].ranges) /\ ToSet(s) \subseteq Seqs
    <3>1. ToSet(s) \subseteq Asked(chunks) /\ ToSet(s) \subseteq Seqs
      BY <1>3, <2>1, FirstCall DEF IInv
    <3>2. Asked(chunks) \subseteq Cover(saved[at].ranges)
      BY <2>1, CutsQueue
    <3>. QED BY <3>1, <3>2
  <2>4. \A q \in ToSet(s) : BodySize[q] <= b
    BY <1>3, <2>1, <2>3 DEF SizeInv
  <2>. HIDE DEF s, b
  <2>5. Len(s) \in Nat /\ Len(s) # 0
    BY <2>2
  <2>6. BytesOf(s) <= Len(s) * b /\ BytesOf(s) \in Int
    <3>1. BytesOf(s) <= Len(s) * b
      BY <2>1, <2>2, <2>3, <2>4, BytesWithin
    <3>2. BytesOf(s) \in Int
      BY <2>1, <2>2, <2>3, <2>4, BytesWithin
    <3>. QED BY <3>1, <3>2
  <2>7. Len(s) <= 1 \/ (Len(s) <= CommitMaxCount /\ Len(s) * b <= CommitMaxBytes)
    BY <2>1, <2>2, <2>5, ChunkSizeFits
  <2>8. Len(s) * b \in Int /\ CommitMaxBytes \in Int
    BY <2>1, <2>5, Multiples, CommitAssumption
  <2>. DEFINE l == Len(s)
              p == Len(s) * b
              y == BytesOf(s)
  <2>9. l \in Nat /\ l # 0 /\ y <= p /\ y \in Int /\ p \in Int /\ (l <= 1 \/ (l <= CommitMaxCount /\ p <= CommitMaxBytes))
    BY <2>5, <2>6, <2>7, <2>8
  <2>. HIDE DEF l, p, y
  <2>10. l = 1 \/ (l <= CommitMaxCount /\ y <= CommitMaxBytes)
    BY <2>8, <2>9
  <2>. QED BY <2>10 DEF l, y, s
<1>. QED BY <1>1, <1>2, <1>3, InvHolds, PTL DEF Spec

(***************************************************************************)
(* What the scan leaves behind.                                            *)
(***************************************************************************)

\* A plain entity: pages come in sequence order, and the K rule applies.
InSequence == ~partitioned /\ ~row.subQueue

\* The never-delivered messages that a peek shows.
Fresh == {k \in Present : place[k] = "fresh"}

\* Messages up to x that qualify one after the other: no deferral between them, or
\* between them and x.
QualifyingRun(F, x) ==
    /\ F \subseteq Fresh /\ \A k \in F : k <= x
    /\ \A d \in Deferrals(Present) : d < x => \A k \in F : d < k

\* Recovered, or why not; or the recovery is at it.
Handled(q) ==
    \/ q \in Drafted \cup guarded \cup unfound \cup Bad
    \/ pc = "recover" /\ q \in Asked(calls) \cup Asked(Tail(chunks)) \cup found

\* Every deferral in front of the next page is handled, and consecutive counts the
\* qualifying messages directly in front of it; once the K rule has stopped the
\* scan, K of them lie in front of what is not handled.
OrphanInv ==
    /\ pc \in {"open", "call", "committed"} => next = 1 /\ ~stopped /\ consecutive = 0
    /\ pc \in {"scan", "recover"} =>
          /\ stopped => InSequence
          /\ InSequence => \A q \in Deferrals(Present) :
                q < next \/ stopped => Handled(q) \/ (stopped /\ BehindK(q))
          /\ InSequence /\ ~stopped => \E F \in SUBSET Seqs :
                QualifyingRun(F, next) /\ (\A k \in F : k < next) /\ Cardinality(F) = consecutive
    /\ NoOrphanMissed

\* A finite set has a subset of every smaller size.
LEMMA SubsetOfSize ==
    ASSUME NEW S, IsFiniteSet(S), NEW k \in Nat, k <= Cardinality(S)
    PROVE  \E T \in SUBSET S : IsFiniteSet(T) /\ Cardinality(T) = k
<1>. DEFINE n == Cardinality(S)
<1>1. n \in Nat /\ ExistsBijection(1..n, S)
  BY FS_CardinalityType
<1>2. PICK f \in Bijection(1..n, S) : TRUE
  BY <1>1 DEF ExistsBijection
<1>. HIDE DEF n
<1>3. f \in [1..n -> S] /\ \A i, j \in 1..n : f[i] = f[j] => i = j
  BY <1>2 DEF Bijection, Injection, IsInjective
<1>4. k <= n
  BY DEF n
<1>. DEFINE T == {f[i] : i \in 1..k}
            g == [i \in 1..k |-> f[i]]
<1>5. 1..k \subseteq 1..n
  BY <1>1, <1>4
<1>6. T \subseteq S
  BY <1>3, <1>5
<1>7. g \in Bijection(1..k, T)
  <2>1. g \in [1..k -> T] /\ \A i \in 1..k : g[i] = f[i]
    OBVIOUS
  <2>2. \A t \in T : \E i \in 1..k : g[i] = t
    BY <2>1
  <2>. HIDE DEF g, T
  <2>3. \A i, j \in 1..k : g[i] = g[j] => i = j
    BY <1>3, <1>5, <2>1
  <2>4. DOMAIN g = 1..k
    BY <2>1
  <2>. QED BY <2>1, <2>2, <2>3, <2>4 DEF Bijection, Injection, Surjection, IsInjective
<1>8. ExistsBijection(1..k, T)
  BY <1>7 DEF ExistsBijection
<1>9. IsFiniteSet(T) /\ Cardinality(T) = k
  BY <1>8, FS_NatBijection, FS_CountingElements
<1>. QED BY <1>6, <1>9

\* Sequence numbers are positive, and sets of them finite.
LEMMA SeqsAreNumbers ==
    /\ \A q \in Seqs : q \in Nat \ {0}
    /\ \A S \in SUBSET Seqs : IsFiniteSet(S) /\ Cardinality(S) \in Nat
<1>1. \A q \in Seqs : q \in Nat \ {0}
  BY CommitAssumption
<1>2. \A S \in SUBSET Seqs : IsFiniteSet(S) /\ Cardinality(S) \in Nat
  BY CommitAssumption, FS_Subset, FS_CardinalityType
<1>. QED BY <1>1, <1>2

\* K qualifying messages or more in front of q.
LEMMA RunIsInFront ==
    ASSUME NEW F \in SUBSET Seqs, NEW x \in Nat, QualifyingRun(F, x), Cardinality(F) >= K,
           NEW q \in Nat, x < q, \A d \in Deferrals(Present) : d # x
    PROVE  BehindK(q)
<1>1. K \in Nat \ {0}
  BY RowsAssumption
<1>2. IsFiniteSet(F) /\ Cardinality(F) \in Nat /\ \A k \in F : k \in Nat
  BY SeqsAreNumbers
<1>3. PICK T \in SUBSET F : IsFiniteSet(T) /\ Cardinality(T) = K
  BY <1>1, <1>2, SubsetOfSize
<1>4. T # {}
  BY <1>1, <1>3, FS_EmptySet
<1>5. T \subseteq Nat
  BY <1>2
<1>6. Max(T) \in T
  BY <1>3, <1>4, <1>5, GreatestNumber
<1>7. Min(T) \in T
  <2>1. \E a \in T : \A b \in T : a <= b
    BY <1>4, <1>5, LeastNatural
  <2>. QED BY <2>1 DEF Min
<1>8. ASSUME NEW d \in Deferrals(Present) PROVE d < Min(T) \/ d > Max(T)
  <2>1. d \in Nat /\ d # x
    BY <1>8, SeqsAreNumbers DEF Deferrals, Present
  <2>2. CASE d < x
    BY <1>6, <1>7, <2>2 DEF QualifyingRun
  <2>3. CASE d > x
    <3>1. Max(T) \in Nat /\ Max(T) <= x
      BY <1>5, <1>6 DEF QualifyingRun
    <3>. HIDE DEF Max
    <3>. QED BY <2>1, <2>3, <3>1
  <2>. QED BY <2>1, <2>2, <2>3
<1>9. \A k \in T : k \in Present /\ place[k] = "fresh" /\ k < q
  <2>1. \A k \in T : k \in Fresh /\ k \in Nat /\ k <= x
    BY <1>5 DEF QualifyingRun
  <2>. QED BY <2>1 DEF Fresh
<1>10. T \in SUBSET {k \in Present : place[k] = "fresh" /\ k < q}
  BY <1>9
<1>. QED BY <1>3, <1>8, <1>10 DEF BehindK

\* A step that defers nothing and delivers nothing.
LEMMA RunsStay ==
    ASSUME \A q \in Seqs : place'[q] = "deferred" => place[q] = "deferred",
           \A q \in Seqs : place[q] = "fresh" <=> place'[q] = "fresh"
    PROVE  /\ Fresh' = Fresh /\ Deferrals(Present)' \subseteq Deferrals(Present)
           /\ \A F, x : QualifyingRun(F, x) => QualifyingRun(F, x)'
           /\ \A q : BehindK(q) => BehindK(q)'
<1>1. Fresh' = Fresh
  BY DEF Fresh, Present, Own
<1>2. Deferrals(Present)' \subseteq Deferrals(Present)
  BY DEF Deferrals, Present, Own
<1>3. \A F, x : QualifyingRun(F, x) => QualifyingRun(F, x)'
  BY <1>1, <1>2 DEF QualifyingRun
<1>4. ASSUME NEW q, BehindK(q) PROVE BehindK(q)'
  <2>1. PICK F \in SUBSET {k \in Present : place[k] = "fresh" /\ k < q} :
            Cardinality(F) = K /\ \A d \in Deferrals(Present) : d < Min(F) \/ d > Max(F)
    BY <1>4 DEF BehindK
  <2>2. {k \in Present : place[k] = "fresh" /\ k < q}' = {k \in Present : place[k] = "fresh" /\ k < q}
    <3>1. \A k : k \in Fresh /\ k < q <=> k \in Present /\ place[k] = "fresh" /\ k < q
      BY DEF Fresh
    <3>2. \A k : k \in Fresh' /\ k < q <=> k \in Present' /\ place'[k] = "fresh" /\ k < q
      BY DEF Fresh
    <3>. QED BY <1>1, <3>1, <3>2
  <2>3. \A d \in Deferrals(Present)' : d < Min(F) \/ d > Max(F)
    BY <1>2, <2>1
  <2>. QED BY <2>1, <2>2, <2>3 DEF BehindK
<1>. QED BY <1>1, <1>2, <1>3, <1>4

\* So a step of the scan keeps the invariant if it keeps what is handled.
LEMMA OrphansStay ==
    ASSUME OrphanInv, UNCHANGED <<row, mode, partitioned, next, stopped, consecutive, warnings>>,
           pc' = pc \/ (pc = "recover" /\ pc' = "scan"),
           \A q \in Seqs : place'[q] = "deferred" => place[q] = "deferred",
           \A q \in Seqs : place[q] = "fresh" <=> place'[q] = "fresh",
           Drafted \subseteq Drafted', guarded \subseteq guarded', unfound \subseteq unfound',
           \A q \in Seqs : Handled(q) /\ place'[q] = "deferred" => Handled(q)'
    PROVE  OrphanInv'
<1>1. /\ Deferrals(Present)' \subseteq Deferrals(Present)
      /\ \A F, x : QualifyingRun(F, x) => QualifyingRun(F, x)'
      /\ \A q : BehindK(q) => BehindK(q)'
  BY RunsStay
<1>2. InSequence' = InSequence
  BY DEF InSequence
<1>3. \A q \in Deferrals(Present)' : q \in Seqs /\ place'[q] = "deferred"
  BY DEF Deferrals, Present
<1>4. pc' \in {"open", "call", "committed"} => next' = 1 /\ ~stopped' /\ consecutive' = 0
  BY DEF OrphanInv
<1>5. ASSUME pc' \in {"scan", "recover"}
      PROVE  /\ stopped' => InSequence'
             /\ InSequence' => \A q \in Deferrals(Present)' :
                   q < next' \/ stopped' => Handled(q)' \/ (stopped' /\ BehindK(q)')
             /\ InSequence' /\ ~stopped' => \E F \in SUBSET Seqs :
                   QualifyingRun(F, next)' /\ (\A k \in F : k < next') /\ Cardinality(F) = consecutive'
  <2>1. pc \in {"scan", "recover"}
    BY <1>5
  <2>2. /\ stopped => InSequence
        /\ InSequence => \A q \in Deferrals(Present) :
              q < next \/ stopped => Handled(q) \/ (stopped /\ BehindK(q))
        /\ InSequence /\ ~stopped => \E F \in SUBSET Seqs :
              QualifyingRun(F, next) /\ (\A k \in F : k < next) /\ Cardinality(F) = consecutive
    BY <2>1 DEF OrphanInv
  <2>3. ASSUME NEW q \in Deferrals(Present)', InSequence', q < next' \/ stopped'
        PROVE  Handled(q)' \/ (stopped' /\ BehindK(q)')
    <3>1. q \in Deferrals(Present) /\ q \in Seqs /\ place'[q] = "deferred"
      BY <1>1, <1>3
    <3>2. Handled(q) \/ (stopped /\ BehindK(q))
      BY <1>2, <2>2, <2>3, <3>1
    <3>. QED BY <1>1, <3>1, <3>2
  <2>4. ASSUME InSequence', ~stopped'
        PROVE  \E F \in SUBSET Seqs :
                   QualifyingRun(F, next)' /\ (\A k \in F : k < next') /\ Cardinality(F) = consecutive'
    <3>1. PICK F \in SUBSET Seqs :
              QualifyingRun(F, next) /\ (\A k \in F : k < next) /\ Cardinality(F) = consecutive
      BY <1>2, <2>2, <2>4
    <3>2. QualifyingRun(F, next)'
      BY <1>1, <3>1 DEF QualifyingRun
    <3>. QED BY <3>1, <3>2
  <2>. QED BY <1>2, <2>2, <2>3, <2>4
<1>6. NoOrphanMissed'
  <2>1. CASE pc' = "receive"
    <3>1. NoOrphanMissed /\ pc = "receive"
      BY <2>1 DEF OrphanInv
    <3>. QED BY <1>1, <3>1 DEF NoOrphanMissed
  <2>2. CASE pc' # "receive"
    BY <2>2 DEF NoOrphanMissed
  <2>. QED BY <2>1, <2>2
<1>. QED BY <1>4, <1>5, <1>6 DEF OrphanInv

\* A page is the next messages: what is not in it comes after it.
LEMMA PageIsNext ==
    ASSUME NEW P \in SUBSET Seqs, P \subseteq Ahead, P # {}, IsPage(P), ~partitioned,
           NEW q \in Present, q >= next, q <= Max(P)
    PROVE  q \in P
<1>1. q \in Ahead
  BY DEF Ahead
<1>2. q \in Nat /\ Max(P) \in P /\ Max(P) \in Nat
  BY PageEnd, SeqsAreNumbers DEF Present
<1>3. q \notin P => Max(P) < q
  BY <1>1, <1>2 DEF IsPage
<1>. HIDE DEF Max
<1>. QED BY <1>2, <1>3

\* The qualifying messages that ConsecutiveAt counts, some of them of the pages before.
LEMMA RunInPage ==
    ASSUME NEW P \in SUBSET Seqs, P \subseteq Ahead, P # {}, IsPage(P), ~partitioned, next \in Nat,
           NEW F \in SUBSET Seqs, QualifyingRun(F, next), \A k \in F : k < next, Cardinality(F) = consecutive,
           NEW x \in Nat, next <= x, x <= Max(P) + 1
    PROVE  \E G \in SUBSET Seqs :
               QualifyingRun(G, x) /\ G \subseteq F \cup P /\ Cardinality(G) = ConsecutiveAt(P, x)
<1>. DEFINE since == {d \in Deferrals(P) : d < x}
            run == {k \in P : k <= x /\ Qualifies(P, k) /\ \A d \in since : d < k}
            before == IF since = {} THEN F ELSE {}
            G == run \cup before
<1>1. ConsecutiveAt(P, x) = Cardinality(run) + (IF since = {} THEN consecutive ELSE 0)
  BY DEF ConsecutiveAt
<1>2. \A k \in P : k \in Nat /\ k >= next /\ k \in Present
  BY PageEnd DEF Ahead
<1>3. \A k \in run : k \in P /\ k <= x /\ k \in Fresh /\ (\A d \in since : d < k) /\ ~(k < next) /\ k \in Nat
  BY <1>2 DEF Qualifies, Fresh
<1>4. \A k \in before : k \in F /\ k <= x /\ k \in Fresh /\ k < next /\ since = {}
  <2>1. \A k \in F : k \in Nat /\ k < next /\ k \in Fresh
    BY SeqsAreNumbers DEF QualifyingRun
  <2>. QED BY <2>1
<1>5. ASSUME NEW d \in Deferrals(Present), d < x, NEW k \in G PROVE d < k
  <2>1. d \in Present /\ d \in Seqs /\ d \in Nat /\ place[d] = "deferred"
    BY <1>5, SeqsAreNumbers DEF Deferrals, Present
  <2>2. CASE d < next
    <3>1. CASE k \in run
      BY <1>3, <2>1, <2>2, <3>1
    <3>2. CASE k \in before
      BY <1>4, <1>5, <2>2, <3>2 DEF QualifyingRun
    <3>. QED BY <1>5, <3>1, <3>2
  <2>3. CASE ~(d < next)
    <3>1. d <= Max(P)
      <4>1. Max(P) \in Nat
        BY PageEnd
      <4>. HIDE DEF Max
      <4>. QED BY <1>5, <2>1, <4>1
    <3>2. d \in P
      BY <2>1, <2>3, <3>1, PageIsNext
    <3>3. d \in since
      BY <1>5, <2>1, <3>2 DEF Deferrals
    <3>4. k \in run
      BY <1>5, <3>3
    <3>. QED BY <1>3, <3>3, <3>4
  <2>. QED BY <2>2, <2>3
<1>6. G \subseteq Fresh /\ (\A k \in G : k <= x) /\ G \subseteq F \cup P /\ G \in SUBSET Seqs
  BY <1>3, <1>4
<1>7. QualifyingRun(G, x)
  BY <1>5, <1>6 DEF QualifyingRun
<1>8. Cardinality(G) = ConsecutiveAt(P, x)
  <2>1. run \in SUBSET Seqs /\ before \in SUBSET Seqs
    BY <1>3, <1>4
  <2>2. run \cap before = {}
    BY <1>3, <1>4
  <2>3. Cardinality(before) = IF since = {} THEN consecutive ELSE 0
    BY FS_EmptySet
  <2>. HIDE DEF run, before, since
  <2>4. /\ IsFiniteSet(run) /\ IsFiniteSet(before)
        /\ Cardinality(run) \in Nat /\ Cardinality(before) \in Nat
    BY <2>1, SeqsAreNumbers
  <2>5. Cardinality(G) = Cardinality(run) + Cardinality(before) - Cardinality({})
    BY <2>2, <2>4, FS_Union
  <2>6. Cardinality({}) = 0
    BY FS_EmptySet
  <2>7. Cardinality(G) = Cardinality(run) + Cardinality(before)
    <3>. DEFINE a == Cardinality(run)
                b == Cardinality(before)
                c == Cardinality(G)
    <3>1. a \in Nat /\ b \in Nat /\ c = a + b - 0
      BY <2>4, <2>5, <2>6
    <3>. HIDE DEF a, b, c
    <3>2. c = a + b
      BY <3>1
    <3>. QED BY <3>2 DEF a, b, c
  <2>. QED BY <1>1, <2>3, <2>7
<1>. HIDE DEF G
<1>. QED BY <1>6, <1>7, <1>8

\* A page: the deferrals it reaches are guarded or recovered, and the ones it does
\* not reach lie behind K qualifying messages.
LEMMA PageOrphans ==
    ASSUME OrphanInv, ScanTypes, QueueInv, pc = "scan", ~stopped, UNCHANGED <<row, place, draft, unfound>>,
           NEW P \in SUBSET Seqs, PageRead(P)
    PROVE  OrphanInv'
<1>. DEFINE O == {q \in Reached(P) : place[q] = "deferred" /\ dc[q] < GuardThreshold}
            end == Max(P) + 1
<1>1. /\ P \subseteq Ahead /\ P # {} /\ IsPage(P)
      /\ guarded' = guarded \cup (Deferrals(Reached(P)) \ O)
      /\ partitioned' = (partitioned \/ \E q \in Reached(P) : Reveals(q))
      /\ consecutive' = IF Stops(P) # {} THEN K ELSE ConsecutiveAt(P, end)
      /\ stopped' = (Stops(P) # {}) /\ next' = end
      /\ IF RecoveryCalls(O) = <<>> THEN UNCHANGED <<pc, call>>
         ELSE pc' = "recover" /\ chunks' = RecoveryCalls(O) /\ calls' = <<RecoveryCalls(O)[1]>>
  BY DEF PageRead
<1>2. pc' \in {"scan", "recover"}
  BY <1>1
<1>3. Drafted' = Drafted
  BY DEF Drafted
<1>4. ASSUME NEW q, Handled(q) \/ q \in Deferrals(Reached(P)) PROVE Handled(q)'
  <2>1. O \subseteq Seqs
    BY DEF Reached
  <2>2. CASE Handled(q)
    <3>1. q \in Drafted \cup guarded \cup unfound \cup Bad
      BY <2>2 DEF Handled
    <3>. QED BY <1>1, <1>3, <3>1 DEF Handled
  <2>3. CASE q \in Deferrals(Reached(P)) \ O
    BY <1>1, <2>3 DEF Handled
  <2>4. CASE q \in O
    <3>. HIDE DEF O
    <3>1. Queue(RecoveryCalls(O)) /\ Asked(RecoveryCalls(O)) = O
      BY <2>1, RecoveryCallsQueue
    <3>2. RecoveryCalls(O) # <<>>
      BY <2>4, <3>1, QueueNone
    <3>3. chunks' = RecoveryCalls(O) /\ calls' = <<RecoveryCalls(O)[1]>> /\ pc' = "recover"
      BY <1>1, <3>2
    <3>. DEFINE todo == RecoveryCalls(O)
    <3>4. todo[1] \in Seq(Int) /\ todo[1] # <<>> /\ Distinct(todo[1])
      BY <3>1, <3>2, QueueFacts
    <3>5. Asked(<<todo[1]>>) = ToSet(todo[1])
      BY <3>4, QueueOne
    <3>6. Asked(Tail(todo)) = O \ ToSet(todo[1])
      BY <3>1, <3>2, QueueTail
    <3>7. q \in Asked(calls') \cup Asked(Tail(chunks'))
      BY <2>4, <3>3, <3>5, <3>6
    <3>. QED BY <3>3, <3>7 DEF Handled
  <2>. QED BY <1>4, <2>2, <2>3, <2>4
<1>. HIDE DEF O
<1>5. Deferrals(Present)' = Deferrals(Present) /\ (\A q : BehindK(q) => BehindK(q)')
      /\ (\A F, x : QualifyingRun(F, x) => QualifyingRun(F, x)')
  <2>1. Deferrals(Present)' = Deferrals(Present)
    BY DEF Deferrals, Present, Own
  <2>2. /\ \A q : BehindK(q) => BehindK(q)'
        /\ \A F, x : QualifyingRun(F, x) => QualifyingRun(F, x)'
    BY RunsStay
  <2>. QED BY <2>1, <2>2
<1>6. next \in Nat /\ Max(P) \in P /\ Max(P) \in Nat /\ \A q \in P : q \in Nat /\ q <= Max(P)
  BY <1>1, PageEnd DEF ScanTypes
<1>7. \A q \in Deferrals(Present) : q \in Present /\ q \in Seqs /\ q \in Nat /\ place[q] = "deferred"
  BY SeqsAreNumbers DEF Deferrals, Present
<1>. DEFINE m == Max(P)
<1>8. ~partitioned => m >= next /\ \A q \in P : q >= next
  BY <1>1, <1>6 DEF Ahead
<1>9. InSequence => /\ \A q \in Deferrals(Present) : q < next => Handled(q)
                    /\ \E F \in SUBSET Seqs :
                          QualifyingRun(F, next) /\ (\A k \in F : k < next) /\ Cardinality(F) = consecutive
  BY DEF OrphanInv
<1>10. ASSUME InSequence, NEW q \in Deferrals(Present), q <= m, q \in P => q \in Reached(P) PROVE Handled(q)'
  <2>1. CASE q < next
    BY <1>4, <1>9, <1>10, <2>1
  <2>2. CASE ~(q < next)
    <3>1. q >= next
      BY <1>6, <1>7, <2>2
    <3>2. q \in P
      BY <1>1, <1>7, <1>10, <3>1, PageIsNext DEF InSequence
    <3>3. q \in Deferrals(Reached(P))
      BY <1>7, <1>10, <3>2 DEF Deferrals
    <3>. QED BY <1>4, <3>3
  <2>. QED BY <2>1, <2>2
<1>11. ASSUME Stops(P) = {}, InSequence'
       PROVE  /\ \A q \in Deferrals(Present)' : q < next' \/ stopped' => Handled(q)'
              /\ \E F \in SUBSET Seqs :
                    QualifyingRun(F, next)' /\ (\A k \in F : k < next') /\ Cardinality(F) = consecutive'
  <2>1. InSequence /\ ~partitioned
    BY <1>1, <1>11 DEF InSequence
  <2>2. Reached(P) = P
    BY <1>11 DEF Reached
  <2>3. next' = m + 1 /\ ~stopped' /\ consecutive' = ConsecutiveAt(P, m + 1)
    BY <1>1, <1>11
  <2>4. PICK F \in SUBSET Seqs :
            QualifyingRun(F, next) /\ (\A k \in F : k < next) /\ Cardinality(F) = consecutive
    BY <1>9, <2>1
  <2>5. m + 1 \in Nat /\ next <= m + 1 /\ m + 1 <= Max(P) + 1
    <3>. HIDE DEF Max
    <3>. QED BY <1>6, <1>8, <2>1
  <2>6. PICK G \in SUBSET Seqs :
            QualifyingRun(G, m + 1) /\ G \subseteq F \cup P /\ Cardinality(G) = ConsecutiveAt(P, m + 1)
    BY <1>1, <1>6, <2>1, <2>4, <2>5, RunInPage
  <2>. HIDE DEF m
  <2>7. m \in Nat /\ m >= next /\ \A k \in P : k \in Nat /\ k <= m
    BY <1>6, <1>8, <2>1 DEF m
  <2>8. \A k \in G : k < next'
    <3>1. \A k \in F : k \in Nat /\ k < next
      BY <2>4, SeqsAreNumbers
    <3>. QED BY <1>6, <2>3, <2>6, <2>7, <3>1
  <2>9. QualifyingRun(G, next)'
    BY <1>5, <2>3, <2>6 DEF QualifyingRun
  <2>10. ASSUME NEW q \in Deferrals(Present)', q < next' PROVE Handled(q)'
    <3>1. q \in Deferrals(Present) /\ q \in Nat
      BY <1>5, <1>7
    <3>2. q <= m
      BY <2>3, <2>7, <2>10, <3>1
    <3>. QED BY <1>10, <2>1, <2>2, <3>1, <3>2
  <2>. QED BY <2>3, <2>6, <2>8, <2>9, <2>10
<1>12. ASSUME Stops(P) # {}
       PROVE  InSequence' /\ \A q \in Deferrals(Present)' : Handled(q)' \/ BehindK(q)'
  <2>. DEFINE s == CHOOSE x \in Stops(P) : \A y \in Stops(P) : x <= y
  <2>1. s \in Stops(P) /\ \A y \in Stops(P) : s <= y
    <3>1. Stops(P) \subseteq Nat
      BY <1>6 DEF Stops
    <3>2. \E x \in Stops(P) : \A y \in Stops(P) : x <= y
      BY <1>12, <3>1, LeastNatural
    <3>. QED BY <3>2
  <2>. HIDE DEF s
  <2>2. s \in P /\ Qualifies(P, s) /\ ConsecutiveAt(P, s) >= K /\ s \in Nat
    BY <1>6, <2>1 DEF Stops
  <2>3. place[s] = "fresh" /\ ~partitioned /\ ~row.subQueue /\ \A k \in P : k <= s => ~Reveals(k)
    BY <2>2 DEF Qualifies, BestEffort
  <2>4. \A q \in P : q \in Reached(P) <=> q <= s
    <3>1. \A y \in Stops(P) : y \in Nat /\ s <= y
      BY <1>6, <2>1 DEF Stops
    <3>2. \A q \in P : q \in Reached(P) => q <= s
      BY <2>1 DEF Reached
    <3>3. \A q \in P : q <= s => q \in Reached(P)
      BY <1>6, <2>2, <3>1 DEF Reached
    <3>. QED BY <3>2, <3>3
  <2>5. InSequence /\ InSequence'
    <3>1. ~partitioned'
      <4>1. \A q \in Reached(P) : q \in P
        BY DEF Reached
      <4>. QED BY <1>1, <2>3, <2>4, <4>1
    <3>. QED BY <2>3, <3>1 DEF InSequence
  <2>6. PICK F \in SUBSET Seqs :
            QualifyingRun(F, next) /\ (\A k \in F : k < next) /\ Cardinality(F) = consecutive
    BY <1>9, <2>5
  <2>7. s <= Max(P) + 1 /\ next <= s /\ s <= m
    <3>1. s <= Max(P) /\ s >= next
      BY <1>6, <1>8, <2>2, <2>3
    <3>. HIDE DEF Max
    <3>. QED BY <1>6, <2>2, <3>1
  <2>8. PICK G \in SUBSET Seqs : QualifyingRun(G, s) /\ Cardinality(G) = ConsecutiveAt(P, s)
    BY <1>1, <1>6, <2>2, <2>3, <2>6, <2>7, RunInPage
  <2>9. \A d \in Deferrals(Present) : d # s
    BY <1>7, <2>3
  <2>10. ASSUME NEW q \in Deferrals(Present)' PROVE Handled(q)' \/ BehindK(q)'
    <3>1. q \in Deferrals(Present) /\ q \in Nat
      BY <1>5, <1>7
    <3>2. CASE q <= s
      <4>1. q <= m
        <5>. HIDE DEF m
        <5>1. m \in Nat
          BY <1>6 DEF m
        <5>. QED BY <2>2, <2>7, <3>1, <3>2, <5>1
      <4>. QED BY <1>10, <2>4, <2>5, <3>1, <3>2, <4>1
    <3>3. CASE ~(q <= s)
      <4>1. s < q
        BY <2>2, <3>1, <3>3
      <4>2. Cardinality(G) >= K
        BY <2>2, <2>8
      <4>3. BehindK(q)
        BY <2>2, <2>8, <2>9, <3>1, <4>1, <4>2, RunIsInFront
      <4>. QED BY <1>5, <4>3
    <3>. QED BY <3>2, <3>3
  <2>. QED BY <2>5, <2>10
<1>13. NoOrphanMissed'
  BY <1>2 DEF NoOrphanMissed
<1>14. CASE Stops(P) = {}
  <2>1. ~stopped'
    BY <1>1, <1>14
  <2>. HIDE DEF m, end
  <2>. QED BY <1>2, <1>11, <1>13, <1>14, <2>1 DEF OrphanInv
<1>15. CASE Stops(P) # {}
  <2>1. stopped'
    BY <1>1, <1>15
  <2>. HIDE DEF m, end
  <2>. QED BY <1>2, <1>12, <1>13, <1>15, <2>1 DEF OrphanInv
<1>. QED BY <1>14, <1>15

\* The recovery: what is asked for is received, or not there.
LEMMA RecoveryStep ==
    ASSUME BrokerInv, StateInv, QueueInv, ChunkInv, OrphanInv,
           RecoverCall \/ RecoverCallNotFound \/ RecoverCallFails \/ RecoverChunk
    PROVE  OrphanInv'
<1>. USE DEF scanVars, runVars, results
<1>1. pc = "recover" /\ UNCHANGED <<row, mode, partitioned, next, stopped, consecutive, guarded, warnings>>
  BY DEF RecoverCall, RecoverCallNotFound, RecoverCallFails, RecoverChunk
<1>2. chunks # <<>> /\ Queue(chunks) /\ Queue(calls)
  BY <1>1 DEF ChunkInv, QueueInv
<1>3. CASE pc' = "failed"
  BY <1>3 DEF OrphanInv, NoOrphanMissed
<1>4. ASSUME UNCHANGED <<place, draft, chunks>>, pc' = pc, unfound \subseteq unfound',
             Asked(calls) \cup found \subseteq Asked(calls') \cup found' \cup unfound'
      PROVE  OrphanInv'
  <2>1. Drafted' = Drafted
    BY <1>4 DEF Drafted
  <2>2. \A q \in Seqs : Handled(q) => Handled(q)'
    BY <1>1, <1>4, <2>1 DEF Handled
  <2>. QED BY <1>1, <1>4, <2>1, <2>2, OrphansStay
<1>5. CASE RecoverCall
  <2>1. /\ calls # <<>> /\ place' = place /\ draft' = draft /\ chunks' = chunks /\ pc' = pc /\ unfound' = unfound
        /\ found' = found \cup ToSet(calls[1]) /\ calls' = Tail(calls)
    BY <1>5 DEF RecoverCall, Locks
  <2>2. Asked(Tail(calls)) = Asked(calls) \ ToSet(calls[1])
    BY <1>2, <2>1, QueueTail
  <2>3. Asked(calls') = Asked(calls) \ ToSet(calls[1])
    BY <2>1, <2>2
  <2>. QED BY <1>4, <2>1, <2>3
<1>6. CASE RecoverCallNotFound
  <2>1. calls # <<>> /\ place' = place /\ draft' = draft /\ chunks' = chunks /\ pc' = pc /\ found' = found
    BY <1>6 DEF RecoverCallNotFound, broker
  <2>2. CASE Len(calls[1]) = 1
    <3>1. calls' = Tail(calls) /\ unfound' = unfound \cup ToSet(calls[1])
      BY <1>6, <2>2 DEF RecoverCallNotFound
    <3>2. Asked(calls') = Asked(calls) \ ToSet(calls[1])
      BY <1>2, <2>1, <3>1, QueueTail
    <3>. QED BY <1>4, <2>1, <3>1, <3>2
  <2>3. CASE Len(calls[1]) # 1
    <3>1. calls' = Halves(calls[1]) \o Tail(calls) /\ unfound' = unfound
      BY <1>6, <2>3 DEF RecoverCallNotFound
    <3>2. Asked(calls') = Asked(calls)
      BY <1>2, <2>1, <2>3, <3>1, QueueHalved
    <3>. QED BY <1>4, <2>1, <3>1, <3>2
  <2>. QED BY <2>2, <2>3
<1>7. CASE RecoverCallFails
  <2>1. UNCHANGED <<draft, chunks, calls, found, unfound>> /\ (pc' = pc \/ pc' = "failed")
    BY <1>7 DEF RecoverCallFails
  <2>2. place' = place
    BY <1>7 DEF RecoverCallFails, Locks, broker
  <2>. QED BY <1>3, <1>4, <2>1, <2>2
<1>8. CASE RecoverChunk
  <2>1. /\ calls = <<>> /\ OrphansProcessed(found) /\ chunks' = Tail(chunks)
        /\ unfound' = unfound
        /\ IF Len(chunks) = 1 THEN pc' = "scan" /\ calls' = <<>>
           ELSE calls' = <<chunks[2]>> /\ pc' = pc
    BY <1>8 DEF RecoverChunk
  <2>2. Drafted' = Drafted \cup (found \ Bad)
    <3>1. found \subseteq Seqs
      <4>1. FirstOf(chunks) \subseteq Asked(chunks)
        BY <1>2, QueueTail
      <4>. QED BY <4>1 DEF QueueInv
    <3>2. draft' = Drafting(found \ Bad) /\ found \ Bad \subseteq Seqs
      BY <2>1, <3>1 DEF OrphansProcessed
    <3>. QED BY <3>2, DraftedAdds
  <2>3. \A q \in Seqs : place'[q] = "deferred" => place[q] = "deferred"
    BY <2>1 DEF OrphansProcessed
  <2>4. \A q \in Seqs : place[q] = "fresh" <=> place'[q] = "fresh"
    <3>1. \A q \in locked : place[q] = "deferred"
      BY DEF BrokerInv
    <3>. QED BY <2>1, <3>1 DEF OrphansProcessed
  <2>5. Asked(calls) = {}
    BY <2>1, QueueNone
  <2>6. Asked(Tail(chunks)) # {} => pc' = "recover" /\ Asked(Tail(chunks)) \subseteq Asked(calls') \cup Asked(Tail(chunks'))
    <3>. DEFINE t == Tail(chunks)
    <3>1. /\ Queue(t) /\ Len(t) = Len(chunks) - 1
          /\ \A i \in DOMAIN t : t[i] = chunks[i + 1]
      BY <1>2, QueueTail
    <3>. HIDE DEF t
    <3>2. CASE t = <<>>
      BY <3>2, QueueNone DEF t
    <3>3. CASE t # <<>>
      <4>1. 1 \in DOMAIN t /\ Len(t) > 0 /\ Len(t) \in Nat
        BY <3>1, <3>3, QueueFacts
      <4>2. t[1] = chunks[2] /\ t[1] \in Seq(Int) /\ t[1] # <<>> /\ Distinct(t[1])
        BY <3>1, <4>1, QueueFacts
      <4>3. Len(chunks) # 1
        <5>1. Len(chunks) \in Nat
          BY <1>2, QueueFacts
        <5>. QED BY <3>1, <4>1, <5>1
      <4>4. pc' = "recover" /\ calls' = <<t[1]>> /\ chunks' = t
        BY <1>1, <2>1, <4>2, <4>3 DEF t
      <4>5. Asked(<<t[1]>>) = ToSet(t[1])
        BY <4>2, QueueOne
      <4>6. Asked(Tail(t)) = Asked(t) \ ToSet(t[1])
        BY <3>1, <3>3, QueueTail
      <4>7. Asked(calls') = ToSet(t[1]) /\ Asked(Tail(chunks')) = Asked(t) \ ToSet(t[1])
        BY <4>4, <4>5, <4>6
      <4>8. Asked(t) \subseteq Asked(calls') \cup Asked(Tail(chunks'))
        BY <4>7
      <4>. QED BY <4>4, <4>8 DEF t
    <3>. QED BY <3>2, <3>3
  <2>7. \A q \in Seqs : Handled(q) => Handled(q)'
    <3>1. ASSUME NEW q \in Seqs, Handled(q) PROVE Handled(q)'
      <4>1. CASE q \in Drafted \cup guarded \cup unfound \cup Bad
        BY <1>1, <2>1, <2>2, <4>1 DEF Handled
      <4>2. CASE q \in found
        BY <2>2, <4>2 DEF Handled
      <4>3. CASE q \in Asked(Tail(chunks))
        BY <2>6, <4>3 DEF Handled
      <4>. QED BY <2>5, <3>1, <4>1, <4>2, <4>3 DEF Handled
    <3>. QED BY <3>1
  <2>8. pc' = pc \/ (pc = "recover" /\ pc' = "scan")
    BY <1>1, <2>1
  <2>. QED BY <1>1, <2>1, <2>2, <2>3, <2>4, <2>7, <2>8, OrphansStay
<1>. QED BY <1>5, <1>6, <1>7, <1>8

\* The scan begins in front of the first message.
LEMMA ScanBegins ==
    ASSUME pc' = "scan", next' = 1, ~stopped', consecutive' = 0
    PROVE  OrphanInv'
<1>1. \A q \in Deferrals(Present)' : ~(q < next')
  <2>1. \A q \in Deferrals(Present)' : q \in Nat \ {0}
    BY SeqsAreNumbers DEF Deferrals, Present
  <2>. QED BY <2>1
<1>2. QualifyingRun({}, next)'
  BY DEF QualifyingRun
<1>3. Cardinality({}) = 0 /\ {} \in SUBSET Seqs
  BY FS_EmptySet
<1>4. \E F \in SUBSET Seqs :
          QualifyingRun(F, next)' /\ (\A k \in F : k < next') /\ Cardinality(F) = consecutive'
  BY <1>2, <1>3
<1>5. NoOrphanMissed'
  BY DEF NoOrphanMissed
<1>. QED BY <1>1, <1>4, <1>5 DEF OrphanInv

\* The scan ends: by the K rule, or at the end of a plain entity, or with a warning.
LEMMA ScanEnds ==
    ASSUME RunInv, ScanTypes, OrphanInv, ScanDone
    PROVE  OrphanInv'
<1>1. pc = "scan" /\ pc' = "receive"
      /\ UNCHANGED <<place, draft, guarded, unfound, row, mode, partitioned, next, stopped>>
  BY QuietSteps DEF ScanDone, Quiet
<1>2. ASSUME warnings' = {} PROVE InSequence /\ (stopped \/ \A q \in Deferrals(Present) : q < next)
  <2>1. CASE stopped
    BY <1>1, <2>1 DEF OrphanInv
  <2>2. CASE ~stopped
    <3>1. Ahead = {} /\ warnings' = BestEffortWarned
      BY <1>2, <2>2 DEF ScanDone
    <3>2. InSequence
      BY <1>2, <3>1 DEF BestEffortWarned, InSequence
    <3>3. \A q \in Present : ~(q >= next)
      BY <3>1, <3>2 DEF Ahead, InSequence
    <3>4. \A q \in Deferrals(Present) : q \in Present /\ q \in Nat /\ next \in Nat
      BY SeqsAreNumbers DEF Deferrals, Present, ScanTypes
    <3>. QED BY <3>2, <3>3, <3>4
  <2>. QED BY <2>1, <2>2
<1>3. Deferrals(Present)' = Deferrals(Present) /\ Drafted' = Drafted /\ \A q : BehindK(q) => BehindK(q)'
  <2>1. \A q : BehindK(q) => BehindK(q)'
    BY <1>1, RunsStay
  <2>. QED BY <1>1, <2>1 DEF Deferrals, Present, Own, Drafted
<1>4. NoOrphanMissed'
  <2>1. ASSUME warnings' = {}, NEW q \in Deferrals(Present)'
        PROVE  q \in Drafted' \cup guarded' \cup unfound' \cup Bad \/ BehindK(q)'
    <3>1. Handled(q) \/ BehindK(q)
      BY <1>1, <1>2, <1>3, <2>1 DEF OrphanInv
    <3>2. Handled(q) => q \in Drafted \cup guarded \cup unfound \cup Bad
      BY <1>1 DEF Handled
    <3>. QED BY <1>1, <1>3, <3>1, <3>2
  <2>. QED BY <2>1 DEF NoOrphanMissed
<1>. QED BY <1>1, <1>4 DEF OrphanInv

\* Every step keeps the invariant of the scan.
LEMMA OrphanStep ==
    ASSUME IInv, OrphanInv, [Next]_vars
    PROVE  OrphanInv'
<1>. USE DEF IInv
<1>1. CASE pc' \in {"idle", "failed", "finish"}
  BY <1>1 DEF OrphanInv, NoOrphanMissed
<1>2. ASSUME pc' \in {"open", "call", "committed"}, next' = 1, ~stopped', consecutive' = 0 PROVE OrphanInv'
  BY <1>2 DEF OrphanInv, NoOrphanMissed
<1>3. ASSUME pc' = pc, UNCHANGED <<row, mode, partitioned, next, stopped, consecutive, warnings, draft,
                                   guarded, unfound, chunks, calls, found>>,
             \A q \in Seqs : place'[q] = "deferred" => place[q] = "deferred",
             \A q \in Seqs : place[q] = "fresh" <=> place'[q] = "fresh"
      PROVE  OrphanInv'
  <2>1. Drafted' = Drafted
    BY <1>3 DEF Drafted
  <2>2. \A q \in Seqs : Handled(q) => Handled(q)'
    BY <1>3, <2>1 DEF Handled
  <2>. QED BY <1>3, <2>1, <2>2, OrphansStay
<1>4. CASE UNCHANGED vars
  BY <1>3, <1>4 DEF vars, broker, call, runVars, results, scanVars
<1>5. CASE \E q \in Seqs : LockLapses(q) \/ Expires(q)
  <2>1. PICK q \in Seqs : LockLapses(q) \/ Expires(q)
    BY <1>5
  <2>2. pc' = pc /\ UNCHANGED <<row, mode, partitioned, next, stopped, consecutive, warnings, draft,
                                guarded, unfound, chunks, calls, found>>
    BY <2>1 DEF LockLapses, Expires, call, runVars, results, scanVars
  <2>3. place[q] = "deferred" /\ place' \in {place, [place EXCEPT ![q] = "exhausted"], [place EXCEPT ![q] = "gone"]}
    <3>1. CASE LockLapses(q)
      <4>1. place[q] = "deferred"
        BY <3>1 DEF LockLapses, BrokerInv
      <4>2. place' = [place EXCEPT ![q] = IF dc[q] >= MaxDelivery THEN "exhausted" ELSE place[q]]
        BY <3>1 DEF LockLapses
      <4>3. [place EXCEPT ![q] = place[q]] = place
        BY DEF BrokerInv
      <4>. QED BY <4>1, <4>2, <4>3
    <3>2. CASE Expires(q)
      BY <3>2 DEF Expires
    <3>. QED BY <2>1, <3>1, <3>2
  <2>4. /\ \A k \in Seqs : place'[k] = "deferred" => place[k] = "deferred"
        /\ \A k \in Seqs : place[k] = "fresh" <=> place'[k] = "fresh"
    <3>1. place \in [Seqs -> {"deferred", "fresh", "used", "gone", "exhausted"}]
      BY DEF BrokerInv
    <3>. QED BY <2>3, <3>1
  <2>. QED BY <1>3, <2>2, <2>4
<1>6. CASE RecoverCall \/ RecoverCallNotFound \/ RecoverCallFails \/ RecoverChunk
  BY <1>6, RecoveryStep
<1>7. CASE Receive \/ JobSucceeds
  BY <1>1, <1>7 DEF Receive, JobSucceeds
<1>8. CASE StartRun
  <2>1. next' = 1 /\ ~stopped' /\ consecutive' = 0 /\ pc' \in {"open", "committed"}
    BY <1>8 DEF StartRun, OnTo
  <2>. QED BY <1>2, <2>1
<1>9. CASE H5
  <2>1. UNCHANGED <<next, stopped, consecutive>>
    BY <1>9, CommitFrame
  <2>2. pc \in {"open", "call"} /\ pc' \in {"open", "call", "committed", "failed"}
    <3>1. ASSUME NEW S, OnTo(S) PROVE pc' \in {"open", "committed"}
      BY <3>1 DEF OnTo
    <3>2. pc \in {"open", "call"}
      BY <1>9, CommitMoves DEF Opened, OpenedNone, OpenFails, CallSucceeds, CallFindsNone, CallBisects, CallFails
    <3>3. pc' = pc \/ pc' \in {"open", "committed", "failed", "call"}
      BY <1>9, <3>1, CommitMoves DEF Opened, OpenedNone, OpenFails, CallSucceeds, CallFindsNone, CallBisects, CallFails,
          Answered, NextCall, NextChunk, LastChunk, Bisected, Retried, Stopped, CarriedOn, DroppedOn
    <3>. QED BY <3>2, <3>3
  <2>3. next' = 1 /\ ~stopped' /\ consecutive' = 0
    BY <2>1, <2>2 DEF OrphanInv
  <2>. QED BY <1>1, <1>2, <2>2, <2>3
<1>10. CASE ScanPage
  <2>1. PICK P \in SUBSET Seqs : PageRead(P)
    BY <1>10, PageStep
  <2>2. pc = "scan" /\ ~stopped /\ UNCHANGED <<row, place, draft, unfound>>
    BY <1>10 DEF ScanPage, broker, runVars
  <2>. QED BY <2>1, <2>2, PageOrphans
<1>11. CASE Quiet
  <2>1. CASE ScanFails \/ JobFails
    BY <1>1, <2>1 DEF ScanFails, JobFails
  <2>2. CASE StartScan
    <3>1. pc = "committed" /\ pc' = "scan" /\ UNCHANGED <<next, stopped, consecutive>>
      BY <2>2 DEF StartScan, scanVars
    <3>2. next' = 1 /\ ~stopped' /\ consecutive' = 0
      BY <3>1 DEF OrphanInv
    <3>. QED BY <3>1, <3>2, ScanBegins
  <2>3. CASE ScanDone
    BY <2>3, ScanEnds
  <2>4. CASE NoScanOfSessions \/ Probe
    <3>1. pc' = "receive" /\ (mode' = "defer_commit" => warnings' # {})
      BY <2>4 DEF NoScanOfSessions, Probe, Unscanned, runVars
    <3>. QED BY <3>1 DEF OrphanInv, NoOrphanMissed
  <2>. QED BY <1>11, <2>1, <2>2, <2>3, <2>4 DEF Quiet
<1>. QED BY <1>4, <1>5, <1>6, <1>7, <1>8, <1>9, <1>10, <1>11, Steps

\* OrphanScanner.scan: unless it warns, it leaves no deferral of a plain entity
\* unrecovered that was there to be received and had a delivery to spare, wherever
\* the page borders and the fresh messages are, unless k_stop of them lie in front.
THEOREM ScanIsComplete == Spec => []NoOrphanMissed
<1>1. Init => OrphanInv
  BY DEF Init, OrphanInv, NoOrphanMissed
<1>2. IInv /\ OrphanInv /\ [Next]_vars => OrphanInv'
  BY OrphanStep
<1>3. OrphanInv => NoOrphanMissed
  BY DEF OrphanInv
<1>. QED BY <1>1, <1>2, <1>3, InvHolds, PTL DEF Spec

(***************************************************************************)
(* The counts of the commit.                                               *)
(***************************************************************************)
\* The messages of some groups, counted.
LEMMA CountOfIsSize ==
    ASSUME StateInv, NEW S
    PROVE  CountOf(S) = Cardinality({q \in Seqs : Stored(q) /\ GroupOf[q] \in S})
<1>0. \A g \in Groups : saved[g].ranges \in Ranges /\ Cover(saved[g].ranges) \subseteq Cell(g)
  BY DEF StateInv
<1>1. GroupCount \in Nat /\ Groups = 1..GroupCount
  BY <1>0, CountOfSums
<1>2. PICK f, s :
          /\ f \in [1..GroupCount -> Nat]
          /\ \A g \in 1..GroupCount : f[g] = IF g \in S THEN CountRanges(saved[g].ranges) ELSE 0
          /\ SumsUp(s, GroupCount, f) /\ CountOf(S) = s[GroupCount]
  BY <1>0, CountOfSums
<1>. DEFINE T == [g \in 1..GroupCount |-> IF g \in S THEN Cover(saved[g].ranges) ELSE {}]
<1>3. ASSUME NEW g \in 1..GroupCount PROVE IsFiniteSet(T[g]) /\ Cardinality(T[g]) = f[g]
  <2>1. IsFiniteSet(Cover(saved[g].ranges)) /\ CountRanges(saved[g].ranges) = Cardinality(Cover(saved[g].ranges))
    BY <1>0, <1>1, CountIsSize
  <2>2. CASE g \in S
    BY <1>2, <2>1, <2>2
  <2>3. CASE g \notin S
    BY <1>2, <2>3, FS_EmptySet
  <2>. QED BY <2>2, <2>3
<1>4. \A g \in 1..GroupCount : T[g] = {q \in Seqs : Stored(q) /\ GroupOf[q] = g /\ g \in S}
  <2>1. ASSUME NEW g \in 1..GroupCount, NEW q
        PROVE  q \in T[g] <=> q \in Seqs /\ Stored(q) /\ GroupOf[q] = g /\ g \in S
    <3>1. q \in Cover(saved[g].ranges) => q \in Seqs /\ GroupOf[q] = g
      BY <1>0, <1>1 DEF Cell
    <3>. QED BY <3>1 DEF Stored
  <2>. QED BY <2>1
<1>. HIDE DEF T
<1>5. \A g, h \in 1..GroupCount : g # h => T[g] \cap T[h] = {}
  BY <1>4
<1>. DEFINE W == {q \in Seqs : Stored(q) /\ GroupOf[q] \in S}
<1>6. \A q : q \in W <=> \E g \in 1..GroupCount : q \in T[g]
  <2>1. \A q \in Seqs : GroupOf[q] \in 1..GroupCount
    BY <1>1, CommitAssumption
  <2>. QED BY <1>4, <2>1
<1>. HIDE DEF W
<1>7. Cardinality(W) = s[GroupCount]
  <2>1. Pieces(W, GroupCount, T, f)
    BY <1>3, <1>5, <1>6 DEF Pieces
  <2>. QED BY <1>1, <1>2, <2>1, SumOfSizes
<1>. QED BY <1>2, <1>7 DEF W

Total == stats.committed + stats.alreadyGone + stats.carriedForward + stats.droppedStale

\* What the commit is done with: the groups before this one, and the messages of
\* this one below next_seq.
Accounted == {q \in Seqs : Stored(q) /\ (GroupOf[q] < at \/ (GroupOf[q] = at /\ q < nextSeq))}

\* Each of them is counted once; what the chunk asks for is asked, found or missing.
AccountInv ==
    /\ Committing => Total = Cardinality(Accounted)
    /\ pc = "call" => FirstOf(chunks) \subseteq Asked(calls) \cup found \cup missing
    /\ CountsAddUp

\* Two sets of messages that do not meet.
LEMMA SizesAdd ==
    ASSUME NEW A \in SUBSET Seqs, NEW B \in SUBSET Seqs, A \cap B = {}
    PROVE  /\ Cardinality(A \cup B) = Cardinality(A) + Cardinality(B)
           /\ Cardinality(A) \in Nat /\ Cardinality(B) \in Nat
<1>. DEFINE a == Cardinality(A)
            b == Cardinality(B)
            c == Cardinality(A \cup B)
<1>1. IsFiniteSet(A) /\ IsFiniteSet(B)
  BY SeqsAreNumbers
<1>2. a \in Nat /\ b \in Nat
  BY SeqsAreNumbers
<1>3. c = a + b - Cardinality(A \cap B)
  BY <1>1, FS_Union
<1>4. Cardinality(A \cap B) = 0
  BY FS_EmptySet
<1>. HIDE DEF a, b, c
<1>5. c = a + b
  BY <1>2, <1>3, <1>4
<1>. QED BY <1>2, <1>5 DEF a, b, c

\* On to the groups S, when all the others are accounted for.
LEMMA OnToAccounts ==
    ASSUME NEW S, S \subseteq Groups, OnTo(S), saved' = saved,
           Total' = Cardinality({q \in Seqs : Stored(q) /\ GroupOf[q] \notin S}),
           \A q \in Seqs, h \in S : Stored(q) /\ GroupOf[q] \notin S => GroupOf[q] < h
    PROVE  AccountInv'
<1>. DEFINE W == {q \in Seqs : Stored(q) /\ GroupOf[q] \notin S}
<1>0. \A q : Stored(q)' <=> Stored(q)
  BY DEF Stored
<1>1. CASE S = {}
  <2>1. pc' = "committed"
    BY <1>1, OnToGroup
  <2>2. {q \in Seqs : Stored(q)'} = W
    BY <1>0, <1>1
  <2>3. CountsAddUp'
    BY <2>2 DEF CountsAddUp, Total
  <2>. QED BY <2>1, <2>3 DEF AccountInv, Committing
<1>2. CASE S # {}
  <2>1. pc' = "open" /\ at' \in S /\ nextSeq' = 0 /\ \A h \in S : at' <= h
    BY <1>2, OnToGroup
  <2>2. \A q \in Seqs : GroupOf[q] \in Nat /\ q \in Nat
    BY CommitAssumption DEF Groups
  <2>3. at' \in Nat
    BY <2>1 DEF Groups
  <2>4. Accounted' = W
    <3>1. ASSUME NEW q \in Seqs, Stored(q) PROVE (GroupOf[q] < at' \/ (GroupOf[q] = at' /\ q < 0)) <=> GroupOf[q] \notin S
      <4>1. GroupOf[q] \in S => ~(GroupOf[q] < at')
        BY <2>1, <2>2, <2>3
      <4>2. ~(q < 0)
        BY <2>2
      <4>. QED BY <2>1, <3>1, <4>1, <4>2
    <3>2. \A q \in Seqs : q \in Accounted' <=> Stored(q) /\ (GroupOf[q] < at' \/ (GroupOf[q] = at' /\ q < 0))
      BY <1>0, <2>1 DEF Accounted
    <3>3. Accounted' \subseteq Seqs
      BY DEF Accounted
    <3>. QED BY <3>1, <3>2, <3>3
  <2>5. CountsAddUp'
    BY <2>1 DEF CountsAddUp, AfterCommit
  <2>. QED BY <2>1, <2>4, <2>5 DEF AccountInv
<1>. QED BY <1>1, <1>2

\* The rest of the current group, and of later groups S, is accounted for.
LEMMA RestAccounts ==
    ASSUME RunInv, StateInv, Committing, AccountInv, saved' = saved,
           NEW T \in SUBSET From(at + 1), OnTo(From(at + 1) \ T),
           \A t \in T, h \in From(at + 1) \ T : t < h,
           Total' = Total + Cardinality({q \in Cover(saved[at].ranges) : q >= nextSeq})
                          + Cardinality({q \in Seqs : Stored(q) /\ GroupOf[q] \in T})
    PROVE  AccountInv'
<1>. DEFINE A == {q \in Cover(saved[at].ranges) : q >= nextSeq}
            B == {q \in Seqs : Stored(q) /\ GroupOf[q] \in T}
            S == From(at + 1) \ T
            W == {q \in Seqs : Stored(q) /\ GroupOf[q] \notin S}
<1>1. at \in Groups /\ at \in Nat /\ nextSeq \in Nat
  BY DEF RunInv, Groups
<1>2. \A q \in Seqs : GroupOf[q] \in Groups /\ GroupOf[q] \in Nat /\ q \in Nat
  BY CommitAssumption DEF Groups
<1>3. \A g \in From(at + 1) : g \in Nat /\ g >= at + 1
  BY DEF From, Groups
<1>4. \A q : q \in A <=> q \in Seqs /\ Stored(q) /\ GroupOf[q] = at /\ q >= nextSeq
  BY <1>1, GroupIsStored DEF Stored
<1>5. A \in SUBSET Seqs /\ B \in SUBSET Seqs /\ Accounted \in SUBSET Seqs
  BY <1>4 DEF Accounted
<1>6. Accounted \cap A = {} /\ (Accounted \cup A) \cap B = {}
  <2>1. \A q \in Accounted : ~(q \in A) /\ ~(q \in B)
    BY <1>1, <1>2, <1>3, <1>4 DEF Accounted
  <2>2. \A q \in A : ~(q \in B)
    BY <1>1, <1>3, <1>4
  <2>. QED BY <2>1, <2>2
<1>7. W = (Accounted \cup A) \cup B
  <2>1. ASSUME NEW q \in Seqs, Stored(q) PROVE GroupOf[q] \notin S <=> q \in Accounted \/ q \in A \/ q \in B
    <3>1. CASE GroupOf[q] < at
      <4>1. GroupOf[q] \notin From(at + 1)
        BY <1>1, <1>2, <1>3, <3>1
      <4>. QED BY <2>1, <3>1, <4>1 DEF Accounted
    <3>2. CASE GroupOf[q] = at
      <4>1. GroupOf[q] \notin From(at + 1)
        BY <1>1, <1>3, <3>2
      <4>2. q < nextSeq \/ q >= nextSeq
        BY <1>1, <1>2
      <4>. QED BY <1>4, <2>1, <3>2, <4>1, <4>2 DEF Accounted
    <3>3. CASE ~(GroupOf[q] < at) /\ GroupOf[q] # at
      <4>1. GroupOf[q] \in From(at + 1)
        BY <1>1, <2>1, <3>3, LaterGroups
      <4>2. q \notin Accounted /\ q \notin A
        BY <1>4, <3>3 DEF Accounted
      <4>. QED BY <2>1, <4>1, <4>2
    <3>. QED BY <3>1, <3>2, <3>3
  <2>2. \A q : q \in Accounted \/ q \in A \/ q \in B => q \in Seqs /\ Stored(q)
    BY <1>4 DEF Accounted
  <2>. QED BY <2>1, <2>2
<1>8. \A q \in Seqs, h \in S : Stored(q) /\ GroupOf[q] \notin S => GroupOf[q] < h
  <2>1. ASSUME NEW q \in Seqs, NEW h \in S, Stored(q), GroupOf[q] \notin S PROVE GroupOf[q] < h
    <3>1. h \in Nat /\ h >= at + 1
      BY <1>3
    <3>2. CASE GroupOf[q] < at \/ GroupOf[q] = at
      BY <1>1, <1>2, <3>1, <3>2
    <3>3. CASE ~(GroupOf[q] < at) /\ GroupOf[q] # at
      <4>1. GroupOf[q] \in T
        BY <1>1, <2>1, <3>3, LaterGroups
      <4>. QED BY <4>1
    <3>. QED BY <3>2, <3>3
  <2>. QED BY <2>1
<1>9. Total' = Cardinality(W)
  <2>. HIDE DEF A, B, W
  <2>1. Total = Cardinality(Accounted) /\ Total' = Total + Cardinality(A) + Cardinality(B)
    BY DEF AccountInv, A, B
  <2>2. Cardinality(Accounted \cup A) = Cardinality(Accounted) + Cardinality(A)
    BY <1>5, <1>6, SizesAdd
  <2>3. Accounted \cup A \in SUBSET Seqs
    BY <1>5
  <2>4. Cardinality(W) = Cardinality(Accounted \cup A) + Cardinality(B)
    BY <1>5, <1>6, <1>7, <2>3, SizesAdd
  <2>. QED BY <2>1, <2>2, <2>4
<1>10. S \subseteq Groups
  BY FromGroups
<1>. HIDE DEF A, B
<1>11. Total' = Cardinality({q \in Seqs : Stored(q) /\ GroupOf[q] \notin S})
  BY <1>9
<1>. HIDE DEF S, W
<1>12. OnTo(S)
  BY DEF S
<1>. QED BY <1>8, <1>10, <1>11, <1>12, OnToAccounts

\* The current group's rest alone.
LEMMA GroupAccounts ==
    ASSUME RunInv, StateInv, Committing, AccountInv, OnTo(From(at + 1)), saved' = saved,
           Total' = Total + Cardinality({q \in Cover(saved[at].ranges) : q >= nextSeq})
    PROVE  AccountInv'
<1>1. From(at + 1) \ {} = From(at + 1) /\ {} \in SUBSET From(at + 1)
  OBVIOUS
<1>2. Cardinality({q \in Seqs : Stored(q) /\ GroupOf[q] \in {}}) = 0
  <2>1. {q \in Seqs : Stored(q) /\ GroupOf[q] \in {}} = {}
    OBVIOUS
  <2>. QED BY <2>1, FS_EmptySet
<1>. DEFINE c == Cardinality({q \in Cover(saved[at].ranges) : q >= nextSeq})
<1>3. c \in Nat
  <2>1. at \in Groups /\ \A q \in Cover(saved[at].ranges) : q \in Seqs
    <3>1. at \in Groups
      BY DEF RunInv
    <3>. QED BY <3>1, GroupIsStored
  <2>2. {q \in Cover(saved[at].ranges) : q >= nextSeq} \in SUBSET Seqs
    BY <2>1
  <2>. QED BY <2>2, SeqsAreNumbers
<1>4. Total \in Nat
  BY DEF RunInv, Total
<1>5. Total' = Total + c + 0
  <2>1. Total' = Total + c
    OBVIOUS
  <2>. HIDE DEF c
  <2>. QED BY <1>3, <1>4, <2>1
<1>6. \A t \in {}, h \in From(at + 1) : t < h
  OBVIOUS
<1>7. Total' = Total + Cardinality({q \in Cover(saved[at].ranges) : q >= nextSeq})
                     + Cardinality({q \in Seqs : Stored(q) /\ GroupOf[q] \in {}})
  BY <1>2, <1>5
<1>. HIDE DEF c
<1>. QED BY <1>1, <1>6, <1>7, RestAccounts

\* The counts of the groups that another receiver or the configuration keeps.
LEMMA RestIsCounted ==
    ASSUME RunInv, StateInv, at \in Groups
    PROVE  CountRanges(TailFrom(saved[at].ranges, nextSeq)) = Cardinality({q \in Cover(saved[at].ranges) : q >= nextSeq})
           /\ CountRanges(TailFrom(saved[at].ranges, nextSeq)) \in Nat
<1>1. saved[at].ranges \in Ranges /\ nextSeq \in Int
  BY DEF StateInv, RunInv
<1>. DEFINE left == TailFrom(saved[at].ranges, nextSeq)
<1>2. left \in Ranges /\ Cover(left) = {q \in Cover(saved[at].ranges) : q >= nextSeq}
  BY <1>1, TailCovers
<1>. HIDE DEF left
<1>3. CountRanges(left) = Cardinality(Cover(left)) /\ CountRanges(left) \in Nat
  BY <1>2, CountIsSize, CountIsPositive
<1>. QED BY <1>2, <1>3 DEF left

\* A finished chunk: what was found and what was missing are all it asked for.
LEMMA ChunkAccounts ==
    ASSUME RunInv, StateInv, QueueInv, ChunkInv, AccountInv, pc = "call", Len(calls) = 1, NEW F, NEW M,
           \/ F = found \cup ToSet(calls[1]) /\ M = missing
           \/ F = found /\ M = missing \cup ToSet(calls[1]),
           stats' = [stats EXCEPT !.committed = @ + Cardinality(F), !.alreadyGone = @ + Cardinality(M)]
    PROVE  Total' = Total + Cardinality(FirstOf(chunks))
<1>1. calls # <<>>
  BY DEF ChunkInv
<1>2. F \cap M = {} /\ F \cup M \subseteq FirstOf(chunks)
  BY <1>1, CallAnswered
<1>3. Asked(calls) = ToSet(calls[1])
  BY LastCall DEF QueueInv
<1>4. F \cup M = FirstOf(chunks)
  BY <1>2, <1>3 DEF AccountInv
<1>5. FirstOf(chunks) \subseteq Seqs
  BY <1>1, FirstCall DEF QueueInv
<1>. DEFINE f == Cardinality(F)
            m == Cardinality(M)
<1>6. Cardinality(FirstOf(chunks)) = f + m /\ f \in Nat /\ m \in Nat
  BY <1>2, <1>4, <1>5, SizesAdd
<1>. HIDE DEF f, m
<1>7. stats' = [stats EXCEPT !.committed = @ + f, !.alreadyGone = @ + m]
  BY DEF f, m
<1>8. stats \in [committed : Nat, alreadyGone : Nat, carriedForward : Nat, droppedStale : Nat]
  BY DEF RunInv
<1>9. /\ stats'.committed = stats.committed + f /\ stats'.alreadyGone = stats.alreadyGone + m
      /\ stats'.carriedForward = stats.carriedForward /\ stats'.droppedStale = stats.droppedStale
  BY <1>7, <1>8
<1>10. Total' = Total + (f + m)
  BY <1>6, <1>8, <1>9 DEF Total
<1>. QED BY <1>6, <1>10

\* The steps of the commit.
LEMMA AccountInCommit ==
    ASSUME RunInv, StateInv, QueueInv, ChunkInv, AccountInv, H5
    PROVE  AccountInv'
<1>0. saved' = saved /\ \A q : Stored(q)' <=> Stored(q)
  BY CommitFrame DEF Stored
<1>1. Committing /\ at \in Groups /\ (pc = "call" => calls # <<>>)
  BY CommitMoves DEF Opened, OpenedNone, OpenFails, CallSucceeds, CallFindsNone, CallBisects, CallFails,
                     RunInv, Committing, ChunkInv
<1>2. ASSUME UNCHANGED <<at, nextSeq, stats>>, pc' \in {"open", "call"},
             pc' = "call" => FirstOf(chunks') \subseteq Asked(calls') \cup found' \cup missing'
      PROVE  AccountInv'
  <2>1. Accounted' = Accounted /\ Total' = Total
    BY <1>0, <1>2 DEF Accounted, Total
  <2>2. CountsAddUp'
    BY <1>2 DEF CountsAddUp, AfterCommit
  <2>. QED BY <1>1, <1>2, <2>1, <2>2 DEF AccountInv
<1>3. CASE Opened
  <2>. DEFINE todo == Batched(IterRanges(saved[at].ranges), CommitChunkSize(saved[at].maxBody))
  <2>1. UNCHANGED <<at, nextSeq, stats>> /\ todo # <<>> /\ chunks' = todo /\ calls' = <<todo[1]>> /\ pc' = "call"
    BY <1>3 DEF Opened
  <2>2. Cuts(todo, Cover(saved[at].ranges))
    BY <1>1, GroupIsCut
  <2>. HIDE DEF todo
  <2>3. Asked(<<todo[1]>>) = FirstOf(todo)
    BY <2>1, <2>2, CutsFirst
  <2>4. FirstOf(chunks') \subseteq Asked(calls')
    BY <2>1, <2>3
  <2>. QED BY <1>2, <2>1, <2>4
<1>4. CASE OpenedNone
  <2>1. /\ Batched(IterRanges(saved[at].ranges), CommitChunkSize(saved[at].maxBody)) = <<>>
        /\ OnTo(From(at + 1)) /\ stats' = stats
    BY <1>4 DEF OpenedNone
  <2>2. Cover(saved[at].ranges) = {}
    <3>. DEFINE cs == Batched(IterRanges(saved[at].ranges), CommitChunkSize(saved[at].maxBody))
    <3>1. Cuts(cs, Cover(saved[at].ranges)) /\ cs = <<>>
      BY <1>1, <2>1, GroupIsCut
    <3>. HIDE DEF cs
    <3>2. Asked(cs) = Cover(saved[at].ranges)
      BY <3>1, CutsQueue
    <3>. QED BY <3>1, <3>2, QueueNone
  <2>3. Cardinality({q \in Cover(saved[at].ranges) : q >= nextSeq}) = 0
    <3>1. {q \in Cover(saved[at].ranges) : q >= nextSeq} = {}
      BY <2>2
    <3>. QED BY <3>1, FS_EmptySet
  <2>4. Total' = Total + 0
    BY <2>1 DEF Total, RunInv
  <2>5. Total' = Total + Cardinality({q \in Cover(saved[at].ranges) : q >= nextSeq})
    BY <2>3, <2>4
  <2>. QED BY <1>0, <1>1, <2>1, <2>5, GroupAccounts
<1>5. CASE Retried
  <2>1. UNCHANGED <<pc, at, nextSeq, stats, chunks, calls, found, missing>>
    BY <1>5 DEF Retried
  <2>. QED BY <1>1, <1>2, <2>1 DEF AccountInv, Committing
<1>6. CASE Stopped
  BY <1>6 DEF Stopped, AccountInv, Committing, CountsAddUp, AfterCommit
<1>7. CASE CarriedOn
  <2>. DEFINE c == CountRanges(TailFrom(saved[at].ranges, nextSeq))
  <2>1. OnTo(From(at + 1)) /\ stats' = [stats EXCEPT !.carriedForward = @ + c]
    BY <1>7 DEF CarriedOn, CarryGroup
  <2>2. c = Cardinality({q \in Cover(saved[at].ranges) : q >= nextSeq}) /\ c \in Nat
    BY <1>1, RestIsCounted
  <2>. HIDE DEF c
  <2>3. Total' = Total + c
    BY <2>1, <2>2 DEF Total, RunInv
  <2>. QED BY <1>0, <1>1, <2>1, <2>2, <2>3, GroupAccounts
<1>8. CASE DroppedOn
  <2>. DEFINE T == {h \in From(at + 1) : EntityOf[h] = EntityOf[at]}
              S == {h \in From(at + 1) : EntityOf[h] # EntityOf[at]}
              c == CountRanges(TailFrom(saved[at].ranges, nextSeq))
              d == CountOf(T)
  <2>1. OnTo(S) /\ stats' = [stats EXCEPT !.droppedStale = @ + c + d]
    BY <1>8 DEF DroppedOn, DropStale
  <2>2. c = Cardinality({q \in Cover(saved[at].ranges) : q >= nextSeq}) /\ c \in Nat
    BY <1>1, RestIsCounted
  <2>3. d = Cardinality({q \in Seqs : Stored(q) /\ GroupOf[q] \in T})
    BY CountOfIsSize
  <2>4. {q \in Seqs : Stored(q) /\ GroupOf[q] \in T} \in SUBSET Seqs
    OBVIOUS
  <2>5. d \in Nat
    BY <2>3, <2>4, SeqsAreNumbers
  <2>6. S = From(at + 1) \ T /\ T \in SUBSET From(at + 1)
    OBVIOUS
  <2>7. \A t \in T, h \in S : t < h
    <3>1. ASSUME NEW t \in T, NEW h \in S PROVE t < h
      <4>1. at \in Groups /\ t \in Groups /\ h \in Groups /\ at < t /\ at < h /\ t \in Nat /\ h \in Nat
        BY <1>1 DEF From, Groups
      <4>2. EntityOf[t] = EntityOf[at] /\ EntityOf[h] # EntityOf[at]
        OBVIOUS
      <4>. HIDE DEF S, T
      <4>3. ~(h < t)
        BY <4>1, <4>2, CommitAssumption
      <4>. QED BY <4>1, <4>2, <4>3
    <3>. QED BY <3>1
  <2>. HIDE DEF c, d, T, S
  <2>8. Total' = Total + c + d
    BY <2>1, <2>2, <2>5 DEF Total, RunInv
  <2>9. Total' = Total + Cardinality({q \in Cover(saved[at].ranges) : q >= nextSeq})
                       + Cardinality({q \in Seqs : Stored(q) /\ GroupOf[q] \in T})
    BY <2>2, <2>3, <2>8
  <2>10. OnTo(From(at + 1) \ T) /\ \A t \in T, h \in From(at + 1) \ T : t < h
    BY <2>1, <2>6, <2>7
  <2>. QED BY <1>0, <1>1, <2>6, <2>9, <2>10, RestAccounts
<1>9. CASE CallBisects
  <2>1. pc' = "call" /\ pc = "call" /\ UNCHANGED <<at, nextSeq, stats, chunks, found, missing>>
        /\ Len(calls[1]) # 1 /\ calls' = Halves(calls[1]) \o Tail(calls)
    BY <1>9 DEF CallBisects, Bisected
  <2>2. Asked(calls') = Asked(calls)
    BY <1>1, <2>1, QueueHalved DEF QueueInv
  <2>. QED BY <1>2, <2>1, <2>2 DEF AccountInv
<1>10. CASE CallSucceeds \/ CallFindsNone
  <2>1. PICK F, M : /\ Answered(F, M)
                    /\ \/ F = found \cup ToSet(calls[1]) /\ M = missing
                       \/ F = found /\ M = missing \cup ToSet(calls[1])
    BY <1>10 DEF CallSucceeds, CallFindsNone
  <2>2. pc = "call" /\ calls # <<>> /\ chunks # <<>>
    BY <1>1, <1>10, FirstCall DEF CallSucceeds, CallFindsNone
  <2>. DEFINE C == Cover(saved[at].ranges)
              X == {q \in C : q >= nextSeq}
              l == Last(chunks[1])
  <2>3. Cuts(chunks, X) /\ nextSeq \in Nat
    BY <2>2 DEF ChunkInv, RunInv
  <2>4. Asked(chunks) = X
    BY <2>3, CutsQueue
  <2>5. FirstOf(chunks) = ToSet(chunks[1]) /\ FirstOf(chunks) \subseteq Asked(chunks)
    BY <2>2, FirstCall
  <2>6. CASE NextCall(F, M)
    <3>1. UNCHANGED <<pc, at, nextSeq, stats, chunks>> /\ calls' = Tail(calls) /\ found' = F /\ missing' = M
      BY <2>6 DEF NextCall
    <3>2. Asked(Tail(calls)) = Asked(calls) \ ToSet(calls[1])
      BY <2>2, FirstCall
    <3>3. FirstOf(chunks') \subseteq Asked(calls') \cup found' \cup missing'
      BY <2>1, <2>2, <3>1, <3>2 DEF AccountInv
    <3>. QED BY <1>2, <2>2, <3>1, <3>3
  <2>7. CASE NextChunk(F, M)
    <3>1. /\ Len(calls) = 1 /\ Len(chunks) # 1 /\ nextSeq' = l + 1 /\ UNCHANGED <<at, pc>>
          /\ stats' = [stats EXCEPT !.committed = @ + Cardinality(F), !.alreadyGone = @ + Cardinality(M)]
          /\ chunks' = Tail(chunks) /\ calls' = <<chunks[2]>>
      BY <2>7 DEF NextChunk
    <3>2. Total' = Total + Cardinality(FirstOf(chunks))
      BY <2>1, <2>2, <3>1, ChunkAccounts
    <3>3. FirstOf(chunks') \subseteq Asked(calls')
      <4>1. Asked(<<chunks[2]>>) = FirstOf(Tail(chunks))
        BY <2>2, <3>1, ChunkCompleted
      <4>. QED BY <3>1, <4>1
    <3>. HIDE DEF X
    <3>4. l \in X /\ \A x \in X : x \in ToSet(chunks[1]) <=> x < l + 1
      BY <2>2, <2>3, CutsTail
    <3>. USE DEF X
    <3>5. \A q \in C : q \in Seqs /\ GroupOf[q] = at /\ Stored(q) /\ q \in Nat
      BY <1>1, GroupIsStored, SeqsAreNumbers
    <3>. HIDE DEF l
    <3>6. l \in Nat /\ l >= nextSeq
      BY <3>4, <3>5
    <3>7. Accounted' = Accounted \cup FirstOf(chunks)
      <4>1. ASSUME NEW q \in Seqs, Stored(q)
            PROVE  GroupOf[q] < at \/ (GroupOf[q] = at /\ q < l + 1) <=> q \in Accounted \/ q \in FirstOf(chunks)
        <5>1. CASE GroupOf[q] = at
          <6>1. q \in C /\ q \in Nat
            BY <4>1, <5>1, SeqsAreNumbers DEF Stored
          <6>2. ~(at < at)
            BY <1>1 DEF Groups
          <6>3. q \in Accounted <=> q < nextSeq
            BY <4>1, <5>1, <6>2 DEF Accounted
          <6>4. q \in FirstOf(chunks) <=> q >= nextSeq /\ q < l + 1
            BY <2>4, <2>5, <3>4, <6>1
          <6>. QED BY <2>3, <3>6, <5>1, <6>1, <6>2, <6>3, <6>4
        <5>2. CASE GroupOf[q] # at
          <6>1. q \notin FirstOf(chunks)
            BY <2>4, <2>5, <3>5, <5>2
          <6>. QED BY <4>1, <5>2, <6>1 DEF Accounted
        <5>. QED BY <5>1, <5>2
      <4>2. \A q : q \in Accounted' <=> q \in Seqs /\ Stored(q) /\ (GroupOf[q] < at \/ (GroupOf[q] = at /\ q < l + 1))
        BY <1>0, <3>1 DEF Accounted
      <4>3. \A q : q \in Accounted \/ q \in FirstOf(chunks) => q \in Seqs /\ Stored(q)
        BY <2>4, <2>5, <3>5 DEF Accounted
      <4>. QED BY <4>1, <4>2, <4>3
    <3>8. Accounted \cap FirstOf(chunks) = {}
      <4>1. \A q \in FirstOf(chunks) : GroupOf[q] = at /\ q >= nextSeq /\ q \in Nat
        BY <2>4, <2>5, <3>5
      <4>2. \A q \in Accounted : ~(GroupOf[q] = at /\ q >= nextSeq)
        <5>1. at \in Nat /\ \A q \in Seqs : q \in Nat
          BY <1>1, SeqsAreNumbers DEF Groups
        <5>. QED BY <2>3, <5>1 DEF Accounted
      <4>. QED BY <4>1, <4>2
    <3>9. Accounted \in SUBSET Seqs /\ FirstOf(chunks) \in SUBSET Seqs
      BY <2>4, <2>5, <3>5 DEF Accounted
    <3>10. Cardinality(Accounted') = Cardinality(Accounted) + Cardinality(FirstOf(chunks))
      BY <3>7, <3>8, <3>9, SizesAdd
    <3>11. Total' = Cardinality(Accounted')
      BY <1>1, <3>2, <3>10 DEF AccountInv
    <3>12. CountsAddUp'
      BY <2>2, <3>1 DEF CountsAddUp, AfterCommit
    <3>. QED BY <3>3, <3>11, <3>12 DEF AccountInv
  <2>8. CASE LastChunk(F, M)
    <3>1. /\ Len(calls) = 1 /\ Len(chunks) = 1 /\ OnTo(From(at + 1))
          /\ stats' = [stats EXCEPT !.committed = @ + Cardinality(F), !.alreadyGone = @ + Cardinality(M)]
      BY <2>8 DEF LastChunk
    <3>2. Total' = Total + Cardinality(FirstOf(chunks))
      BY <2>1, <2>2, <3>1, ChunkAccounts
    <3>3. FirstOf(chunks) = X
      BY <2>4, <2>5, <3>1, LastCall DEF QueueInv
    <3>. QED BY <1>0, <1>1, <3>1, <3>2, <3>3, GroupAccounts
  <2>. QED BY <2>1, <2>6, <2>7, <2>8 DEF Answered
<1>. QED BY <1>3, <1>4, <1>5, <1>6, <1>7, <1>8, <1>9, <1>10, CommitMoves DEF OpenFails, CallFails

\* A run starts its counts anew, and nothing but the commit counts.
LEMMA AccountStep ==
    ASSUME IInv, AccountInv, [Next]_vars
    PROVE  AccountInv'
<1>. USE DEF IInv
<1>1. CASE pc' \in {"idle", "failed"}
  BY <1>1 DEF AccountInv, Committing, CountsAddUp, AfterCommit
<1>2. ASSUME AfterCommit, AfterCommit', UNCHANGED <<stats, saved>> PROVE AccountInv'
  <2>1. \A q : Stored(q)' <=> Stored(q)
    BY <1>2 DEF Stored
  <2>2. {q \in Seqs : Stored(q)'} = {q \in Seqs : Stored(q)}
    BY <2>1
  <2>3. CountsAddUp'
    BY <1>2, <2>2 DEF AccountInv, CountsAddUp
  <2>. QED BY <1>2, <2>3 DEF AccountInv, AfterCommit, Committing
<1>3. ASSUME UNCHANGED <<pc, at, nextSeq, stats, saved, chunks, calls, found, missing>> PROVE AccountInv'
  <2>1. \A q : Stored(q)' <=> Stored(q)
    BY <1>3 DEF Stored
  <2>2. {q \in Seqs : Stored(q)'} = {q \in Seqs : Stored(q)} /\ Accounted' = Accounted /\ Total' = Total
    BY <1>3, <2>1 DEF Accounted, Total
  <2>3. CountsAddUp'
    BY <1>3, <2>2 DEF AccountInv, CountsAddUp, AfterCommit
  <2>. QED BY <1>3, <2>2, <2>3 DEF AccountInv, Committing
<1>4. CASE UNCHANGED vars
  BY <1>3, <1>4 DEF vars, progress, call, outcome
<1>5. CASE \E q \in Seqs : LockLapses(q) \/ Expires(q)
  BY <1>3, <1>5 DEF LockLapses, Expires, progress, call, outcome
<1>6. CASE Quiet
  <2>1. UNCHANGED <<stats, saved>>
    BY <1>6, QuietSteps
  <2>2. pc' \in {"idle", "failed"} \/ (AfterCommit /\ AfterCommit')
    BY <1>6, QuietMoves DEF AfterCommit
  <2>. QED BY <1>1, <1>2, <2>1, <2>2
<1>7. CASE ScanPage \/ RecoverCall \/ RecoverCallNotFound \/ RecoverCallFails \/ RecoverChunk \/ Receive
  <2>1. UNCHANGED <<stats, saved>> /\ pc \in {"scan", "recover", "receive"}
        /\ pc' \in {"scan", "recover", "finish", "failed"}
    BY <1>7 DEF ScanPage, RecoverCall, RecoverCallNotFound, RecoverCallFails, RecoverChunk, Receive, outcome
  <2>2. AfterCommit /\ (AfterCommit' \/ pc' = "failed")
    BY <2>1 DEF AfterCommit
  <2>. QED BY <1>1, <1>2, <2>1, <2>2
<1>8. CASE JobSucceeds
  BY <1>1, <1>8 DEF JobSucceeds
<1>9. CASE H5
  BY <1>9, AccountInCommit
<1>10. CASE StartRun
  <2>1. OnTo(From(1)) /\ stats' = NoStats /\ saved' = saved
    BY <1>10 DEF StartRun
  <2>2. Total' = 0
    BY <2>1 DEF Total, NoStats
  <2>3. \A q \in Seqs : Stored(q) => GroupOf[q] \in From(1)
    <3>1. ASSUME NEW q \in Seqs, Stored(q) PROVE GroupOf[q] \in From(1)
      <4>1. GroupOf[q] \in Groups /\ GroupOf[q] >= 1
        BY CommitAssumption DEF Groups
      <4>2. saved[GroupOf[q]].ranges # <<>>
        <5>1. Cover(<<>>) = {}
          BY DEF Cover, ToSet
        <5>. QED BY <3>1, <5>1 DEF Stored
      <4>. QED BY <4>1, <4>2 DEF From
    <3>. QED BY <3>1
  <2>4. Cardinality({q \in Seqs : Stored(q) /\ GroupOf[q] \notin From(1)}) = 0
    <3>1. {q \in Seqs : Stored(q) /\ GroupOf[q] \notin From(1)} = {}
      BY <2>3
    <3>. QED BY <3>1, FS_EmptySet
  <2>5. \A q \in Seqs, h \in From(1) : Stored(q) /\ GroupOf[q] \notin From(1) => GroupOf[q] < h
    BY <2>3
  <2>6. Total' = Cardinality({q \in Seqs : Stored(q) /\ GroupOf[q] \notin From(1)})
    BY <2>2, <2>4
  <2>7. From(1) \subseteq Groups
    BY FromGroups
  <2>. QED BY <2>1, <2>5, <2>6, <2>7, OnToAccounts
<1>. QED BY <1>4, <1>5, <1>6, <1>7, <1>8, <1>9, <1>10, Steps

\* The summary of H5: committed, already gone, carried forward and dropped as stale
\* are together what the state held, each message counted once, through every
\* bisection, retry, carried tail and stale entity.
THEOREM SummaryAddsUp == Spec => []CountsAddUp
<1>1. Init => AccountInv
  BY DEF Init, AccountInv, Committing, CountsAddUp, AfterCommit
<1>2. IInv /\ AccountInv /\ [Next]_vars => AccountInv'
  BY AccountStep
<1>3. AccountInv => CountsAddUp
  BY DEF AccountInv
<1>. QED BY <1>1, <1>2, <1>3, InvHolds, PTL DEF Spec
=============================================================================
