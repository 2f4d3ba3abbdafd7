---------------------------- MODULE PendingRanges ----------------------------
(***************************************************************************)
(* The range encoding of the pending-commit set (state.py): sequence        *)
(* numbers as inclusive ranges <<start, end>>.  The stored ranges may have  *)
(* been edited by hand, so every operation merges them first.               *)
(***************************************************************************)
EXTENDS Integers, SequencesExt, FiniteSetsExt

Max2(a, b) == IF a >= b THEN a ELSE b
Min2(a, b) == IF a <= b THEN a ELSE b

\* sorted(S), where R is a total order on S: the i-th one has i - 1 before it.
Sorted(S, R) ==
    [i \in 1..Cardinality(S) |-> CHOOSE x \in S : Cardinality({y \in S : <<y, x>> \in R}) = i - 1]

Ascending(S) == Sorted(S, {p \in S \X S : p[1] < p[2]})

\* Tuples compare by their first element, then by their second.
Before(a, b) == a[1] < b[1] \/ (a[1] = b[1] /\ a[2] < b[2])
InOrder(S) == Sorted(S, {p \in S \X S : Before(p[1], p[2])})

\* One sequence number more, above all of ranges.
ExtendedBy(ranges, seq) ==
    IF ranges # <<>> /\ seq = Last(ranges)[2] + 1
    THEN Append(Front(ranges), <<Last(ranges)[1], seq>>)
    ELSE Append(ranges, <<seq, seq>>)

\* to_ranges, of a set: the loop over the sorted sequence numbers.
ToRanges(seqs) ==
    LET ordered == Ascending(seqs)
        ranges[i \in 0..Len(ordered)] ==
            IF i = 0 THEN <<>> ELSE ExtendedBy(ranges[i - 1], ordered[i])
    IN  ranges[Len(ordered)]

\* Mutation of JoinedWith: a gap of one sequence number is bridged.
JoinedWithGap(merged, range) ==
    IF merged # <<>> /\ range[1] <= Last(merged)[2] + 2
    THEN Append(Front(merged), <<Last(merged)[1], Max2(Last(merged)[2], range[2])>>)
    ELSE Append(merged, range)

\* The next range in order, joined with the last one if it overlaps or adjoins.
JoinedWith(merged, range) ==
    IF merged # <<>> /\ range[1] <= Last(merged)[2] + 1
    THEN Append(Front(merged), <<Last(merged)[1], Max2(Last(merged)[2], range[2])>>)
    ELSE Append(merged, range)

\* merge_ranges: the loop over the sorted ranges, the empty ones dropped.
MergeRanges(ranges) ==
    LET ordered == InOrder({r \in ToSet(ranges) : r[1] <= r[2]})
        merged[i \in 0..Len(ordered)] ==
            IF i = 0 THEN <<>> ELSE JoinedWith(merged[i - 1], ordered[i])
    IN  merged[Len(ordered)]

\* iter_ranges: every covered sequence number, ascending.
Expanded(r) == [k \in 1..(r[2] - r[1] + 1) |-> r[1] + k - 1]
IterRanges(ranges) ==
    LET merged == MergeRanges(ranges)
    IN  FlattenSeq([i \in DOMAIN merged |-> Expanded(merged[i])])

\* count_ranges.
CountRanges(ranges) ==
    LET merged == MergeRanges(ranges)
        sum[i \in 0..Len(merged)] ==
            IF i = 0 THEN 0 ELSE sum[i - 1] + (merged[i][2] - merged[i][1] + 1)
    IN  sum[Len(merged)]

\* Mutation of TailFrom: a range that ends at first is dropped.
TailAfter(ranges, first) ==
    LET merged == MergeRanges(ranges)
        kept == Ascending({i \in DOMAIN merged : merged[i][2] > first})
    IN  [i \in DOMAIN kept |-> <<Max2(merged[kept[i]][1], first), merged[kept[i]][2]>>]

\* PendingGroup.tail: the sequence numbers from first on.
TailFrom(ranges, first) ==
    LET merged == MergeRanges(ranges)
        kept == Ascending({i \in DOMAIN merged : merged[i][2] >= first})
    IN  [i \in DOMAIN kept |-> <<Max2(merged[kept[i]][1], first), merged[kept[i]][2]>>]

\* itertools.batched.
Batched(seqs, size) ==
    [i \in 1..((Len(seqs) + size - 1) \div size) |->
        SubSeq(seqs, (i - 1) * size + 1, Min2(i * size, Len(seqs)))]

(***************************************************************************)
(* What the encoding means, without merging.                               *)
(***************************************************************************)
Cover(ranges) == UNION {r[1]..r[2] : r \in ToSet(ranges)}

\* Sorted, no empty range, and a gap between two ranges.
Canonical(ranges) ==
    /\ \A i \in DOMAIN ranges : ranges[i][1] <= ranges[i][2]
    /\ \A i \in DOMAIN ranges : i > 1 => ranges[i - 1][2] + 1 < ranges[i][1]
=============================================================================
