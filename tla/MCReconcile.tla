----------------------------- MODULE MCReconcile -----------------------------
(***************************************************************************)
(* Reconcile on small instances.  The configured entity has group 1 and, if *)
(* it is partitioned, group 2; the entity of an earlier configuration has   *)
(* the sessions of groups 3 and 4.                                          *)
(***************************************************************************)
EXTENDS Reconcile

Entities == <<"own", "own", "old", "old">>
Partitions == <<0, 1, 0, 0>>
Homes == [q \in 1..9 |-> IF q <= 5 THEN 1 ELSE IF q <= 6 THEN 2 ELSE IF q <= 8 THEN 3 ELSE 4]
Bodies == [q \in 1..9 |-> IF q = 4 THEN 3 ELSE 1]

\* Where the messages are: the deferred and the fresh ones, the used ones.
At(deferred, fresh, used) ==
    [q \in 1..9 |-> CASE q \in deferred -> "deferred" [] q \in fresh -> "fresh"
                      [] q \in used -> "used" [] OTHER -> "gone"]
Pending(g1, g3, g4) ==
    LET group(ranges) == [ranges |-> ranges, maxBody |-> Max({0} \cup {Bodies[q] : q \in Cover(ranges)})]
    IN  <<group(g1), Nothing, group(g3), group(g4)>>

Plain ==
    [modes |-> {"complete"}, sessionGroups |-> {3, 4}, sessionEnabled |-> FALSE,
     subQueue |-> FALSE, metadata |-> "plain", delivered |-> 0, maxRuns |-> 1,
     place |-> At({}, {}, {}), saved |-> Pending(<<>>, <<>>, <<>>)]

\* Every list of at most two ranges, overlapping, adjacent and an empty one too.
RangeLists == LET ranges == {r \in (1..4) \X (1..4) : r[1] <= r[2] \/ r = <<3, 2>>}
              IN  {<<r>> : r \in ranges} \cup (ranges \X ranges)
EncodedRows ==
    {[Plain EXCEPT !.place = At(1..4, {}, {}), !.saved = Pending(rs, <<>>, <<>>)] : rs \in RangeLists}

\* Two entities; one message is gone already, one group's session may be held.
StoredRows ==
    {[Plain EXCEPT !.maxRuns = 2, !.place = At({1, 3, 7, 8, 9}, {5}, {}),
                   !.saved = Pending(<< <<1, 3>> >>, << <<7, 8>> >>, << <<9, 9>> >>)]}
\* A session row: what is carried meets the new deferrals around it.
SessionRows ==
    {[Plain EXCEPT !.maxRuns = 2, !.modes = {"defer_commit"}, !.sessionGroups = {1}, !.sessionEnabled = TRUE,
                   !.place = At({3, 4}, {1, 5}, {}), !.saved = Pending(<< <<3, 4>> >>, <<>>, <<>>)]}

\* At most two orphans anywhere among fresh messages; one past a used message.
ScanRows ==
    {[Plain EXCEPT !.modes = {"defer_commit"}, !.place = At(D, (1..5) \ D, {})] :
        D \in {S \in SUBSET (1..5) : Cardinality(S) <= 2}}
    \cup {[Plain EXCEPT !.modes = {"defer_commit"}, !.place = At({4}, {1, 5}, {3}),
                        !.delivered = d, !.maxRuns = 2] : d \in {1, 2}}
\* Partitions, known and not, and a sub-queue.
OtherRows ==
    {[Plain EXCEPT !.modes = {"defer_commit"}, !.place = At({2, 6}, {1}, {}),
                   !.metadata = k] : k \in {"partitioned", "unknown"}}
    \cup {[Plain EXCEPT !.modes = {"defer_commit"}, !.place = At({4}, {1, 2, 3}, {}),
                        !.subQueue = TRUE]}

AllRows == EncodedRows \cup StoredRows \cup SessionRows \cup ScanRows \cup OtherRows
=============================================================================
