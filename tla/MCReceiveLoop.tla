---------------------------- MODULE MCReceiveLoop ----------------------------
(***************************************************************************)
(* ReceiveLoop on small instances: the rows that the runs start with.      *)
(***************************************************************************)
EXTENDS ReceiveLoop

OneSession == [m \in Seqs |-> "s0"]
\* The first message and the newer ones are in one session, the rest in another.
TwoSessions(newer) == [m \in Seqs |-> IF m = 1 \/ m \in newer THEN "s0" ELSE "s1"]

\* A plain row: every field another row does not change.
Plain ==
    [old |-> {1, 2, 3, 4}, newer |-> {}, bad |-> {}, mode |-> "complete",
     policy |-> "dead_letter", sessionEnabled |-> FALSE, sessionOf |-> OneSession, contended |-> {},
     partitioned |-> FALSE, stopAtStart |-> FALSE, batchSize |-> 1, prefetch |-> 1,
     limit |-> 0, maxRecoveries |-> 2, catchUpWait |-> FALSE, stalls |-> FALSE,
     timesOut |-> FALSE, maxFaults |-> 0]

\* A deferring row with interruptions, stalls and a catch-up, on a partitioned entity.
Faulty ==
    [Plain EXCEPT !.old = {1, 2, 3}, !.bad = {1}, !.mode = "defer_commit",
                  !.policy = "leave", !.partitioned = TRUE, !.batchSize = 2,
                  !.maxRecoveries = 1, !.catchUpWait = TRUE, !.stalls = TRUE,
                  !.maxFaults = 2]
\* A limited row with newer messages, a large prefetch, stalls and a deadline.
Limited ==
    [Plain EXCEPT !.newer = {5}, !.stopAtStart = TRUE, !.batchSize = 2, !.prefetch = 2,
                  !.limit = 4, !.stalls = TRUE, !.timesOut = TRUE]
\* receive_and_delete over two sessions, with faults.
Deleting ==
    [Plain EXCEPT !.old = {1, 2, 3}, !.newer = {4}, !.bad = {2},
                  !.mode = "receive_and_delete", !.policy = "fail",
                  !.sessionEnabled = TRUE, !.sessionOf = TwoSessions({4}), !.contended = {"s1"},
                  !.stopAtStart = TRUE, !.batchSize = 2, !.limit = 2,
                  !.catchUpWait = TRUE, !.stalls = TRUE, !.timesOut = TRUE, !.maxFaults = 2]
\* A deferring row interrupted once, with room for a locked cluster.
Clustered ==
    [Plain EXCEPT !.old = {1, 2, 3, 4, 5}, !.mode = "defer_commit", !.maxFaults = 1]

\* Unreadable bodies that count for the limit only once they came back.
Retrying ==
    [Plain EXCEPT !.old = {1, 2, 3}, !.bad = {1, 2}, !.partitioned = TRUE, !.batchSize = 2,
                  !.limit = 2]

LoopRows == {Faulty, Limited, Deleting, Clustered, Retrying}
RecycleRows == {[Plain EXCEPT !.bad = {1}]}
RevisitRows ==
    {[Plain EXCEPT !.old = {1, 2}, !.newer = {3}, !.sessionEnabled = TRUE,
                   !.sessionOf = TwoSessions({3}), !.batchSize = 2]}
=============================================================================
