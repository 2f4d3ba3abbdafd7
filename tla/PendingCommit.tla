---------------------------- MODULE PendingCommit ----------------------------
(***************************************************************************)
(* PendingCommitter (H5, commit.py): the pending set a row's state stores   *)
(* is deleted at the start of a destructive run, group by group, in chunks, *)
(* each chunk by bisected calls, each call with its retries.  What another  *)
(* receiver keeps us from deleting is carried into the new state; what an   *)
(* entity other than the configured one refuses is dropped as stale.        *)
(***************************************************************************)
EXTENDS PendingRanges

CONSTANTS
    GroupCount,     \* the (entity, session, partition) groups, in the state's order
    EntityOf,       \* the entity of a group: "own", the configured one, or "old"
    GroupOf,        \* the group of a message
    BodySize,       \* the size of a message's body
    CommitMaxCount, CommitMaxBytes,   \* the limits of one deferred receive
    Retries         \* the length of TRANSIENT_BACKOFF_SECONDS

Groups == 1..GroupCount
Seqs == DOMAIN GroupOf      \* the messages, by sequence number

ASSUME CommitAssumption ==
    /\ {GroupCount, CommitMaxCount, CommitMaxBytes} \subseteq Nat \ {0} /\ Retries \in Nat
    /\ EntityOf \in [Groups -> {"own", "old"}]
    /\ Seqs \subseteq Nat \ {0} /\ IsFiniteSet(Seqs) /\ GroupOf \in [Seqs -> Groups]
    /\ BodySize \in [Seqs -> Nat]
    \* the state lists the groups of an entity together
    /\ \A g, h, k \in Groups : g < h /\ h < k /\ EntityOf[g] = EntityOf[k] => EntityOf[h] = EntityOf[g]

VARIABLES
    \* the broker
    place,      \* place[m]: "deferred", "fresh" (never delivered), "used", "gone"
    locked,     \* deferred messages that an unanswered deferred receive locked
    \* the row
    row,        \* its configuration: see Reconcile
    saved,      \* state: pending_commit, the ranges and max_body_bytes of each group
    pc,         \* "idle", "open", "call", then the phases of Reconcile
    at,         \* the group being committed
    chunks,     \* its chunks, the first one is being received
    calls,      \* the bisected calls the first chunk still needs, first one first
    tries,      \* retries of the current call
    sessionRetry,       \* extra: a session held by another receiver is retried
    found, missing,     \* of the first chunk: received, and no longer there
    nextSeq,    \* _GroupProgress: everything below it is deleted
    carried,    \* the groups to carry forward, like saved
    stats,      \* committed, already_gone, carried_forward, dropped_stale
    \* history
    imported,   \* messages with an imported row that the state owned
    deleted     \* messages that calls of H5 deleted

broker == <<place, locked>>
call == <<chunks, calls, tries, sessionRetry, found, missing>>
progress == <<at, nextSeq>>
outcome == <<carried, stats>>
history == <<imported, deleted>>

Nothing == [ranges |-> <<>>, maxBody |-> 0]
NoStats == [committed |-> 0, alreadyGone |-> 0, carriedForward |-> 0, droppedStale |-> 0]

\* commit_chunk_size: at least one message.
CommitChunkSize(maxBody) == Max2(1, Min2(CommitMaxCount, CommitMaxBytes \div Max2(1, maxBody)))

\* A session group of a sub-queue is opened without its session.
HasSession(g) == g \in row.sessionGroups

\* The groups to work on, from g on: the ones with ranges.
From(g) == {h \in Groups : h >= g /\ saved[h].ranges # <<>>}
CountOf(S) ==
    LET sum[g \in 0..GroupCount] ==
            IF g = 0 THEN 0
            ELSE sum[g - 1] + (IF g \in S THEN CountRanges(saved[g].ranges) ELSE 0)
    IN  sum[GroupCount]

(***************************************************************************)
(* commit and _commit_entity: from group to group.                         *)
(***************************************************************************)

\* On to the first group of S, or past the last one: H5 is done.
OnTo(S) ==
    /\ at' = IF S = {} THEN GroupCount + 1 ELSE Min(S)
    /\ pc' = IF S = {} THEN "committed" ELSE "open"
    /\ chunks' = <<>> /\ calls' = <<>> /\ tries' = 0 /\ sessionRetry' = TRUE
    /\ found' = {} /\ missing' = {} /\ nextSeq' = 0

\* Mutation of CarryGroup: what was deleted before is counted as carried too.
CarryGroupCountingAll ==
    LET left == TailFrom(saved[at].ranges, nextSeq)
    IN  /\ carried' = [carried EXCEPT ![at] = [saved[at] EXCEPT !.ranges = left]]
        /\ stats' = [stats EXCEPT !.carriedForward = @ + CountRanges(saved[at].ranges)]

\* Another receiver holds the group's session: its tail is carried forward.
CarryGroup ==
    LET left == TailFrom(saved[at].ranges, nextSeq)
    IN  /\ carried' = [carried EXCEPT ![at] = [saved[at] EXCEPT !.ranges = left]]
        /\ stats' = [stats EXCEPT !.carriedForward = @ + CountRanges(left)]

\* _drop_stale: the entity's groups from here on stay deferred, unowned.
DropStale ==
    stats' = [stats EXCEPT !.droppedStale = @ + CountRanges(TailFrom(saved[at].ranges, nextSeq))
                 + CountOf({h \in From(at + 1) : EntityOf[h] = EntityOf[at]})]

\* The except clauses of _commit_entity: error leaves _delete_group.
GroupFails(error) ==
    \/ /\ error = "session_locked"
       /\ CarryGroup /\ OnTo(From(at + 1))
    \/ /\ error = "stale" /\ EntityOf[at] # "own"
       /\ DropStale /\ OnTo({h \in From(at + 1) : EntityOf[h] # EntityOf[at]})
       /\ UNCHANGED carried
    \/ /\ error \in {"transient", "other"} \/ (error = "stale" /\ EntityOf[at] = "own")
       /\ pc' = "failed"
       /\ UNCHANGED <<progress, call, outcome>>

\* What a call on the group's receiver can raise.
Errors == {"transient", "stale", "other"} \cup (IF HasSession(at) THEN {"session_locked"} ELSE {})

\* Mutation of RetryOr: one retry too many.
RetryOrOnceMore(error, retryable, Raised) ==
    IF error \in retryable /\ tries <= Retries
    THEN tries' = tries + 1 /\ UNCHANGED <<pc, progress, chunks, calls, sessionRetry, found,
                                           missing, outcome>>
    ELSE Raised

\* Mutation of RetryOr: the retries are not counted.
RetryOrForever(error, retryable, Raised) ==
    IF error \in retryable
    THEN /\ tries' = (IF tries = 0 THEN 1 ELSE 0)
         /\ UNCHANGED <<pc, progress, chunks, calls, sessionRetry, found, missing, outcome>>
    ELSE Raised

\* with_transient_retry: the call is repeated, or its error raised.
RetryOr(error, retryable, Raised) ==
    IF error \in retryable /\ tries < Retries
    THEN tries' = tries + 1 /\ UNCHANGED <<pc, progress, chunks, calls, sessionRetry, found,
                                           missing, outcome>>
    ELSE Raised

(***************************************************************************)
(* _delete_group.                                                          *)
(***************************************************************************)
OpenGroup ==
    LET todo == Batched(IterRanges(saved[at].ranges), CommitChunkSize(saved[at].maxBody))
    IN  /\ pc = "open"
        /\ IF todo = <<>> THEN OnTo(From(at + 1))
           ELSE /\ chunks' = todo /\ calls' = <<todo[1]>> /\ pc' = "call" /\ tries' = 0
                /\ UNCHANGED <<at, nextSeq, sessionRetry, found, missing>>
        /\ UNCHANGED <<broker, row, saved, outcome, history>>

OpenGroupFails ==
    /\ pc = "open"
    /\ \E error \in Errors :
          RetryOr(error, {"transient", "session_locked"}, GroupFails(error))
    /\ UNCHANGED <<broker, row, saved, history>>

Available(seqs) == \A q \in ToSet(seqs) : place[q] = "deferred" /\ q \notin locked
Gone(seqs) == [q \in Seqs |-> IF q \in ToSet(seqs) THEN "gone" ELSE place[q]]

\* Mutation of ChunkDone: the mark is set one too far.
ChunkDoneTooFar(F, M) ==
    /\ stats' = [stats EXCEPT !.committed = @ + Cardinality(F), !.alreadyGone = @ + Cardinality(M)]
    /\ IF Len(chunks) = 1 THEN OnTo(From(at + 1))
       ELSE /\ nextSeq' = Last(chunks[1]) + 2
            /\ chunks' = Tail(chunks) /\ calls' = <<chunks[2]>>
            /\ found' = {} /\ missing' = {} /\ sessionRetry' = FALSE
            /\ UNCHANGED <<at, pc>>

\* The chunk's call returned: F was received, M is already gone.
ChunkDone(F, M) ==
    /\ stats' = [stats EXCEPT !.committed = @ + Cardinality(F), !.alreadyGone = @ + Cardinality(M)]
    /\ IF Len(chunks) = 1 THEN OnTo(From(at + 1))
       ELSE /\ nextSeq' = Last(chunks[1]) + 1
            /\ chunks' = Tail(chunks) /\ calls' = <<chunks[2]>>
            /\ found' = {} /\ missing' = {} /\ sessionRetry' = FALSE
            /\ UNCHANGED <<at, pc>>

\* One bisected call is done; the chunk's last one completes the chunk.
CallDone(F, M) ==
    /\ tries' = 0
    /\ IF Len(calls) = 1 THEN ChunkDone(F, M)
       ELSE /\ calls' = Tail(calls) /\ found' = F /\ missing' = M
            /\ UNCHANGED <<pc, progress, chunks, sessionRetry, stats>>

\* The deferred receive deletes and returns its messages.
CommitCall ==
    /\ pc = "call" /\ Available(calls[1])
    /\ place' = Gone(calls[1]) /\ deleted' = deleted \cup ToSet(calls[1])
    /\ CallDone(found \cup ToSet(calls[1]), missing)
    /\ UNCHANGED <<locked, row, saved, carried, imported>>

Halves(seqs) == <<SubSeq(seqs, 1, Len(seqs) \div 2), SubSeq(seqs, Len(seqs) \div 2 + 1, Len(seqs))>>

\* receive_deferred_bisect on a MessageNotFoundError, which fails the whole call.
CommitCallNotFound ==
    /\ pc = "call" /\ ~Available(calls[1])
    /\ IF Len(calls[1]) = 1
       THEN CallDone(found, missing \cup ToSet(calls[1]))
       ELSE /\ calls' = Halves(calls[1]) \o Tail(calls) /\ tries' = 0
            /\ UNCHANGED <<pc, progress, chunks, sessionRetry, found, missing, stats>>
    /\ UNCHANGED <<broker, row, saved, carried, history>>

\* The call raises; the broker may have deleted the messages all the same.
CommitCallFails ==
    /\ pc = "call"
    /\ \E error \in Errors :
          /\ \/ UNCHANGED <<place, deleted>>
             \/ /\ error = "transient" /\ Available(calls[1])
                /\ place' = Gone(calls[1]) /\ deleted' = deleted \cup ToSet(calls[1])
          /\ RetryOr(error,
                     {"transient"} \cup (IF sessionRetry THEN {"session_locked"} ELSE {}),
                     GroupFails(error))
    /\ UNCHANGED <<locked, row, saved, imported>>

Commit == OpenGroupFails \/ CommitCallFails \/ OpenGroup \/ CommitCall \/ CommitCallNotFound

(***************************************************************************)
(* Properties of the commit.                                               *)
(***************************************************************************)
Committing == pc \in {"open", "call"}

\* H5 deletes nothing but messages whose rows were imported: the merged, carried
\* and re-encoded ranges never cover another deferral, however they were stored.
OnlyImportedDeleted == deleted \subseteq imported

\* _GroupProgress: everything of the group below next_seq is gone, whatever was
\* bisected, retried or lost before -- so the tail misses nothing.
BelowIsDeleted ==
    Committing => \A q \in Seqs : GroupOf[q] = at /\ q < nextSeq /\ q \in Cover(saved[at].ranges)
                                     => place[q] # "deferred"

BytesOf(seqs) ==
    LET sum[i \in 0..Len(seqs)] == IF i = 0 THEN 0 ELSE sum[i - 1] + BodySize[seqs[i]]
    IN  sum[Len(seqs)]

\* The bodies of a call never exceed the limit, unless it asks for one message:
\* the largest body of a group survives the carrying and re-encoding.
ChunksFit ==
    pc = "call" => \/ Len(calls[1]) = 1
                   \/ Len(calls[1]) <= CommitMaxCount /\ BytesOf(calls[1]) <= CommitMaxBytes
=============================================================================
