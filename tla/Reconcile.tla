------------------------------ MODULE Reconcile ------------------------------
(***************************************************************************)
(* The start of a destructive run: the commit of the pending set            *)
(* (PendingCommit), then the orphan scan of a defer_commit run (H3) or the  *)
(* probe of the other modes, page by page, and what the run makes of it:    *)
(* its new deferrals and the carried groups become the next pending set.    *)
(***************************************************************************)
EXTENDS PendingCommit

CONSTANTS
    Rows,         \* the rows and what they find: see RowsAssumption
    PartitionOf,  \* the partition of a group: the top bits of its sequence numbers
    Bad,          \* messages whose body does not decode (dead-lettered)
    Expiring,     \* deferred messages that may expire
    MaxDelivery, DefaultMaxDelivery,   \* the entity's, and EntityInfo's without metadata
    PageSize, PageCap, K, BatchSize    \* ORPHAN_PAGE_SIZE, ORPHAN_PAGE_CAP, k_stop, batch_size

ASSUME RowsAssumption ==
    /\ PartitionOf \in [Groups -> Nat] /\ Bad \subseteq Seqs /\ Expiring \subseteq Seqs
    /\ {MaxDelivery, DefaultMaxDelivery, PageSize, PageCap, K, BatchSize} \subseteq Nat \ {0}
    /\ \A r \in Rows :
          /\ r.modes \subseteq {"defer_commit", "complete"}
          /\ r.sessionGroups \subseteq Groups /\ r.sessionEnabled \in BOOLEAN /\ r.subQueue \in BOOLEAN
          /\ r.metadata \in {"plain", "partitioned", "unknown"}
          /\ r.place \in [Seqs -> {"deferred", "fresh", "used", "gone"}]
          /\ r.maxRuns \in Nat       \* bound: runs of the row
          /\ r.delivered \in 0..(MaxDelivery - 1)
          \* a stored group holds its own messages, in any order, overlaps and empty ranges too
          /\ r.saved \in [Groups -> [ranges : Seq(Int \X Int), maxBody : Nat]]
          /\ \A g \in Groups : Cover(r.saved[g].ranges) \subseteq {q \in Seqs : GroupOf[q] = g}
          \* and knows how large they can be
          /\ \A g \in Groups : \A q \in Cover(r.saved[g].ranges) : BodySize[q] <= r.saved[g].maxBody
          \* a row without sessions reads an entity without sessions
          /\ ~r.sessionEnabled => \A g \in r.sessionGroups : EntityOf[g] # "own"

VARIABLES
    dc,           \* delivery counts
    runs,         \* runs so far
    mode,         \* settlement_mode
    partitioned,  \* info.is_partitioned: known, or seen in a sequence number
    next, shown, pages,   \* next_seq, what this peeker showed, pages read
    consecutive, stopped, \* the K rule
    draft,        \* PendingSetBuilder: the messages deferred in this run, by group
    guarded,      \* stats.orphans_guarded
    warnings,     \* stats.warnings
    lost,         \* history: orphans whose deferred receive was not answered
    unfound       \* history: orphans this scan was told are not there (or locked)

scanVars == <<partitioned, next, shown, pages, consecutive, stopped>>
runVars == <<runs, mode, row>>
results == <<draft, guarded, warnings>>
vars == <<broker, dc, runVars, saved, pc, progress, call, outcome, history, scanVars,
          results, lost, unfound>>

Own(q) == EntityOf[GroupOf[q]] = "own"
Present == {q \in Seqs : Own(q) /\ place[q] \in {"deferred", "fresh", "used"}}
NoDraft == [g \in Groups |-> [seqs |-> {}, maxBody |-> 0]]
Drafted == UNION {draft[g].seqs : g \in Groups}

TypeOK ==
    /\ place \in [Seqs -> {"deferred", "fresh", "used", "gone", "exhausted"}]
    /\ locked \subseteq {q \in Seqs : place[q] = "deferred"}
    /\ dc \in [Seqs -> 0..MaxDelivery]
    /\ runs \in 0..row.maxRuns /\ mode \in {"defer_commit", "complete"}
    /\ pc \in {"idle", "open", "call", "committed", "scan", "recover", "receive", "finish", "failed"}
    /\ at \in 1..(GroupCount + 1) /\ tries \in 0..Retries /\ sessionRetry \in BOOLEAN
    /\ \A i \in DOMAIN calls : calls[i] # <<>> /\ ToSet(calls[i]) \subseteq ToSet(chunks[1])
    /\ found \cup missing \subseteq Seqs /\ found \cap missing = {} /\ nextSeq \in Nat
    /\ \A g \in Groups : Cover(carried[g].ranges) \subseteq Cover(saved[g].ranges)
    /\ imported \subseteq Seqs /\ deleted \subseteq Seqs /\ lost \cup unfound \subseteq Seqs
    /\ partitioned \in BOOLEAN /\ next \in Nat \ {0} /\ shown \subseteq Seqs
    /\ pages \in 0..PageCap /\ consecutive \in 0..K /\ stopped \in BOOLEAN
    /\ guarded \subseteq Seqs
    /\ warnings \subseteq {"sessions", "best_effort", "incomplete", "foreign"}

Init ==
    /\ row \in Rows
    /\ place = row.place /\ locked = {} /\ saved = row.saved
    /\ dc = [q \in Seqs |-> IF place[q] = "deferred" THEN row.delivered ELSE 0]
    /\ runs = 0 /\ mode \in row.modes /\ pc = "idle"
    /\ at = 1 /\ nextSeq = 0 /\ chunks = <<>> /\ calls = <<>> /\ tries = 0
    /\ sessionRetry = TRUE /\ found = {} /\ missing = {}
    /\ carried = [g \in Groups |-> Nothing] /\ stats = NoStats
    /\ imported = UNION {Cover(saved[g].ranges) : g \in Groups} /\ deleted = {}
    /\ partitioned = FALSE /\ next = 1 /\ shown = {} /\ pages = 0
    /\ consecutive = 0 /\ stopped = FALSE
    /\ draft = NoDraft /\ guarded = {} /\ warnings = {} /\ lost = {} /\ unfound = {}

\* A run with fresh state; H5 comes first.
StartRun ==
    /\ pc = "idle" /\ runs < row.maxRuns
    /\ runs' = runs + 1 /\ mode' \in row.modes
    /\ carried' = [g \in Groups |-> Nothing] /\ stats' = NoStats
    /\ partitioned' = (row.metadata = "partitioned") /\ next' = 1 /\ shown' = {} /\ pages' = 0
    /\ consecutive' = 0 /\ stopped' = FALSE
    /\ draft' = NoDraft /\ guarded' = {} /\ warnings' = {} /\ unfound' = {}
    /\ OnTo(From(1))
    /\ UNCHANGED <<broker, dc, row, saved, history, lost>>

H5 == Commit /\ UNCHANGED <<dc, runs, mode, scanVars, results, lost, unfound>>

(***************************************************************************)
(* OrphanScanner and ForeignDeferralProbe.                                 *)
(***************************************************************************)
Unscanned == <<broker, dc, runVars, saved, progress, call, outcome, history, lost, unfound>>

\* A session entity cannot be scanned: a warning.
NoScanOfSessions ==
    /\ pc = "committed" /\ row.sessionEnabled
    /\ warnings' = IF mode = "defer_commit" THEN {"sessions"} ELSE {}
    /\ pc' = "receive"
    /\ UNCHANGED <<Unscanned, scanVars, draft, guarded>>

StartScan ==
    /\ pc = "committed" /\ ~row.sessionEnabled /\ mode = "defer_commit"
    /\ pc' = "scan"
    /\ UNCHANGED <<Unscanned, scanVars, results>>

\* What a peek shows: the lowest messages from next on, or with the receiver's
\* own cursor (partitioned entities) any of those it has not shown.
Ahead == IF partitioned THEN Present \ shown ELSE {q \in Present : q >= next}
IsPage(P) ==
    /\ P \subseteq Ahead /\ Cardinality(P) <= PageSize /\ (P = {} => Ahead = {})
    /\ ~partitioned => \A q \in P, k \in Ahead \ P : q < k

Reveals(q) == PartitionOf[GroupOf[q]] # 0

\* Mutation of GuardThreshold: the max delivery count itself.
GuardThresholdMax == IF row.metadata = "unknown" THEN DefaultMaxDelivery ELSE MaxDelivery

\* orphan_guard_threshold; without management access the default count is used.
GuardThreshold == (IF row.metadata = "unknown" THEN DefaultMaxDelivery ELSE MaxDelivery) - 1

\* _best_effort when message q of page P is looked at: no K rule.
BestEffort(P, q) == partitioned \/ row.subQueue \/ \E k \in P : k <= q /\ Reveals(k)
Qualifies(P, q) == place[q] = "fresh" /\ ~BestEffort(P, q)
Deferrals(P) == {q \in P : place[q] = "deferred"}

\* Mutation of ConsecutiveAt: a deferral does not reset the count.
ConsecutiveOverDeferrals(P, q) ==
    Cardinality({k \in P : k <= q /\ Qualifies(P, k)}) + consecutive

\* The consecutive qualifying messages up to q: a deferral starts over, a page
\* does not.
ConsecutiveAt(P, q) ==
    LET since == {d \in Deferrals(P) : d < q}
    IN  Cardinality({k \in P : k <= q /\ Qualifies(P, k) /\ \A d \in since : d < k})
            + (IF since = {} THEN consecutive ELSE 0)

\* _best_effort before a peek.
BestEffortWarned ==
    IF partitioned \/ row.subQueue THEN warnings \cup {"best_effort"} ELSE warnings

Stops(P) == {q \in P : Qualifies(P, q) /\ ConsecutiveAt(P, q) >= K}
Reached(P) == {q \in P : \A s \in Stops(P) : q <= s}

\* _recover: the orphans, ascending, by partition, in calls of the batch size.
RecoveryCalls(O) ==
    LET parts == {PartitionOf[GroupOf[q]] : q \in O}
        ofPart(p) == Ascending({q \in O : PartitionOf[GroupOf[q]] = p})
        ordered == Ascending(parts)
    IN  FlattenSeq([i \in DOMAIN ordered |->
            Batched(ofPart(ordered[i]), Min2(CommitMaxCount, BatchSize))])

\* One page is peeked; its orphans, if any, are recovered before the next one.
ScanPage ==
    /\ pc = "scan" /\ ~stopped /\ pages < PageCap /\ Ahead # {}
    /\ \E P \in SUBSET Ahead :
          LET orphans == {q \in Reached(P) : place[q] = "deferred" /\ dc[q] < GuardThreshold}
              todo == RecoveryCalls(orphans)
          IN  /\ IsPage(P)
              /\ guarded' = guarded \cup (Deferrals(Reached(P)) \ orphans)
              /\ partitioned' = (partitioned \/ \E q \in Reached(P) : Reveals(q))
              /\ warnings' = IF \E q \in Reached(P) \ Deferrals(P) : BestEffort(P, q)
                             THEN BestEffortWarned \cup {"best_effort"} ELSE BestEffortWarned
              /\ consecutive' = IF Stops(P) # {} THEN K ELSE ConsecutiveAt(P, Max(P) + 1)
              /\ stopped' = (Stops(P) # {})
              /\ next' = Max(P) + 1 /\ shown' = shown \cup P /\ pages' = pages + 1
              /\ IF todo = <<>> THEN UNCHANGED <<pc, call>>
                 ELSE /\ pc' = "recover" /\ chunks' = todo /\ calls' = <<todo[1]>>
                      /\ tries' = 0 /\ found' = {} /\ missing' = {} /\ UNCHANGED sessionRetry
    /\ UNCHANGED <<broker, dc, runVars, saved, progress, outcome, history, draft, lost, unfound>>

\* The end of the entity, the K rule, or the page cap with its warning.
ScanDone ==
    /\ pc = "scan"
    /\ \/ stopped /\ UNCHANGED warnings
       \/ ~stopped /\ pages = PageCap /\ warnings' = warnings \cup {"incomplete"}
       \/ ~stopped /\ pages < PageCap /\ Ahead = {} /\ warnings' = BestEffortWarned
    /\ pc' = "receive"
    /\ UNCHANGED <<Unscanned, scanVars, draft, guarded>>

\* A deferred receive locks its messages and counts a delivery.
Locks(seqs) ==
    /\ dc' = [q \in Seqs |-> IF q \in ToSet(seqs) THEN dc[q] + 1 ELSE dc[q]]
    /\ UNCHANGED place

\* PendingSetBuilder.add, of the messages S.
Drafting(S) ==
    [g \in Groups |->
        LET new == {q \in S : GroupOf[q] = g}
        IN  [seqs |-> draft[g].seqs \cup new,
             maxBody |-> Max({draft[g].maxBody} \cup {BodySize[q] : q \in new})]]

\* The call's messages are processed: their rows are written and they are
\* deferred again, a message at the maximum delivery count is exhausted instead,
\* and an unreadable one goes to the dead-letter sub-queue at once (a call on a
\* copy whose lock lapsed has no effect).
OrphansProcessed(F) ==
    /\ place' = [q \in Seqs |->
           CASE q \in F \cap locked \cap Bad -> "gone"
             [] q \in (F \cap locked) \ Bad /\ dc[q] >= MaxDelivery -> "exhausted"
             [] OTHER -> place[q]]
    /\ locked' = locked \ F
    /\ draft' = Drafting(F \ Bad)

RecoverCall ==
    /\ pc = "recover" /\ calls # <<>> /\ Available(calls[1])
    /\ Locks(calls[1]) /\ locked' = locked \cup ToSet(calls[1])
    /\ found' = found \cup ToSet(calls[1]) /\ calls' = Tail(calls) /\ tries' = 0
    /\ UNCHANGED <<runVars, saved, pc, progress, chunks, sessionRetry, missing, outcome,
                   history, scanVars, results, lost, unfound>>

RecoverCallNotFound ==
    /\ pc = "recover" /\ calls # <<>> /\ ~Available(calls[1])
    /\ IF Len(calls[1]) = 1
       THEN /\ missing' = missing \cup ToSet(calls[1]) /\ calls' = Tail(calls)
            /\ unfound' = unfound \cup ToSet(calls[1])
       ELSE calls' = Halves(calls[1]) \o Tail(calls) /\ UNCHANGED <<missing, unfound>>
    /\ tries' = 0
    /\ UNCHANGED <<broker, dc, runVars, saved, pc, progress, chunks, sessionRetry, found,
                   outcome, history, scanVars, results, lost>>

\* The call fails, executed or not; after the last retry the scan fails.
RecoverCallFails ==
    /\ pc = "recover" /\ calls # <<>>
    /\ \/ UNCHANGED <<broker, dc, lost>>
       \/ /\ Available(calls[1]) /\ Locks(calls[1])
          /\ locked' = locked \cup ToSet(calls[1]) /\ lost' = lost \cup ToSet(calls[1])
    /\ IF tries < Retries THEN tries' = tries + 1 /\ UNCHANGED pc
       ELSE pc' = "failed" /\ UNCHANGED tries
    /\ UNCHANGED <<runVars, saved, progress, chunks, calls, sessionRetry, found, missing,
                   outcome, history, scanVars, results, unfound>>

\* The chunk is complete: what was received goes through the batch processor.
RecoverChunk ==
    /\ pc = "recover" /\ calls = <<>>
    /\ OrphansProcessed(found)
    /\ chunks' = Tail(chunks) /\ found' = {} /\ missing' = {} /\ tries' = 0
    /\ IF Len(chunks) = 1 THEN pc' = "scan" /\ calls' = <<>>
       ELSE calls' = <<chunks[2]>> /\ UNCHANGED pc
    /\ UNCHANGED <<dc, runVars, saved, progress, sessionRetry, outcome, history, scanVars,
                   guarded, warnings, lost, unfound>>

\* The other modes only report the first page's deferrals.
Probe ==
    /\ pc = "committed" /\ ~row.sessionEnabled /\ mode # "defer_commit"
    /\ \E P \in SUBSET Ahead :
          /\ IsPage(P)
          /\ warnings' = IF Deferrals(P) # {} THEN {"foreign"} ELSE {}
    /\ pc' = "receive"
    /\ UNCHANGED <<Unscanned, scanVars, draft, guarded>>

\* A peek fails, or processing orphans does: the run fails.
ScanFails ==
    /\ pc \in {"committed", "scan", "recover"} /\ ~row.sessionEnabled
    /\ pc' = "failed"
    /\ UNCHANGED <<Unscanned, scanVars, results>>

(***************************************************************************)
(* The rest of the run, and its state.                                     *)
(***************************************************************************)

\* The receive loop: in defer_commit mode some messages are deferred.
Receive ==
    /\ pc = "receive"
    /\ \E S \in SUBSET {q \in Seqs : Own(q) /\ place[q] = "fresh"} :
          /\ mode # "defer_commit" => S = {}
          /\ place' = [q \in Seqs |-> IF q \in S THEN "deferred" ELSE place[q]]
          /\ draft' = Drafting(S)
    /\ pc' = "finish"
    /\ UNCHANGED <<locked, dc, runVars, saved, progress, call, outcome, history, scanVars,
                   guarded, warnings, lost, unfound>>

\* Mutation of Built: the body sizes of the carried messages are forgotten.
BuiltForgetful(g) ==
    [ranges |-> MergeRanges(carried[g].ranges \o ToRanges(draft[g].seqs)),
     maxBody |-> draft[g].maxBody]

\* Mutation of Built: the carried ranges are not merged with the new ones.
BuiltUnmerged(g) ==
    [ranges |-> carried[g].ranges \o ToRanges(draft[g].seqs),
     maxBody |-> Max2(carried[g].maxBody, draft[g].maxBody)]

\* PendingSetBuilder.carry and build.
Built(g) ==
    [ranges |-> MergeRanges(MergeRanges(carried[g].ranges) \o ToRanges(draft[g].seqs)),
     maxBody |-> Max2(carried[g].maxBody, draft[g].maxBody)]

\* The job succeeds, import included: the rows and the new state are durable.
JobSucceeds ==
    /\ pc = "finish"
    /\ saved' = [g \in Groups |-> Built(g)]
    /\ imported' = imported \cup Drafted
    /\ pc' = "idle"
    /\ UNCHANGED <<broker, dc, runVars, progress, call, outcome, deleted, scanVars, results, lost, unfound>>

\* The job fails, at the latest in its import: the input state stays.
JobFails ==
    /\ pc \in {"failed", "finish"}
    /\ pc' = "idle"
    /\ UNCHANGED <<broker, dc, runVars, saved, progress, call, outcome, history, scanVars,
                   results, lost, unfound>>

(***************************************************************************)
(* The broker.                                                             *)
(***************************************************************************)

\* A lock lapses; at the maximum delivery count the
\* message is exhausted.
LockLapses(q) ==
    /\ q \in locked
    /\ locked' = locked \ {q}
    /\ place' = [place EXCEPT ![q] = IF dc[q] >= MaxDelivery THEN "exhausted" ELSE @]
    /\ UNCHANGED <<dc, runVars, saved, pc, progress, call, outcome, history, scanVars,
                   results, lost, unfound>>

Expires(q) ==
    /\ q \in Expiring \ locked /\ place[q] = "deferred" /\ pc \in {"call", "recover", "scan"}
    /\ place' = [place EXCEPT ![q] = "gone"]
    /\ UNCHANGED <<locked, dc, runVars, saved, pc, progress, call, outcome, history,
                   scanVars, results, lost, unfound>>

Scan == \/ ScanFails \/ NoScanOfSessions \/ StartScan \/ ScanPage \/ ScanDone \/ Probe
        \/ RecoverCallFails \/ RecoverCall \/ RecoverCallNotFound \/ RecoverChunk
Run == JobFails \/ StartRun \/ H5 \/ Scan \/ Receive \/ JobSucceeds

Next == Run \/ \E q \in Seqs : LockLapses(q) \/ Expires(q)

Spec == Init /\ [][Next]_vars
FairSpec == Spec /\ WF_vars(Run)

(***************************************************************************)
(* Properties.                                                             *)
(***************************************************************************)
AfterCommit == pc \in {"committed", "scan", "recover", "receive", "finish"}
Stored(q) == q \in Cover(saved[GroupOf[q]].ranges)

\* Nothing the state owned is forgotten by a commit that ends well: it is gone,
\* carried forward, or (another entity's) reported as stale.  Whatever was split,
\* retried, lost or held by another receiver on the way.
RestIsCarried ==
    AfterCommit => \A q \in Seqs : Stored(q) /\ place[q] = "deferred" =>
        \/ q \in Cover(carried[GroupOf[q]].ranges)
        \/ ~Own(q) /\ stats.droppedStale > 0
        \/ q \in Drafted

\* The summary's counts add up to what the state held, each message once.
CountsAddUp ==
    AfterCommit =>
        stats.committed + stats.alreadyGone + stats.carriedForward + stats.droppedStale
            = Cardinality({q \in Seqs : Stored(q)})

\* The state a run saves owns exactly what it carried and what it deferred, as
\* sorted ranges with gaps between them.
SavedIsExact ==
    [][saved' # saved => \A g \in Groups :
          /\ Cover(saved'[g].ranges) = Cover(carried[g].ranges) \cup draft[g].seqs
          /\ Canonical(saved'[g].ranges)]_vars

\* K fresh messages in front of q, with no deferral among them: the scan stops
\* there at the latest.
BehindK(q) ==
    \E F \in SUBSET {k \in Present : place[k] = "fresh" /\ k < q} :
        Cardinality(F) = K /\ \A d \in Deferrals(Present) : d < Min(F) \/ d > Max(F)

\* A scan of a plain entity that warns of nothing leaves no readable deferral that
\* was there to be received, unless K never-delivered messages lie in front of it:
\* over page borders, bisected calls and lost replies.
NoOrphanMissed ==
    pc = "receive" /\ mode = "defer_commit" /\ warnings = {} =>
        \A q \in Deferrals(Present) :
            q \in Drafted \cup guarded \cup unfound \cup Bad \/ BehindK(q)

\* No recovery exhausts a message, run after run, unless one of its deferred
\* receives was not answered (each repetition counts a delivery) or the entity's
\* max delivery count was not known.
GuardHolds ==
    \A q \in Seqs : place[q] = "exhausted" => q \in lost \/ row.metadata = "unknown"

\* The start of a run ends, whatever fails: calls, retries, chunks, pages and
\* bisections are all bounded.
ReconcileEnds == [](pc = "open" => <>(pc \in {"receive", "failed"}))
=============================================================================
