------------------------------ MODULE PeekPager ------------------------------
(***************************************************************************)
(* The peek mode (peek.py) over the runs of a row: incremental fetch from   *)
(* the stored cursor, full fetch from the start, cursor mode on partitioned *)
(* entities and held receivers on session entities, with the re-peek of     *)
(* unreadable bodies, connection recovery and the stops.  Nothing is locked *)
(* or deleted: what is at stake is which messages get a row and where the   *)
(* next incremental fetch resumes.                                          *)
(***************************************************************************)
EXTENDS Naturals, FiniteSets

CONSTANTS
    Seqs,         \* the messages, by sequence number
    Bad,          \* messages whose body can fail to decode
    Skippable,    \* messages that may be scheduled or expired when peeked
    Leaving,      \* messages other consumers may take meanwhile
    Kinds,        \* the entities: see kind
    SessionOf,    \* the session of a message
    Contended,    \* sessions other consumers may lock
    FetchModes,   \* source.fetch_mode: "incremental_fetch", "full_fetch"
    Policy,       \* unreadable_body
    StopAtStart,  \* limits.stop_at_job_start
    PageSize, Limit,             \* PEEK_PAGE_SIZE, limits.max_messages (0: none)
    MaxRecoveries, MaxRecycles,  \* the two retry budgets
    ShortPages,   \* may a page end before PageSize although messages follow?
    Lapses,       \* may the lock of a visited, held session lapse?
    MaxFaults     \* bound: failures of a connection, a batch or a job, deadlines

ASSUME PeekAssumption ==
    /\ IsFiniteSet(Seqs) /\ Seqs \subseteq Nat \ {0}
    /\ Bad \subseteq Seqs /\ Skippable \subseteq Seqs /\ Leaving \subseteq Seqs
    /\ \A m \in Seqs : SessionOf[m] # "none"
    /\ Contended \subseteq {SessionOf[m] : m \in Seqs}
    /\ Kinds \subseteq {"plain", "partitioned", "unknown", "sessions"}
    /\ FetchModes \subseteq {"incremental_fetch", "full_fetch"}
    /\ Policy \in {"dead_letter", "leave", "fail"}
    /\ {StopAtStart, ShortPages, Lapses} \subseteq BOOLEAN
    /\ PageSize \in Nat \ {0} /\ Limit \in Nat
    /\ {MaxRecoveries, MaxRecycles, MaxFaults} \subseteq Nat

VARIABLES
    kind,       \* the entity: "unknown" is partitioned without management access
    arrived, gone,   \* messages sent so far; messages others consumed since
    others,     \* the sessions locked by other consumers
    faults,     \* faults so far, at most MaxFaults
    cursor,     \* state: peek_cursor, 0 for none
    storage, skipped,   \* messages with an imported row; passed over for good
    pc,         \* "idle", "page", "accept", "session", "finished", "failed"
    fetch,      \* the run's fetch mode
    fresh,      \* messages sent since T0, the start of the run
    late,       \* max_duration_seconds has passed
    reason,     \* the stop reason
    next,       \* next_seq of the explicit paging
    byCursor, shown,    \* cursor_mode, and what its receiver has peeked
    session, held, seen,     \* the session being peeked; the locked ones; seen
    processed, high, outstanding, taken,   \* as in PeekPager (0 for None)
    count, progressed,       \* the RecoveryTracker
    recycles, retried,       \* unreadable_recycles; failed on an earlier connection
    rows, twice, passed \* this run's rows; rows written twice; passed over

world == <<kind, arrived, gone, others>>
durable == <<cursor, storage, skipped>>
run == <<fetch, fresh, late, reason>>
paging == <<next, byCursor, shown>>
sessions == <<session, held, seen>>
marks == <<processed, high, outstanding, taken>>
tracker == <<count, progressed>>
unreadable == <<recycles, retried>>
output == <<rows, twice, passed>>
vars == <<world, faults, durable, pc, run, paging, sessions, marks, tracker,
          unreadable, output>>

Present == arrived \ gone
SessionIds == {SessionOf[m] : m \in Seqs}
Incremental == fetch = "incremental_fetch"
MaxOf(S) == CHOOSE m \in S : \A k \in S : k <= m
MinOf(S) == CHOOSE m \in S : \A k \in S : m <= k
StopReasons == {"end_of_entity", "max_messages", "max_duration", "watermark",
                "no_more_sessions", "session_revisited"}

TypeOK ==
    /\ kind \in Kinds /\ gone \subseteq arrived /\ arrived \subseteq Seqs
    /\ others \subseteq Contended /\ faults \in 0..MaxFaults
    /\ cursor \in Nat /\ storage \subseteq arrived /\ skipped \subseteq arrived
    /\ pc \in {"idle", "page", "accept", "session", "finished", "failed"}
    /\ fetch \in FetchModes /\ fresh \subseteq arrived /\ late \in BOOLEAN
    /\ reason \in StopReasons \cup {"none"}
    /\ next \in Nat \ {0} /\ byCursor \in BOOLEAN /\ shown \subseteq arrived
    /\ session \in SessionIds \cup {"none"}
    /\ held \subseteq SessionIds /\ seen \subseteq SessionIds
    /\ processed \subseteq arrived /\ high \in Seqs \cup {0} /\ outstanding \in Seqs \cup {0}
    /\ taken \in Nat
    /\ count \in 0..MaxRecoveries /\ progressed \in BOOLEAN
    /\ recycles \in 0..MaxRecycles /\ retried \subseteq Bad
    /\ rows \subseteq arrived /\ twice \subseteq rows /\ passed \subseteq arrived

Fault == faults < MaxFaults /\ faults' = faults + 1

\* What a pager starts with (PeekPager.__init__), and a process that is over has.
FreshPager ==
    /\ late' = FALSE /\ reason' = "none"
    /\ shown' = {} /\ session' = "none" /\ held' = {} /\ seen' = {}
    /\ processed' = {} /\ high' = 0 /\ outstanding' = 0 /\ taken' = 0
    /\ count' = 0 /\ progressed' = TRUE /\ recycles' = 0 /\ retried' = {}
    /\ rows' = {} /\ twice' = {} /\ passed' = {}

Init ==
    /\ kind \in Kinds /\ \E a \in SUBSET Seqs :
          arrived = a /\ \A m \in Seqs \ a, k \in a : k < m
    /\ gone = {} /\ others = {} /\ faults = 0
    /\ cursor = 0 /\ storage = {} /\ skipped = {}
    /\ pc = "idle" /\ fetch \in FetchModes /\ fresh = {} /\ late = FALSE /\ reason = "none"
    /\ next = 1 /\ byCursor = FALSE /\ shown = {}
    /\ session = "none" /\ held = {} /\ seen = {}
    /\ processed = {} /\ high = 0 /\ outstanding = 0 /\ taken = 0
    /\ count = 0 /\ progressed = TRUE /\ recycles = 0 /\ retried = {}
    /\ rows = {} /\ twice = {} /\ passed = {}

\* run(): incremental fetch refuses a partitioned entity (and, by its
\* configuration, a session entity).  A full fetch of an entity known to be
\* partitioned uses cursor mode at once.
StartRun ==
    /\ pc = "idle"
    /\ fetch' \in IF kind = "sessions" THEN FetchModes \ {"incremental_fetch"} ELSE FetchModes
    /\ LET incremental == fetch' = "incremental_fetch"
       IN  /\ pc' = CASE kind = "sessions" -> "accept"
                      [] kind = "partitioned" /\ incremental -> "failed"
                      [] OTHER -> "page"
           /\ next' = IF incremental THEN cursor + 1 ELSE 1
           /\ byCursor' = (kind = "partitioned" /\ ~incremental)
    /\ fresh' = {} /\ FreshPager
    /\ UNCHANGED <<world, faults, durable>>

(***************************************************************************)
(* Stops, and the recovery of a connection.                                *)
(***************************************************************************)
Peeking == pc \in {"page", "accept", "session"}

\* _stop_check.
StopRule == CASE Limit > 0 /\ taken >= Limit -> "max_messages"
              [] ~(Limit > 0 /\ taken >= Limit) /\ late -> "max_duration"
              [] OTHER -> "none"

\* run() closes every receiver when it returns.
Finished(r) == pc' = "finished" /\ reason' = r /\ held' = {} /\ session' = "none"

StopNow ==
    /\ Peeking /\ StopRule # "none"
    /\ Finished(StopRule)
    /\ UNCHANGED <<world, faults, durable, fetch, fresh, late, paging, seen, marks, tracker,
                   unreadable, output>>

\* Mutation of BudgetSpent: one recovery too many.
BudgetSpentLate == count > MaxRecoveries \/ ~progressed

\* RecoveryTracker.failure: the budget is spent, or nothing was written or
\* disposed of since the last connection failure.
BudgetSpent == count >= MaxRecoveries \/ ~progressed

\* A connection fails.  _recover closes every receiver, so a cursor-mode one
\* starts over, and the held sessions are released and may be seen again.
ConnectionFails ==
    /\ Peeking /\ StopRule = "none" /\ Fault
    /\ shown' = {} /\ session' = "none" /\ held' = {} /\ seen' = {}
    /\ IF BudgetSpent
       THEN pc' = "failed" /\ UNCHANGED tracker
       ELSE /\ pc' = IF kind = "sessions" THEN "accept" ELSE "page"
            /\ count' = count + 1 /\ progressed' = FALSE
    /\ UNCHANGED <<world, durable, run, next, byCursor, marks, unreadable, output>>

(***************************************************************************)
(* _export: one page.                                                      *)
(***************************************************************************)

\* What the next peek can show: explicit paging from next (of the session), or
\* the receiver's own cursor, which visits the partitions in any order.
Ahead ==
    IF byCursor THEN Present \ shown
    ELSE {m \in Present : m >= next /\ (pc = "session" => SessionOf[m] = session)}

IsPage(P) ==
    /\ P # {} /\ Cardinality(P) <= PageSize
    /\ ~byCursor => /\ \A m \in P, k \in Ahead \ P : m < k
                    /\ ShortPages \/ P = Ahead \/ Cardinality(P) = PageSize

\* Of page P, K is scheduled or expired by now: the messages the loop reaches
\* before it breaks off at max_messages or at the first newer message.
Candidates(P) == P \ processed
Full(P, K, m) ==
    Limit > 0 /\ taken + Cardinality({k \in Candidates(P) \ K : k < m}) >= Limit
Breaks(P, K) ==
    {m \in Candidates(P) : Full(P, K, m) \/ (StopAtStart /\ m \in fresh \ K)}
Reached(P, K) == {m \in Candidates(P) : \A b \in Breaks(P, K) : m < b}
PageStop(P, K) ==
    IF Breaks(P, K) = {} THEN "none"
    ELSE IF Full(P, K, MinOf(Breaks(P, K))) THEN "max_messages" ELSE "watermark"

\* A decode failure asks for a re-peek on a fresh connection: only explicit
\* paging can resume at a sequence number, and a second failure is final.
MayRetry(m) ==
    /\ kind # "sessions" /\ ~byCursor
    /\ m \notin retried /\ recycles < MaxRecycles

\* BatchProcessor.process on the selected messages: rows for all but U, whose
\* bodies do not decode; A of these get a retry.
Exports(P, K, U, A) ==
    LET selected == Reached(P, K) \ K
    IN  /\ U \subseteq selected \cap Bad /\ A \subseteq {m \in U : MayRetry(m)}
        /\ rows' = rows \cup (selected \ U)
        /\ twice' = twice \cup (rows \cap (selected \ U))
        /\ passed' = passed \cup (U \ A) \cup (Reached(P, K) \cap K)
        /\ progressed' = (progressed \/ selected # A)

\* Mutation of Kept: the processed messages of a page are never kept.
KeptNone(P, K, A) == {}

\* _processed after the page.  Incremental fetch forgets a page that is done:
\* explicit paging never goes back further.
Kept(P, K, A) ==
    IF Incremental /\ A = {} /\ PageStop(P, K) = "none" THEN {}
    ELSE processed \cup (Reached(P, K) \ A)

\* _mark_processed, for all but the retried messages: skipped ones count for
\* the cursor and not for the limit.
Mark(P, K, A) ==
    LET S == Reached(P, K) \ A
    IN  /\ processed' = Kept(P, K, A)
        /\ high' = MaxOf(S \cup {high})
        /\ taken' = IF Limit = 0 THEN 0 ELSE taken + Cardinality(S \ K)
        /\ outstanding' = IF A = {} THEN 0 ELSE MinOf(A)

Failing(U, A) == Policy = "fail" /\ U \ A # {}

(***************************************************************************)
(* _run_pages.                                                             *)
(***************************************************************************)
Paging == pc = "page" /\ StopRule = "none"

\* A sequence number with partition bits, on an entity without metadata.
Reveals == kind = "unknown" /\ ~byCursor

EndOfEntity ==
    /\ Paging /\ Ahead = {}
    /\ Finished("end_of_entity")
    /\ UNCHANGED <<world, faults, durable, fetch, fresh, late, paging, seen, marks,
                   tracker, unreadable, output>>

\* Full fetch starts over in cursor mode, incremental fetch refuses the entity.
RevealPartitions ==
    /\ Paging /\ Reveals /\ Ahead # {}
    /\ IF Incremental THEN pc' = "failed" /\ UNCHANGED byCursor
       ELSE byCursor' = TRUE /\ UNCHANGED pc
    /\ UNCHANGED <<world, faults, durable, run, next, shown, sessions, marks, tracker,
                   unreadable, output>>

\* Mutation of Onward: the page after the retried bodies' one.
OnwardPastRetried(P, A) == MaxOf(P) + 1

\* Retried bodies: again from the first of them, on a fresh connection.
Onward(P, A) == IF A = {} THEN MaxOf(P) + 1 ELSE MinOf(A)

PeekPage ==
    /\ Paging /\ ~Reveals
    /\ \E P \in SUBSET Ahead : \E K \in SUBSET (P \cap Skippable) :
       \E U \in SUBSET (P \cap Bad) : \E A \in SUBSET U :
          /\ IsPage(P) /\ Exports(P, K, U, A) /\ ~Failing(U, A)
          /\ Mark(P, K, A)
          /\ IF A = {} THEN UNCHANGED unreadable
             ELSE recycles' = recycles + 1 /\ retried' = retried \cup A
          /\ IF A = {} /\ PageStop(P, K) # "none"
             THEN Finished(PageStop(P, K)) /\ UNCHANGED <<next, shown>>
             ELSE /\ next' = Onward(P, A)
                  /\ shown' = IF byCursor THEN shown \cup P ELSE {}
                  /\ UNCHANGED <<pc, reason, session, held>>
    /\ UNCHANGED <<world, faults, durable, fetch, fresh, late, byCursor, seen, count>>

\* The processor's UserException ends the run: policy fail, or (a fault here)
\* the flatten cap or the abort share.
PageRaises ==
    /\ pc \in {"page", "session"} /\ StopRule = "none" /\ ~Reveals
    /\ \E P \in SUBSET Ahead : \E K \in SUBSET (P \cap Skippable) :
       \E U \in SUBSET (P \cap Bad) : \E A \in SUBSET U :
          /\ IsPage(P) /\ Reached(P, K) \ K # {} /\ Exports(P, K, U, A)
          /\ IF Failing(U, A) THEN UNCHANGED faults ELSE Fault
    /\ pc' = "failed"
    /\ UNCHANGED <<world, durable, run, paging, sessions, marks, count, unreadable>>

(***************************************************************************)
(* _run_sessions and _peek_session.                                        *)
(***************************************************************************)
Accepting == pc = "accept" /\ StopRule = "none"
HasMessages(s) == \E m \in Present : SessionOf[m] = s
Handed(s) == s \notin held \cup others /\ HasMessages(s)

\* Mutation of AcceptSession: a session may be visited again.
AcceptAgain ==
    /\ Accepting
    /\ \E s \in SessionIds :
          /\ Handed(s)
          /\ held' = held \cup {s} /\ seen' = seen \cup {s}
          /\ session' = s /\ pc' = "session" /\ next' = 1
    /\ UNCHANGED <<world, faults, durable, run, byCursor, shown, marks, tracker,
                   unreadable, output>>

\* The broker hands out a session nobody holds; one handed out again ends the
\* run.
AcceptSession ==
    /\ Accepting
    /\ \E s \in SessionIds :
          /\ Handed(s)
          /\ IF s \in seen
             THEN Finished("session_revisited") /\ UNCHANGED <<seen, next>>
             ELSE /\ held' = held \cup {s} /\ seen' = seen \cup {s}
                  /\ session' = s /\ pc' = "session" /\ next' = 1
                  /\ UNCHANGED reason
    /\ UNCHANGED <<world, faults, durable, fetch, fresh, late, byCursor, shown, marks,
                   tracker, unreadable, output>>

\* SessionCannotBeLockedError, at the accept: another receiver was faster.  The
\* loop goes on, and no budget counts it.
SessionRefused ==
    /\ Accepting
    /\ \E s \in Contended : Handed(s) /\ others' = others \cup {s}
    /\ UNCHANGED <<kind, arrived, gone, faults, durable, pc, run, paging, sessions, marks,
                   tracker, unreadable, output>>

\* The same error from a call on the session being peeked, whose lock was lost
\* to another receiver: the rest of it is left unread, but it was seen.
SessionLost ==
    /\ pc = "session" /\ StopRule = "none" /\ session \in Contended
    /\ others' = others \cup {session} /\ held' = held \ {session}
    /\ pc' = "accept" /\ session' = "none"
    /\ UNCHANGED <<kind, arrived, gone, faults, durable, run, paging, seen, marks, tracker,
                   unreadable, output>>

\* OperationTimeoutError: no session that has messages is free.
NoMoreSessions ==
    /\ Accepting /\ \A s \in SessionIds : ~Handed(s)
    /\ Finished("no_more_sessions")
    /\ UNCHANGED <<world, faults, durable, fetch, fresh, late, paging, seen, marks,
                   tracker, unreadable, output>>

SessionDone ==
    /\ pc = "session" /\ StopRule = "none" /\ Ahead = {}
    /\ pc' = "accept" /\ session' = "none"
    /\ UNCHANGED <<world, faults, durable, run, paging, held, seen, marks, tracker,
                   unreadable, output>>

\* A page of the session; at the watermark on to the next session.
PeekSession ==
    /\ pc = "session" /\ StopRule = "none"
    /\ \E P \in SUBSET Ahead : \E K \in SUBSET (P \cap Skippable), U \in SUBSET (P \cap Bad) :
          /\ IsPage(P) /\ Exports(P, K, U, {}) /\ ~Failing(U, {})
          /\ Mark(P, K, {})
          /\ CASE PageStop(P, K) = "none" ->
                     next' = MaxOf(P) + 1 /\ UNCHANGED <<pc, reason, session, held>>
               [] PageStop(P, K) = "watermark" ->
                     pc' = "accept" /\ session' = "none" /\ UNCHANGED <<reason, held, next>>
               [] OTHER -> Finished(PageStop(P, K)) /\ UNCHANGED next
    /\ UNCHANGED <<world, faults, durable, fetch, fresh, late, byCursor, shown, seen,
                   count, unreadable>>

(***************************************************************************)
(* The end of the run, and the world around it.                            *)
(***************************************************************************)

\* Mutation of NewCursor: the highest processed sequence number.
NewCursorPastOutstanding == IF high > cursor THEN high ELSE cursor

\* _new_cursor: never past a body that waits for its re-peek.
NewCursor ==
    LET h == IF outstanding # 0 /\ outstanding <= high THEN outstanding - 1 ELSE high
    IN  IF h > cursor THEN h ELSE cursor

\* _finish: incremental fetch owns the cursor.  The job succeeds and its rows
\* are imported.
JobSucceeds ==
    /\ pc = "finished"
    /\ cursor' = IF Incremental THEN NewCursor ELSE cursor
    /\ storage' = storage \cup rows /\ skipped' = skipped \cup passed
    /\ pc' = "idle" /\ next' = 1 /\ byCursor' = FALSE /\ fresh' = {} /\ FreshPager
    /\ UNCHANGED <<world, faults, fetch>>

\* The run raised, or (a fault here) the job died or its import failed: peek
\* never arms write_always, so the rows are gone, and the state is unchanged.
JobFails ==
    /\ pc # "idle"
    /\ IF pc = "failed" THEN UNCHANGED faults ELSE Fault
    /\ pc' = "idle" /\ next' = 1 /\ byCursor' = FALSE /\ fresh' = {} /\ FreshPager
    /\ UNCHANGED <<world, durable, fetch>>

Arrives ==
    /\ \E m \in Seqs \ arrived :
          /\ \A k \in Seqs \ arrived : m <= k
          /\ arrived' = arrived \cup {m}
          /\ fresh' = IF pc = "idle" THEN {} ELSE fresh \cup {m}
    /\ UNCHANGED <<kind, gone, others, faults, durable, pc, fetch, late, reason, paging, sessions,
                   marks, tracker, unreadable, output>>

Leaves ==
    /\ \E m \in Leaving \cap Present : gone' = gone \cup {m}
    /\ UNCHANGED <<kind, arrived, others, faults, durable, pc, run, paging, sessions, marks,
                   tracker, unreadable, output>>

\* Other consumers lock sessions nobody holds, and release theirs.
OthersMove ==
    /\ pc \in {"accept", "session"}
    /\ \E s \in Contended \ held : others' = IF s \in others THEN others \ {s} ELSE others \cup {s}
    /\ UNCHANGED <<kind, arrived, gone, faults, durable, pc, run, paging, sessions, marks,
                   tracker, unreadable, output>>

DeadlinePasses ==
    /\ Peeking /\ ~late /\ Fault
    /\ late' = TRUE
    /\ UNCHANGED <<world, durable, pc, fetch, fresh, reason, paging, sessions, marks,
                   tracker, unreadable, output>>

\* Only the receiver of the session being peeked is renewed.
HeldSessionLapses ==
    /\ Lapses /\ Peeking
    /\ \E s \in held \ {session} : held' = held \ {s}
    /\ UNCHANGED <<world, faults, durable, pc, run, paging, session, seen, marks, tracker,
                   unreadable, output>>

Pages == EndOfEntity \/ RevealPartitions \/ PeekPage \/ PageRaises
Visits == AcceptSession \/ SessionRefused \/ NoMoreSessions \/ SessionDone \/ PeekSession \/ SessionLost
Platform == JobSucceeds \/ JobFails
World == Arrives \/ Leaves \/ OthersMove \/ DeadlinePasses \/ HeldSessionLapses

Next == StartRun \/ StopNow \/ ConnectionFails \/ Pages \/ Visits \/ Platform \/ World

Spec == Init /\ [][Next]_vars

\* A run that is not interrupted takes its steps.  max_duration is not assumed
\* to pass.
FairSpec == Spec /\ WF_vars(StopNow \/ Pages \/ Visits \/ Platform)

(***************************************************************************)
(* Properties.                                                             *)
(***************************************************************************)

\* The stored cursor never points past a message that is on the entity and
\* whose row no successful job imported (or passed over: scheduled, expired or
\* unreadable), whatever was re-peeked, stopped, recovered or killed: the next
\* incremental fetch starts there and never looks back.
CursorIsSafe == \A m \in Present : m <= cursor => m \in storage \cup skipped

\* A run writes every message at most once, although pages are peeked again
\* after unreadable bodies, after recoveries and in cursor mode.  (Incremental
\* fetch needs pages that are full: a re-peeked page that ends before the one it
\* repeats makes it forget the rest.)
NoRowTwice == twice = {}

\* What a full fetch of sessions does not promise (its own warning says so): the
\* sessions other consumers hold when it ends, half-read ones included.
HeldByOthers == {m \in Present : kind = "sessions" /\ SessionOf[m] \in others}

\* A full fetch that ran to the end of the entity (or, in enqueue order, to the
\* job start) has a row for every message that was there when it started and
\* still is, or passed it over, unless another consumer holds the message's
\* session when no more sessions are handed out: sessions lost in the middle and
\* free again are not missed in silence.
FullFetchComplete ==
    pc = "finished" /\ ~Incremental
    /\ (reason \in {"end_of_entity", "no_more_sessions"} \/ (reason = "watermark" /\ kind = "plain"))
        => Present \ fresh \subseteq rows \cup passed \cup HeldByOthers

\* Holding every visited session until the pager finishes keeps a revisit from
\* ending the run before later sessions are seen.
RevisitLeavesNone ==
    pc = "finished" /\ reason = "session_revisited" => Present \ fresh \subseteq rows \cup passed

\* Past max_duration every run ends, and without it every run ends too, whatever
\* is retried, recovered or handed out again, provided that other consumers do
\* not lock and release sessions for ever: nothing counts the accepts they win.
PeekEnds ==
    /\ late ~> (pc = "idle")
    /\ <>[][others' = others]_others => []<>(pc = "idle")
=============================================================================
