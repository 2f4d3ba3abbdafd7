--------------------------- MODULE PeekPagerProofs ---------------------------
(***************************************************************************)
(* Proofs about PeekPager, for any entity, page size, limit and budgets.   *)
(***************************************************************************)
EXTENDS PeekPager, InductionLemmas, TLAPS

(***************************************************************************)
(* The invariants.                                                         *)
(***************************************************************************)

\* What the position of a run says of its mode.
ModeInv ==
    /\ pc # "idle" /\ (kind = "sessions" \/ byCursor) => ~Incremental
    /\ pc = "page" => kind # "sessions" /\ (kind = "partitioned" => byCursor)
    /\ pc \in {"accept", "session"} => kind = "sessions"
    /\ kind \in {"plain", "sessions"} => ~byCursor
    /\ pc \notin {"session", "failed"} => session = "none"
    /\ pc = "finished" => held = {}
    /\ pc # "finished" => reason = "none"

\* Messages arrive in order: what is to come is past everything the run knows.
ArrivalInv ==
    /\ \A m \in Seqs \ arrived : next <= m /\ high < m /\ outstanding < m /\ cursor < m /\ \A k \in arrived : k < m
    /\ \A m \in fresh, k \in arrived \ fresh : k < m

\* What the run has a row for, or passed over.
Exported == rows \cup passed

\* A run that is not lost yet.
Running == pc \notin {"idle", "failed"}

\* What the run remembers is exported, and is not past the highest mark.
MemoryInv ==
    /\ processed \subseteq Exported /\ shown \subseteq Exported
    /\ Running => \A m \in Exported : m <= high

\* A full fetch has exported everything before the page it peeks next, and
\* everything of the sessions it has visited and holds.
FullInv ==
    Running /\ ~Incremental =>
        /\ rows \subseteq processed
        /\ pc = "page" /\ ~byCursor => \A m \in Present : m < next => m \in Exported
        /\ pc = "session" => \A m \in Present : SessionOf[m] = session /\ m < next => m \in Exported
        /\ \A m \in Present \ fresh : SessionOf[m] \in held \ {session} => m \in Exported

\* What an incremental fetch peeks again: the messages up to the highest mark
\* from the page it resumes at, and of these the ones it has not processed.
Again == {m \in Present : next <= m /\ m <= high}
Pending == Again \ processed

\* An incremental fetch has exported everything before the page it peeks next.
\* What it peeks again fits in a page, under the limit and before the job start:
\* the next page takes all of it.
IncrementalInv ==
    /\ Incremental /\ pc = "page" =>
          /\ \A m \in Present : m < next => m \in storage \cup skipped \cup Exported
          /\ outstanding # 0 => outstanding = next
          /\ Cardinality(Again) <= PageSize
          /\ Limit > 0 => taken + Cardinality(Pending) <= Limit
          /\ StopAtStart => Pending \cap fresh = {}
          /\ rows \cap Again \subseteq processed
    /\ Incremental /\ pc \in {"page", "finished"} =>
          \A m \in Present : m <= (IF outstanding # 0 THEN outstanding - 1 ELSE high) =>
                                 m \in storage \cup skipped \cup Exported

(***************************************************************************)
(* Lemmas about sets of messages and pages.                                *)
(***************************************************************************)

\* Sets of messages are finite.
LEMMA FiniteMessages ==
    \A S \in SUBSET Seqs : IsFiniteSet(S) /\ Cardinality(S) \in Nat
BY PeekAssumption, FS_Subset, FS_CardinalityType

\* The greatest of a set of messages and a mark, and the least of a set.
LEMMA MaxIsGreatest ==
    ASSUME NEW S \in SUBSET (Seqs \cup {0}), S # {}
    PROVE  MaxOf(S) \in S /\ \A k \in S : k <= MaxOf(S)
<1>1. IsFiniteSet(S) /\ S \subseteq Int
  <2>1. IsFiniteSet(Seqs \cup {0})
    BY PeekAssumption, FS_AddElement
  <2>2. S \subseteq Int
    BY PeekAssumption
  <2>. QED BY <2>1, <2>2, FS_Subset
<1>2. \E m \in S : \A k \in S : k <= m
  BY <1>1, GreatestOfFinite
<1>. QED BY <1>2 DEF MaxOf

\* The least of a set of messages.
LEMMA MinIsLeast ==
    ASSUME NEW S \in SUBSET Seqs, S # {}
    PROVE  MinOf(S) \in S /\ \A k \in S : MinOf(S) <= k
<1>1. \E m \in S : \A k \in S : m <= k
  BY PeekAssumption, LeastNatural
<1>. QED BY <1>1 DEF MinOf

\* What a page exports, and what it asks to peek again.
LEMMA PageExports ==
    ASSUME TypeOK, NEW P, NEW K, NEW U, NEW A, P \subseteq Ahead, A \subseteq U, Exports(P, K, U, A)
    PROVE  /\ P \subseteq Present /\ P \subseteq arrived /\ P \subseteq Seqs
           /\ Reached(P, K) \subseteq P \ processed
           /\ A \subseteq (Reached(P, K) \ K) \cap Bad /\ A \subseteq P
           /\ A # {} => recycles < MaxRecycles /\ kind # "sessions" /\ ~byCursor
           /\ rows \subseteq rows' /\ rows' \subseteq rows \cup (Reached(P, K) \ A)
           /\ twice' \subseteq twice \cup (rows \cap (Reached(P, K) \ A))
           /\ Exported \subseteq Exported' /\ Exported' = Exported \cup (Reached(P, K) \ A)
           /\ passed' \subseteq passed \cup P
<1>1. P \subseteq Present /\ Present \subseteq arrived /\ arrived \subseteq Seqs
  BY DEF Ahead, Present, TypeOK
<1>2. Reached(P, K) \subseteq P \ processed
  BY DEF Reached, Candidates
<1>3. /\ U \subseteq (Reached(P, K) \ K) \cap Bad /\ A \subseteq {m \in U : MayRetry(m)}
      /\ rows' = rows \cup ((Reached(P, K) \ K) \ U)
      /\ twice' = twice \cup (rows \cap ((Reached(P, K) \ K) \ U))
      /\ passed' = passed \cup (U \ A) \cup (Reached(P, K) \cap K)
  BY DEF Exports
<1>4. A # {} => recycles < MaxRecycles /\ kind # "sessions" /\ ~byCursor
  BY <1>3 DEF MayRetry
<1>5. Exported' = Exported \cup (Reached(P, K) \ A)
  <2>1. Exported' = rows' \cup passed'
    BY DEF Exported
  <2>. QED BY <1>3, <2>1 DEF Exported
<1>. QED BY <1>1, <1>2, <1>3, <1>4, <1>5

\* The marks after a page.
LEMMA PageMarks ==
    ASSUME TypeOK, NEW P, NEW K, NEW U, NEW A, P \subseteq Ahead, A \subseteq U, Exports(P, K, U, A), Mark(P, K, A)
    PROVE  /\ high' \in (Reached(P, K) \ A) \cup {high} /\ high <= high'
           /\ \A m \in Reached(P, K) \ A : m <= high'
           /\ processed' \subseteq processed \cup (Reached(P, K) \ A)
           /\ taken' \in Nat
           /\ A = {} => outstanding' = 0
           /\ A # {} => outstanding' \in A /\ \A m \in A : outstanding' <= m
<1>. DEFINE S == Reached(P, K) \ A
<1>0. S \subseteq Seqs /\ A \subseteq Seqs /\ high \in Seqs \cup {0}
  <2>1. high \in Seqs \cup {0}
    BY DEF TypeOK
  <2>2. Reached(P, K) \subseteq P \ processed /\ A \subseteq P /\ P \subseteq Seqs
    BY PageExports
  <2>. QED BY <2>1, <2>2
<1>1. MaxOf(S \cup {high}) \in S \cup {high} /\ \A k \in S \cup {high} : k <= MaxOf(S \cup {high})
  BY <1>0, MaxIsGreatest
<1>2. /\ processed' = Kept(P, K, A) /\ high' = MaxOf(S \cup {high})
      /\ taken' = (IF Limit = 0 THEN 0 ELSE taken + Cardinality(S \ K))
      /\ outstanding' = IF A = {} THEN 0 ELSE MinOf(A)
  BY DEF Mark
<1>3. taken' \in Nat
  <2>1. Cardinality(S \ K) \in Nat
    BY <1>0, FiniteMessages
  <2>. QED BY <1>2, <2>1 DEF TypeOK
<1>4. processed' \subseteq processed \cup S
  BY <1>2 DEF Kept
<1>5. A # {} => MinOf(A) \in A /\ \A m \in A : MinOf(A) <= m
  BY <1>0, MinIsLeast
<1>. HIDE DEF S
<1>6. high' \in S \cup {high} /\ high <= high' /\ \A m \in S : m <= high'
  BY <1>1, <1>2
<1>. QED BY <1>2, <1>3, <1>4, <1>5, <1>6 DEF S

(***************************************************************************)
(* Types.                                                                  *)
(***************************************************************************)

\* Every step keeps the variables in their types.
LEMMA TypeStep ==
    ASSUME TypeOK, [Next]_vars
    PROVE  TypeOK'
<1>0. MaxFaults \in Nat /\ MaxRecoveries \in Nat /\ MaxRecycles \in Nat /\ Seqs \subseteq Nat
  BY PeekAssumption
<1>1. CASE UNCHANGED vars
  BY <1>1 DEF TypeOK, vars, world, durable, run, paging, sessions, marks, tracker, unreadable, output
<1>2. ASSUME FreshPager, next' \in Nat \ {0}, byCursor' \in BOOLEAN, fetch' \in FetchModes, fresh' = {},
             pc' \in {"idle", "page", "accept", "session", "finished", "failed"},
             UNCHANGED world, faults' \in 0..MaxFaults,
             cursor' \in Nat /\ storage' \subseteq arrived /\ skipped' \subseteq arrived
      PROVE  TypeOK'
  <2>1. late' \in BOOLEAN /\ progressed' \in BOOLEAN
    BY <1>2, Zenon DEF FreshPager
  <2>2. /\ reason' = "none" /\ session' = "none" /\ high' = 0 /\ outstanding' = 0 /\ taken' = 0 /\ count' = 0
        /\ recycles' = 0 /\ shown' = {} /\ held' = {} /\ seen' = {} /\ processed' = {} /\ retried' = {}
        /\ rows' = {} /\ twice' = {} /\ passed' = {}
    BY <1>2 DEF FreshPager
  <2>3. UNCHANGED <<kind, arrived, gone, others>>
    BY <1>2 DEF world
  <2>4. count' \in 0..MaxRecoveries /\ recycles' \in 0..MaxRecycles
    BY <1>0, <2>2
  <2>. QED BY <1>2, <2>1, <2>2, <2>3, <2>4 DEF TypeOK
<1>3. CASE StartRun
  <2>1. next' \in Nat \ {0}
    BY <1>0, <1>3 DEF StartRun, TypeOK
  <2>2. byCursor' \in BOOLEAN
    <3>1. byCursor' = (kind = "partitioned" /\ ~(fetch' = "incremental_fetch"))
      BY <1>3, Zenon DEF StartRun
    <3>. QED BY <3>1, Zenon
  <2>3. pc' \in {"accept", "failed", "page"} /\ fetch' \in FetchModes
    BY <1>3 DEF StartRun
  <2>. QED BY <1>2, <1>3, <2>1, <2>2, <2>3 DEF StartRun, TypeOK, durable
<1>4. StopRule \in StopReasons \cup {"none"} /\ {"end_of_entity", "no_more_sessions", "session_revisited"} \subseteq StopReasons
      /\ \A P, K : PageStop(P, K) \in StopReasons \cup {"none"}
  BY DEF StopRule, PageStop, StopReasons
<1>5. CASE StopNow \/ EndOfEntity \/ NoMoreSessions
  BY <1>4, <1>5 DEF StopNow, EndOfEntity, NoMoreSessions, Finished, TypeOK, world, durable, paging, marks, tracker,
                    unreadable, output
<1>6. CASE ConnectionFails
  <2>1. /\ count' \in 0..MaxRecoveries /\ pc' \in {"failed", "accept", "page"} /\ faults' \in 0..MaxFaults
    BY <1>0, <1>6 DEF ConnectionFails, BudgetSpent, Fault, tracker, TypeOK
  <2>2. progressed' \in BOOLEAN
    <3>1. progressed' = progressed \/ progressed' = FALSE
      BY <1>6, Zenon DEF ConnectionFails, tracker
    <3>. QED BY <3>1 DEF TypeOK
  <2>. QED BY <1>6, <2>1, <2>2 DEF ConnectionFails, TypeOK, world, durable, run, marks, unreadable, output
<1>7. CASE RevealPartitions
  <2>1. pc' \in {"failed", "page"} /\ byCursor' \in BOOLEAN
    BY <1>7 DEF RevealPartitions, Paging, TypeOK
  <2>. QED BY <1>7, <2>1 DEF RevealPartitions, TypeOK, world, durable, run, sessions, marks, tracker, unreadable, output
<1>8. ASSUME NEW P, NEW K, NEW U, NEW A, P \subseteq Ahead, A \subseteq U, Exports(P, K, U, A)
      PROVE  /\ rows' \subseteq arrived /\ twice' \subseteq rows' /\ passed' \subseteq arrived /\ progressed' \in BOOLEAN
  <2>1. progressed' \in BOOLEAN
    <3>1. progressed' = (progressed \/ Reached(P, K) \ K # A)
      BY <1>8, Zenon DEF Exports
    <3>. QED BY <3>1, Zenon
  <2>. QED BY <1>8, <2>1, PageExports DEF TypeOK
<1>9. ASSUME NEW P, NEW K, NEW U, NEW A, P \subseteq Ahead, A \subseteq U, Exports(P, K, U, A), Mark(P, K, A)
      PROVE  processed' \subseteq arrived /\ high' \in Seqs \cup {0} /\ outstanding' \in Seqs \cup {0} /\ taken' \in Nat
  <2>1. Reached(P, K) \subseteq arrived /\ arrived \subseteq Seqs /\ A \subseteq Seqs
        /\ high \in Seqs \cup {0} /\ processed \subseteq arrived
    BY <1>9, PageExports DEF TypeOK
  <2>. QED BY <1>9, <2>1, PageMarks
<1>10. CASE PeekPage
  <2>0. PICK P \in SUBSET Ahead : \E K \in SUBSET (P \cap Skippable) :
               \E U \in SUBSET (P \cap Bad) : \E A \in SUBSET U :
          /\ IsPage(P) /\ Exports(P, K, U, A) /\ ~Failing(U, A) /\ Mark(P, K, A)
          /\ IF A = {} THEN UNCHANGED unreadable
             ELSE recycles' = recycles + 1 /\ retried' = retried \cup A
          /\ IF A = {} /\ PageStop(P, K) # "none"
             THEN Finished(PageStop(P, K)) /\ UNCHANGED <<next, shown>>
             ELSE /\ next' = Onward(P, A)
                  /\ shown' = IF byCursor THEN shown \cup P ELSE {}
                  /\ UNCHANGED <<pc, reason, session, held>>
    BY <1>10, ZenonT(40) DEF PeekPage
  <2>00. PICK K \in SUBSET (P \cap Skippable), U \in SUBSET (P \cap Bad) : \E A \in SUBSET U :
          /\ IsPage(P) /\ Exports(P, K, U, A) /\ ~Failing(U, A) /\ Mark(P, K, A)
          /\ IF A = {} THEN UNCHANGED unreadable
             ELSE recycles' = recycles + 1 /\ retried' = retried \cup A
          /\ IF A = {} /\ PageStop(P, K) # "none"
             THEN Finished(PageStop(P, K)) /\ UNCHANGED <<next, shown>>
             ELSE /\ next' = Onward(P, A)
                  /\ shown' = IF byCursor THEN shown \cup P ELSE {}
                  /\ UNCHANGED <<pc, reason, session, held>>
    BY <2>0
  <2>1. PICK A \in SUBSET U :
          /\ IsPage(P) /\ Exports(P, K, U, A) /\ ~Failing(U, A) /\ Mark(P, K, A)
          /\ IF A = {} THEN UNCHANGED unreadable
             ELSE recycles' = recycles + 1 /\ retried' = retried \cup A
          /\ IF A = {} /\ PageStop(P, K) # "none"
             THEN Finished(PageStop(P, K)) /\ UNCHANGED <<next, shown>>
             ELSE /\ next' = Onward(P, A)
                  /\ shown' = IF byCursor THEN shown \cup P ELSE {}
                  /\ UNCHANGED <<pc, reason, session, held>>
    BY <2>00
  <2>2. P # {} /\ P \subseteq Seqs /\ P \subseteq arrived /\ A \subseteq Bad /\ A \subseteq Seqs
        /\ (A # {} => recycles < MaxRecycles)
    BY <2>1, PageExports DEF IsPage
  <2>3. recycles' \in 0..MaxRecycles /\ retried' \subseteq Bad
    <3>1. CASE A = {}
      BY <2>1, <3>1 DEF unreadable, TypeOK
    <3>2. CASE A # {}
      <4>1. recycles' = recycles + 1 /\ retried' = retried \cup A
        BY <2>1, <3>2
      <4>. QED BY <1>0, <2>2, <3>2, <4>1 DEF TypeOK
    <3>. QED BY <3>1, <3>2
  <2>4. Onward(P, A) \in Nat \ {0}
    <3>1. MaxOf(P) \in P /\ (A # {} => MinOf(A) \in A)
      BY <2>2, MaxIsGreatest, MinIsLeast
    <3>2. \A m \in Seqs : m \in Nat \ {0}
      BY PeekAssumption
    <3>. QED BY <2>2, <3>1, <3>2 DEF Onward
  <2>5. /\ next' \in Nat \ {0} /\ shown' \subseteq arrived
        /\ pc' \in {pc, "finished"} /\ reason' \in StopReasons \cup {"none"} /\ session' \in {session, "none"}
        /\ held' \subseteq held
    BY <1>4, <2>1, <2>2, <2>4 DEF Finished, TypeOK
  <2>6. /\ UNCHANGED <<kind, arrived, gone, others, faults, cursor, storage, skipped, fetch, fresh, late, byCursor, seen, count>>
    BY <1>10 DEF PeekPage, world, durable
  <2>7. /\ rows' \subseteq arrived /\ twice' \subseteq rows' /\ passed' \subseteq arrived /\ progressed' \in BOOLEAN
        /\ processed' \subseteq arrived /\ high' \in Seqs \cup {0} /\ outstanding' \in Seqs \cup {0} /\ taken' \in Nat
    BY <1>8, <1>9, <2>1
  <2>. QED BY <2>3, <2>5, <2>6, <2>7 DEF TypeOK
<1>11. CASE PageRaises
  <2>1. PICK P, K, U, A :
          P \in SUBSET Ahead /\ A \in SUBSET U /\ Exports(P, K, U, A) /\ (UNCHANGED faults \/ Fault)
    BY <1>11, Zenon DEF PageRaises
  <2>2. /\ rows' \subseteq arrived /\ twice' \subseteq rows' /\ passed' \subseteq arrived /\ progressed' \in BOOLEAN
    BY <1>8, <2>1
  <2>3. faults' \in 0..MaxFaults
    BY <1>0, <2>1 DEF Fault, TypeOK
  <2>. QED BY <1>11, <2>2, <2>3 DEF PageRaises, TypeOK, world, durable, run, paging, sessions, marks, unreadable
<1>12. CASE AcceptSession
  <2>1. PICK s \in SessionIds :
          \/ Finished("session_revisited") /\ UNCHANGED <<seen, next>>
          \/ held' = held \cup {s} /\ seen' = seen \cup {s} /\ session' = s /\ pc' = "session" /\ next' = 1
             /\ UNCHANGED reason
    BY <1>12 DEF AcceptSession
  <2>. QED BY <1>4, <1>12, <2>1 DEF AcceptSession, Finished, TypeOK, world, durable, marks, tracker, unreadable, output
<1>13. CASE SessionDone
  BY <1>13 DEF SessionDone, TypeOK, world, durable, run, paging, marks, tracker, unreadable, output
<1>14. CASE PeekSession
  <2>1. PICK P, K, U :
          /\ P \in SUBSET Ahead /\ IsPage(P) /\ Exports(P, K, U, {}) /\ Mark(P, K, {})
          /\ \/ next' = MaxOf(P) + 1 /\ UNCHANGED <<pc, reason, session, held>>
             \/ pc' = "accept" /\ session' = "none" /\ UNCHANGED <<reason, held, next>>
             \/ Finished(PageStop(P, K)) /\ UNCHANGED next
    BY <1>14 DEF PeekSession
  <2>2. MaxOf(P) + 1 \in Nat \ {0}
    <3>1. P # {} /\ P \in SUBSET Seqs
      BY <2>1, PageExports DEF IsPage
    <3>2. MaxOf(P) \in Nat
      BY <1>0, <3>1, MaxIsGreatest
    <3>. QED BY <3>2
  <2>3. /\ next' \in Nat \ {0} /\ pc' \in {pc, "accept", "finished"} /\ reason' \in StopReasons \cup {"none"}
        /\ session' \in {session, "none"} /\ held' \subseteq held
    BY <1>4, <2>1, <2>2 DEF Finished, TypeOK
  <2>4. /\ UNCHANGED <<kind, arrived, gone, others, faults, cursor, storage, skipped, fetch, fresh, late, byCursor, shown, seen,
                       count, recycles, retried>>
    BY <1>14 DEF PeekSession, world, durable, unreadable
  <2>5. /\ rows' \subseteq arrived /\ twice' \subseteq rows' /\ passed' \subseteq arrived /\ progressed' \in BOOLEAN
        /\ processed' \subseteq arrived /\ high' \in Seqs \cup {0} /\ outstanding' \in Seqs \cup {0} /\ taken' \in Nat
    BY <1>8, <1>9, <2>1
  <2>. QED BY <2>3, <2>4, <2>5 DEF TypeOK
<1>15. CASE JobSucceeds
  <2>1. NewCursor \in Nat
    BY <1>0 DEF NewCursor, TypeOK
  <2>2. cursor' \in Nat /\ storage' \subseteq arrived /\ skipped' \subseteq arrived
    BY <1>15, <2>1 DEF JobSucceeds, TypeOK
  <2>3. byCursor' \in BOOLEAN
    BY <1>15, Zenon DEF JobSucceeds
  <2>4. /\ FreshPager /\ next' = 1 /\ fetch' \in FetchModes /\ fresh' = {} /\ pc' = "idle" /\ UNCHANGED world
        /\ faults' \in 0..MaxFaults
    BY <1>15 DEF JobSucceeds, TypeOK
  <2>. QED BY <1>2, <2>2, <2>3, <2>4
<1>16. CASE JobFails
  <2>1. faults' \in 0..MaxFaults
    BY <1>0, <1>16 DEF JobFails, Fault, TypeOK
  <2>2. byCursor' \in BOOLEAN
    BY <1>16, Zenon DEF JobFails
  <2>3. /\ FreshPager /\ next' = 1 /\ fetch' \in FetchModes /\ fresh' = {} /\ pc' = "idle" /\ UNCHANGED world
        /\ cursor' \in Nat /\ storage' \subseteq arrived /\ skipped' \subseteq arrived
    BY <1>16 DEF JobFails, TypeOK, durable
  <2>. QED BY <1>2, <2>1, <2>2, <2>3
<1>17. CASE World
  <2>1. /\ arrived \subseteq arrived' /\ arrived' \subseteq Seqs /\ gone' \subseteq arrived' /\ fresh' \subseteq arrived'
        /\ others' \subseteq Contended /\ faults' \in 0..MaxFaults /\ held' \subseteq held
    <3>1. CASE Arrives
      BY <3>1 DEF Arrives, TypeOK, sessions
    <3>2. CASE Leaves
      BY <3>2 DEF Leaves, Present, TypeOK, sessions, run
    <3>3. CASE DeadlinePasses
      BY <1>0, <3>3 DEF DeadlinePasses, Fault, TypeOK, sessions, world
    <3>4. CASE HeldSessionLapses
      BY <3>4 DEF HeldSessionLapses, TypeOK, world, run
    <3>5. CASE OthersMove
      BY <3>5 DEF OthersMove, TypeOK, run, sessions
    <3>. QED BY <1>17, <3>1, <3>2, <3>3, <3>4, <3>5 DEF World
  <2>2. late' \in BOOLEAN
    <3>1. late' = late \/ late' = TRUE
      BY <1>17, Zenon DEF World, Arrives, Leaves, OthersMove, DeadlinePasses, HeldSessionLapses, run
    <3>. QED BY <3>1 DEF TypeOK
  <2>3. UNCHANGED <<kind, cursor, storage, skipped, pc, fetch, reason, next, byCursor, shown, session, seen, processed,
                    high, outstanding, taken, count, progressed, recycles, retried, rows, twice, passed>>
    BY <1>17 DEF World, Arrives, Leaves, OthersMove, DeadlinePasses, HeldSessionLapses, world, durable, run, paging, sessions, marks,
                 tracker, unreadable, output
  <2>. QED BY <2>1, <2>2, <2>3 DEF TypeOK
<1>18. CASE SessionRefused
  BY <1>18 DEF SessionRefused, TypeOK, durable, run, paging, sessions, marks, tracker, unreadable, output
<1>19. CASE SessionLost
  BY <1>19 DEF SessionLost, TypeOK, durable, run, paging, marks, tracker, unreadable, output
<1>. QED
  BY <1>1, <1>3, <1>5, <1>6, <1>7, <1>10, <1>11, <1>12, <1>13, <1>14, <1>15, <1>16, <1>17, <1>18, <1>19
  DEF Next, Pages, Visits, Platform

\* Every variable of the pager keeps its type; in particular no retry budget is
\* ever passed.
THEOREM PagerIsTyped == Spec => []TypeOK
<1>1. Init => TypeOK
  <2>. SUFFICES ASSUME Init PROVE TypeOK
    OBVIOUS
  <2>1. late \in BOOLEAN /\ byCursor \in BOOLEAN /\ progressed \in BOOLEAN
    BY Zenon DEF Init
  <2>2. faults \in 0..MaxFaults /\ count \in 0..MaxRecoveries /\ recycles \in 0..MaxRecycles
    BY PeekAssumption DEF Init
  <2>3. arrived \subseteq Seqs
    BY DEF Init
  <2>. QED BY <2>1, <2>2, <2>3 DEF Init, TypeOK
<1>2. TypeOK /\ [Next]_vars => TypeOK'
  BY TypeStep
<1>. QED BY <1>1, <1>2, PTL DEF Spec

(***************************************************************************)
(* The mode of a run, and the order of arrival.                            *)
(***************************************************************************)

\* Every step keeps what the position says of the mode.
LEMMA ModeStep ==
    ASSUME TypeOK, ModeInv, [Next]_vars
    PROVE  ModeInv'
<1>1. CASE StartRun
  <2>1. /\ fetch' \in (IF kind = "sessions" THEN FetchModes \ {"incremental_fetch"} ELSE FetchModes)
        /\ pc' = CASE kind = "sessions" -> "accept"
                   [] kind = "partitioned" /\ fetch' = "incremental_fetch" -> "failed"
                   [] OTHER -> "page"
        /\ byCursor' <=> (kind = "partitioned" /\ fetch' # "incremental_fetch")
        /\ kind' = kind /\ session' = "none" /\ held' = {} /\ reason' = "none"
    BY <1>1 DEF StartRun, FreshPager, world
  <2>. QED BY <2>1 DEF ModeInv, Incremental
<1>2. ASSUME UNCHANGED <<fetch, byCursor>>, kind' = kind, pc # "idle", Finished(reason')
      PROVE  ModeInv'
  BY <1>2 DEF ModeInv, Incremental, Finished
<1>3. CASE StopNow \/ EndOfEntity \/ NoMoreSessions
  <2>1. UNCHANGED <<fetch, byCursor>> /\ kind' = kind /\ pc # "idle" /\ Finished(reason')
    BY <1>3 DEF StopNow, EndOfEntity, NoMoreSessions, Finished, Peeking, Paging, Accepting, paging, world
  <2>. QED BY <1>2, <2>1
<1>4. CASE ConnectionFails
  <2>1. /\ UNCHANGED <<fetch, byCursor, reason>> /\ kind' = kind /\ session' = "none" /\ held' = {}
        /\ pc \in {"page", "accept", "session"}
        /\ pc' = "failed" \/ pc' = (IF kind = "sessions" THEN "accept" ELSE "page")
    BY <1>4 DEF ConnectionFails, Peeking, run, world
  <2>. QED BY <2>1 DEF ModeInv, Incremental
<1>5. CASE RevealPartitions
  <2>1. /\ UNCHANGED <<fetch, reason, session, held>> /\ kind' = kind /\ pc = "page" /\ kind = "unknown"
        /\ IF Incremental THEN pc' = "failed" /\ UNCHANGED byCursor ELSE byCursor' /\ UNCHANGED pc
    BY <1>5 DEF RevealPartitions, Reveals, Paging, run, world, sessions
  <2>. QED BY <2>1 DEF ModeInv, Incremental
<1>6. CASE PeekPage
  <2>1. /\ UNCHANGED <<fetch, byCursor>> /\ kind' = kind /\ pc = "page"
        /\ Finished(reason') \/ UNCHANGED <<pc, reason, session, held>>
    BY <1>6 DEF PeekPage, Paging, Finished, world
  <2>2. CASE Finished(reason')
    BY <1>2, <2>1, <2>2
  <2>3. CASE UNCHANGED <<pc, reason, session, held>>
    BY <2>1, <2>3 DEF ModeInv, Incremental
  <2>. QED BY <2>1, <2>2, <2>3
<1>7. CASE PageRaises
  <2>1. /\ UNCHANGED <<fetch, byCursor, reason, session, held>> /\ kind' = kind /\ pc \in {"page", "session"} /\ pc' = "failed"
    BY <1>7 DEF PageRaises, world, run, paging, sessions
  <2>. QED BY <2>1 DEF ModeInv, Incremental
<1>8. CASE AcceptSession
  <2>1. /\ UNCHANGED <<fetch, byCursor>> /\ kind' = kind /\ pc = "accept"
        /\ Finished(reason') \/ (pc' = "session" /\ UNCHANGED reason)
    BY <1>8 DEF AcceptSession, Accepting, Finished, world
  <2>2. CASE Finished(reason')
    BY <1>2, <2>1, <2>2
  <2>3. CASE pc' = "session" /\ UNCHANGED reason
    BY <2>1, <2>3 DEF ModeInv, Incremental
  <2>. QED BY <2>1, <2>2, <2>3
<1>9. CASE SessionDone \/ SessionLost
  <2>1. /\ UNCHANGED <<fetch, byCursor, reason>> /\ kind' = kind /\ pc = "session" /\ pc' = "accept" /\ session' = "none"
    BY <1>9 DEF SessionDone, SessionLost, world, run, paging
  <2>. QED BY <2>1 DEF ModeInv, Incremental
<1>10. CASE PeekSession
  <2>1. /\ UNCHANGED <<fetch, byCursor>> /\ kind' = kind /\ pc = "session"
        /\ \/ Finished(reason')
           \/ UNCHANGED <<pc, reason, session, held>>
           \/ pc' = "accept" /\ session' = "none" /\ UNCHANGED <<reason, held>>
    BY <1>10 DEF PeekSession, Finished, world
  <2>2. CASE Finished(reason')
    BY <1>2, <2>1, <2>2
  <2>3. CASE UNCHANGED <<pc, reason, session, held>> \/ (pc' = "accept" /\ session' = "none" /\ UNCHANGED <<reason, held>>)
    BY <2>1, <2>3 DEF ModeInv, Incremental
  <2>. QED BY <2>1, <2>2, <2>3
<1>11. CASE JobSucceeds \/ JobFails
  <2>1. /\ pc' = "idle" /\ ~byCursor' /\ session' = "none" /\ reason' = "none" /\ kind' = kind
    BY <1>11 DEF JobSucceeds, JobFails, FreshPager, world
  <2>. QED BY <2>1 DEF ModeInv
<1>12. CASE World \/ SessionRefused \/ UNCHANGED vars
  <2>1. /\ UNCHANGED <<fetch, byCursor, pc, reason, session>> /\ kind' = kind /\ held' \subseteq held
    BY <1>12 DEF World, SessionRefused, Arrives, Leaves, OthersMove, DeadlinePasses, HeldSessionLapses, vars, world, run, paging, sessions
  <2>. QED BY <2>1 DEF ModeInv, Incremental
<1>. QED
  BY <1>1, <1>3, <1>4, <1>5, <1>6, <1>7, <1>8, <1>9, <1>10, <1>11, <1>12 DEF Next, Pages, Visits, Platform

\* Every step keeps the marks before what is to arrive.
LEMMA ArrivalStep ==
    ASSUME TypeOK, ArrivalInv, [Next]_vars
    PROVE  ArrivalInv'
<1>0. /\ \A m \in Seqs : m \in Nat /\ 1 <= m
      /\ arrived \subseteq Seqs /\ high \in Nat /\ outstanding \in Nat /\ cursor \in Nat /\ next \in Nat
  <2>1. \A m \in Seqs : m \in Nat /\ 1 <= m
    <3>1. Seqs \subseteq Nat \ {0}
      BY PeekAssumption
    <3>. QED BY <3>1
  <2>2. /\ arrived \subseteq Seqs /\ high \in Seqs \cup {0} /\ outstanding \in Seqs \cup {0}
        /\ cursor \in Nat /\ next \in Nat
    BY DEF TypeOK
  <2>. QED BY <2>1, <2>2
<1>1. ASSUME UNCHANGED <<arrived, fresh, high, outstanding, cursor, next>> PROVE ArrivalInv'
  BY <1>1 DEF ArrivalInv
<1>2. CASE StartRun
  <2>1. /\ arrived' = arrived /\ fresh' = {} /\ high' = 0 /\ outstanding' = 0 /\ cursor' = cursor
        /\ next' \in {1, cursor + 1}
    BY <1>2 DEF StartRun, FreshPager, world, durable
  <2>2. ASSUME NEW m \in Seqs \ arrived PROVE next' <= m /\ high' < m /\ outstanding' < m
    BY <1>0, <2>1 DEF ArrivalInv
  <2>. QED BY <2>1, <2>2 DEF ArrivalInv
<1>3. CASE JobSucceeds \/ JobFails
  <2>1. /\ arrived' = arrived /\ fresh' = {} /\ high' = 0 /\ outstanding' = 0 /\ next' = 1
        /\ cursor' \in {cursor, NewCursor}
    BY <1>3 DEF JobSucceeds, JobFails, FreshPager, world, durable
  <2>2. NewCursor \in Nat /\ (NewCursor <= high \/ NewCursor = cursor)
    BY <1>0 DEF NewCursor
  <2>3. ASSUME NEW m \in Seqs \ arrived PROVE next' <= m /\ high' < m /\ outstanding' < m /\ cursor' < m
    BY <1>0, <2>1, <2>2 DEF ArrivalInv
  <2>. QED BY <2>1, <2>3 DEF ArrivalInv
<1>4. ASSUME NEW P, NEW K, NEW U, NEW A, P \subseteq Ahead, A \subseteq U, Exports(P, K, U, A), Mark(P, K, A),
             P # {}, next' \in {next, 1, Onward(P, A)}, UNCHANGED <<arrived, fresh, cursor>>
      PROVE  ArrivalInv'
  <2>0. P \subseteq arrived /\ P \subseteq Seqs /\ A \subseteq P /\ Reached(P, K) \subseteq P
    BY <1>4, PageExports
  <2>1. high' \in P \cup {high} /\ outstanding' \in P \cup {0}
    BY <1>4, <2>0, PageMarks
  <2>2. MaxOf(P) \in P /\ (A # {} => MinOf(A) \in P)
    BY <1>4, <2>0, MaxIsGreatest, MinIsLeast
  <2>3. ASSUME NEW m \in Seqs \ arrived PROVE next' <= m /\ high' < m /\ outstanding' < m
    <3>1. \A k \in P : k < m /\ k \in Nat
      BY <1>0, <2>0 DEF ArrivalInv
    <3>2. high < m /\ next <= m /\ m \in Nat /\ 1 <= m
      BY <1>0 DEF ArrivalInv
    <3>3. Onward(P, A) <= m
      BY <2>2, <3>1, <3>2 DEF Onward
    <3>. QED BY <1>4, <2>1, <3>1, <3>2, <3>3
  <2>. QED BY <1>4, <2>3 DEF ArrivalInv
<1>5. CASE PeekPage
  <2>1. PICK P, K, U, A :
          /\ P \subseteq Ahead /\ A \subseteq U /\ IsPage(P) /\ Exports(P, K, U, A) /\ Mark(P, K, A)
          /\ next' \in {next, Onward(P, A)}
    BY <1>5 DEF PeekPage
  <2>2. P # {} /\ UNCHANGED <<arrived, fresh, cursor>>
    BY <1>5, <2>1 DEF PeekPage, IsPage, world, durable
  <2>. QED BY <1>4, <2>1, <2>2
<1>6. CASE PeekSession
  <2>1. PICK P, K, U :
          /\ P \subseteq Ahead /\ IsPage(P) /\ Exports(P, K, U, {}) /\ Mark(P, K, {})
          /\ next' \in {next, MaxOf(P) + 1}
    BY <1>6 DEF PeekSession
  <2>2. P # {} /\ Onward(P, {}) = MaxOf(P) + 1 /\ UNCHANGED <<arrived, fresh, cursor>>
    BY <1>6, <2>1 DEF PeekSession, IsPage, Onward, world, durable
  <2>. QED BY <1>4, <2>1, <2>2
<1>7. CASE AcceptSession
  <2>1. UNCHANGED <<arrived, fresh, high, outstanding, cursor>> /\ next' \in {next, 1}
    BY <1>7 DEF AcceptSession, world, durable, marks
  <2>. QED BY <1>0, <2>1 DEF ArrivalInv
<1>8. CASE Arrives
  <2>1. PICK m \in Seqs \ arrived :
          /\ \A k \in Seqs \ arrived : m <= k
          /\ arrived' = arrived \cup {m} /\ (fresh' = {} \/ fresh' = fresh \cup {m})
    BY <1>8 DEF Arrives
  <2>2. UNCHANGED <<high, outstanding, cursor, next>>
    BY <1>8 DEF Arrives, marks, durable, paging
  <2>3. m \in Nat /\ \A k \in Seqs \ arrived' : k \in Seqs \ arrived /\ k \in Nat /\ m < k
    <3>. SUFFICES ASSUME NEW k \in Seqs \ arrived' PROVE k \in Seqs \ arrived /\ k \in Nat /\ m < k
      BY <1>0
    <3>1. k \in Seqs \ arrived /\ k # m /\ k \in Nat /\ m \in Nat /\ m <= k
      BY <1>0, <2>1
    <3>. QED BY <3>1
  <2>4. \A j \in Seqs \ arrived' : \A k \in arrived' : k < j
    BY <2>1, <2>3 DEF ArrivalInv
  <2>5. \A j \in fresh', k \in arrived' \ fresh' : k < j
    <3>1. \A k \in arrived : k < m
      BY DEF ArrivalInv
    <3>. QED BY <2>1, <3>1 DEF ArrivalInv
  <2>. QED BY <2>2, <2>3, <2>4, <2>5 DEF ArrivalInv
<1>. QED
  BY <1>1, <1>2, <1>3, <1>5, <1>6, <1>7, <1>8
  DEF Next, Pages, Visits, Platform, World, StopNow, ConnectionFails, EndOfEntity, RevealPartitions, PageRaises,
      SessionRefused, SessionLost, NoMoreSessions, SessionDone, Leaves, OthersMove, DeadlinePasses, HeldSessionLapses,
      vars, world, durable, run, paging, marks

(***************************************************************************)
(* What one page covers.                                                   *)
(***************************************************************************)

\* An explicit page is the first of what is ahead.
LEMMA PageIsFirst ==
    ASSUME TypeOK, NEW P, P \subseteq Ahead, IsPage(P), ~byCursor, NEW m \in Ahead, NEW p \in P, m <= p
    PROVE  m \in P
<1>. SUFFICES ASSUME m \notin P PROVE FALSE
  OBVIOUS
<1>1. p < m
  BY DEF IsPage
<1>2. m \in Nat /\ p \in Nat
  BY PeekAssumption DEF Ahead, Present, TypeOK
<1>. QED BY <1>1, <1>2

\* Of a page, everything new before a message that is reached is reached.
LEMMA ReachedBefore ==
    ASSUME TypeOK, NEW P, NEW K, P \subseteq Seqs, NEW r \in Reached(P, K), NEW m \in P \ processed, m <= r
    PROVE  m \in Reached(P, K)
<1>1. \A k \in P : k \in Nat
  BY PeekAssumption
<1>2. \A b \in Breaks(P, K) : r < b /\ b \in P
  BY DEF Reached, Breaks, Candidates
<1>3. r \in P
  BY DEF Reached, Candidates
<1>4. \A b \in Breaks(P, K) : m < b
  BY <1>1, <1>2, <1>3
<1>. QED BY <1>4 DEF Reached, Candidates

\* A page without a stop is reached to its end.
LEMMA AllReached ==
    ASSUME NEW P, NEW K, PageStop(P, K) = "none"
    PROVE  Reached(P, K) = P \ processed
<1>1. Breaks(P, K) = {}
  BY DEF PageStop
<1>. QED BY <1>1 DEF Reached, Candidates

\* Everything ahead that the next page no longer shows is exported.
LEMMA PageIsExported ==
    ASSUME TypeOK, MemoryInv, NEW P, NEW K, NEW U, NEW A, P \subseteq Ahead, A \subseteq U, IsPage(P),
           Exports(P, K, U, A), ~byCursor, A # {} \/ PageStop(P, K) = "none",
           NEW m \in Ahead, m < Onward(P, A)
    PROVE  m \in Exported'
<1>0. /\ P \subseteq Seqs /\ Reached(P, K) \subseteq P \ processed /\ A \subseteq Reached(P, K) /\ A \subseteq P /\ P # {}
      /\ Exported' = Exported \cup (Reached(P, K) \ A)
  BY PageExports DEF IsPage
<1>1. m \in Nat /\ \A k \in P : k \in Nat
  BY <1>0, PeekAssumption DEF Ahead, Present, TypeOK
<1>2. processed \subseteq Exported
  BY DEF MemoryInv
<1>3. CASE A = {}
  <2>1. MaxOf(P) \in P
    BY <1>0, MaxIsGreatest
  <2>2. m <= MaxOf(P)
    <3>1. m < MaxOf(P) + 1 /\ MaxOf(P) \in Nat
      BY <1>1, <1>3, <2>1 DEF Onward
    <3>. QED BY <1>1, <3>1
  <2>3. m \in P
    BY <2>1, <2>2, PageIsFirst
  <2>4. Reached(P, K) = P \ processed
    BY <1>3, AllReached
  <2>. QED BY <1>0, <1>2, <1>3, <2>3, <2>4
<1>4. CASE A # {}
  <2>1. MinOf(A) \in A /\ \A k \in A : MinOf(A) <= k
    BY <1>0, <1>4, MinIsLeast
  <2>2. m < MinOf(A) /\ m <= MinOf(A) /\ MinOf(A) \in P /\ MinOf(A) \in Nat
    <3>1. m < MinOf(A) /\ MinOf(A) \in P /\ MinOf(A) \in Nat
      BY <1>0, <1>1, <1>4, <2>1 DEF Onward
    <3>. QED BY <1>1, <3>1
  <2>3. m \in P
    BY <2>2, PageIsFirst
  <2>4. m \notin A
    BY <1>1, <2>1, <2>2
  <2>5. m \in processed \/ m \in Reached(P, K)
    <3>1. MinOf(A) \in Reached(P, K)
      BY <1>0, <2>1
    <3>. QED BY <1>0, <2>2, <2>3, <3>1, ReachedBefore
  <2>. QED BY <1>0, <1>2, <2>4, <2>5
<1>. QED BY <1>3, <1>4

\* A page that stops at the job start has exported what is ahead and not newer.
LEMMA WatermarkIsReached ==
    ASSUME TypeOK, ArrivalInv, MemoryInv, NEW P, NEW K, NEW U, P \subseteq Ahead, IsPage(P), Exports(P, K, U, {}),
           ~byCursor, PageStop(P, K) = "watermark", NEW m \in Ahead \ fresh
    PROVE  m \in Exported'
<1>0. /\ P \subseteq Seqs /\ Exported' = Exported \cup Reached(P, K) /\ processed \subseteq Exported
  BY PageExports DEF MemoryInv
<1>1. Breaks(P, K) # {} /\ ~Full(P, K, MinOf(Breaks(P, K)))
  BY DEF PageStop
<1>2. Breaks(P, K) \subseteq P
  BY DEF Breaks, Candidates
<1>3. MinOf(Breaks(P, K)) \in Breaks(P, K) /\ \A b \in Breaks(P, K) : MinOf(Breaks(P, K)) <= b
  <2>1. Breaks(P, K) \in SUBSET Seqs
    BY <1>0, <1>2
  <2>. QED BY <1>1, <2>1, MinIsLeast
<1>4. MinOf(Breaks(P, K)) \in fresh
  BY <1>1, <1>3 DEF Breaks
<1>5. m \in arrived \ fresh /\ m \in Nat /\ \A k \in P : k \in Nat
  BY <1>0, PeekAssumption DEF Ahead, Present, TypeOK
<1>6. m < MinOf(Breaks(P, K))
  BY <1>4, <1>5 DEF ArrivalInv
<1>. DEFINE first == MinOf(Breaks(P, K))
<1>7. m \in P
  <2>1. m <= MinOf(Breaks(P, K)) /\ MinOf(Breaks(P, K)) \in P
    <3>1. first \in P /\ m < first /\ m \in Nat /\ first \in Nat
      BY <1>2, <1>3, <1>5, <1>6
    <3>. HIDE DEF first
    <3>2. m <= first
      BY <3>1
    <3>. QED BY <3>1, <3>2 DEF first
  <2>. QED BY <2>1, PageIsFirst
<1>8. m \in processed \/ m \in Reached(P, K)
  <2>1. \A b \in Breaks(P, K) : m < b
    <3>. TAKE b \in Breaks(P, K)
    <3>1. b \in Nat /\ first \in Nat /\ m \in Nat /\ first <= b /\ m < first
      BY <1>2, <1>3, <1>5, <1>6
    <3>. HIDE DEF first
    <3>. QED BY <3>1
  <2>. QED BY <1>7, <2>1 DEF Reached, Candidates
<1>. QED BY <1>0, <1>8

\* Every step keeps what the run remembers within what it exported.
LEMMA MemoryStep ==
    ASSUME TypeOK, ModeInv, MemoryInv, [Next]_vars
    PROVE  MemoryInv'
<1>1. ASSUME UNCHANGED <<rows, passed, high>>, processed' \subseteq processed, shown' \subseteq shown, Running' => Running
      PROVE  MemoryInv'
  BY <1>1 DEF MemoryInv, Exported
<1>2. CASE StartRun \/ JobSucceeds \/ JobFails
  <2>1. rows' = {} /\ passed' = {} /\ processed' = {} /\ shown' = {}
    BY <1>2 DEF StartRun, JobSucceeds, JobFails, FreshPager
  <2>. QED BY <2>1 DEF MemoryInv, Exported
<1>3. ASSUME NEW P, NEW K, NEW U, NEW A, P \subseteq Ahead, A \subseteq U, Exports(P, K, U, A), Mark(P, K, A), Running,
             shown' \subseteq shown \cup P,
             shown' \subseteq shown \/ (A = {} /\ PageStop(P, K) = "none")
      PROVE  MemoryInv'
  <2>1. /\ Exported' = Exported \cup (Reached(P, K) \ A) /\ Reached(P, K) \subseteq P \ processed /\ P \subseteq Seqs
    BY <1>3, PageExports
  <2>2. /\ high <= high' /\ (\A m \in Reached(P, K) \ A : m <= high')
        /\ processed' \subseteq processed \cup (Reached(P, K) \ A)
    BY <1>3, PageMarks
  <2>3. shown' \subseteq Exported'
    <3>1. CASE shown' \subseteq shown
      BY <2>1, <3>1 DEF MemoryInv
    <3>2. CASE A = {} /\ PageStop(P, K) = "none"
      <4>1. Reached(P, K) = P \ processed
        BY <3>2, AllReached
      <4>. QED BY <1>3, <2>1, <3>2, <4>1 DEF MemoryInv
    <3>. QED BY <1>3, <3>1, <3>2
  <2>4. \A m \in Exported' : m <= high'
    <3>1. high \in Nat /\ high' \in Nat /\ \A m \in Exported : m \in Nat
      <4>1. Seqs \subseteq Nat
        BY PeekAssumption
      <4>2. high' \in Seqs \cup {0}
        BY <1>3, <2>1, PageMarks DEF TypeOK
      <4>. QED BY <4>1, <4>2 DEF TypeOK, Exported
    <3>. QED BY <1>3, <2>1, <2>2, <3>1 DEF MemoryInv
  <2>. QED BY <2>1, <2>2, <2>3, <2>4 DEF MemoryInv
<1>4. CASE PeekPage
  <2>1. PICK P, K, U, A :
          /\ P \subseteq Ahead /\ A \subseteq U /\ Exports(P, K, U, A) /\ Mark(P, K, A)
          /\ \/ UNCHANGED shown
             \/ /\ A # {} \/ PageStop(P, K) = "none"
                /\ shown' = IF byCursor THEN shown \cup P ELSE {}
    BY <1>4 DEF PeekPage
  <2>2. Running /\ (A # {} => ~byCursor)
    BY <1>4, <2>1, PageExports DEF PeekPage, Paging, Running
  <2>3. /\ shown' \subseteq shown \cup P
        /\ shown' \subseteq shown \/ (A = {} /\ PageStop(P, K) = "none")
    BY <2>1, <2>2
  <2>. QED BY <1>3, <2>1, <2>2, <2>3
<1>5. CASE PeekSession
  <2>1. PICK P, K, U : P \subseteq Ahead /\ Exports(P, K, U, {}) /\ Mark(P, K, {})
    BY <1>5 DEF PeekSession
  <2>2. Running /\ UNCHANGED shown
    BY <1>5 DEF PeekSession, Running
  <2>. QED BY <1>3, <2>1, <2>2
<1>6. CASE PageRaises
  <2>1. PICK P, K, U, A : P \subseteq Ahead /\ A \subseteq U /\ Exports(P, K, U, A)
    BY <1>6, Zenon DEF PageRaises
  <2>2. Exported \subseteq Exported'
    BY <2>1, PageExports
  <2>3. ~Running' /\ UNCHANGED <<processed, shown>>
    BY <1>6 DEF PageRaises, Running, marks, paging
  <2>. QED BY <2>2, <2>3 DEF MemoryInv
<1>7. CASE StopNow \/ ConnectionFails \/ EndOfEntity \/ RevealPartitions \/ AcceptSession \/ NoMoreSessions \/ SessionDone
           \/ SessionRefused \/ SessionLost
  <2>1. UNCHANGED <<rows, passed, high, processed>> /\ shown' \subseteq shown
    BY <1>7 DEF StopNow, ConnectionFails, EndOfEntity, RevealPartitions, AcceptSession, NoMoreSessions, SessionDone,
                SessionRefused, SessionLost, paging, marks, output
  <2>2. Running
    BY <1>7 DEF StopNow, ConnectionFails, EndOfEntity, RevealPartitions, AcceptSession, NoMoreSessions, SessionDone,
                SessionRefused, SessionLost, Peeking, Paging, Accepting, Running
  <2>. QED BY <1>1, <2>1, <2>2
<1>8. CASE World \/ UNCHANGED vars
  <2>1. UNCHANGED <<rows, passed, high, processed, shown, pc>>
    BY <1>8 DEF World, Arrives, Leaves, OthersMove, DeadlinePasses, HeldSessionLapses, vars, paging, marks, output
  <2>. QED BY <1>1, <2>1 DEF Running
<1>. QED BY <1>2, <1>4, <1>5, <1>6, <1>7, <1>8 DEF Next, Pages, Visits, Platform

(***************************************************************************)
(* Full fetch.                                                             *)
(***************************************************************************)

\* The current session of a full fetch is done at its end and at the watermark.
LEMMA SessionIsExported ==
    ASSUME TypeOK, ArrivalInv, FullInv, ~Incremental, pc = "session", Exported \subseteq Exported',
           \A m \in Ahead \ fresh : m \in Exported', ~byCursor
    PROVE  \A m \in Present \ fresh : SessionOf[m] = session => m \in Exported'
<1>. SUFFICES ASSUME NEW m \in Present \ fresh, SessionOf[m] = session PROVE m \in Exported'
  OBVIOUS
<1>1. m \in Nat /\ next \in Nat
  BY PeekAssumption DEF Present, TypeOK
<1>2. CASE m < next
  BY <1>2 DEF FullInv, Running
<1>3. CASE ~(m < next)
  <2>1. m \in Ahead
    BY <1>1, <1>3 DEF Ahead
  <2>. QED BY <2>1
<1>. QED BY <1>2, <1>3

\* Every step keeps what a full fetch has exported.
LEMMA FullStep ==
    ASSUME TypeOK, ModeInv, ArrivalInv, MemoryInv, FullInv, [Next]_vars
    PROVE  FullInv'
<1>. SUFFICES ASSUME Running', ~Incremental' PROVE FullInv'
  BY DEF FullInv
<1>0. \A m \in Present : SessionOf[m] # "none" /\ m \in Nat
  BY PeekAssumption DEF Present, TypeOK
<1>1. ASSUME Running, ~Incremental, UNCHANGED <<rows, passed, next, byCursor>>, processed' = processed,
             Present' \ fresh' \subseteq Present \ fresh, pc' = "page" => pc = "page",
             \A m \in Present' : m < next => m \in Present,
             pc' = "session" => pc = "session" /\ session' = session,
             held' \ {session'} \subseteq held \ {session}
      PROVE  FullInv'
  BY <1>1 DEF FullInv, Exported
<1>2. CASE StartRun
  <2>1. pc' \in {"page", "accept"} /\ (byCursor' \/ next' = 1) /\ rows' = {} /\ held' = {} /\ Present' = Present
    BY <1>2 DEF StartRun, FreshPager, Incremental, Running, world, Present
  <2>2. \A m \in Present : ~(m < 1)
    BY PeekAssumption DEF Present, TypeOK
  <2>. QED BY <2>1, <2>2 DEF FullInv
<1>3. CASE StopNow \/ EndOfEntity \/ NoMoreSessions
  <2>1. /\ UNCHANGED <<rows, passed, next, byCursor, processed, arrived, gone, fresh, fetch>> /\ pc' = "finished"
        /\ held' = {} /\ Running
    BY <1>3 DEF StopNow, EndOfEntity, NoMoreSessions, Finished, Peeking, Paging, Accepting, Running, world, paging,
                marks, output
  <2>. QED BY <1>1, <2>1 DEF Incremental, Present
<1>4. CASE ConnectionFails
  <2>1. /\ UNCHANGED <<rows, passed, next, byCursor, processed, arrived, gone, fresh, fetch>>
        /\ pc' \in {"page", "accept"} /\ held' = {} /\ Running
    BY <1>4 DEF ConnectionFails, Peeking, Running, world, run, marks, output
  <2>2. pc' = "page" => pc = "page"
    BY <1>4 DEF ConnectionFails, Peeking, ModeInv
  <2>. QED BY <1>1, <2>1, <2>2 DEF Incremental, Present
<1>5. CASE RevealPartitions
  <2>1. /\ UNCHANGED <<rows, passed, next, processed, arrived, gone, fresh, fetch, held, session>>
        /\ pc = "page" /\ pc' = "page" /\ byCursor'
    BY <1>5 DEF RevealPartitions, Paging, Running, world, run, sessions, marks, output
  <2>. QED BY <2>1 DEF FullInv, Running, Incremental, Present, Exported
<1>6. ASSUME NEW P, NEW K, NEW U, NEW A, P \subseteq Ahead, A \subseteq U, Exports(P, K, U, A), Mark(P, K, A), Running,
             ~Incremental
      PROVE  /\ rows' \subseteq processed' /\ Exported \subseteq Exported'
  <2>1. /\ rows' \subseteq rows \cup (Reached(P, K) \ A) /\ Exported \subseteq Exported'
    BY <1>6, PageExports
  <2>2. processed' = processed \cup (Reached(P, K) \ A)
    BY <1>6 DEF Mark, Kept
  <2>. QED BY <1>6, <2>1, <2>2 DEF FullInv
<1>7. CASE PeekPage
  <2>1. PICK P, K, U, A :
          /\ P \subseteq Ahead /\ A \subseteq U /\ IsPage(P) /\ Exports(P, K, U, A) /\ Mark(P, K, A)
          /\ IF A = {} /\ PageStop(P, K) # "none"
             THEN Finished(PageStop(P, K))
             ELSE next' = Onward(P, A) /\ UNCHANGED <<pc, session, held>>
    BY <1>7 DEF PeekPage
  <2>2. UNCHANGED <<arrived, gone, fresh, fetch, byCursor>> /\ pc = "page" /\ Running
    BY <1>7 DEF PeekPage, Paging, Running, world
  <2>3. rows' \subseteq processed' /\ Exported \subseteq Exported' /\ ~Incremental
    BY <1>6, <2>1, <2>2 DEF Incremental
  <2>4. CASE A = {} /\ PageStop(P, K) # "none"
    BY <2>1, <2>2, <2>3, <2>4 DEF FullInv, Finished
  <2>5. CASE ~(A = {} /\ PageStop(P, K) # "none")
    <3>1. next' = Onward(P, A) /\ UNCHANGED <<pc, session, held>>
      BY <2>1, <2>5
    <3>2. ASSUME ~byCursor, NEW m \in Present, m < next' PROVE m \in Exported'
      <4>1. CASE m < next
        BY <2>2, <2>3, <3>2, <4>1 DEF FullInv
      <4>2. CASE ~(m < next)
        <5>1. m \in Ahead
          BY <1>0, <2>2, <3>2, <4>2 DEF Ahead, TypeOK
        <5>. QED BY <2>1, <2>5, <3>1, <3>2, <5>1, PageIsExported
      <4>. QED BY <4>1, <4>2
    <3>3. Present' = Present
      BY <2>2 DEF Present
    <3>. QED BY <2>2, <2>3, <3>1, <3>2, <3>3 DEF FullInv
  <2>. QED BY <2>4, <2>5
<1>8. CASE PageRaises
  BY <1>8 DEF PageRaises, Running
<1>9. CASE AcceptSession
  <2>1. PICK s \in SessionIds :
          \/ Finished("session_revisited") /\ UNCHANGED next
          \/ held' = held \cup {s} /\ session' = s /\ pc' = "session" /\ next' = 1
    BY <1>9 DEF AcceptSession
  <2>2. UNCHANGED <<rows, passed, byCursor, processed, arrived, gone, fresh, fetch>> /\ pc = "accept" /\ Running
    BY <1>9 DEF AcceptSession, Accepting, Running, world, marks, output
  <2>3. CASE Finished("session_revisited") /\ UNCHANGED next
    BY <1>1, <2>2, <2>3 DEF Finished, Incremental, Present
  <2>4. CASE held' = held \cup {s} /\ session' = s /\ pc' = "session" /\ next' = 1
    <3>1. \A m \in Present : ~(m < 1)
      BY PeekAssumption DEF Present, TypeOK
    <3>2. session = "none" /\ ~Incremental /\ Present' = Present
      BY <2>2 DEF ModeInv, Incremental, Present
    <3>3. \A m \in Present \ fresh : SessionOf[m] \in held => m \in Exported
      BY <1>0, <2>2, <3>2 DEF FullInv
    <3>. QED BY <2>2, <2>4, <3>1, <3>2, <3>3 DEF FullInv, Exported
  <2>. QED BY <2>1, <2>3, <2>4
<1>10. CASE SessionDone
  <2>1. /\ UNCHANGED <<rows, passed, next, byCursor, processed, arrived, gone, fresh, fetch, held>>
        /\ pc = "session" /\ pc' = "accept" /\ session' = "none" /\ Ahead = {} /\ Running
    BY <1>10 DEF SessionDone, Running, world, run, paging, marks, output
  <2>2. ~Incremental /\ Exported' = Exported /\ ~byCursor /\ Present' = Present
    BY <2>1 DEF Incremental, Exported, ModeInv, Present
  <2>3. \A m \in Present \ fresh : SessionOf[m] = session => m \in Exported
    BY <2>1, <2>2, SessionIsExported
  <2>. QED BY <2>1, <2>2, <2>3 DEF FullInv
<1>15. CASE SessionLost
  <2>1. /\ UNCHANGED <<rows, passed, next, byCursor, processed, arrived, gone, fresh, fetch>>
        /\ pc = "session" /\ pc' = "accept" /\ session' = "none" /\ held' = held \ {session} /\ Running
    BY <1>15 DEF SessionLost, Running, run, paging, marks, output
  <2>. QED BY <1>1, <2>1 DEF Incremental, Present
<1>11. CASE PeekSession
  <2>1. PICK P, K, U :
          /\ P \subseteq Ahead /\ IsPage(P) /\ Exports(P, K, U, {}) /\ Mark(P, K, {})
          /\ \/ /\ PageStop(P, K) = "none"
                /\ next' = MaxOf(P) + 1 /\ UNCHANGED <<pc, session, held>>
             \/ /\ PageStop(P, K) = "watermark"
                /\ pc' = "accept" /\ session' = "none" /\ UNCHANGED held
             \/ pc' = "finished" /\ held' = {}
    BY <1>11 DEF PeekSession, Finished
  <2>2. UNCHANGED <<arrived, gone, fresh, fetch, byCursor>> /\ pc = "session" /\ Running /\ kind = "sessions" /\ ~byCursor
    BY <1>11 DEF PeekSession, Running, world, ModeInv
  <2>3. rows' \subseteq processed' /\ Exported \subseteq Exported' /\ ~Incremental /\ Present' = Present
    BY <1>6, <2>1, <2>2 DEF Incremental, Present
  <2>4. CASE pc' = "finished" /\ held' = {}
    BY <2>3, <2>4 DEF FullInv
  <2>5. CASE PageStop(P, K) = "watermark" /\ pc' = "accept" /\ session' = "none" /\ UNCHANGED held
    <3>1. \A m \in Ahead \ fresh : m \in Exported'
      BY <2>1, <2>2, <2>5, WatermarkIsReached
    <3>2. \A m \in Present \ fresh : SessionOf[m] = session => m \in Exported'
      BY <2>2, <2>3, <3>1, SessionIsExported
    <3>. QED BY <2>2, <2>3, <2>5, <3>2 DEF FullInv
  <2>6. CASE PageStop(P, K) = "none" /\ next' = MaxOf(P) + 1 /\ UNCHANGED <<pc, session, held>>
    <3>1. ASSUME NEW m \in Present, SessionOf[m] = session, m < next' PROVE m \in Exported'
      <4>1. CASE m < next
        BY <2>2, <2>3, <3>1, <4>1 DEF FullInv
      <4>2. CASE ~(m < next)
        <5>1. m \in Ahead
          BY <1>0, <2>2, <3>1, <4>2 DEF Ahead, TypeOK
        <5>2. next' = Onward(P, {})
          BY <2>6 DEF Onward
        <5>. QED BY <2>1, <2>2, <2>6, <3>1, <5>1, <5>2, PageIsExported
      <4>. QED BY <4>1, <4>2
    <3>. QED BY <2>2, <2>3, <2>6, <3>1 DEF FullInv
  <2>. QED BY <2>1, <2>4, <2>5, <2>6
<1>12. CASE JobSucceeds \/ JobFails
  BY <1>12 DEF JobSucceeds, JobFails, Running
<1>13. CASE Arrives
  <2>1. PICK m \in Seqs \ arrived : arrived' = arrived \cup {m} /\ fresh' = IF pc = "idle" THEN {} ELSE fresh \cup {m}
    BY <1>13 DEF Arrives
  <2>2. UNCHANGED <<rows, passed, next, byCursor, processed, gone, fetch, pc, session, held>>
    BY <1>13 DEF Arrives, paging, sessions, marks, output
  <2>3. /\ Present' \subseteq Present \cup {m} /\ Running /\ ~Incremental
        /\ ~(m < next)
    <3>1. next <= m /\ m \in Nat /\ next \in Nat
      BY PeekAssumption DEF ArrivalInv, TypeOK
    <3>. QED BY <2>1, <2>2, <3>1 DEF Present, Running, Incremental
  <2>4. Present' \ fresh' \subseteq Present \ fresh
    BY <2>1, <2>2, <2>3 DEF Running
  <2>. QED BY <1>1, <2>2, <2>3, <2>4
<1>14. CASE Leaves \/ OthersMove \/ SessionRefused \/ DeadlinePasses \/ HeldSessionLapses \/ UNCHANGED vars
  <2>1. UNCHANGED <<rows, passed, next, byCursor, processed, arrived, fresh, fetch, pc, session>> /\ held' \subseteq held
        /\ gone \subseteq gone'
    BY <1>14 DEF Leaves, OthersMove, SessionRefused, DeadlinePasses, HeldSessionLapses, vars, world, run, paging, sessions, marks, output
  <2>. QED BY <1>1, <2>1 DEF Running, Incremental, Present
<1>. QED
  BY <1>2, <1>3, <1>4, <1>5, <1>7, <1>8, <1>9, <1>10, <1>11, <1>12, <1>13, <1>14, <1>15
  DEF Next, Pages, Visits, Platform, World

\* Every step keeps a finished full fetch complete.
LEMMA CompleteStep ==
    ASSUME TypeOK, ModeInv, ArrivalInv, MemoryInv, FullInv, FullFetchComplete, [Next]_vars
    PROVE  FullFetchComplete'
<1>. SUFFICES ASSUME pc' = "finished", ~Incremental',
                     reason' \in {"end_of_entity", "no_more_sessions"} \/ (reason' = "watermark" /\ kind' = "plain")
              PROVE  Present' \ fresh' \subseteq Exported' \cup HeldByOthers'
  BY DEF FullFetchComplete, Exported
<1>0. \A m \in Present : m \in Nat /\ m \in Seqs
  BY PeekAssumption DEF Present, TypeOK
<1>1. CASE EndOfEntity
  <2>1. /\ UNCHANGED <<rows, passed, arrived, gone, fresh, fetch>> /\ pc = "page" /\ Ahead = {}
    BY <1>1 DEF EndOfEntity, Paging, world, output
  <2>2. Present' \ fresh' = Present \ fresh /\ Exported' = Exported /\ Running /\ ~Incremental
    BY <2>1 DEF Present, Exported, Running, Incremental
  <2>3. CASE byCursor
    BY <2>1, <2>2, <2>3 DEF Ahead, MemoryInv
  <2>4. CASE ~byCursor
    <3>1. \A m \in Present : m < next
      BY <1>0, <2>1, <2>4 DEF Ahead, TypeOK
    <3>. QED BY <2>1, <2>2, <2>4, <3>1 DEF FullInv
  <2>. QED BY <2>3, <2>4
<1>2. CASE NoMoreSessions
  <2>1. /\ UNCHANGED <<rows, passed, arrived, gone, fresh, fetch>> /\ pc = "accept"
        /\ \A s \in SessionIds : ~Handed(s)
    BY <1>2 DEF NoMoreSessions, Accepting, world, output
  <2>2. Present' \ fresh' = Present \ fresh /\ Exported' = Exported /\ Running /\ ~Incremental
    BY <2>1 DEF Present, Exported, Running, Incremental
  <2>3. session = "none"
    BY <2>1 DEF ModeInv
  <2>4. ASSUME NEW m \in Present \ fresh, SessionOf[m] \notin others PROVE m \in Exported
    <3>1. SessionOf[m] \in SessionIds /\ SessionOf[m] # "none"
      BY <1>0, PeekAssumption DEF SessionIds
    <3>2. SessionOf[m] \in held
      BY <2>1, <2>4, <3>1 DEF Handed, HasMessages
    <3>. QED BY <2>2, <2>3, <2>4, <3>1, <3>2 DEF FullInv
  <2>5. UNCHANGED <<kind, others, arrived, gone>> /\ kind = "sessions"
    BY <1>2, <2>1 DEF NoMoreSessions, world, ModeInv
  <2>6. HeldByOthers' = {m \in Present : SessionOf[m] \in others}
    BY <2>5 DEF HeldByOthers, Present
  <2>. QED BY <2>2, <2>4, <2>6
<1>3. CASE PeekPage
  <2>1. PICK P, K, U, A :
          /\ P \subseteq Ahead /\ A \subseteq U /\ IsPage(P) /\ Exports(P, K, U, A)
          /\ IF A = {} /\ PageStop(P, K) # "none"
             THEN reason' = PageStop(P, K)
             ELSE UNCHANGED pc
    BY <1>3 DEF PeekPage, Finished
  <2>2. UNCHANGED <<arrived, gone, fresh, fetch, kind>> /\ pc = "page" /\ Running
    BY <1>3 DEF PeekPage, Paging, Running, world
  <2>3. A = {} /\ reason' = PageStop(P, K)
    BY <2>1, <2>2
  <2>4. PageStop(P, K) = "watermark" /\ ~byCursor /\ ~Incremental
    BY <2>2, <2>3 DEF PageStop, ModeInv, Incremental
  <2>5. Present' \ fresh' = Present \ fresh /\ Exported \subseteq Exported'
    BY <2>1, <2>2, PageExports DEF Present
  <2>6. ASSUME NEW m \in Present \ fresh PROVE m \in Exported'
    <3>1. CASE m < next
      BY <2>2, <2>4, <2>5, <3>1 DEF FullInv
    <3>2. CASE ~(m < next)
      <4>1. m \in Ahead \ fresh
        BY <1>0, <2>2, <2>4, <3>2 DEF Ahead, TypeOK
      <4>. QED BY <2>1, <2>3, <2>4, <4>1, WatermarkIsReached
    <3>. QED BY <3>1, <3>2
  <2>. QED BY <2>5, <2>6
<1>4. CASE StopNow \/ AcceptSession \/ PeekSession
  <2>1. reason' \in {"max_messages", "max_duration", "session_revisited"} \/ kind' = "sessions"
    <3>1. CASE StopNow
      BY <3>1 DEF StopNow, Finished, StopRule
    <3>2. CASE AcceptSession
      <4>1. pc' = "session" \/ reason' = "session_revisited"
        BY <3>2 DEF AcceptSession, Finished
      <4>. QED BY <4>1
    <3>3. CASE PeekSession
      BY <3>3 DEF PeekSession, ModeInv, world
    <3>. QED BY <1>4, <3>1, <3>2, <3>3
  <2>2. reason' \notin {"end_of_entity", "no_more_sessions"}
    <3>1. CASE StopNow
      BY <3>1 DEF StopNow, Finished, StopRule
    <3>2. CASE AcceptSession
      <4>1. pc' = "session" \/ reason' = "session_revisited"
        BY <3>2 DEF AcceptSession, Finished
      <4>. QED BY <4>1
    <3>3. CASE PeekSession
      <4>1. reason' \in {"none", "max_messages", "watermark", reason} /\ reason = "none"
        BY <3>3 DEF PeekSession, Finished, PageStop, ModeInv
      <4>. QED BY <4>1
    <3>. QED BY <1>4, <3>1, <3>2, <3>3
  <2>. QED BY <2>1, <2>2
<1>5. CASE Arrives
  <2>1. PICK m \in Seqs \ arrived : arrived' = arrived \cup {m} /\ fresh' = IF pc = "idle" THEN {} ELSE fresh \cup {m}
    BY <1>5 DEF Arrives
  <2>2. UNCHANGED <<rows, passed, gone, fetch, pc, reason, kind, others>>
    BY <1>5 DEF Arrives, output
  <2>3. Present' \ fresh' \subseteq Present \ fresh /\ Present \subseteq Present'
    BY <2>1, <2>2 DEF Present
  <2>4. HeldByOthers \subseteq HeldByOthers'
    BY <2>2, <2>3 DEF HeldByOthers
  <2>. QED BY <2>2, <2>3, <2>4 DEF FullFetchComplete, Incremental, Exported
<1>6. CASE Leaves \/ DeadlinePasses \/ HeldSessionLapses \/ UNCHANGED vars
  <2>1. UNCHANGED <<rows, passed, arrived, fresh, fetch, pc, reason, kind, others>> /\ gone \subseteq gone'
    BY <1>6 DEF Leaves, DeadlinePasses, HeldSessionLapses, vars, world, run, output
  <2>2. Present' \ fresh' \subseteq Present \ fresh /\ Present' \subseteq Present
    BY <2>1 DEF Present
  <2>3. ASSUME NEW m \in Present', m \in HeldByOthers PROVE m \in HeldByOthers'
    BY <2>1, <2>3 DEF HeldByOthers
  <2>. QED BY <2>1, <2>2, <2>3 DEF FullFetchComplete, Incremental, Exported
<1>7. CASE \/ StartRun \/ ConnectionFails \/ RevealPartitions \/ PageRaises \/ SessionDone \/ SessionRefused
           \/ SessionLost \/ OthersMove \/ JobSucceeds \/ JobFails
  BY <1>7 DEF StartRun, ConnectionFails, RevealPartitions, Paging, PageRaises, SessionDone, SessionRefused, Accepting,
              SessionLost, OthersMove, JobSucceeds, JobFails
<1>. QED BY <1>1, <1>2, <1>3, <1>4, <1>5, <1>6, <1>7 DEF Next, Pages, Visits, Platform, World

PagerInv == TypeOK /\ ModeInv /\ ArrivalInv /\ MemoryInv /\ FullInv

\* The invariants of the pager hold throughout.
LEMMA PagerInvariant == Spec => []PagerInv
<1>1. Init => ModeInv /\ ArrivalInv /\ MemoryInv /\ FullInv
  <2>. SUFFICES ASSUME Init PROVE ModeInv /\ ArrivalInv /\ MemoryInv /\ FullInv
    OBVIOUS
  <2>1. \A m \in Seqs : 1 <= m /\ 0 < m
    BY PeekAssumption
  <2>2. PICK a \in SUBSET Seqs : arrived = a /\ \A m \in Seqs \ a, k \in a : k < m
    BY DEF Init
  <2>. QED BY <2>1, <2>2 DEF Init, ModeInv, ArrivalInv, MemoryInv, FullInv, Running, Exported
<1>2. PagerInv /\ [Next]_vars => (ModeInv /\ ArrivalInv /\ MemoryInv /\ FullInv)'
  BY ModeStep, ArrivalStep, MemoryStep, FullStep DEF PagerInv
<1>. QED BY <1>1, <1>2, PagerIsTyped, PTL DEF Spec, PagerInv

\* A full fetch that reached the end of the entity, its sessions or (on a plain
\* entity) the job start has exported every message that was there when it
\* started and still is: through re-peeks, recoveries, the switch to cursor mode,
\* held sessions, short pages and sessions lost in the middle.  It leaves out only
\* the sessions other consumers hold when no more are handed out.
THEOREM FullFetchIsComplete == Spec => []FullFetchComplete
<1>1. Init => FullFetchComplete
  BY DEF Init, FullFetchComplete
<1>2. PagerInv /\ FullFetchComplete /\ [Next]_vars => FullFetchComplete'
  BY CompleteStep DEF PagerInv
<1>. QED BY <1>1, <1>2, PagerInvariant, PTL DEF Spec

(***************************************************************************)
(* Incremental fetch, on pages that are full.                              *)
(***************************************************************************)

\* A set within a set of messages has at most as many, and as many only if it
\* is all of it.
LEMMA CountOfPart ==
    ASSUME NEW S, NEW T, S \subseteq Seqs, T \subseteq S
    PROVE  /\ Cardinality(S) \in Nat /\ Cardinality(T) \in Nat /\ Cardinality(T) <= Cardinality(S)
           /\ T # S => Cardinality(T) < Cardinality(S)
<1>1. IsFiniteSet(S) /\ Cardinality(S) \in Nat /\ Cardinality(T) \in Nat
  <2>1. S \in SUBSET Seqs /\ T \in SUBSET Seqs
    OBVIOUS
  <2>. QED BY <2>1, FiniteMessages
<1>2. Cardinality(T) <= Cardinality(S) /\ (Cardinality(S) = Cardinality(T) => S = T)
  BY <1>1, FS_Subset
<1>. QED BY <1>1, <1>2

\* The page that is peeked again holds everything up to the highest mark.
LEMMA PageHoldsAgain ==
    ASSUME TypeOK, ~ShortPages, ~byCursor, pc = "page", Cardinality(Again) <= PageSize,
           NEW P, P \subseteq Ahead, IsPage(P)
    PROVE  Again \subseteq P
<1>. SUFFICES ASSUME NEW k \in Again \ P PROVE FALSE
  OBVIOUS
<1>0. Again \subseteq Seqs /\ Seqs \subseteq Nat /\ PageSize \in Nat /\ next \in Nat /\ high \in Nat
      /\ Again \subseteq Ahead /\ Ahead \subseteq Present /\ Present \subseteq Seqs
  <2>1. Seqs \subseteq Nat /\ PageSize \in Nat
    BY PeekAssumption
  <2>2. next \in Nat /\ high \in Nat /\ Present \subseteq Seqs
    BY <2>1 DEF Present, TypeOK
  <2>3. Again \subseteq Ahead /\ Ahead \subseteq Present
    BY <2>1, <2>2 DEF Again, Ahead
  <2>. QED BY <2>1, <2>2, <2>3
<1>1. Cardinality(P) = PageSize /\ \A m \in P : m < k
  BY <1>0 DEF IsPage
<1>2. P \subseteq Again
  <2>. SUFFICES ASSUME NEW m \in P PROVE m \in Again
    OBVIOUS
  <2>1. m \in Present /\ next <= m /\ m \in Nat /\ m < k /\ k \in Nat /\ k <= high
    BY <1>0, <1>1 DEF Ahead, Again
  <2>. QED BY <1>0, <2>1 DEF Again
<1>3. Cardinality(P) < Cardinality(Again)
  BY <1>0, <1>2, CountOfPart
<1>4. Cardinality(Again) \in Nat /\ Cardinality(P) \in Nat
  BY <1>0, <1>2, CountOfPart
<1>. QED BY <1>0, <1>1, <1>3, <1>4

\* No limit and no job start breaks the page off within what is peeked again.
LEMMA PendingIsNoBreak ==
    ASSUME TypeOK, ~byCursor, pc = "page", Limit > 0 => taken + Cardinality(Pending) <= Limit,
           StopAtStart => Pending \cap fresh = {}, NEW P, NEW K, P \subseteq Ahead, NEW m \in Pending
    PROVE  m \notin Breaks(P, K)
<1>0. Pending \subseteq Seqs /\ Seqs \subseteq Nat /\ Limit \in Nat /\ taken \in Nat /\ next \in Nat /\ high \in Nat
      /\ Present \subseteq Seqs
  <2>1. Seqs \subseteq Nat /\ Limit \in Nat
    BY PeekAssumption
  <2>2. next \in Nat /\ high \in Nat /\ taken \in Nat /\ Present \subseteq Seqs
    BY <2>1 DEF Present, TypeOK
  <2>. QED BY <2>1, <2>2 DEF Again, Pending
<1>1. ~(StopAtStart /\ m \in fresh \ K)
  OBVIOUS
<1>2. ~Full(P, K, m)
  <2>. SUFFICES ASSUME Limit > 0 PROVE ~Full(P, K, m)
    BY DEF Full
  <2>. DEFINE B == {k \in Candidates(P) \ K : k < m}
  <2>1. B \subseteq Pending /\ B # Pending
    <3>1. ASSUME NEW k \in B PROVE k \in Pending /\ k # m
      <4>1. k \in Present /\ next <= k /\ k \notin processed /\ k < m
        BY <3>1 DEF Candidates, Ahead
      <4>2. k \in Nat /\ m \in Nat /\ m <= high
        BY <1>0, <4>1 DEF Pending, Again
      <4>3. k <= high /\ k # m
        BY <1>0, <4>1, <4>2
      <4>. QED BY <4>1, <4>3 DEF Pending, Again
    <3>. QED BY <3>1
  <2>2. Cardinality(B) < Cardinality(Pending) /\ Cardinality(B) \in Nat /\ Cardinality(Pending) \in Nat
    BY <1>0, <2>1, CountOfPart
  <2>3. Full(P, K, m) <=> taken + Cardinality(B) >= Limit
    BY DEF Full
  <2>. HIDE DEF B
  <2>. QED BY <1>0, <2>2, <2>3
<1>. QED BY <1>1, <1>2 DEF Breaks

\* What is peeked again is processed already, or reached now.
LEMMA AgainIsReached ==
    ASSUME TypeOK, ~byCursor, pc = "page", Limit > 0 => taken + Cardinality(Pending) <= Limit,
           StopAtStart => Pending \cap fresh = {}, NEW P, NEW K, P \subseteq Ahead, NEW m \in Again \cap P
    PROVE  m \in processed \cup Reached(P, K)
<1>. SUFFICES ASSUME m \notin processed, NEW b \in Breaks(P, K) PROVE m < b
  BY DEF Reached, Candidates
<1>. SUFFICES ASSUME ~(m < b) PROVE FALSE
  OBVIOUS
<1>0. Seqs \subseteq Nat /\ Present \subseteq Seqs /\ high \in Nat
  <2>1. Seqs \subseteq Nat
    BY PeekAssumption
  <2>. QED BY <2>1 DEF Present, TypeOK
<1>1. b \in P /\ b \notin processed
  BY DEF Breaks, Candidates
<1>2. b \in Present /\ next <= b
  BY <1>1 DEF Ahead
<1>3. b <= high
  <2>1. b \in Nat /\ m \in Nat /\ m <= high
    BY <1>0, <1>2 DEF Again
  <2>. QED BY <1>0, <2>1
<1>4. b \in Pending
  BY <1>1, <1>2, <1>3 DEF Pending, Again
<1>. QED BY <1>4, PendingIsNoBreak

\* A page never takes more rows than the limit leaves.
LEMMA PageUnderLimit ==
    ASSUME TypeOK, Limit > 0, taken < Limit, NEW P, NEW K, P \subseteq Seqs
    PROVE  /\ Cardinality(Reached(P, K) \ K) \in Nat
           /\ taken + Cardinality(Reached(P, K) \ K) <= Limit
<1>. DEFINE W == Reached(P, K) \ K
<1>0. W \subseteq Seqs /\ Seqs \subseteq Nat /\ Limit \in Nat /\ taken \in Nat
  <2>1. Seqs \subseteq Nat /\ Limit \in Nat
    BY PeekAssumption
  <2>. QED BY <2>1 DEF Reached, Candidates, TypeOK
<1>1. Cardinality(W) \in Nat
  BY <1>0, CountOfPart
<1>2. CASE W = {}
  <2>1. Cardinality(W) = 0
    BY <1>2, FS_EmptySet
  <2>. HIDE DEF W
  <2>2. taken + Cardinality(W) <= Limit
    BY <1>0, <2>1
  <2>. QED BY <1>1, <2>2 DEF W
<1>3. CASE W # {}
  <2>1. PICK g \in W : \A k \in W : k <= g
    <3>1. W \in SUBSET (Seqs \cup {0})
      BY <1>0
    <3>. QED BY <1>3, <3>1, MaxIsGreatest
  <2>. DEFINE B == {k \in Candidates(P) \ K : k < g}
  <2>2. g \in Candidates(P) /\ g \notin Breaks(P, K)
    <3>1. g \in Nat
      BY <1>0
    <3>. QED BY <3>1 DEF Reached
  <2>3. ~(taken + Cardinality(B) >= Limit)
    BY <2>2 DEF Breaks, Full
  <2>4. W \subseteq B \cup {g} /\ g \notin B /\ B \subseteq Seqs /\ g \in Seqs
    <3>1. ASSUME NEW k \in W, k # g PROVE k \in B
      <4>1. k <= g /\ k \in Nat /\ g \in Nat /\ k \in Candidates(P) \ K
        BY <1>0, <2>1 DEF Reached
      <4>2. k < g
        BY <3>1, <4>1
      <4>. QED BY <4>1, <4>2
    <3>2. B \subseteq Seqs /\ g \in Nat
      BY <1>0 DEF Candidates
    <3>3. g \notin B
      BY <3>2
    <3>. QED BY <1>0, <3>1, <3>2, <3>3
  <2>5. IsFiniteSet(B) /\ Cardinality(B) \in Nat
    <3>1. B \in SUBSET Seqs
      BY <2>4
    <3>. QED BY <3>1, FiniteMessages
  <2>. HIDE DEF B, W
  <2>6. Cardinality(B \cup {g}) = Cardinality(B) + 1
    BY <2>4, <2>5, FS_AddElement
  <2>7. Cardinality(W) <= Cardinality(B \cup {g})
    <3>1. B \cup {g} \subseteq Seqs
      BY <2>4
    <3>. QED BY <2>4, <3>1, CountOfPart
  <2>8. taken + Cardinality(W) <= Limit
    BY <1>0, <1>1, <2>3, <2>5, <2>6, <2>7
  <2>. QED BY <1>1, <2>8 DEF W
<1>. QED BY <1>2, <1>3

\* Everything ahead up to the highest mark after a page is on that page, and
\* processed or reached.
LEMMA UpToTheMark ==
    ASSUME TypeOK, IncrementalInv, ~ShortPages, Incremental, ~byCursor, pc = "page",
           NEW P, NEW K, NEW U, NEW A, P \subseteq Ahead, A \subseteq U, IsPage(P), Exports(P, K, U, A), Mark(P, K, A),
           NEW m \in Ahead, m <= high'
    PROVE  m \in P /\ m \in processed \cup Reached(P, K)
<1>0. P \subseteq Seqs /\ Reached(P, K) \subseteq P
  BY PageExports
<1>1. high' \in Reached(P, K) \cup {high}
  BY PageMarks
<1>2. CASE high' \in Reached(P, K)
  <2>1. m \in P
    BY <1>0, <1>2, PageIsFirst
  <2>2. m \in processed \/ m \in Reached(P, K)
    BY <1>0, <1>2, <2>1, ReachedBefore
  <2>. QED BY <2>1, <2>2
<1>3. CASE high' = high
  <2>1. m \in Again
    BY <1>3 DEF Ahead, Again
  <2>2. /\ Cardinality(Again) <= PageSize /\ (Limit > 0 => taken + Cardinality(Pending) <= Limit)
        /\ (StopAtStart => Pending \cap fresh = {})
    BY DEF IncrementalInv
  <2>3. m \in P
    BY <2>1, <2>2, PageHoldsAgain
  <2>4. m \in processed \cup Reached(P, K)
    BY <2>1, <2>2, <2>3, AgainIsReached
  <2>. QED BY <2>3, <2>4
<1>. QED BY <1>1, <1>2, <1>3

\* A page of an incremental fetch keeps what was exported, and what waits.
LEMMA IncrementalPage ==
    ASSUME TypeOK, ModeInv, MemoryInv, IncrementalInv, ~ShortPages, Incremental, PeekPage
    PROVE  IncrementalInv'
<1>1. PICK P, K, U, A :
        /\ P \subseteq Ahead /\ A \subseteq U /\ IsPage(P) /\ Exports(P, K, U, A) /\ Mark(P, K, A)
        /\ IF A = {} /\ PageStop(P, K) # "none"
           THEN pc' = "finished"
           ELSE next' = Onward(P, A) /\ UNCHANGED pc
  BY DEF PeekPage, Finished
<1>2. /\ UNCHANGED <<arrived, gone, fresh, fetch, byCursor, storage, skipped>> /\ pc = "page" /\ StopRule = "none"
      /\ Incremental' /\ Present' = Present
  BY DEF PeekPage, Paging, world, durable, Incremental, Present
<1>3. ~byCursor
  BY <1>2 DEF ModeInv
<1>4. /\ P # {} /\ P \subseteq Seqs /\ Reached(P, K) \subseteq P \ processed /\ A \subseteq Reached(P, K) \ K /\ A \subseteq P
      /\ rows' \subseteq rows \cup (Reached(P, K) \ A)
      /\ Exported \subseteq Exported' /\ Exported' = Exported \cup (Reached(P, K) \ A)
  BY <1>1, PageExports DEF IsPage
<1>5. /\ high' \in (Reached(P, K) \ A) \cup {high} /\ (A = {} => outstanding' = 0)
      /\ (A # {} => outstanding' \in A /\ \A m \in A : outstanding' <= m)
  BY <1>1, PageMarks
<1>6. /\ Seqs \subseteq Nat /\ 0 \notin Seqs /\ Limit \in Nat /\ PageSize \in Nat /\ next \in Nat /\ high \in Nat /\ taken \in Nat
      /\ Present \subseteq Seqs /\ high' \in Nat
  <2>1. Seqs \subseteq Nat /\ 0 \notin Seqs /\ Limit \in Nat /\ PageSize \in Nat
    BY PeekAssumption
  <2>2. next \in Nat /\ high \in Nat /\ taken \in Nat /\ Present \subseteq Seqs
    BY <2>1 DEF Present, TypeOK
  <2>. QED BY <1>4, <1>5, <2>1, <2>2
<1>7. \A m \in Present : m \in Ahead <=> next <= m
  BY <1>2, <1>3, <1>6 DEF Ahead
<1>15. \A m \in P : m \in Present /\ next <= m /\ m \in Nat
  <2>1. P \subseteq Present
    BY <1>1, PageExports
  <2>. QED BY <1>1, <1>6, <1>7, <2>1
<1>8. ASSUME NEW m \in Ahead, m <= high' PROVE m \in P /\ m \in processed \cup Reached(P, K)
  BY <1>1, <1>2, <1>3, <1>8, UpToTheMark
<1>9. ASSUME NEW m \in Present, m < next PROVE m \in storage' \cup skipped' \cup Exported'
  BY <1>2, <1>4, <1>9 DEF IncrementalInv
<1>10. ASSUME ~(A = {} /\ PageStop(P, K) # "none"), NEW m \in Present, m < next'
       PROVE  m \in storage' \cup skipped' \cup Exported'
  <2>1. CASE m < next
    BY <1>9, <2>1
  <2>2. CASE ~(m < next)
    <3>1. m \in Ahead
      BY <1>6, <1>7, <2>2
    <3>2. next' = Onward(P, A)
      BY <1>1, <1>10
    <3>. QED BY <1>1, <1>3, <1>10, <3>1, <3>2, PageIsExported
  <2>. QED BY <2>1, <2>2
<1>11. Limit > 0 => taken' + Cardinality(A) <= Limit /\ taken' \in Nat /\ Cardinality(A) \in Nat
  <2>. SUFFICES ASSUME Limit > 0 PROVE taken' + Cardinality(A) <= Limit /\ taken' \in Nat /\ Cardinality(A) \in Nat
    OBVIOUS
  <2>1. taken < Limit
    BY <1>2, <1>6 DEF StopRule
  <2>. DEFINE W == Reached(P, K) \ K
  <2>2. Cardinality(W) \in Nat /\ taken + Cardinality(W) <= Limit
    BY <1>4, <2>1, PageUnderLimit
  <2>3. taken' = taken + Cardinality(W \ A)
    <3>1. taken' = taken + Cardinality((Reached(P, K) \ A) \ K)
      BY <1>1, <1>6 DEF Mark
    <3>2. (Reached(P, K) \ A) \ K = W \ A
      OBVIOUS
    <3>. QED BY <3>1, <3>2
  <2>4. W \in SUBSET Seqs /\ A \subseteq W
    BY <1>4
  <2>. HIDE DEF W
  <2>5. Cardinality(W \ A) = Cardinality(W) - Cardinality(A)
    <3>1. IsFiniteSet(W) /\ W \cap A = A
      BY <2>4, FiniteMessages
    <3>. QED BY <3>1, FS_Difference
  <2>6. Cardinality(A) \in Nat /\ Cardinality(W \ A) \in Nat
    <3>1. A \in SUBSET Seqs /\ W \ A \in SUBSET Seqs
      BY <2>4
    <3>. QED BY <3>1, FiniteMessages
  <2>. QED BY <1>6, <2>2, <2>3, <2>5, <2>6
<1>12. CASE A = {} /\ PageStop(P, K) = "none"
  <2>1. next' = MaxOf(P) + 1 /\ pc' = pc /\ outstanding' = 0
    BY <1>1, <1>5, <1>12 DEF Onward
  <2>2. MaxOf(P) \in P /\ \A k \in P : k <= MaxOf(P)
    BY <1>4, MaxIsGreatest
  <2>. DEFINE last == MaxOf(P)
  <2>8. last \in P /\ (\A k \in P : k <= last) /\ next' = last + 1
    BY <2>1, <2>2
  <2>. HIDE DEF last
  <2>9. last \in Nat /\ next <= last /\ next' \in Nat
    BY <1>15, <2>8
  <2>3. ASSUME NEW m \in Present PROVE ~(next' <= m /\ m <= high')
    <3>1. m \in Nat
      BY <1>6
    <3>2. m \in P => m <= last
      BY <2>8
    <3>3. next <= m /\ m <= high' => m \in P
      BY <1>7, <1>8
    <3>. QED BY <1>6, <2>8, <2>9, <3>1, <3>2, <3>3
  <2>4. Again' = {} /\ Pending' = {}
    BY <1>2, <2>3 DEF Again, Pending
  <2>5. Cardinality(Again') = 0 /\ Cardinality(Pending') = 0 /\ Cardinality(A) = 0
    BY <1>12, <2>4, FS_EmptySet
  <2>6. \A m \in Present : m <= high' => m < next'
    <3>. TAKE m \in Present
    <3>1. m \in Nat
      BY <1>6
    <3>. QED BY <1>6, <2>3, <2>9, <3>1
  <2>7. /\ Cardinality(Again') <= PageSize
        /\ Limit > 0 => taken' + Cardinality(Pending') <= Limit
    BY <1>6, <1>11, <2>5
  <2>. QED BY <1>2, <1>10, <1>12, <2>1, <2>4, <2>6, <2>7 DEF IncrementalInv
<1>13. CASE A = {} /\ PageStop(P, K) # "none"
  <2>1. pc' = "finished" /\ outstanding' = 0
    BY <1>1, <1>5, <1>13
  <2>2. ASSUME NEW m \in Present, m <= high' PROVE m \in storage' \cup skipped' \cup Exported'
    <3>1. CASE m < next
      BY <1>9, <3>1
    <3>2. CASE ~(m < next)
      <4>1. m \in Ahead
        BY <1>6, <1>7, <3>2
      <4>2. m \in processed \cup Reached(P, K)
        BY <1>8, <2>2, <4>1
      <4>. QED BY <1>4, <1>13, <4>2 DEF MemoryInv
    <3>. QED BY <3>1, <3>2
  <2>. QED BY <1>2, <2>1, <2>2 DEF IncrementalInv
<1>14. CASE A # {}
  <2>1. next' = outstanding' /\ pc' = pc /\ processed' = processed \cup (Reached(P, K) \ A)
    <3>1. next' = MinOf(A) /\ pc' = pc
      BY <1>1, <1>14 DEF Onward
    <3>2. outstanding' = MinOf(A) /\ processed' = processed \cup (Reached(P, K) \ A)
      BY <1>1, <1>14 DEF Mark, Kept
    <3>. QED BY <3>1, <3>2
  <2>2. next' \in P /\ next' \in Nat /\ next <= next' /\ outstanding' # 0
    <3>1. next' \in P
      BY <1>4, <1>5, <1>14, <2>1
    <3>2. next' \in Seqs /\ next' \in Nat /\ next <= next'
      BY <1>4, <1>15, <3>1
    <3>. QED BY <1>6, <2>1, <3>1, <3>2
  <2>3. ASSUME NEW m \in Present, next' <= m, m <= high' PROVE m \in P /\ m \in processed \cup Reached(P, K) /\ next <= m
    <3>1. next <= m
      BY <1>6, <2>2, <2>3
    <3>. QED BY <1>7, <1>8, <2>3, <3>1
  <2>4. Again' \subseteq P /\ Pending' \subseteq A
    BY <1>2, <2>1, <2>3 DEF Again, Pending
  <2>5. Cardinality(Again') <= PageSize
    <3>1. /\ Cardinality(Again') <= Cardinality(P) /\ Cardinality(P) \in Nat /\ Cardinality(Again') \in Nat
      BY <1>4, <2>4, CountOfPart
    <3>2. Cardinality(P) <= PageSize
      BY <1>1 DEF IsPage
    <3>. QED BY <1>6, <3>1, <3>2
  <2>6. Limit > 0 => taken' + Cardinality(Pending') <= Limit
    <3>1. A \subseteq Seqs
      BY <1>4
    <3>2. Cardinality(Pending') <= Cardinality(A) /\ Cardinality(Pending') \in Nat
      BY <2>4, <3>1, CountOfPart
    <3>. QED BY <1>6, <1>11, <3>2
  <2>7. StopAtStart => Pending' \cap fresh = {}
    <3>1. ASSUME StopAtStart, NEW m \in A PROVE m \notin fresh
      <4>1. m \in Candidates(P) /\ m \notin K /\ m \in Nat /\ \A b \in Breaks(P, K) : m < b
        BY <1>4, <1>6 DEF Reached
      <4>2. m \notin Breaks(P, K)
        BY <4>1
      <4>. QED BY <3>1, <4>1, <4>2 DEF Breaks
    <3>. QED BY <2>4, <3>1
  <2>8. rows' \cap Again' \subseteq processed'
    <3>. SUFFICES ASSUME NEW m \in rows', m \in Again' PROVE m \in processed'
      OBVIOUS
    <3>1. CASE m \in Reached(P, K) \ A
      BY <2>1, <3>1
    <3>2. CASE m \in rows
      <4>1. m <= high
        BY <1>2, <3>2 DEF MemoryInv, Running, Exported
      <4>2. m \in Present /\ next <= m
        BY <1>2, <2>3 DEF Again
      <4>. QED BY <1>2, <2>1, <3>2, <4>1, <4>2 DEF IncrementalInv, Again
    <3>. QED BY <1>4, <3>1, <3>2
  <2>9. \A m \in Present : m <= outstanding' - 1 => m < next'
    <3>. TAKE m \in Present
    <3>1. m \in Nat
      BY <1>6
    <3>2. \A n \in Nat : m <= n - 1 => m < n
      BY <3>1
    <3>. QED BY <2>1, <2>2, <3>2
  <2>. QED BY <1>2, <1>10, <1>14, <2>1, <2>2, <2>5, <2>6, <2>7, <2>8, <2>9 DEF IncrementalInv
<1>. QED BY <1>12, <1>13, <1>14

\* Every step keeps what an incremental fetch has exported, and what waits.
LEMMA IncrementalStep ==
    ASSUME TypeOK, ModeInv, ArrivalInv, MemoryInv, IncrementalInv, CursorIsSafe, ~ShortPages, [Next]_vars
    PROVE  IncrementalInv'
<1>. SUFFICES ASSUME Incremental', pc' \in {"page", "finished"} PROVE IncrementalInv'
  BY DEF IncrementalInv
<1>0. /\ Seqs \subseteq Nat /\ PageSize \in Nat /\ Limit \in Nat /\ next \in Nat /\ high \in Nat /\ outstanding \in Nat
      /\ taken \in Nat /\ cursor \in Nat /\ Present \subseteq Seqs
  <2>1. Seqs \subseteq Nat /\ PageSize \in Nat /\ Limit \in Nat
    BY PeekAssumption
  <2>. QED BY <2>1 DEF Present, TypeOK
<1>1. ASSUME UNCHANGED <<storage, skipped, rows, passed, next, outstanding, high, processed, taken, fetch>>,
             pc \in {"page", "finished"}, pc' = "page" => pc = "page", fresh' \cap Present \subseteq fresh,
             \A m \in Present' : m \in Present \/ (next <= m /\ high < m /\ outstanding < m)
      PROVE  IncrementalInv'
  <2>1. ASSUME NEW m \in Present', m < next \/ m <= high \/ m <= outstanding PROVE m \in Present
    <3>. SUFFICES ASSUME next <= m, high < m, outstanding < m PROVE m \in Nat => FALSE
      <4>1. Present' \subseteq Seqs
        <5>1. TypeOK'
          BY TypeStep
        <5>. QED BY <5>1 DEF Present, TypeOK
      <4>. QED BY <1>0, <1>1, <4>1
    <3>. QED BY <1>0, <2>1
  <2>2. Again' \subseteq Again /\ Pending' \subseteq Pending /\ Again \subseteq Seqs /\ Pending \subseteq Seqs
    BY <1>0, <1>1, <2>1 DEF Again, Pending
  <2>3. /\ Cardinality(Again') <= Cardinality(Again) /\ Cardinality(Again') \in Nat /\ Cardinality(Again) \in Nat
        /\ Cardinality(Pending') <= Cardinality(Pending) /\ Cardinality(Pending') \in Nat /\ Cardinality(Pending) \in Nat
    BY <2>2, CountOfPart
  <2>4. Incremental /\ Exported' = Exported
    BY <1>1 DEF Incremental, Exported
  <2>5. ASSUME pc' = "page"
        PROVE  /\ \A m \in Present' : m < next' => m \in storage' \cup skipped' \cup Exported'
               /\ outstanding' # 0 => outstanding' = next'
               /\ rows' \cap Again' \subseteq processed'
               /\ StopAtStart => Pending' \cap fresh' = {}
    <3>1. pc = "page"
      BY <1>1, <2>5
    <3>2. Pending' \cap fresh' \subseteq Pending \cap fresh
      BY <1>1, <2>2 DEF Pending, Again
    <3>. QED BY <1>1, <2>1, <2>2, <2>4, <3>1, <3>2 DEF IncrementalInv
  <2>6. ASSUME pc' = "page"
        PROVE  /\ Cardinality(Again') <= PageSize
               /\ Limit > 0 => taken' + Cardinality(Pending') <= Limit
    <3>1. Cardinality(Again) <= PageSize /\ (Limit > 0 => taken + Cardinality(Pending) <= Limit)
      BY <1>1, <2>4, <2>6 DEF IncrementalInv
    <3>. QED BY <1>0, <1>1, <2>3, <3>1
  <2>7. ASSUME NEW m \in Present', m <= (IF outstanding' # 0 THEN outstanding' - 1 ELSE high')
        PROVE  m \in storage' \cup skipped' \cup Exported'
    <3>1. m \in Nat
      <4>1. TypeOK'
        BY TypeStep
      <4>. QED BY <1>0, <4>1 DEF Present, TypeOK
    <3>2. m <= outstanding \/ m <= high
      BY <1>0, <1>1, <2>7, <3>1
    <3>3. m \in Present
      BY <2>1, <3>2
    <3>. QED BY <1>1, <2>4, <2>7, <3>3 DEF IncrementalInv
  <2>. QED BY <2>5, <2>6, <2>7 DEF IncrementalInv
<1>2. CASE StartRun
  <2>1. /\ pc' = "page" /\ next' = cursor + 1 /\ high' = 0 /\ outstanding' = 0 /\ rows' = {} /\ taken' = 0
        /\ UNCHANGED <<cursor, storage, skipped, arrived, gone>>
    BY <1>2 DEF StartRun, FreshPager, Incremental, durable, world
  <2>2. \A m \in Present' : m \in Present /\ m \in Nat /\ 0 < m
    BY <2>1, PeekAssumption DEF Present, TypeOK
  <2>3. Again' = {} /\ Pending' = {}
    BY <2>1, <2>2 DEF Again, Pending
  <2>4. Cardinality(Again') = 0 /\ Cardinality(Pending') = 0
    BY <2>3, FS_EmptySet
  <2>5. ASSUME NEW m \in Present', m < next' \/ m <= 0 PROVE m \in storage' \cup skipped'
    <3>1. m <= cursor
      BY <1>0, <2>1, <2>2, <2>5
    <3>. QED BY <2>1, <2>2, <3>1 DEF CursorIsSafe
  <2>6. Cardinality(Again') <= PageSize /\ (Limit > 0 => taken' + Cardinality(Pending') <= Limit)
    BY <1>0, <2>1, <2>4
  <2>. QED BY <2>1, <2>3, <2>5, <2>6 DEF IncrementalInv
<1>3. CASE PeekPage
  <2>1. Incremental
    BY <1>3 DEF PeekPage, Incremental
  <2>. QED BY <1>3, <2>1, IncrementalPage
<1>4. CASE StopNow \/ EndOfEntity \/ ConnectionFails
  <2>1. /\ UNCHANGED <<storage, skipped, rows, passed, next, outstanding, high, processed, taken, fetch, fresh, arrived, gone,
                       kind>>
        /\ pc \in {"page", "accept", "session"} /\ pc' \in {"finished", "page"}
    BY <1>4 DEF StopNow, EndOfEntity, ConnectionFails, Finished, Peeking, Paging, world, durable, run, paging, marks, output
  <2>2. pc = "page"
    BY <2>1 DEF ModeInv, Incremental
  <2>. QED BY <1>1, <2>1, <2>2 DEF Present
<1>5. CASE RevealPartitions \/ PageRaises \/ SessionDone \/ SessionLost \/ JobSucceeds \/ JobFails
  BY <1>5 DEF RevealPartitions, Paging, run, Incremental, PageRaises, SessionDone, SessionLost, JobSucceeds, JobFails
<1>6. CASE AcceptSession \/ NoMoreSessions \/ PeekSession
  <2>1. pc \in {"accept", "session"} /\ fetch' = fetch
    BY <1>6 DEF AcceptSession, NoMoreSessions, PeekSession, Accepting
  <2>. QED BY <2>1 DEF ModeInv, Incremental
<1>7. CASE Arrives
  <2>1. PICK m \in Seqs \ arrived : arrived' = arrived \cup {m} /\ fresh' \subseteq fresh \cup {m}
    BY <1>7 DEF Arrives
  <2>2. UNCHANGED <<storage, skipped, rows, passed, next, outstanding, high, processed, taken, fetch, pc, gone>>
    BY <1>7 DEF Arrives, durable, paging, marks, output
  <2>3. Present' \subseteq Present \cup {m} /\ fresh' \cap Present \subseteq fresh
    BY <2>1, <2>2 DEF Present
  <2>. QED BY <1>1, <2>1, <2>2, <2>3 DEF ArrivalInv
<1>8. CASE Leaves \/ OthersMove \/ SessionRefused \/ DeadlinePasses \/ HeldSessionLapses \/ UNCHANGED vars
  <2>1. /\ UNCHANGED <<storage, skipped, rows, passed, next, outstanding, high, processed, taken, fetch, fresh, arrived, pc>>
        /\ gone \subseteq gone'
    BY <1>8 DEF Leaves, OthersMove, SessionRefused, DeadlinePasses, HeldSessionLapses, vars, world, durable, run, paging,
                marks, output
  <2>. QED BY <1>1, <2>1 DEF Present
<1>. QED BY <1>2, <1>3, <1>4, <1>5, <1>6, <1>7, <1>8 DEF Next, Pages, Visits, Platform, World

\* Every step keeps the cursor before what is not imported.
LEMMA CursorStep ==
    ASSUME TypeOK, ArrivalInv, IncrementalInv, CursorIsSafe, [Next]_vars
    PROVE  CursorIsSafe'
<1>0. Seqs \subseteq Nat /\ cursor \in Nat /\ high \in Nat /\ outstanding \in Nat /\ Present \subseteq Seqs
  <2>1. Seqs \subseteq Nat
    BY PeekAssumption
  <2>. QED BY <2>1 DEF Present, TypeOK
<1>1. CASE JobSucceeds
  <2>1. /\ Present' = Present /\ pc = "finished"
        /\ storage' \cup skipped' = storage \cup skipped \cup Exported
        /\ cursor' = IF Incremental THEN NewCursor ELSE cursor
    BY <1>1 DEF JobSucceeds, world, Present, Exported
  <2>2. ASSUME NEW m \in Present, m <= cursor' PROVE m \in storage \cup skipped \cup Exported
    <3>1. CASE m <= cursor
      BY <3>1 DEF CursorIsSafe
    <3>2. CASE ~(m <= cursor)
      <4>1. Incremental /\ m <= NewCursor /\ NewCursor # cursor
        BY <2>1, <2>2, <3>2
      <4>2. m <= (IF outstanding # 0 THEN outstanding - 1 ELSE high)
        <5>1. m \in Nat /\ NewCursor = (IF outstanding # 0 /\ outstanding <= high THEN outstanding - 1 ELSE high)
          BY <1>0, <4>1 DEF NewCursor
        <5>. QED BY <1>0, <4>1, <5>1
      <4>. QED BY <2>1, <4>1, <4>2 DEF IncrementalInv
    <3>. QED BY <3>1, <3>2
  <2>. QED BY <2>1, <2>2 DEF CursorIsSafe
<1>2. CASE Arrives
  <2>1. PICK m \in Seqs \ arrived : arrived' = arrived \cup {m}
    BY <1>2 DEF Arrives
  <2>2. UNCHANGED <<storage, skipped, cursor, gone>>
    BY <1>2 DEF Arrives, durable
  <2>3. Present' \subseteq Present \cup {m} /\ ~(m <= cursor)
    <3>1. cursor < m /\ m \in Nat
      BY <1>0, <2>1 DEF ArrivalInv
    <3>. QED BY <1>0, <2>1, <2>2, <3>1 DEF Present
  <2>. QED BY <2>2, <2>3 DEF CursorIsSafe
<1>3. CASE ~JobSucceeds /\ ~Arrives
  <2>1. UNCHANGED <<storage, skipped, cursor, arrived>> /\ gone \subseteq gone'
    BY <1>3 DEF Next, Pages, Visits, Platform, World, StartRun, StopNow, ConnectionFails, EndOfEntity, RevealPartitions,
                PeekPage, PageRaises, AcceptSession, NoMoreSessions, SessionRefused, SessionLost, SessionDone, PeekSession,
                JobFails, Leaves, OthersMove, DeadlinePasses, HeldSessionLapses, vars, world, durable
  <2>. QED BY <2>1 DEF CursorIsSafe, Present
<1>. QED BY <1>1, <1>2, <1>3

\* No page writes a row for a message that has one.
LEMMA OncePerRun ==
    ASSUME TypeOK, ModeInv, MemoryInv, FullInv, IncrementalInv, NoRowTwice, [Next]_vars
    PROVE  NoRowTwice'
<1>1. ASSUME pc \in {"page", "session"},
             NEW P, NEW K, NEW U, NEW A, P \subseteq Ahead, A \subseteq U, Exports(P, K, U, A)
      PROVE  NoRowTwice'
  <2>1. /\ twice' \subseteq twice \cup (rows \cap (Reached(P, K) \ A)) /\ Reached(P, K) \subseteq P \ processed
        /\ P \subseteq Present
    BY <1>1, PageExports
  <2>2. Running
    BY <1>1 DEF Running
  <2>3. ASSUME NEW m \in rows, m \in Reached(P, K) PROVE FALSE
    <3>1. CASE ~Incremental
      BY <2>1, <2>2, <2>3, <3>1 DEF FullInv
    <3>2. CASE Incremental
      <4>1. pc = "page" /\ ~byCursor
        BY <1>1, <3>2 DEF ModeInv
      <4>2. m \in Present /\ next <= m
        BY <1>1, <2>1, <2>3, <4>1 DEF Ahead
      <4>3. m <= high
        BY <2>2 DEF MemoryInv, Exported
      <4>4. m \in processed
        BY <3>2, <4>1, <4>2, <4>3 DEF IncrementalInv, Again
      <4>. QED BY <2>1, <2>3, <4>4
    <3>. QED BY <3>1, <3>2
  <2>. QED BY <2>1, <2>3 DEF NoRowTwice
<1>2. CASE PeekPage
  <2>1. PICK P, K, U, A : P \subseteq Ahead /\ A \subseteq U /\ Exports(P, K, U, A)
    BY <1>2 DEF PeekPage
  <2>2. pc = "page"
    BY <1>2 DEF PeekPage, Paging
  <2>. QED BY <1>1, <2>1, <2>2
<1>3. CASE PageRaises
  <2>1. PICK P, K, U, A : P \subseteq Ahead /\ A \subseteq U /\ Exports(P, K, U, A)
    BY <1>3, Zenon DEF PageRaises
  <2>2. pc \in {"page", "session"}
    BY <1>3 DEF PageRaises
  <2>. QED BY <1>1, <2>1, <2>2
<1>4. CASE PeekSession
  <2>1. PICK P, K, U : P \subseteq Ahead /\ Exports(P, K, U, {})
    BY <1>4 DEF PeekSession
  <2>2. pc = "session"
    BY <1>4 DEF PeekSession
  <2>. QED BY <1>1, <2>1, <2>2
<1>5. CASE StartRun \/ JobSucceeds \/ JobFails
  BY <1>5 DEF StartRun, JobSucceeds, JobFails, FreshPager, NoRowTwice
<1>6. CASE ~PeekPage /\ ~PageRaises /\ ~PeekSession /\ ~(StartRun \/ JobSucceeds \/ JobFails)
  BY <1>6 DEF Next, Pages, Visits, Platform, World, StopNow, ConnectionFails, EndOfEntity, RevealPartitions,
              AcceptSession, NoMoreSessions, SessionRefused, SessionLost, SessionDone, Arrives, Leaves, OthersMove,
              DeadlinePasses, HeldSessionLapses, vars, output, NoRowTwice
<1>. QED BY <1>2, <1>3, <1>4, <1>5, <1>6

IncrementalFacts == IncrementalInv /\ CursorIsSafe /\ NoRowTwice

\* What an incremental fetch relies on holds throughout, if pages are full.
LEMMA IncrementalInvariant == ASSUME ~ShortPages PROVE Spec => []IncrementalFacts
<1>1. Init => IncrementalFacts
  <2>. SUFFICES ASSUME Init PROVE IncrementalFacts
    OBVIOUS
  <2>1. \A m \in Present : ~(m <= 0)
    BY PeekAssumption DEF Init, Present
  <2>. QED BY <2>1 DEF Init, IncrementalFacts, IncrementalInv, CursorIsSafe, NoRowTwice
<1>2. PagerInv /\ IncrementalFacts /\ [Next]_vars => IncrementalFacts'
  BY IncrementalStep, CursorStep, OncePerRun DEF PagerInv, IncrementalFacts
<1>. QED BY <1>1, <1>2, PagerInvariant, PTL DEF Spec

\* If a page that is not the last is full, the stored cursor never passes a
\* message whose row no successful job imported or passed over: through re-peeks,
\* stops, recoveries, failed jobs, arrivals and other consumers.
THEOREM CursorNeverSkips == ASSUME ~ShortPages PROVE Spec => []CursorIsSafe
<1>1. IncrementalFacts => CursorIsSafe
  BY DEF IncrementalFacts
<1>. QED BY <1>1, IncrementalInvariant, PTL

\* If a page that is not the last is full, a run writes each message once.
THEOREM RowsAreWrittenOnce == ASSUME ~ShortPages PROVE Spec => []NoRowTwice
<1>1. IncrementalFacts => NoRowTwice
  BY DEF IncrementalFacts
<1>. QED BY <1>1, IncrementalInvariant, PTL
=============================================================================
