---------------------------- MODULE ActionsProofs ----------------------------
(***************************************************************************)
(* Proofs about Actions, for any rows, any errors however linked (circles   *)
(* included) and any subset of them raised by each call.                    *)
(***************************************************************************)
EXTENDS Actions, InductionLemmas, TLAPS, SequenceTheorems

(***************************************************************************)
(* The two threads.  The worker hands over once and is done then, so what   *)
(* the caller reads after it woke up is either the worker's last word or    *)
(* nothing although the deadline passed.                                    *)
(***************************************************************************)

Timeout == Reply("error", "timeout")

\* What a worker may hand over, given the calls that were answered.
IsOutcome(o, answered) ==
    \E kind, why : /\ o = <<Reply(kind, why)>> /\ why # "timeout"
                   /\ kind = "success" => answered # {}

WorkerHandsOverOnce == outcome = <<>> \/ (pc = "done" /\ IsOutcome(outcome, succeeded))

CallerIsRight ==
    /\ early => outcome # <<>>
    /\ caller = "joining" /\ ~deadline => ~early
    /\ caller = "woken" => outcome # <<>> \/ (deadline /\ ~early)
    /\ caller # "replied" => reply = <<>>
    /\ caller = "replied" => \/ reply = Timeout /\ deadline /\ ~early
                             \/ outcome = <<reply>>

ThreadsInv == WorkerHandsOverOnce /\ CallerIsRight

\* No error is reported with the words of a timeout.
LEMMA MessageIsNoTimeout ==
    ASSUME NEW e
    PROVE  Message(e) # "timeout"
BY DEF Message

\* Neither is a rejection.
LEMMA RejectionIsNoTimeout == Rejection # "timeout"
BY DEF Rejection, None

\* A step of the worker, or of a run, leaves the calling thread alone and hands
\* over at most once, as its last step.
LEMMA WorkerStep ==
    ASSUME Worker \/ Run
    PROVE  /\ UNCHANGED <<call, caller, deadline, reply, early>> /\ pc # "done"
           /\ succeeded \subseteq succeeded'
           /\ outcome' = outcome \/ (pc' = "done" /\ IsOutcome(outcome', succeeded'))
<1>0. ASSUME NEW kind, NEW why, HandsOver(kind, why), why # "timeout",
             kind = "success" => succeeded' # {}
      PROVE  pc' = "done" /\ IsOutcome(outcome', succeeded')
  BY <1>0 DEF HandsOver, IsOutcome
<1>1. CASE BeginRejected
  <2>1. HandsOver("error", Rejection)
    BY <1>1 DEF BeginRejected
  <2>. QED BY <1>0, <1>1, <2>1, RejectionIsNoTimeout DEF BeginRejected
<1>2. CASE Begin
  BY <1>2 DEF Begin, Step
<1>3. CASE ManagementReads
  <2>1. HandsOver(IF ListAction THEN "list" ELSE "success", "management") /\ succeeded' # {}
    BY <1>3 DEF ManagementReads
  <2>. QED BY <1>0, <1>3, <2>1 DEF ManagementReads
<1>4. ASSUME NEW from, NEW e, Raises(from, e), from # "done"
      PROVE  /\ UNCHANGED <<call, caller, deadline, reply, early>> /\ pc # "done"
             /\ succeeded \subseteq succeeded'
             /\ outcome' = outcome \/ (pc' = "done" /\ IsOutcome(outcome', succeeded'))
  <2>1. outcome' = outcome \/ HandsOver("error", "unexpected")
    BY <1>4 DEF Raises
  <2>. QED BY <1>0, <1>4, <2>1 DEF Raises
<1>5. CASE ManagementRaises
  BY <1>4, <1>5 DEF ManagementRaises
<1>6. CASE Hangs
  BY <1>6 DEF Hangs
<1>7. CASE WalkLinks
  BY <1>7 DEF WalkLinks
<1>8. CASE ReportError
  <2>1. PICK why : why \in {"type the name", Message(error)} /\ HandsOver("error", why)
    BY <1>8 DEF ReportError
  <2>. QED BY <1>0, <1>8, <2>1, MessageIsNoTimeout DEF ReportError, Walked
<1>9. CASE NoEntityToProbe
  <2>1. HandsOver("warning", "not verified") \/ HandsOver("error", "management denied")
    BY <1>9 DEF NoEntityToProbe
  <2>. QED BY <1>0, <1>9, <2>1 DEF NoEntityToProbe, Walked
<1>10. CASE ProbeEntityInstead
  BY <1>10 DEF ProbeEntityInstead, Walked
<1>11. CASE PeekRefused
  <2>1. HandsOver("error", "other entity")
    BY <1>11 DEF PeekRefused
  <2>. QED BY <1>0, <1>11, <2>1 DEF PeekRefused
<1>12. CASE PeekReads
  <2>1. PICK kind : HandsOver(kind, "peek")
    BY <1>12 DEF PeekReads, Peeked
  <2>. QED BY <1>0, <1>12, <2>1 DEF PeekReads
<1>13. CASE PeekFindsNoSession
  <2>1. PICK kind : HandsOver(kind, "peek") /\ kind # "success"
    BY <1>13 DEF PeekFindsNoSession, Peeked
  <2>. QED BY <1>0, <1>13, <2>1 DEF PeekFindsNoSession
<1>14. CASE PeekRaises
  BY <1>4, <1>14 DEF PeekRaises
<1>15. CASE RunRejected
  <2>1. HandsOver("error", "row")
    BY <1>15 DEF RunRejected
  <2>. QED BY <1>0, <1>15, <2>1 DEF RunRejected
<1>16. CASE RunBegins
  BY <1>16 DEF RunBegins, Step
<1>17. ASSUME NEW known, LoadEntityInfo(known)
       PROVE  /\ UNCHANGED <<call, caller, deadline, reply, early>> /\ pc # "done"
              /\ succeeded \subseteq succeeded'
              /\ outcome' = outcome \/ (pc' = "done" /\ IsOutcome(outcome', succeeded'))
  <2>1. outcome' = outcome \/ HandsOver("error", "sessions")
    BY <1>17 DEF LoadEntityInfo
  <2>. QED BY <1>0, <1>17, <2>1 DEF LoadEntityInfo
<1>18. CASE RunReadsMetadata \/ RunHasNoMetadata
  BY <1>17, <1>18 DEF RunReadsMetadata, RunHasNoMetadata
<1>. QED
  BY <1>1, <1>2, <1>3, <1>5, <1>6, <1>7, <1>8, <1>9, <1>10, <1>11, <1>12, <1>13, <1>14, <1>15,
     <1>16, <1>18 DEF Worker, Run

\* The invariant of the two threads is inductive.
LEMMA ThreadsInvariant == Spec => []ThreadsInv
<1>1. Init => ThreadsInv
  BY DEF Init, ThreadsInv, WorkerHandsOverOnce, CallerIsRight
<1>2. ASSUME ThreadsInv, [Next]_vars PROVE ThreadsInv'
  <2>1. CASE Worker \/ Run
    <3>1. /\ UNCHANGED <<caller, deadline, reply, early>> /\ pc # "done"
          /\ outcome' = outcome \/ (pc' = "done" /\ IsOutcome(outcome', succeeded'))
      BY <2>1, WorkerStep
    <3>2. outcome = <<>>
      BY <1>2, <3>1 DEF ThreadsInv, WorkerHandsOverOnce
    <3>3. IsOutcome(outcome', succeeded') => outcome' # <<>>
      BY DEF IsOutcome
    <3>4. WorkerHandsOverOnce'
      BY <3>1, <3>2 DEF WorkerHandsOverOnce
    <3>5. CallerIsRight'
      BY <1>2, <3>1, <3>2, <3>3 DEF ThreadsInv, CallerIsRight
    <3>. QED BY <3>4, <3>5 DEF ThreadsInv
  <2>2. CASE DeadlinePasses
    BY <1>2, <2>2 DEF DeadlinePasses, ThreadsInv, WorkerHandsOverOnce, CallerIsRight
  <2>3. CASE JoinReturns
    BY <1>2, <2>3 DEF JoinReturns, ThreadsInv, WorkerHandsOverOnce, CallerIsRight
  <2>4. CASE Replies
    <3>1. outcome # <<>> => outcome = <<outcome[1]>>
      BY <1>2 DEF ThreadsInv, WorkerHandsOverOnce, IsOutcome
    <3>2. UNCHANGED <<outcome, pc, succeeded, deadline, early>> /\ caller = "woken"
          /\ caller' = "replied" /\ reply' = HandBack
      BY <2>4 DEF Replies
    <3>. QED BY <1>2, <3>1, <3>2 DEF HandBack, Timeout, ThreadsInv, WorkerHandsOverOnce, CallerIsRight
  <2>5. CASE UNCHANGED vars
    BY <1>2, <2>5 DEF vars, ThreadsInv, WorkerHandsOverOnce, CallerIsRight
  <2>. QED BY <1>2, <2>1, <2>2, <2>3, <2>4, <2>5 DEF Next, Caller
<1>. QED BY <1>1, <1>2, PTL DEF Spec

\* A result that arrived in time is never reported as a timeout, and a late one
\* that the caller still sees is handed back as it is.
THEOREM ResultsAreHandedBack == Spec => []OutcomeIsHandedBack
<1>1. ThreadsInv => OutcomeIsHandedBack
  <2>. SUFFICES ASSUME ThreadsInv, caller = "replied", outcome = <<reply>>
                PROVE  reply # Timeout
    BY DEF ThreadsInv, CallerIsRight, OutcomeIsHandedBack, Timeout
  <2>1. PICK kind, why : <<reply>> = <<Reply(kind, why)>> /\ why # "timeout"
    BY DEF ThreadsInv, WorkerHandsOverOnce, IsOutcome
  <2>. QED BY <2>1 DEF Reply, Timeout
<1>. QED BY <1>1, ThreadsInvariant, PTL

\* Whatever the errors and the deadline do, testConnection says SUCCESS only of a
\* namespace or an entity that was read.
THEOREM SuccessMeansRead == Spec => []SuccessIsReal
<1>1. ThreadsInv => SuccessIsReal
  <2>. SUFFICES ASSUME ThreadsInv, reply # <<>>, reply[1] = "success" PROVE succeeded # {}
    BY DEF SuccessIsReal
  <2>1. reply # Timeout
    BY DEF Timeout, Reply
  <2>2. outcome = <<reply>>
    BY <2>1 DEF ThreadsInv, CallerIsRight
  <2>3. PICK kind, why : <<reply>> = <<Reply(kind, why)>> /\ (kind = "success" => succeeded # {})
    BY <2>2 DEF ThreadsInv, WorkerHandsOverOnce, IsOutcome
  <2>. QED BY <2>3 DEF Reply
<1>. QED BY <1>1, ThreadsInvariant, PTL

(***************************************************************************)
(* The start of a run.                                                     *)
(***************************************************************************)

\* A run past the validators has a valid row, and past _check_sessions the
\* entity's Sessions setting as far as the metadata tell.
RunInv ==
    /\ params \in Rows /\ requiresSession \in BOOLEAN
    /\ pc = "management" /\ ~Sync => RowIsValid(params)
    /\ info \in {"unknown", IF requiresSession THEN "yes" ELSE "no"}
    /\ pc = "running" => RowIsValid(params) /\ ~SessionsMismatch(info)

\* A valid row, normalised, is one the other models assume.
LEMMA ValidRowIsSafe ==
    ASSUME NEW p, IsParameters(p), RowIsValid(p)
    PROVE  LET row == Normalised(p) IN
           /\ row.mode = "receive_and_delete" => row.prefetch = 1
           /\ row.mode = "peek" /\ row.fetchMode = "incremental_fetch" => ~row.sessionEnabled /\ ~row.subQueue
           /\ row.subQueue => ~row.sessionEnabled
           /\ row.subQueue = p.subQueue /\ row.sessionEnabled \in BOOLEAN
<1>. DEFINE row == Normalised(p)
<1>1. p \in ParameterSets
  BY DEF IsParameters
<1>2. /\ NormaliseSource(p) \in ParameterSets /\ NormaliseSource(p).subQueue = p.subQueue
      /\ NormaliseSource(p).sessionEnabled = (p.sessionEnabled /\ ~p.subQueue)
  <2>0. (p.sessionEnabled /\ ~p.subQueue) \in BOOLEAN /\ p.fetchMode \in {"incremental_fetch", "full_fetch"}
    BY <1>1 DEF ParameterSets
  <2>1. NormaliseSource(p) \in ParameterSets
    BY <1>1, <2>0, ZenonT(40) DEF ParameterSets, NormaliseSource
  <2>2. NormaliseSource(p).subQueue = p.subQueue
    BY <1>1 DEF ParameterSets, NormaliseSource
  <2>3. NormaliseSource(p).sessionEnabled = (p.sessionEnabled /\ ~p.subQueue)
    BY <1>1, Zenon DEF ParameterSets, NormaliseSource
  <2>. QED BY <2>1, <2>2, <2>3
<1>3. /\ row \in ParameterSets /\ row.subQueue = p.subQueue
      /\ row.sessionEnabled = NormaliseSource(p).sessionEnabled
  BY <1>2 DEF ParameterSets, ApplyAdvancedGate, Normalised
<1>4. ~RefuseUnsafe(row)
  BY DEF RowIsValid
<1>. HIDE DEF row
<1>5. row.prefetch \in Nat \ {0} /\ row.sessionEnabled \in BOOLEAN
  BY <1>3 DEF ParameterSets
<1>6. row.subQueue => ~row.sessionEnabled
  BY <1>2, <1>3
<1>. QED BY <1>3, <1>4, <1>5, <1>6 DEF RefuseUnsafe, row

\* A run starts to consume only with a row that is safe for its mode, without
\* sessions on a sub-queue, and with the entity's own Sessions setting.
THEOREM AcceptedRowsAreSafe == Spec => []AcceptedIsSafe
<1>1. Init => RunInv
  BY DEF Init, RunInv
<1>2. ASSUME RunInv, [Next]_vars PROVE RunInv'
  <2>1. CASE Worker
    <3>1. UNCHANGED <<call, info>> /\ pc' # "running" /\ (pc' = "management" => Sync)
      BY <1>2, <2>1 DEF Worker, BeginRejected, Begin, ManagementReads, ManagementRaises, Hangs, WalkLinks,
         ReportError, NoEntityToProbe, ProbeEntityInstead, PeekRefused, PeekReads, PeekFindsNoSession,
         PeekRaises, Raises, HandsOver, Step, Peeked, Walked, RunInv
    <3>. QED BY <1>2, <3>1 DEF RunInv, call, Sync
  <2>2. CASE Caller
    BY <1>2, <2>2 DEF Caller, DeadlinePasses, JoinReturns, Replies, RunInv, call, Sync, SessionsMismatch, Row
  <2>3. CASE RunRejected \/ RunBegins
    BY <1>2, <2>3 DEF RunRejected, RunBegins, Step, HandsOver, RunInv, call, Sync
  <2>4. ASSUME NEW known, known \in {"unknown", IF requiresSession THEN "yes" ELSE "no"}, LoadEntityInfo(known)
        PROVE  RunInv'
    BY <1>2, <2>4 DEF LoadEntityInfo, HandsOver, RunInv, call, Sync, SessionsMismatch, Row
  <2>5. CASE RunReadsMetadata \/ RunHasNoMetadata
    BY <2>4, <2>5 DEF RunReadsMetadata, RunHasNoMetadata
  <2>6. CASE UNCHANGED vars
    BY <1>2, <2>6 DEF vars, RunInv, call, Sync, SessionsMismatch, Row
  <2>. QED BY <1>2, <2>1, <2>2, <2>3, <2>5, <2>6 DEF Next, Run
<1>3. RunInv => AcceptedIsSafe
  <2>. SUFFICES ASSUME RunInv, pc = "running" PROVE AcceptedIsSafe
    BY DEF AcceptedIsSafe
  <2>1. IsParameters(params)
    BY ErrorsAssumption DEF RunInv
  <2>2. /\ Row.mode = "receive_and_delete" => Row.prefetch = 1
        /\ Row.mode = "peek" /\ Row.fetchMode = "incremental_fetch" => ~Row.sessionEnabled /\ ~Row.subQueue
        /\ Row.subQueue => ~Row.sessionEnabled
        /\ Row.subQueue = params.subQueue /\ Row.sessionEnabled \in BOOLEAN
    BY <2>1, ValidRowIsSafe DEF RunInv, Row
  <2>3. info = "unknown" \/ Row.sessionEnabled = EntityHasSessions
    <3>0. params.subQueue => ~Row.sessionEnabled /\ ~EntityHasSessions
      BY <2>2 DEF EntityHasSessions
    <3>. SUFFICES ASSUME info # "unknown", ~params.subQueue PROVE Row.sessionEnabled = EntityHasSessions
      BY <2>2, <3>0 DEF RunInv, EntityHasSessions
    <3>1. (info = "yes") = Row.sessionEnabled
      BY DEF RunInv, SessionsMismatch
    <3>2. (info = "yes") = requiresSession
      BY DEF RunInv
    <3>3. EntityHasSessions = requiresSession
      BY DEF RunInv, EntityHasSessions
    <3>. QED BY <3>1, <3>2, <3>3
  <2>. QED BY <2>2, <2>3 DEF AcceptedIsSafe
<1>. QED BY <1>1, <1>2, <1>3, PTL DEF Spec

(***************************************************************************)
(* The walk over linked errors.  It ends either at a failed token           *)
(* acquisition or with a set of errors closed under links that has none,    *)
(* and the error it started from is in that set.                            *)
(***************************************************************************)

LinksOf(e) == {Errors[e].links[i] : i \in DOMAIN Errors[e].links}
OnStack == {unvisited[i] : i \in DOMAIN unvisited}

\* An error outside a closed set without failed token acquisitions is all that
\* can be a wrapped one.
LEMMA ClosedSetHasNoTokenFailure ==
    /\ TokenFailures \subseteq ErrorIds
    /\ \A S \in SUBSET ErrorIds :
          (\A e \in S : ~Errors[e].token /\ LinksOf(e) \subseteq S) => S \cap TokenFailures = {}
<1>. DEFINE c == Cardinality(ErrorIds)
            tokens == {e \in ErrorIds : Errors[e].token}
            Linked(near) == {e \in ErrorIds : \E i \in DOMAIN Errors[e].links : Errors[e].links[i] \in near}
            Is(g, n) == g = [i \in 0..n |-> IF i = 0 THEN tokens ELSE g[i - 1] \cup Linked(g[i - 1])]
            undefined == {n \in 0..c : ~\E g : Is(g, n)}
            within == CHOOSE g : Is(g, c)
<1>0. c \in Nat /\ c \in 0..c
  <2>1. c \in Nat
    BY ErrorsAssumption, FS_CardinalityType
  <2>. QED BY <2>1
<1>1. ASSUME undefined # {} PROVE FALSE
  <2>1. undefined \subseteq Nat
    BY <1>0
  <2>2. PICK n \in undefined : \A k \in undefined : n <= k
    <3>. HIDE DEF undefined
    <3>. QED BY <1>1, <2>1, LeastNatural
  <2>3. n # 0
    <3>1. Is([i \in 0..0 |-> tokens], 0)
      OBVIOUS
    <3>. QED BY <2>2, <3>1
  <2>4. n \in 1..c /\ \E g : Is(g, n - 1)
    <3>. HIDE DEF Is, c
    <3>. QED BY <1>0, <2>2, <2>3
  <2>5. PICK g : Is(g, n - 1)
    BY <2>4
  <2>. DEFINE h == [i \in 0..n |-> IF i < n THEN g[i] ELSE g[n - 1] \cup Linked(g[n - 1])]
  <2>6. Is(h, n)
    <3>. HIDE DEF c
    <3>1. n \in Nat /\ n # 0 /\ n - 1 \in 0..(n - 1)
      BY <1>0, <2>4
    <3>2. \A i \in 0..(n - 1) : g[i] = IF i = 0 THEN tokens ELSE g[i - 1] \cup Linked(g[i - 1])
      <4>. HIDE DEF tokens, Linked
      <4>. QED BY <2>5
    <3>. HIDE DEF tokens, Linked
    <3>3. ASSUME NEW i \in 0..n
          PROVE  h[i] = IF i = 0 THEN tokens ELSE h[i - 1] \cup Linked(h[i - 1])
      <4>1. CASE i < n
        <5>1. i \in 0..(n - 1) /\ h[i] = g[i] /\ (i # 0 => i - 1 \in 0..n /\ h[i - 1] = g[i - 1])
          BY <3>1, <3>3, <4>1
        <5>. QED BY <3>2, <5>1
      <4>2. CASE i = n
        BY <3>1, <4>2
      <4>. QED BY <3>1, <3>3, <4>1, <4>2
    <3>. QED BY <3>3
  <2>. HIDE DEF h, Is
  <2>. QED BY <2>2, <2>6
<1>2. \E g : Is(g, c)
  <2>. HIDE DEF Is, c
  <2>1. c \notin undefined
    BY <1>1
  <2>. QED BY <1>0, <2>1
<1>3. Is(within, c)
  <2>. HIDE DEF Is
  <2>. QED BY <1>2
<1>4. TokenFailures = within[c]
  <2>1. TokenFailuresWithin = within
    BY DEF TokenFailuresWithin
  <2>. QED BY <2>1 DEF TokenFailures
<1>. HIDE DEF within, c
<1>5. ASSUME NEW S \in SUBSET ErrorIds, \A e \in S : ~Errors[e].token /\ LinksOf(e) \subseteq S,
             NEW n \in 0..c
      PROVE  within[n] \in SUBSET (ErrorIds \ S)
  <2>. DEFINE bad == {k \in 0..c : within[k] \notin SUBSET (ErrorIds \ S)}
  <2>1. ASSUME bad # {} PROVE FALSE
    <3>1. bad \subseteq Nat
      BY <1>0
    <3>2. PICK k \in bad : \A j \in bad : k <= j
      <4>. HIDE DEF bad
      <4>. QED BY <2>1, <3>1, LeastNatural
    <3>3. k # 0
      BY <1>0, <1>3, <1>5, <3>2
    <3>4. k \in 0..c /\ k \in 1..c /\ k - 1 \in 0..c /\ within[k - 1] \in SUBSET (ErrorIds \ S)
      BY <1>0, <3>2, <3>3
    <3>5. within[k] = within[k - 1] \cup Linked(within[k - 1])
      <4>1. \A i \in 0..c : within[i] = IF i = 0 THEN tokens ELSE within[i - 1] \cup Linked(within[i - 1])
        <5>. HIDE DEF Linked, tokens
        <5>. QED BY <1>3
      <4>. HIDE DEF Linked, tokens
      <4>. QED BY <3>3, <3>4, <4>1
    <3>6. Linked(within[k - 1]) \subseteq ErrorIds \ S
      BY <1>5, <3>4 DEF LinksOf
    <3>7. within[k] \in SUBSET (ErrorIds \ S)
      <4>. HIDE DEF Linked
      <4>. QED BY <3>4, <3>5, <3>6
    <3>. QED BY <3>2, <3>7
  <2>. QED BY <1>5, <2>1
<1>6. TokenFailures \subseteq ErrorIds
  <2>1. within[c] \in SUBSET (ErrorIds \ {})
    <3>1. {} \in SUBSET ErrorIds /\ \A e \in {} : ~Errors[e].token /\ LinksOf(e) \subseteq {}
      OBVIOUS
    <3>. QED BY <1>0, <1>5, <3>1
  <2>. QED BY <1>4, <2>1
<1>. QED BY <1>0, <1>4, <1>5, <1>6

WalkInv ==
    /\ error \in ErrorIds \cup {0}
    /\ pc \in {"begin", "management", "running"} => error = 0
    /\ pc = "linked" =>
          /\ error \in ErrorIds /\ token \in BOOLEAN
          /\ unvisited \in Seq(ErrorIds) /\ seen \subseteq ErrorIds
          /\ ~token => /\ \A e \in seen : ~Errors[e].token /\ LinksOf(e) \subseteq seen \cup OnStack
                       /\ error \in seen \cup OnStack
    /\ pc \in {"peek", "hung"} => error \notin TokenFailures
    /\ pc = "done" /\ error \in TokenFailures => outcome = <<Reply("error", "credentials rejected")>>

\* No error is not a wrapped one.
LEMMA NoErrorIsNoTokenFailure == 0 \notin TokenFailures
BY ErrorsAssumption, ClosedSetHasNoTokenFailure

\* What the walk found out is true of the error.
LEMMA WalkedIsRight ==
    ASSUME WalkInv, Walked, ~token
    PROVE  error \notin TokenFailures
<1>1. OnStack = {}
  BY DEF Walked, OnStack
<1>2. seen \in SUBSET ErrorIds /\ error \in seen
      /\ \A e \in seen : ~Errors[e].token /\ LinksOf(e) \subseteq seen
  BY <1>1 DEF WalkInv, Walked
<1>. QED BY <1>2, ClosedSetHasNoTokenFailure

\* One turn of the walk: what leaves the stack is yielded, was yielded before, or
\* ends the walk, and its links are on the stack.
LEMMA VisitStep ==
    ASSUME WalkInv, WalkLinks
    PROVE  WalkInv'
<1>. DEFINE n == Len(unvisited)
            last == unvisited[n]
            rest == SubSeq(unvisited, 1, n - 1)
<1>1. /\ pc = "linked" /\ unvisited # <<>> /\ Visit(last) /\ UNCHANGED <<outcome, pc, error>>
      /\ unvisited \in Seq(ErrorIds) /\ seen \subseteq ErrorIds /\ error \in ErrorIds /\ token \in BOOLEAN
  BY DEF WalkLinks, WalkInv
<1>2. n \in Nat \ {0} /\ last \in ErrorIds
  BY <1>1
<1>3. /\ rest \in Seq(ErrorIds) /\ Len(rest) = n - 1
      /\ \A i \in 1..(n - 1) : rest[i] = unvisited[i]
  <2>1. 1 \in Int /\ n - 1 \in Int /\ \A i \in 1..(n - 1) : unvisited[i] \in ErrorIds
    BY <1>1, <1>2
  <2>2. /\ rest \in Seq(ErrorIds)
        /\ Len(rest) = IF 1 <= n - 1 THEN (n - 1) - 1 + 1 ELSE 0
        /\ \A i \in 1..((n - 1) - 1 + 1) : rest[i] = unvisited[1 + i - 1]
    <3>. HIDE DEF n
    <3>. QED BY <2>1, SubSeqProperties
  <2>. HIDE DEF n, rest
  <2>. QED BY <1>2, <2>2
<1>. DEFINE below == {rest[i] : i \in DOMAIN rest}
<1>4. OnStack = below \cup {last}
  <2>1. DOMAIN unvisited = 1..n /\ DOMAIN rest = 1..(n - 1)
    BY <1>1, <1>3
  <2>2. \A i \in 1..n : i = n \/ i \in 1..(n - 1)
    BY <1>2
  <2>3. 1..(n - 1) \subseteq 1..n /\ n \in 1..n
    BY <1>2
  <2>. HIDE DEF n, rest
  <2>. QED BY <1>3, <2>1, <2>2, <2>3 DEF OnStack, n
<1>5. Errors[last].links \in Seq(ErrorIds)
  BY <1>2, ErrorsAssumption
<1>. HIDE DEF n, rest, last
<1>6. CASE last \in seen
  <2>1. unvisited' = rest /\ UNCHANGED <<seen, token>>
    BY <1>1, <1>6 DEF Visit, rest, n
  <2>2. OnStack' = below
    BY <2>1 DEF OnStack
  <2>. HIDE DEF below
  <2>. QED BY <1>1, <1>3, <1>4, <1>6, <2>1, <2>2 DEF WalkInv
<1>7. CASE last \notin seen /\ Errors[last].token
  <2>1. token' = TRUE /\ unvisited' = <<>> /\ UNCHANGED seen
    BY <1>1, <1>7 DEF Visit
  <2>. QED BY <1>1, <2>1 DEF WalkInv
<1>8. CASE last \notin seen /\ ~Errors[last].token
  <2>1. unvisited' = rest \o Errors[last].links /\ seen' = seen \cup {last} /\ UNCHANGED token
    BY <1>1, <1>8 DEF Visit, rest, n
  <2>2. unvisited' \in Seq(ErrorIds)
    BY <1>3, <1>5, <2>1
  <2>3. OnStack' = below \cup LinksOf(last)
    <3>. DEFINE l == Errors[last].links
    <3>1. /\ DOMAIN rest = 1..Len(rest) /\ DOMAIN l = 1..Len(l) /\ Len(rest) \in Nat /\ Len(l) \in Nat
          /\ DOMAIN (rest \o l) = 1..(Len(rest) + Len(l))
          /\ \A i \in 1..(Len(rest) + Len(l)) :
                (rest \o l)[i] = IF i <= Len(rest) THEN rest[i] ELSE l[i - Len(rest)]
      <4>1. rest \in Seq(ErrorIds) /\ l \in Seq(ErrorIds)
        BY <1>3, <1>5
      <4>2. /\ rest \o l \in Seq(ErrorIds) /\ Len(rest \o l) = Len(rest) + Len(l)
            /\ \A i \in 1..(Len(rest) + Len(l)) :
                  (rest \o l)[i] = IF i <= Len(rest) THEN rest[i] ELSE l[i - Len(rest)]
        <5>. HIDE DEF l
        <5>. QED BY <4>1, ConcatProperties, Zenon
      <4>. HIDE DEF l
      <4>. QED BY <4>1, <4>2
    <3>2. OnStack' = {(rest \o l)[i] : i \in DOMAIN (rest \o l)}
      BY <2>1 DEF OnStack
    <3>3. ASSUME NEW x \in OnStack' PROVE x \in below \cup LinksOf(last)
      <4>1. PICK i \in 1..(Len(rest) + Len(l)) : x = (rest \o l)[i]
        BY <3>1, <3>2, <3>3
      <4>2. CASE i <= Len(rest)
        BY <3>1, <4>1, <4>2
      <4>3. CASE i > Len(rest)
        <5>1. i - Len(rest) \in DOMAIN l /\ x = l[i - Len(rest)]
          BY <3>1, <4>1, <4>3
        <5>. QED BY <5>1 DEF LinksOf
      <4>. QED BY <3>1, <4>2, <4>3
    <3>4. ASSUME NEW i \in DOMAIN rest PROVE rest[i] \in OnStack'
      BY <3>1, <3>2, <3>4
    <3>5. ASSUME NEW i \in DOMAIN l PROVE l[i] \in OnStack'
      <4>1. /\ Len(rest) + i \in DOMAIN (rest \o l)
            /\ (rest \o l)[Len(rest) + i] = l[i]
        BY <3>1, <3>5
      <4>. QED BY <3>2, <4>1
    <3>. QED BY <3>3, <3>4, <3>5 DEF LinksOf
  <2>. HIDE DEF below
  <2>. QED BY <1>1, <1>2, <1>4, <1>8, <2>1, <2>2, <2>3 DEF WalkInv
<1>. QED BY <1>6, <1>7, <1>8

\* An error wrapping a failed token acquisition, at any depth and although errors
\* may be linked in circles, is reported as rejected credentials.
THEOREM TokenFailuresAreNamed == Spec => []TokenFailureIsNamed
<1>1. Init => WalkInv
  BY DEF Init, WalkInv
<1>2. ASSUME WalkInv, [Next]_vars PROVE WalkInv'
  <2>0. ASSUME UNCHANGED error, pc' \in {"peek", "hung", "done"}, error \notin TokenFailures
        PROVE  WalkInv'
    BY <1>2, <2>0 DEF WalkInv
  <2>00. pc \in {"begin", "management", "peek"} => error \notin TokenFailures
    BY <1>2, NoErrorIsNoTokenFailure DEF WalkInv
  <2>1. CASE BeginRejected \/ ManagementReads \/ Hangs \/ PeekRefused \/ PeekReads \/ PeekFindsNoSession
             \/ RunRejected
    <3>1. UNCHANGED error /\ pc' \in {"peek", "hung", "done"} /\ pc \in {"begin", "management", "peek"}
      BY <2>1 DEF BeginRejected, ManagementReads, Hangs, PeekRefused, PeekReads, PeekFindsNoSession, RunRejected,
                  HandsOver, Peeked, walk
    <3>. QED BY <2>0, <2>00, <3>1
  <2>2. CASE Begin \/ RunBegins
    BY <1>2, <2>2, NoErrorIsNoTokenFailure DEF Begin, RunBegins, Step, walk, WalkInv
  <2>3. ASSUME NEW from \in {"management", "peek"}, NEW e \in ErrorIds, Raises(from, e) PROVE WalkInv'
    <3>1. CASE Errors[e].kind \in AzureErrors
      <4>1. error' = e /\ unvisited' = <<e>> /\ seen' = {} /\ token' = FALSE /\ pc' = "linked"
        BY <2>3, <3>1 DEF Raises
      <4>2. e \in OnStack' /\ unvisited' \in Seq(ErrorIds)
        BY <4>1 DEF OnStack
      <4>. QED BY <4>1, <4>2 DEF WalkInv
    <3>2. CASE Errors[e].kind \notin AzureErrors
      <4>1. UNCHANGED error /\ pc' = "done" /\ pc = from
        BY <2>3, <3>2 DEF Raises, HandsOver, walk
      <4>. QED BY <2>0, <2>00, <4>1
    <3>. QED BY <3>1, <3>2
  <2>4. CASE ManagementRaises \/ PeekRaises
    BY <2>3, <2>4, ErrorsAssumption DEF ManagementRaises, PeekRaises
  <2>5. CASE WalkLinks
    BY <1>2, <2>5, VisitStep
  <2>6. CASE ReportError
    <3>1. CASE token
      <4>1. ~IsManagementDenied(error) /\ Message(error) = "credentials rejected"
        BY <3>1 DEF IsManagementDenied, Message
      <4>2. outcome' = <<Reply("error", "credentials rejected")>> /\ pc' = "done" /\ UNCHANGED error
        BY <2>6, <4>1 DEF ReportError, HandsOver, walk
      <4>. QED BY <1>2, <4>2 DEF WalkInv
    <3>2. CASE ~token
      <4>1. UNCHANGED error /\ pc' = "done" /\ Walked
        BY <2>6 DEF ReportError, HandsOver, walk
      <4>. QED BY <1>2, <2>0, <3>2, <4>1, WalkedIsRight
    <3>. QED BY <3>1, <3>2
  <2>7. CASE NoEntityToProbe \/ ProbeEntityInstead
    <3>1. UNCHANGED error /\ pc' \in {"done", "peek"} /\ Walked /\ ~token
      BY <2>7 DEF NoEntityToProbe, ProbeEntityInstead, FallsBack, IsManagementDenied, HandsOver, walk
    <3>. QED BY <1>2, <2>0, <3>1, WalkedIsRight
  <2>8. CASE RunReadsMetadata \/ RunHasNoMetadata
    <3>1. UNCHANGED error /\ pc' \in {"done", "running"} /\ pc = "management"
      BY <2>8 DEF RunReadsMetadata, RunHasNoMetadata, LoadEntityInfo, HandsOver, walk
    <3>. QED BY <1>2, <3>1, NoErrorIsNoTokenFailure DEF WalkInv
  <2>9. CASE Caller \/ UNCHANGED vars
    <3>1. UNCHANGED <<outcome, pc, error, unvisited, seen, token>>
      BY <2>9 DEF Caller, DeadlinePasses, JoinReturns, Replies, vars, walk
    <3>. QED BY <1>2, <3>1 DEF WalkInv, OnStack
  <2>. QED BY <1>2, <2>1, <2>2, <2>4, <2>5, <2>6, <2>7, <2>8, <2>9 DEF Next, Worker, Run
<1>3. WalkInv => TokenFailureIsNamed
  BY DEF WalkInv, TokenFailureIsNamed
<1>. QED BY <1>1, <1>2, <1>3, PTL DEF Spec
=============================================================================
