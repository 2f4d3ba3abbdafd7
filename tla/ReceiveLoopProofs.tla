-------------------------- MODULE ReceiveLoopProofs --------------------------
(***************************************************************************)
(* Proofs about ReceiveLoop, for any rows, entity and budgets.              *)
(***************************************************************************)
EXTENDS ReceiveLoop, InductionLemmas, TLAPS

(***************************************************************************)
(* What the rows of an instance are.                                       *)
(***************************************************************************)

\* The fields of a row, as the proofs use them.
RowIsTyped ==
    /\ row \in Rows
    /\ Old \subseteq Seqs /\ Newer \subseteq Seqs \ Old /\ Bad \subseteq Old \cup Newer
    /\ Mode \in {"complete", "defer_commit", "receive_and_delete"}
    /\ Sessions \in BOOLEAN /\ StopAtStart \in BOOLEAN /\ Partitioned \in BOOLEAN
    /\ BatchSize \in Nat \ {0} /\ Prefetch \in Nat \ {0} /\ Limit \in Nat
    /\ MaxRecoveries \in Nat /\ MaxFaults \in Nat
    /\ ~LockHolding => Prefetch = 1
    /\ ~Partitioned => \A m \in Newer, k \in Old : k < m
    /\ "none" \notin SessionIds
    /\ ~Sessions => \A m, k \in Seqs : row.sessionOf[m] = row.sessionOf[k]
    /\ \A m \in Seqs : row.sessionOf[m] \in SessionIds
    /\ Contended \subseteq SessionIds /\ (~Sessions => Contended = {})

\* A row of the instance is one.
LEMMA RowTyped == row \in Rows => RowIsTyped
<1>. SUFFICES ASSUME row \in Rows PROVE RowIsTyped
  OBVIOUS
<1>1. /\ row.old \subseteq Seqs /\ row.newer \subseteq Seqs \ row.old /\ row.bad \subseteq row.old \cup row.newer
      /\ row.mode \in {"complete", "defer_commit", "receive_and_delete"}
      /\ DOMAIN row.sessionOf = Seqs /\ \A m \in Seqs : row.sessionOf[m] # "none"
      /\ ~row.sessionEnabled => \A m, k \in Seqs : row.sessionOf[m] = row.sessionOf[k]
      /\ row.contended \subseteq {row.sessionOf[m] : m \in Seqs} /\ (~row.sessionEnabled => row.contended = {})
      /\ {row.sessionEnabled, row.partitioned, row.stopAtStart} \subseteq BOOLEAN
      /\ row.batchSize \in Nat \ {0} /\ row.prefetch \in Nat \ {0} /\ row.limit \in Nat
      /\ {row.maxRecoveries, row.maxFaults} \subseteq Nat
      /\ row.mode = "receive_and_delete" => row.prefetch = 1
      /\ ~row.partitioned => \A m \in row.newer, k \in row.old : k < m
  BY RowsAssumption
<1>. QED
  BY <1>1 DEF RowIsTyped, Old, Newer, Bad, Mode, Sessions, StopAtStart, Partitioned, BatchSize, Prefetch, Limit,
              MaxRecoveries, MaxFaults, LockHolding, SessionIds, Contended

\* No step changes the row.
LEMMA RowFixed == [Next]_vars => row' = row
BY DEF Next, Step, Process, Drain, End, World, StopNow, StopOnState, OpenReceiver, SessionRefused, NoMoreSessions, ReceiveBatch,
       ConnectionFails, EmptySession, EmptyAndDrained, EmptyButRemaining, ProcessBatch, FailBatch,
       ProcessInterrupted, DrainAbandons, DrainWrites, DrainFails, FinishSession, CatchUp, Finish, Arrives,
       OthersMove, DeadlinePasses, CatchUpTimePasses, LockLapses, env, vars

(***************************************************************************)
(* Types.                                                                  *)
(***************************************************************************)

\* A message that can be delivered has a delivery left, and one that is locked
\* can be settled.
DeliveryLeft ==
    \A m \in Seqs : /\ loc[m] = "active" => dc[m] < MaxDelivery
                    /\ lock[m] # "free" => loc[m] = "active"

EntityInv == EntityTypeOK /\ DeliveryLeft

\* A change of locks: only of messages that were locked or receivable.
LocksChange ==
    /\ UNCHANGED <<loc, dc>> /\ lock' \in [Seqs -> Holders]
    /\ \A m \in Seqs : lock'[m] # "free" => lock[m] # "free" \/ m \in Receivable

\* Closing a connection changes locks to locks.
LEMMA AdriftTyped ==
    ASSUME EntityTypeOK
    PROVE  /\ Adrift \in [Seqs -> Holders]
           /\ \A m \in Seqs : Adrift[m] = "free" <=> lock[m] = "free"
BY DEF EntityTypeOK, Adrift, Holders

\* An abandon or lapse, a deletion of receivable messages and a change of locks
\* keep the entity well-formed.
LEMMA BrokerKeeps ==
    ASSUME EntityInv,
           \/ UNCHANGED entityVars
           \/ \E S : Release(S)
           \/ \E S \in SUBSET Receivable : Delete(S, "received")
           \/ LocksChange
    PROVE  EntityInv'
<1>1. CASE UNCHANGED entityVars
  BY <1>1 DEF EntityInv, EntityTypeOK, DeliveryLeft, entityVars
<1>2. ASSUME NEW S, Release(S) PROVE EntityInv'
  BY <1>2, MaxDeliveryAssumption DEF EntityInv, EntityTypeOK, DeliveryLeft, Release, Held, Places, Holders
<1>3. ASSUME NEW S \in SUBSET Receivable, Delete(S, "received") PROVE EntityInv'
  BY <1>3 DEF EntityInv, EntityTypeOK, DeliveryLeft, Receivable, Delete, Moved, Places
<1>4. CASE LocksChange
  BY <1>4 DEF EntityInv, EntityTypeOK, DeliveryLeft, Receivable, LocksChange
<1>. QED BY <1>1, <1>2, <1>3, <1>4

\* Whatever becomes of a batch, the broker is asked for one thing for each of its messages.
LEMMA BatchIsProcessed ==
    ASSUME ProcessBatch \/ FailBatch \/ ProcessInterrupted
    PROVE  \E S, X, A, closing : Processed(S, X, A, closing)
<1>1. CASE ProcessBatch
  <2>1. PICK U, A \in SUBSET batch : Processed(batch \ U, U \ A, A, A # {} /\ ~Watermark)
    BY <1>1 DEF ProcessBatch
  <2>. QED BY <2>1, Zenon
<1>2. CASE FailBatch
  <2>1. PICK U, A \in SUBSET batch : Processed(batch \ U, U \ A, A, FALSE)
    BY <1>2 DEF FailBatch
  <2>. QED BY <2>1, Zenon
<1>3. CASE ProcessInterrupted
  <2>1. PICK U, A, V, S \in SUBSET batch, wrote \in BOOLEAN :
              /\ Unreadable(U, A)
              /\ IF wrote
                 THEN batch \ U # {} /\ V = U /\ S = Lowest(batch \ U, Cardinality(S))
                 ELSE U # {} /\ V = Lowest(U, Cardinality(V)) /\ S = {}
              /\ Processed(S, V \ A, V \cap A, TRUE)
              /\ written' = IF wrote THEN written \cup (batch \ U) ELSE written
              /\ disposed' = disposed \cup (V \ A)
              /\ retried' = retried \cup (V \cap A)
              /\ Caught(progressed \/ wrote)
    BY <1>3, Zenon DEF ProcessInterrupted
  <2>. QED BY <2>1, Zenon
<1>. QED BY <1>1, <1>2, <1>3

\* What the broker does with a batch: a message it settles, disposes of or
\* abandons is unlocked, and one that is still active then has a delivery left.
LEMMA ProcessedKeeps ==
    ASSUME EntityInv, NEW S, NEW X, NEW A, NEW closing, Processed(S, X, A, closing)
    PROVE  EntityInv'
<1>1. CASE ~LockHolding
  BY <1>1 DEF Processed, EntityInv, EntityTypeOK, DeliveryLeft, entityVars
<1>2. CASE LockHolding
  <2>. DEFINE gone == IF Policy = "dead_letter" THEN Holding(X) ELSE {}
              spent == {m \in Holding(A) : dc[m] + 1 >= MaxDelivery}
              place == IF Mode = "complete" THEN "completed" ELSE "deferred"
              touched == Holding(S) \cup gone \cup Holding(A)
  <2>1. /\ dc' = [m \in Seqs |-> IF m \in Holding(A) THEN dc[m] + 1 ELSE dc[m]]
        /\ loc' = [m \in Seqs |-> CASE m \in Holding(S) -> place
                                   [] m \in gone -> "dead_lettered"
                                   [] m \in spent -> "exhausted"
                                   [] OTHER -> loc[m]]
        /\ lock' = [m \in Seqs |-> IF m \in touched
                                   THEN "free" ELSE IF closing THEN Adrift[m] ELSE lock[m]]
    BY <1>2 DEF Processed
  <2>2. lock' \in [Seqs -> Holders]
        /\ \A m \in Seqs : lock'[m] # "free" => lock[m] # "free" /\ m \notin touched
    <3>. HIDE DEF touched
    <3>. QED BY <2>1, AdriftTyped DEF EntityInv, EntityTypeOK, Holders
  <2>3. ASSUME NEW m \in Seqs
        PROVE  /\ loc'[m] \in Places
               /\ loc'[m] = "active" => loc[m] = "active" /\ m \notin spent
               /\ m \notin touched => loc'[m] = loc[m]
    <3>1. place \in Places /\ place # "active" /\ loc[m] \in Places
      BY DEF Places, EntityInv, EntityTypeOK
    <3>2. m \notin touched => m \notin Holding(S) /\ m \notin gone /\ m \notin spent
      OBVIOUS
    <3>3. loc'[m] \in {place, "dead_lettered", "exhausted", loc[m]}
          /\ (loc'[m] = "active" => loc[m] = "active" /\ m \notin spent)
          /\ (m \notin touched => loc'[m] = loc[m])
      <4>. HIDE DEF gone, spent, place, touched
      <4>. QED BY <2>1, <3>1, <3>2
    <3>. QED BY <3>1, <3>3 DEF Places
  <2>4. ASSUME NEW m \in Seqs
        PROVE  dc'[m] \in 0..MaxDelivery /\ (loc'[m] = "active" => dc'[m] < MaxDelivery)
    <3>1. m \in Holding(A) => loc[m] = "active"
      BY DEF EntityInv, DeliveryLeft, Holding
    <3>2. dc[m] \in 0..MaxDelivery /\ (loc[m] = "active" => dc[m] < MaxDelivery)
      BY DEF EntityInv, EntityTypeOK, DeliveryLeft
    <3>3. loc'[m] = "active" => loc[m] = "active" /\ m \notin spent
      BY <2>3
    <3>4. dc'[m] = IF m \in Holding(A) THEN dc[m] + 1 ELSE dc[m]
      BY <2>1
    <3>. QED BY <3>1, <3>2, <3>3, <3>4, MaxDeliveryAssumption
  <2>5. loc' \in [Seqs -> Places] /\ dc' \in [Seqs -> 0..MaxDelivery]
    BY <2>1, <2>3, <2>4
  <2>. QED BY <2>2, <2>3, <2>4, <2>5 DEF EntityInv, EntityTypeOK, DeliveryLeft
<1>. QED BY <1>1, <1>2

\* Every step keeps the entity well-formed.
LEMMA EntityStep ==
    ASSUME EntityInv, [Next]_vars
    PROVE  EntityInv'
<1>0. EntityTypeOK
  BY DEF EntityInv
<1>1. CASE UNCHANGED entityVars
  BY <1>1, BrokerKeeps
<1>2. CASE UNCHANGED <<loc, dc>> /\ lock' = Adrift
  BY <1>0, <1>2, BrokerKeeps, AdriftTyped DEF LocksChange
<1>3. CASE ReceiveBatch
  <2>1. PICK D, R :
          /\ D \in SUBSET Receivable
          /\ IF LockHolding
             THEN /\ lock' = [m \in Seqs |->
                        IF m \in D \/ (m \in buffer /\ lock[m] = "buffer")
                        THEN (IF m \in R THEN "hand" ELSE "buffer") ELSE lock[m]]
                  /\ UNCHANGED <<loc, dc>>
             ELSE Delete(D, "received")
    BY <1>3 DEF ReceiveBatch, Available
  <2>2. LockHolding => LocksChange
    BY <1>0, <2>1 DEF EntityTypeOK, Holders, LocksChange
  <2>. QED BY <2>1, <2>2, BrokerKeeps
<1>4. CASE ConnectionFails \/ DrainFails
  <2>1. PICK D \in SUBSET Receivable :
             IF LockHolding
             THEN /\ lock' = [m \in Seqs |-> IF m \in D THEN "adrift" ELSE Adrift[m]]
                  /\ UNCHANGED <<loc, dc>>
             ELSE Delete(D, "received")
    BY <1>4 DEF ConnectionFails, DrainFails, Available
  <2>2. LockHolding => LocksChange
    BY <1>0, <2>1, AdriftTyped DEF Holders, LocksChange
  <2>. QED BY <2>1, <2>2, BrokerKeeps
<1>5. CASE ProcessBatch \/ FailBatch \/ ProcessInterrupted
  <2>1. PICK S, X, A, closing : Processed(S, X, A, closing)
    BY <1>5, BatchIsProcessed
  <2>. QED BY <2>1, ProcessedKeeps
<1>6. CASE DrainAbandons \/ DrainWrites
  <2>1. (\E S : Release(S)) \/ \E S \in SUBSET Receivable : Delete(S, "received")
    BY <1>6 DEF DrainAbandons, DrainWrites, Available
  <2>. QED BY <2>1, BrokerKeeps
<1>7. ASSUME NEW m \in Seqs, LockLapses(m) PROVE EntityInv'
  BY <1>7, BrokerKeeps DEF LockLapses
<1>8. CASE EmptyButRemaining
  <2>1. UNCHANGED <<loc, dc>> /\ (UNCHANGED lock \/ lock' = Adrift)
    BY <1>8 DEF EmptyButRemaining
  <2>. QED BY <1>1, <1>2, <2>1 DEF entityVars
<1>. QED
  BY <1>1, <1>2, <1>3, <1>4, <1>5, <1>6, <1>7, <1>8
  DEF Next, Step, Process, Drain, End, World, StopNow, StopOnState, OpenReceiver, SessionRefused, NoMoreSessions, EmptySession,
      EmptyAndDrained, FinishSession, CatchUp, Finish, Arrives, OthersMove, DeadlinePasses, CatchUpTimePasses, vars

\* What the row says is the same before and after a step.
RowKept ==
    /\ row' = row /\ Old' = Old /\ Newer' = Newer /\ Bad' = Bad /\ Limit' = Limit
    /\ MaxFaults' = MaxFaults /\ MaxRecoveries' = MaxRecoveries /\ SessionIds' = SessionIds
    /\ LockHolding' = LockHolding /\ Sessions' = Sessions /\ StopAtStart' = StopAtStart
    /\ Partitioned' = Partitioned /\ Prefetch' = Prefetch /\ Contended' = Contended

\* It is.
LEMMA RowIsKept == [Next]_vars => RowKept
<1>1. row' = row => RowKept
  BY DEF RowKept, Old, Newer, Bad, Limit, MaxFaults, MaxRecoveries, SessionIds, LockHolding, Mode, Sessions,
         StopAtStart, Partitioned, Prefetch, Contended
<1>. QED BY <1>1, RowFixed

\* The loop's own variables.
LoopTypeOK ==
    /\ row \in Rows /\ arrived \subseteq Old \cup Newer /\ faults \in 0..MaxFaults /\ late \in BOOLEAN
    /\ others \subseteq Contended
    /\ pc \in {"step", "process", "drain", "next", "done", "over"}
    /\ reason \in StopReasons \cup {"none", "error"} /\ warned \in BOOLEAN
    /\ session \in SessionIds \cup {"none"} /\ used \in BOOLEAN /\ seen \subseteq SessionIds
    /\ buffer \subseteq arrived /\ batch \subseteq arrived
    /\ taken \in Nat /\ highest \in Seqs \cup {0} /\ empties \in 0..MaxEmptyRetries
    /\ catching \in BOOLEAN /\ windowOver \in BOOLEAN
    /\ count \in 0..MaxRecoveries /\ progressed \in BOOLEAN
    /\ recycles \in 0..MaxRecycles /\ retried \subseteq Bad
    /\ written \subseteq arrived /\ disposed \subseteq Bad

\* Sets of messages are finite, and so are the parts of a batch.
LEMMA ArrivedIsFinite ==
    ASSUME LoopTypeOK
    PROVE  /\ arrived \subseteq Seqs /\ Bad \subseteq Seqs
           /\ \A S \in SUBSET Seqs : IsFiniteSet(S) /\ Cardinality(S) \in Nat
<1>1. arrived \subseteq Seqs /\ Bad \subseteq Seqs
  BY RowTyped DEF LoopTypeOK, RowIsTyped
<1>. QED BY <1>1, SeqsAssumption, FS_Subset, FS_CardinalityType

\* The highest processed sequence number is the greatest so far.
LEMMA HighestIsGreatest ==
    ASSUME LoopTypeOK
    PROVE  Highest \in batch \cup {highest} /\ \A m \in batch \cup {highest} : m <= Highest
<1>. DEFINE S == batch \cup {highest}
<1>1. IsFiniteSet(batch) /\ batch \subseteq Nat /\ highest \in Nat
  <2>1. batch \in SUBSET Seqs /\ highest \in Seqs \cup {0}
    BY ArrivedIsFinite DEF LoopTypeOK
  <2>. QED BY <2>1, ArrivedIsFinite, SeqsAssumption
<1>2. IsFiniteSet(S)
  BY <1>1, FS_AddElement
<1>3. S \subseteq Int /\ S # {}
  BY <1>1
<1>4. \E h \in S : \A m \in S : m <= h
  <2>. HIDE DEF S
  <2>. QED BY <1>2, <1>3, GreatestOfFinite
<1>. QED BY <1>4 DEF Highest

\* Ends of a receiver and stop reasons are typed.
LEMMA EndsAreTyped ==
    /\ StopRule \in StopReasons \cup {"none"}
    /\ {"state_budget", "session_revisited", "no_more_sessions", "idle", "receive_stalled", "watermark"}
          \subseteq StopReasons
BY DEF StopRule, StopReasons

\* A recovery, or the run's end because the budget is spent.
LEMMA RecoverTyped ==
    ASSUME LoopTypeOK, MaxRecoveries \in Nat, NEW earned, Recover(earned)
    PROVE  /\ pc' \in {"step", "done"} /\ reason' \in {reason, "error"} /\ session' = "none" /\ used' = FALSE
           /\ buffer' = {} /\ batch' = {} /\ seen' \subseteq seen
           /\ count' \in 0..MaxRecoveries
<1>1. /\ session' = "none" /\ used' = FALSE /\ buffer' = {} /\ batch' = {} /\ seen' \subseteq seen
  BY DEF Recover, Interrupted, Closed
<1>2. count \in 0..MaxRecoveries
  BY DEF LoopTypeOK
<1>3. \/ reason' = "error" /\ pc' = "done" /\ count' = count
      \/ pc' = "step" /\ reason' = reason /\ count' = count + 1 /\ ~(count >= MaxRecoveries)
  BY DEF Recover, BudgetSpent
<1>. QED BY <1>1, <1>2, <1>3

\* An error that reaches the loop: a recovery, or a session lost to another receiver.
LEMMA CaughtTyped ==
    ASSUME LoopTypeOK, MaxRecoveries \in Nat, pc \in {"step", "process"}, NEW earned, Caught(earned)
    PROVE  /\ pc' \in {"step", "done"} /\ reason' \in {reason, "error"} /\ session' = "none" /\ used' = FALSE
           /\ buffer' = {} /\ batch' = {} /\ seen' \subseteq seen
           /\ count' \in 0..MaxRecoveries /\ others' \subseteq Contended
<1>1. CASE SessionLost(earned)
  BY <1>1 DEF SessionLost, Closed, LoopTypeOK
<1>2. CASE Recover(earned) /\ UNCHANGED others
  BY <1>2, RecoverTyped DEF LoopTypeOK
<1>. QED BY <1>1, <1>2 DEF Caught

\* After it the tracker's mark of progress is what was earned, or reset.
LEMMA CaughtMark ==
    ASSUME NEW earned \in BOOLEAN, Caught(earned)
    PROVE  progressed' \in BOOLEAN
<1>1. progressed' = earned \/ progressed' = FALSE
  BY Zenon DEF Caught, SessionLost, Recover
<1>. QED BY <1>1, Zenon

\* Every step keeps the loop's variables in their types.
LEMMA LoopTypeStep ==
    ASSUME LoopTypeOK, [Next]_vars
    PROVE  LoopTypeOK'
<1>0. RowKept /\ MaxFaults \in Nat /\ MaxRecoveries \in Nat
  BY RowIsKept, RowTyped DEF LoopTypeOK, RowIsTyped
<1>. USE DEF RowKept
<1>1. CASE UNCHANGED vars
  BY <1>0, <1>1 DEF LoopTypeOK, vars, env, position, counters, catchUp, tracker, unreadable, results
<1>2. CASE StopNow \/ StopOnState
  BY <1>0, <1>2, EndsAreTyped
  DEF StopNow, StopOnState, Ending, Fault, LoopTypeOK, env, position, counters, catchUp, tracker, unreadable, results
<1>3. CASE OpenReceiver
  <2>1. /\ session' \in SessionIds /\ used' = FALSE /\ seen' \subseteq seen \cup {session'}
        /\ reason' \in {reason, "session_revisited"} /\ pc' \in {pc, "done"}
        /\ UNCHANGED <<arrived, late, others, faults, warned, buffer, batch, taken, highest, empties, catching,
                       windowOver, count, progressed, recycles, retried, written, disposed>>
    BY <1>3 DEF OpenReceiver, env, counters, catchUp, tracker, unreadable, results
  <2>2. /\ session' \in SessionIds \cup {"none"} /\ seen' \subseteq SessionIds /\ used' \in BOOLEAN
        /\ reason' \in StopReasons \cup {"none", "error"}
        /\ pc' \in {"step", "process", "drain", "next", "done", "over"}
    BY <2>1, EndsAreTyped DEF LoopTypeOK
  <2>. QED BY <1>0, <2>1, <2>2 DEF LoopTypeOK
<1>4. CASE NoMoreSessions \/ EmptySession \/ EmptyAndDrained \/ FinishSession \/ Finish \/ CatchUp
  <2>0. Warns \in BOOLEAN
    BY DEF Warns
  <2>. USE DEF LoopTypeOK, env, position, counters, catchUp, tracker, unreadable, results
  <2>1. CASE NoMoreSessions
    BY <1>0, <2>0, <2>1, EndsAreTyped DEF NoMoreSessions
  <2>2. CASE EmptySession
    <3>1. /\ session' = "none" /\ used' = FALSE /\ buffer' = {} /\ batch' = {}
          /\ UNCHANGED <<row, arrived, faults, late, others, pc, reason, warned, seen, taken, highest, empties, catching,
                         windowOver, count, progressed, recycles, retried, written, disposed>>
      BY <2>2 DEF EmptySession, Closed
    <3>. QED BY <1>0, <3>1, ZenonT(40)
  <2>3. CASE EmptyAndDrained
    BY <1>0, <2>0, <2>3, EndsAreTyped DEF EmptyAndDrained
  <2>4. CASE FinishSession
    <3>1. /\ session' = "none" /\ used' = FALSE /\ buffer' = {} /\ batch' = {} /\ pc' = "step"
          /\ UNCHANGED <<env, faults, reason, warned, seen, counters, catchUp, tracker, unreadable, results>>
      BY <2>4 DEF FinishSession, Closed
    <3>. QED BY <1>0, <3>1, EndsAreTyped
  <2>5. CASE Finish
    BY <1>0, <2>0, <2>5, EndsAreTyped DEF Finish, Closed
  <2>6. CASE CatchUp
    BY <1>0, <2>0, <2>6, EndsAreTyped DEF CatchUp
  <2>. QED BY <1>4, <2>1, <2>2, <2>3, <2>4, <2>5, <2>6
<1>5. CASE ReceiveBatch
  <2>1. batch' \subseteq arrived /\ buffer' \subseteq arrived
    BY <1>5 DEF ReceiveBatch, Available, LoopTypeOK
  <2>. QED
    BY <1>0, <1>5, <2>1, BudgetAssumption
    DEF ReceiveBatch, LoopTypeOK, env, catchUp, tracker, unreadable, results
<1>7. CASE ConnectionFails
  <2>1. Caught(progressed) /\ Fault /\ pc = "step"
        /\ UNCHANGED <<row, arrived, late, warned, taken, highest, empties, catching, windowOver, recycles, retried,
                        written, disposed>>
    BY <1>7 DEF ConnectionFails, Stepping, counters, catchUp, unreadable, results
  <2>2. progressed' \in BOOLEAN
    BY <2>1, CaughtMark DEF LoopTypeOK
  <2>3. /\ pc' \in {"step", "done"} /\ reason' \in {reason, "error"} /\ session' = "none" /\ used' = FALSE
        /\ buffer' = {} /\ batch' = {} /\ seen' \subseteq seen /\ count' \in 0..MaxRecoveries
        /\ others' \subseteq Contended
    BY <1>0, <2>1, CaughtTyped
  <2>4. faults' \in 0..MaxFaults
    BY <1>0, <2>1 DEF Fault, LoopTypeOK
  <2>. QED BY <1>0, <2>1, <2>2, <2>3, <2>4 DEF LoopTypeOK
<1>8. CASE EmptyButRemaining
  <2>1. /\ empties' \in 0..MaxEmptyRetries
        /\ \/ reason' = "receive_stalled" /\ pc' = "done" /\ used' = TRUE /\ UNCHANGED <<session, buffer, batch>>
           \/ Closed /\ UNCHANGED <<pc, reason>>
    BY <1>8, BudgetAssumption DEF EmptyButRemaining, EmptiesNow, LoopTypeOK
  <2>2. UNCHANGED <<arrived, late, others, faults, warned, seen, taken, highest, catching, windowOver, count, progressed,
                    recycles, retried, written, disposed>>
    BY <1>8 DEF EmptyButRemaining, env, catchUp, tracker, unreadable, results
  <2>. QED BY <1>0, <2>1, <2>2, EndsAreTyped DEF Closed, LoopTypeOK
<1>9. CASE ProcessBatch
  <2>1. highest' \in Seqs \cup {0}
    BY <1>9, HighestIsGreatest, ArrivedIsFinite DEF ProcessBatch, LoopTypeOK
  <2>2. PICK U \in SUBSET batch, A \in SUBSET batch :
              /\ Unreadable(U, A)
              /\ written' = written \cup (batch \ U)
              /\ disposed' = disposed \cup (U \ A)
              /\ progressed' = (progressed \/ A # batch)
              /\ taken' = IF Limit = 0 THEN 0 ELSE taken + Cardinality(batch \ A)
              /\ IF A # {} /\ ~Watermark
                 THEN Interrupted /\ recycles' = recycles + 1 /\ retried' = retried \cup A
                 ELSE batch' = {} /\ UNCHANGED <<position, buffer, unreadable>>
    BY <1>9 DEF ProcessBatch
  <2>3. taken' \in Nat
    <3>1. Cardinality(batch \ A) \in Nat
      BY ArrivedIsFinite DEF LoopTypeOK
    <3>. QED BY <2>2, <3>1 DEF LoopTypeOK
  <2>4. /\ written' \subseteq arrived /\ disposed' \subseteq Bad /\ progressed' \in BOOLEAN
    BY <2>2 DEF Unreadable, LoopTypeOK
  <2>5. recycles' \in 0..MaxRecycles /\ retried' \subseteq Bad
    <3>1. A # {} => recycles < MaxRecycles
      BY <2>2 DEF Unreadable, MayRetry
    <3>. QED BY <2>2, <3>1, BudgetAssumption DEF Unreadable, unreadable, LoopTypeOK
  <2>6. session' \in SessionIds \cup {"none"} /\ used' \in BOOLEAN /\ seen' \subseteq SessionIds
        /\ batch' = {} /\ buffer' \subseteq buffer
    BY <2>2 DEF Interrupted, Closed, position, LoopTypeOK
  <2>7. pc' \in {"drain", "step"} /\ reason' \in {"none", "watermark", reason}
        /\ UNCHANGED <<arrived, late, others, faults, warned, empties, catching, windowOver, count>>
    BY <1>9 DEF ProcessBatch, env, catchUp
  <2>. QED BY <1>0, <2>1, <2>3, <2>4, <2>5, <2>6, <2>7, EndsAreTyped DEF LoopTypeOK
<1>10. CASE FailBatch
  <2>1. PICK U \in SUBSET batch, A \in SUBSET batch :
          /\ Unreadable(U, A)
          /\ IF Failing(U \ A) THEN UNCHANGED faults ELSE Fault
          /\ written' = written \cup (batch \ U)
          /\ disposed' = disposed \cup (U \ A)
          /\ progressed' = (progressed \/ U # batch)
    BY <1>10 DEF FailBatch
  <2>. QED
    BY <1>0, <1>10, <2>1
    DEF FailBatch, Unreadable, Fault, LoopTypeOK, env, position, counters, catchUp, unreadable
<1>11. CASE ProcessInterrupted
  <2>1. PICK U \in SUBSET batch, A \in SUBSET batch, V \in SUBSET batch, S \in SUBSET batch, wrote \in BOOLEAN :
              /\ Unreadable(U, A)
              /\ IF wrote
                 THEN batch \ U # {} /\ V = U /\ S = Lowest(batch \ U, Cardinality(S))
                 ELSE U # {} /\ V = Lowest(U, Cardinality(V)) /\ S = {}
              /\ Processed(S, V \ A, V \cap A, TRUE)
              /\ written' = IF wrote THEN written \cup (batch \ U) ELSE written
              /\ disposed' = disposed \cup (V \ A)
              /\ retried' = retried \cup (V \cap A)
              /\ Caught(progressed \/ wrote)
    BY <1>11, Zenon DEF ProcessInterrupted
  <2>2. V \subseteq U
    BY <2>1 DEF Lowest
  <2>3. /\ written' \subseteq arrived /\ disposed' \subseteq Bad /\ retried' \subseteq Bad
    BY <2>1, <2>2 DEF Unreadable, LoopTypeOK
  <2>4. progressed' \in BOOLEAN
    <3>1. (progressed \/ wrote) \in BOOLEAN
      OBVIOUS
    <3>. QED BY <2>1, <3>1, CaughtMark
  <2>5. Fault /\ UNCHANGED <<row, arrived, late, warned, taken, highest, empties, catching, windowOver, recycles>>
        /\ pc = "process"
    BY <1>11 DEF ProcessInterrupted, counters, catchUp
  <2>6. /\ pc' \in {"step", "done"} /\ reason' \in {reason, "error"} /\ session' = "none" /\ used' = FALSE
        /\ buffer' = {} /\ batch' = {} /\ seen' \subseteq seen /\ count' \in 0..MaxRecoveries
        /\ others' \subseteq Contended
    BY <1>0, <2>1, <2>5, CaughtTyped
  <2>7. faults' \in 0..MaxFaults
    BY <1>0, <2>5 DEF Fault, LoopTypeOK
  <2>. QED BY <1>0, <2>3, <2>4, <2>5, <2>6, <2>7 DEF LoopTypeOK
<1>12. ASSUME NEW r \in StopReasons \cup {"none", "error"}, Drained(r)
       PROVE  /\ pc' \in {"next", "done"} /\ reason' = r /\ buffer' = {}
  BY <1>12 DEF Drained
<1>13. CASE DrainAbandons \/ DrainFails
  <2>1. Drained(reason) /\ UNCHANGED <<arrived, late, others, warned, session, used, seen, batch, taken, highest, empties,
                                       catching, windowOver, count, progressed, recycles, retried, written, disposed>>
        /\ (UNCHANGED faults \/ Fault)
    BY <1>13 DEF DrainAbandons, DrainFails, env, position, counters, catchUp, tracker, unreadable, results
  <2>. QED BY <1>0, <1>12, <2>1 DEF LoopTypeOK, Fault
<1>14. CASE DrainWrites
  <2>1. PICK D \in SUBSET arrived, U \in SUBSET Bad, r \in {"error", reason} :
          /\ written' = written \cup ((buffer \cup D) \ U)
          /\ disposed' = disposed \cup U
          /\ Drained(r)
    BY <1>14 DEF DrainWrites, Available
  <2>2. UNCHANGED <<arrived, faults, late, others, warned, session, used, seen, batch, taken, highest, empties,
                    catching, windowOver, count, progressed, recycles, retried>>
    BY <1>14 DEF DrainWrites, env, position, counters, catchUp, tracker, unreadable
  <2>. QED BY <1>0, <1>12, <2>1, <2>2 DEF LoopTypeOK
<1>15. CASE Arrives \/ OthersMove \/ DeadlinePasses \/ CatchUpTimePasses \/ SessionRefused
  <2>. USE DEF LoopTypeOK, env, position, counters, catchUp, tracker, unreadable, results
  <2>1. CASE Arrives
    BY <1>0, <2>1 DEF Arrives, IsLowest
  <2>2. CASE DeadlinePasses
    BY <1>0, <2>2 DEF DeadlinePasses
  <2>3. CASE CatchUpTimePasses
    BY <1>0, <2>3 DEF CatchUpTimePasses
  <2>4. CASE OthersMove
    BY <1>0, <2>4 DEF OthersMove
  <2>5. CASE SessionRefused
    BY <1>0, <2>5 DEF SessionRefused
  <2>. QED BY <1>15, <2>1, <2>2, <2>3, <2>4, <2>5
<1>16. ASSUME NEW m \in Seqs, LockLapses(m) PROVE LoopTypeOK'
  BY <1>0, <1>16 DEF LockLapses, Fault, LoopTypeOK, env, position, counters, catchUp, tracker, unreadable, results
<1>. QED
  BY <1>1, <1>2, <1>3, <1>4, <1>5, <1>7, <1>8, <1>9, <1>10, <1>11, <1>13, <1>14, <1>15, <1>16
  DEF Next, Step, Process, Drain, End, World

TypeInv == EntityInv /\ LoopTypeOK

\* The typing invariant holds throughout.
LEMMA TypeInvariant == Spec => []TypeInv
<1>1. Init => TypeInv
  <2>. SUFFICES ASSUME Init PROVE TypeInv
    OBVIOUS
  <2>1. RowIsTyped /\ arrived = Old
    BY RowTyped DEF Init, Old
  <2>2. EntityInv
    BY MaxDeliveryAssumption DEF Init, EntityInit, EntityInv, EntityTypeOK, DeliveryLeft, Places, Holders
  <2>3. LoopTypeOK
    <3>1. MaxFaults \in Nat /\ MaxRecoveries \in Nat
      BY <2>1 DEF RowIsTyped
    <3>2. /\ faults \in 0..MaxFaults /\ taken \in Nat /\ highest \in Seqs \cup {0} /\ empties \in 0..MaxEmptyRetries
          /\ count \in 0..MaxRecoveries /\ recycles \in 0..MaxRecycles
      BY <3>1, BudgetAssumption DEF Init
    <3>3. /\ row \in Rows /\ arrived \subseteq Old \cup Newer /\ others \subseteq Contended
          /\ seen \subseteq SessionIds /\ buffer \subseteq arrived /\ batch \subseteq arrived
          /\ retried \subseteq Bad /\ written \subseteq arrived /\ disposed \subseteq Bad
      BY <2>1 DEF Init
    <3>4. /\ late \in BOOLEAN /\ warned \in BOOLEAN /\ used \in BOOLEAN /\ catching \in BOOLEAN
          /\ windowOver \in BOOLEAN /\ progressed \in BOOLEAN
      BY DEF Init
    <3>. QED BY <3>2, <3>3, <3>4, EndsAreTyped DEF Init, LoopTypeOK
  <2>. QED BY <2>2, <2>3 DEF TypeInv
<1>2. TypeInv /\ [Next]_vars => TypeInv'
  BY EntityStep, LoopTypeStep DEF TypeInv
<1>. QED BY <1>1, <1>2, PTL DEF Spec

\* Every variable of the loop and of the entity keeps its type; in particular
\* no budget (empty receives, recoveries, recycles) is ever passed.
THEOREM LoopIsTyped == Spec => []TypeOK
<1>1. TypeInv => TypeOK
  BY DEF TypeInv, EntityInv, LoopTypeOK, TypeOK
<1>. QED BY <1>1, TypeInvariant, PTL

(***************************************************************************)
(* The shape of the loop: what the position in it says of the receiver, the *)
(* local buffer and the batch.  Wherever a receiver is closed without a      *)
(* failed connection, buffer and batch are empty.                           *)
(***************************************************************************)

LoopShape ==
    /\ batch # {} => pc = "process"
    /\ pc \in {"process", "drain"} => session # "none" /\ used
    /\ session = "none" \/ ~used => buffer = {}
    /\ pc \in {"next", "done", "over"} => buffer = {}
    /\ pc \in {"step", "process", "next"} => reason = "none"
    /\ pc \in {"drain", "next"} /\ reason = "none" => Sessions /\ StopAtStart
    /\ count > 0 \/ catching => faults > 0

\* Every step keeps it.
LEMMA ShapeStep ==
    ASSUME LoopTypeOK, LoopShape, [Next]_vars
    PROVE  LoopShape'
<1>0. RowKept /\ "none" \notin SessionIds
  BY RowIsKept, RowTyped DEF LoopTypeOK, RowIsTyped
<1>00. faults \in Nat /\ count \in Nat
  BY RowTyped DEF LoopTypeOK, RowIsTyped
<1>. USE DEF RowKept
<1>1. CASE UNCHANGED vars
  BY <1>0, <1>1 DEF LoopShape, vars, env, position, catchUp, tracker
<1>2. CASE StopNow \/ StopOnState
  <2>1. PICK r : r # "none" /\ Ending(r)
    BY <1>2 DEF StopNow, StopOnState
  <2>2. UNCHANGED <<session, used, seen, buffer, batch, count, catching>> /\ pc = "step" /\ (UNCHANGED faults \/ Fault)
    BY <1>2 DEF StopNow, StopOnState, position, catchUp, tracker
  <2>. QED BY <1>0, <1>00, <2>1, <2>2 DEF Ending, LoopShape, Fault
<1>3. CASE OpenReceiver
  <2>1. /\ pc = "step" /\ session = "none" /\ used' = FALSE
        /\ UNCHANGED <<faults, buffer, batch, catching, count>>
        /\ (UNCHANGED <<reason, pc>>) \/ (reason' = "session_revisited" /\ pc' = "done")
    BY <1>3 DEF OpenReceiver, Stepping, catchUp, tracker
  <2>. QED BY <1>0, <2>1 DEF LoopShape
<1>4. CASE NoMoreSessions
  <2>1. /\ pc = "step" /\ session = "none" /\ pc' = "done"
        /\ UNCHANGED <<session, used, faults, buffer, batch, catching, count>>
    BY <1>4 DEF NoMoreSessions, Stepping, position, catchUp, tracker
  <2>. QED BY <1>0, <2>1 DEF LoopShape
<1>5. CASE ReceiveBatch
  BY <1>0, <1>5 DEF ReceiveBatch, Stepping, LoopShape, catchUp, tracker
<1>6. ASSUME NEW earned, Caught(earned), Fault, UNCHANGED catching, pc \in {"step", "process"}
      PROVE  LoopShape'
  <2>1. /\ session' = "none" /\ used' = FALSE /\ buffer' = {} /\ batch' = {} /\ faults' > 0
        /\ pc' = "done" \/ (pc' = "step" /\ reason' = reason)
    BY <1>00, <1>6 DEF Caught, SessionLost, Recover, Interrupted, Closed, Fault
  <2>. QED BY <1>0, <1>00, <1>6, <2>1 DEF LoopShape
<1>7. CASE ConnectionFails
  <2>1. Caught(progressed) /\ Fault /\ UNCHANGED catching /\ pc = "step"
    BY <1>7 DEF ConnectionFails, Stepping, catchUp
  <2>. QED BY <1>6, <2>1
<1>8. CASE EmptySession
  <2>1. pc = "step" /\ Closed /\ UNCHANGED <<faults, pc, reason, catching, count>>
    BY <1>8 DEF EmptySession, EmptyReceive, Stepping, catchUp, tracker
  <2>. QED BY <1>0, <2>1 DEF LoopShape, Closed
<1>9. CASE EmptyAndDrained
  <2>1. pc = "step" /\ pc' = "done" /\ buffer = {} /\ UNCHANGED <<faults, buffer, batch, catching, count>>
    BY <1>9 DEF EmptyAndDrained, EmptyReceive, Stepping, catchUp, tracker
  <2>. QED BY <1>0, <2>1 DEF LoopShape
<1>10. CASE EmptyButRemaining
  <2>1. /\ pc = "step" /\ buffer = {} /\ UNCHANGED <<faults, catching, count>>
        /\ \/ pc' = "done" /\ UNCHANGED <<buffer, batch>>
           \/ Closed /\ UNCHANGED <<pc, reason>>
    BY <1>10 DEF EmptyButRemaining, EmptyReceive, Stepping, catchUp, tracker
  <2>. QED BY <1>0, <2>1 DEF LoopShape, Closed
<1>11. CASE ProcessBatch
  <2>1. /\ pc = "process" /\ batch' = {} /\ UNCHANGED <<faults, catching, count>>
        /\ \/ session' = "none" /\ used' = FALSE /\ buffer' = {} /\ ~Watermark
           \/ UNCHANGED <<session, used, buffer>>
        /\ IF Watermark THEN pc' = "drain" /\ reason' = IF Sessions THEN "none" ELSE "watermark"
           ELSE pc' = "step" /\ UNCHANGED reason
    BY <1>11 DEF ProcessBatch, Interrupted, Closed, position, catchUp
  <2>2. CASE Watermark
    <3>1. StopAtStart' /\ pc' = "drain" /\ (reason' = "none" => Sessions') /\ UNCHANGED <<session, used, buffer>>
      BY <1>0, <2>1, <2>2 DEF Watermark
    <3>. QED BY <2>1, <3>1 DEF LoopShape
  <2>3. CASE ~Watermark
    <3>1. pc' = "step" /\ reason' = "none" /\ batch' = {}
      BY <2>1, <2>3 DEF LoopShape
    <3>2. session' = "none" \/ ~used' => buffer' = {}
      <4>1. CASE buffer' = {}
        BY <4>1
      <4>2. CASE UNCHANGED <<session, used, buffer>>
        BY <4>2 DEF LoopShape
      <4>. QED BY <2>1, <4>1, <4>2
    <3>3. count' > 0 \/ catching' => faults' > 0
      BY <2>1 DEF LoopShape
    <3>. QED BY <3>1, <3>2, <3>3 DEF LoopShape
  <2>. QED BY <2>2, <2>3
<1>12. CASE FailBatch
  <2>1. /\ pc = "process" /\ batch' = {} /\ pc' = "drain" /\ reason' = "error"
        /\ UNCHANGED <<session, used, buffer, catching, count>> /\ (UNCHANGED faults \/ Fault)
    BY <1>12 DEF FailBatch, position, catchUp
  <2>. QED BY <1>0, <1>00, <2>1 DEF LoopShape, Fault
<1>13. CASE ProcessInterrupted
  <2>1. PICK U, A, V, S \in SUBSET batch, wrote \in BOOLEAN :
              /\ Unreadable(U, A)
              /\ IF wrote
                 THEN batch \ U # {} /\ V = U /\ S = Lowest(batch \ U, Cardinality(S))
                 ELSE U # {} /\ V = Lowest(U, Cardinality(V)) /\ S = {}
              /\ Processed(S, V \ A, V \cap A, TRUE)
              /\ written' = IF wrote THEN written \cup (batch \ U) ELSE written
              /\ disposed' = disposed \cup (V \ A)
              /\ retried' = retried \cup (V \cap A)
              /\ Caught(progressed \/ wrote)
    BY <1>13, Zenon DEF ProcessInterrupted
  <2>2. Fault /\ UNCHANGED catching /\ pc = "process"
    BY <1>13 DEF ProcessInterrupted, catchUp
  <2>. QED BY <1>6, <2>1, <2>2
<1>14. CASE DrainAbandons \/ DrainWrites \/ DrainFails
  <2>1. PICK r : r \in {reason, "error"} /\ Drained(r)
    BY <1>14 DEF DrainAbandons, DrainWrites, DrainFails
  <2>2. pc = "drain" /\ UNCHANGED <<session, used, batch, catching, count>> /\ (UNCHANGED faults \/ Fault)
    BY <1>14 DEF DrainAbandons, DrainWrites, DrainFails, position, catchUp, tracker
  <2>. QED BY <1>0, <1>00, <2>1, <2>2 DEF LoopShape, Drained, Fault
<1>15. CASE FinishSession
  BY <1>0, <1>15 DEF FinishSession, Closed, LoopShape, catchUp, tracker
<1>16. CASE CatchUp
  <2>1. count > 0 /\ pc = "done" /\ pc' = "step" /\ reason' = "none"
        /\ UNCHANGED <<faults, session, used, buffer, batch, count>>
    BY <1>16 DEF CatchUp, CatchUpDue, position, tracker
  <2>. QED BY <1>0, <2>1 DEF LoopShape
<1>17. CASE Finish
  BY <1>0, <1>17 DEF Finish, Closed, LoopShape, catchUp, tracker
<1>18. CASE World \/ SessionRefused
  <2>1. UNCHANGED <<pc, reason, session, used, buffer, batch, count, catching>> /\ (UNCHANGED faults \/ Fault)
    BY <1>18 DEF World, SessionRefused, Arrives, OthersMove, DeadlinePasses, CatchUpTimePasses, LockLapses, position,
                 catchUp, tracker
  <2>. QED BY <1>0, <1>00, <2>1 DEF LoopShape, Fault
<1>. QED
  BY <1>1, <1>2, <1>3, <1>4, <1>5, <1>7, <1>8, <1>9, <1>10, <1>11, <1>12, <1>13, <1>14, <1>15, <1>16, <1>17, <1>18
  DEF Next, Step, Process, Drain, End

(***************************************************************************)
(* receive_and_delete: what the broker deleted.                            *)
(***************************************************************************)

ReceivedIsKept ==
    \A m \in Seqs : loc[m] = "received" =>
        ~LockHolding /\ (faults = 0 => m \in written \cup disposed \cup buffer \cup batch)

\* A step without a fault is none of those that take one.
LEMMA FaultFreeStep ==
    ASSUME LoopTypeOK, [Next]_vars, faults' = 0
    PROVE  faults = 0 /\ ~Fault
<1>1. faults \in Nat
  BY RowTyped DEF LoopTypeOK, RowIsTyped
<1>2. UNCHANGED faults \/ Fault
  BY DEF Next, Step, Process, Drain, End, World, StopNow, StopOnState, OpenReceiver, SessionRefused, NoMoreSessions, ReceiveBatch,
         ConnectionFails, EmptySession, EmptyAndDrained, EmptyButRemaining, ProcessBatch, FailBatch,
         ProcessInterrupted, DrainAbandons, DrainWrites, DrainFails, FinishSession, CatchUp, Finish, Arrives,
         OthersMove, DeadlinePasses, CatchUpTimePasses, LockLapses, vars
<1>. QED BY <1>1, <1>2 DEF Fault

\* A lock-holding run never deletes on receive, and a fault-free run that does
\* has every deleted message in its hands until it is written.
LEMMA ReceivedStep ==
    ASSUME EntityInv, LoopTypeOK, LoopShape, ReceivedIsKept, [Next]_vars
    PROVE  ReceivedIsKept'
<1>0. RowKept /\ (faults' = 0 => faults = 0 /\ ~Fault)
  BY RowIsKept, FaultFreeStep
<1>. USE DEF RowKept
<1>1. ASSUME \A m \in Seqs : loc'[m] = "received" => loc[m] = "received",
             LockHolding \/ (faults' = 0 =>
                 written \cup disposed \cup buffer \cup batch \subseteq written' \cup disposed' \cup buffer' \cup batch')
      PROVE  ReceivedIsKept'
  BY <1>0, <1>1 DEF ReceivedIsKept
<1>2. ASSUME NEW D, Delete(D, "received"), ~LockHolding,
             faults' = 0 => written \cup disposed \cup buffer \cup batch \cup D
                               \subseteq written' \cup disposed' \cup buffer' \cup batch'
      PROVE  ReceivedIsKept'
  BY <1>0, <1>2 DEF ReceivedIsKept, Delete, Moved
<1>3. CASE ReceiveBatch
  <2>1. PICK D, R : /\ R \subseteq buffer \cup D /\ batch' = R /\ buffer' = (buffer \cup D) \ R
                    /\ IF LockHolding THEN UNCHANGED loc ELSE Delete(D, "received")
    BY <1>3 DEF ReceiveBatch
  <2>2. batch = {} /\ UNCHANGED <<written, disposed>>
    BY <1>3 DEF ReceiveBatch, Stepping, LoopShape, results
  <2>. QED BY <1>1, <1>2, <2>1, <2>2
<1>4. CASE ConnectionFails \/ DrainFails
  <2>1. PICK D : IF LockHolding THEN UNCHANGED loc ELSE Delete(D, "received")
    BY <1>4 DEF ConnectionFails, DrainFails
  <2>2. faults' # 0
    BY <1>0, <1>4 DEF ConnectionFails, DrainFails
  <2>. QED BY <1>1, <1>2, <2>1, <2>2
<1>5. CASE ProcessBatch \/ FailBatch \/ ProcessInterrupted
  <2>1. CASE LockHolding
    <3>1. PICK S, X, A, closing : Processed(S, X, A, closing)
      BY <1>5, BatchIsProcessed
    <3>2. ASSUME NEW m \in Seqs PROVE loc'[m] \in {"completed", "deferred", "dead_lettered", "exhausted", loc[m]}
      BY <2>1, <3>1 DEF Processed
    <3>. QED BY <1>1, <2>1, <3>2
  <2>2. CASE ~LockHolding
    <3>1. PICK U \in SUBSET batch, A \in SUBSET batch :
             /\ A = {} /\ UNCHANGED loc /\ UNCHANGED buffer
             /\ written' = written \cup (batch \ U) /\ disposed' = disposed \cup (U \ A)
      <4>1. CASE ProcessBatch
        BY <2>2, <4>1 DEF ProcessBatch, Unreadable, MayRetry, Processed, entityVars
      <4>2. CASE FailBatch
        BY <2>2, <4>2 DEF FailBatch, Unreadable, MayRetry, Processed, entityVars
      <4>3. CASE ProcessInterrupted
        BY <2>2, <4>3 DEF ProcessInterrupted, Unreadable, MayRetry, Processed, entityVars
      <4>. QED BY <1>5, <4>1, <4>2, <4>3
    <3>. QED BY <1>1, <3>1
  <2>. QED BY <2>1, <2>2
<1>6. CASE DrainAbandons
  BY <1>1, <1>6 DEF DrainAbandons, Release
<1>7. CASE DrainWrites
  <2>1. PICK D, U : /\ Delete(D, "received") /\ U \subseteq buffer \cup D
                    /\ written' = written \cup ((buffer \cup D) \ U) /\ disposed' = disposed \cup U
    BY <1>7 DEF DrainWrites
  <2>2. ~LockHolding /\ UNCHANGED batch
    BY <1>7 DEF DrainWrites
  <2>. QED BY <1>2, <2>1, <2>2
<1>8. CASE EmptySession \/ EmptyButRemaining \/ FinishSession \/ Finish
  <2>1. UNCHANGED <<loc, written, disposed>> /\ buffer = {} /\ batch = {}
    BY <1>8 DEF EmptySession, EmptyButRemaining, FinishSession, Finish, EmptyReceive, Stepping, LoopShape, results
  <2>. QED BY <1>1, <2>1
<1>9. ASSUME NEW m \in Seqs, LockLapses(m) PROVE ReceivedIsKept'
  <2>1. UNCHANGED <<written, disposed, buffer, batch>> /\ \A k \in Seqs : loc'[k] \in {"exhausted", loc[k]}
    BY <1>9 DEF LockLapses, Release, results
  <2>. QED BY <1>1, <2>1
<1>10. CASE UNCHANGED <<loc, written, disposed, buffer, batch>>
  BY <1>1, <1>10
<1>. QED
  BY <1>3, <1>4, <1>5, <1>6, <1>7, <1>8, <1>9, <1>10
  DEF Next, Step, Process, Drain, End, World, StopNow, StopOnState, OpenReceiver, SessionRefused, NoMoreSessions, EmptyAndDrained,
      CatchUp, Arrives, OthersMove, DeadlinePasses, CatchUpTimePasses, vars, entityVars, results

LoopInv == TypeInv /\ LoopShape /\ ReceivedIsKept

\* So the invariants of the loop hold throughout.
LEMMA LoopInvariant == Spec => []LoopInv
<1>1. Init => LoopShape /\ ReceivedIsKept
  BY DEF Init, EntityInit, LoopShape, ReceivedIsKept
<1>2. TypeInv /\ LoopShape /\ ReceivedIsKept /\ [Next]_vars => (LoopShape /\ ReceivedIsKept)'
  BY ShapeStep, ReceivedStep DEF TypeInv
<1>. QED BY <1>1, <1>2, TypeInvariant, PTL DEF Spec, LoopInv

\* receive_and_delete loses nothing without a failed connection: whatever the
\* stops, sessions, limits and unreadable bodies, a deleted message has a row, was
\* disposed of, or is still in the run's hands.
THEOREM DeletedIsAlwaysWritten == Spec => []DeletedIsWritten
<1>1. LoopInv => DeletedIsWritten
  BY DEF LoopInv, ReceivedIsKept, DeletedIsWritten
<1>. QED BY <1>1, LoopInvariant, PTL

(***************************************************************************)
(* max_messages.                                                           *)
(***************************************************************************)

Got == written \cup disposed

\* How far a receive_and_delete run may have passed the limit so far: by what a
\* stop drain brings (prefetch is 1) for each session that is finished, or for
\* the end of the run.
OpenSession == IF pc \in {"step", "process", "drain"} THEN {session} ELSE {}
PassedBy ==
    IF LockHolding THEN 0
    ELSE IF Sessions /\ StopAtStart THEN 2 * Cardinality(seen \ OpenSession)
    ELSE IF pc \in {"step", "process", "drain"} THEN 0 ELSE 2

LimitInv ==
    Limit > 0 /\ faults = 0 =>
        /\ taken <= Limit
        /\ pc = "process" => taken + Cardinality(batch) <= Limit
        /\ reason # "error" => Cardinality(Got) <= taken + PassedBy
        /\ Cardinality(Got) <= Limit + PassedBy
        /\ Sessions /\ pc \in {"step", "process", "drain"} /\ session # "none" => session \in seen

\* Adding to a set adds at most as many elements.
LEMMA UnionIsBounded ==
    ASSUME NEW S, NEW T, NEW V, IsFiniteSet(S), IsFiniteSet(T), V \subseteq S \cup T
    PROVE  IsFiniteSet(V) /\ Cardinality(V) <= Cardinality(S) + Cardinality(T)
<1>1. /\ Cardinality(S) \in Nat /\ Cardinality(T) \in Nat /\ IsFiniteSet(S \cup T)
      /\ Cardinality(S \cup T) = Cardinality(S) + Cardinality(T) - Cardinality(S \cap T)
      /\ Cardinality(S \cap T) \in Nat /\ Cardinality(S \cup T) \in Nat
  BY FS_Union, FS_Intersection, FS_CardinalityType
<1>2. IsFiniteSet(V) /\ Cardinality(V) <= Cardinality(S \cup T) /\ Cardinality(V) \in Nat
  BY <1>1, FS_Subset, FS_CardinalityType
<1>. QED BY <1>1, <1>2

\* The sessions handed out are finitely many; the ones finished are fewer.
LEMMA SeenIsFinite ==
    ASSUME LoopTypeOK
    PROVE  \A S \in SUBSET SessionIds : IsFiniteSet(S) /\ Cardinality(S) \in Nat
<1>1. IsFiniteSet(SessionIds)
  <2>. DEFINE f == [m \in Seqs |-> row.sessionOf[m]]
  <2>1. f \in Surjection(Seqs, SessionIds)
    BY DEF SessionIds, Surjection
  <2>. HIDE DEF f
  <2>. QED BY <2>1, SeqsAssumption, FS_Surjection
<1>. QED BY <1>1, FS_Subset, FS_CardinalityType

\* What a step may do to the bound of a fault-free run.  It grows with the
\* sessions finished and at the end of the run.
LEMMA PassedByGrows ==
    ASSUME LoopTypeOK, LoopTypeOK', RowKept,
           LockHolding \/ ~(Sessions /\ StopAtStart) \/ seen \ OpenSession \subseteq seen' \ OpenSession',
           LockHolding \/ (Sessions /\ StopAtStart) \/ pc \in {"step", "process", "drain"}
                       \/ pc' \notin {"step", "process", "drain"}
    PROVE  PassedBy \in Nat /\ PassedBy' \in Nat /\ PassedBy <= PassedBy'
<1>. DEFINE before == seen \ OpenSession
            after == seen' \ OpenSession'
<1>1. before \in SUBSET SessionIds /\ after \in SUBSET SessionIds
  BY DEF LoopTypeOK, RowKept
<1>2. /\ Cardinality(before) \in Nat /\ Cardinality(after) \in Nat
      /\ before \subseteq after => Cardinality(before) <= Cardinality(after)
  BY <1>1, SeenIsFinite, FS_Subset
<1>3. PassedBy' = IF LockHolding THEN 0
                  ELSE IF Sessions /\ StopAtStart THEN 2 * Cardinality(after)
                  ELSE IF pc' \in {"step", "process", "drain"} THEN 0 ELSE 2
  BY DEF PassedBy, RowKept
<1>4. PassedBy = IF LockHolding THEN 0
                 ELSE IF Sessions /\ StopAtStart THEN 2 * Cardinality(before)
                 ELSE IF pc \in {"step", "process", "drain"} THEN 0 ELSE 2
  BY DEF PassedBy
<1>. HIDE DEF before, after
<1>5. LockHolding \/ ~(Sessions /\ StopAtStart) \/ Cardinality(before) <= Cardinality(after)
  BY <1>2 DEF before, after
<1>. QED BY <1>2, <1>3, <1>4, <1>5

\* The limit's invariant is inductive.
LEMMA LimitStep ==
    ASSUME LoopTypeOK, LoopTypeOK', LoopShape, LimitInv, [Next]_vars
    PROVE  LimitInv'
<1>. SUFFICES ASSUME Limit > 0, faults' = 0 PROVE LimitInv'
  BY RowIsKept DEF LimitInv, RowKept
<1>0. /\ RowKept /\ faults = 0 /\ ~Fault /\ Limit \in Nat /\ BatchSize \in Nat \ {0} /\ "none" \notin SessionIds
      /\ taken \in Nat /\ Got \in SUBSET Seqs /\ batch \in SUBSET Seqs /\ buffer \in SUBSET Seqs /\ "none" \notin seen
      /\ count = 0 /\ ~catching /\ (~LockHolding => Prefetch = 1)
  BY RowIsKept, RowTyped, FaultFreeStep, ArrivedIsFinite DEF LoopTypeOK, RowIsTyped, LoopShape, Got
<1>00. /\ taken <= Limit
       /\ pc = "process" => taken + Cardinality(batch) <= Limit
       /\ reason # "error" => Cardinality(Got) <= taken + PassedBy
       /\ Cardinality(Got) <= Limit + PassedBy
       /\ Sessions /\ pc \in {"step", "process", "drain"} /\ session # "none" => session \in seen
  BY <1>0 DEF LimitInv
<1>000. \A S \in SUBSET Seqs : IsFiniteSet(S) /\ Cardinality(S) \in Nat
  BY ArrivedIsFinite
<1>1. ASSUME UNCHANGED <<taken, written, disposed>>, pc' = "process" => pc = "process" /\ UNCHANGED batch,
             reason' # "error" => reason # "error",
             PassedBy \in Nat /\ PassedBy' \in Nat /\ PassedBy <= PassedBy',
             Sessions /\ pc' \in {"step", "process", "drain"} /\ session' # "none" => session' \in seen'
      PROVE  LimitInv'
  <2>1. Got' = Got /\ Cardinality(Got) \in Nat
    BY <1>0, <1>000, <1>1 DEF Got
  <2>2. /\ taken' <= Limit /\ (reason' # "error" => Cardinality(Got') <= taken' + PassedBy')
        /\ Cardinality(Got') <= Limit + PassedBy'
    BY <1>0, <1>00, <1>1, <2>1
  <2>. QED BY <1>0, <1>1, <2>2 DEF LimitInv, RowKept
<1>2. CASE StopNow
  <2>1. UNCHANGED <<session, used, seen, taken, written, disposed>> /\ pc = "step" /\ pc' \in {"drain", "done"}
    BY <1>2 DEF StopNow, Ending, position, counters, results
  <2>2. PassedBy \in Nat /\ PassedBy' \in Nat /\ PassedBy <= PassedBy'
    BY <1>0, <2>1, PassedByGrows DEF OpenSession
  <2>. QED BY <1>00, <1>1, <2>1, <2>2 DEF LoopShape
<1>3. CASE OpenReceiver
  <2>1. PICK s \in SessionIds :
          /\ session' = s
          /\ IF Sessions /\ s \in seen
             THEN pc' = "done" /\ UNCHANGED seen
             ELSE seen' = (IF Sessions THEN seen \cup {s} ELSE seen) /\ UNCHANGED pc
    BY <1>3 DEF OpenReceiver
  <2>2. UNCHANGED <<taken, written, disposed>> /\ pc = "step" /\ session = "none" /\ reason = "none"
    BY <1>3 DEF OpenReceiver, Stepping, LoopShape, counters, results
  <2>3. PassedBy \in Nat /\ PassedBy' \in Nat /\ PassedBy <= PassedBy'
    <3>1. ASSUME Sessions PROVE seen \ OpenSession \subseteq seen' \ OpenSession'
      BY <1>0, <2>1, <2>2, <3>1 DEF OpenSession
    <3>. QED BY <1>0, <2>1, <2>2, <3>1, PassedByGrows
  <2>. QED BY <1>1, <2>1, <2>2, <2>3
<1>4. CASE NoMoreSessions \/ EmptySession \/ EmptyAndDrained \/ EmptyButRemaining
  <2>1. /\ UNCHANGED <<taken, written, disposed, seen>> /\ pc = "step" /\ pc' \in {"step", "done"}
        /\ session' = "none" \/ pc' = "done"
    BY <1>4 DEF NoMoreSessions, EmptySession, EmptyAndDrained, EmptyButRemaining, EmptyReceive, Stepping, Closed,
                position, counters, results
  <2>2. PassedBy \in Nat /\ PassedBy' \in Nat /\ PassedBy <= PassedBy'
    BY <1>0, <2>1, PassedByGrows DEF OpenSession
  <2>. QED BY <1>1, <2>1, <2>2 DEF LoopShape
<1>5. CASE ReceiveBatch
  <2>1. /\ UNCHANGED <<taken, written, disposed, seen, session, reason>> /\ pc = "step" /\ pc' = "process"
        /\ reason = "none" /\ Cardinality(batch') <= BatchCount /\ batch' \subseteq arrived
    BY <1>5 DEF ReceiveBatch, Stepping, LoopShape, counters, results
  <2>2. PassedBy \in Nat /\ PassedBy' \in Nat /\ PassedBy <= PassedBy'
    BY <1>0, <2>1, PassedByGrows DEF OpenSession
  <2>3. BatchCount <= Limit - taken /\ BatchCount \in Int
    BY <1>0, <1>00 DEF BatchCount
  <2>4. batch' \in SUBSET Seqs /\ Cardinality(batch') \in Nat
    BY <1>000, <2>1, ArrivedIsFinite
  <2>5. Got' = Got /\ Cardinality(Got) \in Nat
    BY <1>0, <1>000, <2>1 DEF Got
  <2>6. taken' + Cardinality(batch') <= Limit
    BY <1>0, <2>1, <2>3, <2>4
  <2>7. Cardinality(Got') <= taken' + PassedBy' /\ Cardinality(Got') <= Limit + PassedBy' /\ taken' <= Limit
    BY <1>0, <1>00, <2>1, <2>2, <2>5
  <2>. QED BY <1>0, <1>00, <2>1, <2>6, <2>7 DEF LimitInv, RowKept
<1>6. CASE ProcessBatch
  <2>1. PICK U \in SUBSET batch, A \in SUBSET batch :
              /\ Unreadable(U, A)
              /\ written' = written \cup (batch \ U)
              /\ disposed' = disposed \cup (U \ A)
              /\ taken' = IF Limit = 0 THEN 0 ELSE taken + Cardinality(batch \ A)
              /\ IF A # {} /\ ~Watermark THEN Closed ELSE UNCHANGED <<session, seen>>
    BY <1>6 DEF ProcessBatch, Interrupted, position
  <2>2. pc = "process" /\ reason = "none" /\ pc' \in {"step", "drain"} /\ reason' # "error"
    BY <1>6 DEF ProcessBatch, LoopShape
  <2>3. ~LockHolding => A = {}
    BY <2>1 DEF Unreadable, MayRetry
  <2>4. PassedBy \in Nat /\ PassedBy' \in Nat /\ PassedBy <= PassedBy'
    BY <1>0, <2>1, <2>2, <2>3, PassedByGrows DEF OpenSession
  <2>5. /\ IsFiniteSet(Got) /\ IsFiniteSet(batch \ A) /\ Cardinality(Got) \in Nat /\ Cardinality(batch \ A) \in Nat
        /\ Cardinality(batch \ A) <= Cardinality(batch) /\ Cardinality(batch) \in Nat
    <3>1. batch \ A \in SUBSET Seqs
      BY <1>0
    <3>. QED BY <1>0, <1>000, <3>1, FS_Subset
  <2>6. Got' \subseteq Got \cup (batch \ A)
    <3>1. A \subseteq U
      BY <2>1 DEF Unreadable
    <3>. QED BY <2>1, <3>1 DEF Got
  <2>7. IsFiniteSet(Got') /\ Cardinality(Got') <= Cardinality(Got) + Cardinality(batch \ A)
    BY <2>5, <2>6, UnionIsBounded
  <2>8. Cardinality(Got') \in Nat /\ taken' = taken + Cardinality(batch \ A)
    BY <1>0, <2>1, <2>7, FS_CardinalityType
  <2>9. /\ taken' <= Limit /\ Cardinality(Got') <= taken' + PassedBy' /\ Cardinality(Got') <= Limit + PassedBy'
    BY <1>0, <1>00, <2>2, <2>4, <2>5, <2>7, <2>8
  <2>10. Sessions /\ session' # "none" => session' \in seen'
    BY <1>00, <2>1, <2>2 DEF Closed
  <2>. QED BY <1>0, <2>2, <2>9, <2>10 DEF LimitInv, RowKept
<1>7. CASE FailBatch
  <2>1. PICK U \in SUBSET batch, A \in SUBSET batch :
              written' = written \cup (batch \ U) /\ disposed' = disposed \cup (U \ A)
    BY <1>7 DEF FailBatch
  <2>2. pc = "process" /\ reason = "none" /\ pc' = "drain" /\ reason' = "error" /\ UNCHANGED <<taken, session, seen>>
    BY <1>7 DEF FailBatch, LoopShape, position, counters
  <2>3. PassedBy \in Nat /\ PassedBy' \in Nat /\ PassedBy <= PassedBy'
    BY <1>0, <2>2, PassedByGrows DEF OpenSession
  <2>4. IsFiniteSet(Got) /\ IsFiniteSet(batch) /\ Cardinality(Got) \in Nat /\ Cardinality(batch) \in Nat
    BY <1>0, <1>000
  <2>5. IsFiniteSet(Got') /\ Cardinality(Got') <= Cardinality(Got) + Cardinality(batch)
    <3>1. Got' \subseteq Got \cup batch
      BY <2>1 DEF Got
    <3>. QED BY <2>4, <3>1, UnionIsBounded
  <2>6. Cardinality(Got') <= Limit + PassedBy' /\ taken' <= Limit
    BY <1>0, <1>00, <2>2, <2>3, <2>4, <2>5, FS_CardinalityType
  <2>. QED BY <1>0, <1>00, <2>2, <2>6 DEF LimitInv, RowKept
<1>8. CASE DrainAbandons
  <2>1. UNCHANGED <<taken, written, disposed, reason>> /\ pc = "drain" /\ pc' \in {"next", "done"} /\ LockHolding
    BY <1>8 DEF DrainAbandons, Drained, counters, results
  <2>2. PassedBy \in Nat /\ PassedBy' \in Nat /\ PassedBy <= PassedBy'
    BY <1>0, <2>1, PassedByGrows
  <2>. QED BY <1>1, <2>1, <2>2
<1>9. CASE DrainWrites
  <2>1. PICK D \in SUBSET Seqs, U \in SUBSET Bad :
          /\ U \subseteq buffer \cup D /\ Cardinality(buffer \cup D) <= Prefetch + 1
          /\ written' = written \cup ((buffer \cup D) \ U)
          /\ disposed' = disposed \cup U
    BY <1>9 DEF DrainWrites, DrainDelivery, Available, Receivable
  <2>2. /\ UNCHANGED <<taken, seen, session>> /\ pc = "drain" /\ pc' \in {"next", "done"} /\ ~LockHolding
        /\ reason' = reason \/ reason' = "error"
        /\ pc' = "next" => reason = "none"
    BY <1>9 DEF DrainWrites, Drained, position, counters
  <2>3. PassedBy \in Nat /\ PassedBy' \in Nat /\ PassedBy + 2 <= PassedBy'
    <3>1. CASE Sessions /\ StopAtStart
      <4>1. session \in seen /\ seen \in SUBSET SessionIds
        BY <1>0, <1>00, <2>2, <3>1 DEF LoopShape, LoopTypeOK
      <4>2. Cardinality(seen \ {session}) = Cardinality(seen) - 1 /\ Cardinality(seen) \in Nat
            /\ Cardinality(seen \ {session}) \in Nat
        <5>1. seen \ {session} \in SUBSET SessionIds
          BY <4>1
        <5>. QED BY <4>1, <5>1, SeenIsFinite, FS_RemoveElement
      <4>3. PassedBy = 2 * Cardinality(seen \ {session}) /\ PassedBy' = 2 * Cardinality(seen)
        <5>1. seen' \ OpenSession' = seen /\ seen \ OpenSession = seen \ {session}
          BY <2>2 DEF OpenSession
        <5>. QED BY <1>0, <2>2, <3>1, <5>1 DEF PassedBy, RowKept
      <4>. QED BY <4>2, <4>3
    <3>2. CASE ~(Sessions /\ StopAtStart)
      BY <1>0, <2>2, <3>2 DEF PassedBy, RowKept
    <3>. QED BY <3>1, <3>2
  <2>4. /\ IsFiniteSet(Got) /\ IsFiniteSet(buffer \cup D) /\ Cardinality(Got) \in Nat
        /\ Cardinality(buffer \cup D) \in Nat /\ Cardinality(buffer \cup D) <= 2
    <3>1. buffer \cup D \in SUBSET Seqs
      BY <1>0
    <3>. QED BY <1>0, <1>000, <2>1, <2>2, <3>1
  <2>5. IsFiniteSet(Got') /\ Cardinality(Got') <= Cardinality(Got) + Cardinality(buffer \cup D)
    <3>1. Got' \subseteq Got \cup (buffer \cup D)
      BY <2>1 DEF Got
    <3>. QED BY <2>4, <3>1, UnionIsBounded
  <2>6. Cardinality(Got') \in Nat
    BY <2>5, FS_CardinalityType
  <2>7. /\ taken' <= Limit /\ Cardinality(Got') <= Limit + PassedBy'
        /\ reason' # "error" => Cardinality(Got') <= taken' + PassedBy'
    BY <1>0, <1>00, <2>2, <2>3, <2>4, <2>5, <2>6
  <2>. QED BY <1>0, <2>2, <2>7 DEF LimitInv, RowKept
<1>10. CASE FinishSession \/ Finish
  <2>1. /\ UNCHANGED <<taken, written, disposed, reason, seen>> /\ session' = "none"
        /\ \/ pc = "next" /\ pc' = "step"
           \/ pc = "done" /\ pc' = "over"
    BY <1>10 DEF FinishSession, Finish, Closed, counters, results
  <2>2. pc = "next" => Sessions /\ StopAtStart
    BY DEF LoopShape
  <2>3. PassedBy \in Nat /\ PassedBy' \in Nat /\ PassedBy <= PassedBy'
    BY <1>0, <2>1, <2>2, PassedByGrows DEF OpenSession
  <2>. QED BY <1>1, <2>1, <2>3
<1>11. CASE CatchUp
  BY <1>0, <1>11 DEF CatchUp, CatchUpDue
<1>12. CASE World \/ SessionRefused \/ UNCHANGED vars
  <2>1. UNCHANGED <<taken, written, disposed, reason, seen, session, pc, batch>>
    BY <1>12 DEF World, SessionRefused, Arrives, OthersMove, DeadlinePasses, CatchUpTimePasses, LockLapses, vars,
                 position, counters, results
  <2>2. PassedBy \in Nat /\ PassedBy' \in Nat /\ PassedBy <= PassedBy'
    BY <1>0, <2>1, PassedByGrows DEF OpenSession
  <2>. QED BY <1>00, <1>1, <2>1, <2>2
<1>13. CASE StopOnState \/ ConnectionFails \/ ProcessInterrupted \/ DrainFails
  BY <1>0, <1>13 DEF StopOnState, ConnectionFails, ProcessInterrupted, DrainFails
<1>. QED
  BY <1>2, <1>3, <1>4, <1>5, <1>6, <1>7, <1>8, <1>9, <1>10, <1>11, <1>12, <1>13
  DEF Next, Step, Process, Drain, End

\* A run without a failed connection takes at most max_messages; with
\* receive_and_delete it passes it by no more than what the stop drains of its
\* sessions, or of its end, bring.
THEOREM LimitIsKept == Spec => []LimitHolds
<1>1. Init => LimitInv
  BY RowTyped, FS_EmptySet DEF Init, LimitInv, PassedBy, Got, OpenSession, RowIsTyped
<1>2. LoopInv /\ LoopInv' /\ LimitInv /\ [Next]_vars => LimitInv'
  BY LimitStep DEF LoopInv, TypeInv
<1>3. LoopInv /\ LimitInv => LimitHolds
  <2>. SUFFICES ASSUME LoopInv, LimitInv, Limit > 0, faults = 0 PROVE LimitHolds
    BY DEF LimitHolds
  <2>0. LoopTypeOK
    BY DEF LoopInv, TypeInv
  <2>1. Cardinality(Got) <= Limit + PassedBy /\ Limit \in Nat /\ Cardinality(Got) \in Nat
    <3>1. Got \in SUBSET Seqs
      BY <2>0, ArrivedIsFinite DEF Got, LoopTypeOK
    <3>. QED BY <2>0, <3>1, ArrivedIsFinite, RowTyped DEF LimitInv, LoopTypeOK, RowIsTyped
  <2>2. CASE LockHolding
    BY <2>1, <2>2 DEF LimitHolds, Got, PassedBy
  <2>3. CASE ~LockHolding
    <3>1. Prefetch + 1 = 2
      BY <2>0, <2>3, RowTyped DEF LoopTypeOK, RowIsTyped
    <3>2. PassedBy \in Nat /\ StopDrains \in Nat /\ PassedBy <= 2 * StopDrains
      <4>1. /\ seen \ OpenSession \in SUBSET SessionIds /\ seen \in SUBSET SessionIds
        BY <2>0 DEF LoopTypeOK
      <4>2. /\ Cardinality(seen \ OpenSession) \in Nat /\ Cardinality(seen) \in Nat
            /\ Cardinality(seen \ OpenSession) <= Cardinality(seen)
        BY <2>0, <4>1, SeenIsFinite, FS_Subset
      <4>. QED BY <2>3, <4>2 DEF PassedBy, StopDrains
    <3>3. StopDrains * (Prefetch + 1) = 2 * StopDrains
      BY <3>1, <3>2
    <3>. QED BY <2>1, <2>3, <3>2, <3>3 DEF LimitHolds, Got
  <2>. QED BY <2>2, <2>3
<1>. QED BY <1>1, <1>2, <1>3, LoopInvariant, PTL DEF Spec

(***************************************************************************)
(* No silent partial run.                                                  *)
(***************************************************************************)

\* The rows whose reads come in order as far as the stop rules rely on it.  A
\* plain entity delivers in order until an unreadable body is abandoned and comes
\* back after newer messages; a partitioned one never does, so a stop at the job
\* start is only approximate on it.
OrderedReads ==
    \A r \in Rows :
        \/ r.sessionEnabled
        \/ r.partitioned /\ ~r.stopAtStart
        \/ ~r.partitioned /\ (r.bad = {} \/ r.mode = "receive_and_delete")

\* The first of a set, and the rest of it.
LEMMA LowestIsBelow ==
    ASSUME NEW S \in SUBSET Seqs, NEW n \in Nat, NEW m \in Lowest(S, n), NEW k \in S \ Lowest(S, n)
    PROVE  m < k
<1>. SUFFICES ASSUME ~(m < k) PROVE FALSE
  OBVIOUS
<1>1. m \in Nat /\ k \in Nat /\ m \in S /\ k \in S /\ m # k
  BY SeqsAssumption DEF Lowest
<1>2. {j \in S : j < k} \subseteq {j \in S : j < m}
  <2>. SUFFICES ASSUME NEW j \in S, j < k PROVE j < m
    OBVIOUS
  <2>1. j \in Nat
    BY SeqsAssumption
  <2>. QED BY <1>1, <2>1
<1>3. /\ IsFiniteSet({j \in S : j < m}) /\ Cardinality({j \in S : j < m}) \in Nat
      /\ Cardinality({j \in S : j < k}) \in Nat
      /\ Cardinality({j \in S : j < k}) <= Cardinality({j \in S : j < m})
  <2>1. IsFiniteSet({j \in S : j < m})
    <3>1. {j \in S : j < m} \subseteq Seqs
      OBVIOUS
    <3>. QED BY <3>1, SeqsAssumption, FS_Subset
  <2>. QED BY <1>2, <2>1, FS_Subset, FS_CardinalityType
<1>4. Cardinality({j \in S : j < m}) < n /\ ~(Cardinality({j \in S : j < k}) < n)
  BY <1>1 DEF Lowest
<1>. QED BY <1>3, <1>4

Reading == pc \in {"step", "process"}

\* The order of a fault-free run on a plain entity: what is processed comes before
\* the batch, the batch before the local buffer, the buffer before what the
\* broker still has, and that before what is to arrive.
OrderNow ==
    /\ \A m \in Newer \ arrived : highest < m /\ \A k \in arrived : k < m
    /\ \A m \in arrived : loc[m] = "active" => highest < m
    /\ Reading =>
          /\ \A m \in Seqs : /\ lock[m] # "adrift"
                             /\ lock[m] = "hand" => m \in batch
                             /\ lock[m] = "buffer" => m \in buffer
          /\ \A m \in batch : IF LockHolding THEN lock[m] = "hand" ELSE loc[m] = "received"
          /\ \A m \in buffer : IF LockHolding THEN lock[m] = "buffer" ELSE loc[m] = "received"
          /\ \A m \in batch, k \in buffer : m < k
          /\ \A m \in batch \cup buffer, k \in arrived \cap Receivable : m < k

InOrder == ~Sessions /\ ~Partitioned /\ faults = 0 => OrderNow

\* Every step keeps the order.
LEMMA OrderStep ==
    ASSUME OrderedReads, EntityInv, LoopTypeOK, LoopShape, InOrder, [Next]_vars
    PROVE  InOrder'
<1>. SUFFICES ASSUME ~Sessions, ~Partitioned, faults' = 0 PROVE OrderNow'
  BY RowIsKept DEF InOrder, RowKept
<1>0. /\ RowKept /\ faults = 0 /\ ~Fault /\ count = 0 /\ ~catching
      /\ arrived \subseteq Seqs /\ batch \subseteq arrived /\ buffer \subseteq arrived
      /\ Newer \subseteq Seqs /\ Seqs \subseteq Nat /\ highest \in Nat /\ arrived \subseteq Old \cup Newer
      /\ LockHolding => Bad = {}
  <2>1. LockHolding => Bad = {}
    BY DEF OrderedReads, LoopTypeOK, LockHolding, Mode, Bad, Sessions, Partitioned
  <2>2. RowIsTyped /\ 0 \in Nat /\ highest \in Seqs \cup {0} /\ Seqs \subseteq Nat
    BY RowTyped, SeqsAssumption DEF LoopTypeOK
  <2>3. faults = 0 /\ ~Fault /\ count \in Nat
    BY <2>2, FaultFreeStep DEF LoopTypeOK, RowIsTyped
  <2>. QED BY <2>1, <2>2, <2>3, RowIsKept, ArrivedIsFinite DEF LoopTypeOK, RowIsTyped, LoopShape
<1>00. OrderNow
  BY <1>0 DEF InOrder
<1>1. ASSUME UNCHANGED <<arrived, highest>>, ~Reading', \A m \in Seqs : loc'[m] = "active" => loc[m] = "active"
      PROVE  OrderNow'
  BY <1>0, <1>00, <1>1 DEF OrderNow, RowKept
<1>2. ASSUME UNCHANGED <<arrived, highest, loc, lock, batch, buffer>>, Reading' => Reading
      PROVE  OrderNow'
  BY <1>0, <1>00, <1>2 DEF OrderNow, RowKept, Receivable
<1>3. CASE ReceiveBatch
  <2>0. /\ batch = {} /\ Reading /\ UNCHANGED <<arrived, highest>> /\ session \in SessionIds
    BY <1>3 DEF ReceiveBatch, Stepping, LoopShape, LoopTypeOK, Reading, env
  <2>1. PICK D \in SUBSET Available(session), R \in SUBSET arrived :
          /\ D = Lowest(Available(session), Cardinality(D))
          /\ R \subseteq buffer \cup D
          /\ IF R \subseteq buffer THEN R = Lowest(buffer, Cardinality(R))
             ELSE buffer \subseteq R /\ R \ buffer = Lowest(D \ buffer, Cardinality(R \ buffer))
          /\ batch' = R /\ buffer' = (buffer \cup D) \ R
          /\ IF LockHolding
             THEN /\ lock' = [m \in Seqs |->
                        IF m \in D \/ (m \in buffer /\ lock[m] = "buffer")
                        THEN (IF m \in R THEN "hand" ELSE "buffer") ELSE lock[m]]
                  /\ UNCHANGED loc
             ELSE Delete(D, "received")
    BY <1>3 DEF ReceiveBatch, Delivery
  <2>2. Available(session) = arrived \cap Receivable
    <3>1. \A m \in Seqs : row.sessionOf[m] = session
      BY <2>0, RowTyped DEF LoopTypeOK, RowIsTyped, SessionIds
    <3>. QED BY <1>0, <3>1 DEF Available, Receivable
  <2>3. \A S \in SUBSET Seqs : Cardinality(S) \in Nat
    BY ArrivedIsFinite
  <2>4. D \subseteq arrived \cap Receivable /\ D \subseteq Seqs /\ R \subseteq Seqs /\ buffer \subseteq Seqs
    BY <1>0, <2>1, <2>2
  <2>5. \A m \in D, k \in (arrived \cap Receivable) \ D : m < k
    <3>1. Available(session) \in SUBSET Seqs /\ Cardinality(D) \in Nat
      BY <1>0, <2>2, <2>3, <2>4
    <3>. QED BY <2>1, <2>2, <3>1, LowestIsBelow
  <2>6. \A m \in buffer, k \in arrived \cap Receivable : m < k
    BY <1>00, <2>0 DEF OrderNow
  <2>7. \A m \in R, k \in (buffer \cup D) \ R : m < k
    <3>1. CASE R \subseteq buffer
      <4>1. \A m \in R, k \in buffer \ R : m < k
        <5>1. R = Lowest(buffer, Cardinality(R)) /\ Cardinality(R) \in Nat /\ buffer \in SUBSET Seqs
          BY <2>1, <2>3, <2>4, <3>1
        <5>. QED BY <5>1, LowestIsBelow
      <4>. QED BY <2>4, <2>6, <3>1, <4>1
    <3>2. CASE ~(R \subseteq buffer)
      <4>1. \A m \in R \ buffer, k \in (D \ buffer) \ (R \ buffer) : m < k
        <5>1. /\ R \ buffer = Lowest(D \ buffer, Cardinality(R \ buffer)) /\ Cardinality(R \ buffer) \in Nat
              /\ D \ buffer \in SUBSET Seqs
          BY <2>1, <2>3, <2>4, <3>2
        <5>. QED BY <5>1, LowestIsBelow
      <4>. QED BY <2>1, <2>4, <2>6, <3>2, <4>1
    <3>. QED BY <3>1, <3>2
  <2>8. arrived \cap Receivable' \subseteq (arrived \cap Receivable) \ D
    <3>1. CASE LockHolding
      BY <1>00, <2>0, <2>1, <2>4, <3>1 DEF Receivable, OrderNow, EntityInv, EntityTypeOK
    <3>2. CASE ~LockHolding
      BY <2>1, <2>4, <3>2 DEF Receivable, Delete, Moved
    <3>. QED BY <3>1, <3>2
  <2>9. \A m \in R \cup ((buffer \cup D) \ R), k \in arrived \cap Receivable' : m < k
    BY <2>1, <2>5, <2>6, <2>8
  <2>10. \A m \in Seqs : /\ lock'[m] # "adrift"
                         /\ lock'[m] = "hand" => m \in R
                         /\ lock'[m] = "buffer" => m \in (buffer \cup D) \ R
    <3>1. CASE LockHolding
      BY <1>00, <2>0, <2>1, <3>1 DEF OrderNow
    <3>2. CASE ~LockHolding
      <4>1. \A m \in Seqs : lock'[m] = lock[m] /\ lock[m] = "free"
        BY <1>0, <1>00, <2>0, <2>1, <3>2 DEF OrderNow, Delete, EntityInv, EntityTypeOK, DeliveryLeft, Holders
      <4>. QED BY <4>1
    <3>. QED BY <3>1, <3>2
  <2>11. /\ \A m \in R : IF LockHolding THEN lock'[m] = "hand" ELSE loc'[m] = "received"
         /\ \A m \in (buffer \cup D) \ R : IF LockHolding THEN lock'[m] = "buffer" ELSE loc'[m] = "received"
    <3>1. CASE LockHolding
      BY <1>00, <2>0, <2>1, <2>4, <3>1 DEF OrderNow
    <3>2. CASE ~LockHolding
      BY <1>00, <2>0, <2>1, <2>4, <3>2 DEF OrderNow, Delete, Moved
    <3>. QED BY <3>1, <3>2
  <2>12. \A m \in arrived : loc'[m] = "active" => highest < m
    <3>1. \A m \in arrived : loc'[m] = "active" => loc[m] = "active"
      BY <1>0, <2>1 DEF Delete, Moved
    <3>. QED BY <1>00, <3>1 DEF OrderNow
  <2>. QED BY <1>0, <1>00, <2>0, <2>1, <2>7, <2>9, <2>10, <2>11, <2>12 DEF OrderNow, RowKept
<1>4. CASE ProcessBatch
  <2>0. Reading /\ UNCHANGED arrived /\ highest' = Highest /\ batch \subseteq Seqs
    BY <1>0, <1>4 DEF ProcessBatch, Reading, env
  <2>1. PICK U \in SUBSET batch, A \in SUBSET batch :
          /\ Unreadable(U, A) /\ Processed(batch \ U, U \ A, A, A # {} /\ ~Watermark)
          /\ A = {} => batch' = {} /\ UNCHANGED buffer
    BY <1>4 DEF ProcessBatch
  <2>2. A = {} /\ (LockHolding => U = {}) /\ batch' = {} /\ UNCHANGED buffer
    BY <1>0, <2>1 DEF Unreadable, MayRetry
  <2>3. /\ LockHolding => /\ Holding(batch \ U) = batch /\ Holding(U \ A) = {} /\ Holding(A) = {}
    BY <1>00, <2>0, <2>2 DEF Holding, OrderNow
  <2>4. LockHolding => \A m \in Seqs : /\ m \in batch => loc'[m] # "active" /\ lock'[m] = "free"
                                       /\ m \notin batch => loc'[m] = loc[m] /\ lock'[m] = lock[m]
    <3>. SUFFICES ASSUME LockHolding, NEW m \in Seqs
                  PROVE  /\ m \in batch => loc'[m] # "active" /\ lock'[m] = "free"
                         /\ m \notin batch => loc'[m] = loc[m] /\ lock'[m] = lock[m]
      OBVIOUS
    <3>. DEFINE place == IF Mode = "complete" THEN "completed" ELSE "deferred"
    <3>1. /\ loc' = [k \in Seqs |-> CASE k \in Holding(batch \ U) -> place
                                     [] k \in (IF Policy = "dead_letter" THEN Holding(U \ A) ELSE {}) -> "dead_lettered"
                                     [] k \in {j \in Holding(A) : dc[j] + 1 >= MaxDelivery} -> "exhausted"
                                     [] OTHER -> loc[k]]
          /\ lock' = [k \in Seqs |-> IF k \in Holding(batch \ U)
                                             \cup (IF Policy = "dead_letter" THEN Holding(U \ A) ELSE {})
                                             \cup Holding(A)
                                     THEN "free" ELSE IF A # {} /\ ~Watermark THEN Adrift[k] ELSE lock[k]]
      BY <2>1 DEF Processed
    <3>2. /\ (IF Policy = "dead_letter" THEN Holding(U \ A) ELSE {}) = {}
          /\ {j \in Holding(A) : dc[j] + 1 >= MaxDelivery} = {}
          /\ Holding(batch \ U) = batch /\ Holding(A) = {} /\ ~(A # {} /\ ~Watermark)
      BY <2>2, <2>3
    <3>3. place # "active"
      OBVIOUS
    <3>. HIDE DEF place
    <3>. QED BY <3>1, <3>2, <3>3
  <2>5. ~LockHolding => UNCHANGED <<loc, lock>>
    BY <2>1 DEF Processed, entityVars
  <2>6. /\ Highest \in batch \cup {highest} /\ \A m \in batch \cup {highest} : m <= Highest
    BY HighestIsGreatest
  <2>7. \A m \in arrived : loc'[m] = "active" =>
            loc[m] = "active" /\ m \notin batch /\ (lock[m] = "free" \/ m \in buffer)
    <3>1. CASE LockHolding
      BY <1>0, <1>00, <2>0, <2>4, <3>1 DEF OrderNow, EntityInv, EntityTypeOK, Holders
    <3>2. CASE ~LockHolding
      BY <1>0, <1>00, <2>0, <2>5, <3>2 DEF OrderNow, EntityInv, EntityTypeOK, Holders
    <3>. QED BY <3>1, <3>2
  <2>8. \A m \in arrived : loc'[m] = "active" => highest < m /\ \A k \in batch : k < m
    BY <1>0, <1>00, <2>0, <2>7 DEF OrderNow, Receivable
  <2>9. /\ \A m \in arrived : loc'[m] = "active" => Highest < m
        /\ \A m \in Newer \ arrived : Highest < m
    BY <1>0, <1>00, <2>6, <2>8 DEF OrderNow
  <2>10. arrived \cap Receivable' \subseteq arrived \cap Receivable
    <3>1. CASE LockHolding
      BY <1>0, <2>4, <3>1 DEF Receivable
    <3>2. CASE ~LockHolding
      BY <2>5, <3>2 DEF Receivable
    <3>. QED BY <3>1, <3>2
  <2>11. /\ \A m \in Seqs : /\ lock'[m] # "adrift"
                            /\ lock'[m] # "hand"
                            /\ lock'[m] = "buffer" => m \in buffer
         /\ \A m \in buffer : IF LockHolding THEN lock'[m] = "buffer" ELSE loc'[m] = "received"
    <3>1. CASE LockHolding
      <4>1. \A m \in buffer : m \notin batch
        BY <1>0, <1>00, <2>0, <3>1 DEF OrderNow
      <4>. QED BY <1>0, <1>00, <2>0, <2>4, <3>1, <4>1 DEF OrderNow
    <3>2. CASE ~LockHolding
      <4>1. \A m \in Seqs : lock'[m] = lock[m] /\ lock[m] = "free"
        BY <1>0, <1>00, <2>0, <2>5, <3>2 DEF OrderNow, EntityInv, EntityTypeOK, DeliveryLeft, Holders
      <4>. QED BY <1>00, <2>0, <2>5, <3>2, <4>1 DEF OrderNow
    <3>. QED BY <3>1, <3>2
  <2>. QED BY <1>0, <1>00, <2>0, <2>2, <2>9, <2>10, <2>11 DEF OrderNow, RowKept
<1>5. CASE FailBatch
  <2>1. PICK S, X, A, closing : Processed(S, X, A, closing)
    BY <1>5 DEF FailBatch
  <2>2. \A m \in Seqs : loc'[m] = "active" => loc[m] = "active"
    <3>1. CASE LockHolding
      BY <2>1, <3>1 DEF Processed
    <3>2. CASE ~LockHolding
      BY <2>1, <3>2 DEF Processed, entityVars
    <3>. QED BY <3>1, <3>2
  <2>. QED BY <1>1, <1>5, <2>2 DEF FailBatch, Reading, env, counters
<1>6. CASE DrainAbandons \/ DrainWrites
  <2>1. \A m \in Seqs : loc'[m] = "active" => loc[m] = "active"
    <3>1. (\E S : Release(S)) \/ (\E S : Delete(S, "received"))
      BY <1>6 DEF DrainAbandons, DrainWrites
    <3>. QED BY <3>1 DEF Release, Delete, Moved
  <2>2. ~Reading' /\ UNCHANGED <<arrived, highest>>
    BY <1>6 DEF DrainAbandons, DrainWrites, Drained, Reading, env, counters
  <2>. QED BY <1>1, <2>1, <2>2
<1>7. CASE StopNow \/ EmptyAndDrained \/ Finish
  <2>1. UNCHANGED <<arrived, highest, loc>> /\ ~Reading'
    BY <1>7 DEF StopNow, Ending, EmptyAndDrained, Finish, Reading, entityVars, env, counters
  <2>. QED BY <1>1, <2>1
<1>8. CASE EmptyButRemaining
  <2>1. UNCHANGED <<arrived, highest, loc>> /\ Reading /\ buffer = {} /\ batch = {}
    BY <1>8 DEF EmptyButRemaining, EmptyReceive, Stepping, LoopShape, Reading, env
  <2>2. ~Reading' \/ (lock' = Adrift /\ batch' = {} /\ buffer' = {})
    BY <1>8 DEF EmptyButRemaining, Closed, Reading
  <2>3. \A m \in Seqs : lock[m] = "free" /\ Adrift[m] = lock[m]
    BY <1>00, <2>1 DEF OrderNow, Adrift, EntityInv, EntityTypeOK, Holders
  <2>4. CASE ~Reading'
    BY <1>1, <2>1, <2>4
  <2>5. CASE lock' = Adrift /\ batch' = {} /\ buffer' = {}
    BY <1>0, <1>00, <2>1, <2>3, <2>5 DEF OrderNow, RowKept
  <2>. QED BY <2>2, <2>4, <2>5
<1>9. CASE OpenReceiver \/ SessionRefused \/ OthersMove \/ DeadlinePasses \/ CatchUpTimePasses \/ UNCHANGED vars
  <2>1. UNCHANGED <<arrived, highest, loc, lock, batch, buffer>>
    BY <1>9 DEF OpenReceiver, SessionRefused, OthersMove, DeadlinePasses, CatchUpTimePasses, vars, entityVars, env,
                counters
  <2>2. Reading' => Reading
    BY <1>9 DEF OpenReceiver, SessionRefused, OthersMove, Stepping, DeadlinePasses, CatchUpTimePasses, vars, Reading
  <2>. QED BY <1>2, <2>1, <2>2
<1>10. CASE Arrives
  <2>1. PICK m \in Newer : m \in Newer \ arrived /\ (\A k \in Newer \ arrived : m <= k) /\ arrived' = arrived \cup {m}
    BY <1>10 DEF Arrives, IsLowest
  <2>2. UNCHANGED <<highest, loc, lock, batch, buffer, pc>>
    BY <1>10 DEF Arrives, entityVars, counters
  <2>3. /\ m \in Nat /\ highest < m /\ \A k \in arrived : k < m
    BY <1>0, <1>00, <2>1 DEF OrderNow
  <2>4. \A j \in Newer \ arrived' : j \in Newer \ arrived /\ m < j
    <3>. SUFFICES ASSUME NEW j \in Newer \ arrived' PROVE j \in Newer \ arrived /\ m < j
      OBVIOUS
    <3>1. j \in Newer \ arrived /\ j # m /\ j \in Nat /\ m \in Nat
      BY <1>0, <2>1
    <3>. QED BY <2>1, <3>1
  <2>5. \A j \in Newer \ arrived' : highest' < j /\ \A k \in arrived' : k < j
    BY <1>00, <2>1, <2>2, <2>4 DEF OrderNow
  <2>6. \A k \in batch \cup buffer, j \in arrived' \cap Receivable' : k < j
        \/ ~Reading
    <3>1. Receivable' = Receivable
      BY <2>2 DEF Receivable
    <3>. QED BY <1>0, <1>00, <2>1, <2>3, <3>1 DEF OrderNow
  <2>7. \A j \in arrived' : loc'[j] = "active" => highest' < j
    BY <1>00, <2>1, <2>2, <2>3 DEF OrderNow
  <2>. QED BY <1>0, <1>00, <2>2, <2>5, <2>6, <2>7 DEF OrderNow, RowKept, Reading
<1>11. ASSUME NEW m \in Seqs, LockLapses(m) PROVE OrderNow'
  <2>1. lock[m] = "adrift" /\ Release({m}) /\ UNCHANGED <<arrived, highest, pc>>
    BY <1>0, <1>11 DEF LockLapses, env, counters
  <2>2. ~Reading'
    BY <1>00, <2>1 DEF OrderNow, Reading
  <2>. QED BY <1>1, <2>1, <2>2 DEF Release
<1>12. CASE StopOnState \/ ConnectionFails \/ ProcessInterrupted \/ DrainFails
  BY <1>0, <1>12 DEF StopOnState, ConnectionFails, ProcessInterrupted, DrainFails
<1>15. CASE CatchUp
  BY <1>0, <1>15 DEF CatchUp, CatchUpDue
<1>13. CASE NoMoreSessions \/ EmptySession
  BY <1>13 DEF NoMoreSessions, EmptySession
<1>14. CASE FinishSession
  BY <1>14 DEF FinishSession, LoopShape
<1>. QED
  BY <1>3, <1>4, <1>5, <1>6, <1>7, <1>8, <1>9, <1>10, <1>11, <1>12, <1>13, <1>14, <1>15
  DEF Next, Step, Process, Drain, End, World

\* A fault-free run without sessions: how it can end, and that a stop without a
\* warning leaves nothing that was there at the job start.
SilenceNow ==
    /\ Old \subseteq arrived /\ (pc = "process" => batch # {})
    /\ pc \in {"drain", "done", "over"} =>
          reason \in {"idle", "watermark", "error", "state_budget"} \cup PartialStops
    /\ reason \in {"idle", "watermark"} => \A m \in Old : loc[m] # "active"
    /\ Over /\ reason \in PartialStops => warned \/ \A m \in Old : loc[m] # "active"

Silence == ~Sessions /\ faults = 0 => SilenceNow

\* Every step keeps it.
LEMMA SilenceStep ==
    ASSUME OrderedReads, EntityInv, LoopTypeOK, LoopShape, InOrder, InOrder', Silence, [Next]_vars
    PROVE  Silence'
<1>. SUFFICES ASSUME ~Sessions, faults' = 0 PROVE SilenceNow'
  BY RowIsKept DEF Silence, RowKept
<1>0. /\ RowKept /\ faults = 0 /\ ~Fault /\ count = 0 /\ ~catching /\ Old \subseteq Seqs /\ Old \cap Newer = {}
      /\ PartialStops' = PartialStops
      /\ Partitioned => ~StopAtStart
      /\ ~Partitioned => OrderNow /\ OrderNow'
  <2>1. Partitioned => ~StopAtStart
    BY DEF OrderedReads, LoopTypeOK, Sessions, Partitioned, StopAtStart
  <2>2. RowIsTyped /\ RowKept
    BY RowTyped, RowIsKept DEF LoopTypeOK
  <2>3. faults = 0 /\ ~Fault /\ count \in Nat
    BY <2>2, FaultFreeStep DEF LoopTypeOK, RowIsTyped
  <2>. QED BY <2>1, <2>2, <2>3 DEF RowIsTyped, LoopShape, InOrder, PartialStops, RowKept
<1>00. SilenceNow
  BY <1>0 DEF Silence
<1>1. ASSUME \A m \in Seqs : loc'[m] = "active" => loc[m] = "active", arrived \subseteq arrived',
             UNCHANGED <<reason, warned>>, pc' = "process" => batch' # {}, pc' = "over" => pc = "over",
             pc' \in {"drain", "done", "over"} => pc \in {"drain", "done", "over"}
      PROVE  SilenceNow'
  BY <1>0, <1>00, <1>1 DEF SilenceNow, Over, RowKept
<1>2. ASSUME UNCHANGED arrived, pc' \in {"drain", "done"},
             reason' \in {"error"} \cup PartialStops
      PROVE  SilenceNow'
  BY <1>0, <1>00, <1>2 DEF SilenceNow, Over, RowKept, PartialStops
<1>3. Remaining = {} => \A m \in Old : loc[m] # "active"
  <2>. SUFFICES ASSUME NEW m \in Old, loc[m] = "active" PROVE m \in Remaining
    OBVIOUS
  <2>1. m \in arrived /\ m \notin Newer
    BY <1>0, <1>00 DEF SilenceNow
  <2>2. Partitioned \/ m > highest
    <3>1. highest \in Nat /\ m \in Nat
      BY <1>0, SeqsAssumption DEF LoopTypeOK
    <3>. QED BY <1>0, <2>1, <3>1 DEF OrderNow
  <2>. QED BY <2>1, <2>2 DEF Remaining
<1>4. CASE StopNow
  <2>1. StopRule \in PartialStops
    <3>1. StopRule \in {"none", "max_messages", "max_duration"}
      BY <1>0 DEF StopRule
    <3>. QED BY <1>4, <3>1 DEF StopNow, PartialStops
  <2>. QED BY <1>2, <1>4, <2>1 DEF StopNow, Ending, env
<1>5. CASE EmptyAndDrained
  BY <1>0, <1>00, <1>3, <1>5 DEF EmptyAndDrained, SilenceNow, Over, RowKept, entityVars, env, PartialStops
<1>6. CASE EmptyButRemaining
  <2>1. UNCHANGED <<arrived, loc, warned>> /\ pc = "step" /\ pc' \in {"step", "done"}
    BY <1>6 DEF EmptyButRemaining, EmptyReceive, Stepping, env
  <2>2. (UNCHANGED <<reason, pc>>) \/ (reason' = "receive_stalled" /\ pc' = "done")
    BY <1>6 DEF EmptyButRemaining
  <2>3. "receive_stalled" \in PartialStops
    BY DEF PartialStops
  <2>. QED BY <1>1, <1>2, <2>1, <2>2, <2>3
<1>7. CASE ProcessBatch
  <2>1. PICK S, X, A, closing : Processed(S, X, A, closing)
    BY <1>7 DEF ProcessBatch
  <2>2. \A m \in Seqs : loc'[m] = "active" => loc[m] = "active"
    <3>1. CASE LockHolding
      BY <2>1, <3>1 DEF Processed
    <3>2. CASE ~LockHolding
      BY <2>1, <3>2 DEF Processed, entityVars
    <3>. QED BY <3>1, <3>2
  <2>3. /\ UNCHANGED <<arrived, warned>> /\ pc = "process" /\ highest' = Highest
        /\ IF Watermark THEN pc' = "drain" /\ reason' = "watermark" ELSE pc' = "step" /\ UNCHANGED reason
    BY <1>7 DEF ProcessBatch, env
  <2>4. CASE ~Watermark
    BY <1>1, <2>2, <2>3, <2>4
  <2>5. CASE Watermark
    <3>0. ~Partitioned /\ OrderNow'
      BY <1>0, <2>5 DEF Watermark
    <3>1. PICK m \in batch : m \in Newer
      <4>1. batch # {}
        BY <1>00, <2>3 DEF SilenceNow
      <4>. QED BY <2>5, <4>1 DEF Watermark
    <3>2. \A k \in Old : k < highest'
      <4>1. \A k \in Old : k < m
        BY <3>0, <3>1, RowTyped DEF LoopTypeOK, RowIsTyped
      <4>2. m <= highest' /\ m \in Nat /\ highest' \in Nat
        <5>1. m <= Highest /\ Highest \in batch \cup {highest} /\ batch \subseteq Seqs
          BY <3>1, HighestIsGreatest, ArrivedIsFinite DEF LoopTypeOK
        <5>. QED BY <2>3, <3>1, <5>1, SeqsAssumption DEF LoopTypeOK
      <4>. QED BY <1>0, <4>1, <4>2, SeqsAssumption
    <3>3. \A k \in Old : loc'[k] # "active"
      <4>. SUFFICES ASSUME NEW k \in Old, loc'[k] = "active" PROVE FALSE
        OBVIOUS
      <4>1. k \in arrived' /\ highest' < k
        BY <1>00, <2>3, <3>0 DEF SilenceNow, OrderNow
      <4>2. k \in Nat /\ highest' \in Nat /\ k < highest'
        <5>1. Highest \in batch \cup {highest} /\ batch \subseteq Seqs
          BY HighestIsGreatest, ArrivedIsFinite DEF LoopTypeOK
        <5>. QED BY <1>0, <2>3, <3>2, <5>1, SeqsAssumption DEF LoopTypeOK
      <4>. QED BY <4>1, <4>2
    <3>. QED BY <1>0, <1>00, <2>3, <2>5, <3>3 DEF SilenceNow, Over, RowKept, PartialStops
  <2>. QED BY <2>4, <2>5
<1>8. CASE FailBatch
  BY <1>2, <1>8 DEF FailBatch, env
<1>9. CASE DrainAbandons \/ DrainWrites
  <2>1. \A m \in Seqs : loc'[m] = "active" => loc[m] = "active"
    <3>1. (\E S : Release(S)) \/ (\E S : Delete(S, "received"))
      BY <1>9 DEF DrainAbandons, DrainWrites
    <3>. QED BY <3>1 DEF Release, Delete, Moved
  <2>2. /\ UNCHANGED <<arrived, warned>> /\ pc = "drain" /\ pc' \in {"next", "done"}
        /\ reason' = reason \/ (reason' = "error" /\ pc' = "done")
    BY <1>9 DEF DrainAbandons, DrainWrites, Drained, env
  <2>. QED BY <1>1, <1>2, <2>1, <2>2
<1>10. CASE Finish
  <2>1. UNCHANGED <<arrived, loc, reason>> /\ pc = "done" /\ pc' = "over" /\ warned' = Warns
    BY <1>10 DEF Finish, env
  <2>2. reason \in PartialStops => warned' \/ \A m \in Old : loc[m] # "active"
    BY <1>3, <2>1 DEF Warns
  <2>. QED BY <1>0, <1>00, <2>1, <2>2 DEF SilenceNow, Over, RowKept
<1>11. CASE OpenReceiver \/ SessionRefused \/ World \/ UNCHANGED vars
  <2>1. /\ UNCHANGED <<reason, warned, pc, batch>> /\ arrived \subseteq arrived'
    BY <1>11 DEF OpenReceiver, SessionRefused, World, Arrives, OthersMove, DeadlinePasses, CatchUpTimePasses, LockLapses,
                 vars, env
  <2>2. \A m \in Seqs : loc'[m] = "active" => loc[m] = "active"
    BY <1>11 DEF OpenReceiver, SessionRefused, World, Arrives, OthersMove, DeadlinePasses, CatchUpTimePasses, LockLapses,
                 vars, entityVars, Release
  <2>. QED BY <1>00, <1>1, <2>1, <2>2 DEF SilenceNow
<1>12. CASE ReceiveBatch
  <2>1. \A m \in Seqs : loc'[m] = "active" => loc[m] = "active"
    <3>1. UNCHANGED loc \/ \E S : Delete(S, "received")
      BY <1>12 DEF ReceiveBatch
    <3>. QED BY <3>1 DEF Delete, Moved
  <2>2. UNCHANGED <<arrived, reason, warned>> /\ pc' = "process" /\ batch' # {}
    BY <1>12 DEF ReceiveBatch, env
  <2>. QED BY <1>1, <2>1, <2>2
<1>13. CASE StopOnState \/ ConnectionFails \/ ProcessInterrupted \/ DrainFails
  BY <1>0, <1>13 DEF StopOnState, ConnectionFails, ProcessInterrupted, DrainFails
<1>14. CASE CatchUp
  BY <1>0, <1>14 DEF CatchUp, CatchUpDue
<1>15. CASE NoMoreSessions \/ EmptySession
  BY <1>15 DEF NoMoreSessions, EmptySession
<1>16. CASE FinishSession
  BY <1>16 DEF FinishSession, LoopShape
<1>. QED
  BY <1>4, <1>5, <1>6, <1>7, <1>8, <1>9, <1>10, <1>11, <1>12, <1>13, <1>14, <1>15, <1>16
  DEF Next, Step, Process, Drain, End

\* On the rows whose reads come in order, a fault-free run without sessions that
\* leaves a message of the job start on the entity says so: an idle or watermark
\* stop leaves none, and a stop at a limit or on a stalled receive warns.
THEOREM NoRunEndsSilentlyPartial ==
    ASSUME OrderedReads
    PROVE  Spec => []NoSilentPartialRun
<1>1. Init => InOrder /\ Silence
  <2>. SUFFICES ASSUME Init PROVE (Partitioned \/ OrderNow) /\ SilenceNow
    BY DEF InOrder, Silence
  <2>1. RowIsTyped /\ arrived = Old
    BY RowTyped DEF Init, Old
  <2>2. SilenceNow
    BY <2>1 DEF Init, SilenceNow, Over
  <2>3. ASSUME ~Partitioned PROVE OrderNow
    <3>1. /\ \A m \in Newer \ arrived : highest < m /\ \A k \in arrived : k < m
          /\ \A m \in arrived : highest < m
      <4>1. \A m \in Seqs : 0 < m
        BY SeqsAssumption
      <4>2. highest = 0 /\ arrived \subseteq Seqs /\ Newer \subseteq Seqs /\ \A m \in Newer, k \in arrived : k < m
        BY <2>1, <2>3 DEF Init, RowIsTyped
      <4>. QED BY <4>1, <4>2
    <3>2. batch = {} /\ buffer = {} /\ \A m \in Seqs : lock[m] = "free"
      BY DEF Init, EntityInit
    <3>. QED BY <3>1, <3>2 DEF OrderNow
  <2>. QED BY <2>2, <2>3
<1>2. LoopInv /\ LoopInv' /\ InOrder /\ Silence /\ [Next]_vars => InOrder' /\ Silence'
  BY OrderStep, SilenceStep DEF LoopInv, TypeInv
<1>3. LoopInv /\ Silence => NoSilentPartialRun
  BY DEF LoopInv, Silence, SilenceNow, NoSilentPartialRun, Over
<1>. QED BY <1>1, <1>2, <1>3, LoopInvariant, PTL DEF Spec

(***************************************************************************)
(* The locks one interruption leaves.  Where the orphan scan applies its K  *)
(* rule (a plain entity), one interruption leaves the locks of a batch and   *)
(* the local buffer; everything else is deferred in sequence order.         *)
(***************************************************************************)

\* A plain row, interrupted at most once, and no unreadable bodies: a message
\* that is left keeps its lock without an interruption.
OneInterruption == ~Sessions /\ ~Partitioned /\ Bad = {} /\ MaxFaults <= 1

\* C holds the messages the interruption left locked.  Of the others the run
\* holds a lock exactly of its batch and its buffer, and one that is still active
\* comes after all that was deferred, interrupted or is further on.
ClusterOf(C) ==
    /\ Cardinality(C) <= BatchSize + Prefetch + 1
    /\ faults = 0 => C = {}
    /\ \A m \in Seqs \ C : /\ lock[m] # "adrift"
                           /\ lock[m] = "hand" <=> m \in batch
                           /\ lock[m] = "buffer" <=> m \in buffer
    /\ \A k \in arrived \ C, m \in arrived :
          k < m /\ loc[k] = "active" =>
             /\ m \notin C /\ loc[m] # "deferred"
             /\ m \in batch => k \in batch
             /\ m \in buffer => k \in batch \cup buffer

\* What is in the run's hands is no more than a batch and a buffer, and what is
\* to arrive comes after what is there.
HandsAreFull ==
    /\ \A m \in Seqs : loc[m] = "deferred" => m \in arrived
    /\ \A m \in Newer \ arrived, k \in arrived : k < m
    /\ Cardinality(batch) <= BatchSize /\ Cardinality(buffer) <= Prefetch + 1

Clustering ==
    /\ Mode # "defer_commit" => \A m \in Seqs : loc[m] # "deferred"
    /\ OneInterruption /\ LockHolding => HandsAreFull /\ \E C \in SUBSET arrived : ClusterOf(C)

\* Where the clusters are known, the bound holds.
LEMMA ClusteringBounds ==
    ASSUME EntityInv, LoopTypeOK, Clustering, OneInterruption
    PROVE  ClusterBound
<1>. SUFFICES ASSUME NEW d \in Seqs, loc[d] = "deferred"
              PROVE  Cardinality(LockedBefore(d)) <= BatchSize + Prefetch + 1
  BY DEF ClusterBound
<1>1. LockHolding
  BY DEF Clustering, LockHolding
<1>2. PICK C \in SUBSET arrived : ClusterOf(C)
  BY <1>1 DEF Clustering
<1>3. d \in arrived
  BY <1>1 DEF Clustering, HandsAreFull
<1>4. LockedBefore(d) \subseteq C
  <2>. SUFFICES ASSUME NEW k \in LockedBefore(d), k \notin C PROVE FALSE
    OBVIOUS
  <2>1. k \in Seqs /\ k < d /\ loc[k] = "active" /\ lock[k] # "free"
    BY DEF LockedBefore
  <2>2. k \in batch \cup buffer
    BY <1>2, <2>1 DEF ClusterOf, EntityInv, EntityTypeOK, Holders
  <2>3. k \in arrived \ C
    BY <2>2 DEF LoopTypeOK
  <2>. QED BY <1>2, <1>3, <2>1, <2>3 DEF ClusterOf
<1>5. IsFiniteSet(C) /\ Cardinality(LockedBefore(d)) <= Cardinality(C)
  <2>1. C \in SUBSET Seqs
    BY ArrivedIsFinite
  <2>2. IsFiniteSet(C)
    BY <2>1, ArrivedIsFinite
  <2>. QED BY <1>4, <2>2, FS_Subset
<1>6. /\ Cardinality(C) \in Nat /\ Cardinality(LockedBefore(d)) \in Nat
      /\ BatchSize \in Nat /\ Prefetch \in Nat
  <2>1. C \in SUBSET Seqs /\ LockedBefore(d) \in SUBSET Seqs
    BY ArrivedIsFinite DEF LockedBefore
  <2>. QED BY <2>1, ArrivedIsFinite, RowTyped DEF LoopTypeOK, RowIsTyped
<1>. QED BY <1>2, <1>5, <1>6 DEF ClusterOf

\* Two bounded sets together.
LEMMA TogetherBounded ==
    ASSUME NEW S \in SUBSET Seqs, NEW T \in SUBSET Seqs
    PROVE  /\ Cardinality(S) \in Nat /\ Cardinality(T) \in Nat
           /\ Cardinality(S \cup T) \in Nat /\ Cardinality(S \cup T) <= Cardinality(S) + Cardinality(T)
<1>1. IsFiniteSet(S) /\ IsFiniteSet(T)
  BY SeqsAssumption, FS_Subset
<1>2. /\ IsFiniteSet(S \cup T) /\ IsFiniteSet(S \cap T)
      /\ Cardinality(S \cup T) = Cardinality(S) + Cardinality(T) - Cardinality(S \cap T)
  BY <1>1, FS_Union, FS_Intersection
<1>. QED BY <1>1, <1>2, FS_CardinalityType

\* What the proof of a step knows of the row, the types and the faults.
ClusterTypes ==
    /\ arrived \subseteq Seqs /\ batch \subseteq arrived /\ buffer \subseteq arrived /\ Newer \subseteq Seqs
    /\ Seqs \subseteq Nat /\ faults \in Nat
    /\ BatchSize \in Nat /\ Prefetch \in Nat /\ MaxFaults \in Nat
    /\ row' = row /\ arrived \subseteq arrived' /\ arrived' \subseteq Seqs
    /\ ~Sessions /\ ~Partitioned /\ Bad = {} /\ MaxFaults <= 1 /\ LockHolding

\* It knows that.
LEMMA ClusterTyped ==
    ASSUME LoopTypeOK, OneInterruption, LockHolding, [Next]_vars
    PROVE  ClusterTypes
<1>1. RowIsTyped /\ arrived \subseteq Seqs
  BY RowTyped, ArrivedIsFinite DEF LoopTypeOK
<1>2. row' = row
  BY RowFixed
<1>3. arrived \subseteq arrived' /\ arrived' \subseteq Seqs
  <2>1. arrived' = arrived \/ \E m \in Newer : arrived' = arrived \cup {m}
    BY DEF Next, Step, Process, Drain, End, World, StopNow, StopOnState, OpenReceiver, SessionRefused, NoMoreSessions, ReceiveBatch,
           ConnectionFails, EmptySession, EmptyAndDrained, EmptyButRemaining, ProcessBatch, FailBatch,
           ProcessInterrupted, DrainAbandons, DrainWrites, DrainFails, FinishSession, CatchUp, Finish, Arrives,
           OthersMove, DeadlinePasses, CatchUpTimePasses, LockLapses, env, vars
  <2>. QED BY <1>1, <2>1 DEF RowIsTyped
<1>. QED
  BY <1>1, <1>2, <1>3, SeqsAssumption DEF ClusterTypes, LoopTypeOK, RowIsTyped, OneInterruption

\* The row is kept, and nothing is in no hands.
LEMMA ClusterRow ==
    ASSUME ClusterTypes
    PROVE  BatchSize' = BatchSize /\ Prefetch' = Prefetch /\ Newer' = Newer /\ Cardinality({}) = 0
BY FS_EmptySet DEF ClusterTypes, BatchSize, Prefetch, Newer

\* The run's hands keep what they hold, or give it all up.
LEMMA HandsKept ==
    ASSUME ClusterTypes, HandsAreFull, arrived' = arrived,
           \A m \in Seqs : loc'[m] = "deferred" => m \in arrived,
           UNCHANGED <<batch, buffer>> \/ (batch' = {} /\ buffer' = {})
    PROVE  HandsAreFull'
<1>1. \A m \in Newer' \ arrived', k \in arrived' : k < m
  BY ClusterRow DEF HandsAreFull
<1>2. Cardinality(batch') <= BatchSize' /\ Cardinality(buffer') <= Prefetch' + 1
  <2>1. CASE UNCHANGED <<batch, buffer>>
    BY <2>1, ClusterRow DEF HandsAreFull
  <2>2. CASE batch' = {} /\ buffer' = {}
    BY <2>2, ClusterRow DEF ClusterTypes
  <2>. QED BY <2>1, <2>2
<1>. QED BY <1>1, <1>2 DEF HandsAreFull

\* A step that defers nothing, and keeps the run's locks or gives them all up.
LEMMA ClusterKept ==
    ASSUME ClusterTypes, HandsAreFull, NEW C \in SUBSET arrived, ClusterOf(C), arrived' = arrived,
           faults' = 0 => faults = 0,
           \A m \in Seqs : /\ loc'[m] = "active" => loc[m] = "active"
                           /\ loc'[m] = "deferred" => loc[m] = "deferred",
           \/ UNCHANGED <<batch, buffer>> /\ \A m \in Seqs \ C : lock'[m] = lock[m]
           \/ batch' = {} /\ buffer' = {} /\ \A m \in Seqs \ C : lock'[m] = "free"
    PROVE  HandsAreFull' /\ \E K \in SUBSET arrived' : ClusterOf(K)'
<1>1. HandsAreFull'
  BY HandsKept DEF HandsAreFull
<1>2. ClusterOf(C)'
  BY ClusterRow DEF ClusterOf, ClusterTypes
<1>. QED BY <1>1, <1>2

\* The interruption: K holds what was locked.
LEMMA ClusterMade ==
    ASSUME ClusterTypes, HandsAreFull, ClusterOf({}), NEW K \in SUBSET arrived, arrived' = arrived,
           faults' # 0, batch \cup buffer \subseteq K, Cardinality(K) <= BatchSize + Prefetch + 1,
           \A k \in arrived \ K, m \in K : k < m => loc[k] # "active",
           \A m \in Seqs : /\ loc'[m] = "active" => loc[m] = "active"
                           /\ loc'[m] = "deferred" => loc[m] = "deferred" \/ m \in K,
           \A m \in Seqs \ K : lock'[m] = "free",
           UNCHANGED <<batch, buffer>> \/ (batch' = {} /\ buffer' = {})
    PROVE  HandsAreFull' /\ \E C \in SUBSET arrived' : ClusterOf(C)'
<1>1. HandsAreFull'
  BY HandsKept DEF HandsAreFull
<1>2. ClusterOf(K)'
  <2>1. Cardinality(K)' <= (BatchSize + Prefetch + 1)' /\ (faults = 0 => K = {})'
    BY ClusterRow
  <2>2. \A m \in Seqs \ K : /\ lock'[m] # "adrift"
                            /\ lock'[m] = "hand" <=> m \in batch'
                            /\ lock'[m] = "buffer" <=> m \in buffer'
    OBVIOUS
  <2>3. ASSUME NEW k \in arrived \ K, NEW m \in arrived, k < m, loc'[k] = "active"
        PROVE  m \notin K /\ loc'[m] # "deferred" /\ m \notin batch' /\ m \notin buffer'
    <3>1. k \in Seqs /\ m \in Seqs /\ loc[k] = "active"
      BY <2>3 DEF ClusterTypes
    <3>2. loc[m] # "deferred"
      BY <2>3, <3>1 DEF ClusterOf
    <3>. QED BY <2>3, <3>1, <3>2
  <2>. QED BY <2>1, <2>2, <2>3 DEF ClusterOf
<1>. QED BY <1>1, <1>2

\* What the run holds and the broker hands it next come before all else.
LEMMA HandsComeFirst ==
    ASSUME ClusterTypes, EntityInv, LoopTypeOK, NEW C \in SUBSET arrived, ClusterOf(C), session # "none",
           NEW D \in SUBSET Available(session), D = Lowest(Available(session), Cardinality(D))
    PROVE  /\ D \subseteq arrived
           /\ \A k \in arrived \ C, m \in batch \cup buffer \cup D :
                 k < m /\ loc[k] = "active" => k \in batch \cup buffer \cup D
<1>1. Available(session) = arrived \cap Receivable
  <2>1. \A m \in Seqs : row.sessionOf[m] = session
    BY RowTyped DEF LoopTypeOK, RowIsTyped, SessionIds, ClusterTypes
  <2>. QED BY <2>1 DEF Available, Receivable, ClusterTypes
<1>2. D \subseteq arrived /\ D \in SUBSET Seqs /\ Available(session) \in SUBSET Seqs
  BY <1>1 DEF ClusterTypes
<1>3. ASSUME NEW k \in arrived \ C, NEW m \in batch \cup buffer \cup D, k < m, loc[k] = "active",
             k \notin batch \cup buffer
      PROVE  k \in D
  <2>1. k \in Seqs /\ m \in Seqs /\ m \in arrived
    BY <1>2 DEF ClusterTypes
  <2>2. lock[k] = "free"
    BY <1>3, <2>1 DEF ClusterOf, EntityInv, EntityTypeOK, Holders
  <2>3. k \in Available(session)
    BY <1>1, <1>3, <2>1, <2>2 DEF Receivable
  <2>4. m \in D
    BY <1>3, <2>1 DEF ClusterOf
  <2>5. Cardinality(D) \in Nat
    BY <1>2, ArrivedIsFinite
  <2>6. k \notin Available(session) \ D
    <3>. SUFFICES ASSUME k \in Available(session) \ D PROVE FALSE
      OBVIOUS
    <3>1. m < k
      BY <1>2, <2>4, <2>5, LowestIsBelow
    <3>. QED BY <1>3, <2>1, <3>1 DEF ClusterTypes
  <2>. QED BY <2>3, <2>6
<1>. QED BY <1>2, <1>3

\* A received batch: from the buffer and from what was handed out, in order.
LEMMA ClusterReceives ==
    ASSUME ClusterTypes, HandsAreFull, EntityInv, LoopTypeOK, LoopShape,
           NEW C \in SUBSET arrived, ClusterOf(C), ReceiveBatch
    PROVE  HandsAreFull' /\ \E K \in SUBSET arrived' : ClusterOf(K)'
<1>0. /\ batch = {} /\ session # "none" /\ UNCHANGED <<arrived, faults>>
  BY DEF ReceiveBatch, Stepping, LoopShape, env
<1>1. PICK D \in SUBSET Available(session), R \in SUBSET arrived :
          /\ D = Lowest(Available(session), Cardinality(D))
          /\ R \subseteq buffer \cup D /\ Cardinality(R) <= BatchCount
          /\ IF R \subseteq buffer THEN R = Lowest(buffer, Cardinality(R))
             ELSE buffer \subseteq R /\ R \ buffer = Lowest(D \ buffer, Cardinality(R \ buffer))
          /\ Cardinality((buffer \cup D) \ R) <= Prefetch + 1
          /\ batch' = R /\ buffer' = (buffer \cup D) \ R
          /\ lock' = [m \in Seqs |->
                        IF m \in D \/ (m \in buffer /\ lock[m] = "buffer")
                        THEN (IF m \in R THEN "hand" ELSE "buffer") ELSE lock[m]]
          /\ UNCHANGED loc
  BY DEF ReceiveBatch, Delivery, ClusterTypes
<1>2. /\ D \subseteq arrived /\ R \in SUBSET Seqs /\ buffer \in SUBSET Seqs /\ D \in SUBSET Seqs
      /\ \A k \in arrived \ C, m \in buffer \cup D : k < m /\ loc[k] = "active" => k \in buffer \cup D
  BY <1>0, <1>1, HandsComeFirst DEF ClusterTypes
<1>3. \A S \in SUBSET Seqs : Cardinality(S) \in Nat
  BY ArrivedIsFinite
<1>4. HandsAreFull'
  <2>1. BatchCount <= BatchSize
    BY RowTyped DEF BatchCount, LoopTypeOK, RowIsTyped
  <2>2. Cardinality(R) \in Nat /\ BatchCount \in Int /\ BatchSize \in Int
    BY <1>2, <1>3, RowTyped DEF BatchCount, LoopTypeOK, RowIsTyped
  <2>3. Cardinality(batch') <= BatchSize /\ Cardinality(buffer') <= Prefetch + 1
    BY <1>1, <2>1, <2>2
  <2>. QED BY <1>0, <1>1, <2>3, ClusterRow DEF HandsAreFull
<1>5. ASSUME NEW k \in arrived \ C, NEW m \in R, k < m, loc[k] = "active" PROVE k \in R
  <2>0. k \in Nat /\ m \in Nat /\ m \in arrived
    BY <1>5 DEF ClusterTypes
  <2>1. CASE R \subseteq buffer
    <3>1. k \in buffer
      BY <1>0, <1>5, <2>0, <2>1 DEF ClusterOf
    <3>2. R = Lowest(buffer, Cardinality(R)) /\ Cardinality(R) \in Nat
      BY <1>1, <1>2, <1>3, <2>1
    <3>3. k \notin buffer \ R
      <4>. SUFFICES ASSUME k \in buffer \ R PROVE FALSE
        OBVIOUS
      <4>1. m < k
        BY <1>2, <1>5, <3>2, LowestIsBelow
      <4>. QED BY <1>5, <2>0, <4>1
    <3>. QED BY <3>1, <3>3
  <2>2. CASE ~(R \subseteq buffer)
    <3>0. buffer \subseteq R /\ R \ buffer = Lowest(D \ buffer, Cardinality(R \ buffer))
      BY <1>1, <2>2
    <3>1. CASE m \in buffer
      <4>1. k \in buffer
        BY <1>0, <1>5, <2>0, <3>1 DEF ClusterOf
      <4>. QED BY <3>0, <4>1
    <3>2. CASE m \notin buffer
      <4>1. k \in buffer \cup D /\ m \in R \ buffer
        BY <1>1, <1>2, <1>5, <3>2
      <4>2. Cardinality(R \ buffer) \in Nat /\ D \ buffer \in SUBSET Seqs
        BY <1>2, <1>3
      <4>3. k \notin (D \ buffer) \ (R \ buffer)
        <5>. SUFFICES ASSUME k \in (D \ buffer) \ (R \ buffer) PROVE FALSE
          OBVIOUS
        <5>1. m < k
          BY <3>0, <4>1, <4>2, LowestIsBelow
        <5>. QED BY <1>5, <2>0, <5>1
      <4>. QED BY <3>0, <4>1, <4>3
    <3>. QED BY <3>1, <3>2
  <2>. QED BY <2>1, <2>2
<1>6. ClusterOf(C)'
  <2>1. (Cardinality(C) <= BatchSize + Prefetch + 1)' /\ (faults = 0 => C = {})'
    BY <1>0, ClusterRow DEF ClusterOf
  <2>2. ASSUME NEW m \in Seqs \ C
        PROVE  /\ lock'[m] # "adrift"
               /\ lock'[m] = "hand" <=> m \in batch'
               /\ lock'[m] = "buffer" <=> m \in buffer'
    BY <1>0, <1>1 DEF ClusterOf
  <2>3. ASSUME NEW k \in arrived \ C, NEW m \in arrived, k < m, loc'[k] = "active"
        PROVE  /\ m \notin C /\ loc'[m] # "deferred"
               /\ m \in batch' => k \in batch'
               /\ m \in buffer' => k \in batch' \cup buffer'
    <3>1. m \notin C /\ loc'[m] # "deferred"
      BY <1>1, <2>3 DEF ClusterOf
    <3>. QED BY <1>1, <1>2, <1>5, <2>3, <3>1
  <2>. QED BY <1>0, <2>1, <2>2, <2>3 DEF ClusterOf
<1>. QED BY <1>0, <1>4, <1>6

\* A batch that is written: all of it is deferred, or what of it is still locked.
LEMMA ClusterSettles ==
    ASSUME ClusterTypes, HandsAreFull, NEW C \in SUBSET arrived, ClusterOf(C),
           Processed(batch, {}, {}, FALSE), arrived' = arrived, faults' = 0 => faults = 0,
           batch' = {}, buffer' = buffer
    PROVE  HandsAreFull' /\ \E K \in SUBSET arrived' : ClusterOf(K)'
<1>. DEFINE place == IF Mode = "complete" THEN "completed" ELSE "deferred"
<1>1. \A m \in Seqs : /\ m \in Holding(batch) => loc'[m] = place /\ lock'[m] = "free"
                      /\ m \notin Holding(batch) => loc'[m] = loc[m] /\ lock'[m] = lock[m]
  <2>1. /\ loc' = [m \in Seqs |-> CASE m \in Holding(batch) -> place
                                   [] m \in (IF Policy = "dead_letter" THEN Holding({}) ELSE {}) -> "dead_lettered"
                                   [] m \in {j \in Holding({}) : dc[j] + 1 >= MaxDelivery} -> "exhausted"
                                   [] OTHER -> loc[m]]
        /\ lock' = [m \in Seqs |-> IF m \in Holding(batch)
                                           \cup (IF Policy = "dead_letter" THEN Holding({}) ELSE {})
                                           \cup Holding({})
                                   THEN "free" ELSE lock[m]]
    BY DEF Processed, ClusterTypes
  <2>2. /\ Holding({}) = {} /\ (IF Policy = "dead_letter" THEN Holding({}) ELSE {}) = {}
        /\ {j \in Holding({}) : dc[j] + 1 >= MaxDelivery} = {}
    BY DEF Holding
  <2>. HIDE DEF place
  <2>. QED BY <2>1, <2>2
<1>2. place # "active"
  OBVIOUS
<1>. HIDE DEF place
<1>3. HandsAreFull'
  <2>1. \A m \in Seqs : loc'[m] = "deferred" => m \in arrived
    BY <1>1 DEF HandsAreFull, Holding, ClusterTypes
  <2>2. Cardinality(batch') <= BatchSize' /\ Cardinality(buffer') <= Prefetch' + 1
    BY ClusterRow DEF HandsAreFull, ClusterTypes
  <2>3. \A m \in Newer' \ arrived', k \in arrived' : k < m
    BY ClusterRow DEF HandsAreFull
  <2>. QED BY <2>1, <2>2, <2>3 DEF HandsAreFull
<1>4. ClusterOf(C)'
  <2>1. (Cardinality(C) <= BatchSize + Prefetch + 1)' /\ (faults = 0 => C = {})'
    BY ClusterRow DEF ClusterOf
  <2>2. ASSUME NEW m \in Seqs \ C
        PROVE  /\ lock'[m] # "adrift"
               /\ lock'[m] = "hand" <=> m \in batch'
               /\ lock'[m] = "buffer" <=> m \in buffer'
    <3>1. CASE m \in Holding(batch)
      BY <1>1, <2>2, <3>1 DEF ClusterOf, Holding
    <3>2. CASE m \notin Holding(batch)
      BY <1>1, <2>2, <3>2 DEF ClusterOf, Holding
    <3>. QED BY <3>1, <3>2
  <2>3. ASSUME NEW k \in arrived \ C, NEW m \in arrived, k < m, loc'[k] = "active"
        PROVE  m \notin C /\ loc'[m] # "deferred" /\ m \notin batch' /\ (m \in buffer' => k \in buffer')
    <3>1. k \in Seqs /\ m \in Seqs
      BY DEF ClusterTypes
    <3>2. loc[k] = "active" /\ k \notin Holding(batch)
      BY <1>1, <1>2, <2>3, <3>1
    <3>3. k \notin batch
      BY <3>1, <3>2, <2>3 DEF ClusterOf, Holding
    <3>4. m \notin C /\ loc[m] # "deferred" /\ m \notin batch /\ (m \in buffer => k \in buffer)
      BY <2>3, <3>2, <3>3 DEF ClusterOf
    <3>5. loc'[m] = loc[m]
      BY <1>1, <3>1, <3>4 DEF Holding
    <3>. QED BY <3>4, <3>5
  <2>. QED BY <2>1, <2>2, <2>3 DEF ClusterOf
<1>. QED BY <1>3, <1>4

\* Every step of such a run keeps its clusters known.
LEMMA ClusterStep ==
    ASSUME EntityInv, LoopTypeOK, LoopShape, OneInterruption, LockHolding,
           HandsAreFull, NEW C \in SUBSET arrived, ClusterOf(C), [Next]_vars
    PROVE  HandsAreFull' /\ \E K \in SUBSET arrived' : ClusterOf(K)'
<1>. DEFINE Kept == HandsAreFull' /\ \E K \in SUBSET arrived' : ClusterOf(K)'
            Quiet == \A m \in Seqs : /\ loc'[m] = "active" => loc[m] = "active"
                                     /\ loc'[m] = "deferred" => loc[m] = "deferred"
<1>0. ClusterTypes
  BY ClusterTyped
<1>00. Fault => faults = 0 /\ faults' # 0 /\ C = {}
  BY <1>0 DEF Fault, ClusterTypes, ClusterOf
<1>000. BatchSize \in Nat /\ Prefetch \in Nat /\ Cardinality({}) = 0
  BY <1>0, ClusterRow DEF ClusterTypes
\* The entity, the batch and the buffer are left alone.
<1>1. ASSUME UNCHANGED <<arrived, loc, lock, batch, buffer>>, UNCHANGED faults \/ Fault PROVE Kept
  <2>1. Quiet /\ (faults' = 0 => faults = 0) /\ \A m \in Seqs \ C : lock'[m] = lock[m]
    BY <1>00, <1>1
  <2>. QED BY <1>0, <1>1, <2>1, ClusterKept
\* A receiver is closed that holds nothing.
<1>2. ASSUME UNCHANGED <<arrived, loc, faults>>, lock' = Adrift, Closed, batch = {}, buffer = {} PROVE Kept
  <2>1. \A m \in Seqs \ C : lock'[m] = "free"
    BY <1>2 DEF Adrift, ClusterOf, EntityInv, EntityTypeOK, Holders
  <2>. QED BY <1>0, <1>2, <2>1, ClusterKept DEF Closed
\* The connection fails, and the broker had handed out D.
<1>3. ASSUME NEW D \in SUBSET arrived, UNCHANGED <<arrived, loc>>, Fault,
             lock' = [m \in Seqs |-> IF m \in D THEN "adrift" ELSE Adrift[m]],
             Cardinality(D) <= BatchSize \/ Cardinality(buffer \cup D) <= Prefetch + 1,
             batch = {}, batch' = {}, buffer' = {},
             \A k \in arrived \ C, m \in buffer \cup D : k < m /\ loc[k] = "active" => k \in buffer \cup D
      PROVE  Kept
  <2>. DEFINE K == buffer \cup D
  <2>1. K \in SUBSET arrived /\ batch \cup buffer \subseteq K /\ faults' # 0 /\ ClusterOf({}) /\ C = {}
    BY <1>0, <1>00, <1>3 DEF ClusterTypes
  <2>2. Cardinality(K) <= BatchSize + Prefetch + 1
    <3>1. D \in SUBSET Seqs /\ buffer \in SUBSET Seqs
      BY <1>0, <1>3 DEF ClusterTypes
    <3>. QED BY <1>3, <1>000, <3>1, TogetherBounded DEF HandsAreFull
  <2>3. \A m \in Seqs \ K : lock'[m] = "free"
    BY <1>3, <2>1 DEF Adrift, ClusterOf, EntityInv, EntityTypeOK, Holders
  <2>4. \A k \in arrived \ K, m \in K : k < m => loc[k] # "active"
    BY <1>3, <2>1
  <2>. HIDE DEF K
  <2>. QED BY <1>0, <1>3, <2>1, <2>2, <2>3, <2>4, ClusterMade
\* What the run holds is what its interruption leaves.
<1>4. ASSUME UNCHANGED arrived, Fault, UNCHANGED <<batch, buffer>> \/ (batch' = {} /\ buffer' = {}),
             \A m \in Seqs : /\ loc'[m] = "active" => loc[m] = "active"
                             /\ loc'[m] = "deferred" => loc[m] = "deferred" \/ m \in batch,
             \A m \in Seqs : lock[m] = "free" => lock'[m] = "free"
      PROVE  Kept
  <2>. DEFINE K == batch \cup buffer
  <2>1. K \in SUBSET arrived /\ faults' # 0 /\ ClusterOf({}) /\ C = {}
    BY <1>0, <1>00, <1>4 DEF ClusterTypes
  <2>2. Cardinality(K) <= BatchSize + Prefetch + 1
    <3>1. batch \in SUBSET Seqs /\ buffer \in SUBSET Seqs
      BY <1>0 DEF ClusterTypes
    <3>2. Cardinality(batch) <= BatchSize /\ Cardinality(buffer) <= Prefetch + 1
      BY DEF HandsAreFull
    <3>3. /\ Cardinality(batch) \in Nat /\ Cardinality(buffer) \in Nat /\ Cardinality(K) \in Nat
          /\ Cardinality(K) <= Cardinality(batch) + Cardinality(buffer)
      BY <3>1, TogetherBounded
    <3>. QED BY <1>000, <3>2, <3>3
  <2>3. \A m \in Seqs \ K : lock'[m] = "free"
    BY <1>4, <2>1 DEF ClusterOf, EntityInv, EntityTypeOK, Holders
  <2>4. \A k \in arrived \ K, m \in K : k < m => loc[k] # "active"
    BY <1>0, <2>1 DEF ClusterOf, ClusterTypes
  <2>5. batch \cup buffer \subseteq K /\ \A m \in Seqs : m \in batch => m \in K
    OBVIOUS
  <2>. HIDE DEF K
  <2>. QED BY <1>0, <1>4, <2>1, <2>2, <2>3, <2>4, <2>5, ClusterMade
<1>5. CASE StopNow \/ StopOnState \/ OpenReceiver \/ SessionRefused \/ EmptyAndDrained \/ CatchUp \/ OthersMove
           \/ DeadlinePasses \/ CatchUpTimePasses \/ UNCHANGED vars
  BY <1>1, <1>5 DEF StopNow, StopOnState, OpenReceiver, SessionRefused, EmptyAndDrained, CatchUp, OthersMove,
                    DeadlinePasses, CatchUpTimePasses, vars, entityVars, env, position
<1>6. CASE NoMoreSessions \/ EmptySession \/ FinishSession
  BY <1>0, <1>6 DEF NoMoreSessions, EmptySession, FinishSession, LoopShape, ClusterTypes
<1>7. CASE ReceiveBatch
  BY <1>0, <1>7, ClusterReceives
<1>8. CASE ConnectionFails
  <2>1. /\ Fault /\ UNCHANGED <<arrived, loc>> /\ batch = {} /\ batch' = {} /\ buffer' = {}
    BY <1>0, <1>8 DEF ConnectionFails, Stepping, LoopShape, Caught, SessionLost, Recover, Interrupted, Closed,
                      ClusterTypes
  <2>2. PICK D \in SUBSET (Receivable \cap arrived) :
          /\ IF session = "none" THEN D = {} ELSE Delivery(D, BatchCount)
          /\ lock' = [m \in Seqs |-> IF m \in D THEN "adrift" ELSE Adrift[m]]
    BY <1>0, <1>8 DEF ConnectionFails, ClusterTypes
  <2>3. BatchCount <= BatchSize /\ BatchCount \in Int
    BY RowTyped DEF BatchCount, LoopTypeOK, RowIsTyped
  <2>4. D \in SUBSET Seqs /\ Cardinality(D) \in Nat
    <3>1. D \in SUBSET Seqs
      BY <1>0 DEF ClusterTypes
    <3>. QED BY <3>1, ArrivedIsFinite
  <2>5. Cardinality(D) <= BatchSize
    <3>1. CASE session = "none"
      BY <1>000, <2>2, <3>1
    <3>2. CASE session # "none"
      <4>1. Cardinality(D) <= BatchCount
        BY <2>2, <3>2 DEF Delivery
      <4>. QED BY <1>000, <2>3, <2>4, <4>1
    <3>. QED BY <3>1, <3>2
  <2>6. \A k \in arrived \ C, m \in buffer \cup D : k < m /\ loc[k] = "active" => k \in buffer \cup D
    <3>1. CASE session = "none"
      BY <2>2, <3>1 DEF LoopShape
    <3>2. CASE session # "none"
      <4>1. D \in SUBSET Available(session) /\ D = Lowest(Available(session), Cardinality(D))
        BY <1>0, <2>2, <3>2 DEF Delivery, ClusterTypes
      <4>. QED BY <1>0, <2>1, <3>2, <4>1, HandsComeFirst
    <3>. QED BY <3>1, <3>2
  <2>. QED BY <1>3, <2>1, <2>2, <2>5, <2>6
<1>9. CASE EmptyButRemaining
  <2>1. /\ UNCHANGED <<arrived, loc, faults>> /\ batch = {} /\ buffer = {}
        /\ UNCHANGED <<lock, batch, buffer>> \/ (lock' = Adrift /\ Closed)
    BY <1>9 DEF EmptyButRemaining, EmptyReceive, Stepping, LoopShape, env
  <2>. QED BY <1>1, <1>2, <2>1
<1>10. CASE ProcessBatch \/ FailBatch
  <2>1. PICK U \in SUBSET batch, A \in SUBSET batch :
             /\ Unreadable(U, A)
             /\ \/ Processed(batch \ U, U \ A, A, A # {} /\ ~Watermark)
                \/ Processed(batch \ U, U \ A, A, FALSE)
             /\ A = {} => batch' = {} /\ UNCHANGED buffer
    <3>1. CASE ProcessBatch
      BY <3>1 DEF ProcessBatch
    <3>2. CASE FailBatch
      BY <3>2 DEF FailBatch, position
    <3>. QED BY <1>10, <3>1, <3>2
  <2>2. U = {} /\ A = {}
    BY <1>0, <2>1 DEF Unreadable, ClusterTypes
  <2>3. Processed(batch, {}, {}, FALSE)
    <3>1. batch \ U = batch /\ U \ A = {} /\ A = {} /\ (A # {} /\ ~Watermark) = FALSE
      BY <2>2
    <3>. QED BY <2>1, <3>1
  <2>4. UNCHANGED arrived /\ (faults' = 0 => faults = 0)
    BY <1>00, <1>10 DEF ProcessBatch, FailBatch, env
  <2>. QED BY <1>0, <2>1, <2>2, <2>3, <2>4, ClusterSettles
<1>11. CASE ProcessInterrupted
  <2>1. PICK U, A, V, S \in SUBSET batch, wrote \in BOOLEAN :
              /\ Unreadable(U, A)
              /\ IF wrote
                 THEN batch \ U # {} /\ V = U /\ S = Lowest(batch \ U, Cardinality(S))
                 ELSE U # {} /\ V = Lowest(U, Cardinality(V)) /\ S = {}
              /\ Processed(S, V \ A, V \cap A, TRUE)
              /\ written' = IF wrote THEN written \cup (batch \ U) ELSE written
              /\ disposed' = disposed \cup (V \ A)
              /\ retried' = retried \cup (V \cap A)
              /\ Caught(progressed \/ wrote)
    BY <1>11, Zenon DEF ProcessInterrupted
  <2>2. Fault /\ UNCHANGED arrived /\ batch' = {} /\ buffer' = {}
    BY <1>11, <2>1 DEF ProcessInterrupted, Caught, SessionLost, Recover, Interrupted, Closed
  <2>. DEFINE place == IF Mode = "complete" THEN "completed" ELSE "deferred"
              gone == IF Policy = "dead_letter" THEN Holding(V \ A) ELSE {}
              spent == {m \in Holding(V \cap A) : dc[m] + 1 >= MaxDelivery}
              touched == Holding(S) \cup gone \cup Holding(V \cap A)
  <2>3. /\ loc' = [m \in Seqs |-> CASE m \in Holding(S) -> place
                                   [] m \in gone -> "dead_lettered"
                                   [] m \in spent -> "exhausted"
                                   [] OTHER -> loc[m]]
        /\ lock' = [m \in Seqs |-> IF m \in touched THEN "free" ELSE Adrift[m]]
    BY <2>1 DEF Processed
  <2>4. place # "active" /\ \A m \in Holding(S) : m \in batch
    BY <2>1 DEF Holding
  <2>5. \A m \in Seqs : /\ loc'[m] = "active" => loc[m] = "active"
                        /\ loc'[m] = "deferred" => loc[m] = "deferred" \/ m \in batch
    <3>. HIDE DEF place, gone, spent, touched
    <3>. QED BY <2>3, <2>4
  <2>6. \A m \in Seqs : lock[m] = "free" => lock'[m] = "free"
    <3>. HIDE DEF touched
    <3>. QED BY <2>3 DEF Adrift
  <2>. QED BY <1>4, <2>2, <2>5, <2>6
<1>12. CASE DrainAbandons
  <2>1. PICK D : Release(D \cup {m \in buffer : lock[m] = "buffer"})
    BY <1>12 DEF DrainAbandons
  <2>2. UNCHANGED <<arrived, faults>> /\ batch = {} /\ batch' = {} /\ buffer' = {}
    BY <1>12 DEF DrainAbandons, Drained, LoopShape, env
  <2>3. Quiet
    BY <2>1 DEF Release
  <2>4. \A m \in Seqs \ C : lock'[m] = "free"
    BY <2>1, <2>2 DEF Release, Held, ClusterOf, EntityInv, EntityTypeOK, Holders
  <2>. QED BY <1>0, <2>2, <2>3, <2>4, ClusterKept
<1>13. CASE DrainFails
  <2>1. /\ Fault /\ UNCHANGED <<arrived, loc>> /\ batch = {} /\ batch' = {} /\ buffer' = {} /\ session # "none"
    BY <1>0, <1>13 DEF DrainFails, Drained, LoopShape, env, ClusterTypes
  <2>2. PICK D \in SUBSET Available(session) :
          /\ DrainDelivery(D)
          /\ lock' = [m \in Seqs |-> IF m \in D THEN "adrift" ELSE Adrift[m]]
    BY <1>0, <1>13 DEF DrainFails, ClusterTypes
  <2>3. D = Lowest(Available(session), Cardinality(D)) /\ Cardinality(buffer \cup D) <= Prefetch + 1
    BY <1>0, <2>2 DEF DrainDelivery, Delivery, ClusterTypes
  <2>4. /\ D \in SUBSET arrived
        /\ \A k \in arrived \ C, m \in buffer \cup D : k < m /\ loc[k] = "active" => k \in buffer \cup D
    BY <1>0, <2>1, <2>2, <2>3, HandsComeFirst
  <2>. QED BY <1>3, <2>1, <2>2, <2>3, <2>4
<1>14. CASE DrainWrites
  BY <1>0, <1>14 DEF DrainWrites, ClusterTypes
<1>15. CASE Finish
  <2>1. UNCHANGED <<arrived, loc, faults>> /\ lock' = Adrift /\ Closed /\ batch = {} /\ buffer = {}
    BY <1>15 DEF Finish, LoopShape, env
  <2>. QED BY <1>2, <2>1
<1>16. CASE Arrives
  <2>1. PICK n \in Newer : n \in Newer \ arrived /\ (\A k \in Newer \ arrived : n <= k) /\ arrived' = arrived \cup {n}
    BY <1>16 DEF Arrives, IsLowest
  <2>2. UNCHANGED <<loc, lock, batch, buffer, faults>>
    BY <1>16 DEF Arrives, entityVars
  <2>3. n \in Nat /\ \A k \in arrived : k < n /\ k \in Nat
    BY <1>0, <2>1 DEF HandsAreFull, ClusterTypes
  <2>4. \A m \in Newer \ arrived', k \in arrived' : k < m
    <3>. SUFFICES ASSUME NEW m \in Newer \ arrived', NEW k \in arrived' PROVE k < m
      OBVIOUS
    <3>1. m \in Newer \ arrived /\ m # n /\ m \in Nat /\ n \in Nat /\ n <= m
      BY <1>0, <2>1 DEF ClusterTypes
    <3>2. CASE k \in arrived
      BY <3>1, <3>2 DEF HandsAreFull
    <3>3. CASE k = n
      BY <3>1, <3>3
    <3>. QED BY <2>1, <3>2, <3>3
  <2>5. HandsAreFull'
    <3>1. \A m \in Seqs : loc'[m] = "deferred" => m \in arrived'
      BY <2>1, <2>2 DEF HandsAreFull
    <3>2. Cardinality(batch') <= BatchSize' /\ Cardinality(buffer') <= Prefetch' + 1
      BY <1>0, <2>2, ClusterRow DEF HandsAreFull
    <3>3. \A m \in Newer' \ arrived', k \in arrived' : k < m
      BY <1>0, <2>4, ClusterRow
    <3>. QED BY <3>1, <3>2, <3>3 DEF HandsAreFull
  <2>6. n \in Seqs /\ loc[n] # "deferred" /\ n \notin C /\ n \notin batch /\ n \notin buffer
    BY <1>0, <2>1 DEF HandsAreFull, ClusterTypes
  <2>7. ASSUME NEW k \in arrived' \ C, NEW m \in arrived', k < m, loc'[k] = "active"
        PROVE  /\ m \notin C /\ loc'[m] # "deferred"
               /\ m \in batch' => k \in batch'
               /\ m \in buffer' => k \in batch' \cup buffer'
    <3>1. CASE m = n
      BY <2>2, <2>6, <3>1
    <3>2. CASE m \in arrived
      <4>1. k \in arrived
        BY <2>1, <2>3, <2>7, <3>2
      <4>. QED BY <2>2, <2>7, <3>2, <4>1 DEF ClusterOf
    <3>. QED BY <2>1, <3>1, <3>2
  <2>8. ClusterOf(C)'
    <3>1. (Cardinality(C) <= BatchSize + Prefetch + 1)' /\ (faults = 0 => C = {})'
      BY <1>0, <2>2, ClusterRow DEF ClusterOf
    <3>2. \A m \in Seqs \ C : /\ lock'[m] # "adrift"
                              /\ lock'[m] = "hand" <=> m \in batch'
                              /\ lock'[m] = "buffer" <=> m \in buffer'
      BY <2>2 DEF ClusterOf
    <3>. QED BY <2>7, <3>1, <3>2 DEF ClusterOf
  <2>. QED BY <2>1, <2>5, <2>8
<1>17. ASSUME NEW m \in Seqs, LockLapses(m) PROVE Kept
  <2>1. /\ UNCHANGED <<arrived, batch, buffer>> /\ Release({m})
        /\ IF lock[m] = "adrift" THEN UNCHANGED faults ELSE Fault
    BY <1>17 DEF LockLapses, env
  <2>2. Quiet /\ (\A k \in Seqs : lock[k] = "free" => lock'[k] = "free")
        /\ \A k \in Seqs : k # m => lock'[k] = lock[k]
    BY <2>1 DEF Release, Held
  <2>3. CASE lock[m] = "adrift"
    <3>1. m \in C
      BY <2>3 DEF ClusterOf
    <3>2. (faults' = 0 => faults = 0) /\ \A k \in Seqs \ C : lock'[k] = lock[k]
      BY <2>1, <2>2, <2>3, <3>1
    <3>. QED BY <1>0, <2>1, <2>2, <3>2, ClusterKept
  <2>4. CASE lock[m] # "adrift"
    BY <1>4, <2>1, <2>2, <2>4
  <2>. QED BY <2>3, <2>4
<1>. QED
  BY <1>5, <1>6, <1>7, <1>8, <1>9, <1>10, <1>11, <1>12, <1>13, <1>14, <1>15, <1>16, <1>17
  DEF Next, Step, Process, Drain, End, World

\* Only a run in mode defer_commit defers.
LEMMA DeferStep ==
    ASSUME LoopTypeOK, Mode # "defer_commit", \A m \in Seqs : loc[m] # "deferred", [Next]_vars
    PROVE  \A m \in Seqs : loc'[m] # "deferred"
<1>1. CASE UNCHANGED loc \/ (\E S : Release(S)) \/ \E S : Delete(S, "received")
  BY <1>1 DEF Release, Delete, Moved
<1>2. CASE ProcessBatch \/ FailBatch \/ ProcessInterrupted
  <2>1. PICK S, X, A, closing : Processed(S, X, A, closing)
    BY <1>2, BatchIsProcessed
  <2>2. CASE ~LockHolding
    BY <2>1, <2>2 DEF Processed, entityVars
  <2>3. CASE LockHolding
    <3>1. Mode = "complete"
      BY <2>3, RowTyped DEF LoopTypeOK, RowIsTyped, LockHolding
    <3>2. \A m \in Seqs : loc'[m] \in {"completed", "dead_lettered", "exhausted", loc[m]}
      BY <2>1, <2>3, <3>1 DEF Processed
    <3>. QED BY <3>2
  <2>. QED BY <2>2, <2>3
<1>3. CASE ReceiveBatch \/ ConnectionFails \/ DrainFails
  <2>1. UNCHANGED loc \/ \E S : Delete(S, "received")
    BY <1>3 DEF ReceiveBatch, ConnectionFails, DrainFails
  <2>. QED BY <1>1, <2>1
<1>4. CASE DrainAbandons \/ DrainWrites \/ \E m \in Seqs : LockLapses(m)
  <2>1. (\E S : Release(S)) \/ \E S : Delete(S, "received")
    BY <1>4 DEF DrainAbandons, DrainWrites, LockLapses
  <2>. QED BY <1>1, <2>1
<1>. QED
  BY <1>1, <1>2, <1>3, <1>4
  DEF Next, Step, Process, Drain, End, World, StopNow, StopOnState, OpenReceiver, SessionRefused, NoMoreSessions, EmptySession,
      EmptyAndDrained, EmptyButRemaining, FinishSession, CatchUp, Finish, Arrives, OthersMove, DeadlinePasses, CatchUpTimePasses,
      vars, entityVars

\* The K derivation of the orphan scan, for any batch size, prefetch and length of
\* the run: on a plain entity one interruption -- a connection that fails in a
\* receive, a settle call or the stop drain, or a lock that lapses -- leaves at
\* most one batch and the local buffer locked between two deferrals.
THEOREM OneInterruptionLeavesOneCluster ==
    Spec => [](OneInterruption => ClusterBound)
<1>1. Init => Clustering
  <2>. SUFFICES ASSUME Init PROVE Clustering
    OBVIOUS
  <2>1. RowIsTyped /\ arrived = Old
    BY RowTyped DEF Init, Old
  <2>2. Cardinality({}) = 0 /\ BatchSize \in Nat /\ Prefetch \in Nat
    BY <2>1, FS_EmptySet DEF RowIsTyped
  <2>3. (\A m \in Seqs : loc[m] = "active" /\ lock[m] = "free") /\ batch = {} /\ buffer = {} /\ faults = 0
    BY DEF Init, EntityInit
  <2>4. ~Partitioned => HandsAreFull
    BY <2>1, <2>2, <2>3 DEF HandsAreFull, RowIsTyped
  <2>5. ClusterOf({})
    BY <2>1, <2>2, <2>3 DEF ClusterOf, RowIsTyped
  <2>. QED BY <2>3, <2>4, <2>5 DEF Clustering, OneInterruption
<1>2. LoopInv /\ Clustering /\ [Next]_vars => Clustering'
  <2>. SUFFICES ASSUME LoopInv, Clustering, [Next]_vars PROVE Clustering'
    OBVIOUS
  <2>1. EntityInv /\ LoopTypeOK /\ LoopShape /\ row' = row
    BY RowFixed DEF LoopInv, TypeInv
  <2>2. Mode' = Mode /\ OneInterruption' = OneInterruption /\ LockHolding' = LockHolding
    BY <2>1 DEF Mode, OneInterruption, LockHolding, Sessions, Partitioned, Bad, MaxFaults
  <2>3. Mode' # "defer_commit" => \A m \in Seqs : loc'[m] # "deferred"
    BY <2>1, <2>2, DeferStep DEF Clustering
  <2>4. ASSUME OneInterruption, LockHolding PROVE HandsAreFull' /\ \E K \in SUBSET arrived' : ClusterOf(K)'
    <3>1. PICK C \in SUBSET arrived : ClusterOf(C)
      BY <2>4 DEF Clustering
    <3>2. HandsAreFull
      BY <2>4 DEF Clustering
    <3>. QED BY <2>1, <2>4, <3>1, <3>2, ClusterStep
  <2>. QED BY <2>2, <2>3, <2>4 DEF Clustering
<1>3. LoopInv /\ Clustering => (OneInterruption => ClusterBound)
  BY ClusteringBounds DEF LoopInv, TypeInv
<1>. QED BY <1>1, <1>2, <1>3, LoopInvariant, PTL DEF Spec
=============================================================================
