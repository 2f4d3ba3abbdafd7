----------------------------- MODULE ReceiveLoop -----------------------------
(***************************************************************************)
(* One destructive run of ReceiveLoop (receiver.py) in detail: the stop     *)
(* rules, the receiver and session bookkeeping, empty receives and the      *)
(* drain check, the watermark, the stop drain, connection recovery with its *)
(* budget, the unreadable-body recycles, the catch-up and the closing       *)
(* warning.  A batch is processed in one step; Extractor has its calls one  *)
(* by one, and what becomes of a run's output.                              *)
(***************************************************************************)
EXTENDS Entity

CONSTANT Rows   \* the configured rows the instance runs, on the entity of each

ASSUME RowsAssumption ==
    \A r \in Rows :
        /\ r.old \subseteq Seqs /\ r.newer \subseteq Seqs \ r.old /\ r.bad \subseteq r.old \cup r.newer
        /\ r.mode \in {"complete", "defer_commit", "receive_and_delete"}
        /\ r.policy \in {"dead_letter", "leave", "fail"}
        /\ DOMAIN r.sessionOf = Seqs /\ \A m \in Seqs : r.sessionOf[m] # "none"
        /\ ~r.sessionEnabled => \A m, k \in Seqs : r.sessionOf[m] = r.sessionOf[k]
        /\ r.contended \subseteq {r.sessionOf[m] : m \in Seqs} /\ (~r.sessionEnabled => r.contended = {})
        /\ {r.sessionEnabled, r.partitioned, r.stopAtStart, r.catchUpWait, r.stalls, r.timesOut}
              \subseteq BOOLEAN
        /\ r.batchSize \in Nat \ {0} /\ r.prefetch \in Nat \ {0} /\ r.limit \in Nat
        /\ {r.maxRecoveries, r.maxFaults} \subseteq Nat
        /\ r.mode = "receive_and_delete" => r.prefetch = 1
        /\ ~r.partitioned => \A m \in r.newer, k \in r.old : k < m

CONSTANTS MaxEmptyRetries, MaxRecycles   \* receive retries, unreadable-body recycles

ASSUME BudgetAssumption == {MaxEmptyRetries, MaxRecycles} \subseteq Nat

VARIABLES
    row,         \* the row this run was started with
    arrived,     \* messages on the entity so far
    faults,      \* faults so far, at most MaxFaults
    late,        \* max_duration_seconds has passed
    others,      \* the sessions locked by other receivers
    pc,          \* "step", "process", "drain", "next", "done" or "over"
    reason,      \* the stop reason, "none" so far, "error" when the run raises
    warned,      \* the messages_remaining warning was given
    session,     \* the open receiver's session, "none" without a receiver
    used,        \* _received_on_receiver
    seen,        \* _seen_sessions
    buffer,      \* the SDK's local receive buffer
    batch,       \* the batch handed out and not processed yet
    taken, highest, empties,   \* _taken, _highest_processed, _empty_retries
    catching, windowOver,      \* catching up, and its time is over
    count, progressed,         \* the RecoveryTracker
    recycles, retried,         \* unreadable_recycles; failed on an earlier connection
    written, disposed          \* messages that got a row, that were disposed of

Old == row.old               \* messages on the entity at the job start
Newer == row.newer           \* messages enqueued at or after T0: they arrive during the run
Bad == row.bad               \* messages whose body can fail to decode
Mode == row.mode             \* settlement_mode
Policy == row.policy         \* unreadable_body
Sessions == row.sessionEnabled
Contended == row.contended   \* sessions other receivers may lock
Partitioned == row.partitioned    \* info.is_partitioned: delivery follows no order
StopAtStart == row.stopAtStart    \* limits.stop_at_job_start
BatchSize == row.batchSize
Prefetch == row.prefetch
Limit == row.limit           \* limits.max_messages, 0 without one
MaxRecoveries == row.maxRecoveries
CatchUpWait == row.catchUpWait    \* recovery_wait_seconds > 0
Stalls == row.stalls         \* may a receive or an accept come back empty for no reason?
TimesOut == row.timesOut     \* may max_duration_seconds pass during the run?
MaxFaults == row.maxFaults   \* bound: connection failures, lapses of held locks, aborts

position == <<session, used, seen>>
counters == <<taken, highest, empties>>
catchUp == <<catching, windowOver>>
tracker == <<count, progressed>>
unreadable == <<recycles, retried>>
results == <<written, disposed>>
env == <<row, arrived, late, others>>
vars == <<entityVars, env, faults, pc, reason, warned, position, buffer, batch,
          counters, catchUp, tracker, unreadable, results>>

LockHolding == Mode # "receive_and_delete"
SessionIds == {row.sessionOf[m] : m \in Seqs}
StopReasons == {"idle", "max_messages", "max_duration", "watermark", "state_budget",
                "no_more_sessions", "session_revisited", "receive_stalled"}

TypeOK ==
    /\ EntityTypeOK
    /\ row \in Rows /\ arrived \subseteq Old \cup Newer /\ faults \in 0..MaxFaults /\ late \in BOOLEAN
    /\ others \subseteq Contended
    /\ pc \in {"step", "process", "drain", "next", "done", "over"}
    /\ reason \in StopReasons \cup {"none", "error"} /\ warned \in BOOLEAN
    /\ session \in SessionIds \cup {"none"} /\ used \in BOOLEAN /\ seen \subseteq SessionIds
    /\ buffer \subseteq arrived /\ batch \subseteq arrived
    /\ taken \in Nat /\ highest \in Seqs \cup {0} /\ empties \in 0..MaxEmptyRetries
    /\ catching \in BOOLEAN /\ windowOver \in BOOLEAN
    /\ count \in 0..MaxRecoveries /\ progressed \in BOOLEAN
    /\ recycles \in 0..MaxRecycles /\ retried \subseteq Bad
    /\ written \subseteq arrived /\ disposed \subseteq Bad

Init ==
    /\ EntityInit
    /\ row \in Rows /\ arrived = row.old /\ faults = 0 /\ late = FALSE /\ others = {}
    /\ pc = "step" /\ reason = "none" /\ warned = FALSE
    /\ session = "none" /\ used = FALSE /\ seen = {}
    /\ buffer = {} /\ batch = {}
    /\ taken = 0 /\ highest = 0 /\ empties = 0
    /\ catching = FALSE /\ windowOver = FALSE
    /\ count = 0 /\ progressed = TRUE
    /\ recycles = 0 /\ retried = {} /\ written = {} /\ disposed = {}

Fault == faults < MaxFaults /\ faults' = faults + 1

(***************************************************************************)
(* Ends of a receiver, and of the run.                                     *)
(***************************************************************************)

\* _close: the copies are gone, their locks last until they lapse.  interrupted:
\* the open session was not finished, so being handed it again is no revisit.
Closed == session' = "none" /\ used' = FALSE /\ buffer' = {} /\ batch' = {}
Interrupted == Closed /\ seen' = seen \ {session}

\* Mutation of Ending: no stop drain.
EndingUndrained(r) == reason' = r /\ pc' = "done"

\* A stop rule fired: the stop drain runs unless nothing was ever received on
\* the open receiver, or there is none.
Ending(r) ==
    /\ reason' = r
    /\ pc' = IF session # "none" /\ used THEN "drain" ELSE "done"

\* Mutation of BudgetSpent: one recovery too many.
BudgetSpentLate(earned) == count > MaxRecoveries \/ ~earned

\* RecoveryTracker.failure: the budget is spent, or nothing was achieved since
\* the last connection failure (earned: something was).
BudgetSpent(earned) == count >= MaxRecoveries \/ ~earned

\* _recover: close, then a fresh connection, or the end of the run.
Recover(earned) ==
    /\ Interrupted
    /\ IF BudgetSpent(earned)
       THEN /\ reason' = "error" /\ pc' = "done"
            /\ progressed' = earned /\ UNCHANGED count
       ELSE /\ pc' = "step" /\ UNCHANGED reason
            /\ count' = count + 1 /\ progressed' = FALSE

\* _consume: SessionCannotBeLockedError on the open session, which another
\* receiver got hold of.  The session counts as finished, and no budget as used.
SessionLost(earned) ==
    /\ session \in Contended /\ others' = others \cup {session}
    /\ Closed /\ pc' = "step" /\ progressed' = earned
    /\ UNCHANGED <<reason, seen, count>>

\* _consume: what becomes of an error other than the run's own.
Caught(earned) == SessionLost(earned) \/ (Recover(earned) /\ UNCHANGED others)

(***************************************************************************)
(* _step: the stop rules, then a receiver, then a batch.                   *)
(***************************************************************************)

\* _stop_check, in its order (the state budget is StopOnState).
StopRule ==
    CASE Limit > 0 /\ taken >= Limit -> "max_messages"
      [] ~(Limit > 0 /\ taken >= Limit) /\ late -> "max_duration"
      [] ~(Limit > 0 /\ taken >= Limit) /\ ~late /\ catching /\ windowOver ->
            IF Sessions THEN "no_more_sessions" ELSE "idle"
      [] OTHER -> "none"

Stepping == pc = "step" /\ StopRule = "none"

StopNow ==
    /\ pc = "step" /\ StopRule # "none"
    /\ Ending(StopRule)
    /\ UNCHANGED <<entityVars, env, faults, warned, position, buffer, batch, counters,
                   catchUp, tracker, unreadable, results>>

\* The state this defer_commit run would save reached the budget (a fault here:
\* it takes far more messages than an instance has).
StopOnState ==
    /\ pc = "step" /\ StopRule \notin {"max_messages", "max_duration"}
    /\ Mode = "defer_commit" /\ written # {} /\ Fault
    /\ Ending("state_budget")
    /\ UNCHANGED <<entityVars, env, warned, position, buffer, batch, counters, catchUp,
                   tracker, unreadable, results>>

Available(s) == {m \in Receivable \cap arrived : row.sessionOf[m] = s}

Handed(s) == s \notin others /\ Available(s) # {}

\* _open_next.  A session handed out a second time ends the session loop.
OpenReceiver ==
    /\ Stepping /\ session = "none"
    /\ \E s \in SessionIds :
          /\ Sessions => Handed(s)
          /\ session' = s
          /\ IF Sessions /\ s \in seen
             THEN reason' = "session_revisited" /\ pc' = "done" /\ UNCHANGED seen
             ELSE seen' = (IF Sessions THEN seen \cup {s} ELSE seen) /\ UNCHANGED <<reason, pc>>
    /\ used' = FALSE
    /\ UNCHANGED <<entityVars, env, faults, warned, buffer, batch, counters, catchUp,
                   tracker, unreadable, results>>

\* SessionCannotBeLockedError at the accept: another receiver was faster.  The
\* loop goes on, and nothing counts how often.
SessionRefused ==
    /\ Stepping /\ session = "none"
    /\ \E s \in Contended : Handed(s) /\ others' = others \cup {s}
    /\ UNCHANGED <<entityVars, row, arrived, late, faults, pc, reason, warned, position,
                   buffer, batch, counters, catchUp, tracker, unreadable, results>>

\* OperationTimeoutError: no session was handed out.  (Catching up, it polls on.)
NoMoreSessions ==
    /\ Stepping /\ Sessions /\ session = "none" /\ ~catching
    /\ Stalls \/ \A s \in SessionIds : ~Handed(s)
    /\ reason' = "no_more_sessions" /\ pc' = "done"
    /\ UNCHANGED <<entityVars, env, faults, warned, position, buffer, batch, counters,
                   catchUp, tracker, unreadable, results>>

\* Mutation of BatchCount: the limit is not counted down.
BatchCountUnlimited == BatchSize

\* Mutation of BatchCount: one message more than configured.
BatchCountOneMore == BatchSize + 1

BatchCount == IF Limit > 0 /\ Limit - taken < BatchSize THEN Limit - taken ELSE BatchSize

\* What the broker may deliver to the open receiver: its session's messages, in
\* sequence order unless the entity is partitioned.
Delivery(D, n) ==
    /\ D \subseteq Available(session) /\ Cardinality(D) <= n
    /\ ~Partitioned => D = Lowest(Available(session), Cardinality(D))

\* A receive that returns the batch R: from the buffer, then from D.
ReceiveBatch ==
    /\ Stepping /\ session # "none"
    /\ \E D \in SUBSET Available(session), R \in SUBSET arrived :
          /\ Delivery(D, BatchCount + Prefetch + 1)
          /\ R # {} /\ R \subseteq buffer \cup D /\ Cardinality(R) <= BatchCount
          /\ IF R \subseteq buffer THEN R = Lowest(buffer, Cardinality(R))
             ELSE buffer \subseteq R /\ R \ buffer = Lowest(D \ buffer, Cardinality(R \ buffer))
          /\ Cardinality((buffer \cup D) \ R) <= Prefetch + 1
          /\ batch' = R /\ buffer' = (buffer \cup D) \ R
          /\ IF LockHolding
             THEN /\ lock' = [m \in Seqs |->
                        IF m \in D \/ (m \in buffer /\ lock[m] = "buffer")
                        THEN (IF m \in R THEN "hand" ELSE "buffer") ELSE lock[m]]
                  /\ UNCHANGED <<loc, dc>>
             ELSE Delete(D, "received")
    /\ used' = TRUE /\ empties' = 0 /\ pc' = "process"
    /\ UNCHANGED <<env, faults, reason, warned, session, seen, taken, highest, catchUp,
                   tracker, unreadable, results>>

\* The broker delivered D and the connection failed (D = {}: in an open, a
\* renewal, a peek or an empty receive).
ConnectionFails ==
    /\ Stepping /\ Fault
    /\ \E D \in SUBSET (Receivable \cap arrived) :
          /\ IF session = "none" THEN D = {} ELSE Delivery(D, BatchCount)
          /\ IF LockHolding
             THEN /\ lock' = [m \in Seqs |-> IF m \in D THEN "adrift" ELSE Adrift[m]]
                  /\ UNCHANGED <<loc, dc>>
             ELSE Delete(D, "received")
    /\ Caught(progressed)
    /\ UNCHANGED <<row, arrived, late, warned, counters, catchUp, unreadable, results>>

(***************************************************************************)
(* An empty receive.                                                       *)
(***************************************************************************)

\* Mutation of Remaining: a partitioned entity is checked like a plain one.
RemainingPastHighest ==
    {m \in arrived : /\ loc[m] = "active" /\ m > highest
                     /\ ~(StopAtStart /\ m \in Newer)}

\* _receivable_messages: what the drain check's peek shows as active past the
\* highest processed sequence number -- locked or not, a peek cannot tell.
Remaining ==
    {m \in arrived : /\ loc[m] = "active"
                     /\ Partitioned \/ m > highest
                     /\ ~(StopAtStart /\ m \in Newer)}

EmptyReceive ==
    /\ Stepping /\ session # "none" /\ buffer = {}
    /\ Stalls \/ Available(session) = {}

\* The session is drained: on to the next one.
EmptySession ==
    /\ EmptyReceive /\ Sessions
    /\ lock' = Adrift /\ Closed
    /\ UNCHANGED <<loc, dc, env, faults, pc, reason, warned, seen, counters, catchUp,
                   tracker, unreadable, results>>

\* Verified by the drain check: stop.
EmptyAndDrained ==
    /\ EmptyReceive /\ ~Sessions /\ ~catching /\ Remaining = {}
    /\ reason' = "idle" /\ pc' = "done" /\ used' = TRUE
    /\ UNCHANGED <<entityVars, env, faults, warned, session, seen, buffer, batch,
                   counters, catchUp, tracker, unreadable, results>>

\* Mutation of EmptiesNow: the retries are not counted.
EmptiesUncounted == empties

EmptiesNow == empties + 1

\* _retry_empty_receive: messages remain, so reopen, or give up.
EmptyButRemaining ==
    /\ EmptyReceive /\ ~Sessions /\ ~catching /\ Remaining # {}
    /\ IF EmptiesNow > MaxEmptyRetries
       THEN /\ reason' = "receive_stalled" /\ pc' = "done" /\ used' = TRUE
            /\ UNCHANGED <<lock, session, buffer, batch, empties>>
       ELSE /\ lock' = Adrift /\ Closed
            /\ empties' = EmptiesNow /\ UNCHANGED <<pc, reason>>
    /\ UNCHANGED <<loc, dc, env, faults, warned, seen, taken, highest, catchUp,
                   tracker, unreadable, results>>

(***************************************************************************)
(* A batch.                                                                *)
(***************************************************************************)

\* A decode failure asks for a fresh connection: not a second failure on one,
\* not of a message left before, not past the budget.
MayRetry(m) ==
    /\ LockHolding /\ m \notin retried /\ recycles < MaxRecycles
    /\ ~(Policy = "leave" /\ m \in disposed)

\* The broker after S was settled, X disposed of and A abandoned (a call on a
\* copy whose lock lapsed has no effect), and the receiver closed if closing.
Holding(S) == {m \in S : lock[m] = "hand"}

Processed(S, X, A, closing) ==
    LET gone == IF Policy = "dead_letter" THEN Holding(X) ELSE {}
        spent == {m \in Holding(A) : dc[m] + 1 >= MaxDelivery}
    IN  IF LockHolding
        THEN /\ dc' = [m \in Seqs |-> IF m \in Holding(A) THEN dc[m] + 1 ELSE dc[m]]
             /\ loc' = [m \in Seqs |->
                   CASE m \in Holding(S) ->
                            IF Mode = "complete" THEN "completed" ELSE "deferred"
                     [] m \in gone -> "dead_lettered"
                     [] m \in spent -> "exhausted"
                     [] OTHER -> loc[m]]
             /\ lock' = [m \in Seqs |-> IF m \in Holding(S) \cup gone \cup Holding(A)
                                        THEN "free"
                                        ELSE IF closing THEN Adrift[m] ELSE lock[m]]
        ELSE UNCHANGED entityVars

\* The batch's unreadable messages U, and those of them to be retried, A.
Unreadable(U, A) ==
    /\ U \subseteq batch \cap Bad
    /\ A \subseteq {m \in U : MayRetry(m)}

\* Policy fail: a failure of this batch, or one an interrupted batch recorded.
Failing(X) == Policy = "fail" /\ X \cup disposed # {}

\* Every message of the batch is newer than the job start.
Watermark == StopAtStart /\ batch \subseteq Newer
Highest == CHOOSE h \in batch \cup {highest} : \A m \in batch \cup {highest} : m <= h

\* _process and what _step does next: the batch is written and settled; a batch
\* of newer messages ends the run or the session; unreadable bodies to retry
\* get a fresh connection, which no drain precedes.
ProcessBatch ==
    /\ pc = "process"
    /\ \E U, A \in SUBSET batch :
          LET recycle == A # {} /\ ~Watermark
          IN  /\ Unreadable(U, A) /\ ~Failing(U \ A)
              /\ Processed(batch \ U, U \ A, A, recycle)
              /\ written' = written \cup (batch \ U)
              /\ disposed' = disposed \cup (U \ A)
              /\ progressed' = (progressed \/ A # batch)
              /\ taken' = IF Limit = 0 THEN 0 ELSE taken + Cardinality(batch \ A)
              /\ IF recycle
                 THEN Interrupted /\ recycles' = recycles + 1 /\ retried' = retried \cup A
                 ELSE batch' = {} /\ UNCHANGED <<position, buffer, unreadable>>
    /\ highest' = Highest
    /\ IF Watermark
       THEN pc' = "drain" /\ reason' = IF Sessions THEN "none" ELSE "watermark"
       ELSE pc' = "step" /\ UNCHANGED reason
    /\ UNCHANGED <<env, faults, warned, empties, catchUp, count>>

\* The processor raises its own UserException once the batch is written and
\* settled: policy fail, or (a fault here) the flatten cap or the abort share.
\* The stop drain runs before the run ends.
FailBatch ==
    /\ pc = "process"
    /\ \E U, A \in SUBSET batch :
          /\ Unreadable(U, A)
          /\ IF Failing(U \ A) THEN UNCHANGED faults ELSE Fault
          /\ Processed(batch \ U, U \ A, A, FALSE)
          /\ written' = written \cup (batch \ U)
          /\ disposed' = disposed \cup (U \ A)
          /\ progressed' = (progressed \/ U # batch)
    /\ batch' = {}
    /\ reason' = "error" /\ pc' = "drain"
    /\ UNCHANGED <<env, warned, position, buffer, counters, catchUp, count, unreadable>>

\* The connection fails in a call for a message of the batch: for an unreadable
\* one, before the rows are written, or in a settle call, after it.  Written
\* rows count as progress.
ProcessInterrupted ==
    /\ pc = "process" /\ LockHolding /\ Fault
    /\ \E U, A, V, S \in SUBSET batch, wrote \in BOOLEAN :
          LET W == batch \ U
          IN  /\ Unreadable(U, A)
              /\ IF wrote
                 THEN W # {} /\ V = U /\ S = Lowest(W, Cardinality(S))
                 ELSE U # {} /\ V = Lowest(U, Cardinality(V)) /\ S = {}
              /\ Processed(S, V \ A, V \cap A, TRUE)
              /\ written' = IF wrote THEN written \cup W ELSE written
              /\ disposed' = disposed \cup (V \ A)
              /\ retried' = retried \cup (V \cap A)
              /\ Caught(progressed \/ wrote)
    /\ UNCHANGED <<row, arrived, late, warned, counters, catchUp, recycles>>

(***************************************************************************)
(* The stop drain.                                                         *)
(***************************************************************************)

DrainDelivery(D) == Delivery(D, Prefetch + 1) /\ Cardinality(buffer \cup D) <= Prefetch + 1

\* The session's watermark: its receiver is closed next (FinishSession).
Drained(r) ==
    /\ reason' = r /\ buffer' = {}
    /\ pc' = IF r = "none" THEN "next" ELSE "done"

DrainAbandons ==
    /\ pc = "drain" /\ LockHolding
    /\ \E D \in SUBSET Available(session) :
          /\ DrainDelivery(D)
          /\ Release(D \cup {m \in buffer : lock[m] = "buffer"})
    /\ Drained(reason)
    /\ UNCHANGED <<env, faults, warned, position, batch, counters, catchUp, tracker,
                   unreadable, results>>

\* receive_and_delete writes what it drains; policy fail then ends the run.
DrainWrites ==
    /\ pc = "drain" /\ ~LockHolding
    /\ \E D \in SUBSET Available(session), U \in SUBSET Bad :
          /\ DrainDelivery(D)
          /\ Delete(D, "received")
          /\ U \subseteq buffer \cup D
          /\ written' = written \cup ((buffer \cup D) \ U)
          /\ disposed' = disposed \cup U
          /\ Drained(IF Failing(U) THEN "error" ELSE reason)
    /\ UNCHANGED <<env, faults, warned, position, batch, counters, catchUp, tracker,
                   unreadable>>

\* Best effort: a failed connection is swallowed.
DrainFails ==
    /\ pc = "drain" /\ Fault
    /\ \E D \in SUBSET Available(session) :
          /\ DrainDelivery(D)
          /\ IF LockHolding
             THEN /\ lock' = [m \in Seqs |-> IF m \in D THEN "adrift" ELSE Adrift[m]]
                  /\ UNCHANGED <<loc, dc>>
             ELSE Delete(D, "received")
    /\ Drained(reason)
    /\ UNCHANGED <<env, warned, position, batch, counters, catchUp, tracker, unreadable,
                   results>>

FinishSession ==
    /\ pc = "next"
    /\ lock' = Adrift /\ Closed
    /\ pc' = "step"
    /\ UNCHANGED <<loc, dc, env, faults, reason, warned, seen, counters, catchUp,
                   tracker, unreadable, results>>

(***************************************************************************)
(* run(): the catch-up after a recovery, the warning, the end.             *)
(***************************************************************************)

CatchUpDue ==
    CatchUpWait /\ ~catching /\ count > 0 /\ reason \in {"idle", "no_more_sessions"}

CatchUp ==
    /\ pc = "done" /\ CatchUpDue
    /\ catching' = TRUE /\ pc' = "step" /\ reason' = "none"
    /\ UNCHANGED <<entityVars, env, faults, warned, position, buffer, batch, counters,
                   windowOver, tracker, unreadable, results>>

PartialStops == {"max_messages", "max_duration", "receive_stalled"}

\* _warn_if_messages_remain: by a peek, or by the management count of active
\* messages on a session entity.
Warns ==
    IF ~Sessions THEN reason \in PartialStops /\ Remaining # {}
    ELSE /\ Mode # "defer_commit"
         /\ reason \in PartialStops \/ (reason = "no_more_sessions" /\ ~StopAtStart)
         /\ \E m \in arrived : loc[m] = "active"

Finish ==
    /\ pc = "done" /\ ~CatchUpDue
    /\ warned' = Warns
    /\ lock' = Adrift /\ Closed
    /\ pc' = "over"
    /\ UNCHANGED <<loc, dc, env, faults, reason, seen, counters, catchUp, tracker,
                   unreadable, results>>

(***************************************************************************)
(* The world around the run.                                               *)
(***************************************************************************)

Arrives ==
    /\ pc # "over"
    /\ \E m \in Newer : IsLowest(m, Newer \ arrived) /\ arrived' = arrived \cup {m}
    /\ UNCHANGED <<entityVars, row, late, others, faults, pc, reason, warned, position, buffer,
                   batch, counters, catchUp, tracker, unreadable, results>>

\* Other receivers lock sessions, and release theirs.
OthersMove ==
    /\ pc # "over"
    /\ \E s \in Contended \ {session} :
          others' = IF s \in others THEN others \ {s} ELSE others \cup {s}
    /\ UNCHANGED <<entityVars, row, arrived, late, faults, pc, reason, warned, position,
                   buffer, batch, counters, catchUp, tracker, unreadable, results>>

DeadlinePasses ==
    /\ pc # "over" /\ TimesOut /\ ~late
    /\ late' = TRUE
    /\ UNCHANGED <<entityVars, row, arrived, others, faults, pc, reason, warned, position, buffer,
                   batch, counters, catchUp, tracker, unreadable, results>>

CatchUpTimePasses ==
    /\ pc # "over" /\ catching /\ ~windowOver
    /\ windowOver' = TRUE
    /\ UNCHANGED <<entityVars, env, faults, pc, reason, warned, position, buffer, batch,
                   counters, catching, tracker, unreadable, results>>

LockLapses(m) ==
    /\ pc # "over" /\ lock[m] # "free"
    /\ IF lock[m] = "adrift" THEN UNCHANGED faults ELSE Fault
    /\ Release({m})
    /\ UNCHANGED <<env, pc, reason, warned, position, buffer, batch, counters, catchUp,
                   tracker, unreadable, results>>

Step == \/ StopNow \/ StopOnState \/ OpenReceiver \/ SessionRefused \/ NoMoreSessions
        \/ ReceiveBatch \/ ConnectionFails
        \/ EmptySession \/ EmptyAndDrained \/ EmptyButRemaining
Process == ProcessBatch \/ FailBatch \/ ProcessInterrupted
Drain == DrainAbandons \/ DrainWrites \/ DrainFails \/ FinishSession
End == CatchUp \/ Finish
World == Arrives \/ OthersMove \/ DeadlinePasses \/ CatchUpTimePasses \/ \E m \in Seqs : LockLapses(m)

Next == Step \/ Process \/ Drain \/ End \/ World

Spec == Init /\ [][Next]_vars

\* The run takes its steps, and the catch-up's clock runs.  max_duration is not
\* assumed to pass.
FairSpec == Spec /\ WF_vars(Step \/ Process \/ Drain \/ End) /\ WF_vars(CatchUpTimePasses)

(***************************************************************************)
(* Properties.                                                             *)
(***************************************************************************)
Over == pc = "over"

\* A run that ends well with a message left that was there at the job start
\* said so (without sessions): an idle or watermark stop (both silent) leaves none, however often
\* receives came back empty for no reason, and a stop at a limit warns.  The
\* drain check may start past the highest processed sequence number.
NoSilentPartialRun ==
    Over /\ ~Sessions /\ reason \notin {"error", "state_budget"} /\ faults = 0 =>
        warned \/ \A m \in Old \ Bad : loc[m] # "active"

\* The same of a session entity, when the broker handed out what there is: a
\* session handed out again ends the run only when no other was left unread.
RevisitLeavesNone ==
    Over /\ reason = "session_revisited" /\ faults = 0 =>
        warned \/ \A m \in Old \ Bad : loc[m] # "active"

\* The stop drains so far: the one at the end of the run, or with a watermark per
\* session one for each session.
StopDrains == IF Sessions /\ StopAtStart THEN Cardinality(seen) ELSE 1

\* max_messages bounds what a run takes, over all its batches; a stop drain of
\* receive_and_delete, whose messages are deleted already, may pass it by what
\* the drain finds: at most the prefetch window and one message in flight.
LimitHolds ==
    Limit > 0 /\ faults = 0 =>
        Cardinality(written \cup disposed)
            <= Limit + (IF LockHolding THEN 0 ELSE StopDrains * (Prefetch + 1))

\* receive_and_delete: at every close of a receiver the local buffer is empty,
\* or drained and written, unless a connection failed: a deleted message has a
\* row, or is still in the run's hands.
DeletedIsWritten ==
    faults = 0 => \A m \in Seqs : loc[m] = "received" =>
                     m \in written \cup disposed \cup buffer \cup batch

\* The K derivation of the orphan scan (k_stop): the never-delivered locked
\* messages between two deferrals are at most one batch plus the local buffer.
\* (With maxFaults = 1: one interruption leaves no larger cluster.)
LockedBefore(d) ==
    {k \in Seqs : /\ k < d /\ loc[k] = "active" /\ lock[k] # "free" /\ dc[k] = 0
                  /\ \A e \in Seqs : loc[e] = "deferred" => e < k \/ d <= e}

ClusterBound ==
    \A d \in Seqs : loc[d] = "deferred" =>
        Cardinality(LockedBefore(d)) <= BatchSize + Prefetch + 1

\* Past max_duration the run ends.  Without it the retry budgets end it, whatever
\* fails and however often receives come back empty although messages remain --
\* provided that other receivers do not lock and release sessions for ever:
\* nothing counts the accepts they win.
RunEnds ==
    /\ late ~> Over
    /\ <>[][others' = others]_others => <>Over
=============================================================================
