----------------------- MODULE ExtractorContractProofs -----------------------
(***************************************************************************)
(* What the row promises beyond no-loss, proved from the invariants of      *)
(* ExtractorProofs: that only faults drop messages, that the orphan guard   *)
(* protects deferred messages, that a deferral stays owned until it is      *)
(* deleted, and that the row implements the handover.                       *)
(***************************************************************************)
EXTENDS ExtractorProofs

(***************************************************************************)
(* Drops need a fault.                                                     *)
(***************************************************************************)

\* Faults are only ever counted up.
LEMMA FaultsGrow ==
    ASSUME TypeInv, [Next]_vars, faults' = 0
    PROVE  faults = 0 /\ ~Fault
<1>1. UNCHANGED faults \/ Fault
  BY DEF NoFault, Next, Commit, Scan, Process, Loop, Drain, Platform, vars, StartRun,
         DeleteChunk, DeleteChunkInterrupted, CarryForward, CommitDone, ScanPeek,
         RecoverOrphans, RecoverReplyLost, ScanFails, RecoverDone, Receive,
         ReceiveInterrupted, StopIdle, Stop, DecodeReadable, RetryUnreadable,
         DisposeUnreadable, DisposeInterrupted, WriteRows, CompleteMessage, DeferMessage,
         SettleLockLost, SettleNothing, SettleInterrupted, EndBatch, FailBatch,
         DrainAbandons, DrainWrites, DrainInterrupted, Peek, JobSucceeds, JobFails, JobDies,
         ResetState, LockLapses
<1>2. faults \in Nat
  BY ConfigAssumption DEF TypeInv, TypeOK, RunTypeOK
<1>. QED BY <1>1, <1>2 DEF Fault

\* receive_and_delete loses only unreadable bodies in runs without a fault: a
\* run that fails on its own has drained and written what it held, so the only
\* step left that drops a message is the disposition of an unreadable one.
THEOREM FaultFreeRunsDropNothing == Spec => []DropsNeedAFault
<1>1. Init => DropsNeedAFault
  BY DEF Init, DropsNeedAFault
<1>2. TypeInv /\ LossInv /\ DropsNeedAFault /\ [Next]_vars => DropsNeedAFault'
  <2>. SUFFICES ASSUME TypeInv, LossInv, DropsNeedAFault, [Next]_vars, faults' = 0
                PROVE  dropped' \subseteq Bad
    BY DEF DropsNeedAFault
  <2>1. dropped \subseteq Bad /\ ~Fault
    BY FaultsGrow DEF DropsNeedAFault
  <2>2. CASE UNCHANGED dropped
    BY <2>1, <2>2
  <2>3. CASE DisposeUnreadable
    BY <2>1, <2>3 DEF DisposeUnreadable, Lost
  <2>4. CASE JobFails
    <3>1. buffer = {} /\ todo = {} /\ stage = "fetch"
      BY <2>4 DEF JobFails, LossInv, BufferShape, TypeInv, BatchShape
    <3>. QED BY <2>1, <2>4, <3>1 DEF JobFails, Lost, Unwritten
  <2>. QED
    BY <2>1, <2>2, <2>3, <2>4
    DEF Next, Commit, Scan, Process, Loop, Drain, Platform, vars, durable, StartRun,
        DeleteChunk, DeleteChunkInterrupted, CarryForward, CommitDone, ScanPeek,
        RecoverOrphans, RecoverReplyLost, ScanFails, RecoverDone, Receive,
        ReceiveInterrupted, StopIdle, Stop, DecodeReadable, RetryUnreadable,
        DisposeInterrupted, WriteRows, CompleteMessage, DeferMessage, SettleLockLost,
        SettleNothing, SettleInterrupted, EndBatch, FailBatch, DrainAbandons, DrainWrites,
        DrainInterrupted, Peek, JobSucceeds, JobDies, ResetState, LockLapses
<1>. QED BY <1>1, <1>2, TypeInvariant, LossInvariant, PTL DEF Spec

(***************************************************************************)
(* The orphan guard.                                                       *)
(***************************************************************************)

\* A deferred message has a delivery left, locked or not; and an orphan still
\* to be recovered has two, as it had when the scan saw it: it is no longer
\* active, so nothing but its own deferred receive counts on it.
GuardInv ==
    /\ \A m \in Seqs : loc[m] = "deferred" => dc[m] < MaxDelivery
    /\ phase = "recover" =>
           \A m \in work : loc[m] # "active" /\ dc[m] < MaxDelivery - 1

\* A step counts a delivery of a message that is active, or of an orphan it
\* takes off the work list.
LEMMA CountStep ==
    ASSUME LostReplies = FALSE, TypeInv, [Next]_vars, NEW m \in Seqs, dc'[m] # dc[m]
    PROVE  /\ dc'[m] = dc[m] + 1
           /\ \/ loc[m] = "active" /\ loc'[m] \in {"active", "exhausted"}
              \/ /\ phase = "recover" /\ m \in work /\ m \notin work' /\ UNCHANGED loc
<1>. USE DEF TypeInv, TypeOK, EntityTypeOK, RunTypeOK
<1>1. CASE UNCHANGED dc
  BY <1>1
<1>2. CASE DeleteChunk \/ DeleteChunkInterrupted \/ DrainWrites
  BY <1>2 DEF DeleteChunk, DeleteChunkInterrupted, DrainWrites, Delete
<1>3. CASE Receive \/ ReceiveInterrupted \/ DrainInterrupted
  BY <1>3 DEF Receive, ReceiveInterrupted, DrainInterrupted, LoseDelivery, Deliver, Delete
<1>4. CASE RetryUnreadable
  BY <1>4 DEF RetryUnreadable, Abandon, Release, entityVars
<1>5. CASE DrainAbandons \/ \E n \in Seqs : LockLapses(n)
  BY <1>5 DEF DrainAbandons, LockLapses, Release
<1>6. CASE DisposeUnreadable \/ CompleteMessage \/ DeferMessage
  BY <1>6 DEF DisposeUnreadable, CompleteMessage, DeferMessage, Settled, entityVars
<1>7. CASE RecoverOrphans
  BY <1>7 DEF RecoverOrphans, LockDeferred, Lowest
<1>8. CASE RecoverReplyLost
  BY <1>8 DEF RecoverReplyLost
<1>. QED
  BY <1>1, <1>2, <1>3, <1>4, <1>5, <1>6, <1>7, <1>8
  DEF Next, Commit, Scan, Process, Loop, Drain, Platform, vars, entityVars, StartRun,
      CarryForward, CommitDone, ScanPeek, ScanFails, RecoverDone, DecodeReadable,
      DisposeInterrupted, WriteRows, SettleLockLost, SettleNothing, SettleInterrupted,
      EndBatch, FailBatch, StopIdle, Stop, Peek, JobSucceeds, JobFails, JobDies, ResetState

\* A message is deferred by a settle call, and only with a delivery left.
LEMMA DeferredStep ==
    ASSUME TypeInv, [Next]_vars, NEW m \in Seqs, loc'[m] = "deferred", loc[m] # "deferred"
    PROVE  /\ stage = "settle" /\ m \in readable
           /\ lock[m] = "hand" /\ lock'[m] = "free"
           /\ dc'[m] = dc[m] /\ dc[m] < MaxDelivery
           /\ mode = "defer_commit"
<1>. USE DEF TypeInv, TypeOK, EntityTypeOK, RunTypeOK
<1>1. CASE UNCHANGED loc
  BY <1>1
<1>2. CASE DeleteChunk \/ DeleteChunkInterrupted \/ DrainWrites
  BY <1>2 DEF DeleteChunk, DeleteChunkInterrupted, DrainWrites, Delete, Moved
<1>3. CASE Receive \/ ReceiveInterrupted \/ DrainInterrupted
  BY <1>3 DEF Receive, ReceiveInterrupted, DrainInterrupted, LoseDelivery, Deliver, Delete, Moved
<1>4. CASE RetryUnreadable \/ DrainAbandons \/ \E n \in Seqs : LockLapses(n)
  BY <1>4 DEF RetryUnreadable, DrainAbandons, LockLapses, Abandon, Release, entityVars
<1>5. CASE DisposeUnreadable \/ CompleteMessage
  BY <1>5 DEF DisposeUnreadable, CompleteMessage, Settled, SettledLoc, entityVars
<1>6. CASE DeferMessage
  <2>1. PICK n \in readable : Settling(n) /\ Settled(n, "deferred")
    BY <1>6 DEF DeferMessage
  <2>2. n = m /\ lock[m] = "hand" /\ ~(dc[m] >= MaxDelivery)
    BY <2>1 DEF Settled, SettledLoc, entityVars
  <2>. QED BY <1>6, <2>1, <2>2, MaxDeliveryAssumption DEF DeferMessage, Settling, Settled
<1>7. CASE SettleInterrupted
  <2>1. PICK n \in readable, reached \in BOOLEAN :
            /\ Settling(n)
            /\ reached => lock[n] = "hand"
            /\ loc' = IF reached THEN SettledLoc(n, IF mode = "complete" THEN "completed"
                                                    ELSE "deferred")
                      ELSE loc
            /\ lock' = IF reached THEN [Adrift EXCEPT ![n] = "free"] ELSE Adrift
    BY <1>7 DEF SettleInterrupted
  <2>2. reached = TRUE /\ n = m /\ mode # "complete" /\ ~(dc[m] >= MaxDelivery)
    BY <2>1 DEF SettledLoc
  <2>. QED
    BY <1>7, <2>1, <2>2, MaxDeliveryAssumption
    DEF SettleInterrupted, Settling, LockHolding, Adrift
<1>. QED
  BY <1>1, <1>2, <1>3, <1>4, <1>5, <1>6, <1>7
  DEF Next, Commit, Scan, Process, Loop, Drain, Platform, vars, entityVars, StartRun,
      CarryForward, CommitDone, ScanPeek, RecoverOrphans, RecoverReplyLost, LockDeferred,
      ScanFails, RecoverDone, DecodeReadable, DisposeInterrupted, WriteRows, SettleLockLost,
      SettleNothing, EndBatch, FailBatch, StopIdle, Stop, Peek, JobSucceeds, JobFails,
      JobDies, ResetState

\* Nothing that left the active state returns to it.
LEMMA ActiveStep ==
    ASSUME TypeInv, [Next]_vars, NEW m \in Seqs, loc'[m] = "active"
    PROVE  loc[m] = "active"
<1>. USE DEF TypeInv, TypeOK, EntityTypeOK, RunTypeOK
<1>1. CASE UNCHANGED loc
  BY <1>1
<1>2. CASE DeleteChunk \/ DeleteChunkInterrupted \/ DrainWrites
  BY <1>2 DEF DeleteChunk, DeleteChunkInterrupted, DrainWrites, Delete, Moved
<1>3. CASE Receive \/ ReceiveInterrupted \/ DrainInterrupted
  BY <1>3 DEF Receive, ReceiveInterrupted, DrainInterrupted, LoseDelivery, Deliver, Delete, Moved
<1>4. CASE RetryUnreadable \/ DrainAbandons \/ \E n \in Seqs : LockLapses(n)
  BY <1>4 DEF RetryUnreadable, DrainAbandons, LockLapses, Abandon, Release, entityVars
<1>5. CASE DisposeUnreadable \/ CompleteMessage \/ DeferMessage
  <2>1. CASE DisposeUnreadable
    BY <2>1 DEF DisposeUnreadable, Settled, SettledLoc, entityVars
  <2>2. CASE CompleteMessage
    BY <2>2 DEF CompleteMessage, Settled, SettledLoc, entityVars
  <2>3. CASE DeferMessage
    BY <2>3 DEF DeferMessage, Settled, SettledLoc, entityVars
  <2>. QED BY <1>5, <2>1, <2>2, <2>3
<1>6. CASE SettleInterrupted
  BY <1>6 DEF SettleInterrupted, SettledLoc
<1>. QED
  BY <1>1, <1>2, <1>3, <1>4, <1>5, <1>6
  DEF Next, Commit, Scan, Process, Loop, Drain, Platform, vars, entityVars, StartRun,
      CarryForward, CommitDone, ScanPeek, RecoverOrphans, RecoverReplyLost, LockDeferred,
      ScanFails, RecoverDone, DecodeReadable, DisposeInterrupted, WriteRows, SettleLockLost,
      SettleNothing, EndBatch, FailBatch, StopIdle, Stop, Peek, JobSucceeds, JobFails,
      JobDies, ResetState

\* A deferred message is dead-lettered by the broker only at the maximum.
LEMMA ExhaustedStep ==
    ASSUME TypeInv, [Next]_vars, NEW m \in Seqs, loc[m] = "deferred", loc'[m] = "exhausted"
    PROVE  dc[m] >= MaxDelivery
<1>. USE DEF TypeInv, TypeOK, EntityTypeOK, RunTypeOK
<1>1. CASE UNCHANGED loc
  BY <1>1
<1>2. CASE DeleteChunk \/ DeleteChunkInterrupted \/ DrainWrites
  BY <1>2 DEF DeleteChunk, DeleteChunkInterrupted, DrainWrites, Delete, Moved
<1>3. CASE Receive \/ ReceiveInterrupted \/ DrainInterrupted
  BY <1>3 DEF Receive, ReceiveInterrupted, DrainInterrupted, LoseDelivery, Deliver, Delete, Moved
<1>4. CASE RetryUnreadable \/ DrainAbandons \/ \E n \in Seqs : LockLapses(n)
  BY <1>4 DEF RetryUnreadable, DrainAbandons, LockLapses, Abandon, Release, entityVars
<1>5. CASE DisposeUnreadable \/ CompleteMessage \/ DeferMessage
  <2>1. CASE DisposeUnreadable
    BY <2>1 DEF DisposeUnreadable, Settled, SettledLoc, entityVars
  <2>2. CASE CompleteMessage
    BY <2>2 DEF CompleteMessage, Settled, SettledLoc, entityVars
  <2>3. CASE DeferMessage
    BY <2>3 DEF DeferMessage, Settled, SettledLoc, entityVars
  <2>. QED BY <1>5, <2>1, <2>2, <2>3
<1>6. CASE SettleInterrupted
  BY <1>6 DEF SettleInterrupted, SettledLoc
<1>. QED
  BY <1>1, <1>2, <1>3, <1>4, <1>5, <1>6
  DEF Next, Commit, Scan, Process, Loop, Drain, Platform, vars, entityVars, StartRun,
      CarryForward, CommitDone, ScanPeek, RecoverOrphans, RecoverReplyLost, LockDeferred,
      ScanFails, RecoverDone, DecodeReadable, DisposeInterrupted, WriteRows, SettleLockLost,
      SettleNothing, EndBatch, FailBatch, StopIdle, Stop, Peek, JobSucceeds, JobFails,
      JobDies, ResetState

\* While orphans are recovered the work list only shrinks; it starts as the
\* deferred messages that are not guarded.
LEMMA RecoverWorkStep ==
    ASSUME [Next]_vars, phase' = "recover"
    PROVE  \/ phase = "recover" /\ work' \subseteq work
           \/ /\ phase = "scan" /\ UNCHANGED entityVars
              /\ work' \subseteq {m \in Seqs : loc[m] = "deferred" /\ ~Guarded(m)}
<1>1. CASE UNCHANGED <<phase, work>>
  BY <1>1
<1>2. CASE ScanPeek
  BY <1>2 DEF ScanPeek
<1>3. CASE RecoverOrphans
  BY <1>3 DEF RecoverOrphans
<1>. QED
  BY <1>1, <1>2, <1>3
  DEF Next, Commit, Scan, Process, Loop, Drain, Platform, vars, StartRun, DeleteChunk,
      DeleteChunkInterrupted, CarryForward, CommitDone, RecoverReplyLost, ScanFails,
      RecoverDone, Receive, ReceiveInterrupted, AfterInterrupt, StopIdle, Stop,
      DecodeReadable, RetryUnreadable, DisposeUnreadable, DisposeInterrupted, WriteRows,
      CompleteMessage, DeferMessage, SettleLockLost, SettleNothing, SettleInterrupted,
      EndBatch, FailBatch, DrainAbandons, DrainWrites, DrainInterrupted, AfterDrain, Peek,
      JobSucceeds, JobFails, JobDies, JobOver, ResetState, LockLapses

\* The guard's invariant is inductive, if no reply of a deferred receive is lost.
LEMMA GuardStep ==
    ASSUME LostReplies = FALSE, TypeInv, GuardInv, [Next]_vars
    PROVE  GuardInv'
<1>. USE MaxDeliveryAssumption DEF GuardInv
<1>1. dc \in [Seqs -> 0..MaxDelivery] /\ work \subseteq Seqs
  BY DEF TypeInv, TypeOK, EntityTypeOK, RunTypeOK
<1>2. ASSUME NEW m \in Seqs, loc'[m] = "deferred" PROVE dc'[m] < MaxDelivery
  <2>1. CASE loc[m] # "deferred"
    BY <1>2, <2>1, DeferredStep
  <2>2. CASE loc[m] = "deferred" /\ dc'[m] # dc[m]
    <3>1. phase = "recover" /\ m \in work /\ dc'[m] = dc[m] + 1
      BY <2>2, CountStep
    <3>. QED BY <1>1, <3>1
  <2>. QED BY <1>2, <2>1, <2>2
<1>3. ASSUME phase' = "recover", NEW m \in work'
      PROVE  loc'[m] # "active" /\ dc'[m] < MaxDelivery - 1
  <2>1. CASE phase = "recover" /\ m \in work
    <3>1. m \in Seqs /\ loc[m] # "active" /\ dc[m] < MaxDelivery - 1
      BY <1>1, <2>1
    <3>2. dc'[m] = dc[m]
      BY <1>3, <3>1, CountStep
    <3>. QED BY <3>1, <3>2, ActiveStep
  <2>2. CASE m \in Seqs /\ loc[m] = "deferred" /\ ~Guarded(m) /\ UNCHANGED entityVars
    BY <1>1, <2>2 DEF Guarded, entityVars
  <2>. QED BY <1>3, <2>1, <2>2, RecoverWorkStep
<1>. QED BY <1>2, <1>3

\* The orphan guard (max delivery count - 1) is tight: as long as no reply of a
\* deferred receive is lost, no deferred message of any entity reaches its
\* maximum, whatever locks lapse and however often runs fail half-way.
THEOREM GuardIsEnough ==
    ASSUME LostReplies = FALSE
    PROVE  Spec => GuardProtectsDeferred
<1>1. Init => GuardInv
  BY DEF Init, EntityInit, GuardInv
<1>2. TypeInv /\ GuardInv /\ [Next]_vars => GuardInv'
  BY GuardStep
<1>3. TypeInv /\ GuardInv /\ [Next]_vars
      => [\A m \in Seqs : loc[m] = "deferred" => loc'[m] # "exhausted"]_vars
  <2>. SUFFICES ASSUME TypeInv, GuardInv, [Next]_vars,
                       NEW m \in Seqs, loc[m] = "deferred", loc'[m] = "exhausted"
                PROVE  FALSE
    OBVIOUS
  <2>. QED BY ExhaustedStep, MaxDeliveryAssumption
           DEF GuardInv, TypeInv, TypeOK, EntityTypeOK
<1>. QED BY <1>1, <1>2, <1>3, TypeInvariant, PTL DEF Spec, GuardProtectsDeferred

(***************************************************************************)
(* The row implements the handover.                                        *)
(***************************************************************************)

\* Without receive_and_delete nothing is dropped, and nothing is forfeited if
\* the platform honours write_always wherever it can be armed.
KeepsRows ==
    /\ mode \in Modes \cup {"peek"}
    /\ dropped = {} /\ forfeited = {}
    /\ armed = TRUE => MayForfeit = FALSE

\* The configurations the handover is promised for.
AtLeastOnce ==
    "receive_and_delete" \notin Modes /\ ("complete" \in Modes => MayForfeit = FALSE)

\* In these configurations no step loses a row.
LEMMA KeepsRowsStep ==
    ASSUME AtLeastOnce, TypeInv, KeepsRows, [Next]_vars
    PROVE  KeepsRows'
<1>. USE DEF TypeInv, TypeOK, RunTypeOK
<1>0. mode # "receive_and_delete"
  BY DEF KeepsRows, AtLeastOnce
<1>1. mode' \in Modes \cup {"peek"}
  BY ModeStep DEF KeepsRows, StartRun, Next, Commit, Scan, Process, Loop, Drain, Platform,
      vars, config, DeleteChunk, DeleteChunkInterrupted, CarryForward, CommitDone, ScanPeek,
      RecoverOrphans, RecoverReplyLost, ScanFails, RecoverDone, Receive,
      ReceiveInterrupted, StopIdle, Stop, DecodeReadable, RetryUnreadable,
      DisposeUnreadable, DisposeInterrupted, WriteRows, CompleteMessage, DeferMessage,
      SettleLockLost, SettleNothing, SettleInterrupted, EndBatch, FailBatch,
      DrainAbandons, DrainWrites, DrainInterrupted, Peek, JobSucceeds, JobFails, JobDies,
      ResetState, LockLapses
<1>2. dropped' = {}
  BY <1>0 DEF KeepsRows, Lost, LoseDelivery, Next, Commit, Scan, Process, Loop, Drain,
      Platform, vars, durable, StartRun, DeleteChunk, DeleteChunkInterrupted, CarryForward,
      CommitDone, ScanPeek, RecoverOrphans, RecoverReplyLost, ScanFails, RecoverDone,
      Receive, ReceiveInterrupted, StopIdle, Stop, DecodeReadable, RetryUnreadable,
      DisposeUnreadable, DisposeInterrupted, WriteRows, CompleteMessage, DeferMessage,
      SettleLockLost, SettleNothing, SettleInterrupted, EndBatch, FailBatch,
      DrainAbandons, DrainWrites, DrainInterrupted, Peek, JobSucceeds, JobFails, JobDies,
      ResetState, LockLapses
<1>3. forfeited' = {}
  <2>1. CASE UNCHANGED forfeited
    BY <2>1 DEF KeepsRows
  <2>2. CASE JobFails \/ JobDies
    BY <2>2 DEF KeepsRows, JobFails, JobDies, Unsuccessful, Upload, Discard
  <2>. QED
    BY <2>1, <2>2 DEF Next, Commit, Scan, Process, Loop, Drain,
      Platform, vars, durable, StartRun, DeleteChunk, DeleteChunkInterrupted, CarryForward,
      CommitDone, ScanPeek, RecoverOrphans, RecoverReplyLost, ScanFails, RecoverDone,
      Receive, ReceiveInterrupted, StopIdle, Stop, DecodeReadable, RetryUnreadable,
      DisposeUnreadable, DisposeInterrupted, WriteRows, CompleteMessage, DeferMessage,
      SettleLockLost, SettleNothing, SettleInterrupted, EndBatch, FailBatch,
      DrainAbandons, DrainWrites, DrainInterrupted, Peek, JobSucceeds,
      ResetState, LockLapses
<1>4. armed' = TRUE => MayForfeit = FALSE
  <2>1. CASE UNCHANGED armed
    BY <2>1 DEF KeepsRows
  <2>2. CASE JobOver
    BY <2>2 DEF JobOver
  <2>3. CASE mode = "complete"
    BY <2>3 DEF KeepsRows, AtLeastOnce
  <2>4. CASE Receive
    BY <1>0, <2>4 DEF Receive, KeepsRows
  <2>5. CASE SettleLockLost \/ SettleInterrupted
    BY <2>3, <2>5 DEF SettleLockLost, SettleInterrupted, KeepsRows
  <2>. QED
    BY <1>0, <2>1, <2>2, <2>3, <2>4, <2>5 DEF Next, Commit, Scan, Process, Loop, Drain,
      Platform, vars, output, StartRun, DeleteChunk, DeleteChunkInterrupted, CarryForward,
      CommitDone, ScanPeek, RecoverOrphans, RecoverReplyLost, ScanFails, RecoverDone,
      ReceiveInterrupted, StopIdle, Stop, DecodeReadable, RetryUnreadable,
      DisposeUnreadable, DisposeInterrupted, WriteRows, CompleteMessage, DeferMessage,
      SettleNothing, EndBatch, FailBatch, DrainAbandons, DrainWrites, DrainInterrupted,
      Peek, JobSucceeds, JobFails, JobDies, ResetState, LockLapses
<1>. QED BY <1>1, <1>2, <1>3, <1>4 DEF KeepsRows

\* A message that somebody holds a lock on is still on the entity.
LockedIsThere == \A m \in Seqs : lock[m] # "free" => loc[m] \in {"active", "deferred"}

\* A lock is taken on a message of the entity, and given up with the settle
\* call or the release that moves the message.
LEMMA LockedStep ==
    ASSUME TypeInv, LockedIsThere, [Next]_vars
    PROVE  LockedIsThere'
<1>. USE DEF TypeInv, TypeOK, EntityTypeOK, RunTypeOK, LockedIsThere
<1>1. CASE UNCHANGED entityVars
  BY <1>1 DEF entityVars
<1>2. CASE UNCHANGED loc /\ lock' = Adrift
  BY <1>2 DEF Adrift
<1>3. CASE DeleteChunk \/ DeleteChunkInterrupted \/ DrainWrites
  BY <1>3 DEF DeleteChunk, DeleteChunkInterrupted, DrainWrites, Delete, Moved, DeferredFree,
              Receivable
<1>4. CASE RecoverOrphans \/ RecoverReplyLost
  BY <1>4 DEF RecoverOrphans, RecoverReplyLost, LockDeferred, Held, DeferredFree
<1>5. CASE Receive
  BY <1>5 DEF Receive, Deliver, Delete, Moved, Receivable
<1>6. CASE ReceiveInterrupted \/ DrainInterrupted
  BY <1>6 DEF ReceiveInterrupted, DrainInterrupted, LoseDelivery, Delete, Moved, Receivable,
              Adrift
<1>7. CASE RetryUnreadable \/ DrainAbandons \/ \E n \in Seqs : LockLapses(n)
  BY <1>7 DEF RetryUnreadable, DrainAbandons, LockLapses, Abandon, Release, Held, entityVars
<1>8. CASE DisposeUnreadable \/ CompleteMessage \/ DeferMessage
  <2>1. CASE DisposeUnreadable
    BY <2>1 DEF DisposeUnreadable, Settled, SettledLoc, entityVars
  <2>2. CASE CompleteMessage
    BY <2>2 DEF CompleteMessage, Settled, SettledLoc, entityVars
  <2>3. CASE DeferMessage
    BY <2>3 DEF DeferMessage, Settled, SettledLoc, entityVars
  <2>. QED BY <1>8, <2>1, <2>2, <2>3
<1>9. CASE SettleInterrupted
  BY <1>9 DEF SettleInterrupted, SettledLoc, Adrift
<1>10. CASE EndBatch
  BY <1>10 DEF EndBatch, Adrift
<1>. QED
  BY <1>1, <1>2, <1>3, <1>4, <1>5, <1>6, <1>7, <1>8, <1>9, <1>10
  DEF Next, Commit, Scan, Process, Loop, Drain, Platform, vars, entityVars,
      StartRun, CarryForward, CommitDone, ScanPeek, ScanFails, RecoverDone,
      DecodeReadable, DisposeInterrupted, CloseReceiver, WriteRows, SettleLockLost,
      SettleNothing, FailBatch, StopIdle, Stop, Peek, JobSucceeds, JobFails, JobDies,
      JobOver, ResetState

\* So a deleted message stays deleted.
LEMMA DeletedStays ==
    ASSUME TypeInv, LockedIsThere, [Next]_vars,
           NEW m \in Seqs, loc[m] \in {"completed", "received", "committed"}
    PROVE  loc'[m] = loc[m]
<1>. USE DEF TypeInv, TypeOK, EntityTypeOK, RunTypeOK, LockedIsThere
<1>1. CASE UNCHANGED loc
  BY <1>1
<1>2. CASE DeleteChunk \/ DeleteChunkInterrupted \/ DrainWrites
  BY <1>2 DEF DeleteChunk, DeleteChunkInterrupted, DrainWrites, Delete, Moved, DeferredFree,
              Receivable
<1>3. CASE Receive \/ ReceiveInterrupted \/ DrainInterrupted
  BY <1>3 DEF Receive, ReceiveInterrupted, DrainInterrupted, LoseDelivery, Deliver, Delete,
              Moved, Receivable
<1>4. CASE RetryUnreadable \/ DrainAbandons \/ \E n \in Seqs : LockLapses(n)
  BY <1>4 DEF RetryUnreadable, DrainAbandons, LockLapses, Abandon, Release, entityVars,
              Receivable
<1>5. CASE DisposeUnreadable \/ CompleteMessage \/ DeferMessage
  <2>1. CASE DisposeUnreadable
    BY <2>1 DEF DisposeUnreadable, Settled, SettledLoc, entityVars
  <2>2. CASE CompleteMessage
    BY <2>2 DEF CompleteMessage, Settled, SettledLoc, entityVars
  <2>3. CASE DeferMessage
    BY <2>3 DEF DeferMessage, Settled, SettledLoc, entityVars
  <2>. QED BY <1>5, <2>1, <2>2, <2>3
<1>6. CASE SettleInterrupted
  BY <1>6 DEF SettleInterrupted, SettledLoc
<1>. QED
  BY <1>1, <1>2, <1>3, <1>4, <1>5, <1>6
  DEF Next, Commit, Scan, Process, Loop, Drain, Platform, vars, entityVars, StartRun,
      CarryForward, CommitDone, ScanPeek, RecoverOrphans, RecoverReplyLost, LockDeferred,
      ScanFails, RecoverDone, DecodeReadable, DisposeInterrupted, WriteRows, SettleLockLost,
      SettleNothing, EndBatch, FailBatch, StopIdle, Stop, Peek, JobSucceeds, JobFails,
      JobDies, ResetState

\* No step both moves a message and changes the output or the target.
LEMMA OneThingAtATime ==
    ASSUME [Next]_vars
    PROVE  UNCHANGED loc \/ UNCHANGED <<rows, storage>>
BY DEF Next, Commit, Scan, Process, Loop, Drain, Platform, vars, entityVars, output, durable,
       StartRun, DeleteChunk, DeleteChunkInterrupted, CarryForward, CommitDone, ScanPeek,
       RecoverOrphans, RecoverReplyLost, LockDeferred, ScanFails, RecoverDone, Receive,
       ReceiveInterrupted, StopIdle, Stop, DecodeReadable, RetryUnreadable,
       DisposeUnreadable, DisposeInterrupted, WriteRows, CompleteMessage, DeferMessage,
       SettleLockLost, SettleNothing, SettleInterrupted, EndBatch, FailBatch,
       DrainAbandons, DrainWrites, DrainInterrupted, Peek, JobSucceeds, JobFails, JobDies,
       ResetState, LockLapses

\* A step that deletes messages deletes only ones with a row: Handover's Remove.
LEMMA RemoveStep ==
    ASSUME AtLeastOnce, TypeInv, LossInv, KeepsRows, KeepsRows', LockedIsThere, [Next]_vars,
           UNCHANGED <<rows, storage>>
    PROVE  Contract!Remove
<1>1. Source' \subseteq Source
  BY DeletedStays DEF Source, TypeInv, TypeOK, EntityTypeOK
<1>2. ASSUME NEW m \in Source \ Source' PROVE m \in rows \cup storage
  <2>1. m \in Seqs /\ loc[m] \notin {"completed", "received", "committed"}
        /\ loc'[m] \in {"completed", "received", "committed"}
    BY <1>2 DEF Source
  <2>2. CASE loc'[m] = "committed"
    BY <2>1, <2>2, CommittedStep DEF LossInv, CommitOwnsWork, StateIsImported
  <2>3. CASE loc'[m] = "completed"
    BY <2>1, <2>3, CompletedStep DEF LossInv, SettlesWritten
  <2>4. CASE loc'[m] = "received"
    BY <2>1, <2>4, ReceivedStep DEF KeepsRows, AtLeastOnce
  <2>. QED BY <2>1, <2>2, <2>3, <2>4
<1>. QED BY <1>1, <1>2 DEF Contract!Remove

\* An output that is not armed may be thrown away: all its messages are at the
\* source, or in Storage.
LEMMA DiscardIsSafe ==
    ASSUME AtLeastOnce, TypeInv, LossInv, KeepsRows, armed = FALSE, NEW m \in Seqs
    PROVE  m \in Source \cup storage
BY DEF Source, LossInv, CommittedIsImported, CompletedInItsRun, ReceivedInItsRun, KeepsRows,
       AtLeastOnce

\* Every step of the row is a step of the handover, or leaves it alone.
LEMMA HandoverStep ==
    ASSUME AtLeastOnce, TypeInv, LossInv, KeepsRows, KeepsRows', LockedIsThere, [Next]_vars
    PROVE  [Contract!Next]_(Contract!vars)
<1>. USE DEF Contract!Next
<1>1. CASE UNCHANGED <<rows, storage>>
  BY <1>1, RemoveStep
<1>. SUFFICES ASSUME UNCHANGED loc, ~UNCHANGED <<rows, storage>>
              PROVE  Contract!Write \/ Contract!Publish \/ Contract!Discard
  BY <1>1, OneThingAtATime
<1>2. UNCHANGED Source
  BY DEF Source
<1>3. CASE WriteRows \/ Peek
  BY <1>2, <1>3 DEF WriteRows, Peek, Contract!Write, durable, TypeInv, TypeOK, RunTypeOK
<1>4. CASE JobSucceeds
  BY <1>2, <1>4 DEF JobSucceeds, JobOver, Contract!Publish
<1>5. CASE JobFails \/ JobDies
  <2>1. rows' = {} /\ (Upload \/ (Discard /\ (armed => MayForfeit)))
    BY <1>5 DEF JobFails, JobDies, JobOver, Unsuccessful
  <2>2. CASE Upload
    BY <1>2, <2>1, <2>2 DEF Upload, Contract!Publish
  <2>3. CASE Discard /\ (armed => MayForfeit)
    <3>1. armed = FALSE
      BY <2>3 DEF KeepsRows, TypeInv, TypeOK, RunTypeOK
    <3>2. rows \subseteq Source \cup storage
      BY <3>1, DiscardIsSafe DEF TypeInv, TypeOK, RunTypeOK
    <3>. QED BY <1>2, <2>1, <2>3, <3>2 DEF Discard, Contract!Discard
  <2>. QED BY <2>1, <2>2, <2>3
<1>. QED
  BY <1>3, <1>4, <1>5
  DEF Next, Commit, Scan, Process, Loop, Drain, Platform, vars, entityVars, output, durable,
      StartRun, DeleteChunk, DeleteChunkInterrupted, CarryForward, CommitDone, ScanPeek,
      RecoverOrphans, RecoverReplyLost, LockDeferred, ScanFails, RecoverDone, Receive,
      ReceiveInterrupted, StopIdle, Stop, DecodeReadable, RetryUnreadable,
      DisposeUnreadable, DisposeInterrupted, CompleteMessage, DeferMessage,
      SettleLockLost, SettleNothing, SettleInterrupted, EndBatch, FailBatch,
      DrainAbandons, DrainWrites, DrainInterrupted, ResetState, LockLapses

\* The row implements Handover in every configuration without
\* receive_and_delete whose platform honours write_always where complete arms
\* it: whatever is interrupted, lapses or is killed, a message leaves the entity
\* only with a row, and no output is discarded that holds the only one.
THEOREM RowImplementsHandover ==
    ASSUME AtLeastOnce
    PROVE  Spec => ImplementsHandover
<1>1. Init => KeepsRows /\ LockedIsThere /\ Contract!Init
  BY DEF Init, EntityInit, KeepsRows, LockedIsThere, Contract!Init, Source
<1>2. TypeInv /\ KeepsRows /\ LockedIsThere /\ [Next]_vars
      => KeepsRows' /\ LockedIsThere'
  BY KeepsRowsStep, LockedStep
<1>3. TypeInv /\ LossInv /\ KeepsRows /\ KeepsRows' /\ LockedIsThere /\ [Next]_vars
      => [Contract!Next]_(Contract!vars)
  BY HandoverStep
<1>. QED
  BY <1>1, <1>2, <1>3, TypeInvariant, LossInvariant, PTL
  DEF Spec, ImplementsHandover, Contract!Spec

\* The handover loses no message: what it removes has a row, and what it
\* discards is still at the source or at the target.
THEOREM HandoverLosesNothing == Contract!Spec => []Contract!NothingLost
<1>. USE DEF Contract!NothingLost
<1>1. Contract!Init => Contract!NothingLost
  BY DEF Contract!Init
<1>2. Contract!NothingLost /\ [Contract!Next]_(Contract!vars) => Contract!NothingLost'
  <2>. SUFFICES ASSUME Contract!NothingLost, [Contract!Next]_(Contract!vars)
                PROVE  Contract!NothingLost'
    OBVIOUS
  <2>1. CASE Contract!Write
    BY <2>1 DEF Contract!Write
  <2>2. CASE Contract!Remove
    BY <2>2 DEF Contract!Remove
  <2>3. CASE Contract!Publish
    BY <2>3 DEF Contract!Publish
  <2>4. CASE Contract!Discard
    BY <2>4 DEF Contract!Discard
  <2>. QED BY <2>1, <2>2, <2>3, <2>4 DEF Contract!Next, Contract!vars
<1>. QED BY <1>1, <1>2, PTL DEF Contract!Spec

\* So in these configurations the row loses no message: each is on the entity or
\* in its dead-letter sub-queue, in the running job's output, or imported.
COROLLARY RowLosesNothing ==
    ASSUME AtLeastOnce
    PROVE  Spec => []Contract!NothingLost
BY RowImplementsHandover, HandoverLosesNothing, PTL DEF ImplementsHandover

(***************************************************************************)
(* A deferral stays owned until it is deleted.  The invariant follows a     *)
(* message of the row's state through H5 (still to delete, or carried), and *)
(* shows that no lock is ever left on it that would make H5 skip it.        *)
(***************************************************************************)

\* A copy the run holds is of its own connection, and one in the local buffer
\* is of an active message.
CopiesAreOwn ==
    /\ \A m \in batch \cup buffer : lock[m] # "adrift"
    /\ \A m \in Seqs : lock[m] = "buffer" => loc[m] = "active"

\* No lock is left on a deferral that is, or will be, the state's.
OwnedIsFree == \A m \in state \cup pending : loc[m] = "deferred" => lock[m] = "free"

\* The orphan scan runs without sessions, where nothing is carried forward: it
\* finds no message of the state or of the pending set.
ScanFindsOrphans ==
    /\ phase \in {"scan", "recover"} => Sessions = FALSE
    /\ phase \in {"commit", "scan"} /\ Sessions = FALSE => pending = {}
    /\ phase = "recover" => work \cap (pending \cup batch) = {}
    /\ phase = "recover" => batch \cap state = {}
    /\ phase \in {"scan", "recover"} => \A m \in state : loc[m] # "deferred"

\* What H5 has not deleted yet it still has to, or has carried forward; after
\* it only a message that was read and written again is deferred.
CommitCoversState ==
    /\ phase = "peek" => mode = "peek"
    /\ phase = "commit" =>
           \A m \in state : loc[m] = "deferred" => m \in work \cup pending
    /\ phase \in {"receive", "drain", "finished"} /\ mode # "peek" =>
           \A m \in state : loc[m] = "deferred" => m \in pending \cup rows

OwnedInv == CopiesAreOwn /\ OwnedIsFree /\ ScanFindsOrphans /\ CommitCoversState

\* A receive hands over copies of its own connection; closing the connection
\* drops the copies with their locks.
LEMMA CopiesStep ==
    ASSUME TypeInv, LossInv, CopiesAreOwn, [Next]_vars
    PROVE  CopiesAreOwn'
<1>. USE DEF TypeInv, TypeOK, EntityTypeOK, RunTypeOK, BatchShape, CopiesAreOwn
<1>1. CASE UNCHANGED <<entityVars, buffer, batch>>
  BY <1>1 DEF entityVars
<1>2. CASE UNCHANGED loc /\ lock' = Adrift /\ batch' = {} /\ buffer' = {}
  BY <1>2 DEF Adrift
<1>3. CASE DeleteChunk \/ DeleteChunkInterrupted
  BY <1>3 DEF DeleteChunk, DeleteChunkInterrupted, Delete, Moved, DeferredFree, batchVars
<1>4. CASE RecoverOrphans
  <2>1. buffer = {}
    BY <1>4 DEF RecoverOrphans, LossInv, BufferShape
  <2>. QED BY <1>4, <2>1 DEF RecoverOrphans, LockDeferred, Held, DeferredFree
<1>5. CASE RecoverReplyLost
  <2>1. buffer = {} /\ batch = {}
    BY <1>5 DEF RecoverReplyLost, LossInv, BufferShape
  <2>. QED BY <1>5, <2>1 DEF RecoverReplyLost, LockDeferred, Held, DeferredFree, batchVars
<1>6. CASE ScanFails \/ RecoverDone
  <2>1. buffer = {} /\ batch = {}
    BY <1>6 DEF ScanFails, RecoverDone, LossInv, BufferShape
  <2>. QED BY <1>6, <2>1 DEF ScanFails, RecoverDone, Adrift, batchVars
<1>7. CASE Receive
  <2>1. PICK D \in SUBSET Receivable :
            /\ Deliver(D, batch')
            /\ batch' \cup buffer' = buffer \cup D
    <3>1. \A D \in SUBSET Receivable : \A n : FirstOf(n, D) \subseteq buffer \cup D
      BY DEF FirstOf, Lowest
    <3>. QED BY <1>7, <3>1 DEF Receive
  <2>2. CASE mode = "receive_and_delete"
    BY <2>1, <2>2 DEF Deliver, Delete, Moved, Receivable
  <2>3. CASE mode # "receive_and_delete"
    BY <2>1, <2>3 DEF Deliver, Receivable
  <2>. QED BY <2>2, <2>3
<1>8. CASE ReceiveInterrupted \/ DrainInterrupted
  <2>1. batch' = {} /\ buffer' = {}
    BY <1>8 DEF ReceiveInterrupted, DrainInterrupted, batchVars
  <2>. QED
    BY <1>8, <2>1 DEF ReceiveInterrupted, DrainInterrupted, LoseDelivery, Delete, Moved,
                      Receivable, Adrift
<1>9. CASE RetryUnreadable \/ \E n \in Seqs : LockLapses(n)
  BY <1>9 DEF RetryUnreadable, LockLapses, Abandon, Release, Held, entityVars, batchVars
<1>10. CASE DrainAbandons
  BY <1>10 DEF DrainAbandons, Release, Held, batchVars
<1>11. CASE DisposeUnreadable \/ CompleteMessage \/ DeferMessage
  <2>1. CASE UNCHANGED entityVars
    BY <1>11, <2>1 DEF DisposeUnreadable, CompleteMessage, DeferMessage, entityVars
  <2>2. CASE ~UNCHANGED entityVars
    <3>1. PICK m \in Seqs, place \in {"deferred", "completed", "dead_lettered"} :
              Settled(m, place)
      BY <1>11, <2>2 DEF DisposeUnreadable, CompleteMessage, DeferMessage
    <3>2. UNCHANGED <<batch, buffer>>
      BY <1>11 DEF DisposeUnreadable, CompleteMessage, DeferMessage
    <3>. QED BY <2>2, <3>1, <3>2 DEF Settled, SettledLoc
  <2>. QED BY <2>1, <2>2
<1>12. CASE SettleInterrupted
  BY <1>12 DEF SettleInterrupted, SettledLoc, Adrift, DropBatch
<1>13. CASE EndBatch
  BY <1>13 DEF EndBatch, DropBatch, Adrift
<1>14. CASE FailBatch
  BY <1>14 DEF FailBatch, DropBatch, entityVars
<1>15. CASE DrainWrites
  BY <1>15 DEF DrainWrites, Delete, Moved, Receivable
<1>. QED
  BY <1>1, <1>2, <1>3, <1>4, <1>5, <1>6, <1>7, <1>8, <1>9, <1>10, <1>11, <1>12, <1>13,
     <1>14, <1>15
  DEF Next, Commit, Scan, Process, Loop, Drain, Platform, vars, batchVars, entityVars,
      StartRun, CarryForward, CommitDone, ScanPeek, DecodeReadable, DisposeInterrupted,
      CloseReceiver, DropBatch, WriteRows, SettleLockLost, SettleNothing, StopIdle, Stop,
      Peek, JobSucceeds, JobFails, JobDies, JobOver, ResetState

\* Only the recovery of orphans locks a deferred message.
LEMMA DeferredLockStep ==
    ASSUME TypeInv, [Next]_vars, NEW m \in Seqs,
           loc[m] = "deferred", lock[m] = "free", lock'[m] # "free"
    PROVE  phase = "recover" /\ m \in work
<1>. USE DEF TypeInv, TypeOK, EntityTypeOK, RunTypeOK
<1>1. CASE UNCHANGED lock
  BY <1>1
<1>2. CASE lock' = Adrift
  BY <1>2 DEF Adrift
<1>3. CASE RecoverOrphans \/ RecoverReplyLost
  BY <1>3 DEF RecoverOrphans, RecoverReplyLost, LockDeferred, Held, Lowest
<1>4. CASE Receive
  BY <1>4 DEF Receive, Deliver, Delete, Receivable
<1>5. CASE ReceiveInterrupted \/ DrainInterrupted
  BY <1>5 DEF ReceiveInterrupted, DrainInterrupted, LoseDelivery, Delete, Receivable, Adrift
<1>6. CASE RetryUnreadable \/ DrainAbandons \/ \E n \in Seqs : LockLapses(n)
  BY <1>6 DEF RetryUnreadable, DrainAbandons, LockLapses, Abandon, Release, Held, entityVars
<1>7. CASE DisposeUnreadable \/ CompleteMessage \/ DeferMessage
  BY <1>7 DEF DisposeUnreadable, CompleteMessage, DeferMessage, Settled, entityVars
<1>8. CASE SettleInterrupted
  BY <1>8 DEF SettleInterrupted, Adrift
<1>. QED
  BY <1>1, <1>2, <1>3, <1>4, <1>5, <1>6, <1>7, <1>8
  DEF Next, Commit, Scan, Process, Loop, Drain, Platform, vars, entityVars, StartRun,
      DeleteChunk, DeleteChunkInterrupted, Delete, CarryForward, CommitDone, ScanPeek,
      ScanFails, RecoverDone, DecodeReadable, DisposeInterrupted, CloseReceiver, WriteRows,
      SettleLockLost, SettleNothing, EndBatch, FailBatch, StopIdle, Stop, DrainWrites, Peek,
      JobSucceeds, JobFails, JobDies, JobOver, ResetState

\* What joins the state or the pending set was pending, carried from the state,
\* or has just been settled by DeferSettler.
LEMMA OwnedGrows ==
    ASSUME TypeInv, LossInv, [Next]_vars, NEW m \in state' \cup pending'
    PROVE  m \in state \cup pending \/ (DeferMessage /\ m \in readable /\ m \notin readable')
<1>1. CASE UNCHANGED <<state, pending>>
  BY <1>1
<1>2. CASE CarryForward
  BY <1>2 DEF CarryForward, Group, LossInv, CommitOwnsWork, durable
<1>3. CASE DeferMessage
  BY <1>3 DEF DeferMessage, durable
<1>4. CASE JobSucceeds \/ JobFails \/ JobDies
  BY <1>4 DEF JobSucceeds, JobFails, JobDies, JobOver
<1>5. CASE ResetState
  BY <1>5 DEF ResetState, output
<1>. QED
  BY <1>1, <1>2, <1>3, <1>4, <1>5
  DEF Next, Commit, Scan, Process, Loop, Drain, Platform, vars, output, durable, StartRun,
      DeleteChunk, DeleteChunkInterrupted, CommitDone, ScanPeek, RecoverOrphans,
      RecoverReplyLost, ScanFails, RecoverDone, Receive, ReceiveInterrupted, StopIdle,
      Stop, DecodeReadable, RetryUnreadable, DisposeUnreadable, DisposeInterrupted,
      WriteRows, CompleteMessage, SettleLockLost, SettleNothing, SettleInterrupted,
      EndBatch, FailBatch, DrainAbandons, DrainWrites, DrainInterrupted, Peek, LockLapses

\* No step leaves a lock on a deferral the state or the pending set holds.
LEMMA OwnedIsFreeStep ==
    ASSUME TypeInv, LossInv, OwnedInv, [Next]_vars
    PROVE  OwnedIsFree'
<1>. SUFFICES ASSUME NEW m \in state' \cup pending', loc'[m] = "deferred"
              PROVE  lock'[m] = "free"
  BY DEF OwnedIsFree
<1>0. m \in Seqs /\ lock \in [Seqs -> Holders] /\ readable \subseteq batch
  <2>1. m \in state \cup pending \cup readable
    BY OwnedGrows
  <2>. QED BY <2>1 DEF TypeInv, TypeOK, EntityTypeOK, RunTypeOK
<1>1. CASE loc[m] # "deferred"
  BY <1>0, <1>1, DeferredStep
<1>2. CASE loc[m] = "deferred" /\ m \in state \cup pending
  <2>1. lock[m] = "free"
    BY <1>2 DEF OwnedInv, OwnedIsFree
  <2>2. phase = "recover" => m \notin work
    <3>. SUFFICES ASSUME phase = "recover", m \in work PROVE FALSE
      OBVIOUS
    <3>. QED BY <1>2 DEF OwnedInv, ScanFindsOrphans
  <2>. QED BY <1>0, <1>2, <2>1, <2>2, DeferredLockStep
<1>3. CASE loc[m] = "deferred" /\ DeferMessage /\ m \in readable /\ m \notin readable'
  <2>1. Settled(m, "deferred")
    BY <1>3 DEF DeferMessage
  <2>2. lock[m] \in {"hand", "free"}
    BY <1>0, <1>3 DEF OwnedInv, CopiesAreOwn, Holders
  <2>. QED BY <1>0, <2>1, <2>2 DEF Settled, entityVars
<1>. QED BY <1>1, <1>2, <1>3, OwnedGrows

\* The scan starts with no deferral of the state left, and what it recovers is
\* processed once.
LEMMA ScanFindsOrphansStep ==
    ASSUME TypeInv, LossInv, OwnedInv, [Next]_vars
    PROVE  ScanFindsOrphans'
<1>. USE DEF TypeInv, TypeOK, RunTypeOK, BatchShape, OwnedInv, ScanFindsOrphans
<1>1. CASE phase' \notin {"commit", "scan", "recover"}
  BY <1>1
<1>2. CASE UNCHANGED <<loc, phase, work, pending, batch, state>>
  BY <1>2
<1>3. CASE StartRun
  BY <1>3 DEF StartRun, LossInv, IdleShape, output
<1>4. CASE DeleteChunk \/ DeleteChunkInterrupted \/ CarryForward
  BY <1>4 DEF DeleteChunk, DeleteChunkInterrupted, CarryForward, output
<1>5. CASE CommitDone
  <2>. SUFFICES ASSUME phase' = "scan"
                PROVE  Sessions = FALSE /\ \A m \in state : loc[m] # "deferred"
    BY <1>5 DEF CommitDone, entityVars, durable, output
  <2>1. Sessions = FALSE
    BY <1>5, ConfigAssumption DEF CommitDone
  <2>2. pending = {} /\ work = {}
    BY <1>5, <2>1 DEF CommitDone
  <2>. QED BY <1>5, <2>1, <2>2 DEF CommitDone, CommitCoversState
<1>6. CASE ScanPeek
  <2>1. pending = {} /\ batch = {}
    BY <1>6 DEF ScanPeek, LossInv, BufferShape
  <2>. QED BY <1>6, <2>1 DEF ScanPeek, entityVars, durable, output, batchVars
<1>7. CASE RecoverOrphans
  <2>1. UNCHANGED <<loc, phase, pending, state>>
    BY <1>7 DEF RecoverOrphans, LockDeferred, durable, output
  <2>2. work' \subseteq work /\ work' \cap batch' = {}
    BY <1>7 DEF RecoverOrphans
  <2>3. \A m \in batch' : loc[m] = "deferred"
    BY <1>7 DEF RecoverOrphans, DeferredFree
  <2>. QED BY <1>7, <2>1, <2>2, <2>3 DEF RecoverOrphans
<1>8. CASE phase = "recover" /\ phase' = "recover" /\ Process
  <2>1. UNCHANGED <<state, work>> /\ batch' \subseteq batch
    BY <1>8 DEF Process, durable, DecodeReadable, RetryUnreadable, DisposeUnreadable,
        DisposeInterrupted, WriteRows, CompleteMessage, DeferMessage, SettleLockLost,
        SettleNothing, SettleInterrupted, EndBatch, FailBatch, CloseReceiver, DropBatch
  <2>2. pending' \subseteq pending \cup batch
    BY <1>8 DEF Process, output, DecodeReadable, RetryUnreadable, DisposeUnreadable,
        DisposeInterrupted, WriteRows, CompleteMessage, DeferMessage, SettleLockLost,
        SettleNothing, SettleInterrupted, EndBatch, FailBatch
  <2>3. \A m \in state : loc'[m] # "deferred"
    <3>. SUFFICES ASSUME NEW m \in state, loc'[m] = "deferred" PROVE FALSE
      OBVIOUS
    <3>. QED BY <1>8, DeferredStep
  <2>. QED BY <1>8, <2>1, <2>2, <2>3
<1>9. CASE \E m \in Seqs : LockLapses(m)
  <2>1. UNCHANGED <<phase, work, pending, batch, state>>
    BY <1>9 DEF LockLapses, durable, output, batchVars
  <2>2. \A m \in Seqs : loc'[m] = "deferred" => loc[m] = "deferred"
    BY <1>9 DEF LockLapses, Release
  <2>. QED BY <2>1, <2>2
<1>10. CASE Process /\ phase \in {"commit", "scan"}
  BY <1>10 DEF Process, LossInv, BufferShape, DecodeReadable, RetryUnreadable,
      DisposeUnreadable, DisposeInterrupted, WriteRows, CompleteMessage, DeferMessage,
      SettleLockLost, SettleNothing, SettleInterrupted, EndBatch, FailBatch, Decoding,
      Settling, BatchOver
<1>11. CASE Process /\ phase' \in {"commit", "scan", "recover"}
  <2>1. phase' = phase
    BY <1>11 DEF Process, DecodeReadable, RetryUnreadable, DisposeUnreadable,
        DisposeInterrupted, WriteRows, CompleteMessage, DeferMessage, SettleLockLost,
        SettleNothing, SettleInterrupted, EndBatch, FailBatch, AfterInterrupt
  <2>. QED BY <1>8, <1>10, <1>11, <2>1
<1>. QED
  BY <1>1, <1>2, <1>3, <1>4, <1>5, <1>6, <1>7, <1>9, <1>11
  DEF Next, Commit, Scan, Loop, Drain, Platform, vars, batchVars, entityVars, durable,
      output, RecoverReplyLost, LockDeferred, ScanFails, RecoverDone, Receive,
      ReceiveInterrupted, AfterInterrupt, StopIdle, Stop, DrainAbandons, DrainWrites,
      DrainInterrupted, AfterDrain, Peek, JobSucceeds, JobFails, JobDies, JobOver, ResetState

\* H5 takes a message of the state off its list only by deleting it -- its lock
\* is free -- or by carrying it forward; later it is deferred only once written.
LEMMA CommitCoversStep ==
    ASSUME TypeInv, LossInv, OwnedInv, [Next]_vars
    PROVE  CommitCoversState'
<1>. USE DEF TypeInv, TypeOK, RunTypeOK, EntityTypeOK, OwnedInv, CommitCoversState
<1>1. CASE StartRun
  BY <1>1 DEF StartRun, durable, entityVars
<1>2. CASE DeleteChunk
  <2>1. PICK c \in SUBSET work : Delete(c \cap DeferredFree, "committed") /\ work' = work \ c
    BY <1>2 DEF DeleteChunk
  <2>2. UNCHANGED <<state, pending, phase>> /\ phase = "commit"
    BY <1>2 DEF DeleteChunk, durable, output
  <2>3. ASSUME NEW m \in state, loc'[m] = "deferred" PROVE m \in work' \cup pending'
    <3>1. m \in Seqs /\ loc[m] = "deferred" /\ m \notin c \cap DeferredFree
      BY <2>1, <2>3 DEF Delete, Moved
    <3>2. lock[m] = "free" /\ m \in work \cup pending
      BY <2>2, <3>1 DEF OwnedIsFree
    <3>. QED BY <2>1, <2>2, <3>1, <3>2 DEF DeferredFree
  <2>. QED BY <2>2, <2>3
<1>3. CASE DeleteChunkInterrupted
  <2>1. \A m \in Seqs : loc'[m] = "deferred" => loc[m] = "deferred"
    BY <1>3 DEF DeleteChunkInterrupted, Delete, Moved
  <2>2. UNCHANGED <<state, pending, work>> /\ phase = "commit" /\ phase' \in {"commit", "failed"}
    BY <1>3 DEF DeleteChunkInterrupted, durable, output
  <2>. QED BY <2>1, <2>2
<1>4. CASE CarryForward
  BY <1>4 DEF CarryForward, durable, entityVars
<1>5. CASE CommitDone
  BY <1>5 DEF CommitDone, durable, entityVars, output
<1>6. CASE RecoverDone
  BY <1>6 DEF RecoverDone, durable, output, ScanFindsOrphans
<1>7. CASE phase' \notin {"peek", "commit", "receive", "drain", "finished"}
  BY <1>7
<1>8. CASE Peek
  BY <1>8 DEF Peek, config
<1>9. CASE /\ phase' = phase \/ (phase = "receive" /\ phase' \in {"drain", "finished"})
                             \/ (phase = "drain" /\ phase' = "finished")
           /\ UNCHANGED <<mode, state>> /\ rows \subseteq rows' /\ pending \subseteq pending'
           /\ phase = "commit" => UNCHANGED work
  <2>. SUFFICES ASSUME NEW m \in state, loc'[m] = "deferred", loc[m] # "deferred",
                       phase \in {"commit", "receive", "drain", "finished"}
                PROVE  phase # "commit" /\ m \in rows
    BY <1>9
  <2>. QED BY DeferredStep DEF LossInv, BufferShape, SettlesWritten
<1>10. CASE Process
  BY <1>7, <1>9, <1>10 DEF Process, config, durable, output, DecodeReadable, RetryUnreadable,
        DisposeUnreadable, DisposeInterrupted, WriteRows, CompleteMessage, DeferMessage,
        SettleLockLost, SettleNothing, SettleInterrupted, EndBatch, FailBatch, AfterInterrupt
<1>11. CASE Loop \/ Drain
  BY <1>7, <1>9, <1>11 DEF Loop, Drain, config, durable, output, Receive, ReceiveInterrupted,
        AfterInterrupt, StopIdle, Stop, DrainAbandons, DrainWrites, DrainInterrupted, AfterDrain
<1>. QED
  BY <1>1, <1>2, <1>3, <1>4, <1>5, <1>6, <1>7, <1>8, <1>9, <1>10, <1>11
  DEF Next, Commit, Scan, Platform, vars, config, durable, output, ScanPeek, RecoverOrphans,
      RecoverReplyLost, ScanFails, JobSucceeds, JobFails, JobDies, JobOver, ResetState,
      LockLapses

\* A deferral the row's state owns stays owned until H5 has deleted it, in
\* every mix of modes, with and without sessions, through any number of failed
\* runs: only a state reset disowns one, or a run that read the message again.
THEOREM NoOwnedDeferralForgotten == Spec => OwnedUntilDeleted
<1>1. Init => OwnedInv
  BY DEF Init, EntityInit, OwnedInv, CopiesAreOwn, OwnedIsFree, ScanFindsOrphans,
         CommitCoversState
<1>2. TypeInv /\ LossInv /\ OwnedInv /\ [Next]_vars => OwnedInv'
  BY CopiesStep, OwnedIsFreeStep, ScanFindsOrphansStep, CommitCoversStep DEF OwnedInv
<1>3. TypeInv /\ LossInv /\ OwnedInv /\ [Next]_vars
      => [\A m \in state \ state' : loc[m] = "deferred" => phase = "idle" \/ m \in rows]_vars
  <2>. SUFFICES ASSUME TypeInv, OwnedInv, [Next]_vars, NEW m \in state \ state',
                       loc[m] = "deferred", phase # "idle"
                PROVE  m \in rows
    OBVIOUS
  <2>1. JobSucceeds
    BY DEF Next, Commit, Scan, Process, Loop, Drain, Platform, vars, durable, StartRun,
        DeleteChunk, DeleteChunkInterrupted, CarryForward, CommitDone, ScanPeek,
        RecoverOrphans, RecoverReplyLost, ScanFails, RecoverDone, Receive,
        ReceiveInterrupted, StopIdle, Stop, DecodeReadable, RetryUnreadable,
        DisposeUnreadable, DisposeInterrupted, WriteRows, CompleteMessage, DeferMessage,
        SettleLockLost, SettleNothing, SettleInterrupted, EndBatch, FailBatch,
        DrainAbandons, DrainWrites, DrainInterrupted, Peek, JobFails, JobDies, ResetState,
        LockLapses
  <2>. QED BY <2>1 DEF JobSucceeds, Destructive, OwnedInv, CommitCoversState
<1>. QED
  BY <1>1, <1>2, <1>3, TypeInvariant, LossInvariant, PTL DEF Spec, OwnedUntilDeleted
=============================================================================
