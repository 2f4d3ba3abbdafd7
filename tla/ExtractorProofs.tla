--------------------------- MODULE ExtractorProofs ---------------------------
(***************************************************************************)
(* Proofs about Extractor, for every set of messages, batch size, prefetch  *)
(* count, limit, set of modes and policies and every number of faults.      *)
(***************************************************************************)
EXTENDS Extractor, TLAPS, FiniteSetTheorems

(***************************************************************************)
(* The entity: what each broker operation preserves.                       *)
(***************************************************************************)

\* A message that can be delivered has a delivery left.
DeliveryLeft ==
    \A m \in Seqs :
        /\ loc[m] = "active" => dc[m] < MaxDelivery
        /\ loc[m] = "deferred" /\ lock[m] = "free" => dc[m] < MaxDelivery

EntityInv == EntityTypeOK /\ DeliveryLeft

\* An abandon or a lapsed lock keeps the entity well-formed: the count it adds
\* cannot pass the maximum, where the message leaves the entity.
LEMMA ReleaseKeeps ==
    ASSUME EntityInv, NEW S, Release(S)
    PROVE  EntityInv'
BY MaxDeliveryAssumption
   DEF EntityInv, EntityTypeOK, DeliveryLeft, Release, Held, Places, Holders

\* So does a deletion by a receive.
LEMMA DeleteKeeps ==
    ASSUME EntityInv, NEW S, NEW place \in {"received", "committed"}, Delete(S, place)
    PROVE  EntityInv'
BY DEF EntityInv, EntityTypeOK, DeliveryLeft, Delete, Moved, Places, Holders

\* So does a settle call, on a live lock or a lapsed one.
LEMMA SettledKeeps ==
    ASSUME EntityInv, NEW m \in Seqs,
           NEW place \in {"deferred", "completed", "dead_lettered"}, Settled(m, place)
    PROVE  EntityInv'
BY MaxDeliveryAssumption
   DEF EntityInv, EntityTypeOK, DeliveryLeft, Settled, SettledLoc, Places, Holders,
       entityVars

\* So does a deferred receive of messages that are deferred and unlocked.
LEMMA LockDeferredKeeps ==
    ASSUME EntityInv, NEW S \in SUBSET DeferredFree, NEW holder \in {"hand", "adrift"},
           LockDeferred(S, holder)
    PROVE  EntityInv'
BY MaxDeliveryAssumption
   DEF EntityInv, EntityTypeOK, DeliveryLeft, DeferredFree, LockDeferred, Held,
       Places, Holders

\* So does closing a connection, or any change of locks that frees none.
LEMMA LocksKeep ==
    ASSUME EntityInv, UNCHANGED <<loc, dc>>, lock' \in [Seqs -> Holders],
           \A m \in Seqs : lock'[m] = "free" => lock[m] = "free"
    PROVE  EntityInv'
BY DEF EntityInv, EntityTypeOK, DeliveryLeft

\* So does any step that leaves the entity alone.
LEMMA UnchangedKeeps ==
    ASSUME EntityInv, UNCHANGED entityVars
    PROVE  EntityInv'
BY DEF EntityInv, EntityTypeOK, DeliveryLeft, entityVars

\* Closing a connection frees no lock (Adrift).
LEMMA AdriftType ==
    ASSUME EntityInv
    PROVE  /\ Adrift \in [Seqs -> Holders]
           /\ \A m \in Seqs : Adrift[m] = "free" => lock[m] = "free"
BY DEF EntityInv, EntityTypeOK, Adrift, Holders

\* So closing a connection keeps the entity well-formed.
LEMMA AdriftKeeps ==
    ASSUME EntityInv, UNCHANGED <<loc, dc>>, lock' = Adrift
    PROVE  EntityInv'
BY AdriftType, LocksKeep

(***************************************************************************)
(* Type correctness.                                                       *)
(***************************************************************************)

\* Every step of the row keeps the entity well-formed.
LEMMA EntityStep ==
    ASSUME TypeOK, EntityInv, [Next]_vars
    PROVE  EntityInv'
<1>1. CASE UNCHANGED entityVars
  BY <1>1, UnchangedKeeps
<1>2. CASE UNCHANGED <<loc, dc>> /\ lock' = Adrift
  BY <1>2, AdriftKeeps
<1>3. CASE DeleteChunk \/ DeleteChunkInterrupted
  BY <1>3, DeleteKeeps DEF DeleteChunk, DeleteChunkInterrupted
<1>4. CASE RecoverOrphans \/ RecoverReplyLost
  <2>1. PICK S \in SUBSET DeferredFree, holder \in {"hand", "adrift"} :
            LockDeferred(S, holder)
    BY <1>4 DEF RecoverOrphans, RecoverReplyLost
  <2>. QED BY <2>1, LockDeferredKeeps
<1>5. CASE Receive
  <2>1. PICK D \in SUBSET Receivable : Deliver(D, batch')
    BY <1>5 DEF Receive
  <2>2. CASE mode = "receive_and_delete"
    BY <2>1, <2>2, DeleteKeeps DEF Deliver
  <2>3. CASE mode # "receive_and_delete"
    <3>1. lock' \in [Seqs -> Holders]
      BY <2>1, <2>3 DEF Deliver, EntityInv, EntityTypeOK, Holders
    <3>2. \A m \in Seqs : lock'[m] = "free" => lock[m] = "free"
      BY <2>1, <2>3 DEF Deliver
    <3>. QED BY <2>1, <2>3, <3>1, <3>2, LocksKeep DEF Deliver
  <2>. QED BY <2>2, <2>3
<1>6. CASE ReceiveInterrupted \/ DrainInterrupted
  <2>1. PICK D \in SUBSET Receivable : LoseDelivery(D)
    BY <1>6 DEF ReceiveInterrupted, DrainInterrupted
  <2>2. CASE mode = "receive_and_delete"
    BY <2>1, <2>2, DeleteKeeps DEF LoseDelivery
  <2>3. CASE mode # "receive_and_delete"
    <3>1. lock' \in [Seqs -> Holders] /\ \A m \in Seqs : lock'[m] = "free" => lock[m] = "free"
      BY <2>1, <2>3, AdriftType DEF LoseDelivery, Holders
    <3>. QED BY <2>1, <2>3, <3>1, LocksKeep DEF LoseDelivery
  <2>. QED BY <2>2, <2>3
<1>7. CASE RetryUnreadable
  BY <1>7, ReleaseKeeps, UnchangedKeeps DEF RetryUnreadable, Abandon
<1>8. CASE DisposeUnreadable \/ CompleteMessage \/ DeferMessage
  <2>1. CASE UNCHANGED entityVars
    BY <2>1, UnchangedKeeps
  <2>2. CASE ~UNCHANGED entityVars
    <3>1. PICK m \in Seqs, place \in {"deferred", "completed", "dead_lettered"} :
              Settled(m, place)
      BY <1>8, <2>2 DEF DisposeUnreadable, CompleteMessage, DeferMessage, TypeOK, RunTypeOK
    <3>. QED BY <3>1, SettledKeeps
  <2>. QED BY <2>1, <2>2
<1>9. CASE SettleInterrupted
  <2>1. PICK m \in Seqs, reached \in BOOLEAN :
            /\ reached => lock[m] = "hand"
            /\ loc' = IF reached THEN SettledLoc(m, IF mode = "complete" THEN "completed"
                                                    ELSE "deferred")
                      ELSE loc
            /\ lock' = IF reached THEN [Adrift EXCEPT ![m] = "free"] ELSE Adrift
            /\ UNCHANGED dc
    BY <1>9 DEF SettleInterrupted, TypeOK, RunTypeOK
  <2>2. CASE ~reached
    BY <2>1, <2>2, AdriftKeeps
  <2>3. CASE reached
    <3>1. EntityTypeOK'
      BY <2>1, <2>3, AdriftType
      DEF EntityInv, EntityTypeOK, SettledLoc, Places, Holders
    <3>2. DeliveryLeft'
      BY <2>1, <2>3, AdriftType, MaxDeliveryAssumption
      DEF EntityInv, EntityTypeOK, DeliveryLeft, SettledLoc, Places, Holders
    <3>. QED BY <3>1, <3>2 DEF EntityInv
  <2>. QED BY <2>2, <2>3
<1>10. CASE EndBatch
  BY <1>10, AdriftKeeps, UnchangedKeeps DEF EndBatch, entityVars
<1>11. CASE DrainAbandons \/ \E m \in Seqs : LockLapses(m)
  BY <1>11, ReleaseKeeps DEF DrainAbandons, LockLapses
<1>12. CASE DrainWrites
  BY <1>12, DeleteKeeps DEF DrainWrites
<1>. QED
  BY <1>1, <1>2, <1>3, <1>4, <1>5, <1>6, <1>7, <1>8, <1>9, <1>10, <1>11, <1>12
  DEF Next, Commit, Scan, Process, Loop, Drain, Platform, vars, entityVars,
      StartRun, CarryForward, CommitDone, ScanPeek, ScanFails, RecoverDone,
      DecodeReadable, DisposeInterrupted, CloseReceiver, WriteRows, SettleLockLost,
      SettleNothing, FailBatch, StopIdle, Stop, Peek, JobSucceeds, JobFails, JobDies,
      JobOver, ResetState

\* Between two receives there is no batch, and a batch is written only once all
\* of it is decoded.
BatchShape ==
    /\ stage = "fetch" => batch = {}
    /\ stage # "decode" => todo = {}

\* Every step keeps the batch in this shape.
LEMMA BatchShapeStep ==
    ASSUME TypeOK, BatchShape, [Next]_vars
    PROVE  BatchShape'
<1>. USE DEF TypeOK, RunTypeOK, BatchShape
<1>1. CASE UNCHANGED batchVars
  BY <1>1 DEF batchVars
<1>2. CASE DropBatch
  BY <1>2 DEF DropBatch
<1>3. CASE RecoverOrphans \/ Receive \/ DrainWrites
  BY <1>3 DEF RecoverOrphans, Receive, DrainWrites
<1>4. CASE DecodeReadable \/ RetryUnreadable \/ DisposeUnreadable \/ WriteRows
  BY <1>4 DEF DecodeReadable, RetryUnreadable, DisposeUnreadable, WriteRows, Decoding
<1>5. CASE CompleteMessage \/ DeferMessage \/ SettleLockLost \/ SettleNothing
  BY <1>5 DEF CompleteMessage, DeferMessage, SettleLockLost, SettleNothing
<1>. QED
  BY <1>1, <1>2, <1>3, <1>4, <1>5
  DEF Next, Commit, Scan, Process, Loop, Drain, Platform, vars, StartRun, DeleteChunk,
      DeleteChunkInterrupted, CarryForward, CommitDone, ScanPeek, RecoverReplyLost,
      ScanFails, RecoverDone, ReceiveInterrupted, StopIdle, Stop, DisposeInterrupted,
      SettleInterrupted, CloseReceiver, EndBatch, FailBatch, DrainAbandons,
      DrainInterrupted, Peek, JobSucceeds, JobFails, JobDies, JobOver, ResetState,
      LockLapses

\* Every step keeps the row's and the run's own variables in their types.
LEMMA RunTypeStep ==
    ASSUME TypeOK, BatchShape, [Next]_vars
    PROVE  RunTypeOK'
<1>. USE ConfigAssumption DEF TypeOK, RunTypeOK, AllModes, AllPolicies
<1>1. CASE UNCHANGED vars
  BY <1>1 DEF vars, durable, batchVars, config, output, progress
<1>2. CASE StartRun
  BY <1>2 DEF StartRun, durable, batchVars, output, progress
<1>3. CASE DeleteChunk
  BY <1>3 DEF DeleteChunk, durable, batchVars, config, output, progress
<1>4. CASE DeleteChunkInterrupted
  BY <1>4 DEF DeleteChunkInterrupted, Fault, durable, batchVars, config, output, progress
<1>5. CASE CarryForward
  <2>1. work' \subseteq Seqs /\ pending' \subseteq Seqs
    BY <1>5 DEF CarryForward, Group
  <2>. QED BY <1>5, <2>1 DEF CarryForward, Fault, durable, batchVars, config, progress
<1>6. CASE CommitDone
  BY <1>6 DEF CommitDone, durable, batchVars, config, output, progress
<1>7. CASE ScanPeek \/ RecoverReplyLost \/ ScanFails \/ RecoverDone
  BY <1>7 DEF ScanPeek, RecoverReplyLost, ScanFails, RecoverDone, Fault,
              durable, batchVars, config, output, progress
<1>8. CASE RecoverOrphans
  <2>1. batch' \subseteq Seqs /\ todo' = batch' /\ work' \subseteq Seqs
    BY <1>8 DEF RecoverOrphans, Lowest, DeferredFree
  <2>2. stage' \in {"fetch", "decode"}
    BY <1>8 DEF RecoverOrphans
  <2>3. readable = {} /\ again = {}
    BY <1>8 DEF RecoverOrphans, BatchShape
  <2>. QED BY <1>8, <2>1, <2>2, <2>3 DEF RecoverOrphans, durable, config, output, progress
<1>9. CASE Receive
  <2>1. \A D \in SUBSET Receivable : \A n : FirstOf(n, D) \subseteq Seqs
    BY DEF Receivable, FirstOf, Lowest
  <2>2. batch' \subseteq Seqs /\ todo' = batch' /\ buffer' \subseteq Seqs
    BY <1>9, <2>1 DEF Receive, Receivable
  <2>3. readable = {} /\ again = {}
    BY <1>9 DEF Receive, BatchShape
  <2>4. armed' \in BOOLEAN
    BY <1>9 DEF Receive
  <2>. QED BY <1>9, <2>2, <2>3, <2>4 DEF Receive, durable, config, progress
<1>10. CASE ReceiveInterrupted
  BY <1>10 DEF ReceiveInterrupted, LoseDelivery, AfterInterrupt, Receivable, Fault, durable,
               batchVars, config, output
<1>11. CASE StopIdle \/ Stop
  BY <1>11 DEF StopIdle, Stop, Fault, NoFault, durable, batchVars, config, output, progress
<1>12. CASE DecodeReadable \/ RetryUnreadable \/ WriteRows
  BY <1>12 DEF DecodeReadable, RetryUnreadable, WriteRows, durable, config, output, progress
<1>13. CASE DisposeUnreadable
  BY <1>13 DEF DisposeUnreadable, Lost, config, output, progress
<1>14. CASE DisposeInterrupted
  BY <1>14 DEF DisposeInterrupted, CloseReceiver, DropBatch, AfterInterrupt, Fault, durable,
               config, output
<1>15. CASE SettleInterrupted
  <2>1. armed' \in BOOLEAN
    BY <1>15 DEF SettleInterrupted
  <2>. QED BY <1>15, <2>1 DEF SettleInterrupted, DropBatch, AfterInterrupt, Fault, durable, config
<1>16. CASE CompleteMessage
  BY <1>16 DEF CompleteMessage, durable, config, progress
<1>17. CASE DeferMessage
  BY <1>17 DEF DeferMessage, durable, config, progress
<1>18. CASE SettleLockLost
  <2>1. armed' \in BOOLEAN
    BY <1>18 DEF SettleLockLost
  <2>. QED BY <1>18, <2>1 DEF SettleLockLost, durable, config, progress
<1>19. CASE SettleNothing
  BY <1>19 DEF SettleNothing, durable, config, output, progress
<1>20. CASE EndBatch
  <2>1. Cardinality(batch \ again) \in Nat
    BY SeqsAssumption, FS_Subset, FS_CardinalityType
  <2>. QED BY <1>20, <2>1 DEF EndBatch, DropBatch, durable, config, output, progress
<1>21. CASE FailBatch
  BY <1>21 DEF FailBatch, DropBatch, Fault, NoFault, durable, config, output, progress
<1>22. CASE DrainAbandons
  BY <1>22 DEF DrainAbandons, AfterDrain, durable, batchVars, config, output, progress
<1>23. CASE DrainWrites
  <2>1. batch' \subseteq Seqs /\ todo' = batch'
    BY <1>23 DEF DrainWrites, Receivable
  <2>2. phase' \in {"drain", "failed", "finished"} /\ stage' \in {"fetch", "decode"}
    BY <1>23 DEF DrainWrites, AfterDrain
  <2>3. armed' \in BOOLEAN
    BY <1>23 DEF DrainWrites
  <2>4. readable = {} /\ again = {}
    BY <1>23 DEF DrainWrites, BatchShape
  <2>. QED BY <1>23, <2>1, <2>2, <2>3, <2>4 DEF DrainWrites, durable, config, progress
<1>24. CASE DrainInterrupted
  BY <1>24 DEF DrainInterrupted, LoseDelivery, AfterDrain, Receivable, Fault, durable,
               batchVars, config, output, progress
<1>25. CASE Peek
  BY <1>25 DEF Peek, durable, batchVars, config, progress
<1>26. CASE JobSucceeds
  BY <1>26 DEF JobSucceeds, JobOver, CloseReceiver, DropBatch, config
<1>27. CASE JobFails \/ JobDies
  <2>1. storage' \subseteq Seqs /\ forfeited' \subseteq Seqs
    BY <1>27 DEF JobFails, JobDies, Unsuccessful, Upload, Discard
  <2>2. dropped' \subseteq Seqs
    BY <1>27 DEF JobFails, JobDies, Lost, Unwritten
  <2>3. faults' \in 0..MaxFaults
    BY <1>27 DEF JobFails, JobDies, Fault
  <2>4. UNCHANGED <<state, config>> /\ JobOver
    BY <1>27 DEF JobFails, JobDies
  <2>. QED BY <2>1, <2>2, <2>3, <2>4 DEF JobOver, CloseReceiver, DropBatch, config
<1>28. CASE ResetState
  BY <1>28 DEF ResetState, Fault, batchVars, config, output, progress
<1>29. CASE \E m \in Seqs : LockLapses(m)
  <2>1. faults' \in 0..MaxFaults
    BY <1>29 DEF LockLapses, Fault, NoFault
  <2>. QED BY <1>29, <2>1 DEF LockLapses, durable, batchVars, config, output, progress
<1>. QED
  BY <1>1, <1>2, <1>3, <1>4, <1>5, <1>6, <1>7, <1>8, <1>9, <1>10, <1>11, <1>12, <1>13,
     <1>14, <1>15, <1>16, <1>17, <1>18, <1>19, <1>20, <1>21, <1>22, <1>23, <1>24, <1>25,
     <1>26, <1>27, <1>28, <1>29
  DEF Next, Commit, Scan, Process, Loop, Drain, Platform

TypeInv == TypeOK /\ EntityInv /\ BatchShape

\* The inductive invariant behind type correctness holds throughout.
LEMMA TypeInvariant == Spec => []TypeInv
<1>1. Init => TypeInv
  <2>. SUFFICES ASSUME Init PROVE TypeInv
    OBVIOUS
  <2>1. EntityInv
    BY MaxDeliveryAssumption
    DEF Init, EntityInit, EntityInv, EntityTypeOK, DeliveryLeft, Places, Holders
  <2>2. failing \in BOOLEAN /\ armed \in BOOLEAN
    BY DEF Init
  <2>3. faults \in 0..MaxFaults /\ taken \in Nat
    BY ConfigAssumption DEF Init
  <2>4. RunTypeOK
    BY <2>2, <2>3 DEF Init, RunTypeOK, AllModes, AllPolicies
  <2>5. BatchShape
    BY DEF Init, BatchShape
  <2>. QED BY <2>1, <2>4, <2>5 DEF TypeInv, TypeOK, EntityInv
<1>2. TypeInv /\ [Next]_vars => TypeInv'
  BY EntityStep, BatchShapeStep, RunTypeStep DEF TypeInv, TypeOK, EntityInv
<1>. QED BY <1>1, <1>2, PTL DEF Spec

\* Type correctness of the whole row, for every instance: in particular no
\* delivery count ever passes the entity's maximum, which the counting of
\* abandons, lapsed locks and deferred receives could break.
THEOREM TypeCorrect == Spec => []TypeOK
BY TypeInvariant, PTL DEF TypeInv

(***************************************************************************)
(* No loss.  The inductive invariant: what the state owns is imported, what *)
(* the pending set holds is imported or in the output, what is being        *)
(* settled is in the output, and what the broker deleted is accounted for.  *)
(***************************************************************************)

IdleShape ==
    phase = "idle" => /\ buffer = {} /\ stage = "fetch"
                      /\ rows = {} /\ pending = {} /\ armed = FALSE

\* Outside the receive loop and its drain the local buffer is empty; the drain
\* has emptied it before it processes what it drained.
BufferShape ==
    /\ phase \notin {"receive", "drain"} => buffer = {}
    /\ phase \notin {"recover", "receive", "drain"} => stage = "fetch"
    /\ phase = "drain" /\ stage # "fetch" => buffer = {}

RetriesHoldLocks == again # {} => LockHolding

ScanIsDefer == phase \in {"scan", "recover"} => mode = "defer_commit"

CommitOwnsWork == phase = "commit" => work \subseteq state

PendingIsWritten == pending \subseteq storage \cup rows

SettlesWritten == stage = "settle" => readable \subseteq rows

ArmedOnceReceived ==
    mode = "receive_and_delete" /\ (stage # "fetch" \/ buffer # {}) => armed = TRUE

ReceivedInItsRun ==
    \A m \in Seqs : loc[m] = "received" =>
        \/ m \in storage \cup forfeited \cup dropped
        \/ mode = "receive_and_delete" /\ (m \in Unwritten \/ (armed = TRUE /\ m \in rows))

CompletedInItsRun ==
    \A m \in Seqs : loc[m] = "completed" =>
        m \in storage \cup forfeited \/ (armed = TRUE /\ m \in rows)

LossInv ==
    /\ IdleShape /\ BufferShape /\ RetriesHoldLocks /\ ScanIsDefer
    /\ CommitOwnsWork /\ PendingIsWritten /\ SettlesWritten
    /\ ArmedOnceReceived
    /\ StateIsImported /\ CommittedIsImported
    /\ CompletedInItsRun /\ ReceivedInItsRun

\* Only H5 deletes with a deferred receive, and only what it was given.
LEMMA CommittedStep ==
    ASSUME TypeInv, [Next]_vars, NEW m \in Seqs,
           loc'[m] = "committed", loc[m] # "committed"
    PROVE  phase = "commit" /\ m \in work
<1>. USE DEF TypeInv, TypeOK, EntityTypeOK, RunTypeOK
<1>1. CASE UNCHANGED loc
  BY <1>1
<1>2. CASE DeleteChunk \/ DeleteChunkInterrupted
  BY <1>2 DEF DeleteChunk, DeleteChunkInterrupted, Delete, Moved
<1>3. CASE Receive \/ ReceiveInterrupted \/ DrainInterrupted \/ DrainWrites
  BY <1>3 DEF Receive, ReceiveInterrupted, DrainInterrupted, DrainWrites, LoseDelivery,
              Deliver, Delete, Moved
<1>4. CASE RetryUnreadable \/ DrainAbandons \/ \E n \in Seqs : LockLapses(n)
  BY <1>4 DEF RetryUnreadable, DrainAbandons, LockLapses, Abandon, Release, entityVars
<1>5. CASE DisposeUnreadable \/ CompleteMessage \/ DeferMessage
  BY <1>5 DEF DisposeUnreadable, CompleteMessage, DeferMessage, Settled, SettledLoc, entityVars
<1>6. CASE SettleInterrupted
  BY <1>6 DEF SettleInterrupted, SettledLoc
<1>. QED
  BY <1>1, <1>2, <1>3, <1>4, <1>5, <1>6
  DEF Next, Commit, Scan, Process, Loop, Drain, Platform, vars, entityVars, StartRun,
      CarryForward, CommitDone, ScanPeek, RecoverOrphans, RecoverReplyLost, LockDeferred,
      ScanFails, RecoverDone, DecodeReadable, DisposeInterrupted, WriteRows, SettleLockLost,
      SettleNothing, EndBatch, FailBatch, StopIdle, Stop, Peek, JobSucceeds, JobFails,
      JobDies, ResetState

\* Only a settle call of complete mode completes a message, after arming.
LEMMA CompletedStep ==
    ASSUME TypeInv, [Next]_vars, NEW m \in Seqs,
           loc'[m] = "completed", loc[m] # "completed"
    PROVE  /\ stage = "settle" /\ m \in readable
           /\ armed' = TRUE /\ UNCHANGED rows
<1>. USE DEF TypeInv, TypeOK, EntityTypeOK, RunTypeOK
<1>1. CASE UNCHANGED loc
  BY <1>1
<1>2. CASE DeleteChunk \/ DeleteChunkInterrupted
  BY <1>2 DEF DeleteChunk, DeleteChunkInterrupted, Delete, Moved
<1>3. CASE Receive \/ ReceiveInterrupted \/ DrainInterrupted \/ DrainWrites
  BY <1>3 DEF Receive, ReceiveInterrupted, DrainInterrupted, DrainWrites, LoseDelivery,
              Deliver, Delete, Moved
<1>4. CASE RetryUnreadable \/ DrainAbandons \/ \E n \in Seqs : LockLapses(n)
  BY <1>4 DEF RetryUnreadable, DrainAbandons, LockLapses, Abandon, Release, entityVars
<1>5. CASE DisposeUnreadable \/ DeferMessage
  BY <1>5 DEF DisposeUnreadable, DeferMessage, Settled, SettledLoc, entityVars
<1>6. CASE CompleteMessage
  BY <1>6 DEF CompleteMessage, Settling, IsLowest, Settled, SettledLoc, entityVars
<1>7. CASE SettleInterrupted
  <2>1. PICK n \in readable, reached \in BOOLEAN :
            /\ Settling(n)
            /\ loc' = IF reached THEN SettledLoc(n, IF mode = "complete" THEN "completed"
                                                    ELSE "deferred")
                      ELSE loc
            /\ armed' \in IF mode # "complete" THEN {armed}
                         ELSE IF reached THEN {TRUE} ELSE {armed, TRUE}
    BY <1>7 DEF SettleInterrupted
  <2>2. reached = TRUE /\ n = m /\ mode = "complete"
    BY <2>1 DEF SettledLoc
  <2>3. armed' = TRUE
    BY <2>1, <2>2
  <2>. QED BY <1>7, <2>1, <2>2, <2>3 DEF SettleInterrupted, Settling, IsLowest
<1>. QED
  BY <1>1, <1>2, <1>3, <1>4, <1>5, <1>6, <1>7
  DEF Next, Commit, Scan, Process, Loop, Drain, Platform, vars, entityVars, StartRun,
      CarryForward, CommitDone, ScanPeek, RecoverOrphans, RecoverReplyLost, LockDeferred,
      ScanFails, RecoverDone, DecodeReadable, DisposeInterrupted, WriteRows, SettleLockLost,
      SettleNothing, EndBatch, FailBatch, StopIdle, Stop, Peek, JobSucceeds, JobFails,
      JobDies, ResetState

\* Only a receive of receive_and_delete deletes on delivery; it hands the
\* message to the run, or an interruption drops it.
LEMMA ReceivedStep ==
    ASSUME TypeInv, [Next]_vars, NEW m \in Seqs,
           loc'[m] = "received", loc[m] # "received"
    PROVE  \/ m \in dropped'
           \/ mode' = "receive_and_delete" /\ m \in Unwritten'
<1>. USE DEF TypeInv, TypeOK, EntityTypeOK, RunTypeOK
<1>1. CASE UNCHANGED loc
  BY <1>1
<1>2. CASE DeleteChunk \/ DeleteChunkInterrupted
  BY <1>2 DEF DeleteChunk, DeleteChunkInterrupted, Delete, Moved
<1>3. CASE Receive
  <2>1. PICK D \in SUBSET Receivable :
            Deliver(D, todo') /\ buffer' = (buffer \cup D) \ todo'
    BY <1>3 DEF Receive
  <2>2. mode = "receive_and_delete" /\ m \in D
    BY <2>1 DEF Deliver, Delete, Moved
  <2>. QED BY <1>3, <2>1, <2>2 DEF Receive, Unwritten, config
<1>4. CASE ReceiveInterrupted \/ DrainInterrupted
  BY <1>4 DEF ReceiveInterrupted, DrainInterrupted, LoseDelivery, Delete, Moved
<1>5. CASE DrainWrites
  BY <1>5 DEF DrainWrites, Delete, Moved, Unwritten, config
<1>6. CASE RetryUnreadable \/ DrainAbandons \/ \E n \in Seqs : LockLapses(n)
  BY <1>6 DEF RetryUnreadable, DrainAbandons, LockLapses, Abandon, Release, entityVars
<1>7. CASE DisposeUnreadable \/ CompleteMessage \/ DeferMessage
  BY <1>7 DEF DisposeUnreadable, CompleteMessage, DeferMessage, Settled, SettledLoc, entityVars
<1>8. CASE SettleInterrupted
  BY <1>8 DEF SettleInterrupted, SettledLoc
<1>. QED
  BY <1>1, <1>2, <1>3, <1>4, <1>5, <1>6, <1>7, <1>8
  DEF Next, Commit, Scan, Process, Loop, Drain, Platform, vars, entityVars, StartRun,
      CarryForward, CommitDone, ScanPeek, RecoverOrphans, RecoverReplyLost, LockDeferred,
      ScanFails, RecoverDone, DecodeReadable, DisposeInterrupted, WriteRows, SettleLockLost,
      SettleNothing, EndBatch, FailBatch, StopIdle, Stop, Peek, JobSucceeds, JobFails,
      JobDies, ResetState

\* What outlives a job only grows, except the state.
LEMMA DurableGrows ==
    ASSUME [Next]_vars
    PROVE  storage \subseteq storage' /\ forfeited \subseteq forfeited' /\ dropped \subseteq dropped'
<1>1. CASE UNCHANGED durable
  BY <1>1 DEF durable
<1>2. CASE ReceiveInterrupted \/ DrainInterrupted
  BY <1>2 DEF ReceiveInterrupted, DrainInterrupted, LoseDelivery
<1>3. CASE DisposeUnreadable
  BY <1>3 DEF DisposeUnreadable, Lost
<1>4. CASE JobFails \/ JobDies
  BY <1>4 DEF JobFails, JobDies, Unsuccessful, Upload, Discard, Lost
<1>5. CASE JobSucceeds \/ ResetState
  BY <1>5 DEF JobSucceeds, ResetState
<1>. QED
  BY <1>1, <1>2, <1>3, <1>4, <1>5
  DEF Next, Commit, Scan, Process, Loop, Drain, Platform, vars, StartRun, DeleteChunk,
      DeleteChunkInterrupted, CarryForward, CommitDone, ScanPeek, RecoverOrphans,
      RecoverReplyLost, ScanFails, RecoverDone, Receive, StopIdle, Stop, DecodeReadable,
      RetryUnreadable, DisposeInterrupted, WriteRows, CompleteMessage, DeferMessage,
      SettleLockLost, SettleNothing, SettleInterrupted, EndBatch, FailBatch, DrainAbandons,
      DrainWrites, Peek, LockLapses

\* Between runs the row holds nothing but what outlives a job.
LEMMA IdleShapeStep ==
    ASSUME TypeInv, IdleShape, [Next]_vars
    PROVE  IdleShape'
<1>. SUFFICES ASSUME phase' = "idle"
              PROVE  /\ buffer' = {} /\ stage' = "fetch"
                     /\ rows' = {} /\ pending' = {} /\ armed' = FALSE
  BY DEF IdleShape
<1>1. CASE JobOver
  BY <1>1 DEF JobOver, CloseReceiver, DropBatch
<1>2. CASE UNCHANGED <<phase, buffer, batchVars, output>>
  BY <1>2 DEF IdleShape, batchVars, output
<1>3. CASE Process
  BY <1>3 DEF Process, IdleShape, DecodeReadable, RetryUnreadable, DisposeUnreadable,
              DisposeInterrupted, WriteRows, CompleteMessage, DeferMessage, SettleLockLost,
              SettleNothing, SettleInterrupted, EndBatch, FailBatch, AfterInterrupt,
              BatchOver, Decoding, Settling
<1>. QED
  BY <1>1, <1>2, <1>3
  DEF Next, Commit, Scan, Loop, Drain, Platform, vars, StartRun, DeleteChunk,
      DeleteChunkInterrupted, CarryForward, CommitDone, ScanPeek, RecoverOrphans,
      RecoverReplyLost, ScanFails, RecoverDone, Receive, ReceiveInterrupted, AfterInterrupt,
      StopIdle, Stop, DrainAbandons, DrainWrites, DrainInterrupted, AfterDrain, Peek,
      JobSucceeds, JobFails, JobDies, ResetState, LockLapses

\* H5 works on what the run's input state owns.
LEMMA CommitWorkStep ==
    ASSUME TypeInv, CommitOwnsWork, [Next]_vars
    PROVE  CommitOwnsWork'
<1>. SUFFICES ASSUME phase' = "commit" PROVE work' \subseteq state'
  BY DEF CommitOwnsWork
<1>1. CASE UNCHANGED <<phase, work, state>>
  BY <1>1 DEF CommitOwnsWork
<1>2. CASE StartRun
  BY <1>2 DEF StartRun, durable
<1>3. CASE Commit
  BY <1>3 DEF Commit, CommitOwnsWork, DeleteChunk, DeleteChunkInterrupted, CarryForward,
              CommitDone, Group, durable
<1>4. CASE phase # "commit" /\ ~StartRun
  BY <1>4
  DEF Next, Commit, Scan, Process, Loop, Drain, Platform, vars, DeleteChunk,
      DeleteChunkInterrupted, CarryForward, CommitDone, ScanPeek, RecoverOrphans,
      RecoverReplyLost, ScanFails, RecoverDone, Receive, ReceiveInterrupted, AfterInterrupt,
      StopIdle, Stop, DecodeReadable, RetryUnreadable, DisposeUnreadable,
      DisposeInterrupted, WriteRows, CompleteMessage, DeferMessage, SettleLockLost,
      SettleNothing, SettleInterrupted, EndBatch, FailBatch, DrainAbandons, DrainWrites,
      DrainInterrupted, AfterDrain, Peek, JobSucceeds, JobFails, JobDies, JobOver,
      ResetState, LockLapses
<1>5. CASE phase = "commit" /\ ~Commit
  BY <1>1, <1>5
  DEF Next, Scan, Process, Loop, Drain, Platform, vars, durable, StartRun, ScanPeek,
      RecoverOrphans, RecoverReplyLost, ScanFails, RecoverDone, Receive,
      ReceiveInterrupted, AfterInterrupt, StopIdle, Stop, DecodeReadable, RetryUnreadable,
      DisposeUnreadable, DisposeInterrupted, WriteRows, CompleteMessage, DeferMessage,
      SettleLockLost, SettleNothing, SettleInterrupted, EndBatch, FailBatch, DrainAbandons,
      DrainWrites, DrainInterrupted, Peek, JobSucceeds, JobFails, JobDies, JobOver,
      ResetState, LockLapses
<1>. QED BY <1>2, <1>3, <1>4, <1>5

\* What a settle call is made for was written first.
LEMMA SettlesWrittenStep ==
    ASSUME TypeInv, SettlesWritten, [Next]_vars
    PROVE  SettlesWritten'
<1>. SUFFICES ASSUME stage' = "settle" PROVE readable' \subseteq rows'
  BY DEF SettlesWritten
<1>1. CASE UNCHANGED <<batchVars, rows>>
  BY <1>1 DEF SettlesWritten, batchVars
<1>2. CASE Process
  BY <1>2
  DEF Process, SettlesWritten, DecodeReadable, RetryUnreadable, DisposeUnreadable,
      DisposeInterrupted, WriteRows, CompleteMessage, DeferMessage, SettleLockLost,
      SettleNothing, SettleInterrupted, EndBatch, FailBatch, CloseReceiver, DropBatch,
      Decoding, output
<1>3. CASE RecoverOrphans \/ Receive \/ DrainWrites
  BY <1>3 DEF RecoverOrphans, Receive, DrainWrites
<1>4. CASE Peek
  BY <1>4 DEF Peek, SettlesWritten, batchVars
<1>. QED
  BY <1>1, <1>2, <1>3, <1>4
  DEF Next, Commit, Scan, Loop, Drain, Platform, vars, output, StartRun, DeleteChunk,
      DeleteChunkInterrupted, CarryForward, CommitDone, ScanPeek, RecoverReplyLost,
      ScanFails, RecoverDone, ReceiveInterrupted, StopIdle, Stop, DrainAbandons,
      DrainInterrupted, JobSucceeds, JobFails, JobDies, JobOver, CloseReceiver, DropBatch,
      ResetState, LockLapses

\* What joins the pending set was written by this run, or was in the state.
LEMMA PendingStep ==
    ASSUME TypeInv, PendingIsWritten, CommitOwnsWork, SettlesWritten, StateIsImported,
           [Next]_vars
    PROVE  PendingIsWritten'
<1>. USE DurableGrows DEF PendingIsWritten
<1>1. CASE UNCHANGED <<pending, rows>>
  BY <1>1
<1>2. CASE CarryForward
  BY <1>2 DEF CarryForward, Group, CommitOwnsWork, StateIsImported, durable
<1>3. CASE DeferMessage
  BY <1>3 DEF DeferMessage, Settling, IsLowest, SettlesWritten, durable
<1>4. CASE WriteRows \/ Peek
  BY <1>4 DEF WriteRows, Peek
<1>5. CASE JobOver
  BY <1>5 DEF JobOver
<1>. QED
  BY <1>1, <1>2, <1>3, <1>4, <1>5
  DEF Next, Commit, Scan, Process, Loop, Drain, Platform, vars, output, StartRun,
      DeleteChunk, DeleteChunkInterrupted, CommitDone, ScanPeek, RecoverOrphans,
      RecoverReplyLost, ScanFails, RecoverDone, Receive, ReceiveInterrupted, StopIdle,
      Stop, DecodeReadable, RetryUnreadable, DisposeUnreadable, DisposeInterrupted,
      CompleteMessage, SettleLockLost, SettleNothing, SettleInterrupted, EndBatch,
      FailBatch, DrainAbandons, DrainWrites, DrainInterrupted, JobSucceeds, JobFails,
      JobDies, ResetState, LockLapses

\* A new state comes only from a job whose rows were imported.
LEMMA StateStep ==
    ASSUME TypeInv, PendingIsWritten, StateIsImported, [Next]_vars
    PROVE  StateIsImported'
<1>. USE DurableGrows DEF StateIsImported
<1>1. CASE UNCHANGED state
  BY <1>1
<1>2. CASE JobSucceeds
  BY <1>2 DEF JobSucceeds, PendingIsWritten
<1>3. CASE ResetState
  BY <1>3 DEF ResetState
<1>. QED
  BY <1>1, <1>2, <1>3
  DEF Next, Commit, Scan, Process, Loop, Drain, Platform, vars, durable, StartRun,
      DeleteChunk, DeleteChunkInterrupted, CarryForward, CommitDone, ScanPeek,
      RecoverOrphans, RecoverReplyLost, ScanFails, RecoverDone, Receive,
      ReceiveInterrupted, StopIdle, Stop, DecodeReadable, RetryUnreadable,
      DisposeUnreadable, DisposeInterrupted, WriteRows, CompleteMessage, DeferMessage,
      SettleLockLost, SettleNothing, SettleInterrupted, EndBatch, FailBatch,
      DrainAbandons, DrainWrites, DrainInterrupted, Peek, JobFails, JobDies, LockLapses

\* The orphan scan belongs to defer_commit.
LEMMA ScanStep ==
    ASSUME TypeInv, ScanIsDefer, [Next]_vars
    PROVE  ScanIsDefer'
<1>1. CASE UNCHANGED <<phase, mode>>
  BY <1>1 DEF ScanIsDefer
<1>2. CASE phase' \notin {"scan", "recover"}
  BY <1>2 DEF ScanIsDefer
<1>. QED
  BY <1>1, <1>2
  DEF Next, Commit, Scan, Process, Loop, Drain, Platform, vars, config, ScanIsDefer,
      StartRun, DeleteChunk, DeleteChunkInterrupted, CarryForward, CommitDone, ScanPeek,
      RecoverOrphans, RecoverReplyLost, ScanFails, RecoverDone, Receive,
      ReceiveInterrupted, AfterInterrupt, StopIdle, Stop, DecodeReadable, RetryUnreadable,
      DisposeUnreadable, DisposeInterrupted, WriteRows, CompleteMessage, DeferMessage,
      SettleLockLost, SettleNothing, SettleInterrupted, EndBatch, FailBatch,
      DrainAbandons, DrainWrites, DrainInterrupted, AfterDrain, Peek, JobSucceeds,
      JobFails, JobDies, JobOver, ResetState, LockLapses

\* receive_and_delete is armed as soon as it holds a message.
LEMMA ArmedStep ==
    ASSUME TypeInv, IdleShape, ScanIsDefer, ArmedOnceReceived, [Next]_vars
    PROVE  ArmedOnceReceived'
<1>. SUFFICES ASSUME mode' = "receive_and_delete", stage' # "fetch" \/ buffer' # {}
              PROVE  armed' = TRUE
  BY DEF ArmedOnceReceived
<1>. USE DEF ArmedOnceReceived
<1>1. CASE UNCHANGED <<mode, armed, stage, buffer>>
  BY <1>1
<1>2. CASE StartRun
  BY <1>2 DEF StartRun, IdleShape, batchVars
<1>3. CASE RecoverOrphans
  BY <1>3 DEF RecoverOrphans, ScanIsDefer, config
<1>4. CASE Receive
  BY <1>4 DEF Receive, config
<1>5. CASE ReceiveInterrupted \/ DrainInterrupted
  BY <1>5 DEF ReceiveInterrupted, DrainInterrupted, config, batchVars, output
<1>6. CASE WriteRows
  BY <1>6 DEF WriteRows, config
<1>7. CASE DisposeInterrupted \/ SettleInterrupted
  BY <1>7 DEF DisposeInterrupted, SettleInterrupted, LockHolding, config
<1>8. CASE CompleteMessage \/ SettleLockLost
  BY <1>8 DEF CompleteMessage, SettleLockLost, LockHolding, config
<1>9. CASE EndBatch \/ FailBatch
  BY <1>9 DEF EndBatch, FailBatch, BatchOver, DropBatch, config, output
<1>10. CASE DrainAbandons
  BY <1>10 DEF DrainAbandons, batchVars
<1>11. CASE DrainWrites
  BY <1>11 DEF DrainWrites, config
<1>12. CASE JobOver
  BY <1>12 DEF JobOver, CloseReceiver, DropBatch
<1>. QED
  BY <1>1, <1>2, <1>3, <1>4, <1>5, <1>6, <1>7, <1>8, <1>9, <1>10, <1>11, <1>12
  DEF Next, Commit, Scan, Process, Loop, Drain, Platform, vars, config, batchVars, output,
      DeleteChunk, DeleteChunkInterrupted, CarryForward, CommitDone, ScanPeek,
      RecoverReplyLost, ScanFails, RecoverDone, StopIdle, Stop, DecodeReadable,
      RetryUnreadable, DisposeUnreadable, DeferMessage, SettleNothing, Peek, JobSucceeds,
      JobFails, JobDies, ResetState, LockLapses

\* A row of an armed output that is there after a step was there before or has
\* just been written; one that is gone was imported or forfeited.
LEMMA ArmedRows ==
    ASSUME TypeInv, [Next]_vars, NEW m \in rows, armed = TRUE
    PROVE  m \in storage' \cup forfeited' \/ (armed' = TRUE /\ m \in rows')
<1>. USE DEF TypeInv, TypeOK, RunTypeOK
<1>1. CASE UNCHANGED <<rows, armed>>
  BY <1>1
<1>2. CASE WriteRows \/ CompleteMessage \/ Peek
  BY <1>2 DEF WriteRows, CompleteMessage, Peek
<1>6. CASE Receive
  BY <1>6 DEF Receive
<1>7. CASE SettleLockLost
  BY <1>7 DEF SettleLockLost
<1>8. CASE DrainWrites
  BY <1>8 DEF DrainWrites
<1>3. CASE SettleInterrupted
  BY <1>3 DEF SettleInterrupted
<1>4. CASE JobSucceeds
  BY <1>4 DEF JobSucceeds
<1>5. CASE JobFails \/ JobDies
  BY <1>5 DEF JobFails, JobDies, Unsuccessful, Upload, Discard
<1>. QED
  BY <1>1, <1>2, <1>3, <1>4, <1>5, <1>6, <1>7, <1>8
  DEF Next, Commit, Scan, Process, Loop, Drain, Platform, vars, output, StartRun,
      DeleteChunk, DeleteChunkInterrupted, CarryForward, CommitDone, ScanPeek,
      RecoverOrphans, RecoverReplyLost, ScanFails, RecoverDone, ReceiveInterrupted,
      StopIdle, Stop, DecodeReadable, RetryUnreadable, DisposeUnreadable,
      DisposeInterrupted, DeferMessage, SettleNothing, EndBatch, FailBatch, DrainAbandons,
      DrainInterrupted, ResetState, LockLapses

\* A run that finished, or failed, left nothing in the local buffer.
LEMMA BufferShapeStep ==
    ASSUME TypeInv, BufferShape, [Next]_vars
    PROVE  BufferShape'
<1>. USE DEF BufferShape
<1>1. CASE UNCHANGED <<phase, buffer, batchVars>>
  BY <1>1 DEF batchVars
<1>2. CASE StartRun \/ DeleteChunkInterrupted \/ CommitDone \/ ScanPeek \/ ScanFails \/ RecoverDone
  BY <1>2 DEF StartRun, DeleteChunkInterrupted, CommitDone, ScanPeek, ScanFails, RecoverDone,
              batchVars
<1>3. CASE RecoverOrphans \/ Receive \/ DrainWrites
  BY <1>3 DEF RecoverOrphans, Receive, DrainWrites, AfterDrain
<1>4. CASE ReceiveInterrupted \/ DrainInterrupted \/ DrainAbandons \/ StopIdle \/ Stop \/ Peek
  BY <1>4 DEF ReceiveInterrupted, AfterInterrupt, DrainInterrupted, DrainAbandons, AfterDrain,
              StopIdle, Stop, Peek, batchVars
<1>5. CASE DecodeReadable \/ RetryUnreadable \/ DisposeUnreadable
  BY <1>5 DEF DecodeReadable, RetryUnreadable, DisposeUnreadable
<1>6. CASE WriteRows \/ CompleteMessage \/ DeferMessage \/ SettleLockLost \/ SettleNothing
  BY <1>6 DEF WriteRows, CompleteMessage, DeferMessage, SettleLockLost, SettleNothing
<1>7. CASE DisposeInterrupted \/ SettleInterrupted
  BY <1>7 DEF DisposeInterrupted, SettleInterrupted, CloseReceiver, DropBatch, AfterInterrupt
<1>8. CASE EndBatch
  BY <1>8 DEF EndBatch, BatchOver, DropBatch
<1>9. CASE FailBatch
  BY <1>9 DEF FailBatch, BatchOver, DropBatch
<1>10. CASE JobOver
  BY <1>10 DEF JobOver, CloseReceiver, DropBatch
<1>. QED
  BY <1>1, <1>2, <1>3, <1>4, <1>5, <1>6, <1>7, <1>8, <1>9, <1>10
  DEF Next, Commit, Scan, Process, Loop, Drain, Platform, vars, DeleteChunk, CarryForward,
      RecoverReplyLost, JobSucceeds, JobFails, JobDies, ResetState, LockLapses

\* Only a mode that holds locks asks for a message again.
LEMMA RetriesStep ==
    ASSUME TypeInv, BufferShape, RetriesHoldLocks, [Next]_vars
    PROVE  RetriesHoldLocks'
<1>. USE DEF RetriesHoldLocks, LockHolding
<1>1. CASE UNCHANGED <<mode, again>>
  BY <1>1
<1>2. CASE DropBatch
  BY <1>2 DEF DropBatch
<1>3. CASE StartRun
  <2>1. again = {}
    BY <1>3 DEF StartRun, TypeInv, TypeOK, RunTypeOK, BatchShape, BufferShape
  <2>. QED BY <1>3, <2>1 DEF StartRun, batchVars
<1>4. CASE RetryUnreadable
  BY <1>4 DEF RetryUnreadable, MayRetry, config
<1>. QED
  BY <1>1, <1>2, <1>3, <1>4
  DEF Next, Commit, Scan, Process, Loop, Drain, Platform, vars, config, batchVars,
      DeleteChunk, DeleteChunkInterrupted, CarryForward, CommitDone, ScanPeek,
      RecoverOrphans, RecoverReplyLost, ScanFails, RecoverDone, Receive,
      ReceiveInterrupted, StopIdle, Stop, DecodeReadable, DisposeUnreadable,
      DisposeInterrupted, WriteRows, CompleteMessage, DeferMessage, SettleLockLost,
      SettleNothing, SettleInterrupted, EndBatch, FailBatch, DrainAbandons, DrainWrites,
      DrainInterrupted, Peek, JobSucceeds, JobFails, JobDies, JobOver, CloseReceiver,
      ResetState, LockLapses

\* What a receive_and_delete run holds and has not written is written, stays
\* held, or is dropped: no step forgets it.
LEMMA HeldOnward ==
    ASSUME TypeInv, LossInv, [Next]_vars, mode = "receive_and_delete", NEW m \in Unwritten
    PROVE  \/ m \in dropped'
           \/ mode' = "receive_and_delete"
              /\ (m \in Unwritten' \/ (armed' = TRUE /\ m \in rows'))
<1>. USE DEF TypeInv, TypeOK, RunTypeOK, BatchShape, LossInv, Unwritten
<1>1. CASE UNCHANGED <<mode, buffer, batchVars>>
  BY <1>1 DEF batchVars
<1>2. CASE StartRun
  BY <1>2 DEF StartRun, IdleShape
<1>3. CASE RecoverOrphans
  BY <1>3 DEF RecoverOrphans, ScanIsDefer
<1>4. CASE Receive
  <2>1. m \in buffer
    BY <1>4 DEF Receive
  <2>2. m \in buffer' \/ m \in todo'
    BY <1>4, <2>1 DEF Receive
  <2>. QED BY <1>4, <2>2 DEF Receive, config
<1>5. CASE ReceiveInterrupted \/ DrainInterrupted
  BY <1>5 DEF ReceiveInterrupted, DrainInterrupted, LoseDelivery
<1>6. CASE DecodeReadable
  BY <1>6 DEF DecodeReadable, Decoding, config
<1>7. CASE RetryUnreadable \/ DisposeInterrupted \/ SettleInterrupted \/ SettleLockLost
            \/ CompleteMessage \/ DeferMessage \/ DrainAbandons
  BY <1>7 DEF RetryUnreadable, MayRetry, DisposeInterrupted, SettleInterrupted,
              SettleLockLost, CompleteMessage, DeferMessage, DrainAbandons, LockHolding
<1>8. CASE DisposeUnreadable
  BY <1>8 DEF DisposeUnreadable, Decoding, Lost, config
<1>9. CASE WriteRows
  <2>1. m \in buffer \cup readable
    BY <1>9 DEF WriteRows
  <2>2. armed' = TRUE
    BY <1>9 DEF WriteRows, ArmedOnceReceived
  <2>. QED BY <1>9, <2>1, <2>2 DEF WriteRows, config
<1>10. CASE SettleNothing
  BY <1>10 DEF SettleNothing, config
<1>11. CASE EndBatch
  BY <1>11 DEF EndBatch, BatchOver, RetriesHoldLocks, LockHolding, config
<1>12. CASE FailBatch
  BY <1>12 DEF FailBatch, BatchOver, config
<1>13. CASE DrainWrites
  <2>1. m \in buffer
    BY <1>13 DEF DrainWrites
  <2>. QED BY <1>13, <2>1 DEF DrainWrites, config
<1>14. CASE JobSucceeds
  BY <1>14 DEF JobSucceeds, BufferShape
<1>15. CASE JobFails \/ JobDies
  BY <1>15 DEF JobFails, JobDies, Lost
<1>. QED
  BY <1>1, <1>2, <1>3, <1>4, <1>5, <1>6, <1>7, <1>8, <1>9, <1>10, <1>11, <1>12, <1>13,
     <1>14, <1>15
  DEF Next, Commit, Scan, Process, Loop, Drain, Platform, vars, config, batchVars,
      DeleteChunk, DeleteChunkInterrupted, CarryForward, CommitDone, ScanPeek,
      RecoverReplyLost, ScanFails, RecoverDone, StopIdle, Stop, Peek, ResetState, LockLapses

\* The mode changes only between runs, where nothing is armed or held.
LEMMA ModeStep ==
    ASSUME [Next]_vars, phase # "idle"
    PROVE  mode' = mode
BY DEF Next, Commit, Scan, Process, Loop, Drain, Platform, vars, config, StartRun,
       DeleteChunk, DeleteChunkInterrupted, CarryForward, CommitDone, ScanPeek,
       RecoverOrphans, RecoverReplyLost, ScanFails, RecoverDone, Receive,
       ReceiveInterrupted, StopIdle, Stop, DecodeReadable, RetryUnreadable,
       DisposeUnreadable, DisposeInterrupted, WriteRows, CompleteMessage, DeferMessage,
       SettleLockLost, SettleNothing, SettleInterrupted, EndBatch, FailBatch,
       DrainAbandons, DrainWrites, DrainInterrupted, Peek, JobSucceeds, JobFails, JobDies,
       ResetState, LockLapses

\* The no-loss invariant is inductive.
LEMMA LossStep ==
    ASSUME TypeInv, LossInv, [Next]_vars
    PROVE  LossInv'
<1>1. IdleShape' /\ BufferShape' /\ RetriesHoldLocks' /\ ScanIsDefer'
  BY IdleShapeStep, BufferShapeStep, RetriesStep, ScanStep DEF LossInv
<1>2. CommitOwnsWork' /\ PendingIsWritten' /\ SettlesWritten' /\ StateIsImported'
  BY CommitWorkStep, PendingStep, SettlesWrittenStep, StateStep DEF LossInv
<1>3. ArmedOnceReceived'
  BY ArmedStep DEF LossInv
<1>4. CommittedIsImported'
  <2>. SUFFICES ASSUME NEW m \in Seqs, loc'[m] = "committed" PROVE m \in storage'
    BY DEF CommittedIsImported
  <2>1. m \in storage
    BY CommittedStep DEF LossInv, CommittedIsImported, CommitOwnsWork, StateIsImported
  <2>. QED BY <2>1, DurableGrows
<1>5. CompletedInItsRun'
  <2>. SUFFICES ASSUME NEW m \in Seqs, loc'[m] = "completed"
                PROVE  m \in storage' \cup forfeited' \/ (armed' = TRUE /\ m \in rows')
    BY DEF CompletedInItsRun
  <2>1. CASE loc[m] = "completed"
    <3>1. m \in storage \cup forfeited \/ (armed = TRUE /\ m \in rows)
      BY <2>1 DEF LossInv, CompletedInItsRun
    <3>. QED BY <3>1, DurableGrows, ArmedRows
  <2>2. CASE loc[m] # "completed"
    BY <2>2, CompletedStep DEF LossInv, SettlesWritten
  <2>. QED BY <2>1, <2>2
<1>6. ReceivedInItsRun'
  <2>. SUFFICES ASSUME NEW m \in Seqs, loc'[m] = "received"
                PROVE  \/ m \in storage' \cup forfeited' \cup dropped'
                       \/ mode' = "receive_and_delete"
                          /\ (m \in Unwritten' \/ (armed' = TRUE /\ m \in rows'))
    BY DEF ReceivedInItsRun
  <2>1. CASE loc[m] # "received"
    BY <2>1, ReceivedStep
  <2>2. CASE m \in storage \cup forfeited \cup dropped
    BY <2>2, DurableGrows
  <2>3. CASE mode = "receive_and_delete" /\ m \in Unwritten
    BY <2>3, HeldOnward
  <2>4. CASE mode = "receive_and_delete" /\ armed = TRUE /\ m \in rows
    <3>1. phase # "idle"
      BY <2>4 DEF LossInv, IdleShape
    <3>. QED BY <2>4, <3>1, ModeStep, ArmedRows
  <2>. QED BY <2>1, <2>2, <2>3, <2>4 DEF LossInv, ReceivedInItsRun
<1>. QED
  BY <1>1, <1>2, <1>3, <1>4, <1>5, <1>6 DEF LossInv

\* The no-loss invariant holds throughout.
LEMMA LossInvariant == Spec => []LossInv
<1>1. Init => LossInv
  BY DEF Init, EntityInit, LossInv, IdleShape, BufferShape, RetriesHoldLocks, ScanIsDefer,
         CommitOwnsWork, PendingIsWritten, SettlesWritten, ArmedOnceReceived,
         StateIsImported, CommittedIsImported, CompletedInItsRun, ReceivedInItsRun
<1>2. TypeInv /\ LossInv /\ [Next]_vars => LossInv'
  BY LossStep
<1>. QED BY <1>1, <1>2, TypeInvariant, PTL DEF Spec

\* defer_commit is at-least-once end to end: however runs fail, are killed or
\* interrupted, whatever locks lapse and sessions are locked out, and in any
\* mix with the other modes, the commit of H5 deletes only imported messages.
THEOREM NoLossDeferCommit == Spec => []CommittedIsImported
BY LossInvariant, PTL DEF LossInv

\* The row's state owns only messages whose rows are imported, through any
\* number of runs that carry locked sessions forward: only a job whose rows were
\* imported leaves a new state, and what it carries came from the old one.
THEOREM StateOwnsImported == Spec => []StateIsImported
BY LossInvariant, PTL DEF LossInv

\* complete: a completed message is in Storage, in the armed output, or in an
\* armed output the platform discarded; arming before the first
\* complete_message is what makes it so.
THEOREM NoLossComplete == Spec => []CompletedIsAccounted
<1>1. LossInv => CompletedIsAccounted
  BY DEF LossInv, CompletedInItsRun, CompletedIsAccounted
<1>. QED BY <1>1, LossInvariant, PTL

\* receive_and_delete: a message deleted on delivery is never forgotten
\* without an interruption, a kill or an unreadable body being the cause.
THEOREM LossAccountedReceiveAndDelete == Spec => []ReceivedIsAccounted
<1>1. LossInv => ReceivedIsAccounted
  BY DEF LossInv, ReceivedInItsRun, ReceivedIsAccounted
<1>. QED BY <1>1, LossInvariant, PTL
=============================================================================
