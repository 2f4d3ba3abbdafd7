------------------------------ MODULE Extractor ------------------------------
(***************************************************************************)
(* The life of one configuration row: job runs of the extractor over one    *)
(* entity, what each run deletes, writes and remembers, and what the        *)
(* platform makes of its output when it succeeds, fails or dies.            *)
(*                                                                          *)
(* A destructive run commits the previous run's deferrals (H5), recovers    *)
(* the deferrals no state owns (H3, defer_commit only), then receives       *)
(* batches: decode, write the rows, settle.  It ends with the stop drain    *)
(* and the state file.  Every SDK call may be interrupted between the       *)
(* broker's effect and its reply, locks lapse at any time, and the job may  *)
(* be killed at any step.  The stop rules, the recovery budget and the      *)
(* session loop in detail are module ReceiveLoop's; here a run may stop or  *)
(* give up wherever some rule of theirs lets it.                            *)
(***************************************************************************)
EXTENDS Entity

CONSTANTS
    Bad,          \* messages whose body can fail to decode
    Modes,        \* the settlement modes the row's runs may be configured with
    Policies,     \* the unreadable_body policies they may be configured with
    Sessions,     \* session_enabled: no orphan scan, and H5 may be locked out
    SessionOf,    \* the session of a message (one value without sessions)
    BatchSize, Prefetch,  \* advanced.batch_size, advanced.prefetch_count
    Limit,        \* limits.max_messages, 0: none
    Chunk,        \* sequence numbers per deferred-receive call of H5
    KStop,        \* H3 stops after this many qualifying messages in a row
    LostReplies,  \* may a deferred receive of H3 take its locks and lose its reply?
    MayForfeit,   \* may the platform discard an armed output (legacy queue,
                  \* killed container, failed import)?
    MaxFaults     \* bound: interruptions, lapses of held locks, kills, early stops

AllModes == {"complete", "defer_commit", "receive_and_delete", "peek"}
AllPolicies == {"dead_letter", "leave", "fail"}

ASSUME ConfigAssumption ==
    /\ Bad \subseteq Seqs
    /\ Modes \subseteq AllModes
    /\ Policies \subseteq AllPolicies
    /\ {Sessions, LostReplies, MayForfeit} \subseteq BOOLEAN
    /\ BatchSize \in Nat \ {0} /\ Prefetch \in Nat \ {0} /\ Chunk \in Nat \ {0}
    /\ KStop \in Nat \ {0}
    /\ Limit \in Nat /\ MaxFaults \in Nat
    /\ "receive_and_delete" \in Modes => Prefetch = 1

VARIABLES
    \* what outlives a job
    state,      \* pending_commit of the row's state: the deferrals it owns
    storage,    \* messages whose row the platform ever imported
    forfeited,  \* messages whose row was in an armed output the platform discarded
    dropped,    \* RECEIVE_AND_DELETE messages that never became a row
    faults,     \* faults so far, at most MaxFaults
    \* the job
    phase, mode, policy,
    work,       \* H5: still to delete; H3: the page's orphans still to recover
    buffer,     \* the SDK's local receive buffer
    stage,      \* "fetch", "decode" or "settle": where the batch is
    batch,      \* the batch being processed
    todo,       \* its messages not decoded yet
    readable,   \* decode: its readable messages so far; settle: those not settled yet
    again,      \* its messages that asked for a fresh-connection retry
    retried,    \* messages that failed to decode on an earlier connection
    done,       \* messages of processed batches: highest_processed is their maximum
    taken,      \* messages counted towards max_messages
    failing,    \* a UserException is to be raised at the end of the batch
    rows,       \* rows in the output table
    pending,    \* the PendingSetBuilder's set
    armed       \* write_always in the manifest

durable == <<state, storage, forfeited, dropped>>
batchVars == <<stage, batch, todo, readable, again>>
config == <<mode, policy>>
output == <<rows, pending, armed>>
progress == <<retried, done, taken>>
vars == <<entityVars, durable, faults, phase, config, work, buffer, batchVars,
          progress, failing, output>>

Destructive == mode # "peek"
LockHolding == mode \in {"complete", "defer_commit"}
Live == phase # "idle"

RunTypeOK ==
    /\ state \subseteq Seqs /\ storage \subseteq Seqs
    /\ forfeited \subseteq Seqs /\ dropped \subseteq Seqs
    /\ faults \in 0..MaxFaults
    /\ phase \in {"idle", "commit", "scan", "recover", "receive", "drain",
                  "peek", "finished", "failed"}
    /\ mode \in AllModes /\ policy \in AllPolicies
    /\ stage \in {"fetch", "decode", "settle"}
    /\ work \subseteq Seqs /\ buffer \subseteq Seqs
    /\ batch \subseteq Seqs /\ todo \subseteq batch /\ readable \subseteq batch
    /\ again \subseteq batch
    /\ retried \subseteq Seqs /\ done \subseteq Seqs
    /\ taken \in Nat /\ failing \in BOOLEAN
    /\ rows \subseteq Seqs /\ pending \subseteq Seqs /\ armed \in BOOLEAN

TypeOK == EntityTypeOK /\ RunTypeOK

Init ==
    /\ EntityInit
    /\ state = {} /\ storage = {} /\ forfeited = {} /\ dropped = {} /\ faults = 0
    /\ phase = "idle" /\ mode = "peek" /\ policy = "dead_letter"
    /\ work = {} /\ buffer = {}
    /\ stage = "fetch" /\ batch = {} /\ todo = {} /\ readable = {} /\ again = {}
    /\ retried = {} /\ done = {} /\ taken = 0 /\ failing = FALSE
    /\ rows = {} /\ pending = {} /\ armed = FALSE

Fault == faults < MaxFaults /\ faults' = faults + 1
NoFault == UNCHANGED faults

\* Mutation of DropBatch: the list of retried messages survives the batch.
DropBatchKeepingRetries ==
    stage' = "fetch" /\ batch' = {} /\ todo' = {} /\ readable' = {} /\ again' = again

\* The batch is over, or was cut off by an exception.
DropBatch ==
    stage' = "fetch" /\ batch' = {} /\ todo' = {} /\ readable' = {} /\ again' = {}

\* The connection's receiver is closed: its copies are gone, their locks are not.
CloseReceiver == lock' = Adrift /\ buffer' = {} /\ DropBatch

(***************************************************************************)
(* A run starts; H5 deletes the pending set of the row's state.            *)
(***************************************************************************)

\* Mutation of StartRun: H5 deletes whatever is DEFERRED, not what the state owns.
StartRunOverAnyDeferral ==
    /\ phase = "idle"
    /\ mode' \in Modes /\ policy' \in Policies
    /\ phase' = IF mode' = "peek" THEN "peek" ELSE "commit"
    /\ work' = IF mode' = "peek" THEN {} ELSE {m \in Seqs : loc[m] = "deferred"}
    /\ UNCHANGED <<entityVars, durable, faults, buffer, batchVars, progress, failing,
                   output>>

\* run() in a new process: an empty output table and pending set, and the
\* counters at zero (see JobOver).  The state the run sees is the one the last
\* successful job left.
StartRun ==
    /\ phase = "idle"
    /\ mode' \in Modes /\ policy' \in Policies
    /\ phase' = IF mode' = "peek" THEN "peek" ELSE "commit"
    /\ work' = IF mode' = "peek" THEN {} ELSE state
    /\ UNCHANGED <<entityVars, durable, faults, buffer, batchVars, progress, failing,
                   output>>

\* The commit works group by group (a group is one session's messages), each
\* group in ascending chunks.
Group(s) == {m \in work : SessionOf[m] = s}
CommitChunk(c) == \E m \in work : c = Lowest(Group(SessionOf[m]), Chunk)

\* One deferred receive (RECEIVE_AND_DELETE, bisected around what is missing):
\* of the chunk, what is deferred and not locked is deleted, the rest is
\* "already gone".  Either way the chunk is no longer pending.
DeleteChunk ==
    /\ phase = "commit"
    /\ \E c \in SUBSET work :
          /\ CommitChunk(c)
          /\ Delete(c \cap DeferredFree, "committed")
          /\ work' = work \ c
    /\ UNCHANGED <<durable, faults, phase, config, buffer, batchVars, progress,
                   failing, output>>

\* The broker deleted part of the chunk and a transient error lost the reply
\* (or the other half of a bisected call failed).  The retries are spent when
\* the run gives up: a UserException, and nothing was extracted.
DeleteChunkInterrupted ==
    /\ phase = "commit" /\ work # {} /\ Fault
    /\ \E c \in SUBSET work : \E d \in SUBSET c :
          /\ CommitChunk(c)
          /\ Delete(d \cap DeferredFree, "committed")
    /\ phase' \in {"commit", "failed"}
    /\ UNCHANGED <<durable, config, work, buffer, batchVars, progress, failing, output>>

\* Mutation of CarryForward: the rest of a locked group is forgotten.
CarryNothing ==
    /\ phase = "commit" /\ Sessions /\ Fault
    /\ \E m \in work : work' = work \ Group(SessionOf[m])
    /\ UNCHANGED <<entityVars, durable, phase, config, buffer, batchVars, progress,
                   failing, output>>

\* Another receiver holds the session: the rest of the group stays DEFERRED
\* and is carried into this run's pending set.
CarryForward ==
    /\ phase = "commit" /\ Sessions /\ Fault
    /\ \E m \in work : LET left == Group(SessionOf[m]) IN
          /\ pending' = pending \cup left
          /\ work' = work \ left
    /\ UNCHANGED <<entityVars, durable, phase, config, buffer, batchVars, progress,
                   failing, rows, armed>>

\* Mutation of CommitDone: no orphan scan.
CommitDoneWithoutScan ==
    /\ phase = "commit" /\ work = {}
    /\ phase' = "receive"
    /\ UNCHANGED <<entityVars, durable, faults, config, work, buffer, batchVars,
                   progress, failing, output>>

\* Everything stored was deleted or carried: on to H3.  Only defer_commit
\* recovers orphans (the other modes peek once and warn), and not on sessions.
CommitDone ==
    /\ phase = "commit" /\ work = {}
    /\ phase' = IF mode = "defer_commit" /\ ~Sessions THEN "scan" ELSE "receive"
    /\ UNCHANGED <<entityVars, durable, faults, config, work, buffer, batchVars,
                   progress, failing, output>>

(***************************************************************************)
(* H3: the orphan scan and the recovery of the orphans it found.           *)
(***************************************************************************)

\* Mutation of Guarded: the threshold is the max delivery count itself.
GuardedOneLate(m) == dc[m] >= MaxDelivery

\* One more deferred receive could exhaust an orphan at the guard threshold.
Guarded(m) == dc[m] >= MaxDelivery - 1

\* What counts towards the K rule: never delivered, as far as a peek can tell
\* (a locked message peeks like a free one).
Qualifying(m) == loc[m] = "active" /\ dc[m] = 0

\* The K rule: the scan ends at the KStop-th qualifying message since the last
\* DEFERRED one.  Messages that do not qualify are skipped over.
StopsScan(j) ==
    LET since == {k \in Seqs : Qualifying(k) /\ k <= j /\
                     \A d \in Seqs : loc[d] = "deferred" => d < k \/ j < d}
    IN  Cardinality(since) >= KStop

\* Every DEFERRED message the peek shows before the scan ends is an orphan,
\* unless it is guarded.  (One peek page; the pages after it are alike.)
ScanPeek ==
    /\ phase = "scan"
    /\ work' = {m \in Seqs : /\ loc[m] = "deferred" /\ ~Guarded(m)
                            /\ \A j \in Seqs : j < m => ~StopsScan(j)}
    /\ phase' = "recover"
    /\ UNCHANGED <<entityVars, durable, faults, config, buffer, batchVars, progress,
                   failing, output>>

\* Mutation of RecoverOrphans: orphans join the pending set without a row.
AdoptOrphans ==
    /\ phase = "recover" /\ stage = "fetch" /\ work # {}
    /\ pending' = pending \cup work
    /\ work' = {}
    /\ UNCHANGED <<entityVars, durable, faults, phase, config, buffer, batchVars,
                   progress, failing, rows, armed>>

\* One PEEK_LOCK deferred receive of the lowest orphans; what can no longer be
\* received by sequence number is skipped.
RecoverOrphans ==
    /\ phase = "recover" /\ stage = "fetch" /\ work # {}
    /\ LET c == Lowest(work, BatchSize)
           got == c \cap DeferredFree
       IN  /\ LockDeferred(got, "hand")
           /\ work' = work \ c
           /\ batch' = got /\ todo' = got
           /\ stage' = IF got = {} THEN "fetch" ELSE "decode"
    /\ UNCHANGED <<durable, faults, phase, config, buffer, readable, again, progress,
                   failing, output>>

\* The deferred receive took its locks and its reply was lost: a transient
\* error, retried at once (the locked messages are then "not found", or
\* received again if their locks lapsed meanwhile).
RecoverReplyLost ==
    /\ LostReplies /\ phase = "recover" /\ stage = "fetch" /\ work # {} /\ Fault
    /\ LockDeferred(Lowest(work, BatchSize) \cap DeferredFree, "adrift")
    /\ UNCHANGED <<durable, phase, config, work, buffer, batchVars, progress,
                   failing, output>>

\* Any Service Bus error that outlives the retries ends the run.
ScanFails ==
    /\ phase \in {"scan", "recover"} /\ stage = "fetch" /\ Fault
    /\ phase' = "failed"
    /\ lock' = Adrift
    /\ UNCHANGED <<loc, dc, durable, config, work, buffer, batchVars, progress,
                   failing, output>>

RecoverDone ==
    /\ phase = "recover" /\ stage = "fetch" /\ work = {}
    /\ phase' = "receive"
    /\ lock' = Adrift
    /\ UNCHANGED <<loc, dc, durable, faults, config, work, buffer, batchVars,
                   progress, failing, output>>

(***************************************************************************)
(* The receive loop: one call of receive_messages and its batch.           *)
(***************************************************************************)

\* _batch_count: what the next receive asks for.
BatchCount == IF Limit > 0 /\ Limit - taken < BatchSize THEN Limit - taken ELSE BatchSize

LimitReached == Limit > 0 /\ taken >= Limit

\* The first n messages of a buffer topped up with the delivery D.
FirstOf(n, D) ==
    IF n <= Cardinality(buffer) THEN Lowest(buffer, n)
    ELSE buffer \cup Lowest(D \ buffer, n - Cardinality(buffer))

\* A receiver is handed one session's messages, in sequence order.
Offered(D, n) ==
    \E s \in {SessionOf[m] : m \in Seqs} :
        /\ \E k \in 0..n : D = Lowest({m \in Receivable : SessionOf[m] = s}, k)
        /\ \A m \in buffer : SessionOf[m] = s

\* The broker delivers D: locked for this connection, or deleted on delivery.
\* Of the copies, the ones in R go to the batch and the others to the buffer.
\* A buffered copy whose lock lapsed is handed out all the same.
Deliver(D, R) ==
    IF mode = "receive_and_delete"
    THEN Delete(D, "received")
    ELSE /\ lock' = [m \in Seqs |->
               IF m \in D \/ (m \in buffer /\ lock[m] = "buffer")
               THEN (IF m \in R THEN "hand" ELSE "buffer") ELSE lock[m]]
         /\ UNCHANGED <<loc, dc>>

\* A receive that returns messages.  The broker delivers in sequence order and
\* may run ahead of the batch by the link credit, prefetch_count + 1.
\* RECEIVE_AND_DELETE arms write_always before the first of them is written.
Receive ==
    /\ phase = "receive" /\ stage = "fetch" /\ ~LimitReached
    /\ \E D \in SUBSET Receivable, j \in 1..BatchCount :
          LET R == FirstOf(j, D)
          IN  /\ Offered(D, BatchCount + Prefetch + 1) /\ R # {}
              /\ Cardinality((buffer \cup D) \ R) <= Prefetch + 1
              /\ Deliver(D, R)
              /\ batch' = R /\ todo' = R
              /\ buffer' = (buffer \cup D) \ R
    /\ stage' = "decode"
    /\ armed' = (armed \/ mode = "receive_and_delete")
    /\ UNCHANGED <<durable, faults, phase, config, work, readable, again, progress,
                   failing, rows, pending>>

\* What the run holds of messages that exist nowhere else once the broker
\* deleted them on delivery: buffered, or received and not written yet.
Unwritten == buffer \cup todo \cup (IF stage = "decode" THEN readable ELSE {})
Lost(S) == IF mode = "receive_and_delete" THEN dropped \cup S ELSE dropped

\* Where a failed connection leaves the run: the tracker opens a new one, or it
\* gives up; an error of H3 always ends the run.
AfterInterrupt ==
    /\ phase' \in IF phase = "receive" THEN {"receive", "failed"} ELSE {"failed"}
    /\ retried' = retried \cup again
    /\ UNCHANGED <<done, taken>>

\* The broker delivered D and the connection failed.
LoseDelivery(D) ==
    IF mode = "receive_and_delete"
    THEN Delete(D, "received") /\ dropped' = dropped \cup buffer \cup D
    ELSE /\ lock' = [m \in Seqs |-> IF m \in D THEN "adrift" ELSE Adrift[m]]
         /\ UNCHANGED <<loc, dc, dropped>>

\* The connection fails in a receive: what was delivered or buffered is lost
\* to this run (locked until the lock lapses; deleted with receive_and_delete).
ReceiveInterrupted ==
    /\ phase = "receive" /\ stage = "fetch" /\ ~LimitReached /\ Fault
    /\ \E D \in SUBSET Receivable :
          /\ Offered(D, BatchCount)
          /\ LoseDelivery(D)
    /\ buffer' = {} /\ AfterInterrupt
    /\ UNCHANGED <<state, storage, forfeited, config, work, batchVars, failing, output>>

(***************************************************************************)
(* BatchProcessor.process: decode each message in turn, one write, then    *)
(* settle each readable message in turn.                                   *)
(***************************************************************************)

Decoding(m) == stage = "decode" /\ IsLowest(m, todo)

DecodeReadable ==
    /\ \E m \in todo :
          /\ Decoding(m)
          /\ todo' = todo \ {m}
          /\ readable' = readable \cup {m}
    /\ UNCHANGED <<entityVars, durable, faults, phase, config, work, buffer, stage,
                   batch, again, progress, failing, output>>

\* A first decode failure: abandon, and retry on a fresh connection.  Not with
\* receive_and_delete, not in the orphan recovery.
MayRetry(m) == LockHolding /\ phase = "receive" /\ m \notin retried

RetryUnreadable ==
    /\ \E m \in todo \cap Bad :
          /\ Decoding(m) /\ MayRetry(m)
          /\ Abandon(m)
          /\ todo' = todo \ {m}
          /\ again' = again \cup {m}
    /\ UNCHANGED <<durable, faults, phase, config, work, buffer, stage, batch,
                   readable, progress, failing, output>>

\* The final disposition: fail (raised after the batch), skip (the message is
\* deleted already), dead-letter, or leave it locked.
DisposeUnreadable ==
    /\ \E m \in todo \cap Bad :
          /\ Decoding(m)
          /\ IF policy = "dead_letter" /\ LockHolding
             THEN Settled(m, "dead_lettered") ELSE UNCHANGED entityVars
          /\ dropped' = Lost({m})
          /\ todo' = todo \ {m}
    /\ failing' = (failing \/ policy = "fail")
    /\ UNCHANGED <<state, storage, forfeited, faults, phase, config, work, buffer,
                   stage, batch, readable, again, progress, output>>

\* The connection fails in the call for an unreadable message.  (A call the
\* broker did see is RetryUnreadable or DisposeUnreadable before this step.)
DisposeInterrupted ==
    /\ LockHolding /\ stage = "decode" /\ batch \cap Bad # {} /\ Fault
    /\ UNCHANGED <<loc, dc>>
    /\ CloseReceiver /\ AfterInterrupt
    /\ UNCHANGED <<durable, config, work, failing, output>>

\* One write of all the batch's readable rows, before any settle.
WriteRows ==
    /\ stage = "decode" /\ todo = {}
    /\ rows' = rows \cup readable
    /\ stage' = "settle"
    /\ UNCHANGED <<entityVars, durable, faults, phase, config, work, buffer, batch,
                   todo, readable, again, progress, failing, pending, armed>>

Settling(m) == stage = "settle" /\ IsLowest(m, readable)

\* CompleteSettler: write_always is armed before the first complete_message.
CompleteMessage ==
    /\ mode = "complete"
    /\ \E m \in readable :
          /\ Settling(m)
          /\ Settled(m, "completed")
          /\ readable' = readable \ {m}
    /\ armed' = TRUE
    /\ UNCHANGED <<durable, faults, phase, config, work, buffer, stage, batch, todo,
                   again, progress, failing, rows, pending>>

\* DeferSettler: the message joins the pending set once the call returned --
\* also when the broker silently ignored it (see Settled).
DeferMessage ==
    /\ mode = "defer_commit"
    /\ \E m \in readable :
          /\ Settling(m)
          /\ Settled(m, "deferred")
          /\ readable' = readable \ {m}
          /\ pending' = pending \cup {m}
    /\ UNCHANGED <<durable, faults, phase, config, work, buffer, stage, batch, todo,
                   again, progress, failing, rows, armed>>

\* A lost lock the SDK notices (MessageLockLostError): counted, not settled.
\* complete arms before the settle call, but after the renewal.
SettleLockLost ==
    /\ LockHolding
    /\ \E m \in readable :
          /\ Settling(m) /\ lock[m] # "hand"
          /\ readable' = readable \ {m}
    /\ armed' \in {armed, armed \/ mode = "complete"}
    /\ UNCHANGED <<entityVars, durable, faults, phase, config, work, buffer, stage,
                   batch, todo, again, progress, failing, rows, pending>>

\* receive_and_delete: nothing to settle.
SettleNothing ==
    /\ mode = "receive_and_delete" /\ stage = "settle" /\ readable # {}
    /\ readable' = {}
    /\ UNCHANGED <<entityVars, durable, faults, phase, config, work, buffer, stage,
                   batch, todo, again, progress, failing, output>>

\* Mutation of SettleInterrupted: write_always is armed after the call returned.
SettleInterruptedBeforeArming ==
    /\ LockHolding /\ Fault
    /\ \E m \in readable, reached \in BOOLEAN :
          /\ Settling(m)
          /\ reached => lock[m] = "hand"
          /\ loc' = IF reached THEN SettledLoc(m, IF mode = "complete" THEN "completed"
                                                  ELSE "deferred")
                    ELSE loc
          /\ lock' = IF reached THEN [Adrift EXCEPT ![m] = "free"] ELSE Adrift
    /\ buffer' = {} /\ DropBatch /\ AfterInterrupt
    /\ UNCHANGED <<dc, durable, config, work, failing, output>>

\* The connection fails in a renew or settle call, which may have reached the
\* broker: a deferral made so is in no pending set.
SettleInterrupted ==
    /\ LockHolding /\ Fault
    /\ \E m \in readable, reached \in BOOLEAN :
          /\ Settling(m)
          /\ reached => lock[m] = "hand"
          /\ loc' = IF reached THEN SettledLoc(m, IF mode = "complete" THEN "completed"
                                                  ELSE "deferred")
                    ELSE loc
          /\ lock' = IF reached THEN [Adrift EXCEPT ![m] = "free"] ELSE Adrift
          /\ armed' \in IF mode # "complete" THEN {armed}
                       ELSE IF reached THEN {TRUE} ELSE {armed, TRUE}
    /\ buffer' = {} /\ DropBatch /\ AfterInterrupt
    /\ UNCHANGED <<dc, durable, config, work, failing, rows, pending>>

BatchOver == stage = "settle" /\ readable = {}

\* The batch ends well.  In the receive loop its messages count towards
\* max_messages and the drain check's mark, and the retried bodies get a fresh
\* connection; the stop drain is over after its batch.
EndBatch ==
    /\ BatchOver /\ ~failing
    /\ phase' = IF phase = "drain" THEN "finished" ELSE phase
    /\ IF phase = "receive"
       THEN /\ taken' = IF Limit = 0 THEN 0 ELSE taken + Cardinality(batch \ again)
            /\ done' = done \cup batch
            /\ retried' = retried \cup again
       ELSE UNCHANGED progress
    /\ IF again # {} THEN lock' = Adrift /\ buffer' = {} ELSE UNCHANGED <<lock, buffer>>
    /\ DropBatch
    /\ UNCHANGED <<loc, dc, durable, faults, config, work, failing, output>>

\* Mutation of FailBatch: the failing run raises without the stop drain.
FailBatchUndrained ==
    /\ BatchOver
    /\ \/ failing /\ NoFault
       \/ ~failing /\ Fault
    /\ failing' = TRUE
    /\ phase' = "failed"
    /\ DropBatch
    /\ UNCHANGED <<entityVars, durable, config, work, buffer, progress, output>>

\* The batch ends with a UserException: policy fail, or (a fault here) the
\* flatten cap or the abort share.  The receive loop drains before it raises;
\* the orphan recovery and the drain itself do not.
FailBatch ==
    /\ BatchOver
    /\ \/ failing /\ NoFault
       \/ ~failing /\ Fault
    /\ failing' = TRUE
    /\ phase' = IF phase = "receive" THEN "drain" ELSE "failed"
    /\ DropBatch
    /\ UNCHANGED <<entityVars, durable, config, work, buffer, progress, output>>

(***************************************************************************)
(* Stops, and the stop drain.                                              *)
(***************************************************************************)

\* An empty receive and a drain check that finds nothing: no message that
\* peeks as active lies past the highest processed sequence number.  With
\* sessions: no session with an available message is handed out.
StopIdle ==
    /\ phase = "receive" /\ stage = "fetch" /\ buffer = {} /\ ~LimitReached
    /\ IF Sessions THEN Receivable = {}
       ELSE \A m \in Seqs : loc[m] = "active" => \E d \in done : m <= d
    /\ phase' = "finished"
    /\ UNCHANGED <<entityVars, durable, faults, config, work, buffer, batchVars,
                   progress, failing, output>>

\* max_messages; or (a fault here) max_duration, the state budget, or receives
\* that stay empty although messages remain.
Stop ==
    /\ phase = "receive" /\ stage = "fetch"
    /\ \/ LimitReached /\ NoFault
       \/ ~LimitReached /\ Fault
    /\ phase' = "drain"
    /\ UNCHANGED <<entityVars, durable, config, work, buffer, batchVars, progress,
                   failing, output>>

AfterDrain == IF failing THEN "failed" ELSE "finished"

\* The drain receives at most prefetch_count + 1 messages: the buffer and what
\* the broker still delivers, D.
DrainDelivery(D) ==
    /\ Offered(D, Prefetch + 1)
    /\ Cardinality(buffer \cup D) <= Prefetch + 1

\* complete / defer_commit abandon the drained messages.
DrainAbandons ==
    /\ phase = "drain" /\ stage = "fetch" /\ LockHolding
    /\ \E D \in SUBSET Receivable :
          /\ DrainDelivery(D)
          /\ Release(D \cup {m \in buffer : lock[m] = "buffer"})
    /\ buffer' = {}
    /\ phase' = AfterDrain
    /\ UNCHANGED <<durable, faults, config, work, batchVars, progress, failing, output>>

\* Mutation of DrainWrites: the drain's receive does not arm write_always.
DrainWritesUnarmed ==
    /\ phase = "drain" /\ stage = "fetch" /\ mode = "receive_and_delete"
    /\ \E D \in SUBSET Receivable :
          /\ DrainDelivery(D)
          /\ Delete(D, "received")
          /\ batch' = buffer \cup D /\ todo' = buffer \cup D
          /\ IF buffer \cup D = {}
             THEN phase' = AfterDrain /\ UNCHANGED stage
             ELSE phase' = phase /\ stage' = "decode"
    /\ buffer' = {}
    /\ UNCHANGED <<durable, faults, config, work, readable, again, progress, failing,
                   output>>

\* receive_and_delete writes them: the broker deleted them on delivery.
DrainWrites ==
    /\ phase = "drain" /\ stage = "fetch" /\ mode = "receive_and_delete"
    /\ \E D \in SUBSET Receivable :
          /\ DrainDelivery(D)
          /\ Delete(D, "received")
          /\ batch' = buffer \cup D /\ todo' = buffer \cup D
          /\ IF buffer \cup D = {}
             THEN phase' = AfterDrain /\ UNCHANGED <<stage, armed>>
             ELSE phase' = phase /\ stage' = "decode" /\ armed' = TRUE
    /\ buffer' = {}
    /\ UNCHANGED <<durable, faults, config, work, readable, again, progress, failing,
                   rows, pending>>

\* The drain is best effort: a failed connection is swallowed.
DrainInterrupted ==
    /\ phase = "drain" /\ stage = "fetch" /\ Fault
    /\ \E D \in SUBSET Receivable :
          /\ DrainDelivery(D)
          /\ LoseDelivery(D)
    /\ buffer' = {}
    /\ phase' = AfterDrain
    /\ UNCHANGED <<state, storage, forfeited, config, work, batchVars, progress,
                   failing, output>>

(***************************************************************************)
(* Peek mode: rows of what the entity shows, and nothing else.             *)
(***************************************************************************)
Peek ==
    /\ phase = "peek"
    /\ \E seen \in SUBSET {m \in Seqs : loc[m] \in {"active", "deferred"}} : rows' = rows \cup seen
    /\ phase' \in {"finished", "failed"}
    /\ UNCHANGED <<entityVars, durable, faults, config, work, buffer, batchVars,
                   progress, failing, pending, armed>>

(***************************************************************************)
(* The end of the job, and what the platform does with its output.         *)
(***************************************************************************)

\* The process ends, and with it its connection and everything it knew.
JobOver ==
    /\ phase' = "idle" /\ CloseReceiver
    /\ work' = {} /\ retried' = {} /\ done' = {} /\ taken' = 0 /\ failing' = FALSE
    /\ rows' = {} /\ pending' = {} /\ armed' = FALSE

\* _finish wrote the state file; job and import succeed, so the next run sees
\* the rows imported and the new state.
JobSucceeds ==
    /\ phase = "finished"
    /\ storage' = storage \cup rows
    /\ state' = IF Destructive THEN pending ELSE state
    /\ JobOver
    /\ UNCHANGED <<loc, dc, forfeited, dropped, faults, config>>

\* The output of a job that did not succeed: uploaded if write_always is
\* armed, discarded otherwise.  The state stays the old one.
Upload == storage' = storage \cup rows /\ UNCHANGED forfeited
Discard == forfeited' = (IF armed THEN forfeited \cup rows ELSE forfeited) /\ UNCHANGED storage

Unsuccessful ==
    \/ armed /\ Upload
    \/ (armed => MayForfeit) /\ Discard

\* Mutation of JobFails: a failing run leaves its pending set in the state.
JobFailsAndSavesState ==
    /\ phase = "failed"
    /\ Unsuccessful /\ dropped' = Lost(Unwritten)
    /\ state' = pending
    /\ JobOver
    /\ UNCHANGED <<loc, dc, faults, config>>

\* The run raised: exit 1 or 2.
JobFails ==
    /\ phase = "failed"
    /\ Unsuccessful /\ dropped' = Lost(Unwritten)
    /\ JobOver
    /\ UNCHANGED <<state, loc, dc, faults, config>>

\* The job is killed (timeout, lost container) or, after the run finished, its
\* import fails.
JobDies ==
    /\ Live /\ Fault
    /\ Unsuccessful /\ dropped' = Lost(Unwritten)
    /\ JobOver
    /\ UNCHANGED <<state, loc, dc, config>>

\* Between two runs the user resets the row's state.
ResetState ==
    /\ phase = "idle" /\ state # {} /\ Fault
    /\ state' = {}
    /\ UNCHANGED <<entityVars, storage, forfeited, dropped, phase, config, work,
                   buffer, batchVars, progress, failing, output>>

\* A lock lapses: of a copy the run still holds (a fault), or of a closed
\* connection's.
LockLapses(m) ==
    /\ lock[m] # "free"
    /\ IF lock[m] = "adrift" THEN NoFault ELSE Fault
    /\ Release({m})
    /\ UNCHANGED <<durable, phase, config, work, buffer, batchVars, progress, failing,
                   output>>

Commit == DeleteChunk \/ DeleteChunkInterrupted \/ CarryForward \/ CommitDone
Scan == ScanPeek \/ RecoverOrphans \/ RecoverReplyLost \/ ScanFails \/ RecoverDone
Process == \/ DecodeReadable \/ RetryUnreadable \/ DisposeUnreadable \/ DisposeInterrupted
           \/ WriteRows
           \/ CompleteMessage \/ DeferMessage \/ SettleLockLost \/ SettleNothing
           \/ SettleInterrupted
           \/ EndBatch \/ FailBatch
Loop == Receive \/ ReceiveInterrupted \/ StopIdle \/ Stop
Drain == DrainAbandons \/ DrainWrites \/ DrainInterrupted
Platform == JobSucceeds \/ JobFails \/ JobDies \/ ResetState

Next == \/ StartRun \/ Commit \/ Scan \/ Loop \/ Process \/ Drain \/ Peek \/ Platform
        \/ \E m \in Seqs : LockLapses(m)

Spec == Init /\ [][Next]_vars

\* The scheduler starts run after run, a run that is not interrupted takes its
\* next step, and the lock of a closed connection lapses.
Step == StartRun \/ Commit \/ Scan \/ Loop \/ Process \/ Drain \/ Peek \/ JobSucceeds \/ JobFails

Fairness == /\ WF_vars(Step)
            /\ \A m \in Seqs : WF_vars(lock[m] = "adrift" /\ LockLapses(m))

FairSpec == Spec /\ Fairness

(***************************************************************************)
(* Properties.                                                             *)
(***************************************************************************)

\* defer_commit is at-least-once end to end: the deferred receive that deletes
\* messages (PendingCommitter) only ever deleted messages whose row a
\* successful job imported, whatever failed, was killed, was carried forward or
\* was settled with a lapsed lock before.
CommittedIsImported == \A m \in Seqs : loc[m] = "committed" => m \in storage

\* complete: a message that complete_message deleted has its row in Storage, or
\* in the current run's output with write_always armed, or in an armed output
\* the platform itself discarded.  No failure of the run loses it.
CompletedIsAccounted ==
    \A m \in Seqs : loc[m] = "completed" =>
        m \in storage \cup forfeited \/ (armed /\ m \in rows)

\* receive_and_delete: a message deleted on delivery is in Storage, in the
\* armed output, still on its way to it, or is known to have been lost to an
\* interruption or an unreadable body.
ReceivedIsAccounted ==
    \A m \in Seqs : loc[m] = "received" =>
        \/ m \in storage \cup forfeited \cup dropped \cup Unwritten
        \/ armed /\ m \in rows

\* receive_and_delete loses nothing but unreadable bodies in runs without an
\* interruption, early stop or kill: the stop drain writes what the local
\* buffer holds, before a failing run raises too.
DropsNeedAFault == faults = 0 => dropped \subseteq Bad

\* The row's state owns only messages whose rows are imported, so H5 may delete
\* all of it; a carried-forward group keeps this through any number of runs.
StateIsImported == state \subseteq storage

\* A deferral the row's state owns stays owned until H5 deleted it: no run that
\* succeeds forgets one, not even of a session that stays locked for many runs
\* (on session entities nothing would ever find it again).  Only a state reset
\* disowns one -- or a run that read the message again, because its first
\* deferral had missed, and deferred it in a call that failed.
OwnedUntilDeleted ==
    [][\A m \in state \ state' : loc[m] = "deferred" => phase = "idle" \/ m \in rows]_vars

\* The orphan guard: no deferred message reaches the max delivery count, which
\* would move it to the dead-letter sub-queue (provided no reply of a deferred
\* receive is lost, see LostReplies).
GuardProtectsDeferred ==
    [][\A m \in Seqs : loc[m] = "deferred" => loc'[m] # "exhausted"]_vars

\* With no fault of connection, lock or platform, and readable bodies, a
\* message the run did not take stays on the entity for the next run: the stop
\* drain's abandon never costs it its last delivery.
RestStaysForNextRun == faults = 0 => \A m \in Seqs \ Bad : loc[m] # "exhausted"

\* The row as a handover from the entity to Storage: dead-lettered messages are
\* still at the source (its sub-queue), deleted ones are not.
Source == {m \in Seqs : loc[m] \notin {"completed", "received", "committed"}}

Contract == INSTANCE Handover
              WITH Messages <- Seqs, source <- Source, outbox <- rows, target <- storage

\* In the modes complete and defer_commit (and peek between them) the row
\* implements the handover: no step deletes a message without a row, and no
\* output is discarded that a deleted message's only row is in.  complete
\* needs a platform that honours write_always; defer_commit does not.
ImplementsHandover == Contract!Spec

\* Once the faults are over, defer_commit exports and deletes every readable
\* message -- the deferrals of failed runs, which no state owns, too.
EventuallyCommitted == \A m \in Seqs \ Bad : <>(loc[m] = "committed")
=============================================================================
