# Verification of the Azure Service Bus extractor

A TLA+ development of `src/src`: a Keboola component that exports the messages
of one Service Bus queue or subscription into a table, run after run. The
component's promise is about what happens when something fails half way: no
message may be deleted from the entity unless its row reaches Storage. The
models follow a configuration row over many job runs, with the broker and the
platform around it.

## The system

| Component | State | Operations | Talks to |
|---|---|---|---|
| Run lifecycle (`component.py`) | run context, row state | `run`, `_start_run`, `_finish` | everything below, in a fixed order |
| Pending committer, H5 (`commit.py`) | position in the previous run's pending set: group, chunk, call, retry | `commit`: delete deferred messages in chunks, carry held sessions forward, drop stale entities | entity, pending set |
| Orphan scanner, H3, and foreign-deferral probe (`commit.py`) | peek position, K counter, guarded messages | `scan`: peek, guard, recover; probe: peek and warn | entity, batch processor |
| Receive loop (`receiver.py`) | receiver, sessions seen, taken, highest processed, empty retries, catch-up | `_step`, `_on_empty`, `_stop_drain`, `_catch_up`, `_recover` | entity, batch processor, tracker |
| Recovery tracker (`receiver.py`) | count, generation, progress flag | `failure`, `progress`, `unreadable_retry` | receive loop, peek pager |
| Batch processor, settlers, unreadable handler (`settlement.py`) | first failures, left messages, pending failure | `process`: decode, write, settle | output table, entity, pending set |
| Peek pager (`peek.py`) | processed set, high mark, outstanding body, cursor | `_run_pages`, `_run_sessions`, `_export` | entity, batch processor, state |
| Output table (`output.py`) | rows, manifest with `write_always`, columns fixed when it is opened | `write_rows`, `arm_write_always`, `close` | platform |
| Row state (`state.py`) | pending ranges, peek cursor, flatten columns | `load`, `to_ranges`, `merge_ranges`, `tail`, `PendingSetBuilder` | platform |
| Flatten registry (`body.py`) | path to column name, provisional names, overflow flag | `register`, `split`, `to_state` | batch processor, output table, state |
| Configuration (`configuration.py`) | the row's parameters | validators that normalise, then refuse | run, sync actions |
| Connector, error mapping (`client.py`), metadata (`entity.py`) | none | build clients, classify errors, read the entity's properties | run, sync actions |
| Sync actions (`component.py`) | worker thread, outcome list, deadline | `testConnection`, `listQueues`, `listTopics`, `listSubscriptions`, `previewMessages` | management endpoint, entity |
| Message columns, statistics | see PROJECT.json | | |
| Service Bus entity, Keboola platform | external | deliver, lock, settle, delete; import, discard, keep the state | |

A run has one thread, but there are four independent actors: the run, the broker (locks
lapse, replies get lost, sessions are handed out in any order), other clients
of the entity, and the platform (kills a job, imports or discards its output,
keeps the old state). A sync action has two threads, one of which may hang.
Hard are: effects whose reply is lost; locks that lapse
under a copy in hand; deliveries counted on the way to the dead-letter
sub-queue; what a run leaves to the next one; drain checks by peek, which
cannot tell locked messages from free ones; and the retry budgets that must
end every run. PROJECT.json lists each hazard at its line.

What makes the components correct: every deleted message is in Storage or in
an output the platform will upload (per settlement mode); the row state owns
only imported deferrals and keeps them until they are deleted; deferrals of
failed runs are found again; a run that says nothing has left nothing; limits
and budgets hold and every run ends; the peek cursor never passes an
unexported message; a flattened column keeps its path over all runs and no
field overwrites another; a sync action replies, and what it replies is true.

## Modules

| Module | Models | Used by |
|---|---|---|
| `Entity` | the broker's message places, lock tokens and delivery counts (external) | `Extractor`, `ReceiveLoop` |
| `Extractor` | the row over any number of jobs: H5, H3, receive, decode, write, settle, stop drain, state, import | `MCExtractor`, `ExtractorProofs`, `ExtractorContractProofs` |
| `Handover` | the abstract promise: source, output, target | refined by `Extractor` |
| `ReceiveLoop` | one run of the receive loop with all its stop, retry and session rules | `MCReceiveLoop`, `ReceiveLoopProofs` |
| `PeekPager` | peek runs, both fetch modes, over any number of jobs | `MCPeekPager`, `PeekPagerProofs` |
| `PendingRanges` | the range encoding of the pending set: `to_ranges`, `merge_ranges`, `tail`, chunks (no state) | `PendingCommit`, `ReconcileProofs` |
| `PendingCommit` | H5 in detail: groups, chunks, bisected calls, retries, carry-forward, stale entities | `Reconcile` |
| `Reconcile` | the start of a run: H5, then H3 or the probe page by page, and the pending set that the run saves | `MCReconcile`, `ReconcileProofs` |
| `FlattenRegistry` | a `json_flatten` row over several runs: registry, cap, split, table columns, saved registry | `MCFlattenRegistry`, `FlattenRegistryProofs` |
| `RowConfiguration` | which parameters are accepted, and the normalised row (no state) | `Actions` |
| `Actions` | sync actions with worker and deadline, error classification, the pre-checks of a run | `MCActions`, `ActionsProofs` |
| `ExtractorProofs`, `ExtractorContractProofs`, `ReceiveLoopProofs`, `PeekPagerProofs`, `ReconcileProofs`, `FlattenRegistryProofs`, `ActionsProofs` | theorems about the module of that name | |
| `InductionLemmas` | a non-empty set of naturals has a least element, a finite set of integers a greatest; a loop over 1..n has values | the proof modules |

`Extractor` has the batch message by message and the SDK calls one by one; it
lets a run stop or give up wherever some rule might. `ReceiveLoop` has those
rules, with a batch as one step. So what is deleted and written is settled in
`Extractor` whatever the loop decides, and what the loop decides is settled in
`ReceiveLoop`. In the same way `Extractor` has H5 and H3 as atomic receives of
sets of messages, and `Reconcile` has their inner structure: ranges, chunks by
count and size, calls split in halves, every retry, pages. `Actions` checks that
an accepted row satisfies what the other modules assume of their constants
(`AcceptedIsSafe`).

### Correspondence

* A message is its sequence number. `loc`, `lock`, `dc` are the broker's; a
  lock token is represented by who holds it: the batch (`hand`), the SDK's
  buffer (`buffer`) or a closed connection (`adrift`). A settle call with a
  lapsed lock does nothing and the caller does not hear of it, which is how
  fire-and-forget settlement behaves.
* `Extractor`: `rows`, `armed` and `pending` are the output table, its
  `write_always` flag and the `PendingSetBuilder`; `state`, `storage`,
  `forfeited` and `dropped` outlive the job. `phase` is the position in
  `Component.run`, `stage` the position in `BatchProcessor.process`. One action
  per SDK call; each `...Interrupted` action is the same call failing with or
  without its effect. `JobSucceeds`, `JobFails` and `JobDies` are the only
  actions that touch `storage`.
* `ReceiveLoop`: `pc` is the position in `run`/`_step`; `taken`, `highest`,
  `empties`, `used`, `seen`, `count`, `progressed`, `recycles`, `retried` are
  the attributes of those names in `ReceiveLoop`, `RecoveryTracker`,
  `UnreadableHandler` and the statistics. `StopRule` is `_stop_check`,
  `Remaining` the drain check, `Warns` the closing warning. `Caught` is the
  `except` of `_consume`: `_recover`, or for a `SessionCannotBeLockedError` the
  end of the session (`SessionLost`; `SessionRefused` at the accept), which uses
  no budget. `others` are the sessions other receivers hold, of those they may
  lock (`contended`).
* `PeekPager`: `processed`, `high`, `outstanding`, `taken` are the pager's
  attributes; a page is a set, read in sequence order. `kind` says whether the
  entity is plain, known to be partitioned, partitioned without management
  access (its first page reveals it), or uses sessions. `others` are the
  sessions other consumers hold, of those they may lock (`Contended`): such a
  session is not handed out, is refused at the accept (`SessionRefused`), or is
  lost while it is peeked and stays half-read in `seen` (`SessionLost`). `twice`
  and `passed` are history.
* `PendingCommit` and `Reconcile`: `at`, `chunks`, `calls`, `tries` are the
  positions of the loops of `commit`, `_delete_group`, `receive_deferred_bisect`
  and `with_transient_retry`; `calls` is the recursion of the bisection as a
  stack. `nextSeq` is `_GroupProgress`, `saved` the stored groups with their
  ranges and `max_body_bytes`, `draft` and `carried` the two sides of the
  `PendingSetBuilder`, `next`, `shown`, `pages`, `consecutive` the scan. A call
  may be answered, refused, raise, or lose its reply after its effect. A
  session entity is a group whose session another receiver may hold.
* `FlattenRegistry`: `registry.columns` is `_by_hash`, `registry.provisional`
  is `_provisional`; `_taken` and `overflowed` are functions of those. A path is
  a model value; base names and their suffixed forms are constants, chosen so
  that they collide. The destination is one table whatever the body format
  (`_open_output` does not look at it): `columns`, and in `made` the format of
  its last import. Storage rejects an import that misses a column (`Import`); a
  user may drop the table at any time (`DropTable`), as the repository's README
  asks of one who changes the format. `cells` and `promised` are history: which
  path's value is in which column of the table, and what `body_unmapped`
  promised.
* `Actions`: `caller` is the thread that joins, `pc` the worker or the run;
  `outcome` is the list the worker appends to. `unvisited` and `seen` are the
  stack and the set of `_linked_errors`. An error is its class, status, session
  text, whether it stems from a token, and what it links to
  (`inner_exception`, `__cause__`).
* A time limit is a step that may happen (`DeadlinePasses`,
  `CatchUpTimePasses`); bodies are readable or not, and a body in `Bad` fails
  or succeeds anew at every attempt.

## Runs

Passing runs. `MaxFaults` bounds connection failures, lapses of held locks,
kills, early stops and the like over a whole behaviour; the number of jobs is
not bounded.

| Run | Instance | Shows |
|---|---|---|
| `defer` | 3 messages, one bad, batches of 2, 2 faults, all policies | nothing is deleted that was not imported (`CommittedIsImported`), the state owns only imported deferrals (`StateIsImported`), the guard keeps deferred messages from being dead-lettered (`GuardProtectsDeferred`), and the row implements `Handover` |
| `mixed` | 2 messages in one session, all four modes, 2 faults | the mode changes between runs: every completed or received message is accounted for, losses of `receive_and_delete` need a fault, and a carried deferral stays owned |
| `live` | 2 messages, 3 faults, lost replies, K = 1 | every message is finally exported and deleted, deferrals of failed runs included |
| `loop` | a family of rows: deferring on a partitioned entity with a bad body that is left, stalls and catch-up, 2 faults; limited with newer messages, watermark, deadline; a limit with bodies that are retried; `receive_and_delete` over 2 sessions with policy `fail`, one of them contended, 2 faults; deferring with one interruption | budgets hold, the loop ends past its deadline, and without one by its budgets (`RunEnds`), a silent stop left nothing and a stop at a limit warned, the limit holds, drains write what was deleted, and one interruption leaves no larger locked cluster than K assumes (`ClusterBound`) |
| `peek` | all four kinds of entity, both fetch modes, 3 messages, 2 faults, one session contended | `CursorIsSafe`, `NoRowTwice`, `FullFetchComplete`, `PeekEnds` |
| `commit` | every list of one or two ranges over 4 messages (overlapping, adjacent, empty), two entities, held sessions, up to 2 orphans anywhere among 5 messages, partitions known and unknown, a sub-queue; 1 retry, lost replies, expiry; 1 or 2 runs | only imported messages are deleted and everything below the progress mark is (`OnlyImportedDeleted`, `BelowIsDeleted`), no call exceeds the byte limit, what is not deleted is carried (`RestIsCarried`) and counted once, the saved ranges are exact, no orphan is missed without a warning, the guard holds over pages and retries, and the start of a run ends |
| `flatten` | 5 paths with colliding base and suffixed names, one that clashes with a metadata column, a cap of 3, batches of 2, 3 runs of any mode and body format, failing anywhere, the table dropped or kept | no field overwrites another, over the cap too; a column keeps its path; an import of the format that made the table never misses a column (`ImportFits`), and no state exceeds the cap; a key of `body_unmapped` becomes that column |
| `actions` | each action and a run's start; rows that differ in credentials, source, sessions, sub-queue, mode and prefetch; an error of each class, wrapped token failures, errors linked in a circle, calls that hang | success is real, a rejected token is named as such, the reply is the worker's unless it was late, accepted rows are safe, and every action replies |

Why the bounds are enough: three messages with batches of two make a batch, a
message behind it in the buffer, and a next batch; two faults make a failure
and a failure of its recovery (three in `live`: a lost deferral, a lapse and a
kill); two sessions make a revisit. Two ranges make every way a range can
overlap, touch or follow another; four messages in chunks of three are two
chunks, and a chunk that is split twice; pages of two over five messages put
the K count of two on both sides of a page border. Three flatten runs make a
column that is new, saved, and then used after a failure between. Larger budgets than the configured ones
(`MaxRecoveries`, `MaxEmptyRetries`, `MaxRecycles` at 1 or 2) only repeat.

Runs that end in a counterexample, each a disagreement with a comment or
document of the repository (quoted in PROJECT.json):

| Run | What happens |
|---|---|
| `rest` | stop drains abandon unread messages; with small limits, runs without any fault send a message to the dead-letter sub-queue |
| `loop_recycle` | an unreadable body's fresh connection closes a buffered receiver; the drain check looks past those messages and the run ends idle without a word |
| `loop_revisit` | a session that got a new message is handed out again and ends the run, another one unread, without a word |
| `peek_revisit` | the locks of visited sessions are not renewed; a lapsed one is handed out again and ends the full fetch with sessions unread |

More was met on the way and has no run:

* With `LostReplies = TRUE` in `defer`, `GuardProtectsDeferred` fails:
  `with_transient_retry` repeats a deferred receive whose reply was lost, and
  each repetition counts a delivery. `GuardHolds` of `commit` therefore exempts
  the messages of unanswered calls.
* Without management access the guard threshold comes from the default max
  delivery count of 10 (`entity.py:46`); on an entity with a smaller one the
  recovery can exhaust a message. `GuardHolds` exempts unknown metadata.
* Two interruptions (`maxFaults` 2 in the row `Clustered`) break
  `ClusterBound`: rows written before a settle-time connection failure count as
  progress although nothing was deferred, so a locked cluster can exceed the
  bound derived at `commit.py:294-299`.
* With `ShortPages = TRUE`, `NoRowTwice` fails: incremental fetch forgets the
  processed messages of a re-peeked page even if that page ends earlier than
  the first one did. `CursorIsSafe` fails too: the short re-peeked page resets
  `_outstanding` (`peek.py:313`) while a second unreadable body below `_high`
  still waits, and a deadline then moves the cursor past it. Whether the broker
  ever shortens a page is not known from this repository, so the run and the two
  theorems assume that only the last page is short; `FullFetchComplete` is
  proved without that assumption.
* `max_messages` in `receive_and_delete` with sessions and `stop_at_job_start`:
  every session's watermark drain writes what the SDK had already removed
  (`receiver.py:575-620`), so the overrun grows with the number of sessions.
  `LimitHolds` allows `Prefetch + 1` messages per stop drain (`StopDrains`).
* A flatten row that is switched to text (or back) without dropping the table
  fails at every import, because the table keeps the other format's columns and
  has the same name. The repository's README (line 127) tells users to drop it,
  so `ImportFits` is stated for runs of the format that made the table.
* A `SessionCannotBeLockedError` is neither counted nor delayed
  (`receiver.py:315-318`, `peek.py:247-248`): while another receiver wins every
  accept, only `max_duration_seconds` (3000 by default) ends such a run.
  Without the second conjunct's premise `RunEnds` and `PeekEnds` fail.
* A full fetch misses the sessions that other consumers hold when no more are
  handed out, half-read ones too. The code warns of the former
  (`peek.py:219-224`); `FullFetchComplete` exempts both.
* A catch-up does not happen when the stragglers' locks make the drain check
  report remaining messages: the run ends as `receive_stalled`, with a warning.
* The docstring of `_delete_group` calls the carried part "exactly what is not
  yet deleted"; when the left half of a split chunk was deleted and the right
  half raises, the deleted half is carried too. That is the safe direction
  (`RestIsCarried`, `BelowIsDeleted`), and a later run counts it as already gone.
* A flatten run that fails after `write_always` uploads `body_unmapped` keys
  whose registry is not saved; a later run may give such a name to another path.
  `UnmappedBecomesColumn` is therefore stated for runs whose state was saved.

### Fairness

* `Extractor`: the scheduler starts run after run; a run that is not
  interrupted takes its next step (the process runs); a lock of a closed
  connection lapses (the broker's clock). Faults are never fair, and they are
  bounded, so liveness is stated for what follows the last one.
* `ReceiveLoop`: the run takes its steps and the catch-up clock runs (it is
  compared with `monotonic`). `max_duration_seconds` is not assumed to pass:
  `RunEnds` says that the loop ends once it has, and that without it the budgets
  end the loop, provided that other receivers at last keep still (`others` does
  not change any more): no budget counts the accepts they win. They may hold
  what they hold for ever.
* `PeekPager`: a run takes its steps. The deadline is not assumed here either,
  and `PeekEnds` has the same two parts.
* `Reconcile`: the run takes its steps; lapses and expiries are not fair.
* `Actions`: the clock reaches the deadline and the calling thread runs. Of the
  worker only the walk over linked errors is fair, which makes no call; any
  call may block for ever (`Hangs`).

## Proofs

All theorems hold for every value of the constants that the modules'
assumptions allow: any set of messages, batch size, prefetch, chunk, K, limit,
budget, number of faults, choice of rows, modes and policies. Where a theorem
needs more, its `ASSUME` says so. Each rests on an inductive invariant that TLC
checked on small instances first.

### The row (`ExtractorProofs`, `ExtractorContractProofs`)

* `TypeCorrect`: the inductive invariant `TypeInv` adds that a message that can
  still be delivered has a delivery left (`EntityInv`), without which the
  delivery counts overflow their type, and how the parts of a batch relate.
* `NoLossDeferCommit`, `StateOwnsImported`, `NoLossComplete`,
  `LossAccountedReceiveAndDelete` rest on one invariant, `LossInv`: between jobs
  nothing is left of a job; H5 works only on what the state owns
  (`CommitOwnsWork`); a pending message has a row in the output or was already
  imported (`PendingIsWritten`); only written messages are settled
  (`SettlesWritten`); a receive of `receive_and_delete` has armed the output;
  and the accounting of deleted messages in the form that names the run that
  deleted them. `CommittedStep`, `CompletedStep` and `ReceivedStep` say which
  actions delete a message in each way.
* `FaultFreeRunsDropNothing`: without a fault only unreadable bodies are dropped.
* `GuardIsEnough`, if no reply of a deferred receive is lost
  (`LostReplies = FALSE`; see above for what happens otherwise): a deferred
  message that is recovered was below the threshold when it was locked, and
  each lock is undone once.
* `RowImplementsHandover`, in the configurations that promise at-least-once
  (`AtLeastOnce`: no `receive_and_delete`, and `complete` only where armed
  outputs are uploaded): initial states map to initial states and every step to
  a step of `Handover` or a stutter. With `HandoverLosesNothing` it gives
  `RowLosesNothing`: every message is at the entity, in the output or imported.
* `NoOwnedDeferralForgotten` follows a message of the state through H5, and
  shows that no lock is left on it that would make H5 skip it (`OwnedInv`).

### The receive loop (`ReceiveLoopProofs`)

* Every error of the SDK ends in `Caught`; `CaughtTyped` and `CaughtMark` say once
  for all actions what it leaves.
* `LoopIsTyped`; `DeletedIsAlwaysWritten` from `LoopInv`, which ties buffer,
  batch and locks to the position of the loop; `LimitIsKept` from `LimitInv`,
  which counts what is taken, in hand and drained.
* `NoRunEndsSilentlyPartial` assumes `OrderedReads`: a row has sessions (the
  property does not speak of them), or is partitioned without a stop at the job
  start (documented as approximate there), or is plain and no unreadable body
  is abandoned. `loop_recycle` shows why: an abandoned body comes back after
  newer messages and the drain check looks past it. The invariant is that
  everything below the highest processed number is done (`InOrder`), and that a
  silent stop reason was reached with nothing left (`Silence`).
* `OneInterruptionLeavesOneCluster` gives `ClusterBound` wherever the scan applies
  its K rule, under the conditions `OneInterruption` names: a plain row, at most
  one interruption, no unreadable bodies. The conditions are needed, and the
  design document (section 6.4, step 4) states the last two: with two
  interruptions TLC finds a larger cluster (above), and a message that is left
  keeps its lock without any interruption. The invariant (`Clustering`) says that
  there is a set `C` of at most a batch and a buffer, empty before the
  interruption, such that apart from `C` the run holds a lock exactly of its
  batch and buffer, and an active message comes after everything deferred,
  everything in `C` and what the run took further on. A lapse of a lock in `C`
  changes nothing of it: what is delivered again was in `C` already.

### Peek (`PeekPagerProofs`)

* `PagerIsTyped`; `FullFetchIsComplete` from `PagerInv`: everything before the
  next page, and everything of the sessions visited and still held, is exported,
  and what the run remembers is exported. A session lost half-read is no longer
  held, so the invariant asks nothing of it; if it is free again, it is handed
  out, and `no_more_sessions` is not reached.
* `CursorNeverSkips` and `RowsAreWrittenOnce`, if only a last page is short
  (`~ShortPages`). The invariant is about what is peeked *again*, the messages
  from the next page up to the highest mark (`IncrementalInv`): they fit in one
  page, their unprocessed part fits under the limit and is older than the job
  start, and those with a row are remembered. So the next page takes all of
  them, and forgetting them afterwards is safe.

### The start of a run (`ReconcileProofs`)

The range functions first, for any lists of ranges, as a stored state edited by
hand may hold them:

* `MergedCovers`: `merge_ranges` covers what its input covers and is canonical
  (sorted, no empty range, a gap between any two). The loop is a recursive
  function over the sorted ranges; the invariant of the loop is proved for its
  least counterexample. `ToRangesCovers`, `TailCovers` and `IterLists` say the
  same of the other three, `BatchedCuts` that the chunks cut an ascending list
  into pieces with nothing missing and nothing twice, `QueueHalved` that a
  bisected call asks for the same messages as the whole one.

Then one inductive invariant, `IInv`, for the commit and the scan together. The
properties need each other, so it is proved as a whole:

* `QueueInv`: the calls still to make ask for messages of the first chunk that are
  not answered for yet, each once. Without it a bisected call could be answered
  twice.
* `ChunkInv`: the chunks are exactly what the stored ranges cover from `next_seq`
  on, below it nothing is deferred, and a message of the first chunk is asked for
  or no longer deferred. It gives `ProgressIsDeleted`, and with `StateInv` (the
  stored ranges cover imported messages only) `ImportedBeforeDeleted`.
* `LockInv`: no message that the state owns is locked. A message that is not
  found is therefore gone, not merely held, and counting it as already gone
  forgets nothing. It holds because the scan receives only what the state does
  not own (`RecoveredIsNotStored`), which needs the next two.
* `DoneInv`: what is still deferred of the groups the commit is done with is
  carried, or reported as stale; it gives `NothingIsForgotten`.
* `ScanInv`: what the scan recovers it has shown and not drafted, so nothing is
  recovered twice, and the configured entity has no sessions, so nothing of it
  was carried.
* `GuardInv`: a message has a delivery left, and two while it is still to be
  recovered (`ToRecover`), unless a reply was lost or the maximum is not known;
  it gives `NoneIsExhausted`.
* `SizeInv` and `LengthInv`: `max_body_bytes` bounds every body of a stored,
  carried or drafted group, and no chunk and no call is longer than
  `CommitChunkSize` of it. `ChunkSizeFits` is the arithmetic of
  `commit_chunk_size`; together they give `CallsFit`.
* `OrphanInv`: every deferral in front of the next page is drafted, guarded,
  found missing, unreadable or being recovered, and `consecutive` is the size of
  a run of qualifying messages directly in front of that page; once the K rule
  has stopped the scan, such a run lies in front of everything it left. It gives
  `ScanIsComplete` (`NoOrphanMissed`), over page borders and failed calls.
* `AccountInv`: the four counters together are the number of messages the commit
  is done with. `CountIsSize` and `CountOfIsSize` say that `count_ranges` and
  `_count` count what the ranges cover. It gives `SummaryAddsUp` (`CountsAddUp`).

`SavedExactly` is an action property: only `JobSucceeds` changes the stored
state, and `BuiltCovers` says what `PendingSetBuilder.build` covers.

The assumptions are `CommitAssumption` and `RowsAssumption`: finitely many
messages, a stored group covers messages of its own and its `max_body_bytes`
bounds their bodies, the state lists the groups of an entity together, a row without sessions reads
an entity without sessions, and no message starts at its maximum delivery count.

### Flattening (`FlattenRegistryProofs`)

* `NamesNeverClash`, `ColumnsAreStable`, `ImportsAlwaysFit`, `UnmappedIsKept`.
  Registration only ever extends a registry whose names are apart
  (`RegistryOK`, `Grows`); there is always a free suffix because there are more
  suffix numbers than names in use; registering a body is an induction over its
  fields. The registry follows the saved one, and a table made by a flatten run has
  only columns that were saved (`TableIsMade`, in `FlattenInv`).

### Sync actions (`ActionsProofs`)

* `ResultsAreHandedBack` from the invariant of the two threads, `SuccessMeansRead`,
  `AcceptedRowsAreSafe` from what the validators leave of a row, and
  `TokenFailuresAreNamed`: the walk keeps a rejected token reachable from what
  is unvisited over errors not seen (`WalkInv`), in any graph of
  `inner_exception` and `__cause__` links.

Induction over numbers is done by least counterexample (`LeastNatural`), which
needs no operator parameter; so the recursive functions `RegisterAll`,
`TokenFailuresWithin` and the loops of `PendingRanges` are covered for every
input. That such a function has values at all is `LoopHasValues`.

Only model-checked: liveness (`EventuallyCommitted`, `RunEnds`, `PeekEnds`,
`ReconcileEnds`, `ActionEnds`), which is beyond this prover.

## Not modelled

Cell formatting and the metadata columns, charsets and the rendering of JSON
values, redaction, log texts and the statistics no decision reads, the SDK's
transport, the numeric ranges of single settings (pydantic), the preview's
rendering, the size warning of the state. A peek cursor stored for another
entity (which `_start` ignores) is not modelled; a pending set stored for
another entity is. A reset of the state by the user is not modelled in
`FlattenRegistry` (the table would have to be dropped with it).

`Reconcile` is not shown to refine the commit phase of `Extractor`: its state
has the range encoding and several entities, which `Extractor` abstracts.

## Plan

Every safety property of the passing runs has a theorem, most under no condition
on the row, the others under the conditions stated with each. Left: weaker
conditions for `ClusterBound` (unreadable bodies under policy `dead_letter` or
`fail`, whose recycled connections leave locks behind too) and a refinement from
`Reconcile` to the commit phase of `Extractor`.
