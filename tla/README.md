# A TLA+ model of sfkg-timeseries-core

`src/sfkg-timeseries-core` is a gRPC server that ingests time series. Every
request is written to TDengine ("cold") and to an in-memory window per sequence
("hot"); after the hot update derived series are refreshed and constraints are
checked, and violations are sent to another service. This directory models the
parts of it in which order, concurrency, caching and partial failure matter.

File names below are relative to `src/sfkg-timeseries-core`. `PROJECT.json`
maps each definition to the lines it stands for, and lists runs, mutants,
hazards and findings.

## 1. The system

| part | state | operations | talks to |
|---|---|---|---|
| `ingestData` and `processHotIngest` (`src/grpc/timeseries_core_grpc_service.cpp`) | `constraint_states_` per project and rule, under `constraint_state_mutex_` | ingest; hot processing: window, rules, derived refresh, grouped checks, folding, report | all parts below |
| `syncConstraints`, `syncWindowConfig`, `syncDerivedSeriesConfigs` (same file) | none | replace configurations; erase states, resize and prune, refresh everything | registry, window, derived |
| `IngestTaskExecutor` | one queue per cold writer, a hot queue, routing table, tail of every sequence, `pending_tasks_`; per task `remaining_lanes` and `result` | `trySubmit`, `coldWorkerLoop`, `hotWorkerLoop`, `completeTask`, destructor | callbacks `cold_write`, `hot_update`; a promise per task |
| `ConstraintResultNotificationExecutor`, `ConstraintResultReceiverClient` | bounded queue, one worker; attempt, elapsed time | `tryEnqueue`, `workerLoop`, retries, destructor | a remote receiver |
| `WindowService` | per sequence: vector, late points, lazy left edge, latest time, cached statistics; per project: watermark, size, generation | update, eviction, resize, replacement and patch by derived series, queries | sequence executor (thread pool) |
| `DerivedSeriesService` | `last_published_generation_`, `full_refresh_mutex_`, `publish_mutex_` | `refresh` by an update report or in full | registry, window |
| `RuntimeConfigRegistry`, `IngestService` | configurations per project, swapped under a lock | upsert, lookup; resolution of identifiers | each other |
| `StorageService`, `TaosClient` | write connections with a mutex each, a query connection with its own, the cache of project schemas | `ensureSchema`, `ensureProjectSchema`, `insertRaw`, `insertRawOnConnection`, `queryRaw`, `queryHistoryOverview`, `dropDatabaseForTesting` | TDengine |
| `HistoryQueryService` | none | refuses unknown sequences, chooses the kinds of the projection | registry, `TaosClient` |
| `AlignmentService`, `ConstraintCheckEngine` | none | the values of several sequences at common times, in full or for a range; the violations of rules among points or samples, in full or for a range | called by hot processing and query RPCs |
| `StatisticsService`, `DataValidation`, conversion | none | stateless functions | |

One ingest, in order: the RPC resolves identifiers and calls `trySubmit`, which
routes the shards and admits or rejects the task as a whole. Cold writers and
one hot worker process its lanes in parallel; the last lane keeps the promise.
The RPC answers as soon as the hot lane is done, with the cold shards still queued.
The hot lane updates the windows, starts the derived refresh asynchronously,
snapshots the rules, selects and checks them in groups, each of which queries
the window for itself, folds the results into the cached states and enqueues a
notification. Ingests that share a sequence do not overlap (that is
`HotInOrder`); all others do, and so do the `sync*` RPCs.

What is hard, and what makes each part correct:

* **Executor.** Order per sequence with many workers, atomic admission to many
  queues, lanes that finish in any order, capacity, shutdown, no deadlock of
  workers that wait for their predecessors.
* **Notifications.** Late and duplicated requests, a budget shared by attempts
  and sleeps, order through retries, drain at shutdown.
* **Windows.** A representation in several pieces must be a map from times to
  values; cached statistics must be invalidated in every rare branch; the
  report (`incremental_safe`, range, evicted) must never claim too little,
  since caches elsewhere depend on it; concurrent updates prune with different
  window starts; the watermark must be the newest time, as queries of the default
  range end there.
* **Derived series.** A refresh of a range must give what a rebuild would, and
  refreshes computed in parallel must be published in order.
* **Constraint states.** A cache cut into ranges by incremental checks, folded
  in any order by concurrent ingests, and subject to resizing, resynchronizing
  and failing checks.
* **Registry.** Requests that are refused at a late item must leave nothing
  behind, two indexes must agree while keys move, and what a point was resolved
  with must not disappear under it.
* **Answer of an ingest.** It is given after the window and before the store,
  whatever threw where; store and window must end with the same last value.
* **TDengine client.** Locks inside locks on every call, a cache of what exists
  in another process, batches that are stored in part, reads that start over.
* **Alignment and checking of a range.** The incremental paths look at a few
  points and buckets; they must give what the full ones give, with gaps, at edges
  and for terms that reach ahead.

## 2. Modules

| module | models |
|---|---|
| `IngestExecutor` | `ingest_task_executor.cpp`, every operation |
| `IngestPromise` | the abstract specification of the executor |
| `IngestExecutorProofs` | theorems about `IngestExecutor`: types, orders, lanes, slots, results, and that it implements `IngestPromise`; and about `IngestRpc` |
| `IngestRpc` | `ingestData`: `IngestExecutor` with its callbacks, windows and store, and the answer |
| `HistoryRows` | tables and rows in TDengine, what statements write and select, as operators |
| `TaosStore` | `TaosClient`, `StorageService`, `HistoryQueryService`: the calls, their locks and failures, on `HistoryRows` |
| `TaosStoreProofs` | theorems about `TaosStore` |
| `NotificationDelivery` | notification executor, client, network and receiver |
| `NotificationDeliveryProofs` | theorems about `NotificationDelivery` |
| `SequenceWindow` | the data structure of one sequence, as operators on records |
| `WindowService` | the service over several sequences and callers, on `SequenceWindow` |
| `WindowServiceProofs` | theorems about `WindowService`, and lemmas about the operators of `SequenceWindow` |
| `DerivedRefresh` | updates, refreshes, configuration changes |
| `DerivedRefreshProofs` | theorems about `DerivedRefresh` |
| `ConstraintReport` | updates, rules, checks, cached states, reports |
| `ConstraintReportProofs` | theorems about `ConstraintReport` |
| `ConfigRegistry` | configuration snapshots, their upserts, resolution of points |
| `ConfigRegistryProofs` | theorems about `ConfigRegistry` |
| `Alignment` | `AlignmentService`, as operators on windows |
| `AlignedCheck` | update, query, alignment and check of one rule, on `Alignment` |
| `AlignedCheckProofs` | theorems about `AlignedCheck`, and lemmas about the operators of `Alignment` |
| `MC...` | constants of the instances that TLC checks |

### IngestExecutor

One action per critical section or callback. `Submit`, `Route`, `Reject` and
`Admit` are `trySubmit`: routing (`WriterForSequence`, round robin over a
persistent table) happens under its own lock before admission, so another
submission may be routed or admitted in between. `Admit` fills all queues and
records, for each sequence, the task admitted before it (`predecessors`, the
futures taken from `sequence_hot_tails_`) in one critical section. `TakeCold`, `FinishCold`
and `TakeHot`, `StartHot`, `FinishHot` are the loops; `FinishHot` keeps the
order promise that successors wait for (`ordered`), `CompleteHot` stores the
hot result and keeps the promise of the early answer (`announced`). `CountLane`,
`Publish` and `Release` are `completeTask`: the counter, the promise and the
slot are three steps. `Stop` and `Exit` are the destructor; `Joined` is the
point where it returns. `ticket` is a history variable: the order of admission.
The callbacks are external: `hot_update` ends at some time, and `cold_write`
returns any code with a count that fits it (`ColdOutcomes`: Ok stores all of a
shard, Failed none, Partial some). Only successes are counted; the failures are
what is left of the batch.
Thrown exceptions end in the same state as a failure result and are not a
separate action.

`IngestPromise` has no lanes, queues or workers: a request is accepted or
refused as a whole, at most `Capacity` accepted ones are unfinished, windows
and stores are updated in order of acceptance per sequence, and a request
finishes after all of that. The refinement mapping is at the end of `IngestExecutor`;
`ExecutorImplementsPromise` in `IngestExecutorProofs` is its proof.

### IngestRpc

`IngestExecutor` with the callbacks that `ingestData` gives it, for requests that
resolved at least in part (`Unresolved` are those with points nobody knows). `UpdateHot` is the end of
`hot_update`: an outcome of `processHotIngest` (`PossibleOutcomes`: whether the
windows have been updated, and what is reported of windows, derived refresh and
notification; an exception reports all three as failed wherever it was thrown). `StoreShard` is the end of `cold_write`: a shard
that fails may have been stored in part. `window` and `store` have the task whose
point they hold per sequence, so that who was last can be compared. `Answer` is
`combineIngestResults` and `withConstraintNotificationFailure`: a value per state,
no action of its own, as nobody waits for the RPC. Every other step is the executor's.
`AnswerHolds` says what a caller may conclude from its answer; the store has
no part in that, since the shards are only queued. `StoreFollowsWindow` is what
remains: the last accepted request has won in both halves.

Not in it: counts and messages, malformed requests, an empty window update,
several times in a sequence (`WindowService`).

### HistoryRows, TaosStore

`HistoryRows` has the data: a store of child tables (super table, sequence, kind
as a tag written once) and rows, `Written` for a batch, the rows a query yields in any order
TDengine may return them (`Fetches`), their decoding, the order of the answer
(`Ordered`: rows that arrived in time order only have runs of equal times
sorted) and overviews.

`TaosStore` has the calls. An action is a critical section, or its part up to the
next lock. `EnsureDatabase` and one `SelectDatabase` per connection
are `ensureSchema`, which keeps the first connection locked
throughout; `LookUpProject` and `CreateStable` are the rest of
`ensureProjectSchema` under the lock of the schema cache. `passes` is two for
`insertRaw`, which ensures the schema again in `insertRawOnConnection`. `Write`, `Query` with `Retry`
(the typed projection that met a row of another kind starts over; the query
connection stays locked), `QueryOverview` and `AnswerEmpty` are the statements
themselves. `CloseConnection`, `DropDatabase`, `ClearCache` are
`dropDatabaseForTesting`. Any statement may be refused (`Refused`); a refused write may
have stored a part. A code stands for the cause of the failure: `Unavailable`
for a connection that is not there, `Missing` for a database or super table that is not there, `Refused`,
`Incomplete` and so on. `before` and `seen` are history variables: the calls that had
ended when a call began, and the answers a read could have had since.

External, as the code uses it: a statement is atomic; a write creates missing
child tables and leaves the tags of others alone, and a row with an existing
table and time is replaced, and may or may not count as affected. Left out: errors of environment variables, hash
collisions of table names, widths of strings, encodings, timing output.

### NotificationDelivery

Time is a count that attempts and sleeps advance (`elapsed`); an attempt takes
up to `Deadline` and a sleep may oversleep by `Oversleep`. A request is
`inFlight` until it is handled or lost, also after the client gave up on it, so
a retry can meet its late predecessor. `Handle` and `Lose` are external.
`rank` is a history variable: the order of enqueueing.

### SequenceWindow, WindowService

`SequenceWindow` keeps the vector with `active_begin`, the `late_points` map,
`latest_time` and the statistics with their two monotone deques, and mirrors
append, late insertion, flush, compaction, pruning, replacement and patch.
`Live` is the map that a query sees. A search (`std::lower_bound`, `std::upper_bound`) is
the number of points before a time, and a sort of times gives the element at each place
by the number of smaller ones, so that both can be reasoned about without recursion. The loops that
append to the statistics and take out of them (`AppendStatistics`, `RemoveStatistics`) are recursive
functions over the places of their vector. In `WindowService` an update takes
three kinds of steps, because the index lock is released in between: `Begin`
(watermark, generation, window start), one `Insert` per sequence, one
`Prune` per sequence, `Return`. The watermark of a project's first update is the time
of the last point of the request, whatever came before it (`MarkAfter`, lines 734-742): each point
overwrites it as long as the project had none before the request. Batches are sequences here, so that this
order is there; the other modules have batches as maps and take any of their times (`Marks`). Derived replacement prunes everything after it; a
resize prunes at once. Thresholds of flush and compaction are constants, so
that small instances reach them. Values are integers or `NonNumeric`.

Not in it: `buildTimeWindow` from history, the limited and ranged variants of
the query, rounding in `statistics_sum`, the grouping of sequences into pool
tasks (`Insert` of different sequences in any order covers it), the sequence
mutexes (a step is one critical section of them).

### DerivedRefresh

A window update is one step here. A refresh reads the configurations and the
bounded query (`ReadRange`), reads the default query for what has no range
(`ReadFull`), and publishes series by series under `publish_mutex_`, in any order
(`Skip`, `Patch`, `Replace`). `Sync` changes a configuration and refreshes in
full under `full_refresh_mutex_`. A derived point is represented by the
neighbours it was interpolated from, so that a wrong neighbour is a wrong
point, whatever the formula. `published`, `patched` and `overlapped` (a caller has
begun while another was refreshing) are history variables; `DerivedSound` and
`WholeWhenLevel` are claimed while refreshes have not overlapped, as section 5
shows what happens when they do, and proved for a service of one project (section 4).
`ahead` is another: at which times a source got a point beyond the watermark, in a first
update that did not end with its newest point. The query of the default range (`Queried`) ends at
the watermark and does not see them.
Abstracted: the code reads the configurations shortly before its query, the
model reads both in one step.

### ConstraintReport

`Update`, `ReadRules`, `SelectRules`, one `CheckGroup` per group in any order,
`Apply` or `Fail`, `Return`. Rules bound one sequence from above; a clause is a rule or an OR group. A
violation is the time of a point above the limit. A value that is no number
fails its group, and one failed group makes the ingest drop all results
(`Fail`). `intact` is a history variable: no check has failed, no state has
been erased and the window has not been resized, the three things that are
known to leave the states behind (sections 3 and 5). `mode` is another: whether ingests
have overlapped (`overlapped`) or a rule or size has changed under way
(`changed`); `ReportExact` and `FullCheckRestores` are about ingests `alone`. `ahead` is as in `DerivedRefresh`: a full
check ends at the watermark (`Seen`), so violations beyond it are known only as long as no full check
has dropped them, and `Due` is what remains to be claimed. `Sync` and `EraseStates` are the two steps of `syncConstraints`.
`Busy` expresses that ingests sharing a sequence exclude each other, which
`IngestExecutor` establishes (`TakeHot`, `StartHot`: the waiting for predecessors). The full check leaves out the first instant of
the window, the incremental one includes it: `Must` and `May` are the violations without and with it.

Not in it: rules over several sequences and sample offsets (`AlignedCheck`),
aggregate rules, disabled rules, the derived refresh that runs beside the check.

### ConfigRegistry

An upsert holds the exclusive lock throughout, so `Begin`, `TakeItem`,
`RefuseItem` and `Publish` are its steps on a private `draft`, and readers,
which need the shared lock, move only while `writer` is free. `TakeItem` of an
instance moves its key in both indexes; an item is refused if its id has
occurred in the request, if another instance has its key, or if it refers to
sequences that its project does not have. `Receive`, `Resolve`, `Find`, `Match`, `Deliver`
are `ingestAndResolveData` for one point: `resolveSequenceId` and
`findInstance` take the lock separately, and an upsert may be published in
between. `agreed` is a history variable for `AcceptedByOne` (section 5).

Not in it: the `replace...` operations, which no RPC reaches, enabled flags,
display names and units, bounds and formulas, the result code of a batch in which some
points were refused, and instances without a data type, which accept every value.

### Alignment, AlignedCheck

`Alignment` translates `alignWindowData` without configuration (`Aligned`) and
for a range (`Ranged`). A window has a start, an end and the points of each
sequence; the interval is the least distance of two points of one sequence
(`Interval`); each bucket of a sequence gets an aggregated value by the kind of
the sequence, and empty buckets are filled from neighbours (`Filled`). `Ranged`
looks at the buckets of the range, those of its prefix and one on each side
(`Target`, `Local`), and falls back to the whole window when a boundary bucket could
not be filled from these (`LacksContext`). The result is a record, `Sampled` or `Refused`
(InvalidArgument). A sample lacks a value as `Missing`, and as `Failed` for want of a number,
which refuses the whole. Values of the instances are such that
averages and interpolations are whole, so division loses nothing.

`AlignedCheck` follows one rule, chosen at the start, through a stream of
ingests: `Ingest` is the update of the window with the report's range,
`Query` the group's query with its context, `Align` or `TakePoints` and `Check`
are `runContinuousConstraintCheck`, `Skip` its early results. The queried window
spans the range only; points of the context lie outside of it, and
alignment drops them. `Request` and `Answer` are a caller of the library that aligns
a range of a window of its own. What the service holds has no part in that, so the guard
`watermark = NoTime` of `Request` only keeps the states few.

Not in it: explicit intervals and strategies, lags of relations, unsorted
windows, parallel workers, aggregate rules, groups of several rules, late points as the
sequence window stores them (`SequenceWindow` has that).

## 3. Runs

Deadlock is checked in every run; where the system comes to rest, a `Terminated`
action with an explicit guard says when it may. Bounds were chosen so that
every action of the module fires in some passing run of that module, and so
that for every property a plausible bug is found (section 6).

| run | instance | shows |
|---|---|---|
| `ingest_lanes` | 3 requests for one or both of 2 sequences, 2 writers, 2 hot workers, capacity 2, shutdown; hot updates that throw before or after they have changed the windows | `HotInOrder`, `ColdInOrder`, `SlotsExact`, `AnswerHolds`, `StoreFollowsWindow` |
| `ingest_completion` | 2 tasks of the same 2 sequences, 2 writers, cold shards that succeed or fail, fair | `CompletionWhole`, `PromisedResultFinal`, `ImplementsPromise`, `AdmittedCompletes`, `StopTerminates` |
| `history_store` | 3 calls of 10 kinds, 2 projects, 2 write connections and a query connection that may be missing, 1 refused statement | `LocksHeld`, `NoDeadlock`, `SchemaFirst`, `AcknowledgedStored`, `AnswerIsSnapshot` |
| `notification_delivery` | 2 events, both queued at once, 3 attempts, a budget that they can exhaust, fair | `VerdictIsReal`, `NotOvertaken`, `BudgetKept`, `QueuedSettles`, `StopEnds` |
| `window_sequence` | 1 sequence, 4 times, 2 values and a non-number, 2 sizes, thresholds 2 | `StatisticsExact`, `WindowIsMap`, `SafeIsSuffix` |
| `window_callers` | 2 sequences, 2 callers | `ReportCovers` |
| `derived_refresh` | 2 callers, sources sampled apart, 1 sync, 4 updates, 2 once refreshes overlap | `DerivedSound`, `WholeWhenLevel`, `PatchesInOrder` |
| `constraint_report` | 2 callers, 4 rules (two of them an OR clause), up to 4 ingests alone, 3 overlapped, 2 after a change; values that are no numbers, a sync, resizes | `ReportExact`, `FullCheckRestores`, `RangesAddUp`, `NothingOutlives` |
| `config_registry` | 2 projects, 2 sequences, 2 keys, 2 types, requests of up to 2 items, 1 caller | `IndexExact`, `ReferencesKnown`, `ResolvedRegistered`, `PublishedWhole` |
| `aligned_check` | 2 rules; ingests of 1 or 2 sequences at 4 times with 2 values and a non-number, window size 3; windows of 3 sequences over 6 times, ranges of up to 2 times, prefixes of up to 1 | `OffsetsFound`, `SimultaneousExact`, `RangedExact` |

`TypeOK` is among the properties of `ingest_lanes` and `config_registry`; that of
`WindowService` is checked by `MCWindowSerial` and proved, those of `TaosStore` and `NotificationDelivery` are
proved, and the others hold on the instances of their module's run. The other two runs are in section 5.

Larger or different instances that pass as well, beside the listed runs (`tlc -config <cfg> <module>`):

| cfg | module | instance |
|---|---|---|
| `MCStoreReturns` | `MCTaosStore` | `CallsReturn`, a liveness property: under fair threads every call of `TaosClient` returns; also with a writer index outside the pool |
| `MCWindowSerial` | `MCWindowService` | see section 5 |

What the less obvious ones say. `WholeWhenLevel` and `DerivedSound` together:
an incremental refresh leaves nothing wrong behind, and what it leaves out or
takes away while one source is ahead of another (section 5) is back as soon as
the sources have points at the same times, as a late point forces a rebuild and a new one
a patch. Excepted are times that every source got ahead of the watermark (`MCDerivedAhead`). `RangesAddUp` and `NothingOutlives`: results of two ingests that
checked different ranges, folded in either order, give states that know all
violations, but for points that came ahead of the watermark (`MCConstraintAhead`), and only those; both are claimed only while the states are `intact`.
`FullCheckRestores` is what remains true after a failure: exact up to the watermark. `PublishedWhole`: a
request that is not refused is stored whole, although a later item may move keys.
`SimultaneousExact`: for sequences sampled together, values filled into buckets
between their points make no violation and hide none. `RangedExact`: fast path or
fallback, a sample of a range is the sample of the full alignment, and none of a
range that begins at the edge of a bucket is left out, provided the full one has samples: a window of no
time has an empty full alignment, and a range of it is refused. `AnswerHolds`: "window Ok" or
"all Ok" means that the points are in the windows, or replaced by later ones, although the
answer is given while other lanes of the task run and other requests arrive.
`StoreFollowsWindow` needs routing, the order of both queues and the merged code to be
right at once. `SchemaFirst`: a call fails for want of a connection or because
TDengine said so, never because another call dropped or has not yet created what it
addresses. `AcknowledgedStored`: a stored batch can only be overwritten by calls that were not
over when it was written (claimed while nobody drops the database). `AnswerIsSnapshot`: the answer of a read is exactly
what the store held at one moment of the call, in the requested order, also after the typed
projection was abandoned; an overview counts these points.

**Why the bounds are enough.** Three tasks are the least in which a task waits
for two predecessors through different sequences and another overtakes; two hot
workers suffice for two batches of a sequence to meet; capacity 2 of 3 makes
rejection happen. A window of size 2 over 4 times has points inside, at and
behind its left edge at once; flush and compaction thresholds of 2 are reached
with one point to spare. The window instance has no bound on the number of
steps: its state space is finite. `MaxGeneration = 1` makes the saturation of the generation happen.
Four updates make a violation or a derived point appear, be moved by a
correction, and be evicted; of `ConstraintReport`, two or three are enough for what
overlapping and changes add to that (`MaxUpdates` is a function of `mode`). Requests of two items
can move a key from one instance to another, occur twice and be refused in the
middle; `config_registry` has no bound on their number: the state space is finite.
The batches of `derived_refresh` and `constraint_report` have points of two
sequences at different times, in either order, so that the first update can leave a point ahead of the watermark;
`aligned_check` takes every set of times of the first sequence and up to two times of
the others, so that a boundary bucket and both of its neighbours can be empty, with
the next point out of the local window's reach, at either end; the value of each
point is its own, so that a wrong neighbour shows. It has no bound on ingests either. Two events in a queue of two are enough for order and for a drain
of several; that a full queue refuses is a plain guard and not reached there.
`InFlightBound` bounds how many requests are under way at once; every
other bound is named in the module (`MaxUpdates`, `MaxOverlapped`, `MaxSyncs`, `Capacity`).
`history_store`: of three calls one can create the super table while a second selects
databases and a third repeats its query, the longest chain of locks there is; two connections and the query
connection are the least in which the first is held while others are taken;
`MaxRefusals` is one, as each refusal ends its call. Its reads span both sequences in
the order opposite to their names, with kinds that are registered wrongly, so that the fallback and both ways of sorting
happen. In `ingest_lanes` the batches of both sequences have the outcomes that throw; all
combinations of results are covered by the proofs of section 4 only.
Symmetry of tasks, callers and workers is used in safety runs only; their identity is
never compared with an order. Sequences of `IngestExecutor` are not symmetric,
as routing sorts them.

**Fairness.** `FairSpec` of `IngestExecutor` has weak fairness of each worker's
steps and of the end of a submission that has been made: threads are scheduled,
and `cold_write` and `hot_update` return. No fairness is assumed of clients or of
`Stop`. `FairSpec` of `NotificationDelivery` has weak fairness of the worker
and of the disjunction of answering and losing: nothing is said of which
happens, so the receiver may be down for ever. `FairSpec` of `TaosStore` has weak
fairness of each call in progress: `std::mutex` makes no promise of order, but calls
are finite in number, so a lock that is released again and again is obtained.

## 4. Proofs

`IngestExecutorProofs` (checked by TLAPS) assumes `ExecutorAssumption`: tasks,
hot workers and sequences are finite sets, at least one writer, positive
capacity, workers distinct from writers. It does not bound their number.

* `TypeCorrect`: `Spec => []TypeOK`. Inductive as `TypeOK` together with
  "a worker that is not idle has a task" (`WorkersOK`).
* `HotOrder`: `Spec => []HotInOrder`. `HotInOrder` is not inductive: that
  nobody entered `hot_update` early says nothing of what the next admission or
  start may do. The inductive invariant `HotInv` adds four parts. `OnlyAdmitted`: queues and workers carry admitted
  tasks only. `TicketsCount`: tickets number the admissions. `TailsLast`: the
  tail of a sequence is its last admitted task, so an admission that takes it
  as a predecessor misses none. `ChainsComplete`: for every earlier task `t` of
  a sequence of `u`, some predecessor of `u` on that sequence is `t` or
  comes after `t`. When `u` starts, its predecessors are `ordered`; each of
  them had started, so by `HotInOrder` everything before it was ordered too,
  and hence `t` is. The proof has one lemma for each action that
  disturbs a conjunct (`AdmitKeepsHotInv`, `StartKeepsHotInv`), one for the worker
  steps that only take or finish (`WorkerStepKeepsHotInv`), and composes them in `StepKeepsHotInv`.
* `ColdWritesInOrder`: `Spec => []ColdInOrder`, by `LaneInv`. A lane is a writer or the hot lane.
  A sequence keeps its writer (`RoutesFixed`), a queue is sorted by ticket and holds
  tasks with work in the lane (`QueuesSorted`), what a worker has in hand is ahead of
  everything that still waits and no two workers have the same (`HandsApart`), and
  what has left a cold queue is ahead of what is written or waits (`FrontFirst`).
* `SlotsAreExact`: `Spec => []SlotsExact`, by `CountInv`: `remaining` of a task is the number of
  its lanes that are queued or in hand (`LanesCounted`, a cardinality that each step
  changes by at most one), and one worker at most closes a task (`OneFinisher`). That
  no slot leaks follows, as a task without an open lane has been closed.

The rest of the module is about results. `ResultInv`: an admitted task whose hot lane is no longer
open has applied its windows and has its hot result, and the storage result
accounts for exactly the sequences that went through the store.

* `CompletionsAreWhole`: `Spec => []CompletionWhole`: once the last lane is counted, no
  sequence of the task is left to store, hence none in the sum.
* `PromisedResultIsFinal`: `Spec => PromisedResultFinal`, an action property: only a worker with
  a lane of the task in hand writes its result, and a completed task has none.
* `ExecutorImplementsPromise`: `Spec => ImplementsPromise`. `Promise!Init` is implied by
  `Init`, and under `PromiseInv` (all invariants above) there is a lemma for each
  action: `Submit` is `Ask`, `Reject` and `Admit` decide, `FinishCold` stores
  the batch of one lane, `FinishHot` applies, `Publish` finishes, `Release` frees the
  slot, `Stop` closes, and every other step stutters. `IngestPromise` states no
  fairness; that an accepted request ends is a property that TLC checks.

The last part of the module, about `IngestRpc`, rests on all this by `RpcRunsExecutor` (`RpcSpec => Spec`): the callbacks add
variables and restrict outcomes, and take no step away from the order of the executor's. `RpcInv`
says that a window has the point of an applied batch and that every applied
batch has reached its windows, itself or by a later one (`WindowFollows`), the same of the
store and of what was stored well (`StoreHolds`), and that tickets are
distinct. `AnswersHold` and `StoreAndWindowAgree` are
`AnswerHolds` and `StoreFollowsWindow` for any mix of outcomes; the second needs
the hot order and the cold order together: they meet in the request that was accepted last.

`NotificationDeliveryProofs` assumes `DeliveryAssumption`: events are finitely many,
delays are natural numbers, budget, deadline and capacity are positive. Queue capacity and number of attempts are any.

* `DeliveryTypeOK`, `VerdictsAreReal`, `BudgetIsKept`, `EventsNotOvertaken` by `DeliveryInv`:
  an answer that the worker may read is one the receiver gave to the attempt under way
  (`AnswerOK`), an attempt begins inside of the budget (`ClockOK`), only the event in hand and
  settled ones were ever on the network (`NetworkOK`), and the events that are not
  settled are the one in hand and behind it the queue in order of `rank`
  (`LineOK`). The last is what keeps a late request of an earlier event from being taken for a later one's.

`ConfigRegistryProofs` assumes `RegistryAssumption` only: requests and points are
of their types and the three null values are no members of the sets they stand
beside. Requests may have any number of items.

* `RegistryTypeCorrect`, `RegistryIndexExact`, `RegistryReferencesKnown`,
  `RegistryResolved`. Neither is inductive over what readers see, as `Publish` puts the
  draft in its place: the invariant `RegistryInv` says `Inverse` and `Known`
  of the draft as well, after each item, and that the draft has every
  registration that `config` has (`Kept`), for what a caller has resolved must
  survive. `Inverse` of the draft needs that a key is free or the instance's
  own once its old key is removed, the test in `InstanceAllowed`.

* `RegistryPublishesWhole`: `Spec => PublishedWhole`, an action property: every item of a request that has been
  taken is in the draft, whatever later items moved, and only the draft is published.

`TaosStoreProofs` assumes `StoreAssumption`: there is at least one write connection,
`NoCaller` is no call, and the constructor opens connections of the pool; and `BatchAssumption`:
a batch is a sequence of its points. Calls, requests, projects and refusals are
any.

* `StoreTypeCorrect`: `TypeOK` with `Numbered`, the ranges of the connection a call
  locks next. What rows a statement writes is not unfolded: `WrittenSchema` says that writing leaves database and super tables alone.
* `StoreLocksHeld`: `LocksHeld` is inductive with these. Steps that end outside of
  the three places with a lock are alike (`RestingStep`); the others change one lock and
  one place each.
* `StoreNoDeadlock` follows from `LocksHeld` without induction (`LocksProceed`): a
  call that creates a super table waits at most for the first connection, whose owner
  is selecting databases and waits at most for the query connection, whose owner
  is repeating its query and waits for nobody.
* `StoreSchemaFirst`: `SchemaInv` adds to `SchemaFirst` that what is cached exists
  (`CacheTrue`), that calls past their schema steps have what these made
  (`BehindDatabase`, `BehindStable`), all of them only as long as a connection is open, and
  that a call that drops the database has closed them all (`Closed`): after a drop the cache is wrong for a while,
  but nobody has a connection to find out with.
* `StoreAcknowledged`: `Spec => []AcknowledgedStored`, by `RowsInv`: every point of an acknowledged batch has its
  row and its table, and whoever wrote the row last had not ended when the
  batch's call began (`Acknowledged`). A later write keeps this because the calls in
  `before` are over for good (`HistoryTrue`); that two points are in one row only if they have
  the same table and time needs that tables are named by their tags (`TablesNamed`).

`ConstraintReportProofs` assumes `ConstraintReportAssumption` and `BatchAssumption`: a batch has a point of at
least one sequence, finitely many of each, at integer times. Rules, clauses, limits, sizes, ingests and changes are
any. `ReportInv` has four parts.

* `ShapeInv`: types, and that ingests under way have generations and
  sequences of their own (`Apart`).
* `CleanInv` is about states that nothing has spoilt (`Clean`), with any overlap. A
  violation that must be known, which is one that did not come ahead of the watermark (`ahead`: a full check
  forgets those), is in the state, or is brought by an ingest whose
  results are not yet applied (`StateKnows`); a violation in the state that is none
  any more is taken out by such an ingest, as its range covers it or its window
  starts later (`StateTrue`, `Mended`). The same of results that are computed and not yet
  applied (`ResultsOK`): those of another ingest, read before it was applied, are harmless
  only as its generation decides which is folded last. `Settled` says that windows
  start in the order of generations.
* `AloneInv`: with one ingest at a time a full check knows its rule exactly up to the watermark, spoilt or not.
* `SelectedInv`: while one ingest at a time runs and nothing is spoilt, a rule with a violation is selected for the check.

`StatesAddUp` and `StatesForget` are `RangesAddUp` and `NothingOutlives` and follow from `CleanInv` in
the states where nobody is at work; `FullChecksRestore` from `AloneInv`; `ReportsAreExact` from all
of them together.

`DerivedRefreshProofs` assumes `DerivedRefreshAssumption` and `BatchAssumption`, the like of the
one above. Callers, series, formulas, batches and the window size are any.

* `PatchesStayInOrder`: `Spec => PatchesInOrder`, with any overlap and any projects.
* `DerivedPointsRight`: `OneProject => (Spec => []DerivedSound)`, and `LevelSeriesWhole`, the same of `WholeWhenLevel`.
  Neither can be an invariant of its own, as the window moves before the series
  are refreshed. `SeriesInv` says what holds meanwhile: a
  derived point is right, or the caller under way will publish its time (`Mends`); a
  point is there at each time at which all sources have one, or it will be
  published, or a patch of a range to its right is yet to come (`Adjoins`), or the
  next time of the sources is one at which only some have a point (`Uneven`). Only times that some source
  did not get ahead of the watermark are claimed; points of the window are up to the watermark or in `ahead` (`WindowOK`),
  which is why a full refresh has the others. `Uneven` is the
  hole that `derived_erased` and `MCDerivedUneven` show, and `WholeWhenLevel` excludes it.
  What a caller has computed is right for the window as it is (`ItemsInv`), since nobody
  else moves it (`AloneInv`). The core is `UpdateSeries`: of a window that an update has
  changed, every point whose neighbours differ is in the range of the report.
  `OneProject` (no two projects in `Projects`) is not a matter of the proof: with
  two, `MCDerivedProjects` shows a patch that is skipped as stale although nothing overlaps,
  and both properties are lost. In one project a caller alone has the
  newest generation, and no patch of it is skipped (`NeverSkipped`).

`WindowServiceProofs` assumes `SequenceWindowAssumption`, `WindowServiceAssumption` and `BatchAssumption`: an
update carries a point at least, times are integers, a patch has a range that is not empty. Callers,
sequences, batches, sizes and both thresholds are any.

* The lemmas say of each operator on a window that it keeps `WindowOK` and what it does to
  `Live`: `InsertIs` (by `AppendIs`, `MergeIs`, `KeepIs`), `PruneIs`, `PatchIs`, `ReplaceIs`,
  `RebuildIs`, and `FlushIs` and `CompactIs`, which nobody can see. `WindowOK` is stronger than the
  `WindowOrdered` that TLC checks: `latest_time` bounds the points behind the left edge as well, since
  an append concatenates to all of the vector.
* `WindowInvariant`: `Spec => []WindowInv`: each window is good (`WindowOK`), no sequence is called
  safe before it was inserted into (`CallShape`), and at each moment of a call what it has
  changed so far is in what it would report (`Covered`).
* `WindowsAreMaps`, `SafeUpdatesAppend` (action properties) and `ReportsCover`, `WindowsStayOrdered`
  follow: a step that inserts or prunes is one of the caller's own, under the lock of one
  sequence, and the operator's lemma says the rest.
* `SerialCallsExpire`: with one caller and no patches, `NothingExpiredAtRest`, by `ExpiryInv`. Both
  conditions are needed: `MCWindowExpired` loses it with two callers, and a patch writes
  points without pruning.

* `StatisticsAreExact`: `Spec => []StatisticsExact`. What the loops compute is given in closed form (`StatsOf`): the
  counts are cardinalities, the sum is that of the numbers (`Total`), and a deque holds the points that are
  lower (or higher) than all later ones, in order of time. `StatsInv` says that valid statistics are `StatsOf` of the active
  vector and that there are no late points beside it; with `WindowInv` it is inductive. A point that is pruned is the oldest, so if a
  deque has it at all, it is in front, which is what `removeStatistic` looks at. The exactness of `long double` sums is assumed.
* `WindowTypes`: `Spec => []TypeOK`, from `WindowInv`, `StatsInv` and `KnownInv` (a call works on sequences the service has, and calls only its own safe).

`AlignedCheckProofs` assumes `CheckAssumption` (rules have terms, offsets that are natural numbers and do not
decrease; batches, windows and requests are finite, with integer times, and not inverted; values are integers or
`NotNumeric`) and `AlignmentAssumption` (`Missing`, `Failed` and `NotNumeric` are no numbers). Rules, batches, window size,
kinds, windows and requests are any. Its invariant `CheckInv` is short, as a check has no memory: what was queried, aligned
and checked is that of the window as it is. The work is in the operators.

* `OffsetsAreFound`: `Spec => []OffsetsFound`. The query brings a `Slice` of the points: the range and a number of points on
  both sides of it. In a slice the k-th point after an anchor is the k-th of all points, as long as the anchor is
  at most k points before the range (`SliceLater`, by counting), so that the extended first anchor is neither too late nor too early.
* `RangedIsExact`: `Spec => []RangedExact`. The local window is a part of the whole (`Part`) with the same edges, hence the
  same buckets shifted (`PartBuckets`). An empty bucket is filled from the nearest filled ones; if these are in the part
  the value is the same (`FilledShifted`), and `LacksContext` is false only if they are for every bucket of the target
  (`LocalExact`): the bucket beside it on the outside is never one that is interpolated for the answer. For the fallback, cropping
  keeps as many samples before the range as the prefix has buckets (`PrefixKept`).
* `SimultaneousIsExact`: `Spec => []SimultaneousExact`. The interval is the least distance of two points, so a bucket
  has one point of a sequence at most (`OnePoint`) and its average is that point. Sequences with the same times have the same
  buckets, and an empty one is filled in all of them from the same neighbours (`FilledTogether`): a row of the aligned
  window is a row of the data or lies between two of them. A sum of interpolated values, each rounded down, is at
  most the interpolated sum (`SumBlends`), so it exceeds the bound only if one of the two rows does (`DrawnExceeds`).

That a finite set of times has a first and a last element (`HasGreatest`), and that each rank has
an element (`RanksExist`), is proved from the well-foundedness of strict inclusion, without
induction over data.

Model-checked only:

* liveness and whatever needs `ENABLED`: `AdmittedCompletes`, `StopTerminates`,
  `QueuedSettles`, `StopEnds`, `CallsReturn`, and the absence of deadlock as TLC checks it;
* `AnswerIsSnapshot`: the answer of a read is sorted, and so are its runs of equal times; what sorting
  does to every sequence is an induction over data. Nor does it hold for every value of the constants:
  in the instance every sequence keeps the kind of its first stored point. A sequence of unknown kind that
  stores an integer and later a double (`MCStoreRetyped`, section 5) has a table with the tag of the first,
  and a read with a granularity that has both rows in one interval answers with the last value of the
  tagged column, the older one;
* the two runs of section 5 and the instances beside them, which are counterexamples.

## 5. Findings

Each is a run in which TLC finds the quoted promise violated; `PROJECT.json` has the quotations.

| run | what happens |
|---|---|
| `derived_erased` | Both sources have points at 1, b also at 2, and the derived series a point at 1. b gets 3: the patch starts at a's last point, 1, but b was queried with one preceding point only, 2. At 1 the formula finds no value of b, and the patch erases the point. |
| `constraint_sync` | After a synchronization the next append checks only its own range and marks the rule initialized; a violation still in the window is forgotten. |

The following instances, kept beside these runs, show further behaviours that
contradict what a reader of the documents would expect. Run them with
`tlc -config <cfg> <module>`; each ends in a violation. Where a cfg has two invariants, one is commented
out: put it in the place of the other.

| cfg, property | what happens |
|---|---|
| `MCWindowExpired`, `WatermarkIsNewest` | The first batch of a project is r at 3, s at 2, r at 2, in this order. Whether there was a watermark is read before the loop, so each point overwrites it, and it ends at 2, behind a point that it has counted. `docs/current_functionality_overview.md:151` has the newest time for it ('使用最新时间点作为 watermark'), and so does the reference of `tests/window_service_differential_test.cpp:149`. |
| `MCConstraintAhead`, `StateComplete` | The first batch is b at 3, a at 2; the watermark is 2, and the violation at 3 is in the state. A late point of b at 1 has the rule checked in full; the query ends at 2, and the violation at 3, still in the window, is forgotten. |
| `MCWindowExpired`, `NothingExpiredAtRest` | Update 1 (old times) computes its window start; update 2 moves the watermark, prunes and returns; update 1 inserts and prunes with its own start. An expired point stays until the next update. (`MCWindowSerial` passes: with one call at a time it cannot, which `SerialCallsExpire` proves.) |
| `MCDerivedUneven`, `DerivedComplete` | The patch begins at the point just before the range, but earlier times of the other source also get their right neighbour only now: a rebuild has points that the incremental refresh has not added. |
| `MCDerivedAhead`, `LevelComplete` | The first batch is a at 3, b at 2, in this order; the watermark is 2, and a series of a alone has its point at 3. A late point of a refreshes it in full, up to 2, and the point is gone; b's update to 3 moves the watermark, but not this series. |
| `MCDerivedOlder`, `NoOlderOverNewer` | The generation guards patches only; a refresh that fell back to the full window overwrites a newer result. |
| `MCDerivedProjects`, `SkipIsCovered` | One published generation for all projects, although updates are counted per project: the project with fewer updates is skipped as stale, and stays behind. |
| `MCDerivedDisabled`, `DisabledStaysCleared` | A patch computed before a series was disabled is published after it was cleared. |
| `MCConstraintStale`, `StateSound` | An ingest in flight folds a result of the old rule into the states after they were erased. |
| `MCConstraintResize`, `StateSound` | A smaller window drops points, their cached violations stay. |
| `MCConfigMixed`, `IdsApart` | A derived series may not take the id of an instance, but a later instance may take the id of a derived series. |
| `MCConfigMixed`, `AcceptedByOne` | The two lookups of a point see different configurations: the point is accepted although each of them alone would refuse it. |
| `MCAlignedCropped`, `RangedAffected` | The fallback crops by time: of a range that begins inside a bucket the sample of that bucket, which has the new point, is lost, although the header promises "the affected aligned samples" and `alignment_service.cpp:748` an exact fallback. |
| `MCAlignedContext`, `ContextUsed` | The context is queried for "the boundary interpolation needed by the aligned multi-sequence path" (`timeseries_core_grpc_service.cpp:1044`), but it lies outside of the window that is aligned and is dropped: of sequences sampled apart, samples stay pending. |
| `MCAlignedOffsets`, `AlignedOffsetsFound` | For the same reason a rule with an offset over several sequences is not evaluated at a new sample: the sample before it is outside of the window, and the one after it does not exist yet. |
| `MCAlignedContext`, `NumbersChecked` | Two sequences whose only points have different times pass the test for two timestamps, but no interval can be inferred: the group fails, and with it the ingest's whole report, although absent data is "not an error during continuous ingest" (line 420). |
| `MCStoreRetyped`, `HistoryReadable` | A sequence of unknown kind stores an integer, then a double. The table keeps the tag of the first, the double is in a column that its tag does not name, and every read of the sequence fails with an invalid typed value, although the comment at `taos_client.cpp:1235-1237` has the generic projection return such rows. |
| `MCConstraintLost`, `StateComplete` | A value that is no number in sequence b fails its group; the violation that the same ingest brought to sequence a is in no state, and the next append does not look at it. |

## 6. Mutants

For every property of every passing run there is an operator, defined just before the
definition it replaces and named after the bug (`StartHotAtOnce`,
`FinishColdUncounted`, `CompactKeepsBegin`, `RangeForFirst`,
`NeverStale`, `FoldedAnyOrder`, `NextConnectionKept`, `StartOverKeeping`, `LacksLeftContext`, `AnchoredInRange`, ...), with which TLC finds the property
violated. They are no part of the specifications.

## 7. Plan

Done, in this order: the executor with its promise and first theorems,
notifications, windows, derived refresh, constraint states, the configuration
registry, alignment and the check of sample rules, the RPC of an ingest, the TDengine client with its theorems. Next:

1. Alignment with explicit intervals and strategies and with the lags of
   relations; aggregate rules and the statistics they are checked on.
2. The index lock of `WindowService`, for the shared lock that
   `replaceDerivedSequence` takes twice; `buildTimeWindow` and the RPC `writeRawData`, which bypass the
   executor.
3. Proofs: `AnswerIsSnapshot`; the samples of a group of several rules.

Not modelled and not planned: benchmarks and demonstration tools, generated
protobuf code and its conversion, floating-point results of statistics (TLC has
integers, and rounding is all there is to get wrong), validation of single values, SQL
texts, logging and diagnostics.
