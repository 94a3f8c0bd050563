# fugue-core: a TLA+ model of the analysis engine and its storage

This directory models the part of `fugue-core` that is hard to test: the worker
thread that owns a project, the callers, readers and subscribers around it, the
bookkeeping that decides who is told of a change and what is analysed again, and
the storage underneath: layered address spaces, the write-back of entities, and
the archive that a project is closed to and opened from.
Each module is written from the Rust source named in its header;
`PROJECT.json` maps every definition to its lines.

1. [The system](#1-the-system)
2. [Modules](#2-modules)
3. [Runs](#3-runs)
4. [Fairness](#4-fairness)
5. [Proofs](#5-proofs)
6. [Disagreements](#6-disagreements-between-the-code-and-what-is-said-of-it)
7. [Not modelled](#7-not-modelled)
8. [Plan](#8-plan)

Paths below are relative to `src/fugue-core/src/` unless they begin with `src/`.

## 1. The system

Fugue loads a binary, lifts it to intermediate languages and runs analysers over
it. `fugue-core` has the core logic; the other crates are the SLEIGH compiler,
generated lifters, bit vectors and front ends.

### Parts, state and operations

| Part | State | Operations |
|---|---|---|
| **Work queue** `engine/scheduler/work.rs` | `items` by key, `keys_by_analyser_and_range`, degradation reports | `schedule`, `requeue`, `requeue_continuation`, `pop`, `pop_batch`, `cancel`, `collapse` |
| **Routing and dependencies** `engine/worker.rs`, `engine/view.rs` | the reads of every production (`DependencyIndex`), attempts | `route_changes`, `route_direct`, `route_dependencies`, `route_requested`, `dispatch`, `admit_analysis`, completion hooks |
| **Coverage** `project/analysis.rs`, `engine/scheduler/analyser.rs` | per analyser: claimed, covered and pending ranges, its phase; persistent | `claim`, `mark_covered`, `clear`, `configure`, `schedule_uncovered_hints` |
| **Engine lifecycle** `engine/mod.rs`, `Worker::run` | bounded intake channel, deferred message, poison, worker handle | every call of `AnalysisEngine`, `drain`, `reject_pending`, `shutdown`, drop |
| **Transactions** `project/transaction/` | staged tables, `ChangeStaging` (records, index by key, counts by kind, collapsed flag) | operations on functions, bytes, mappings, symbols…; `push`, `coalesce`, `commit` |
| **Subscriptions** `engine/subscription.rs`, `engine/change.rs` | one bounded channel per subscriber, with a receiver of the worker's own | `subscribe`, `materialise`, `resync`, `recv`, `drain_merged` |
| **Change index** `queries/index.rs` | per group of kinds: runs of addresses with revisions, floor, maximum, insertions since the census; watermarks | `touch`, census and `compact`, `bump`, `resynchronise`, `latest_change`, `changed_since` |
| **Query terms** `queries/term.rs` | a cached value and the watermark it was stored under | `Term::evaluate` |
| **Lifted cache** `queries/cache.rs`, `queries/engine.rs` | lifted artefacts and absences by function and form | `cached_il`, `request_generated`, `lifted_batch`, `generate_lifted(_batch)`, `ensure_lifted`, `apply_changes` |
| **Segment storage** `storage/segments/` | mappings, providers' bytes, spaces with submaps and three indexes (placements, priorities, extents), revisions, a dirty flag; a transaction's staged records | create, remap, resize, remove, place, reprioritise, write, persist, reload; the same staged and published |
| **Entity storage** `storage/entities/` | LRU, pending writes with sequence numbers, the channel and batch of the write-back thread, poison | `try_get`, `try_iter(_range)`, `try_insert`, `try_remove`, `flush`, `write_batch`, drop |
| **Project archive** `storage/mod.rs`, `project/mod.rs` | `.fdbz` archive, `.fdb` directory, index marker, revisions, lifted artefacts | create, unpack, load, rebuild, commit, persist, pack, remove |
| **Database back ends** `storage/entities/{sqlite,mdbx,memory}.rs` | tables | get, put, iterate, write transactions |
| **IL, analysers, loaders, lifters** `il/`, `analysis/`, `loader/`, `lifter/` | sequential translations | — |

### How they interact

Callers send messages on one bounded `flume` channel. The worker takes one
message at a time, coalesces consecutive `ScheduleRanges`, and *drains* the work
queue before or after the message according to its kind. Every change of the project,
by a request or by an analyser, is a `ProjectTransaction`; its staged records
become a `ChangeSet`. `with_transaction` holds the publication lock for writing
while it commits and applies the change set to the change index and the lifted
cache; then `finish_publish` offers the change set to every subscriber and routes the
changes (cancelling and scheduling work, retracting coverage). Readers hold the
publication lock for reading around each question, never between two questions,
and ask the worker, through the same channel, for artefacts that are in neither
cache nor storage.

Below the project lie two stores. Entities (functions, symbols, problems, artefacts…)
are read through an LRU, then the map of pending writes, then the database; single
writes are left to a thread that commits them in batches, while the commit of a
transaction first flushes that thread and then writes its own batch. Segments live in
memory: a transaction stages mappings, placements and bytes, and its commit repeats
them on the storage; only `Project::persist` writes their metadata. A stored project
is an archive that is unpacked to a directory when it is opened and packed when the
last handle is dropped.

### What is hard

* **Interleavings.** Readers between commits, with a cached value of one moment
  and a question of another; the worker that empties a subscriber's channel while
  the consumer receives from it; a worker that stops with requests in its channel.
* **Limits.** A queue past its items, an item past its causes, a transaction past
  its records, a channel past its capacity, an index past its runs: in each case
  the code gives up detail and must not give up truth.
* **Order.** Cancel and schedule in one step; artefacts cached after the drain
  that may have invalidated them; coverage marked after the bytes changed.
* **Failure and reopening.** Analyses that fail and are retried, drains that fail
  in the middle, poison, panic, a failed start; a project that is opened again by
  an engine with other analysers.
* **Copies of one fact.** What an address shows is kept as cut-up submaps; an entity
  can be in the LRU, in the map of pending writes, in the worker's snapshot and in
  the database; a project in an archive and in a directory. Each copy is updated at
  another moment, and a crash or a failed write may fall between any two.

`PROJECT.json` lists these, each at its line, as hazards, with the properties
that cover them.

### What makes each part correct

| Part | Promise | Properties |
|---|---|---|
| Work queue | nothing requested is lost before it is dispatched or cancelled; the maps agree, so no assertion fails; bounds are kept and widening is reported | `NoWorkLost` `IndexAgrees` (and `NoPanic`, proved along with it) |
| Routing | of the changes that a change set names: a production that read what changed is scheduled again; every trigger is served or its end is known | `UpToDate` `TriggersServed` |
| Coverage | what is covered was processed and has not changed since, but for three named changes; what was taken back is remembered; the next engine repeats only what was not finished or was yielded | `CoveredTrue` `MarkersKept` `NotRepeated` |
| Lifecycle | replies are true; no request is forgotten while the worker lives; calls and shutdown end | `Truthful` `NoRequestForgotten` `CallsReturn` `CloseEnds` |
| Transactions | one exact record of the net change per function; exact index and counts; the collapse keeps what lifting needs | `NetReported` `StagingExact` `SemanticKept` |
| Subscriptions | a copy is never silently out of date; order of revisions; convergence | `NoSilentGap` `InOrder` `Converges` |
| Change index | never *unchanged* for something changed; imprecise only after a compaction it reported | `Conservative` `Precise` |
| Query terms | a hit is as good as computing now; evaluation returns | `HitFresh` `Returns` |
| Lifted cache | a read never returns an artefact of inputs replaced before the call; an absence is true; each turn of a batch is fresh | `ReadTrue` `TurnFresh` |
| Segment storage | a space is a stack of mappings; the indexes agree; submaps do not overlap; a cached view is current; a reload shows the same bytes; synthetic bytes lie apart | `ImplementsLayers` `IndexesAgree` `SubmapsApart` `CacheFresh` `ReloadSame` `SyntheticApart` |
| Staged segments | a commit leaves what the transaction saw, and reports every address it changed | `PublishedAsStaged` `ChangesReported` |
| Entity storage | a map: only a write changes it, a read answers the latest write, a commit is durable, a crash leaves a value the key had since it was stored; flushes end, and a write settles unless others keep coming | `ImplementsMap` `FlushDurable` `NothingStranded` `WriteSettles` `FlushReturns` |
| Project archive | what was persisted survives unless an error damages the directory; the reopened project is the one that was closed, its index of calls and flows is that of its tables, its artefacts are of its inputs while every persist succeeds | `CopySurvives` `SessionRestored` `IndexTrue` `ArtefactCurrent` |

## 2. Modules

Each component has a specification module, an `MC…` module with the instances TLC
needs, and `.cfg` files. Every step of a specification is a critical section of
the code: what a thread does under a lock or alone with its data is one action,
and a loop whose iterations can be told apart is a start action and one action per
iteration, during which nothing else of that thread happens.

**`WorkQueue`** – `items` and `index` are the two maps, as functions on work keys
and locations. `Schedule`, `Cancel`, `PopFirst` start the operations; `InsertNext`,
`CancelNext`, `PopNext` are their loop bodies; `Committed`, `CommittedPending`,
`Conflicted`, `Failed` are what the worker does with a batch. `Insert` is
`insert`: merge at an equal location (`Promote`), else insert and, past the limit,
`Collapse` to one item per space and kind. Ranges are sets of addresses; the order
of keys is `KeyBefore`. A cause is abstracted to its trigger; a full list of causes
is widened as in `absorb`. The assertions and `expect`s of the code set `panicked`.
`owed` and `asked` are history: what was requested and not yet dispatched or cancelled.

**`Reanalysis`** – the worker above the queue, which here is a set of places per
analyser, with attempts and continuations (`WorkQueue` is where the real queue is
checked). `Routed` is `route_changes` whole: cancel, direct triggers, dependencies.
`RunBatch` is `run_work_batch` to `finish_publish`: the run, admission, the recording
of reads, and the routing of what the run published. Place 0 is the whole project: work and records without a
range. A commit changes a set of records and may be collapsed: `Staged` is its change set, one
`Resynchronise` when it is collapsed, and that is all that `Routed` sees; `Named` is what the change set names of
what changed. `ran`, `seen`, `missed`, `ended`, `absorbed` are history: the last run of a production, the last
change of a record that was named to an analyser and the last one that was not, work that ended
without a run, and project-wide work that a mixed batch took along.

**`Coverage`** – two openings of a project. `Run`, `Retract`, `Schedule`, `GiveUp`
are the worker's steps, `Reopen` is the end of one engine and `Worker::new` of the
next: `configure`, the reanalysis of what a phase lost, and the uncovered hints.
Analysers may share a phase, so that one leaves claims to another (`Contended`). A commit, a
client's or a run's, names what it changes or is collapsed; then bytes change and nothing is
retracted. `done`, `unseen`, `yielded` and `lost` are history; `unseen` is what changed after an
analyser processed it and stays covered or claimed nevertheless.

**`EngineLifecycle`** – callers, readers, the owner and the worker around the intake
channel. The worker's program counter follows `Worker::run`; a drain ends well, with
an error, or by poisoning the engine. What a request does to the project is one bit, since
the properties only ask whether it was done. `flume` is external.

**`ChangeStaging`** – a transaction's `ChangeStaging` under the operations that
push to it; functions and mappings are sets of places, so that coalescing can be
compared with the net change. `Push` is `push`: same key (`Merged`), new record, or
collapse at the limit.

**`Subscription`** – `Commit` is a transaction up to `finish_publish`; then each
subscriber is offered the change set (`Deliver`), in which case its channel may be
emptied one change set at a time (`DrainOne`) while its consumer receives. The
consumer is the agent of `src/fugue-core/tests/engine_resynchronisation.rs` (20-53): it starts over
at a `Resynchronise` and otherwise applies what the change set names.

**`ChangeIndex`** – the index with its groups, watermarks, census and compaction.
Runs are represented by the revision of each address, their number by counting
changes between neighbours. `truth` is history: when each kind last changed where.

**`QueryTerm`** – EXTENDS `ChangeIndex`, and so composes the index, the publication
lock and the terms: `Evaluate`, one `Ask` per clause, `Hit` or `Open` and `Store`
are separate acquisitions of the lock, and `Want`, `Publish`, `Apply`, `GiveUp`
the worker between them.

**`LiftedCache`** – cache, storage and worker. An artefact is the semantic revision
of the inputs it was lifted from: all that tells a good one from a stale one. One form stands for
the path of forms. `meddling` chooses, once and for all, whether
IL analysers change the inputs of lifting.

**`LayeredSpaces`** – the abstract specification of the segment storage: each space is a
stack of mappings, an address shows the topmost one over it. It says nothing of submaps,
priorities or revisions.

**`AddressSpaces`** – `SegmentStorage`. A space has its submaps (disjoint ranges that name a
mapping and its revision), the placements, the index by priority and the extents, as in
`space.rs`. `InsertSubmapTop`, `Gaps`, `CutOut` and `Rebuilt` are the interval code: what an
operation cuts out, puts into the gaps, or rebuilds over a range. The operations follow
`mod.rs` in the order of their steps, with `LoadSegment` and `FinishLoading` for an image,
`CloseProvider` and `CloseNext` for the loop over a provider's mappings, and `Snapshot`,
`Readable`, `ReloadedMappings`, `ReloadedSpace` for the metadata file. `CacheLookup` is
`SegmentMappingCache`. A byte is a place in a provider, `bytes` holds the written ones.
`Layers` maps the priority lists to the stacks and the submaps to the views:
`ImplementsLayers` is the refinement.

**`SegmentStaging`** – EXTENDS `AddressSpaces` and adds the transaction: the records of
`SegmentStorageStaging`, the operations of `project/transaction/segment.rs` against them, and
`Publication`, the list of steps that `publish` takes (`PublishNext`) on the real storage.
A step that the storage refuses is an `expect` that fails. `before`, `meant` and `expected` are
history: what was shown, and what the storage has to be afterwards.

**`EntityMap`** – the abstract specification of the entity store: a map, with `since`, the
values that a crash may leave for each key, and with `phase` and `writes`, what the writer is
at and the values it writes. The map changes only with a `Put` of the key and value written,
or when the batch that was begun with these writes (`Begin`) is admitted (`Admit`); a batch
that fails ends without a trace (`End`).

**`EntityStore`** – `EntityCache` and `WriteBackWorker`. A writer holds the project alone;
its write is `Enqueue` (pending map), `Announce` (channel), `Publish` (LRU); its commit is
`Commit`, `FlushSend`, `CommitFlushed`, `Admit` and `Publish`. A read is one step per place it
looks at, an iteration one step per key. The worker's steps are those of `Worker::run`,
`commit_batch`, `commit_all` and `commit`, with one step per key where it walks over the
shared map. `Evict` is the LRU giving up an entry, `Reopen` a crash or a regular end at any moment. The
values of an entity are model values: encoding and decoding are left out.
`Map` is the refinement mapping: `View` for the map, `Surviving` for what a crash may leave,
`PhaseOf` and `staged` for the writer.

**`ProjectArchive`** – the files of a stored project and one process that opens, changes and
closes it. Contents are versions: of the tables, of the segments, of the index of calls and flow
references and of the derived references beside it (`derived`) with their marker, the stored
revisions, one artefact with its inputs. A rebuild restores the index and drops the derived
references of switches and data, as `ReferenceIndex::rebuild` does. `Faults` names the steps that may
fail, and `"crash"`; `"remove"` leaves a part of the directory and `"remove_none"` all of it;
`"segments"` is a write of the segment metadata that fails after it has truncated the file.
`kept`, `changed`, `clean` and `damaged` are history.

**`WorkQueueProofs`**, **`EngineProofs`** (`EngineLifecycle` and `Reanalysis`),
**`CoverageProofs`**, **`SubscriptionProofs`**, **`ChangeIndexProofs`** (with `QueryTerm`),
**`LiftedCacheProofs`**, **`StorageProofs`** (`EntityStore` and `AddressSpaces`),
**`ProjectProofs`** (`ProjectArchive` and `ChangeStaging`) – section 5. Specifications that share a
proof module have names of their own for what the others call `Init`, `Next` and `Spec`:
`RoutingSpec`, `StagingSpec`, `SegmentsSpec`.

Operators introduced as a *mutant* or *faulty form* of a definition are that
definition with a plausible error; each property is violated when the one named in
`PROJECT.json` takes its place.

## 3. Runs

`tlc -config X.cfg M`. Deadlock is checked except where a behaviour may really end:
a transaction that has used its operations, an engine that is closed, a project without
work, analysers that have nothing to do.

| Run | Instance | Shows |
|---|---|---|
| `work_queue` | one analyser, addresses 0..3, limit of two items, one cause, slices of two bytes, three requests among six regions | every merge, collapse, split, cancel, requeue and retry keeps the maps in step, loses nothing and reports what it widens |
| `subscription` | two subscribers (one with kind, region and source filter), one channel of two change sets and one of one, three commits among two records, `MaxDetailed` 1 | lag, drain against a receiving consumer, late registration, dropped handles: no silent gap, order, convergence |
| `query_term` | one term with two clauses, three commits of a regional kind and of a watermarked one whose records name a range, census every second insertion, one run allowed | compaction, collapse and deferred problems under the index; commits in every gap of an evaluation |
| `lifted_cache` | one reader, two functions, two changes of inputs, both kinds of IL analyser | reads, eviction, generation, batches, with commits in every gap |
| `engine_lifecycle` | a caller, a reader, the owner, a channel of one message | every way to stop against every point of a call |
| `reanalysis` | a decoder whose bytes are retracted and a checker triggered with and without a range, two attempts, two commits: one with records of both sorts, one of a kind both ranged and not, one collapsed | triggers, dependencies, mixed batches, failures, continuations, completion hooks, aborted drains |
| `change_staging` | two functions (one asserted), one mapping, two places, three records, five operations | coalescing, removal from the middle, side effects of bytes and mappings, the collapse |
| `segments` | addresses 0..2, an image of two overlapping segments (one not writable) over a bank of two bytes, an overlay, up to four operations and four mappings | every mixture of placing, moving, resizing, reprioritising, removing, closing providers, writing and persisting, with a cached view kept across it |
| `segment_staging` | two segments that show the same bytes, an overlay, two transactions with three operations | staged operations on what the transaction itself created, altered or removed, and their publication in steps |
| `entity_store` | two keys, a reader, a channel of one message, batches of two, two writes or commits, a failing write, a crash, both kinds of provider | the worker, the LRU, the writer, the reader and the crash in every order, as steps of the map; liveness of flushes, and of a write that no other follows |
| `project_archive` | four sessions, three changes, all faults: extraction, rebuild, persist, the write of the segment metadata, pack and removal, also half-way, may fail, the process may die anywhere | all orders of success, failure and crash over several sessions |
| `coverage` | two openings of two places by two analysers that share a phase, have one each, or have one without coverage and one whose claims outlive retraction; one commit of bytes or mappings, named or collapsed, by a client or a run | changed phases, claims left to another analyser, retraction during work, collapsed commits, given-up work |

Why the bounds are enough. Each limit of the code is a constant, set just above the
point where it bites, so that every run goes past it: three requests overfill two
places in the queue, three records overfill two details, one message fills the
channel. The hazards are about one limit being passed while something else is
going on, and need no more than two actors, two places on either side of a cut,
and two or three changes (one before, one between, one after). `MaxRequests`, `MaxRevision`,
`MaxOps`, `MaxCalls`, `MaxOpen` and `MaxChanges` bound the length of behaviours; `WriteSettles` is
stated so that it does not profit from the bound (section 4). Where the
instance matters less than the argument, a proof takes its place (section 5).

For the storage modules: three addresses give a mapping a part below, under and above
another; four mappings of which two overlap and one is synthetic cover cut, gap and
rebuild; a channel of one message makes every sender wait once, two keys make a batch
full or not full, and two writes let one be overtaken while it is being committed. The
store was also run with two values (650 000 states) and with two readers (2.9
million), without error. The bound on epochs is one: `Reopen` leaves a
state that is an initial one but for what is stored. Four sessions allow one that persists,
one that fails, one that reopens what is left, and another.

A further instance, for reading and for changes to the code, is `ChangeIndex` (two spaces,
records over several ranges), without error; those of section 6 are others.
The modules state more than the runs list, each with its comment: the type
invariants, `Bounded`, `WideningReported`, `BatchFits`, `RunsBounded`, `PhasesRestored`,
`NothingAfterPoison`, `LruFresh`, which hold on these instances.

## 4. Fairness

* `Subscription`: weak fairness of the worker's publication, of registration, and
  of each agent's receiving and applying. The worker never blocks on a subscriber (`try_send`),
  so its loop goes on; `Converges` speaks of agents that keep receiving.
  Nobody has to commit.
* `QueryTerm`: the worker that holds the lock goes on (WF of `Apply`, of `Publish` or
  `GiveUp`); `Ask` and `Open` are strongly fair because they acquire a `parking_lot`
  lock, which is eventually fair to waiting readers; `Hit` and `Finish` hold what they need (WF).
* `EngineLifecycle`: the worker thread runs (WF); a send on a full channel is strongly
  fair because `flume` serves blocked senders in turn; waiting calls look at their
  channels (WF). `CallsReturn` and `CloseEnds` are stated for behaviours in which,
  from some point on, a client told that the engine is poisoned or stopped does not call again
  (`GivesUp`): otherwise `reject_pending`, which empties the channel until it finds it empty,
  need not end.

* `EntityStore`: the worker thread runs (WF of its step, which includes the timeout of
  `recv_timeout`); a writer that has put its key into the map goes on to announce it
  (WF); a sender that finds the channel full is served in turn by `flume` (SF of
  `FlushSend`); whoever waits for an answer takes it (WF of `IterFlushed` and `CommitFlushed`). Nobody has
  to write, read or flush, and the provider may fail. `WriteSettles` is about a write that no other write
  or commit follows. It could not say more: `recv_timeout` begins anew with every message and
  the batch is a set of keys, so that a steady stream of writes to fewer than `max_batch` keys
  keeps another key pending for as long as it lasts (`storage/entities/writer.rs:192-212`).

The other modules state safety only. That `drain` ends depends on what analysers
compute and is not claimed.

## 5. Proofs

Checked by `tlapm` (1.4.5, Z3, Zenon, LS4), for every value of the constants that
satisfies the named assumption of the module.

**`WorkQueueProofs`** (from `QueueAssumption`): `QueueTyped`, `MapsAgree`,
`NeverPanics` and `RequestsKept`, that is `Spec => []P` for `TypeOK`, `IndexAgrees`,
`NoPanic` and `NoWorkLost`. None is inductive alone: a merge finds the right item only
if the maps agree, an assertion holds only because keys are injective on items,
and requests survive a cancel only if what it puts back is what it took out. The
inductive invariant is

    QueueInv == Shape /\ CancelSettled /\ NoWorkLost
    Shape    == TypeOK /\ IndexAgrees /\ NoPanic /\ SpentReset

`CancelSettled` says that a running cancel has only regional items of the cancelled
phases before it and that nothing is owed in its region. The argument: `Subsumes(n, i)`
says that item n stands for item i (same analyser and kind, more addresses, more
triggers). `HullOK` and `CollapsedOK` show that a collapsed item subsumes its group,
`InsertOK` that after an insertion every earlier item and the new one is
subsumed by some queued item, and `SubsumesServes` that what is subsumed is still
served. Then there is one lemma per action.

**`EngineProofs`**, `EngineLifecycle` (from `LifecycleAssumption`): `TypeCorrect`, `CallersToldTruth`,
`RequestsRemembered` and `PoisonIsFinal`, for `LifeTypeOK`, `Truthful`, `NoRequestForgotten` and the
action property `NothingAfterPoison`. A reply is true because of where its request has been:

    LifeInv == Typed /\ Bounded /\ Held /\ Waiting /\ Told /\ Remembered

`Held` says at which points of its loop the worker has a message and that it then
has deferred none; `Waiting`, that while the worker lives each request of a client is in one place
only (the channel, `deferred` or the worker's hand) and that its sender waits with an empty
reply and nothing done. Then a reply is given once, for the present call (`Told`), and a request can be missing
from all three places only when the reply is there, the engine is poisoned or the worker
stops (`Remembered`). One lemma per part, one case per action.

**`EngineProofs`**, `Reanalysis` (from `ReanalysisAssumption`): `ProductionsUpToDate` (`UpToDate`) and
`NoTriggerLost` (`TriggersServed`), for any analysers, kinds, commits, reads and retry budget, collapsed
commits and mixed batches included. What the code does not keep is in the properties and not in hypotheses
on the constants: they speak of the changes that a change set names (`seen`), and project-wide
work that a batch over regions took along counts as accounted for (`absorbed`). Section 6 has the
instances that refute the properties without this.

    RoutingInv == RoutingTypeOK /\ InTime /\ UpToDate /\ TriggersServed

`InTime` (no change is later than the revision) makes a run at `now'` later than everything
it follows. `CommitSchedules` says of a commit that what it names and thereby makes stale or due it schedules,
whatever it cancels; then one lemma per action: a commit, a run with and without a continuation, a failure, an abort.

**`CoverageProofs`** (from `CoverageAssumption`): `TypeCorrect`, `LostStaysPending`
(`MarkersKept`), `NothingCoveredSkipped` (`PhasesRestored`), `CoverageIsTrue` (`CoveredTrue`) and
`ProcessedNotRepeated` (`NotRepeated`), for any analysers, phases, configurations and commits, collapsed ones
and shared phases included. `MarkersKept` is inductive over `Typed`. `CoveredTrue` is so together with
`ClaimsTrue`: what is claimed was processed and not changed since, or is in `unseen`. `NotRepeated` rests on
`Accounted`: what was processed is covered, claimed or yielded, and what is covered is not pending.
`ClearEntries`, `MarkEntries` and `ConfiguredEntries` say what
`clear`, `mark` and `configure` do to an entry; `RetractStep`, `RunStep` and `ReopenStep` say what the
actions do, and the invariants are proved from those alone.

**`SubscriptionProofs`** (from `SubscriptionAssumption`): `TypeCorrect`, `DeliveredInOrder`
(`InOrder`), and `NoGapUnnoticed` (`NoSilentGap`) where every filter takes `RESYNCHRONISE`
(`ResyncTaken`; section 6 shows what happens where one does not). For any number of subscribers, any
filters, channel sizes and batches:

    SubInv == ProjectInv /\ ListsInv /\ ChannelsInv /\ ViewInv /\ RoomInv /\ OrderInv /\ NamesInv
    GapInv == no gap (GapFree) for a registered agent in what concerns it

`OrderInv` orders everything: received, in the channel, still to be offered. `NoSilentGap` is
far from inductive, since it says nothing of a copy that is right now and will be
spoiled by an old change set in the channel. `GapFree` adds this: behind a change set that
names a thing there is one that tells of its last change, or one that says to start over, or the worker is
about to send it. `NamesInv` (no change set is younger than the last change of what it names) makes
the newest word the right one.

**`ChangeIndexProofs`** (from `IndexAssumption` and `TermAssumption`): `IndexTyped`,
`IndexConservative` and `IndexPrecise` are `IndexSpec => []P` for `IndexTypeOK`, `Conservative` and `Precise`;
`TermsUseIndex` is `Spec => IndexSpec`, so that they hold for the index under `QueryTerm`; `HitsAreFresh` is
`Spec => []HitFresh`. The index is behind `truth` while a
change set is being applied, so the invariant has to say what is still to come:

    IndexInv == IndexTypeOK /\ GroupKnows /\ MarkKnows /\ MaxCovers

`GroupKnows` and `MarkKnows`: each change is below the floor, in the cells, in the
watermark, or named by a step in `todo`; `MaxCovers`: a group's maximum bounds its
cells, so that a compaction, which raises the floor to it, forgets nothing. `Conservative` speaks of
states with nothing to do, where the last alternative is void. `Precise` is the
converse and has an invariant of its own: whatever the index holds goes back to a change or to a
collapse that was told of (`Accurate`), and so does every step to come (`StepsDue`). It assumes that
no record names an empty range (`RangesProper`): `touch` would raise a group's maximum for it.
For `HitFresh` the invariant says what an evaluation may rely on between two questions:

    TermInv == TermTyped /\ Heard, while a term asks /\ FiledTrue

`Heard`: of the clauses asked so far, no change before the call is later than the latest one
found – `IndexConservative` is what makes it true of one clause more, and commits in
between only add later changes; `FiledTrue`: a value was computed no earlier than
its watermark and from declared reads. That `latest_change` exists as the largest revision since which
nothing changed is `LatestFacts`, from the well-foundedness of the naturals.

**`LiftedCacheProofs`** (from `LiftedAssumption`): `ReadsTrue` (`ReadTrue`) and `TurnsFresh`
(`TurnFresh`), for any number of functions, readers and revisions.

    LiftedInv == typing /\ Locked /\ Turns /\ NoneTrue /\ Past /\ Fresh

`Locked`: while records are published no reader is inside `cached_il` and the worker is idle or
drains – the publication lock. `NoneTrue` and `Fresh` are statements about the cache outside a publication that
would clear it: a cached "none" hides nothing, and, where IL analysers leave the inputs
alone, what is cached and answered is of the current inputs. `Turns`: what is still prepared for later turns is of
the state the batch started from, which is what the check at each turn compares with.

**`StorageProofs`**, `EntityStore` (from `StoreConstants`): `StoreInvariant`, `FlushesDurable`,
`NothingIsStranded` and `StoreImplementsMap`, that is `Spec => []StoreInv`,
`Spec => []FlushDurable`, `Spec => []NothingStranded` and `Spec => ImplementsMap`, for any keys, values and readers, any capacity, batch size and bounds, both
kinds of provider. That a read answers the latest write depends on every copy at once:

    StoreInv == StoreTypeOK /\ Locked /\ FlushesOwed /\ RepliesTrue /\ SeqUnique
                  /\ WorkerTrue /\ AllTaken /\ WriterTrue /\ CacheTrue /\ ReadersTrue

`FlushesOwed` and `RepliesTrue` follow a flush through the channel, the worker and its answer;
with `Locked` they say that while a flush is under way nobody writes, which is why
`AllTaken` holds: the snapshot of a flush is all that is pending, so an `ok` means that
nothing is. `SeqUnique` (the sequence numbers of a key's writes differ) and `WorkerTrue`
(what is pruned has been stored) make pruning invisible: `View` does not change when the
worker writes or prunes. `WriterTrue` and `CacheTrue` say that the LRU is behind only for the keys
of a write that is on its way into it, and `ReadersTrue` what a reader has ruled out so far. Each
action has a lemma `…Keeps`. `NothingStranded` is inductive together with `OneStaged` (a single
write announces its own key) over `StoreInv`: the newest write of a key is always to be
announced, in the channel, in the worker's batch or in the commit that runs. For the refinement, steps
that leave `View`, the writer and the answers alone and let `Surviving` only shrink are steps of `Settle`
(`SettleIfQuiet`; `WorkerMaps` for the worker, `QuietMaps` for announcing, waiting, closing and evicting), a read
that ends is `Answer` (`AnswerIfDone`), `Enqueue` is `Put` of its key and value, `Commit` is `Begin`
(`CommitMaps`), the return of the writer is `End` (`EndMaps`), and `Admit` is the map's: it changes exactly the
keys of the batch, because the flush before it has left nothing pending.

**`StorageProofs`**, `AddressSpaces` (from `SegmentAssumption`): `SpacesStayIndexed` (`IndexesAgree`),
`SyntheticStaysApart` (the action property `SyntheticApart`) and `CacheStaysFresh`, for any image,
layout, builders, sizes and number of operations.

    SegmentsInv == MapsOK(mappings, mappingCtr) /\ loading \in Seq(Mapping)
                     /\ AllIndexed(spaces, mappings)

`AllIndexed` says of every space what `IndexesAgree` says, and that its bounds on priorities are
numbers in order: a priority beyond a bound is nobody's, so that a mapping placed there displaces no other. `PlacedAgree`
and `RemovedAgree` are about the three indexes alone; each operation of a space is reduced to one of
them, and rebuilding a range touches no index (`RebuiltKeeps`). `MapsOK` (ids are below the counter, ends are numbers)
gives `OffsetPastEnds`: the ends of a provider's mappings are finitely many, so there is a largest, and the new offset is not
below it. `CacheStaysFresh` is `SegmentsSpec => [](SubmapsApart => CacheFresh)`: a step that changes
what a space shows raises its revision (`RevisionStep`), so a cached view of the present revision is one
of its submaps (`CachedView`), and the only one over an address where submaps do not overlap. That they
never do, `SubmapsApart`, is what the run `segments` checks and the provers cannot reach (see below).

**`ProjectProofs`**, `ProjectArchive` (from `ArchiveConstants`): `IndexIsTrue`, `SessionsRestored`,
`ArtefactsCurrent` and `CopiesSurvive`, for any number of changes and sessions and every set of
faults. `IndexTrue` is about calls and the flow references of functions, `CopySurvives` about
states before an error has torn the segment metadata or removed a part of the directory
(`damaged`), `ArtefactCurrent` about states in which every persist has succeeded (`clean`): section 6 has what
happens otherwise. Each rests on an invariant of its own over `Typed` (a session works in a
complete directory): `IndexInv` (a marker that names the stored revision vouches for the
index, in both copies, and a rebuild runs only while it does not), `RestoreInv` (with nothing
committed since, the directory, or the archive where there is none, is what was persisted),
`ArtefactInv` (an artefact's revision never exceeds the semantic revision it is loaded with,
and equals it only for its own inputs) and `CopyInv` (which copy holds the data at which
point of a session).

**`ProjectProofs`**, `ChangeStaging` (from `StagingAssumption`): `StagingStaysExact` (`StagingExact`),
`NetChangesReported` (`NetReported`) and `SemanticNeverLost` (`SemanticKept`), for any functions,
mappings, places and limit.

    StagingInv == Shaped(staging) /\ Exact(staging) /\ the types of the rest
                    /\ for every function: at most one record of todo is about it,
                       Reflected (unless collapsed) and Known

`Exact` is an invariant of `push` alone: the index names the position of each keyed record, and the counts
are the numbers of records by kind, also after the last record has taken a removed one's position.
The two others speak of states between operations and need what holds inside one: `Reflected` says that
what is recorded of a function is accurate for the body it had before the record that is still to be
pushed (`Accurate`, `Follows`), and `NetStep` that coalescing with that record makes it accurate for
the present one; `Known`, that the semantic count knows of a replaced body or the record to come will
tell it.

Only model-checked: all liveness (TLAPS has no `ENABLED`); of `AddressSpaces`, `SubmapsApart`,
`ReloadSame` and `ImplementsLayers`; and `SegmentStaging`, which is built on it. `Rebuilt`, `Gaps`,
`PriorityList` and `ReloadedSpace` are folds over sorted sequences (`FoldLeft`, `SetToSortSeq`), and
what a fold computes takes an induction over data that the provers cannot do.

## 6. Disagreements between the code and what is said of it

Each of these is a property of a module that TLC refutes on the instance named.

* `SubscriptionKinds`, `NoSilentGap` – a transaction past 8192 records is collapsed while it
  is staged to one `Resynchronise` record; the bypass of the filter in `materialise`
  looks at the number of records and never fires, so a subscription whose kinds lack
  `RESYNCHRONISE` is not told (`engine/subscription.rs:37`).
* `LiftedCache` with `INVARIANT AlwaysFresh` – an IL analyser that changes the inputs of
  lifting clears the cache, and the worker then inserts the artefacts it had prepared
  before (`engine/worker.rs:1341`).
* `EngineLifecycleReaders`, `ReadersReturn` – a reader's request that is in the channel when
  the worker drops its receiver is never answered and never disconnected, because the
  reader itself keeps the channel alive (`queries/reader.rs:481`).
* `ReanalysisMixed`, `UpToDateStrictly` – a batch that holds project-wide and regional work is run
  as regional: the project-wide production stays out of date (`engine/worker.rs:1034`).
* `ReanalysisCollapsed`, `TriggersServedStrictly` – a transaction past 8192 records becomes one
  `Resynchronise` (`project/transaction/mod.rs:135`), and `route_changes` looks at records only
  (`engine/worker.rs:618-666`): what it changed triggers nobody, puts no production out of date and retracts
  nothing. Nor is a record without a range seen beside ranged ones of its kind.
* `SegmentStagingPublish`, `PublishNeverPanics` – a mapping is made smaller and then moved
  to where only the smaller one fits; `publish` moves first, with the old size, and its
  `expect("staged mapping start was validated before publication")` fails
  (`storage/segments/staging.rs`).
* `ProjectArchiveLoss`, `Survives` – a write of the segment metadata that fails after it has
  truncated the file is only logged, and the directory is packed over the good archive.
  The same happens with `Faults = {"remove"}`: when `remove_dir_all` fails half-way, `cleanup_storage`
  removes the archive that `pack` had completed (`storage/mod.rs:520`).
* `ProjectArchiveDerived`, `DerivedTrue` – a persist that fails between the marker and the revisions
  makes the next session rebuild the reference index; the rebuild drops every derived reference
  and restores those of functions only, and the index is then marked current without those of
  switches and data (`ir/reference/index/mod.rs:689-707`).
* `ProjectArchiveStale`, `ArtefactTrue` – a persist that fails before it stores the revisions
  leaves artefacts of a later revision beside an older one; the next session counts up
  to that revision and accepts them for other inputs (`project/mod.rs:735`).

Smaller ones:

| Instance | Property | The code | What is said |
|---|---|---|---|
| `WorkQueue`, with this property | `CancelClears` | what survives a `cancel` can collapse to a hull over the cancelled range (`engine/scheduler/work.rs:503`) | no item left meets the range (test, line 760) |
| `ChangeIndexCensus` | `CensusBounds` | one insertion can split a run in three (`queries/index.rs:98`) | at most one interval over the bound (test, 350-353) |
| `ChangeIndex`, with this invariant | `RegionLessObservable` | a problem without an address is filed nowhere (`queries/index.rs:230`) | changes without a region are observable (`queries/engine.rs:587`) |
| `ChangeStaging`, with this invariant | `MetadataPlaces` | the second metadata record of a mapping is dropped with its places (`project/transaction/mod.rs:245`) | the record lists the places of the mapping (`src/fugue-core/tests/engine.rs:2336`) |
| `Coverage`, with this property | `NotRepeatedStrictly` | claims that another analyser of the phase has queued are dropped (`engine/worker.rs:881`) | what was analysed is not dispatched again (`src/fugue-core/tests/analysis_coverage.rs:186`) |
| `Coverage`, with this invariant | `CoveredStrictly` | a collapsed commit retracts nothing, a run covers what it changed in its own batch, and claims outlive retraction outside the Decode and Partition phases (`engine/worker.rs:917`) | what is invalidated is analysed again (`project/analysis.rs:734`) |

## 7. Not modelled

* **Database back ends** (SQLite, MDBX, memory): a map with or without write
  transactions that may refuse a write, which is all that the entity store asks of them.
* **The file-backed segment provider** and permissions: reads and writes of one file.
* Parts of the storage that the instances keep out: a mapping whose home space
  does not exist (accepted and persisted, refused when it is loaded); the offsets of
  providers near 2^64. After a crash the `.fdb` directory is left and every
  later opening is refused until someone removes it: the model does the same.
  The write-back worker stores keys in another order than they were written in, so a
  crash leaves each key with a value it had, and not a prefix of the writes: `EntityMap` promises no more.
  A provider without write transactions fails every commit with entity writes (`AdmitFails`).
* **The tables behind most updates** (`engine/update.rs`, `project/transaction/reference.rs`):
  an update is a set of records, applied whole or refused.
* **IL translation, analysers, loaders, lifters, SLEIGH, bit vectors**: sequential
  functions over large data, best compared with reference values.
* **Front ends, metrics, configuration builders**: no protocol.
* A client that calls the engine while it holds a `ProjectHandle` waits for a
  worker that waits for the handle. The types allow it; the clients of the model do not do it.
* The attempts of a work item saturate at 255; the model stops at the budget.

## 8. Plan

Written, in this order: `WorkQueue`, `Subscription`, `ChangeIndex`, `QueryTerm`,
`LiftedCache`, `EngineLifecycle`, `Reanalysis`, `ChangeStaging`, `Coverage`,
`AddressSpaces` with `LayeredSpaces`, `SegmentStaging`, `EntityStore` with `EntityMap`,
`ProjectArchive`; proofs for all of them but `SegmentStaging`.

Next, modules:

1. *Admission*: `RecentChanges`, `ReadSet` and its collapse to unbounded reads,
   `handle_admission_conflict`, against commits between an analysis and its admission;
   an abstract specification (an admitted run saw a state equal, on what it read, to the
   one it commits to) that it implements.
2. *Problems*: `invalidate_semantic_problems` and the deferred problems of the worker.
3. *Completion*: the rounds of completion hooks and their bound.
4. *An abstract specification of publication* (facts change, each reader and
   subscriber sees them in order) that `Subscription` and `QueryTerm` implement.
5. *Tables*: functions, blocks and references with the symmetric indexes that updates maintain.

Next, proofs: `SubmapsApart`, for which the inductions over the folds of the interval code would have
to be written out by hand, and from which `CacheFresh` then follows; the action properties that the modules state
and no run lists.
