# Soloc in TLA+

A TLA+ development of Soloc, a ledger of poses: clients append batches of rows
"entity X is at this pose, relative to frame F, as of epoch T", and ask where an
entity is in another frame, now or in the past. The modules model the ledger and
the transform tree it derives from its rows, the server around them, and what
crosses their boundary: peers, names, almanacs, queries and configuration. TLC
checks them on small instances; TLAPS proves the theorems listed below for every
instance. All paths below are relative to the repository root (`src/` here).

- [Inventory](#inventory): the system's parts, and what makes each correct
- [Modules](#modules): how state and actions correspond to the code
- [Runs](#runs): what each checks, its bounds and fairness, and why they are enough
- [Findings](#findings): where code and comments disagree
- [Proofs](#proofs)
- [Not modelled](#not-modelled) and [Plan](#plan)

## Inventory

**Transform topology** (`crates/spacetimestamp/src/topology.rs`). State:
`latest`, child -> (parent, since), and `log`, the parent changes in application
order. Operations: `ingest_batch` (Pass A reduces a batch to one best row per
id, Pass B finds the ids whose parent may change, Pass C walks their rows sorted
by id and epoch and stages an event per change; then a cycle check, then a
commit), `merge_log_batch` (a peer's exported log), `trim_before`, `parent_at`,
`ancestry_at`, `to_log_batch`, `check_acyclic`. Hard: rows and logs that arrive
late, tie, repeat or contradict one another; two records of one history; checks
made on a staged state that the commit need not produce. Correct when the edges
are the log's replay, nothing goes back in time, no chain loops, and `parent_at`
answers every epoch of the window with what the entity last said by then.

**Ledger** (`crates/soloc-ledger/src/ledger.rs`). State: segments (`pinned`,
`segments`, `tail`), `resident_bytes`, the limit, a pose cache, a transform tree.
Operations: `append` (topology, pose cache, push, seal, evict, trim in one
call), `set_memory_limit`, `merge_topology`, `resolve_frame_at`,
`resolve_to_root`, `current_state`, `query`, `latest_snapshot`, `save_ipc`,
`load_ipc`. Hard: three derived records kept by different code; eviction in
the middle of an append; a copy that fails halfway; equal epochs at a segment
boundary; a byte counter kept by differences. Correct when accounting is exact,
the latest rows of every entity survive, present answers do not change with
storage, and past answers are true or absent.

**Persistence** (`ledger.rs`, `crates/soloc-server/src/state.rs`). Saves the
stored batches and a names file, and rebuilds everything else. Hard: a load
replays pieces that were merged, cut, moved and partly evicted; two files, each
truncated before it is written; a file that does not load is replaced by an
empty ledger. Correct when what was stored loads, the rebuilt ledger says the
same of the present, and no save replaces good data with less.

**Flight server** (`crates/soloc-server/src/service.rs`, `state.rs`, `main.rs`).
Two locks (ledger, almanac) around the handlers `do_put`, `do_get`,
`do_exchange` and nine actions; a drain and a save on SIGTERM. Hard: locks
released between batches, between a file read and the swap that follows it, and
between a kernel's download and its installation; an exchange that takes the
second lock while it has the first; poisoned locks; concurrent saves of one
file. Correct when clients see what a server without locks, threads and files
would show them, and no call waits for ever on another.

**Startup** (`main.rs`). The configuration's lookups and fallbacks, the memory
limit's parsing, the choice of kernels. Hard: defaults that hide a mistake, a
product that overflows. Correct when a server that listens has the limit it was
given and the kernels of one source.

**Federation** (`ledger.rs`, `service.rs`). Two ledgers that exchange exported
logs, with no order and no exactly-once guarantee. Correct when a repeated
exchange moves no edge and the logs agree once both have seen the same events.

**Ids and names** (`crates/spacetimestamp/src/identity.rs`). An id carries its
kind in a nibble and is minted from an authority and a name, or embeds an
astronomical frame; a registry maps ids to names and merges all or nothing.
Hard: payloads from anywhere; aliases of one frame. Correct when a binding's
name mints its id, and ledgers show one name for one id.

**Ephemeris** (`crates/spacetimestamp/src/ephemeris.rs`). A frame table, and
snapshots and orbits computed from the almanac. Hard: gaps in kernels, lists
answered by position. Correct when a request is answered whole or refused.

**Frame transforms** (`crates/spacetimestamp/src/transforms.rs`). A batch is put
into one frame row by row, with three caches. Correct when no row's answer
depends on the other rows.

**Schema, validation, epochs, queries** (`schema.rs`, `entity.rs`,
`validation.rs`, `vocabulary.rs`, `transforms.rs`, `query.rs`, `ledger.rs`).
Columns are stored by position and read by name; batches are conformed,
validated and put on TAI on their way in, files are not; epochs are (centuries,
nanoseconds) and saturate; a query prunes segments by epoch. Correct when what
is read is what was sent, and a query finds exactly what is stored.

**Visualizer** (`visualizer/`): a TypeScript client with a port of the topology.

The ledger calls the tree inside `append`, `merge_topology`, eviction and loads;
reads combine the tree's chain with poses from rows or cache; the server calls
the ledger under its lock, and `transform_batch` calls back into the ledger for
each frame it does not know. `PROJECT.json` lists the hazards at their lines.

## Modules

| module | models |
| --- | --- |
| `Topology` | the pure part of `topology.rs`: what a batch stages, what a commit, merge and trim leave, what the reads answer |
| `TransformTree` | a tree under `ingest_batch`, `merge_log_batch` and `trim_before`, in any order, with any input |
| `TreeClaims` | sentences of the comments that do not hold of it |
| `ParentHistory` | the abstract store: all rows published, entity and epoch -> parent, with a window |
| `LiveStream` | `TransformTree` fed in the order of epochs, refines `ParentHistory` |
| `Ledger` | `ledger.rs`: append, seal, split, evict, pin, trim, pose cache, merge, and the reads built on them |
| `LiveLedger` | `Ledger` fed in order, per entity or by one clock; the reads against the full history |
| `LedgerRestart` | `LiveLedger` saved and loaded again |
| `LedgerService` | the abstract server: batches are added, kernels accumulate, a whole saved ledger may replace the served one |
| `Server` | the calls of `service.rs` as steps between lock acquisitions, its files, and the life of the process; refines `LedgerService` |
| `Federation` | ledgers that ingest, trim, export and import logs over a bad channel (on `Topology`) |
| `Frames`, `Names` | the table of astronomical frames; ids and the registries of several ledgers |
| `Schemas` | columns, vocabularies, builders and accessors |
| `Intake` | a batch's way into a ledger, a file's, and a query's way out |
| `Ephemeris` | `append_snapshot`, `query_orbits`, `load_kernel` (on `Names`, `Schemas`) |
| `Reproject` | `transform_batch` (on `Ephemeris`) |
| `Startup` | the configuration a server comes up with |
| `TopologyProofs`, `SequenceProofs` | lemmas about the tree's operators, and about sequences |
| `LiveStreamProofs`, `LedgerProofs`, `LiveLedgerProofs`, `ServerProofs`, `IntakeProofs`, `BoundaryProofs` | theorems about the modules of those names; `LiveStreamProofs` also about `TransformTree`, `LiveLedgerProofs` about `LedgerRestart`, `BoundaryProofs` about `Federation`, `Names`, `Ephemeris`, `Reproject` and `Startup` |
| `MC*` | instances for TLC; `MCBoundary` joins the parts that share no state |

**Topology.** `edges` is the map `latest`; a log is a set of events, each with
the position `at` in application order, because trims drop events from the
middle and the code only asks which of two came later. Passes A to C are
`BestRow`, `Dirty`, `Emits` and `EventsOf`; the sort of Pass C appears as the
order `SortsBefore`, its running parent as the frame of the row before. The
cycle check is `StagedCycle`, on `StagedParent`. `ApplyEvents` states in closed
form what the commit loop leaves; that this is what the loop does is
`CommitIsSequential`, checked and proved. A walk loops when some set of entities contains its start's parent and is
closed under parents (`Looping`): no recursion, so the module can be proved about.

**TransformTree.** A rejected batch or merge is the absence of a step, since the
code returns before it writes. Decoding an Arrow batch, and the errors for
missing columns, come before any change and are left out.

**Ledger.** `store` is (pinned, segments, tail, resident bytes). A row keeps what
the code reads: id, frame, epoch, estimate priority; `pose` is a unique stamp
(append, row) for the payload. Bytes are counted in rows, plus `Overhead` for a
batch stored as it was decoded. `SealTail`, `SplitSealed`, `EvictOldest`,
`EnforceLimit`, `WindowStart` and `TrimmedLog` are the functions of those names;
`AppendBatch` is the whole of `append`, with seal, eviction and trim, and
`SetMemoryLimit` the whole of `set_memory_limit`. With `CopiesMayFail` a seal's copy
(`concat_batches`, a split) fails or not, and any of the sealed segments fail
to split; `Evictable` says at which eviction of a call `filter_record_batch`
fails, `None` for never. `accepted`, the rows ever appended, is a history variable that no operation
reads, and that no load resets. The three arms of `resolve_frame_at` are
`ResolveFrameAt` and `Scanned`; `resolve_to_root` is `ResolveToRoot`, as the
composition it asks for and not its floating-point value.

**LiveLedger** restricts which batches arrive, never what the ledger does:
`EntityOrdered` says each entity publishes in order, `ClockOrdered` that all
producers share a stream. Promises that hold of any input are stated in
`Ledger`, those that need order here.

**LedgerRestart.** `Restart` is a clean stop and start: `Saved` is what
`save_ipc` writes, `Rebuilt` is `rebuild_derived_state`, and the limit is set
afterwards as `ServerState::new` does. A file that does not load is no step.
`lost`, a history variable too, is the rows ever appended that were gone at the last
load. What the properties say of the past, they say of all rows ever appended, over any
number of loads; only `WindowIsFull` says less, of the rows not in `lost`, because a load
turns pinned rows into sealed ones (see [Findings](#findings)).

**Server.** A call is in one place `at` a time: the lock it waits for, or the
step it is about to take. Everything that happens between taking a guard and
dropping it is one step, since nobody else sees its middle, except where the
middle shows: a save truncates, writes and goes on to the second file, each a
step, under a guard that only keeps writers out. `lock` is `std::sync::RwLock`
with its readers, its writer, its poison, and the queue of writers that keeps
new readers out. `carry` is what a handler has read and still uses after it gave
up a lock. Under its lock a call succeeds, fails (no change) or panics (the lock
is poisoned). `Crash` may come anywhere; `Sigterm`, `Persist`, `Stop` are the
orderly way. A ledger is its set of batches, each addition a token of its own,
its imports and its limit; whether it accepts a batch is left open, `Ledger`
says when it does. `LedgerService` has no locks, calls or files: the mapping
reads `rows` and `kernels` off the served ledger and almanac.

**Federation.** A tree per peer; `known` is every fact a peer ever logged.
`ImportTopology` delivers any export still under way, as often as it likes,
`Lose` drops one, and `Sync` is the periodic exchange at a blow.

**Names.** An id is its kind and its body, hashed fields or an embedded pair;
SHA-256 is taken to be injective. Payloads come from `ExportNames` or from
`Forged`. A function that may refuse returns the set of its result.

**Schemas, Intake.** A row is a sequence of columns under a schema, as in Arrow,
and is read by name through the schema it is stored with; the builders append
column by column. `AppendBatch` is schema conformance, validation, TAI
normalisation and measurement of the segment, in the order of `append`;
`LoadFile` is `from_loaded`, which does the last only. `Query`, `StreamQuery` and
`DoGet` answer from the same segments and differ in what they do with one that
fails. A ledger without an id column reads no topology from a file, so that frames
which do not decode get in; a second instance of the module in `MCBoundary` (`Plain`)
is one. `TaiOf`, hifitime's conversion, is external; a century has four ticks, so
that a batch can cross one, and there are two on each side, so that sums saturate.

**Ephemeris, Reproject.** anise is external: an almanac is its kernels, a kernel
what it covers, and a vector the question it answers, so that a value under the
wrong body, epoch or row shows. `TransformRow` takes the next row of a call
through the three caches, which last as long as the call. It takes a row's epoch as the
moment it stands for, whatever its time scale (`Intake` has the conversions), and leaves
out the errors of a row that does not decode: each ends the call, as the refusals that are
modelled do.

**Startup.** `Configure` and `Open` are the two halves of `main`, before and
after the limit is known; each way they end early is an outcome of the step.

Operators under a comment `Bug:` are mutations of the definition they
precede: a property is worth its run when such a mutation breaks it.

## Runs

| run | instance | properties |
| --- | --- | --- |
| `tree_any_order` | 2 entities, 1 root, 1 label, 4 epochs, batches and peer logs of 1-2 rows, 3 pushes | `LatestIsReplay`, `NeverRollsBack`, `CommitIsSequential` |
| `live_stream` | 2 entities, 1 root, batches of 1-2 rows, 6 pushes, any trims | `NeverCyclic`, `RefusesExactlyCycles`, `IsParentHistory` |
| `ledger` | 3 appends of 6 batches with late and tied rows, limit 4 rows, failing copies and evictions, 2 peer logs | `TypeOK`, `StoredOnce`, `CurrentStateSurvivesEviction`, `ResidentIsSum`, `LatestRowsKept`, `TreeReplays`, `FastPathShowsNewest` |
| `live_ledger` | 5 appends, entities each in order, re-parenting, 5 epochs | `PresentTransformsSurvive`, `StoredRowsAreExplained`, `WithinBudget` |
| `restart` | 5 appends on one clock, `Restart` at any point | `StoredDataLoads`, `ReloadKeepsPresent`, `NeverCyclicAtAnyEpoch`, `TransformsAreTrue`, `WindowIsFull`, `ResidentIsSum` |
| `server` | 3 calls, 8 choices of their kinds and of the storage, 2 starts, streams of 2 batches | `LimitStaysInForce`, `HoldsWhatItUses`, `IsLedgerService`, `SavesAreSound`, `OrderlyRestartKeepsLedger`, `CallsEnd`, `DrainEnds` |
| `boundary` | `Federation`, `Names`, `Ephemeris`, `Reproject`, `Intake`, `Startup`, one per behaviour | `EdgeIsYoungestKnown`, `RedeliveryMovesNoEdge`, `PeersConverge`; `BindingsMint`, `DisplaysAgree`, `ImportIsAllOrNothing`; `AlmanacAnswersAreWhole`; `TransformsRowByRow`; `StoredIsWhatWasSent`, `QueriesAreExact`; `StartsAsConfigured` |

What they show:

- `tree_any_order`: two code paths, one history. Whatever is ingested, merged
  and trimmed, a child's edge is the event in force among those the log still
  holds, and it never moves back. Two rows of one id meet in a batch with every
  combination of frames and epochs, ties included; three pushes let an event be
  staged, superseded and trimmed.
- `live_stream`: in order, `parent_at` implements the abstract history for
  every epoch of the window; no sequence of batches closes a cycle; and the
  check refuses exactly the batches that would. Six pushes are all the
  changes that two entities can make in three epochs.
- `ledger`: `SegmentThreshold` 1 and `SegmentTargetBytes` 3 make a seal merge two
  batches and a split cut them; under a limit of 4 rows an append, or the
  setting of the limit, evicts one or more segments, so that pinned rows are filtered again. A failure is
  tried at every place one can occur (an `Evictable` of 1 fails after one eviction of a
  call succeeded), and peers contradict the tree or close a cycle. Rows tie in their
  epoch within a batch and across batches: cache and scan each show one of the newest
  rows (`FastPathShowsNewest`), and not always the same one (`cache_tie`).
- `live_ledger`: in-order per entity, while the limit is set and lifted over five
  appends: present transforms are those of the full history, missing ones included,
  no stored row outlives the topology that explains it, and the limit is exceeded only
  by what cannot be evicted.
- `restart`: with one clock, past transforms are those of all rows ever appended or
  absent, also after a load has turned pinned rows into segments and forgotten what was
  evicted; every stored row survives a reload with the same present; a loaded segment still weighs its
  IPC body, so the split that follows changes what is resident. Batches are such
  that their rows could be appended one by one, and of one epoch each: `reload_cycle`
  shows why for `StoredDataLoads`, and a batch of several epochs can make its own rows
  loop between them (`topology.rs:363` checks the last edges only), so that
  `NeverCyclicAtAnyEpoch` carries the check of the present to the past and does not
  cover the hops within a batch.
- `server`: the setups put every two kinds of call that meet at a lock or a file
  side by side, with a third that makes a queue (a reader behind a waiting
  writer is where two locks could deadlock), over a path, a url and no storage,
  with and without an id column. Two starts give a crash at any step, or an
  orderly stop, and what the next start makes of it. A stream of two batches
  lets other calls in between them.
- `boundary`: two peers that may each hang one entity on the other, or hear two
  frames for it at one epoch, with one export under way while both trim; registries fed by claims under two
  spellings and aliases, and by forged payloads of one and two batches;
  kernels with a gap, without masses, and torn; every batch of two rows over
  frames that move, are lost, or are labels; batches and files with swapped,
  missing and untyped columns, mixed time scales, leap seconds and epochs at
  either end; a ledger without an id column, into which a file brings a frame that is no id; each configuration text at, below and above a limit of 255.

Bounds, all in the guards or the `.cfg`: `MaxEpoch`, `MaxPushed`, `MaxAppends`,
`Limits`, `Evictable`; `MaxBatches`, `MaxStarts`; `MaxLog`, `MaxExports`,
`MaxTrims`, `MaxPayloads`, `MaxSnapshots`, `MaxIntake`. `MaxOrbitSamples`,
`MaxCenturies` and `MaxUsize` are constants of the code, made small. Two
entities suffice for a cycle, for a swap and for rows that interleave in a
segment; a chain of two hops composes two poses. There is no symmetry: ids are
told apart by their byte order, calls by their kinds, kernels by their contents.

Deadlock checking is off throughout: every model stops when its epochs, appends,
calls or starts are used up. That the server's locks do not deadlock is
`CallsEnd`, which is stronger.

Fairness is stated twice. `Server` assumes weak fairness of each call's own steps
and of the main task's: the executor polls what can run, the blocking pool
finishes a download or reports a failure, and a lock that is free is given to
someone who waits. Nothing is assumed of clients (`Begin`, `Receive`), of the
operator (`Start`, `Sigterm`) or of faults. `Federation` assumes that each
`Sync` is run again as long as it would change something: "periodic re-sync
between two peers is the expected federation pattern" (`topology.rs:515`).
Everything else is sequential code whose operations return by themselves, and
everything checked of it is safety.

## Findings

Each is a violation run of its own.

- `missed_cycle`: the cycle check of `ingest_batch` walks the last staged event
  of each child; the commit keeps the edge of the highest epoch. A batch with a
  late row can be accepted and leave a cycle. `live_stream` shows, and
  `StaysAcyclic` proves, that the two agree when rows arrive in order. (The same
  mismatch also refuses late rows that would be harmless.)
- `trim_answers`: `parent_at` takes the last *logged* event, `trim_before` keeps
  the one of highest *epoch*; after a late row, a trim changes answers.
- `late_row`: `since` is the epoch of the last change of parent, so a row newer
  than `since` but older than the entity's newest row re-parents it.
- `reload_cycle`: a batch is checked as a whole, and stored in pieces. A piece
  on its own can close a cycle, and the saved file no longer loads.
  `StoredRowsLoad` and `HierarchyLoads` prove it of batches that cannot be cut so.
- `cache_tie`: at equal epochs the cache keeps the row appended first and the scan finds
  the one stored first (`ledger.rs:385-387`: "The two must never disagree"). A split can
  leave the later of the two alone in a segment with an old maximum; that segment is
  evicted first, and what is pinned is stored before everything else. A load then
  rebuilds the cache in storage order, and the answer changes.

Disagreements and surprises that no run shows, seen while reading. Each shapes a
property or a bound:

- `window_start` is "the epoch the ledger holds in full from" (`ledger.rs:567`), and
  after a load it is not: pinned rows come back as sealed segments, and the start
  reaches back to them over rows that were evicted. (a at 1, b at 1 to 4, a limit of 4
  rows: a's row is pinned, b's last one in the tail; after a load the window starts at
  1, and b's rows at 2 and 3 are gone.) Only `trim_before` uses it, which then
  trims less; queries and transforms answer from the rows. `TransformsAreTrue` is about
  those answers, over loads too, and `WindowIsFull` about the rows not gone at the load.
- `current_state` keeps the *first* stored of rows with equal epoch and priority
  (`ledger.rs:1043` against the comment at 962), which is why
  `CurrentStateSurvivesEviction` asks for one of the best rows. Of two rows of
  one id and epoch in a batch, Pass A keeps the first and Pass C ends on the last
  (`topology.rs:338`), which is why `EntityOrdered` excludes such ties.
- Merging a log again is not a no-op once the receiver has trimmed
  (`topology.rs:506-511`, "Idempotency"): trimmed events come back.
  `RedeliveryMovesNoEdge` says what is left of it.
- The doc of `query` (`ledger.rs:621-623`) wants all rows in one frame for a
  spatial filter; the code asks that of each segment. Segments in different
  frames are answered together, and `do_get` drops in silence (`service.rs:342`) a mixed
  one, and one with a frame that does not decode (`query.rs:137`), which a file can
  bring into a ledger without an id column. `QueriesAreExact` says what holds instead.
- `filter_batch` with an origin and no radius, which only a library caller can
  ask for, refuses mixed frames and filters nothing.
- A loaded file is measured under its rows' time scales, but `current_state`, the
  pose cache and the topology read its raw parts; `append` puts rows on TAI
  first. A loaded file is not validated either. Hence `~origin[k].loaded` in
  `StoredIsTheMomentSent` and `StoredDecodes`.
- `batches_for` takes J2000 from the ends of a queried range (`ledger.rs:361`);
  the filter compares epochs to which J2000 was added, saturating
  (`query.rs:96`). Of a range that ends at the end of time, the rows within J2000
  of it are in no segment that is read. Nothing else is hidden by saturation:
  `TicketsWithinTime` leaves out only ranges that end there.
- `source_id` is never validated: a batch with garbage there is stored, and then
  refused by every transform. Null frames are stored when there is no id column.
- Saves lose the topology that was imported from peers, and names are not kept
  at a url at all. A names file cut short by a crash makes a good ledger file
  unloadable (`ledger.rs:1081`), and the server starts empty. Two `save_ledger`
  calls under read locks can tear one file. `OrderlyRestartKeepsLedger` is about
  the rest.
- A configuration file that does not parse becomes the defaults: a server
  without storage. An id column other than `entity_id` needs a schema file, or
  the start panics (`state.rs:179`).
- `latest_snapshot` speaks of the most recent batch; after a seal that is a whole
  merged segment, and after a split the end of the last append.
- `vocabulary.rs:156-160` claims a short-circuit for equal units; positions
  always go through kilometres, `transform_batch` never calls it.

## Proofs

Assumptions: `KindsAssumption` (the kinds of ids are disjoint, the byte order is
an injection into the naturals, `None` is no id, edge or chain), `InputsAssumption`
(batches and logs are typed), `LedgerAssumption` (so are the ledger's, its bounds
are numbers, `None` is no segment, pose or resolved frame), `ServerAssumption`
(calls, `Main`, `None` and `Torn` are distinct, setups are typed),
`PeersAssumption` (a write is a batch of typed rows), `NamesAssumption` (lower
case is idempotent and keeps a text usable or not; a payload is batches of rows),
`ReprojectAssumption` (a batch is a sequence), `IntakeAssumption` (batches, files and
measurements are lists that fit their schemas; a conversion to TAI stays within
time and leaves TAI alone), `EphemerisAssumption` (requests are lists, of at most one
centre each; a period is divided exactly by the samples of an orbit, where the
code divides floating-point numbers), `StartupAssumption` (units are
positive and fit in a `usize`, a file has at most one text for the limit). None
bounds a set. Where a theorem needs more it says so: `Evictable = {None}` is that no
eviction fails; `OneClock` that the producers share one ordered stream;
`OneEpochBatches` that the rows of a batch have one epoch, as a tick of a
simulation or a snapshot has; `StepwiseMoves` that only the last row of a batch places
an entity below another (the rows before it below roots); `IsFiniteSet(Soloc)` that the ids in use are finitely
many, and they are 16 bytes long.

**The tree** (`LiveStreamProofs`, first part, on the lemmas of `TopologyProofs`):

- `TypeCorrect`: `Spec => []TypeOK`
- `LogStaysOrdered`: `Spec => []LogIsOrdered`
- `EdgesReplayFromLog`: `Spec => []LatestIsReplay`
- `NoRollback`: `Spec => NeverRollsBack`
- `CommitsPushOneByOne`: `Spec => CommitIsSequential`

The invariant is `SoundTree`: typed, positions distinct and none beyond the last
push, edges the replay of the log. The last alone is not inductive: without the
order, events of a commit could sort among those already logged and "in force"
would not be unique. What `ingest_batch` and `merge_log_batch` stage is
*positioned*, a finite set with distinct positions just beyond the log's
(`IngestedArePositioned`, `MergedArePositioned`, both from `RankOrder`: rank in a
finite strict total order is injective, bounded and monotone). So both reduce to
one lemma about commits (`CommitKeepsTree`), and `TrimKeepsTree` shows that a
trim keeps the event in force, because a trimmed event has a later one of the
same child. `NoRollback` adds that a commit never lowers `since`
(`CommitAdvances`). `CommitsPushOneByOne` ties the closed form to the code's loop: the
events take the places 1 to n in the order of their positions (`PlacesAreTaken`),
one more event turns the closed form for those before it into the one for all
(`OneMoreEvent`), and so the recursive function, whose existence is shown first, is
the closed form at every place (`OneByOne`).

**The tree in order** (`LiveStreamProofs`, second part):

- `StaysAcyclic`: `LiveSpec => []NeverCyclic`
- `RefusalsAreExact`: `LiveSpec => []RefusesExactlyCycles`
- `ImplementsHistory`: `LiveSpec => IsParentHistory`

The invariant adds to `SoundTree` that the log follows epochs (of two events of a
child, the later logged is the younger), that it says nothing of an epoch at
which the child published nothing, that a child has one row per epoch, that no
chain loops, and that every row which answers some epoch of the window is
*explained*: the last event of its child up to its epoch names its frame.
A batch in order continues the log (`CommitFollowsEpochs`), so the last staged
event of a child is the one the commit puts in force, and the check walks exactly
the edges that the commit leaves (`RefusalIsExact`): here the code's mismatch
between the two cannot show. That rows stay explained (`BatchIsExplained`) is
shown on a least counterexample: the oldest row of a batch that is not explained
would have had its event staged, its predecessor being explained. The refinement
reads `parent_at` of both sides off that.

**The ledger, fed anything** (`LedgerProofs`, on the lemmas of `SequenceProofs`):

- `LedgerTreeReplays`: `Spec => []TreeReplays`
- `CacheStaysCurrent`: `Spec => []CacheIsNewest`
- `LedgerIsTyped`: `Spec => []TypeOK`
- `ResidentIsTheSum`: `Spec => []ResidentIsSum`
- `LatestRowsAreKept`: `Spec => []LatestRowsKept`
- `RowsAreStoredOnce`: `Spec => []StoredOnce`
- `BudgetIsKept`: `Spec => []WithinBudget`, when no eviction fails
- `CurrentStateIsKept`: `Spec => []CurrentStateSurvivesEviction`
- `FastPathShowsTheNewest`: `Spec => []FastPathShowsNewest`

They hold of rows in any order and of every failure but the one named. The
invariant is `StoreIInv`: the tree and the cache are sound (`LedgerIInv`); the store
is typed and its byte count exact (`Balanced`), for a seal subtracts the bytes of
segments that it takes the count to hold; the stored rows are among the accepted
and none is there twice (`RowsInHand`); the rows at an entity's highest epoch are
all stored (`NewestInHand`); and a row's stamp is of an append already made, so that
the next append's rows are new. `LatestRowsKept` is not inductive alone: eviction
keeps what the *cache* calls latest, so the cache must be right, and it counts on
the row being in one place only. Both also give `FastPathShowsNewest`: the cached row is
a newest one, and a scan that goes past every epoch finds the newest stored, which
nobody evicted (`ScanSettles`); of tied rows they may be different ones.
`FlattenSeq`, the sums and `RemoveAt` are recursive
functions of the community modules; each is characterised by its value on the empty
sequence and on an appended element, and the rest goes by induction over sequences
(`SequencesByAppend`, itself from well-foundedness of the naturals: a set that has
the empty sequence and is closed under appending is `Seq(S)`). So: seals and splits,
failed or not, change where the rows are cut and never the sequence of rows, and an
eviction loses only rows that a younger row of the same entity replaces. The loop of
`EnforceLimit` is an induction on its count, and every property that one eviction
keeps is carried over it.

**The ledger in order** (`LiveLedgerProofs`):

- `LivePresentAgrees`: `LiveSpec => []TreeFollowsPose`
- `LiveLedgerStaysAcyclic`: `LiveSpec => []NeverCyclic`
- `RowsAgreeWithTree`: `LiveSpec => []StoredRowsAreExplained`
- `PresentIsKept`: `LiveSpec => []PresentTransformsSurvive`, for finitely many ids

`LiveIInv` adds to `StoreIInv` that the log follows epochs and lies within what the
cache has seen, that tree and cache name the same parent (which late rows break:
`late_row`), that an entity has one row per epoch, and that each stored row is
*explained* by the log. The trim is where the store and the tree meet: its window
opens at the oldest row outside `pinned`, an event that explains a row at or after it
is kept, and a pinned row is its entity's latest, whose event is never trimmed.
`ToldIInv` adds that the log tells, of each epoch it still has something to say of,
what the accepted rows say (`LogTells`).

**One clock, and reloads** (`LiveLedgerProofs`, with `OneClock`):

- `EvictionCutsTheOldEnd`: `RestartSpec => []WindowIsFull`
- `ResidentAfterRestart`: `RestartSpec => []ResidentIsSum` (without `OneClock`)
- `ReloadTellsThePresent`: `RestartSpec => []ReloadKeepsPresent`
- `PastStaysAcyclic`: `RestartSpec => []NeverCyclicAtAnyEpoch`, with `OneEpochBatches`
- `ComposedIsTrue`: `RestartSpec => []TransformsAreTrue`, for finitely many ids
- `StoredRowsLoad`: `RestartSpec => []StoredDataLoads`, with `StepwiseMoves`
- `HierarchyLoads`: `RestartSpec => []StoredDataLoads`, when every entity is only ever
  placed below one of a lower rank, for some ranking

With one clock the segments lie in the order of their epochs (`ClockIInv`:
`Recent`), so evicting the segment of the oldest maximum removes a front part and,
of the rows that were there at the last load or came since (`Held`), nothing younger
is ever missing. Before any load these are all rows; `Held` is what `WindowIsFull` speaks
of, and all that follow speak of every row ever appended: a load loses no row that is
its entity's newest (`NewestOfLeft`), and the rows it leaves of an entity are its last
ones (`LastRowsTell`). A load folds `ingest_batch` over the saved batches,
pinned rows first; the fold's invariant is that the tree so far is that of the rows
so far, and that those rows are the youngest of each entity.
`HistoryIInv` adds that the store holds the last rows of each entity that it holds
any of (`Suffix`), and that the log tells their history, also when it was just rebuilt.
`EpochIInv` adds that the accepted rows of any one epoch, taken with the last of each
other entity, never loop (`NoLoop`). A new snapshot changes only epochs at and after
its own, where the parents are the present ones, and for those `ingest_batch` has
just checked. Batches that mix epochs do loop in the past (TLC finds it with
`MCBatches`): the check looks at the present only.
A chain of parents is a recursive function on both sides, the code's `ancestry_at` on
the log and the model's `TrueChain` on the accepted rows. `ClimbsMeet` runs them side
by side, by induction on the number of entities not yet visited: hence the
finiteness, and each hop of the one either is a hop of the other or ends both. A hop's
pose then comes from the cache or the scan, and `CacheResolves` and
`ResolvesAlong` show that it is the row's that the hop came from.
A load replays whatever batches the stored rows were cut into, so `StoredRowsLoad`
must speak of every cut. `CutsIInv` adds to `ClockIInv` that wherever the stored rows
are cut in two, the rows before the cut are free of circles by the youngest row of
each entity (`Cuttable`). An append keeps that because a cut within its batch leaves
out the only row that could close one, and the check passed the whole batch
(`BatchKeepsCuts`); seals and splits do not move rows; an eviction takes a front part
and pins youngest rows only, so what is before a cut of the rest was, together with
rows that nothing younger replaced, before a cut of the whole (`EvictionKeepsCuts`).
The edges of a tree loop exactly where the youngest rows do (`FreeIsAcyclic`), so the
load passes each check, by induction over the batches (`CutsLoad`). `reload_cycle` is
what happens without `StepwiseMoves`; in a fixed hierarchy no rows form a circle, and
`HierarchyLoads` needs no such condition on a batch.

**The server** (`ServerProofs`):

- `LocksAreHeld`: `Spec => []HoldsWhatItUses`
- `LimitHolds`: `Spec => []LimitStaysInForce`
- `SavesHold`: `Spec => SavesAreSound`
- `RestartKeeps`: `Spec => OrderlyRestartKeepsLedger`
- `Implements`: `Spec => IsLedgerService`

all from `Invariance`, `Spec => []IInv`, for any number of calls of any kinds.
`IInv` joins: the types; which kinds of call come to which step (`RouteOK`, so
that a lock's purpose is known from where a call is); a writer is alone, and an
exchange that waits for the ledger still holds the almanac it read (`LocksOK`);
the main task saves when no call is in flight (`PhasesOK`); files hold what was
saved, rows are batches their calls counted, and a call that saves or loads
knows something of both (`StoresOK`); the limit since the start (`LimitOK`); and
what the main task has written so far (`PersistedOK`). A step of one call leaves
the others where they are with what they hold (`CallStepIsLocal`), so that each
action is shown to keep its own call's part, and then what it wrote. The
counting in `StoresOK` makes every appended token new, which `Add` of the
abstract server demands; `saved` makes a load one of its `Replace` steps.

**Federation** (`BoundaryProofs`):

- `EdgesFollowWhatWasHeard`: `FederationSpec => []EdgeIsYoungestKnown`
- `RedeliveryIsHarmless`: `FederationSpec => []RedeliveryMovesNoEdge`
- `PeersAgree`: `FederationSpec => []AgreeWhereNothingTies`

for any ledgers, writes and channel. An edge cannot be read off a log that is
trimmed, so the invariant speaks of `known`, what a ledger ever logged: the trees
are sound, a log's facts are known, all of them still logged unless the ledger
trimmed, and each edge is one of the youngest known (`Youngest`). An export
numbers the events of a log by rank, which is a bijection, so its rows state
exactly the log's facts (`ExportStatesFacts`); a commit's winner is the youngest
of what it adds and of the edge it meets (`CommitKeepsYoungest`); a trim removes
from the log and not from `known`. `PeersAgree` is what convergence rests on:
ledgers that heard the same agree without a coordinator, unless two of the
youngest facts tie, and then each may keep the one that it heard last.

**Names** (`BoundaryProofs`):

- `OnlyMintedNames`: `NamesSpec => []BindingsMint`
- `NamesAgree`: `NamesSpec => []DisplaysAgree`
- `ImportsAreAllOrNothing`: `NamesSpec => ImportIsAllOrNothing`

The invariant: a registry is finite and each of its bindings is *minted*, and
what is exported is a payload. A binding is kept under the authority in lower
case, which mints the same id (`BoundMints`). A payload's rows are finitely many
and one of those with an id comes last (`PayloadHasLastRows`), so what is applied
is a row that was verified. The name of a minted binding is a function of the id
unless the frame has a name of its own (`MintedName`), hence `NamesAgree`.

**Intake** (`IntakeProofs`):

- `StoredRowsSayWhatWasSent`: `IntakeSpec => []StoredIsWhatWasSent`
- `QueriesFindTheRowsAskedFor`: `IntakeSpec => []QueriesAreExact`

for any schemas, batches, measurements, files and tickets, and any length of a
century and of time. The invariant (`Holds`): the ledger's schema is one that
a batch can be read by; each segment has that schema, its recorded range bounds the
measured epochs of its rows (`MeasuredSegment`), and it is faithful to the batch it came
from, column by column and moment by moment (`Faithful`). Conformance looks a
column up by name in one schema and stores it at another position, so the proof is
about two sequences of columns and the names they share; normalisation replaces
three columns of a row and must leave the others where they are. A query then is
exact because pruning is sound: a row within the range puts its segment within the
range moved by J2000, also where one of the two sums saturates, provided that
the range ends before time does (`RangeFinds`). A segment that is not read answers
nothing, and a mask flattened over the segments read is the mask over all
(`AnswersOfChosen`).

**Ephemeris** (`BoundaryProofs`):

- `AlmanacAnswersWhole`: `EphemerisSpec => []AlmanacAnswersAreWhole`

The invariant: only kernels are loaded, each snapshot is `Whole` (as many rows as
bodies were asked for, each of its body at its epoch), and each answer about orbits
is `Answered` (the k-th row is of the k-th request, and its path has the number of
samples asked for, evenly over one period). The builders add rows one at a time to
several columns; that they stay level and in the order of the request is an
induction over the list.

**Reprojection** (`BoundaryProofs`):

- `CachesAreNotSeen`: `ReprojectSpec => []TransformsRowByRow`

for any resolver. The invariant is that a cache holds under each key what would be
computed for that key now (`CachesAreTrue`): so a key must hold all that the
answer depends on within a call. `RowIsAsAlone` follows a row through its stages.

**Startup** (`BoundaryProofs`):

- `StartsRight`: `StartupInit /\ [][StartupNext]_startupVars => []StartsAsConfigured`

The invariant follows `main`: while loading nothing is in use, while opening the
configuration is the one that the environment gives, the limit is what its one text
parses to, and the kernels are those of one source. The product is taken without
wrapping (`ParseByteSize` refuses what does not fit a `usize`).

Only model-checked: `CallsEnd`, `DrainEnds` and `PeersConverge`, which are liveness
under fairness. What convergence rests on is proved (`PeersAgree`). Every invariant
and every action property that a passing run checks is a theorem.

## Not modelled

- Poses, isometries and elements as numbers, and what anise and hifitime compute:
  floating point, other libraries. That each is asked the right question and its
  answer put in the right place is modelled.
- Arrow's encoding, SHA-256, the bytes of a UUID: each by the one thing the code
  relies on (a file gives back its batches, no collisions, a kind can be read).
- Requests that do not parse: they are answered before anything is touched.
- `latest_snapshot`, a read of the newest segment; eviction on a ledger without
  an id column, to which no limit can be given.
- The visualizer: a single-threaded reader whose topology port repeats code that
  is modelled. The simulation study, examples, CI and rendering: no state of
  interest.

## Plan

Open is the reading side that no property speaks of: `latest_snapshot`, whose
answer depends on where seals and splits last cut, and the visualizer's topology,
which could be shown to be a second implementation of `TransformTree`.
