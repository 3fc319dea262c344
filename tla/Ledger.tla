------------------------------- MODULE Ledger -------------------------------
(***************************************************************************)
(* soloc_ledger::Ledger: an append-only store of row batches in segments,  *)
(* the caches derived from them, and eviction under a memory limit.        *)
(*                                                                         *)
(* A segment is its rows and its measured bytes.  Bytes are counted in     *)
(* rows: a copied segment holds one unit per row, a batch stored as it was *)
(* decoded holds Overhead units more (its IPC body).                       *)
(***************************************************************************)
EXTENDS Topology, SequencesExt

CONSTANTS
    Priorities,             \* EstimateType::priority values, the lowest wins
    Batches,                \* the batches a client may append
    PeerLogs,               \* the exported logs a client may merge
    Limits,                 \* the memory limits an operator may set, None lifts it
    SegmentThreshold,       \* SEGMENT_THRESHOLD: batches the tail may hold
    SegmentTargetBytes,     \* SEGMENT_TARGET_BYTES
    SegmentsPerLimit,       \* SEGMENTS_PER_LIMIT
    CurrentStateWindow,     \* CURRENT_STATE_WINDOW_NS
    Overhead,
    CopiesMayFail,          \* whether the copies of a seal or a split may fail
    Evictable,              \* how many evictions of one call succeed before one
                            \* fails, None when none does
    MaxAppends, MaxPushed   \* bounds: batches ever appended, events ever pushed

\* A row as sent, and as stored: `pose` is (append, row number) and stands for
\* the columns (position, quaternion, covariance, source) nothing here reads.
SentRow == [id : Id, frame : Id, epoch : Epoch, priority : Priorities]
StoredRow == [id : Id, frame : Id, epoch : Epoch, priority : Priorities, pose : Nat \X Nat]

SegmentType == [rows : Seq(StoredRow), bytes : Nat]

Pose == [parent : Id, pose : Nat \X Nat, epoch : Epoch]
Resolved == [parent : Id, pose : Nat \X Nat]

ASSUME LedgerAssumption ==
    /\ None \notin Pose /\ None \notin SegmentType /\ None \notin Resolved
    /\ Priorities \subseteq Nat
    /\ Batches \subseteq Seq(SentRow)
    /\ PeerLogs \subseteq Seq(Fact)
    /\ Limits \subseteq Nat \cup {None}
    /\ SegmentThreshold \in Nat /\ SegmentTargetBytes \in Nat \ {0}
    /\ SegmentsPerLimit \in Nat \ {0}
    /\ CurrentStateWindow \in Nat
    /\ Overhead \in Nat /\ MaxAppends \in Nat /\ MaxPushed \in Nat
    /\ CopiesMayFail \in BOOLEAN /\ Evictable \subseteq Nat \cup {None}

VARIABLES
    store,          \* [pinned, segments, tail, resident]
    limit,          \* memory_limit
    latestPose,     \* entity -> [parent, pose, epoch], the pose cache, or None
    latest, log, pushed,    \* the transform tree and its next log position
    appended,       \* how many batches were ever appended
    accepted        \* history: every row ever appended

tree == <<latest, log, pushed>>
ledgerVars == <<store, limit, latestPose, tree, appended, accepted>>

-----------------------------------------------------------------------------
(* Segments. *)

Decoded(rows) == [rows |-> rows, bytes |-> Len(rows) + Overhead]
Copied(rows) == [rows |-> rows, bytes |-> Len(rows)]

EpochsOf(seg) == {seg.rows[i].epoch : i \in DOMAIN seg.rows}
\* Segment::new folds from Duration::MIN: an empty batch has a max_epoch below every
\* real epoch.
MaxEpochOf(seg) == Max(EpochsOf(seg) \cup {-1})

Bytes(segs) == FoldLeft(LAMBDA sum, seg : sum + seg.bytes, 0, segs)
Rows(segs) == FlattenSeq([k \in DOMAIN segs |-> segs[k].rows])

AllSegments(s) == (IF s.pinned = None THEN <<>> ELSE <<s.pinned>>) \o s.segments \o s.tail
AllRows(s) == Rows(AllSegments(s))
StoredRows(s) == ToSet(AllRows(s))

SegmentTarget(lim) ==
    IF lim = None THEN SegmentTargetBytes
    ELSE Min({Max({lim \div SegmentsPerLimit, 1}), SegmentTargetBytes})

WithinTarget(bytes, target) == bytes <= target + target \div 8

\* split_oversized: the segment itself, or copied chunks in row order.
SplitOversized(seg, target) ==
    IF WithinTarget(seg.bytes, target) \/ Len(seg.rows) < 2 THEN <<seg>>
    ELSE LET chunk == Max({(Len(seg.rows) * target) \div seg.bytes, 1})
         IN  [k \in 1..((Len(seg.rows) + chunk - 1) \div chunk) |->
                 Copied(SubSeq(seg.rows, (k - 1) * chunk + 1, Min({k * chunk, Len(seg.rows)})))]

-----------------------------------------------------------------------------
(* push_segment: the tail, its seal, and eviction. *)

\* Bug: the merged segments are pushed and the tail is not cleared.
SealKeepingTail(s, target, copyOk) ==
    LET sealed == SplitOversized(Copied(Rows(s.tail)), target)
    IN  IF Len(s.tail) <= SegmentThreshold THEN s
        ELSE [s EXCEPT !.segments = @ \o sealed, !.resident = @ + Bytes(sealed)]

\* Bug: the tail is discounted before its copy is known to succeed.
SealDiscounting(s, target, copyOk) ==
    IF Len(s.tail) > SegmentThreshold /\ ~copyOk
    THEN [s EXCEPT !.resident = @ - Bytes(s.tail)]
    ELSE s

\* seal_tail_if_needed.  A failed copy leaves the tail unsealed.
SealTail(s, target, copyOk) ==
    LET tailBytes == Bytes(s.tail)
        whole == IF Len(s.tail) = 1 THEN s.tail[1] ELSE Copied(Rows(s.tail))
        sealed == SplitOversized(whole, target)
        copies == Len(s.tail) > 1 \/ Len(sealed) > 1
    IN  IF \/ Len(s.tail) <= SegmentThreshold /\ tailBytes <= target
           \/ copies /\ ~copyOk
        THEN s
        ELSE [s EXCEPT !.segments = @ \o sealed,
                       !.tail = <<>>,
                       !.resident = @ - tailBytes + Bytes(sealed)]

\* Bug: the split returns at the first failure, with the segments it took out.
SplitOrLose(s, target, stuck) ==
    IF stuck = {} THEN s
    ELSE LET done == SubSeq(s.segments, 1, Min(stuck) - 1)
         IN  [s EXCEPT !.segments = done, !.resident = @ - Bytes(s.segments) + Bytes(done)]

\* Bug: the chunks are not measured again.
SplitUnmeasured(s, target, stuck) ==
    [s EXCEPT !.segments = FlattenSeq([k \in DOMAIN s.segments |-> SplitOversized(s.segments[k], target)])]

\* split_sealed_segments.  The segments that fail to split (`stuck`) are kept whole.
SplitSealed(s, target, stuck) ==
    LET parts == [k \in DOMAIN s.segments |->
                     IF k \in stuck THEN <<s.segments[k]>>
                     ELSE SplitOversized(s.segments[k], target)]
        split == FlattenSeq(parts)
    IN  [s EXCEPT !.segments = split,
                  !.resident = @ - Bytes(s.segments) + Bytes(split)]

\* Bug: one row per entity is kept, the cached one.
StillCached(poses, rows) == SelectSeq(rows, LAMBDA r : poses[r.id] # None /\ r.pose = poses[r.id].pose)

\* still_latest: every row at its entity's cached epoch.
StillLatest(poses, rows) ==
    LET still(r) == poses[r.id] # None /\ r.epoch = poses[r.id].epoch
    IN  FlattenSeq([i \in DOMAIN rows |-> IF still(rows[i]) THEN <<rows[i]>> ELSE <<>>])

\* The sealed segment with the oldest max_epoch, the first one on ties.
OldestSegment(segs) ==
    CHOOSE i \in DOMAIN segs : \A j \in DOMAIN segs :
        \/ MaxEpochOf(segs[i]) < MaxEpochOf(segs[j])
        \/ MaxEpochOf(segs[i]) = MaxEpochOf(segs[j]) /\ i <= j

\* Bug: the new pinned rows replace the old ones.
EvictReplacingPins(s, poses) ==
    LET i == OldestSegment(s.segments)
        kept == StillLatest(poses, s.segments[i].rows)
    IN  [s EXCEPT !.segments = RemoveAt(@, i),
                  !.pinned = IF kept = <<>> THEN None ELSE Copied(kept)]

\* Bug: the old pinned rows are not filtered again.
EvictKeepingPins(s, poses) ==
    LET i == OldestSegment(s.segments)
        kept == (IF s.pinned = None THEN <<>> ELSE s.pinned.rows) \o StillLatest(poses, s.segments[i].rows)
    IN  [s EXCEPT !.segments = RemoveAt(@, i),
                  !.pinned = IF kept = <<>> THEN None ELSE Copied(kept),
                  !.resident = @ - s.segments[i].bytes + Len(kept)
                                 - (IF s.pinned = None THEN 0 ELSE s.pinned.bytes)]

\* evict_oldest_segment: the rows still latest move behind the pinned ones, and
\* pinned rows that a later row has superseded go.
EvictOldest(s, poses) ==
    LET i == OldestSegment(s.segments)
        victim == s.segments[i]
        survivors == StillLatest(poses, victim.rows)
        kept == IF s.pinned = None THEN survivors
                ELSE StillLatest(poses, s.pinned.rows \o survivors)
        pinned == IF kept = <<>> THEN None ELSE Copied(kept)
    IN  [s EXCEPT !.segments = RemoveAt(@, i),
                  !.pinned = pinned,
                  !.resident = @ - victim.bytes
                                 - (IF s.pinned = None THEN 0 ELSE s.pinned.bytes)
                                 + (IF pinned = None THEN 0 ELSE pinned.bytes)]

\* Bug: one eviction per call.
EvictOnce(s, lim, poses, evictable) ==
    IF lim = None \/ s.resident <= lim \/ s.segments = <<>> THEN s ELSE EvictOldest(s, poses)

\* The eviction loop of enforce_memory_limit: it stops within budget, or with no
\* sealed segment left, or at an eviction that fails.
EnforceLimit(s, lim, poses, evictable) ==
    IF lim = None THEN s
    ELSE LET sealed == Len(s.segments)
             most == IF evictable = None THEN sealed ELSE Min({evictable, sealed})
             after[n \in 0..most] ==
                IF n = 0 THEN s ELSE EvictOldest(after[n - 1], poses)
         IN  after[Min({n \in 0..most : after[n].resident <= lim} \cup {most})]

\* Bug: the pinned rows open the window.
PinnedStart(s) ==
    LET epochs == UNION {EpochsOf(seg) : seg \in ToSet(AllSegments(s))}
    IN  IF epochs = {} THEN None ELSE Min(epochs)

\* window_start: the oldest row outside `pinned`, or None.
WindowStart(s) ==
    LET epochs == UNION {EpochsOf(seg) : seg \in ToSet(s.segments \o s.tail)}
    IN  IF epochs = {} THEN None ELSE Min(epochs)

\* Bug: the trim drops the edges in force when the window opens.
TrimmedBareLog(events, s, t) ==
    IF Len(t.segments) < Len(s.segments) /\ WindowStart(t) # None
    THEN {e \in events : e.epoch >= WindowStart(t)}
    ELSE events

\* The topology log once enforce_memory_limit has taken the store from s to t.
TrimmedLog(events, s, t) ==
    IF Len(t.segments) < Len(s.segments) /\ WindowStart(t) # None
    THEN events \ Trimmed(events, WindowStart(t))
    ELSE events

-----------------------------------------------------------------------------
(* Operations. *)

Stamped(batch, n) ==
    [r \in DOMAIN batch |-> [id |-> batch[r].id, frame |-> batch[r].frame,
                             epoch |-> batch[r].epoch, priority |-> batch[r].priority,
                             pose |-> <<n + 1, r>>]]

\* update_pose_cache: a strictly later best row replaces the cached pose.
UpdatePoseCache(poses, rows) ==
    [c \in Id |->
        IF c \notin IdsIn(rows) THEN poses[c]
        ELSE LET best == rows[BestRow(rows, c)]
             IN  IF poses[c] # None /\ best.epoch <= poses[c].epoch THEN poses[c]
                 ELSE [parent |-> best.frame, pose |-> best.pose, epoch |-> best.epoch]]

Init ==
    /\ store = [pinned |-> None, segments |-> <<>>, tail |-> <<>>, resident |-> 0]
    /\ limit = None
    /\ latestPose = [c \in Id |-> None]
    /\ latest = [c \in Id |-> None] /\ log = {} /\ pushed = 0
    /\ appended = 0
    /\ accepted = {}

\* append.  A batch that uses an abstract id or closes a cycle is refused and
\* nothing changes.
AppendBatch(batch, copyOk, evictable) ==
    LET rows == Stamped(batch, appended)
        evs == EventsOf(latest, rows, pushed)
        segment == Decoded(rows)
        grown == [store EXCEPT !.tail = Append(@, segment), !.resident = @ + segment.bytes]
        sealed == SealTail(grown, SegmentTarget(limit), copyOk)
    IN  /\ appended < MaxAppends
        /\ ~UsesAbstract(batch)
        /\ ~StagedCycle(latest, evs)
        /\ latest' = ApplyEvents(latest, evs)
        /\ pushed' = pushed + Cardinality(evs)
        /\ latestPose' = UpdatePoseCache(latestPose, rows)
        /\ store' = EnforceLimit(sealed, limit, latestPose', evictable)
        /\ log' = TrimmedLog(log \cup evs, sealed, store')
        /\ appended' = appended + 1
        /\ accepted' = accepted \cup ToSet(rows)
        /\ UNCHANGED limit

SetMemoryLimit(lim, stuck, evictable) ==
    LET split == SplitSealed(store, SegmentTarget(lim), stuck)
    IN  /\ limit' = lim
        /\ store' = EnforceLimit(split, lim, latestPose, evictable)
        /\ log' = TrimmedLog(log, split, store')
        /\ UNCHANGED <<latestPose, latest, pushed, appended, accepted>>

MergeTopology(peer) ==
    LET evs == MergedEvents(log, peer, pushed)
    IN  /\ pushed + Cardinality(evs) <= MaxPushed
        /\ CheckAcyclic(ApplyEvents(latest, evs))
        /\ latest' = ApplyEvents(latest, evs)
        /\ log' = log \cup evs
        /\ pushed' = pushed + Cardinality(evs)
        /\ UNCHANGED <<store, limit, latestPose, appended, accepted>>

\* Whether a seal copies, and which sealed segments fail to split.
CopyOutcomes == IF CopiesMayFail THEN BOOLEAN ELSE {TRUE}
SplitFailures == IF CopiesMayFail THEN SUBSET DOMAIN store.segments ELSE {{}}

Next ==
    \/ \E batch \in Batches, copyOk \in CopyOutcomes, evictable \in Evictable :
          AppendBatch(batch, copyOk, evictable)
    \/ \E lim \in Limits, stuck \in SplitFailures, evictable \in Evictable :
          SetMemoryLimit(lim, stuck, evictable)
    \/ \E peer \in PeerLogs : MergeTopology(peer)

Spec == Init /\ [][Next]_ledgerVars

-----------------------------------------------------------------------------
(* Reads. *)

\* resolve_frame_at: the cached pose when it is not after `epoch`, otherwise a
\* scan in storage order that only a strictly later row moves.
Scanned(c, epoch) ==
    LET rows == AllRows(store)
        hits == {i \in DOMAIN rows : rows[i].id = c /\ rows[i].epoch <= epoch}
        best == CHOOSE i \in hits : \A j \in hits :
                    \/ rows[j].epoch < rows[i].epoch
                    \/ rows[j].epoch = rows[i].epoch /\ i <= j
    IN  IF hits = {} THEN None ELSE [parent |-> rows[best].frame, pose |-> rows[best].pose]

\* Bug: the fast path answers whatever the epoch asked for.
ResolveCached(c, epoch) ==
    IF latestPose[c] # None THEN [parent |-> latestPose[c].parent, pose |-> latestPose[c].pose]
    ELSE Scanned(c, epoch)

ResolveFrameAt(c, epoch) ==
    IF latestPose[c] # None /\ latestPose[c].epoch <= epoch
    THEN [parent |-> latestPose[c].parent, pose |-> latestPose[c].pose]
    ELSE Scanned(c, epoch)

\* accumulate_poses_to_root: the chain comes from the topology, each hop's pose
\* from resolve_frame_at, whose own parent is dropped.
ResolveToRoot(c, epoch) ==
    LET chain == AncestryAt(latest, log, c, epoch)
        hops == SubSeq(chain, 1, Len(chain) - 1)
    IN  IF chain = None \/ \E k \in DOMAIN hops : ResolveFrameAt(hops[k], epoch) = None THEN None
        ELSE [root  |-> Last(chain),
              poses |-> [k \in DOMAIN hops |-> ResolveFrameAt(hops[k], epoch).pose]]

\* latest_stored_duration
LatestStored == Max({MaxEpochOf(seg) : seg \in ToSet(AllSegments(store))})

\* current_state, one entity: the highest epoch at or after the cutoff, then the
\* lowest priority value, then the first in storage order.
CurrentState(c, cutoff) ==
    LET rows == AllRows(store)
        hits == {i \in DOMAIN rows : rows[i].id = c /\ rows[i].epoch >= cutoff}
        loses(j, i) == \/ rows[j].epoch < rows[i].epoch
                       \/ rows[j].epoch = rows[i].epoch /\ rows[j].priority > rows[i].priority
                       \/ /\ rows[j].epoch = rows[i].epoch
                          /\ rows[j].priority = rows[i].priority
                          /\ i <= j
    IN  IF hits = {} THEN None ELSE rows[CHOOSE i \in hits : \A j \in hits : loses(j, i)]

DefaultCutoff == LatestStored - CurrentStateWindow

-----------------------------------------------------------------------------
(* What holds for any rows in any order. *)

TypeOK ==
    /\ store.pinned \in SegmentType \cup {None}
    /\ store.segments \in Seq(SegmentType)
    /\ store.tail \in Seq(SegmentType)
    /\ store.resident \in Nat
    /\ limit \in Nat \cup {None}
    /\ latestPose \in [Id -> Pose \cup {None}]
    /\ latest \in [Id -> Edge \cup {None}]
    /\ log \subseteq Event
    /\ pushed \in Nat /\ appended \in Nat
    /\ accepted \subseteq StoredRow

OfEntity(rows, c) == {r \in rows : r.id = c}
NewestOf(rows) == {r \in rows : \A q \in rows : q.epoch <= r.epoch}

\* resident_bytes is maintained by differences at a push, a seal, a split and
\* each eviction; it is always the sum over what is stored, so no difference
\* underflows the usize and the limit bounds the real total.
ResidentIsSum == store.resident = Bytes(AllSegments(store))

\* Eviction's promise: of every entity, every row at its highest epoch ever
\* appended is still stored, whatever was sealed, split, pinned, re-filtered
\* and evicted in between, and whichever of those copies failed.
LatestRowsKept ==
    \A c \in Id : NewestOf(OfEntity(accepted, c)) \subseteq StoredRows(store)

\* Moving rows between tail, segments and pinned never duplicates one.
StoredOnce ==
    LET rows == AllRows(store)
    IN  \A i, j \in DOMAIN rows : rows[i] = rows[j] => i = j

\* Where the cache answers, it shows one of the entity's newest rows ever appended,
\* and the scan it stands for would show one of them too, found in what eviction
\* left: the same row, unless several rows tie for the newest.
FastPathShowsNewest ==
    \A c \in Id, t \in Epoch :
        latestPose[c] # None /\ latestPose[c].epoch <= t =>
            {ResolveFrameAt(c, t), Scanned(c, t)} \subseteq
                {[parent |-> r.frame, pose |-> r.pose] : r \in NewestOf(OfEntity(accepted, c))}

\* current_state with its default staleness window answers as if nothing had ever
\* been evicted: an entity whose newest row is recent enough, counted from the
\* newest row ever appended, shows a row of that epoch and of the best estimate
\* type among all its rows of that epoch; any other entity shows nothing.
CurrentStateSurvivesEviction ==
    accepted # {} =>
        LET newestEver == Max({r.epoch : r \in accepted})
        IN  \A c \in Id :
                LET candidates == {r \in NewestOf(OfEntity(accepted, c)) :
                                      r.epoch >= newestEver - CurrentStateWindow}
                    shown == CurrentState(c, DefaultCutoff)
                IN  IF candidates = {} THEN shown = None
                    ELSE /\ shown \in candidates
                         /\ \A r \in candidates : shown.priority <= r.priority

\* Unless copies fail, the ledger is over budget only by the unsealed tail and the
\* pinned rows: no sealed segment is left when it is.
WithinBudget ==
    limit # None /\ store.resident > limit => store.segments = <<>>

\* What TransformTree's operations keep, the ledger's use of them keeps as well:
\* `latest` is the replay of the log through appends, merges and the trims that
\* eviction runs with the store's own window.
Tree == INSTANCE TransformTree
TreeReplays == Tree!LatestIsReplay /\ Tree!LogIsOrdered

-----------------------------------------------------------------------------
(* Claims of the comments that hold when entities publish in order (LiveLedger), *)
(* and not when rows of one epoch, or late rows, arrive.                         *)

\* The cache's fast path and the scan it replaces agree at every epoch the fast
\* path answers ("The two must never disagree").
CacheAgreesWithScan ==
    \A c \in Id, t \in Epoch :
        latestPose[c] # None /\ latestPose[c].epoch <= t => ResolveFrameAt(c, t) = Scanned(c, t)

\* "Same tie-break as Pass A", and "`latest` is the O(1) fast path for 'who is X's
\* parent right now'": the entity's current parent is the frame of its newest row.
TreeFollowsPose ==
    \A c \in Id : latestPose[c] # None => ParentOf(latest, c) = latestPose[c].parent
=============================================================================
