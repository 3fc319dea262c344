-------------------------- MODULE LiveLedgerProofs --------------------------
(***************************************************************************)
(* Theorems about LiveLedger and LedgerRestart, for every set of ids and   *)
(* batches, every limit, failure and number of restarts: what the rows,    *)
(* the pose cache and the transform tree of a ledger tell is the same      *)
(* story, of the present and of what is left of the past, and a load       *)
(* tells it again from the rows alone.                                     *)
(*                                                                         *)
(* The inductive invariants, one on top of the other: LiveIInv, of         *)
(* entities that publish in the order of their epochs, and ToldIInv, which *)
(* adds that the event log tells of every row ever accepted; then, of one  *)
(* clock for all the entities and over reloads too, ClockIInv, CutsIInv    *)
(* (no cut of the stored rows leaves a circle), HistoryIInv (the store     *)
(* holds the youngest of the rows accepted) and, of snapshots on that      *)
(* clock, EpochIInv.                                                       *)
(***************************************************************************)
EXTENDS LedgerRestart, LedgerProofs

-----------------------------------------------------------------------------
(* Rows in the order of their epochs: what tree, cache and rows know together. *)

\* An entity has one row per epoch.
OneRowPerEpoch(rows) == \A q, r \in rows : q.id = r.id /\ q.epoch = r.epoch => q = r

\* The log has no event younger than the cached pose of its child.
WithinCache(events, poses) ==
    \A e \in events : poses[e.child] # None /\ e.epoch <= poses[e.child].epoch

\* An entity's current parent is the one its cached pose is relative to.
Follows(edges, poses) == \A c \in Id : poses[c] # None => ParentOf(edges, c) = poses[c].parent

\* Tree, log, cache and rows tell the same story.
Agreed(edges, events, n, poses, rows) ==
    /\ SoundTree(edges, events, n)
    /\ rows \subseteq StoredRow
    /\ IsNewest(poses, rows)
    /\ OneRowPerEpoch(rows)
    /\ FollowsEpochs(events)
    /\ WithinCache(events, poses)
    /\ Follows(edges, poses)

LiveRecords(edges, events, n, poses, rows) ==
    Agreed(edges, events, n, poses, rows) /\ CheckAcyclic(edges)

\* The batch continues the stream of each of its entities.
InOrder(poses, batch) ==
    /\ \A r \in DOMAIN batch :
          poses[batch[r].id] # None => batch[r].epoch > poses[batch[r].id].epoch
    /\ \A q, r \in DOMAIN batch :
          batch[q].id = batch[r].id /\ batch[q].epoch = batch[r].epoch => q = r

LEMMA OrderContinuesLog ==
    ASSUME NEW edges, NEW events, NEW n, NEW poses, NEW rows, LiveRecords(edges, events, n, poses, rows),
           NEW batch \in Seq(StoredRow), InOrder(poses, batch)
    PROVE  ContinuesLog(events, batch)
<1>1. \A q, r \in DOMAIN batch : batch[q].id = batch[r].id /\ batch[q].epoch = batch[r].epoch => q = r
  BY DEF InOrder
<1>2. ASSUME NEW r \in DOMAIN batch, NEW f \in events, f.child = batch[r].id
      PROVE  f.epoch < batch[r].epoch
  <2>1. poses[f.child] # None /\ f.epoch <= poses[f.child].epoch
    BY DEF LiveRecords, Agreed, WithinCache
  <2>2. batch[r].epoch > poses[f.child].epoch
    BY <1>2, <2>1 DEF InOrder
  <2>3. batch[r].epoch \in Nat
    BY RowNumbers, RowsAreTyped
  <2>4. f.child \in Id /\ f.epoch \in Nat
    BY DEF LiveRecords, Agreed, SoundTree, Typed, Event, Epoch
  <2>5. poses[f.child].epoch \in Nat
    <3>1. rows \in SUBSET StoredRow /\ IsNewest(poses, rows)
      BY DEF LiveRecords, Agreed
    <3> QED
      BY <2>1, <2>4, <3>1, CachedEpoch
  <2> QED
    BY <2>1, <2>2, <2>3, <2>4, <2>5
<1> QED
  BY <1>1, <1>2 DEF ContinuesLog

\* A batch in order moves the cached pose of each of its entities to the batch's
\* youngest row.
LEMMA OrderMovesCache ==
    ASSUME NEW poses, NEW rows \in SUBSET StoredRow, IsNewest(poses, rows),
           NEW batch \in Seq(StoredRow), InOrder(poses, batch), NEW c \in Id
    PROVE  LET now == UpdatePoseCache(poses, batch)[c]
           IN  IF c \notin IdsIn(batch) THEN now = poses[c]
               ELSE \E best \in ToSet(batch) :
                       /\ best = batch[BestRow(batch, c)] /\ BestRow(batch, c) \in RowsOf(batch, c)
                       /\ best \in StoredRow /\ best.id = c /\ best.epoch \in Nat
                       /\ \A q \in ToSet(batch) : q.id = c => q.epoch <= best.epoch
                       /\ now # None /\ now = PoseOf(best)
                       /\ poses[c] # None => poses[c].epoch < best.epoch /\ poses[c].epoch \in Nat
<1> DEFINE now == UpdatePoseCache(poses, batch)[c]
<1>1. CASE c \notin IdsIn(batch)
  BY <1>1, CacheMoves
<1>2. CASE c \in IdsIn(batch)
  <2>1. PICK best \in ToSet(batch) :
           /\ best = batch[BestRow(batch, c)] /\ BestRow(batch, c) \in RowsOf(batch, c)
           /\ best \in StoredRow /\ best.id = c /\ best.epoch \in Nat
           /\ PoseOf(best) \in Pose /\ PoseOf(best) # None
           /\ \A q \in ToSet(batch) : q.id = c => q.epoch <= best.epoch
           /\ now = IF poses[c] # None /\ best.epoch <= poses[c].epoch THEN poses[c] ELSE PoseOf(best)
    BY <1>2, CacheMoves
  <2> HIDE DEF now
  <2>2. poses[c] # None => poses[c].epoch < best.epoch /\ poses[c].epoch \in Nat
    <3>1. SUFFICES ASSUME poses[c] # None PROVE poses[c].epoch < best.epoch /\ poses[c].epoch \in Nat
      OBVIOUS
    <3>2. poses[c].epoch \in Nat
      BY <3>1, CachedEpoch
    <3>3. best.epoch > poses[c].epoch
      <4>1. BestRow(batch, c) \in DOMAIN batch
        BY <2>1 DEF RowsOf
      <4> QED
        BY <2>1, <3>1, <4>1 DEF InOrder
    <3> QED
      BY <2>1, <3>2, <3>3
  <2>3. now = PoseOf(best)
    BY <2>1, <2>2
  <2>4. now # None
    BY <2>1, <2>3
  <2> QED
    BY <1>2, <2>1, <2>2, <2>3, <2>4 DEF now
<1> QED
  BY <1>1, <1>2

\* What the events that a batch stages do to the tree and the log.
Continued(edges, events, n, batch) ==
    LET evs == EventsOf(edges, batch, n)
    IN  /\ Positioned(evs, n)
        /\ FollowsEpochs(events \cup evs)
        /\ SoundTree(ApplyEvents(edges, evs), events \cup evs, n + Cardinality(evs))
        /\ ~StagedCycle(edges, evs) => CheckAcyclic(ApplyEvents(edges, evs))
        /\ \A r \in ToSet(batch) : Explains(events \cup evs, r)
        /\ \A e \in evs : /\ e.child \in Id /\ e.epoch \in Nat
                          /\ \E r \in ToSet(batch) : r.id = e.child /\ r.epoch = e.epoch
                          /\ \A f \in events : f.child = e.child => f.epoch < e.epoch

LEMMA OrderedBatch ==
    ASSUME NEW edges, NEW events, NEW n \in Nat, NEW poses, NEW rows,
           LiveRecords(edges, events, n, poses, rows), NEW batch \in Seq(StoredRow), InOrder(poses, batch)
    PROVE  Continued(edges, events, n, batch)
<1> DEFINE evs == EventsOf(edges, batch, n)
<1> SoundTree(edges, events, n) /\ FollowsEpochs(events) /\ CheckAcyclic(edges)
  BY DEF LiveRecords, Agreed
<1>1. TypedRows(batch) /\ ContinuesLog(events, batch)
  BY RowsAreTyped, OrderContinuesLog
<1>2. Positioned(evs, n) /\ FollowsEpochs(events \cup evs)
  BY <1>1, IngestedArePositioned, CommitFollowsEpochs
<1>3. SoundTree(ApplyEvents(edges, evs), events \cup evs, n + Cardinality(evs))
  BY <1>2, CommitKeepsTree
<1>4. ~StagedCycle(edges, evs) => CheckAcyclic(ApplyEvents(edges, evs))
  BY <1>1, RefusalIsExact
<1>5. \A r \in ToSet(batch) : Explains(events \cup evs, r)
  <2>1. \A i \in DOMAIN batch : Explains(events \cup evs, batch[i])
    BY <1>1, BatchIsExplained
  <2> QED
    BY <2>1 DEF ToSet
<1>6. ASSUME NEW e \in evs
      PROVE  /\ e.child \in Id /\ e.epoch \in Nat
             /\ \E r \in ToSet(batch) : r.id = e.child /\ r.epoch = e.epoch
             /\ \A f \in events : f.child = e.child => f.epoch < e.epoch
  <2>1. e.epoch \in Nat /\ \A f \in events : f.child = e.child => f.epoch < e.epoch
    BY <1>1, StagedAreYounger
  <2>2. PICK r \in RowsOf(batch, e.child) : e.epoch = batch[r].epoch
    BY EventHasRow
  <2>3. batch[r].id = e.child /\ batch[r] \in ToSet(batch) /\ batch[r] \in StoredRow
    BY <2>2, RowsAreTyped DEF RowsOf, ToSet
  <2> HIDE DEF evs
  <2> QED
    BY <2>1, <2>2, <2>3 DEF StoredRow
<1> QED
  BY <1>2, <1>3, <1>4, <1>5, <1>6 DEF Continued

LEMMA OrderKeepsOneRow ==
    ASSUME NEW poses, NEW rows \in SUBSET StoredRow, IsNewest(poses, rows), OneRowPerEpoch(rows),
           NEW batch \in Seq(StoredRow), InOrder(poses, batch)
    PROVE  OneRowPerEpoch(rows \cup ToSet(batch))
<1>1. \A q, r \in ToSet(batch) : q.id = r.id /\ q.epoch = r.epoch => q = r
  BY DEF InOrder, ToSet
<1>2. ASSUME NEW c \in Id, NEW q \in rows, NEW r \in ToSet(batch), q.id = c, r.id = c PROVE q.epoch # r.epoch
  <2>1. r \in StoredRow /\ q \in StoredRow /\ \E i \in DOMAIN batch : batch[i] = r
    BY RowsAreTyped DEF ToSet
  <2>2. r.epoch \in Nat /\ q.epoch \in Nat
    BY <2>1, RowNumbers
  <2>3. poses[c] # None
    BY <1>2 DEF IsNewest, OfEntity
  <2>4. PICK p \in StoredRow : CameFrom(poses, c, rows, p)
    BY <2>3, CachedRow
  <2>5. q.epoch <= p.epoch
    BY <1>2, <2>4 DEF IsYoungest, CameFrom
  <2>6. r.epoch > poses[c].epoch
    BY <1>2, <2>1, <2>3 DEF InOrder
  <2> QED
    BY <2>2, <2>4, <2>5, <2>6 DEF CameFrom
<1>3. \A r \in rows \cup ToSet(batch) : r.id \in Id
  BY RowsAreTyped DEF ToSet, StoredRow
<1> QED
  BY <1>1, <1>2, <1>3 DEF OneRowPerEpoch

\* A batch in order leaves the records in agreement, also if it were to close a cycle.
LEMMA IngestAgrees ==
    ASSUME NEW edges, NEW events, NEW n \in Nat, NEW poses, NEW rows,
           LiveRecords(edges, events, n, poses, rows), NEW batch \in Seq(StoredRow),
           InOrder(poses, batch)
    PROVE  LET evs == EventsOf(edges, batch, n)
           IN  Agreed(ApplyEvents(edges, evs), events \cup evs, n + Cardinality(evs),
                      UpdatePoseCache(poses, batch), rows \cup ToSet(batch))
<1> DEFINE evs == EventsOf(edges, batch, n)
           now == ApplyEvents(edges, evs)
           all == events \cup evs
           cache == UpdatePoseCache(poses, batch)
           stored == rows \cup ToSet(batch)
<1>1. /\ Positioned(evs, n) /\ FollowsEpochs(all) /\ SoundTree(now, all, n + Cardinality(evs))
      /\ \A r \in ToSet(batch) : Explains(all, r)
      /\ \A e \in evs : /\ e.child \in Id /\ e.epoch \in Nat
                        /\ \E r \in ToSet(batch) : r.id = e.child /\ r.epoch = e.epoch
                        /\ \A f \in events : f.child = e.child => f.epoch < e.epoch
  BY OrderedBatch DEF Continued
<1>2. rows \in SUBSET StoredRow /\ IsNewest(poses, rows) /\ OneRowPerEpoch(rows)
  BY DEF LiveRecords, Agreed
<1>3. IsNewest(cache, stored) /\ OneRowPerEpoch(stored) /\ stored \subseteq StoredRow
  BY <1>2, CacheStaysNewest, OrderKeepsOneRow, RowsAreTyped DEF ToSet
<1>4. \A c \in Id :
         IF c \notin IdsIn(batch) THEN cache[c] = poses[c]
         ELSE \E best \in ToSet(batch) :
                 /\ best = batch[BestRow(batch, c)] /\ BestRow(batch, c) \in RowsOf(batch, c)
                 /\ best \in StoredRow /\ best.id = c /\ best.epoch \in Nat
                 /\ \A q \in ToSet(batch) : q.id = c => q.epoch <= best.epoch
                 /\ cache[c] # None /\ cache[c] = PoseOf(best)
                 /\ poses[c] # None => poses[c].epoch < best.epoch /\ poses[c].epoch \in Nat
  BY <1>2, OrderMovesCache
<1>5. \A c : c \in IdsIn(batch) <=> \E r \in ToSet(batch) : r.id = c
  BY DEF IdsIn, ToSet
<1> HIDE DEF evs, cache, stored
<1>6. \A e \in events : /\ e.child \in Id /\ e.epoch \in Nat
                        /\ poses[e.child] # None /\ e.epoch <= poses[e.child].epoch
  BY DEF LiveRecords, Agreed, WithinCache, SoundTree, Typed, Event, Epoch
<1>7. WithinCache(all, cache)
  <2>1. SUFFICES ASSUME NEW e \in all PROVE cache[e.child] # None /\ e.epoch <= cache[e.child].epoch
    BY DEF WithinCache
  <2> DEFINE c == e.child
  <2>2. c \in Id /\ e.epoch \in Nat
    BY <1>1, <1>6
  <2>3. CASE e \in evs
    <3>1. PICK r \in ToSet(batch) : r.id = c /\ r.epoch = e.epoch
      BY <1>1, <2>3
    <3>2. PICK best \in ToSet(batch) :
             /\ \A q \in ToSet(batch) : q.id = c => q.epoch <= best.epoch
             /\ cache[c] # None /\ cache[c] = PoseOf(best)
      BY <1>4, <1>5, <2>2, <3>1
    <3> QED
      BY <3>1, <3>2 DEF PoseOf
  <2>4. CASE e \in events /\ c \notin IdsIn(batch)
    BY <1>4, <1>6, <2>2, <2>4
  <2>5. CASE e \in events /\ c \in IdsIn(batch)
    <3>1. poses[c] # None /\ e.epoch <= poses[c].epoch
      BY <1>6, <2>5
    <3>2. PICK best \in ToSet(batch) :
             /\ best.epoch \in Nat
             /\ cache[c] # None /\ cache[c] = PoseOf(best)
             /\ poses[c] # None => poses[c].epoch < best.epoch /\ poses[c].epoch \in Nat
      BY <1>4, <2>2, <2>5
    <3>3. cache[c].epoch = best.epoch
      BY <3>2 DEF PoseOf
    <3> QED
      BY <2>2, <3>1, <3>2, <3>3
  <2> QED
    BY <2>3, <2>4, <2>5
<1>8. Follows(now, cache)
  <2>1. SUFFICES ASSUME NEW c \in Id, cache[c] # None PROVE ParentOf(now, c) = cache[c].parent
    BY DEF Follows
  <2>2. CASE c \notin IdsIn(batch)
    <3>1. Of(evs, c) = {}
      BY <1>1, <1>5, <2>2 DEF Of
    <3>2. now[c] = edges[c]
      BY <3>1 DEF ApplyEvents
    <3>3. cache[c] = poses[c]
      BY <1>4, <2>2
    <3>4. ParentOf(edges, c) = poses[c].parent
      BY <2>1, <3>3 DEF LiveRecords, Agreed, Follows
    <3> HIDE DEF now
    <3> QED
      BY <3>2, <3>3, <3>4 DEF ParentOf
  <2>3. CASE c \in IdsIn(batch)
    <3>1. PICK best \in ToSet(batch) : /\ best \in StoredRow /\ best.id = c /\ best.epoch \in Nat
                                       /\ cache[c] # None /\ cache[c] = PoseOf(best)
      BY <1>4, <2>3
    <3>2. PICK e \in all : /\ e.child = c /\ e.epoch <= best.epoch /\ e.parent = best.frame
                           /\ \A f \in all : f.child = c /\ f.epoch <= best.epoch => f.epoch <= e.epoch
      BY <1>1, <3>1 DEF Explains
    <3> HIDE DEF now, all
    <3>3. \A f \in all : f.child = e.child => f.epoch <= e.epoch
      BY <1>7, <3>1, <3>2 DEF WithinCache, PoseOf
    <3>4. now[c] # None /\ now[c].parent = e.parent
      BY <1>1, <3>2, <3>3, YoungestIsEdge
    <3>5. cache[c].parent = best.frame
      BY <3>1 DEF PoseOf
    <3> QED
      BY <3>2, <3>4, <3>5 DEF ParentOf
  <2> QED
    BY <2>2, <2>3
<1> HIDE DEF now, all
<1>9. Agreed(now, all, n + Cardinality(evs), cache, stored)
  BY <1>1, <1>3, <1>7, <1>8 DEF Agreed
<1> QED
  BY <1>9 DEF now, all, evs, cache, stored

LEMMA IngestKeepsRecords ==
    ASSUME NEW edges, NEW events, NEW n \in Nat, NEW poses, NEW rows,
           LiveRecords(edges, events, n, poses, rows), NEW batch \in Seq(StoredRow),
           InOrder(poses, batch), ~StagedCycle(edges, EventsOf(edges, batch, n))
    PROVE  LET evs == EventsOf(edges, batch, n)
           IN  LiveRecords(ApplyEvents(edges, evs), events \cup evs, n + Cardinality(evs),
                           UpdatePoseCache(poses, batch), rows \cup ToSet(batch))
<1> DEFINE evs == EventsOf(edges, batch, n)
<1>1. CheckAcyclic(ApplyEvents(edges, evs))
  BY OrderedBatch DEF Continued
<1>2. Agreed(ApplyEvents(edges, evs), events \cup evs, n + Cardinality(evs),
             UpdatePoseCache(poses, batch), rows \cup ToSet(batch))
  BY IngestAgrees
<1> QED
  BY <1>1, <1>2 DEF LiveRecords

LEMMA EvictionKeepsRecords ==
    ASSUME NEW edges, NEW events, NEW n, NEW poses, NEW rows, LiveRecords(edges, events, n, poses, rows),
           NEW s, NEW t
    PROVE  LiveRecords(edges, TrimmedLog(events, s, t), n, poses, rows)
<1> DEFINE left == TrimmedLog(events, s, t)
<1>1. left \subseteq events /\ SoundTree(edges, left, n)
  BY TrimmedLogIsPart, EvictionKeepsTree DEF LiveRecords, Agreed
<1> HIDE DEF left
<1>2. FollowsEpochs(left) /\ WithinCache(left, poses)
  BY <1>1 DEF LiveRecords, Agreed, FollowsEpochs, WithinCache
<1> QED
  BY <1>1, <1>2 DEF LiveRecords, Agreed, left

-----------------------------------------------------------------------------
(* The rows and the log: what a trim leaves explains what eviction left. *)

LEMMA WindowOfStore ==
    ASSUME NEW s \in StoreType
    PROVE  /\ Window(s) \in Seq(StoredRow)
           /\ ToSet(Window(s)) = ToSet(Rows(s.segments)) \cup ToSet(Rows(s.tail))
           /\ StoredRows(s) = ToSet(PinnedRows(s)) \cup ToSet(Window(s))
<1> DEFINE p == PinnedRows(s)
           x == Rows(s.segments)
           y == Rows(s.tail)
<1>1. p \in Seq(StoredRow) /\ x \in Seq(StoredRow) /\ y \in Seq(StoredRow) /\ AllRows(s) = (p \o x) \o y
  BY StoreInParts
<1>2. Window(s) = x \o y
  BY DEF Window
<1> HIDE DEF p, x, y
<1>3. x \o y \in Seq(StoredRow) /\ OfTwo(x \o y, x, y)
  BY <1>1, TwoPartsOf
<1>4. OfThree((p \o x) \o y, p, x, y)
  BY <1>1, ThreePartsOf
<1> QED
  BY <1>1, <1>2, <1>3, <1>4 DEF OfTwo, OfThree, StoredRows, p, x, y

\* The window starts at the oldest row that is not pinned.
LEMMA WindowStartIsOldest ==
    ASSUME NEW s \in StoreType, WindowStart(s) # None
    PROVE  /\ WindowStart(s) \in Nat
           /\ \A r \in ToSet(Window(s)) : WindowStart(s) <= r.epoch
           /\ \E r \in ToSet(Window(s)) : WindowStart(s) = r.epoch
<1> DEFINE segs == s.segments \o s.tail
           epochs == UNION {EpochsOf(seg) : seg \in ToSet(segs)}
<1>1. s.segments \in Seq(SegmentType) /\ s.tail \in Seq(SegmentType)
  BY DEF StoreType
<1>2. segs \in Seq(SegmentType) /\ Rows(segs) = Window(s)
  BY <1>1, ConcatProperties, RowsOfConcat DEF Window
<1>3. epochs # {} /\ WindowStart(s) = Min(epochs)
  BY DEF WindowStart
<1> HIDE DEF segs
<1>4. ToSet(segs) \subseteq SegmentType
  BY <1>2, LenProperties, ElementOfSeq DEF ToSet
<1>5. epochs = {r.epoch : r \in ToSet(Window(s))}
  <2>1. \A r : r \in ToSet(Window(s)) <=> \E seg \in ToSet(segs) : r \in ToSet(seg.rows)
    BY <1>2, RowsAreOfSegments
  <2>2. \A seg \in ToSet(segs) : EpochsOf(seg) = {r.epoch : r \in ToSet(seg.rows)}
    BY <1>4, EpochsAreOfRows
  <2> QED
    BY <2>1, <2>2
<1>6. epochs \in SUBSET Nat
  <2>1. \A r \in ToSet(Window(s)) : r \in StoredRow
    BY WindowOfStore, RowsAreTyped DEF ToSet
  <2> HIDE DEF epochs
  <2> QED
    BY <1>5, <2>1, RowNumbers
<1> HIDE DEF epochs
<1>7. Min(epochs) \in epochs /\ \A x \in epochs : Min(epochs) <= x
  BY <1>3, <1>6, MinIsLeast
<1> QED
  BY <1>3, <1>5, <1>6, <1>7

\* Every row a store has is in the frame that the log tells for its epoch.
Explained(events, s) == \A r \in StoredRows(s) : Explains(events, r)

\* An evicting call leaves rows of its store, and pins only what is still latest.
LeftStill(s, t, poses) ==
    /\ StoredRows(t) \subseteq StoredRows(s)
    /\ t = s \/ \A r \in ToSet(PinnedRows(t)) : Still(poses, r)

\* The trim never outruns the rows: of an id with an unpinned row it drops nothing
\* that holds at or after that row, and a pinned row is its id's latest.
LEMMA TrimKeepsExplained ==
    ASSUME NEW edges, NEW events, NEW n, NEW poses, NEW rows,
           LiveRecords(edges, events, n, poses, rows),
           NEW s \in StoreType, NEW t \in StoreType, LeftStill(s, t, poses),
           Explained(events, s)
    PROVE  Explained(TrimmedLog(events, s, t), t)
<1> DEFINE left == TrimmedLog(events, s, t)
           ws == WindowStart(t)
<1>1. CASE left = events
  BY <1>1 DEF Explained, LeftStill
<1>2. CASE left # events
  <2>1. left = events \ Trimmed(events, ws) /\ Len(t.segments) < Len(s.segments) /\ ws # None
    BY <1>2 DEF TrimmedLog
  <2>2. \A r \in ToSet(PinnedRows(t)) : Still(poses, r)
    <3>1. Len(t.segments) \in Nat
      BY LenProperties DEF StoreType
    <3> QED
      BY <2>1, <3>1 DEF LeftStill
  <2>3. ws \in Nat /\ \A r \in ToSet(Window(t)) : ws <= r.epoch
    BY <2>1, WindowStartIsOldest
  <2>4. StoredRows(t) = ToSet(PinnedRows(t)) \cup ToSet(Window(t)) /\ StoredRows(t) \subseteq StoredRow
    BY WindowOfStore, StoredRowsAreRows
  <2>5. \A e \in events : e.epoch \in Nat /\ e.at \in Nat /\ e.child \in Id
    BY DEF LiveRecords, Agreed, SoundTree, Typed, Event, Epoch
  <2> HIDE DEF ws, left
  <2>6. SUFFICES ASSUME NEW r \in StoredRows(t) PROVE Explains(left, r)
    BY DEF Explained, left
  <2>7. PICK e \in events : /\ e.child = r.id /\ e.epoch <= r.epoch /\ e.parent = r.frame
                            /\ \A f \in events : f.child = r.id /\ f.epoch <= r.epoch => f.epoch <= e.epoch
    BY DEF LeftStill, Explained, Explains
  <2>8. e \notin Trimmed(events, ws)
    <3>1. SUFFICES ASSUME NEW f \in events, f.child = e.child, f.epoch < ws, Before(e, f) PROVE FALSE
      BY DEF Trimmed, Of
    <3>2. e.epoch < f.epoch
      BY <2>5, <3>1 DEF Before, LiveRecords, Agreed, FollowsEpochs
    <3>3. f.epoch <= r.epoch
      <4>1. CASE r \in ToSet(Window(t))
        <5>1. r.epoch \in Nat
          BY <2>4, RowNumbers
        <5> QED
          BY <2>3, <2>5, <3>1, <4>1, <5>1
      <4>2. CASE r \in ToSet(PinnedRows(t))
        BY <2>2, <2>7, <3>1, <4>2 DEF Still, LiveRecords, Agreed, WithinCache
      <4> QED
        BY <2>4, <4>1, <4>2
    <3> QED
      BY <2>5, <2>7, <3>1, <3>2, <3>3
  <2> QED
    BY <2>1, <2>7, <2>8 DEF Explains
<1> QED
  BY <1>1, <1>2

\* What a batch in order stages is younger than every row before it, so it changes
\* the explanation of none.
LEMMA BatchKeepsExplained ==
    ASSUME NEW edges, NEW events, NEW n \in Nat, NEW poses, NEW rows,
           LiveRecords(edges, events, n, poses, rows), NEW batch \in Seq(StoredRow),
           InOrder(poses, batch), NEW r \in rows \cup ToSet(batch),
           r \in rows => Explains(events, r)
    PROVE  Explains(events \cup EventsOf(edges, batch, n), r)
<1> DEFINE evs == EventsOf(edges, batch, n)
<1>1. /\ \A q \in ToSet(batch) : Explains(events \cup evs, q)
      /\ \A e \in evs : e.epoch \in Nat /\ \E q \in ToSet(batch) : q.id = e.child /\ q.epoch = e.epoch
  <2>1. Continued(edges, events, n, batch)
    BY OrderedBatch
  <2> QED
    BY <2>1 DEF Continued
<1> HIDE DEF evs
<1>2. CASE r \in ToSet(batch)
  BY <1>1, <1>2 DEF evs
<1>3. CASE r \in rows
  <2>1. rows \in SUBSET StoredRow /\ IsNewest(poses, rows)
    BY DEF LiveRecords, Agreed
  <2>2. r \in StoredRow /\ r.id \in Id /\ r.epoch \in Nat
    BY <1>3, <2>1, RowNumbers DEF StoredRow
  <2>3. ASSUME NEW e \in evs, e.child = r.id PROVE ~(e.epoch <= r.epoch)
    <3>1. PICK q \in ToSet(batch) : q.id = r.id /\ q.epoch = e.epoch
      BY <1>1, <2>3
    <3>2. poses[r.id] # None
      BY <1>3, <2>1, <2>2 DEF IsNewest, OfEntity
    <3>3. q.epoch > poses[r.id].epoch
      BY <3>1, <3>2 DEF InOrder, ToSet
    <3>4. PICK p \in StoredRow : CameFrom(poses, r.id, rows, p)
      BY <2>1, <2>2, <3>2, CachedRow
    <3>5. r.epoch <= p.epoch /\ p.epoch \in Nat /\ poses[r.id].epoch = p.epoch
      BY <1>3, <3>4 DEF CameFrom, IsYoungest
    <3> QED
      BY <1>1, <2>2, <3>1, <3>3, <3>5
  <2>4. Explains(events \cup evs, r)
    BY <1>3, <2>3 DEF Explains
  <2> QED
    BY <2>4 DEF evs
<1> QED
  BY <1>2, <1>3

-----------------------------------------------------------------------------
(* LiveLedger. *)

LiveIInv ==
    /\ StoreIInv
    /\ LiveRecords(latest, log, pushed, latestPose, accepted)
    /\ Explained(log, store)

LEMMA LiveLedgerInit == Init => LiveIInv
<1> SUFFICES ASSUME Init PROVE LiveIInv
  OBVIOUS
<1>1. StoreIInv
  BY StoreInit
<1>2. /\ latest = [c \in Id |-> None] /\ log = {} /\ pushed = 0
      /\ latestPose = [c \in Id |-> None] /\ accepted = {}
  BY DEF Init
<1>3. SoundTree(latest, log, pushed) /\ CheckAcyclic(latest)
  BY <1>2, EmptyTreeIsSound, EmptyTreeIsAcyclic
<1>4. FollowsEpochs(log) /\ WithinCache(log, latestPose) /\ Follows(latest, latestPose)
  BY <1>2 DEF FollowsEpochs, WithinCache, Follows
<1>5. OneRowPerEpoch(accepted) /\ accepted \subseteq StoredRow /\ IsNewest(latestPose, accepted)
  BY <1>2 DEF OneRowPerEpoch, IsNewest, OfEntity
<1>6. Explained(log, store)
  BY <1>1, <1>2 DEF StoreIInv, RowsInHand, Explained
<1> QED
  BY <1>1, <1>3, <1>4, <1>5, <1>6 DEF LiveIInv, LiveRecords, Agreed

LEMMA StampedInOrder ==
    ASSUME NEW batch, EntityOrdered(batch), NEW n
    PROVE  InOrder(latestPose, Stamped(batch, n))
BY DEF EntityOrdered, InOrder, Stamped

LEMMA LimitLeavesStill ==
    ASSUME NEW s \in StoreType, Balanced(s), NEW poses,
           NEW lim \in Nat \cup {None}, NEW evictable \in Nat \cup {None}
    PROVE  LET t == EnforceLimit(s, lim, poses, evictable)
           IN  t \in StoreType /\ LeftStill(s, t, poses)
<1> DEFINE t == EnforceLimit(s, lim, poses, evictable)
<1>1. t \in StoreType /\ Keeps(s, t, poses) /\ (t = s \/ \A r \in ToSet(PinnedRows(t)) : Still(poses, r))
  BY LimitKeepsStore
<1> HIDE DEF t
<1>2. t \in StoreType /\ LeftStill(s, t, poses)
  BY <1>1 DEF Keeps, LeftStill
<1> QED
  BY <1>2 DEF t

LEMMA AppendKeepsLive ==
    ASSUME LiveIInv, NEW batch \in Batches, NEW copyOk, NEW evictable \in Evictable,
           EntityOrdered(batch), AppendBatch(batch, copyOk, evictable)
    PROVE  LiveIInv'
<1> DEFINE rows == Stamped(batch, appended)
           evs == EventsOf(latest, rows, pushed)
           all == log \cup evs
<1>1. StoreIInv'
  BY AppendKeepsStore DEF LiveIInv
<1>2. /\ StoreIInv /\ LiveRecords(latest, log, pushed, latestPose, accepted)
      /\ appended \in Nat /\ pushed \in Nat /\ limit \in Nat \cup {None} /\ evictable \in Nat \cup {None}
  BY EvictableIsCount DEF LiveIInv, StoreIInv, LedgerIInv, SoundTree, Typed
<1>3. rows \in Seq(StoredRow) /\ InOrder(latestPose, rows)
  BY <1>2, StampedIsNew, StampedInOrder
<1>4. /\ latest' = ApplyEvents(latest, evs) /\ pushed' = pushed + Cardinality(evs)
      /\ ~StagedCycle(latest, evs)
      /\ latestPose' = UpdatePoseCache(latestPose, rows)
      /\ accepted' = accepted \cup ToSet(rows)
  BY Zenon DEF AppendBatch
<1>5. PICK s \in StoreType :
         /\ Balanced(s) /\ StoredRows(s) = StoredRows(store) \cup ToSet(rows)
         /\ store' = EnforceLimit(s, limit, latestPose', evictable)
         /\ log' = TrimmedLog(all, s, store')
  BY <1>2, AppendStores
<1> HIDE DEF rows
<1>6. LiveRecords(latest', all, pushed', latestPose', accepted')
  BY <1>2, <1>3, <1>4, IngestKeepsRecords
<1>7. LiveRecords(latest', log', pushed', latestPose', accepted')
  BY <1>5, <1>6, EvictionKeepsRecords
<1>8. Explained(all, s)
  <2>1. SUFFICES ASSUME NEW r \in StoredRows(s) PROVE Explains(all, r)
    BY DEF Explained
  <2>2. CASE r \in ToSet(rows)
    <3>1. Continued(latest, log, pushed, rows)
      BY <1>2, <1>3, OrderedBatch
    <3> QED
      BY <2>2, <3>1 DEF Continued
  <2>3. CASE r \in StoredRows(store)
    <3>1. Explains(log, r) /\ r \in accepted
      BY <2>3 DEF LiveIInv, Explained, StoreIInv, RowsInHand
    <3> QED
      BY <1>2, <1>3, <3>1, BatchKeepsExplained
  <2> QED
    BY <1>5, <2>1, <2>2, <2>3
<1> HIDE DEF evs, all
<1>9. store' \in StoreType /\ LeftStill(s, store', latestPose')
  <2> DEFINE poses == latestPose'
  <2> HIDE DEF poses
  <2>1. EnforceLimit(s, limit, poses, evictable) \in StoreType
        /\ LeftStill(s, EnforceLimit(s, limit, poses, evictable), poses)
    BY <1>2, <1>5, LimitLeavesStill
  <2> QED
    BY <1>5, <2>1 DEF poses
<1>10. Explained(log', store')
  BY <1>5, <1>6, <1>8, <1>9, TrimKeepsExplained
<1> QED
  BY <1>1, <1>7, <1>10 DEF LiveIInv, Explained

LEMMA LimitKeepsLive ==
    ASSUME LiveIInv, NEW lim \in Limits, NEW stuck, NEW evictable \in Evictable,
           SetMemoryLimit(lim, stuck, evictable)
    PROVE  LiveIInv'
<1> DEFINE s == SplitSealed(store, SegmentTarget(lim), stuck)
<1>1. StoreIInv'
  BY LimitKeepsStoreInv DEF LiveIInv
<1>2. /\ store' = EnforceLimit(s, lim, latestPose, evictable)
      /\ log' = TrimmedLog(log, s, store')
      /\ UNCHANGED <<latestPose, latest, pushed, appended, accepted>>
  BY Zenon DEF SetMemoryLimit
<1>3. /\ s \in StoreType /\ Balanced(s) /\ AllRows(s) = AllRows(store) /\ lim \in Nat \cup {None}
      /\ evictable \in Nat \cup {None}
  BY LimitSplits, EvictableIsCount DEF LiveIInv
<1> HIDE DEF s
<1>4. LiveRecords(latest, log, pushed, latestPose, accepted) /\ Explained(log, s)
  BY <1>3 DEF LiveIInv, Explained, StoredRows
<1>5. LiveRecords(latest, log', pushed, latestPose, accepted)
  BY <1>2, <1>4, EvictionKeepsRecords
<1>6. store' \in StoreType /\ LeftStill(s, store', latestPose)
  BY <1>2, <1>3, LimitLeavesStill
<1>7. Explained(log', store')
  BY <1>2, <1>3, <1>4, <1>6, TrimKeepsExplained
<1> QED
  BY <1>1, <1>2, <1>5, <1>7 DEF LiveIInv, Explained

LEMMA LiveLedgerStep == LiveIInv /\ [LiveNext]_ledgerVars => LiveIInv'
<1> SUFFICES ASSUME LiveIInv, [LiveNext]_ledgerVars PROVE LiveIInv'
  OBVIOUS
<1>1. CASE UNCHANGED ledgerVars
  <2>1. StoreIInv'
    BY <1>1, StoreStep DEF LiveIInv
  <2> QED
    BY <1>1, <2>1 DEF ledgerVars, tree, LiveIInv, Explained
<1>2. CASE LiveNext
  BY <1>2, AppendKeepsLive, LimitKeepsLive DEF LiveNext, Continues
<1> QED
  BY <1>1, <1>2

\* When entities publish in order, who an entity's parent is right now is told the
\* same by the transform tree and by the pose cache, whatever was evicted.
THEOREM LivePresentAgrees == LiveSpec => []TreeFollowsPose
<1>1. LiveIInv => TreeFollowsPose
  BY DEF LiveIInv, LiveRecords, Agreed, Follows, TreeFollowsPose
<1> QED
  BY <1>1, LiveLedgerInit, LiveLedgerStep, PTL DEF LiveSpec

\* And no sequence of accepted batches, evictions and limits leaves a cycle.
THEOREM LiveLedgerStaysAcyclic == LiveSpec => []NeverCyclic
<1>1. LiveIInv => NeverCyclic
  BY DEF LiveIInv, LiveRecords, Agreed, NeverCyclic
<1> QED
  BY <1>1, LiveLedgerInit, LiveLedgerStep, PTL DEF LiveSpec

\* Every stored row, pinned ones included, is expressed in the frame that
\* parent_at gives its entity at the row's epoch: eviction trims the log by the
\* window of the rows it left, and never more than those rows can spare.
THEOREM RowsAgreeWithTree == LiveSpec => []StoredRowsAreExplained
<1>1. LiveIInv => StoredRowsAreExplained
  <2> SUFFICES ASSUME LiveIInv, NEW r \in StoredRows(store)
               PROVE  ParentAt(latest, log, r.id, r.epoch) = r.frame
    BY DEF StoredRowsAreExplained
  <2>1. SoundTree(latest, log, pushed) /\ FollowsEpochs(log)
    BY DEF LiveIInv, LiveRecords, Agreed
  <2>2. PICK e \in log : /\ e.child = r.id /\ e.epoch <= r.epoch /\ e.parent = r.frame
                         /\ \A f \in log : f.child = r.id /\ f.epoch <= r.epoch => f.epoch <= e.epoch
    BY DEF LiveIInv, Explained, Explains
  <2>3. r.epoch \in Nat
    BY StoredRowsAreRows, RowNumbers DEF LiveIInv, StoreIInv
  <2>4. ParentAt(latest, log, e.child, r.epoch) = e.parent
    BY <2>1, <2>2, <2>3, YoungestIsTold
  <2> QED
    BY <2>2, <2>4
<1> QED
  BY <1>1, LiveLedgerInit, LiveLedgerStep, PTL DEF LiveSpec

\* The row that tells where an entity was at an epoch.
LastAt(rows, c, t, r) ==
    /\ r \in rows /\ r.id = c /\ r.epoch <= t
    /\ \A q \in rows : q.id = c /\ q.epoch <= t => q.epoch <= r.epoch

\* The scan finds that row, if it is stored.
LEMMA ScanFinds ==
    ASSUME store \in StoreType, RowsInHand(store, accepted), accepted \in SUBSET StoredRow,
           OneRowPerEpoch(accepted), NEW c, NEW t \in Nat,
           NEW p \in StoredRows(store), LastAt(accepted, c, t, p)
    PROVE  Scanned(c, t) = [parent |-> p.frame, pose |-> p.pose]
<1> DEFINE rows == AllRows(store)
           hits == {i \in DOMAIN rows : rows[i].id = c /\ rows[i].epoch <= t}
           beats(i, j) == rows[j].epoch < rows[i].epoch \/ (rows[j].epoch = rows[i].epoch /\ i <= j)
           best == CHOOSE i \in hits : \A j \in hits : beats(i, j)
<1>1. p \in accepted /\ p.id = c /\ p.epoch \in Nat /\ p.epoch <= t
  BY RowNumbers DEF LastAt
<1>2. rows \in Seq(StoredRow) /\ StoredRows(store) = ToSet(rows) /\ IsInjective(rows)
  BY StoredRowsAreRows DEF RowsInHand, StoredRows
<1>3. Scanned(c, t) = IF hits = {} THEN None ELSE [parent |-> rows[best].frame, pose |-> rows[best].pose]
  BY DEF Scanned
<1> HIDE DEF rows
<1>4. \A i \in DOMAIN rows : rows[i] \in accepted /\ rows[i].epoch \in Nat /\ i \in Nat
  <2>1. \A i \in DOMAIN rows : rows[i] \in ToSet(rows) /\ i \in Nat
    BY <1>2, LenProperties DEF ToSet
  <2> QED
    BY <1>2, <2>1, RowNumbers DEF RowsInHand
<1>5. PICK k \in DOMAIN rows : rows[k] = p
  BY <1>2 DEF ToSet
<1>6. k \in hits
  BY <1>1, <1>5
<1>7. \A j \in hits : rows[j].epoch <= p.epoch /\ (rows[j].epoch = p.epoch => j = k)
  <2>1. SUFFICES ASSUME NEW j \in hits
                 PROVE  rows[j].epoch <= p.epoch /\ (rows[j].epoch = p.epoch => j = k)
    OBVIOUS
  <2>2. rows[j].epoch <= p.epoch
    BY <1>4 DEF LastAt
  <2>3. rows[j].epoch = p.epoch => rows[j] = p
    BY <1>1, <1>4 DEF OneRowPerEpoch
  <2> QED
    BY <1>2, <1>5, <2>2, <2>3 DEF IsInjective
<1>8. \A j \in hits : beats(k, j)
  <2>1. SUFFICES ASSUME NEW j \in hits PROVE beats(k, j)
    OBVIOUS
  <2>2. rows[j].epoch <= p.epoch /\ rows[j].epoch \in Nat /\ j \in Nat /\ (rows[j].epoch = p.epoch => j = k)
    BY <1>4, <1>7
  <2>3. CASE rows[j].epoch = p.epoch
    BY <1>5, <2>2, <2>3
  <2>4. CASE rows[j].epoch # p.epoch
    <3>1. rows[j].epoch < p.epoch
      BY <1>1, <2>2, <2>4
    <3> QED
      BY <1>5, <3>1
  <2> QED
    BY <2>3, <2>4
<1>9. \A i \in hits : (\A j \in hits : beats(i, j)) => i = k
  <2>1. SUFFICES ASSUME NEW i \in hits, beats(i, k) PROVE i = k
    BY <1>6
  <2>2. rows[i].epoch <= p.epoch /\ rows[i].epoch \in Nat
    BY <1>4, <1>7
  <2> QED
    BY <1>1, <1>5, <1>7, <2>1, <2>2
<1>10. best = k
  <2> HIDE DEF hits
  <2> QED
    BY <1>6, <1>8, <1>9
<1> QED
  BY <1>3, <1>5, <1>6, <1>10

-----------------------------------------------------------------------------
(* One clock: the rows that are left are a suffix of the history. *)

\* The stored rows are in the order of their epochs, the pinned ones first, and no
\* row of `rows` is younger than an unpinned one unless it is unpinned itself.
Recent(rows, s) == Sorted(AllRows(s)) /\ NotAfter(rows \ ToSet(Window(s)), ToSet(Window(s)))

LEMMA ClockKeepsRecent ==
    ASSUME NEW rows, NEW s \in StoreType, NEW t, NEW new \in Seq(StoredRow),
           Recent(rows, s), Window(t) = Window(s) \o new, AllRows(t) = AllRows(s) \o new,
           StoredRows(s) \subseteq rows, Sorted(new), NotAfter(rows, ToSet(new))
    PROVE  Recent(rows \cup ToSet(new), t)
<1> DEFINE old == Window(s)
           all == AllRows(s)
<1>1. old \in Seq(StoredRow) /\ all \in Seq(StoredRow)
  BY WindowOfStore, StoredRowsAreRows
<1>2. Sorted(all) /\ NotAfter(rows \ ToSet(old), ToSet(old)) /\ ToSet(all) \subseteq rows
  BY DEF Recent, StoredRows
<1>3. Window(t) = old \o new /\ AllRows(t) = all \o new
  OBVIOUS
<1> HIDE DEF old, all
<1>4. OfTwo(old \o new, old, new) /\ InTurn(all \o new, all, new)
  BY <1>1, TwoPartsOf, SortedConcat
<1>5. Sorted(AllRows(t))
  BY <1>2, <1>3, <1>4 DEF InTurn, NotAfter
<1>6. ToSet(Window(t)) = ToSet(old) \cup ToSet(new)
  BY <1>3, <1>4 DEF OfTwo
<1>7. NotAfter((rows \cup ToSet(new)) \ ToSet(Window(t)), ToSet(Window(t)))
  BY <1>2, <1>6 DEF NotAfter
<1> QED
  BY <1>5, <1>7 DEF Recent

LEMMA FewerRowsAreRecent ==
    ASSUME NEW rows, NEW fewer \in SUBSET rows, NEW s, Recent(rows, s)
    PROVE  Recent(fewer, s)
BY DEF Recent, NotAfter

LEMMA TrimKeepsRecent ==
    ASSUME NEW rows, NEW s, NEW t, Recent(rows, s), TrimsFront(s, t)
    PROVE  Recent(rows, t)
BY DEF Recent, TrimsFront, NotAfter

LEMMA LimitTrimsFront ==
    ASSUME NEW s \in StoreType, Balanced(s), NEW poses,
           NEW lim \in Nat \cup {None}, NEW evictable \in Nat \cup {None}
    PROVE  TrimsFront(s, EnforceLimit(s, lim, poses, evictable))
<1> DEFINE t == EnforceLimit(s, lim, poses, evictable)
<1>1. Keeps(s, t, poses)
  BY LimitKeepsStore
<1> HIDE DEF t
<1>2. TrimsFront(s, t)
  BY <1>1 DEF Keeps
<1> QED
  BY <1>2 DEF t

LEMMA ClockStamps ==
    ASSUME NEW batch \in Batches, ClockOrdered(batch), NEW n \in Nat
    PROVE  Sorted(Stamped(batch, n)) /\ NotAfter(accepted, ToSet(Stamped(batch, n)))
<1> DEFINE rows == Stamped(batch, n)
<1>1. batch \in Seq(SentRow)
  BY LedgerAssumption
<1>2. rows \in Seq(StoredRow)
  BY StampedIsNew
<1>3. DOMAIN rows = DOMAIN batch /\ \A i \in DOMAIN batch : rows[i].epoch = batch[i].epoch
  BY DEF Stamped
<1> HIDE DEF rows
<1>4. DOMAIN rows = 1..Len(rows) /\ Len(rows) \in Nat
  BY <1>2, LenProperties
<1>5. \A i \in DOMAIN batch : \A p \in accepted : p.epoch <= batch[i].epoch
  <2>1. ASSUME NEW i \in DOMAIN batch, NEW p \in accepted PROVE p.epoch <= batch[i].epoch
    BY DEF ClockOrdered
  <2> QED
    BY <2>1
<1>6. \A i, j \in DOMAIN batch : i < j => batch[i].epoch <= batch[j].epoch
  BY DEF ClockOrdered
<1>7. Sorted(rows)
  BY <1>3, <1>4, <1>6 DEF Sorted
<1>8. NotAfter(accepted, ToSet(rows))
  BY <1>3, <1>5 DEF NotAfter, ToSet
<1> QED
  BY <1>7, <1>8 DEF rows

LEMMA LimitKeepsRows ==
    ASSUME NEW s \in StoreType, Balanced(s), NEW poses,
           NEW lim \in Nat \cup {None}, NEW evictable \in Nat \cup {None}
    PROVE  StoredRows(EnforceLimit(s, lim, poses, evictable)) \subseteq StoredRows(s)
BY LimitKeepsStore DEF Keeps

\* The rows that no load has lost.
Held == (accepted \ lost) \cup StoredRows(store)

LEMMA AppendKeepsRecent ==
    ASSUME LiveIInv, Recent(Held, store), UNCHANGED lost,
           NEW batch \in Batches, NEW copyOk, NEW evictable \in Evictable,
           ClockOrdered(batch), AppendBatch(batch, copyOk, evictable)
    PROVE  Recent(Held, store)'
<1> DEFINE rows == Stamped(batch, appended)
           held == Held
<1>1. /\ StoreIInv /\ store \in StoreType /\ StoredRows(store) \subseteq accepted
      /\ appended \in Nat /\ limit \in Nat \cup {None} /\ evictable \in Nat \cup {None}
  BY EvictableIsCount DEF LiveIInv, StoreIInv, LedgerIInv, RowsInHand
<1>2. rows \in Seq(StoredRow) /\ Sorted(rows) /\ NotAfter(accepted, ToSet(rows))
  BY <1>1, StampedIsNew, ClockStamps
<1>3. accepted' = accepted \cup ToSet(rows)
  BY Zenon DEF AppendBatch
<1>4. PICK s \in StoreType :
         /\ Balanced(s) /\ Window(s) = Window(store) \o rows /\ AllRows(s) = AllRows(store) \o rows
         /\ StoredRows(s) = StoredRows(store) \cup ToSet(rows)
         /\ store' = EnforceLimit(s, limit, latestPose', evictable)
  BY <1>1, AppendStores
<1> HIDE DEF rows
<1>5. StoredRows(store) \subseteq held /\ NotAfter(held, ToSet(rows)) /\ Recent(held, store)
  BY <1>1, <1>2 DEF NotAfter, Held
<1> DEFINE grown == held \cup ToSet(rows)
<1>6. Recent(grown, s)
  <2> HIDE DEF held
  <2> QED
    BY <1>1, <1>2, <1>4, <1>5, ClockKeepsRecent
<1>7. TrimsFront(s, store') /\ StoredRows(store') \subseteq StoredRows(s)
  <2> DEFINE poses == latestPose'
  <2> HIDE DEF poses
  <2>1. TrimsFront(s, EnforceLimit(s, limit, poses, evictable))
    BY <1>1, <1>4, LimitTrimsFront
  <2>2. StoredRows(EnforceLimit(s, limit, poses, evictable)) \subseteq StoredRows(s)
    BY <1>1, <1>4, LimitKeepsRows
  <2> QED
    BY <1>4, <2>1, <2>2 DEF poses
<1>8. (accepted' \ lost') \cup StoredRows(store') \subseteq grown
  BY <1>3, <1>4, <1>7 DEF Held
<1> HIDE DEF grown
<1>9. Recent(grown, store')
  BY <1>6, <1>7, TrimKeepsRecent
<1>10. Recent((accepted' \ lost') \cup StoredRows(store'), store')
  BY <1>8, <1>9, FewerRowsAreRecent
<1> QED
  BY <1>10 DEF Held, Recent, Window, StoredRows, AllRows, AllSegments

LEMMA LimitKeepsRecent ==
    ASSUME LiveIInv, Recent(Held, store), UNCHANGED lost,
           NEW lim \in Limits, NEW stuck, NEW evictable \in Evictable,
           SetMemoryLimit(lim, stuck, evictable)
    PROVE  Recent(Held, store)'
<1> DEFINE s == SplitSealed(store, SegmentTarget(lim), stuck)
           held == Held
<1>1. store' = EnforceLimit(s, lim, latestPose, evictable) /\ UNCHANGED accepted
  BY Zenon DEF SetMemoryLimit
<1>2. /\ s \in StoreType /\ Balanced(s) /\ Window(s) = Window(store) /\ AllRows(s) = AllRows(store)
      /\ lim \in Nat \cup {None} /\ evictable \in Nat \cup {None}
  BY LimitSplits, EvictableIsCount DEF LiveIInv
<1> HIDE DEF s
<1>3. Recent(held, s) /\ StoredRows(s) \subseteq held
  BY <1>2 DEF Recent, Held, StoredRows
<1>4. TrimsFront(s, store') /\ StoredRows(store') \subseteq StoredRows(s)
  BY <1>1, <1>2, LimitTrimsFront, LimitKeepsRows
<1>5. (accepted' \ lost') \cup StoredRows(store') \subseteq held
  BY <1>1, <1>3, <1>4 DEF Held
<1> HIDE DEF held
<1>6. Recent(held, store')
  BY <1>3, <1>4, TrimKeepsRecent
<1>7. Recent((accepted' \ lost') \cup StoredRows(store'), store')
  BY <1>5, <1>6, FewerRowsAreRecent
<1> QED
  BY <1>7 DEF Held, Recent, Window, StoredRows, AllRows, AllSegments

ClockIInv == LiveIInv /\ Recent(Held, store)

LEMMA ClockInit == RestartInit => ClockIInv
<1> SUFFICES ASSUME RestartInit PROVE ClockIInv
  OBVIOUS
<1>1. LiveIInv
  BY LiveLedgerInit DEF RestartInit
<1>2. store \in StoreType /\ RowsInHand(store, accepted) /\ accepted = {}
  BY <1>1 DEF LiveIInv, StoreIInv, Init, RestartInit
<1>3. /\ AllRows(store) \in Seq(StoredRow) /\ ToSet(AllRows(store)) = {} /\ ToSet(Window(store)) = {}
  BY <1>2, WindowOfStore, StoredRowsAreRows DEF RowsInHand, StoredRows
<1> DEFINE rows == AllRows(store)
<1> HIDE DEF rows
<1>4. \A i \in 1..Len(rows) : rows[i] \in ToSet(rows)
  BY <1>3, LenProperties DEF ToSet, rows
<1>5. Sorted(rows)
  BY <1>3, <1>4 DEF Sorted, rows
<1> QED
  BY <1>1, <1>3, <1>5 DEF ClockIInv, Recent, NotAfter, rows

LEMMA ClockStep ==
    ASSUME OneClock, ClockIInv, [LiveNext]_ledgerVars, UNCHANGED lost
    PROVE  ClockIInv'
<1>1. LiveIInv'
  BY LiveLedgerStep DEF ClockIInv
<1>2. CASE UNCHANGED ledgerVars
  BY <1>1, <1>2 DEF ledgerVars, ClockIInv, Held, Recent, Window, StoredRows, AllRows, AllSegments
<1>3. CASE LiveNext
  <2>1. Recent(Held, store)'
    BY <1>3, AppendKeepsRecent, LimitKeepsRecent DEF LiveNext, Continues, ClockIInv
  <2> QED
    BY <1>1, <2>1 DEF ClockIInv
<1> QED
  BY <1>2, <1>3

-----------------------------------------------------------------------------
(* LedgerRestart: the fold that rebuilds the records. *)

Folding(f, batches, n) ==
    f = [d \in SUBSET (1..n) |-> IF d = {} THEN Blank ELSE Ingested(f[d \ {Max(d)}], batches[Max(d)])]

LEMMA FoldingExists ==
    ASSUME NEW batches, NEW n \in Nat
    PROVE  \E f : Folding(f, batches, n)
<1> DEFINE T == {m \in Nat : \E f : Folding(f, batches, m)}
<1>1. 0 \in T
  <2>1. 1..0 = {}
    OBVIOUS
  <2>2. Folding([d \in SUBSET (1..0) |-> Blank], batches, 0)
    BY <2>1 DEF Folding
  <2> QED
    BY <2>2
<1>2. ASSUME NEW m \in T PROVE m + 1 \in T
  <2>1. PICK f : Folding(f, batches, m)
    OBVIOUS
  <2>2. m \in Nat
    OBVIOUS
  <2> HIDE DEF T
  <2> DEFINE g == [d \in SUBSET (1..(m + 1)) |->
                      IF m + 1 \in d THEN Ingested(f[d \ {m + 1}], batches[m + 1]) ELSE f[d]]
  <2>3. ASSUME NEW d \in SUBSET (1..(m + 1))
        PROVE  g[d] = IF d = {} THEN Blank ELSE Ingested(g[d \ {Max(d)}], batches[Max(d)])
    <3>1. 1..m = (1..(m + 1)) \ {m + 1}
      BY <2>2
    <3>2. CASE m + 1 \in d
      <4>1. Max(d) = m + 1
        <5>1. \A y \in d : y \in Nat /\ y <= m + 1
          BY <2>2
        <5>2. \A x \in d : (\A y \in d : y <= x) => x = m + 1
          <6>1. m + 1 \in Nat
            BY <2>2
          <6> QED
            BY <3>2, <5>1, <6>1
        <5> QED
          BY <3>2, <5>1, <5>2 DEF Max
      <4>2. d \ {m + 1} \in SUBSET (1..(m + 1)) /\ m + 1 \notin d \ {m + 1}
        OBVIOUS
      <4>3. g[d \ {m + 1}] = f[d \ {m + 1}]
        BY <4>2
      <4>4. g[d] = Ingested(f[d \ {m + 1}], batches[m + 1])
        BY <3>2
      <4> QED
        BY <3>2, <4>1, <4>3, <4>4
    <3>3. CASE m + 1 \notin d
      <4>1. d \in SUBSET (1..m) /\ d \ {Max(d)} \in SUBSET (1..m) /\ d \ {Max(d)} \in SUBSET (1..(m + 1))
        BY <3>1, <3>3
      <4>2. f[d] = IF d = {} THEN Blank ELSE Ingested(f[d \ {Max(d)}], batches[Max(d)])
        BY <2>1, <4>1 DEF Folding
      <4>3. g[d] = f[d] /\ g[d \ {Max(d)}] = f[d \ {Max(d)}]
        BY <3>3, <4>1
      <4> QED
        BY <4>2, <4>3
    <3> QED
      BY <3>2, <3>3
  <2>4. Folding(g, batches, m + 1)
    <3>1. g = [d \in SUBSET (1..(m + 1)) |-> g[d]]
      OBVIOUS
    <3> HIDE DEF g
    <3> QED
      BY <2>3, <3>1 DEF Folding
  <2> QED
    BY <2>2, <2>4 DEF T
<1> HIDE DEF T
<1>3. T = Nat
  <2>1. T \in SUBSET Nat
    BY DEF T
  <2> QED
    BY <1>1, <1>2, <2>1, NaturalsByStep
<1> QED
  BY <1>3 DEF T

LEMMA FoldingEnds ==
    ASSUME NEW S, NEW batches \in Seq(S)
    PROVE  \E f : Folding(f, batches, Len(batches)) /\ Rebuilt(batches) = f[1..Len(batches)]
<1> DEFINE f == CHOOSE g : Folding(g, batches, Len(batches))
<1>1. Len(batches) \in Nat /\ DOMAIN batches = 1..Len(batches)
  BY LenProperties
<1>2. Folding(f, batches, Len(batches))
  BY <1>1, FoldingExists
<1>3. Rebuilt(batches) = f[1..Len(batches)]
  BY <1>1 DEF Rebuilt, FoldLeft, MapThenFoldSet, Folding
<1> QED
  BY <1>2, <1>3

LEMMA FoldingStep ==
    ASSUME NEW batches, NEW n \in Nat, NEW f, Folding(f, batches, n), NEW k \in 1..n
    PROVE  f[1..k] = Ingested(f[1..(k - 1)], batches[k])
<1>1. 1..k \in SUBSET (1..n) /\ 1..k # {} /\ (1..k) \ {k} = 1..(k - 1)
  OBVIOUS
<1>2. Max(1..k) = k
  <2>1. k \in 1..k /\ \A y \in 1..k : y <= k
    OBVIOUS
  <2>2. \A x \in 1..k : (\A y \in 1..k : y <= x) => x = k
    BY <2>1
  <2> QED
    BY <2>1, <2>2 DEF Max
<1> QED
  BY <1>1, <1>2 DEF Folding

LEMMA RebuiltOfNone == Rebuilt(<<>>) = Blank
<1>1. PICK f : Folding(f, <<>>, 0) /\ Rebuilt(<<>>) = f[1..0]
  <2>1. <<>> \in Seq({}) /\ Len(<<>>) = 0
    BY EmptySeq
  <2> QED
    BY <2>1, FoldingEnds
<1> QED
  BY <1>1 DEF Folding

LEMMA RebuiltOfAppend ==
    ASSUME NEW S, NEW batches \in Seq(S), NEW batch \in S
    PROVE  Rebuilt(Append(batches, batch)) = Ingested(Rebuilt(batches), batch)
<1> DEFINE n == Len(batches)
           more == Append(batches, batch)
<1>1. n \in Nat
  BY LenProperties
<1>2. more \in Seq(S) /\ Len(more) = n + 1 /\ more[n + 1] = batch /\ \A i \in 1..n : more[i] = batches[i]
  BY AppendProperties
<1> HIDE DEF n, more
<1>3. PICK f : Folding(f, batches, n) /\ Rebuilt(batches) = f[1..n]
  BY FoldingEnds DEF n
<1>4. PICK g : Folding(g, more, n + 1) /\ Rebuilt(more) = g[1..(n + 1)]
  BY <1>2, FoldingEnds
<1> DEFINE T == {k \in Nat : k <= n => f[1..k] = g[1..k]}
<1>5. 0 \in T
  <2>1. 1..0 = {} /\ {} \in SUBSET (1..n) /\ {} \in SUBSET (1..(n + 1))
    OBVIOUS
  <2>2. f[{}] = Blank /\ g[{}] = Blank
    BY <1>3, <1>4, <2>1 DEF Folding
  <2> QED
    BY <2>1, <2>2
<1>6. ASSUME NEW k \in T PROVE k + 1 \in T
  <2>1. k \in Nat /\ (k <= n => f[1..k] = g[1..k])
    OBVIOUS
  <2> HIDE DEF T
  <2>2. ASSUME k + 1 <= n PROVE f[1..(k + 1)] = g[1..(k + 1)]
    <3>1. k + 1 \in 1..n /\ k + 1 \in 1..(n + 1) /\ n + 1 \in Nat /\ (k + 1) - 1 = k /\ k <= n
      BY <1>1, <2>1, <2>2
    <3>2. f[1..(k + 1)] = Ingested(f[1..k], batches[k + 1])
      BY <1>1, <1>3, <3>1, FoldingStep
    <3>3. g[1..(k + 1)] = Ingested(g[1..k], more[k + 1])
      BY <1>4, <3>1, FoldingStep
    <3> QED
      BY <1>2, <2>1, <3>1, <3>2, <3>3
  <2> QED
    BY <2>1, <2>2 DEF T
<1> HIDE DEF T
<1>7. T = Nat
  <2>1. T \in SUBSET Nat
    BY DEF T
  <2> QED
    BY <1>5, <1>6, <2>1, NaturalsByStep
<1>8. f[1..n] = g[1..n]
  BY <1>1, <1>7 DEF T
<1>9. g[1..(n + 1)] = Ingested(g[1..n], more[n + 1])
  <2>1. n + 1 \in 1..(n + 1) /\ n + 1 \in Nat /\ (n + 1) - 1 = n
    BY <1>1
  <2> QED
    BY <1>4, <2>1, FoldingStep
<1> QED
  BY <1>2, <1>3, <1>4, <1>8, <1>9 DEF more

IsState(st) ==
    /\ st.ok \in BOOLEAN
    /\ st = [ok |-> st.ok, edges |-> st.edges, events |-> st.events, pushed |-> st.pushed, poses |-> st.poses]

LEMMA IngestedFields ==
    ASSUME NEW st, IsState(st), NEW batch
    PROVE  LET t == Ingested(st, batch)
               evs == EventsOf(st.edges, batch, st.pushed)
           IN  /\ IsState(t)
               /\ t.ok => /\ st.ok /\ ~StagedCycle(st.edges, evs)
                          /\ t.edges = ApplyEvents(st.edges, evs) /\ t.events = st.events \cup evs
                          /\ t.pushed = st.pushed + Cardinality(evs)
                          /\ t.poses = UpdatePoseCache(st.poses, batch)
<1> DEFINE evs == EventsOf(st.edges, batch, st.pushed)
           refused == ~st.ok \/ UsesAbstract(batch) \/ StagedCycle(st.edges, evs)
           t == Ingested(st, batch)
<1>1. CASE refused
  <2>1. t = [st EXCEPT !.ok = FALSE]
    BY <1>1 DEF Ingested
  <2>2. t = [ok |-> FALSE, edges |-> st.edges, events |-> st.events, pushed |-> st.pushed, poses |-> st.poses]
    BY <2>1 DEF IsState
  <2> HIDE DEF t
  <2> QED
    BY <2>2 DEF IsState, t
<1>2. CASE ~refused
  <2>1. t = [ok |-> TRUE, edges |-> ApplyEvents(st.edges, evs), events |-> st.events \cup evs,
             pushed |-> st.pushed + Cardinality(evs), poses |-> UpdatePoseCache(st.poses, batch)]
    BY <1>2 DEF Ingested
  <2>2. st.ok /\ ~StagedCycle(st.edges, evs)
    BY <1>2
  <2> HIDE DEF t, evs
  <2> QED
    BY <2>1, <2>2 DEF IsState, t, evs
<1> QED
  BY <1>1, <1>2

\* The records that a rebuild has made of `rows`, in any order.
SoundState(st, rows) ==
    /\ SoundTree(st.edges, st.events, st.pushed)
    /\ st.poses \in [Id -> Pose \cup {None}]
    /\ IsNewest(st.poses, rows)

LEMMA BlankIsSound ==
    /\ IsState(Blank) /\ SoundState(Blank, {})
    /\ LiveRecords(Blank.edges, Blank.events, Blank.pushed, Blank.poses, {})
<1>1. IsState(Blank)
  BY DEF IsState, Blank
<1>2. /\ Blank.edges = [c \in Id |-> None] /\ Blank.events = {} /\ Blank.pushed = 0
      /\ Blank.poses = [c \in Id |-> None]
  BY DEF Blank
<1>3. SoundTree(Blank.edges, Blank.events, Blank.pushed) /\ CheckAcyclic(Blank.edges)
  BY <1>2, EmptyTreeIsSound, EmptyTreeIsAcyclic
<1>4. Blank.poses \in [Id -> Pose \cup {None}] /\ IsNewest(Blank.poses, {})
  BY <1>2 DEF IsNewest, OfEntity
<1>5. /\ FollowsEpochs(Blank.events) /\ WithinCache(Blank.events, Blank.poses)
      /\ Follows(Blank.edges, Blank.poses) /\ OneRowPerEpoch({})
  BY <1>2 DEF FollowsEpochs, WithinCache, Follows, OneRowPerEpoch
<1> QED
  BY <1>1, <1>3, <1>4, <1>5 DEF SoundState, LiveRecords, Agreed

LEMMA IngestedIsSound ==
    ASSUME NEW st, IsState(st), NEW rows \in SUBSET StoredRow, SoundState(st, rows),
           NEW batch \in Seq(StoredRow), Ingested(st, batch).ok
    PROVE  SoundState(Ingested(st, batch), rows \cup ToSet(batch))
<1> DEFINE evs == EventsOf(st.edges, batch, st.pushed)
           t == Ingested(st, batch)
<1>1. /\ t.edges = ApplyEvents(st.edges, evs) /\ t.events = st.events \cup evs
      /\ t.pushed = st.pushed + Cardinality(evs)
      /\ t.poses = UpdatePoseCache(st.poses, batch)
  BY IngestedFields
<1>2. st.pushed \in Nat /\ TypedRows(batch)
  BY RowsAreTyped DEF SoundState, SoundTree, Typed
<1>3. SoundTree(t.edges, t.events, t.pushed)
  <2>1. Positioned(evs, st.pushed)
    BY <1>2, IngestedArePositioned
  <2> HIDE DEF evs, t
  <2> QED
    BY <1>1, <2>1, CommitKeepsTree DEF SoundState
<1>4. t.poses \in [Id -> Pose \cup {None}]
  BY <1>1, CacheIsTyped DEF SoundState
<1>5. IsNewest(t.poses, rows \cup ToSet(batch))
  BY <1>1, CacheStaysNewest DEF SoundState
<1> QED
  BY <1>3, <1>4, <1>5 DEF SoundState

\* Batches that load leave sound records of all their rows.
LEMMA RebuiltIsSound ==
    ASSUME NEW batches \in Seq(Seq(StoredRow))
    PROVE  /\ IsState(Rebuilt(batches))
           /\ Rebuilt(batches).ok => SoundState(Rebuilt(batches), ToSet(FlattenSeq(batches)))
<1> DEFINE Fine(q) == IsState(Rebuilt(q)) /\ (Rebuilt(q).ok => SoundState(Rebuilt(q), ToSet(FlattenSeq(q))))
           T == {q \in Seq(Seq(StoredRow)) : Fine(q)}
<1>1. <<>> \in T
  <2>1. ToSet(FlattenSeq(<<>>)) = {}
    BY FlattenEmpty DEF ToSet
  <2>2. Fine(<<>>)
    BY <2>1, RebuiltOfNone, BlankIsSound
  <2>3. <<>> \in Seq(Seq(StoredRow))
    BY EmptySeq
  <2> HIDE DEF Fine
  <2> QED
    BY <2>2, <2>3
<1>2. ASSUME NEW q \in T, NEW batch \in Seq(StoredRow) PROVE Append(q, batch) \in T
  <2>1. q \in Seq(Seq(StoredRow)) /\ Fine(q)
    OBVIOUS
  <2> HIDE DEF T
  <2> DEFINE st == Rebuilt(q)
             rows == ToSet(FlattenSeq(q))
             t == Ingested(st, batch)
  <2>2. Append(q, batch) \in Seq(Seq(StoredRow)) /\ Rebuilt(Append(q, batch)) = t
    BY <2>1, AppendProperties, RebuiltOfAppend
  <2>3. FlattenSeq(q) \in Seq(StoredRow) /\ ToSet(FlattenSeq(Append(q, batch))) = rows \cup ToSet(batch)
    <3> DEFINE flat == FlattenSeq(q)
    <3>1. flat \in Seq(StoredRow)
      BY <2>1, FlattenIsSeq
    <3>2. FlattenSeq(Append(q, batch)) = flat \o batch
      BY <2>1, FlattenAppend
    <3> HIDE DEF flat
    <3>3. ToSet(flat \o batch) = ToSet(flat) \cup ToSet(batch)
      BY <3>1, SetOfConcat
    <3> QED
      BY <3>1, <3>2, <3>3 DEF flat
  <2>4. rows \in SUBSET StoredRow
    BY <2>3, RowsAreTyped DEF ToSet
  <2>5. IsState(st) /\ (st.ok => SoundState(st, rows))
    BY <2>1
  <2> HIDE DEF st, rows
  <2>6. IsState(t) /\ (t.ok => st.ok)
    BY <2>5, IngestedFields
  <2>7. t.ok => SoundState(t, rows \cup ToSet(batch))
    BY <2>4, <2>5, <2>6, IngestedIsSound
  <2> HIDE DEF t
  <2> QED
    BY <2>2, <2>3, <2>6, <2>7 DEF T
<1> HIDE DEF T
<1>3. T = Seq(Seq(StoredRow))
  <2>1. T \in SUBSET Seq(Seq(StoredRow))
    BY DEF T
  <2> QED
    BY <1>1, <1>2, <2>1, SequencesByAppend
<1> QED
  BY <1>3 DEF T

\* The file holds the stored rows in storage order, one batch per segment.
LEMMA SavedRows ==
    ASSUME NEW segs \in Seq(SegmentType)
    PROVE  LET batches == [k \in DOMAIN segs |-> segs[k].rows]
               s == Loaded(batches)
           IN  /\ batches \in Seq(Seq(StoredRow)) /\ FlattenSeq(batches) = Rows(segs)
               /\ s \in StoreType /\ Balanced(s)
               /\ AllRows(s) = Rows(segs) /\ Window(s) = Rows(segs)
<1> DEFINE batches == [k \in DOMAIN segs |-> segs[k].rows]
           copies == [k \in DOMAIN batches |-> Decoded(batches[k])]
           s == Loaded(batches)
<1>1. batches \in Seq(Seq(StoredRow)) /\ Len(batches) = Len(segs) /\ FlattenSeq(batches) = Rows(segs)
  BY RowListsTyped DEF RowLists
<1> HIDE DEF batches
<1>2. /\ Len(batches) \in Nat /\ DOMAIN batches = 1..Len(batches)
      /\ \A k \in 1..Len(batches) : batches[k] \in Seq(StoredRow) /\ Len(batches[k]) \in Nat
  <2>1. \A k \in 1..Len(batches) : batches[k] \in Seq(StoredRow)
    BY <1>1, ElementOfSeq
  <2> QED
    BY <1>1, <2>1, LenProperties
<1>3. \A k \in 1..Len(batches) : copies[k] \in SegmentType /\ copies[k].rows = batches[k]
  <2>1. \A k \in 1..Len(batches) : copies[k] = Decoded(batches[k])
    BY <1>2
  <2>2. ASSUME NEW rows \in Seq(StoredRow), Len(rows) \in Nat
        PROVE  Decoded(rows) \in SegmentType /\ Decoded(rows).rows = rows
    <3>1. Len(rows) + Overhead \in Nat
      BY <2>2, LedgerAssumption
    <3> QED
      BY <3>1 DEF Decoded, SegmentType
  <2> QED
    BY <1>2, <2>1, <2>2
<1>4. DOMAIN copies = 1..Len(batches)
  BY <1>2
<1> HIDE DEF copies
<1>5. copies \in Seq(SegmentType) /\ Len(copies) = Len(batches)
  <2>1. copies = [k \in 1..Len(batches) |-> copies[k]]
    BY <1>4 DEF copies
  <2> QED
    BY <1>2, <1>3, <1>4, <2>1
<1>6. Rows(copies) = Rows(segs)
  <2>1. RowLists(copies) = batches
    <3>1. RowLists(copies) = [k \in 1..Len(batches) |-> batches[k]]
      BY <1>3, <1>4 DEF RowLists
    <3>2. batches = [k \in 1..Len(batches) |-> batches[k]]
      BY <1>1, <1>2
    <3> QED
      BY <3>1, <3>2
  <2>2. Rows(copies) = FlattenSeq(RowLists(copies))
    BY <1>5, RowListsTyped
  <2> QED
    BY <1>1, <2>1, <2>2
<1>7. s = [pinned |-> None, segments |-> copies, tail |-> <<>>, resident |-> Bytes(copies)]
  BY DEF Loaded, copies
<1>8. Bytes(copies) \in Nat
  BY <1>5, BytesAreNat
<1>9. s \in StoreType
  BY <1>5, <1>7, <1>8 DEF StoreType
<1>10. /\ s.pinned = None /\ s.segments = copies /\ s.tail = <<>> /\ s.resident = Bytes(copies)
  BY <1>7
<1> HIDE DEF s
<1>11. /\ Rows(copies) \in Seq(StoredRow)
       /\ AllRows(s) = (PinnedRows(s) \o Rows(copies)) \o Rows(s.tail)
       /\ Bytes(AllSegments(s)) = PinnedBytes(s) + Bytes(copies) + Bytes(s.tail)
  BY <1>9, <1>10, StoreInParts
<1>12. PinnedRows(s) = <<>> /\ PinnedBytes(s) = 0 /\ Rows(s.tail) = <<>> /\ Bytes(s.tail) = 0
  BY <1>10, RowsOfNone, BytesOfNone DEF PinnedRows, PinnedBytes
<1>13. AllRows(s) = Rows(copies) /\ Window(s) = Rows(copies)
  <2> DEFINE rows == Rows(copies)
  <2>1. rows \in Seq(StoredRow) /\ AllRows(s) = (<<>> \o rows) \o <<>> /\ Window(s) = rows \o <<>>
    BY <1>10, <1>11, <1>12 DEF Window
  <2> HIDE DEF rows
  <2>2. <<>> \o rows = rows /\ rows \o <<>> = rows
    BY <2>1, ConcatEmptySeq
  <2> QED
    BY <2>1, <2>2 DEF rows
<1>14. Balanced(s)
  BY <1>8, <1>10, <1>11, <1>12 DEF Balanced
<1> QED
  BY <1>1, <1>6, <1>9, <1>13, <1>14 DEF s, batches

\* What a restart starts from: the loaded store, split for the limit it will have.
LEMMA RestartSplits ==
    ASSUME store \in StoreType, NEW lim \in Limits
    PROVE  LET s == SplitSealed(Loaded(Saved), SegmentTarget(lim), {})
           IN  /\ s \in StoreType /\ Balanced(s)
               /\ AllRows(s) = AllRows(store) /\ Window(s) = AllRows(store)
               /\ Saved \in Seq(Seq(StoredRow)) /\ FlattenSeq(Saved) = AllRows(store)
               /\ lim \in Nat \cup {None}
<1> DEFINE segs == AllSegments(store)
           loaded == Loaded(Saved)
<1>1. segs \in Seq(SegmentType) /\ AllRows(store) = Rows(segs)
  BY StoreInParts DEF AllRows
<1>2. Saved = [k \in DOMAIN segs |-> segs[k].rows]
  BY DEF Saved
<1> HIDE DEF segs
<1>3. /\ Saved \in Seq(Seq(StoredRow)) /\ FlattenSeq(Saved) = Rows(segs)
      /\ loaded \in StoreType /\ Balanced(loaded) /\ AllRows(loaded) = Rows(segs) /\ Window(loaded) = Rows(segs)
  BY <1>1, <1>2, SavedRows
<1>4. lim \in Nat \cup {None} /\ SegmentTarget(lim) \in Nat \ {0}
  BY LedgerAssumption, TargetIsPositive
<1> HIDE DEF loaded
<1>5. LET s == SplitSealed(loaded, SegmentTarget(lim), {})
      IN  s \in StoreType /\ Balanced(s) /\ AllRows(s) = AllRows(loaded) /\ Window(s) = Window(loaded)
  BY <1>3, <1>4, SplitKeepsStore
<1> QED
  BY <1>1, <1>3, <1>4, <1>5 DEF loaded

\* The newest of the rows that are left are the newest of all.
LEMMA NewestOfLeft ==
    ASSUME NEW rows, NEW left \in SUBSET rows, NEW cache, IsNewest(cache, rows),
           \A c \in Id : NewestOf(OfEntity(rows, c)) \subseteq left,
           NEW poses, IsNewest(poses, left), rows \subseteq StoredRow
    PROVE  IsNewest(poses, rows)
<1> SUFFICES ASSUME NEW c \in Id
             PROVE  IF poses[c] = None THEN OfEntity(rows, c) = {}
                    ELSE \E r \in NewestOf(OfEntity(rows, c)) : poses[c] = PoseOf(r)
  BY DEF IsNewest, PoseOf
<1>1. CASE cache[c] = None
  <2>1. OfEntity(rows, c) = {} /\ OfEntity(left, c) = {}
    BY <1>1 DEF IsNewest, OfEntity
  <2>2. poses[c] = None
    BY <2>1 DEF IsNewest, NewestOf
  <2> QED
    BY <2>1, <2>2
<1>2. CASE cache[c] # None
  <2>1. PICK q \in NewestOf(OfEntity(rows, c)) : TRUE
    BY <1>2 DEF IsNewest
  <2>2. q \in left /\ q \in rows /\ q.id = c /\ \A r \in rows : r.id = c => r.epoch <= q.epoch
    BY <2>1 DEF NewestOf, OfEntity
  <2>3. poses[c] # None
    BY <2>2 DEF IsNewest, OfEntity
  <2>4. PICK r \in NewestOf(OfEntity(left, c)) : poses[c] = PoseOf(r)
    BY <2>3 DEF IsNewest, PoseOf
  <2>5. r \in rows /\ r.id = c /\ q.epoch <= r.epoch
    BY <2>2, <2>4 DEF NewestOf, OfEntity
  <2>6. \A x \in rows : x.epoch \in Nat
    BY RowNumbers
  <2>7. \A x \in rows : x.id = c => x.epoch <= r.epoch
    BY <2>2, <2>5, <2>6
  <2> QED
    BY <2>3, <2>4, <2>5, <2>7 DEF NewestOf, OfEntity
<1> QED
  BY <1>1, <1>2

LEMMA RestartKeepsStore ==
    ASSUME StoreIInv, NEW lim \in Limits, Restart(lim)
    PROVE  StoreIInv'
<1> DEFINE s == SplitSealed(Loaded(Saved), SegmentTarget(lim), {})
           st == Rebuilt(Saved)
           rows == StoredRows(store)
<1>1. /\ limit' = lim /\ store' = EnforceLimit(s, lim, st.poses, None)
      /\ latest' = st.edges /\ pushed' = st.pushed /\ latestPose' = st.poses
      /\ log' = TrimmedLog(st.events, s, store')
      /\ accepted' = accepted /\ appended' = appended /\ st.ok
  BY Zenon DEF Restart
<1>2. /\ s \in StoreType /\ Balanced(s) /\ AllRows(s) = AllRows(store)
      /\ Saved \in Seq(Seq(StoredRow)) /\ FlattenSeq(Saved) = AllRows(store)
      /\ lim \in Nat \cup {None}
  BY RestartSplits DEF StoreIInv
<1>3. /\ accepted \in SUBSET StoredRow /\ IsNewest(latestPose, accepted)
      /\ RowsInHand(store, accepted) /\ NewestInHand(store, accepted)
  BY DEF StoreIInv, LedgerIInv, CacheIsNewest
<1>4. SoundState(st, rows)
  <2>1. SoundState(st, ToSet(FlattenSeq(Saved)))
    BY <1>1, <1>2, RebuiltIsSound
  <2> QED
    BY <1>2, <2>1 DEF StoredRows
<1> HIDE DEF s
<1>5. IsNewest(st.poses, accepted)
  <2> DEFINE poses == st.poses
  <2>1. IsNewest(poses, rows)
    BY <1>4 DEF SoundState
  <2>2. rows \subseteq accepted /\ \A c \in Id : NewestOf(OfEntity(accepted, c)) \subseteq rows
    BY <1>3 DEF RowsInHand, NewestInHand
  <2> HIDE DEF st, rows, poses
  <2>3. IsNewest(poses, accepted)
    BY <1>3, <2>1, <2>2, NewestOfLeft
  <2> QED
    BY <2>3 DEF poses
<1> HIDE DEF st
<1>6. RowsInHand(s, accepted) /\ NewestInHand(s, accepted)
  BY <1>2, <1>3 DEF RowsInHand, NewestInHand, StoredRows
<1>7. /\ store' \in StoreType /\ Balanced(store')
      /\ RowsInHand(store', accepted) /\ NewestInHand(store', accepted)
  <2> DEFINE poses == st.poses
  <2>1. IsNewest(poses, accepted) /\ store' = EnforceLimit(s, lim, poses, None)
    BY <1>1, <1>5
  <2>2. None \in Nat \cup {None}
    OBVIOUS
  <2> HIDE DEF poses
  <2>3. LET t == EnforceLimit(s, lim, poses, None)
        IN  t \in StoreType /\ Balanced(t) /\ RowsInHand(t, accepted) /\ NewestInHand(t, accepted)
    BY <1>2, <1>3, <1>6, <2>1, <2>2, LimitKeepsHand
  <2> QED
    BY <2>1, <2>3
<1>8. SoundTree(latest', log', pushed')
  BY <1>1, <1>4, EvictionKeepsTree DEF SoundState
<1>9. LedgerIInv'
  BY <1>1, <1>3, <1>5, <1>8 DEF StoreIInv, LedgerIInv, CacheIsNewest
<1>10. latestPose' \in [Id -> Pose \cup {None}]
  BY <1>1, <1>4 DEF SoundState
<1> QED
  BY <1>1, <1>2, <1>7, <1>9, <1>10 DEF StoreIInv

LEMMA RestartStoreStep == StoreIInv /\ [RestartNext]_restartVars => StoreIInv'
<1> SUFFICES ASSUME StoreIInv, [RestartNext]_restartVars PROVE StoreIInv'
  OBVIOUS
<1>1. CASE [LiveNext]_ledgerVars
  <2>1. [Next]_ledgerVars
    BY <1>1 DEF LiveNext, Next
  <2> QED
    BY <2>1, StoreStep
<1>2. CASE ~[LiveNext]_ledgerVars
  BY <1>2, RestartKeepsStore DEF RestartNext, restartVars
<1> QED
  BY <1>1, <1>2

\* The byte count that `from_loaded` recomputes and every push, seal, split and
\* eviction then adjusts is the sum over what is stored, however often the
\* ledger is saved and loaded in between.
THEOREM ResidentAfterRestart == RestartSpec => []ResidentIsSum
<1>1. StoreIInv => ResidentIsSum
  BY DEF StoreIInv, Balanced, ResidentIsSum
<1> QED
  BY <1>1, StoreInit, RestartStoreStep, PTL DEF RestartSpec, RestartInit

\* Every event of the log came from a row.
EventsHaveRows(events, rows) == \A e \in events : \E r \in rows : r.id = e.child /\ r.epoch = e.epoch

\* The records that a rebuild has made of `rows`, which came in the order of their epochs.
LiveState(st, rows) ==
    /\ LiveRecords(st.edges, st.events, st.pushed, st.poses, rows)
    /\ \A r \in rows : Explains(st.events, r)
    /\ EventsHaveRows(st.events, rows)

LEMMA IngestedIsLive ==
    ASSUME NEW st, IsState(st), NEW rows, LiveState(st, rows),
           NEW batch \in Seq(StoredRow), InOrder(st.poses, batch), Ingested(st, batch).ok
    PROVE  LiveState(Ingested(st, batch), rows \cup ToSet(batch))
<1> DEFINE edges == st.edges
           events == st.events
           n == st.pushed
           poses == st.poses
           evs == EventsOf(st.edges, batch, st.pushed)
           t == Ingested(st, batch)
<1>1. /\ t.edges = ApplyEvents(edges, evs) /\ t.events = events \cup evs
      /\ t.pushed = n + Cardinality(evs) /\ t.poses = UpdatePoseCache(poses, batch)
      /\ ~StagedCycle(edges, evs)
  BY IngestedFields
<1>2. evs = EventsOf(edges, batch, n)
  OBVIOUS
<1>3. /\ LiveRecords(edges, events, n, poses, rows) /\ InOrder(poses, batch)
      /\ \A r \in rows : Explains(events, r)
      /\ EventsHaveRows(events, rows)
  BY DEF LiveState
<1> HIDE DEF edges, events, n, poses, evs, t
<1>4. n \in Nat
  BY <1>3 DEF LiveRecords, Agreed, SoundTree, Typed
<1>5. LiveRecords(t.edges, t.events, t.pushed, t.poses, rows \cup ToSet(batch))
  BY <1>1, <1>2, <1>3, <1>4, IngestKeepsRecords
<1>6. \A r \in rows \cup ToSet(batch) : Explains(t.events, r)
  BY <1>1, <1>2, <1>3, <1>4, BatchKeepsExplained
<1>7. EventsHaveRows(t.events, rows \cup ToSet(batch))
  <2>1. Continued(edges, events, n, batch)
    BY <1>3, <1>4, OrderedBatch
  <2> QED
    BY <1>1, <1>2, <1>3, <2>1 DEF Continued, EventsHaveRows
<1> QED
  BY <1>5, <1>6, <1>7 DEF LiveState, t

\* Rows sorted by epoch, one per entity and epoch, continue the stream of each entity.
LEMMA SortedContinues ==
    ASSUME NEW poses, NEW early \in Seq(StoredRow), NEW late \in Seq(StoredRow),
           IsNewest(poses, ToSet(early)), Sorted(early \o late), IsInjective(early \o late),
           OneRowPerEpoch(ToSet(early \o late))
    PROVE  InOrder(poses, late)
<1> DEFINE rows == ToSet(early)
<1>1. OfTwo(early \o late, early, late) /\ InTurn(early \o late, early, late)
  BY TwoPartsOf, SortedConcat
<1>2. /\ NotAfter(rows, ToSet(late)) /\ IsInjective(late) /\ rows \cap ToSet(late) = {}
      /\ OneRowPerEpoch(rows \cup ToSet(late))
  BY <1>1 DEF OfTwo, InTurn
<1>3. /\ rows \in SUBSET StoredRow /\ IsNewest(poses, rows)
      /\ \A r \in DOMAIN late : late[r] \in StoredRow /\ late[r] \in ToSet(late)
  BY RowsAreTyped DEF ToSet
<1> HIDE DEF rows
<1>4. ASSUME NEW r \in DOMAIN late, poses[late[r].id] # None
      PROVE  late[r].epoch > poses[late[r].id].epoch
  <2> DEFINE q == late[r]
  <2>1. q \in StoredRow /\ q \in ToSet(late) /\ q.id \in Id /\ q.epoch \in Nat
    BY <1>3, RowNumbers DEF StoredRow
  <2> HIDE DEF q
  <2>2. poses[q.id] # None
    BY <1>4 DEF q
  <2>3. PICK p \in StoredRow : CameFrom(poses, q.id, rows, p)
    BY <1>3, <2>1, <2>2, CachedRow
  <2>4. p \in rows /\ p.id = q.id /\ p.epoch \in Nat /\ poses[q.id].epoch = p.epoch
    BY <2>3 DEF CameFrom, IsYoungest
  <2>5. p.epoch <= q.epoch
    BY <1>2, <2>1, <2>4 DEF NotAfter
  <2>6. p.epoch # q.epoch
    BY <1>2, <2>1, <2>4 DEF OneRowPerEpoch
  <2>7. q.epoch > poses[q.id].epoch
    BY <2>1, <2>4, <2>5, <2>6
  <2> QED
    BY <2>7 DEF q
<1>5. \A q, r \in DOMAIN late : late[q].id = late[r].id /\ late[q].epoch = late[r].epoch => q = r
  BY <1>2, <1>3 DEF OneRowPerEpoch, IsInjective
<1> QED
  BY <1>4, <1>5 DEF InOrder

InClockOrder(rows) == Sorted(rows) /\ IsInjective(rows) /\ OneRowPerEpoch(ToSet(rows))

LEMMA RebuiltIsLive ==
    ASSUME NEW batches \in Seq(Seq(StoredRow)), InClockOrder(FlattenSeq(batches)), Rebuilt(batches).ok
    PROVE  LiveState(Rebuilt(batches), ToSet(FlattenSeq(batches)))
<1> DEFINE Fine(q) == InClockOrder(FlattenSeq(q)) /\ Rebuilt(q).ok => LiveState(Rebuilt(q), ToSet(FlattenSeq(q)))
           T == {q \in Seq(Seq(StoredRow)) : Fine(q)}
<1>1. <<>> \in T
  <2>1. ToSet(FlattenSeq(<<>>)) = {}
    BY FlattenEmpty DEF ToSet
  <2>2. Fine(<<>>)
    <3>1. Blank.events = {}
      BY DEF Blank
    <3>2. LiveState(Blank, {})
      BY <3>1, BlankIsSound DEF LiveState, EventsHaveRows
    <3>3. LiveState(Rebuilt(<<>>), ToSet(FlattenSeq(<<>>)))
      BY <2>1, <3>2, RebuiltOfNone, Zenon
    <3> QED
      BY <3>3
  <2>3. <<>> \in Seq(Seq(StoredRow))
    BY EmptySeq
  <2> HIDE DEF Fine
  <2> QED
    BY <2>2, <2>3
<1>2. ASSUME NEW q \in T, NEW batch \in Seq(StoredRow) PROVE Append(q, batch) \in T
  <2>1. q \in Seq(Seq(StoredRow)) /\ Fine(q)
    OBVIOUS
  <2> HIDE DEF T
  <2> DEFINE st == Rebuilt(q)
             flat == FlattenSeq(q)
             rows == ToSet(flat)
             t == Ingested(st, batch)
  <2>2. Append(q, batch) \in Seq(Seq(StoredRow)) /\ Rebuilt(Append(q, batch)) = t
    BY <2>1, AppendProperties, RebuiltOfAppend
  <2>3. flat \in Seq(StoredRow) /\ FlattenSeq(Append(q, batch)) = flat \o batch
    BY <2>1, FlattenIsSeq, FlattenAppend
  <2>4. IsState(st)
    BY <2>1, RebuiltIsSound
  <2>5. InClockOrder(flat) /\ st.ok => LiveState(st, rows)
    BY <2>1
  <2> HIDE DEF st, flat
  <2>6. SUFFICES ASSUME InClockOrder(flat \o batch), t.ok PROVE LiveState(t, ToSet(flat \o batch))
    <3> HIDE DEF t
    <3> QED
      BY <2>2, <2>3 DEF T
  <2>7. OfTwo(flat \o batch, flat, batch) /\ InTurn(flat \o batch, flat, batch)
    BY <2>3, TwoPartsOf, SortedConcat
  <2>8. InClockOrder(flat)
    BY <2>6, <2>7 DEF InClockOrder, OfTwo, InTurn, OneRowPerEpoch
  <2>9. st.ok
    BY <2>4, <2>6, IngestedFields
  <2>10. LiveState(st, rows) /\ IsNewest(st.poses, rows)
    BY <2>5, <2>8, <2>9 DEF LiveState, LiveRecords, Agreed
  <2>11. InOrder(st.poses, batch)
    <3> DEFINE poses == st.poses
    <3>1. IsNewest(poses, ToSet(flat))
      BY <2>10
    <3> HIDE DEF poses
    <3>2. InOrder(poses, batch)
      BY <2>3, <2>6, <3>1, SortedContinues DEF InClockOrder
    <3> QED
      BY <3>2 DEF poses
  <2>12. ToSet(flat \o batch) = rows \cup ToSet(batch)
    BY <2>7 DEF OfTwo
  <2> HIDE DEF rows
  <2>13. LiveState(t, rows \cup ToSet(batch))
    BY <2>4, <2>6, <2>10, <2>11, IngestedIsLive
  <2> HIDE DEF t
  <2> QED
    BY <2>12, <2>13
<1> HIDE DEF T
<1>3. T = Seq(Seq(StoredRow))
  <2>1. T \in SUBSET Seq(Seq(StoredRow))
    BY DEF T
  <2> QED
    BY <1>1, <1>2, <2>1, SequencesByAppend
<1>4. Fine(batches)
  BY <1>3 DEF T
<1> QED
  BY <1>4

LEMMA SavedBatches ==
    ASSUME store \in StoreType
    PROVE  Saved \in Seq(Seq(StoredRow)) /\ FlattenSeq(Saved) = AllRows(store)
<1> DEFINE segs == AllSegments(store)
<1>1. segs \in Seq(SegmentType) /\ AllRows(store) = Rows(segs)
  BY StoreInParts DEF AllRows
<1>2. Saved = [k \in DOMAIN segs |-> segs[k].rows]
  BY DEF Saved
<1> HIDE DEF segs
<1> QED
  BY <1>1, <1>2, SavedRows

\* What the stored rows rebuild to, when one clock ordered them.
LEMMA StoredIsLive ==
    ASSUME ClockIInv, Rebuilt(Saved).ok
    PROVE  LiveState(Rebuilt(Saved), StoredRows(store))
<1>1. store \in StoreType /\ RowsInHand(store, accepted) /\ Sorted(AllRows(store)) /\ OneRowPerEpoch(accepted)
  BY DEF ClockIInv, LiveIInv, LiveRecords, Agreed, StoreIInv, Recent
<1>2. Saved \in Seq(Seq(StoredRow)) /\ FlattenSeq(Saved) = AllRows(store)
  BY <1>1, SavedBatches
<1>3. InClockOrder(FlattenSeq(Saved))
  BY <1>1, <1>2 DEF InClockOrder, RowsInHand, OneRowPerEpoch, StoredRows
<1>4. LiveState(Rebuilt(Saved), ToSet(FlattenSeq(Saved)))
  BY <1>2, <1>3, RebuiltIsLive
<1> QED
  BY <1>2, <1>4 DEF StoredRows

\* What a load rebuilds from the stored rows are the records of the whole history.
LEMMA RestartRecords ==
    ASSUME ClockIInv, Rebuilt(Saved).ok
    PROVE  LET st == Rebuilt(Saved)
           IN  /\ LiveRecords(st.edges, st.events, st.pushed, st.poses, accepted)
               /\ \A r \in StoredRows(store) : Explains(st.events, r)
<1> DEFINE st == Rebuilt(Saved)
           edges == st.edges
           events == st.events
           n == st.pushed
           poses == st.poses
           rows == StoredRows(store)
<1>1. LiveRecords(edges, events, n, poses, rows) /\ \A r \in rows : Explains(events, r)
  BY StoredIsLive DEF LiveState
<1>2. /\ accepted \in SUBSET StoredRow /\ IsNewest(latestPose, accepted) /\ OneRowPerEpoch(accepted)
      /\ rows \subseteq accepted /\ \A c \in Id : NewestOf(OfEntity(accepted, c)) \subseteq rows
  BY DEF ClockIInv, LiveIInv, LiveRecords, Agreed, StoreIInv, RowsInHand, NewestInHand
<1> HIDE DEF st, edges, events, n, poses, rows
<1>3. IsNewest(poses, rows)
  BY <1>1 DEF LiveRecords, Agreed
<1>4. IsNewest(poses, accepted)
  BY <1>2, <1>3, NewestOfLeft
<1>5. LiveRecords(edges, events, n, poses, accepted)
  BY <1>1, <1>2, <1>4 DEF LiveRecords, Agreed
<1> QED
  BY <1>1, <1>5 DEF st, edges, events, n, poses, rows

LEMMA RestartKeepsClock ==
    ASSUME ClockIInv, NEW lim \in Limits, Restart(lim)
    PROVE  ClockIInv'
<1> DEFINE s == SplitSealed(Loaded(Saved), SegmentTarget(lim), {})
           st == Rebuilt(Saved)
           rows == StoredRows(store)
           poses == st.poses
<1>1. StoreIInv'
  BY RestartKeepsStore DEF ClockIInv, LiveIInv
<1>2. /\ store' = EnforceLimit(s, lim, poses, None)
      /\ latest' = st.edges /\ pushed' = st.pushed /\ latestPose' = poses
      /\ log' = TrimmedLog(st.events, s, store')
      /\ accepted' = accepted /\ lost' = accepted \ rows /\ st.ok
  BY Zenon DEF Restart
<1>3. store \in StoreType
  BY DEF ClockIInv, LiveIInv, StoreIInv
<1>4. /\ s \in StoreType /\ Balanced(s) /\ AllRows(s) = AllRows(store) /\ Window(s) = AllRows(store)
      /\ lim \in Nat \cup {None}
  BY <1>3, RestartSplits
<1>5. /\ LiveRecords(st.edges, st.events, st.pushed, poses, accepted)
      /\ \A r \in rows : Explains(st.events, r)
  BY <1>2, RestartRecords
<1>6. None \in Nat \cup {None}
  OBVIOUS
<1> HIDE DEF s
<1>7. StoredRows(s) = rows /\ ToSet(Window(s)) = rows
  BY <1>4 DEF StoredRows
<1>8. Recent(rows, s)
  BY <1>4, <1>7 DEF Recent, NotAfter, ClockIInv
<1> HIDE DEF st, rows, poses
<1>9. LiveRecords(latest', log', pushed', latestPose', accepted')
  BY <1>2, <1>5, EvictionKeepsRecords
<1>10. store' \in StoreType /\ LeftStill(s, store', poses)
  BY <1>2, <1>4, <1>6, LimitLeavesStill
<1>11. Explained(log', store')
  <2>1. Explained(st.events, s)
    BY <1>5, <1>7 DEF Explained
  <2> QED
    BY <1>2, <1>4, <1>5, <1>10, <2>1, TrimKeepsExplained
<1>12. Recent((accepted' \ lost') \cup StoredRows(store'), store')
  <2>1. TrimsFront(s, store')
    BY <1>2, <1>4, <1>6, LimitTrimsFront
  <2>2. Recent(rows, store')
    BY <1>8, <2>1, TrimKeepsRecent
  <2>3. (accepted' \ lost') \cup StoredRows(store') \subseteq rows
    BY <1>2, <1>7, <1>10 DEF LeftStill
  <2> QED
    BY <2>2, <2>3, FewerRowsAreRecent
<1>13. LiveIInv'
  BY <1>1, <1>9, <1>11 DEF LiveIInv, Explained
<1> QED
  BY <1>12, <1>13 DEF ClockIInv, Held, Recent, Window, StoredRows, AllRows, AllSegments

LEMMA RestartClockStep ==
    ASSUME OneClock, ClockIInv, [RestartNext]_restartVars
    PROVE  ClockIInv'
BY ClockStep, RestartKeepsClock DEF RestartNext, restartVars

LEMMA UnseenHasNoParent ==
    ASSUME NEW edges, NEW events, NEW n, NEW poses, NEW rows, Agreed(edges, events, n, poses, rows),
           NEW c \in Id, poses[c] = None
    PROVE  ParentOf(edges, c) = None
<1>1. Replays(edges, events) /\ WithinCache(events, poses)
  BY DEF Agreed, SoundTree
<1>2. Of(events, c) = {}
  BY <1>1 DEF WithinCache, Of
<1>3. edges[c] = None
  BY <1>1, <1>2 DEF Replays
<1> QED
  BY <1>3 DEF ParentOf

LEMMA ReloadAgrees == ClockIInv => ReloadKeepsPresent
<1> DEFINE st == Rebuilt(Saved)
           rows == StoredRows(store)
           edges == st.edges
           poses == st.poses
<1> SUFFICES ASSUME ClockIInv, st.ok
             PROVE  poses = latestPose /\ \A c \in Id : ParentOf(edges, c) = ParentOf(latest, c)
  BY DEF ReloadKeepsPresent
<1>1. LiveState(st, rows)
  BY StoredIsLive
<1>2. /\ LiveRecords(latest, log, pushed, latestPose, accepted) /\ store \in StoreType
      /\ rows \subseteq accepted /\ NewestInHand(store, accepted)
      /\ latestPose \in [Id -> Pose \cup {None}]
  BY DEF ClockIInv, LiveIInv, StoreIInv, RowsInHand
<1>3. poses \in [Id -> Pose \cup {None}]
  BY <1>2, SavedBatches, RebuiltIsSound DEF SoundState
<1>4. /\ IsNewest(latestPose, accepted) /\ OneRowPerEpoch(accepted) /\ accepted \subseteq StoredRow
      /\ Follows(latest, latestPose)
  BY <1>2 DEF LiveRecords, Agreed
<1> DEFINE events == st.events
           n == st.pushed
<1>5. LiveRecords(edges, events, n, poses, rows)
  BY <1>1 DEF LiveState
<1> HIDE DEF st, edges, poses, events, n
<1>6. IsNewest(poses, rows) /\ Follows(edges, poses)
  BY <1>5 DEF LiveRecords, Agreed
<1>7. ASSUME NEW c \in Id PROVE poses[c] = latestPose[c]
  <2>1. CASE latestPose[c] = None
    <3>1. OfEntity(rows, c) = {}
      BY <1>2, <1>4, <2>1 DEF IsNewest, OfEntity
    <3>2. poses[c] = None
      BY <1>6, <3>1 DEF IsNewest, NewestOf
    <3> QED
      BY <2>1, <3>2
  <2>2. CASE latestPose[c] # None
    <3>1. PICK r \in NewestOf(OfEntity(accepted, c)) :
             latestPose[c] = [parent |-> r.frame, pose |-> r.pose, epoch |-> r.epoch]
      BY <1>4, <2>2 DEF IsNewest
    <3>2. /\ r \in accepted /\ r.id = c /\ r \in rows
          /\ \A q \in accepted : q.id = c => q.epoch <= r.epoch
      BY <1>2, <3>1 DEF NewestInHand, NewestOf, OfEntity, rows
    <3>3. poses[c] # None
      BY <1>6, <3>2 DEF IsNewest, OfEntity
    <3>4. PICK q \in NewestOf(OfEntity(rows, c)) :
             poses[c] = [parent |-> q.frame, pose |-> q.pose, epoch |-> q.epoch]
      BY <1>6, <3>3 DEF IsNewest
    <3>5. q \in accepted /\ q.id = c /\ r.epoch <= q.epoch
      BY <1>2, <3>2, <3>4 DEF NewestOf, OfEntity
    <3>6. q.epoch \in Nat /\ r.epoch \in Nat /\ q.epoch <= r.epoch
      BY <1>4, <3>2, <3>5, RowNumbers
    <3>7. q = r
      BY <1>4, <3>2, <3>5, <3>6 DEF OneRowPerEpoch
    <3> QED
      BY <3>1, <3>4, <3>7
  <2> QED
    BY <2>1, <2>2
<1>8. poses = latestPose
  BY <1>2, <1>3, <1>7
<1>9. ASSUME NEW c \in Id PROVE ParentOf(edges, c) = ParentOf(latest, c)
  <2>1. CASE latestPose[c] = None
    BY <1>2, <1>5, <1>8, <2>1, UnseenHasNoParent DEF LiveRecords
  <2>2. CASE latestPose[c] # None
    BY <1>4, <1>6, <1>8, <2>2 DEF Follows
  <2> QED
    BY <2>1, <2>2
<1> QED
  BY <1>8, <1>9

\* "Save/load round-trips, rebuilding all derived state": with one clock, every
\* parent and every cached pose that a load rebuilds from the rows of the file is
\* the one the running ledger has, although seals merged and split the batches,
\* evictions dropped rows and pinned others, and earlier restarts did the same.
THEOREM ReloadTellsThePresent ==
    ASSUME OneClock PROVE RestartSpec => []ReloadKeepsPresent
BY ReloadAgrees, ClockInit, RestartClockStep, PTL DEF RestartSpec

\* With one clock for all producers, evicting the segment of the oldest maximum
\* cuts only at the old end, wherever seals, splits and failed copies have put the
\* segment boundaries: of the rows that were there at the last load, or came since,
\* none after the window's start is missing.  Before any load that is every row.
THEOREM EvictionCutsTheOldEnd ==
    ASSUME OneClock PROVE RestartSpec => []WindowIsFull
<1>1. ClockIInv => WindowIsFull
  <2> SUFFICES ASSUME ClockIInv, WindowStart(store) # None,
                      NEW r \in accepted \ lost, r.epoch > WindowStart(store)
               PROVE  r \in StoredRows(store)
    BY DEF WindowIsFull
  <2>1. store \in StoreType /\ accepted \in SUBSET StoredRow
    BY DEF ClockIInv, LiveIInv, LiveRecords, Agreed, StoreIInv
  <2>2. WindowStart(store) \in Nat
    BY <2>1, WindowStartIsOldest
  <2>3. PICK w \in ToSet(Window(store)) : WindowStart(store) = w.epoch
    BY <2>1, WindowStartIsOldest
  <2>4. r.epoch \in Nat
    BY <2>1, RowNumbers
  <2>5. r \in ToSet(Window(store))
    <3>1. SUFFICES ASSUME r \notin ToSet(Window(store)) PROVE FALSE
      OBVIOUS
    <3>2. r.epoch <= w.epoch
      BY <3>1 DEF ClockIInv, Held, Recent, NotAfter
    <3> QED
      BY <2>2, <2>3, <2>4, <3>2
  <2> QED
    BY <2>1, <2>5, WindowOfStore
<1> QED
  BY <1>1, ClockInit, RestartClockStep, PTL DEF RestartSpec

-----------------------------------------------------------------------------
(* What is stored loads again. *)

\* By the youngest of the rows of each, no entities are in a circle.
Free(rows) ==
    \A S \in SUBSET Soloc :
        S # {} => ~ \A c \in S : \E r \in rows : r.id = c /\ IsYoungest(rows, r) /\ r.frame \in S

\* Wherever rows in order are cut, those before the cut are free of circles.
Cuttable(rows) == \A x, y \in Seq(StoredRow) : rows = x \o y => Free(ToSet(x))

\* The youngest rows of some are among the youngest of others.
Heads(some, others) == \A r : IsYoungest(some, r) => IsYoungest(others, r)

LEMMA HeadsAreFree ==
    ASSUME NEW some, NEW others, Free(others), Heads(some, others)
    PROVE  Free(some)
BY DEF Free, Heads, IsYoungest

\* The edges of a tree loop where the youngest rows do.
LEMMA FreeIsAcyclic ==
    ASSUME NEW edges, NEW events, NEW n, NEW poses, NEW rows, Agreed(edges, events, n, poses, rows)
    PROVE  CheckAcyclic(edges) <=> Free(rows)
<1>1. /\ rows \in SUBSET StoredRow /\ IsNewest(poses, rows) /\ OneRowPerEpoch(rows) /\ Follows(edges, poses)
  BY DEF Agreed
<1>2. ASSUME NEW c \in Id, NEW r \in rows, r.id = c, IsYoungest(rows, r)
      PROVE  Parents(edges)[c] = r.frame
  <2>1. r \in StoredRow /\ r.epoch \in Nat
    BY <1>1, RowNumbers
  <2>2. poses[c] # None
    BY <1>1, <1>2 DEF IsNewest, OfEntity
  <2>3. PICK p \in StoredRow : CameFrom(poses, c, rows, p)
    BY <1>1, <2>2, CachedRow
  <2>4. /\ p \in rows /\ p.id = c /\ p.epoch \in Nat /\ r.epoch <= p.epoch /\ p.epoch <= r.epoch
        /\ poses[c].parent = p.frame
    BY <1>2, <2>3 DEF CameFrom, IsYoungest
  <2>5. r = p
    <3>1. r.epoch = p.epoch
      BY <2>1, <2>4
    <3> QED
      BY <1>1, <1>2, <2>4, <3>1 DEF OneRowPerEpoch
  <2> QED
    BY <1>1, <2>2, <2>4, <2>5 DEF Follows, Parents
<1>3. ASSUME NEW c \in Id, Parents(edges)[c] # None
      PROVE  \E r \in rows : r.id = c /\ IsYoungest(rows, r) /\ r.frame = Parents(edges)[c]
  <2>1. poses[c] # None
    BY <1>3, UnseenHasNoParent DEF Parents
  <2>2. PICK p \in StoredRow : CameFrom(poses, c, rows, p)
    BY <1>1, <2>1, CachedRow
  <2> QED
    BY <1>2, <2>2 DEF CameFrom, IsYoungest
<1>4. \A S \in SUBSET Soloc : \A c \in S : c \in Id /\ c # None
  BY KindsAssumption DEF Id
<1>5. ASSUME NEW c \in Id, Looping(Parents(edges), c) PROVE ~Free(rows)
  <2>1. PICK S \in SUBSET Soloc : Parents(edges)[c] \in S /\ \A x \in S : Parents(edges)[x] \in S
    BY <1>5 DEF Looping
  <2>2. S # {} /\ \A x \in S : \E r \in rows : r.id = x /\ IsYoungest(rows, r) /\ r.frame \in S
    BY <1>3, <1>4, <2>1
  <2> QED
    BY <2>2 DEF Free
<1>6. ASSUME NEW S \in SUBSET Soloc, S # {},
             \A c \in S : \E r \in rows : r.id = c /\ IsYoungest(rows, r) /\ r.frame \in S
      PROVE  ~CheckAcyclic(edges)
  <2>1. \A c \in S : Parents(edges)[c] \in S
    BY <1>2, <1>4, <1>6
  <2>2. PICK c \in S : TRUE
    BY <1>6
  <2>3. c \in Id /\ Looping(Parents(edges), c)
    BY <1>4, <2>1, <2>2 DEF Looping
  <2> QED
    BY <2>3 DEF CheckAcyclic
<1> QED
  BY <1>5, <1>6 DEF CheckAcyclic, Free

\* Rows of a store in two parts, the pinned ones and the others.
LEMMA StoreInTwo ==
    ASSUME NEW s \in StoreType
    PROVE  /\ PinnedRows(s) \in Seq(StoredRow) /\ Window(s) \in Seq(StoredRow)
           /\ AllRows(s) = PinnedRows(s) \o Window(s)
<1> DEFINE p == PinnedRows(s)
           x == Rows(s.segments)
           y == Rows(s.tail)
<1>1. p \in Seq(StoredRow) /\ x \in Seq(StoredRow) /\ y \in Seq(StoredRow) /\ AllRows(s) = (p \o x) \o y
  BY StoreInParts
<1>2. Window(s) \in Seq(StoredRow) /\ Window(s) = x \o y
  BY WindowIsSeq DEF Window
<1> HIDE DEF p, x, y
<1>3. (p \o x) \o y = p \o (x \o y)
  BY <1>1, ConcatAssociative
<1> QED
  BY <1>1, <1>2, <1>3 DEF p

\* An eviction takes the front of rows in order, and pins only latest rows: whatever
\* comes before a cut of what is left came, with no younger rows, before a cut of the
\* whole.
LEMMA EvictionKeepsCuts ==
    ASSUME NEW s \in StoreType, NEW t \in StoreType, NEW poses, NEW rows \in SUBSET StoredRow,
           IsNewest(poses, rows), StoredRows(s) \subseteq rows,
           Sorted(AllRows(s)), IsInjective(AllRows(t)), Cuttable(AllRows(s)),
           StoredRows(t) \subseteq StoredRows(s), EndsWith(StoredRow, Window(s), Window(t)),
           t = s \/ \A r \in ToSet(PinnedRows(t)) : Still(poses, r)
    PROVE  Cuttable(AllRows(t))
<1> DEFINE all == AllRows(s)
           old == PinnedRows(s)
           kept == PinnedRows(t)
           rest == Window(t)
<1>1. PICK front \in Seq(StoredRow) : Window(s) = front \o rest
  BY DEF EndsWith
<1>2. /\ old \in Seq(StoredRow) /\ kept \in Seq(StoredRow) /\ rest \in Seq(StoredRow)
      /\ all = old \o (front \o rest) /\ AllRows(t) = kept \o rest
  BY <1>1, StoreInTwo
<1>3. /\ ToSet(kept \o rest) \subseteq ToSet(all) /\ ToSet(all) \subseteq rows
      /\ IsInjective(kept \o rest) /\ Sorted(all) /\ Cuttable(all)
  BY <1>2 DEF StoredRows
<1>4. CASE t = s
  BY <1>4
<1>5. CASE \A r \in ToSet(kept) : Still(poses, r)
  <2> HIDE DEF all, old, kept, rest
  <2> SUFFICES ASSUME NEW x \in Seq(StoredRow), NEW y \in Seq(StoredRow), kept \o rest = x \o y
               PROVE  Free(ToSet(x))
    BY <1>2 DEF Cuttable
  <2> old \in Seq(StoredRow)
    BY <1>2
  <2> kept \in Seq(StoredRow)
    BY <1>2
  <2> rest \in Seq(StoredRow)
    BY <1>2
  <2>1. \A r \in rows : r.epoch \in Nat /\ r.id \in Id
    BY RowNumbers DEF StoredRow
  <2>2. ASSUME NEW r \in ToSet(kept), r \in rows, NEW q \in rows, q.id = r.id PROVE q.epoch <= r.epoch
    <3>1. poses[r.id] # None /\ r.epoch = poses[r.id].epoch /\ r.id \in Id
      BY <1>5, <2>1, <2>2 DEF Still
    <3>2. PICK p \in StoredRow : CameFrom(poses, r.id, rows, p)
      BY <3>1, CachedRow
    <3> QED
      BY <2>2, <3>1, <3>2 DEF CameFrom, IsYoungest
  <2>3. ToSet(kept) \subseteq rows /\ ToSet(kept) \subseteq ToSet(all)
        /\ ToSet(kept) \cap ToSet(rest) = {}
    <3>1. OfTwo(kept \o rest, kept, rest)
      BY TwoPartsOf
    <3> QED
      BY <1>3, <3>1 DEF OfTwo
  <2>4. CASE \E z \in Seq(StoredRow) : Cut(kept, x, z)
    <3>1. PICK z \in Seq(StoredRow) : kept = x \o z
      BY <2>4 DEF Cut
    <3>2. ToSet(x) \subseteq ToSet(kept)
      BY <3>1, TwoPartsOf DEF OfTwo
    <3>3. Heads(ToSet(x), ToSet(all))
      BY <1>3, <2>2, <2>3, <3>2 DEF Heads, IsYoungest
    <3>4. Free(ToSet(all))
      <4>1. all \in Seq(StoredRow) /\ <<>> \in Seq(StoredRow) /\ all = all \o <<>>
        <5>1. all \in Seq(StoredRow)
          BY <1>2, ConcatProperties
        <5> QED
          BY <5>1, ConcatEmptySeq, EmptySeq
      <4> QED
        BY <1>3, <4>1 DEF Cuttable
    <3> QED
      BY <3>3, <3>4, HeadsAreFree
  <2>5. CASE \E z \in Seq(StoredRow) : Cut(x, kept, z) /\ Cut(rest, z, y)
    <3> DEFINE gone == old \o front
    <3>1. PICK z \in Seq(StoredRow) : x = kept \o z /\ rest = z \o y
      BY <2>5 DEF Cut
    <3>2. gone \in Seq(StoredRow) /\ gone \o z \in Seq(StoredRow) /\ all = (gone \o z) \o y
      <4>1. Cut(all, gone, rest) /\ gone \in Seq(StoredRow)
        BY <1>2, ConcatOfThree
      <4> HIDE DEF gone
      <4>2. Cut(gone \o (z \o y), gone \o z, y) /\ gone \o z \in Seq(StoredRow)
        BY <4>1, ConcatOfThree
      <4> QED
        BY <3>1, <4>1, <4>2 DEF Cut
    <3> HIDE DEF gone
    <3>3. Free(ToSet(gone \o z))
      BY <1>3, <3>2 DEF Cuttable
    <3>4. /\ ToSet(x) = ToSet(kept) \cup ToSet(z) /\ ToSet(gone \o z) = ToSet(gone) \cup ToSet(z)
          /\ ToSet(rest) = ToSet(z) \cup ToSet(y)
          /\ ToSet(all) = ToSet(gone) \cup ToSet(z) \cup ToSet(y)
      BY <3>1, <3>2, TwoPartsOf, ThreePartsOf DEF OfTwo, OfThree
    <3>5. NotAfter(ToSet(gone), ToSet(z))
      <4>1. InTurn((gone \o z) \o y, gone \o z, y) /\ InTurn(gone \o z, gone, z)
        BY <3>2, SortedConcat
      <4> QED
        BY <1>3, <3>2, <4>1 DEF InTurn
    <3>6. Heads(ToSet(x), ToSet(gone \o z))
      <4>1. ToSet(x) \subseteq ToSet(gone \o z)
        BY <2>3, <3>4
      <4>2. ASSUME NEW r \in ToSet(x), \A q \in ToSet(x) : q.id = r.id => q.epoch <= r.epoch,
                   NEW q \in ToSet(gone \o z), q.id = r.id
            PROVE  q.epoch <= r.epoch
        <5>1. CASE r \in ToSet(kept)
          BY <1>3, <2>2, <2>3, <3>4, <4>2, <5>1
        <5>2. CASE r \in ToSet(z) /\ q \in ToSet(gone)
          BY <3>5, <5>2 DEF NotAfter
        <5>3. CASE q \in ToSet(z)
          BY <3>4, <4>2, <5>3
        <5> QED
          BY <3>4, <5>1, <5>2, <5>3
      <4> QED
        BY <4>1, <4>2 DEF Heads, IsYoungest
    <3> QED
      BY <3>3, <3>6, HeadsAreFree
  <2>6. Cut(x \o y, x, y) /\ Cut(x \o y, kept, rest)
    BY DEF Cut
  <2> QED
    BY <2>4, <2>5, <2>6, CutsMeet
<1> QED
  BY <1>4, <1>5

\* The same of an evicting call.
LEMMA LimitKeepsCuts ==
    ASSUME NEW s \in StoreType, Balanced(s), NEW poses, NEW rows \in SUBSET StoredRow,
           IsNewest(poses, rows), StoredRows(s) \subseteq rows,
           Sorted(AllRows(s)), IsInjective(AllRows(s)), Cuttable(AllRows(s)),
           NEW lim \in Nat \cup {None}, NEW evictable \in Nat \cup {None}
    PROVE  Cuttable(AllRows(EnforceLimit(s, lim, poses, evictable)))
<1> DEFINE t == EnforceLimit(s, lim, poses, evictable)
<1>1. /\ t \in StoreType /\ Keeps(s, t, poses)
      /\ t = s \/ \A r \in ToSet(PinnedRows(t)) : Still(poses, r)
  BY LimitKeepsStore
<1> HIDE DEF t
<1>2. /\ IsInjective(AllRows(t)) /\ StoredRows(t) \subseteq StoredRows(s)
      /\ EndsWith(StoredRow, Window(s), Window(t))
  BY <1>1 DEF Keeps, TrimsFront
<1>3. Cuttable(AllRows(t))
  BY <1>1, <1>2, EvictionKeepsCuts
<1> QED
  BY <1>3 DEF t

\* A batch that moves entities below others by its last row alone keeps the cuts, if
\* the whole of it does.
LEMMA BatchKeepsCuts ==
    ASSUME NEW old \in Seq(StoredRow), NEW new \in Seq(StoredRow), Cuttable(old),
           \A i \in DOMAIN new : i < Len(new) => new[i].frame \notin Soloc,
           Free(ToSet(old \o new))
    PROVE  Cuttable(old \o new)
<1> SUFFICES ASSUME NEW x \in Seq(StoredRow), NEW y \in Seq(StoredRow), old \o new = x \o y
             PROVE  Free(ToSet(x))
  BY DEF Cuttable
<1>1. Cut(x \o y, x, y) /\ Cut(x \o y, old, new)
  BY DEF Cut
<1>2. CASE \E z \in Seq(StoredRow) : Cut(old, x, z)
  BY <1>2 DEF Cut, Cuttable
<1>3. CASE \E z \in Seq(StoredRow) : Cut(x, old, z) /\ Cut(new, z, y)
  <2>1. PICK z \in Seq(StoredRow) : x = old \o z /\ new = z \o y
    BY <1>3 DEF Cut
  <2>2. CASE y = <<>>
    <3>1. new = z
      BY <2>1, <2>2, ConcatEmptySeq
    <3> QED
      BY <2>1, <3>1
  <2>3. CASE y # <<>>
    <3>1. Len(z) \in Nat /\ Len(y) \in Nat /\ Len(y) # 0 /\ DOMAIN z = 1..Len(z)
      BY <2>3, EmptySeq, LenProperties
    <3>2. /\ Len(new) = Len(z) + Len(y) /\ DOMAIN new = 1..Len(new)
          /\ \A i \in 1..Len(z) : new[i] = z[i]
      BY <2>1, <3>1, ConcatProperties, LenProperties
    <3>3. \A i \in 1..Len(z) : i \in DOMAIN new /\ i < Len(new)
      BY <3>1, <3>2
    <3>4. \A r \in ToSet(z) : r.frame \notin Soloc
      BY <3>1, <3>2, <3>3 DEF ToSet
    <3>5. ToSet(x) = ToSet(old) \cup ToSet(z)
      BY <2>1, TwoPartsOf DEF OfTwo
    <3>6. Free(ToSet(old))
      <4>1. old = old \o <<>> /\ <<>> \in Seq(StoredRow)
        BY ConcatEmptySeq, EmptySeq
      <4> QED
        BY <4>1 DEF Cuttable
    <3>7. ASSUME NEW S \in SUBSET Soloc, S # {},
                 \A c \in S : \E r \in ToSet(x) : r.id = c /\ IsYoungest(ToSet(x), r) /\ r.frame \in S
          PROVE  FALSE
      <4>1. \A c \in S : \E r \in ToSet(old) : r.id = c /\ IsYoungest(ToSet(old), r) /\ r.frame \in S
        BY <3>4, <3>5, <3>7 DEF IsYoungest
      <4> QED
        BY <3>6, <3>7, <4>1 DEF Free
    <3> QED
      BY <3>7 DEF Free
  <2> QED
    BY <2>2, <2>3
<1> QED
  BY <1>1, <1>2, <1>3, CutsMeet

\* The stored rows have the youngest ones of every entity.
LEMMA StoredHeads ==
    ASSUME NEW s, NEW poses, NEW rows \in SUBSET StoredRow, IsNewest(poses, rows),
           NewestInHand(s, rows), StoredRows(s) \subseteq rows
    PROVE  Heads(StoredRows(s), rows)
<1> SUFFICES ASSUME NEW r \in StoredRows(s), \A q \in StoredRows(s) : q.id = r.id => q.epoch <= r.epoch,
                    NEW q \in rows, q.id = r.id
             PROVE  q.epoch <= r.epoch
  BY DEF Heads, IsYoungest
<1>1. r.id \in Id /\ r.epoch \in Nat /\ q.epoch \in Nat
  BY RowNumbers DEF StoredRow
<1>2. poses[r.id] # None
  BY <1>1 DEF IsNewest, OfEntity
<1>3. PICK p \in StoredRow : CameFrom(poses, r.id, rows, p)
  BY <1>1, <1>2, CachedRow
<1>4. p \in StoredRows(s) /\ p.id = r.id /\ p.epoch \in Nat /\ q.epoch <= p.epoch
  BY <1>1, <1>3 DEF CameFrom, IsYoungest, NewestInHand, NewestOf, OfEntity
<1> QED
  BY <1>1, <1>4

\* No row uses an abstract id.
Concrete(rows) == \A r \in rows : r.id \notin Abstract /\ r.frame \notin Abstract

\* An append moves entities below others by the last row of its batch alone.
StepwiseMoves ==
    \A batch \in Batches : \A i \in DOMAIN batch : i < Len(batch) => batch[i].frame \notin Soloc

CutsIInv == ClockIInv /\ Cuttable(AllRows(store)) /\ Concrete(StoredRows(store))

LEMMA AppendKeepsCuts ==
    ASSUME StepwiseMoves, CutsIInv, NEW batch \in Batches, NEW copyOk, NEW evictable \in Evictable,
           EntityOrdered(batch), ClockOrdered(batch), AppendBatch(batch, copyOk, evictable)
    PROVE  Cuttable(AllRows(store)') /\ Concrete(StoredRows(store)')
<1> DEFINE new == Stamped(batch, appended)
           old == AllRows(store)
           evs == EventsOf(latest, new, pushed)
           events == log \cup evs
           poses == latestPose'
           rows == accepted'
<1>1. /\ StoreIInv /\ LiveRecords(latest, log, pushed, latestPose, accepted) /\ Sorted(AllRows(store))
      /\ store \in StoreType /\ StoredRows(store) \subseteq accepted
      /\ appended \in Nat /\ pushed \in Nat /\ limit \in Nat \cup {None} /\ evictable \in Nat \cup {None}
  BY EvictableIsCount
     DEF CutsIInv, ClockIInv, Recent, LiveIInv, StoreIInv, RowsInHand, LedgerIInv, SoundTree, Typed
<1>2. /\ new \in Seq(StoredRow) /\ InOrder(latestPose, new)
      /\ Sorted(new) /\ NotAfter(accepted, ToSet(new))
  BY <1>1, StampedIsNew, StampedInOrder, ClockStamps
<1>3. /\ latest' = ApplyEvents(latest, evs) /\ pushed' = pushed + Cardinality(evs)
      /\ ~StagedCycle(latest, evs) /\ ~UsesAbstract(batch)
      /\ poses = UpdatePoseCache(latestPose, new)
      /\ rows = accepted \cup ToSet(new)
  BY Zenon DEF AppendBatch
<1>4. \A i \in DOMAIN new : i < Len(new) => new[i].frame \notin Soloc
  <2>1. batch \in Seq(SentRow) /\ DOMAIN new = DOMAIN batch
        /\ \A i \in DOMAIN batch : new[i].frame = batch[i].frame
    BY LedgerAssumption DEF Stamped
  <2>2. DOMAIN batch = 1..Len(batch) /\ Len(batch) \in Nat
    BY <2>1, LenProperties
  <2>3. DOMAIN new = 1..Len(new) /\ Len(new) \in Nat
    BY <1>2, LenProperties
  <2> HIDE DEF new
  <2>4. Len(new) = Len(batch)
    BY <2>1, <2>2, <2>3
  <2> QED
    BY <2>1, <2>4 DEF StepwiseMoves
<1>5. \A r \in ToSet(new) : r.id \notin Abstract /\ r.frame \notin Abstract
  BY <1>3 DEF Stamped, ToSet, UsesAbstract
<1>6. PICK s \in StoreType :
         /\ Balanced(s) /\ AllRows(s) = old \o new /\ Window(s) = Window(store) \o new
         /\ StoredRows(s) = StoredRows(store) \cup ToSet(new)
         /\ store' = EnforceLimit(s, limit, poses, evictable)
         /\ RowsInHand(s, rows) /\ NewestInHand(s, rows)
  BY <1>1, AppendStores
<1> HIDE DEF new
<1>7. LiveRecords(latest', events, pushed', poses, rows)
  BY <1>1, <1>2, <1>3, IngestKeepsRecords
<1> HIDE DEF poses, rows, evs, events
<1>8. Agreed(latest', events, pushed', poses, rows) /\ CheckAcyclic(latest')
      /\ rows \in SUBSET StoredRow /\ IsNewest(poses, rows)
  BY <1>7 DEF LiveRecords, Agreed
<1>9. Free(rows)
  BY <1>8, FreeIsAcyclic
<1>10. StoredRows(s) \subseteq rows /\ IsInjective(AllRows(s))
  BY <1>6 DEF RowsInHand
<1>11. Free(StoredRows(s))
  BY <1>6, <1>8, <1>9, <1>10, StoredHeads, HeadsAreFree
<1>12. old \in Seq(StoredRow) /\ Cuttable(old)
  BY <1>1, StoredRowsAreRows DEF CutsIInv
<1> HIDE DEF old
<1>13. Cuttable(AllRows(s))
  BY <1>2, <1>4, <1>6, <1>11, <1>12, BatchKeepsCuts DEF StoredRows
<1>14. Sorted(AllRows(s))
  <2>1. InTurn(old \o new, old, new)
    BY <1>2, <1>12, SortedConcat
  <2>2. Sorted(old) /\ NotAfter(ToSet(old), ToSet(new))
    BY <1>1, <1>2 DEF NotAfter, StoredRows, old
  <2> QED
    BY <1>2, <1>6, <2>1, <2>2 DEF InTurn
<1>15. Cuttable(AllRows(store'))
  BY <1>1, <1>6, <1>8, <1>10, <1>13, <1>14, LimitKeepsCuts
<1>16. StoredRows(store') \subseteq StoredRows(s)
  BY <1>1, <1>6, LimitKeepsRows
<1>17. Concrete(StoredRows(store'))
  BY <1>5, <1>6, <1>16 DEF Concrete, CutsIInv
<1> QED
  BY <1>15, <1>17 DEF StoredRows, AllRows, AllSegments

LEMMA LimitCutsToo ==
    ASSUME CutsIInv, NEW lim \in Limits, NEW stuck, NEW evictable \in Evictable,
           SetMemoryLimit(lim, stuck, evictable)
    PROVE  Cuttable(AllRows(store)') /\ Concrete(StoredRows(store)')
<1> DEFINE s == SplitSealed(store, SegmentTarget(lim), stuck)
<1>1. store' = EnforceLimit(s, lim, latestPose, evictable)
  BY Zenon DEF SetMemoryLimit
<1>2. /\ s \in StoreType /\ Balanced(s) /\ AllRows(s) = AllRows(store) /\ lim \in Nat \cup {None}
      /\ RowsInHand(s, accepted) /\ evictable \in Nat \cup {None}
  BY LimitSplits, EvictableIsCount DEF CutsIInv, ClockIInv, LiveIInv
<1> HIDE DEF s
<1>3. /\ accepted \in SUBSET StoredRow /\ IsNewest(latestPose, accepted) /\ Sorted(AllRows(s))
      /\ StoredRows(s) \subseteq accepted /\ IsInjective(AllRows(s)) /\ Cuttable(AllRows(s))
  BY <1>2 DEF CutsIInv, ClockIInv, LiveIInv, LiveRecords, Agreed, Recent, RowsInHand
<1>4. Cuttable(AllRows(store'))
  BY <1>1, <1>2, <1>3, LimitKeepsCuts
<1>5. StoredRows(store') \subseteq StoredRows(s)
  BY <1>1, <1>2, LimitKeepsRows
<1>6. Concrete(StoredRows(store'))
  BY <1>2, <1>5 DEF Concrete, CutsIInv, StoredRows
<1> QED
  BY <1>4, <1>6 DEF StoredRows, AllRows, AllSegments

LEMMA RestartKeepsCuts ==
    ASSUME CutsIInv, NEW lim \in Limits, Restart(lim)
    PROVE  Cuttable(AllRows(store)') /\ Concrete(StoredRows(store)')
<1> DEFINE s == SplitSealed(Loaded(Saved), SegmentTarget(lim), {})
           st == Rebuilt(Saved)
           rows == StoredRows(store)
           poses == st.poses
<1>1. store' = EnforceLimit(s, lim, poses, None) /\ st.ok
  BY Zenon DEF Restart
<1>2. /\ s \in StoreType /\ Balanced(s) /\ AllRows(s) = AllRows(store) /\ lim \in Nat \cup {None}
      /\ None \in Nat \cup {None}
  BY RestartSplits DEF CutsIInv, ClockIInv, LiveIInv, StoreIInv
<1>3. LiveState(st, rows)
  BY <1>1, StoredIsLive DEF CutsIInv
<1> HIDE DEF s
<1>4. rows \in SUBSET StoredRow /\ IsNewest(poses, rows) /\ StoredRows(s) = rows
  BY <1>2, <1>3 DEF LiveState, LiveRecords, Agreed, StoredRows
<1>5. Sorted(AllRows(s)) /\ IsInjective(AllRows(s)) /\ Cuttable(AllRows(s))
  BY <1>2 DEF CutsIInv, ClockIInv, LiveIInv, StoreIInv, Recent, RowsInHand
<1> HIDE DEF st, rows, poses
<1>6. Cuttable(AllRows(store'))
  BY <1>1, <1>2, <1>4, <1>5, LimitKeepsCuts
<1>7. StoredRows(store') \subseteq rows
  BY <1>1, <1>2, <1>4, LimitKeepsRows
<1>8. Concrete(StoredRows(store'))
  BY <1>7 DEF Concrete, CutsIInv, rows
<1> QED
  BY <1>6, <1>8 DEF StoredRows, AllRows, AllSegments

LEMMA CutsInit == RestartInit => CutsIInv
<1> SUFFICES ASSUME RestartInit PROVE CutsIInv
  OBVIOUS
<1>1. ClockIInv /\ StoredRows(store) = {}
  <2>1. ClockIInv /\ accepted = {}
    BY ClockInit DEF RestartInit, Init
  <2> QED
    BY <2>1 DEF ClockIInv, LiveIInv, StoreIInv, RowsInHand
<1>2. Concrete(StoredRows(store))
  BY <1>1 DEF Concrete
<1>3. Cuttable(AllRows(store))
  <2>1. SUFFICES ASSUME NEW x \in Seq(StoredRow), NEW y \in Seq(StoredRow), AllRows(store) = x \o y
                 PROVE  Free(ToSet(x))
    BY DEF Cuttable
  <2>2. ToSet(x) = {}
    BY <1>1, <2>1, TwoPartsOf DEF OfTwo, StoredRows
  <2> QED
    BY <2>2 DEF Free
<1> QED
  BY <1>1, <1>2, <1>3 DEF CutsIInv

LEMMA CutsStep ==
    ASSUME OneClock, StepwiseMoves, CutsIInv, [RestartNext]_restartVars
    PROVE  CutsIInv'
<1>1. ClockIInv'
  BY RestartClockStep DEF CutsIInv
<1>2. CASE UNCHANGED restartVars
  BY <1>1, <1>2 DEF restartVars, ledgerVars, CutsIInv, StoredRows, AllRows, AllSegments
<1>3. CASE LiveNext
  <2>1. Cuttable(AllRows(store)') /\ Concrete(StoredRows(store)')
    BY <1>3, AppendKeepsCuts, LimitCutsToo DEF LiveNext, Continues
  <2> QED
    BY <1>1, <2>1 DEF CutsIInv
<1>4. ASSUME NEW lim \in Limits, Restart(lim) PROVE CutsIInv'
  BY <1>1, <1>4, RestartKeepsCuts DEF CutsIInv
<1> QED
  BY <1>2, <1>3, <1>4 DEF RestartNext

\* A batch after which no entities are in a circle is not refused.
LEMMA FreeBatchLoads ==
    ASSUME NEW st, st.ok, NEW rows, LiveState(st, rows),
           NEW batch \in Seq(StoredRow), InOrder(st.poses, batch),
           Concrete(ToSet(batch)), Free(rows \cup ToSet(batch))
    PROVE  Ingested(st, batch).ok
<1> DEFINE edges == st.edges
           events == st.events
           n == st.pushed
           poses == st.poses
           evs == EventsOf(edges, batch, n)
           now == ApplyEvents(edges, evs)
<1>1. LiveRecords(edges, events, n, poses, rows) /\ InOrder(poses, batch)
  BY DEF LiveState
<1>2. ~UsesAbstract(batch)
  BY DEF Concrete, UsesAbstract, ToSet
<1>3. evs = EventsOf(st.edges, batch, st.pushed)
  OBVIOUS
<1>4. ~StagedCycle(edges, evs) => Ingested(st, batch).ok
  <2>1. st.ok
    OBVIOUS
  <2> QED
    BY <1>2, <2>1 DEF Ingested
<1> HIDE DEF edges, events, n, poses
<1>5. n \in Nat /\ SoundTree(edges, events, n) /\ CheckAcyclic(edges)
  BY <1>1 DEF LiveRecords, Agreed, SoundTree, Typed
<1>6. TypedRows(batch) /\ ContinuesLog(events, batch)
  BY <1>1, RowsAreTyped, OrderContinuesLog
<1>7. StagedCycle(edges, evs) <=> ~CheckAcyclic(now)
  BY <1>5, <1>6, RefusalIsExact
<1>8. Agreed(now, events \cup evs, n + Cardinality(evs), UpdatePoseCache(poses, batch), rows \cup ToSet(batch))
  BY <1>1, <1>5, IngestAgrees
<1> HIDE DEF now, evs
<1>9. CheckAcyclic(now)
  BY <1>8, FreeIsAcyclic
<1> QED
  BY <1>4, <1>7, <1>9

\* Batches in the order of one clock load, wherever the rows are cut into batches, if
\* no cut leaves a circle.
LEMMA CutsLoad ==
    ASSUME NEW batches \in Seq(Seq(StoredRow)),
           InClockOrder(FlattenSeq(batches)), Cuttable(FlattenSeq(batches)),
           Concrete(ToSet(FlattenSeq(batches)))
    PROVE  Rebuilt(batches).ok
<1> DEFINE Whole(w) == InClockOrder(w) /\ Cuttable(w) /\ Concrete(ToSet(w))
           Fine(q) == Whole(FlattenSeq(q)) => Rebuilt(q).ok
           T == {q \in Seq(Seq(StoredRow)) : Fine(q)}
<1>1. <<>> \in T
  <2>1. Rebuilt(<<>>).ok
    BY RebuiltOfNone DEF Blank
  <2>2. <<>> \in Seq(Seq(StoredRow))
    BY EmptySeq
  <2> QED
    BY <2>1, <2>2
<1>2. ASSUME NEW q \in T, NEW batch \in Seq(StoredRow) PROVE Append(q, batch) \in T
  <2>1. q \in Seq(Seq(StoredRow)) /\ Fine(q)
    OBVIOUS
  <2> HIDE DEF T
  <2> DEFINE st == Rebuilt(q)
             flat == FlattenSeq(q)
             rows == ToSet(flat)
             t == Ingested(st, batch)
  <2>2. Append(q, batch) \in Seq(Seq(StoredRow)) /\ Rebuilt(Append(q, batch)) = t
    BY <2>1, AppendProperties, RebuiltOfAppend
  <2>3. flat \in Seq(StoredRow) /\ FlattenSeq(Append(q, batch)) = flat \o batch
    BY <2>1, FlattenIsSeq, FlattenAppend
  <2>4. Whole(flat) => st.ok
    BY <2>1
  <2>5. InClockOrder(flat) /\ st.ok => LiveState(st, rows)
    BY <2>1, RebuiltIsLive
  <2> HIDE DEF st, flat
  <2>6. SUFFICES ASSUME InClockOrder(flat \o batch), Cuttable(flat \o batch), Concrete(ToSet(flat \o batch))
                 PROVE  t.ok
    <3> HIDE DEF t
    <3> QED
      BY <2>2, <2>3 DEF T
  <2>7. OfTwo(flat \o batch, flat, batch) /\ InTurn(flat \o batch, flat, batch)
    BY <2>3, TwoPartsOf, SortedConcat
  <2>8. /\ InClockOrder(flat) /\ ToSet(flat \o batch) = rows \cup ToSet(batch)
        /\ Concrete(ToSet(flat)) /\ Concrete(ToSet(batch))
    BY <2>6, <2>7 DEF InClockOrder, OfTwo, InTurn, OneRowPerEpoch, Concrete
  <2>9. Cuttable(flat) /\ Free(ToSet(flat \o batch))
    <3>1. ASSUME NEW x \in Seq(StoredRow), NEW y \in Seq(StoredRow), flat = x \o y PROVE Free(ToSet(x))
      <4>1. (x \o y) \o batch = x \o (y \o batch)
        <5>1. Cut(x \o (y \o batch), x \o y, batch)
          BY ConcatOfThree
        <5> QED
          BY <5>1 DEF Cut
      <4>2. y \o batch \in Seq(StoredRow)
        BY ConcatProperties
      <4> QED
        BY <2>6, <3>1, <4>1, <4>2 DEF Cuttable
    <3>2. Free(ToSet(flat \o batch))
      <4> DEFINE w == flat \o batch
      <4>1. w \in Seq(StoredRow)
        BY <2>3, ConcatProperties
      <4>2. Cuttable(w)
        BY <2>6
      <4> HIDE DEF w
      <4>3. w = w \o <<>> /\ <<>> \in Seq(StoredRow)
        BY <4>1, ConcatEmptySeq, EmptySeq
      <4>4. Free(ToSet(w))
        BY <4>1, <4>2, <4>3 DEF Cuttable
      <4> QED
        BY <4>4 DEF w
    <3>3. Cuttable(flat)
      BY <3>1 DEF Cuttable
    <3> QED
      BY <3>2, <3>3
  <2>10. st.ok
    BY <2>4, <2>8, <2>9
  <2>11. LiveState(st, rows) /\ IsNewest(st.poses, rows)
    BY <2>5, <2>8, <2>10 DEF LiveState, LiveRecords, Agreed
  <2>12. InOrder(st.poses, batch)
    <3> DEFINE poses == st.poses
    <3>1. IsNewest(poses, ToSet(flat))
      BY <2>11
    <3> HIDE DEF poses
    <3>2. InOrder(poses, batch)
      BY <2>3, <2>6, <3>1, SortedContinues DEF InClockOrder
    <3> QED
      BY <3>2 DEF poses
  <2> HIDE DEF rows
  <2>13. Free(rows \cup ToSet(batch))
    BY <2>8, <2>9, Zenon
  <2> QED
    BY <2>8, <2>10, <2>11, <2>12, <2>13, FreeBatchLoads
<1> HIDE DEF T
<1>3. T = Seq(Seq(StoredRow))
  <2>1. T \in SUBSET Seq(Seq(StoredRow))
    BY DEF T
  <2> QED
    BY <1>1, <1>2, <2>1, SequencesByAppend
<1>4. Fine(batches)
  BY <1>3 DEF T
<1> QED
  BY <1>4

\* "Errors if the stored data contains a cycle, which a ledger built through `append`
\* cannot produce": with one clock, and batches that re-parent entities below others
\* one at a time, whatever is stored loads, wherever seals, splits and evictions have
\* cut the rows into other batches than those that were appended.
THEOREM StoredRowsLoad ==
    ASSUME OneClock, StepwiseMoves PROVE RestartSpec => []StoredDataLoads
<1>1. CutsIInv => StoredDataLoads
  <2> SUFFICES ASSUME CutsIInv PROVE Rebuilt(Saved).ok
    BY DEF StoredDataLoads
  <2>1. store \in StoreType /\ RowsInHand(store, accepted) /\ Sorted(AllRows(store)) /\ OneRowPerEpoch(accepted)
    BY DEF CutsIInv, ClockIInv, LiveIInv, LiveRecords, Agreed, StoreIInv, Recent
  <2>2. Saved \in Seq(Seq(StoredRow)) /\ FlattenSeq(Saved) = AllRows(store)
    BY <2>1, SavedBatches
  <2>3. InClockOrder(FlattenSeq(Saved)) /\ Cuttable(FlattenSeq(Saved)) /\ Concrete(ToSet(FlattenSeq(Saved)))
    BY <2>1, <2>2 DEF InClockOrder, RowsInHand, OneRowPerEpoch, StoredRows, CutsIInv
  <2> QED
    BY <2>2, <2>3, CutsLoad
<1> QED
  BY <1>1, CutsInit, CutsStep, PTL DEF RestartSpec

\* Rows that place every entity below one of a lower rank are free of circles.
LEMMA RankedIsFree ==
    ASSUME NEW rank \in [Id -> Nat], NEW rows,
           \A r \in rows : r.frame \in Soloc => rank[r.frame] < rank[r.id]
    PROVE  Free(rows)
<1> SUFFICES ASSUME NEW S \in SUBSET Soloc, S # {}, \A c \in S : \E r \in rows : r.id = c /\ r.frame \in S
             PROVE  FALSE
  BY DEF Free
<1> DEFINE R == {rank[c] : c \in S}
<1>1. R \in SUBSET Nat /\ R # {}
  BY DEF Id
<1>2. PICK m \in R : \A n \in R : m <= n
  BY <1>1, LeastNatural
<1>3. PICK c \in S : m = rank[c]
  OBVIOUS
<1>4. PICK r \in rows : r.id = c /\ r.frame \in S
  OBVIOUS
<1>5. rank[r.frame] < rank[c] /\ rank[r.frame] \in R
  BY <1>4
<1> HIDE DEF R
<1>6. rank[r.frame] \in Nat /\ m \in Nat
  BY <1>1, <1>5
<1>7. m <= rank[r.frame]
  BY <1>2, <1>5
<1> QED
  BY <1>3, <1>5, <1>6, <1>7

\* In a fixed hierarchy, a ledger's file loads however many rows a batch has: if every
\* entity is only ever placed below one of a lower rank, no cut leaves a circle.
THEOREM HierarchyLoads ==
    ASSUME OneClock, NEW rank \in [Id -> Nat],
           \A batch \in Batches : \A i \in DOMAIN batch :
               batch[i].frame \in Soloc => rank[batch[i].frame] < rank[batch[i].id]
    PROVE  RestartSpec => []StoredDataLoads
<1> DEFINE Ranked(rows) == \A r \in rows : r.frame \in Soloc => rank[r.frame] < rank[r.id]
           RankedIInv == ClockIInv /\ Ranked(accepted) /\ Concrete(accepted)
<1>1. RankedIInv => StoredDataLoads
  <2> SUFFICES ASSUME RankedIInv PROVE Rebuilt(Saved).ok
    BY DEF StoredDataLoads
  <2>1. /\ store \in StoreType /\ RowsInHand(store, accepted) /\ Sorted(AllRows(store))
        /\ OneRowPerEpoch(accepted)
    BY DEF ClockIInv, LiveIInv, LiveRecords, Agreed, StoreIInv, Recent
  <2> DEFINE rows == AllRows(store)
  <2>2. Saved \in Seq(Seq(StoredRow)) /\ FlattenSeq(Saved) = rows
    BY <2>1, SavedBatches
  <2>3. InClockOrder(rows) /\ ToSet(rows) \subseteq accepted
    BY <2>1 DEF InClockOrder, RowsInHand, OneRowPerEpoch, StoredRows
  <2> HIDE DEF rows
  <2>4. Cuttable(rows)
    <3>1. SUFFICES ASSUME NEW x \in Seq(StoredRow), NEW y \in Seq(StoredRow), rows = x \o y
                   PROVE  Free(ToSet(x))
      BY DEF Cuttable
    <3>2. ToSet(x) \subseteq accepted
      BY <2>3, <3>1, TwoPartsOf DEF OfTwo
    <3>3. Ranked(ToSet(x))
      BY <3>2
    <3> QED
      BY <3>3, RankedIsFree
  <2>5. Concrete(ToSet(rows))
    BY <2>3 DEF Concrete
  <2> QED
    BY <2>2, <2>3, <2>4, <2>5, CutsLoad
<1>2. RestartInit => RankedIInv
  BY ClockInit DEF RestartInit, Init, Concrete
<1>3. RankedIInv /\ [RestartNext]_restartVars => RankedIInv'
  <2> SUFFICES ASSUME RankedIInv, [RestartNext]_restartVars PROVE RankedIInv'
    OBVIOUS
  <2>1. ClockIInv'
    BY RestartClockStep
  <2>2. ASSUME NEW batch \in Batches, NEW copyOk, NEW evictable, AppendBatch(batch, copyOk, evictable)
        PROVE  Ranked(accepted') /\ Concrete(accepted')
    <3> DEFINE new == Stamped(batch, appended)
    <3>1. accepted' = accepted \cup ToSet(new) /\ ~UsesAbstract(batch)
      BY <2>2, Zenon DEF AppendBatch
    <3>2. ASSUME NEW r \in ToSet(new)
          PROVE  /\ r.id \notin Abstract /\ r.frame \notin Abstract
                 /\ r.frame \in Soloc => rank[r.frame] < rank[r.id]
      <4>1. PICK i \in DOMAIN batch : r = new[i]
        BY DEF ToSet, Stamped
      <4>2. r.id = batch[i].id /\ r.frame = batch[i].frame
        BY <4>1 DEF Stamped
      <4> QED
        BY <3>1, <4>2 DEF UsesAbstract
    <3> HIDE DEF new
    <3> QED
      BY <3>1, <3>2 DEF Concrete
  <2>3. ASSUME UNCHANGED accepted PROVE Ranked(accepted') /\ Concrete(accepted')
    BY <2>3
  <2>4. ASSUME NEW lim \in Limits, Restart(lim) PROVE Ranked(accepted') /\ Concrete(accepted')
    BY <2>3, <2>4 DEF Restart
  <2>5. CASE UNCHANGED restartVars
    BY <2>1, <2>3, <2>5 DEF restartVars, ledgerVars
  <2>6. CASE \E lim \in Limits, stuck \in SplitFailures, evictable \in Evictable :
                SetMemoryLimit(lim, stuck, evictable)
    <3>1. UNCHANGED accepted
      BY <2>6 DEF SetMemoryLimit
    <3> QED
      BY <2>1, <2>3, <3>1
  <2> QED
    BY <2>1, <2>2, <2>4, <2>5, <2>6 DEF RestartNext, LiveNext
<1> HIDE DEF RankedIInv
<1> QED
  BY <1>1, <1>2, <1>3, PTL DEF RestartSpec

-----------------------------------------------------------------------------
(* The history at every epoch. *)

\* By the rows, no entities are in a circle at the epoch.
NoLoop(rows, t) ==
    \A S \in SUBSET Soloc :
        S # {} => ~ \A c \in S : \E r \in rows : LastAt(rows, c, t, r) /\ r.frame \in S

\* Of each entity, the rows that are stored are its last ones.
Suffix(rows, s) ==
    \A q \in StoredRows(s), r \in rows : q.id = r.id /\ q.epoch < r.epoch => r \in StoredRows(s)

\* The log tells of an epoch what the rows tell, or nothing.
LogTells(events, rows) ==
    /\ EventsHaveRows(events, rows)
    /\ \A e \in events, r \in rows :
          /\ e.child = r.id /\ e.epoch <= r.epoch
          /\ \A f \in events : f.child = r.id /\ f.epoch <= r.epoch => f.epoch <= e.epoch
          => e.parent = r.frame

LEMMA ExplainedIsTold ==
    ASSUME NEW events, FollowsEpochs(events), \A e \in events : e.epoch \in Nat,
           NEW r, Explains(events, r),
           NEW e \in events, e.child = r.id, e.epoch <= r.epoch,
           \A f \in events : f.child = r.id /\ f.epoch <= r.epoch => f.epoch <= e.epoch
    PROVE  e.parent = r.frame
<1>1. PICK g \in events : /\ g.child = r.id /\ g.epoch <= r.epoch /\ g.parent = r.frame
                          /\ \A f \in events : f.child = r.id /\ f.epoch <= r.epoch => f.epoch <= g.epoch
  BY DEF Explains
<1>2. e.epoch <= g.epoch /\ g.epoch <= e.epoch
  BY <1>1
<1>3. e.epoch = g.epoch
  BY <1>2
<1>4. e = g
  BY <1>1, <1>3 DEF FollowsEpochs
<1> QED
  BY <1>1, <1>4

LEMMA StateTells ==
    ASSUME NEW st, NEW rows, LiveState(st, rows)
    PROVE  LogTells(st.events, rows)
<1> DEFINE events == st.events
<1>1. FollowsEpochs(events) /\ EventsHaveRows(events, rows) /\ \A r \in rows : Explains(events, r)
  BY DEF LiveState, LiveRecords, Agreed
<1>2. \A e \in events : e.epoch \in Nat
  BY DEF LiveState, LiveRecords, Agreed, SoundTree, Typed, Event, Epoch
<1> HIDE DEF events
<1>3. LogTells(events, rows)
  BY <1>1, <1>2, ExplainedIsTold DEF LogTells
<1> QED
  BY <1>3 DEF events

LEMMA AppendKeepsTelling ==
    ASSUME NEW edges, NEW events, NEW n \in Nat, NEW poses, NEW rows,
           LiveRecords(edges, events, n, poses, rows), LogTells(events, rows),
           NEW batch \in Seq(StoredRow), InOrder(poses, batch)
    PROVE  LogTells(events \cup EventsOf(edges, batch, n), rows \cup ToSet(batch))
<1> DEFINE evs == EventsOf(edges, batch, n)
           all == events \cup evs
           now == rows \cup ToSet(batch)
<1>1. Continued(edges, events, n, batch)
  BY OrderedBatch
<1>2. /\ FollowsEpochs(all) /\ \A r \in ToSet(batch) : Explains(all, r)
      /\ \A e \in evs : /\ e.child \in Id /\ e.epoch \in Nat
                        /\ \E r \in ToSet(batch) : r.id = e.child /\ r.epoch = e.epoch
  BY <1>1 DEF Continued
<1>3. \A e \in events : e.epoch \in Nat
  BY DEF LiveRecords, Agreed, SoundTree, Typed, Event, Epoch
<1> HIDE DEF evs
<1>4. EventsHaveRows(all, now)
  BY <1>2 DEF LogTells, EventsHaveRows
<1>5. ASSUME NEW r \in rows, NEW e \in evs, e.child = r.id PROVE ~(e.epoch <= r.epoch)
  <2>1. PICK q \in ToSet(batch) : q.id = r.id /\ q.epoch = e.epoch
    BY <1>2, <1>5
  <2>2. rows \in SUBSET StoredRow /\ IsNewest(poses, rows)
    BY DEF LiveRecords, Agreed
  <2>3. r \in StoredRow /\ r.id \in Id /\ r.epoch \in Nat
    BY <2>2, RowNumbers DEF StoredRow
  <2>4. poses[r.id] # None
    BY <2>2, <2>3 DEF IsNewest, OfEntity
  <2>5. q.epoch > poses[r.id].epoch
    BY <2>1, <2>4 DEF InOrder, ToSet
  <2>6. PICK p \in StoredRow : CameFrom(poses, r.id, rows, p)
    BY <2>2, <2>3, <2>4, CachedRow
  <2>7. r.epoch <= p.epoch /\ p.epoch \in Nat /\ poses[r.id].epoch = p.epoch
    BY <2>6 DEF CameFrom, IsYoungest
  <2> QED
    BY <1>2, <2>1, <2>3, <2>5, <2>7
<1>6. ASSUME NEW e \in all, NEW r \in now, e.child = r.id, e.epoch <= r.epoch,
             \A f \in all : f.child = r.id /\ f.epoch <= r.epoch => f.epoch <= e.epoch
      PROVE  e.parent = r.frame
  <2>1. CASE r \in ToSet(batch)
    <3>1. \A f \in all : f.epoch \in Nat
      BY <1>2, <1>3
    <3> HIDE DEF all
    <3> QED
      BY <1>2, <1>6, <2>1, <3>1, ExplainedIsTold
  <2>2. CASE r \in rows
    <3>1. e \in events
      BY <1>5, <1>6, <2>2
    <3>2. \A f \in events : f.child = r.id /\ f.epoch <= r.epoch => f.epoch <= e.epoch
      BY <1>6
    <3> QED
      BY <1>6, <2>2, <3>1, <3>2 DEF LogTells
  <2> QED
    BY <2>1, <2>2
<1> HIDE DEF all, now
<1>7. LogTells(all, now)
  BY <1>4, <1>6 DEF LogTells
<1> QED
  BY <1>7 DEF all, now, evs

LEMMA TrimKeepsTelling ==
    ASSUME NEW edges, NEW events, NEW n, NEW poses, NEW rows,
           LiveRecords(edges, events, n, poses, rows), LogTells(events, rows),
           NEW s, NEW t \in StoreType
    PROVE  LogTells(TrimmedLog(events, s, t), rows)
<1> DEFINE left == TrimmedLog(events, s, t)
           ws == WindowStart(t)
<1>1. CASE left = events
  BY <1>1
<1>2. CASE left # events
  <2>1. left = events \ Trimmed(events, ws) /\ ws \in Nat
    BY <1>2, WindowStartIsOldest DEF TrimmedLog
  <2>2. FollowsEpochs(events) /\ \A e \in events : e.epoch \in Nat
    BY DEF LiveRecords, Agreed, SoundTree, Typed, Event, Epoch
  <2>3. \A r \in rows : r.epoch \in Nat
    BY RowNumbers DEF LiveRecords, Agreed
  <2> HIDE DEF left, ws
  <2>4. EventsHaveRows(left, rows)
    BY <2>1 DEF LogTells, EventsHaveRows
  <2>5. ASSUME NEW e \in left, NEW r \in rows, e.child = r.id, e.epoch <= r.epoch,
               \A f \in left : f.child = r.id /\ f.epoch <= r.epoch => f.epoch <= e.epoch
        PROVE  e.parent = r.frame
    <3>1. SUFFICES ASSUME NEW f \in events, f.child = r.id, f.epoch <= r.epoch PROVE f.epoch <= e.epoch
      BY <2>1, <2>5 DEF LogTells
    <3>2. CASE f \in left
      BY <2>5, <3>1, <3>2
    <3>3. CASE f \notin left
      <4>1. f.epoch < ws /\ \E g \in events : g.child = f.child /\ g.epoch < ws /\ Before(f, g)
        BY <2>1, <3>3 DEF Trimmed, Of
      <4>2. PICK g \in events : g.child = f.child /\ g.epoch < ws /\ Before(f, g)
        BY <4>1
      <4>3. f.epoch <= g.epoch
        BY <2>2, <4>2 DEF Before
      <4>4. SUFFICES ASSUME e.epoch < f.epoch PROVE FALSE
        BY <2>1, <2>2
      <4>5. e.epoch < g.epoch /\ e.epoch < ws
        BY <2>1, <2>2, <2>5, <3>1, <4>2, <4>3, <4>4
      <4>6. e \in Trimmed(events, ws)
        BY <2>1, <2>5, <3>1, <4>2, <4>5 DEF Trimmed, Of, Before
      <4> QED
        BY <2>1, <4>6
    <3> QED
      BY <3>2, <3>3
  <2> QED
    BY <2>4, <2>5 DEF LogTells, left
<1> QED
  BY <1>1, <1>2

\* The rows that evictions drop are their entities' oldest.
LEMMA LimitKeepsSuffix ==
    ASSUME NEW s \in StoreType, Balanced(s), NEW poses, NEW rows \in SUBSET StoredRow,
           IsNewest(poses, rows), Suffix(rows, s), Recent(StoredRows(s), s),
           NEW lim \in Nat \cup {None}, NEW evictable \in Nat \cup {None}
    PROVE  Suffix(rows, EnforceLimit(s, lim, poses, evictable))
<1> DEFINE t == EnforceLimit(s, lim, poses, evictable)
<1>1. t \in StoreType /\ StoredRows(t) \subseteq StoredRows(s)
      /\ (t = s \/ \A r \in ToSet(PinnedRows(t)) : Still(poses, r))
  BY LimitLeavesStill DEF LeftStill
<1>2. Recent(StoredRows(s), t)
  BY LimitTrimsFront, TrimKeepsRecent
<1> HIDE DEF t
<1>3. CASE t = s
  BY <1>3 DEF t
<1>4. CASE \A r \in ToSet(PinnedRows(t)) : Still(poses, r)
  <2>1. SUFFICES ASSUME NEW q \in StoredRows(t), NEW r \in rows, q.id = r.id, q.epoch < r.epoch
                 PROVE  r \in StoredRows(t)
    BY DEF Suffix, t
  <2>2. StoredRows(t) = ToSet(PinnedRows(t)) \cup ToSet(Window(t)) /\ StoredRows(t) \subseteq StoredRow
    BY <1>1, WindowOfStore, StoredRowsAreRows
  <2>3. /\ q.epoch \in Nat /\ r.epoch \in Nat /\ r \in StoredRow /\ r.id \in Id
    BY <2>1, <2>2, RowNumbers DEF StoredRow
  <2>4. CASE q \in ToSet(Window(t))
    <3>1. r \in StoredRows(s)
      BY <1>1, <2>1 DEF Suffix
    <3>2. r \in ToSet(Window(t))
      BY <1>2, <2>1, <2>3, <2>4, <3>1 DEF Recent, NotAfter
    <3> QED
      BY <2>2, <3>2
  <2>5. CASE q \in ToSet(PinnedRows(t))
    <3>1. poses[r.id] # None /\ poses[r.id].epoch = q.epoch
      BY <1>4, <2>1, <2>5 DEF Still
    <3>2. PICK p \in StoredRow : CameFrom(poses, r.id, rows, p)
      BY <2>3, <3>1, CachedRow
    <3>3. r.epoch <= p.epoch /\ p.epoch = q.epoch
      BY <3>1, <3>2 DEF CameFrom, IsYoungest
    <3> QED
      BY <2>1, <2>3, <3>3
  <2> QED
    BY <2>1, <2>2, <2>4, <2>5
<1> QED
  BY <1>1, <1>3, <1>4

\* At an epoch that no row is after, the rows tell of the current tree.
LEMMA PresentHasNoLoop ==
    ASSUME NEW edges, NEW events, NEW n, NEW poses, NEW rows, LiveRecords(edges, events, n, poses, rows),
           NEW t \in Nat, \A r \in rows : r.epoch <= t
    PROVE  NoLoop(rows, t)
<1>1. Free(rows)
  BY FreeIsAcyclic DEF LiveRecords
<1>2. ASSUME NEW c, NEW r \in rows, LastAt(rows, c, t, r) PROVE r.id = c /\ IsYoungest(rows, r)
  BY <1>2 DEF LastAt, IsYoungest
<1> QED
  BY <1>1, <1>2 DEF Free, NoLoop

\* Rows that are younger than an epoch change nothing of what is told of it.
LEMMA YoungerRowsKeepNoLoop ==
    ASSUME NEW rows, NEW t, NoLoop(rows, t), NEW new, \A r \in new : ~(r.epoch <= t)
    PROVE  NoLoop(rows \cup new, t)
<1> SUFFICES ASSUME NEW S \in SUBSET Soloc, S # {},
                    \A c \in S : \E r \in rows \cup new : LastAt(rows \cup new, c, t, r) /\ r.frame \in S
             PROVE  FALSE
  BY DEF NoLoop
<1>1. \A c \in S : \E r \in rows : LastAt(rows, c, t, r) /\ r.frame \in S
  BY DEF LastAt
<1> QED
  BY <1>1 DEF NoLoop

LEMMA AppendKeepsTold ==
    ASSUME LiveIInv, LiveIInv', LogTells(log, accepted),
           NEW batch \in Batches, NEW copyOk, NEW evictable \in Evictable,
           EntityOrdered(batch), AppendBatch(batch, copyOk, evictable)
    PROVE  LogTells(log', accepted')
<1> DEFINE rows == Stamped(batch, appended)
           all == log \cup EventsOf(latest, rows, pushed)
<1>1. /\ StoreIInv /\ LiveRecords(latest, log, pushed, latestPose, accepted)
      /\ appended \in Nat /\ pushed \in Nat /\ store' \in StoreType
  BY DEF LiveIInv, LiveRecords, Agreed, StoreIInv, LedgerIInv, SoundTree, Typed
<1>2. rows \in Seq(StoredRow) /\ InOrder(latestPose, rows)
  BY <1>1, StampedIsNew, StampedInOrder
<1>3. /\ latest' = ApplyEvents(latest, EventsOf(latest, rows, pushed))
      /\ pushed' = pushed + Cardinality(EventsOf(latest, rows, pushed))
      /\ ~StagedCycle(latest, EventsOf(latest, rows, pushed))
      /\ latestPose' = UpdatePoseCache(latestPose, rows)
      /\ accepted' = accepted \cup ToSet(rows)
  BY Zenon DEF AppendBatch
<1>4. PICK s \in StoreType : log' = TrimmedLog(all, s, store')
  BY <1>1, AppendStores
<1> HIDE DEF rows
<1>5. LiveRecords(latest', all, pushed', latestPose', accepted')
  BY <1>1, <1>2, <1>3, IngestKeepsRecords
<1>6. LogTells(all, accepted')
  BY <1>1, <1>2, <1>3, AppendKeepsTelling
<1> HIDE DEF all
<1> QED
  BY <1>1, <1>4, <1>5, <1>6, TrimKeepsTelling

LEMMA LimitKeepsTold ==
    ASSUME LiveIInv, LiveIInv', LogTells(log, accepted),
           NEW lim \in Limits, NEW stuck, NEW evictable \in Evictable,
           SetMemoryLimit(lim, stuck, evictable)
    PROVE  LogTells(log', accepted')
<1> DEFINE s == SplitSealed(store, SegmentTarget(lim), stuck)
<1>1. log' = TrimmedLog(log, s, store') /\ UNCHANGED accepted
  BY Zenon DEF SetMemoryLimit
<1>2. LiveRecords(latest, log, pushed, latestPose, accepted) /\ store' \in StoreType
  BY DEF LiveIInv, StoreIInv
<1> HIDE DEF s
<1> QED
  BY <1>1, <1>2, TrimKeepsTelling

\* Where entities publish in order, the log tells what the rows tell, or nothing.
ToldIInv == LiveIInv /\ LogTells(log, accepted)

LEMMA ToldInit == Init => ToldIInv
BY LiveLedgerInit DEF ToldIInv, Init, LogTells, EventsHaveRows

LEMMA ToldStep == ToldIInv /\ [LiveNext]_ledgerVars => ToldIInv'
<1> SUFFICES ASSUME ToldIInv, [LiveNext]_ledgerVars PROVE ToldIInv'
  OBVIOUS
<1>1. LiveIInv /\ LiveIInv' /\ LogTells(log, accepted)
  BY LiveLedgerStep DEF ToldIInv
<1>2. CASE UNCHANGED ledgerVars
  BY <1>1, <1>2 DEF ledgerVars, tree, ToldIInv
<1>3. CASE LiveNext
  <2>1. LogTells(log', accepted')
    BY <1>1, <1>3, AppendKeepsTold, LimitKeepsTold DEF LiveNext, Continues
  <2> QED
    BY <1>1, <2>1 DEF ToldIInv
<1> QED
  BY <1>2, <1>3

LEMMA AppendKeepsSuffix ==
    ASSUME ClockIInv, ClockIInv', Suffix(accepted, store),
           NEW batch \in Batches, NEW copyOk, NEW evictable \in Evictable,
           ClockOrdered(batch), AppendBatch(batch, copyOk, evictable)
    PROVE  Suffix(accepted', store')
<1> DEFINE rows == Stamped(batch, appended)
<1>1. /\ StoreIInv /\ store \in StoreType /\ RowsInHand(store, accepted) /\ accepted \in SUBSET StoredRow
      /\ appended \in Nat /\ limit \in Nat \cup {None} /\ evictable \in Nat \cup {None}
      /\ Recent(StoredRows(store), store) /\ StoredRows(store) \subseteq accepted
  BY EvictableIsCount
     DEF ClockIInv, Held, Recent, NotAfter, LiveIInv, LiveRecords, Agreed, StoreIInv, LedgerIInv, RowsInHand
<1>2. rows \in Seq(StoredRow) /\ Sorted(rows) /\ NotAfter(accepted, ToSet(rows))
  BY <1>1, StampedIsNew, ClockStamps
<1>3. accepted' = accepted \cup ToSet(rows)
  BY Zenon DEF AppendBatch
<1>4. PICK s \in StoreType :
         /\ Balanced(s) /\ Window(s) = Window(store) \o rows /\ AllRows(s) = AllRows(store) \o rows
         /\ StoredRows(s) = StoredRows(store) \cup ToSet(rows)
         /\ store' = EnforceLimit(s, limit, latestPose', evictable)
  BY <1>1, AppendStores
<1> HIDE DEF rows
<1>5. Suffix(accepted', s)
  <2>1. \A r \in accepted : r.epoch \in Nat
    BY <1>1, RowNumbers
  <2>2. \A r \in ToSet(rows) : r.epoch \in Nat
    BY <1>2, RowNumbers, RowsAreTyped DEF ToSet
  <2> SUFFICES ASSUME NEW q \in StoredRows(s), NEW r \in accepted', q.id = r.id, q.epoch < r.epoch
               PROVE  r \in StoredRows(s)
    BY DEF Suffix
  <2>3. CASE r \in ToSet(rows)
    BY <1>4, <2>3
  <2>4. CASE r \in accepted /\ q \in StoredRows(store)
    BY <1>4, <2>4 DEF Suffix
  <2>5. CASE r \in accepted /\ q \in ToSet(rows)
    <3>1. r.epoch <= q.epoch
      BY <1>2, <2>5 DEF NotAfter
    <3> QED
      BY <2>1, <2>2, <2>5, <3>1
  <2> QED
    BY <1>3, <1>4, <2>3, <2>4, <2>5
<1>6. Recent(StoredRows(s), s)
  <2> DEFINE old == StoredRows(store)
  <2>1. NotAfter(old, ToSet(rows)) /\ Recent(old, store) /\ StoredRows(store) \subseteq old
    BY <1>1, <1>2 DEF NotAfter
  <2> HIDE DEF old
  <2>2. Recent(old \cup ToSet(rows), s)
    BY <1>1, <1>2, <1>4, <2>1, ClockKeepsRecent
  <2> QED
    BY <1>4, <2>2 DEF old
<1> DEFINE poses == latestPose'
           now == accepted'
<1>7. now \in SUBSET StoredRow /\ IsNewest(poses, now) /\ Suffix(now, s)
  BY <1>5 DEF ClockIInv, LiveIInv, LiveRecords, Agreed
<1> HIDE DEF poses, now
<1>8. Suffix(now, EnforceLimit(s, limit, poses, evictable))
  BY <1>1, <1>4, <1>6, <1>7, LimitKeepsSuffix
<1> QED
  BY <1>4, <1>8 DEF poses, now

LEMMA LimitKeepsItsSuffix ==
    ASSUME ClockIInv, Suffix(accepted, store),
           NEW lim \in Limits, NEW stuck, NEW evictable \in Evictable,
           SetMemoryLimit(lim, stuck, evictable)
    PROVE  Suffix(accepted', store')
<1> DEFINE s == SplitSealed(store, SegmentTarget(lim), stuck)
<1>1. store' = EnforceLimit(s, lim, latestPose, evictable) /\ UNCHANGED accepted
  BY Zenon DEF SetMemoryLimit
<1>2. /\ s \in StoreType /\ Balanced(s) /\ Window(s) = Window(store) /\ AllRows(s) = AllRows(store)
      /\ lim \in Nat \cup {None} /\ evictable \in Nat \cup {None}
  BY LimitSplits, EvictableIsCount DEF ClockIInv, LiveIInv
<1> HIDE DEF s
<1>3. accepted \in SUBSET StoredRow /\ IsNewest(latestPose, accepted)
  BY DEF ClockIInv, LiveIInv, LiveRecords, Agreed
<1>4. Suffix(accepted, s) /\ Recent(StoredRows(s), s)
  BY <1>2 DEF ClockIInv, Held, Suffix, Recent, NotAfter, StoredRows
<1> QED
  BY <1>1, <1>2, <1>3, <1>4, LimitKeepsSuffix

\* What a log that was made of the last rows of each entity tells, all the rows tell.
LEMMA LastRowsTell ==
    ASSUME NEW rows \in SUBSET StoredRow, OneRowPerEpoch(rows), NEW left \in SUBSET rows,
           \A q \in left, r \in rows : q.id = r.id /\ q.epoch < r.epoch => r \in left,
           NEW events, LogTells(events, left)
    PROVE  LogTells(events, rows)
<1>1. EventsHaveRows(events, rows)
  BY DEF LogTells, EventsHaveRows
<1>2. ASSUME NEW e \in events, NEW r \in rows, e.child = r.id, e.epoch <= r.epoch,
             \A f \in events : f.child = r.id /\ f.epoch <= r.epoch => f.epoch <= e.epoch
      PROVE  e.parent = r.frame
  <2>1. PICK q \in left : q.id = e.child /\ q.epoch = e.epoch
    BY DEF LogTells, EventsHaveRows
  <2>2. q.epoch \in Nat /\ r.epoch \in Nat
    BY RowNumbers
  <2>3. CASE q.epoch < r.epoch
    <3>1. r \in left
      BY <1>2, <2>1, <2>3
    <3> QED
      BY <1>2, <3>1 DEF LogTells
  <2>4. CASE q.epoch = r.epoch
    <3>1. q = r
      BY <1>2, <2>1, <2>4 DEF OneRowPerEpoch
    <3> QED
      BY <1>2, <3>1 DEF LogTells
  <2> QED
    BY <1>2, <2>1, <2>2, <2>3, <2>4
<1> QED
  BY <1>1, <1>2 DEF LogTells

LEMMA RestartKeepsHistory ==
    ASSUME ClockIInv, ClockIInv', Suffix(accepted, store), NEW lim \in Limits, Restart(lim)
    PROVE  Suffix(accepted', store') /\ LogTells(log', accepted')
<1> DEFINE s == SplitSealed(Loaded(Saved), SegmentTarget(lim), {})
           st == Rebuilt(Saved)
           rows == StoredRows(store)
           poses == st.poses
<1>1. /\ store' = EnforceLimit(s, lim, poses, None)
      /\ log' = TrimmedLog(st.events, s, store')
      /\ accepted' = accepted /\ st.ok
  BY Zenon DEF Restart
<1>2. /\ store \in StoreType /\ store' \in StoreType /\ rows \subseteq accepted
      /\ accepted \in SUBSET StoredRow /\ OneRowPerEpoch(accepted)
  BY DEF ClockIInv, LiveIInv, LiveRecords, Agreed, StoreIInv, RowsInHand
<1>3. /\ s \in StoreType /\ Balanced(s) /\ AllRows(s) = AllRows(store) /\ Window(s) = AllRows(store)
      /\ lim \in Nat \cup {None} /\ None \in Nat \cup {None}
  BY <1>2, RestartSplits
<1>4. LiveRecords(st.edges, st.events, st.pushed, poses, accepted)
  BY <1>1, RestartRecords
<1>5. LogTells(st.events, rows)
  BY <1>1, StoredIsLive, StateTells
<1> HIDE DEF s
<1>6. StoredRows(s) = rows /\ ToSet(Window(s)) = rows
  BY <1>3 DEF StoredRows
<1>7. Recent(StoredRows(s), s) /\ Suffix(accepted, s)
  BY <1>3, <1>6 DEF Recent, Suffix, NotAfter, ClockIInv
<1>8. LogTells(st.events, accepted)
  <2>1. \A q \in rows, r \in accepted : q.id = r.id /\ q.epoch < r.epoch => r \in rows
    BY DEF Suffix
  <2> HIDE DEF st, rows
  <2> QED
    BY <1>2, <1>5, <2>1, LastRowsTell
<1>9. IsNewest(poses, accepted)
  BY <1>4 DEF LiveRecords, Agreed
<1> HIDE DEF st, rows, poses
<1>10. Suffix(accepted', store')
  BY <1>1, <1>2, <1>3, <1>7, <1>9, LimitKeepsSuffix
<1>11. LogTells(log', accepted')
  BY <1>1, <1>2, <1>4, <1>8, TrimKeepsTelling
<1> QED
  BY <1>10, <1>11

\* With one clock, moreover, the rows that are left of an entity are its last ones.
HistoryIInv == ClockIInv /\ Suffix(accepted, store) /\ LogTells(log, accepted)

LEMMA HistoryInit == RestartInit => HistoryIInv
<1> SUFFICES ASSUME RestartInit PROVE HistoryIInv
  OBVIOUS
<1>1. accepted = {} /\ LogTells(log, accepted)
  BY ToldInit DEF ToldIInv, RestartInit, Init
<1> QED
  BY <1>1, ClockInit DEF HistoryIInv, Suffix

LEMMA HistoryStep ==
    ASSUME OneClock, HistoryIInv, [RestartNext]_restartVars
    PROVE  HistoryIInv'
<1>1. ClockIInv /\ ClockIInv' /\ LiveIInv /\ LiveIInv' /\ Suffix(accepted, store) /\ LogTells(log, accepted)
  BY RestartClockStep DEF HistoryIInv, ClockIInv
<1>2. CASE UNCHANGED restartVars
  <2>1. UNCHANGED <<store, accepted, log>>
    BY <1>2 DEF restartVars, ledgerVars, tree
  <2> QED
    BY <1>1, <2>1 DEF HistoryIInv, Suffix, StoredRows, AllRows, AllSegments
<1>3. CASE RestartNext
  <2>1. Suffix(accepted', store')
    BY <1>1, <1>3, AppendKeepsSuffix, LimitKeepsItsSuffix, RestartKeepsHistory
       DEF RestartNext, LiveNext, Continues
  <2>2. LogTells(log', accepted')
    BY <1>1, <1>3, AppendKeepsTold, LimitKeepsTold, RestartKeepsHistory
       DEF RestartNext, LiveNext, Continues
  <2> QED
    BY <1>1, <2>1, <2>2 DEF HistoryIInv, Suffix, StoredRows, AllRows, AllSegments
<1> QED
  BY <1>2, <1>3

-----------------------------------------------------------------------------
(* No loops in the past. *)

\* Every batch is a snapshot: its rows are of one epoch.
OneEpochBatches ==
    \A batch \in Batches : \A q, r \in DOMAIN batch : batch[q].epoch = batch[r].epoch

EpochIInv == HistoryIInv /\ \A t \in Epoch : NoLoop(accepted, t)

LEMMA EpochInit == RestartInit => EpochIInv
<1> SUFFICES ASSUME RestartInit PROVE EpochIInv
  OBVIOUS
<1>1. accepted = {}
  BY DEF RestartInit, Init
<1>2. \A t \in Epoch : NoLoop(accepted, t)
  BY <1>1 DEF NoLoop, LastAt
<1> QED
  BY <1>2, HistoryInit DEF EpochIInv

\* A snapshot is not before any row, so it changes what is told of an epoch only
\* when nothing is after that epoch.
LEMMA SnapshotKeepsNoLoop ==
    ASSUME NEW rows \in SUBSET StoredRow, NEW t \in Nat, NoLoop(rows, t),
           NEW batch \in Seq(StoredRow), NotAfter(rows, ToSet(batch)),
           \A q, r \in ToSet(batch) : q.epoch = r.epoch,
           (\A r \in rows \cup ToSet(batch) : r.epoch <= t) => NoLoop(rows \cup ToSet(batch), t)
    PROVE  NoLoop(rows \cup ToSet(batch), t)
<1> DEFINE new == ToSet(batch)
<1>1. \A r \in rows \cup new : r.epoch \in Nat
  BY RowNumbers, RowsAreTyped DEF ToSet
<1> HIDE DEF new
<1>2. CASE \A r \in new : ~(r.epoch <= t)
  <2>1. NoLoop(rows \cup new, t)
    BY <1>2, YoungerRowsKeepNoLoop
  <2> QED
    BY <2>1 DEF new
<1>3. CASE \E r \in new : r.epoch <= t
  <2>1. PICK r \in new : r.epoch <= t
    BY <1>3
  <2>2. \A q \in rows \cup new : q.epoch <= t
    <3>1. ASSUME NEW q \in new PROVE q.epoch <= t
      <4>1. q.epoch = r.epoch
        BY DEF new
      <4> QED
        BY <2>1, <4>1
    <3>2. ASSUME NEW q \in rows PROVE q.epoch <= t
      <4>1. q.epoch <= r.epoch
        BY DEF new, NotAfter
      <4> QED
        BY <1>1, <2>1, <4>1
    <3> QED
      BY <3>1, <3>2
  <2> QED
    BY <2>2 DEF new
<1> QED
  BY <1>2, <1>3

LEMMA AppendKeepsNoLoop ==
    ASSUME EpochIInv, HistoryIInv', OneEpochBatches,
           NEW batch \in Batches, NEW copyOk, NEW evictable \in Evictable,
           ClockOrdered(batch), AppendBatch(batch, copyOk, evictable),
           NEW t \in Epoch
    PROVE  NoLoop(accepted', t)
<1> DEFINE rows == Stamped(batch, appended)
<1>1. t \in Nat /\ NoLoop(accepted, t) /\ accepted \in SUBSET StoredRow /\ appended \in Nat
  BY DEF EpochIInv, HistoryIInv, ClockIInv, LiveIInv, LiveRecords, Agreed, StoreIInv, LedgerIInv, Epoch
<1>2. rows \in Seq(StoredRow) /\ NotAfter(accepted, ToSet(rows))
  BY <1>1, StampedIsNew, ClockStamps
<1>3. accepted' = accepted \cup ToSet(rows)
  BY Zenon DEF AppendBatch
<1>4. \A q, r \in ToSet(rows) : q.epoch = r.epoch
  BY DEF Stamped, OneEpochBatches, ToSet
<1> HIDE DEF rows
<1>5. (\A r \in accepted' : r.epoch <= t) => NoLoop(accepted', t)
  <2> DEFINE edges == latest'
             events == log'
             n == pushed'
             poses == latestPose'
             now == accepted'
  <2>1. LiveRecords(edges, events, n, poses, now)
    BY DEF HistoryIInv, ClockIInv, LiveIInv
  <2> HIDE DEF edges, events, n, poses, now
  <2>2. (\A r \in now : r.epoch <= t) => NoLoop(now, t)
    BY <1>1, <2>1, PresentHasNoLoop
  <2> QED
    BY <2>2 DEF now
<1> QED
  BY <1>1, <1>2, <1>3, <1>4, <1>5, SnapshotKeepsNoLoop

LEMMA EpochStep ==
    ASSUME OneClock, OneEpochBatches, EpochIInv, [RestartNext]_restartVars
    PROVE  EpochIInv'
<1>1. HistoryIInv'
  BY HistoryStep DEF EpochIInv
<1>2. CASE UNCHANGED restartVars
  BY <1>1, <1>2 DEF restartVars, ledgerVars, EpochIInv
<1>3. CASE \E batch \in Batches, copyOk \in CopyOutcomes, evictable \in Evictable :
             Continues(batch) /\ AppendBatch(batch, copyOk, evictable)
  <2>1. \A t \in Epoch : NoLoop(accepted', t)
    BY <1>1, <1>3, AppendKeepsNoLoop DEF Continues
  <2> QED
    BY <1>1, <2>1 DEF EpochIInv
<1>4. CASE \E lim \in Limits, stuck \in SplitFailures, evictable \in Evictable :
             SetMemoryLimit(lim, stuck, evictable)
  BY <1>1, <1>4 DEF SetMemoryLimit, EpochIInv
<1>5. CASE \E lim \in Limits : Restart(lim)
  BY <1>1, <1>5 DEF Restart, EpochIInv
<1> QED
  BY <1>2, <1>3, <1>4, <1>5 DEF RestartNext, LiveNext

\* What parent_at tells of an epoch is what the entity's last row by then told.
LEMMA ToldByRow ==
    ASSUME NEW edges, NEW events, NEW n, NEW poses, NEW rows, LiveRecords(edges, events, n, poses, rows),
           LogTells(events, rows), NEW c \in Id, NEW t \in Nat, ParentAt(edges, events, c, t) # None
    PROVE  \E r \in rows : LastAt(rows, c, t, r) /\ r.frame = ParentAt(edges, events, c, t)
<1>1. /\ SoundTree(edges, events, n) /\ FollowsEpochs(events) /\ rows \in SUBSET StoredRow
      /\ \A e \in events : e.epoch \in Nat
  BY DEF LiveRecords, Agreed, SoundTree, Typed, Event, Epoch
<1>2. \A r \in rows : r.epoch \in Nat
  BY <1>1, RowNumbers
<1> DEFINE past == {e.epoch : e \in {f \in events : f.child = c /\ f.epoch <= t}}
           seen == {r.epoch : r \in {q \in rows : q.id = c /\ q.epoch <= t}}
<1>3. past \in SUBSET Nat /\ past # {} /\ \A x \in past : x <= t
  BY <1>1, NothingIsTold
<1>4. PICK e \in events : /\ e.child = c /\ e.epoch <= t
                          /\ \A f \in events : f.child = c /\ f.epoch <= t => f.epoch <= e.epoch
  <2>1. PICK m \in past : \A x \in past : x <= m
    <3> HIDE DEF past
    <3> QED
      BY <1>3, GreatestNatural
  <2> QED
    BY <2>1
<1>5. ParentAt(edges, events, c, t) = e.parent
  BY <1>1, <1>4, YoungestIsTold
<1>6. seen \in SUBSET Nat /\ seen # {} /\ \A x \in seen : x <= t
  BY <1>2, <1>4 DEF LogTells, EventsHaveRows
<1>7. PICK r \in rows : LastAt(rows, c, t, r)
  <2>1. PICK m \in seen : \A x \in seen : x <= m
    <3> HIDE DEF seen
    <3> QED
      BY <1>6, GreatestNatural
  <2> QED
    BY <2>1 DEF LastAt
<1>8. e.epoch <= r.epoch
  <2>1. PICK q \in rows : q.id = e.child /\ q.epoch = e.epoch
    BY DEF LogTells, EventsHaveRows
  <2> QED
    BY <1>4, <1>7, <2>1 DEF LastAt
<1>9. \A f \in events : f.child = r.id /\ f.epoch <= r.epoch => f.epoch <= e.epoch
  BY <1>1, <1>2, <1>4, <1>7 DEF LastAt
<1>10. e.parent = r.frame
  BY <1>4, <1>7, <1>8, <1>9 DEF LogTells, LastAt
<1> QED
  BY <1>5, <1>7, <1>10

\* The cycle check of ingest_batch walks only the edges as they are after the batch.
\* Yet when one clock orders the stream and every batch is a snapshot, the parents
\* that parent_at gives never loop at any past epoch either, whatever was evicted or
\* trimmed and however often the ledger was saved and loaded.
THEOREM PastStaysAcyclic ==
    ASSUME OneClock, OneEpochBatches
    PROVE  RestartSpec => []NeverCyclicAtAnyEpoch
<1>1. EpochIInv => NeverCyclicAtAnyEpoch
  <2> SUFFICES ASSUME EpochIInv, NEW t \in Epoch, NEW d \in Soloc, NEW S \in SUBSET Soloc,
                      LET par == [c \in Id |-> ParentAt(latest, log, c, t)]
                      IN  par[d] \in S /\ \A x \in S : par[x] \in S
               PROVE  FALSE
    BY DEF NeverCyclicAtAnyEpoch, Looping
  <2>1. \A x \in S : x \in Id /\ x # None
    BY KindsAssumption DEF Id
  <2>2. S # {} /\ \A x \in S : ParentAt(latest, log, x, t) \in S
    <3>1. d \in Id
      BY DEF Id
    <3> QED
      BY <2>1, <3>1
  <2>3. LiveRecords(latest, log, pushed, latestPose, accepted) /\ LogTells(log, accepted)
        /\ NoLoop(accepted, t) /\ t \in Nat
    BY DEF EpochIInv, HistoryIInv, ClockIInv, LiveIInv, Epoch
  <2>4. ASSUME NEW x \in S
        PROVE  \E r \in accepted : LastAt(accepted, x, t, r) /\ r.frame \in S
    <3>1. x \in Id /\ ParentAt(latest, log, x, t) # None
      BY <2>1, <2>2
    <3> QED
      BY <2>2, <2>3, <3>1, ToldByRow
  <2> QED
    BY <2>2, <2>3, <2>4 DEF NoLoop
<1> QED
  BY <1>1, EpochInit, EpochStep, PTL DEF RestartSpec

-----------------------------------------------------------------------------
(* Two climbs: ancestry_at's up the log, and the history's up the rows. *)

\* A recursion that ends in `stop` with `out`, and goes on with `next` everywhere else.
Climbs(f, D, stop, out, next) ==
    f = [w \in D |-> IF w \in stop THEN out[w] ELSE f[next[w]]]

LEMMA ClimbExists ==
    ASSUME NEW D, NEW stop \in SUBSET D, NEW out, NEW next, \A w \in D \ stop : next[w] \in D
    PROVE  \E f : Climbs(f, D, stop, out, next)
<1> DEFINE Closed(T) == \A v \in T \ stop : next[v] \in T
           reach(w) == {v \in D : \A T \in SUBSET D : w \in T /\ Closed(T) => v \in T}
           ends(w) == reach(w) \cap stop
           f == [w \in D |-> IF ends(w) = {} THEN 0 ELSE out[CHOOSE v \in ends(w) : TRUE]]
<1>1. ASSUME NEW w \in stop PROVE ends(w) = {w}
  <2>1. {w} \in SUBSET D /\ Closed({w})
    OBVIOUS
  <2> QED
    BY <2>1
<1>2. ASSUME NEW w \in D \ stop PROVE ends(w) = ends(next[w])
  <2>1. next[w] \in D
    OBVIOUS
  <2>2. ASSUME NEW v \in reach(next[w]) PROVE v \in reach(w)
    OBVIOUS
  <2> DEFINE T == {w} \cup reach(next[w])
  <2>3. T \in SUBSET D /\ w \in T /\ Closed(T)
    <3>1. next[w] \in T
      BY <2>1
    <3>2. ASSUME NEW u \in reach(next[w]) \ stop PROVE next[u] \in reach(next[w])
      OBVIOUS
    <3> QED
      BY <3>1, <3>2
  <2>4. ASSUME NEW v \in reach(w) PROVE v \in T
    BY <2>3
  <2> QED
    BY <2>2, <2>4
<1> HIDE DEF reach
<1>3. Climbs(f, D, stop, out, next)
  <2>1. ASSUME NEW w \in D PROVE f[w] = IF w \in stop THEN out[w] ELSE f[next[w]]
    <3>1. CASE w \in stop
      <4>1. ends(w) = {w}
        BY <1>1, <3>1
      <4> HIDE DEF ends
      <4> QED
        BY <3>1, <4>1
    <3>2. CASE w \notin stop
      <4>1. ends(w) = ends(next[w]) /\ next[w] \in D
        BY <1>2, <3>2
      <4> HIDE DEF ends
      <4> QED
        BY <3>2, <4>1
    <3> QED
      BY <3>1, <3>2
  <2> HIDE DEF ends
  <2> QED
    BY <2>1 DEF Climbs
<1> QED
  BY <1>3

\* The recursion inside AncestryAt.
ClimbsLog(f, edges, events, t) ==
    f = [chain \in Seq(Id) |->
            LET parent == ParentAt(edges, events, chain[Len(chain)], t)
            IN  IF parent = None THEN None
                ELSE IF parent \notin Soloc \/ edges[parent] = None THEN Append(chain, parent)
                ELSE IF \E k \in DOMAIN chain : chain[k] = parent THEN None
                ELSE f[Append(chain, parent)]]

LEMMA LogClimbExists ==
    ASSUME NEW edges, NEW events, NEW t
    PROVE  \E f : ClimbsLog(f, edges, events, t)
<1> DEFINE up(w) == ParentAt(edges, events, w[Len(w)], t)
           out == [w \in Seq(Id) |->
                      IF up(w) = None THEN None
                      ELSE IF up(w) \notin Soloc \/ edges[up(w)] = None THEN Append(w, up(w)) ELSE None]
           stop == {w \in Seq(Id) : up(w) = None \/ up(w) \notin Soloc \/ edges[up(w)] = None
                                    \/ \E k \in DOMAIN w : w[k] = up(w)}
           next == [w \in Seq(Id) |-> Append(w, up(w))]
<1> HIDE DEF up
<1>1. \A w \in Seq(Id) \ stop : next[w] \in Seq(Id)
  <2>1. ASSUME NEW w \in Seq(Id) \ stop PROVE Append(w, up(w)) \in Seq(Id)
    <3>1. up(w) \in Id
      BY DEF Id
    <3> QED
      BY <3>1, AppendProperties
  <2> QED
    BY <2>1
<1>2. PICK f : Climbs(f, Seq(Id), stop, out, next)
  <2>1. stop \in SUBSET Seq(Id)
    OBVIOUS
  <2> HIDE DEF stop, out, next
  <2> QED
    BY <1>1, <2>1, ClimbExists
<1>3. ASSUME NEW w \in Seq(Id)
      PROVE  (IF w \in stop THEN out[w] ELSE f[next[w]])
               = IF up(w) = None THEN None
                 ELSE IF up(w) \notin Soloc \/ edges[up(w)] = None THEN Append(w, up(w))
                 ELSE IF \E k \in DOMAIN w : w[k] = up(w) THEN None
                 ELSE f[Append(w, up(w))]
  OBVIOUS
<1> HIDE DEF stop, out, next
<1>4. ClimbsLog(f, edges, events, t)
  BY <1>2, <1>3, Zenon DEF Climbs, ClimbsLog, up
<1> QED
  BY <1>4

LEMMA AncestryByClimb ==
    ASSUME NEW edges, NEW events, NEW t, NEW c, c \notin Astro
    PROVE  \E f : ClimbsLog(f, edges, events, t) /\ AncestryAt(edges, events, c, t) = f[<<c>>]
<1> DEFINE f == CHOOSE g : ClimbsLog(g, edges, events, t)
<1>1. ClimbsLog(f, edges, events, t)
  BY LogClimbExists
<1>2. AncestryAt(edges, events, c, t) = f[<<c>>]
  BY DEF AncestryAt, ClimbsLog
<1> QED
  BY <1>1, <1>2

\* The recursion inside TrueChain.
ClimbsRows(f, t) ==
    f = [hops \in Seq(StoredRow) |->
            LET frame == Last(hops).frame
            IN  IF frame \notin Soloc \/ OfEntity(accepted, frame) = {}
                THEN [root |-> frame, poses |-> [k \in DOMAIN hops |-> hops[k].pose]]
                ELSE IF ~HasRow(frame, t) \/ \E k \in DOMAIN hops : hops[k].id = frame
                THEN None
                ELSE f[Append(hops, LastRow(frame, t))]]

\* A row that there is: the last one of its entity by an epoch.
LEMMA LastRowIsLast ==
    ASSUME accepted \in SUBSET StoredRow, OneRowPerEpoch(accepted), NEW c, NEW t \in Nat, HasRow(c, t)
    PROVE  LastRow(c, t) \in StoredRow /\ LastAt(accepted, c, t, LastRow(c, t))
<1> DEFINE by == {q \in OfEntity(accepted, c) : q.epoch <= t}
           seen == {r.epoch : r \in by}
<1>1. \A r \in accepted : r.epoch \in Nat
  BY RowNumbers
<1>2. seen \in SUBSET Nat /\ seen # {} /\ \A x \in seen : x <= t
  BY <1>1 DEF HasRow, OfEntity
<1>3. \E m \in seen : \A x \in seen : x <= m
  <2> HIDE DEF seen
  <2> QED
    BY <1>2, GreatestNatural
<1>4. NewestOf(by) # {}
  BY <1>3 DEF NewestOf
<1>5. LastRow(c, t) \in NewestOf(by)
  BY <1>4 DEF LastRow
<1> QED
  BY <1>5 DEF NewestOf, OfEntity, LastAt

LEMMA OneLastRow ==
    ASSUME NEW rows \in SUBSET StoredRow, OneRowPerEpoch(rows), NEW c, NEW t,
           NEW q, LastAt(rows, c, t, q), NEW r, LastAt(rows, c, t, r)
    PROVE  q = r
<1>1. q.epoch \in Nat /\ r.epoch \in Nat
  BY RowNumbers DEF LastAt
<1>2. q.epoch <= r.epoch /\ r.epoch <= q.epoch /\ q \in rows /\ r \in rows /\ q.id = r.id
  BY DEF LastAt
<1>3. q.epoch = r.epoch
  BY <1>1, <1>2
<1> QED
  BY <1>2, <1>3 DEF OneRowPerEpoch

LEMMA RowClimbExists ==
    ASSUME accepted \in SUBSET StoredRow, OneRowPerEpoch(accepted), NEW t \in Nat
    PROVE  \E f : ClimbsRows(f, t)
<1> DEFINE D == Seq(StoredRow)
           up(w) == Last(w).frame
           root(w) == up(w) \notin Soloc \/ OfEntity(accepted, up(w)) = {}
           gone(w) == ~HasRow(up(w), t) \/ \E k \in DOMAIN w : w[k].id = up(w)
           told(w) == [root |-> up(w), poses |-> [k \in DOMAIN w |-> w[k].pose]]
           out == [w \in D |-> IF root(w) THEN told(w) ELSE None]
           stop == {w \in D : root(w) \/ gone(w)}
           next == [w \in D |-> Append(w, LastRow(up(w), t))]
<1>1. \A w \in D \ stop : next[w] \in D
  <2>1. ASSUME NEW w \in D, ~gone(w) PROVE Append(w, LastRow(up(w), t)) \in D
    <3>1. LastRow(up(w), t) \in StoredRow
      BY <2>1, LastRowIsLast
    <3> QED
      BY <3>1, AppendProperties
  <2> HIDE DEF up, root, gone, told, D
  <2> QED
    BY <2>1
<1> HIDE DEF up, root, gone, told, D
<1>2. PICK f : Climbs(f, D, stop, out, next)
  <2>1. stop \in SUBSET D
    OBVIOUS
  <2> HIDE DEF stop, out, next
  <2> QED
    BY <1>1, <2>1, ClimbExists
<1>3. ASSUME NEW w \in D
      PROVE  (IF w \in stop THEN out[w] ELSE f[next[w]])
               = IF root(w) THEN told(w)
                 ELSE IF gone(w) THEN None
                 ELSE f[Append(w, LastRow(up(w), t))]
  OBVIOUS
<1> HIDE DEF stop, out, next
<1>4. ClimbsRows(f, t)
  BY <1>2, <1>3, Zenon DEF Climbs, ClimbsRows, up, root, gone, told, D
<1> QED
  BY <1>4

LEMMA TrueChainByClimb ==
    ASSUME accepted \in SUBSET StoredRow, OneRowPerEpoch(accepted), NEW t \in Nat, NEW c
    PROVE  \E f : /\ ClimbsRows(f, t)
                  /\ TrueChain(c, t) = IF HasRow(c, t) THEN f[<<LastRow(c, t)>>] ELSE None
<1> DEFINE f == CHOOSE g : ClimbsRows(g, t)
<1>1. ClimbsRows(f, t)
  BY RowClimbExists
<1>2. TrueChain(c, t) = IF HasRow(c, t) THEN f[<<LastRow(c, t)>>] ELSE None
  BY DEF TrueChain, ClimbsRows
<1> QED
  BY <1>1, <1>2

-----------------------------------------------------------------------------
(* The climbs meet. *)

\* A climb up the log and one up the rows have come through the same entities.
Aligned(chain, hops, t) ==
    /\ Len(chain) = Len(hops) /\ Len(hops) >= 1
    /\ \A k \in 1..Len(hops) : LastAt(accepted, chain[k], t, hops[k])

\* A chain of ids, and the root and the poses that the rows give for it.
Agrees(chain, told, t) ==
    \E hops \in Seq(StoredRow) :
        /\ chain \in Seq(Id) /\ Len(chain) = Len(hops) + 1
        /\ \A k \in 1..Len(hops) : LastAt(accepted, chain[k], t, hops[k])
        /\ told = [root |-> Last(chain), poses |-> [k \in DOMAIN hops |-> hops[k].pose]]

\* What the log answers is true, and at the present it has an answer if there is one.
Meets(chain, told, t) ==
    /\ chain # None => Agrees(chain, told, t)
    /\ (\A r \in accepted : r.epoch <= t) => (chain = None => told = None)

LEMMA EdgesAreOfRows ==
    ASSUME ToldIInv, NEW p \in Id
    PROVE  latest[p] = None <=> OfEntity(accepted, p) = {}
<1>1. LiveRecords(latest, log, pushed, latestPose, accepted)
  BY DEF ToldIInv, LiveIInv
<1>2. /\ accepted \in SUBSET StoredRow /\ IsNewest(latestPose, accepted)
      /\ Follows(latest, latestPose) /\ WithinCache(log, latestPose) /\ Replays(latest, log)
  BY <1>1 DEF LiveRecords, Agreed, SoundTree
<1>3. ASSUME OfEntity(accepted, p) # {} PROVE latest[p] # None
  <2>1. latestPose[p] # None
    BY <1>2, <1>3 DEF IsNewest
  <2>2. latestPose[p].parent \in Id
    BY <1>2, <2>1, CachedEpoch
  <2>3. ParentOf(latest, p) # None
    BY <1>2, <2>1, <2>2, KindsAssumption DEF Follows
  <2> QED
    BY <2>3 DEF ParentOf
<1>4. ASSUME OfEntity(accepted, p) = {} PROVE latest[p] = None
  <2>1. latestPose[p] = None
    BY <1>2, <1>4 DEF IsNewest, NewestOf
  <2>2. Of(log, p) = {}
    BY <1>2, <2>1 DEF WithinCache, Of
  <2> QED
    BY <1>2, <2>2 DEF Replays
<1> QED
  BY <1>3, <1>4

\* At an epoch no row is after, whoever has a row has a parent.
LEMMA PresentHasParent ==
    ASSUME ToldIInv, NEW t \in Nat, \A r \in accepted : r.epoch <= t,
           NEW c \in Id, OfEntity(accepted, c) # {}
    PROVE  ParentAt(latest, log, c, t) # None
<1>1. SoundTree(latest, log, pushed) /\ LogTells(log, accepted)
  BY DEF ToldIInv, LiveIInv, LiveRecords, Agreed
<1>2. latest[c] # None
  BY EdgesAreOfRows
<1>3. PICK w \in log : w \in Event /\ latest[c].parent = w.parent /\ latest[c].since = w.epoch
  BY <1>1, <1>2, EdgeIsLogged
<1>4. w.epoch <= t
  BY <1>1 DEF LogTells, EventsHaveRows
<1>5. w.parent \in Id /\ w.parent # None
  BY <1>3, KindsAssumption DEF Event
<1> QED
  BY <1>2, <1>3, <1>4, <1>5 DEF ParentAt

\* One step of either climb.
LEMMA StepsMeet ==
    ASSUME ToldIInv, NEW t \in Nat,
           NEW chain \in Seq(Id), NEW hops \in Seq(StoredRow), Aligned(chain, hops, t)
    PROVE  LET parent == ParentAt(latest, log, chain[Len(chain)], t)
               frame == Last(hops).frame
           IN  /\ parent # None => parent = frame /\ parent \in Id
               /\ parent = None => ~ \A r \in accepted : r.epoch <= t
<1> DEFINE n == Len(chain)
           c == chain[n]
           h == hops[n]
           parent == ParentAt(latest, log, c, t)
<1>1. n \in Nat /\ n = Len(hops) /\ n >= 1 /\ n \in 1..Len(hops)
  BY LenProperties DEF Aligned
<1>2. c \in Id /\ h \in StoredRow /\ Last(hops) = h
  BY <1>1, ElementOfSeq DEF Last
<1>3. LastAt(accepted, c, t, h)
  BY <1>1 DEF Aligned
<1>4. LiveRecords(latest, log, pushed, latestPose, accepted) /\ LogTells(log, accepted)
  BY DEF ToldIInv, LiveIInv
<1> HIDE DEF n, c, h
<1>5. ASSUME parent # None PROVE parent = h.frame /\ parent \in Id
  <2>1. PICK r \in accepted : LastAt(accepted, c, t, r) /\ r.frame = parent
    BY <1>2, <1>4, <1>5, ToldByRow
  <2>2. r = h
    BY <1>3, <1>4, <2>1, OneLastRow DEF LiveRecords, Agreed
  <2> QED
    BY <1>2, <2>1, <2>2 DEF StoredRow
<1>6. ASSUME parent = None, \A r \in accepted : r.epoch <= t PROVE FALSE
  <2>1. OfEntity(accepted, c) # {}
    BY <1>3 DEF LastAt, OfEntity
  <2> QED
    BY <1>2, <1>6, <2>1, PresentHasParent
<1> QED
  BY <1>2, <1>5, <1>6 DEF c, n

LEMMA AlignedGoesOn ==
    ASSUME NEW t, NEW chain \in Seq(Id), NEW hops \in Seq(StoredRow), Aligned(chain, hops, t),
           NEW p \in Id, NEW r \in StoredRow, LastAt(accepted, p, t, r)
    PROVE  Aligned(Append(chain, p), Append(hops, r), t)
<1> DEFINE n == Len(hops)
           q == Append(chain, p)
           w == Append(hops, r)
<1>1. n \in Nat /\ Len(chain) = n /\ n >= 1
  BY LenProperties DEF Aligned
<1>2. /\ Len(q) = n + 1 /\ Len(w) = n + 1
      /\ \A k \in 1..n : q[k] = chain[k] /\ w[k] = hops[k]
      /\ q[n + 1] = p /\ w[n + 1] = r
  BY <1>1, AppendProperties
<1>3. \A k \in 1..n : LastAt(accepted, chain[k], t, hops[k])
  BY DEF Aligned
<1> HIDE DEF n, q, w
<1>4. \A k \in 1..(n + 1) : LastAt(accepted, q[k], t, w[k])
  <2>1. \A k \in 1..(n + 1) : k \in 1..n \/ k = n + 1
    BY <1>1
  <2> QED
    BY <1>2, <1>3, <2>1
<1>5. Aligned(q, w, t)
  BY <1>1, <1>2, <1>4 DEF Aligned
<1> QED
  BY <1>5 DEF q, w

\* The climbs meet here if they meet wherever they go on together.
LEMMA MeetOnward ==
    ASSUME ToldIInv, NEW t \in Nat, NEW f, ClimbsLog(f, latest, log, t), NEW g, ClimbsRows(g, t),
           NEW chain \in Seq(Id), NEW hops \in Seq(StoredRow), Aligned(chain, hops, t),
           \A p \in Soloc \ ToSet(chain), r \in StoredRow :
              LastAt(accepted, p, t, r) => Meets(f[Append(chain, p)], g[Append(hops, r)], t)
    PROVE  Meets(f[chain], g[hops], t)
<1> DEFINE parent == ParentAt(latest, log, chain[Len(chain)], t)
           frame == Last(hops).frame
           told == [root |-> frame, poses |-> [k \in DOMAIN hops |-> hops[k].pose]]
<1>1. f[chain] = IF parent = None THEN None
                 ELSE IF parent \notin Soloc \/ latest[parent] = None THEN Append(chain, parent)
                 ELSE IF \E k \in DOMAIN chain : chain[k] = parent THEN None
                 ELSE f[Append(chain, parent)]
  BY Zenon DEF ClimbsLog
<1>2. g[hops] = IF frame \notin Soloc \/ OfEntity(accepted, frame) = {} THEN told
                ELSE IF ~HasRow(frame, t) \/ \E k \in DOMAIN hops : hops[k].id = frame THEN None
                ELSE g[Append(hops, LastRow(frame, t))]
  BY Zenon DEF ClimbsRows
<1>3. parent # None => parent = frame /\ parent \in Id
  BY StepsMeet
<1>4. parent = None => ~ \A r \in accepted : r.epoch <= t
  BY StepsMeet
<1>5. LiveRecords(latest, log, pushed, latestPose, accepted) /\ LogTells(log, accepted)
      /\ accepted \in SUBSET StoredRow /\ OneRowPerEpoch(accepted)
  BY DEF ToldIInv, LiveIInv, LiveRecords, Agreed
<1> HIDE DEF parent, frame, told
<1>6. CASE parent = None
  BY <1>1, <1>4, <1>6 DEF Meets
<1>7. CASE parent # None /\ (parent \notin Soloc \/ latest[parent] = None)
  <2>1. f[chain] = Append(chain, parent)
    BY <1>1, <1>7
  <2>2. g[hops] = told
    <3>1. frame \notin Soloc \/ OfEntity(accepted, frame) = {}
      BY <1>3, <1>7, EdgesAreOfRows
    <3> QED
      BY <1>2, <3>1
  <2> DEFINE w == Append(chain, parent)
  <2>3. w \in Seq(Id) /\ Len(w) = Len(hops) + 1 /\ Last(w) = parent /\ \A k \in 1..Len(hops) : w[k] = chain[k]
    <3>1. Len(chain) = Len(hops) /\ Len(chain) \in Nat
      BY LenProperties DEF Aligned
    <3> QED
      BY <1>3, <1>7, <3>1, AppendProperties DEF Last
  <2>4. w # None
    BY <2>3, KindsAssumption
  <2> HIDE DEF w
  <2>5. Agrees(w, told, t)
    <3>1. \A k \in 1..Len(hops) : LastAt(accepted, w[k], t, hops[k])
      BY <2>3 DEF Aligned
    <3>2. told = [root |-> Last(w), poses |-> [k \in DOMAIN hops |-> hops[k].pose]]
      BY <1>3, <1>7, <2>3 DEF told
    <3> QED
      BY <2>3, <3>1, <3>2 DEF Agrees
  <2> QED
    BY <2>1, <2>2, <2>4, <2>5 DEF Meets, w
<1>8. CASE parent # None /\ parent \in Soloc /\ latest[parent] # None
  <2>1. frame = parent /\ parent \in Id /\ OfEntity(accepted, frame) # {}
    BY <1>3, <1>8, EdgesAreOfRows
  <2>2. (\E k \in DOMAIN chain : chain[k] = parent) <=> \E k \in DOMAIN hops : hops[k].id = frame
    <3>1. DOMAIN chain = 1..Len(hops) /\ DOMAIN hops = 1..Len(hops)
      BY LenProperties DEF Aligned
    <3>2. \A k \in 1..Len(hops) : hops[k].id = chain[k]
      BY DEF Aligned, LastAt
    <3> QED
      BY <2>1, <3>1, <3>2
  <2>3. CASE \E k \in DOMAIN chain : chain[k] = parent
    <3>1. f[chain] = None
      BY <1>1, <1>8, <2>3
    <3>2. g[hops] = None
      BY <1>2, <1>8, <2>1, <2>2, <2>3
    <3> QED
      BY <3>1, <3>2 DEF Meets
  <2>4. CASE ~ \E k \in DOMAIN chain : chain[k] = parent
    <3> DEFINE w == Append(chain, parent)
    <3>1. f[chain] = f[w]
      BY <1>1, <1>8, <2>4
    <3>2. w \in Seq(Id) /\ w[Len(w)] = parent
      BY <2>1, AppendProperties
    <3>3. CASE HasRow(frame, t)
      <4>1. g[hops] = g[Append(hops, LastRow(frame, t))]
        BY <1>2, <1>8, <2>1, <2>2, <2>4, <3>3
      <4>2. LastRow(frame, t) \in StoredRow /\ LastAt(accepted, frame, t, LastRow(frame, t))
        BY <1>5, <3>3, LastRowIsLast
      <4>3. frame \in Soloc \ ToSet(chain)
        BY <1>8, <2>1, <2>4 DEF ToSet
      <4>4. Meets(f[w], g[Append(hops, LastRow(frame, t))], t)
        BY <2>1, <4>2, <4>3
      <4> QED
        BY <3>1, <4>1, <4>4
    <3>4. CASE ~HasRow(frame, t)
      <4>1. g[hops] = None
        BY <1>2, <1>8, <2>1, <3>4
      <4>2. ParentAt(latest, log, parent, t) = None
        <5>1. ASSUME ParentAt(latest, log, parent, t) # None PROVE FALSE
          <6>1. PICK r \in accepted : LastAt(accepted, parent, t, r)
            BY <1>5, <2>1, <5>1, ToldByRow
          <6> QED
            BY <2>1, <3>4, <6>1 DEF HasRow, OfEntity, LastAt
        <5> QED
          BY <5>1
      <4>3. f[w] = None
        <5> HIDE DEF w
        <5> QED
          BY <3>2, <4>2, Zenon DEF ClimbsLog
      <4> QED
        BY <3>1, <4>1, <4>3 DEF Meets
    <3> QED
      BY <3>3, <3>4
  <2> QED
    BY <2>3, <2>4
<1> QED
  BY <1>6, <1>7, <1>8

LEMMA ClimbsMeet ==
    ASSUME ToldIInv, IsFiniteSet(Soloc), NEW t \in Nat,
           NEW f, ClimbsLog(f, latest, log, t), NEW g, ClimbsRows(g, t),
           NEW chain \in Seq(Id), NEW hops \in Seq(StoredRow), Aligned(chain, hops, t)
    PROVE  Meets(f[chain], g[hops], t)
<1> DEFINE Met(w, u) == Aligned(w, u, t) => Meets(f[w], g[u], t)
           left(w) == Cardinality(Soloc \ ToSet(w))
           T == {n \in Nat : \A w \in Seq(Id), u \in Seq(StoredRow) : left(w) = n => Met(w, u)}
<1>1. \A S : IsFiniteSet(Soloc \ S) /\ Cardinality(Soloc \ S) \in Nat
  <2>1. ASSUME NEW S PROVE IsFiniteSet(Soloc \ S)
    <3>1. (Soloc \ S) \subseteq Soloc
      OBVIOUS
    <3> QED
      BY <3>1, FS_Subset
  <2> QED
    BY <2>1, FS_CardinalityType
<1>2. ASSUME NEW w \in Seq(Id), NEW u \in Seq(StoredRow), Aligned(w, u, t),
             \A p \in Soloc \ ToSet(w), r \in StoredRow : Met(Append(w, p), Append(u, r))
      PROVE  Meets(f[w], g[u], t)
  <2>1. ASSUME NEW p \in Soloc \ ToSet(w), NEW r \in StoredRow, LastAt(accepted, p, t, r)
        PROVE  Meets(f[Append(w, p)], g[Append(u, r)], t)
    <3>1. p \in Id
      BY DEF Id
    <3>2. Aligned(Append(w, p), Append(u, r), t)
      BY <1>2, <2>1, <3>1, AlignedGoesOn
    <3> QED
      BY <1>2, <3>2
  <2> QED
    BY <1>2, <2>1, MeetOnward
<1>3. ASSUME NEW w \in Seq(Id), NEW p \in Soloc \ ToSet(w)
      PROVE  Append(w, p) \in Seq(Id) /\ left(w) # 0 /\ left(Append(w, p)) = left(w) - 1
  <2> DEFINE rest == Soloc \ ToSet(w)
  <2>1. Append(w, p) \in Seq(Id) /\ ToSet(Append(w, p)) = ToSet(w) \cup {p}
    <3>1. p \in Id
      BY DEF Id
    <3> QED
      BY <3>1, AppendProperties, LenProperties DEF ToSet
  <2>2. Soloc \ ToSet(Append(w, p)) = rest \ {p}
    BY <2>1
  <2>3. IsFiniteSet(rest) /\ p \in rest
    BY <1>1
  <2> HIDE DEF rest
  <2>4. Cardinality(rest \ {p}) = Cardinality(rest) - 1 /\ Cardinality(rest) # 0
    BY <2>3, FS_RemoveElement, FS_EmptySet
  <2> QED
    BY <2>1, <2>2, <2>4 DEF rest
<1>4. left(chain) \in Nat
  BY <1>1
<1> HIDE DEF left, Met
<1>5. 0 \in T
  <2>1. ASSUME NEW w \in Seq(Id), NEW u \in Seq(StoredRow), left(w) = 0 PROVE Met(w, u)
    BY <1>2, <1>3, <2>1 DEF Met
  <2> QED
    BY <2>1
<1>6. ASSUME NEW n \in T PROVE n + 1 \in T
  <2>1. n \in Nat /\ \A w \in Seq(Id), u \in Seq(StoredRow) : left(w) = n => Met(w, u)
    OBVIOUS
  <2>2. ASSUME NEW w \in Seq(Id), NEW u \in Seq(StoredRow), left(w) = n + 1 PROVE Met(w, u)
    <3>1. ASSUME NEW p \in Soloc \ ToSet(w), NEW r \in StoredRow PROVE Met(Append(w, p), Append(u, r))
      <4>1. Append(w, p) \in Seq(Id) /\ left(Append(w, p)) = n
        BY <1>3, <2>1, <2>2
      <4>2. Append(u, r) \in Seq(StoredRow)
        BY AppendProperties
      <4> QED
        BY <2>1, <4>1, <4>2
    <3> QED
      BY <1>2, <3>1 DEF Met
  <2> QED
    BY <2>1, <2>2
<1>7. T \in SUBSET Nat
  OBVIOUS
<1> HIDE DEF T
<1>8. T = Nat
  BY <1>5, <1>6, <1>7, NaturalsByStep
<1>9. Met(chain, hops)
  BY <1>4, <1>8 DEF T
<1> QED
  BY <1>9 DEF Met

-----------------------------------------------------------------------------
(* Transforms. *)

LEMMA AncestryMeets ==
    ASSUME ToldIInv, IsFiniteSet(Soloc), NEW c \in Soloc, NEW t \in Nat
    PROVE  Meets(AncestryAt(latest, log, c, t), TrueChain(c, t), t)
<1> DEFINE chain == <<c>>
<1>1. c \in Id /\ c \notin Astro /\ chain \in Seq(Id) /\ Len(chain) = 1 /\ chain[1] = c
  BY KindsAssumption DEF Id
<1>2. LiveRecords(latest, log, pushed, latestPose, accepted) /\ LogTells(log, accepted)
      /\ accepted \in SUBSET StoredRow /\ OneRowPerEpoch(accepted)
  BY DEF ToldIInv, LiveIInv, LiveRecords, Agreed
<1>3. PICK f : ClimbsLog(f, latest, log, t) /\ AncestryAt(latest, log, c, t) = f[chain]
  BY <1>1, AncestryByClimb
<1>4. PICK g : /\ ClimbsRows(g, t)
               /\ TrueChain(c, t) = IF HasRow(c, t) THEN g[<<LastRow(c, t)>>] ELSE None
  BY <1>2, TrueChainByClimb
<1> HIDE DEF chain
<1>5. CASE HasRow(c, t)
  <2> DEFINE r == LastRow(c, t)
             hops == <<r>>
  <2>1. r \in StoredRow /\ LastAt(accepted, c, t, r)
    BY <1>2, <1>5, LastRowIsLast
  <2> HIDE DEF r
  <2>2. hops \in Seq(StoredRow) /\ Len(hops) = 1 /\ hops[1] = r
    BY <2>1
  <2> HIDE DEF hops
  <2>3. Aligned(chain, hops, t)
    BY <1>1, <2>1, <2>2 DEF Aligned
  <2>4. Meets(f[chain], g[hops], t)
    BY <1>1, <1>3, <1>4, <2>2, <2>3, ClimbsMeet
  <2> QED
    BY <1>3, <1>4, <1>5, <2>4 DEF hops, r
<1>6. CASE ~HasRow(c, t)
  <2>1. ParentAt(latest, log, c, t) = None
    <3>1. ASSUME ParentAt(latest, log, c, t) # None PROVE FALSE
      <4>1. PICK r \in accepted : LastAt(accepted, c, t, r)
        BY <1>1, <1>2, <3>1, ToldByRow
      <4> QED
        BY <1>6, <4>1 DEF HasRow, OfEntity, LastAt
    <3> QED
      BY <3>1
  <2>2. chain[Len(chain)] = c
    BY <1>1
  <2>3. f[chain] = None
    BY <1>1, <1>3, <2>1, <2>2, Zenon DEF ClimbsLog
  <2> QED
    BY <1>3, <1>4, <1>6, <2>3 DEF Meets
<1> QED
  BY <1>5, <1>6

\* What accumulate_poses_to_root makes of a chain that the rows agree with.
LEMMA ResolvesAlong ==
    ASSUME NEW c, NEW t, NEW told, Agrees(AncestryAt(latest, log, c, t), told, t),
           AncestryAt(latest, log, c, t) # None,
           \A x \in Id, r \in accepted :
              LastAt(accepted, x, t, r) /\ ResolveFrameAt(x, t) # None => ResolveFrameAt(x, t).pose = r.pose
    PROVE  \/ ResolveToRoot(c, t) = told
           \/ /\ ResolveToRoot(c, t) = None
              /\ \E x \in Id, r \in accepted : LastAt(accepted, x, t, r) /\ ResolveFrameAt(x, t) = None
<1> DEFINE chain == AncestryAt(latest, log, c, t)
           ids == SubSeq(chain, 1, Len(chain) - 1)
<1>1. ResolveToRoot(c, t) =
        IF \E k \in DOMAIN ids : ResolveFrameAt(ids[k], t) = None THEN None
        ELSE [root |-> Last(chain), poses |-> [k \in DOMAIN ids |-> ResolveFrameAt(ids[k], t).pose]]
  BY DEF ResolveToRoot
<1> HIDE DEF chain
<1>2. PICK hops \in Seq(StoredRow) :
        /\ chain \in Seq(Id) /\ Len(chain) = Len(hops) + 1
        /\ \A k \in 1..Len(hops) : LastAt(accepted, chain[k], t, hops[k])
        /\ told = [root |-> Last(chain), poses |-> [k \in DOMAIN hops |-> hops[k].pose]]
  BY DEF Agrees, chain
<1>3. DOMAIN hops = 1..Len(hops) /\ Len(hops) \in Nat
  BY LenProperties
<1>4. DOMAIN ids = 1..Len(hops) /\ \A k \in 1..Len(hops) : ids[k] = chain[k] /\ chain[k] \in Id
  <2>1. Len(chain) - 1 = Len(hops)
    BY <1>2, <1>3
  <2>2. \A k \in 1..Len(hops) : k \in 1..Len(chain)
    BY <1>2, <1>3
  <2> QED
    BY <1>2, <1>3, <2>1, <2>2, SubSeqProperties, ElementOfSeq
<1>5. \A k \in 1..Len(hops) :
         hops[k] \in accepted /\ (ResolveFrameAt(chain[k], t) # None => ResolveFrameAt(chain[k], t).pose = hops[k].pose)
  <2>1. \A k \in 1..Len(hops) : hops[k] \in accepted
    BY <1>2 DEF LastAt
  <2> QED
    BY <1>2, <1>4, <2>1
<1> HIDE DEF ids
<1>6. CASE \E k \in DOMAIN ids : ResolveFrameAt(ids[k], t) = None
  <2>1. PICK k \in 1..Len(hops) : ResolveFrameAt(chain[k], t) = None
    BY <1>4, <1>6
  <2> QED
    BY <1>1, <1>2, <1>4, <1>5, <1>6, <2>1
<1>7. CASE ~ \E k \in DOMAIN ids : ResolveFrameAt(ids[k], t) = None
  <2>1. \A k \in 1..Len(hops) : ResolveFrameAt(ids[k], t).pose = hops[k].pose
    BY <1>4, <1>5, <1>7
  <2>2. [k \in DOMAIN ids |-> ResolveFrameAt(ids[k], t).pose] = [k \in DOMAIN hops |-> hops[k].pose]
    BY <1>3, <1>4, <2>1
  <2> QED
    BY <1>1, <1>2, <1>7, <2>2
<1> QED
  BY <1>6, <1>7

LEMMA CacheResolves ==
    ASSUME LiveIInv, NEW t \in Nat, NEW c \in Id, NEW r, LastAt(accepted, c, t, r),
           latestPose[c] # None, latestPose[c].epoch <= t
    PROVE  ResolveFrameAt(c, t) # None /\ ResolveFrameAt(c, t).pose = r.pose
<1>1. accepted \in SUBSET StoredRow /\ IsNewest(latestPose, accepted) /\ OneRowPerEpoch(accepted)
  BY DEF LiveIInv, LiveRecords, Agreed
<1>2. PICK p \in StoredRow : CameFrom(latestPose, c, accepted, p)
  BY <1>1, CachedRow
<1>3. /\ LastAt(accepted, c, t, p)
      /\ ResolveFrameAt(c, t) = [parent |-> p.frame, pose |-> p.pose]
  BY <1>2 DEF CameFrom, IsYoungest, ResolveFrameAt, LastAt
<1>4. p = r
  BY <1>1, <1>3, OneLastRow
<1>5. [parent |-> p.frame, pose |-> p.pose] \in Resolved
  BY DEF StoredRow, Resolved
<1> QED
  BY <1>3, <1>4, <1>5, LedgerAssumption

\* "Each entity's latest row is kept, so `current_state` and present-epoch transforms
\* still see every entity": at an epoch no row is after, resolve_to_root gives of every
\* entity what the whole history gives, no answer included, whatever was sealed, split,
\* pinned, evicted and trimmed, and whichever of the copies failed.
THEOREM PresentIsKept ==
    ASSUME IsFiniteSet(Soloc) PROVE LiveSpec => []PresentTransformsSurvive
<1>1. ToldIInv => PresentTransformsSurvive
  <2> SUFFICES ASSUME ToldIInv, NEW c \in Soloc, NEW t \in Epoch, \A r \in accepted : r.epoch <= t
               PROVE  ResolveToRoot(c, t) = TrueChain(c, t)
    BY DEF PresentTransformsSurvive
  <2>1. /\ LiveIInv /\ t \in Nat
        /\ accepted \in SUBSET StoredRow /\ IsNewest(latestPose, accepted)
    BY DEF ToldIInv, LiveIInv, LiveRecords, Agreed, Epoch
  <2> DEFINE chain == AncestryAt(latest, log, c, t)
             told == TrueChain(c, t)
  <2>2. Meets(chain, told, t)
    BY <2>1, AncestryMeets
  <2>3. ASSUME NEW x \in Id, NEW r \in accepted, LastAt(accepted, x, t, r)
        PROVE  ResolveFrameAt(x, t) # None /\ ResolveFrameAt(x, t).pose = r.pose
    <3>1. latestPose[x] # None
      BY <2>1, <2>3 DEF IsNewest, OfEntity, LastAt
    <3> PICK p \in StoredRow : CameFrom(latestPose, x, accepted, p)
      BY <2>1, <3>1, CachedRow
    <3>2. latestPose[x].epoch <= t
      BY DEF CameFrom, IsYoungest
    <3> QED
      BY <2>1, <2>3, <3>1, <3>2, CacheResolves
  <2>4. CASE chain = None
    <3>1. told = None
      BY <2>2, <2>4 DEF Meets
    <3>2. ResolveToRoot(c, t) = None
      BY <2>4 DEF ResolveToRoot
    <3> QED
      BY <3>1, <3>2
  <2>5. CASE chain # None
    <3>1. Agrees(chain, told, t)
      BY <2>2, <2>5 DEF Meets
    <3> HIDE DEF told
    <3>2. ResolveToRoot(c, t) = told
      BY <2>3, <2>5, <3>1, ResolvesAlong
    <3> QED
      BY <3>2 DEF told
  <2> QED
    BY <2>4, <2>5
<1> QED
  BY <1>1, ToldInit, ToldStep, PTL DEF LiveSpec

\* A transform is composed from two records, the parents of the log and the poses of the
\* rows or the cache.  With one clock it is the one the whole history gives, or none, at
\* every epoch: no eviction, trim, merge of segments or reload ever mixes a parent of one
\* time with a pose of another.
THEOREM ComposedIsTrue ==
    ASSUME OneClock, IsFiniteSet(Soloc) PROVE RestartSpec => []TransformsAreTrue
<1>1. HistoryIInv => TransformsAreTrue
  <2> SUFFICES ASSUME HistoryIInv, NEW c \in Soloc, NEW t \in Epoch, ResolveToRoot(c, t) # None
               PROVE  ResolveToRoot(c, t) = TrueChain(c, t)
    BY DEF TransformsAreTrue
  <2>1. /\ LiveIInv /\ ToldIInv /\ t \in Nat /\ Suffix(accepted, store)
        /\ store \in StoreType /\ RowsInHand(store, accepted)
        /\ accepted \in SUBSET StoredRow /\ OneRowPerEpoch(accepted)
    BY DEF HistoryIInv, ClockIInv, ToldIInv, LiveIInv, LiveRecords, Agreed, StoreIInv, Epoch
  <2> DEFINE chain == AncestryAt(latest, log, c, t)
             told == TrueChain(c, t)
  <2>2. chain # None
    BY DEF ResolveToRoot
  <2>3. Agrees(chain, told, t)
    BY <2>1, <2>2, AncestryMeets DEF Meets
  <2>4. ASSUME NEW x \in Id, NEW r \in accepted, LastAt(accepted, x, t, r), ResolveFrameAt(x, t) # None
        PROVE  ResolveFrameAt(x, t).pose = r.pose
    <3>1. CASE latestPose[x] # None /\ latestPose[x].epoch <= t
      BY <2>1, <2>4, <3>1, CacheResolves
    <3>2. CASE ~(latestPose[x] # None /\ latestPose[x].epoch <= t)
      <4>1. ResolveFrameAt(x, t) = Scanned(x, t)
        BY <3>2 DEF ResolveFrameAt
      <4>2. PICK q \in StoredRows(store) : q.id = x /\ q.epoch <= t
        <5>1. PICK i \in DOMAIN AllRows(store) : AllRows(store)[i].id = x /\ AllRows(store)[i].epoch <= t
          BY <2>4, <4>1 DEF Scanned
        <5> QED
          BY <5>1 DEF StoredRows, ToSet
      <4>3. q \in accepted /\ q.epoch \in Nat /\ r.epoch \in Nat
        BY <2>1, RowNumbers DEF RowsInHand
      <4>4. q.epoch <= r.epoch /\ r.id = x
        BY <2>4, <4>2, <4>3 DEF LastAt
      <4>5. r \in StoredRows(store)
        <5>1. CASE q.epoch < r.epoch
          BY <2>1, <4>2, <4>4, <5>1 DEF Suffix
        <5>2. CASE q.epoch = r.epoch
          BY <2>1, <4>2, <4>3, <4>4, <5>2 DEF OneRowPerEpoch
        <5> QED
          BY <4>3, <4>4, <5>1, <5>2
      <4> QED
        BY <2>1, <2>4, <4>1, <4>5, ScanFinds
    <3> QED
      BY <3>1, <3>2
  <2> HIDE DEF told
  <2>5. ResolveToRoot(c, t) = told
    BY <2>2, <2>3, <2>4, ResolvesAlong
  <2> QED
    BY <2>5 DEF told
<1> QED
  BY <1>1, HistoryInit, HistoryStep, PTL DEF RestartSpec
=============================================================================
