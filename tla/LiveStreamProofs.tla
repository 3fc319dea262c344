-------------------------- MODULE LiveStreamProofs --------------------------
(***************************************************************************)
(* Theorems about TransformTree and LiveStream, for every set of ids,      *)
(* every bound on the epochs and every set of batches and peer logs:       *)
(* `latest` and `log` never drift apart and no edge rolls back, and a tree *)
(* fed in the order of epochs never holds a cycle, refuses exactly the     *)
(* batches that would close one, and implements the abstract               *)
(* ParentHistory.                                                          *)
(***************************************************************************)
EXTENDS LiveStream, TopologyProofs

-----------------------------------------------------------------------------
(* TransformTree: any rows in any order. *)

\* The inductive invariant: the tree is sound.
TreeIInv == SoundTree(latest, log, pushed)

LEMMA TreeIInvImplies == TreeIInv => TypeOK /\ LogIsOrdered /\ LatestIsReplay
BY DEF TreeIInv, SoundTree, Typed, Ordered, Replays, TypeOK, LogIsOrdered, LatestIsReplay

LEMMA TreeInitEstablishes == Init => TreeIInv
BY EmptyTreeIsSound DEF Init, TreeIInv

\* What ingest_batch and merge_log_batch commit, each with its own numbering.
LEMMA BatchIsPositioned ==
    ASSUME TreeIInv, NEW batch \in Batches
    PROVE  Positioned(EventsOf(latest, batch, pushed), pushed)
<1>1. TypedRows(batch) /\ pushed \in Nat
  BY InputsAssumption, SequencesAreTyped DEF TreeIInv, SoundTree, Typed
<1> QED
  BY <1>1, IngestedArePositioned

LEMMA PeerIsPositioned ==
    ASSUME TreeIInv, NEW peer \in PeerLogs
    PROVE  Positioned(MergedEvents(log, peer, pushed), pushed)
<1>1. peer \in Seq(Fact) /\ pushed \in Nat
  BY InputsAssumption DEF TreeIInv, SoundTree, Typed
<1> QED
  BY <1>1, MergedArePositioned

LEMMA TreeStepPreserves == TreeIInv /\ [Next]_vars => TreeIInv'
<1> SUFFICES ASSUME TreeIInv, [Next]_vars PROVE TreeIInv'
  OBVIOUS
<1>1. ASSUME NEW batch \in Batches, IngestBatch(batch) PROVE TreeIInv'
  BY <1>1, BatchIsPositioned, CommitKeepsTree DEF IngestBatch, Commit, TreeIInv
<1>2. ASSUME NEW peer \in PeerLogs, MergeLogBatch(peer) PROVE TreeIInv'
  BY <1>2, PeerIsPositioned, CommitKeepsTree DEF MergeLogBatch, Commit, TreeIInv
<1>3. ASSUME NEW ws \in Epoch, TrimBefore(ws) PROVE TreeIInv'
  BY <1>3, TrimKeepsTree DEF TrimBefore, TreeIInv
<1>4. CASE UNCHANGED vars
  BY <1>4 DEF vars, TreeIInv
<1> QED
  BY <1>1, <1>2, <1>3, <1>4 DEF Next

\* The tree's variables keep their types.
THEOREM TypeCorrect == Spec => []TypeOK
BY TreeIInvImplies, TreeInitEstablishes, TreeStepPreserves, PTL DEF Spec

\* Logged events keep distinct positions.
THEOREM LogStaysOrdered == Spec => []LogIsOrdered
BY TreeIInvImplies, TreeInitEstablishes, TreeStepPreserves, PTL DEF Spec

\* `latest` is at all times what the kept log replays to, through every ingest,
\* merge and trim: the two halves of the tree never drift apart.
THEOREM EdgesReplayFromLog == Spec => []LatestIsReplay
BY TreeIInvImplies, TreeInitEstablishes, TreeStepPreserves, PTL DEF Spec

\* A child's edge is never forgotten and never replaced by an older one, even
\* when late rows and old federation logs arrive.
THEOREM NoRollback == Spec => NeverRollsBack
<1>1. TreeIInv /\ [Next]_vars => [EdgesOnlyAdvance]_vars
  <2> SUFFICES ASSUME TreeIInv, Next PROVE EdgesOnlyAdvance
    OBVIOUS
  <2> latest \in [Id -> Edge \cup {None}] /\ pushed \in Nat
    BY DEF TreeIInv, SoundTree, Typed
  <2>1. ASSUME NEW evs, Positioned(evs, pushed), Commit(evs) PROVE EdgesOnlyAdvance
    BY <2>1, CommitAdvances DEF Commit, EdgesOnlyAdvance
  <2>2. ASSUME NEW batch \in Batches, IngestBatch(batch) PROVE EdgesOnlyAdvance
    BY <2>1, <2>2, BatchIsPositioned DEF IngestBatch
  <2>3. ASSUME NEW peer \in PeerLogs, MergeLogBatch(peer) PROVE EdgesOnlyAdvance
    BY <2>1, <2>3, PeerIsPositioned DEF MergeLogBatch
  <2>4. ASSUME NEW ws \in Epoch, TrimBefore(ws) PROVE EdgesOnlyAdvance
    <3>1. \A c \in Id : latest[c] # None => latest[c].since \in Nat
      BY KindsAssumption DEF Edge, Epoch
    <3> QED
      BY <2>4, <3>1 DEF TrimBefore, EdgesOnlyAdvance
  <2> QED
    BY <2>2, <2>3, <2>4 DEF Next
<1> QED
  BY <1>1, TreeInitEstablishes, TreeStepPreserves, PTL DEF Spec, NeverRollsBack

-----------------------------------------------------------------------------
(* The commit loop. *)

\* In a set with distinct, bounded positions only one event is in force.
LEMMA InForceIs ==
    ASSUME NEW evs \in SUBSET Event, NEW n \in Nat, Ordered(evs, n),
           NEW w \in evs, \A f \in evs : f = w \/ Before(f, w)
    PROVE  InForce(evs) = w
<1>1. \A f \in evs : f.epoch \in Nat /\ f.at \in Nat
  BY DEF Event, Epoch
<1>2. ASSUME NEW v \in evs, \A f \in evs : f = v \/ Before(f, v) PROVE v = w
  BY <1>1, <1>2 DEF Before
<1> QED
  BY <1>2 DEF InForce

\* Applying one event after those before it is applying them all.
LEMMA OneMoreEvent ==
    ASSUME NEW edges \in [Id -> Edge \cup {None}], NEW n \in Nat,
           NEW before \in SUBSET Event, NEW e \in Event, Ordered(before \cup {e}, n),
           \A f \in before : f.at < e.at
    PROVE  ApplyEvent(ApplyEvents(edges, before), e) = ApplyEvents(edges, before \cup {e})
<1> DEFINE all == before \cup {e}
           left == ApplyEvents(edges, before)
<1>1. /\ \A f \in all : f.epoch \in Nat /\ f.at \in Nat /\ f.child \in Id /\ EdgeOf(f) \in Edge
      /\ \A f \in all : EdgeOf(f) # None /\ EdgeOf(f).since = f.epoch
      /\ \A c \in Id : edges[c] # None => edges[c].since \in Nat
  BY KindsAssumption DEF Event, Edge, EdgeOf, Epoch
<1>2. left = [c \in Id |-> left[c]]
  BY DEF ApplyEvents
<1>3. ASSUME NEW c \in Id, c # e.child PROVE ApplyEvents(edges, all)[c] = left[c]
  <2>1. Of(all, c) = Of(before, c)
    BY <1>3 DEF Of
  <2> QED
    BY <2>1 DEF ApplyEvents
<1>4. ApplyEvents(edges, all)[e.child]
        = IF left[e.child] = None \/ e.epoch >= left[e.child].since
          THEN EdgeOf(e) ELSE left[e.child]
  <2> DEFINE c == e.child
             one == Of(all, c)
  <2>1. c \in Id /\ e \in one /\ one \in SUBSET all /\ one = Of(before, c) \cup {e}
    BY <1>1 DEF Of
  <2>2. Ordered(one, n) /\ one \in SUBSET Event /\ Ordered(Of(before, c), n)
    BY <2>1 DEF Ordered
  <2>3. ASSUME Of(before, c) = {}
        PROVE  /\ left[c] = edges[c]
               /\ InForce(one) = e
    <3>1. left[c] = edges[c]
      BY <2>1, <2>3 DEF ApplyEvents
    <3>2. \A f \in one : f = e \/ Before(f, e)
      BY <2>1, <2>3
    <3> QED
      BY <2>1, <2>2, <3>1, <3>2, InForceIs
  <2>4. ASSUME Of(before, c) # {}
        PROVE  \E w \in Of(before, c) :
                  /\ left[c] = IF edges[c] = None \/ w.epoch >= edges[c].since
                               THEN EdgeOf(w) ELSE edges[c]
                  /\ InForce(one) = IF e.epoch >= w.epoch THEN e ELSE w
    <3> DEFINE w == InForce(Of(before, c))
    <3>1. /\ Of(before, c) \in SUBSET Event
          /\ \A f \in Of(before, c) : f.at <= n
          /\ \A f, g \in Of(before, c) : f.at = g.at => f = g
      <4>1. /\ Of(before, c) \in SUBSET before /\ before \in SUBSET Event
            /\ \A f \in Of(before, c) : f.at \in 1..n
        BY <2>2 DEF Of, Ordered
      <4> QED
        BY <2>2, <4>1 DEF Ordered
    <3>2. w \in Of(before, c) /\ \A f \in Of(before, c) : f = w \/ Before(f, w)
      BY <2>4, <3>1, OneInForce
    <3>3. w \in Event /\ w \in all /\ w \in before
      BY <3>2 DEF Of
    <3>4. left[c] = IF edges[c] = None \/ w.epoch >= edges[c].since THEN EdgeOf(w) ELSE edges[c]
      BY <2>1, <2>4, <3>2, <3>3, AppliedEdge
    <3> HIDE DEF w
    <3>5. w.at < e.at
      BY <3>3
    <3>6. ASSUME e.epoch >= w.epoch PROVE InForce(one) = e
      <4>1. Before(w, e)
        BY <1>1, <3>3, <3>5, <3>6 DEF Before
      <4>2. \A f \in one : f = e \/ Before(f, e)
        <5>1. SUFFICES ASSUME NEW f \in Of(before, c), Before(f, w) PROVE Before(f, e)
          BY <2>1, <3>2, <4>1
        <5>2. f \in all
          BY DEF Of
        <5> QED
          BY <1>1, <3>3, <4>1, <5>1, <5>2 DEF Before
      <4> QED
        BY <2>1, <2>2, <4>2, InForceIs
    <3>7. ASSUME ~(e.epoch >= w.epoch) PROVE InForce(one) = w
      <4>1. Before(e, w)
        BY <1>1, <3>3, <3>7 DEF Before
      <4>2. w \in one /\ \A f \in one : f = w \/ Before(f, w)
        BY <2>1, <3>2, <4>1
      <4> QED
        BY <2>2, <4>2, InForceIs
    <3> QED
      BY <3>2, <3>4, <3>6, <3>7
  <2>5. InForce(one) \in one /\ InForce(one) \in Event
    <3>1. \A f \in one : f.at <= n
      BY <2>2 DEF Ordered
    <3> QED
      BY <2>1, <2>2, <3>1, OneInForce DEF Ordered
  <2>6. ApplyEvents(edges, all)[c]
          = IF edges[c] = None \/ InForce(one).epoch >= edges[c].since
            THEN EdgeOf(InForce(one)) ELSE edges[c]
    BY <2>1, <2>5, AppliedEdge
  <2>7. CASE Of(before, c) = {}
    BY <2>3, <2>6, <2>7
  <2>8. CASE Of(before, c) # {}
    <3>1. PICK w \in Of(before, c) :
             /\ left[c] = IF edges[c] = None \/ w.epoch >= edges[c].since
                          THEN EdgeOf(w) ELSE edges[c]
             /\ InForce(one) = IF e.epoch >= w.epoch THEN e ELSE w
      BY <2>4, <2>8
    <3>2. /\ w.epoch \in Nat /\ e.epoch \in Nat
          /\ EdgeOf(w) # None /\ EdgeOf(w).since = w.epoch
          /\ edges[c] # None => edges[c].since \in Nat
      BY <1>1, <2>1 DEF Of
    <3>3. ApplyEvents(edges, all)[c]
            = IF left[c] = None \/ e.epoch >= left[c].since THEN EdgeOf(e) ELSE left[c]
      <4> HIDE DEF c, one, left
      <4> QED
        BY <2>6, <3>1, <3>2
    <3> QED
      BY <3>3
  <2> QED
    BY <2>7, <2>8
<1>5. ApplyEvent(left, e)
        = [c \in Id |-> IF c = e.child /\ (left[c] = None \/ e.epoch >= left[c].since)
                        THEN EdgeOf(e) ELSE left[c]]
  <2> HIDE DEF left
  <2> QED
    BY <1>1, <1>2 DEF ApplyEvent
<1>6. ApplyEvents(edges, all) = [c \in Id |-> ApplyEvents(edges, all)[c]]
  BY DEF ApplyEvents
<1> HIDE DEF left, all
<1>7. \A c \in Id : ApplyEvents(edges, all)[c]
        = IF c = e.child /\ (left[c] = None \/ e.epoch >= left[c].since)
          THEN EdgeOf(e) ELSE left[c]
  BY <1>3, <1>4
<1>8. ApplyEvent(left, e) = ApplyEvents(edges, all)
  BY <1>5, <1>6, <1>7
<1> QED
  BY <1>8 DEF left, all

\* The first k of some events, and the k-th of them.
FirstOf(evs, k) == {e \in evs : PlaceIn(evs, e) < k}
NthOf(evs, k) == CHOOSE e \in evs : Cardinality({f \in evs : f.at < e.at}) = k - 1

LEMMA FirstAndNext ==
    ASSUME NEW evs \in SUBSET Event, NEW n \in Nat, Ordered(evs, n), NEW k \in 1..Cardinality(evs)
    PROVE  /\ NthOf(evs, k) \in evs
           /\ FirstOf(evs, k) = FirstOf(evs, k - 1) \cup {NthOf(evs, k)}
           /\ \A f \in FirstOf(evs, k - 1) : f.at < NthOf(evs, k).at
<1> DEFINE N == Cardinality(evs)
           e == NthOf(evs, k)
<1>1. /\ N \in Nat
      /\ \A f \in evs : PlaceIn(evs, f) \in Nat /\ PlaceIn(evs, f) < N
      /\ \A f, g \in evs : f.at < g.at => PlaceIn(evs, f) < PlaceIn(evs, g)
      /\ \E f \in evs : Cardinality({g \in evs : g.at < f.at}) = k - 1
  BY PlacesAreTaken
<1>2. e \in evs /\ PlaceIn(evs, e) = k - 1
  BY <1>1 DEF NthOf, PlaceIn
<1> HIDE DEF e
<1>3. \A f \in evs : f.at \in Nat
  BY DEF Event
<1>4. ASSUME NEW f \in evs PROVE f.at < e.at \/ f = e \/ e.at < f.at
  BY <1>2, <1>3 DEF Ordered
<1>5. ASSUME NEW f \in FirstOf(evs, k - 1) PROVE f.at < e.at
  <2>1. f \in evs /\ PlaceIn(evs, f) < k - 1
    BY DEF FirstOf
  <2> QED
    BY <1>1, <1>2, <1>4, <2>1
<1>6. ASSUME NEW f \in evs PROVE f \in FirstOf(evs, k) <=> f \in FirstOf(evs, k - 1) \/ f = e
  <2>1. PlaceIn(evs, f) < k <=> PlaceIn(evs, f) < k - 1 \/ PlaceIn(evs, f) = k - 1
    BY <1>1
  <2>2. PlaceIn(evs, f) = k - 1 <=> f = e
    BY <1>1, <1>2, <1>4
  <2> QED
    BY <2>1, <2>2 DEF FirstOf
<1>7. FirstOf(evs, k) = FirstOf(evs, k - 1) \cup {e}
  <2>1. FirstOf(evs, k) \subseteq evs /\ FirstOf(evs, k - 1) \subseteq evs
    BY DEF FirstOf
  <2> QED
    BY <1>2, <1>6, <2>1
<1> QED
  BY <1>2, <1>5, <1>7 DEF e

\* The edges after 0 to m pushes.
Pushing(f, edges, evs, m) ==
    f = [k \in 0..m |-> IF k = 0 THEN edges ELSE ApplyEvent(f[k - 1], NthOf(evs, k))]

\* Pushing the events one at a time leaves what applying them all at once does.
LEMMA OneByOne ==
    ASSUME NEW edges \in [Id -> Edge \cup {None}], NEW evs \in SUBSET Event,
           NEW n \in Nat, Ordered(evs, n)
    PROVE  AppliedOneByOne(edges, evs) = ApplyEvents(edges, evs)
<1> DEFINE N == Cardinality(evs)
           After(k) == ApplyEvents(edges, FirstOf(evs, k))
<1>1. /\ N \in Nat
      /\ \A f \in evs : PlaceIn(evs, f) \in Nat /\ PlaceIn(evs, f) < N
  BY PlacesAreTaken
<1>2. After(0) = edges
  <2>1. FirstOf(evs, 0) = {}
    BY <1>1 DEF FirstOf
  <2>2. \A c \in Id : Of(FirstOf(evs, 0), c) = {}
    BY <2>1 DEF Of
  <2> QED
    BY <2>2 DEF ApplyEvents
<1>3. After(N) = ApplyEvents(edges, evs)
  <2>1. FirstOf(evs, N) = evs
    BY <1>1 DEF FirstOf
  <2> QED
    BY <2>1
<1>4. ASSUME NEW k \in 1..N PROVE ApplyEvent(After(k - 1), NthOf(evs, k)) = After(k)
  <2> DEFINE before == FirstOf(evs, k - 1)
             e == NthOf(evs, k)
  <2>1. e \in evs /\ FirstOf(evs, k) = before \cup {e} /\ \A f \in before : f.at < e.at
    BY FirstAndNext
  <2>2. before \in SUBSET evs
    BY DEF FirstOf
  <2> HIDE DEF before, e
  <2>3. e \in Event /\ before \in SUBSET Event /\ Ordered(before \cup {e}, n)
    BY <2>1, <2>2 DEF Ordered
  <2>4. ApplyEvent(ApplyEvents(edges, before), e) = ApplyEvents(edges, before \cup {e})
    BY <2>1, <2>3, OneMoreEvent
  <2> QED
    BY <2>1, <2>4 DEF before, e
<1> HIDE DEF After
<1>5. \E f : Pushing(f, edges, evs, N)
  <2> DEFINE g == [k \in 0..N |-> After(k)]
  <2>1. ASSUME NEW k \in 0..N
        PROVE  g[k] = IF k = 0 THEN edges ELSE ApplyEvent(g[k - 1], NthOf(evs, k))
    <3>1. CASE k = 0
      BY <1>2, <3>1
    <3>2. CASE k # 0
      <4>1. k \in 1..N /\ k - 1 \in 0..N
        BY <1>1, <3>2
      <4> QED
        BY <1>4, <3>2, <4>1
    <3> QED
      BY <3>1, <3>2
  <2>2. g = [k \in 0..N |-> g[k]]
    OBVIOUS
  <2> HIDE DEF g
  <2>3. Pushing(g, edges, evs, N)
    BY <2>1, <2>2 DEF Pushing
  <2> QED
    BY <2>3
<1> DEFINE F == CHOOSE f : Pushing(f, edges, evs, N)
<1>6. AppliedOneByOne(edges, evs) = F[N]
  BY DEF AppliedOneByOne, Pushing, NthOf
<1>7. Pushing(F, edges, evs, N)
  BY <1>5
<1> HIDE DEF F
<1>8. \A k \in 0..N : F[k] = IF k = 0 THEN edges ELSE ApplyEvent(F[k - 1], NthOf(evs, k))
  BY <1>7 DEF Pushing
<1> DEFINE Bad == {k \in 0..N : F[k] # After(k)}
<1>9. Bad = {}
  <2>1. SUFFICES ASSUME Bad # {} PROVE FALSE
    OBVIOUS
  <2>2. Bad \in SUBSET Nat
    OBVIOUS
  <2>3. PICK k \in Bad : \A j \in Bad : k <= j
    <3> HIDE DEF Bad
    <3> QED
      BY <2>1, <2>2, LeastNatural
  <2>4. k \in 0..N /\ F[k] # After(k)
    OBVIOUS
  <2>5. k # 0
    BY <1>2, <1>8, <2>4
  <2>6. k \in 1..N /\ k - 1 \in 0..N /\ ~(k <= k - 1)
    BY <1>1, <2>4, <2>5
  <2>7. F[k - 1] = After(k - 1)
    BY <2>3, <2>6
  <2> QED
    BY <1>4, <1>8, <2>4, <2>5, <2>6, <2>7
<1>10. F[N] = After(N)
  BY <1>1, <1>9
<1> QED
  BY <1>3, <1>6, <1>10

LEMMA CommitPushes ==
    ASSUME TreeIInv, NEW evs, Positioned(evs, pushed), Commit(evs)
    PROVE  latest' = AppliedOneByOne(latest, log' \ log)
<1>1. /\ latest \in [Id -> Edge \cup {None}] /\ pushed \in Nat /\ log \in SUBSET Event
      /\ \A f \in log : f.at \in 1..pushed
  BY DEF TreeIInv, SoundTree, Typed, Ordered
<1>2. evs \in SUBSET Event /\ Cardinality(evs) \in Nat
  BY FS_CardinalityType DEF Positioned
<1> DEFINE n == pushed + Cardinality(evs)
<1>3. \A e \in evs : pushed < e.at /\ e.at <= n /\ e.at \in Nat
  BY <1>2 DEF Positioned, Event
<1>4. n \in Nat /\ Ordered(evs, n)
  BY <1>1, <1>2, <1>3 DEF Positioned, Ordered
<1>5. log' \ log = evs
  BY <1>1, <1>3 DEF Commit
<1> HIDE DEF n
<1>6. AppliedOneByOne(latest, evs) = ApplyEvents(latest, evs)
  BY <1>1, <1>2, <1>4, OneByOne
<1> QED
  BY <1>5, <1>6 DEF Commit

\* Whatever step adds events, `latest` is what the commit loop leaves that pushes
\* them one at a time in log order, older and newer rows of a child mixed as the
\* batch or the peer's log had them.
THEOREM CommitsPushOneByOne == Spec => CommitIsSequential
<1>1. TreeIInv /\ [Next]_vars => [latest' = AppliedOneByOne(latest, log' \ log)]_vars
  <2> SUFFICES ASSUME TreeIInv, Next PROVE latest' = AppliedOneByOne(latest, log' \ log)
    OBVIOUS
  <2>1. ASSUME NEW batch \in Batches, IngestBatch(batch)
        PROVE  latest' = AppliedOneByOne(latest, log' \ log)
    BY <2>1, BatchIsPositioned, CommitPushes DEF IngestBatch
  <2>2. ASSUME NEW peer \in PeerLogs, MergeLogBatch(peer)
        PROVE  latest' = AppliedOneByOne(latest, log' \ log)
    BY <2>2, PeerIsPositioned, CommitPushes DEF MergeLogBatch
  <2>3. ASSUME NEW ws \in Epoch, TrimBefore(ws)
        PROVE  latest' = AppliedOneByOne(latest, log' \ log)
    <3>1. log' \ log = {} /\ latest' = latest
      BY <2>3 DEF TrimBefore
    <3>2. Ordered({}, 0)
      BY DEF Ordered
    <3>3. latest \in [Id -> Edge \cup {None}]
      BY DEF TreeIInv, SoundTree, Typed
    <3>4. AppliedOneByOne(latest, {}) = ApplyEvents(latest, {})
      BY <3>2, <3>3, OneByOne
    <3>5. ApplyEvents(latest, {}) = latest
      BY <3>3 DEF ApplyEvents, Of
    <3> QED
      BY <3>1, <3>4, <3>5
  <2> QED
    BY <2>1, <2>2, <2>3 DEF Next
<1> QED
  BY <1>1, TreeInitEstablishes, TreeStepPreserves, PTL DEF Spec, CommitIsSequential

-----------------------------------------------------------------------------
(* LiveStream: rows in the order of their epochs. *)

-----------------------------------------------------------------------------
(* The inductive invariant. *)

\* A child has one row per epoch.
UniqueRows ==
    \A p, q \in published : p.id = q.id /\ p.epoch = q.epoch => p = q

\* The log states nothing of an epoch at which the child published nothing.
LogIsPublished ==
    \A e \in log : \E p \in published : p.id = e.child /\ p.epoch = e.epoch

\* r answers some epoch of the window: its successor, if any, is inside.
Answering(r) ==
    \A q \in published : q.id = r.id /\ r.epoch < q.epoch => window < q.epoch

RowsAreExplained == \A r \in published : Answering(r) => Explains(log, r)

StreamIInv ==
    /\ published \subseteq Row
    /\ window \in Epoch
    /\ UniqueRows
    /\ LogIsPublished
    /\ FollowsEpochs(log)
    /\ RowsAreExplained

LiveIInv == SoundTree(latest, log, pushed) /\ StreamIInv /\ NeverCyclic

\* A batch that continues every entity's stream continues the log.
LEMMA InOrderContinues ==
    ASSUME LiveIInv, NEW batch \in Batches, InOrder(batch)
    PROVE  TypedRows(batch) /\ ContinuesLog(log, batch)
<1>1. TypedRows(batch)
  BY InputsAssumption, SequencesAreTyped
<1>2. ContinuesLog(log, batch)
  BY DEF LiveIInv, StreamIInv, LogIsPublished, InOrder, ContinuesLog
<1> QED
  BY <1>1, <1>2

LEMMA InvariantRefuses == LiveIInv => RefusesExactlyCycles
<1> SUFFICES ASSUME LiveIInv, NEW batch \in Batches, InOrder(batch)
             PROVE  LET evs == EventsOf(latest, batch, pushed)
                    IN  StagedCycle(latest, evs) <=> ~CheckAcyclic(ApplyEvents(latest, evs))
  BY DEF RefusesExactlyCycles
<1> QED
  BY InOrderContinues, RefusalIsExact DEF LiveIInv, NeverCyclic

-----------------------------------------------------------------------------
(* The invariant is inductive. *)

LEMMA LiveInitEstablishes == LiveInit => LiveIInv
<1> SUFFICES ASSUME LiveInit PROVE LiveIInv
  OBVIOUS
<1>1. SoundTree(latest, log, pushed)
  BY EmptyTreeIsSound DEF LiveInit, Init
<1>2. StreamIInv
  BY KindsAssumption DEF LiveInit, Init, StreamIInv, UniqueRows, LogIsPublished, FollowsEpochs,
     RowsAreExplained, Epoch
<1>3. NeverCyclic
  BY EmptyTreeIsAcyclic DEF LiveInit, Init, NeverCyclic
<1> QED
  BY <1>1, <1>2, <1>3 DEF LiveIInv

\* A batch in order adds young rows and young events, so what was explained
\* stays explained.
LEMMA IngestPreservesStream ==
    ASSUME LiveIInv, NEW batch \in Batches, Ingest(batch)
    PROVE  StreamIInv'
<1> DEFINE evs == EventsOf(latest, batch, pushed)
           rows == {batch[r] : r \in DOMAIN batch}
<1>1. /\ batch \in Seq(Row) /\ InOrder(batch)
      /\ published' = published \cup rows /\ window' = window /\ log' = log \cup evs
      /\ pushed \in Nat /\ log \in SUBSET Event
  BY InputsAssumption DEF Ingest, IngestBatch, Commit, LiveIInv, SoundTree, Typed
<1> TypedRows(batch) /\ ContinuesLog(log, batch)
  BY <1>1, InOrderContinues
<1>2. rows \subseteq Row
  BY <1>1
<1>3. /\ \A p \in published : \A r \in rows : p.id = r.id => p.epoch < r.epoch
      /\ \A q, r \in rows : q.id = r.id /\ q.epoch = r.epoch => q = r
  BY <1>1 DEF InOrder
<1>4. \A p \in published \cup rows : p.epoch \in Nat
  BY <1>2 DEF LiveIInv, StreamIInv, Row, Epoch
<1>5. \A e \in evs : \E r \in rows : r.id = e.child /\ r.epoch = e.epoch
  <2>1. SUFFICES ASSUME NEW e \in evs PROVE \E r \in rows : r.id = e.child /\ r.epoch = e.epoch
    OBVIOUS
  <2>2. PICK i \in RowsOf(batch, e.child) : e.epoch = batch[i].epoch
    BY EventHasRow
  <2> QED
    BY <2>2 DEF RowsOf
<1>6. \A e \in evs : /\ e.epoch \in Nat
                     /\ \A f \in log : f.child = e.child => f.epoch < e.epoch
                     /\ \A p \in published : p.id = e.child => p.epoch < e.epoch
  <2>1. SUFFICES ASSUME NEW e \in evs
                 PROVE  /\ e.epoch \in Nat
                        /\ \A f \in log : f.child = e.child => f.epoch < e.epoch
                        /\ \A p \in published : p.id = e.child => p.epoch < e.epoch
    OBVIOUS
  <2>2. /\ e.epoch \in Nat
        /\ \A f \in log : f.child = e.child => f.epoch < e.epoch
    BY StagedAreYounger
  <2> QED
    BY <1>3, <1>5, <2>2
<1>7. \A r \in rows : Explains(log \cup evs, r)
  BY BatchIsExplained DEF LiveIInv
<1> HIDE DEF evs, rows
<1>8. UniqueRows'
  BY <1>1, <1>3, <1>4 DEF UniqueRows, LiveIInv, StreamIInv
<1>9. LogIsPublished'
  BY <1>1, <1>5 DEF LogIsPublished, LiveIInv, StreamIInv
<1>10. FollowsEpochs(log)'
  <2>1. FollowsEpochs(log \cup evs)
    BY CommitFollowsEpochs DEF LiveIInv, StreamIInv, evs
  <2> QED
    BY <1>1, <2>1 DEF FollowsEpochs
<1>11. RowsAreExplained'
  <2>1. SUFFICES ASSUME NEW r \in published \cup rows, Answering(r)'
                 PROVE  Explains(log \cup evs, r)
    BY <1>1 DEF RowsAreExplained, Explains
  <2>2. CASE r \in rows
    BY <1>7, <2>2
  <2>3. CASE r \in published
    <3>1. Answering(r)
      BY <1>1, <2>1 DEF Answering
    <3>2. Explains(log, r)
      BY <2>3, <3>1 DEF LiveIInv, StreamIInv, RowsAreExplained
    <3>3. \A f \in evs : f.child = r.id => ~(f.epoch <= r.epoch)
      BY <1>4, <1>6, <2>3
    <3> QED
      BY <3>2, <3>3 DEF Explains
  <2> QED
    BY <2>1, <2>2, <2>3
<1>12. (published \subseteq Row)' /\ (window \in Epoch)'
  BY <1>1, <1>2 DEF LiveIInv, StreamIInv
<1> QED
  BY <1>8, <1>9, <1>10, <1>11, <1>12 DEF StreamIInv

\* An accepted batch leaves no cycle.
LEMMA IngestPreservesAcyclic ==
    ASSUME LiveIInv, NEW batch \in Batches, Ingest(batch)
    PROVE  NeverCyclic'
<1>1. /\ InOrder(batch)
      /\ ~StagedCycle(latest, EventsOf(latest, batch, pushed))
      /\ latest' = ApplyEvents(latest, EventsOf(latest, batch, pushed))
  BY DEF Ingest, IngestBatch, Commit
<1>2. CheckAcyclic(ApplyEvents(latest, EventsOf(latest, batch, pushed)))
  BY <1>1, InOrderContinues, RefusalIsExact DEF LiveIInv, NeverCyclic
<1> QED
  BY <1>1, <1>2 DEF NeverCyclic, CheckAcyclic, Parents, ParentOf

\* A trim takes no event that explains a row of the window: an event goes when a
\* later one before the window replaces it, and that one states a row between the
\* explained row and the window.
LEMMA TrimPreservesStream ==
    ASSUME LiveIInv, NEW ws \in Epoch, Trim(ws)
    PROVE  StreamIInv' /\ NeverCyclic'
<1>1. /\ log' = log \ Trimmed(log, ws) /\ published' = published /\ latest' = latest
      /\ window' = IF ws > window THEN ws ELSE window
  BY DEF Trim, TrimBefore
<1>2. ws \in Nat /\ window \in Nat /\ window' \in Epoch /\ window <= window' /\ ws <= window'
  BY <1>1 DEF LiveIInv, StreamIInv, Epoch
<1>3. UniqueRows' /\ LogIsPublished' /\ FollowsEpochs(log)' /\ (published \subseteq Row)'
  BY <1>1 DEF LiveIInv, StreamIInv, UniqueRows, LogIsPublished, FollowsEpochs
<1>4. RowsAreExplained'
  <2>1. SUFFICES ASSUME NEW r \in published, Answering(r)'
                 PROVE  Explains(log', r)
    BY <1>1 DEF RowsAreExplained, Explains
  <2>2. /\ \A p \in published : p.epoch \in Nat
        /\ \A f \in log : f.epoch \in Nat /\ f.at \in Nat
    BY DEF LiveIInv, StreamIInv, SoundTree, Typed, Row, Event, Epoch
  <2>3. \A q \in published : q.id = r.id /\ r.epoch < q.epoch => window' < q.epoch
    BY <1>1, <2>1 DEF Answering
  <2>4. Answering(r)
    BY <1>2, <2>2, <2>3 DEF Answering, Epoch
  <2>5. PICK e \in log : /\ e.child = r.id /\ e.epoch <= r.epoch /\ e.parent = r.frame
                         /\ \A f \in log : f.child = r.id /\ f.epoch <= r.epoch => f.epoch <= e.epoch
    BY <2>4 DEF LiveIInv, StreamIInv, RowsAreExplained, Explains
  <2>6. e \notin Trimmed(log, ws)
    <3>1. SUFFICES ASSUME NEW f \in log, f.child = r.id, f.epoch < ws, Before(e, f)
                   PROVE  FALSE
      BY <2>5 DEF Trimmed, Of
    <3>2. e.epoch < f.epoch
      BY <2>2, <2>5, <3>1 DEF Before, LiveIInv, StreamIInv, FollowsEpochs
    <3>3. r.epoch < f.epoch
      BY <2>2, <2>5, <3>1, <3>2
    <3>4. PICK q \in published : q.id = r.id /\ q.epoch = f.epoch
      BY <3>1 DEF LiveIInv, StreamIInv, LogIsPublished
    <3>5. window' < f.epoch
      BY <2>3, <3>3, <3>4
    <3> QED
      BY <1>2, <2>2, <3>1, <3>5 DEF Epoch
  <2> QED
    BY <1>1, <2>5, <2>6 DEF Explains
<1>5. NeverCyclic'
  BY <1>1 DEF LiveIInv, NeverCyclic, CheckAcyclic, Parents, ParentOf
<1> QED
  BY <1>2, <1>3, <1>4, <1>5 DEF StreamIInv

LEMMA LiveStepPreserves == LiveIInv /\ [LiveNext]_liveVars => LiveIInv'
<1> SUFFICES ASSUME LiveIInv, [LiveNext]_liveVars PROVE LiveIInv'
  OBVIOUS
<1> SoundTree(latest, log, pushed) /\ pushed \in Nat
  BY DEF LiveIInv, SoundTree, Typed
<1>1. ASSUME NEW batch \in Batches, Ingest(batch) PROVE LiveIInv'
  <2>1. Positioned(EventsOf(latest, batch, pushed), pushed)
    BY <1>1, InOrderContinues, IngestedArePositioned DEF Ingest
  <2>2. SoundTree(latest', log', pushed')
    BY <1>1, <2>1, CommitKeepsTree DEF Ingest, IngestBatch, Commit
  <2> QED
    BY <1>1, <2>2, IngestPreservesStream, IngestPreservesAcyclic DEF LiveIInv
<1>2. ASSUME NEW ws \in Epoch, Trim(ws) PROVE LiveIInv'
  <2>1. SoundTree(latest', log', pushed')
    BY <1>2, TrimKeepsTree DEF Trim, TrimBefore
  <2> QED
    BY <1>2, <2>1, TrimPreservesStream DEF LiveIInv
<1>3. CASE UNCHANGED liveVars
  <2>1. SoundTree(latest', log', pushed')
    BY <1>3 DEF liveVars
  <2>2. StreamIInv'
    BY <1>3 DEF liveVars, LiveIInv, StreamIInv, UniqueRows, LogIsPublished, FollowsEpochs,
       RowsAreExplained, Answering, Explains
  <2>3. NeverCyclic'
    BY <1>3 DEF liveVars, LiveIInv, NeverCyclic, CheckAcyclic, Parents, ParentOf
  <2> QED
    BY <2>1, <2>2, <2>3 DEF LiveIInv
<1> QED
  BY <1>1, <1>2, <1>3 DEF LiveNext

\* Rows that arrive in the order of their epochs never leave a cycle in the
\* current edges, whatever the batches and however many ids they concern.
THEOREM StaysAcyclic == LiveSpec => []NeverCyclic
<1>1. LiveIInv => NeverCyclic
  BY DEF LiveIInv
<1> QED
  BY <1>1, LiveInitEstablishes, LiveStepPreserves, PTL DEF LiveSpec

\* In every state of such a tree, ingest_batch refuses a batch in order if and
\* only if committing it would close a cycle: no false alarm and no miss.
THEOREM RefusalsAreExact == LiveSpec => []RefusesExactlyCycles
BY InvariantRefuses, LiveInitEstablishes, LiveStepPreserves, PTL DEF LiveSpec

-----------------------------------------------------------------------------
(* Refinement of ParentHistory. *)

\* parent_at answers every epoch of the window as the abstract history does.
LEMMA AnswersAreHistory ==
    ASSUME LiveIInv, NEW c \in Id, NEW x \in Epoch, window <= x
    PROVE  ParentAt(latest, log, c, x) = History!LastBy(published, c, x)
<1> DEFINE rows == {r \in published : r.id = c /\ r.epoch <= x}
<1>1. x \in Nat /\ window \in Nat
  BY DEF LiveIInv, StreamIInv, Epoch
<1>2. \A p \in published : p.epoch \in Nat
  BY DEF LiveIInv, StreamIInv, Row, Epoch
<1>3. \A f \in log : f.epoch \in Nat /\ f.at \in Nat
  BY DEF LiveIInv, SoundTree, Typed, Event, Epoch
<1>4. \A f \in Of(log, c) : f \in log /\ f.child = c /\ \E p \in published : p.id = c /\ p.epoch = f.epoch
  BY DEF Of, LiveIInv, StreamIInv, LogIsPublished
<1>5. CASE rows = {}
  <2>1. \A f \in log : f.child = c => ~(f.epoch <= x)
    BY <1>4, <1>5 DEF Of
  <2>3. ParentAt(latest, log, c, x) = None
    BY <2>1, NothingIsTold DEF LiveIInv
  <2>4. History!LastBy(published, c, x) = None
    BY <1>5 DEF History!LastBy
  <2> QED
    BY <2>3, <2>4
<1>6. CASE rows # {}
  <2>1. PICK r \in rows : \A q \in rows : q.epoch <= r.epoch
    <3> DEFINE S == {q.epoch : q \in rows}
    <3>1. S \in SUBSET Nat /\ S # {} /\ \A y \in S : y <= x
      BY <1>2, <1>6
    <3>2. \E y \in S : \A z \in S : z <= y
      <4> HIDE DEF S
      <4> QED
        BY <1>1, <3>1, GreatestNatural
    <3> QED
      BY <3>2
  <2>2. \A q \in rows : (\A p \in rows : p.epoch <= q.epoch) => q = r
    BY <1>2, <2>1 DEF LiveIInv, StreamIInv, UniqueRows
  <2>3. History!LastBy(published, c, x) = r.frame
    <3>1. (CHOOSE q \in rows : \A p \in rows : p.epoch <= q.epoch) = r
      <4> HIDE DEF rows
      <4> QED
        BY <2>1, <2>2
    <3> QED
      BY <1>6, <3>1 DEF History!LastBy
  <2>4. r \in published /\ r.id = c /\ r.epoch <= x
    BY <2>1
  <2>5. Answering(r)
    <3>1. SUFFICES ASSUME NEW q \in published, q.id = c, r.epoch < q.epoch PROVE window < q.epoch
      BY <2>4 DEF Answering
    <3>2. ~(q.epoch <= x)
      BY <1>2, <2>1, <2>4, <3>1
    <3> QED
      BY <1>1, <1>2, <3>2
  <2>6. PICK e \in log : /\ e.child = c /\ e.epoch <= r.epoch /\ e.parent = r.frame
                         /\ \A f \in log : f.child = c /\ f.epoch <= r.epoch => f.epoch <= e.epoch
    BY <2>4, <2>5 DEF LiveIInv, StreamIInv, RowsAreExplained, Explains
  <2>7. e.epoch <= x
    BY <1>1, <1>2, <1>3, <2>4, <2>6
  <2>8. \A f \in log : f.child = e.child /\ f.epoch <= x => f.epoch <= e.epoch
    <3>1. SUFFICES ASSUME NEW f \in log, f.child = c, f.epoch <= x PROVE f.epoch <= r.epoch
      BY <2>6
    <3>2. PICK p \in published : p.id = c /\ p.epoch = f.epoch
      BY <1>4, <3>1 DEF Of
    <3> QED
      BY <2>1, <3>1, <3>2
  <2>9. FollowsEpochs(log) /\ SoundTree(latest, log, pushed)
    BY DEF LiveIInv, StreamIInv
  <2>10. ParentAt(latest, log, c, x) = e.parent
    BY <1>1, <2>6, <2>7, <2>8, <2>9, YoungestIsTold
  <2> QED
    BY <2>3, <2>6, <2>10
<1> QED
  BY <1>5, <1>6

\* The map that the refinement gives for parentOf.
Told == [c \in Id |-> [x \in Epoch |->
            IF x < window THEN None ELSE ParentAt(latest, log, c, x)]]

LEMMA ToldIsHistory == LiveIInv => Told = History!Answers(published, window)
<1> SUFFICES ASSUME LiveIInv PROVE Told = History!Answers(published, window)
  OBVIOUS
<1>1. ASSUME NEW c \in Id, NEW x \in Epoch
      PROVE  (IF x < window THEN None ELSE ParentAt(latest, log, c, x))
                = (IF x < window THEN None ELSE History!LastBy(published, c, x))
  <2>1. x \in Nat /\ window \in Nat
    BY DEF LiveIInv, StreamIInv, Epoch
  <2>2. ~(x < window) => window <= x
    BY <2>1
  <2> QED
    BY <2>2, AnswersAreHistory
<1> QED
  BY <1>1 DEF Told, History!Answers

\* The tree implements the abstract history: seen from its readers, a batch
\* publishes rows, a trim moves the window, and parent_at answers every epoch of
\* the window as if every row were kept, although only changes of parent are.
THEOREM ImplementsHistory == LiveSpec => IsParentHistory
<1>1. LiveInit => History!Init
  <2> SUFFICES ASSUME LiveInit PROVE History!Init
    OBVIOUS
  <2>1. Told = History!Answers(published, window)
    BY LiveInitEstablishes, ToldIsHistory
  <2> QED
    BY <2>1 DEF Told, History!Init, LiveInit
<1>2. LiveIInv /\ LiveIInv' /\ [LiveNext]_liveVars => [History!Next]_<<published, Told, window>>
  <2> SUFFICES ASSUME LiveIInv, LiveIInv', [LiveNext]_liveVars
               PROVE  [History!Next]_<<published, Told, window>>
    OBVIOUS
  <2>1. Told = History!Answers(published, window)
    BY ToldIsHistory
  <2>2. Told' = History!Answers(published', window')
    <3>1. (Told = History!Answers(published, window))'
      BY ToldIsHistory, PTL
    <3> QED
      BY <3>1
  <2>3. ASSUME NEW batch \in Batches, Ingest(batch) PROVE History!Next
    <3> DEFINE rows == {batch[r] : r \in DOMAIN batch}
    <3>1. rows \in {{b[r] : r \in DOMAIN b} : b \in Batches}
      OBVIOUS
    <3>2. History!Upcoming(rows)
      BY <2>3 DEF Ingest, InOrder, History!Upcoming
    <3>3. published' = published \cup rows /\ window' = window
      BY <2>3 DEF Ingest
    <3>4. History!Publish(rows)
      BY <2>2, <3>2, <3>3 DEF History!Publish, Told
    <3> QED
      BY <3>1, <3>4 DEF History!Next
  <2>4. ASSUME NEW ws \in Epoch, Trim(ws), ws >= window PROVE History!Next
    <3>1. published' = published /\ window' = ws
      BY <2>4 DEF Trim, LiveIInv, StreamIInv, Epoch
    <3>2. History!Forget(ws)
      BY <2>2, <2>4, <3>1 DEF History!Forget, Told
    <3> QED
      BY <3>2 DEF History!Next
  <2>5. ASSUME NEW ws \in Epoch, Trim(ws), ~(ws >= window)
        PROVE  UNCHANGED <<published, Told, window>>
    <3>1. published' = published /\ window' = window
      BY <2>5 DEF Trim, LiveIInv, StreamIInv, Epoch
    <3> QED
      BY <2>1, <2>2, <3>1
  <2>6. CASE UNCHANGED liveVars
    BY <2>6 DEF liveVars, Told
  <2> QED
    BY <2>3, <2>4, <2>5, <2>6 DEF LiveNext
<1>3. LiveIInv /\ LiveIInv' /\ [LiveNext]_liveVars
        => [History!Next]_<<published, [c \in Id |-> [x \in Epoch |->
              IF x < window THEN None ELSE ParentAt(latest, log, c, x)]], window>>
  BY <1>2 DEF Told
<1> QED
  BY <1>1, <1>3, LiveInitEstablishes, LiveStepPreserves, PTL
  DEF LiveSpec, IsParentHistory, History!Spec
=============================================================================
