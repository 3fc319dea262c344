--------------------------- MODULE TopologyProofs ---------------------------
(***************************************************************************)
(* Lemmas about the operators of Topology, for any tree: what a batch or a *)
(* peer's log stages, what a commit and a trim keep, and, for batches that *)
(* are younger than the tree they meet, which cycles the check finds and   *)
(* which rows the log explains.  The proofs about TransformTree, LiveStream*)
(* and the ledger all rest on these.                                       *)
(***************************************************************************)
EXTENDS Topology, FiniteSetTheorems, WellFoundedInduction, TLAPS

-----------------------------------------------------------------------------
(* Facts about finite orders. *)

\* A nonempty set of naturals with an upper bound has a greatest element.
LEMMA GreatestNatural ==
    ASSUME NEW S \in SUBSET Nat, S # {}, NEW n \in Nat, \A s \in S : s <= n
    PROVE  \E m \in S : \A s \in S : s <= m
<1> DEFINE T == {n - s : s \in S}
<1>1. T \in SUBSET Nat /\ T # {}
  <2>1. \A s \in S : n - s \in Nat
    OBVIOUS
  <2>2. T # {}
    OBVIOUS
  <2> QED
    BY <2>1, <2>2
<1> HIDE DEF T
<1>2. PICK t \in T : \A u \in T : t <= u
  <2>1. \E t \in T : \A u \in T : ~(<<u, t>> \in OpToRel(<, Nat))
    BY <1>1, NatLessThanWellFounded, WFMin
  <2>2. \A u, t \in Nat : u < t => <<u, t>> \in OpToRel(<, Nat)
    BY DEF OpToRel
  <2>3. PICK t \in T : \A u \in T : ~(<<u, t>> \in OpToRel(<, Nat))
    BY <2>1
  <2>4. \A u \in T : ~(u < t)
    BY <1>1, <2>2, <2>3, Zenon
  <2> QED
    BY <1>1, <2>4
<1> USE DEF T
<1>3. PICK m \in S : t = n - m
  OBVIOUS
<1>4. \A s \in S : s <= m
  <2>1. SUFFICES ASSUME NEW s \in S PROVE s <= m
    OBVIOUS
  <2>2. n - m <= n - s
    BY <1>2, <1>3
  <2> QED
    BY <2>2
<1> QED
  BY <1>4

\* A nonempty set of naturals has a least element.
LEMMA LeastNatural ==
    ASSUME NEW S \in SUBSET Nat, S # {}
    PROVE  \E m \in S : \A s \in S : m <= s
<1>1. \E t \in S : \A u \in S : ~(<<u, t>> \in OpToRel(<, Nat))
  BY NatLessThanWellFounded, WFMin
<1>2. \A u, t \in Nat : u < t => <<u, t>> \in OpToRel(<, Nat)
  BY DEF OpToRel
<1>3. PICK t \in S : \A u \in S : ~(<<u, t>> \in OpToRel(<, Nat))
  BY <1>1
<1>4. \A u \in S : ~(u < t)
  BY <1>2, <1>3, Zenon
<1> QED
  BY <1>4

\* The number of elements of S below x in the relation R.
Rank(S, R, x) == Cardinality({q \in S : <<q, x>> \in R})

StrictTotalOrder(S, R) ==
    /\ \A x \in S : <<x, x>> \notin R
    /\ \A x, y, z \in S : <<x, y>> \in R /\ <<y, z>> \in R => <<x, z>> \in R
    /\ \A x, y \in S : x = y \/ <<x, y>> \in R \/ <<y, x>> \in R

\* In a finite strict total order ranks run below the size of the set and
\* follow the order.
LEMMA RankOrder ==
    ASSUME NEW S, IsFiniteSet(S), NEW R, StrictTotalOrder(S, R)
    PROVE  /\ \A x \in S : Rank(S, R, x) \in Nat /\ Rank(S, R, x) < Cardinality(S)
           /\ \A x, y \in S : <<x, y>> \in R => Rank(S, R, x) < Rank(S, R, y)
<1> USE DEF StrictTotalOrder
<1> DEFINE Below(x) == {q \in S : <<q, x>> \in R}
<1>1. \A x \in S : /\ IsFiniteSet(Below(x))
                   /\ Cardinality(Below(x)) \in Nat
                   /\ Cardinality(Below(x)) <= Cardinality(S)
                   /\ Cardinality(Below(x)) # Cardinality(S)
  <2>1. SUFFICES ASSUME NEW x \in S
                 PROVE  /\ IsFiniteSet(Below(x))
                        /\ Cardinality(Below(x)) \in Nat
                        /\ Cardinality(Below(x)) <= Cardinality(S)
                        /\ Cardinality(Below(x)) # Cardinality(S)
    OBVIOUS
  <2>2. Below(x) \in SUBSET S /\ Below(x) # S
    OBVIOUS
  <2> QED
    BY <2>2, FS_Subset, FS_CardinalityType
<1>2. ASSUME NEW x \in S, NEW y \in S, <<x, y>> \in R
      PROVE  Cardinality(Below(x)) < Cardinality(Below(y))
  <2>1. Below(x) \in SUBSET Below(y)
    BY <1>2
  <2>2. Below(x) # Below(y)
    BY <1>2
  <2>3. /\ Cardinality(Below(x)) <= Cardinality(Below(y))
        /\ Cardinality(Below(x)) # Cardinality(Below(y))
    BY <1>1, <2>1, <2>2, FS_Subset
  <2> QED
    BY <1>1, <2>3
<1>3. Cardinality(S) \in Nat
  BY FS_CardinalityType
<1> QED
  BY <1>1, <1>2, <1>3 DEF Rank
-----------------------------------------------------------------------------
(* Events positioned after the n events before them. *)

\* A set of new events: positions follow what was pushed and are distinct.
Positioned(evs, n) ==
    /\ evs \in SUBSET Event
    /\ IsFiniteSet(evs)
    /\ \A e \in evs : n < e.at /\ e.at <= n + Cardinality(evs)
    /\ \A e, f \in evs : e.at = f.at => e = f

\* In a nonempty set of events with distinct, bounded positions, one event is in
\* force: all others take effect before it.
LEMMA OneInForce ==
    ASSUME NEW evs \in SUBSET Event, evs # {}, NEW n \in Nat,
           \A e \in evs : e.at <= n,
           \A e, f \in evs : e.at = f.at => e = f
    PROVE  InForce(evs) \in evs /\ \A f \in evs : f = InForce(evs) \/ Before(f, InForce(evs))
<1> MaxEpoch \in Nat
  BY KindsAssumption
<1>1. PICK m \in evs : \A e \in evs : e.epoch <= m.epoch
  <2> DEFINE S == {e.epoch : e \in evs}
  <2>1. S \in SUBSET Nat /\ S # {} /\ \A x \in S : x <= MaxEpoch
    BY DEF Event, Epoch
  <2>2. PICK x \in S : \A y \in S : y <= x
    <3> HIDE DEF S
    <3> QED
      BY <2>1, GreatestNatural
  <2> QED
    BY <2>2
<1>2. PICK w \in evs : w.epoch = m.epoch /\ \A e \in evs : e.epoch = m.epoch => e.at <= w.at
  <2> DEFINE S == {e.at : e \in {f \in evs : f.epoch = m.epoch}}
  <2>1. S \in SUBSET Nat /\ S # {} /\ \A x \in S : x <= n
    BY DEF Event
  <2>2. PICK x \in S : \A y \in S : y <= x
    <3> HIDE DEF S
    <3> QED
      BY <2>1, GreatestNatural
  <2> QED
    BY <2>2
<1>3. \A f \in evs : f = w \/ Before(f, w)
  <2>1. SUFFICES ASSUME NEW f \in evs, f # w PROVE Before(f, w)
    OBVIOUS
  <2>2. f.epoch \in Nat /\ w.epoch \in Nat /\ f.at \in Nat /\ w.at \in Nat /\ f.at # w.at
    BY <2>1 DEF Event, Epoch
  <2> QED
    BY <1>1, <1>2, <2>2 DEF Before
<1> QED
  BY <1>2, <1>3 DEF InForce

\* The events of evs, one per element of I, are numbered from n in the order R.
RankedBy(evs, I, R, n) ==
    \E ev \in [I -> Event] :
        /\ evs = {ev[i] : i \in I}
        /\ \A i \in I : ev[i].at = n + 1 + Rank(I, R, i)

\* A family of events numbered by rank is a positioned set: the common shape of
\* what ingest_batch and merge_log_batch hand to the commit loop.
LEMMA RankedEventsArePositioned ==
    ASSUME NEW I, IsFiniteSet(I), NEW R, StrictTotalOrder(I, R),
           NEW n \in Nat, NEW evs, RankedBy(evs, I, R, n)
    PROVE  Positioned(evs, n)
<1> PICK ev \in [I -> Event] : /\ evs = {ev[i] : i \in I}
                               /\ \A i \in I : ev[i].at = n + 1 + Rank(I, R, i)
  BY DEF RankedBy
<1>1. /\ \A x \in I : Rank(I, R, x) \in Nat /\ Rank(I, R, x) < Cardinality(I)
      /\ \A x, y \in I : <<x, y>> \in R => Rank(I, R, x) < Rank(I, R, y)
  BY RankOrder
<1>2. \A x, y \in I : ev[x].at = ev[y].at => x = y
  <2>1. SUFFICES ASSUME NEW x \in I, NEW y \in I, x # y PROVE ev[x].at # ev[y].at
    OBVIOUS
  <2>2. Rank(I, R, x) \in Nat /\ Rank(I, R, y) \in Nat /\ Rank(I, R, x) # Rank(I, R, y)
    <3>1. Rank(I, R, x) \in Nat /\ Rank(I, R, y) \in Nat
      BY <1>1
    <3>2. <<x, y>> \in R \/ <<y, x>> \in R
      BY <2>1 DEF StrictTotalOrder
    <3>3. Rank(I, R, x) < Rank(I, R, y) \/ Rank(I, R, y) < Rank(I, R, x)
      BY <1>1, <3>2
    <3> QED
      BY <3>1, <3>3
  <2>3. n + 1 + Rank(I, R, x) # n + 1 + Rank(I, R, y)
    BY <2>2
  <2> QED
    BY <2>3
<1>3. ev \in Bijection(I, evs)
  BY <1>2 DEF Bijection, Injection, Surjection, IsInjective
<1>4. IsFiniteSet(evs) /\ Cardinality(evs) = Cardinality(I)
  BY <1>3, FS_Bijection DEF ExistsBijection
<1>5. Cardinality(I) \in Nat
  BY FS_CardinalityType
<1>6. \A e \in evs : n < e.at /\ e.at <= n + Cardinality(evs)
  BY <1>1, <1>4, <1>5
<1> QED
  BY <1>2, <1>4, <1>6 DEF Positioned

\* A batch as the topology reads it: rows with typed columns, whatever else they
\* hold.
TypedRows(batch) ==
    /\ IsFiniteSet(DOMAIN batch)
    /\ \A r \in DOMAIN batch : /\ r \in Nat
                               /\ batch[r].id \in Id /\ batch[r].frame \in Id
                               /\ batch[r].epoch \in Epoch

LEMMA SequencesAreTyped ==
    ASSUME NEW batch \in Seq(Row)
    PROVE  TypedRows(batch)
<1>1. Len(batch) \in Nat /\ DOMAIN batch = 1..Len(batch)
  OBVIOUS
<1>2. IsFiniteSet(DOMAIN batch)
  BY <1>1, FS_Interval
<1>3. \A r \in DOMAIN batch : r \in Nat /\ batch[r] \in Row
  OBVIOUS
<1> QED
  BY <1>2, <1>3 DEF TypedRows, Row

\* The sort of Pass C on the rows a batch emits.
SortOf(edges, batch) ==
    {p \in Emits(edges, batch) \X Emits(edges, batch) : SortsBefore(batch, p[1], p[2])}

\* It is a strict total order on a finite set: the stable sort leaves no ties.
LEMMA SortIsTotal ==
    ASSUME NEW batch, TypedRows(batch), NEW edges
    PROVE  /\ IsFiniteSet(Emits(edges, batch))
           /\ \A r \in Emits(edges, batch) : /\ batch[r].id \in Id /\ batch[r].frame \in Id
                                           /\ batch[r].epoch \in Epoch
           /\ StrictTotalOrder(Emits(edges, batch), SortOf(edges, batch))
<1> DEFINE I == Emits(edges, batch)
           R == SortOf(edges, batch)
<1>1. I \subseteq DOMAIN batch /\ IsFiniteSet(I)
  <2>1. I \subseteq DOMAIN batch
    BY DEF Emits
  <2> QED
    BY <2>1, FS_Subset DEF TypedRows
<1>2. \A r \in I : /\ r \in Nat
                   /\ batch[r].id \in Id /\ batch[r].frame \in Id /\ batch[r].epoch \in Epoch
                   /\ batch[r].epoch \in Nat
                   /\ ByteOrder[batch[r].id] \in Nat
  BY <1>1, KindsAssumption DEF TypedRows, Epoch
<1>3. \A x, y \in I : <<x, y>> \in R <=> SortsBefore(batch, x, y)
  BY DEF SortOf
<1> HIDE DEF I, R
<1>4. \A x \in I : <<x, x>> \notin R
  BY <1>2, <1>3 DEF SortsBefore
<1>5. \A x, y, z \in I : <<x, y>> \in R /\ <<y, z>> \in R => <<x, z>> \in R
  <2>1. SUFFICES ASSUME NEW x \in I, NEW y \in I, NEW z \in I,
                        SortsBefore(batch, x, y), SortsBefore(batch, y, z)
                 PROVE  SortsBefore(batch, x, z)
    BY <1>3
  <2>2. /\ ByteOrder[batch[x].id] \in Nat /\ batch[x].epoch \in Nat /\ x \in Nat
        /\ ByteOrder[batch[y].id] \in Nat /\ batch[y].epoch \in Nat /\ y \in Nat
        /\ ByteOrder[batch[z].id] \in Nat /\ batch[z].epoch \in Nat /\ z \in Nat
    BY <1>2
  <2> QED
    BY <2>1, <2>2 DEF SortsBefore
<1>6. \A x, y \in I : x = y \/ <<x, y>> \in R \/ <<y, x>> \in R
  <2>1. SUFFICES ASSUME NEW x \in I, NEW y \in I, x # y
                 PROVE  SortsBefore(batch, x, y) \/ SortsBefore(batch, y, x)
    BY <1>3
  <2>2. /\ ByteOrder[batch[x].id] \in Nat /\ batch[x].epoch \in Nat /\ x \in Nat
        /\ ByteOrder[batch[y].id] \in Nat /\ batch[y].epoch \in Nat /\ y \in Nat
    BY <1>2
  <2> QED
    BY <2>1, <2>2 DEF SortsBefore
<1>7. StrictTotalOrder(I, R)
  BY <1>4, <1>5, <1>6 DEF StrictTotalOrder
<1> QED
  BY <1>1, <1>2, <1>7 DEF I, R

\* What ingest_batch stages is positioned after the log.
LEMMA IngestedArePositioned ==
    ASSUME NEW batch, TypedRows(batch), NEW edges, NEW n \in Nat
    PROVE  Positioned(EventsOf(edges, batch, n), n)
<1> DEFINE I == Emits(edges, batch)
           R == SortOf(edges, batch)
           ev == [r \in I |-> [child  |-> batch[r].id,
                               parent |-> batch[r].frame,
                               epoch  |-> batch[r].epoch,
                               at     |-> n + 1 + Rank(I, R, r)]]
<1>1. IsFiniteSet(I) /\ StrictTotalOrder(I, R)
  BY SortIsTotal
<1>2. \A r \in I : batch[r].id \in Id /\ batch[r].frame \in Id /\ batch[r].epoch \in Epoch
  BY SortIsTotal
<1>3. \A x, y \in I : <<x, y>> \in R <=> SortsBefore(batch, x, y)
  BY DEF SortOf
<1> HIDE DEF I, R
<1> HIDE DEF ev
<1>8. \A r \in I : Rank(I, R, r) \in Nat
  BY <1>1, RankOrder
<1>9. ev \in [I -> Event]
  BY <1>2, <1>8 DEF Event, ev
<1>10. EventsOf(edges, batch, n) = {ev[r] : r \in I}
  <2>1. \A r \in I : {q \in I : SortsBefore(batch, q, r)} = {q \in I : <<q, r>> \in R}
    BY <1>3
  <2>2. \A r \in I : Rank(I, R, r) = Cardinality({q \in I : SortsBefore(batch, q, r)})
    BY <2>1 DEF Rank
  <2> QED
    BY <2>2 DEF EventsOf, I, ev
<1>11. \A r \in I : ev[r].at = n + 1 + Rank(I, R, r)
  BY DEF ev
<1>12. RankedBy(EventsOf(edges, batch, n), I, R, n)
  BY <1>9, <1>10, <1>11 DEF RankedBy
<1> QED
  BY <1>1, <1>12, RankedEventsArePositioned

\* What merge_log_batch adds is positioned after the log.
LEMMA MergedArePositioned ==
    ASSUME NEW log, NEW batch \in Seq(Fact), NEW n \in Nat
    PROVE  Positioned(MergedEvents(log, batch, n), n)
<1> DEFINE I == Fresh(log, batch)
           R == {p \in I \X I : p[1] < p[2]}
           ev == [i \in I |-> [child  |-> batch[i].child,
                               parent |-> batch[i].parent,
                               epoch  |-> batch[i].epoch,
                               at     |-> n + 1 + Rank(I, R, i)]]
<1>1. I \in SUBSET (1..Len(batch)) /\ IsFiniteSet(I)
  <2>1. I \in SUBSET (1..Len(batch)) /\ Len(batch) \in Nat
    BY DEF Fresh
  <2>2. IsFiniteSet(1..Len(batch))
    BY <2>1, FS_Interval
  <2> QED
    BY <2>1, <2>2, FS_Subset
<1>2. \A i \in I : i \in Nat /\ batch[i] \in Fact
  BY <1>1
<1>3. \A x, y \in I : <<x, y>> \in R <=> x < y
  OBVIOUS
<1> HIDE DEF I, R
<1>4. \A x \in I : <<x, x>> \notin R
  BY <1>2, <1>3
<1>5. \A x, y, z \in I : <<x, y>> \in R /\ <<y, z>> \in R => <<x, z>> \in R
  BY <1>2, <1>3
<1>6. \A x, y \in I : x = y \/ <<x, y>> \in R \/ <<y, x>> \in R
  <2>1. SUFFICES ASSUME NEW x \in I, NEW y \in I PROVE x = y \/ x < y \/ y < x
    BY <1>3
  <2> QED
    BY <1>2
<1>7. StrictTotalOrder(I, R)
  BY <1>4, <1>5, <1>6 DEF StrictTotalOrder
<1> HIDE DEF ev
<1>8. \A i \in I : Rank(I, R, i) \in Nat
  BY <1>1, <1>7, RankOrder
<1>9. ev \in [I -> Event]
  BY <1>2, <1>8 DEF Event, Fact, ev
<1>10. MergedEvents(log, batch, n) = {ev[i] : i \in I}
  <2>1. \A i \in I : {j \in I : j < i} = {j \in I : <<j, i>> \in R}
    BY <1>3
  <2>2. \A i \in I : Rank(I, R, i) = Cardinality({j \in I : j < i})
    BY <2>1 DEF Rank
  <2> QED
    BY <2>2 DEF MergedEvents, I, ev
<1>11. \A i \in I : ev[i].at = n + 1 + Rank(I, R, i)
  BY DEF ev
<1>12. RankedBy(MergedEvents(log, batch, n), I, R, n)
  BY <1>9, <1>10, <1>11 DEF RankedBy
<1> QED
  BY <1>1, <1>7, <1>12, RankedEventsArePositioned

-----------------------------------------------------------------------------
(* The commit loop and the trim: two records of one history. *)

Typed(edges, log, n) ==
    /\ edges \in [Id -> Edge \cup {None}]
    /\ log \in SUBSET Event
    /\ n \in Nat

\* The log's events keep distinct positions, none beyond the last push.
Ordered(log, n) ==
    /\ \A e \in log : e.at \in 1..n
    /\ \A e, f \in log : e.at = f.at => e = f

\* The order in which a log was applied.
AppliedPairs(log) == {p \in log \X log : p[1].at < p[2].at}

LEMMA LogIsFinite ==
    ASSUME NEW log \in SUBSET Event, NEW n \in Nat, Ordered(log, n)
    PROVE  /\ IsFiniteSet(log)
           /\ StrictTotalOrder(log, AppliedPairs(log))
<1>1. \A e \in log : e.at \in Nat /\ e.at \in 1..n
  BY DEF Ordered, Event
<1> DEFINE position == [e \in log |-> e.at]
<1>2. position \in Injection(log, 1..n)
  BY <1>1 DEF Ordered, Injection, IsInjective
<1>3. IsFiniteSet(1..n)
  BY FS_Interval
<1>4. IsFiniteSet(log)
  BY <1>2, <1>3, FS_Injection
<1>5. StrictTotalOrder(log, AppliedPairs(log))
  BY <1>1 DEF StrictTotalOrder, AppliedPairs, Ordered
<1> QED
  BY <1>4, <1>5

\* How many events of a log were applied before one of them.
PlaceIn(log, e) == Cardinality({f \in log : f.at < e.at})

\* A log's events take its places, one each, in the order of their positions.
LEMMA PlacesAreTaken ==
    ASSUME NEW log \in SUBSET Event, NEW n \in Nat, Ordered(log, n)
    PROVE  /\ Cardinality(log) \in Nat
           /\ \A i \in 1..Cardinality(log) : \E e \in log : Cardinality({f \in log : f.at < e.at}) = i - 1
           /\ \A e \in log : PlaceIn(log, e) \in Nat /\ PlaceIn(log, e) < Cardinality(log)
           /\ \A e, f \in log : e.at < f.at => PlaceIn(log, e) < PlaceIn(log, f)
<1> DEFINE N == Cardinality(log)
           pairs == AppliedPairs(log)
<1>1. IsFiniteSet(log) /\ N \in Nat /\ StrictTotalOrder(log, pairs)
  BY LogIsFinite, FS_CardinalityType
<1>2. \A e \in log : PlaceIn(log, e) = Rank(log, pairs, e)
  <2>1. \A e \in log : {f \in log : f.at < e.at} = {f \in log : <<f, e>> \in pairs}
    BY DEF AppliedPairs
  <2> QED
    BY <2>1 DEF Rank, PlaceIn
<1>3. /\ \A e \in log : PlaceIn(log, e) \in Nat /\ PlaceIn(log, e) < N
      /\ \A e, f \in log : <<e, f>> \in pairs => PlaceIn(log, e) < PlaceIn(log, f)
  BY <1>1, <1>2, RankOrder
<1>4. \A e, f \in log : e.at < f.at => PlaceIn(log, e) < PlaceIn(log, f)
  BY <1>3 DEF AppliedPairs
<1> DEFINE place == [e \in log |-> PlaceIn(log, e) + 1]
<1>5. place \in Injection(log, 1..N)
  <2>1. \A e \in log : place[e] \in 1..N
    BY <1>1, <1>3
  <2>2. ASSUME NEW e \in log, NEW f \in log, e # f PROVE place[e] # place[f]
    <3>1. <<e, f>> \in pairs \/ <<f, e>> \in pairs
      BY <1>1, <2>2 DEF StrictTotalOrder
    <3> QED
      BY <1>3, <3>1
  <2> QED
    BY <2>1, <2>2 DEF Injection, IsInjective
<1>6. place \in Surjection(log, 1..N)
  <2>1. IsFiniteSet(1..N) /\ Cardinality(1..N) = N
    BY <1>1, FS_Interval
  <2> QED
    BY <1>5, <2>1, FS_Injection
<1>7. ASSUME NEW i \in 1..N PROVE \E e \in log : PlaceIn(log, e) = i - 1
  <2>1. PICK e \in log : place[e] = i
    BY <1>6 DEF Surjection
  <2> QED
    BY <1>3, <2>1
<1> QED
  BY <1>1, <1>3, <1>4, <1>7 DEF PlaceIn

\* Every edge is the event in force among those the log holds.
Replays(edges, log) ==
    \A c \in Id :
        IF edges[c] = None THEN Of(log, c) = {}
        ELSE \E e \in Of(log, c) :
                /\ edges[c] = EdgeOf(e)
                /\ \A f \in Of(log, c) : f = e \/ Before(f, e)

\* What every operation on a tree keeps.  That edges replay from the log is not
\* inductive by itself: that the events of a commit come after the logged ones
\* needs the log's positions.
SoundTree(edges, log, n) == Typed(edges, log, n) /\ Ordered(log, n) /\ Replays(edges, log)

LEMMA EmptyTreeIsSound == SoundTree([c \in Id |-> None], {}, 0)
BY DEF SoundTree, Typed, Ordered, Replays, Of

LEMMA EmptyTreeIsAcyclic == CheckAcyclic([c \in Id |-> None])
<1> DEFINE none == [c \in Id |-> None]
<1>1. \A c \in Id : Parents(none)[c] = None
  BY DEF Parents, ParentOf
<1>2. \A S \in SUBSET Soloc : None \notin S
  BY KindsAssumption DEF Id
<1> HIDE DEF none
<1>3. \A c \in Id : ~Looping(Parents(none), c)
  BY <1>1, <1>2 DEF Looping
<1> QED
  BY <1>3 DEF CheckAcyclic, none

\* Per child, a positioned set of events holds one in force, which the commit
\* applies to the child's edge.
LEMMA WinnerOfChild ==
    ASSUME NEW n \in Nat, NEW evs, Positioned(evs, n), NEW c \in Id, Of(evs, c) # {}
    PROVE  /\ InForce(Of(evs, c)) \in Of(evs, c)
           /\ InForce(Of(evs, c)) \in Event
           /\ \A f \in Of(evs, c) : f = InForce(Of(evs, c)) \/ Before(f, InForce(Of(evs, c)))
<1>1. Of(evs, c) \in SUBSET Event
  BY DEF Of, Positioned
<1>2. Cardinality(evs) \in Nat /\ n + Cardinality(evs) \in Nat
  BY FS_CardinalityType DEF Positioned
<1>3. \A e \in Of(evs, c) : e.at <= n + Cardinality(evs)
  BY DEF Of, Positioned
<1>4. \A e, f \in Of(evs, c) : e.at = f.at => e = f
  BY DEF Of, Positioned
<1>5. /\ InForce(Of(evs, c)) \in Of(evs, c)
      /\ \A f \in Of(evs, c) : f = InForce(Of(evs, c)) \/ Before(f, InForce(Of(evs, c)))
  BY <1>1, <1>2, <1>3, <1>4, OneInForce
<1> QED
  BY <1>1, <1>5

\* The edge of a child that the events touch.
LEMMA AppliedEdge ==
    ASSUME NEW edges \in [Id -> Edge \cup {None}], NEW evs, NEW c \in Id, Of(evs, c) # {},
           NEW w \in Of(evs, c), w \in Event, w = InForce(Of(evs, c))
    PROVE  ApplyEvents(edges, evs)[c] =
              IF edges[c] = None \/ w.epoch >= edges[c].since THEN EdgeOf(w) ELSE edges[c]
<1>1. ApplyEvents(edges, evs)[c] = ApplyEvent(edges, w)[c]
  BY DEF ApplyEvents
<1>2. w.child = c
  BY DEF Of
<1> QED
  BY <1>1, <1>2 DEF ApplyEvent

LEMMA CommitKeepsTypes ==
    ASSUME NEW edges, NEW log, NEW n, Typed(edges, log, n), NEW evs, Positioned(evs, n)
    PROVE  Typed(ApplyEvents(edges, evs), log \cup evs, n + Cardinality(evs))
<1> edges \in [Id -> Edge \cup {None}] /\ n \in Nat
  BY DEF Typed
<1>1. ApplyEvents(edges, evs) \in [Id -> Edge \cup {None}]
  <2>1. SUFFICES ASSUME NEW c \in Id PROVE ApplyEvents(edges, evs)[c] \in Edge \cup {None}
    BY DEF ApplyEvents
  <2>2. CASE Of(evs, c) = {}
    BY <2>2 DEF ApplyEvents
  <2>3. CASE Of(evs, c) # {}
    <3> DEFINE w == InForce(Of(evs, c))
    <3>1. w \in Of(evs, c) /\ w \in Event
      BY <2>3, WinnerOfChild
    <3>2. EdgeOf(w) \in Edge
      BY <3>1 DEF EdgeOf, Edge, Event
    <3> QED
      BY <2>3, <3>1, <3>2, AppliedEdge
  <2> QED
    BY <2>2, <2>3
<1>2. log \cup evs \in SUBSET Event
  BY DEF Typed, Positioned
<1>3. n + Cardinality(evs) \in Nat
  BY FS_CardinalityType DEF Positioned
<1> QED
  BY <1>1, <1>2, <1>3 DEF Typed

LEMMA CommitKeepsOrder ==
    ASSUME NEW log \in SUBSET Event, NEW n \in Nat, Ordered(log, n), NEW evs, Positioned(evs, n)
    PROVE  Ordered(log \cup evs, n + Cardinality(evs))
<1>1. Cardinality(evs) \in Nat
  BY FS_CardinalityType DEF Positioned
<1>2. \A e \in log : e.at \in 1..n
  BY DEF Ordered
<1>3. \A e \in evs : e.at \in Nat /\ n < e.at /\ e.at <= n + Cardinality(evs)
  BY <1>1 DEF Positioned, Event
<1>4. \A e \in log \cup evs : e.at \in 1..(n + Cardinality(evs))
  BY <1>1, <1>2, <1>3
<1>5. \A e \in log, f \in evs : e.at # f.at
  BY <1>1, <1>2, <1>3
<1>6. \A e, f \in log \cup evs : e.at = f.at => e = f
  BY <1>5 DEF Ordered, Positioned
<1> QED
  BY <1>4, <1>6 DEF Ordered

LEMMA CommitKeepsReplay ==
    ASSUME NEW edges, NEW log, NEW n, SoundTree(edges, log, n), NEW evs, Positioned(evs, n)
    PROVE  Replays(ApplyEvents(edges, evs), log \cup evs)
<1> DEFINE new == ApplyEvents(edges, evs)
           all == log \cup evs
<1> n \in Nat /\ edges \in [Id -> Edge \cup {None}] /\ log \in SUBSET Event
  BY DEF SoundTree, Typed
<1>1. SUFFICES ASSUME NEW c \in Id
               PROVE  IF new[c] = None THEN Of(all, c) = {}
                      ELSE \E e \in Of(all, c) :
                              /\ new[c] = EdgeOf(e)
                              /\ \A f \in Of(all, c) : f = e \/ Before(f, e)
  BY DEF Replays
<1>2. Of(all, c) = Of(log, c) \cup Of(evs, c)
  BY DEF Of
<1>3. IF edges[c] = None THEN Of(log, c) = {}
      ELSE \E e \in Of(log, c) :
              /\ edges[c] = EdgeOf(e)
              /\ \A f \in Of(log, c) : f = e \/ Before(f, e)
  BY DEF SoundTree, Replays
<1>4. None \notin Edge
  BY KindsAssumption
<1>5. \A e \in Event : EdgeOf(e) \in Edge /\ EdgeOf(e).since = e.epoch
  BY DEF EdgeOf, Edge, Event
<1>6. CASE Of(evs, c) = {}
  <2>1. new[c] = edges[c]
    BY <1>6 DEF ApplyEvents
  <2> QED
    BY <1>2, <1>3, <1>6, <2>1
<1>7. CASE Of(evs, c) # {}
  <2> DEFINE w == InForce(Of(evs, c))
  <2>1. /\ w \in Of(evs, c)
        /\ \A f \in Of(evs, c) : f = w \/ Before(f, w)
    BY <1>7, WinnerOfChild
  <2>2. w \in Event /\ w.epoch \in Nat /\ w.at \in Nat /\ n < w.at
    BY <2>1 DEF Positioned, Of, Event, Epoch
  <2>3. new[c] = IF edges[c] = None \/ w.epoch >= edges[c].since
                 THEN EdgeOf(w) ELSE edges[c]
    BY <1>7, <2>1, <2>2, AppliedEdge
  <2> HIDE DEF w, new, all
  <2>4. CASE edges[c] = None
    <3>1. Of(log, c) = {}
      BY <1>3, <2>4
    <3>2. new[c] = EdgeOf(w) /\ new[c] # None
      BY <1>4, <1>5, <2>2, <2>3, <2>4
    <3> QED
      BY <1>2, <2>1, <3>1, <3>2
  <2>5. CASE edges[c] # None
    <3>1. PICK old \in Of(log, c) : /\ edges[c] = EdgeOf(old)
                                    /\ \A f \in Of(log, c) : f = old \/ Before(f, old)
      BY <1>3, <2>5
    <3>2. /\ old \in Event /\ old.epoch \in Nat /\ old.at \in Nat /\ old.at <= n
          /\ edges[c].since = old.epoch
      BY <1>5, <3>1 DEF SoundTree, Ordered, Of, Event, Epoch
    <3>3. \A f \in Of(log, c) : f.epoch \in Nat /\ f.at \in Nat /\ f.at <= n
      BY DEF SoundTree, Ordered, Of, Event, Epoch
    <3>4. CASE w.epoch >= old.epoch
      <4>1. new[c] = EdgeOf(w) /\ new[c] # None
        BY <1>4, <1>5, <2>2, <2>3, <3>2, <3>4
      <4>2. \A f \in Of(log, c) : f.epoch <= old.epoch
        BY <3>1, <3>2, <3>3 DEF Before
      <4>3. \A f \in Of(log, c) : Before(f, w)
        BY <2>2, <3>2, <3>3, <3>4, <4>2 DEF Before
      <4> QED
        BY <1>2, <2>1, <4>1, <4>3
    <3>5. CASE ~(w.epoch >= old.epoch)
      <4>1. new[c] = EdgeOf(old) /\ new[c] # None
        BY <2>3, <2>5, <3>1, <3>2, <3>5
      <4>2. \A f \in Of(evs, c) : f.epoch \in Nat /\ f.epoch <= w.epoch
        BY <2>1, <2>2 DEF Before, Positioned, Of, Event, Epoch
      <4>3. \A f \in Of(evs, c) : Before(f, old)
        BY <2>2, <3>2, <3>5, <4>2 DEF Before
      <4> QED
        BY <1>2, <3>1, <4>1, <4>3
    <3> QED
      BY <3>4, <3>5
  <2> QED
    BY <2>4, <2>5
<1> QED
  BY <1>6, <1>7

\* A commit of positioned events keeps the tree sound.
LEMMA CommitKeepsTree ==
    ASSUME NEW edges, NEW log, NEW n, SoundTree(edges, log, n), NEW evs, Positioned(evs, n)
    PROVE  SoundTree(ApplyEvents(edges, evs), log \cup evs, n + Cardinality(evs))
<1>1. Typed(edges, log, n) /\ Ordered(log, n) /\ log \in SUBSET Event /\ n \in Nat
  BY DEF SoundTree, Typed
<1> QED
  BY <1>1, CommitKeepsTypes, CommitKeepsOrder, CommitKeepsReplay DEF SoundTree

\* trim_before never drops an event in force, wherever the window starts.
LEMMA TrimKeepsTree ==
    ASSUME NEW edges, NEW log, NEW n, SoundTree(edges, log, n), NEW ws
    PROVE  SoundTree(edges, log \ Trimmed(log, ws), n)
<1> DEFINE kept == log \ Trimmed(log, ws)
<1> log \in SUBSET Event
  BY DEF SoundTree, Typed
<1>1. Typed(edges, kept, n) /\ Ordered(kept, n)
  BY DEF SoundTree, Typed, Ordered
<1>2. Replays(edges, kept)
  <2>1. SUFFICES ASSUME NEW c \in Id
                 PROVE  IF edges[c] = None THEN Of(kept, c) = {}
                        ELSE \E e \in Of(kept, c) :
                                /\ edges[c] = EdgeOf(e)
                                /\ \A f \in Of(kept, c) : f = e \/ Before(f, e)
    BY DEF Replays
  <2>2. Of(kept, c) \subseteq Of(log, c)
    BY DEF Of
  <2>3. CASE edges[c] = None
    BY <2>2, <2>3 DEF SoundTree, Replays
  <2>4. CASE edges[c] # None
    <3>1. PICK e \in Of(log, c) : /\ edges[c] = EdgeOf(e)
                                  /\ \A f \in Of(log, c) : f = e \/ Before(f, e)
      BY <2>4 DEF SoundTree, Replays
    <3>2. \A f \in Of(log, c) : ~Before(e, f)
      <4>1. \A f \in Of(log, c) : f.epoch \in Nat /\ f.at \in Nat
        BY DEF Of, Event, Epoch
      <4> QED
        BY <3>1, <4>1 DEF Before
    <3>3. e.child = c
      BY DEF Of
    <3>4. e \notin Trimmed(log, ws)
      BY <3>2, <3>3 DEF Trimmed
    <3>5. e \in Of(kept, c)
      BY <3>4 DEF Of
    <3> QED
      BY <2>2, <2>4, <3>1, <3>5
  <2> QED
    BY <2>3, <2>4
<1> QED
  BY <1>1, <1>2 DEF SoundTree

\* A commit replaces an edge only by one that is at least as young.
LEMMA CommitAdvances ==
    ASSUME NEW edges \in [Id -> Edge \cup {None}], NEW n \in Nat, NEW evs, Positioned(evs, n),
           NEW c \in Id, edges[c] # None
    PROVE  /\ ApplyEvents(edges, evs)[c] # None
           /\ ApplyEvents(edges, evs)[c].since >= edges[c].since
<1>1. edges[c].since \in Nat
  BY KindsAssumption DEF Edge, Epoch
<1>2. CASE Of(evs, c) = {}
  BY <1>1, <1>2 DEF ApplyEvents
<1>3. CASE Of(evs, c) # {}
  <2> DEFINE w == InForce(Of(evs, c))
  <2>1. w \in Of(evs, c) /\ w \in Event
    BY <1>3, WinnerOfChild
  <2>2. ApplyEvents(edges, evs)[c] = IF edges[c] = None \/ w.epoch >= edges[c].since
                                     THEN EdgeOf(w) ELSE edges[c]
    BY <1>3, <2>1, AppliedEdge
  <2>3. EdgeOf(w) \in Edge /\ EdgeOf(w).since = w.epoch /\ None \notin Edge
    BY <2>1, KindsAssumption DEF EdgeOf, Edge, Event
  <2> HIDE DEF w
  <2> QED
    BY <1>1, <2>2, <2>3
<1> QED
  BY <1>2, <1>3

-----------------------------------------------------------------------------
(* Batches in order. *)

\* Per child, events come in the same order by position and by epoch.
FollowsEpochs(evs) ==
    \A e, f \in evs : e.child = f.child =>
        /\ e.epoch < f.epoch => e.at < f.at
        /\ e.epoch = f.epoch => e = f

\* The batch has one row per id and epoch, and each is younger than every event
\* the log has of its id.
ContinuesLog(log, batch) ==
    /\ \A q, r \in DOMAIN batch :
          batch[q].id = batch[r].id /\ batch[q].epoch = batch[r].epoch => q = r
    /\ \A r \in DOMAIN batch : \A f \in log :
          f.child = batch[r].id => f.epoch < batch[r].epoch

\* The youngest event that is no younger than r names r's frame.
Explains(evs, r) ==
    \E e \in evs :
        /\ e.child = r.id /\ e.epoch <= r.epoch /\ e.parent = r.frame
        /\ \A f \in evs : f.child = r.id /\ f.epoch <= r.epoch => f.epoch <= e.epoch

\* Pass A finds a best row for every id of the batch, and it is a youngest one.
LEMMA BestRowIsYoungest ==
    ASSUME NEW batch, TypedRows(batch), NEW c, RowsOf(batch, c) # {}
    PROVE  /\ BestRow(batch, c) \in RowsOf(batch, c)
           /\ \A q \in RowsOf(batch, c) : batch[q].epoch <= batch[BestRow(batch, c)].epoch
<1> DEFINE Rows == RowsOf(batch, c)
           S == {batch[r].epoch : r \in Rows}
<1>1. Rows \subseteq DOMAIN batch
  BY DEF RowsOf
<1>2. \A r \in Rows : r \in Nat /\ batch[r].epoch \in Nat /\ batch[r].epoch <= MaxEpoch
  BY <1>1, KindsAssumption DEF TypedRows, Epoch
<1>3. PICK x \in S : \A y \in S : y <= x
  <2>1. S \in SUBSET Nat /\ S # {} /\ \A y \in S : y <= MaxEpoch
    BY <1>2
  <2> HIDE DEF S
  <2> QED
    BY <2>1, GreatestNatural, KindsAssumption
<1> DEFINE Top == {r \in Rows : batch[r].epoch = x}
<1>4. PICK m \in Top : \A q \in Top : m <= q
  <2>1. Top \in SUBSET Nat /\ Top # {}
    BY <1>2, <1>3
  <2> HIDE DEF Top
  <2> QED
    BY <2>1, LeastNatural
<1>5. \A q \in Rows : \/ batch[q].epoch < batch[m].epoch
                      \/ batch[q].epoch = batch[m].epoch /\ m <= q
  <2>1. SUFFICES ASSUME NEW q \in Rows, ~(batch[q].epoch < batch[m].epoch)
                 PROVE  batch[q].epoch = batch[m].epoch /\ m <= q
    OBVIOUS
  <2>2. batch[m].epoch = x /\ batch[q].epoch <= x /\ x \in Nat /\ batch[q].epoch \in Nat
    BY <1>2, <1>3
  <2>3. batch[q].epoch = x
    BY <2>1, <2>2
  <2> QED
    BY <1>4, <2>2, <2>3
<1> HIDE DEF Rows
<1>6. m \in Rows
  BY <1>4
<1>7. /\ BestRow(batch, c) \in Rows
      /\ \A q \in Rows : \/ batch[q].epoch < batch[BestRow(batch, c)].epoch
                         \/ batch[q].epoch = batch[BestRow(batch, c)].epoch /\ BestRow(batch, c) <= q
  BY <1>5, <1>6 DEF BestRow, Rows
<1>8. \A q \in Rows : batch[q].epoch <= batch[BestRow(batch, c)].epoch
  BY <1>2, <1>7
<1> QED
  BY <1>7, <1>8 DEF Rows

\* Every event is that of an emitted row.
LEMMA EventHasRow ==
    ASSUME NEW edges, NEW batch, NEW n, NEW e \in EventsOf(edges, batch, n)
    PROVE  \E r \in Emits(edges, batch) :
              /\ r \in RowsOf(batch, e.child)
              /\ e.parent = batch[r].frame /\ e.epoch = batch[r].epoch
              /\ e.at = n + 1 + Rank(Emits(edges, batch), SortOf(edges, batch), r)
<1>1. PICK r \in Emits(edges, batch) :
        e = [child  |-> batch[r].id,
             parent |-> batch[r].frame,
             epoch  |-> batch[r].epoch,
             at     |-> n + 1 + Cardinality({q \in Emits(edges, batch) : SortsBefore(batch, q, r)})]
  BY DEF EventsOf
<1>2. {q \in Emits(edges, batch) : SortsBefore(batch, q, r)}
        = {q \in Emits(edges, batch) : <<q, r>> \in SortOf(edges, batch)}
  BY DEF SortOf
<1>3. r \in DOMAIN batch
  BY DEF Emits
<1> QED
  BY <1>1, <1>2, <1>3 DEF Rank, RowsOf

\* An emitted row has its event.
LEMMA RowHasEvent ==
    ASSUME NEW edges, NEW batch, NEW n, NEW r \in Emits(edges, batch)
    PROVE  \E e \in EventsOf(edges, batch, n) :
              e.child = batch[r].id /\ e.parent = batch[r].frame /\ e.epoch = batch[r].epoch
<1> DEFINE e == [child  |-> batch[r].id,
                 parent |-> batch[r].frame,
                 epoch  |-> batch[r].epoch,
                 at     |-> n + 1 + Cardinality({q \in Emits(edges, batch) : SortsBefore(batch, q, r)})]
<1>1. e \in EventsOf(edges, batch, n)
  BY DEF EventsOf
<1>2. e.child = batch[r].id /\ e.parent = batch[r].frame /\ e.epoch = batch[r].epoch
  OBVIOUS
<1> QED
  BY <1>1, <1>2

\* Pass C sorts by epoch, so the events of a child follow their epochs.
LEMMA StagedFollowEpochs ==
    ASSUME NEW edges, NEW log, NEW batch, TypedRows(batch), ContinuesLog(log, batch), NEW n \in Nat
    PROVE  FollowsEpochs(EventsOf(edges, batch, n))
<1> DEFINE I == Emits(edges, batch)
           R == SortOf(edges, batch)
<1>1. SUFFICES ASSUME NEW e \in EventsOf(edges, batch, n), NEW f \in EventsOf(edges, batch, n),
                      e.child = f.child
               PROVE  /\ e.epoch < f.epoch => e.at < f.at
                      /\ e.epoch = f.epoch => e = f
  BY DEF FollowsEpochs
<1>2. PICK q \in I : /\ q \in RowsOf(batch, e.child) /\ e.parent = batch[q].frame
                     /\ e.epoch = batch[q].epoch /\ e.at = n + 1 + Rank(I, R, q)
  BY EventHasRow
<1>3. PICK r \in I : /\ r \in RowsOf(batch, f.child) /\ f.parent = batch[r].frame
                     /\ f.epoch = batch[r].epoch /\ f.at = n + 1 + Rank(I, R, r)
  BY EventHasRow
<1>4. /\ \A x \in I : Rank(I, R, x) \in Nat
      /\ \A x, y \in I : <<x, y>> \in R => Rank(I, R, x) < Rank(I, R, y)
  BY SortIsTotal, RankOrder
<1>5. q \in DOMAIN batch /\ r \in DOMAIN batch /\ batch[q].id = batch[r].id
  BY <1>1, <1>2, <1>3 DEF RowsOf
<1>6. ASSUME e.epoch < f.epoch PROVE e.at < f.at
  <2>1. <<q, r>> \in R
    BY <1>2, <1>3, <1>5, <1>6 DEF SortOf, SortsBefore
  <2>2. Rank(I, R, q) < Rank(I, R, r) /\ Rank(I, R, q) \in Nat /\ Rank(I, R, r) \in Nat
    BY <1>4, <2>1
  <2> QED
    BY <1>2, <1>3, <2>2
<1>7. ASSUME e.epoch = f.epoch PROVE e = f
  <2>1. q = r
    BY <1>2, <1>3, <1>5, <1>7 DEF ContinuesLog
  <2>2. e \in Event /\ f \in Event
    BY IngestedArePositioned DEF Positioned
  <2> QED
    BY <1>1, <1>2, <1>3, <1>7, <2>1, <2>2 DEF Event
<1> QED
  BY <1>6, <1>7

\* Among events that follow their epochs, the last staged one is in force: what
\* the cycle check walks and what the commit keeps are the same event.
LEMMA LastIsInForce ==
    ASSUME NEW n \in Nat, NEW evs, Positioned(evs, n), FollowsEpochs(evs),
           NEW c \in Id, Of(evs, c) # {}
    PROVE  LastApplied(Of(evs, c)) = InForce(Of(evs, c))
<1> DEFINE w == InForce(Of(evs, c))
<1>1. w \in Of(evs, c) /\ \A f \in Of(evs, c) : f = w \/ Before(f, w)
  BY WinnerOfChild
<1>2. \A f \in Of(evs, c) : f \in evs /\ f.child = c /\ f.epoch \in Nat /\ f.at \in Nat
  BY DEF Of, Positioned, Event, Epoch
<1> HIDE DEF w
<1>3. \A f \in Of(evs, c) : f = w \/ f.at < w.at
  BY <1>1, <1>2 DEF FollowsEpochs, Before
<1>4. \A f \in Of(evs, c) : f.at <= w.at
  BY <1>1, <1>2, <1>3
<1>5. \A e \in Of(evs, c) : (\A f \in Of(evs, c) : f.at <= e.at) => e = w
  BY <1>1, <1>2, <1>3
<1>6. LastApplied(Of(evs, c)) = w
  BY <1>1, <1>4, <1>5 DEF LastApplied
<1> QED
  BY <1>6 DEF w

\* An edge of a sound tree is that of the youngest logged event of its child.
LEMMA EdgeIsLogged ==
    ASSUME NEW edges, NEW log, NEW n, SoundTree(edges, log, n), NEW c \in Id, edges[c] # None
    PROVE  \E w \in log : /\ w \in Event /\ w.child = c /\ w.epoch \in Nat
                          /\ edges[c].parent = w.parent /\ edges[c].since = w.epoch
                          /\ \A f \in Of(log, c) : f.epoch <= w.epoch
<1>1. PICK w \in Of(log, c) : /\ edges[c] = EdgeOf(w)
                              /\ \A f \in Of(log, c) : f = w \/ Before(f, w)
  BY DEF SoundTree, Replays
<1>2. \A f \in Of(log, c) : f \in log /\ f \in Event /\ f.child = c /\ f.epoch \in Nat
  BY DEF SoundTree, Typed, Of, Event, Epoch
<1>3. \A f \in Of(log, c) : f.epoch <= w.epoch
  BY <1>1, <1>2 DEF Before
<1> QED
  BY <1>1, <1>2, <1>3 DEF EdgeOf

\* What a batch in order stages is younger than the log it meets.
LEMMA StagedAreYounger ==
    ASSUME NEW edges, NEW log, NEW batch, TypedRows(batch), ContinuesLog(log, batch), NEW n,
           NEW e \in EventsOf(edges, batch, n)
    PROVE  /\ e.epoch \in Nat
           /\ \A f \in log : f.child = e.child => f.epoch < e.epoch
<1>1. PICK r \in RowsOf(batch, e.child) : e.epoch = batch[r].epoch
  BY EventHasRow
<1>2. r \in DOMAIN batch /\ batch[r].id = e.child
  BY DEF RowsOf
<1> QED
  BY <1>1, <1>2, KindsAssumption DEF TypedRows, ContinuesLog, Epoch

\* A log that follows its epochs still does when a batch in order is committed.
LEMMA CommitFollowsEpochs ==
    ASSUME NEW edges, NEW log, NEW n, SoundTree(edges, log, n), FollowsEpochs(log),
           NEW batch, TypedRows(batch), ContinuesLog(log, batch)
    PROVE  FollowsEpochs(log \cup EventsOf(edges, batch, n))
<1> DEFINE evs == EventsOf(edges, batch, n)
<1> n \in Nat /\ log \in SUBSET Event
  BY DEF SoundTree, Typed
<1>1. Positioned(evs, n) /\ FollowsEpochs(evs)
  BY IngestedArePositioned, StagedFollowEpochs
<1>2. \A e \in evs : \A f \in log : f.child = e.child => f.epoch < e.epoch
  BY StagedAreYounger
<1> HIDE DEF evs
<1>3. \A e \in log, f \in evs : e.at < f.at /\ e.epoch \in Nat /\ f.epoch \in Nat
  BY <1>1 DEF SoundTree, Ordered, Positioned, Event, Epoch
<1>4. \A e \in log, f \in evs : e.child = f.child =>
        e.epoch < f.epoch /\ ~(f.epoch < e.epoch) /\ e.epoch # f.epoch
  BY <1>2, <1>3
<1>5. FollowsEpochs(log \cup evs)
  BY <1>1, <1>3, <1>4 DEF FollowsEpochs
<1> QED
  BY <1>5 DEF evs

\* In a log that follows its epochs the youngest event of a child is its edge.
LEMMA YoungestIsEdge ==
    ASSUME NEW edges, NEW log, NEW n, SoundTree(edges, log, n), FollowsEpochs(log),
           NEW e \in log, \A f \in log : f.child = e.child => f.epoch <= e.epoch
    PROVE  edges[e.child] # None /\ edges[e.child].parent = e.parent
<1>1. e \in Event /\ e.child \in Id /\ e \in Of(log, e.child) /\ e.epoch \in Nat
  BY DEF SoundTree, Typed, Event, Epoch, Of
<1>2. edges[e.child] # None
  BY <1>1 DEF SoundTree, Replays
<1>3. PICK w \in log : /\ w.child = e.child /\ w.epoch \in Nat /\ edges[e.child].parent = w.parent
                       /\ \A f \in Of(log, e.child) : f.epoch <= w.epoch
  BY <1>1, <1>2, EdgeIsLogged
<1>4. w.epoch = e.epoch
  BY <1>1, <1>3
<1>5. w = e
  BY <1>3, <1>4 DEF FollowsEpochs
<1> QED
  BY <1>2, <1>3, <1>5

\* In a log that follows its epochs, parent_at answers with the youngest event that
\* is no younger than the epoch asked for, whether it finds it in the current edge
\* or in the log.
LEMMA YoungestIsTold ==
    ASSUME NEW edges, NEW log, NEW n, SoundTree(edges, log, n), FollowsEpochs(log),
           NEW x \in Nat, NEW e \in log, e.epoch <= x,
           \A f \in log : f.child = e.child /\ f.epoch <= x => f.epoch <= e.epoch
    PROVE  ParentAt(edges, log, e.child, x) = e.parent
<1> DEFINE c == e.child
           past == {f \in Of(log, c) : f.epoch <= x}
<1>1. \A f \in log : f.epoch \in Nat /\ f.at \in Nat
  BY DEF SoundTree, Typed, Event, Epoch
<1>2. c \in Id /\ e \in past /\ \A f \in past : f \in log /\ f.child = c /\ f.epoch <= e.epoch
  BY DEF SoundTree, Typed, Event, Of
<1>3. edges[c] # None
  BY <1>2 DEF SoundTree, Replays
<1>4. PICK w \in log : /\ w.child = c /\ w.epoch \in Nat
                       /\ edges[c].parent = w.parent /\ edges[c].since = w.epoch
                       /\ \A f \in Of(log, c) : f.epoch <= w.epoch
  BY <1>2, <1>3, EdgeIsLogged
<1>5. CASE edges[c].since <= x
  <2>1. w \in past /\ e \in Of(log, c)
    BY <1>4, <1>5 DEF Of
  <2>2. w.epoch = e.epoch
    BY <1>1, <1>2, <1>4, <2>1
  <2>3. w = e
    BY <1>4, <2>2 DEF FollowsEpochs
  <2> QED
    BY <1>3, <1>4, <1>5, <2>3 DEF ParentAt
<1>6. CASE ~(edges[c].since <= x)
  <2>1. \A f \in past : f = e \/ f.at < e.at
    <3>1. SUFFICES ASSUME NEW f \in past, f # e PROVE f.at < e.at
      OBVIOUS
    <3>2. f \in log /\ f.child = c /\ f.epoch <= e.epoch /\ f.epoch \in Nat /\ e.epoch \in Nat
      BY <1>1, <1>2
    <3>3. f.epoch # e.epoch
      BY <3>1, <3>2 DEF FollowsEpochs
    <3>4. f.epoch < e.epoch
      BY <3>2, <3>3
    <3> QED
      BY <3>2, <3>4 DEF FollowsEpochs
  <2>2. LastApplied(past) = e
    <3>1. \A f \in past : f.at \in Nat
      BY <1>1, <1>2
    <3> HIDE DEF past
    <3>2. \A f \in past : f.at <= e.at
      BY <1>2, <2>1, <3>1
    <3>3. \A g \in past : (\A f \in past : f.at <= g.at) => g = e
      BY <1>2, <2>1, <3>1
    <3> QED
      BY <1>2, <3>2, <3>3 DEF LastApplied
  <2> QED
    BY <1>2, <1>3, <1>6, <2>2 DEF ParentAt
<1> QED
  BY <1>5, <1>6

\* And it answers nothing when every event of the id is younger.
LEMMA NothingIsTold ==
    ASSUME NEW edges, NEW log, NEW n, SoundTree(edges, log, n), NEW c \in Id, NEW x,
           \A f \in log : f.child = c => ~(f.epoch <= x)
    PROVE  ParentAt(edges, log, c, x) = None
<1>1. {f \in Of(log, c) : f.epoch <= x} = {}
  BY DEF Of
<1>2. edges[c] # None => ~(edges[c].since <= x)
  BY EdgeIsLogged
<1> QED
  BY <1>1, <1>2 DEF ParentAt

\* So the edges that the commit leaves are those that the cycle check walked.
LEMMA CommittedIsStaged ==
    ASSUME NEW edges, NEW log, NEW n, SoundTree(edges, log, n),
           NEW batch, TypedRows(batch), ContinuesLog(log, batch), NEW c \in Id
    PROVE  LET evs == EventsOf(edges, batch, n)
           IN  Parents(ApplyEvents(edges, evs))[c] = StagedParent(edges, evs)[c]
<1> DEFINE evs == EventsOf(edges, batch, n)
           w == InForce(Of(evs, c))
<1> n \in Nat /\ edges \in [Id -> Edge \cup {None}]
  BY DEF SoundTree, Typed
<1>1. Positioned(evs, n) /\ FollowsEpochs(evs)
  BY IngestedArePositioned, StagedFollowEpochs
<1>2. CASE Of(evs, c) = {}
  BY <1>2 DEF Parents, ParentOf, ApplyEvents, StagedParent
<1>3. CASE Of(evs, c) # {}
  <2>1. w \in Of(evs, c) /\ w \in Event /\ LastApplied(Of(evs, c)) = w
    BY <1>1, <1>3, WinnerOfChild, LastIsInForce
  <2>2. w \in evs /\ w.child = c
    BY <2>1 DEF Of
  <2>3. ApplyEvents(edges, evs)[c]
          = IF edges[c] = None \/ w.epoch >= edges[c].since THEN EdgeOf(w) ELSE edges[c]
    BY <1>3, <2>1, AppliedEdge
  <2>4. StagedParent(edges, evs)[c] = w.parent
    BY <1>3, <2>1 DEF StagedParent
  <2> HIDE DEF w
  <2>5. w.epoch \in Nat /\ \A f \in log : f.child = c => f.epoch < w.epoch
    BY <2>2, StagedAreYounger
  <2>6. edges[c] # None => w.epoch >= edges[c].since
    BY <2>5, EdgeIsLogged
  <2>7. ApplyEvents(edges, evs)[c] = EdgeOf(w)
    BY <2>3, <2>6
  <2>8. EdgeOf(w) # None /\ EdgeOf(w).parent = w.parent
    BY <2>1, KindsAssumption DEF EdgeOf, Edge, Event
  <2> QED
    BY <2>4, <2>7, <2>8 DEF Parents, ParentOf
<1> QED
  BY <1>2, <1>3

\* A batch in order is refused exactly when committing it would close a cycle.
\* A cycle of the new edges that touches a staged child is found from there; one
\* that touches none was there before.
LEMMA RefusalIsExact ==
    ASSUME NEW edges, NEW log, NEW n, SoundTree(edges, log, n), CheckAcyclic(edges),
           NEW batch, TypedRows(batch), ContinuesLog(log, batch)
    PROVE  LET evs == EventsOf(edges, batch, n)
           IN  StagedCycle(edges, evs) <=> ~CheckAcyclic(ApplyEvents(edges, evs))
<1> DEFINE evs == EventsOf(edges, batch, n)
           old == Parents(edges)
           new == Parents(ApplyEvents(edges, evs))
           staged == StagedParent(edges, evs)
<1>1. new = staged
  <2>1. \A c \in Id : new[c] = staged[c]
    BY CommittedIsStaged
  <2> QED
    BY <2>1 DEF Parents, StagedParent
<1>2. \A e \in evs : e.child \in Id
  <2>1. n \in Nat
    BY DEF SoundTree, Typed
  <2> QED
    BY <2>1, IngestedArePositioned DEF Positioned, Event
<1>3. \A c \in Id : Of(evs, c) = {} => new[c] = old[c]
  BY DEF Parents, ParentOf, ApplyEvents
<1>4. Soloc \subseteq Id
  BY DEF Id
<1>5. \A c \in Id : ~Looping(old, c)
  BY DEF CheckAcyclic
<1> HIDE DEF evs, old, new, staged
<1>6. ASSUME NEW e \in evs, Looping(staged, e.child)
      PROVE  \E c \in Id : Looping(new, c)
  BY <1>1, <1>2, <1>6
<1>7. ASSUME NEW c \in Id, Looping(new, c)
      PROVE  \E e \in evs : Looping(staged, e.child)
  <2>1. PICK S \in SUBSET Soloc : new[c] \in S /\ \A x \in S : new[x] \in S
    BY <1>7 DEF Looping
  <2>2. \A x \in S \cup {c} : x \in Id /\ Looping(new, x)
    BY <1>4, <2>1 DEF Looping
  <2>3. PICK x \in S \cup {c} : Of(evs, x) # {}
    <3>1. SUFFICES ASSUME \A x \in S \cup {c} : Of(evs, x) = {} PROVE FALSE
      OBVIOUS
    <3>2. \A x \in S \cup {c} : old[x] = new[x]
      BY <1>3, <2>2, <3>1
    <3>3. Looping(old, c)
      BY <2>1, <3>2 DEF Looping
    <3> QED
      BY <1>5, <3>3
  <2>4. PICK e \in evs : e.child = x
    BY <2>3 DEF Of
  <2> QED
    BY <1>1, <2>2, <2>4
<1>8. (\E e \in evs : Looping(staged, e.child)) <=> (\E c \in Id : Looping(new, c))
  BY <1>6, <1>7
<1> QED
  BY <1>8 DEF StagedCycle, CheckAcyclic, staged, new, evs

\* After the commit of a batch in order, every row of the batch is explained. Of
\* the rows that were not, the oldest would be one that Pass C skipped because
\* its frame is that of the row before it, or of the current edge: then it is
\* explained by the event that explains those.
LEMMA BatchIsExplained ==
    ASSUME NEW edges, NEW log, NEW n, SoundTree(edges, log, n),
           NEW batch, TypedRows(batch), ContinuesLog(log, batch)
    PROVE  \A i \in DOMAIN batch : Explains(log \cup EventsOf(edges, batch, n), batch[i])
<1> DEFINE evs == EventsOf(edges, batch, n)
           Bad == {i \in DOMAIN batch : ~Explains(log \cup evs, batch[i])}
<1>1. \A q, r \in DOMAIN batch : batch[q].id = batch[r].id /\ batch[q].epoch = batch[r].epoch => q = r
  BY DEF ContinuesLog
<1>2. \A i \in DOMAIN batch : batch[i].id \in Id /\ batch[i].frame \in Id /\ batch[i].epoch \in Nat
  BY KindsAssumption DEF TypedRows, Epoch
<1>3. \A i \in DOMAIN batch : \A f \in log : f.child = batch[i].id =>
        f.epoch \in Nat /\ f.epoch < batch[i].epoch
  <2>1. \A f \in log : f.epoch \in Nat
    BY DEF SoundTree, Typed, Event, Epoch
  <2> QED
    BY <2>1 DEF ContinuesLog
<1>4. \A f \in evs : \E k \in Emits(edges, batch) :
        /\ k \in DOMAIN batch /\ batch[k].id = f.child /\ f.parent = batch[k].frame
        /\ f.epoch = batch[k].epoch
  <2>1. SUFFICES ASSUME NEW f \in evs
                 PROVE  \E k \in Emits(edges, batch) :
                           /\ k \in DOMAIN batch /\ batch[k].id = f.child
                           /\ f.parent = batch[k].frame /\ f.epoch = batch[k].epoch
    OBVIOUS
  <2>2. PICK k \in Emits(edges, batch) : /\ k \in RowsOf(batch, f.child)
                                          /\ f.parent = batch[k].frame /\ f.epoch = batch[k].epoch
    BY EventHasRow
  <2> QED
    BY <2>2 DEF RowsOf
<1>5. \A k \in Emits(edges, batch) : \E e \in evs :
        e.child = batch[k].id /\ e.parent = batch[k].frame /\ e.epoch = batch[k].epoch
  BY RowHasEvent
<1> HIDE DEF evs
<1>6. SUFFICES ASSUME Bad # {} PROVE FALSE
  BY DEF evs
<1>7. PICK i \in Bad : \A j \in Bad : batch[i].epoch <= batch[j].epoch
  <2> DEFINE S == {batch[j].epoch : j \in Bad}
  <2>1. S \in SUBSET Nat /\ S # {}
    BY <1>2, <1>6
  <2>2. \E x \in S : \A y \in S : x <= y
    <3> HIDE DEF S
    <3> QED
      BY <2>1, LeastNatural
  <2> QED
    BY <2>2
<1> DEFINE c == batch[i].id
           Earlier == {q \in DOMAIN batch : batch[q].id = c /\ batch[q].epoch < batch[i].epoch}
<1>8. i \in DOMAIN batch /\ ~Explains(log \cup evs, batch[i])
  OBVIOUS
<1>9. i \notin Emits(edges, batch)
  <2>1. SUFFICES ASSUME i \in Emits(edges, batch) PROVE FALSE
    OBVIOUS
  <2>2. PICK e \in evs : e.child = c /\ e.parent = batch[i].frame /\ e.epoch = batch[i].epoch
    BY <1>5, <2>1
  <2>3. Explains(log \cup evs, batch[i])
    BY <1>2, <1>8, <2>2 DEF Explains
  <2> QED
    BY <1>8, <2>3
<1>10. \A f \in evs : f.child = c /\ f.epoch <= batch[i].epoch =>
         \E k \in Earlier : k \in Emits(edges, batch) /\ f.epoch = batch[k].epoch
  <2>1. SUFFICES ASSUME NEW f \in evs, f.child = c, f.epoch <= batch[i].epoch
                 PROVE  \E k \in Earlier : k \in Emits(edges, batch) /\ f.epoch = batch[k].epoch
    OBVIOUS
  <2>2. PICK k \in Emits(edges, batch) : /\ k \in DOMAIN batch /\ batch[k].id = c
                                          /\ f.epoch = batch[k].epoch
    BY <1>4, <2>1
  <2>3. batch[k].epoch # batch[i].epoch
    BY <1>1, <1>8, <1>9, <2>2
  <2>4. batch[k].epoch < batch[i].epoch
    BY <1>2, <1>8, <2>1, <2>2, <2>3
  <2> QED
    BY <2>2, <2>4
<1>11. \A q \in RowsOf(batch, c) : SortsBefore(batch, q, i) <=> q \in Earlier
  <2>1. \A q \in RowsOf(batch, c) : q \in DOMAIN batch /\ batch[q].id = c
    BY DEF RowsOf
  <2>2. ByteOrder[c] \in Nat
    BY <1>2, <1>8, KindsAssumption
  <2>3. \A q \in RowsOf(batch, c) : batch[q].epoch = batch[i].epoch => q = i
    BY <1>1, <1>8, <2>1
  <2>4. i \in Nat
    BY <1>8 DEF TypedRows
  <2> QED
    BY <1>2, <1>8, <2>1, <2>2, <2>3, <2>4 DEF SortsBefore
<1>12. Earlier \subseteq RowsOf(batch, c)
  BY DEF RowsOf
<1>13. ASSUME edges[c] # None, edges[c].parent = batch[i].frame,
              \A f \in evs : f.child = c => ~(f.epoch <= batch[i].epoch)
       PROVE  FALSE
  <2>1. PICK w \in log : /\ w.child = c /\ edges[c].parent = w.parent
                         /\ \A f \in Of(log, c) : f.epoch <= w.epoch
    BY <1>2, <1>8, <1>13, EdgeIsLogged
  <2>2. w.epoch <= batch[i].epoch
    BY <1>2, <1>3, <1>8, <2>1
  <2>3. \A f \in log \cup evs : f.child = c /\ f.epoch <= batch[i].epoch => f.epoch <= w.epoch
    BY <1>13, <2>1 DEF Of
  <2> QED
    BY <1>8, <1>13, <2>1, <2>2, <2>3 DEF Explains
<1>14. CASE c \notin Dirty(edges, batch)
  <2>1. \A f \in evs : f.child # c
    BY <1>4, <1>14 DEF Emits
  <2>2. i \in RowsOf(batch, c) /\ c \in IdsIn(batch)
    BY <1>8 DEF RowsOf, IdsIn
  <2>3. BestRow(batch, c) \in RowsOf(batch, c)
    BY <2>2, BestRowIsYoungest
  <2>4. edges[c] # None /\ edges[c].parent = batch[BestRow(batch, c)].frame
    BY <1>14, <2>2 DEF Dirty
  <2>5. batch[BestRow(batch, c)].frame = batch[i].frame
    BY <1>14, <2>2, <2>3 DEF Dirty, MultiFrame
  <2> QED
    BY <1>13, <2>1, <2>4, <2>5
<1>15. CASE c \in Dirty(edges, batch) /\ Earlier = {}
  <2>1. RunningParent(edges, batch, i) = batch[i].frame
    BY <1>8, <1>9, <1>15 DEF Emits
  <2>2. {q \in RowsOf(batch, c) : SortsBefore(batch, q, i)} = {}
    BY <1>11, <1>15
  <2>3. ParentOf(edges, c) = batch[i].frame
    BY <2>1, <2>2 DEF RunningParent
  <2>4. edges[c] # None /\ edges[c].parent = batch[i].frame
    BY <1>2, <1>8, <2>3, KindsAssumption DEF ParentOf
  <2>5. \A f \in evs : f.child = c => ~(f.epoch <= batch[i].epoch)
    BY <1>10, <1>15
  <2> QED
    BY <1>13, <2>4, <2>5
<1>16. CASE c \in Dirty(edges, batch) /\ Earlier # {}
  <2> DEFINE before == {q \in RowsOf(batch, c) : SortsBefore(batch, q, i)}
             p == CHOOSE q \in before : \A k \in before : k = q \/ SortsBefore(batch, k, q)
  <2>1. RunningParent(edges, batch, i) = batch[i].frame
    BY <1>8, <1>9, <1>16 DEF Emits
  <2>2. before = Earlier
    BY <1>11, <1>12
  <2>3. before # {}
    BY <1>16, <2>2
  <2>4. batch[p].frame = batch[i].frame
    BY <2>1, <2>3 DEF RunningParent
  <2>5. \E m \in Earlier : \A q \in Earlier : batch[q].epoch <= batch[m].epoch
    <3> DEFINE S == {batch[q].epoch : q \in Earlier}
    <3>1. S \in SUBSET Nat /\ S # {} /\ \A x \in S : x <= batch[i].epoch
      BY <1>2, <1>8, <1>16
    <3>2. \E x \in S : \A y \in S : y <= x
      <4> HIDE DEF S
      <4>1. batch[i].epoch \in Nat
        BY <1>2, <1>8
      <4> QED
        BY <3>1, <4>1, GreatestNatural
    <3> QED
      BY <3>2
  <2>6. PICK m \in Earlier : \A q \in Earlier : batch[q].epoch <= batch[m].epoch
    BY <2>5
  <2>7. \A k \in before : k = m \/ SortsBefore(batch, k, m)
    <3>1. SUFFICES ASSUME NEW k \in before, k # m PROVE SortsBefore(batch, k, m)
      OBVIOUS
    <3>2. k \in Earlier
      BY <2>2
    <3>3. batch[k].epoch < batch[m].epoch
      BY <1>1, <1>2, <2>6, <3>1, <3>2
    <3> QED
      BY <2>6, <3>2, <3>3 DEF SortsBefore
  <2>8. p \in before /\ \A k \in before : k = p \/ SortsBefore(batch, k, p)
    <3>1. m \in before
      BY <2>2, <2>6
    <3> HIDE DEF before
    <3> QED
      BY <2>7, <3>1
  <2> HIDE DEF p
  <2>9. p \in Earlier /\ p \in DOMAIN batch /\ batch[p].id = c /\ batch[p].epoch < batch[i].epoch
    BY <2>2, <2>8
  <2>10. \A k \in Earlier : batch[k].epoch <= batch[p].epoch
    <3>1. SUFFICES ASSUME NEW k \in Earlier, k # p PROVE batch[k].epoch <= batch[p].epoch
      BY <1>2, <2>9
    <3>2. SortsBefore(batch, k, p)
      BY <2>2, <2>8, <3>1
    <3>3. batch[k].id = c /\ batch[k].epoch \in Nat /\ batch[p].epoch \in Nat
      BY <1>2, <2>9
    <3>4. ByteOrder[c] \in Nat
      BY <1>2, <1>8, KindsAssumption
    <3> QED
      BY <2>9, <3>2, <3>3, <3>4 DEF SortsBefore
  <2>11. p \notin Bad
    <3>1. SUFFICES ASSUME p \in Bad PROVE FALSE
      OBVIOUS
    <3>2. batch[i].epoch <= batch[p].epoch
      BY <1>7, <3>1
    <3>3. batch[i].epoch \in Nat /\ batch[p].epoch \in Nat
      BY <1>2, <1>8, <2>9
    <3> QED
      BY <2>9, <3>2, <3>3
  <2>12. PICK e \in log \cup evs :
            /\ e.child = c /\ e.epoch <= batch[p].epoch /\ e.parent = batch[p].frame
            /\ \A f \in log \cup evs : f.child = c /\ f.epoch <= batch[p].epoch => f.epoch <= e.epoch
    BY <2>9, <2>11 DEF Explains
  <2>13. e.epoch \in Nat
    BY <1>2, <1>3, <1>4, <1>8, <2>12
  <2>14. \A f \in log \cup evs : f.child = c /\ f.epoch <= batch[i].epoch => f.epoch <= batch[p].epoch
    <3>1. \A f \in log : f.child = c => f.epoch <= batch[p].epoch
      BY <1>2, <1>3, <2>9
    <3> QED
      BY <1>10, <2>10, <3>1
  <2>15. e.epoch <= batch[i].epoch
    BY <1>2, <1>8, <2>9, <2>12, <2>13
  <2> QED
    BY <1>8, <2>4, <2>12, <2>14, <2>15 DEF Explains
<1> QED
  BY <1>14, <1>15, <1>16
=============================================================================
