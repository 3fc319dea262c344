--------------------------- MODULE BoundaryProofs ----------------------------
(***************************************************************************)
(* Theorems about what stands around the ledger: the exchange of           *)
(* topologies, the registry of names, what the almanac is asked,           *)
(* transform_batch and its caches, and the start of the server.  They hold *)
(* for any number of ledgers, whatever their producers send and the        *)
(* channel delivers, repeats, reorders and loses; for any texts, claims    *)
(* and forged payloads; for any kernels, requests, batches, targets and    *)
(* resolver; and for any configuration a start may find.                   *)
(***************************************************************************)
EXTENDS Federation, Reproject, Startup, IntakeProofs, TopologyProofs

-----------------------------------------------------------------------------
(* Federation: what an edge says of all that a ledger ever heard. *)

(* An export is a sequence of facts. *)

\* Each place of an exported log is that of some event, so the export states facts.
LEMMA ExportStatesFacts ==
    ASSUME NEW log \in SUBSET Event, NEW n \in Nat, Ordered(log, n)
    PROVE  LogBatch(log) \in Seq(Fact)
<1> DEFINE N == Cardinality(log)
           earlier(e) == {f \in log : f.at < e.at}
<1>1. N \in Nat /\ \A i \in 1..N : \E e \in log : Cardinality(earlier(e)) = i - 1
  BY PlacesAreTaken
<1>2. ASSUME NEW i \in 1..N
      PROVE  FactOf(CHOOSE e \in log : Cardinality(earlier(e)) = i - 1) \in Fact
  <2>1. (CHOOSE e \in log : Cardinality(earlier(e)) = i - 1) \in Event
    BY <1>1
  <2> QED
    BY <2>1 DEF FactOf, Event, Fact
<1>3. LogBatch(log) = [i \in 1..N |-> FactOf(CHOOSE e \in log : Cardinality(earlier(e)) = i - 1)]
  BY DEF LogBatch
<1> HIDE DEF N, earlier
<1>4. LogBatch(log) \in [1..N -> Fact]
  BY <1>2, <1>3
<1> QED
  BY <1>1, <1>4

-----------------------------------------------------------------------------
(* The inductive invariant: each ledger's tree is sound, its log states    *)
(* what the ledger heard, and all of it until the ledger first trims, and  *)
(* its edge for a child is one of the youngest things it heard of it.      *)

Tree == [latest : [Id -> Edge \cup {None}], log : SUBSET Event, pushed : Nat]

SoundPeer(p) ==
    /\ SoundTree(trees[p].latest, trees[p].log, trees[p].pushed)
    /\ FactsOf(trees[p].log) \subseteq known[p]
    /\ trims[p] = 0 => known[p] \subseteq FactsOf(trees[p].log)

FederationIInv ==
    /\ trees \in [Peer -> Tree]
    /\ known \in [Peer -> SUBSET Fact]
    /\ trims \in [Peer -> Nat]
    /\ exports \subseteq Seq(Fact)
    /\ \A p \in Peer : SoundPeer(p)
    /\ EdgeIsYoungestKnown

LEMMA PeersInitEstablish == FederationInit => FederationIInv
<1> SUFFICES ASSUME FederationInit PROVE FederationIInv
  OBVIOUS
<1>1. trees \in [Peer -> Tree]
  BY DEF FederationInit, Tree
<1>2. \A p \in Peer : SoundPeer(p)
  BY EmptyTreeIsSound DEF FederationInit, SoundPeer, FactsOf
<1>3. EdgeIsYoungestKnown
  BY DEF FederationInit, EdgeIsYoungestKnown
<1> QED
  BY <1>1, <1>2, <1>3 DEF FederationInit, FederationIInv

\* `edge` is one of the youngest things that `heard` says of c.
Youngest(heard, c, edge) ==
    LET said == {f \in heard : f.child = c}
    IN  IF said = {} THEN edge = None
        ELSE /\ edge # None
             /\ [child |-> c, parent |-> edge.parent, epoch |-> edge.since] \in said
             /\ \A f \in said : f.epoch <= edge.since

LEMMA YoungestIsKnown ==
    EdgeIsYoungestKnown <=> \A p \in Peer : \A c \in Id : Youngest(known[p], c, trees[p].latest[c])
BY DEF EdgeIsYoungestKnown, Youngest

\* The edge of a child after a commit, as one of the youngest things heard.
LEMMA CommitKeepsYoungest ==
    ASSUME NEW edges \in [Id -> Edge \cup {None}], NEW n \in Nat, NEW evs, Positioned(evs, n),
           NEW heard \in SUBSET Fact, NEW c \in Id, Youngest(heard, c, edges[c])
    PROVE  Youngest(heard \cup FactsOf(evs), c, ApplyEvents(edges, evs)[c])
<1> DEFINE before == {f \in heard : f.child = c}
           ofChild == {f \in heard \cup FactsOf(evs) : f.child = c}
           edge == ApplyEvents(edges, evs)[c]
<1> SUFFICES IF ofChild = {} THEN edge = None
             ELSE /\ edge # None
                  /\ [child |-> c, parent |-> edge.parent, epoch |-> edge.since] \in ofChild
                  /\ \A f \in ofChild : f.epoch <= edge.since
  BY DEF Youngest
<1>0. IF before = {} THEN edges[c] = None
      ELSE /\ edges[c] # None
           /\ [child |-> c, parent |-> edges[c].parent, epoch |-> edges[c].since] \in before
           /\ \A f \in before : f.epoch <= edges[c].since
  BY DEF Youngest
<1>1. evs \in SUBSET Event
  BY DEF Positioned
<1>2. \A f \in FactsOf(evs) : f.child = c => \E e \in Of(evs, c) : f = FactOf(e) /\ f.epoch = e.epoch
  BY <1>1 DEF FactsOf, FactOf, Of
<1>3. CASE Of(evs, c) = {}
  <2>1. ofChild = before
    BY <1>2, <1>3
  <2>2. edge = edges[c]
    BY <1>3 DEF ApplyEvents
  <2> QED
    BY <1>0, <2>1, <2>2
<1>4. CASE Of(evs, c) # {}
  <2> DEFINE w == InForce(Of(evs, c))
  <2>1. w \in Of(evs, c) /\ w \in Event /\ \A f \in Of(evs, c) : f = w \/ Before(f, w)
    BY <1>4, WinnerOfChild
  <2>2. edge = IF edges[c] = None \/ w.epoch >= edges[c].since THEN EdgeOf(w) ELSE edges[c]
    BY <1>4, <2>1, AppliedEdge
  <2> HIDE DEF w, edge
  <2>3. EdgeOf(w) # None
    BY <2>1, KindsAssumption DEF EdgeOf, Edge, Event
  <2>4. w.child = c /\ w.epoch \in Nat /\ FactOf(w) \in ofChild
    BY <2>1 DEF Of, FactsOf, FactOf, Event, Epoch
  <2>5. \A f \in Of(evs, c) : f.epoch <= w.epoch /\ f.epoch \in Nat
    BY <1>1, <2>1, <2>4 DEF Before, Of, Event, Epoch
  <2>6. \A f \in heard : f.epoch \in Nat
    BY DEF Fact, Epoch
  <2>7. CASE before = {}
    <3>1. edge = EdgeOf(w)
      BY <1>0, <2>2, <2>7
    <3>2. [child |-> c, parent |-> edge.parent, epoch |-> edge.since] = FactOf(w)
      BY <2>4, <3>1 DEF EdgeOf, FactOf
    <3>3. \A f \in ofChild : f.epoch <= edge.since
      BY <1>2, <2>5, <2>7, <3>1 DEF EdgeOf
    <3> QED
      BY <2>3, <2>4, <3>1, <3>2, <3>3 DEF edge
  <2>8. CASE before # {}
    <3>1. /\ edges[c] # None
          /\ [child |-> c, parent |-> edges[c].parent, epoch |-> edges[c].since] \in before
          /\ \A f \in before : f.epoch <= edges[c].since
      BY <1>0, <2>8
    <3>2. edges[c].since \in Nat
      BY <2>6, <3>1
    <3>3. CASE w.epoch >= edges[c].since
      <4>1. edge = EdgeOf(w)
        BY <2>2, <3>3
      <4>2. [child |-> c, parent |-> edge.parent, epoch |-> edge.since] = FactOf(w)
        BY <2>4, <4>1 DEF EdgeOf, FactOf
      <4>3. \A f \in before : f.epoch <= w.epoch
        BY <2>4, <2>6, <3>1, <3>2, <3>3
      <4>4. \A f \in ofChild : f.epoch <= edge.since
        BY <1>2, <2>5, <4>1, <4>3 DEF EdgeOf
      <4> QED
        BY <2>3, <2>4, <4>1, <4>2, <4>4 DEF edge
    <3>4. CASE ~(w.epoch >= edges[c].since)
      <4>1. edge = edges[c]
        BY <2>2, <3>1, <3>4
      <4>2. \A f \in ofChild : f.epoch <= edges[c].since
        BY <1>2, <2>4, <2>5, <3>1, <3>2, <3>4
      <4> QED
        BY <2>4, <3>1, <4>1, <4>2 DEF edge
    <3> QED
      BY <3>3, <3>4
  <2> QED
    BY <2>7, <2>8
<1> QED
  BY <1>3, <1>4

-----------------------------------------------------------------------------
(* Each step keeps the invariant. *)

\* A ledger logs events and applies them: by a batch or by an import.
LEMMA LogPreserves ==
    ASSUME FederationIInv, NEW p \in Peer, NEW evs, Positioned(evs, trees[p].pushed),
           Log(p, evs), UNCHANGED <<exports, trims>>
    PROVE  FederationIInv'
<1> DEFINE t == trees[p]
<1>1. t \in Tree /\ SoundPeer(p) /\ evs \in SUBSET Event
  BY DEF FederationIInv, Positioned
<1>2. /\ trees' = [trees EXCEPT ![p] = After(t, evs)]
      /\ known' = [known EXCEPT ![p] = @ \cup FactsOf(evs)]
  BY DEF Log
<1>3. SoundTree(ApplyEvents(t.latest, evs), t.log \cup evs, t.pushed + Cardinality(evs))
  BY <1>1, CommitKeepsTree DEF SoundPeer
<1>4. After(t, evs) \in Tree
  BY <1>3 DEF After, Tree, SoundTree, Typed
<1>5. FactsOf(evs) \subseteq Fact
  BY <1>1 DEF FactsOf, FactOf, Event, Fact
<1>6. trees' \in [Peer -> Tree] /\ known' \in [Peer -> SUBSET Fact]
  BY <1>2, <1>4, <1>5 DEF FederationIInv
<1>7. /\ trees'[p] = After(t, evs) /\ known'[p] = known[p] \cup FactsOf(evs)
      /\ \A q \in Peer \ {p} : trees'[q] = trees[q] /\ known'[q] = known[q]
  BY <1>2 DEF FederationIInv
<1>8. FactsOf(t.log \cup evs) = FactsOf(t.log) \cup FactsOf(evs)
  BY DEF FactsOf
<1>9. ASSUME NEW q \in Peer PROVE SoundPeer(q)'
  <2>1. CASE q = p
    BY <1>1, <1>3, <1>7, <1>8, <2>1 DEF SoundPeer, After
  <2>2. CASE q # p
    BY <1>7, <2>2 DEF FederationIInv, SoundPeer
  <2> QED
    BY <2>1, <2>2
<1>10. ASSUME NEW q \in Peer, NEW c \in Id PROVE Youngest(known'[q], c, trees'[q].latest[c])
  <2>1. Youngest(known[q], c, trees[q].latest[c])
    BY YoungestIsKnown DEF FederationIInv
  <2>2. CASE q = p
    <3>1. /\ t.latest \in [Id -> Edge \cup {None}] /\ t.pushed \in Nat
          /\ known[p] \in SUBSET Fact
      BY <1>1 DEF FederationIInv, Tree
    <3>2. trees'[q].latest = ApplyEvents(t.latest, evs) /\ known'[q] = known[p] \cup FactsOf(evs)
      BY <1>7, <2>2 DEF After
    <3>3. Youngest(known[p], c, t.latest[c])
      BY <2>1, <2>2
    <3>4. Youngest(known[p] \cup FactsOf(evs), c, ApplyEvents(t.latest, evs)[c])
      BY <3>1, <3>3, CommitKeepsYoungest
    <3> QED
      BY <3>2, <3>4
  <2>3. CASE q # p
    BY <1>7, <2>1, <2>3
  <2> QED
    BY <2>2, <2>3
<1>11. EdgeIsYoungestKnown'
  BY <1>10 DEF EdgeIsYoungestKnown, Youngest
<1> QED
  BY <1>6, <1>9, <1>11 DEF FederationIInv

LEMMA IngestPreserves ==
    ASSUME FederationIInv, NEW p \in Peer, NEW batch \in Writes, Ingest(p, batch)
    PROVE  FederationIInv'
<1> DEFINE evs == EventsOf(trees[p].latest, batch, trees[p].pushed)
<1>1. trees[p].pushed \in Nat /\ TypedRows(batch)
  BY PeersAssumption, SequencesAreTyped DEF FederationIInv, Tree
<1>2. Positioned(evs, trees[p].pushed)
  BY <1>1, IngestedArePositioned
<1>3. Log(p, evs) /\ UNCHANGED <<exports, trims>>
  BY DEF Ingest
<1> QED
  BY <1>2, <1>3, LogPreserves

LEMMA ImportPreserves ==
    ASSUME FederationIInv, NEW p \in Peer, NEW batch \in Seq(Fact), ImportTopology(p, batch)
    PROVE  FederationIInv'
<1> DEFINE evs == MergedEvents(trees[p].log, batch, trees[p].pushed)
<1>1. Positioned(evs, trees[p].pushed)
  BY MergedArePositioned DEF FederationIInv, Tree
<1>2. Log(p, evs) /\ UNCHANGED <<exports, trims>>
  BY DEF ImportTopology
<1> QED
  BY <1>1, <1>2, LogPreserves

LEMMA ExportIsTyped ==
    ASSUME FederationIInv, NEW p \in Peer
    PROVE  LogBatch(trees[p].log) \in Seq(Fact)
BY ExportStatesFacts DEF FederationIInv, SoundPeer, SoundTree, Typed

\* A trim drops events, and says so.
LEMMA TrimPreserves ==
    ASSUME FederationIInv, NEW p \in Peer, NEW ws \in Epoch, TrimLog(p, ws)
    PROVE  FederationIInv'
<1> DEFINE t == trees[p]
           kept == t.log \ Trimmed(t.log, ws)
<1>1. t \in Tree /\ SoundPeer(p)
  BY DEF FederationIInv
<1>2. /\ trees' = [trees EXCEPT ![p].log = kept]
      /\ trims' = [trims EXCEPT ![p] = @ + 1]
      /\ known' = known /\ exports' = exports
  BY DEF TrimLog
<1>3. SoundTree(t.latest, kept, t.pushed)
  BY <1>1, TrimKeepsTree DEF SoundPeer
<1>4. /\ trees'[p] = [t EXCEPT !.log = kept]
      /\ \A q \in Peer \ {p} : trees'[q] = trees[q] /\ trims'[q] = trims[q]
      /\ trims'[p] = trims[p] + 1 /\ trims[p] \in Nat
  BY <1>2 DEF FederationIInv
<1>5. /\ trees'[p].latest = t.latest /\ trees'[p].log = kept /\ trees'[p].pushed = t.pushed
      /\ trees'[p] \in Tree
  BY <1>1, <1>4 DEF Tree
<1>6. trees' \in [Peer -> Tree] /\ trims' \in [Peer -> Nat]
  BY <1>2, <1>5 DEF FederationIInv
<1>7. ASSUME NEW q \in Peer PROVE SoundPeer(q)'
  <2>1. CASE q = p
    <3>1. FactsOf(kept) \subseteq known[p]
      BY <1>1 DEF SoundPeer, FactsOf
    <3>2. trims'[p] # 0
      BY <1>4
    <3> QED
      BY <1>2, <1>3, <1>5, <2>1, <3>1, <3>2 DEF SoundPeer
  <2>2. CASE q # p
    BY <1>2, <1>4, <2>2 DEF FederationIInv, SoundPeer
  <2> QED
    BY <2>1, <2>2
<1>8. \A q \in Peer : trees'[q].latest = trees[q].latest
  BY <1>4, <1>5
<1>9. EdgeIsYoungestKnown'
  BY <1>2, <1>8 DEF FederationIInv, EdgeIsYoungestKnown
<1> QED
  BY <1>2, <1>6, <1>7, <1>9 DEF FederationIInv

LEMMA PeersStepPreserves == FederationIInv /\ [FederationNext]_federationVars => FederationIInv'
<1> SUFFICES ASSUME FederationIInv, [FederationNext]_federationVars PROVE FederationIInv'
  OBVIOUS
<1>1. ASSUME NEW p \in Peer, NEW batch \in Writes, Ingest(p, batch) PROVE FederationIInv'
  BY <1>1, IngestPreserves
<1>2. ASSUME NEW p \in Peer, ExportTopology(p) PROVE FederationIInv'
  <2>1. exports' \subseteq Seq(Fact)
    BY <1>2, ExportIsTyped DEF ExportTopology, FederationIInv
  <2> QED
    BY <1>2, <2>1 DEF ExportTopology, FederationIInv, SoundPeer, EdgeIsYoungestKnown
<1>3. ASSUME NEW p \in Peer, NEW batch \in exports, ImportTopology(p, batch) PROVE FederationIInv'
  <2>1. batch \in Seq(Fact)
    BY <1>3 DEF FederationIInv
  <2> QED
    BY <1>3, <2>1, ImportPreserves
<1>4. ASSUME NEW p \in Peer, NEW q \in Peer, Sync(p, q) PROVE FederationIInv'
  BY <1>4, ExportIsTyped, ImportPreserves DEF Sync
<1>5. ASSUME NEW p \in Peer, NEW ws \in Epoch, TrimLog(p, ws) PROVE FederationIInv'
  BY <1>5, TrimPreserves
<1>6. ASSUME NEW batch \in exports, Lose(batch) PROVE FederationIInv'
  BY <1>6 DEF Lose, FederationIInv, SoundPeer, EdgeIsYoungestKnown
<1>7. CASE UNCHANGED federationVars
  BY <1>7 DEF federationVars, FederationIInv, SoundPeer, EdgeIsYoungestKnown
<1> QED
  BY <1>1, <1>2, <1>3, <1>4, <1>5, <1>6, <1>7 DEF FederationNext

-----------------------------------------------------------------------------
(* The theorems. *)

\* A ledger's edge is one of the youngest things it ever heard of the child, through
\* ingests, imports in any order and number, and trims.
THEOREM EdgesFollowWhatWasHeard == FederationSpec => []EdgeIsYoungestKnown
<1>1. FederationIInv => EdgeIsYoungestKnown
  BY DEF FederationIInv
<1> QED
  BY <1>1, PeersInitEstablish, PeersStepPreserves, PTL DEF FederationSpec

\* What is delivered again to a ledger that has heard it all moves no edge but one whose
\* youngest facts tie, and adds nothing to a log that was never trimmed.
THEOREM RedeliveryIsHarmless == FederationSpec => []RedeliveryMovesNoEdge
<1>1. FederationIInv => RedeliveryMovesNoEdge
  <2>1. SUFFICES ASSUME FederationIInv, NEW p \in Peer, NEW batch \in exports,
                        ToSet(batch) \subseteq known[p],
                        NEW again, again = MergedEvents(trees[p].log, batch, trees[p].pushed)
                 PROVE  /\ trims[p] = 0 => again = {}
                        /\ \A c \in Id :
                              \/ ApplyEvents(trees[p].latest, again)[c] = trees[p].latest[c]
                              \/ \E e \in Of(again, c) :
                                    /\ ApplyEvents(trees[p].latest, again)[c] = EdgeOf(e)
                                    /\ e.epoch = trees[p].latest[c].since
    BY DEF RedeliveryMovesNoEdge
  <2>2. /\ batch \in Seq(Fact) /\ trees[p] \in Tree /\ known[p] \in SUBSET Fact
        /\ \A i \in DOMAIN batch : batch[i] \in known[p]
    BY <2>1 DEF FederationIInv, ToSet
  <2>3. Positioned(again, trees[p].pushed)
    BY <2>1, <2>2, MergedArePositioned DEF Tree
  <2>4. \A e \in again :
           FactOf(e) \in known[p] /\ e.epoch = FactOf(e).epoch /\ FactOf(e).child = e.child
    <3>1. SUFFICES ASSUME NEW e \in again PROVE FactOf(e) \in known[p]
      BY DEF FactOf
    <3> DEFINE fresh == Fresh(trees[p].log, batch)
               position(i) == trees[p].pushed + 1 + Cardinality({j \in fresh : j < i})
               event(i) == [child |-> batch[i].child, parent |-> batch[i].parent,
                            epoch |-> batch[i].epoch, at |-> position(i)]
    <3>2. again = {event(i) : i \in fresh}
      BY <2>1 DEF MergedEvents
    <3> HIDE DEF position
    <3>3. PICK i \in fresh :
            e.child = batch[i].child /\ e.parent = batch[i].parent /\ e.epoch = batch[i].epoch
      BY <3>1, <3>2
    <3>4. i \in DOMAIN batch /\ batch[i] \in Fact /\ batch[i] \in known[p]
      BY <2>2 DEF Fresh
    <3>5. FactOf(e) = batch[i]
      BY <3>3, <3>4 DEF FactOf, Fact
    <3> QED
      BY <3>4, <3>5
  <2>5. trims[p] = 0 => again = {}
    <3>1. SUFFICES ASSUME trims[p] = 0 PROVE Fresh(trees[p].log, batch) = {}
      BY <2>1 DEF MergedEvents
    <3>2. \A f \in known[p] : \E e \in trees[p].log : FactOf(e) = f
      BY <2>1, <3>1 DEF FederationIInv, SoundPeer, FactsOf
    <3> QED
      BY <2>2, <3>2 DEF Fresh
  <2>6. ASSUME NEW c \in Id, Of(again, c) # {}
        PROVE  \/ ApplyEvents(trees[p].latest, again)[c] = trees[p].latest[c]
               \/ \E e \in Of(again, c) :
                     /\ ApplyEvents(trees[p].latest, again)[c] = EdgeOf(e)
                     /\ e.epoch = trees[p].latest[c].since
    <3> DEFINE w == InForce(Of(again, c))
               edge == trees[p].latest[c]
    <3>1. w \in Of(again, c) /\ w \in Event
      BY <2>2, <2>3, <2>6, WinnerOfChild DEF Tree
    <3>2. ApplyEvents(trees[p].latest, again)[c]
             = IF edge = None \/ w.epoch >= edge.since THEN EdgeOf(w) ELSE edge
      BY <2>2, <2>6, <3>1, AppliedEdge DEF Tree
    <3>3. FactOf(w) \in known[p] /\ FactOf(w).child = c /\ w.epoch = FactOf(w).epoch
      BY <2>4, <3>1 DEF Of
    <3>4. Youngest(known[p], c, edge)
      BY <2>1, YoungestIsKnown DEF FederationIInv
    <3> HIDE DEF w, edge
    <3>5. edge # None /\ w.epoch <= edge.since /\ w.epoch \in Nat /\ edge.since \in Nat
      BY <2>2, <3>3, <3>4 DEF Youngest, Fact, Epoch
    <3> QED
      BY <3>1, <3>2, <3>5 DEF edge
  <2>7. ASSUME NEW c \in Id, Of(again, c) = {}
        PROVE  ApplyEvents(trees[p].latest, again)[c] = trees[p].latest[c]
    BY <2>7 DEF ApplyEvents
  <2> QED
    BY <2>5, <2>6, <2>7
<1> QED
  BY <1>1, PeersInitEstablish, PeersStepPreserves, PTL DEF FederationSpec

\* Ledgers that heard the same have the same edge for a child whose youngest facts do
\* not tie, wherever each of them heard it, in which order, and whatever it trimmed.
AgreeWhereNothingTies ==
    \A p, q \in Peer : \A c \in Id :
        LET heard == {f \in known[p] : f.child = c}
        IN  /\ heard = {f \in known[q] : f.child = c}
            /\ \A f, g \in heard : f.epoch = g.epoch => f = g
            => trees[p].latest[c] = trees[q].latest[c]

\* merge_log_batch converges, on the facts that do not tie, without any order of delivery.
THEOREM PeersAgree == FederationSpec => []AgreeWhereNothingTies
<1>1. FederationIInv => AgreeWhereNothingTies
  <2>1. SUFFICES ASSUME FederationIInv, NEW p \in Peer, NEW q \in Peer, NEW c \in Id,
                        {f \in known[p] : f.child = c} = {f \in known[q] : f.child = c},
                        \A f, g \in {f \in known[p] : f.child = c} : f.epoch = g.epoch => f = g
                 PROVE  trees[p].latest[c] = trees[q].latest[c]
    BY DEF AgreeWhereNothingTies
  <2> DEFINE heard == {f \in known[p] : f.child = c}
             e == trees[p].latest[c]
             g == trees[q].latest[c]
  <2>2. /\ e \in Edge \cup {None} /\ g \in Edge \cup {None}
        /\ \A f \in heard : f.epoch \in Nat
    BY <2>1 DEF FederationIInv, Tree, Fact, Epoch
  <2>3. Youngest(known[p], c, e) /\ Youngest(known[q], c, g)
    BY <2>1, YoungestIsKnown DEF FederationIInv
  <2>4. CASE heard # {}
    <3>1. e.since = g.since
      BY <2>1, <2>2, <2>3, <2>4 DEF Youngest
    <3>2. [child |-> c, parent |-> e.parent, epoch |-> e.since]
             = [child |-> c, parent |-> g.parent, epoch |-> g.since]
      BY <2>1, <2>3, <2>4, <3>1 DEF Youngest
    <3>3. e.parent = g.parent
      BY <3>2
    <3> QED
      BY <2>1, <2>2, <2>3, <2>4, <3>1, <3>3 DEF Edge, Youngest
  <2> QED
    BY <2>1, <2>3, <2>4 DEF Youngest
<1> QED
  BY <1>1, PeersInitEstablish, PeersStepPreserves, PTL DEF FederationSpec

-----------------------------------------------------------------------------
(* Names: what a registry holds always mints, an import takes all or       *)
(* nothing, and two registries that can both name an id show the same one. *)

\* A binding that mints its id, kept under an authority in lower case.
MintedBinding(id, binding) ==
    /\ binding.authority \in Text
    /\ Lower[binding.authority] = binding.authority
    /\ ExpectedBindingId(id.kind, binding.authority, binding.name) = {id}

SoundRegistry(registry) ==
    /\ IsFiniteSet(DOMAIN registry)
    /\ \A id \in DOMAIN registry : MintedBinding(id, registry[id])

NamesIInv ==
    /\ names = [l \in Registrar |-> names[l]]
    /\ \A l \in Registrar : SoundRegistry(names[l])
    /\ \A payload \in payloads : IsPayload(payload)

-----------------------------------------------------------------------------
(* Ids, and what binds them. *)

\* A recognised pair is what an id built from it embeds.
LEMMA TableOfPairs ==
    ASSUME NEW pair, Recognised(pair)
    PROVE  pair = [eph |-> pair.eph, orient |-> pair.orient]
BY DEF Recognised, FramePairs, PairAt

\* Lowering the case of an authority that mints an id keeps it minting that id.
LEMMA BoundMints ==
    ASSUME NEW id, NEW authority \in Text, NEW name,
           ExpectedBindingId(id.kind, authority, name) = {id}
    PROVE  MintedBinding(id, Bound(authority, name))
<1>1. /\ Lower[authority] \in Text
      /\ Lower[Lower[authority]] = Lower[authority]
      /\ Lower[authority] \in Unusable <=> authority \in Unusable
  BY NamesAssumption
<1>2. Mint(id.kind, Lower[authority], name) = Mint(id.kind, authority, name)
  BY <1>1 DEF Mint
<1>3. ExpectedBindingId(id.kind, Lower[authority], name) = {id}
  BY <1>2 DEF ExpectedBindingId
<1> QED
  BY <1>1, <1>3 DEF MintedBinding, Bound

\* The name that a minted binding gives is a function of the id, unless the frame has
\* a name of its own.
LEMMA MintedName ==
    ASSUME NEW id, NEW binding, MintedBinding(id, binding)
    PROVE  \/ id.kind = KindAstro /\ Recognised(AstroFrame(id))
           \/ id.kind # KindAstro /\ binding.name = id.body.name
<1>1. CASE id.kind = KindAstro
  <2>1. Astronomical(FramePair(binding.name)) = {id}
    BY <1>1 DEF MintedBinding, ExpectedBindingId, AstronomicalFromName
  <2> DEFINE pair == FramePair(binding.name)
  <2>2. Recognised(pair) /\ id = [kind |-> KindAstro, body |-> pair]
    BY <2>1 DEF Astronomical
  <2>3. id.body = pair
    BY <2>2
  <2>4. AstroFrame(id) = pair
    BY <2>2, <2>3, TableOfPairs DEF AstroFrame
  <2> QED
    BY <1>1, <2>2, <2>4
<1>2. CASE id.kind # KindAstro
  <2>1. Mint(id.kind, binding.authority, binding.name) = {id}
    BY <1>2 DEF MintedBinding, ExpectedBindingId
  <2>2. id = [kind |-> id.kind,
              body |-> [authority |-> Lower[binding.authority], name |-> binding.name]]
    BY <2>1 DEF Mint
  <2>3. id.body = [authority |-> Lower[binding.authority], name |-> binding.name]
    BY <2>2
  <2> QED
    BY <1>2, <2>3
<1> QED
  BY <1>1, <1>2

-----------------------------------------------------------------------------
(* Payloads. *)

\* A set of natural numbers with an upper bound has a greatest element.
LEMMA HasGreatest ==
    ASSUME NEW n \in Nat, NEW S \in SUBSET (1..n), S # {}
    PROVE  \E m \in S : \A s \in S : s <= m
<1> DEFINE T == {n - s : s \in S}
<1>1. \A s \in S : s \in Nat /\ n - s \in Nat
  OBVIOUS
<1>2. T \subseteq Nat /\ T # {} /\ (\A t \in T : \E s \in S : t = n - s) /\ (\A s \in S : n - s \in T)
  BY <1>1
<1> HIDE DEF T
<1>3. PICK t \in T : \A u \in T : ~(<<u, t>> \in OpToRel(<, Nat))
  BY <1>2, NatLessThanWellFounded, WFMin
<1>4. \A u \in T : ~(u < t)
  BY <1>2, <1>3 DEF OpToRel
<1>5. PICK m \in S : t = n - m
  BY <1>2
<1>6. ASSUME NEW s \in S PROVE s <= m
  <2>1. ~(n - s < n - m)
    BY <1>2, <1>4, <1>5
  <2> QED
    BY <1>1, <2>1
<1> QED
  BY <1>6

\* What a union adds is counted by the difference.
LEMMA CountAdded ==
    ASSUME NEW S, IsFiniteSet(S), NEW T, IsFiniteSet(T)
    PROVE  Cardinality(T \ S) = Cardinality(S \cup T) - Cardinality(S)
<1> DEFINE common == Cardinality(S \cap T)
           s == Cardinality(S)
           t == Cardinality(T)
<1>1. s \in Nat /\ t \in Nat
  BY FS_CardinalityType
<1>2. common \in Nat
  BY FS_Intersection, FS_CardinalityType
<1>3. Cardinality(S \cup T) = s + t - common
  BY FS_Union
<1>4. Cardinality(T \ S) = t - common
  <2>1. T \cap S = S \cap T
    OBVIOUS
  <2>2. Cardinality(T \ S) = t - Cardinality(T \cap S)
    BY FS_Difference
  <2> QED
    BY <2>1, <2>2
<1> HIDE DEF common, s, t
<1>5. Cardinality(T \ S) = Cardinality(S \cup T) - s
  BY <1>1, <1>2, <1>3, <1>4
<1> QED
  BY <1>5 DEF s

\* The rows of a payload are finitely many, and one of those that hold an id comes last.
LEMMA PayloadHasLastRows ==
    ASSUME NEW payload, IsPayload(payload)
    PROVE  /\ IsFiniteSet(IdsOf(payload))
           /\ \A id \in IdsOf(payload) :
                \E p \in Places(payload) :
                    /\ RowAt(payload, p).raw.id = id
                    /\ LastRowOf(payload, id) = RowAt(payload, p)
<1> DEFINE D == DOMAIN payload
           rowsOf == [i \in D |-> {i} \X DOMAIN payload[i]]
           P == Places(payload)
<1>1. Len(payload) \in Nat /\ D = 1..Len(payload) /\ IsFiniteSet(D)
  BY FS_Interval DEF IsPayload
<1>2. \A i \in D : Len(payload[i]) \in Nat /\ DOMAIN payload[i] = 1..Len(payload[i])
  BY DEF IsPayload
<1>3. IsFiniteSet(P)
  <2>1. \A i \in D : IsFiniteSet(rowsOf[i])
    <3>1. \A i \in D : IsFiniteSet({i}) /\ IsFiniteSet(DOMAIN payload[i])
      BY <1>2, FS_Singleton, FS_Interval
    <3> QED
      BY <3>1, FS_Product
  <2> DEFINE R == {{i} \X DOMAIN payload[i] : i \in D}
  <2>2. rowsOf \in Surjection(D, R)
    BY DEF Surjection
  <2>3. IsFiniteSet(R)
    BY <1>1, <2>2, FS_Surjection
  <2>4. \A S \in R : IsFiniteSet(S)
    BY <2>1
  <2>5. IsFiniteSet(UNION R)
    BY <2>3, <2>4, FS_UNION
  <2> QED
    BY <2>5 DEF Places
<1>4. IsFiniteSet(IdsOf(payload))
  <2>1. [p \in P |-> RowAt(payload, p).raw.id] \in Surjection(P, IdsOf(payload))
    BY DEF Surjection, IdsOf
  <2> QED
    BY <1>3, <2>1, FS_Surjection
<1>5. ASSUME NEW id \in IdsOf(payload)
      PROVE  \E p \in P : /\ RowAt(payload, p).raw.id = id
                          /\ LastRowOf(payload, id) = RowAt(payload, p)
  <2> DEFINE Q == PlacesOf(payload, id)
             firsts == {p[1] : p \in Q}
  <2>1. /\ Q # {} /\ Q \subseteq P
        /\ \A p \in Q : RowAt(payload, p).raw.id = id
    BY DEF PlacesOf, IdsOf
  <2>2. \A p \in P : p[1] \in D /\ p[2] \in DOMAIN payload[p[1]] /\ p = <<p[1], p[2]>>
    BY DEF Places
  <2>3. firsts \in SUBSET (1..Len(payload)) /\ firsts # {}
    BY <1>1, <2>1, <2>2
  <2>4. PICK i \in firsts : \A k \in firsts : k <= i
    BY <1>1, <2>3, HasGreatest
  <2> DEFINE seconds == {p[2] : p \in {r \in Q : r[1] = i}}
  <2>5. i \in D
    BY <1>1, <2>3, <2>4
  <2>6. seconds \in SUBSET (1..Len(payload[i])) /\ seconds # {}
    BY <1>2, <2>1, <2>2, <2>4, <2>5
  <2>7. PICK j \in seconds : \A k \in seconds : k <= j
    BY <1>2, <2>5, <2>6, HasGreatest
  <2>8. PICK last \in Q : last[1] = i /\ last[2] = j
    BY <2>7
  <2>9. \A q \in Q : q = last \/ ComesBefore(q, last)
    <3>1. SUFFICES ASSUME NEW q \in Q, q # last PROVE ComesBefore(q, last)
      OBVIOUS
    <3>2. q[1] \in firsts /\ (q[1] = i => q[2] \in seconds)
      BY <3>1
    <3> HIDE DEF firsts, seconds
    <3>3. q[1] \in Nat /\ i \in Nat /\ q[1] <= i
      <4>1. \A k \in firsts : k \in Nat
        BY <1>1, <2>3
      <4> QED
        BY <2>4, <3>2, <4>1
    <3>4. q[1] = i => q[2] \in Nat /\ j \in Nat /\ q[2] <= j
      <4>1. \A k \in seconds : k \in Nat
        BY <1>2, <2>5, <2>6
      <4> QED
        BY <2>7, <3>2, <4>1
    <3>5. q[1] = i => q[2] # j
      BY <2>1, <2>2, <2>8, <3>1
    <3> QED
      BY <2>8, <3>3, <3>4, <3>5 DEF ComesBefore
  <2> HIDE DEF Q
  <2>10. PICK p \in Q : LastRowOf(payload, id) = RowAt(payload, p)
    BY <2>9 DEF LastRowOf, Q
  <2> QED
    BY <2>1, <2>10
<1> QED
  BY <1>4, <1>5

-----------------------------------------------------------------------------
(* What the operations do to a registry. *)

\* A payload whose every row was verified leaves a sound registry.
LEMMA AppliedIsSound ==
    ASSUME NEW registry, SoundRegistry(registry), NEW payload, IsPayload(payload),
           \A i \in DOMAIN payload : VerifiedBatch(payload[i])
    PROVE  SoundRegistry(Applied(registry, payload))
<1> DEFINE ids == IdsOf(payload)
           after == Applied(registry, payload)
<1>1. DOMAIN after = DOMAIN registry \cup ids
  BY DEF Applied
<1>2. IsFiniteSet(DOMAIN after)
  <2>1. IsFiniteSet(DOMAIN registry) /\ IsFiniteSet(ids)
    BY PayloadHasLastRows DEF SoundRegistry
  <2> HIDE DEF ids, after
  <2>2. IsFiniteSet(DOMAIN registry \cup ids)
    BY <2>1, FS_Union
  <2> QED
    BY <1>1, <2>2
<1>3. ASSUME NEW id \in ids PROVE MintedBinding(id, after[id])
  <2>1. PICK p \in Places(payload) :
            RowAt(payload, p).raw.id = id /\ LastRowOf(payload, id) = RowAt(payload, p)
    BY <1>3, PayloadHasLastRows
  <2> DEFINE found == RowAt(payload, p)
  <2>2. p[1] \in DOMAIN payload /\ p[2] \in DOMAIN payload[p[1]]
    BY <2>1 DEF Places
  <2>3. Verified(found) /\ found.authority \in Text
    BY <2>2 DEF VerifiedBatch, IsPayload, RowAt
  <2>4. ExpectedBindingId(id.kind, found.authority, found.name) = {id}
    BY <2>1, <2>3 DEF Verified
  <2>5. after[id] = Bound(found.authority, found.name)
    BY <1>3, <2>1 DEF Applied
  <2> QED
    BY <2>3, <2>4, <2>5, BoundMints
<1>4. ASSUME NEW id \in DOMAIN registry, id \notin ids PROVE MintedBinding(id, after[id])
  BY <1>4 DEF Applied, SoundRegistry
<1> QED
  BY <1>1, <1>2, <1>3, <1>4 DEF SoundRegistry

\* A merge verifies before it applies.
LEMMA MergedIsSound ==
    ASSUME NEW registry, SoundRegistry(registry), NEW payload, IsPayload(payload)
    PROVE  SoundRegistry(Merged(registry, payload).names)
BY AppliedIsSound DEF Merged

\* A registry is exported as a payload.
LEMMA ExportIsPayload ==
    ASSUME NEW registry, SoundRegistry(registry)
    PROVE  IsPayload(<<ToBatch(registry)>>)
<1> DEFINE S == DOMAIN registry
           n == Cardinality(S)
           ids == SetToSeq(S)
           batch == ToBatch(registry)
<1>1. n \in Nat /\ ExistsBijection(1..n, S)
  BY FS_CardinalityType DEF SoundRegistry
<1>2. \E f \in [1..n -> S] : IsInjective(f)
  <2>1. PICK f \in Bijection(1..n, S) : TRUE
    BY <1>1 DEF ExistsBijection
  <2>2. f \in [1..n -> S] /\ IsInjective(f)
    BY <2>1 DEF Bijection, Injection, IsInjective
  <2> QED
    BY <2>2
<1>3. ids \in [1..n -> S]
  BY <1>2 DEF SetToSeq
<1> HIDE DEF n, ids, S
<1>4. batch = [i \in DOMAIN ids |->
          RegistryRow(ids[i], registry[ids[i]].authority, registry[ids[i]].name, ids[i].kind)]
  BY DEF ToBatch, ids, S
<1>5. DOMAIN batch = 1..n /\ Len(batch) = n
  BY <1>1, <1>3, <1>4
<1>6. \A i \in 1..n : batch[i].authority \in Text
  BY <1>3, <1>4, <1>5 DEF RegistryRow, SoundRegistry, MintedBinding, S
<1> HIDE DEF batch
<1>7. /\ Len(<<batch>>) = 1 /\ DOMAIN <<batch>> = 1..1 /\ <<batch>>[1] = batch
  OBVIOUS
<1>8. IsPayload(<<batch>>)
  BY <1>1, <1>5, <1>6, <1>7 DEF IsPayload
<1> QED
  BY <1>8 DEF batch

LEMMA NamesInitEstablishes == NamesInit => NamesIInv
<1> SUFFICES ASSUME NamesInit PROVE NamesIInv
  OBVIOUS
<1>1. \A l \in Registrar : names[l] = <<>>
  BY DEF NamesInit
<1>2. DOMAIN <<>> = {}
  OBVIOUS
<1>3. SoundRegistry(<<>>)
  BY <1>2, FS_EmptySet DEF SoundRegistry
<1> QED
  BY <1>1, <1>3 DEF NamesInit, NamesIInv

LEMMA NamesStepPreserves == NamesIInv /\ [NamesNext]_namesVars => NamesIInv'
<1> SUFFICES ASSUME NamesIInv, [NamesNext]_namesVars PROVE NamesIInv'
  OBVIOUS
<1> USE DEF NamesIInv
<1>1. ASSUME NEW l \in Registrar, NEW c \in Claims, RegisterName(l, c.id, c.authority, c.name)
      PROVE  NamesIInv'
  <2> DEFINE r == names[l]
             s == names'[l]
  <2>1. s = [i \in DOMAIN r \cup {c.id} |->
                IF i = c.id THEN Bound(c.authority, c.name) ELSE r[i]]
    BY <1>1 DEF RegisterName
  <2>2. MintedBinding(c.id, Bound(c.authority, c.name))
    BY <1>1, BoundMints, NamesAssumption DEF RegisterName
  <2>3. SoundRegistry(r)
    OBVIOUS
  <2>4. IsFiniteSet(DOMAIN s)
    <3>1. IsFiniteSet(DOMAIN r) /\ IsFiniteSet({c.id})
      BY <2>3, FS_Singleton DEF SoundRegistry
    <3>2. DOMAIN s = DOMAIN r \cup {c.id}
      BY <2>1
    <3> HIDE DEF r, s
    <3> QED
      BY <3>1, <3>2, FS_Union, ZenonT(30)
  <2>5. SoundRegistry(s)
    BY <2>1, <2>2, <2>3, <2>4 DEF SoundRegistry
  <2>6. /\ \A k \in Registrar \ {l} : names'[k] = names[k]
        /\ names' = [k \in Registrar |-> names'[k]]
        /\ payloads' = payloads
    BY <1>1 DEF RegisterName
  <2> QED
    BY <2>5, <2>6
<1>2. ASSUME NEW l \in Registrar, ExportNames(l)
      PROVE  NamesIInv'
  BY <1>2, ExportIsPayload DEF ExportNames
<1>3. ASSUME NEW l \in Registrar, NEW payload \in payloads \cup Forged, ImportNames(l, payload)
      PROVE  NamesIInv'
  <2>1. IsPayload(payload)
    BY NamesAssumption
  <2>2. names'[l] = Merged(names[l], payload).names
    BY <1>3 DEF ImportNames
  <2>3. SoundRegistry(names'[l])
    BY <2>1, <2>2, MergedIsSound
  <2>4. /\ \A k \in Registrar \ {l} : names'[k] = names[k]
        /\ names' = [k \in Registrar |-> names'[k]]
        /\ payloads' = payloads
    BY <1>3 DEF ImportNames
  <2> QED
    BY <2>3, <2>4
<1>4. CASE UNCHANGED namesVars
  BY <1>4 DEF namesVars
<1> QED
  BY <1>1, <1>2, <1>3, <1>4 DEF NamesNext

-----------------------------------------------------------------------------
(* The theorems. *)

\* Whatever producers claim and peers or forgers send, a registry binds ids to names
\* that mint them, under an authority in lower case.
THEOREM OnlyMintedNames == NamesSpec => []BindingsMint
<1>1. NamesIInv => BindingsMint
  BY DEF NamesIInv, BindingsMint, SoundRegistry, MintedBinding
<1> QED
  BY <1>1, NamesInitEstablishes, NamesStepPreserves, PTL DEF NamesSpec

\* Ledgers that can both name an id show the same name for it.
THEOREM NamesAgree == NamesSpec => []DisplaysAgree
<1>1. NamesIInv => DisplaysAgree
  <2>1. SUFFICES ASSUME NamesIInv, NEW k \in Registrar, NEW l \in Registrar,
                        NEW id \in DOMAIN names[k] \cap DOMAIN names[l]
                 PROVE  Display(names[k], id) = Display(names[l], id)
    BY DEF DisplaysAgree
  <2>2. MintedBinding(id, names[k][id]) /\ MintedBinding(id, names[l][id])
    BY <2>1 DEF NamesIInv, SoundRegistry
  <2>3. CASE id.kind = KindAstro /\ Recognised(AstroFrame(id))
    BY <2>3 DEF Display
  <2>4. CASE id.kind # KindAstro
    <3>1. names[k][id].name = names[l][id].name
      BY <2>2, <2>4, MintedName
    <3> QED
      BY <2>4, <3>1 DEF Display
  <2> QED
    BY <2>2, <2>3, <2>4, MintedName
<1> QED
  BY <1>1, NamesInitEstablishes, NamesStepPreserves, PTL DEF NamesSpec

\* An import binds every id of its payload and counts the new ones, or changes nothing.
THEOREM ImportsAreAllOrNothing == NamesSpec => ImportIsAllOrNothing
<1> DEFINE Answered(l, payload) ==
               IF learned' = {} THEN names' = names
               ELSE /\ IdsOf(payload) \subseteq DOMAIN names'[l]
                    /\ learned' = {Cardinality(DOMAIN names'[l]) - Cardinality(DOMAIN names[l])}
           Step == \A l \in Registrar, payload \in payloads \cup Forged :
                       ImportNames(l, payload) => Answered(l, payload)
<1>1. ASSUME NamesIInv, NEW l \in Registrar, NEW payload \in payloads \cup Forged,
             ImportNames(l, payload)
      PROVE  Answered(l, payload)
  <2> DEFINE r == names[l]
             ids == IdsOf(payload)
  <2>1. IsPayload(payload) /\ SoundRegistry(r)
    BY <1>1, NamesAssumption DEF NamesIInv
  <2>2. /\ names'[l] = Merged(r, payload).names
        /\ learned' = Merged(r, payload).learned
        /\ names' = [names EXCEPT ![l] = Merged(r, payload).names]
    BY <1>1 DEF ImportNames, NamesIInv
  <2>3. CASE \A i \in DOMAIN payload : VerifiedBatch(payload[i])
    <3>1. names'[l] = Applied(r, payload) /\ learned' = {CountLearned(r, payload)}
      BY <2>2, <2>3 DEF Merged
    <3>2. DOMAIN names'[l] = DOMAIN r \cup ids
      BY <3>1 DEF Applied
    <3>3. IsFiniteSet(ids) /\ IsFiniteSet(DOMAIN r)
      BY <2>1, PayloadHasLastRows DEF SoundRegistry
    <3>4. CountLearned(r, payload) = Cardinality(DOMAIN r \cup ids) - Cardinality(DOMAIN r)
      BY <3>3, CountAdded DEF CountLearned
    <3>5. learned' # {}
      BY <3>1
    <3> QED
      BY <3>1, <3>2, <3>4, <3>5
  <2>4. CASE ~ \A i \in DOMAIN payload : VerifiedBatch(payload[i])
    <3>1. Merged(r, payload).names = r /\ Merged(r, payload).learned = {}
      BY <2>4 DEF Merged
    <3>2. names' = names
      BY <1>1, <2>2, <3>1 DEF NamesIInv
    <3> QED
      BY <2>2, <3>1, <3>2
  <2> QED
    BY <2>3, <2>4
<1>2. NamesIInv /\ [NamesNext]_namesVars => [Step]_namesVars
  BY <1>1
<1>3. [][Step]_namesVars <=> ImportIsAllOrNothing
  BY DEF ImportIsAllOrNothing
<1> QED
  BY <1>2, <1>3, NamesInitEstablishes, NamesStepPreserves, PTL DEF NamesSpec

-----------------------------------------------------------------------------
(* Ephemeris: what the almanac is asked is answered as a whole. *)

(* The table of frames. *)

LEMMA BodiesAreRecognised == \A naif \in CelestialBodies : Recognised(EntityId(naif))
<1>1. \A i \in 15..24 : PairAt(i) \in FramePairs
  BY DEF FramePairs, FrameRows, ASTRO_FRAMES
<1>2. /\ PairAt(15) = EntityId(10) /\ PairAt(16) = EntityId(199) /\ PairAt(17) = EntityId(299)
      /\ PairAt(18) = EntityId(399) /\ PairAt(19) = EntityId(301)
  BY DEF PairAt, ASTRO_FRAMES, FixedFrame, EntityId, BodyFixed
<1>3. /\ PairAt(20) = EntityId(499) /\ PairAt(21) = EntityId(599) /\ PairAt(22) = EntityId(699)
      /\ PairAt(23) = EntityId(799) /\ PairAt(24) = EntityId(899)
  BY DEF PairAt, ASTRO_FRAMES, FixedFrame, EntityId, BodyFixed
<1> QED
  BY <1>1, <1>2, <1>3 DEF CelestialBodies, Recognised

\* The planet of a moon goes around the Sun.
IsMoon(naif) == naif \in 100..999 /\ (naif % 100) # 99 /\ (naif % 100) # 0

LEMMA PlanetsGoAroundTheSun ==
    ASSUME NEW naif, IsMoon(naif), NEW centre \in PlanetOf(naif)
    PROVE  centre.eph # naif /\ DefaultCentre(centre) = {SunId}
<1> DEFINE planet == (naif \div 100) * 100 + 99
<1>1. centre.eph = planet
  <2> DEFINE kinds == <<BodyFixed(planet), [eph |-> planet, orient |-> 1]>>
  <2> HIDE DEF planet
  <2>1. kinds[1].eph = planet /\ kinds[2].eph = planet
    BY DEF BodyFixed
  <2>2. \E k \in 1..2 : centre = kinds[k]
    BY DEF PlanetOf, planet
  <2> QED
    BY <2>1, <2>2
<1>2. planet \in 100..999 /\ (planet % 100) = 99
  BY DEF IsMoon
<1>3. planet # naif /\ planet \notin 1..9
  BY <1>2 DEF IsMoon
<1> HIDE DEF planet
<1> QED
  BY <1>1, <1>2, <1>3 DEF DefaultCentre

LEMMA CentresLead == CentresLeadToTheSun
<1>1. ASSUME NEW pair \in FramePairs, DefaultCentre(pair) # {}
      PROVE  \E centre \in DefaultCentre(pair) :
                /\ centre.eph # pair.eph
                /\ centre = SunId \/ DefaultCentre(centre) = {SunId}
  <2> DEFINE naif == pair.eph
  <2>0. SunId.eph = 10
    BY DEF SunId, EntityId, BodyFixed
  <2>1. CASE naif \in 1..9 \/ (naif \in 100..999 /\ (naif % 100) = 99)
    <3>1. DefaultCentre(pair) = {SunId}
      BY <2>1 DEF DefaultCentre
    <3>2. naif # 10
      BY <2>1
    <3> QED
      BY <2>0, <3>1, <3>2
  <2>2. CASE ~(naif \in 1..9 \/ (naif \in 100..999 /\ (naif % 100) = 99))
    <3>1. IsMoon(naif) /\ DefaultCentre(pair) = PlanetOf(naif)
      BY <1>1, <2>2 DEF DefaultCentre, IsMoon
    <3>2. PICK centre \in PlanetOf(naif) : TRUE
      BY <1>1, <3>1
    <3> HIDE DEF naif
    <3>3. centre.eph # naif /\ DefaultCentre(centre) = {SunId}
      BY <3>1, PlanetsGoAroundTheSun
    <3> QED
      BY <3>1, <3>3 DEF naif
  <2> QED
    BY <2>1, <2>2
<1> QED
  BY <1>1, BodiesAreRecognised DEF CentresLeadToTheSun

\* Positions are counted from the barycentre.
LEMMA SsbIsOrigin == SsbFrame.eph = 0
<1> DEFINE named == {i \in FrameRows : NameAt(i) = "SSB"}
<1>1. /\ DOMAIN ASTRO_FRAMES = 1..Len(ASTRO_FRAMES) /\ Len(ASTRO_FRAMES) \in Nat /\ Len(ASTRO_FRAMES) >= 3
  BY DEF ASTRO_FRAMES
<1>2. NameAt(1) = "ICRF" /\ NameAt(2) = "J2000" /\ NameAt(3) = "SSB" /\ PairAt(3).eph = 0
  BY DEF NameAt, PairAt, ASTRO_FRAMES, InertialFrame
<1>3. named \in SUBSET (1..Len(ASTRO_FRAMES)) /\ 3 \in named /\ 1 \notin named /\ 2 \notin named
  BY <1>1, <1>2 DEF FrameRows
<1>4. \A i \in named : 3 <= i
  BY <1>1, <1>3
<1> HIDE DEF named
<1>5. \A i \in named : i \in Int
  BY <1>1, <1>3
<1>6. TopRow(named) = 3
  <2>1. \E i \in named : \A j \in named : i <= j
    BY <1>3, <1>4
  <2>2. TopRow(named) \in named /\ \A j \in named : TopRow(named) <= j
    BY <2>1 DEF TopRow
  <2> DEFINE first == TopRow(named)
  <2>3. first \in Int /\ 3 <= first /\ first <= 3
    BY <1>3, <1>4, <1>5, <2>2
  <2> HIDE DEF first
  <2>4. first = 3
    BY <2>3
  <2> QED
    BY <2>4 DEF first
<1> QED
  BY <1>2, <1>6 DEF SsbFrame, FramePair, named

(* Ids. *)

LEMMA MintedOnce ==
    ASSUME NEW wire, MintWire(wire) # {}
    PROVE  MintWire(wire) = {CHOOSE id \in MintWire(wire) : TRUE}
<1>1. \E id : MintWire(wire) = {id}
  BY DEF MintWire, Mint, Astronomical, FromBytes
<1>2. PICK x : MintWire(wire) = {x}
  BY <1>1
<1>3. (CHOOSE id \in MintWire(wire) : TRUE) \in MintWire(wire)
  BY <1>2
<1> QED
  BY <1>2, <1>3

LEMMA AllMinted ==
    ASSUME NEW wires, IsList(wires), NEW ids \in MintAll(wires)
    PROVE  /\ IsList(ids) /\ Len(ids) = Len(wires) /\ DOMAIN ids = DOMAIN wires
           /\ \A i \in DOMAIN wires : MintWire(wires[i]) = {ids[i]}
<1>1. /\ \A i \in DOMAIN wires : MintWire(wires[i]) # {}
      /\ ids = [i \in DOMAIN wires |-> CHOOSE id \in MintWire(wires[i]) : TRUE]
  BY DEF MintAll, Minted
<1>2. Len(wires) \in Nat /\ DOMAIN wires = 1..Len(wires)
  BY ListIs
<1>3. IsList(ids) /\ Len(ids) = Len(wires)
  <2> DEFINE n == Len(wires)
  <2>1. n \in Nat /\ ids = [i \in 1..n |-> ids[i]]
    BY <1>1, <1>2
  <2> HIDE DEF n
  <2>2. IsList(ids) /\ Len(ids) = n
    BY <2>1, Tabulated
  <2> QED
    BY <2>2 DEF n
<1>4. \A i \in DOMAIN wires : MintWire(wires[i]) = {ids[i]}
  BY <1>1, MintedOnce
<1> QED
  BY <1>1, <1>3, <1>4

(* Snapshots. *)

LEMMA SameCount ==
    ASSUME NEW m \in Nat, NEW n \in Nat, 1..m = 1..n
    PROVE  m = n
<1>1. m \in 1..m => m <= n
  OBVIOUS
<1>2. n \in 1..n => n <= m
  OBVIOUS
<1> QED
  BY <1>1, <1>2

Whole(body, batch) ==
    /\ Len(batch.rows) = Len(body.bodies)
    /\ \A k \in DOMAIN body.bodies :
          LET id == Value(batch, k, "entity_id")
              position == [from |-> AstroFrame(id).eph, to |-> 0, at |-> body.epoch_tai_s]
          IN  /\ MintWire(body.bodies[k]) = {id}
              /\ Sts(batch, k, "frame_id") = IcrfId
              /\ Sts(batch, k, "position") = position
              /\ Value(batch, k, "velocity").rate = position
              /\ Value(batch, k, "mass_kg") = [gm |-> AstroFrame(id).eph]
              /\ Sts(batch, k, "duration_ns") = Part("ns", body.epoch_tai_s)

\* The state of a body is its own.
LEMMA StateIsItsOwn ==
    ASSUME NEW loaded, NEW id, NEW t, NEW state \in CelestialState(loaded, id, t)
    PROVE  LET position == [from |-> AstroFrame(id).eph, to |-> 0, at |-> t]
           IN  /\ state.position_km = position /\ state.velocity_m_s.rate = position
               /\ state.mass_kg = [gm |-> AstroFrame(id).eph]
<1> DEFINE frame == AstroFrame(id)
<1>1. PICK r \in Translate(loaded, frame, SsbFrame, t), o \in Rotate(loaded, frame, SsbFrame, t),
           g \in Gm(loaded, frame) :
        state = [position_km |-> r, velocity_m_s |-> [rate |-> r, per |-> "m/s"], orientation |-> o,
                 angular_velocity_rad_s |-> Spin(frame, t), mass_kg |-> g]
  BY DEF CelestialState
<1> HIDE DEF frame
<1>2. r = [from |-> frame.eph, to |-> 0, at |-> t]
  BY SsbIsOrigin DEF Translate
<1>3. g = [gm |-> frame.eph]
  BY DEF Gm
<1>4. state.position_km = r /\ state.velocity_m_s.rate = r /\ state.mass_kg = g
  BY <1>1
<1> QED
  BY <1>2, <1>3, <1>4 DEF frame

LEMMA RowIsMeasured ==
    ASSUME NEW loaded, NEW id, NEW t
    PROVE  LET row1 == SnapshotRow(loaded, id, t)
               state == CHOOSE s \in CelestialState(loaded, id, t) : TRUE
           IN  /\ IsMeasured(row1)
               /\ row1.entity_id = id /\ row1["velocity"] = state.velocity_m_s /\ row1["mass_kg"] = state.mass_kg
               /\ PoseValue(row1, "frame_id") = IcrfId
               /\ PoseValue(row1, "position") = state.position_km
               /\ PoseValue(row1, "duration_ns") = Part("ns", t)
<1> DEFINE state == CHOOSE s \in CelestialState(loaded, id, t) : TRUE
           row1 == SnapshotRow(loaded, id, t)
<1> HIDE DEF state
<1>1. /\ DOMAIN row1 = (StsColumns \ Covariances) \cup EntityColumns
      /\ row1.entity_id = id /\ row1["velocity"] = state.velocity_m_s /\ row1["mass_kg"] = state.mass_kg
      /\ row1["frame_id"] = IcrfId /\ row1["position"] = state.position_km
      /\ row1["duration_ns"] = Part("ns", t)
  BY DEF SnapshotRow, state, StsColumns, EntityColumns, Covariances
<1> HIDE DEF row1
<1>2. /\ PoseValue(row1, "frame_id") = row1["frame_id"]
      /\ PoseValue(row1, "position") = row1["position"]
      /\ PoseValue(row1, "duration_ns") = row1["duration_ns"]
  BY DEF PoseValue, Covariances, StsValue
<1> QED
  BY <1>1, <1>2 DEF IsMeasured, row1, state

LEMMA SnapshotsAreWhole ==
    ASSUME NEW loaded, NEW body \in AppendSnapshotBody, NEW ids \in MintAll(body.bodies),
           NEW batch \in CelestialSnapshot(loaded, ids, body.epoch_tai_s)
    PROVE  Whole(body, batch)
<1> DEFINE t == body.epoch_tai_s
           wires == body.bodies
           ms == [k \in DOMAIN ids |-> SnapshotRow(loaded, ids[k], t)]
<1>1. IsList(wires)
  BY EphemerisAssumption DEF AppendSnapshotBody
<1> HIDE DEF wires, t
<1>2. /\ IsList(ids) /\ Len(ids) = Len(wires) /\ DOMAIN ids = DOMAIN wires
      /\ \A i \in DOMAIN wires : MintWire(wires[i]) = {ids[i]}
  BY <1>1, AllMinted DEF wires
<1>3. /\ \A k \in DOMAIN ids : CelestialState(loaded, ids[k], t) # {}
      /\ batch = Built(ms)
  BY DEF CelestialSnapshot, t
<1>4. DOMAIN ids = 1..Len(ids) /\ Len(ids) \in Nat
  BY <1>2, ListIs
<1>5. DOMAIN ms = DOMAIN ids /\ \A k \in DOMAIN ids : ms[k] = SnapshotRow(loaded, ids[k], t)
  OBVIOUS
<1>6. IsList(ms) /\ Len(ms) = Len(ids)
  <2> DEFINE n == Len(ids)
  <2>1. n \in Nat /\ ms = [k \in 1..n |-> ms[k]]
    BY <1>4
  <2> HIDE DEF n, ms
  <2>2. IsList(ms) /\ Len(ms) = n
    BY <2>1, Tabulated
  <2> QED
    BY <2>2 DEF n
<1> HIDE DEF ms
<1>7. \A q \in DOMAIN ms : IsMeasured(ms[q])
  BY <1>5, RowIsMeasured
<1>8. ASSUME NEW k \in DOMAIN wires
      PROVE  LET id == Value(batch, k, "entity_id")
                 position == [from |-> AstroFrame(id).eph, to |-> 0, at |-> t]
             IN  /\ MintWire(wires[k]) = {id}
                 /\ Sts(batch, k, "frame_id") = IcrfId
                 /\ Sts(batch, k, "position") = position
                 /\ Value(batch, k, "velocity").rate = position
                 /\ Value(batch, k, "mass_kg") = [gm |-> AstroFrame(id).eph]
                 /\ Sts(batch, k, "duration_ns") = Part("ns", t)
  <2> DEFINE state == CHOOSE s \in CelestialState(loaded, ids[k], t) : TRUE
             position == [from |-> AstroFrame(ids[k]).eph, to |-> 0, at |-> t]
  <2>1. k \in DOMAIN ms
    BY <1>2, <1>5
  <2>2. /\ Built(ms).schema = EntitySchema /\ DOMAIN Built(ms).rows = DOMAIN ms
        /\ \A column \in EntityColumns : Value(Built(ms), k, column) = ms[k][column]
        /\ \A column \in StsColumns : Sts(Built(ms), k, column) = PoseValue(ms[k], column)
    BY <1>6, <1>7, <2>1, BuiltRow
  <2>3. /\ Value(batch, k, "entity_id") = ms[k]["entity_id"] /\ Value(batch, k, "velocity") = ms[k]["velocity"]
        /\ Value(batch, k, "mass_kg") = ms[k]["mass_kg"]
        /\ Sts(batch, k, "frame_id") = PoseValue(ms[k], "frame_id")
        /\ Sts(batch, k, "position") = PoseValue(ms[k], "position")
        /\ Sts(batch, k, "duration_ns") = PoseValue(ms[k], "duration_ns")
    BY <1>3, <2>2 DEF EntityColumns, StsColumns
  <2>4. state \in CelestialState(loaded, ids[k], t)
    BY <1>2, <1>3
  <2> HIDE DEF state
  <2>5. state.position_km = position /\ state.velocity_m_s.rate = position
        /\ state.mass_kg = [gm |-> AstroFrame(ids[k]).eph]
    BY <2>4, StateIsItsOwn
  <2> HIDE DEF position
  <2>6. ms[k] = SnapshotRow(loaded, ids[k], t)
    BY <1>2, <1>5
  <2>7. /\ ms[k]["entity_id"] = ids[k] /\ ms[k]["velocity"] = state.velocity_m_s
        /\ ms[k]["mass_kg"] = state.mass_kg
        /\ PoseValue(ms[k], "frame_id") = IcrfId
        /\ PoseValue(ms[k], "position") = state.position_km
        /\ PoseValue(ms[k], "duration_ns") = Part("ns", t)
    BY <2>6, RowIsMeasured DEF state
  <2>8. Value(batch, k, "entity_id") = ids[k] /\ MintWire(wires[k]) = {ids[k]}
    BY <1>2, <2>3, <2>7
  <2> QED
    BY <2>3, <2>5, <2>7, <2>8 DEF position
<1>9. Len(batch.rows) = Len(wires)
  <2>1. batch.schema = EntitySchema /\ IsList(batch.rows) /\ DOMAIN batch.rows = DOMAIN ms
    BY <1>3, <1>6, <1>7, BuiltReads
  <2>2. /\ Len(batch.rows) \in Nat /\ DOMAIN batch.rows = 1..Len(batch.rows)
        /\ Len(ms) \in Nat /\ DOMAIN ms = 1..Len(ms)
    BY <1>6, <2>1, ListIs
  <2> DEFINE m == Len(batch.rows)
             n == Len(ms)
  <2>3. m \in Nat /\ n \in Nat /\ 1..m = 1..n
    BY <2>1, <2>2
  <2> HIDE DEF m, n
  <2>4. m = n
    BY <2>3, SameCount
  <2> QED
    BY <1>2, <1>6, <2>4 DEF m, n
<1> QED
  BY <1>8, <1>9 DEF Whole, wires, t

(* Orbits. *)

LEMMA OrbitPlaces ==
    /\ IsList(OrbitSchema) /\ DOMAIN OrbitSchema = 1..13
    /\ IndexOf(OrbitSchema, "body_id") = 1 /\ IndexOf(OrbitSchema, "centre_id") = 2
    /\ IndexOf(OrbitSchema, "sma_km") = 5 /\ IndexOf(OrbitSchema, "ecc") = 6
    /\ IndexOf(OrbitSchema, "inc_deg") = 7 /\ IndexOf(OrbitSchema, "raan_deg") = 8
    /\ IndexOf(OrbitSchema, "aop_deg") = 9 /\ IndexOf(OrbitSchema, "ta_deg") = 10
    /\ IndexOf(OrbitSchema, "period_s") = 11 /\ IndexOf(OrbitSchema, "path_dt_s") = 12
    /\ IndexOf(OrbitSchema, "path_km") = 13
<1>1. /\ DOMAIN OrbitSchema = 1..13 /\ Len(OrbitSchema) = 13
      /\ OrbitSchema = [i \in 1..13 |-> OrbitSchema[i]]
  BY DEF OrbitSchema
<1>2. IsList(OrbitSchema)
  BY <1>1 DEF IsList
<1>3. /\ OrbitSchema[1].name = "body_id" /\ OrbitSchema[2].name = "centre_id"
      /\ OrbitSchema[3].name = "duration_centuries" /\ OrbitSchema[4].name = "duration_ns"
      /\ OrbitSchema[5].name = "sma_km" /\ OrbitSchema[6].name = "ecc"
  BY DEF OrbitSchema, IdField, Field
<1>4. /\ OrbitSchema[7].name = "inc_deg" /\ OrbitSchema[8].name = "raan_deg"
      /\ OrbitSchema[9].name = "aop_deg" /\ OrbitSchema[10].name = "ta_deg"
      /\ OrbitSchema[11].name = "period_s" /\ OrbitSchema[12].name = "path_dt_s"
      /\ OrbitSchema[13].name = "path_km"
  BY DEF OrbitSchema, Field
<1>5. \A i \in 1..13 : i \in {1, 2, 3, 4, 5, 6, 7, 8, 9, 10, 11, 12, 13}
  OBVIOUS
<1> HIDE DEF OrbitSchema
<1>6. \A i, j \in 1..13 : OrbitSchema[i].name = OrbitSchema[j].name => i = j
  BY <1>3, <1>4, <1>5
<1>7. ASSUME NEW i \in 1..13 PROVE IndexOf(OrbitSchema, OrbitSchema[i].name) = i
  <2>1. \A j \in 1..(i - 1) : j \in 1..13 /\ j # i
    OBVIOUS
  <2>2. \A j \in 1..(i - 1) : OrbitSchema[j].name # OrbitSchema[i].name
    BY <1>6, <2>1
  <2> QED
    BY <1>1, <1>2, <2>2, IndexUnique
<1>8. /\ 1 \in 1..13 /\ 2 \in 1..13 /\ 5 \in 1..13 /\ 6 \in 1..13 /\ 7 \in 1..13 /\ 8 \in 1..13
      /\ 9 \in 1..13 /\ 10 \in 1..13 /\ 11 \in 1..13 /\ 12 \in 1..13 /\ 13 \in 1..13
  OBVIOUS
<1>9. /\ IndexOf(OrbitSchema, "body_id") = 1 /\ IndexOf(OrbitSchema, "centre_id") = 2
      /\ IndexOf(OrbitSchema, "sma_km") = 5 /\ IndexOf(OrbitSchema, "ecc") = 6
  BY <1>3, <1>7, <1>8
<1>10. /\ IndexOf(OrbitSchema, "inc_deg") = 7 /\ IndexOf(OrbitSchema, "raan_deg") = 8
       /\ IndexOf(OrbitSchema, "aop_deg") = 9 /\ IndexOf(OrbitSchema, "ta_deg") = 10
       /\ IndexOf(OrbitSchema, "period_s") = 11 /\ IndexOf(OrbitSchema, "path_dt_s") = 12
       /\ IndexOf(OrbitSchema, "path_km") = 13
  BY <1>4, <1>7, <1>8
<1> QED
  BY <1>1, <1>2, <1>9, <1>10

\* The columns of an orbit's row, by name.
ReadsAs(batch, k, orbit) ==
    /\ Value(batch, k, "body_id") = orbit.body /\ Value(batch, k, "centre_id") = orbit.centre
    /\ Value(batch, k, "path_dt_s") = orbit.path_dt_s /\ Value(batch, k, "path_km") = orbit.path_km
    /\ \A e \in Elements : Value(batch, k, e) = orbit.elements[e]

LEMMA OrbitReads ==
    ASSUME NEW batch, batch.schema = OrbitSchema, NEW k, NEW orbit, batch.rows[k] = OrbitRow(orbit)
    PROVE  ReadsAs(batch, k, orbit)
<1> DEFINE columns == OrbitRow(orbit)
<1>1. /\ columns[1] = orbit.body /\ columns[2] = orbit.centre /\ columns[12] = orbit.path_dt_s
      /\ columns[13] = orbit.path_km
  BY DEF OrbitRow
<1>2. /\ columns[5] = orbit.elements["sma_km"] /\ columns[6] = orbit.elements["ecc"]
      /\ columns[7] = orbit.elements["inc_deg"] /\ columns[8] = orbit.elements["raan_deg"]
      /\ columns[9] = orbit.elements["aop_deg"] /\ columns[10] = orbit.elements["ta_deg"]
      /\ columns[11] = orbit.elements["period_s"]
  BY DEF OrbitRow
<1> HIDE DEF columns
<1>3. \A name : Value(batch, k, name) = columns[IndexOf(OrbitSchema, name)]
  BY DEF Value, columns
<1>4. /\ Value(batch, k, "body_id") = orbit.body /\ Value(batch, k, "centre_id") = orbit.centre
      /\ Value(batch, k, "path_dt_s") = orbit.path_dt_s /\ Value(batch, k, "path_km") = orbit.path_km
  BY <1>1, <1>3, OrbitPlaces
<1>5. /\ Value(batch, k, "sma_km") = orbit.elements["sma_km"] /\ Value(batch, k, "ecc") = orbit.elements["ecc"]
      /\ Value(batch, k, "inc_deg") = orbit.elements["inc_deg"]
      /\ Value(batch, k, "raan_deg") = orbit.elements["raan_deg"]
      /\ Value(batch, k, "aop_deg") = orbit.elements["aop_deg"]
      /\ Value(batch, k, "ta_deg") = orbit.elements["ta_deg"]
      /\ Value(batch, k, "period_s") = orbit.elements["period_s"]
  BY <1>2, <1>3, OrbitPlaces
<1>6. \A e \in Elements : Value(batch, k, e) = orbit.elements[e]
  BY <1>5 DEF Elements
<1> QED
  BY <1>4, <1>6 DEF ReadsAs

(* Paths. *)

LEMMA ExactShare ==
    ASSUME NEW m \in Nat, m > 0, NEW x \in Int
    PROVE  (m * x) \div m = x
OBVIOUS

LEMMA Shares ==
    ASSUME NEW p \in Int, NEW m \in Nat, m > 0, (p % m) = 0
    PROVE  \E q \in Int : p = m * q
<1>1. p = m * (p \div m) + (p % m) /\ p \div m \in Int
  OBVIOUS
<1> QED
  BY <1>1

\* A path whose steps divide the period runs from half a period before to half a period after.
LEMMA PathSpans ==
    ASSUME NEW body, NEW samples \in Nat, samples >= 2, Period[body] \in Int,
           (Period[body] % (2 * (samples - 1))) = 0
    PROVE  LET times == PathTimes(body, samples)
               period == Period[body]
           IN  /\ IsList(times) /\ Len(times) = samples
               /\ times[1] = -(period \div 2) /\ times[samples] = period \div 2
               /\ \A i \in 1..(samples - 1) : (times[i + 1] - times[i]) * (samples - 1) = period
<1> DEFINE times == PathTimes(body, samples)
           p == Period[body]
           steps == samples - 1
           m == 2 * steps
<1>1. steps \in Nat /\ steps >= 1 /\ m \in Nat /\ m > 0 /\ samples = steps + 1 /\ p \in Int /\ (p % m) = 0
  OBVIOUS
<1>2. /\ times = [i \in 1..samples |-> times[i]]
      /\ \A i \in 1..samples : times[i] = (p * (2 * (i - 1) - steps)) \div m
  BY DEF PathTimes
<1>3. IsList(times) /\ Len(times) = samples
  <2> HIDE DEF times
  <2> QED
    BY <1>2, Tabulated
<1> HIDE DEF p, times
<1>4. m = 2 * steps
  OBVIOUS
<1> HIDE DEF m
<1>5. PICK q \in Int : p = m * q
  BY <1>1, Shares
<1>6. ASSUME NEW i \in 1..samples
      PROVE  times[i] = q * (2 * (i - 1) - steps)
  <2> DEFINE j == 2 * (i - 1) - steps
             x == q * j
  <2>1. j \in Int /\ times[i] = (p * j) \div m
    BY <1>1, <1>2
  <2> HIDE DEF j
  <2>2. x \in Int /\ p * j = m * x
    BY <1>1, <1>5, <2>1
  <2> HIDE DEF x
  <2>3. (m * x) \div m = x
    BY <1>1, <2>2, ExactShare
  <2> QED
    BY <2>1, <2>2, <2>3 DEF x, j
<1>7. p \div 2 = q * steps
  <2> DEFINE x == q * steps
  <2>1. x \in Int /\ p = 2 * x
    BY <1>1, <1>4, <1>5
  <2> HIDE DEF x
  <2>2. (2 * x) \div 2 = x
    BY <2>1, ExactShare
  <2> QED
    BY <2>1, <2>2 DEF x
<1> HIDE DEF steps
<1>8. times[1] = -(p \div 2)
  <2>1. times[1] = q * (2 * (1 - 1) - steps)
    BY <1>1, <1>6
  <2>2. q * (2 * (1 - 1) - steps) = -(q * steps)
    BY <1>1
  <2> QED
    BY <1>7, <2>1, <2>2
<1>9. times[samples] = p \div 2
  <2>1. times[samples] = q * (2 * (samples - 1) - steps)
    BY <1>1, <1>6
  <2>2. 2 * (samples - 1) - steps = steps
    BY <1>1
  <2> QED
    BY <1>7, <2>1, <2>2
<1>10. ASSUME NEW i \in 1..steps
       PROVE  (times[i + 1] - times[i]) * steps = p
  <2>0. i \in Int /\ i \in 1..samples /\ i + 1 \in 1..samples
    BY <1>1
  <2> DEFINE j == 2 * (i - 1) - steps
  <2>1. times[i] = q * j /\ times[i + 1] = q * (2 * ((i + 1) - 1) - steps)
    BY <2>0, <1>6
  <2>2. j \in Int /\ 2 * ((i + 1) - 1) - steps = j + 2
    BY <2>0, <1>1
  <2> HIDE DEF j
  <2>3. times[i] = q * j /\ times[i + 1] = q * (j + 2)
    BY <2>1, <2>2
  <2>4. q * (j + 2) - q * j = 2 * q
    BY <2>2
  <2>5. (2 * q) * steps = (2 * steps) * q
    BY <1>1
  <2> QED
    BY <1>4, <1>5, <2>3, <2>4, <2>5
<1> QED
  BY <1>3, <1>8, <1>9, <1>10 DEF p, times, steps

(* The answers of query_orbits. *)

AnsweredAt(batch, k, request, t, samples) ==
    LET body == Value(batch, k, "body_id")
        centre == Value(batch, k, "centre_id")
        times == Value(batch, k, "path_dt_s")
        path == Value(batch, k, "path_km")
        period == Period[AstroFrame(body).eph]
    IN  /\ body = request.body
        /\ request.centre # {} => request.centre = {centre}
        /\ \A e \in Elements : Value(batch, k, e) = Element(e, AstroFrame(body), AstroFrame(centre), t)
        /\ Len(path) = samples /\ Len(times) = samples
        /\ times[1] = -(period \div 2) /\ times[samples] = period \div 2
        /\ \A i \in 1..(samples - 1) : (times[i + 1] - times[i]) * (samples - 1) = period
        /\ \A i \in DOMAIN path : path[i] # {}

Answered(a) ==
    /\ Len(a.batch.rows) = Len(a.requests) /\ DOMAIN a.batch.rows = DOMAIN a.requests
    /\ \A k \in DOMAIN a.requests :
          AnsweredAt(a.batch, k, a.requests[k], a.body.epoch_tai_s, a.body.samples)

\* What an orbit says of its request.
OrbitAnswers(orbit, request, t, samples) ==
    LET times == orbit.path_dt_s
        path == orbit.path_km
        period == Period[AstroFrame(orbit.body).eph]
    IN  /\ orbit.body = request.body
        /\ request.centre # {} => request.centre = {orbit.centre}
        /\ \A e \in Elements :
              orbit.elements[e] = Element(e, AstroFrame(orbit.body), AstroFrame(orbit.centre), t)
        /\ Len(path) = samples /\ Len(times) = samples
        /\ times[1] = -(period \div 2) /\ times[samples] = period \div 2
        /\ \A i \in 1..(samples - 1) : (times[i + 1] - times[i]) * (samples - 1) = period
        /\ \A i \in DOMAIN path : path[i] # {}

\* One orbit that is answered.
LEMMA OrbitIsAnswered ==
    ASSUME NEW loaded \in SUBSET Kernels, NEW request, \A c, d \in request.centre : c = d,
           NEW t \in Int, NEW samples \in SampleCounts, samples <= MaxOrbitSamples,
           NEW orbit \in CelestialOrbit(loaded, request, t, samples)
    PROVE  OrbitAnswers(orbit, request, t, samples)
<1>1. samples >= 2 /\ samples \in Nat /\ MaxOrbitSamples \in Nat
  BY EphemerisAssumption DEF CelestialOrbit
<1>2. PICK centreId \in CentreOf(request) : orbit \in OrbitAbout(loaded, request, centreId, t, samples)
  BY DEF CelestialOrbit
<1> DEFINE body == WithOrient(AstroFrame(request.body), J2000Axes)
           centre == WithOrient(AstroFrame(centreId), J2000Axes)
           times == PathTimes(body.eph, samples)
           path == [i \in DOMAIN times |-> Translate(loaded, body, centre, t + times[i])]
<1>3. body.eph = AstroFrame(request.body).eph /\ centre.eph = AstroFrame(centreId).eph
  BY DEF WithOrient, AstroFrame
<1> HIDE DEF body, centre
<1>4. /\ Gm(loaded, body) # {} /\ PathKnown(loaded, body, centre, t, times)
      /\ orbit = [body |-> request.body, centre |-> centreId,
                  elements |-> [e \in Elements |-> Element(e, body, centre, t)],
                  path_dt_s |-> times, path_km |-> path,
                  duration_centuries |-> Part("centuries", t), duration_ns |-> Part("ns", t)]
  BY <1>2 DEF OrbitAbout, body, centre
<1> DEFINE naif == body.eph
<1>5. Period[naif] \in Int /\ (Period[naif] % (2 * (samples - 1))) = 0
  <2>1. PICK kernel \in Kernels : naif \in kernel.gms
    BY <1>4 DEF Gm, Weighed
  <2>2. samples \in SampleCounts \cap (2..MaxOrbitSamples)
    BY <1>1
  <2> QED
    BY <2>1, <2>2, EphemerisAssumption
<1>6. /\ IsList(times) /\ Len(times) = samples
      /\ times[1] = -(Period[naif] \div 2) /\ times[samples] = Period[naif] \div 2
      /\ \A i \in 1..(samples - 1) : (times[i + 1] - times[i]) * (samples - 1) = Period[naif]
  <2> HIDE DEF naif
  <2>1. LET ts == PathTimes(naif, samples)
            period == Period[naif]
        IN  /\ IsList(ts) /\ Len(ts) = samples
            /\ ts[1] = -(period \div 2) /\ ts[samples] = period \div 2
            /\ \A i \in 1..(samples - 1) : (ts[i + 1] - ts[i]) * (samples - 1) = period
    BY <1>1, <1>5, PathSpans
  <2> QED
    BY <2>1 DEF naif
<1> HIDE DEF times
<1>7. DOMAIN times = 1..samples
  BY <1>6, ListIs
<1>8. path = [i \in 1..samples |-> path[i]] /\ \A i \in 1..samples : path[i] # {}
  BY <1>4, <1>7 DEF PathKnown
<1>9. Len(path) = samples /\ DOMAIN path = 1..samples
  <2> HIDE DEF path
  <2> QED
    BY <1>1, <1>8, Tabulated
<1> HIDE DEF path
<1>10. /\ orbit.body = request.body /\ orbit.centre = centreId /\ orbit.path_dt_s = times
       /\ orbit.path_km = path /\ \A e \in Elements : orbit.elements[e] = Element(e, body, centre, t)
  BY <1>4
<1>11. request.centre # {} => request.centre = {centreId}
  BY <1>2 DEF CentreOf
<1>12. \A e \in Elements : orbit.elements[e] = Element(e, AstroFrame(request.body), AstroFrame(centreId), t)
  BY <1>3, <1>10 DEF Element
<1> QED
  BY <1>3, <1>6, <1>8, <1>9, <1>10, <1>11, <1>12 DEF naif, OrbitAnswers

LEMMA RequestsAreLists ==
    ASSUME NEW wires \in OrbitRequests, NEW requests \in RequestsOf(wires)
    PROVE  IsList(requests) /\ \A k \in DOMAIN requests : \A c, d \in requests[k].centre : c = d
<1>1. IsList(wires) /\ \A k \in DOMAIN wires : \A c, d \in wires[k].centre : c = d
  BY EphemerisAssumption
<1>2. /\ requests = [k \in DOMAIN wires |-> requests[k]]
      /\ \A k \in DOMAIN wires : requests[k].centre = UNION {MintWire(c) : c \in wires[k].centre}
  BY DEF RequestsOf
<1>3. IsList(requests)
  <2> DEFINE n == Len(wires)
  <2>1. n \in Nat /\ requests = [k \in 1..n |-> requests[k]]
    BY <1>1, <1>2, ListIs
  <2> HIDE DEF n
  <2> QED
    BY <2>1, Tabulated
<1>4. ASSUME NEW k \in DOMAIN wires, NEW c \in requests[k].centre, NEW d \in requests[k].centre
      PROVE  c = d
  <2>1. PICK v \in wires[k].centre : c \in MintWire(v)
    BY <1>2, <1>4
  <2>2. PICK w \in wires[k].centre : d \in MintWire(w)
    BY <1>2, <1>4
  <2>3. v = w
    BY <1>1
  <2>4. MintWire(v) = {CHOOSE id \in MintWire(v) : TRUE}
    BY <2>1, MintedOnce
  <2> QED
    BY <2>1, <2>2, <2>3, <2>4
<1> QED
  BY <1>2, <1>3, <1>4

LEMMA OrbitsAreAnswered ==
    ASSUME NEW loaded \in SUBSET Kernels, NEW body \in QueryOrbitsBody, body.samples <= MaxOrbitSamples,
           NEW requests, IsList(requests), \A k \in DOMAIN requests : \A c, d \in requests[k].centre : c = d,
           NEW answer \in CelestialOrbits(loaded, requests, body.epoch_tai_s, body.samples)
    PROVE  Answered([requests |-> requests, body |-> body, batch |-> answer])
<1> DEFINE t == body.epoch_tai_s
           samples == body.samples
           a == [requests |-> requests, body |-> body, batch |-> answer]
<1>1. t \in Int /\ samples \in SampleCounts
  BY EphemerisAssumption DEF QueryOrbitsBody
<1> HIDE DEF t, samples
<1> DEFINE orbit(k) == CHOOSE o \in CelestialOrbit(loaded, requests[k], t, samples) : TRUE
<1>2. \A k \in DOMAIN requests : CelestialOrbit(loaded, requests[k], t, samples) # {}
  BY DEF CelestialOrbits, t, samples
<1>3. answer = OrbitBatch(loaded, requests, t, samples)
  BY DEF CelestialOrbits, t, samples
<1>4. /\ answer.schema = OrbitSchema /\ DOMAIN answer.rows = DOMAIN requests
      /\ answer.rows = [k \in DOMAIN requests |-> answer.rows[k]]
      /\ \A k \in DOMAIN requests : answer.rows[k] = OrbitRow(orbit(k))
  BY <1>3 DEF OrbitBatch
<1>5. ASSUME NEW k \in DOMAIN requests
      PROVE  orbit(k) \in CelestialOrbit(loaded, requests[k], t, samples)
  BY <1>2
<1> HIDE DEF orbit
<1>6. Len(answer.rows) = Len(requests)
  <2> DEFINE n == Len(requests)
             rows == answer.rows
  <2>1. n \in Nat /\ rows = [k \in 1..n |-> rows[k]]
    BY <1>4, ListIs
  <2> HIDE DEF n, rows
  <2>2. Len(rows) = n
    BY <2>1, Tabulated
  <2> QED
    BY <2>2 DEF n, rows
<1>7. ASSUME NEW k \in DOMAIN requests
      PROVE  AnsweredAt(answer, k, requests[k], t, samples)
  <2> DEFINE o == orbit(k)
             request == requests[k]
  <2>1. o \in CelestialOrbit(loaded, request, t, samples) /\ \A c, d \in request.centre : c = d
    BY <1>5
  <2>2. answer.rows[k] = OrbitRow(o)
    BY <1>4
  <2> HIDE DEF o, request
  <2>3. ReadsAs(answer, k, o)
    BY <1>4, <2>2, OrbitReads
  <2>4. samples <= MaxOrbitSamples
    BY DEF samples
  <2>5. OrbitAnswers(o, request, t, samples)
    BY <1>1, <2>1, <2>4, OrbitIsAnswered
  <2> QED
    BY <2>3, <2>5 DEF request, OrbitAnswers, ReadsAs, AnsweredAt
<1>8. a.requests = requests /\ a.body = body /\ a.batch = answer
  OBVIOUS
<1> HIDE DEF a
<1>9. Answered(a)
  BY <1>4, <1>6, <1>7, <1>8 DEF Answered, t, samples
<1> QED
  BY <1>9 DEF a

(* The inductive invariant. *)

EphemerisIInv ==
    /\ almanac \subseteq Kernels
    /\ IsList(snapshots) /\ \A n \in DOMAIN snapshots : Whole(snapshots[n].body, snapshots[n].batch)
    /\ \A a \in orbits : Answered(a)

LEMMA EphemerisIInvInit == EphemerisInit => EphemerisIInv
  BY EmptyIsList DEF EphemerisInit, EphemerisIInv

LEMMA SnapshotKeeps ==
    ASSUME EphemerisIInv, NEW body \in AppendSnapshotBody, AppendSnapshot(body)
    PROVE  EphemerisIInv'
<1>1. /\ almanac \subseteq Kernels
      /\ IsList(snapshots) /\ \A n \in DOMAIN snapshots : Whole(snapshots[n].body, snapshots[n].batch)
      /\ \A a \in orbits : Answered(a)
  BY DEF EphemerisIInv
<1>2. PICK ids \in MintAll(body.bodies) :
         \E batch \in CelestialSnapshot(almanac, ids, body.epoch_tai_s) :
            snapshots' = Append(snapshots, [body |-> body, batch |-> batch])
  BY DEF AppendSnapshot
<1>3. PICK batch \in CelestialSnapshot(almanac, ids, body.epoch_tai_s) :
         snapshots' = Append(snapshots, [body |-> body, batch |-> batch])
  BY <1>2
<1>4. Whole(body, batch)
  BY SnapshotsAreWhole
<1> DEFINE e == [body |-> body, batch |-> batch]
           s == snapshots'
<1>5. e.body = body /\ e.batch = batch
  OBVIOUS
<1> HIDE DEF e, s
<1>6. s = Append(snapshots, e)
  BY <1>3 DEF e, s
<1>7. /\ IsList(Append(snapshots, e)) /\ Len(Append(snapshots, e)) = Len(snapshots) + 1
      /\ Append(snapshots, e)[Len(snapshots) + 1] = e
      /\ \A i \in 1..Len(snapshots) : Append(snapshots, e)[i] = snapshots[i]
  BY <1>1, AppendList
<1>8. /\ Len(snapshots) \in Nat /\ DOMAIN snapshots = 1..Len(snapshots)
      /\ DOMAIN s = 1..(Len(snapshots) + 1) /\ IsList(s)
  BY <1>1, <1>6, <1>7, ListIs
<1>9. ASSUME NEW n \in DOMAIN s PROVE Whole(s[n].body, s[n].batch)
  <2>1. CASE n = Len(snapshots) + 1
    BY <1>4, <1>5, <1>6, <1>7, <2>1
  <2>2. CASE n # Len(snapshots) + 1
    <3>1. n \in 1..Len(snapshots)
      BY <1>8, <2>2
    <3> QED
      BY <1>1, <1>6, <1>7, <1>8, <3>1
  <2> QED
    BY <2>1, <2>2
<1>10. almanac' = almanac /\ orbits' = orbits
  BY DEF AppendSnapshot
<1>11. \A a \in orbits' : Answered(a)
  BY <1>1, <1>10
<1>12. IsList(snapshots') /\ \A n \in DOMAIN snapshots' : Whole(snapshots'[n].body, snapshots'[n].batch)
  BY <1>8, <1>9 DEF s
<1> QED
  BY <1>1, <1>10, <1>11, <1>12 DEF EphemerisIInv

LEMMA OrbitsKeep ==
    ASSUME EphemerisIInv, NEW body \in QueryOrbitsBody, QueryOrbits(body)
    PROVE  EphemerisIInv'
<1>1. PICK requests \in RequestsOf(body.orbits) :
         \E answer \in CelestialOrbits(almanac, requests, body.epoch_tai_s, body.samples) :
            orbits' = {[requests |-> requests, body |-> body, batch |-> answer]}
  BY DEF QueryOrbits
<1>2. PICK answer \in CelestialOrbits(almanac, requests, body.epoch_tai_s, body.samples) :
         orbits' = {[requests |-> requests, body |-> body, batch |-> answer]}
  BY <1>1
<1>3. IsList(requests) /\ \A k \in DOMAIN requests : \A c, d \in requests[k].centre : c = d
  <2>1. body.orbits \in OrbitRequests
    BY DEF QueryOrbitsBody
  <2> QED
    BY <2>1, RequestsAreLists
<1>4. almanac \in SUBSET Kernels /\ body.samples <= MaxOrbitSamples
  BY DEF EphemerisIInv, QueryOrbits
<1>5. Answered([requests |-> requests, body |-> body, batch |-> answer])
  BY <1>3, <1>4, OrbitsAreAnswered
<1>6. \A a \in orbits' : Answered(a)
  BY <1>2, <1>5
<1> QED
  BY <1>6 DEF EphemerisIInv, QueryOrbits

LEMMA EphemerisIInvNext == EphemerisIInv /\ [EphemerisNext]_ephemerisVars => EphemerisIInv'
<1> SUFFICES ASSUME EphemerisIInv, [EphemerisNext]_ephemerisVars PROVE EphemerisIInv'
  OBVIOUS
<1>1. ASSUME NEW kernel \in Kernels, LoadKernel(kernel) PROVE EphemerisIInv'
  BY <1>1 DEF EphemerisIInv, LoadKernel
<1>2. ASSUME NEW body \in AppendSnapshotBody, AppendSnapshot(body) PROVE EphemerisIInv'
  BY <1>2, SnapshotKeeps
<1>3. ASSUME NEW body \in QueryOrbitsBody, QueryOrbits(body) PROVE EphemerisIInv'
  BY <1>3, OrbitsKeep
<1>4. CASE UNCHANGED ephemerisVars
  BY <1>4 DEF EphemerisIInv, ephemerisVars
<1> QED
  BY <1>1, <1>2, <1>3, <1>4 DEF EphemerisNext

LEMMA EphemerisIInvIsWhole == EphemerisIInv => AlmanacAnswersAreWhole
<1> SUFFICES ASSUME EphemerisIInv PROVE AlmanacAnswersAreWhole
  OBVIOUS
<1>1. SnapshotIsWhole
  BY DEF EphemerisIInv, Whole, SnapshotIsWhole
<1>2. OrbitsAnswerTheRequests
  BY DEF EphemerisIInv, Answered, AnsweredAt, OrbitsAnswerTheRequests
<1>3. PathsSpanThePeriod
  BY DEF EphemerisIInv, Answered, AnsweredAt, PathsSpanThePeriod
<1> QED
  BY <1>1, <1>2, <1>3, CentresLead DEF AlmanacAnswersAreWhole

\* What the almanac is asked is answered as a whole or refused (celestial_snapshot,
\* celestial_orbits), for any loaded, requests and sample counts.
THEOREM AlmanacAnswersWhole == EphemerisSpec => []AlmanacAnswersAreWhole
  BY EphemerisIInvInit, EphemerisIInvNext, EphemerisIInvIsWhole, PTL DEF EphemerisSpec

-----------------------------------------------------------------------------
(* Reproject: the caches of transform_batch are not seen, a row is         *)
(* transformed as it would be alone.  The invariant says that a cache      *)
(* holds, under each of its keys, what would be computed for it now.       *)

Target == FramePair(call.target)

\* What a cache remembers is what would be computed.
CachesAreTrue ==
    /\ \A frame, epoch : DynamicKey(frame, epoch) \in DOMAIN dynamicCache =>
          dynamicCache[DynamicKey(frame, epoch)] = Resolve(call.batch, frame, epoch)
    /\ \A id \in DOMAIN rootCache : rootCache[id] = ResolveRootFrame(id)
    /\ \A epoch : J2000Key(epoch) \in DOMAIN j2000Cache =>
          j2000Cache[J2000Key(epoch)] = J2000To(call.kernels, Target, epoch)

WellAsked == call.target \in FrameNames /\ Decodes(LengthUnit, call.unit)

\* A call that runs or was answered has the rows before `row`, each as it would be alone.
RowsSoFar(answer) ==
    /\ ~answer.failed
    /\ answer.rows \in Seq(UNION {Alone(i) : i \in DOMAIN call.batch})
    /\ Len(answer.rows) = row - 1
    /\ \A i \in 1..(row - 1) : {answer.rows[i]} = Alone(i)

RefusedForCause == ~WellAsked \/ \E i \in DOMAIN call.batch : Alone(i) = {}

ReprojectIInv ==
    /\ Len(call.batch) \in Nat /\ DOMAIN call.batch = 1..Len(call.batch)
    /\ row \in 1..(Len(call.batch) + 1)
    /\ CachesAreTrue
    /\ reprojected = [rows |-> reprojected.rows, done |-> reprojected.done,
                      failed |-> reprojected.failed]
    /\ \/ reprojected.done = FALSE /\ RowsSoFar(reprojected)
       \/ reprojected = Failed /\ RefusedForCause
       \/ /\ reprojected.done = TRUE /\ row = Len(call.batch) + 1 /\ WellAsked
          /\ RowsSoFar(reprojected)

-----------------------------------------------------------------------------
(* Lookups. *)

\* Every lookup has one answer or none.
LEMMA LookupsAreSingle ==
    ASSUME NEW loaded, NEW from, NEW to, NEW epoch, NEW id
    PROVE  /\ \A x, y \in Translate(loaded, from, to, epoch) : x = y
           /\ \A x, y \in Rotate(loaded, from, to, epoch) : x = y
           /\ \A x, y \in J2000To(loaded, to, epoch) : x = y
           /\ \A x, y \in ResolveRootFrame(id) : x = y
BY DEF Translate, Rotate, J2000To, ResolveRootFrame

\* Alone depends on the call only.
LEMMA AloneStays ==
    ASSUME call' = call, NEW i
    PROVE  Alone(i)' = Alone(i)
BY DEF Alone, RootOf, Resolve, ReferencesEntityFrames, Composed, NeedsJ2000, J2000To,
       Translate, Rotate, ResolveRootFrame

\* What a cache holds after it remembered an answer.
LEMMA Remembered ==
    ASSUME NEW cache, NEW key, NEW answer, NEW k \in DOMAIN Remember(cache, key, answer)
    PROVE  \/ k = key /\ Remember(cache, key, answer)[k] = answer
           \/ k \in DOMAIN cache /\ Remember(cache, key, answer)[k] = cache[k]
BY DEF Remember

-----------------------------------------------------------------------------
(* Steps. *)

\* What is looked up through the caches is what would be computed for the row alone.
LEMMA RowIsAsAlone ==
    ASSUME ReprojectIInv, TransformRow
    PROVE  /\ CachesAreTrue'
           /\ \A x, y \in Alone(row) : x = y
           /\ IF Alone(row) = {} THEN reprojected' = Failed
              ELSE \E result \in Alone(row) :
                      reprojected' = [reprojected EXCEPT !.rows = Append(@, result)]
<1> DEFINE r == call.batch[row]
           key == DynamicKey(r.frame, r.epoch)
           resolved == Cached(dynamicCache, key, Resolve(call.batch, r.frame, r.epoch))
           root == RootOf(resolved, r.frame)
           frames == Cached(rootCache, root.root, ResolveRootFrame(root.root))
           turns == IF \E f \in frames : NeedsJ2000(f, Target)
                    THEN Cached(j2000Cache, J2000Key(r.epoch), J2000To(call.kernels, Target, r.epoch))
                    ELSE {Identity}
           results == Results(call, r, Target, root, frames, turns)
<1>1. CachesAreTrue
  BY DEF ReprojectIInv
<1>2. /\ dynamicCache' = Remember(dynamicCache, key, resolved)
      /\ rootCache' = IF frames = {} THEN rootCache ELSE Remember(rootCache, root.root, frames)
      /\ j2000Cache' = IF turns \in {{}, {Identity}} THEN j2000Cache
                       ELSE Remember(j2000Cache, J2000Key(r.epoch), turns)
      /\ IF results = {} THEN reprojected' = Failed
         ELSE \E result \in results :
                 reprojected' = [reprojected EXCEPT !.rows = Append(@, result)]
      /\ call' = call
  <2>1. dynamicCache' = Remember(dynamicCache, key, resolved) /\ call' = call
    BY DEF TransformRow
  <2>2. rootCache' = IF frames = {} THEN rootCache ELSE Remember(rootCache, root.root, frames)
    BY DEF TransformRow
  <2>3. j2000Cache' = IF turns \in {{}, {Identity}} THEN j2000Cache
                     ELSE Remember(j2000Cache, J2000Key(r.epoch), turns)
    BY DEF TransformRow, Target
  <2>4. IF results = {} THEN reprojected' = Failed
        ELSE \E result \in results :
                reprojected' = [reprojected EXCEPT !.rows = Append(@, result)]
    BY DEF TransformRow, Target
  <2> HIDE DEF results, turns, frames, root, resolved
  <2> QED
    BY <2>1, <2>2, <2>3, <2>4
<1>3. resolved = Resolve(call.batch, r.frame, r.epoch)
  BY <1>1 DEF CachesAreTrue, Cached
<1>4. frames = ResolveRootFrame(root.root)
  <2> HIDE DEF root
  <2> QED
    BY <1>1 DEF CachesAreTrue, Cached
<1> HIDE DEF frames, resolved
<1>5. turns = IF \E f \in frames : NeedsJ2000(f, Target)
              THEN J2000To(call.kernels, Target, r.epoch) ELSE {Identity}
  BY <1>1 DEF CachesAreTrue, Cached
<1> HIDE DEF turns
<1>6. results = Alone(row) /\ \A x, y \in results : x = y
  <2> DEFINE start == RootOf(Resolve(call.batch, r.frame, r.epoch), r.frame)
  <2>1. root = start
    BY <1>3
  <2>2. Alone(row) =
          UNION {{Composed(r, Target, call.unit, root, r1, r2, turn) :
                    r1 \in Translate(call.kernels, f, Target, r.epoch),
                    r2 \in Rotate(call.kernels, f, Target, r.epoch),
                    turn \in IF NeedsJ2000(f, Target) THEN J2000To(call.kernels, Target, r.epoch)
                             ELSE {Identity}} : f \in frames}
    BY <1>4, <2>1 DEF Alone, Target
  <2> HIDE DEF root, r
  <2>3. \A x, y \in frames : x = y
    BY <1>4, LookupsAreSingle
  <2>4. CASE frames = {}
    BY <2>2, <2>4 DEF Results
  <2>5. ASSUME NEW f \in frames PROVE results = Alone(row) /\ \A x, y \in results : x = y
    <3>1. frames = {f}
      BY <2>3, <2>5
    <3> DEFINE T == Translate(call.kernels, f, Target, r.epoch)
               R == Rotate(call.kernels, f, Target, r.epoch)
    <3>2. turns = IF NeedsJ2000(f, Target) THEN J2000To(call.kernels, Target, r.epoch)
                  ELSE {Identity}
      BY <1>5, <3>1
    <3>3. results = {Composed(r, Target, call.unit, root, r1, r2, turn) :
                        r1 \in T, r2 \in R, turn \in turns}
      BY <3>1 DEF Results
    <3>4. Alone(row) = {Composed(r, Target, call.unit, root, r1, r2, turn) :
                        r1 \in T, r2 \in R, turn \in turns}
      BY <2>2, <3>1, <3>2
    <3>5. /\ \A x, y \in T : x = y
          /\ \A x, y \in R : x = y
          /\ \A x, y \in turns : x = y
      BY <3>2, LookupsAreSingle
    <3> HIDE DEF T, R, results
    <3> QED
      BY <3>3, <3>4, <3>5
  <2> QED
    BY <2>4, <2>5
<1> HIDE DEF results
<1> HIDE DEF key, root
<1>7. ASSUME NEW frame, NEW epoch, DynamicKey(frame, epoch) \in DOMAIN dynamicCache'
      PROVE  dynamicCache'[DynamicKey(frame, epoch)] = Resolve(call.batch, frame, epoch)
  <2> DEFINE k == DynamicKey(frame, epoch)
  <2>1. \/ k = key /\ dynamicCache'[k] = resolved
        \/ k \in DOMAIN dynamicCache /\ dynamicCache'[k] = dynamicCache[k]
    <3> HIDE DEF k
    <3>1. k \in DOMAIN Remember(dynamicCache, key, resolved)
      BY <1>2, <1>7 DEF k
    <3> QED
      BY <1>2, <3>1, Remembered
  <2>2. CASE k = key /\ dynamicCache'[k] = resolved
    <3>1. frame = r.frame /\ epoch = r.epoch
      BY <2>2 DEF DynamicKey, key
    <3> QED
      BY <1>3, <2>2, <3>1
  <2>3. CASE k \in DOMAIN dynamicCache /\ dynamicCache'[k] = dynamicCache[k]
    BY <1>1, <2>3 DEF CachesAreTrue
  <2> QED
    BY <2>1, <2>2, <2>3
<1>8. ASSUME NEW id \in DOMAIN rootCache'
      PROVE  rootCache'[id] = ResolveRootFrame(id)
  <2>1. CASE frames = {}
    BY <1>1, <1>2, <1>8, <2>1 DEF CachesAreTrue
  <2>2. CASE frames # {}
    <3>1. rootCache' = Remember(rootCache, root.root, frames)
      BY <1>2, <2>2
    <3>2. \/ id = root.root /\ rootCache'[id] = frames
          \/ id \in DOMAIN rootCache /\ rootCache'[id] = rootCache[id]
      BY <1>8, <3>1, Remembered
    <3> QED
      BY <1>1, <1>4, <3>2 DEF CachesAreTrue
  <2> QED
    BY <2>1, <2>2
<1>9. ASSUME NEW epoch, J2000Key(epoch) \in DOMAIN j2000Cache'
      PROVE  j2000Cache'[J2000Key(epoch)] = J2000To(call.kernels, Target, epoch)
  <2>1. CASE turns \in {{}, {Identity}}
    BY <1>1, <1>2, <1>9, <2>1 DEF CachesAreTrue
  <2>2. CASE turns \notin {{}, {Identity}}
    <3>1. turns = J2000To(call.kernels, Target, r.epoch)
      BY <1>5, <2>2
    <3>2. j2000Cache' = Remember(j2000Cache, J2000Key(r.epoch), turns)
      BY <1>2, <2>2
    <3>3. \/ J2000Key(epoch) = J2000Key(r.epoch) /\ j2000Cache'[J2000Key(epoch)] = turns
          \/ /\ J2000Key(epoch) \in DOMAIN j2000Cache
             /\ j2000Cache'[J2000Key(epoch)] = j2000Cache[J2000Key(epoch)]
      BY <1>9, <3>2, Remembered
    <3>4. J2000Key(epoch) = J2000Key(r.epoch) => epoch = r.epoch
      BY DEF J2000Key
    <3> QED
      BY <1>1, <3>1, <3>3, <3>4 DEF CachesAreTrue
  <2> QED
    BY <2>1, <2>2
<1>10. CachesAreTrue'
  BY <1>2, <1>7, <1>8, <1>9 DEF CachesAreTrue, Target
<1> QED
  BY <1>2, <1>6, <1>10

LEMMA ReprojectInitEstablishes == ReprojectInit => ReprojectIInv
<1> SUFFICES ASSUME ReprojectInit PROVE ReprojectIInv
  OBVIOUS
<1>1. call.batch \in RowBatches
  <2>1. PICK batch \in RowBatches, desc \in ExchangeDescriptor, loaded \in CallKernels :
            call = [batch |-> batch, target |-> desc.target_frame, unit |-> desc.target_units,
                    kernels |-> loaded]
    BY DEF ReprojectInit
  <2> QED
    BY <2>1
<1>2. Len(call.batch) \in Nat /\ DOMAIN call.batch = 1..Len(call.batch)
  BY <1>1, ReprojectAssumption
<1>3. row = 1 /\ reprojected = [rows |-> <<>>, done |-> FALSE, failed |-> FALSE]
  BY DEF ReprojectInit, Running
<1>4. DOMAIN dynamicCache = {} /\ DOMAIN rootCache = {} /\ DOMAIN j2000Cache = {}
  BY DEF ReprojectInit
<1>5. CachesAreTrue
  BY <1>4 DEF CachesAreTrue
<1>6. RowsSoFar(reprojected)
  BY <1>3 DEF RowsSoFar
<1>7. row \in 1..(Len(call.batch) + 1)
  BY <1>2, <1>3
<1> QED
  BY <1>2, <1>3, <1>5, <1>6, <1>7 DEF ReprojectIInv

LEMMA ReprojectStepPreserves == ReprojectIInv /\ [ReprojectNext]_reprojectVars => ReprojectIInv'
<1> SUFFICES ASSUME ReprojectIInv, [ReprojectNext]_reprojectVars PROVE ReprojectIInv'
  OBVIOUS
<1> DEFINE n == Len(call.batch)
<1>1. /\ n \in Nat /\ DOMAIN call.batch = 1..n /\ row \in 1..(n + 1) /\ CachesAreTrue
      /\ ~reprojected.done => RowsSoFar(reprojected)
  BY DEF ReprojectIInv, Failed
<1>2. CASE RefuseCall
  <2>1. /\ reprojected' = Failed /\ call' = call /\ row' = row /\ ~WellAsked
        /\ UNCHANGED <<dynamicCache, rootCache, j2000Cache>>
    BY <1>2 DEF RefuseCall, WellAsked, caches
  <2>2. CachesAreTrue' /\ RefusedForCause'
    BY <1>1, <2>1 DEF CachesAreTrue, RefusedForCause, WellAsked, Target
  <2> QED
    BY <1>1, <2>1, <2>2 DEF ReprojectIInv, Failed
<1>3. CASE TransformRow
  <2>1. /\ row <= n /\ ~reprojected.done /\ row' = row + 1 /\ call' = call
    BY <1>3 DEF TransformRow
  <2>2. /\ row \in DOMAIN call.batch /\ row' \in 1..(n + 1)
    BY <1>1, <2>1
  <2>3. \A i : Alone(i)' = Alone(i)
    BY <2>1, AloneStays
  <2>4. CASE Alone(row) = {}
    <3>1. reprojected' = Failed /\ CachesAreTrue'
      BY <1>3, <2>4, RowIsAsAlone
    <3>2. RefusedForCause'
      BY <2>1, <2>2, <2>3, <2>4 DEF RefusedForCause
    <3> QED
      BY <1>1, <2>1, <2>2, <3>1, <3>2 DEF ReprojectIInv, Failed
  <2>5. CASE Alone(row) # {}
    <3>1. PICK result \in Alone(row) :
              reprojected' = [reprojected EXCEPT !.rows = Append(@, result)]
      BY <1>3, <2>5, RowIsAsAlone
    <3>2. CachesAreTrue' /\ Alone(row) = {result}
      BY <1>3, <3>1, RowIsAsAlone
    <3> DEFINE rows == reprojected.rows
               after == reprojected'.rows
               All == UNION {Alone(i) : i \in DOMAIN call.batch}
    <3>3. /\ rows \in Seq(All) /\ Len(rows) = row - 1 /\ ~reprojected.failed
          /\ \A i \in 1..(row - 1) : {rows[i]} = Alone(i)
      BY <1>1, <2>1 DEF RowsSoFar
    <3>4. reprojected' = [rows |-> Append(rows, result), done |-> reprojected.done,
                          failed |-> reprojected.failed]
      BY <3>1 DEF ReprojectIInv
    <3>5. result \in All
      BY <2>2
    <3>6. reprojected.done = FALSE
      BY <2>1 DEF ReprojectIInv, Failed
    <3>7. after = Append(rows, result)
      BY <3>4
    <3> HIDE DEF All, rows, after
    <3>8. /\ after \in Seq(All) /\ Len(after) = row
          /\ \A i \in 1..row : {after[i]} = Alone(i)
      <4>1. Len(after) = row /\ after \in Seq(All)
        BY <1>1, <3>3, <3>5, <3>7
      <4>2. \A i \in 1..row : after[i] = IF i = row THEN result ELSE rows[i]
        BY <1>1, <3>3, <3>5, <3>7
      <4>3. \A i \in 1..row : i # row => i \in 1..(row - 1)
        BY <1>1
      <4> QED
        BY <3>2, <3>3, <4>1, <4>2, <4>3
    <3>9. All' = All
      BY <2>1, <2>3 DEF All
    <3>10. RowsSoFar(reprojected)'
      <4>1. row' - 1 = row
        BY <1>1, <2>1
      <4>2. reprojected'.failed = reprojected.failed
        BY <3>4
      <4> QED
        BY <2>3, <3>3, <3>8, <3>9, <4>1, <4>2 DEF RowsSoFar, All, after
    <3>11. reprojected'.done = FALSE
      BY <3>4, <3>6
    <3>12. reprojected' = [rows |-> reprojected'.rows, done |-> reprojected'.done,
                           failed |-> reprojected'.failed]
      BY <3>4
    <3> QED
      BY <1>1, <2>1, <2>2, <3>2, <3>10, <3>11, <3>12 DEF ReprojectIInv
  <2> QED
    BY <2>4, <2>5
<1>4. CASE Rebuild
  <2>1. /\ ~reprojected.done /\ row > n /\ WellAsked
        /\ reprojected' = [reprojected EXCEPT !.done = TRUE]
        /\ call' = call /\ row' = row
        /\ UNCHANGED <<dynamicCache, rootCache, j2000Cache>>
    BY <1>4 DEF Rebuild, WellAsked, caches
  <2>2. reprojected' = [rows |-> reprojected.rows, done |-> TRUE, failed |-> reprojected.failed]
    BY <2>1 DEF ReprojectIInv
  <2>3. \A i : Alone(i)' = Alone(i)
    BY <2>1, AloneStays
  <2>4. RowsSoFar(reprojected)'
    BY <1>1, <2>1, <2>2, <2>3 DEF RowsSoFar
  <2>5. CachesAreTrue' /\ WellAsked'
    BY <1>1, <2>1 DEF CachesAreTrue, WellAsked, Target
  <2>6. row = n + 1
    BY <1>1, <2>1
  <2> QED
    BY <1>1, <2>1, <2>2, <2>4, <2>5, <2>6 DEF ReprojectIInv
<1>5. CASE UNCHANGED reprojectVars
  <2>1. /\ call' = call /\ row' = row /\ reprojected' = reprojected
        /\ UNCHANGED <<dynamicCache, rootCache, j2000Cache>>
    BY <1>5 DEF reprojectVars
  <2>2. \A i : Alone(i)' = Alone(i)
    BY <2>1, AloneStays
  <2>3. /\ RowsSoFar(reprojected)' <=> RowsSoFar(reprojected)
        /\ RefusedForCause' <=> RefusedForCause
        /\ WellAsked' <=> WellAsked
        /\ CachesAreTrue'
    BY <1>1, <2>1, <2>2, ZenonT(30) DEF RowsSoFar, RefusedForCause, WellAsked, CachesAreTrue, Target
  <2> QED
    BY <2>1, <2>3 DEF ReprojectIInv
<1> QED
  BY <1>2, <1>3, <1>4, <1>5 DEF ReprojectNext

-----------------------------------------------------------------------------
(* The theorem. *)

\* Whatever the rows before it were and whatever the caches hold, a row is transformed
\* as it would be alone, and a call is answered if and only if each of its rows can be.
THEOREM CachesAreNotSeen == ReprojectSpec => []TransformsRowByRow
<1>1. ReprojectIInv => TransformsRowByRow
  <2>1. SUFFICES ASSUME ReprojectIInv PROVE RowsStandAlone /\ AnswersIffEveryRowCan
    BY DEF TransformsRowByRow
  <2>2. CASE reprojected = Failed /\ RefusedForCause
    BY <2>2 DEF Failed, RefusedForCause, WellAsked, RowsStandAlone, AnswersIffEveryRowCan
  <2>3. CASE RowsSoFar(reprojected) /\ (reprojected.done => row = Len(call.batch) + 1 /\ WellAsked)
    <3>1. /\ DOMAIN reprojected.rows = 1..(row - 1) /\ Len(reprojected.rows) = row - 1
          /\ \A i \in 1..(row - 1) : {reprojected.rows[i]} = Alone(i)
          /\ ~reprojected.failed
      BY <2>3 DEF RowsSoFar
    <3>2. RowsStandAlone
      BY <3>1 DEF RowsStandAlone
    <3>3. AnswersIffEveryRowCan
      <4>1. SUFFICES ASSUME reprojected.done PROVE AnswersIffEveryRowCan
        BY DEF AnswersIffEveryRowCan
      <4>2. /\ row - 1 = Len(call.batch) /\ DOMAIN call.batch = 1..(row - 1) /\ WellAsked
        BY <2>1, <2>3, <4>1 DEF ReprojectIInv
      <4>3. \A i \in DOMAIN call.batch : Alone(i) # {}
        BY <3>1, <4>2
      <4> QED
        BY <3>1, <4>2, <4>3 DEF AnswersIffEveryRowCan, WellAsked
    <3> QED
      BY <3>2, <3>3
  <2> QED
    BY <2>1, <2>2, <2>3 DEF ReprojectIInv
<1> QED
  BY <1>1, ReprojectInitEstablishes, ReprojectStepPreserves, PTL DEF ReprojectSpec

-----------------------------------------------------------------------------
(* Startup: what is listened with is what was configured.                  *)

StartupIInv ==
    /\ environment \in Environments
    /\ phase \in {"opening", "listening"} =>
          /\ config = LoadConfig(environment)
          /\ kernels = LoadAlmanac(config, environment)
    /\ phase = "listening" =>
          /\ \A text \in config.memoryLimit : ParseByteSize(text) # {}
          /\ memoryLimit = UNION {ParseByteSize(text) : text \in config.memoryLimit}

\* A byte count that parses is the product, unclipped.
LEMMA ParsedIsExact ==
    ASSUME NEW text, ParseByteSize(text) # {}
    PROVE  text.unit \in DOMAIN Scales /\ ParseByteSize(text) = {text.count * Scales[text.unit]}
  BY DEF ParseByteSize

LEMMA LimitAsWritten == StartupIInv => LimitIsTheOneWritten
<1> SUFFICES ASSUME StartupIInv, phase = "listening"
             PROVE  IF environment.file.state # "parsed" \/ environment.file.config.memoryLimit = {}
                    THEN memoryLimit = {}
                    ELSE \E text \in environment.file.config.memoryLimit, bytes \in memoryLimit :
                            /\ memoryLimit = {bytes}
                            /\ text.unit \in DOMAIN Scales
                            /\ bytes = text.count * Scales[text.unit]
  BY DEF LimitIsTheOneWritten
<1> DEFINE texts == config.memoryLimit
<1>1. /\ config = LoadConfig(environment)
      /\ \A text \in texts : ParseByteSize(text) # {}
      /\ memoryLimit = UNION {ParseByteSize(text) : text \in texts}
  BY DEF StartupIInv
<1>2. CASE environment.file.state # "parsed"
  <2>1. texts = {}
    BY <1>1, <1>2 DEF LoadConfig, DefaultConfig
  <2> QED
    BY <1>1, <1>2, <2>1
<1>3. CASE environment.file.state = "parsed"
  <2>1. texts = environment.file.config.memoryLimit /\ \A t, u \in texts : t = u
    BY <1>1, <1>3, StartupAssumption DEF LoadConfig, StartupIInv
  <2> HIDE DEF texts
  <2>2. CASE texts = {}
    BY <1>1, <2>1, <2>2
  <2>3. CASE texts # {}
    <3>1. PICK text \in texts : texts = {text}
      BY <2>1, <2>3
    <3>2. memoryLimit = ParseByteSize(text)
      BY <1>1, <3>1
    <3>3. text.unit \in DOMAIN Scales /\ memoryLimit = {text.count * Scales[text.unit]}
      BY <1>1, <3>2, ParsedIsExact
    <3> QED
      BY <1>3, <2>1, <2>3, <3>3
  <2> QED
    BY <2>2, <2>3
<1> QED
  BY <1>2, <1>3

LEMMA KernelsAsConfigured == StartupIInv => KernelsOfOneSource
  BY StartupAssumption DEF StartupIInv, KernelsOfOneSource, LoadAlmanac, LoadedOf

LEMMA StartupInitEstablishes == StartupInit => StartupIInv
  BY DEF StartupInit, StartupIInv

LEMMA StartupStepPreserves == StartupIInv /\ [StartupNext]_startupVars => StartupIInv'
<1> SUFFICES ASSUME StartupIInv, [StartupNext]_startupVars PROVE StartupIInv'
  OBVIOUS
<1>1. CASE Configure
  BY <1>1 DEF Configure, StartupIInv
<1>2. CASE Open
  BY <1>2 DEF Open, StartupIInv
<1>3. CASE UNCHANGED startupVars
  BY <1>3 DEF startupVars, StartupIInv
<1> QED
  BY <1>1, <1>2, <1>3 DEF StartupNext

\* A server that listens holds to the limit its configuration names, to the byte, and
\* to the kernels of one source, whatever file, variables and network the start finds:
\* load_config, parse_byte_size and load_almanac never round, wrap, lose or mix them.
THEOREM StartsRight == StartupInit /\ [][StartupNext]_startupVars => []StartsAsConfigured
<1>1. StartupIInv => StartsAsConfigured
  BY LimitAsWritten, KernelsAsConfigured DEF StartsAsConfigured
<1> QED
  BY <1>1, StartupInitEstablishes, StartupStepPreserves, PTL
=============================================================================
