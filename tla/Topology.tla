------------------------------ MODULE Topology ------------------------------
(***************************************************************************)
(* The pure part of spacetimestamp::topology: what TransformTree reads     *)
(* from a batch of rows, from its current edges and from its event log,    *)
(* and what each operation leaves behind.  The state machines that own a   *)
(* tree (TransformTree, LiveStream, Ledger) are built from these.          *)
(*                                                                         *)
(* A tree is a pair:                                                       *)
(*   edges  the map `latest`: child -> (parent, since), None when the      *)
(*          child has never been seen;                                     *)
(*   log    the Vec<TopologyEvent>, as a set of events that each carry     *)
(*          `at`, their position in application order.  trim_before leaves *)
(*          gaps in the positions; the code reads nothing of a position    *)
(*          but which of two events was applied later.                     *)
(*                                                                         *)
(* A batch is a sequence of rows reduced to the columns topology reads.    *)
(***************************************************************************)
EXTENDS Integers, Sequences, FiniteSets

CONSTANTS
    Soloc,      \* ids of ledger entities (KIND_SOLOC)
    Astro,      \* ids of astronomical frames and bodies (KIND_ASTRO)
    Abstract,   \* provenance labels (KIND_ABSTRACT)
    MaxEpoch,   \* hifitime::Duration saturates; epochs are 0..MaxEpoch
    ByteOrder,  \* the order of ids by their bytes, for the Pass C sort
    None        \* Option::None

Id == Soloc \cup Astro \cup Abstract
Epoch == 0..MaxEpoch

Edge == [parent : Id, since : Epoch]
Row == [id : Id, frame : Id, epoch : Epoch]
Fact == [child : Id, parent : Id, epoch : Epoch]
Event == [child : Id, parent : Id, epoch : Epoch, at : Nat]

ASSUME KindsAssumption ==
    /\ Soloc \cap Astro = {} /\ Soloc \cap Abstract = {} /\ Astro \cap Abstract = {}
    /\ MaxEpoch \in Nat
    /\ \A c \in Id : ByteOrder[c] \in Nat
    /\ \A c, d \in Id : ByteOrder[c] = ByteOrder[d] => c = d
    /\ None \notin Id /\ None \notin Edge /\ None \notin Seq(Id)

-----------------------------------------------------------------------------
(* Reading a tree. *)

ParentOf(edges, c) == IF edges[c] = None THEN None ELSE edges[c].parent

Of(evs, c) == {e \in evs : e.child = c}

\* The event of a set that was applied last.
LastApplied(evs) == CHOOSE e \in evs : \A f \in evs : f.at <= e.at

\* parent_at: the current edge when it already held at `epoch`, otherwise the
\* most recently LOGGED event of the child that is not after `epoch`.
ParentAt(edges, log, c, epoch) ==
    IF edges[c] = None THEN None
    ELSE IF edges[c].since <= epoch THEN edges[c].parent
    ELSE LET past == {e \in Of(log, c) : e.epoch <= epoch}
         IN  IF past = {} THEN None ELSE LastApplied(past).parent

\* The walk from c up a chain of soloc parents never ends, that is, it visits
\* some node twice.  `par` gives each id its parent, or None.
Looping(par, c) ==
    \E S \in SUBSET Soloc : par[c] \in S /\ \A x \in S : par[x] \in S

\* ancestry_at: from c up to the first parent that is not an entity with a known
\* edge, or None when some node has no parent at `epoch` or the walk comes back.
AncestryAt(edges, log, c, epoch) ==
    LET climb[chain \in Seq(Id)] ==
            LET parent == ParentAt(edges, log, chain[Len(chain)], epoch)
            IN  IF parent = None THEN None
                ELSE IF parent \notin Soloc \/ edges[parent] = None THEN Append(chain, parent)
                ELSE IF \E k \in DOMAIN chain : chain[k] = parent THEN None
                ELSE climb[Append(chain, parent)]
    IN  IF c \in Astro THEN <<c>> ELSE climb[<<c>>]

-----------------------------------------------------------------------------
(* ingest_batch: from rows to events. *)

RowsOf(batch, c) == {r \in DOMAIN batch : batch[r].id = c}
IdsIn(batch) == {batch[r].id : r \in DOMAIN batch}

\* Pass A, abstract-id check: one provenance-only id rejects the batch.
UsesAbstract(batch) ==
    \E r \in DOMAIN batch : batch[r].id \in Abstract \/ batch[r].frame \in Abstract

\* Bug: the first row of each id wins, whatever its epoch.
FirstRow(batch, c) == CHOOSE r \in RowsOf(batch, c) : \A q \in RowsOf(batch, c) : r <= q

\* Pass A: the row with the highest epoch, the first one on ties.
BestRow(batch, c) ==
    CHOOSE r \in RowsOf(batch, c) : \A q \in RowsOf(batch, c) :
        \/ batch[q].epoch < batch[r].epoch
        \/ batch[q].epoch = batch[r].epoch /\ r <= q

MultiFrame(batch, c) ==
    \E q, r \in RowsOf(batch, c) : batch[q].frame # batch[r].frame

\* Bug: Pass B that looks at the winning frame only.
DirtyByWinner(edges, batch) ==
    {c \in IdsIn(batch) : edges[c] = None \/ edges[c].parent # batch[BestRow(batch, c)].frame}

\* Pass B: first sighting, a parent that differs, or several frames at once.
Dirty(edges, batch) ==
    {c \in IdsIn(batch) :
        \/ MultiFrame(batch, c)
        \/ edges[c] = None
        \/ edges[c].parent # batch[BestRow(batch, c)].frame}

\* Bug: the rows are grouped by id but not sorted by epoch.
GroupsBefore(batch, q, r) ==
    LET bq == ByteOrder[batch[q].id]
        br == ByteOrder[batch[r].id]
    IN  bq < br \/ (bq = br /\ q < r)

\* Pass C: the stable sort by (id bytes, epoch).
SortsBefore(batch, q, r) ==
    LET bq == ByteOrder[batch[q].id]
        br == ByteOrder[batch[r].id]
    IN  \/ bq < br
        \/ bq = br /\ batch[q].epoch < batch[r].epoch
        \/ bq = br /\ batch[q].epoch = batch[r].epoch /\ q < r

\* Pass C: running_parent when the walk reaches row r.  It is the frame of the
\* row before it in the sorted group, and the current parent at the group's head.
RunningParent(edges, batch, r) ==
    LET before == {q \in RowsOf(batch, batch[r].id) : SortsBefore(batch, q, r)}
    IN  IF before = {} THEN ParentOf(edges, batch[r].id)
        ELSE batch[CHOOSE q \in before :
                     \A p \in before : p = q \/ SortsBefore(batch, p, q)].frame

Emits(edges, batch) ==
    {r \in DOMAIN batch : /\ batch[r].id \in Dirty(edges, batch)
                          /\ RunningParent(edges, batch, r) # batch[r].frame}

\* The events of a batch, in sorted order after the `pushed` events before them.
EventsOf(edges, batch, pushed) ==
    LET em == Emits(edges, batch)
    IN  {[child  |-> batch[r].id,
          parent |-> batch[r].frame,
          epoch  |-> batch[r].epoch,
          at     |-> pushed + 1 + Cardinality({q \in em : SortsBefore(batch, q, r)})]
         : r \in em}

\* Bug: the walk reads the committed edges only.
CommittedParent(edges, evs) == [c \in Id |-> ParentOf(edges, c)]

\* The cycle check walks the staged edges (the last event of each child,
\* whatever its epoch) over the current ones, from every staged child.
StagedParent(edges, evs) ==
    [c \in Id |-> IF Of(evs, c) = {} THEN ParentOf(edges, c)
                  ELSE LastApplied(Of(evs, c)).parent]

StagedCycle(edges, evs) ==
    \E e \in evs : Looping(StagedParent(edges, evs), e.child)

-----------------------------------------------------------------------------
(* apply_event, and the commit loop that applies events one after another. *)

\* Bug: an edge that takes effect one tick late.
LateEdgeOf(e) == [parent |-> e.parent, since |-> e.epoch + 1]

EdgeOf(e) == [parent |-> e.parent, since |-> e.epoch]

\* Bug: apply_event without the check that the event supersedes the edge.
ApplyAlways(edges, e) == [edges EXCEPT ![e.child] = EdgeOf(e)]

\* One event: it replaces the child's edge unless that edge is younger.
ApplyEvent(edges, e) ==
    IF edges[e.child] = None \/ e.epoch >= edges[e.child].since
    THEN [edges EXCEPT ![e.child] = EdgeOf(e)]
    ELSE edges

\* e takes effect before f: an older epoch, or the same one applied earlier.
Before(e, f) == e.epoch < f.epoch \/ (e.epoch = f.epoch /\ e.at < f.at)

\* Bug: the commit takes the last staged edge of each child.
LastStaged(evs) == LastApplied(evs)

InForce(evs) == CHOOSE e \in evs : \A f \in evs : f = e \/ Before(f, e)

\* What applying the events of `evs` in the order of their positions leaves:
\* per child, the one of highest epoch (the last applied on ties), unless the
\* current edge is younger still.
ApplyEvents(edges, evs) ==
    [c \in Id |->
        IF Of(evs, c) = {} THEN edges[c]
        ELSE ApplyEvent(edges, InForce(Of(evs, c)))[c]]

-----------------------------------------------------------------------------
(* trim_before and merge_log_batch. *)

\* Bug: everything before the window goes, the edge in force too.
TrimmedBare(log, ws) == {e \in log : e.epoch < ws}

\* Events before the window that a later event before the window replaces.
Trimmed(log, ws) ==
    {e \in log : e.epoch < ws /\ \E f \in Of(log, e.child) : f.epoch < ws /\ Before(e, f)}

FactOf(e) == [child |-> e.child, parent |-> e.parent, epoch |-> e.epoch]

\* Bug: only the batch itself is searched for repeats.
FreshInBatch(log, batch) ==
    {i \in DOMAIN batch : \A j \in DOMAIN batch : j < i => batch[j] # batch[i]}

\* Bug: events of one child and one epoch are taken to be the same.
FreshByEpoch(log, batch) ==
    {i \in DOMAIN batch :
        /\ \A e \in log : e.child # batch[i].child \/ e.epoch # batch[i].epoch
        /\ \A j \in DOMAIN batch : j < i => batch[j] # batch[i]}

\* The rows of an exported log that neither this log nor an earlier row of the
\* same batch already states.
Fresh(log, batch) ==
    {i \in DOMAIN batch : /\ \A e \in log : FactOf(e) # batch[i]
                          /\ \A j \in DOMAIN batch : j < i => batch[j] # batch[i]}

\* The fresh rows as events, in batch order after the `pushed` events before them.
MergedEvents(log, batch, pushed) ==
    LET fresh == Fresh(log, batch)
    IN  {[child  |-> batch[i].child,
          parent |-> batch[i].parent,
          epoch  |-> batch[i].epoch,
          at     |-> pushed + 1 + Cardinality({j \in fresh : j < i})]
         : i \in fresh}

Parents(edges) == [c \in Id |-> ParentOf(edges, c)]

\* check_acyclic
CheckAcyclic(edges) == \A c \in Id : ~Looping(Parents(edges), c)
=============================================================================
