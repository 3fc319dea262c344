----------------------------- MODULE Federation -----------------------------
(***************************************************************************)
(* Ledgers that exchange their topology logs: export_topology at one,      *)
(* import_topology at another, over a channel that delays, repeats,        *)
(* reorders and loses what was exported.  Meanwhile each ledger ingests    *)
(* rows of its own and trims its log to its window.                        *)
(***************************************************************************)
EXTENDS Topology, SequencesExt

CONSTANTS
    Peer,       \* the ledgers
    Writes,     \* the batches producers send to them
    MaxLog,     \* bound: a ledger that logged so many events gets no more rows
    MaxExports, \* bound: exported logs under way at a time
    MaxTrims    \* bound: trims of each ledger

ASSUME PeersAssumption ==
    /\ MaxLog \in Nat /\ MaxExports \in Nat /\ MaxTrims \in Nat
    /\ Writes \subseteq Seq(Row)

VARIABLES
    trees,      \* of each ledger: latest, log and how many events it ever logged
    exports,    \* exported logs, which may be delivered at any time, or never
    trims,      \* how often each ledger trimmed
    known       \* history: every fact each ledger ever logged

federationVars == <<trees, exports, trims, known>>

FactsOf(log) == {FactOf(e) : e \in log}

\* to_log_batch: the events in the order of their positions.
LogBatch(log) ==
    [i \in 1..Cardinality(log) |->
        FactOf(CHOOSE e \in log : Cardinality({f \in log : f.at < e.at}) = i - 1)]

\* A tree after the events `evs` were applied.
After(tree, evs) ==
    [latest |-> ApplyEvents(tree.latest, evs),
     log |-> tree.log \cup evs,
     pushed |-> tree.pushed + Cardinality(evs)]

Log(p, evs) ==
    /\ trees' = [trees EXCEPT ![p] = After(@, evs)]
    /\ known' = [known EXCEPT ![p] = @ \cup FactsOf(evs)]

\* Ledger::append, its topology.
Ingest(p, batch) ==
    LET evs == EventsOf(trees[p].latest, batch, trees[p].pushed)
    IN  /\ ~UsesAbstract(batch)
        /\ ~StagedCycle(trees[p].latest, evs)
        /\ trees[p].pushed + Cardinality(evs) <= MaxLog
        /\ Log(p, evs)
        /\ UNCHANGED <<exports, trims>>

ExportTopology(p) ==
    /\ Cardinality(exports) < MaxExports
    /\ exports' = exports \cup {LogBatch(trees[p].log)}
    /\ UNCHANGED <<trees, trims, known>>

\* The channel forgets an export.
Lose(batch) ==
    /\ exports' = exports \ {batch}
    /\ UNCHANGED <<trees, trims, known>>

\* import_topology.  A merge is refused as a whole when the edges it would leave loop.
ImportTopology(p, batch) ==
    \E evs \in {MergedEvents(trees[p].log, batch, trees[p].pushed)} :
        /\ CheckAcyclic(ApplyEvents(trees[p].latest, evs))
        /\ Log(p, evs)
        /\ UNCHANGED <<exports, trims>>

\* The export of one ledger is brought to another at once.
Sync(p, q) == \E batch \in {LogBatch(trees[q].log)} : ImportTopology(p, batch)

\* The trim that an eviction of the ledger ends with.
TrimLog(p, ws) ==
    /\ trims[p] < MaxTrims
    /\ Trimmed(trees[p].log, ws) # {}
    /\ trees' = [trees EXCEPT ![p].log = @ \ Trimmed(@, ws)]
    /\ trims' = [trims EXCEPT ![p] = @ + 1]
    /\ UNCHANGED <<exports, known>>

FederationInit ==
    /\ trees = [p \in Peer |-> [latest |-> [c \in Id |-> None], log |-> {}, pushed |-> 0]]
    /\ exports = {}
    /\ trims = [p \in Peer |-> 0]
    /\ known = [p \in Peer |-> {}]

FederationNext ==
    \/ \E p \in Peer :
        \/ \E batch \in Writes : Ingest(p, batch)
        \/ ExportTopology(p)
        \/ \E batch \in exports : ImportTopology(p, batch)
        \/ \E q \in Peer : Sync(p, q)
        \/ \E ws \in Epoch : TrimLog(p, ws)
    \/ \E batch \in exports : Lose(batch)

\* Operators run the exchange again and again: "periodic re-sync between two peers is
\* the expected federation pattern".  Nothing else need happen.
Resynced == \A p \in Peer : \A q \in Peer \ {p} : WF_federationVars(Sync(p, q))

FederationSpec == FederationInit /\ [][FederationNext]_federationVars /\ Resynced

-----------------------------------------------------------------------------
(* Properties. *)

\* Whatever was ingested, delivered late, twice or out of order, and trimmed, a ledger's
\* edge is one of the youngest things it ever heard of the child.  So two ledgers that
\* heard the same agree, where no two facts tie.
EdgeIsYoungestKnown ==
    \A p \in Peer : \A c \in Id :
        LET heard == {f \in known[p] : f.child = c}
            edge == trees[p].latest[c]
        IN  IF heard = {} THEN edge = None
            ELSE /\ edge # None
                 /\ [child |-> c, parent |-> edge.parent, epoch |-> edge.since] \in heard
                 /\ \A f \in heard : f.epoch <= edge.since

\* A log whose every fact a ledger has heard, delivered to it again, adds no event when
\* the ledger never trimmed.  When it did, trimmed events come back, and still no edge
\* moves but one whose youngest facts tie, and that one only to another of those.
RedeliveryMovesNoEdge ==
    \A p \in Peer : \A batch \in exports :
        LET again == MergedEvents(trees[p].log, batch, trees[p].pushed)
            edges == trees[p].latest
        IN  ToSet(batch) \subseteq known[p] =>
                /\ trims[p] = 0 => again = {}
                /\ \A c \in Id :
                      \/ ApplyEvents(edges, again)[c] = edges[c]
                      \/ \E e \in Of(again, c) :
                            /\ ApplyEvents(edges, again)[c] = EdgeOf(e)
                            /\ e.epoch = edges[c].since

\* p's edges would loop with what q's log adds to them.
Contradicts(p, q) ==
    LET evs == MergedEvents(trees[p].log, LogBatch(trees[q].log), trees[p].pushed)
    IN  ~CheckAcyclic(ApplyEvents(trees[p].latest, evs))

\* Two ledgers that keep syncing end with the same facts, or with logs that contradict
\* each other so that one of them refuses the other's.
PeersConverge ==
    <>[](\A p, q \in Peer :
            \/ FactsOf(trees[p].log) = FactsOf(trees[q].log)
            \/ Contradicts(p, q) \/ Contradicts(q, p))
=============================================================================
