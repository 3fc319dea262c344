--------------------------- MODULE TransformTree ----------------------------
(***************************************************************************)
(* A TransformTree under the three operations that change it, in any order *)
(* and with any input: ingest_batch, merge_log_batch and trim_before.  A   *)
(* rejected batch or merge is the absence of a step: the code returns Err  *)
(* before it writes `latest` or `log`.                                     *)
(***************************************************************************)
EXTENDS Topology

CONSTANTS
    Batches,    \* the batches of rows a client may append
    PeerLogs,   \* the exported logs a client may send to merge
    MaxPushed   \* bound: how many events are ever pushed onto the log

ASSUME InputsAssumption ==
    /\ Batches \subseteq Seq(Row)
    /\ PeerLogs \subseteq Seq(Fact)
    /\ MaxPushed \in Nat

VARIABLES
    latest,     \* child -> (parent, since), or None
    log,        \* every parent change kept, as positioned events
    pushed      \* how many events were ever pushed: the next position minus one

vars == <<latest, log, pushed>>

TypeOK ==
    /\ latest \in [Id -> Edge \cup {None}]
    /\ log \in SUBSET Event
    /\ pushed \in Nat

Init ==
    /\ latest = [c \in Id |-> None]
    /\ log = {}
    /\ pushed = 0

\* Applies a set of events positioned after everything pushed before.
Commit(evs) ==
    /\ pushed + Cardinality(evs) <= MaxPushed
    /\ latest' = ApplyEvents(latest, evs)
    /\ log' = log \cup evs
    /\ pushed' = pushed + Cardinality(evs)

IngestBatch(batch) ==
    /\ ~UsesAbstract(batch)
    /\ LET evs == EventsOf(latest, batch, pushed)
       IN  /\ ~StagedCycle(latest, evs)
           /\ Commit(evs)

MergeLogBatch(peer) ==
    LET evs == MergedEvents(log, peer, pushed)
    IN  /\ CheckAcyclic(ApplyEvents(latest, evs))
        /\ Commit(evs)

TrimBefore(ws) ==
    /\ log' = log \ Trimmed(log, ws)
    /\ UNCHANGED <<latest, pushed>>

Next ==
    \/ \E batch \in Batches : IngestBatch(batch)
    \/ \E peer \in PeerLogs : MergeLogBatch(peer)
    \/ \E ws \in Epoch : TrimBefore(ws)

Spec == Init /\ [][Next]_vars

-----------------------------------------------------------------------------
(* What holds whatever is ingested, merged and trimmed. *)

\* latest and log are two records of one history kept by separate code paths
\* (apply_event writes both, trim_before rewrites only the log).  A child's
\* current edge is always the event in force among those the log still holds:
\* highest epoch, the last applied on ties.  In particular no trim drops it,
\* and a peer that replays the exported log starts from the same edges.
LatestIsReplay ==
    \A c \in Id :
        IF latest[c] = None THEN Of(log, c) = {}
        ELSE \E e \in Of(log, c) :
                /\ latest[c] = EdgeOf(e)
                /\ \A f \in Of(log, c) : f = e \/ Before(f, e)

\* The log is an append-only vector but for trims: events keep distinct
\* positions, none beyond the last push, so "applied later" is a total order.
LogIsOrdered ==
    /\ \A e \in log : e.at \in 1..pushed
    /\ \A e, f \in log : e.at = f.at => e = f

\* No operation rolls a current edge back in time or forgets a child, even when
\* late rows and old federation logs arrive (the promise of apply_event).
EdgesOnlyAdvance ==
    \A c \in Id : latest[c] # None => latest'[c] # None /\ latest'[c].since >= latest[c].since

NeverRollsBack == [][EdgesOnlyAdvance]_vars

\* The commit loop applies events one at a time.  Whatever step added events,
\* `latest` is what pushing exactly those events in log order would leave.
AppliedOneByOne(edges, evs) ==
    LET at(k) == CHOOSE e \in evs : Cardinality({f \in evs : f.at < e.at}) = k - 1
        F[k \in 0..Cardinality(evs)] ==
            IF k = 0 THEN edges ELSE ApplyEvent(F[k - 1], at(k))
    IN  F[Cardinality(evs)]

CommitIsSequential ==
    [][latest' = AppliedOneByOne(latest, log' \ log)]_vars
=============================================================================
