----------------------------- MODULE LiveStream -----------------------------
(***************************************************************************)
(* A TransformTree fed the way a live producer feeds it: each entity's     *)
(* rows arrive in the order of their epochs.  Only the arrival order is    *)
(* restricted; ingest_batch and trim_before are TransformTree's own.       *)
(* What the tree then promises is ParentHistory.                           *)
(***************************************************************************)
EXTENDS TransformTree

VARIABLES
    published,  \* history: every row accepted so far
    window      \* the greatest window start the tree was trimmed to

liveVars == <<latest, log, pushed, published, window>>

LiveInit ==
    /\ Init
    /\ published = {}
    /\ window = 0

\* The batch continues every entity's stream.
InOrder(batch) ==
    /\ \A r \in DOMAIN batch : \A p \in published :
          p.id = batch[r].id => p.epoch < batch[r].epoch
    /\ \A q, r \in DOMAIN batch :
          batch[q].id = batch[r].id /\ batch[q].epoch = batch[r].epoch => q = r

Ingest(batch) ==
    /\ InOrder(batch)
    /\ IngestBatch(batch)
    /\ published' = published \cup {batch[r] : r \in DOMAIN batch}
    /\ UNCHANGED window

Trim(ws) ==
    /\ TrimBefore(ws)
    /\ window' = IF ws > window THEN ws ELSE window
    /\ UNCHANGED published

LiveNext ==
    \/ \E batch \in Batches : Ingest(batch)
    \/ \E ws \in Epoch : Trim(ws)

LiveSpec == LiveInit /\ [][LiveNext]_liveVars

-----------------------------------------------------------------------------
(* Refinement. *)

History == INSTANCE ParentHistory WITH
    Observations <- {{batch[r] : r \in DOMAIN batch} : batch \in Batches},
    parentOf <- [c \in Id |-> [x \in Epoch |->
                    IF x < window THEN None ELSE ParentAt(latest, log, c, x)]]

\* For in-order streams, parent_at (current edge first, then the log from its
\* end) answers every epoch of the window with the frame of the entity's last
\* row at or before it, although only changes of parent are stored, a batch
\* that changes nothing stores nothing, and trims drop events.
IsParentHistory == History!Spec

\* For in-order streams no sequence of accepted batches leaves a cycle in the
\* current edges, although each cycle check walks only from the children whose
\* parent the batch changes.
NeverCyclic == CheckAcyclic(latest)

\* For in-order streams the check refuses a batch exactly when applying it
\* would close a cycle: the staged edges it walks are the edges the commit
\* leaves.
RefusesExactlyCycles ==
    \A batch \in Batches :
        InOrder(batch) /\ ~UsesAbstract(batch) =>
            LET evs == EventsOf(latest, batch, pushed)
            IN  StagedCycle(latest, evs) <=> ~CheckAcyclic(ApplyEvents(latest, evs))
=============================================================================
