--------------------------- MODULE LedgerRestart ----------------------------
(***************************************************************************)
(* A LiveLedger that is saved and loaded again: save_ipc writes the stored *)
(* batches in storage order and nothing else; load_ipc makes each of them  *)
(* a sealed segment, and rebuilds the tree and the pose cache by ingesting *)
(* them in that order; the server then sets its memory limit.  Merged      *)
(* topology and trimmed history are not in the file.                       *)
(***************************************************************************)
EXTENDS LiveLedger

VARIABLE
    lost        \* history: the rows of `accepted` that were gone at the last load

restartVars == <<ledgerVars, lost>>

\* Bug: only what append and seal wrote is saved.
SavedUnpinned ==
    LET segs == store.segments \o store.tail IN [k \in DOMAIN segs |-> segs[k].rows]

\* Bug: the tail is written first.
SavedTailFirst ==
    LET segs == store.tail \o store.segments IN [k \in DOMAIN segs |-> segs[k].rows]

Saved == [k \in DOMAIN AllSegments(store) |-> AllSegments(store)[k].rows]

\* rebuild_derived_state, batch after batch; `ok` turns FALSE at the first one
\* ingest_batch refuses.
Blank == [ok |-> TRUE, edges |-> [c \in Id |-> None], events |-> {}, pushed |-> 0,
          poses |-> [c \in Id |-> None]]

Ingested(st, batch) ==
    LET evs == EventsOf(st.edges, batch, st.pushed)
    IN  IF ~st.ok \/ UsesAbstract(batch) \/ StagedCycle(st.edges, evs)
        THEN [st EXCEPT !.ok = FALSE]
        ELSE [ok |-> TRUE,
              edges |-> ApplyEvents(st.edges, evs),
              events |-> st.events \cup evs,
              pushed |-> st.pushed + Cardinality(evs),
              poses |-> UpdatePoseCache(st.poses, batch)]

Rebuilt(batches) == FoldLeft(Ingested, Blank, batches)

\* from_loaded: every saved batch is a sealed segment as it stands.
Loaded(batches) ==
    LET segs == [k \in DOMAIN batches |-> Decoded(batches[k])]
    IN  [pinned |-> None, segments |-> segs, tail |-> <<>>, resident |-> Bytes(segs)]

\* A clean stop and start.  A file that does not load is not a step.
Restart(lim) ==
    LET derived == Rebuilt(Saved)
        split == SplitSealed(Loaded(Saved), SegmentTarget(lim), {})
    IN  /\ Len(AllSegments(store)) > 0
        /\ derived.ok
        /\ limit' = lim
        /\ store' = EnforceLimit(split, lim, derived.poses, None)
        /\ latest' = derived.edges
        /\ log' = TrimmedLog(derived.events, split, store')
        /\ pushed' = derived.pushed
        /\ latestPose' = derived.poses
        /\ lost' = accepted \ StoredRows(store)
        /\ UNCHANGED <<appended, accepted>>

RestartInit == Init /\ lost = {}

RestartNext ==
    \/ LiveNext /\ UNCHANGED lost
    \/ \E lim \in Limits : Restart(lim)

RestartSpec == RestartInit /\ [][RestartNext]_restartVars

-----------------------------------------------------------------------------

\* "Errors if the stored data contains a cycle, which a ledger built through
\* `append` cannot produce": whatever is stored loads again.
StoredDataLoads == Rebuilt(Saved).ok

\* "Save/load round-trips, rebuilding all derived state": what the rebuilt ledger
\* says of the present (every entity's parent and cached pose) is what the
\* running one says, although sealing merged batches, eviction dropped rows, and
\* pinning moved others to the front.
ReloadKeepsPresent ==
    LET derived == Rebuilt(Saved)
    IN  derived.ok =>
            /\ derived.poses = latestPose
            /\ \A c \in Id : ParentOf(derived.edges, c) = ParentOf(latest, c)

\* With one clock, the window has no gap that eviction made since the last load:
\* every row after its start is stored unless it was gone by then, however
\* segments were cut.  (A load turns pinned rows into sealed ones, so the start
\* may reach back over rows evicted before it.)
WindowIsFull ==
    WindowStart(store) # None =>
        \A r \in accepted \ lost : r.epoch > WindowStart(store) => r \in StoredRows(store)
=============================================================================
