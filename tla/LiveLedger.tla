----------------------------- MODULE LiveLedger -----------------------------
(***************************************************************************)
(* A Ledger whose entities publish their rows in the order of their        *)
(* epochs.  Three records of "where is X, relative to whom" are then kept  *)
(* by three code paths (the rows, the pose cache, the transform tree) and  *)
(* all of them have to tell the same story through seals and evictions.    *)
(***************************************************************************)
EXTENDS Ledger

CONSTANT
    OneClock    \* TRUE when, moreover, all producers share one ordered stream

\* Every row is younger than all the entity's rows before it.
EntityOrdered(batch) ==
    /\ \A r \in DOMAIN batch :
          latestPose[batch[r].id] # None => batch[r].epoch > latestPose[batch[r].id].epoch
    /\ \A q, r \in DOMAIN batch :
          batch[q].id = batch[r].id /\ batch[q].epoch = batch[r].epoch => q = r

\* No row is older than any row before it, of whichever entity.
ClockOrdered(batch) ==
    /\ \A r \in DOMAIN batch : \A p \in accepted : batch[r].epoch >= p.epoch
    /\ \A q, r \in DOMAIN batch : q < r => batch[q].epoch <= batch[r].epoch

Continues(batch) == EntityOrdered(batch) /\ (OneClock => ClockOrdered(batch))

LiveNext ==
    \/ \E batch \in Batches, copyOk \in CopyOutcomes, evictable \in Evictable :
          Continues(batch) /\ AppendBatch(batch, copyOk, evictable)
    \/ \E lim \in Limits, stuck \in SplitFailures, evictable \in Evictable :
          SetMemoryLimit(lim, stuck, evictable)

LiveSpec == Init /\ [][LiveNext]_ledgerVars

-----------------------------------------------------------------------------

\* The whole history, as a reader would tell it: the entity's last row appended
\* that is not after `epoch`, and the chain of such rows up to a frame that never
\* had a row, or None when some row is missing or the chain comes back.
LastRow(c, epoch) ==
    CHOOSE r \in NewestOf({q \in OfEntity(accepted, c) : q.epoch <= epoch}) : TRUE

HasRow(c, epoch) == \E r \in OfEntity(accepted, c) : r.epoch <= epoch

TrueChain(c, epoch) ==
    LET climb[hops \in Seq(StoredRow)] ==
            LET frame == Last(hops).frame
            IN  IF frame \notin Soloc \/ OfEntity(accepted, frame) = {}
                THEN [root |-> frame, poses |-> [k \in DOMAIN hops |-> hops[k].pose]]
                ELSE IF ~HasRow(frame, epoch) \/ \E k \in DOMAIN hops : hops[k].id = frame
                THEN None
                ELSE climb[Append(hops, LastRow(frame, epoch))]
    IN  IF HasRow(c, epoch) THEN climb[<<LastRow(c, epoch)>>] ELSE None

\* A transform is composed from two records: each hop's parent comes from the
\* topology log, its pose from the rows or the pose cache.  With one clock, a
\* transform is the true one or none at all, at every epoch, whatever was
\* split, pinned, evicted and trimmed.
TransformsAreTrue ==
    \A c \in Soloc, t \in Epoch :
        ResolveToRoot(c, t) # None => ResolveToRoot(c, t) = TrueChain(c, t)

\* "Each entity's latest row is kept, so `current_state` and present-epoch
\* transforms still see every entity": no eviction or trim changes the transform
\* of any entity at an epoch no row is after, missing ones included.
PresentTransformsSurvive ==
    \A c \in Soloc, t \in Epoch :
        (\A r \in accepted : r.epoch <= t) => ResolveToRoot(c, t) = TrueChain(c, t)

\* With one clock, no past chain loops either: history has no cycle at any epoch,
\* although the check of each batch only walks the current edges.
NeverCyclicAtAnyEpoch ==
    \A t \in Epoch : LET par == [c \in Id |-> ParentAt(latest, log, c, t)]
                     IN  \A c \in Soloc : ~Looping(par, c)

\* Every stored row, pinned ones included, is expressed in the frame the
\* topology gives its entity at the row's epoch: trimming by the window of the
\* sealed and tail rows never outruns the rows that are still there.
StoredRowsAreExplained ==
    \A r \in StoredRows(store) : ParentAt(latest, log, r.id, r.epoch) = r.frame

\* In-order streams never close a cycle unnoticed, so the chain walk ends.
NeverCyclic == CheckAcyclic(latest)
=============================================================================
