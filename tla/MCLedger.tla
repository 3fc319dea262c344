------------------------------ MODULE MCLedger ------------------------------
(* Instances of Ledger for TLC. *)
EXTENDS Ledger

CONSTANTS a, b, earth, mars

MCByteOrder == (a :> 2) @@ (b :> 1) @@ (earth :> 3) @@ (mars :> 4)

\* Two entities under one root, so the tree only grows.
At(c, t) == [id |-> c, frame |-> earth, epoch |-> t, priority |-> 1]
Better(c, t) == [At(c, t) EXCEPT !.priority = 0]

\* Peers that know the entities below one another: merges that commit, that are
\* stale, and that close a cycle.
Stated(c, f, t) == [child |-> c, parent |-> f, epoch |-> t]
MCPeerLogs == {<<Stated(b, a, 2)>>, <<Stated(a, b, 3), Stated(a, earth, 1)>>}

\* Single rows, one of a better estimate type, and batches that mix old with new,
\* tie with rows sent before, and descend.
LedgerBatches ==
    {<<At(a, 1)>>, <<Better(a, 2)>>, <<At(b, 3)>>} \cup
    {<<At(a, 1), At(b, 3)>>, <<At(b, 2), At(a, 2)>>, <<At(a, 3), At(a, 2)>>}

\* A late row about a parent that changes.
Move(f, t) == [id |-> a, frame |-> f, epoch |-> t, priority |-> 1]
LateBatches == {<<Move(b, 1)>>, <<Move(b, 3)>>, <<Move(earth, 2)>>}
=============================================================================
