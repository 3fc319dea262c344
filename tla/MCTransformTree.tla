-------------------------- MODULE MCTransformTree ---------------------------
(* Instances of TransformTree for TLC: two entities, one or two astronomical *)
(* roots, batches and peer logs of one or two rows in every order.           *)
EXTENDS TreeClaims, TLC

CONSTANTS a, b, earth, label

MCByteOrder == (a :> 2) @@ (b :> 1) @@ (earth :> 3) @@ (label :> 4)

\* Rows of two entities about each other and an astronomical root; a row about
\* itself; and one that uses a provenance label as its frame.
Moves == [id : {a, b}, frame : {a, b, earth}, epoch : 1..MaxEpoch]
MCRow == {r \in Moves : r.frame # r.id}
SelfRow == [id |-> a, frame |-> a, epoch |-> 1]
LabelRow == [id |-> a, frame |-> label, epoch |-> 1]

\* One entity whose rows arrive in any order.
LateRows == {<<[id |-> a, frame |-> f, epoch |-> t]>> : f \in {b, earth}, t \in 1..MaxEpoch}

MCBatches ==
    {<<r>> : r \in MCRow \cup {SelfRow, LabelRow}} \cup {<<q, r>> : q, r \in MCRow}

Stated(r) == [child |-> r.id, parent |-> r.frame, epoch |-> r.epoch]

MCPeerLogs ==
    {<<Stated(r)>> : r \in MCRow \cup {SelfRow}} \cup
    {<<Stated(q), Stated(r)>> : q, r \in MCRow}
=============================================================================
