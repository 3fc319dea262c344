---------------------------- MODULE MCLiveLedger ----------------------------
(* Instances of LiveLedger for TLC. *)
EXTENDS LiveLedger

CONSTANTS a, b, earth, mars

MCByteOrder == (a :> 2) @@ (b :> 1) @@ (earth :> 3) @@ (mars :> 4)

Moved(c, f, t) == [id |-> c, frame |-> f, epoch |-> t, priority |-> 0]

\* Batches whose rows might as well be appended one by one: one row of `a` or `b`
\* in any frame but its own, or a row of each that moves an entity to a root and
\* the other one below it.
StepwiseBatches ==
    {<<Moved(m[1], m[2], t)>> :
        m \in {<<a, b>>, <<a, earth>>, <<b, a>>, <<b, earth>>}, t \in 1..MaxEpoch} \cup
    {<<Moved(a, earth, 2), Moved(b, a, 2)>>, <<Moved(b, earth, 3), Moved(a, b, 3)>>}

\* And the empty batch, and batches that only make sense as a whole: one entity
\* re-parented twice, and two entities that swap.
MCBatches ==
    StepwiseBatches \cup
    {<<>>, <<Moved(a, b, 2), Moved(a, earth, 3)>>, <<Moved(b, a, 1), Moved(b, earth, 2)>>,
     <<Moved(a, b, 2), Moved(b, earth, 2)>>, <<Moved(a, b, 1), Moved(b, earth, 3)>>}
=============================================================================
