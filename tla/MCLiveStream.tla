---------------------------- MODULE MCLiveStream ----------------------------
(* Instances of LiveStream for TLC. *)
EXTENDS LiveStream, TLC

CONSTANTS a, b, c, earth, mars

MCByteOrder == (a :> 2) @@ (b :> 1) @@ (c :> 3) @@ (earth :> 4) @@ (mars :> 5)

\* Every row of the entities in Soloc that is not about itself, from epoch 1.
MCRow == {r \in [id : Soloc, frame : Soloc \cup Astro, epoch : 1..MaxEpoch] : r.frame # r.id}
SingleRows == {<<r>> : r \in MCRow}
MCBatches == SingleRows \cup {<<q, r>> : q, r \in MCRow}
=============================================================================
