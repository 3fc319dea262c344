----------------------------- MODULE TreeClaims -----------------------------
(***************************************************************************)
(* What the comments of topology.rs say of a TransformTree fed in any      *)
(* order.  None of these holds: LiveStream states how rows have to arrive  *)
(* for them to hold.                                                       *)
(***************************************************************************)
EXTENDS TransformTree

\* ingest_batch: "The batch is rejected as a whole ... if applying it would create
\* a cycle".  The check walks the last staged edge of each child, while the commit
\* keeps the child's youngest edge: a stale staged edge hides a real one.
NoCycleAccepted == CheckAcyclic(latest)

\* trim_before: "So `parent_at` answers the same for every epoch >= window_start".
AnswersFrom(ws) == [c \in Id |-> [t \in ws..MaxEpoch |-> ParentAt(latest, log, c, t)]]
TrimKeepsAnswers ==
    [][\A ws \in Epoch : TrimBefore(ws) => AnswersFrom(ws)' = AnswersFrom(ws)]_vars
=============================================================================
