------------------------------ MODULE Reproject ------------------------------
(***************************************************************************)
(* transform_batch (transforms.rs) and Ledger::transform: the rows of a    *)
(* batch are put into one target frame, one after another, with three      *)
(* caches that live as long as the call: what the resolver answered, the   *)
(* anise frame of a root, and the rotation of the J2000 axes.              *)
(*                                                                         *)
(* Vectors and rotations are not computed.  A row's result says which      *)
(* lookups it is composed of; each of them depends on the row's frame and  *)
(* on its epoch, so a result composed of another row's lookup shows.       *)
(***************************************************************************)
EXTENDS Ephemeris

CONSTANTS
    RowBatches,     \* batches to transform: rows [frame, unit, scale, epoch, source, estimate]
    Targets,        \* names of target frames
    TargetUnits,    \* codes of target units
    CallKernels,    \* sets of kernels that the almanac may hold during a call
    ResolveToRoot(_, _) \* Ledger::resolve_to_root at an epoch: the set of [root, pose]

ASSUME ReprojectAssumption ==
    \A batch \in RowBatches : Len(batch) \in Nat /\ DOMAIN batch = 1..Len(batch)

VARIABLES
    call,           \* the call: [batch, target, unit, kernels]
    row,            \* the next row
    dynamicCache,   \* (frame, epoch) -> the resolver's answer
    rootCache,      \* root id -> anise frame
    j2000Cache,     \* epoch -> rotation
    reprojected     \* the rows so far, and whether the call is done or failed

reprojectVars == <<call, row, dynamicCache, rootCache, j2000Cache, reprojected>>
caches == <<dynamicCache, rootCache, j2000Cache>>

Running == [rows |-> <<>>, done |-> FALSE, failed |-> FALSE]
Failed == [rows |-> <<>>, done |-> TRUE, failed |-> TRUE]

\* batch_references_entity_frames: without one the batch is transformed with no resolver.
ReferencesEntityFrames(batch) == \E i \in DOMAIN batch : batch[i].frame.kind = KindSoloc

Resolve(batch, frame, epoch) == IF ReferencesEntityFrames(batch) THEN ResolveToRoot(frame, epoch) ELSE {}

DynamicKey(frame, epoch) == <<frame, epoch>>

\* Bug: the rotation of the first row is used for all.
J2000KeyOfCall(epoch) == 0

J2000Key(epoch) == epoch

Cached(cache, key, answer) == IF key \in DOMAIN cache THEN cache[key] ELSE answer
Remember(cache, key, answer) == [k \in DOMAIN cache \cup {key} |-> IF k = key THEN answer ELSE cache[k]]

\* resolve_root_frame: an entity that no pose was found for is an error, and so is a label.
ResolveRootFrame(id) == IF id.kind = KindAstro THEN {AstroFrame(id)} ELSE {}

\* The root a row's frame leads to and its pose in it; a frame that is not resolved stands
\* for itself.
RootOf(resolved, frame) ==
    IF resolved = {} THEN [root |-> frame, pose |-> "own"] ELSE CHOOSE r \in resolved : TRUE

\* The axes of the translation need turning unless the target has them or the origins meet.
NeedsJ2000(rootFrame, targetFrame) ==
    targetFrame.orient # J2000Axes /\ rootFrame.eph # targetFrame.eph

Identity == [turn |-> <<J2000Axes, J2000Axes>>, at |-> 0]

J2000To(kernels, targetFrame, epoch) ==
    Rotate(kernels, WithOrient(targetFrame, J2000Axes), targetFrame, epoch)

\* A row in the target frame, composed of its lookups.
Composed(r, target, unit, root, r1, r2, turn) ==
    [frame |-> Astronomical(target), unit |-> unit, scale |-> r.scale, epoch |-> r.epoch,
     source |-> r.source, estimate |-> r.estimate, from |-> r.unit, pose |-> root.pose,
     translation |-> r1, rotation |-> r2, axes |-> turn]

\* What the lookups of a row are composed to: nothing, if one of them has no answer.
Results(c, r, target, root, frames, turns) ==
    {Composed(r, target, c.unit, root, r1, r2, turn) :
        r1 \in UNION {Translate(c.kernels, f, target, r.epoch) : f \in frames},
        r2 \in UNION {Rotate(c.kernels, f, target, r.epoch) : f \in frames},
        turn \in turns}

-----------------------------------------------------------------------------
ExchangeDescriptor == [target_frame : Targets, target_units : TargetUnits]

ReprojectInit ==
    /\ \E batch \in RowBatches, desc \in ExchangeDescriptor, kernels \in CallKernels :
          call = [batch |-> batch, target |-> desc.target_frame, unit |-> desc.target_units,
                  kernels |-> kernels]
    /\ row = 1
    /\ dynamicCache = <<>> /\ rootCache = <<>> /\ j2000Cache = <<>>
    /\ reprojected = Running

\* The call fails, at its target or its unit, before it looks at a row.
RefuseCall ==
    /\ ~reprojected.done /\ row = 1
    /\ call.target \notin FrameNames \/ ~Decodes(LengthUnit, call.unit)
    /\ reprojected' = Failed
    /\ UNCHANGED <<call, row, caches>>

\* One turn of the row loop.
TransformRow ==
    /\ ~reprojected.done /\ row <= Len(call.batch)
    /\ call.target \in FrameNames /\ Decodes(LengthUnit, call.unit)
    /\ LET r == call.batch[row]
           target == FramePair(call.target)
           resolved == Cached(dynamicCache, DynamicKey(r.frame, r.epoch),
                              Resolve(call.batch, r.frame, r.epoch))
           root == RootOf(resolved, r.frame)
           frames == Cached(rootCache, root.root, ResolveRootFrame(root.root))
           turns == IF \E f \in frames : NeedsJ2000(f, target)
                    THEN Cached(j2000Cache, J2000Key(r.epoch), J2000To(call.kernels, target, r.epoch))
                    ELSE {Identity}
           results == Results(call, r, target, root, frames, turns)
       IN  /\ dynamicCache' = Remember(dynamicCache, DynamicKey(r.frame, r.epoch), resolved)
           /\ rootCache' = IF frames = {} THEN rootCache ELSE Remember(rootCache, root.root, frames)
           /\ j2000Cache' = IF turns \in {{}, {Identity}} THEN j2000Cache
                            ELSE Remember(j2000Cache, J2000Key(r.epoch), turns)
           /\ IF results = {} THEN reprojected' = Failed
              ELSE \E result \in results :
                      reprojected' = [reprojected EXCEPT !.rows = Append(@, result)]
           /\ row' = row + 1
           /\ UNCHANGED call

\* The batch is rebuilt with the struct column of the new rows.
Rebuild ==
    /\ ~reprojected.done /\ row > Len(call.batch)
    /\ call.target \in FrameNames /\ Decodes(LengthUnit, call.unit)
    /\ reprojected' = [reprojected EXCEPT !.done = TRUE]
    /\ UNCHANGED <<call, row, caches>>

ReprojectNext == RefuseCall \/ TransformRow \/ Rebuild

ReprojectSpec == ReprojectInit /\ [][ReprojectNext]_reprojectVars

-----------------------------------------------------------------------------
(* Properties. *)

\* What row i would give in a batch of its own, were there nothing to remember.
Alone(i) ==
    LET r == call.batch[i]
        target == FramePair(call.target)
        root == RootOf(Resolve(call.batch, r.frame, r.epoch), r.frame)
    IN  UNION {{Composed(r, target, call.unit, root, r1, r2, turn) :
                  r1 \in Translate(call.kernels, f, target, r.epoch),
                  r2 \in Rotate(call.kernels, f, target, r.epoch),
                  turn \in IF NeedsJ2000(f, target) THEN J2000To(call.kernels, target, r.epoch)
                           ELSE {Identity}} : f \in ResolveRootFrame(root.root)}

\* The caches are not seen: every row is resolved at its own frame and epoch, whatever rows
\* came before it, and keeps its place.
RowsStandAlone == \A i \in DOMAIN reprojected.rows : {reprojected.rows[i]} = Alone(i)

\* An answer has every row of the batch, and there is no answer only if the request is
\* wrong or some row has none: no row is dropped, none fails for another's sake.
AnswersIffEveryRowCan ==
    reprojected.done =>
        /\ reprojected.failed \/ Len(reprojected.rows) = Len(call.batch)
        /\ reprojected.failed <=> \/ call.target \notin FrameNames \/ ~Decodes(LengthUnit, call.unit)
                                  \/ \E i \in DOMAIN call.batch : Alone(i) = {}

\* A batch is transformed as its rows would be one by one, and answered exactly when each
\* of them has an answer: the three caches, and what failed before, are never seen.
TransformsRowByRow == RowsStandAlone /\ AnswersIffEveryRowCan
=============================================================================
