------------------------ MODULE PartStudioProperties -----------------------
(***************************************************************************)
(* What a part studio promises of execute() and of its JSON document, and  *)
(* at the end a promise of its documentation the code does not keep.       *)
(***************************************************************************)
EXTENDS PartStudio, FeatureTreeProperties

Declarations == [default : Literals, allowed : SUBSET Literals]

(* The type invariant. *)
PSTypeOK ==
    /\ TypeOK
    /\ DOMAIN schema \subseteq Inputs /\ schema \in [DOMAIN schema -> Declarations]
    /\ call \in Calls
    /\ finalShape \in Shapes
    /\ outcome \in Outcomes
    /\ document # NoDocument =>
          /\ document.tree.features \in Seq(Features)
          /\ document.tree.rollbackIndex \in Nat

-----------------------------------------------------------------------------
(* The transformer captures the caller's config by reference, so it must   *)
(* not outlive execute(), whichever way the call ends.                     *)
TransformerScoped == call = "none" => featureTransformer = NoTransformer

(* The state of a studio is well formed, and lends nothing between calls.  *)
StudioConsistent == PSTypeOK /\ TransformerScoped

(* Whatever was replayed before, and with which configuration: a shape     *)
(* that execute() returns is made of operations of features that are part  *)
(* of the tree, enabled and not broken, each with the value this           *)
(* configuration gives it.                                                 *)
Supports(by, val) ==
    \E i \in DOMAIN features :
        /\ features[i].id = by
        /\ features[i].status = "OK"
        /\ ~features[i].suppressed
        /\ EffectiveValue(features[i], featureTransformer) = val

OutputUsesThisConfig ==
    call = "returned" =>
        \A op \in Range(finalShape.geo) :
            /\ Supports(op.by, op.val)
            /\ \A used \in op.on : Supports(used[1], used[2])

(* Status Ok means complete: shape and identities are those of a full      *)
(* replay, under this configuration, of a tree that was never executed.    *)
OkMeansComplete ==
    call = "returned" /\ outcome = "Ok" =>
        finalShape = FullReplay(features, featureTransformer)[Len(features)].shape

-----------------------------------------------------------------------------
(* "execute() is deterministic in (tree, schema, config, ctx.documentId).  *)
(* Repeated calls with the same ConfigValue yield identical shape          *)
(* identities and geometry" (part_studio.h).  The transformed copy carries *)
(* the status of the previous run, so a feature that once failed is never  *)
(* executed again, whatever the configuration.                             *)
ExecuteIsDeterministic ==
    call = "returned" /\ features # <<>> =>
        finalShape = FullReplay(features, featureTransformer)[Len(features)].shape

=============================================================================
