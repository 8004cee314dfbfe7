----------------------- MODULE FeatureTreeRefinement -----------------------
(***************************************************************************)
(* The incremental engine implements Timeline: at every moment the shapes  *)
(* of its up-to-date features are those of a full replay.  The promise is  *)
(* about geometry and needs references that point upstream, which is what  *)
(* feature_tree.cpp means by "Resolve element references using cached      *)
(* shapes from earlier features".                                          *)
(***************************************************************************)
EXTENDS FeatureTreeProperties, FiniteSetsExt

(* The length of the longest up-to-date prefix. *)
UpToDate == Max({n \in 0..Len(features) : CleanUpTo(n)})

timeline == INSTANCE Timeline WITH
    model <- [i \in DOMAIN features |-> Unexecuted(features[i])],
    shown <- [i \in 1..UpToDate |-> cache[features[i].id].geo]

(* A caller that never lets a reference point downstream. *)
UpstreamSpec == Init /\ [][Next /\ NoForwardRefs']_vars

UpstreamFairSpec == UpstreamSpec /\ Fairness

(* Whatever the order of edits, partial replays and full replays, what is  *)
(* shown of the up-to-date prefix is what a full replay would show.        *)
ImplementsTimeline == timeline!Spec

=============================================================================
