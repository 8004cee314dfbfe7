----------------------- MODULE FeatureTreeProperties -----------------------
(***************************************************************************)
(* What the feature tree and its replay engine must keep.                  *)
(***************************************************************************)
EXTENDS FeatureTree, FullReplay

MapFrom(f, S) == DOMAIN f \subseteq Ids /\ f \in [DOMAIN f -> S]

(* The type invariant. *)
TypeOK ==
    /\ features \in Seq(Features)
    /\ MapFrom(cache, Shapes)
    /\ MapFrom(dirty, BOOLEAN)
    /\ MapFrom(allocatorSnapshotsBefore, Nat)
    /\ rollbackIndex \in Nat
    /\ featureTransformer \in [Inputs -> Literals \cup {Unbound}] \cup {NoTransformer}
    /\ counter \in Nat
    /\ phase \in {"idle", "replay", "replayFrom", "replayToRollback"}
    /\ pos \in Nat \ {0}
    /\ currentShape \in Shapes

-----------------------------------------------------------------------------
(* Vocabulary *)

(* Every feature up to position i is up to date. *)
CleanUpTo(i) == \A j \in 1..i : ~dirty[features[j].id]

AllClean == CleanUpTo(Len(features))

(* The shape on which the feature at position i works. *)
Base(i) == IF i = 1 THEN NullShape ELSE cache[features[i - 1].id]

(* The reference of feature i, if any, is to a feature before it. *)
RefersUpstream(i) ==
    features[i].ref = NoRef \/ features[i].ref \in IdsIn(features, 1, i - 1)

NoForwardRefs ==
    \A i \in DOMAIN features : features[i].ref \notin IdsIn(features, i, Len(features))

Returning == ~Idle /\ pos > Len(features)

-----------------------------------------------------------------------------
(* Safety *)

(* An id names one feature, and the three maps keyed by id hold nothing of *)
(* a feature that left the list: a stale entry would resurface when its id *)
(* is used again.  Every feature has a dirty flag.                         *)
MapsFollowList ==
    /\ \A i, j \in DOMAIN features : features[i].id = features[j].id => i = j
    /\ DOMAIN cache \subseteq AllIds(features)
    /\ DOMAIN allocatorSnapshotsBefore \subseteq AllIds(features)
    /\ DOMAIN dirty = AllIds(features)

(* The state of a tree is well formed: its types, its ids and its maps.    *)
TreeConsistent == TypeOK /\ MapsFollowList

(* A feature that is up to date, with everything before it up to date too, *)
(* holds exactly what executing it on the shape before it would produce,   *)
(* and has the status that execution would give it, whatever edits and     *)
(* partial replays came before.                                            *)
Coherent(i) ==
    LET f      == features[i]
        status == ExecutedStatus(f, f.val, Base(i), Resolves(f))
    IN  IF f.suppressed
        THEN f.status = "Suppressed" /\ cache[f.id] = Base(i)
        ELSE /\ f.status = status
             /\ IF status = "OK"
                THEN cache[f.id].geo = ExecutedGeo(f, f.val, Base(i), ReferencedOps(f))
                ELSE cache[f.id] = Base(i)

CleanPrefixCoherent ==
    \A i \in DOMAIN features :
        CleanUpTo(i) =>
            /\ features[i].id \in DOMAIN cache
            /\ RefersUpstream(i) => Coherent(i)

(* Two up-to-date features never own the same identity, and a later one    *)
(* owns a larger one: restoring an allocator snapshot never goes back      *)
(* below an identity that is still in use upstream.                        *)
OwnIdentity(i) == Last(cache[features[i].id].ids)

IdentitiesDistinct ==
    \A i, j \in DOMAIN features :
        /\ i < j /\ CleanUpTo(j)
        /\ features[i].status = "OK" /\ features[j].status = "OK"
        => OwnIdentity(i) < OwnIdentity(j)

(* Under any transformer and after any exception: an up-to-date feature    *)
(* that failed or is suppressed passes on the shape before it, and one     *)
(* that succeeded added exactly its own operation.                         *)
CleanShapesFollowStatus ==
    \A i \in DOMAIN features :
        CleanUpTo(i) =>
            LET f == features[i]
            IN  IF f.status = "OK"
                THEN ~IsNull(cache[f.id]) /\ Last(cache[f.id].geo).by = f.id
                ELSE cache[f.id] = Base(i)

(* What a replay returns is what getFinalShape then answers, when nothing  *)
(* is left dirty.                                                          *)
ReturnsFinalShape == Returning /\ AllClean => currentShape = FinalShape

(* The shape replayToRollback returns owes nothing to the features after   *)
(* the marker, not even through a reference.                               *)
RollbackHidesLaterFeatures ==
    Returning /\ phase = "replayToRollback" /\ rollbackIndex \in DOMAIN features =>
        \A op \in Range(RollbackShape.geo) :
            {op.by} \cup {used[1] : used \in op.on} \subseteq IdsIn(features, 1, rollbackIndex)

(* A full replay leaves what the reference replay computes: geometry,      *)
(* identities and statuses do not depend on the edits and replays before.  *)
FullReplayMatches ==
    Returning /\ phase \in {"replay", "replayToRollback"} /\ featureTransformer = NoTransformer =>
        LET reference == FullReplay(features, NoTransformer)
        IN  \A i \in DOMAIN features :
                /\ cache[features[i].id] = reference[i].shape
                /\ features[i].status = reference[i].status

(* What a replay answers: the shape that the tree then has, without what   *)
(* the marker hides, and, after a full one, what the reference computes.   *)
ReplaysAnswerRight == ReturnsFinalShape /\ RollbackHidesLaterFeatures /\ FullReplayMatches

-----------------------------------------------------------------------------
(* Action properties *)

(* A feature still considered up to date after an edit has not been edited,*)
(* nor has anything before it: no edit leaves a stale shape marked clean.  *)
EditsDirtyWhatTheyChange ==
    [][ Idle /\ phase' = "idle" =>
            \A i \in DOMAIN features' :
                CleanUpTo(i)' =>
                    /\ i <= Len(features)
                    /\ \A j \in 1..i : /\ features'[j] = features[j]
                                       /\ cache'[features[j].id] = cache[features[j].id] ]_vars

-----------------------------------------------------------------------------
(* Liveness *)

(* A replay returns, and from its starting point on nothing is dirty then. *)
ReplayCompletes ==
    \A start \in 1..(MaxFeatures + 1) :
        (~Idle /\ pos = start) ~>
            (Idle /\ \A i \in DOMAIN features : i >= start => ~dirty[features[i].id])

=============================================================================
