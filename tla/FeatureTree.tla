---------------------------- MODULE FeatureTree ----------------------------
(***************************************************************************)
(* The parametric feature tree and its incremental replay engine           *)
(* (feature/feature_tree.h, feature/feature_tree.cpp).                     *)
(*                                                                         *)
(* The tree is an ordered list of features with, per feature id, the shape *)
(* cached by the last replay, a dirty flag and the state of the context's  *)
(* identity allocator just before the feature ran.  Edits mark a suffix of *)
(* the list dirty; a replay re-executes a suffix and refreshes the three   *)
(* maps.  A replay is its loop: one step per feature.  The kernel is used  *)
(* by one thread per context, so no edit falls between two of its steps.   *)
(*                                                                         *)
(* Positions count from 1 here and from 0 in the code; rollbackIndex is    *)
(* the code's plus one, so that 0 is the code's -1, "to the end".          *)
(***************************************************************************)
EXTENDS Feature, SequencesExt

CONSTANTS
    Catalog,      \* the features a caller may add
    NewValues,    \* the values a caller may give to a parameter
    Markers,      \* the rollback indices a caller may ask for (code's plus one)
    Configs,      \* the configurations a transformer may substitute
    Aborts,       \* whether an exception may leave a replay
    MaxFeatures,  \* bound on the length of the list
    MaxIdentity,  \* bound on the allocator's counter
    MaxEdits      \* bound on the number of edits

ASSUME FeatureTreeAssumption ==
    /\ Catalog \subseteq Features
    /\ \A f \in Catalog : f.status = "NotExecuted"
    /\ NewValues \subseteq Literals \cup Inputs
    /\ Markers \subseteq Int
    /\ Configs \subseteq [Inputs -> Literals \cup {Unbound}]
    /\ Aborts \in BOOLEAN
    /\ MaxFeatures \in Nat
    /\ MaxIdentity \in Nat
    /\ MaxEdits \in Nat

VARIABLES
    features,                  \* features_
    cache,                     \* cache_: id -> shape after the feature
    dirty,                     \* dirty_: id -> must be re-executed
    allocatorSnapshotsBefore,  \* allocatorSnapshotsBefore_: id -> counter
    rollbackIndex,             \* rollbackIndex_ + 1
    featureTransformer,        \* featureTransformer_
    counter,                   \* the counter of ctx_->tags()
    phase,                     \* "idle", or the operation the loop serves
    pos,                       \* the loop's index i + 1
    currentShape,              \* the loop's currentShape
    edits                      \* edits made so far: only bounds the model

maps   == <<cache, dirty, allocatorSnapshotsBefore>>
marker == <<rollbackIndex, featureTransformer>>
loop   == <<phase, pos, currentShape>>
vars   == <<features, maps, marker, counter, loop, edits>>

Idle == phase = "idle"

Put(f, k, v)  == [x \in DOMAIN f \cup {k} |-> IF x = k THEN v ELSE f[x]]
Erase(f, k)   == Restrict(f, DOMAIN f \ {k})
EmptyMap      == [x \in {} |-> NullShape]

(* The ids of the features at positions lo..hi of a list. *)
IdsIn(list, lo, hi) == {list[i].id : i \in {j \in DOMAIN list : lo <= j /\ j <= hi}}

AllIds(list) == IdsIn(list, 1, Len(list))

(* dirty_ after markDirtyFrom(index) on `list`. *)
MarkedDirtyFrom(list, flags, index) ==
    LET marked == IdsIn(list, index, Len(list))
    IN  [id \in DOMAIN flags \cup marked |-> IF id \in marked THEN TRUE ELSE flags[id]]

Clamp(x, lo, hi) == IF x < lo THEN lo ELSE IF x > hi THEN hi ELSE x

-----------------------------------------------------------------------------
Init ==
    /\ features = <<>>
    /\ cache = EmptyMap
    /\ dirty = EmptyMap
    /\ allocatorSnapshotsBefore = EmptyMap
    /\ rollbackIndex = 0
    /\ featureTransformer = NoTransformer
    /\ counter = 0
    /\ phase = "idle"
    /\ pos = 1
    /\ currentShape = NullShape
    /\ edits = 0

-----------------------------------------------------------------------------
(* Edits.  A handler given an id that findIndex does not know returns      *)
(* without a change, and so do addFeature and insertFeature when they      *)
(* reject a duplicate id.                                                  *)

Editing == Idle /\ edits < MaxEdits /\ edits' = edits + 1

Unused(id) == id \notin AllIds(features)

AddFeature(f) ==
    /\ Editing
    /\ Unused(f.id)
    /\ Len(features) < MaxFeatures
    /\ features' = Append(features, f)
    /\ dirty' = Put(dirty, f.id, TRUE)
    /\ UNCHANGED <<cache, allocatorSnapshotsBefore, marker, counter, loop>>

InsertFeature(index, f) ==
    /\ Editing
    /\ Unused(f.id)
    /\ Len(features) < MaxFeatures
    /\ LET at == Clamp(index, 1, Len(features) + 1)
       IN  /\ features' = InsertAt(features, at, f)
           /\ dirty' = MarkedDirtyFrom(features', dirty, at)
    /\ UNCHANGED <<cache, allocatorSnapshotsBefore, marker, counter, loop>>

(* Mutant of RemoveFeature: the cached shape outlives the feature. *)
RemoveFeatureKeepingCache(i) ==
    /\ Editing
    /\ LET id == features[i].id
       IN  /\ features' = RemoveAt(features, i)
           /\ allocatorSnapshotsBefore' = Erase(allocatorSnapshotsBefore, id)
           /\ dirty' = MarkedDirtyFrom(features', Erase(dirty, id), i)
    /\ UNCHANGED <<cache, marker, counter, loop>>

RemoveFeature(i) ==
    /\ Editing
    /\ LET id == features[i].id
       IN  /\ features' = RemoveAt(features, i)
           /\ cache' = Erase(cache, id)
           /\ allocatorSnapshotsBefore' = Erase(allocatorSnapshotsBefore, id)
           /\ dirty' = MarkedDirtyFrom(features', Erase(dirty, id), i)
    /\ UNCHANGED <<marker, counter, loop>>

(* Mutant of UpdateParameter: only the features downstream become dirty. *)
UpdateParameterDirtyDownstream(i, value) ==
    /\ Editing
    /\ features' = [features EXCEPT ![i].val = value]
    /\ dirty' = MarkedDirtyFrom(features, dirty, i + 1)
    /\ UNCHANGED <<cache, allocatorSnapshotsBefore, marker, counter, loop>>

UpdateParameter(i, value) ==
    /\ Editing
    /\ features' = [features EXCEPT ![i].val = value]
    /\ dirty' = MarkedDirtyFrom(features, dirty, i)
    /\ UNCHANGED <<cache, allocatorSnapshotsBefore, marker, counter, loop>>

(* Mutant of SuppressFeature: nothing becomes dirty. *)
SuppressFeatureUnnoticed(i, suppress) ==
    /\ Editing
    /\ features' = [features EXCEPT ![i].suppressed = suppress]
    /\ UNCHANGED <<cache, dirty, allocatorSnapshotsBefore, marker, counter, loop>>

SuppressFeature(i, suppress) ==
    /\ Editing
    /\ features' = [features EXCEPT ![i].suppressed = suppress]
    /\ dirty' = MarkedDirtyFrom(features, dirty, i)
    /\ UNCHANGED <<cache, allocatorSnapshotsBefore, marker, counter, loop>>

(* Mutant of MoveFeature: dirty from the old position only. *)
MoveFeatureDirtyFromOld(i, newIndex) ==
    /\ Editing
    /\ LET to == Clamp(newIndex, 1, Len(features))
       IN  /\ to # i
           /\ features' = InsertAt(RemoveAt(features, i), to, features[i])
           /\ dirty' = MarkedDirtyFrom(features', dirty, i)
    /\ UNCHANGED <<cache, allocatorSnapshotsBefore, marker, counter, loop>>

MoveFeature(i, newIndex) ==
    /\ Editing
    /\ LET to == Clamp(newIndex, 1, Len(features))
       IN  /\ to # i
           /\ features' = InsertAt(RemoveAt(features, i), to, features[i])
           /\ dirty' = MarkedDirtyFrom(features', dirty, IF to < i THEN to ELSE i)
    /\ UNCHANGED <<cache, allocatorSnapshotsBefore, marker, counter, loop>>

ReplaceReference(old, new) ==
    /\ Editing
    /\ \E first \in DOMAIN features :
          /\ features[first].ref = old
          /\ \A j \in 1..(first - 1) : features[j].ref # old
          /\ features' = [i \in DOMAIN features |->
                IF features[i].ref = old THEN [features[i] EXCEPT !.ref = new] ELSE features[i]]
          /\ dirty' = MarkedDirtyFrom(features, dirty, first)
    /\ UNCHANGED <<cache, allocatorSnapshotsBefore, marker, counter, loop>>

SetRollbackIndex(index) ==
    /\ Idle
    /\ rollbackIndex' = Clamp(index, 0, Len(features))
    /\ UNCHANGED <<features, maps, featureTransformer, counter, loop, edits>>

SetFeatureTransformer(t) ==
    /\ Idle
    /\ featureTransformer' = t
    /\ UNCHANGED <<features, maps, rollbackIndex, counter, loop, edits>>

(* toJSON: statuses are not part of the document. *)
Unexecuted(f) == [f EXCEPT !.status = "NotExecuted"]

ToJSON ==
    [features      |-> [i \in DOMAIN features |-> Unexecuted(features[i])],
     rollbackIndex |-> rollbackIndex]

(* The marker a loaded tree has: it is set, and clamped, while the new     *)
(* list is still empty.                                                    *)
DecodedMarker(document) == Clamp(document.rollbackIndex, 0, 0)

(* fromJSON of a document toJSON wrote: a fresh tree, on a fresh context   *)
(* or on the one in use.                                                   *)
FromJSON(document) ==
    /\ Idle
    /\ features' = document.features
    /\ cache' = EmptyMap
    /\ dirty' = [id \in AllIds(features') |-> TRUE]
    /\ allocatorSnapshotsBefore' = EmptyMap
    /\ rollbackIndex' = DecodedMarker(document)
    /\ featureTransformer' = NoTransformer
    /\ counter' \in {0, counter}
    /\ UNCHANGED <<loop, edits>>

-----------------------------------------------------------------------------
(* Replay. *)

(* The cached shape of the nearest earlier feature that is not suppressed, *)
(* has status OK and is cached.                                            *)
ShapeBefore(start) ==
    LET usable == {i \in 1..(start - 1) : /\ ~features[i].suppressed
                                          /\ features[i].status = "OK"
                                          /\ features[i].id \in DOMAIN cache}
    IN  IF usable = {} THEN NullShape
        ELSE cache[features[CHOOSE i \in usable : \A j \in usable : j <= i].id]

EnterLoop(start, operation) ==
    /\ phase' = operation
    /\ pos' = start

(* Mutant of Replay: the counter goes on from where it was. *)
ReplayContinuingCounter(operation) ==
    /\ Idle
    /\ EnterLoop(1, operation)
    /\ currentShape' = NullShape
    /\ cache' = EmptyMap
    /\ allocatorSnapshotsBefore' = EmptyMap
    /\ dirty' = MarkedDirtyFrom(features, dirty, 1)
    /\ counter + Len(features) <= MaxIdentity
    /\ UNCHANGED <<features, marker, counter, edits>>

(* replay(), and the full replay replayToRollback() begins with. *)
Replay(operation) ==
    /\ Idle
    /\ EnterLoop(1, operation)
    /\ currentShape' = NullShape
    /\ cache' = EmptyMap
    /\ allocatorSnapshotsBefore' = EmptyMap
    /\ counter' = 0
    /\ dirty' = MarkedDirtyFrom(features, dirty, 1)
    /\ UNCHANGED <<features, marker, edits>>

(* replayFrom() of the first feature, of the empty id or of an unknown id: *)
(* the counter restarts but cache and snapshots are kept.                  *)
ReplayFromFirst ==
    /\ Idle
    /\ EnterLoop(1, "replayFrom")
    /\ currentShape' = NullShape
    /\ counter' = 0
    /\ dirty' = MarkedDirtyFrom(features, dirty, 1)
    /\ UNCHANGED <<features, cache, allocatorSnapshotsBefore, marker, edits>>

(* Mutant of ReplayFromSnapshot: the snapshot is not restored. *)
ReplayFromSnapshotUnrestored(start) ==
    /\ Idle
    /\ start > 1
    /\ features[start].id \in DOMAIN allocatorSnapshotsBefore
    /\ EnterLoop(start, "replayFrom")
    /\ currentShape' = ShapeBefore(start)
    /\ counter' = 0
    /\ dirty' = MarkedDirtyFrom(features, dirty, start)
    /\ UNCHANGED <<features, cache, allocatorSnapshotsBefore, marker, edits>>

(* replayFrom() of a later feature whose allocator state is known. *)
ReplayFromSnapshot(start) ==
    /\ Idle
    /\ start > 1
    /\ features[start].id \in DOMAIN allocatorSnapshotsBefore
    /\ allocatorSnapshotsBefore[features[start].id] + Len(features) <= MaxIdentity
    /\ EnterLoop(start, "replayFrom")
    /\ currentShape' = ShapeBefore(start)
    /\ counter' = allocatorSnapshotsBefore[features[start].id]
    /\ dirty' = MarkedDirtyFrom(features, dirty, start)
    /\ UNCHANGED <<features, cache, allocatorSnapshotsBefore, marker, edits>>

(* replayFrom() of a later feature that was never replayed: everything is *)
(* rebuilt.                                                                *)
ReplayFromUnknown(start) ==
    /\ Idle
    /\ start > 1
    /\ features[start].id \notin DOMAIN allocatorSnapshotsBefore
    /\ EnterLoop(1, "replayFrom")
    /\ currentShape' = NullShape
    /\ cache' = EmptyMap
    /\ allocatorSnapshotsBefore' = EmptyMap
    /\ counter' = 0
    /\ dirty' = MarkedDirtyFrom(features, dirty, 1)
    /\ UNCHANGED <<features, marker, edits>>

(* resolveReference: the ElementRef names an id that is not suppressed and *)
(* whose cached shape is not null, wherever that feature stands.           *)
Resolves(f) == f.ref = NoRef \/ ResolvesIn(features, cache, f.ref)

ReferencedOps(f) == IF f.ref = NoRef THEN {} ELSE Uses(cache[f.ref])

Looping == ~Idle /\ pos <= Len(features)

(* What every turn of the loop does whatever becomes of the feature. *)
TurnOfLoop(status, shape, allocated) ==
    LET f == features[pos]
    IN  /\ allocatorSnapshotsBefore' = Put(allocatorSnapshotsBefore, f.id, counter)
        /\ features' = [features EXCEPT ![pos].status = status]
        /\ cache' = Put(cache, f.id, shape)
        /\ dirty' = Put(dirty, f.id, FALSE)
        /\ currentShape' = shape
        /\ counter' = counter + allocated
        /\ pos' = pos + 1
        /\ UNCHANGED <<marker, phase, edits>>

(* Mutant of SkipSuppressed: the feature stays dirty. *)
SkipSuppressedLeavingDirty ==
    /\ Looping
    /\ features[pos].suppressed
    /\ allocatorSnapshotsBefore' = Put(allocatorSnapshotsBefore, features[pos].id, counter)
    /\ features' = [features EXCEPT ![pos].status = "Suppressed"]
    /\ cache' = Put(cache, features[pos].id, currentShape)
    /\ pos' = pos + 1
    /\ UNCHANGED <<dirty, currentShape, counter, marker, phase, edits>>

SkipSuppressed ==
    /\ Looping
    /\ features[pos].suppressed
    /\ TurnOfLoop("Suppressed", currentShape, 0)

TransformerRejects(f) ==
    featureTransformer # NoTransformer /\ TransformedStatus(f, featureTransformer) \in Broken

(* Mutant of SkipTransformFailure: the shape is dropped. *)
SkipTransformFailureDroppingShape ==
    /\ Looping
    /\ ~features[pos].suppressed
    /\ TransformerRejects(features[pos])
    /\ TurnOfLoop(TransformedStatus(features[pos], featureTransformer), NullShape, 0)

SkipTransformFailure ==
    /\ Looping
    /\ ~features[pos].suppressed
    /\ TransformerRejects(features[pos])
    /\ TurnOfLoop(TransformedStatus(features[pos], featureTransformer), currentShape, 0)

ExecuteFeature ==
    /\ Looping
    /\ ~features[pos].suppressed
    /\ ~TransformerRejects(features[pos])
    /\ LET f      == features[pos]
           val    == EffectiveValue(f, featureTransformer)
           status == ExecutedStatus(f, val, currentShape, Resolves(f))
       IN  IF status = "OK"
           THEN TurnOfLoop("OK", ExecutedShape(f, val, currentShape, ReferencedOps(f), counter + 1), 1)
           ELSE TurnOfLoop(status, currentShape, 0)

(* An exception that executeFeature does not catch leaves the loop while   *)
(* feature `pos` runs: its snapshot is taken and, without a transformer,   *)
(* its status already reset; it stays dirty and its old cache entry stays. *)
Abort ==
    /\ Aborts
    /\ Looping
    /\ ~features[pos].suppressed
    /\ ~TransformerRejects(features[pos])
    /\ allocatorSnapshotsBefore' = Put(allocatorSnapshotsBefore, features[pos].id, counter)
    /\ features' = IF featureTransformer = NoTransformer
                   THEN [features EXCEPT ![pos].status = "OK"]
                   ELSE features
    /\ counter' \in {counter, counter + 1}
    /\ phase' = "idle"
    /\ pos' = 1
    /\ currentShape' = NullShape
    /\ UNCHANGED <<cache, dirty, marker, edits>>

(* The call returns currentShape, or the shape at the rollback marker. *)
Return ==
    /\ ~Idle
    /\ pos > Len(features)
    /\ phase' = "idle"
    /\ pos' = 1
    /\ currentShape' = NullShape
    /\ UNCHANGED <<features, maps, marker, counter, edits>>

(* getFinalShape: the last cached shape that is not null. *)
FinalShape ==
    LET cached == {i \in DOMAIN features : /\ features[i].id \in DOMAIN cache
                                           /\ ~IsNull(cache[features[i].id])}
    IN  IF cached = {} THEN NullShape
        ELSE cache[features[CHOOSE i \in cached : \A j \in cached : j <= i].id]

(* What replayToRollback returns when its replay has ended. *)
RollbackShape ==
    IF rollbackIndex = 0 \/ rollbackIndex > Len(features) THEN currentShape
    ELSE cache[features[rollbackIndex].id]

-----------------------------------------------------------------------------
Edit ==
    \/ \E f \in Catalog : AddFeature(f) \/ \E i \in 0..(MaxFeatures + 1) : InsertFeature(i, f)
    \/ \E i \in DOMAIN features :
          \/ RemoveFeature(i)
          \/ \E v \in NewValues : UpdateParameter(i, v)
          \/ \E s \in BOOLEAN : SuppressFeature(i, s)
          \/ \E j \in 0..(MaxFeatures + 1) : MoveFeature(i, j)
    \/ \E old, new \in Ids : ReplaceReference(old, new)

StartReplay ==
    \/ Replay("replay")
    \/ Replay("replayToRollback")
    \/ ReplayFromFirst
    \/ \E i \in DOMAIN features : ReplayFromSnapshot(i) \/ ReplayFromUnknown(i)

ReplayStep == SkipSuppressed \/ SkipTransformFailure \/ ExecuteFeature \/ Return

Next ==
    \/ Edit
    \/ \E i \in Markers : SetRollbackIndex(i)
    \/ \E t \in Configs \cup {NoTransformer} : SetFeatureTransformer(t)
    \/ StartReplay
    \/ ReplayStep
    \/ Abort

Spec == Init /\ [][Next]_vars

(* A replay is a loop in a function: once entered it runs to its return. *)
Fairness == WF_vars(ReplayStep)

FairSpec == Spec /\ Fairness

=============================================================================
