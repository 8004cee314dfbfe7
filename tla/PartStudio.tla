----------------------------- MODULE PartStudio ----------------------------
(***************************************************************************)
(* A part studio: a feature tree executed as a function of a configuration *)
(* (feature/part_studio.h, feature/part_studio.cpp, feature/config.cpp).   *)
(*                                                                         *)
(* execute() installs a feature transformer that substitutes ConfigRefs,   *)
(* replays the whole tree and removes the transformer again, also when an  *)
(* exception leaves the replay.  The other entry points of the studio go   *)
(* straight to the tree and run without a transformer.  Every step is a    *)
(* step of FeatureTree joined to a step of the studio's own variables.     *)
(***************************************************************************)
EXTENDS FeatureTree

CONSTANTS
    Specs,        \* what addInput may declare: [default, allowed]
    ConfigValues, \* the configurations callers pass: partial maps on Inputs
    NoDocument

ASSUME PartStudioAssumption ==
    /\ Specs \subseteq [default : Literals, allowed : SUBSET Literals]
    /\ \A spec \in Specs : spec.default \in spec.allowed
    /\ \A c \in ConfigValues : DOMAIN c \subseteq Inputs

VARIABLES
    schema,        \* schema_: declared input -> [default, allowed]
    call,          \* where execute() stands
    finalShape,    \* the last PartStudioOutputs: finalShape,
    outcome,       \*   status
    document       \* the last document toJSON wrote

studio == <<schema, call, finalShape, outcome, document>>

psVars == <<vars, studio>>

Calls    == {"none", "entered", "replaying", "rejected", "returned", "thrown"}
Outcomes == {"Ok", "Partial", "Failed"}

-----------------------------------------------------------------------------
PSInit ==
    /\ Init
    /\ schema = EmptyMap
    /\ call = "none"
    /\ finalShape = NullShape
    /\ outcome = "Ok"
    /\ document = NoDocument

(* Edits of the tree, and replays that bypass execute(). *)
TreeStep ==
    /\ call = "none"
    /\ \/ Edit
       \/ Replay("replayToRollback")
       \/ ReplayFromFirst
       \/ \E i \in DOMAIN features : ReplayFromSnapshot(i) \/ ReplayFromUnknown(i)
       \/ ReplayStep
       \/ Abort
    /\ UNCHANGED studio

(* addInput rejects a second input of the same name. *)
AddInput(name, spec) ==
    /\ call = "none" /\ Idle
    /\ name \notin DOMAIN schema
    /\ schema' = Put(schema, name, spec)
    /\ UNCHANGED <<vars, call, finalShape, outcome, document>>

ClearSchema ==
    /\ call = "none" /\ Idle
    /\ schema' = EmptyMap
    /\ UNCHANGED <<vars, call, finalShape, outcome, document>>

(* validateConfig: a bound value must suit its declaration; an unknown     *)
(* input is only a warning.                                                *)
ValidConfig(config) ==
    \A name \in DOMAIN schema \cap DOMAIN config : config[name] \in schema[name].allowed

(* resolveConfigRefs: the bound value, else the schema's default. *)
Resolver(config) ==
    [name \in Inputs |->
        IF name \notin DOMAIN schema THEN Unbound
        ELSE IF name \in DOMAIN config THEN config[name]
        ELSE schema[name].default]

(* executeWithDefaults is Execute(the empty configuration). *)
ExecuteRejected(config) ==
    /\ call = "none" /\ Idle
    /\ ~ValidConfig(config)
    /\ outcome' = "Failed"
    /\ call' = "rejected"
    /\ UNCHANGED <<vars, schema, finalShape, document>>

ExecuteEnter(config) ==
    /\ call = "none"
    /\ ValidConfig(config)
    /\ SetFeatureTransformer(Resolver(config))
    /\ call' = "entered"
    /\ UNCHANGED <<schema, finalShape, outcome, document>>

(* Mutant of ExecuteReplay: a tree with nothing dirty is not replayed. *)
ExecuteReplayIfDirty ==
    /\ call = "entered"
    /\ IF \E i \in DOMAIN features : dirty[features[i].id]
       THEN Replay("replay")
       ELSE /\ EnterLoop(Len(features) + 1, "replay")
            /\ currentShape' = FinalShape
            /\ UNCHANGED <<features, maps, marker, counter, edits>>
    /\ call' = "replaying"
    /\ UNCHANGED <<schema, finalShape, outcome, document>>

ExecuteReplay ==
    /\ call = "entered"
    /\ Replay("replay")
    /\ call' = "replaying"
    /\ UNCHANGED <<schema, finalShape, outcome, document>>

ExecuteLoop ==
    /\ call = "replaying"
    /\ SkipSuppressed \/ SkipTransformFailure \/ ExecuteFeature
    /\ UNCHANGED studio

BrokenFeatures == {i \in DOMAIN features : features[i].status \in Broken}

(* Mutant of ExecuteReturn: broken features do not show in the status. *)
ExecuteReturnOptimistic ==
    /\ call = "replaying"
    /\ Return
    /\ finalShape' = currentShape
    /\ outcome' = IF IsNull(currentShape) THEN "Failed" ELSE "Ok"
    /\ call' = "returned"
    /\ UNCHANGED <<schema, document>>

ExecuteReturn ==
    /\ call = "replaying"
    /\ Return
    /\ finalShape' = currentShape
    /\ outcome' = IF IsNull(currentShape) THEN "Failed"
                  ELSE IF BrokenFeatures # {} THEN "Partial" ELSE "Ok"
    /\ call' = "returned"
    /\ UNCHANGED <<schema, document>>

(* Mutant of ExecuteThrows: no guard removes the transformer. *)
ExecuteThrowsUnguarded ==
    /\ call = "replaying"
    /\ Abort
    /\ call' = "none"
    /\ UNCHANGED <<schema, finalShape, outcome, document>>

ExecuteThrows ==
    /\ call = "replaying"
    /\ Abort
    /\ call' = "thrown"
    /\ UNCHANGED <<schema, finalShape, outcome, document>>

(* The destructor of TransformerScope; the outputs are the caller's now. *)
ExecuteLeave ==
    /\ call \in {"rejected", "returned", "thrown"}
    /\ SetFeatureTransformer(NoTransformer)
    /\ call' = "none"
    /\ finalShape' = NullShape
    /\ outcome' = "Ok"
    /\ UNCHANGED <<schema, document>>

Save ==
    /\ call = "none" /\ Idle
    /\ document' = [tree |-> ToJSON, schema |-> schema]
    /\ UNCHANGED <<vars, schema, call, finalShape, outcome>>

(* fromJSON parses the tree, rebuilds it feature by feature in a new       *)
(* studio and then sets the marker the parsed tree had.                    *)
Load ==
    /\ call = "none"
    /\ document # NoDocument
    /\ FromJSON(document.tree)
    /\ schema' = document.schema
    /\ UNCHANGED <<call, finalShape, outcome, document>>

-----------------------------------------------------------------------------
PSNext ==
    \/ TreeStep
    \/ \E i \in Markers : SetRollbackIndex(i) /\ call = "none" /\ UNCHANGED studio
    \/ \E name \in Inputs, spec \in Specs : AddInput(name, spec)
    \/ ClearSchema
    \/ \E config \in ConfigValues :
          ExecuteRejected(config) \/ ExecuteEnter(config)
    \/ ExecuteReplay \/ ExecuteLoop \/ ExecuteReturn \/ ExecuteThrows \/ ExecuteLeave
    \/ Save
    \/ Load

PSSpec == PSInit /\ [][PSNext]_psVars

=============================================================================
