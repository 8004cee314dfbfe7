------------------------------ MODULE Feature ------------------------------
(***************************************************************************)
(* One feature of a part studio and the function that executes it          *)
(* (feature/feature.h, feature/feature.cpp, the ConfigRef substitution of  *)
(* feature/config.cpp).                                                    *)
(*                                                                         *)
(* A feature's parameter map is abstracted to what replay tells apart: one *)
(* scalar `val` (a literal, or the name of a configuration input) and at   *)
(* most one ElementRef `ref` to another feature.  A NamedShape is          *)
(* abstracted to its geometry, the history of operations that produced it, *)
(* and to the identities those operations allocated.                       *)
(***************************************************************************)
EXTENDS Integers, Sequences, Functions

CONSTANTS
    Ids,            \* feature ids
    Literals,       \* concrete parameter values
    FailingValues,  \* the literals for which the geometry operation fails
    Inputs,         \* names of configuration inputs a ConfigRef may carry
    NoRef,          \* the parameter map holds no ElementRef
    Unbound,        \* an input the studio's schema does not declare
    NoTransformer   \* no feature transformer is installed

ASSUME FeatureAssumption ==
    /\ FailingValues \subseteq Literals
    /\ Literals \cap Inputs = {}
    /\ NoRef \notin Ids
    /\ Unbound \notin Literals \cup Inputs
    /\ NoTransformer \notin [Inputs -> Literals \cup {Unbound}]

-----------------------------------------------------------------------------
(* "Make": MakeBox ... MakeWedge, which ignore the incoming shape;         *)
(* "Modify": every other type, which works on the incoming shape.          *)
Kinds == {"Make", "Modify"}

(* enum class FeatureStatus *)
Broken   == {"BrokenReference", "ExecutionFailed"}
Statuses == Broken \cup {"OK", "Suppressed", "NotExecuted"}

Features == [id : Ids, kind : Kinds, val : Literals \cup Inputs,
             ref : Ids \cup {NoRef}, suppressed : BOOLEAN, status : Statuses]

(* One operation in the history of a shape: the feature that ran, the      *)
(* value it ran with and the operations of the shape its ElementRef chose. *)
Operations == [by : Ids, val : Literals, on : SUBSET (Ids \X Literals)]

Shapes == [geo : Seq(Operations), ids : Seq(Nat)]

NullShape == [geo |-> <<>>, ids |-> <<>>]

IsNull(shape) == shape.geo = <<>>

(* What an operation on a referenced shape depends on. *)
Uses(shape) == {<<op.by, op.val>> : op \in Range(shape.geo)}

-----------------------------------------------------------------------------
(* The value dispatch sees once `transformer` has run on the feature. *)
EffectiveValue(f, transformer) ==
    IF f.val \in Inputs /\ transformer # NoTransformer
    THEN transformer[f.val]
    ELSE f.val

(* The transformed copy already carries a failure: resolveConfigRefs       *)
(* copies the stored status, and marks a ConfigRef the schema does not     *)
(* declare as a broken reference.                                          *)
TransformedStatus(f, transformer) ==
    IF EffectiveValue(f, transformer) = Unbound THEN "BrokenReference" ELSE f.status

(* resolveReference against the shapes cached so far: a suppressed feature *)
(* never resolves, any other does when it has a shape.                     *)
ResolvesIn(list, shapes, ref) ==
    /\ \A i \in DOMAIN list : list[i].id = ref => ~list[i].suppressed
    /\ ref \in DOMAIN shapes
    /\ ~IsNull(shapes[ref])

(* executeFeature: validateFeature rejects a ConfigRef that was not        *)
(* substituted; then the reference is resolved; then the operation runs.   *)
ExecutedStatus(f, val, base, resolves) ==
    IF val \notin Literals THEN "ExecutionFailed"
    ELSE IF ~resolves THEN "BrokenReference"
    ELSE IF val \in FailingValues \/ (f.kind = "Modify" /\ IsNull(base)) THEN "ExecutionFailed"
    ELSE "OK"

(* The history of the shape a successful execution returns. *)
ExecutedGeo(f, val, base, uses) ==
    LET op == [by |-> f.id, val |-> val, on |-> uses]
    IN  IF f.kind = "Make" THEN <<op>> ELSE Append(base.geo, op)

(* A successful operation asks the context for one fresh identity. *)
ExecutedShape(f, val, base, uses, identity) ==
    [geo |-> ExecutedGeo(f, val, base, uses),
     ids |-> IF f.kind = "Make" THEN <<identity>> ELSE Append(base.ids, identity)]

=============================================================================
