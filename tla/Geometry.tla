------------------------------ MODULE Geometry ------------------------------
(***************************************************************************)
(* Geometry operations on one context, called one after the other: the     *)
(* scopes they open on the context's collector, the identities they draw    *)
(* from its allocator, their polls of its cancellation token (which another *)
(* thread may cancel at any time), retries and nested calls.                *)
(***************************************************************************)
EXTENDS Naturals, Sequences

(* The operations of src/src/geometry as recipes: what each takes, the     *)
(* checks it makes in their order, and the steps it goes through.  The     *)
(* inputs are classes, as far as a check or a step tells them apart.       *)
Shapes  == {"null", "solid", "broken", "face", "wire"}
Picks   == {"none", "unusable", "usable"}
Numbers == {"pos", "huge", "zero", "neg", "nan"}

\* A check admits some classes of the inputs at some places.
On(places, admitted) == [places |-> places, admitted |-> admitted]

NonNull(i)       == On(<<i>>, {<<s>> : s \in Shapes \ {"null"}})
OfKind(i, kinds) == On(<<i>>, {<<s>> : s \in kinds})
NonEmpty(i)      == On(<<i>>, {<<p>> : p \in Picks \ {"none"}})
PositiveAt(i)    == On(<<i>>, {<<"pos">>, <<"huge">>})
NonNegative(i)   == On(<<i>>, {<<"pos">>, <<"huge">>, <<"zero">>})
NonZero(i)       == On(<<i>>, {<<"pos">>, <<"huge">>, <<"neg">>})
Finite(i)        == On(<<i>>, {<<n>> : n \in Numbers \ {"nan"}})
InRange(i)       == On(<<i>>, {<<"pos">>})
AtLeastTwo(i)    == On(<<i>>, {<<"pos">>, <<"huge">>})

Passes(check, inputs) ==
    [k \in DOMAIN check.places |-> inputs[check.places[k]]] \in check.admitted

Primitive(params, checks) ==
    [params |-> params, checks |-> checks, steps |-> <<"make", "map">>]

Box       == Primitive(<<Numbers, Numbers, Numbers>>,
                       <<PositiveAt(1), PositiveAt(2), PositiveAt(3)>>)
BoxAt     == Primitive(<<Numbers, Numbers, Numbers, Numbers>>,
                       <<Finite(1), PositiveAt(2), PositiveAt(3), PositiveAt(4)>>)
Cylinder  == Primitive(<<Numbers, Numbers>>, <<PositiveAt(1), PositiveAt(2)>>)
Sphere    == Primitive(<<Numbers>>, <<PositiveAt(1)>>)
Cone      == Primitive(<<Numbers, Numbers, Numbers>>,
                       <<NonNegative(1), NonNegative(2), PositiveAt(3),
                         On(<<1, 2>>, (Numbers \X Numbers) \ {<<"zero", "zero">>})>>)
Torus     == Primitive(<<Numbers, Numbers>>,
                       <<PositiveAt(1), PositiveAt(2), On(<<1, 2>>, {<<"huge", "pos">>})>>)
\* The fourth length, ltx, goes to OCCT unchecked.
Wedge     == Primitive(<<Numbers, Numbers, Numbers, {"pos", "nan"}>>,
                       <<PositiveAt(1), PositiveAt(2), PositiveAt(3)>>)

Modelling(params, checks, steps) ==
    [params |-> params, checks |-> checks, steps |-> steps]

Healed    == <<"make", "heal", "map">>
Polled    == <<"poll", "make", "heal", "map">>
Picked    == <<"poll", "pick", "make", "heal", "map">>
Unchecked == <<"make", "map">>

Extrude   == Modelling(<<Shapes, Numbers>>, <<NonNull(1), NonZero(2)>>, Healed)
Revolve   == Modelling(<<Shapes, Numbers, Numbers>>,
                       <<NonNull(1), Finite(2), InRange(3)>>, Healed)
Fillet    == Modelling(<<Shapes, Picks, Numbers>>,
                       <<NonNull(1), NonEmpty(2), PositiveAt(3)>>, Picked)
Chamfer   == Modelling(<<Shapes, Picks, Numbers>>,
                       <<NonNull(1), NonEmpty(2), PositiveAt(3)>>, Picked)
Shell     == Modelling(<<Shapes, Picks, Numbers>>,
                       <<NonNull(1), NonEmpty(2), Finite(3), NonZero(3)>>, Polled)
Loft      == Modelling(<<Picks>>, <<NonEmpty(1)>>, Picked)
Sweep     == Modelling(<<Shapes, Shapes>>,
                       <<NonNull(1), NonNull(2), OfKind(2, {"wire"})>>, Polled)
Draft     == Modelling(<<Shapes, Picks, Numbers>>,
                       <<NonNull(1), NonEmpty(2), Finite(3), NonZero(3)>>, Healed)
Offset    == Modelling(<<Shapes, Numbers>>, <<NonNull(1), Finite(2), NonZero(2)>>, Healed)
Thicken   == Modelling(<<Shapes, Numbers>>, <<NonNull(1), Finite(2), NonZero(2)>>, Healed)
VariableFillet == Modelling(<<Shapes, Picks, Numbers, Numbers>>,
                       <<NonNull(1), OfKind(2, {"usable"}), PositiveAt(3), PositiveAt(4)>>, Healed)
PatternLinear   == Modelling(<<Shapes, Numbers, Numbers, Numbers>>,
                       <<NonNull(1), AtLeastTwo(2), PositiveAt(3), NonZero(4)>>, Healed)
PatternCircular == Modelling(<<Shapes, Numbers, Numbers, Numbers>>,
                       <<NonNull(1), Finite(2), AtLeastTwo(3), Finite(4), NonZero(4)>>, Healed)
Mirror    == Modelling(<<Shapes>>, <<NonNull(1)>>, Unchecked)
SplitBody == Modelling(<<Shapes>>, <<NonNull(1)>>, Unchecked)
WireOffset == Modelling(<<Shapes, Numbers>>,
                       <<NonNull(1), OfKind(1, {"wire"}), Finite(2)>>, Unchecked)
MakeFaceFromWire == Modelling(<<Shapes>>,
                       <<NonNull(1), OfKind(1, {"wire"})>>, Unchecked)
WireFillet == Modelling(<<Shapes, Picks, Numbers>>,
                       <<NonNull(1), OfKind(1, {"wire", "face"}), NonEmpty(2), PositiveAt(3)>>,
                       Unchecked)
Combine   == Modelling(<<Picks>>, <<NonEmpty(1)>>, Unchecked)

\* booleanUnion, booleanSubtract and booleanIntersect differ in the OCCT class only.
Boolean   == Modelling(<<Shapes, Shapes>>, <<NonNull(1), NonNull(2)>>,
                       <<"poll", "attempt", "heal", "map">>)

\* The composites call other operations; Hole's is on the cylinder it mapped.
Hole      == Modelling(<<Shapes, Numbers, Numbers>>,
                       <<NonNull(1), PositiveAt(2), PositiveAt(3)>>,
                       <<"make", "map", "boolean">>)
ThroughHole == Modelling(<<Shapes, Numbers>>, <<NonNull(1), PositiveAt(2)>>,
                       <<"make", "map", "boolean">>)
Rib       == Modelling(<<Shapes, Shapes, Numbers>>,
                       <<NonNull(1), NonNull(2), PositiveAt(3)>>,
                       <<"extrude", "boolean">>)
Pocket    == Modelling(<<Shapes, Shapes, Numbers>>,
                       <<NonNull(1), NonNull(2), PositiveAt(3)>>,
                       <<"extrude", "retry", "boolean">>)

Recipes ==
    [Box |-> Box, BoxAt |-> BoxAt, Cylinder |-> Cylinder, Sphere |-> Sphere, Cone |-> Cone,
     Torus |-> Torus, Wedge |-> Wedge, Extrude |-> Extrude, Revolve |-> Revolve,
     Fillet |-> Fillet, Chamfer |-> Chamfer, Shell |-> Shell, Loft |-> Loft, Sweep |-> Sweep,
     Draft |-> Draft, Offset |-> Offset, Thicken |-> Thicken,
     VariableFillet |-> VariableFillet, PatternLinear |-> PatternLinear,
     PatternCircular |-> PatternCircular, Mirror |-> Mirror, SplitBody |-> SplitBody,
     WireOffset |-> WireOffset, MakeFaceFromWire |-> MakeFaceFromWire,
     WireFillet |-> WireFillet, Combine |-> Combine, Boolean |-> Boolean, Hole |-> Hole,
     ThroughHole |-> ThroughHole, Rib |-> Rib, Pocket |-> Pocket]

GeometryOperations == DOMAIN Recipes

Inputs(op) ==
    LET params == Recipes[op].params
    IN  {c \in [DOMAIN params -> UNION {params[i] : i \in DOMAIN params}] :
            \A i \in DOMAIN params : c[i] \in params[i]}

Accepted(op, inputs) ==
    \A k \in DOMAIN Recipes[op].checks : Passes(Recipes[op].checks[k], inputs)

\* What is left to matter once the checks have passed: which shapes are invalid,
\* and whether a list has a usable member.
Operands(inputs) ==
    LET kept == SelectSeq(inputs, LAMBDA c : c \in Shapes \cup Picks)
    IN  [i \in DOMAIN kept |-> IF kept[i] \in {"face", "wire"} THEN "solid" ELSE kept[i]]

-----------------------------------------------------------------------------
\* fixShape(): the shape it leaves and what it returns.  It says TRUE only of a
\* shape it made valid; a shape it could not make valid may have changed all
\* the same, and is still invalid.
FixShape(s) ==
    IF s # "broken" THEN {[shape |-> s, fixed |-> FALSE]}
    ELSE {[shape |-> "solid", fixed |-> TRUE], [shape |-> "broken", fixed |-> FALSE]}

-----------------------------------------------------------------------------
CONSTANT MaxDrawn    \* bound: identities drawn in a behaviour
ASSUME DrawnAssumption == MaxDrawn \in Nat

VARIABLES
    geoCounter,   \* tags(): identities drawn so far
    calls,        \* the operations under way, the outermost first
    token,        \* cancellationToken_->isCancelled()
    finished      \* what the last outermost call returned

geoVars == <<geoCounter, calls, token, finished>>

\* An operation under way. err, warn, saw and drew tell what its scope, its
\* polls and the allocator have seen since it began, nested calls included;
\* swallowed tells whether a nested call failed.
Frame(op, operands) ==
    [op |-> op, operands |-> operands,
     at |-> 1, tries |-> 0, body |-> "null", reply |-> "none",
     err |-> FALSE, warn |-> FALSE, saw |-> FALSE, swallowed |-> FALSE, drew |-> 0]

NothingFinished ==
    [op |-> "none", ok |-> FALSE, body |-> "null", err |-> TRUE, warn |-> FALSE,
     saw |-> FALSE, swallowed |-> FALSE, drew |-> 0]

GeoInit ==
    /\ geoCounter = 0
    /\ calls = <<>>
    /\ token = FALSE
    /\ finished = NothingFinished

Top      == calls[Len(calls)]
Callers  == SubSeq(calls, 1, Len(calls) - 1)
Steps(f) == Recipes[f.op].steps
AtStep(step) == calls # <<>> /\ Steps(Top)[Top.at] = step

\* makeResult() turns a value into a failure when the scope holds an error.
MakesResult(f, value) == value /\ ~f.err

\* The caller finds the diagnostics in its own scope, and the result.
Reported(caller, f, value) ==
    [caller EXCEPT !.err = @ \/ f.err, !.warn = @ \/ f.warn, !.saw = @ \/ f.saw,
                   !.swallowed = @ \/ f.swallowed \/ ~MakesResult(f, value),
                   !.drew = @ + f.drew,
                   !.reply = IF MakesResult(f, value) THEN f.body ELSE "failed"]

Return(below, f, value) ==
    IF below # <<>>
    THEN /\ calls' = [below EXCEPT ![Len(below)] = Reported(@, f, value)]
         /\ UNCHANGED finished
    ELSE /\ calls' = <<>>
         /\ finished' = [op |-> f.op, ok |-> MakesResult(f, value), body |-> f.body,
                         err |-> f.err, warn |-> f.warn, saw |-> f.saw,
                         swallowed |-> f.swallowed, drew |-> f.drew]

Failed(below, f) == Return(below, [f EXCEPT !.err = TRUE], FALSE)

Continue(f) ==
    IF f.at < Len(Steps(f))
    THEN calls' = [calls EXCEPT ![Len(calls)] = [f EXCEPT !.at = @ + 1]] /\ UNCHANGED finished
    ELSE Return(Callers, f, TRUE)

\* An operation begins with its checks, and fails at the first that does not hold.
Begin(op, inputs) ==
    LET f == Frame(op, Operands(inputs))
    IN  IF Accepted(op, inputs) THEN calls' = Append(calls, f) /\ UNCHANGED finished
                                ELSE Failed(calls, f)

-----------------------------------------------------------------------------
GeoCall(op) ==
    /\ calls = <<>>
    /\ geoCounter + 3 <= MaxDrawn
    /\ \E inputs \in Inputs(op) : Begin(op, inputs)
    /\ UNCHANGED <<geoCounter, token>>

Cancel == ~token /\ token' = TRUE /\ UNCHANGED <<geoCounter, calls, finished>>

\* Mutant of Poll: the operation reports and goes on.
PollLate ==
    /\ AtStep("poll")
    /\ Continue(IF token THEN [Top EXCEPT !.saw = TRUE] ELSE Top)
    /\ UNCHANGED <<geoCounter, token>>

\* checkCancellation() reports CANCELLED, and the operation fails.
Poll ==
    /\ AtStep("poll")
    /\ IF token THEN Failed(Callers, [Top EXCEPT !.saw = TRUE]) ELSE Continue(Top)
    /\ UNCHANGED <<geoCounter, token>>

\* Null sub-shapes, and ones of another type, are skipped; with none left it fails.
Pick ==
    /\ AtStep("pick")
    /\ IF \E i \in DOMAIN Top.operands : Top.operands[i] = "unusable"
       THEN Failed(Callers, Top) ELSE Continue(Top)
    /\ UNCHANGED <<geoCounter, token>>

\* The OCCT maker is done, with a valid shape or an invalid one.
Make ==
    /\ AtStep("make")
    /\ \E s \in {"solid", "broken"} : Continue([Top EXCEPT !.body = s])
    /\ UNCHANGED <<geoCounter, token>>

\* The maker is not done, made a null shape, or threw; so may any other step.
GiveUp ==
    /\ \E step \in {"pick", "make", "attempt", "heal"} : AtStep(step)
    /\ Failed(Callers, Top)
    /\ UNCHANGED <<geoCounter, token>>

\* The operands one attempt of a boolean works on: as given, as fixShape() leaves
\* them (if it fixed either), and as given again at three growing tolerances.
Refixed(operands) ==
    {p \in FixShape(operands[1]) \X FixShape(operands[2]) : p[1].fixed \/ p[2].fixed}

Attempted(f) == f.tries # 1 \/ Refixed(f.operands) # {}

\* Mutant of Attempt: every attempt draws an identity.
AttemptDrawing ==
    /\ AtStep("attempt")
    /\ \/ /\ Attempted(Top)
          /\ \E s \in {"solid", "broken"} : Continue([Top EXCEPT !.body = s, !.drew = @ + 1])
       \/ IF Top.tries = 4 THEN Failed(Callers, Top)
          ELSE calls' = [calls EXCEPT ![Len(calls)].tries = @ + 1, ![Len(calls)].drew = @ + 1]
               /\ UNCHANGED finished
    /\ geoCounter' = geoCounter + 1
    /\ UNCHANGED token

Attempt ==
    /\ AtStep("attempt")
    /\ \/ /\ Attempted(Top)
          /\ \E s \in {"solid", "broken"} : Continue([Top EXCEPT !.body = s])
       \/ IF Top.tries = 4 THEN Failed(Callers, Top)
          ELSE calls' = [calls EXCEPT ![Len(calls)].tries = @ + 1] /\ UNCHANGED finished
    /\ UNCHANGED <<geoCounter, token>>

\* An invalid result is fixed, and returned with a warning when that did not help.
Heal ==
    /\ AtStep("heal")
    /\ \E r \in FixShape(Top.body) :
         Continue([Top EXCEPT !.body = r.shape, !.warn = @ \/ r.shape = "broken"])
    /\ UNCHANGED <<geoCounter, token>>

\* nextShapeIdentity(), then mapShapeElements(), which may throw.
MapElements ==
    /\ AtStep("map")
    /\ geoCounter' = geoCounter + 1
    /\ LET f == [Top EXCEPT !.drew = @ + 1] IN Continue(f) \/ Failed(Callers, f)
    /\ UNCHANGED token

\* The nested calls: the profile's extrusion (and pocket's second try at it), and
\* the boolean with the body, which is the second operand.
Nest ==
    /\ calls # <<>>
    /\ Top.reply = "none"
    /\ \/ /\ AtStep("extrude") \/ AtStep("retry")
          /\ Begin("Extrude", <<Top.operands[2], "pos">>)
       \/ /\ AtStep("boolean")
          /\ Begin("Boolean", <<Top.operands[1], Top.body>>)
    /\ UNCHANGED <<geoCounter, token>>

\* pocket goes to its second try only when the first failed; a failed extrusion
\* is reported once more, a failed boolean is not.
Resume ==
    /\ calls # <<>>
    /\ Top.reply # "none"
    /\ LET ok    == Top.reply # "failed"
           f     == [Top EXCEPT !.reply = "none", !.body = IF ok THEN Top.reply ELSE @]
           again == f.at < Len(Steps(f)) /\ Steps(f)[f.at + 1] = "retry"
       IN  IF ok THEN Continue([f EXCEPT !.at = IF again THEN @ + 1 ELSE @])
           ELSE IF again THEN Continue(f)
           ELSE IF AtStep("boolean") THEN Return(Callers, f, FALSE)
           ELSE Failed(Callers, f)
    /\ UNCHANGED <<geoCounter, token>>

GeoNext ==
    \/ \E op \in GeometryOperations : GeoCall(op)
    \/ Cancel
    \/ Poll
    \/ Pick
    \/ Make
    \/ GiveUp
    \/ Attempt
    \/ Heal
    \/ MapElements
    \/ Nest
    \/ Resume

GeoSpec == GeoInit /\ [][GeoNext]_geoVars

-----------------------------------------------------------------------------
(* What the geometry operations promise about their results.               *)
\* The operations under way are nested as the code nests them, and the
\* identities drawn by them and before them add up.
GeoTypeOK ==
    /\ geoCounter \in 0..MaxDrawn
    /\ token \in BOOLEAN
    /\ Len(calls) <= 2
    /\ \A i \in DOMAIN calls :
         /\ calls[i].op \in GeometryOperations
         /\ calls[i].at \in 1..Len(Steps(calls[i]))
         /\ calls[i].tries \in 0..4
         /\ calls[i].body \in Shapes
         /\ calls[i].drew <= geoCounter
    /\ Len(calls) = 2 => calls[1].op \in {"Hole", "ThroughHole", "Rib", "Pocket"}
    /\ finished.op \in GeometryOperations \cup {"none"}

\* How many identities an operation draws does not depend on how it went: on a
\* retry, a healed result or a nested call that was tried twice. A replay that
\* takes another path through the retries hands the later features the same
\* identities (oreo_boolean.cpp, executeBooleanWithRetry).
SuccessDrawsItsShare ==
    finished.ok =>
        finished.drew = IF finished.op \in {"Hole", "ThroughHole", "Rib", "Pocket"} THEN 2 ELSE 1

\* An operation that heals its result, itself or in the boolean it ends with,
\* never returns an invalid shape without a warning.
InvalidResultsWarned ==
    finished.ok /\ finished.body = "broken" =>
        \/ finished.warn
        \/ \A i \in DOMAIN Recipes[finished.op].steps :
              Recipes[finished.op].steps[i] \notin {"heal", "boolean"}

\* A call that found its token cancelled, anywhere in its nested calls, fails.
CancelledCallsFail == finished.saw => ~finished.ok

\* From a poll that found the token cancelled until its outermost call returns,
\* no identity is drawn.
NothingDrawnAfterCancel ==
    [][(\E i \in DOMAIN calls : calls[i].saw) => geoCounter' = geoCounter]_geoVars

\* Whatever way an operation fails, its result carries an error.
RefusalsExplained == ~finished.ok => finished.err

\* No operation succeeds past a nested call that failed, pocket's second try at
\* its extrusion included: the error of the first stays in its scope.
NoFailureSwallowed == finished.ok => ~finished.swallowed

\* Identities are accounted for: as many for a success as its operation draws, none
\* after a cancelled poll.
IdentitiesAccounted == [](GeoTypeOK /\ SuccessDrawsItsShare) /\ NothingDrawnAfterCancel

\* What went wrong anywhere in a call reaches its caller.
FailuresReachTheCaller ==
    CancelledCallsFail /\ RefusalsExplained /\ NoFailureSwallowed /\ InvalidResultsWarned

=============================================================================
