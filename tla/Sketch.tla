------------------------------- MODULE Sketch ------------------------------
(***************************************************************************)
(* solveSketch: the types of constraints, what each asks of the entities   *)
(* it names, the solver constraints it posts, and the outcome of a solve.  *)
(*                                                                         *)
(* A live sketch is given by the number of entities of each family, the    *)
(* values of their parameters and the list of its constraints, which name  *)
(* entities by their position (from 0) in the family.                      *)
(***************************************************************************)
EXTENDS PlaneGCS

CONSTANTS
    NaN,            \* a value that is not finite
    Half(_)         \* a diameter's radius

Families == {"Point", "Line", "Circle", "Arc"}
Curves   == {"Line", "Circle", "Arc"}

(* The families an entity of a constraint may come from. *)
Members(fam) ==
    CASE fam = "AnyCurve"    -> <<"Line", "Circle", "Arc">>
      [] fam = "CircleOrArc" -> <<"Circle", "Arc">>
      [] fam = "None"        -> <<>>
      [] OTHER               -> <<fam>>

Unvalued(e1, e2, e3) == [e |-> <<e1, e2, e3>>, positive |-> FALSE]
Positive(e1, e2, e3) == [e |-> <<e1, e2, e3>>, positive |-> TRUE]

PointTypes   == {"Coincident", "Distance", "DistanceX", "DistanceY"}
LineTypes    == {"MidpointOnLine", "Parallel", "Perpendicular", "Angle", "Equal", "Collinear"}
ConstraintSchemaFor(type) ==
    CASE type \in PointTypes -> Unvalued("Point", "Point", "None")
      [] type = "Symmetric" -> Unvalued("Point", "Point", "Line")
      [] type \in {"PointOnLine", "PointToLineDistance"} -> Unvalued("Point", "Line", "None")
      [] type \in {"PointOnCircle", "PointToCircleDistance"} -> Unvalued("Point", "Circle", "None")
      [] type = "PointOnArc" -> Unvalued("Point", "Arc", "None")
      [] type = "CircleToLineDistance" -> Unvalued("Circle", "Line", "None")
      [] type \in LineTypes -> Unvalued("Line", "Line", "None")
      [] type \in {"Horizontal", "Vertical"} -> Unvalued("Line", "None", "None")
      [] type = "Tangent" -> Unvalued("AnyCurve", "AnyCurve", "None")
      [] type = "TangentLineArc" -> Unvalued("Line", "Arc", "None")
      [] type = "TangentArcArc" -> Unvalued("Arc", "Arc", "None")
      [] type \in {"TangentCircleCircle", "EqualRadius", "Concentric"} ->
             Unvalued("Circle", "Circle", "None")
      [] type = "TangentLineCircle" -> Unvalued("Line", "Circle", "None")
      [] type \in {"TangentCircleArc", "EqualRadiusCircleArc"} -> Unvalued("Circle", "Arc", "None")
      [] type \in {"Radius", "CircleDiameter"} -> Positive("CircleOrArc", "None", "None")
      [] type = "ArcLength" -> Positive("Arc", "None", "None")
      [] type \in {"Fixed", "CoordinateX", "CoordinateY"} -> Unvalued("Point", "None", "None")

-----------------------------------------------------------------------------
Entity(fam, i) == <<fam, i>>
At(i) == <<"Point", i, "at">>

PointsOf(fam) ==
    CASE fam = "Point"  -> {"at"}
      [] fam = "Line"   -> {"p1", "p2"}
      [] fam = "Circle" -> {"center"}
      [] fam = "Arc"    -> {"center", "start", "end"}

Parts(fam) ==
    (PointsOf(fam) \X {"x", "y"}) \union IF fam \in {"Circle", "Arc"} THEN {<<"radius">>} ELSE {}

Parameters(fam, i) == {<<fam, i, part>> : part \in Parts(fam)}

(* The solver constraints of a constraint between points, points and lines. *)
PostedOnPoints(c, vals, tag) ==
    LET p == At(c.e[1])  q == At(c.e[2])  l == Entity("Line", c.e[2]) IN
    CASE c.type = "Coincident" -> P2PCoincident(p, q, tag)
      [] c.type = "Distance" -> P2PDistance(p, q, Const(c.value), tag)
      [] c.type = "DistanceX" -> Basic("Difference", <<X(p), X(q), Const(c.value)>>, tag)
      [] c.type = "DistanceY" -> Basic("Difference", <<Y(p), Y(q), Const(c.value)>>, tag)
      [] c.type = "PointOnLine" -> PointOnLine(p, l, tag)
      [] c.type = "PointToLineDistance" -> P2LDistance(p, l, Const(c.value), tag)
      [] c.type = "Symmetric" -> P2PSymmetric(p, q, Entity("Line", c.e[3]), tag)
      [] c.type = "Fixed" -> Equal(X(p), Const(vals[X(p)]), tag) \o Equal(Y(p), Const(vals[Y(p)]), tag)
      [] c.type = "CoordinateX" -> Equal(X(p), Const(c.value), tag)
      [] c.type = "CoordinateY" -> Equal(Y(p), Const(c.value), tag)

PostedOnLines(c, tag) ==
    LET l == Entity("Line", c.e[1])  k == Entity("Line", c.e[2]) IN
    CASE c.type = "Horizontal" -> Horizontal(l, tag)
      [] c.type = "Vertical" -> Vertical(l, tag)
      [] c.type \in {"Parallel", "Perpendicular", "MidpointOnLine"} ->
             Basic(c.type, Ends(l) \o Ends(k), tag)
      [] c.type = "Equal" -> Basic("EqualLineLength", Ends(l) \o Ends(k), tag)
      [] c.type = "Angle" -> Basic("L2LAngle", Ends(l) \o Ends(k) \o <<Const(c.value)>>, tag)
      [] c.type = "Collinear" -> Basic("Parallel", Ends(l) \o Ends(k), tag)
                                 \o PointOnLine(Pt(k, "p1"), l, tag)

(* The angles of an arc are those of its points when the solve starts: no  *)
(* constraint moves them with the points. In eighths of a turn.            *)
StartAngle(arc, k, vals) ==
    LET dx == vals[X(Pt(arc, k))] - vals[X(Center(arc))]
        dy == vals[Y(Pt(arc, k))] - vals[Y(Center(arc))]
    IN  CASE dy = 0 -> IF dx < 0 THEN 4 ELSE 0
          [] dy > 0 -> IF dx > 0 THEN 1 ELSE IF dx = 0 THEN 2 ELSE 3
          [] dy < 0 -> IF dx > 0 THEN -1 ELSE IF dx = 0 THEN -2 ELSE -3

(* Radius and CircleDiameter take the first family, in opposite orders,    *)
(* that has an entity at the position; Tangent knows a line and a circle.  *)
PostedOnCurves(c, n, vals, tag) ==
    LET i == c.e[1]  j == c.e[2] IN
    CASE c.type = "Radius" ->
             Radius(Entity(IF i < n["Circle"] THEN "Circle" ELSE "Arc", i), c.value, tag)
      [] c.type = "CircleDiameter" ->
             Radius(Entity(IF i < n["Arc"] THEN "Arc" ELSE "Circle", i), Half(c.value), tag)
      [] c.type = "Tangent" ->
             IF i < n["Line"] /\ j < n["Circle"]
             THEN TangentLine(Entity("Line", i), Entity("Circle", j), tag) ELSE <<>>
      [] c.type = "ArcLength" ->
             LET angle(k) == Const(StartAngle(Entity("Arc", i), k, vals)) IN
             Basic("ArcLength", <<Rad(Entity("Arc", i)), angle("start"), angle("end"),
                                  Const(c.value)>>, tag)
      [] c.type \in {"EqualRadius", "Concentric", "TangentCircleCircle"} ->
             LET a == Entity("Circle", i)  b == Entity("Circle", j) IN
             CASE c.type = "EqualRadius" -> EqualRadius(a, b, tag)
               [] c.type = "Concentric" -> P2PCoincident(Center(a), Center(b), tag)
               [] OTHER -> TangentCurves(a, b, vals, tag)

PostedOnTwo(c, vals, tag) ==
    LET circle == Entity("Circle", c.e[1])  arc == Entity("Arc", c.e[2])  i == c.e[1]  j == c.e[2] IN
    CASE c.type = "TangentLineArc" -> TangentLine(Entity("Line", i), arc, tag)
      [] c.type = "TangentLineCircle" -> TangentLine(Entity("Line", i), Entity("Circle", j), tag)
      [] c.type = "TangentArcArc" -> TangentCurves(Entity("Arc", i), arc, vals, tag)
      [] c.type = "TangentCircleArc" -> TangentCurves(circle, arc, vals, tag)
      [] c.type = "EqualRadiusCircleArc" -> EqualRadius(circle, arc, tag)
      [] c.type = "PointOnCircle" -> PointOnCurve(At(i), Entity("Circle", j), tag)
      [] c.type = "PointOnArc" -> PointOnCurve(At(i), arc, tag)
      [] c.type = "PointToCircleDistance" ->
             Basic("P2CDistance", Coords(At(i)) \o Coords(Center(Entity("Circle", j)))
                                  \o <<Rad(Entity("Circle", j)), Const(c.value)>>, tag)
      [] c.type = "CircleToLineDistance" ->
             Basic("C2LDistance", Coords(Center(circle)) \o <<Rad(circle)>>
                                  \o Ends(Entity("Line", j)) \o <<Const(c.value)>>, tag)

CurveTypes == {"Radius", "CircleDiameter", "Tangent", "ArcLength", "EqualRadius", "Concentric",
               "TangentCircleCircle"}
OnPointsTypes == PointTypes \union {"PointOnLine", "PointToLineDistance", "Symmetric", "Fixed",
                                    "CoordinateX", "CoordinateY"}
OnLinesTypes == LineTypes \union {"Horizontal", "Vertical"}
OnTwoTypes == {"TangentLineArc", "TangentLineCircle", "TangentArcArc", "TangentCircleArc",
               "EqualRadiusCircleArc", "PointOnCircle", "PointOnArc", "PointToCircleDistance",
               "CircleToLineDistance"}
ConstraintTypes == OnPointsTypes \union OnLinesTypes \union CurveTypes \union OnTwoTypes

Posted(c, n, vals, tag) ==
    IF c.type \in OnPointsTypes THEN PostedOnPoints(c, vals, tag)
    ELSE IF c.type \in OnLinesTypes THEN PostedOnLines(c, tag)
    ELSE IF c.type \in CurveTypes THEN PostedOnCurves(c, n, vals, tag)
    ELSE PostedOnTwo(c, vals, tag)

(* The whole list; a constraint's tag is its position, from 0. *)
System(cons, n, vals) ==
    LET rows[i \in 0 .. Len(cons)] ==
          IF i = 0 THEN <<>> ELSE rows[i - 1] \o Posted(cons[i], n, vals, i - 1)
    IN  rows[Len(cons)]

-----------------------------------------------------------------------------
(* What is refused before the solver is called: values that are not        *)
(* finite, radii that are not positive, positions outside their family.    *)
FamilyOk(fam, i, n) ==
    \/ fam = "None"
    \/ i >= 0 /\ \E f \in ToSet(Members(fam)) : i < n[f]

BadGeometry(vals) ==
    \E p \in DOMAIN vals : vals[p] = NaN \/ (p[3] = <<"radius">> /\ vals[p] <= 0)

BadConstraint(c, n) ==
    LET sch == ConstraintSchemaFor(c.type) IN
    \/ c.value = NaN
    \/ sch.positive /\ c.value <= 0
    \/ \E k \in 1 .. 3 : ~FamilyOk(sch.e[k], c.e[k], n)

Refused(cons, n, vals) ==
    BadGeometry(vals) \/ \E i \in DOMAIN cons : BadConstraint(cons[i], n)

Algorithms == {"DogLeg", "LevenbergMarquardt", "BFGS"}

(***************************************************************************)
(* The outcomes of a solve. A solve that reports an error -- refused input, *)
(* no algorithm that ends, a conflict, an exception -- is a failure and    *)
(* gives no result and no values. Positions are those of the lists given.  *)
(***************************************************************************)
Failure(conflicting) == [ok |-> FALSE, conflicting |-> conflicting]

Solved(cons, n, vals, diagnosis, alg) ==
    LET clist == System(cons, n, vals)
        rows  == Rows(clist) \ diagnosis.redundant
        kept  == Kept(clist, rows, DOMAIN vals)
    IN  {[ok |-> TRUE, alg |-> alg, clist |-> clist, rows |-> rows,
          vals |-> ApplySolution(vals, solved, kept),
          status |-> IF diagnosis.redundantTags = {} THEN "OK" ELSE "Redundant",
          redundant |-> diagnosis.redundantTags, dofs |-> diagnosis.dofs] :
            solved \in Solves(alg, clist, rows, kept, vals)}

SolveOutcomes(cons, n, vals) ==
    IF Refused(cons, n, vals) THEN {Failure({})}
    ELSE UNION {IF d.conflictingTags # {} THEN {Failure(d.conflictingTags)}
                ELSE {Failure({})} \union UNION {Solved(cons, n, vals, d, alg) : alg \in Algorithms} :
                d \in Diagnoses(System(cons, n, vals), DOMAIN vals, vals)}

(* The edges sketchToWire makes: curves that are not degenerate. *)
Degenerate(fam, i, vals) ==
    LET en == Entity(fam, i)
        same(a, b) == vals[X(Pt(en, a))] = vals[X(Pt(en, b))]
                      /\ vals[Y(Pt(en, a))] = vals[Y(Pt(en, b))]
        small == vals[Rad(en)] # NaN /\ vals[Rad(en)] <= 0
    IN  CASE fam = "Line"   -> same("p1", "p2")
          [] fam = "Circle" -> small
          [] fam = "Arc"    -> small \/ same("start", "end")
=============================================================================
