---------------------------- MODULE MCModelling ---------------------------
(* Instances of what makes and shows geometry for TLC: the sketch solver   *)
(* behind the C interface, the geometry operations, and tessellation.      *)
EXTENDS SketchSlots, Geometry, Mesh

(* The three share no state and are checked side by side: a behaviour is   *)
(* one of the part it started with.                                        *)
VARIABLE part

(* A sketch plane of four points; radii and distances of 0 or 1. *)
MCHalf(v) == v \div 2

Flat(fam) == [piece \in Parts(fam) |->
                IF piece \in {<<"radius">>, <<"p2", "x">>, <<"end", "x">>} THEN 1 ELSE 0]
MCSeeds ==
    [fam \in Families |->
        IF fam = "Point" THEN {Flat(fam), [piece \in Parts(fam) |-> NaN]}
        ELSE {Flat(fam)}]

Relation(type, e, v) == [type |-> type, e |-> e, value |-> v]
Slot(fam, removed) == [vals |-> Flat(fam), construction |-> FALSE, removed |-> removed]
Slots(fam, k) == [i \in 1 .. k |-> Slot(fam, FALSE)]

Nothing == [fam \in Families |-> <<>>]
Drawn(s) == [slots |-> s @@ Nothing, constraints |-> <<>>]

(* Points; a point and a line; and an arc with a circle left of two. *)
MCStart ==
    {Drawn([Point |-> Slots("Point", 2)]),
     Drawn([Point |-> Slots("Point", 1), Line |-> Slots("Line", 1)]),
     Drawn([Arc |-> Slots("Arc", 1),
            Circle |-> <<Slot("Circle", TRUE), Slot("Circle", FALSE)>>])}

MCChoices ==
    {Relation("Coincident", <<0, 1, -1>>, 0), Relation("Distance", <<0, 1, -1>>, 1),
     Relation("PointOnLine", <<1, 0, -1>>, 0), Relation("Fixed", <<0, -1, -1>>, 0),
     Relation("Radius", <<0, -1, -1>>, 1), Relation("CircleDiameter", <<1, -1, -1>>, 2),
     Relation("EqualRadiusCircleArc", <<1, 0, -1>>, 0), Relation("Symmetric", <<0, 1, 0>>, 0),
     Relation("ArcLength", <<0, -1, -1>>, 1)}

-----------------------------------------------------------------------------
SketchAlone   == part = "sketch" /\ UNCHANGED <<part, geoVars, meshVars>>
GeometryAlone == part = "geometry" /\ UNCHANGED <<part, skVars, meshVars>>
MeshAlone     == part = "mesh" /\ UNCHANGED <<part, skVars, geoVars>>

ModellingInit ==
    /\ part \in {"sketch", "geometry", "mesh"}
    /\ SKInit /\ GeoInit /\ MeshInit
    /\ part # "sketch" => slots = (CHOOSE s \in StartSketches : TRUE).slots

ModellingNext ==
    \/ SketchAlone /\ \E fam \in Families : \E seed \in Seeds[fam] : AddEntity(fam, seed)
    \/ SketchAlone /\ \E c \in ConstraintChoices : AddConstraint(c)
    \/ SketchAlone /\ \E fam \in Families, id \in 0 .. MaxEntities : RemoveEntity(fam, id)
    \/ SketchAlone /\ \E id \in 0 .. Len(constraintSlots) : RemoveConstraint(id)
    \/ SketchAlone /\ \E fam \in Curves, id \in 0 .. MaxEntities, flag \in BOOLEAN : 
           SetConstruction(fam, id, flag)
    \/ SketchAlone /\ \E o \in SolveOutcomes(LiveList, LiveCounts, LiveValues) : SolveSketchSlots(o)
    \/ SketchAlone /\ \E connected \in BOOLEAN : SketchToWire(connected)
    \/ GeometryAlone /\ \E op \in GeometryOperations : GeoCall(op)
    \/ GeometryAlone /\ Cancel
    \/ GeometryAlone /\ Poll
    \/ GeometryAlone /\ Pick
    \/ GeometryAlone /\ Make
    \/ GeometryAlone /\ GiveUp
    \/ GeometryAlone /\ Attempt
    \/ GeometryAlone /\ Heal
    \/ GeometryAlone /\ MapElements
    \/ GeometryAlone /\ Nest
    \/ GeometryAlone /\ Resume
    \/ MeshAlone /\ EditBody
    \/ MeshAlone /\ TessellateFails
    \/ MeshAlone /\ \E params \in ParamChoices : Tessellate(params)
    \/ MeshAlone /\ \E params \in ParamChoices : TessellateIncremental(params)
    \/ MeshAlone /\ \E params \in ParamChoices : TessellateIncrementalFails(params)
    \/ MeshAlone /\ InvalidateFace
    \/ MeshAlone /\ InvalidateAll

ModellingSpec == ModellingInit /\ [][ModellingNext]_<<part, skVars, geoVars, meshVars>>
=============================================================================
