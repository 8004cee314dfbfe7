------------------------------ MODULE PlaneGCS -----------------------------
(***************************************************************************)
(* GCS::System as the sketch solver uses it: solver constraints over the   *)
(* unknown parameters, the search for redundant and conflicting ones, the  *)
(* division into components, the elimination of equal parameters and the   *)
(* numeric solvers, of which only the outcome is kept.                     *)
(*                                                                         *)
(* An unknown is a family, a position and a part; <<"const", v>> is a      *)
(* parameter the solver does not move.                                     *)
(***************************************************************************)
EXTENDS SketchConstraints, Sequences, FiniteSets, FiniteSetsExt, SequencesExt

CONSTANTS
    Values          \* coordinates and radii of the small instance

IsUnknown(p) == p[1] # "const"
Const(v)     == <<"const", v>>

(* An entity is a family and a position, a point of it has a name too.     *)
Pt(entity, name) == <<entity[1], entity[2], name>>
X(pt) == <<pt[1], pt[2], <<pt[3], "x">>>>
Y(pt) == <<pt[1], pt[2], <<pt[3], "y">>>>
Coords(pt) == <<X(pt), Y(pt)>>
Ends(l)   == Coords(Pt(l, "p1")) \o Coords(Pt(l, "p2"))
Center(c) == Pt(c, "center")
Rad(c)    == <<c[1], c[2], <<"radius">>>>

-----------------------------------------------------------------------------
(* The solver constraints a call posts. *)
Basic(kind, operands, tag) == <<[kind |-> kind, params |-> operands, tag |-> tag]>>

Equal(p, q, tag) == Basic("Equal", <<p, q>>, tag)

P2PDistance(p, q, d, tag) == Basic("P2PDistance", Coords(p) \o Coords(q) \o <<d>>, tag)
P2LDistance(p, l, d, tag) == Basic("P2LDistance", Coords(p) \o Ends(l) \o <<d>>, tag)
PointOnLine(p, l, tag)    == Basic("PointOnLine", Coords(p) \o Ends(l), tag)

P2PCoincident(p, q, tag) == Equal(X(p), X(q), tag) \o Equal(Y(p), Y(q), tag)
Horizontal(l, tag) == Equal(Y(Pt(l, "p1")), Y(Pt(l, "p2")), tag)
Vertical(l, tag)   == Equal(X(Pt(l, "p1")), X(Pt(l, "p2")), tag)
PointOnCurve(p, c, tag) == P2PDistance(p, Center(c), Rad(c), tag)

TangentLine(l, c, tag) == P2LDistance(Center(c), l, Rad(c), tag)
(* Whether two curves touch from inside is decided once, where they start. *)
TangentCurves(c, d, vals, tag) ==
    LET apart2 == Square(vals[X(Center(c))] - vals[X(Center(d))])
                  + Square(vals[Y(Center(c))] - vals[Y(Center(d))])
        inside == \E r \in {Rad(c), Rad(d)} : apart2 < Square(vals[r])
    IN  Basic("TangentCircumf", Coords(Center(c)) \o Coords(Center(d))
                                \o <<Rad(c), Rad(d), Const(inside)>>, tag)
Radius(c, v, tag) == Equal(Rad(c), Const(v), tag)
EqualRadius(c, d, tag) == Equal(Rad(c), Rad(d), tag)
P2PSymmetric(p, q, l, tag) ==
    Basic("Perpendicular", Coords(p) \o Coords(q) \o Ends(l), tag)
    \o Basic("MidpointOnLine", Coords(p) \o Coords(q) \o Ends(l), tag)

-----------------------------------------------------------------------------
Unknowns(c) == {p \in ToSet(c.params) : IsUnknown(p)}

(* The solver constraints of a list, by position: two may be alike. *)
Rows(clist) == DOMAIN clist

Satisfied(c, vals) ==
    Holds(c.kind, [i \in DOMAIN c.params |->
                     IF IsUnknown(c.params[i]) THEN vals[c.params[i]] ELSE c.params[i][2]])

(***************************************************************************)
(* QR gives, for each row of the Jacobian beyond its rank, the rows it     *)
(* depends on. Which they are is numeric, any choice the shape of the      *)
(* matrix allows: an unknown of dependent rows is used at least twice.     *)
(***************************************************************************)
Dependent(clist, group) ==
    \A p \in UNION {Unknowns(clist[r]) : r \in group} :
        MapThenSumSet(LAMBDA r : Cardinality({i \in DOMAIN clist[r].params : clist[r].params[i] = p}),
                      group) >= 2

(* A basis of the rows, and for each other row the ones it depends on. *)
ConflictGroups(clist, plist) ==
    UNION {{{dep[r] \union {r} : r \in DOMAIN dep} :
              dep \in {d \in [Rows(clist) \ basis -> SUBSET basis] :
                         \A r \in DOMAIN d : Dependent(clist, d[r] \union {r})}} :
           basis \in {b \in SUBSET Rows(clist) : Cardinality(b) <= Cardinality(plist)}}

(* Rows one could drop: those with tag 0 have priority and never are. *)
Eligible(clist, groups) == {r \in UNION groups : clist[r].tag # 0}

Multiplicity(clist, r) == Cardinality({s \in Rows(clist) : clist[s].tag = clist[r].tag})

Preferred(clist, open, r, s) ==
    LET pop(q) == Cardinality({g \in open : q \in g}) IN
    \/ pop(r) > pop(s)
    \/ pop(r) = pop(s) /\ Multiplicity(clist, r) < Multiplicity(clist, s)
    \/ /\ pop(r) = pop(s)
       /\ Multiplicity(clist, r) = Multiplicity(clist, s)
       /\ clist[r].tag >= clist[s].tag

(* The most popular row of the groups not yet satisfied, and the eligible  *)
(* rows of its tag, are dropped until every group has lost a row: each turn *)
(* that drops any drops a row more.                                        *)
Dropped(clist, open) ==
    LET best == CHOOSE r \in Eligible(clist, open) :
                   \A s \in Eligible(clist, open) : Preferred(clist, open, r, s)
    IN  {r \in Eligible(clist, open) : clist[r].tag = clist[best].tag}

Skipped(clist, groups) ==
    LET skip[n \in 0 .. Len(clist)] ==
          IF n = 0 THEN {}
          ELSE LET before == skip[n - 1]
               IN  before \union Dropped(clist, {g \in groups : g \cap before = {}})
    IN  skip[Len(clist)]

(***************************************************************************)
(* What diagnose() may find: the dropped rows that a solution of the       *)
(* others satisfies are redundant; the tags of a group without a redundant *)
(* row are in conflict. Tags of which every row is redundant are reported. *)
(***************************************************************************)
Over(v, ref) == [p \in DOMAIN v \union DOMAIN ref |-> IF p \in DOMAIN v THEN v[p] ELSE ref[p]]

Solutions(clist, rows, ps, ref) ==
    {v \in [ps -> Values] : \A r \in rows : Satisfied(clist[r], Over(v, ref))}

Diagnosis(clist, plist, groups, redundant) ==
    LET open == {g \in groups : g \cap redundant = {}}
        rank == Len(clist) - Cardinality(groups)
        independent == Len(clist) - Cardinality(groups \ open)
    IN  [redundant |-> redundant,
         conflictingTags |-> {clist[r].tag : r \in UNION open} \ {0},
         redundantTags |-> {clist[r].tag : r \in redundant}
                           \ {clist[r].tag : r \in Rows(clist) \ redundant},
         dofs |-> IF rank = Cardinality(plist) /\ independent > rank
                  THEN Cardinality(plist) - independent ELSE Cardinality(plist) - rank]

Redundancies(clist, plist, skipped, ref) ==
    {{}} \union {{r \in skipped : Satisfied(clist[r], Over(v, ref))} :
                   v \in Solutions(clist, Rows(clist) \ skipped,
                                   UNION {Unknowns(clist[r]) : r \in Rows(clist)} , ref)}

Diagnoses(clist, plist, ref) ==
    IF plist = {} THEN {[redundant |-> {}, conflictingTags |-> {}, redundantTags |-> {}, dofs |-> 0]}
    ELSE UNION {{Diagnosis(clist, plist, groups, red) :
                   red \in Redundancies(clist, plist, Skipped(clist, groups), ref)} :
                groups \in ConflictGroups(clist, plist)}

-----------------------------------------------------------------------------
(* Decoupled components: rows that share an unknown, directly or not, are  *)
(* in every set of rows that is closed under sharing one.                  *)
Closed(clist, rows, comp) ==
    \A s \in comp : \A r \in rows :
        Unknowns(clist[r]) \cap Unknowns(clist[s]) # {} => r \in comp

Component(clist, rows, r) ==
    {s \in rows : \A comp \in SUBSET rows : r \in comp /\ Closed(clist, rows, comp) => s \in comp}

(* Mutant of Components: every constraint is solved on its own. *)
ComponentsApart(clist, rows) == {{r} : r \in rows}

Components(clist, rows) == {Component(clist, rows, r) : r \in rows}

(* The unknown each unknown is replaced by, after the equations between    *)
(* two of them have been taken out.                                        *)
Eliminated(clist, rows) ==
    {r \in rows : clist[r].kind = "Equal" /\ IsUnknown(clist[r].params[1])
                                          /\ IsUnknown(clist[r].params[2])}

Joined(kept, plist, equal) ==
    [x \in plist |-> IF kept[x] = kept[equal[2]] THEN kept[equal[1]] ELSE kept[x]]

Kept(clist, rows, plist) ==
    LET kept[n \in 0 .. Len(clist)] ==
          IF n = 0 THEN [x \in plist |-> x]
          ELSE IF n \in Eliminated(clist, rows) THEN Joined(kept[n - 1], plist, clist[n].params)
          ELSE kept[n - 1]
    IN  kept[Len(clist)]

(* The rows of one subsystem with the unknowns it solves for. *)
Reduced(c, kept) ==
    [c EXCEPT !.params = [i \in DOMAIN c.params |->
        IF IsUnknown(c.params[i]) THEN kept[c.params[i]] ELSE c.params[i]]]
Subsystem(clist, comp, kept) ==
    [rows |-> comp \ Eliminated(clist, comp),
     unknowns |-> UNION {Unknowns(Reduced(clist[r], kept)) : r \in comp \ Eliminated(clist, comp)}]

(* What a solver leaves in a subsystem: the two Newton-like ones succeed   *)
(* with the constraints met, BFGS may stop at a least error.               *)
SolveDL(clist, sub, kept, ref) ==
    {v \in [sub.unknowns -> Values] :
        \A r \in sub.rows : Satisfied(Reduced(clist[r], kept), Over(v, ref))}
SolveLM(clist, sub, kept, ref) == SolveDL(clist, sub, kept, ref)
SolveBFGS(clist, sub, kept, ref) == [sub.unknowns -> Values]

SolveBy(alg, clist, sub, kept, ref) ==
    CASE alg = "DogLeg" -> SolveDL(clist, sub, kept, ref)
      [] alg = "LevenbergMarquardt" -> SolveLM(clist, sub, kept, ref)
      [] alg = "BFGS" -> SolveBFGS(clist, sub, kept, ref)

Extended(done, found) == {Over(d, v) : d \in done, v \in found}

(* Every way to solve all subsystems: the solved values of their unknowns. *)
Solves(alg, clist, rows, kept, ref) ==
    LET comps == SetToSeq(Components(clist, rows))
        done[n \in 0 .. Len(comps)] ==
          IF n = 0 THEN {<<>>}
          ELSE Extended(done[n - 1], SolveBy(alg, clist, Subsystem(clist, comps[n], kept), kept, ref))
    IN  done[Len(comps)]

(* applySolution: eliminated parameters follow the ones that replace them. *)
ApplySolution(ref, solved, kept) ==
    [p \in DOMAIN ref |-> IF kept[p] \in DOMAIN solved THEN solved[kept[p]] ELSE ref[kept[p]]]
=============================================================================
