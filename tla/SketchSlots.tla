----------------------------- MODULE SketchSlots ---------------------------
(***************************************************************************)
(* The sketch handle of the C interface. Entities and constraints live in  *)
(* slots whose index, from 0, is their public id: a removed one stays as a *)
(* tombstone and its id is not used again. A solve works on the live ones, *)
(* renumbered, and translates back.                                        *)
(***************************************************************************)
EXTENDS Sketch

CONSTANTS
    Seeds,          \* the geometries an added entity may have: functions from part to value
    ConstraintChoices,  \* the constraints added: [type, e, value]
    StartSketches,  \* the sketches of the initial states
    MaxSketchCalls, \* calls on one sketch
    MaxEntities,    \* slots of one family
    MaxConstraints  \* slots of constraints

VARIABLES
    slots,          \* per family, its slots: [vals, construction, removed]
    constraintSlots,\* the constraints: [type, e, value, removed]
    lastResult,     \* SolveResult: [status, redundant, dofs]
    lastCode,       \* the code the last call returned
    wire,           \* the entities of the last wire made
    solve,          \* history: what the last solve that succeeded worked on
    sketchCalls     \* calls made, for the bound

skVars == <<slots, constraintSlots, lastResult, lastCode, wire, solve, sketchCalls>>

(* What a slot may hold: a handle takes only the types there are. *)
StoredEntities(fam) ==
    [vals : [Parts(fam) -> Values \union {NaN}], construction : BOOLEAN, removed : BOOLEAN]
StoredConstraints ==
    [type : ConstraintTypes, e : [1 .. 3 -> Int], value : Int \union {NaN}, removed : BOOLEAN]

ASSUME SketchAssumption ==
    /\ \A fam \in Families : Seeds[fam] \subseteq [Parts(fam) -> Values \union {NaN}]
    /\ \A c \in ConstraintChoices :
          c.type \in ConstraintTypes /\ c.e \in [1 .. 3 -> Int] /\ c.value \in Int \union {NaN}
    /\ \A s \in StartSketches :
          /\ DOMAIN s.slots = Families
          /\ \A fam \in Families : s.slots[fam] \in Seq(StoredEntities(fam))
          /\ s.constraints \in Seq(StoredConstraints)
    /\ MaxEntities \in Nat

NoSolve == [done |-> FALSE, conflicting |-> {}]
NoResult == [status |-> "OK", redundant |-> {}, dofs |-> 0]

(* The start sketches are what add calls build. *)
SKInit ==
    /\ \E s \in StartSketches : slots = s.slots /\ constraintSlots = s.constraints
    /\ lastResult = NoResult /\ lastCode = "OK" /\ wire = {} /\ solve = NoSolve
    /\ sketchCalls = 0

Call(code) ==
    /\ sketchCalls < MaxSketchCalls
    /\ sketchCalls' = sketchCalls + 1
    /\ lastCode' = code

-----------------------------------------------------------------------------
InSlot(fam, id) == id >= 0 /\ id < Len(slots[fam]) /\ ~slots[fam][id + 1].removed

InOrder(ids) ==
    [k \in 1 .. Cardinality(ids) |-> CHOOSE id \in ids : Cardinality({j \in ids : j < id}) = k - 1]

(* The public ids of the live entities of a family, by their position. *)
LiveIds(fam) == InOrder({id \in 0 .. Len(slots[fam]) - 1 : InSlot(fam, id)})

Position(fam, id) ==
    IF ~InSlot(fam, id) THEN -1
    ELSE Cardinality({j \in 0 .. id - 1 : InSlot(fam, j)})

(* Mutant of ResolveEntity: public ids go to the solver as they are. *)
ResolveEntityUnmapped(fam, id) ==
    IF \E k \in DOMAIN Members(fam) : InSlot(Members(fam)[k], id) THEN id ELSE -1

(* The first family of the union that has the id decides. *)
ResolveEntity(fam, id) ==
    LET found == {k \in DOMAIN Members(fam) : InSlot(Members(fam)[k], id)}
    IN  IF found = {} THEN -1 ELSE Position(Members(fam)[Min(found)], id)

Resolved(c) ==
    [k \in 1 .. 3 |-> ResolveEntity(ConstraintSchemaFor(c.type).e[k], c.e[k])]

(* Constraints that name a dead entity are left out of a solve. *)
Translates(c) ==
    \A k \in 1 .. 3 :
        ConstraintSchemaFor(c.type).e[k] # "None" => Resolved(c)[k] >= 0

LiveConstraints ==
    InOrder({id \in 0 .. Len(constraintSlots) - 1 :
                ~constraintSlots[id + 1].removed /\ Translates(constraintSlots[id + 1])})

LiveList ==
    [k \in DOMAIN LiveConstraints |->
        LET c == constraintSlots[LiveConstraints[k] + 1]
        IN  [type |-> c.type, e |-> Resolved(c), value |-> c.value]]

LiveCounts == [fam \in Families |-> Len(LiveIds(fam))]

(* A live parameter and its public slot. *)
Public(p) == <<p[1], LiveIds(p[1])[p[2] + 1], p[3]>>
LiveParameters ==
    UNION {UNION {Parameters(fam, i) : i \in 0 .. LiveCounts[fam] - 1} : fam \in Families}
LiveValues == [p \in LiveParameters |-> slots[p[1]][Public(p)[2] + 1].vals[p[3]]]

-----------------------------------------------------------------------------
AddEntity(fam, seed) ==
    /\ Len(slots[fam]) < MaxEntities
    /\ Call("OK")
    /\ slots' = [slots EXCEPT ![fam] =
                    Append(@, [vals |-> seed, construction |-> FALSE, removed |-> FALSE])]
    /\ UNCHANGED <<constraintSlots, lastResult, wire, solve>>

AddConstraint(c) ==
    /\ Len(constraintSlots) < MaxConstraints
    /\ Call("OK")
    /\ constraintSlots' = Append(constraintSlots, [type |-> c.type, e |-> c.e, value |-> c.value,
                                                   removed |-> FALSE])
    /\ UNCHANGED <<slots, lastResult, wire, solve>>

Refers(c, fam, id) ==
    \E k \in 1 .. 3 : fam \in ToSet(Members(ConstraintSchemaFor(c.type).e[k])) /\ c.e[k] = id

Cascaded(fam, id) ==
    [i \in DOMAIN constraintSlots |->
        IF Refers(constraintSlots[i], fam, id)
        THEN [constraintSlots[i] EXCEPT !.removed = TRUE] ELSE constraintSlots[i]]

RemoveEntity(fam, id) ==
    \/ /\ ~InSlot(fam, id)
       /\ Call("INVALID_INPUT")
       /\ UNCHANGED <<slots, constraintSlots, lastResult, wire, solve>>
    \/ /\ InSlot(fam, id)
       /\ Call("OK")
       /\ slots' = [slots EXCEPT ![fam][id + 1].removed = TRUE]
       /\ constraintSlots' = Cascaded(fam, id)
       /\ UNCHANGED <<lastResult, wire, solve>>

RemoveConstraint(id) ==
    /\ IF id >= Len(constraintSlots) \/ constraintSlots[id + 1].removed
       THEN Call("INVALID_INPUT") /\ UNCHANGED constraintSlots
       ELSE Call("OK") /\ constraintSlots' = [constraintSlots EXCEPT ![id + 1].removed = TRUE]
    /\ UNCHANGED <<slots, lastResult, wire, solve>>

SetConstruction(fam, id, flag) ==
    /\ id <= Len(slots[fam])
    /\ IF id = Len(slots[fam]) THEN Call("OUT_OF_RANGE") /\ UNCHANGED slots
       ELSE IF slots[fam][id + 1].removed THEN Call("INVALID_STATE") /\ UNCHANGED slots
       ELSE Call("OK") /\ slots' = [slots EXCEPT ![fam][id + 1].construction = flag]
    /\ UNCHANGED <<constraintSlots, lastResult, wire, solve>>

-----------------------------------------------------------------------------
(* The solved values go back to the slots the live ones came from. *)
WrittenBack(vals) ==
    [fam \in Families |->
        [i \in DOMAIN slots[fam] |->
            IF slots[fam][i].removed THEN slots[fam][i]
            ELSE [slots[fam][i] EXCEPT !.vals =
                    [part \in DOMAIN @ |-> vals[<<fam, Position(fam, i - 1), part>>]]]]]

PublicConstraint(tag) == LiveConstraints[tag + 1]

(* What a constraint of the solved system acts on, by public ids. *)
ActsOn(row) == {<<Public(p)[1], Public(p)[2]>> : p \in Unknowns(row)}
SolvedRows(o) ==
    {[id |-> PublicConstraint(o.clist[r].tag), entities |-> ActsOn(o.clist[r]), kept |-> r \in o.rows,
      kind |-> o.clist[r].kind,
      params |-> [i \in DOMAIN o.clist[r].params |->
                    IF IsUnknown(o.clist[r].params[i]) THEN Public(o.clist[r].params[i])
                    ELSE o.clist[r].params[i]]] : r \in Rows(o.clist)}

SolveSketchSlots(o) ==
    /\ sketchCalls < MaxSketchCalls
    /\ IF ~o.ok
       THEN /\ Call("SKETCH_SOLVE_FAILED")
            /\ lastResult' = [status |-> "Failed", redundant |-> {}, dofs |-> 0]
            /\ solve' = [done |-> FALSE, conflicting |-> o.conflicting]
            /\ UNCHANGED slots
       ELSE /\ Call(IF o.status = "OK" THEN "OK" ELSE "SKETCH_REDUNDANT")
            /\ slots' = WrittenBack(o.vals)
            /\ lastResult' = [status |-> o.status, dofs |-> o.dofs,
                              redundant |-> {PublicConstraint(t) : t \in o.redundant}]
            /\ solve' = [done |-> TRUE, alg |-> o.alg, rows |-> SolvedRows(o),
                         conflicting |-> {}]
    /\ UNCHANGED <<constraintSlots, wire>>

(* Construction curves guide the solver and never reach a wire; whether    *)
(* the edges connect to one is for the geometry library to find.           *)
WireEntities ==
    {w \in Curves \X (0 .. MaxEntities - 1) :
        /\ InSlot(w[1], w[2])
        /\ ~slots[w[1]][w[2] + 1].construction
        /\ ~Degenerate(w[1], Position(w[1], w[2]), LiveValues)}

SketchToWire(connected) ==
    LET made == connected /\ WireEntities # {} IN
    /\ Call(IF made THEN "OK" ELSE "null")
    /\ wire' = IF made THEN WireEntities ELSE wire
    /\ UNCHANGED <<slots, constraintSlots, lastResult, solve>>

SKNext ==
    \/ \E fam \in Families : \E seed \in Seeds[fam] : AddEntity(fam, seed)
    \/ \E c \in ConstraintChoices : AddConstraint(c)
    \/ \E fam \in Families, id \in 0 .. MaxEntities : RemoveEntity(fam, id)
    \/ \E id \in 0 .. Len(constraintSlots) : RemoveConstraint(id)
    \/ \E fam \in Curves, id \in 0 .. MaxEntities, flag \in BOOLEAN : SetConstruction(fam, id, flag)
    \/ \E o \in SolveOutcomes(LiveList, LiveCounts, LiveValues) : SolveSketchSlots(o)
    \/ \E connected \in BOOLEAN : SketchToWire(connected)

SKSpec == SKInit /\ [][SKNext]_skVars

-----------------------------------------------------------------------------
(* What sketch solving promises to the callers of the C interface. *)
(* Type correctness of a sketch: every slot has the parameters of its      *)
(* family, and a result only names constraints that have a slot.           *)
SKTypeOK ==
    /\ DOMAIN slots = Families
    /\ \A fam \in Families : slots[fam] \in Seq(StoredEntities(fam))
    /\ constraintSlots \in Seq(StoredConstraints)
    /\ lastResult.status \in {"OK", "Redundant", "Failed"}
    /\ \A id \in lastResult.redundant : id \in 0 .. Len(constraintSlots) - 1

(* The families whose id a constraint's k-th entity can be confused with.  *)
Ambiguous(c, k) == Len(Members(ConstraintSchemaFor(c.type).e[k])) > 1

Named(c) ==
    {<<ConstraintSchemaFor(c.type).e[k], c.e[k]>> :
        k \in {j \in 1 .. 3 : ConstraintSchemaFor(c.type).e[j] # "None"}}

(* What the solver was given for a constraint acts on the slots the        *)
(* constraint names, through the renumbering of live entities and the      *)
(* dispatch by type (types whose entity may come from several families     *)
(* aside: there the same id names several entities).                       *)
AppliedToNamed ==
    solve.done =>
        \A row \in solve.rows :
            LET c == constraintSlots[row.id + 1]
            IN  (\A k \in 1 .. 3 : ~Ambiguous(c, k)) => row.entities \subseteq Named(c)

Value(p) == IF IsUnknown(p) THEN slots[p[1]][p[2] + 1].vals[p[3]] ELSE p[2]
Met(row) == Holds(row.kind, [i \in DOMAIN row.params |-> Value(row.params[i])])

(* After a solve by one of the Newton-like solvers the values in the slots *)
(* meet every constraint of the solved system that was not dropped as      *)
(* redundant: solving components apart and eliminating equal parameters    *)
(* loses no constraint.                                                    *)
SolvedMeansMet ==
    solve.done /\ solve.alg # "BFGS" => \A row \in solve.rows : row.kept => Met(row)

(* The constraints a result calls redundant took part in that solve, and   *)
(* every solver constraint posted for them was dropped.                    *)
RedundantWerePosted ==
    solve.done =>
        \A id \in lastResult.redundant :
            /\ \E row \in solve.rows : row.id = id
            /\ \A row \in solve.rows : row.id = id => ~row.kept

Alive(c, k) ==
    \E fam \in ToSet(Members(ConstraintSchemaFor(c.type).e[k])) : InSlot(fam, c.e[k])

(* A constraint that stays live keeps its entities: no call leaves it      *)
(* naming an entity that was live and is no more.                          *)
CascadeKeepsReferents ==
    [][\A i \in DOMAIN constraintSlots :
         ~constraintSlots'[i].removed =>
            \A k \in 1 .. 3 : Alive(constraintSlots[i], k) => Alive(constraintSlots[i], k)']_skVars

(* Public ids go on naming what they named: into a solve, out of its       *)
(* result, and across removals.                                            *)
PublicIdsHold ==
    [](SKTypeOK /\ AppliedToNamed /\ RedundantWerePosted) /\ CascadeKeepsReferents

=============================================================================
