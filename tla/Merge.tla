------------------------------- MODULE Merge -------------------------------
(***************************************************************************)
(* threeWayMerge and applyResolutions (feature/merge.cpp) as functions of  *)
(* feature lists.                                                          *)
(*                                                                         *)
(* A feature is its id and its content: type, suppressed flag and          *)
(* parameters.  Its status is meta-state the merge does not look at.       *)
(* Conflicts are kept by kind; the order in which threeWayMerge pushes     *)
(* them shows only in applyResolutions' treatment of the add/remove ones,  *)
(* which therefore are a sequence.                                         *)
(***************************************************************************)
EXTENDS Integers, Sequences, SequencesExt, FiniteSets

CONSTANTS
    Ids,         \* feature ids
    Types,       \* feature types
    Names,       \* parameter names
    Values,      \* parameter values
    Empty,       \* ParamValue{std::string{}}
    Unset,       \* the value of a parameter that is absent
    NoName,      \* paramName of a resolution of another kind of conflict
    CustomValue, \* a customValue for a parameter
    CustomType   \* a customValue for a type

ASSUME MergeAssumption ==
    /\ Empty \in Values /\ CustomValue \in Values
    /\ Unset \notin Values
    /\ NoName \notin Names
    /\ Empty \notin Types /\ CustomType \in Types

Features ==
    [id : Ids, type : Types \cup {Empty}, suppressed : BOOLEAN,
     params : UNION {[S -> Values] : S \in SUBSET Names}]

-----------------------------------------------------------------------------
(* Lists of features with distinct ids *)

IdsOf(list)     == {list[i].id : i \in DOMAIN list}
Distinct(list)  == \A i, j \in DOMAIN list : list[i].id = list[j].id => i = j
Has(list, id)   == id \in IdsOf(list)
IndexOf(list, id) == CHOOSE i \in DOMAIN list : list[i].id = id
At(list, id)    == list[IndexOf(list, id)]
Param(f, n)     == IF n \in DOMAIN f.params THEN f.params[n] ELSE Unset

(* The features whose ids are in a set, in the order of the list. *)
WithIds(list, ids) ==
    LET kept[n \in 0..Len(list)] ==
            IF n = 0 THEN <<>>
            ELSE IF list[n].id \in ids THEN Append(kept[n - 1], list[n])
            ELSE kept[n - 1]
    IN  kept[Len(list)]

Without(list, id) == WithIds(list, IdsOf(list) \ {id})

(* params[n] = v *)
WithParam(f, n, v) ==
    [f EXCEPT !.params = [m \in DOMAIN f.params \cup {n} |-> IF m = n THEN v ELSE f.params[m]]]

-----------------------------------------------------------------------------
(* Pass 1: the content of each feature *)

(* Both sides changed it, and not to the same. *)
Clash(b, o, t) == o # b /\ t # b /\ o # t

(* Mutant of Combine: ours wins a clash. *)
CombineOurs(b, o, t) == IF o = b THEN t ELSE o

(* mergeOneParam, and the same rule for the type and the suppressed flag:  *)
(* a clash keeps base.                                                     *)
Combine(b, o, t) ==
    IF t = b \/ t = o THEN o
    ELSE IF o = b THEN t
    ELSE b

BothAdded(b, o, t, id)  == ~Has(b, id) /\ Has(o, id) /\ Has(t, id)
InAllThree(b, o, t, id) == Has(b, id) /\ Has(o, id) /\ Has(t, id)

(* `gone` removed what `other` modified. *)
RemovedModified(b, gone, other, id) ==
    Has(b, id) /\ ~Has(gone, id) /\ Has(other, id) /\ At(other, id) # At(b, id)

Survives(b, o, t, id) ==
    \/ ~Has(b, id) /\ (Has(o, id) \/ Has(t, id))
    \/ InAllThree(b, o, t, id)
    \/ RemovedModified(b, o, t, id)
    \/ RemovedModified(b, t, o, id)

CombinedFeature(f, g, h) ==
    LET names == {n \in Names : Combine(Param(f, n), Param(g, n), Param(h, n)) # Unset}
    IN  [id         |-> f.id,
         type       |-> Combine(f.type, g.type, h.type),
         suppressed |-> Combine(f.suppressed, g.suppressed, h.suppressed),
         params     |-> [n \in names |-> Combine(Param(f, n), Param(g, n), Param(h, n))]]

MergedFeature(b, o, t, id) ==
    IF InAllThree(b, o, t, id) THEN CombinedFeature(At(b, id), At(o, id), At(t, id))
    ELSE IF Has(b, id) THEN At(b, id)
    ELSE IF Has(o, id) THEN At(o, id)
    ELSE At(t, id)

-----------------------------------------------------------------------------
(* The conflicts of pass 1 *)

(* The value a conflict records for a parameter that may be absent. *)
OrEmpty(v) == IF v = Unset THEN Empty ELSE v

(* Mutant of ParamClashes: parameters of features added on both sides are  *)
(* not compared.                                                           *)
ParamClashesInAllThree(b, o, t) ==
    {k \in Ids \X Names :
        /\ InAllThree(b, o, t, k[1])
        /\ Clash(Param(At(b, k[1]), k[2]), Param(At(o, k[1]), k[2]), Param(At(t, k[1]), k[2]))}

(* Mutant of ParamClashes: a feature both sides added is in conflict even  *)
(* when they added the same.                                               *)
ParamClashesWhenAdded(b, o, t) ==
    {k \in Ids \X Names :
        \/ /\ InAllThree(b, o, t, k[1])
           /\ Clash(Param(At(b, k[1]), k[2]), Param(At(o, k[1]), k[2]), Param(At(t, k[1]), k[2]))
        \/ /\ BothAdded(b, o, t, k[1])
           /\ At(o, k[1]).type = At(t, k[1]).type}

ParamClashes(b, o, t) ==
    {k \in Ids \X Names :
        \/ /\ InAllThree(b, o, t, k[1])
           /\ Clash(Param(At(b, k[1]), k[2]), Param(At(o, k[1]), k[2]), Param(At(t, k[1]), k[2]))
        \/ /\ BothAdded(b, o, t, k[1])
           /\ At(o, k[1]).type = At(t, k[1]).type
           /\ Param(At(o, k[1]), k[2]) # Param(At(t, k[1]), k[2])}

ParamConflict(b, o, t, id, n) ==
    [id |-> id, name |-> n,
     base   |-> OrEmpty(Param(At(IF Has(b, id) THEN b ELSE o, id), n)),
     ours   |-> OrEmpty(Param(At(o, id), n)),
     theirs |-> OrEmpty(Param(At(t, id), n))]

TypeClashes(b, o, t) ==
    {id \in Ids :
        \/ /\ InAllThree(b, o, t, id)
           /\ Clash(At(b, id).type, At(o, id).type, At(t, id).type)
        \/ /\ BothAdded(b, o, t, id)
           /\ At(o, id).type # At(t, id).type}

TypeConflict(b, o, t, id) ==
    [id |-> id, base |-> IF Has(b, id) THEN At(b, id).type ELSE Empty,
     ours |-> At(o, id).type, theirs |-> At(t, id).type]

SuppressionClashes(b, o, t) ==
    {id \in Ids :
        \/ /\ InAllThree(b, o, t, id)
           /\ Clash(At(b, id).suppressed, At(o, id).suppressed, At(t, id).suppressed)
        \/ /\ BothAdded(b, o, t, id)
           /\ At(o, id).type = At(t, id).type
           /\ At(o, id).suppressed # At(t, id).suppressed}

SuppressionConflict(b, o, t, id) ==
    [id |-> id, base |-> At(IF Has(b, id) THEN b ELSE o, id).suppressed,
     ours |-> At(o, id).suppressed, theirs |-> At(t, id).suppressed]

(* The snapshots of the side that removed it are absent. *)
AddRemoveConflicts(b, o, t) ==
    LET clashing == WithIds(b, {id \in IdsOf(b) : \/ RemovedModified(b, o, t, id)
                                                  \/ RemovedModified(b, t, o, id)})
    IN  [i \in DOMAIN clashing |->
            LET id == clashing[i].id
            IN  [id |-> id, base |-> clashing[i],
                 oursRemoved |-> ~Has(o, id),
                 modified |-> At(IF Has(o, id) THEN o ELSE t, id),
                 insertIndexHint |-> IndexOf(b, id) - 1]]

-----------------------------------------------------------------------------
(* Pass 2: the order *)

RetainedBase(b, o, t) == WithIds(b, {id \in IdsOf(b) : Survives(b, o, t, id)})

(* relativeIndex: positions on a side among the retained base features *)
RelativeOrder(side, retained) == WithIds(side, IdsOf(retained))

PositionClashes(b, o, t) ==
    LET retained == RetainedBase(b, o, t)
        ours     == RelativeOrder(o, retained)
        theirs   == RelativeOrder(t, retained)
    IN  {id \in IdsOf(retained) :
            /\ Has(ours, id) /\ Has(theirs, id)
            /\ Clash(IndexOf(retained, id), IndexOf(ours, id), IndexOf(theirs, id))}

Added(b, side) == WithIds(side, IdsOf(side) \ IdsOf(b))

(* Mutant of MergedOrder: what both sides added is appended twice. *)
MergedOrderUnplaced(b, o, t) == RetainedBase(b, o, t) \o Added(b, o) \o Added(b, t)

(* Retained base features in base order, then ours' additions, then        *)
(* theirs'; position conflicts and one-sided moves change nothing.         *)
MergedOrder(b, o, t) ==
    RetainedBase(b, o, t) \o Added(b, o) \o WithIds(Added(b, t), IdsOf(t) \ IdsOf(o))

-----------------------------------------------------------------------------
(* threeWayMerge *)

MergedTree(b, o, t) ==
    LET order == MergedOrder(b, o, t)
    IN  [i \in DOMAIN order |-> MergedFeature(b, o, t, order[i].id)]

Conflicts(b, o, t) ==
    [param       |-> {ParamConflict(b, o, t, k[1], k[2]) : k \in ParamClashes(b, o, t)},
     type        |-> {TypeConflict(b, o, t, id) : id \in TypeClashes(b, o, t)},
     suppression |-> {SuppressionConflict(b, o, t, id) : id \in SuppressionClashes(b, o, t)},
     addRemove   |-> AddRemoveConflicts(b, o, t),
     position    |-> PositionClashes(b, o, t)]

NoConflicts ==
    [param |-> {}, type |-> {}, suppression |-> {}, addRemove |-> <<>>, position |-> {}]

(* MergeResult::clean *)
Clean(conflicts) == conflicts = NoConflicts

-----------------------------------------------------------------------------
(* applyResolutions.  A resolution is a choice for a key, a feature id and *)
(* a parameter name; `chosen` maps the keys that have one to the choice.   *)

ResolveChoices == {"Ours", "Theirs", "Base", "Custom"}

Keys(conflicts) ==
    {<<c.id, c.name>> : c \in conflicts.param}
      \cup {<<c.id, NoName>> : c \in conflicts.type \cup conflicts.suppression}
      \cup {<<c.id, NoName>> : c \in ToSet(conflicts.addRemove)}

Resolved(chosen, id, name) == <<id, name>> \in DOMAIN chosen

Pick(c, choice, custom) ==
    CASE choice = "Ours"   -> c.ours
      [] choice = "Theirs" -> c.theirs
      [] choice = "Base"   -> c.base
      [] choice = "Custom" -> custom

(* The parameter, type and suppression conflicts of a feature. *)
ResolvedParams(f, conflicts, chosen) ==
    LET mine == {c \in conflicts.param : c.id = f.id /\ Resolved(chosen, c.id, c.name)}
        names == {c.name : c \in mine}
        conflictOn(n) == CHOOSE c \in mine : c.name = n
    IN  [n \in DOMAIN f.params \cup names |->
            IF n \in names THEN Pick(conflictOn(n), chosen[<<f.id, n>>], CustomValue)
            ELSE f.params[n]]

Among(conflicts, f, chosen) ==
    {c \in conflicts : c.id = f.id /\ Resolved(chosen, f.id, NoName)}

ResolvedFeature(f, conflicts, chosen) ==
    [f EXCEPT
        !.params = ResolvedParams(f, conflicts, chosen),
        !.type = IF Among(conflicts.type, f, chosen) = {} THEN @
                 ELSE Pick(CHOOSE c \in Among(conflicts.type, f, chosen) : TRUE,
                           chosen[<<f.id, NoName>>], CustomType),
        !.suppressed = IF Among(conflicts.suppression, f, chosen) = {} THEN @
                       ELSE Pick(CHOOSE c \in Among(conflicts.suppression, f, chosen) : TRUE,
                                 chosen[<<f.id, NoName>>], TRUE)]

(* replaceInOut: in place, or at the hint when the feature is absent *)
Replaced(list, f, hint) ==
    IF Has(list, f.id) THEN [list EXCEPT ![IndexOf(list, f.id)] = f]
    ELSE IF hint \in 0..Len(list) THEN InsertAt(list, hint + 1, f)
    ELSE Append(list, f)

(* Mutant of AddRemoveResolved: the removing side is mistaken. *)
AddRemoveResolvedSwapped(list, c, choice) ==
    IF choice \in {"Base", "Custom"} THEN Replaced(list, c.base, c.insertIndexHint)
    ELSE IF (choice = "Theirs") = c.oursRemoved THEN Without(list, c.id)
    ELSE Replaced(list, c.modified, c.insertIndexHint)

(* Ours and Theirs do what that side did; Custom falls back to Base. *)
AddRemoveResolved(list, c, choice) ==
    IF choice \in {"Base", "Custom"} THEN Replaced(list, c.base, c.insertIndexHint)
    ELSE IF (choice = "Ours") = c.oursRemoved THEN Without(list, c.id)
    ELSE Replaced(list, c.modified, c.insertIndexHint)

(* An add/remove conflict without a resolution is left as merged. *)
Settled(list, c, chosen) ==
    IF Resolved(chosen, c.id, NoName)
    THEN AddRemoveResolved(list, c, chosen[<<c.id, NoName>>])
    ELSE list

(* The contents first, then the add/remove conflicts one after the other. *)
ApplyResolutions(merged, conflicts, chosen) ==
    LET settled[n \in 0..Len(conflicts.addRemove)] ==
            IF n = 0
            THEN [i \in DOMAIN merged |-> ResolvedFeature(merged[i], conflicts, chosen)]
            ELSE Settled(settled[n - 1], conflicts.addRemove[n], chosen)
    IN  settled[Len(conflicts.addRemove)]

=============================================================================
