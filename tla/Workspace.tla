----------------------------- MODULE Workspace -----------------------------
(***************************************************************************)
(* A workspace, the workspace forked from it, their edits, the merge of    *)
(* the two and the resolution of its conflicts (feature/workspace.cpp,     *)
(* feature/merge.cpp and their C ABI).                                     *)
(*                                                                         *)
(* The trees are taken as lists of features: what replays keep besides is  *)
(* the subject of FeatureTree.                                             *)
(***************************************************************************)
EXTENDS Merge

CONSTANTS
    Documents,      \* the trees the parent workspace is opened with
    Additions,      \* the features edits add
    MaxEdits,       \* bound on the edits of a workspace
    MaxMergedEdits  \* bound on the edits of merge results' trees

(* What a file or a client brings in has a type, and a file no id twice.   *)
(* No parameter has the name by which the type or the flag goes below.     *)
Typed == {f \in Features : f.type # Empty}

ASSUME WorkspaceAssumption ==
    /\ \A list \in Documents : list \in Seq(Typed) /\ Distinct(list)
    /\ Additions \subseteq Typed
    /\ "type" \notin Names /\ "suppressed" \notin Names
    /\ MaxEdits \in Nat /\ MaxMergedEdits \in Nat

VARIABLES
    main,         \* the tree of the parent workspace
    branch,       \* the tree of the forked workspace
    baseSnapshot, \* what the fork recorded
    result,       \* the MergeResult, or NoResult
    final,        \* what applyResolutions returned
    edits         \* history: the edits made, by tree

vars == <<main, branch, baseSnapshot, result, final, edits>>

NoResult == [made |-> FALSE, merged |-> <<>>, conflicts |-> NoConflicts,
             ours |-> <<>>, theirs |-> <<>>, touched |-> FALSE]
NoFinal  == [made |-> FALSE, features |-> <<>>, chosen |-> <<>>]

NoEdits == [main |-> 0, branch |-> 0, merged |-> 0]

-----------------------------------------------------------------------------
(* The lists a tree's list becomes by one call of FeatureTree's operations *)

AddsTo(list) ==
    {InsertAt(list, i, f) : i \in 1..(Len(list) + 1), f \in {g \in Additions : ~Has(list, g.id)}}

RemovesFrom(list) == {Without(list, id) : id \in IdsOf(list)}

UpdatesIn(list) ==
    {[list EXCEPT ![i] = WithParam(@, n, v)] :
        i \in DOMAIN list, n \in Names, v \in Values \ {Empty}}

SuppressesIn(list) == {[list EXCEPT ![i].suppressed = ~@] : i \in DOMAIN list}

MovesIn(list) ==
    {InsertAt(RemoveAt(list, i), j, list[i]) : i \in DOMAIN list, j \in DOMAIN list}

EditsOf(list) ==
    (AddsTo(list) \cup RemovesFrom(list) \cup UpdatesIn(list)
       \cup SuppressesIn(list) \cup MovesIn(list)) \ {list}

-----------------------------------------------------------------------------
(* A document is opened and forked. *)
Init ==
    /\ main \in Documents
    /\ branch = main
    /\ baseSnapshot = main
    /\ result = NoResult
    /\ final = NoFinal
    /\ edits = NoEdits

EditMain ==
    /\ ~result.made
    /\ edits.main < MaxEdits
    /\ main' \in EditsOf(main)
    /\ edits' = [edits EXCEPT !.main = @ + 1]
    /\ UNCHANGED <<branch, baseSnapshot, result, final>>

EditBranch ==
    /\ ~result.made
    /\ edits.branch < MaxEdits
    /\ branch' \in EditsOf(branch)
    /\ edits' = [edits EXCEPT !.branch = @ + 1]
    /\ UNCHANGED <<main, baseSnapshot, result, final>>

MergeOf(ours, theirs) ==
    [made |-> TRUE, merged |-> MergedTree(baseSnapshot, ours, theirs),
     conflicts |-> Conflicts(baseSnapshot, ours, theirs),
     ours |-> ours, theirs |-> theirs, touched |-> FALSE]

(* threeWayMerge from the fork's base, either workspace being ours *)
ThreeWayMerge ==
    /\ ~result.made
    /\ result' \in {MergeOf(main, branch), MergeOf(branch, main)}
    /\ UNCHANGED <<main, branch, baseSnapshot, final, edits>>

(* The tree of a merge result is live until its conflicts are resolved. *)
EditMerged ==
    /\ result.made /\ ~final.made
    /\ edits.merged < MaxMergedEdits
    /\ \E merged \in EditsOf(result.merged) :
          result' = [result EXCEPT !.merged = merged, !.touched = TRUE]
    /\ edits' = [edits EXCEPT !.merged = @ + 1]
    /\ UNCHANGED <<main, branch, baseSnapshot, final>>

(* With a choice for some of the conflicts, or for all. *)
Resolve ==
    /\ result.made /\ ~final.made
    /\ \E resolved \in SUBSET Keys(result.conflicts) :
         \E chosen \in [resolved -> ResolveChoices] :
            final' = [made |-> TRUE, chosen |-> chosen,
                      features |-> ApplyResolutions(result.merged, result.conflicts, chosen)]
    /\ UNCHANGED <<main, branch, baseSnapshot, result, edits>>

(* The parent workspace goes on with the resolved tree; its fork copies the *)
(* features and records them as the new base.                              *)
ForkAgain ==
    /\ final.made
    /\ main' = final.features
    /\ branch' = final.features
    /\ baseSnapshot' = final.features
    /\ result' = NoResult
    /\ final' = NoFinal
    /\ UNCHANGED edits

Next == EditMain \/ EditBranch \/ ThreeWayMerge \/ EditMerged \/ Resolve \/ ForkAgain

Spec == Init /\ [][Next]_vars

-----------------------------------------------------------------------------
(* What a three-way merge and the resolution of its conflicts owe the two  *)
(* workspaces (feature/merge.cpp).                                         *)
(* The aspects of a feature that a merge decides one by one. *)
Aspects == {"type", "suppressed"} \cup Names

Aspect(list, id, a) ==
    IF ~Has(list, id) THEN Unset
    ELSE IF a = "type" THEN At(list, id).type
    ELSE IF a = "suppressed" THEN ToString(At(list, id).suppressed)
    ELSE Param(At(list, id), a)

(* The ids whose presence, or whose aspect a, is left to a resolution. *)
InConflict(id, a) ==
    \/ \E c \in ToSet(result.conflicts.addRemove) : c.id = id
    \/ a \in Names /\ \E c \in result.conflicts.param : c.id = id /\ c.name = a
    \/ a = "suppressed" /\ \E c \in result.conflicts.suppression : c.id = id
    \* a type both sides added is in conflict as a whole
    \/ \E c \in result.conflicts.type : c.id = id /\ (a = "type" \/ ~Has(baseSnapshot, id))

Conflicted == {k[1] : k \in Keys(result.conflicts)}

(* A merge whose tree is as threeWayMerge left it. *)
Fresh == result.made /\ ~result.touched

-----------------------------------------------------------------------------
(* TypeOK: trees are lists of features of distinct ids, and a conflict     *)
(* records values a parameter can have.                                    *)
TypeOK ==
    /\ \A list \in {main, branch, baseSnapshot, result.merged, final.features} :
          list \in Seq(Features)
    /\ \A list \in {main, branch, baseSnapshot} : Distinct(list)
    /\ result.conflicts.param \subseteq
          [id : Ids, name : Names, base : Values, ours : Values, theirs : Values]
    /\ result.conflicts.type \subseteq
          [id : Ids, base : Types \cup {Empty}, ours : Types, theirs : Types]
    /\ result.conflicts.suppression \subseteq
          [id : Ids, base : BOOLEAN, ours : BOOLEAN, theirs : BOOLEAN]
    /\ result.conflicts.position \subseteq Ids
    /\ edits \in [main : 0..MaxEdits, branch : 0..MaxEdits, merged : 0..MaxMergedEdits]

(* MergedIdsDistinct: whatever both sides added, removed and moved, no id  *)
(* is twice in the merged tree or in the resolved one, even when the       *)
(* merged tree was edited before its conflicts were resolved (addFeature   *)
(* would refuse the second, and the C ABI then fails the whole call).      *)
MergedIdsDistinct == Distinct(result.merged) /\ Distinct(final.features)

(* Workspaces and results are well formed, their lists of features first.  *)
TreesWellFormed == TypeOK /\ MergedIdsDistinct

(* ChangesApplyOrConflict: each change of each side is in the merged tree, *)
(* or is in a conflict and the merged tree has what base had (ours, when   *)
(* base had no such feature); and what no side changed is unchanged.       *)
ChangesApplyOrConflict ==
    Fresh => \A id \in Ids, a \in Aspects :
        LET b == Aspect(baseSnapshot, id, a)
            o == Aspect(result.ours, id, a)
            t == Aspect(result.theirs, id, a)
            m == Aspect(result.merged, id, a)
        IN  IF InConflict(id, a) THEN m = IF Has(baseSnapshot, id) THEN b ELSE o
            ELSE /\ o # b => m = o
                 /\ t # b => m = t
                 /\ (o = b /\ t = b) => m = b

(* MergeIsSymmetric: the merge does not depend on which workspace is ours: *)
(* the conflicts are the same with the sides exchanged, and so are the     *)
(* features (their order aside), except those that both sides added and    *)
(* that are in conflict.                                                   *)
MergeIsSymmetric ==
    Fresh =>
        LET other   == Conflicts(baseSnapshot, result.theirs, result.ours)
            swapped == MergedTree(baseSnapshot, result.theirs, result.ours)
            mirrored(cs) == {[c EXCEPT !.ours = c.theirs, !.theirs = c.ours] : c \in cs}
            settled(list) == {f \in ToSet(list) : Has(baseSnapshot, f.id) \/ f.id \notin Conflicted}
        IN  /\ settled(swapped) = settled(result.merged)
            /\ IdsOf(swapped) = IdsOf(result.merged)
            /\ other.position = result.conflicts.position
            /\ {c \in mirrored(other.param) : Has(baseSnapshot, c.id)}
                 = {c \in result.conflicts.param : Has(baseSnapshot, c.id)}
            /\ mirrored(other.type) = result.conflicts.type
            /\ [i \in DOMAIN other.addRemove |->
                   [other.addRemove[i] EXCEPT !.oursRemoved = ~@]] = result.conflicts.addRemove

(* MergeIsAbsorbed: merging the other side once more into a clean merge is *)
(* clean and changes nothing.                                              *)
MergeIsAbsorbed ==
    (Fresh /\ Clean(result.conflicts)) =>
        /\ Clean(Conflicts(baseSnapshot, result.merged, result.theirs))
        /\ MergedTree(baseSnapshot, result.merged, result.theirs) = result.merged

(* What resolutions cannot bring in (README, divergences): that a          *)
(* side has not got a parameter, and the rest of a feature that both sides *)
(* added with different types.                                             *)
OutOfReach(winner, id, a) ==
    \/ a \in Names /\ Has(winner, id) /\ Aspect(winner, id, a) = Unset
    \/ ~Has(baseSnapshot, id) /\ \E c \in result.conflicts.type : c.id = id

(* ResolutionsDecide: when every conflict is resolved for the same side,   *)
(* each aspect of each feature is as that side has it where it changed it  *)
(* or a conflict was about it, and as the other side has it elsewhere,     *)
(* whatever kinds of conflict the feature was in.                          *)
ResolutionsDecide ==
    (Fresh /\ final.made /\ DOMAIN final.chosen = Keys(result.conflicts)) =>
        \A sides \in {<<"Ours", result.ours, result.theirs>>,
                      <<"Theirs", result.theirs, result.ours>>} :
            (\A k \in DOMAIN final.chosen : final.chosen[k] = sides[1]) =>
                \A id \in Ids, a \in Aspects :
                    LET w == Aspect(sides[2], id, a)
                        l == Aspect(sides[3], id, a)
                    IN  \/ Aspect(final.features, id, a) =
                              IF w # Aspect(baseSnapshot, id, a) \/ InConflict(id, a) THEN w ELSE l
                        \/ InConflict(id, a) /\ OutOfReach(sides[2], id, a)

(* ResolvingKeepsOrder: resolving conflicts moves no feature and touches   *)
(* none that was in no conflict, in whatever order the add/remove          *)
(* conflicts come, as long as the merged tree was not edited in between.   *)
ResolvingKeepsOrder ==
    (Fresh /\ final.made) =>
        /\ LET left == WithIds(result.merged, IdsOf(final.features))
           IN  /\ Len(final.features) = Len(left)
               /\ \A i \in DOMAIN left : final.features[i].id = left[i].id
        /\ \A f \in ToSet(result.merged) : f.id \notin Conflicted => f \in ToSet(final.features)

(* Resolutions decide what they are about, and nothing else.               *)
ResolutionsDecideConflicts == ResolutionsDecide /\ ResolvingKeepsOrder
-----------------------------------------------------------------------------
Precedes(list, x, y) == Has(list, x) /\ Has(list, y) /\ IndexOf(list, x) < IndexOf(list, y)

(* OneSidedMoveAdopted: when one side moved a feature and the merge is     *)
(* clean, the merged tree has that side's order (merge.cpp:451-452: "If    *)
(* only one side moved a retained feature, adopt that side's relative      *)
(* position"); the code places retained features in base's order.          *)
OneSidedMoveAdopted ==
    (Fresh /\ Clean(result.conflicts)) =>
        \A x, y \in IdsOf(result.merged) :
            (Precedes(baseSnapshot, x, y) /\ Precedes(result.theirs, x, y)
                /\ Precedes(result.ours, y, x))
            => Precedes(result.merged, y, x)

=============================================================================
