-------------------------- MODULE WorkspaceProofs --------------------------
(***************************************************************************)
(* A workspace, its fork and their merge, for every document.              *)
(***************************************************************************)
EXTENDS Workspace, MergeProofs

-----------------------------------------------------------------------------
(* Edits *)

LEMMA RemoveAtFacts ==
    ASSUME NEW list \in Trees, NEW i \in DOMAIN list
    PROVE  /\ RemoveAt(list, i) \in Trees
           /\ Len(RemoveAt(list, i)) = Len(list) - 1
           /\ IdsOf(RemoveAt(list, i)) = IdsOf(list) \ {list[i].id}
           /\ \A id \in IdsOf(RemoveAt(list, i)) : At(RemoveAt(list, i), id) = At(list, id)
<1>1. list \in Seq(Features) /\ Distinct(list)
    BY DEF Trees
<1>2. PICK top \in Nat : top = Len(list) /\ DOMAIN list = 1..top /\ i \in 1..top
    BY <1>1
<1>3. PICK a : a = SubSeq(list, 1, i - 1)
    OBVIOUS
<1>4. PICK c : c = SubSeq(list, i + 1, top)
    OBVIOUS
<1>5. StretchOf(Features, list, 1, i - 1, a)
    <2>1. 1 \in 1..(top + 1) /\ i - 1 \in 0..top /\ 1 <= (i - 1) + 1
        BY <1>2
    <2> QED BY <2>1, <1>1, <1>2, <1>3, SubSeqFacts
<1>6. StretchOf(Features, list, i + 1, top, c)
    <2>1. i + 1 \in 1..(top + 1) /\ top \in 0..top /\ i + 1 <= top + 1
        BY <1>2
    <2> QED BY <2>1, <1>1, <1>2, <1>4, SubSeqFacts
<1>7. /\ a \in Seq(Features) /\ Distinct(a) /\ IdsOf(a) = {list[k].id : k \in 1..(i - 1)}
      /\ \A id \in IdsOf(a) : At(a, id) = At(list, id)
    BY <1>5 DEF StretchOf
<1>8. /\ c \in Seq(Features) /\ Distinct(c) /\ IdsOf(c) = {list[k].id : k \in (i + 1)..top}
      /\ \A id \in IdsOf(c) : At(c, id) = At(list, id)
    BY <1>6 DEF StretchOf
<1>9. IdsOf(a) \cap IdsOf(c) = {}
    <2> SUFFICES ASSUME NEW id \in IdsOf(a), id \in IdsOf(c) PROVE FALSE
        OBVIOUS
    <2>1. PICK k \in 1..(i - 1) : id = list[k].id
        BY <1>7
    <2>2. PICK l \in (i + 1)..top : id = list[l].id
        BY <1>8
    <2>3. k \in DOMAIN list /\ l \in DOMAIN list /\ k # l
        BY <1>2
    <2> QED BY <2>1, <2>2, <2>3, <1>1 DEF Distinct
<1>10. PICK new : new = a \o c
    OBVIOUS
<1>11. new = RemoveAt(list, i)
    BY <1>2, <1>3, <1>4, <1>10 DEF RemoveAt
<1>12. Joined(Features, a, c, new)
    BY <1>7, <1>8, <1>9, <1>10, ConcatFacts
<1>13. /\ new \in Trees /\ IdsOf(new) = IdsOf(a) \cup IdsOf(c)
       /\ \A id \in IdsOf(new) : At(new, id) = At(list, id)
    BY <1>7, <1>8, <1>12 DEF Joined, Trees
<1>14. IdsOf(new) = IdsOf(list) \ {list[i].id}
    <2>1. ASSUME NEW id \in IdsOf(a) \cup IdsOf(c) PROVE id \in IdsOf(list) /\ id # list[i].id
        <3>1. PICK k \in 1..top : k # i /\ id = list[k].id
            BY <2>1, <1>2, <1>7, <1>8
        <3> QED BY <3>1, <1>1, <1>2 DEF IdsOf, Distinct
    <2>2. ASSUME NEW id \in IdsOf(list), id # list[i].id PROVE id \in IdsOf(a) \cup IdsOf(c)
        <3>1. PICK k \in DOMAIN list : id = list[k].id
            BY DEF IdsOf
        <3>2. k \in 1..(i - 1) \/ k \in (i + 1)..top
            BY <3>1, <2>2, <1>2
        <3> QED BY <3>1, <3>2, <1>7, <1>8
    <2> QED BY <2>1, <2>2, <1>13
<1>15. Len(new) = top - 1
    <2>1. Len(a) = i - 1
        <3>1. 1 \in Int /\ i - 1 \in Int /\ \A k \in 1..(i - 1) : list[k] \in Features
            BY <1>1, <1>2
        <3>2. Len(a) = IF 1 <= i - 1 THEN (i - 1) - 1 + 1 ELSE 0
            BY <3>1, <1>3, SubSeqProperties
        <3> QED BY <3>2, <1>2
    <2>2. Len(c) = top - i
        <3>1. i + 1 \in Int /\ top \in Int /\ \A k \in (i + 1)..top : list[k] \in Features
            BY <1>1, <1>2
        <3>2. Len(c) = IF i + 1 <= top THEN top - (i + 1) + 1 ELSE 0
            BY <3>1, <1>4, SubSeqProperties
        <3> QED BY <3>2, <1>2
    <2>3. Len(new) = Len(a) + Len(c)
        BY <1>7, <1>8, <1>10, ConcatProperties
    <2>4. (i - 1) + (top - i) = top - 1
        BY <1>2
    <2> QED BY <2>1, <2>2, <2>3, <2>4, Zenon
<1> QED BY <1>2, <1>11, <1>13, <1>14, <1>15

(* An edit: ids stay distinct, and it leaves no type empty that was not.   *)
Edited(list, new) == new \in Trees /\ EmptyFrom(list, new)

LEMMA PutInEdits ==
    ASSUME NEW list \in Trees, NEW f \in Features, NEW new, PutIn(Features, list, f, new),
           f.type = Empty => Has(list, f.id) /\ At(list, f.id).type = Empty
    PROVE  Edited(list, new)
<1>1. /\ new \in Trees /\ IdsOf(new) = IdsOf(list) \cup {f.id} /\ At(new, f.id) = f
      /\ \A id \in IdsOf(list) : id # f.id => At(new, id) = At(list, id)
    BY PutInDecides
<1>2. ASSUME NEW id \in IdsOf(new), At(new, id).type = Empty
      PROVE  Has(list, id) /\ At(list, id).type = Empty
    <2>1. CASE id = f.id
        BY <2>1, <1>1, <1>2
    <2>2. CASE id # f.id
        BY <2>2, <1>1, <1>2 DEF Has
    <2> QED BY <2>1, <2>2
<1> QED BY <1>1, <1>2 DEF Edited, EmptyFrom

LEMMA OverwriteEdits ==
    ASSUME NEW list \in Trees, NEW i \in DOMAIN list, NEW f \in Features,
           f.id = list[i].id, f.type = list[i].type
    PROVE  Edited(list, [list EXCEPT ![i] = f])
<1>1. list \in Seq(Features) /\ Distinct(list)
    BY DEF Trees
<1>2. PutIn(Features, list, f, [list EXCEPT ![i] = f])
    BY <1>1, OverwriteFacts
<1>3. Has(list, f.id) /\ At(list, f.id) = list[i]
    BY <1>1, FoundThere DEF Has
<1> QED BY <1>2, <1>3, PutInEdits

LEMMA EditsFacts ==
    ASSUME NEW list \in Trees, NEW new \in EditsOf(list)
    PROVE  Edited(list, new)
<1>1. list \in Seq(Features) /\ Distinct(list)
    BY DEF Trees
<1>2. CASE new \in AddsTo(list)
    <2>1. PICK i \in 1..(Len(list) + 1), f \in {g \in Additions : ~Has(list, g.id)} :
              new = InsertAt(list, i, f)
        BY <1>2 DEF AddsTo
    <2>2. f \in Features /\ f.type # Empty /\ f.id \notin IdsOf(list)
        BY WorkspaceAssumption DEF Typed, Has
    <2>3. PutIn(Features, list, f, new)
        BY <1>1, <2>1, <2>2, InsertAtFacts
    <2> QED BY <2>2, <2>3, PutInEdits
<1>3. CASE new \in RemovesFrom(list)
    <2>1. PICK id \in IdsOf(list) : new = Without(list, id)
        BY <1>3 DEF RemovesFrom
    <2>2. PickedFrom(Features, list, IdsOf(list) \ {id}, new)
          /\ IdsOf(new) = IdsOf(list) \ {id}
        BY <1>1, <2>1, WithoutFacts
    <2>3. new \in Trees /\ \A x \in IdsOf(new) : At(new, x) = At(list, x)
        BY <2>2 DEF PickedFrom, Trees
    <2> QED BY <2>2, <2>3 DEF Edited, EmptyFrom, Has
<1>4. CASE new \in UpdatesIn(list)
    <2>1. PICK i \in DOMAIN list, n \in Names, v \in Values \ {Empty} :
              new = [list EXCEPT ![i] = WithParam(@, n, v)]
        BY <1>4 DEF UpdatesIn
    <2>2. PICK f \in Features : f = list[i]
        BY <1>1
    <2>3. PICK g : g = WithParam(f, n, v)
        OBVIOUS
    <2>4. PICK params : params = [m \in DOMAIN f.params \cup {n} |-> IF m = n THEN v ELSE f.params[m]]
        OBVIOUS
    <2>5. g = [f EXCEPT !.params = params]
        BY <2>3, <2>4 DEF WithParam
    <2>6. g = [id |-> f.id, type |-> f.type, suppressed |-> f.suppressed, params |-> params]
        BY <2>5 DEF Features
    <2>7. params \in [DOMAIN f.params \cup {n} -> Values] /\ DOMAIN f.params \cup {n} \in SUBSET Names
        BY <2>4, FeatureFields
    <2>8. g \in Features
        BY <2>6, <2>7, FeatureFields, FeatureMade
    <2>9. g.id = f.id /\ g.type = f.type
        BY <2>6
    <2>10. new = [list EXCEPT ![i] = g]
        BY <2>1, <2>2, <2>3
    <2> QED BY <2>2, <2>8, <2>9, <2>10, OverwriteEdits
<1>5. CASE new \in SuppressesIn(list)
    <2>1. PICK i \in DOMAIN list : new = [list EXCEPT ![i].suppressed = ~@]
        BY <1>5 DEF SuppressesIn
    <2>2. PICK f \in Features : f = list[i]
        BY <1>1
    <2>3. PICK g : g = [f EXCEPT !.suppressed = ~f.suppressed]
        OBVIOUS
    <2>4. PICK flag \in BOOLEAN : flag = ~f.suppressed
        OBVIOUS
    <2>5. g = [f EXCEPT !.suppressed = flag]
        BY <2>3, <2>4
    <2>6. g \in Features /\ g.id = f.id /\ g.type = f.type
        BY <2>5 DEF Features
    <2>7. new = [list EXCEPT ![i] = g]
        BY <2>1, <2>2, <2>3
    <2> QED BY <2>2, <2>6, <2>7, OverwriteEdits
<1>6. CASE new \in MovesIn(list)
    <2>1. PICK i \in DOMAIN list, j \in DOMAIN list : new = InsertAt(RemoveAt(list, i), j, list[i])
        BY <1>6 DEF MovesIn
    <2>2. PICK f \in Features : f = list[i]
        BY <1>1
    <2>3. PICK rest : rest = RemoveAt(list, i)
        OBVIOUS
    <2>4. /\ rest \in Trees /\ Len(rest) = Len(list) - 1
          /\ IdsOf(rest) = IdsOf(list) \ {f.id}
          /\ \A id \in IdsOf(rest) : At(rest, id) = At(list, id)
        BY <2>2, <2>3, RemoveAtFacts
    <2>5. rest \in Seq(Features) /\ Distinct(rest)
        BY <2>4 DEF Trees
    <2>6. j \in 1..(Len(rest) + 1) /\ f.id \notin IdsOf(rest)
        BY <1>1, <2>4, <2>5
    <2>7. PutIn(Features, rest, f, new)
        BY <2>1, <2>2, <2>3, <2>5, <2>6, InsertAtFacts
    <2>8. /\ new \in Trees /\ IdsOf(new) = IdsOf(rest) \cup {f.id} /\ At(new, f.id) = f
          /\ \A id \in IdsOf(rest) : id # f.id => At(new, id) = At(rest, id)
        BY <2>4, <2>7, PutInDecides
    <2>9. f.id \in IdsOf(list) /\ At(list, f.id) = f
        BY <1>1, <2>2, FoundThere
    <2>10. IdsOf(new) = IdsOf(list) /\ \A id \in IdsOf(new) : At(new, id) = At(list, id)
        BY <2>4, <2>8, <2>9
    <2> QED BY <2>8, <2>10 DEF Edited, EmptyFrom, Has
<1> QED BY <1>2, <1>3, <1>4, <1>5, <1>6 DEF EditsOf

LEMMA EmptyFromThrough ==
    ASSUME NEW b, NEW list, NEW new, EmptyFrom(b, list), EmptyFrom(list, new)
    PROVE  EmptyFrom(b, new)
BY DEF EmptyFrom, Has

-----------------------------------------------------------------------------
(* The inductive invariant *)

Results ==
    [made : BOOLEAN, merged : Trees, conflicts : ConflictSets, ours : Trees, theirs : Trees,
     touched : BOOLEAN]

EditCounts == [main : 0..MaxEdits, branch : 0..MaxEdits, merged : 0..MaxMergedEdits]

(* The workspaces' trees, of which none has lost a type the base had.      *)
SoundLists ==
    /\ main \in Trees /\ branch \in Trees /\ baseSnapshot \in Trees
    /\ EmptyFrom(baseSnapshot, main) /\ EmptyFrom(baseSnapshot, branch)
    /\ edits \in EditCounts

(* A result is of the two workspaces as they are, and its tree as merged   *)
(* unless it was edited.                                                   *)
SoundResult ==
    /\ result \in Results
    /\ ~result.made => result = NoResult
    /\ result.made =>
          /\ \/ result.ours = main /\ result.theirs = branch
             \/ result.ours = branch /\ result.theirs = main
          /\ result.conflicts = Conflicts(baseSnapshot, result.ours, result.theirs)
          /\ ~result.touched => result.merged = MergedTree(baseSnapshot, result.ours, result.theirs)

(* What was resolved is that result. *)
SoundFinal ==
    /\ final.features \in Trees
    /\ ~final.made => final = NoFinal
    /\ final.made =>
          /\ result.made
          /\ DOMAIN final.chosen \subseteq Keys(result.conflicts)
          /\ Choosing(final.chosen)
          /\ final.features = ApplyResolutions(result.merged, result.conflicts, final.chosen)

WInv == SoundLists /\ SoundResult /\ SoundFinal

LEMMA NothingSound ==
    /\ <<>> \in Trees
    /\ NoConflicts \in ConflictSets
    /\ NoResult \in Results /\ ~NoResult.made
    /\ NoFinal.features \in Trees /\ ~NoFinal.made
<1>1. <<>> \in Trees
    BY DEF Trees, Distinct
<1>2. NoConflicts \in ConflictSets
    <2>1. <<>> \in Seq(AddRemoves)
        OBVIOUS
    <2> QED BY <2>1 DEF NoConflicts, ConflictSets
<1>3. NoResult \in Results /\ ~NoResult.made
    <2> HIDE DEF NoConflicts
    <2> QED BY <1>1, <1>2 DEF NoResult, Results
<1> QED BY <1>1, <1>2, <1>3 DEF NoFinal

LEMMA InitWInv == Init => WInv
<1> SUFFICES ASSUME Init PROVE WInv
    OBVIOUS
<1>1. main \in Trees
    <2>1. main \in Seq(Typed) /\ Distinct(main)
        BY WorkspaceAssumption DEF Init
    <2>2. main \in Seq(Features)
        BY <2>1 DEF Typed
    <2> QED BY <2>1, <2>2 DEF Trees
<1>2. branch = main /\ baseSnapshot = main /\ result = NoResult /\ final = NoFinal
    BY DEF Init
<1>3. EmptyFrom(main, main)
    BY DEF EmptyFrom, Has
<1>4. edits \in EditCounts
    BY WorkspaceAssumption DEF Init, NoEdits, EditCounts
<1>5. SoundLists
    BY <1>1, <1>2, <1>3, <1>4 DEF SoundLists
<1>6. SoundResult
    BY <1>2, NothingSound DEF SoundResult
<1>7. SoundFinal
    BY <1>2, NothingSound DEF SoundFinal
<1> QED BY <1>5, <1>6, <1>7 DEF WInv

(* Without a result there is nothing resolved. *)
LEMMA EditKeepsResult ==
    ASSUME WInv, ~result.made, result' = result, final' = final
    PROVE  SoundResult' /\ SoundFinal'
<1>1. ~final.made /\ result = NoResult /\ final = NoFinal
    BY DEF WInv, SoundResult, SoundFinal
<1>2. SoundResult'
    BY <1>1, NothingSound DEF SoundResult
<1>3. SoundFinal'
    BY <1>1, NothingSound DEF SoundFinal
<1> QED BY <1>2, <1>3

LEMMA EditMainWInv ==
    ASSUME WInv, EditMain
    PROVE  WInv'
<1>1. ~result.made /\ edits.main < MaxEdits /\ main' \in EditsOf(main)
      /\ edits' = [edits EXCEPT !.main = @ + 1]
      /\ branch' = branch /\ baseSnapshot' = baseSnapshot /\ result' = result /\ final' = final
    BY DEF EditMain
<1>2. Edited(main, main')
    BY <1>1, EditsFacts DEF WInv, SoundLists
<1>3. main' \in Trees /\ EmptyFrom(baseSnapshot, main')
    BY <1>2, EmptyFromThrough DEF WInv, SoundLists, Edited
<1>4. edits' \in EditCounts
    BY <1>1, WorkspaceAssumption DEF WInv, SoundLists, EditCounts
<1>5. SoundLists'
    BY <1>1, <1>3, <1>4 DEF WInv, SoundLists
<1> QED BY <1>1, <1>5, EditKeepsResult DEF WInv

LEMMA EditBranchWInv ==
    ASSUME WInv, EditBranch
    PROVE  WInv'
<1>1. ~result.made /\ edits.branch < MaxEdits /\ branch' \in EditsOf(branch)
      /\ edits' = [edits EXCEPT !.branch = @ + 1]
      /\ main' = main /\ baseSnapshot' = baseSnapshot /\ result' = result /\ final' = final
    BY DEF EditBranch
<1>2. Edited(branch, branch')
    BY <1>1, EditsFacts DEF WInv, SoundLists
<1>3. branch' \in Trees /\ EmptyFrom(baseSnapshot, branch')
    BY <1>2, EmptyFromThrough DEF WInv, SoundLists, Edited
<1>4. edits' \in EditCounts
    BY <1>1, WorkspaceAssumption DEF WInv, SoundLists, EditCounts
<1>5. SoundLists'
    BY <1>1, <1>3, <1>4 DEF WInv, SoundLists
<1> QED BY <1>1, <1>5, EditKeepsResult DEF WInv

LEMMA MergeOfSound ==
    ASSUME NEW o \in Trees, NEW t \in Trees, baseSnapshot \in Trees,
           EmptyFrom(baseSnapshot, o), EmptyFrom(baseSnapshot, t)
    PROVE  /\ MergeOf(o, t) \in Results /\ MergeOf(o, t).made
           /\ MergeOf(o, t).ours = o /\ MergeOf(o, t).theirs = t
           /\ MergeOf(o, t).conflicts = Conflicts(baseSnapshot, o, t)
           /\ MergeOf(o, t).merged = MergedTree(baseSnapshot, o, t)
<1>1. /\ baseSnapshot \in Seq(Features) /\ Distinct(baseSnapshot)
      /\ o \in Seq(Features) /\ Distinct(o) /\ t \in Seq(Features) /\ Distinct(t)
    BY DEF Trees
<1>2. PICK c \in ConflictSets : c = Conflicts(baseSnapshot, o, t)
    BY <1>1, ConflictsTyped
<1>3. PICK m \in Trees : m = MergedTree(baseSnapshot, o, t)
    <2>1. MergedAs(baseSnapshot, o, t, MergedTree(baseSnapshot, o, t))
        BY <1>1, MergedTreeFacts
    <2>2. MergedTree(baseSnapshot, o, t) \in Trees
        BY <2>1, Zenon DEF MergedAs, Trees
    <2> QED BY <2>2
<1>4. MergeOf(o, t) = [made |-> TRUE, merged |-> m, conflicts |-> c, ours |-> o, theirs |-> t,
                       touched |-> FALSE]
    BY <1>2, <1>3 DEF MergeOf
<1> QED BY <1>2, <1>3, <1>4 DEF Results

LEMMA ThreeWayMergeWInv ==
    ASSUME WInv, ThreeWayMerge
    PROVE  WInv'
<1>1. /\ ~result.made /\ main' = main /\ branch' = branch /\ baseSnapshot' = baseSnapshot
      /\ final' = final /\ edits' = edits
      /\ result' = MergeOf(main, branch) \/ result' = MergeOf(branch, main)
    BY DEF ThreeWayMerge
<1>2. SoundLists /\ SoundLists'
    BY <1>1 DEF WInv, SoundLists
<1>3. SoundResult'
    <2>1. CASE result' = MergeOf(main, branch)
        BY <2>1, <1>1, <1>2, MergeOfSound DEF SoundResult, SoundLists
    <2>2. CASE result' = MergeOf(branch, main)
        BY <2>2, <1>1, <1>2, MergeOfSound DEF SoundResult, SoundLists
    <2> QED BY <2>1, <2>2, <1>1
<1>4. final = NoFinal
    BY <1>1 DEF WInv, SoundFinal
<1>5. SoundFinal'
    BY <1>1, <1>4, NothingSound DEF SoundFinal
<1> QED BY <1>2, <1>3, <1>5 DEF WInv

LEMMA EditMergedWInv ==
    ASSUME WInv, EditMerged
    PROVE  WInv'
<1>1. /\ result.made /\ ~final.made /\ edits.merged < MaxMergedEdits
      /\ edits' = [edits EXCEPT !.merged = @ + 1]
      /\ main' = main /\ branch' = branch /\ baseSnapshot' = baseSnapshot /\ final' = final
    BY DEF EditMerged
<1>2. PICK merged \in EditsOf(result.merged) :
          result' = [result EXCEPT !.merged = merged, !.touched = TRUE]
    BY Zenon DEF EditMerged
<1>3. result \in Results /\ result.merged \in Trees
    BY DEF WInv, SoundResult, Results
<1>4. merged \in Trees
    BY <1>3, EditsFacts DEF Edited
<1>5. /\ result' \in Results /\ result'.made = result.made /\ result'.touched
      /\ result'.ours = result.ours /\ result'.theirs = result.theirs
      /\ result'.conflicts = result.conflicts
    BY <1>2, <1>3, <1>4 DEF Results
<1>6. SoundResult'
    BY <1>1, <1>5 DEF WInv, SoundResult
<1>7. edits' \in EditCounts
    BY <1>1, WorkspaceAssumption DEF WInv, SoundLists, EditCounts
<1>8. SoundLists'
    BY <1>1, <1>7 DEF WInv, SoundLists
<1>9. final = NoFinal
    BY <1>1 DEF WInv, SoundFinal
<1>10. SoundFinal'
    BY <1>1, <1>9, NothingSound DEF SoundFinal
<1> QED BY <1>6, <1>8, <1>10 DEF WInv

(* The add/remove conflicts of a result record features of that id. *)
LEMMA ResultRecords ==
    ASSUME WInv, result.made
    PROVE  /\ result.conflicts \in ConflictSets /\ result.merged \in Trees
           /\ result.ours \in Trees /\ result.theirs \in Trees /\ baseSnapshot \in Trees
           /\ AddRemoveSound(baseSnapshot, result.ours, result.theirs, result.conflicts.addRemove)
           /\ Recording(result.conflicts.addRemove)
<1>1. /\ result.conflicts \in ConflictSets /\ result.merged \in Trees
      /\ result.ours \in Trees /\ result.theirs \in Trees /\ baseSnapshot \in Trees
      /\ result.conflicts = Conflicts(baseSnapshot, result.ours, result.theirs)
    BY DEF WInv, SoundResult, SoundLists, Results
<1>2. PICK o \in Trees, t \in Trees : o = result.ours /\ t = result.theirs
    BY <1>1
<1>3. result.conflicts.addRemove = AddRemoveConflicts(baseSnapshot, o, t)
    BY <1>1, <1>2 DEF Conflicts
<1>4. AddRemoveSound(baseSnapshot, o, t, result.conflicts.addRemove)
    BY <1>1, <1>2, <1>3, AddRemoveFacts DEF Trees
<1>5. Recording(result.conflicts.addRemove)
    BY <1>4 DEF AddRemoveSound, Recording, Records
<1> QED BY <1>1, <1>2, <1>4, <1>5

LEMMA ResolveWInv ==
    ASSUME WInv, Resolve
    PROVE  WInv'
<1>1. /\ result.made /\ main' = main /\ branch' = branch /\ baseSnapshot' = baseSnapshot
      /\ result' = result /\ edits' = edits
    BY DEF Resolve
<1>2. PICK resolved \in SUBSET Keys(result.conflicts) :
          \E chosen \in [resolved -> ResolveChoices] :
            final' = [made |-> TRUE, chosen |-> chosen,
                      features |-> ApplyResolutions(result.merged, result.conflicts, chosen)]
    BY DEF Resolve
<1>3. PICK chosen \in [resolved -> ResolveChoices] :
            final' = [made |-> TRUE, chosen |-> chosen,
                      features |-> ApplyResolutions(result.merged, result.conflicts, chosen)]
    BY <1>2
<1>4. Choosing(chosen) /\ DOMAIN chosen \subseteq Keys(result.conflicts)
    BY <1>2, <1>3 DEF Choosing
<1>5. PICK features \in Trees : features = ApplyResolutions(result.merged, result.conflicts, chosen)
    BY <1>1, <1>4, ResultRecords, ApplyResolutionsTyped
<1>6. SoundLists' /\ SoundResult'
    BY <1>1 DEF WInv, SoundLists, SoundResult
<1>7. final'.made /\ final'.chosen = chosen /\ final'.features = features
    BY <1>3, <1>5
<1>8. SoundFinal'
    BY <1>1, <1>4, <1>5, <1>7 DEF SoundFinal
<1> QED BY <1>6, <1>8 DEF WInv

LEMMA ForkAgainWInv ==
    ASSUME WInv, ForkAgain
    PROVE  WInv'
<1>1. /\ main' = final.features /\ branch' = final.features /\ baseSnapshot' = final.features
      /\ result' = NoResult /\ final' = NoFinal /\ edits' = edits
    BY DEF ForkAgain
<1>2. PICK list \in Trees : list = final.features
    BY DEF WInv, SoundFinal
<1>3. EmptyFrom(list, list)
    BY DEF EmptyFrom, Has
<1>4. SoundLists'
    BY <1>1, <1>2, <1>3 DEF WInv, SoundLists
<1>5. SoundResult'
    BY <1>1, NothingSound DEF SoundResult
<1>6. SoundFinal'
    BY <1>1, NothingSound DEF SoundFinal
<1> QED BY <1>4, <1>5, <1>6 DEF WInv

LEMMA SpecWInv == Spec => []WInv
<1>1. WInv /\ [Next]_vars => WInv'
    <2> SUFFICES ASSUME WInv, [Next]_vars PROVE WInv'
        OBVIOUS
    <2>1. CASE EditMain
        BY <2>1, EditMainWInv
    <2>2. CASE EditBranch
        BY <2>2, EditBranchWInv
    <2>3. CASE ThreeWayMerge
        BY <2>3, ThreeWayMergeWInv
    <2>4. CASE EditMerged
        BY <2>4, EditMergedWInv
    <2>5. CASE Resolve
        BY <2>5, ResolveWInv
    <2>6. CASE ForkAgain
        BY <2>6, ForkAgainWInv
    <2>7. CASE UNCHANGED vars
        BY <2>7 DEF vars, WInv, SoundLists, SoundResult, SoundFinal
    <2> QED BY <2>1, <2>2, <2>3, <2>4, <2>5, <2>6, <2>7 DEF Next
<1> QED BY <1>1, InitWInv, PTL DEF Spec

-----------------------------------------------------------------------------
(* Trees *)

(* Every list of features the workspaces and their merge hold is one a tree *)
(* can be: whatever both sides added, removed and moved, whatever was edited *)
(* in the merged tree and in whatever way the conflicts are resolved, no id  *)
(* is there twice (Workspace::threeWayMerge, applyResolutions).              *)
THEOREM TreesAreWellFormed == Spec => []TreesWellFormed
<1>1. WInv => TreesWellFormed
    <2> SUFFICES ASSUME WInv PROVE TreesWellFormed
        OBVIOUS
    <2>1. /\ main \in Trees /\ branch \in Trees /\ baseSnapshot \in Trees
          /\ result \in Results /\ final.features \in Trees /\ edits \in EditCounts
        BY DEF WInv, SoundLists, SoundResult, SoundFinal
    <2>2. PICK c \in ConflictSets : c = result.conflicts
        BY <2>1 DEF Results
    <2>3. result.merged \in Trees
        BY <2>1 DEF Results
    <2>4. \A list \in Trees : list \in Seq(Features) /\ Distinct(list)
        BY DEF Trees
    <2>5. /\ c.param \subseteq ParamConflictsOf /\ c.type \subseteq TypeConflictsOf
          /\ c.suppression \subseteq SuppressionConflictsOf /\ c.position \subseteq Ids
        BY DEF ConflictSets
    <2>6. TypeOK
        BY <2>1, <2>2, <2>3, <2>4, <2>5, Zenon
           DEF TypeOK, ParamConflictsOf, TypeConflictsOf, SuppressionConflictsOf, EditCounts
    <2>7. MergedIdsDistinct
        BY <2>1, <2>3, <2>4 DEF MergedIdsDistinct
    <2> QED BY <2>6, <2>7 DEF TreesWellFormed
<1> QED BY <1>1, SpecWInv, PTL

-----------------------------------------------------------------------------
(* What is in conflict *)

(* InConflict, of the three lists. *)
About(b, o, t, id, a) ==
    \/ Contested(b, o, t, id)
    \/ a \in Names /\ <<id, a>> \in ParamClashes(b, o, t)
    \/ a = "suppressed" /\ id \in SuppressionClashes(b, o, t)
    \/ id \in TypeClashes(b, o, t) /\ (a = "type" \/ ~Has(b, id))

(* The conflicts recorded are those there are. *)
Listing(b, o, t, conflicts) ==
    /\ \A id : (\E c \in ToSet(conflicts.addRemove) : c.id = id)
                  <=> id \in IdsOf(b) /\ Contested(b, o, t, id)
    /\ \A id, n : (\E c \in conflicts.param : c.id = id /\ c.name = n)
                  <=> <<id, n>> \in ParamClashes(b, o, t)
    /\ \A id : (\E c \in conflicts.type : c.id = id) <=> id \in TypeClashes(b, o, t)
    /\ \A id : (\E c \in conflicts.suppression : c.id = id) <=> id \in SuppressionClashes(b, o, t)

LEMMA ConflictsListing ==
    ASSUME NEW b \in Trees, NEW o \in Trees, NEW t \in Trees,
           NEW conflicts, conflicts = Conflicts(b, o, t)
    PROVE  Listing(b, o, t, conflicts)
<1>1. PICK P, T, S, A, Q :
          /\ P = {ParamConflict(b, o, t, k[1], k[2]) : k \in ParamClashes(b, o, t)}
          /\ T = {TypeConflict(b, o, t, id) : id \in TypeClashes(b, o, t)}
          /\ S = {SuppressionConflict(b, o, t, id) : id \in SuppressionClashes(b, o, t)}
          /\ A = AddRemoveConflicts(b, o, t) /\ Q = PositionClashes(b, o, t)
    OBVIOUS
<1>2. conflicts = [param |-> P, type |-> T, suppression |-> S, addRemove |-> A, position |-> Q]
    BY <1>1, Zenon DEF Conflicts
<1>3. /\ conflicts.param = P /\ conflicts.type = T /\ conflicts.suppression = S
      /\ conflicts.addRemove = A
    BY <1>2
<1>4. ASSUME NEW id
      PROVE  (\E c \in ToSet(A) : c.id = id) <=> id \in IdsOf(b) /\ Contested(b, o, t, id)
    <2>1. AddRemoveSound(b, o, t, A)
        BY <1>1, AddRemoveFacts DEF Trees
    <2>2. (\E c \in ToSet(A) : c.id = id) <=> id \in IdsOf(A)
        BY Zenon DEF ToSet, IdsOf
    <2>3. IdsOf(A) = {x \in IdsOf(b) : Contested(b, o, t, x)}
        BY <2>1, Zenon DEF AddRemoveSound
    <2> QED BY <2>2, <2>3
<1>5. ASSUME NEW id, NEW n
      PROVE  (\E c \in P : c.id = id /\ c.name = n) <=> <<id, n>> \in ParamClashes(b, o, t)
    <2>1. \A k : ParamConflict(b, o, t, k[1], k[2]).id = k[1]
                 /\ ParamConflict(b, o, t, k[1], k[2]).name = k[2]
        BY DEF ParamConflict
    <2>2. \A k \in ParamClashes(b, o, t) : k = <<k[1], k[2]>>
        BY DEF ParamClashes
    <2>3. ASSUME NEW c \in P, c.id = id, c.name = n PROVE <<id, n>> \in ParamClashes(b, o, t)
        <3>1. PICK k \in ParamClashes(b, o, t) : c = ParamConflict(b, o, t, k[1], k[2])
            BY <1>1
        <3> QED BY <3>1, <2>1, <2>2, <2>3
    <2>4. ASSUME <<id, n>> \in ParamClashes(b, o, t) PROVE \E c \in P : c.id = id /\ c.name = n
        <3>1. PICK k \in ParamClashes(b, o, t) : k[1] = id /\ k[2] = n
            BY <2>4
        <3>2. ParamConflict(b, o, t, k[1], k[2]) \in P
            BY <1>1
        <3> QED BY <3>1, <3>2, <2>1
    <2> QED BY <2>3, <2>4
<1>6. ASSUME NEW id PROVE (\E c \in T : c.id = id) <=> id \in TypeClashes(b, o, t)
    <2>1. \A x : TypeConflict(b, o, t, x).id = x
        BY DEF TypeConflict
    <2> QED BY <2>1, <1>1
<1>7. ASSUME NEW id PROVE (\E c \in S : c.id = id) <=> id \in SuppressionClashes(b, o, t)
    <2>1. \A x : SuppressionConflict(b, o, t, x).id = x
        BY DEF SuppressionConflict
    <2> QED BY <2>1, <1>1
<1>8. \A id : (\E c \in ToSet(conflicts.addRemove) : c.id = id)
                  <=> id \in IdsOf(b) /\ Contested(b, o, t, id)
    BY <1>3, <1>4
<1>9. \A id, n : (\E c \in conflicts.param : c.id = id /\ c.name = n)
                  <=> <<id, n>> \in ParamClashes(b, o, t)
    <2> TAKE id, n
    <2>1. (\E c \in P : c.id = id /\ c.name = n) <=> <<id, n>> \in ParamClashes(b, o, t)
        BY <1>5
    <2>2. conflicts.param = P
        BY <1>3
    <2> QED BY <2>1, <2>2, Zenon
<1>10. \A id : (\E c \in conflicts.type : c.id = id) <=> id \in TypeClashes(b, o, t)
    BY <1>3, <1>6
<1>11. \A id : (\E c \in conflicts.suppression : c.id = id) <=> id \in SuppressionClashes(b, o, t)
    BY <1>3, <1>7
<1> QED BY <1>8, <1>9, <1>10, <1>11, Zenon DEF Listing

LEMMA AboutIsInConflict ==
    ASSUME WInv, result.made, NEW id \in Ids, NEW a
    PROVE  InConflict(id, a) <=> About(baseSnapshot, result.ours, result.theirs, id, a)
<1>1. PICK o \in Trees, t \in Trees, b \in Trees :
          o = result.ours /\ t = result.theirs /\ b = baseSnapshot
    BY ResultRecords
<1>2. Listing(b, o, t, result.conflicts)
    BY <1>1, ConflictsListing DEF WInv, SoundResult
<1>3. \A x : Contested(b, o, t, x) => x \in IdsOf(b)
    BY ContestedWhere DEF Has
<1>4. (\E c \in ToSet(result.conflicts.addRemove) : c.id = id) <=> Contested(b, o, t, id)
    BY <1>2, <1>3, Zenon DEF Listing
<1>5. (\E c \in result.conflicts.param : c.id = id /\ c.name = a)
          <=> <<id, a>> \in ParamClashes(b, o, t)
    BY <1>2, Zenon DEF Listing
<1>6. (\E c \in result.conflicts.suppression : c.id = id) <=> id \in SuppressionClashes(b, o, t)
    BY <1>2, Zenon DEF Listing
<1>7. (\E c \in result.conflicts.type : c.id = id) <=> id \in TypeClashes(b, o, t)
    BY <1>2, Zenon DEF Listing
<1>8. (\E c \in result.conflicts.type : c.id = id /\ (a = "type" \/ ~Has(baseSnapshot, id)))
          <=> id \in TypeClashes(b, o, t) /\ (a = "type" \/ ~Has(b, id))
    BY <1>1, <1>7, Zenon
<1> QED BY <1>1, <1>4, <1>5, <1>6, <1>8, Zenon DEF InConflict, About

-----------------------------------------------------------------------------
(* Each aspect of each feature *)

AspectIn(f, a) ==
    IF a = "type" THEN f.type
    ELSE IF a = "suppressed" THEN ToString(f.suppressed)
    ELSE Param(f, a)

LEMMA AspectOf ==
    ASSUME NEW list, NEW id, NEW a
    PROVE  /\ ~Has(list, id) => Aspect(list, id, a) = Unset
           /\ Has(list, id) => Aspect(list, id, a) = AspectIn(At(list, id), a)
BY Zenon DEF Aspect, AspectIn

(* A change is merged, or in conflict. *)
AppliesOrConflicts(b, o, t, m, id, a) ==
    LET x == Aspect(b, id, a)
        y == Aspect(o, id, a)
        z == Aspect(t, id, a)
        w == Aspect(m, id, a)
    IN  IF About(b, o, t, id, a) THEN w = IF Has(b, id) THEN x ELSE y
        ELSE /\ y # x => w = y
             /\ z # x => w = z
             /\ (y = x /\ z = x) => w = x

(* One aspect, by the values the lists have of it. *)
LEMMA AppliesByValues ==
    ASSUME NEW b, NEW o, NEW t, NEW m, NEW id, NEW a, Has(b, id), NEW x, NEW y, NEW z, NEW w,
           Aspect(b, id, a) = x, Aspect(o, id, a) = y, Aspect(t, id, a) = z, Aspect(m, id, a) = w,
           About(b, o, t, id, a) => w = x,
           ~About(b, o, t, id, a) => /\ y # x => w = y
                                     /\ z # x => w = z
                                     /\ (y = x /\ z = x) => w = x
    PROVE  AppliesOrConflicts(b, o, t, m, id, a)
BY Zenon DEF AppliesOrConflicts

LEMMA CombinedAspect ==
    ASSUME NEW b \in Trees, NEW o \in Trees, NEW t \in Trees, NEW m, MergedAs(b, o, t, m),
           NEW id \in Ids, InAllThree(b, o, t, id), NEW a \in Aspects
    PROVE  AppliesOrConflicts(b, o, t, m, id, a)
<1>1. PICK f \in Features, g \in Features, h \in Features :
          f = At(b, id) /\ g = At(o, id) /\ h = At(t, id)
    BY Found DEF InAllThree, Has, Trees
<1>2. Has(b, id) /\ Has(o, id) /\ Has(t, id) /\ Survives(b, o, t, id)
      /\ ~Contested(b, o, t, id) /\ ~BothAdded(b, o, t, id)
    BY ContestedWhere DEF InAllThree, Survives, BothAdded
<1>3. Has(m, id)
    BY <1>2 DEF MergedAs, Has
<1>4. PICK c \in Features : c = CombinedFeature(f, g, h)
    BY CombinedFeatureTyped
<1>5. At(m, id) = c
    BY <1>1, <1>3, <1>4 DEF MergedAs, MergedFeature, Has
<1>6. /\ Aspect(b, id, a) = AspectIn(f, a) /\ Aspect(o, id, a) = AspectIn(g, a)
      /\ Aspect(t, id, a) = AspectIn(h, a) /\ Aspect(m, id, a) = AspectIn(c, a)
    BY <1>1, <1>2, <1>3, <1>5, AspectOf
<1>7. /\ c.type = Combine(f.type, g.type, h.type)
      /\ c.suppressed = Combine(f.suppressed, g.suppressed, h.suppressed)
      /\ \A n \in Names : Param(c, n) = Combine(Param(f, n), Param(g, n), Param(h, n))
    BY <1>4, CombinedFeatureTyped
<1>8. CASE a = "type"
    <2>1. a \notin Names /\ a # "suppressed"
        BY <1>8, WorkspaceAssumption
    <2>2. About(b, o, t, id, a) <=> Clash(f.type, g.type, h.type)
        BY <2>1, <1>1, <1>2, <1>8 DEF About, TypeClashes
    <2>3. /\ Aspect(b, id, a) = f.type /\ Aspect(o, id, a) = g.type
          /\ Aspect(t, id, a) = h.type /\ Aspect(m, id, a) = c.type
        BY <1>6, <1>8 DEF AspectIn
    <2>4. PICK x, y, z, w : x = f.type /\ y = g.type /\ z = h.type /\ w = c.type
        OBVIOUS
    <2>5. w = Combine(x, y, z) /\ (About(b, o, t, id, a) <=> Clash(x, y, z))
        BY <2>2, <2>4, <1>7
    <2>6. /\ Aspect(b, id, a) = x /\ Aspect(o, id, a) = y
          /\ Aspect(t, id, a) = z /\ Aspect(m, id, a) = w
        BY <2>3, <2>4
    <2>7. About(b, o, t, id, a) => w = x
        BY <2>5 DEF Combine, Clash
    <2>8. ~About(b, o, t, id, a) => /\ y # x => w = y
                                    /\ z # x => w = z
                                    /\ (y = x /\ z = x) => w = x
        BY <2>5 DEF Combine, Clash
    <2> QED BY <2>6, <2>7, <2>8, <1>2, AppliesByValues
<1>9. CASE a = "suppressed"
    <2>1. a \notin Names /\ a # "type"
        BY <1>9, WorkspaceAssumption
    <2>2. About(b, o, t, id, a) <=> Clash(f.suppressed, g.suppressed, h.suppressed)
        BY <2>1, <1>1, <1>2, <1>9 DEF About, SuppressionClashes
    <2>3. /\ Aspect(b, id, a) = ToString(f.suppressed) /\ Aspect(o, id, a) = ToString(g.suppressed)
          /\ Aspect(t, id, a) = ToString(h.suppressed) /\ Aspect(m, id, a) = ToString(c.suppressed)
        BY <1>6, <1>9, <2>1, Zenon DEF AspectIn
    <2>4. PICK x, y, z, w : x = f.suppressed /\ y = g.suppressed /\ z = h.suppressed /\ w = c.suppressed
        OBVIOUS
    <2>5. w = Combine(x, y, z) /\ (About(b, o, t, id, a) <=> Clash(x, y, z))
        BY <2>2, <2>4, <1>7, Zenon
    <2>6. PICK X, Y, Z, W : X = ToString(x) /\ Y = ToString(y) /\ Z = ToString(z) /\ W = ToString(w)
        OBVIOUS
    <2>7. /\ Aspect(b, id, a) = X /\ Aspect(o, id, a) = Y
          /\ Aspect(t, id, a) = Z /\ Aspect(m, id, a) = W
        BY <2>3, <2>4, <2>6, Zenon
    <2>8. Clash(x, y, z) => W = X
        BY <2>5, <2>6 DEF Combine, Clash
    <2>9. ~Clash(x, y, z) => /\ Y # X => W = Y
                             /\ Z # X => W = Z
                             /\ (Y = X /\ Z = X) => W = X
        <3>1. SUFFICES ASSUME ~Clash(x, y, z)
                       PROVE  /\ Y # X => W = Y
                              /\ Z # X => W = Z
                              /\ (Y = X /\ Z = X) => W = X
            OBVIOUS
        <3>2. (y # x => w = y) /\ (z # x => w = z) /\ w \in {x, y, z}
            BY <3>1, <2>5 DEF Combine, Clash
        <3>3. Y # X => W = Y
            BY <3>2, <2>6, Zenon
        <3>4. Z # X => W = Z
            BY <3>2, <2>6, Zenon
        <3>5. W \in {X, Y, Z}
            BY <3>2, <2>6
        <3> QED BY <3>3, <3>4, <3>5
    <2> QED BY <2>5, <2>7, <2>8, <2>9, <1>2, AppliesByValues
<1>10. CASE a \in Names
    <2>1. a # "type" /\ a # "suppressed"
        BY <1>10, WorkspaceAssumption
    <2>2. About(b, o, t, id, a) <=> Clash(Param(f, a), Param(g, a), Param(h, a))
        <3>1. <<id, a>> \in Ids \X Names /\ <<id, a>>[1] = id /\ <<id, a>>[2] = a
            BY <1>10
        <3>2. <<id, a>> \in ParamClashes(b, o, t) <=> Clash(Param(f, a), Param(g, a), Param(h, a))
            BY <3>1, <1>1, <1>2 DEF ParamClashes
        <3> QED BY <3>2, <1>2, <1>10, <2>1 DEF About
    <2>3. /\ Aspect(b, id, a) = Param(f, a) /\ Aspect(o, id, a) = Param(g, a)
          /\ Aspect(t, id, a) = Param(h, a) /\ Aspect(m, id, a) = Param(c, a)
        BY <1>6, <2>1, Zenon DEF AspectIn
    <2>4. Param(c, a) = Combine(Param(f, a), Param(g, a), Param(h, a))
        BY <1>7, <1>10
    <2>5. PICK x, y, z, w : x = Param(f, a) /\ y = Param(g, a) /\ z = Param(h, a) /\ w = Param(c, a)
        OBVIOUS
    <2>6. w = Combine(x, y, z) /\ (About(b, o, t, id, a) <=> Clash(x, y, z))
        BY <2>2, <2>4, <2>5
    <2>7. /\ Aspect(b, id, a) = x /\ Aspect(o, id, a) = y
          /\ Aspect(t, id, a) = z /\ Aspect(m, id, a) = w
        BY <2>3, <2>5
    <2>8. About(b, o, t, id, a) => w = x
        BY <2>6 DEF Combine, Clash
    <2>9. ~About(b, o, t, id, a) => /\ y # x => w = y
                                    /\ z # x => w = z
                                    /\ (y = x /\ z = x) => w = x
        BY <2>6 DEF Combine, Clash
    <2> QED BY <2>7, <2>8, <2>9, <1>2, AppliesByValues
<1> QED BY <1>8, <1>9, <1>10 DEF Aspects

(* A feature both sides added, or that one side has not got. *)
LEMMA OtherAspect ==
    ASSUME NEW b \in Trees, NEW o \in Trees, NEW t \in Trees, NEW m, MergedAs(b, o, t, m),
           NEW id \in Ids, ~InAllThree(b, o, t, id), NEW a \in Aspects
    PROVE  AppliesOrConflicts(b, o, t, m, id, a)
<1>1. Has(m, id) <=> (Has(b, id) \/ Has(o, id) \/ Has(t, id)) /\ Survives(b, o, t, id)
    BY DEF MergedAs, Has
<1>2. Has(m, id) => At(m, id) = IF Has(b, id) THEN At(b, id)
                                ELSE IF Has(o, id) THEN At(o, id) ELSE At(t, id)
    BY DEF MergedAs, MergedFeature, Has
<1>3. PICK x, y, z, w : /\ x = Aspect(b, id, a) /\ y = Aspect(o, id, a)
                        /\ z = Aspect(t, id, a) /\ w = Aspect(m, id, a)
    OBVIOUS
<1>4. /\ ~Has(b, id) => x = Unset
      /\ ~Has(o, id) => y = Unset
      /\ ~Has(t, id) => z = Unset
      /\ ~Has(m, id) => w = Unset
      /\ Has(m, id) /\ Has(b, id) => w = x
      /\ Has(m, id) /\ ~Has(b, id) /\ Has(o, id) => w = y
      /\ Has(m, id) /\ ~Has(b, id) /\ ~Has(o, id) => w = z
    BY <1>1, <1>2, <1>3, AspectOf
<1>5. <<id, a>>[1] = id /\ <<id, a>>[2] = a
    OBVIOUS
<1>6. /\ <<id, a>> \in ParamClashes(b, o, t) => BothAdded(b, o, t, id)
      /\ id \in TypeClashes(b, o, t) => BothAdded(b, o, t, id)
      /\ id \in SuppressionClashes(b, o, t) => BothAdded(b, o, t, id)
    BY <1>5 DEF ParamClashes, TypeClashes, SuppressionClashes
<1>7. CASE Contested(b, o, t, id)
    <2>1. Has(b, id) /\ Has(m, id) /\ About(b, o, t, id, a)
        BY <1>1, <1>7, ContestedWhere DEF About
    <2> QED BY <2>1, <1>3, <1>4, Zenon DEF AppliesOrConflicts
<1>8. CASE Has(b, id) /\ ~Contested(b, o, t, id)
    <2>1. ~About(b, o, t, id, a)
        BY <1>6, <1>8 DEF About, BothAdded
    <2>2. ~Has(m, id)
        BY <1>1, <1>8 DEF Survives, Contested
    <2>3. /\ Has(o, id) => ~Has(t, id) /\ At(o, id) = At(b, id)
          /\ Has(t, id) => ~Has(o, id) /\ At(t, id) = At(b, id)
        BY <1>8 DEF Contested, RemovedModified, InAllThree
    <2>4. (Has(o, id) => y = x) /\ (Has(t, id) => z = x)
        BY <2>3, <1>3, <1>8, AspectOf
    <2>5. /\ y # x => w = y
          /\ z # x => w = z
          /\ (y = x /\ z = x) => w = x
        BY <2>2, <2>3, <2>4, <1>4
    <2> QED BY <2>1, <2>5, <1>3, Zenon DEF AppliesOrConflicts
<1>9. CASE ~Has(b, id) /\ ~(Has(o, id) /\ Has(t, id))
    <2>1. ~About(b, o, t, id, a)
        BY <1>6, <1>9, ContestedWhere DEF About, BothAdded
    <2>2. Has(o, id) \/ Has(t, id) => Has(m, id)
        BY <1>1, <1>9 DEF Survives
    <2>3. Has(m, id) => Has(o, id) \/ Has(t, id)
        BY <1>1, <1>9
    <2>4. /\ y # x => w = y
          /\ z # x => w = z
          /\ (y = x /\ z = x) => w = x
        BY <2>2, <2>3, <1>4, <1>9
    <2> QED BY <2>1, <2>4, <1>3, Zenon DEF AppliesOrConflicts
<1>10. CASE ~Has(b, id) /\ Has(o, id) /\ Has(t, id)
    <2>1. BothAdded(b, o, t, id) /\ Has(m, id)
        BY <1>1, <1>10 DEF BothAdded, Survives
    <2>2. w = y
        BY <2>1, <1>4, <1>10
    <2>3. CASE About(b, o, t, id, a)
        BY <2>2, <2>3, <1>3, <1>10, Zenon DEF AppliesOrConflicts
    <2>4. CASE ~About(b, o, t, id, a)
        <3>1. PICK g \in Features, h \in Features : g = At(o, id) /\ h = At(t, id)
            BY <1>10, Found DEF Has, Trees
        <3>2. g.type = h.type
            BY <2>1, <2>4, <3>1, <1>10 DEF About, TypeClashes
        <3>3. a = "suppressed" => g.suppressed = h.suppressed
            BY <2>1, <2>4, <3>1, <3>2 DEF About, SuppressionClashes
        <3>4. a \in Names => Param(g, a) = Param(h, a)
            <4>1. SUFFICES ASSUME a \in Names, Param(g, a) # Param(h, a) PROVE FALSE
                OBVIOUS
            <4>2. <<id, a>> \in Ids \X Names
                BY <4>1
            <4>3. <<id, a>> \in ParamClashes(b, o, t)
                BY <4>1, <4>2, <1>5, <2>1, <3>1, <3>2 DEF ParamClashes
            <4> QED BY <4>1, <4>3, <2>4 DEF About
        <3>5. AspectIn(g, a) = AspectIn(h, a)
            <4>1. CASE a = "type"
                BY <4>1, <3>2, Zenon DEF AspectIn
            <4>2. CASE a = "suppressed"
                BY <4>2, <3>3, Zenon DEF AspectIn
            <4>3. CASE a \in Names
                <5>1. a # "type" /\ a # "suppressed"
                    BY <4>3, WorkspaceAssumption
                <5> QED BY <5>1, <4>3, <3>4, Zenon DEF AspectIn
            <4> QED BY <4>1, <4>2, <4>3 DEF Aspects
        <3>6. y = z
            BY <3>1, <3>5, <1>3, <1>10, AspectOf
        <3>7. /\ y # x => w = y
              /\ z # x => w = z
              /\ (y = x /\ z = x) => w = x
            BY <2>2, <3>6
        <3> QED BY <2>4, <3>7, <1>3, Zenon DEF AppliesOrConflicts
    <2> QED BY <2>3, <2>4
<1> QED BY <1>7, <1>8, <1>9, <1>10

(* In a merge nothing of what a side did is lost: whatever both workspaces  *)
(* did since the fork, each change of each side is in the merged tree or in *)
(* a conflict, and what no side changed is unchanged (threeWayMerge).       *)
THEOREM ChangesAreMergedOrInConflict == Spec => []ChangesApplyOrConflict
<1>1. WInv => ChangesApplyOrConflict
    <2> SUFFICES ASSUME WInv, Fresh, NEW id \in Ids, NEW a \in Aspects
                 PROVE  LET b == Aspect(baseSnapshot, id, a)
                            o == Aspect(result.ours, id, a)
                            t == Aspect(result.theirs, id, a)
                            m == Aspect(result.merged, id, a)
                        IN  IF InConflict(id, a) THEN m = IF Has(baseSnapshot, id) THEN b ELSE o
                            ELSE /\ o # b => m = o
                                 /\ t # b => m = t
                                 /\ (o = b /\ t = b) => m = b
        BY Zenon DEF ChangesApplyOrConflict
    <2>1. result.made /\ ~result.touched
        BY DEF Fresh
    <2>2. PICK o \in Trees, t \in Trees, b \in Trees :
              o = result.ours /\ t = result.theirs /\ b = baseSnapshot
        BY <2>1, ResultRecords
    <2>3. PICK m : m = result.merged /\ MergedAs(b, o, t, m)
        <3>1. MergedAs(b, o, t, MergedTree(b, o, t))
            BY MergedTreeFacts DEF Trees
        <3>2. result.merged = MergedTree(b, o, t)
            BY <2>1, <2>2 DEF WInv, SoundResult
        <3> QED BY <3>1, <3>2
    <2>4. AppliesOrConflicts(b, o, t, m, id, a)
        BY <2>3, CombinedAspect, OtherAspect
    <2>5. InConflict(id, a) <=> About(b, o, t, id, a)
        BY <2>1, <2>2, AboutIsInConflict
    <2> QED BY <2>2, <2>3, <2>4, <2>5, Zenon DEF AppliesOrConflicts
<1> QED BY <1>1, SpecWInv, PTL

-----------------------------------------------------------------------------
(* The sides exchanged *)

LEMMA SidesExchanged ==
    ASSUME NEW b, NEW o, NEW t, NEW id
    PROVE  /\ InAllThree(b, t, o, id) <=> InAllThree(b, o, t, id)
           /\ BothAdded(b, t, o, id) <=> BothAdded(b, o, t, id)
           /\ Contested(b, t, o, id) <=> Contested(b, o, t, id)
           /\ Survives(b, t, o, id) <=> Survives(b, o, t, id)
BY DEF InAllThree, BothAdded, Contested, Survives

LEMMA ClashExchanged ==
    ASSUME NEW x, NEW y, NEW z
    PROVE  Clash(x, z, y) <=> Clash(x, y, z)
BY DEF Clash

LEMMA ClashesExchanged ==
    ASSUME NEW b, NEW o, NEW t
    PROVE  /\ ParamClashes(b, t, o) = ParamClashes(b, o, t)
           /\ TypeClashes(b, t, o) = TypeClashes(b, o, t)
           /\ PositionClashes(b, t, o) = PositionClashes(b, o, t)
<1>1. ASSUME NEW k \in Ids \X Names
      PROVE  k \in ParamClashes(b, t, o) <=> k \in ParamClashes(b, o, t)
    <2>1. PICK x, y, z : /\ x = Param(At(b, k[1]), k[2]) /\ y = Param(At(o, k[1]), k[2])
                         /\ z = Param(At(t, k[1]), k[2])
        OBVIOUS
    <2>2. Clash(x, z, y) <=> Clash(x, y, z)
        BY ClashExchanged
    <2>3. k \in ParamClashes(b, o, t)
          <=> \/ InAllThree(b, o, t, k[1]) /\ Clash(x, y, z)
              \/ BothAdded(b, o, t, k[1]) /\ At(o, k[1]).type = At(t, k[1]).type /\ y # z
        BY <2>1 DEF ParamClashes
    <2>4. k \in ParamClashes(b, t, o)
          <=> \/ InAllThree(b, t, o, k[1]) /\ Clash(x, z, y)
              \/ BothAdded(b, t, o, k[1]) /\ At(t, k[1]).type = At(o, k[1]).type /\ z # y
        BY <2>1 DEF ParamClashes
    <2> QED BY <2>2, <2>3, <2>4, SidesExchanged
<1>2. ParamClashes(b, t, o) = ParamClashes(b, o, t)
    BY <1>1 DEF ParamClashes
<1>3. TypeClashes(b, t, o) = TypeClashes(b, o, t)
    BY SidesExchanged, ClashExchanged DEF TypeClashes
<1>4. RetainedBase(b, t, o) = RetainedBase(b, o, t)
    <2>1. {id \in IdsOf(b) : Survives(b, t, o, id)} = {id \in IdsOf(b) : Survives(b, o, t, id)}
        BY SidesExchanged
    <2> QED BY <2>1, Zenon DEF RetainedBase
<1>5. PositionClashes(b, t, o) = PositionClashes(b, o, t)
    <2>1. PICK retained : retained = RetainedBase(b, o, t)
        OBVIOUS
    <2>2. PICK ours, theirs : ours = RelativeOrder(o, retained) /\ theirs = RelativeOrder(t, retained)
        OBVIOUS
    <2>3. PositionClashes(b, o, t) =
            {id \in IdsOf(retained) :
                /\ Has(ours, id) /\ Has(theirs, id)
                /\ Clash(IndexOf(retained, id), IndexOf(ours, id), IndexOf(theirs, id))}
        BY <2>1, <2>2, Zenon DEF PositionClashes
    <2>4. PositionClashes(b, t, o) =
            {id \in IdsOf(retained) :
                /\ Has(theirs, id) /\ Has(ours, id)
                /\ Clash(IndexOf(retained, id), IndexOf(theirs, id), IndexOf(ours, id))}
        BY <2>1, <2>2, <1>4, Zenon DEF PositionClashes
    <2> QED BY <2>3, <2>4, ClashExchanged
<1> QED BY <1>2, <1>3, <1>5

LEMMA CombinedExchanged ==
    ASSUME NEW f \in Features, NEW g \in Features, NEW h \in Features
    PROVE  CombinedFeature(f, h, g) = CombinedFeature(f, g, h)
<1>1. \A x, y, z : Combine(x, z, y) = Combine(x, y, z)
    BY DEF Combine
<1>2. PICK c \in Features : c = CombinedFeature(f, g, h)
    BY CombinedFeatureTyped
<1>3. PICK d \in Features : d = CombinedFeature(f, h, g)
    BY CombinedFeatureTyped
<1>4. c.id = d.id /\ c.type = d.type /\ c.suppressed = d.suppressed
    BY <1>1, <1>2, <1>3, CombinedFeatureTyped
<1>5. \A n \in Names : Param(c, n) = Param(d, n)
    BY <1>1, <1>2, <1>3, CombinedFeatureTyped
<1>6. c.params = d.params
    BY <1>5, ParamsEqual
<1> QED BY <1>2, <1>3, <1>4, <1>6, FeaturesEqual

(* Nothing is in conflict about a feature. *)
Agreed(b, o, t, id) ==
    /\ id \notin TypeClashes(b, o, t) /\ id \notin SuppressionClashes(b, o, t)
    /\ \A n \in Names : <<id, n>> \notin ParamClashes(b, o, t)

(* What both sides added and is not in conflict, they added the same. *)
LEMMA AgreedIsSame ==
    ASSUME NEW b \in Trees, NEW o \in Trees, NEW t \in Trees, NEW id \in Ids,
           BothAdded(b, o, t, id), Agreed(b, o, t, id)
    PROVE  At(o, id) = At(t, id)
<1>1. PICK g \in Features, h \in Features : g = At(o, id) /\ h = At(t, id) /\ g.id = h.id
    BY Found DEF BothAdded, Has, Trees
<1>2. g.type = h.type
    BY <1>1 DEF Agreed, TypeClashes
<1>3. g.suppressed = h.suppressed
    BY <1>1, <1>2 DEF Agreed, SuppressionClashes
<1>4. ASSUME NEW n \in Names PROVE Param(g, n) = Param(h, n)
    <2>1. <<id, n>> \in Ids \X Names /\ <<id, n>>[1] = id /\ <<id, n>>[2] = n
        OBVIOUS
    <2>2. <<id, n>> \notin ParamClashes(b, o, t)
        BY DEF Agreed
    <2> QED BY <2>1, <2>2, <1>1, <1>2 DEF ParamClashes
<1>5. g.params = h.params
    BY <1>4, ParamsEqual
<1> QED BY <1>1, <1>2, <1>3, <1>5, FeaturesEqual

LEMMA MergedFeatureExchanged ==
    ASSUME NEW b \in Trees, NEW o \in Trees, NEW t \in Trees, NEW id \in Ids,
           id \in IdsOf(b) \cup IdsOf(o) \cup IdsOf(t), Has(b, id) \/ Agreed(b, o, t, id)
    PROVE  MergedFeature(b, t, o, id) = MergedFeature(b, o, t, id)
<1>1. CASE InAllThree(b, o, t, id)
    <2>1. PICK f \in Features, g \in Features, h \in Features :
              f = At(b, id) /\ g = At(o, id) /\ h = At(t, id)
        BY <1>1, Found DEF InAllThree, Has, Trees
    <2>2. InAllThree(b, t, o, id)
        BY <1>1, SidesExchanged
    <2>3. MergedFeature(b, o, t, id) = CombinedFeature(f, g, h)
        BY <1>1, <2>1 DEF MergedFeature
    <2>4. MergedFeature(b, t, o, id) = CombinedFeature(f, h, g)
        BY <2>1, <2>2 DEF MergedFeature
    <2> QED BY <2>3, <2>4, CombinedExchanged
<1>2. CASE Has(b, id) /\ ~InAllThree(b, o, t, id)
    BY <1>2, SidesExchanged DEF MergedFeature
<1>3. CASE ~Has(b, id) /\ Has(o, id) /\ Has(t, id)
    <2>1. At(o, id) = At(t, id)
        BY <1>3, AgreedIsSame DEF BothAdded
    <2> QED BY <1>3, <2>1, SidesExchanged DEF MergedFeature, InAllThree
<1>4. CASE ~Has(b, id) /\ ~(Has(o, id) /\ Has(t, id))
    <2>1. ~InAllThree(b, o, t, id) /\ ~InAllThree(b, t, o, id)
        BY <1>4 DEF InAllThree
    <2>2. CASE Has(o, id)
        BY <1>4, <2>1, <2>2 DEF MergedFeature
    <2>3. CASE Has(t, id)
        BY <1>4, <2>1, <2>3 DEF MergedFeature
    <2> QED BY <2>2, <2>3, <1>4 DEF Has
<1> QED BY <1>1, <1>2, <1>3, <1>4

Mirror(c) == [c EXCEPT !.ours = c.theirs, !.theirs = c.ours]
Mirrored(cs) == {Mirror(c) : c \in cs}

LEMMA ParamMirror ==
    ASSUME NEW y \in ParamConflictsOf, NEW z \in ParamConflictsOf,
           y.id = z.id, y.name = z.name, y.base = z.base, y.ours = z.theirs, y.theirs = z.ours
    PROVE  Mirror(z) = y
<1>1. PICK u \in Values, v \in Values : u = z.theirs /\ v = z.ours
    BY DEF ParamConflictsOf
<1>2. [z EXCEPT !.ours = u, !.theirs = v] = y
    BY <1>1 DEF ParamConflictsOf
<1> QED BY <1>1, <1>2, Zenon DEF Mirror

LEMMA TypeMirror ==
    ASSUME NEW y \in TypeConflictsOf, NEW z \in TypeConflictsOf,
           y.id = z.id, y.base = z.base, y.ours = z.theirs, y.theirs = z.ours
    PROVE  Mirror(z) = y
<1>1. PICK u \in Types, v \in Types : u = z.theirs /\ v = z.ours
    BY DEF TypeConflictsOf
<1>2. [z EXCEPT !.ours = u, !.theirs = v] = y
    BY <1>1 DEF TypeConflictsOf
<1> QED BY <1>1, <1>2, Zenon DEF Mirror

LEMMA MirrorId ==
    ASSUME NEW z \in ParamConflictsOf
    PROVE  Mirror(z).id = z.id
<1>1. PICK u \in Values, v \in Values : u = z.theirs /\ v = z.ours
    BY DEF ParamConflictsOf
<1>2. [z EXCEPT !.ours = u, !.theirs = v].id = z.id
    BY <1>1 DEF ParamConflictsOf
<1> QED BY <1>1, <1>2, Zenon DEF Mirror

MirroredParams(b, cs, ds) ==
    {x \in Mirrored(ds) : Has(b, x.id)} = {x \in cs : Has(b, x.id)}

LEMMA ParamMirrored ==
    ASSUME NEW b \in Trees, NEW o \in Trees, NEW t \in Trees, NEW c, NEW d,
           c = Conflicts(b, o, t), d = Conflicts(b, t, o), c \in ConflictSets, d \in ConflictSets
    PROVE  MirroredParams(b, c.param, d.param)
<1> DEFINE K == ParamClashes(b, o, t)
<1>1. c.param = {ParamConflict(b, o, t, k[1], k[2]) : k \in K}
    BY DEF Conflicts
<1>2. d.param = {ParamConflict(b, t, o, k[1], k[2]) : k \in K}
    BY ClashesExchanged DEF Conflicts
<1>3. c.param \subseteq ParamConflictsOf /\ d.param \subseteq ParamConflictsOf
    BY DEF ConflictSets
<1> HIDE DEF K
<1>4. ASSUME NEW k \in K, NEW y \in ParamConflictsOf, NEW z \in ParamConflictsOf,
             y = ParamConflict(b, o, t, k[1], k[2]), z = ParamConflict(b, t, o, k[1], k[2])
      PROVE  /\ y.id = k[1] /\ z.id = k[1]
             /\ Mirror(z).id = k[1]
             /\ Has(b, k[1]) => Mirror(z) = y
    <2>1. y.id = k[1] /\ z.id = k[1] /\ y.name = k[2] /\ z.name = k[2]
          /\ y.ours = z.theirs /\ y.theirs = z.ours
        BY <1>4 DEF ParamConflict
    <2>2. Has(b, k[1]) => y.base = z.base
        BY <1>4 DEF ParamConflict
    <2>3. Mirror(z).id = k[1]
        BY <2>1, MirrorId
    <2>4. ASSUME Has(b, k[1]) PROVE Mirror(z) = y
        BY <2>1, <2>2, <2>4, ParamMirror
    <2> QED BY <2>1, <2>3, <2>4
<1>5. ASSUME NEW x \in c.param, Has(b, x.id) PROVE x \in Mirrored(d.param)
    <2>1. PICK k \in K : x = ParamConflict(b, o, t, k[1], k[2])
        BY <1>1
    <2>2. PICK z \in d.param : z = ParamConflict(b, t, o, k[1], k[2])
        BY <1>2
    <2>3. x \in ParamConflictsOf /\ z \in ParamConflictsOf
        BY <1>3
    <2>4. x = Mirror(z)
        <3>1. x.id = k[1] /\ (Has(b, k[1]) => Mirror(z) = x)
            BY <2>1, <2>2, <2>3, <1>4
        <3> QED BY <3>1, <1>5
    <2> QED BY <2>4, Zenon DEF Mirrored
<1>6. ASSUME NEW x \in Mirrored(d.param), Has(b, x.id) PROVE x \in c.param
    <2>1. PICK z \in d.param : x = Mirror(z)
        BY Zenon DEF Mirrored
    <2>2. PICK k \in K : z = ParamConflict(b, t, o, k[1], k[2])
        BY <1>2
    <2>3. PICK y \in c.param : y = ParamConflict(b, o, t, k[1], k[2])
        BY <1>1
    <2>4. y \in ParamConflictsOf /\ z \in ParamConflictsOf
        BY <1>3
    <2>5. x = y
        <3>1. Mirror(z).id = k[1] /\ (Has(b, k[1]) => Mirror(z) = y)
            BY <2>2, <2>3, <2>4, <1>4
        <3> QED BY <2>1, <3>1, <1>6
    <2> QED BY <2>5
<1> QED BY <1>5, <1>6 DEF MirroredParams

MirroredTypes(cs, ds) == Mirrored(ds) = cs

LEMMA TypeMirrored ==
    ASSUME NEW b \in Trees, NEW o \in Trees, NEW t \in Trees, NEW c, NEW d,
           c = Conflicts(b, o, t), d = Conflicts(b, t, o), c \in ConflictSets, d \in ConflictSets
    PROVE  MirroredTypes(c.type, d.type)
<1> DEFINE K == TypeClashes(b, o, t)
<1>1. c.type = {TypeConflict(b, o, t, id) : id \in K}
    BY DEF Conflicts
<1>2. d.type = {TypeConflict(b, t, o, id) : id \in K}
    BY ClashesExchanged DEF Conflicts
<1>3. c.type \subseteq TypeConflictsOf /\ d.type \subseteq TypeConflictsOf
    BY DEF ConflictSets
<1> HIDE DEF K
<1>4. ASSUME NEW id \in K, NEW y \in TypeConflictsOf, NEW z \in TypeConflictsOf,
             y = TypeConflict(b, o, t, id), z = TypeConflict(b, t, o, id)
      PROVE  Mirror(z) = y
    <2>1. y.id = z.id /\ y.base = z.base /\ y.ours = z.theirs /\ y.theirs = z.ours
        BY <1>4 DEF TypeConflict
    <2> QED BY <2>1, TypeMirror
<1>5. ASSUME NEW x \in c.type PROVE x \in Mirrored(d.type)
    <2>1. PICK id \in K : x = TypeConflict(b, o, t, id)
        BY <1>1
    <2>2. PICK z \in d.type : z = TypeConflict(b, t, o, id)
        BY <1>2
    <2>3. x \in TypeConflictsOf /\ z \in TypeConflictsOf
        BY <1>3
    <2>4. x = Mirror(z)
        BY <2>1, <2>2, <2>3, <1>4
    <2> QED BY <2>4, Zenon DEF Mirrored
<1>6. ASSUME NEW x \in Mirrored(d.type) PROVE x \in c.type
    <2>1. PICK z \in d.type : x = Mirror(z)
        BY Zenon DEF Mirrored
    <2>2. PICK id \in K : z = TypeConflict(b, t, o, id)
        BY <1>2
    <2>3. PICK y \in c.type : y = TypeConflict(b, o, t, id)
        BY <1>1
    <2>4. y \in TypeConflictsOf /\ z \in TypeConflictsOf
        BY <1>3
    <2> QED BY <2>1, <2>2, <2>3, <2>4, <1>4
<1> QED BY <1>5, <1>6 DEF MirroredTypes

LEMMA AddRemoveMirrored ==
    ASSUME NEW b \in Trees, NEW o \in Trees, NEW t \in Trees, NEW c, NEW d,
           c = AddRemoveConflicts(b, o, t), d = AddRemoveConflicts(b, t, o)
    PROVE  [i \in DOMAIN d |-> [d[i] EXCEPT !.oursRemoved = ~@]] = c
<1>1. AddRemoveSound(b, o, t, c) /\ AddRemoveSound(b, t, o, d)
    BY AddRemoveFacts DEF Trees
<1>2. PICK clashing : clashing = WithIds(b, {id \in IdsOf(b) : Contested(b, o, t, id)})
    OBVIOUS
<1>3. /\ {id \in IdsOf(b) : RemovedModified(b, o, t, id) \/ RemovedModified(b, t, o, id)}
           = {id \in IdsOf(b) : Contested(b, o, t, id)}
      /\ {id \in IdsOf(b) : RemovedModified(b, t, o, id) \/ RemovedModified(b, o, t, id)}
           = {id \in IdsOf(b) : Contested(b, o, t, id)}
    BY DEF Contested
<1>4. c = [i \in DOMAIN clashing |->
              [id |-> clashing[i].id, base |-> clashing[i],
               oursRemoved |-> ~Has(o, clashing[i].id),
               modified |-> At(IF Has(o, clashing[i].id) THEN o ELSE t, clashing[i].id),
               insertIndexHint |-> IndexOf(b, clashing[i].id) - 1]]
    BY <1>2, <1>3, Zenon DEF AddRemoveConflicts
<1>5. d = [i \in DOMAIN clashing |->
              [id |-> clashing[i].id, base |-> clashing[i],
               oursRemoved |-> ~Has(t, clashing[i].id),
               modified |-> At(IF Has(t, clashing[i].id) THEN t ELSE o, clashing[i].id),
               insertIndexHint |-> IndexOf(b, clashing[i].id) - 1]]
    BY <1>2, <1>3, Zenon DEF AddRemoveConflicts
<1>6. DOMAIN c = DOMAIN clashing /\ DOMAIN d = DOMAIN clashing
    BY <1>4, <1>5
<1>7. ASSUME NEW i \in DOMAIN clashing PROVE c[i] = [d[i] EXCEPT !.oursRemoved = ~@]
    <2>1. PICK x \in AddRemoves : x = c[i] /\ Records(b, o, t, x)
        BY <1>1, <1>6 DEF AddRemoveSound
    <2>2. PICK y \in AddRemoves : y = d[i] /\ Records(b, t, o, y)
        BY <1>1, <1>6 DEF AddRemoveSound
    <2>3. PICK id : id = clashing[i].id
        OBVIOUS
    <2>4. x.id = id /\ x.base = clashing[i] /\ x.insertIndexHint = IndexOf(b, id) - 1
        BY <1>4, <2>1, <2>3
    <2>5. y.id = id /\ y.base = clashing[i] /\ y.insertIndexHint = IndexOf(b, id) - 1
        BY <1>5, <2>2, <2>3
    <2>6. Contested(b, o, t, id) /\ (Has(o, id) <=> ~Has(t, id))
        BY <2>1, <2>4, ContestedWhere DEF Records
    <2>7. x.modified = y.modified
        BY <2>1, <2>2, <2>4, <2>5, <2>6 DEF Records
    <2>8. x.oursRemoved <=> ~y.oursRemoved
        BY <2>1, <2>2, <2>4, <2>5, <2>6 DEF Records
    <2>9. x.oursRemoved \in BOOLEAN /\ y.oursRemoved \in BOOLEAN
        BY DEF AddRemoves
    <2>10. PICK flag \in BOOLEAN : flag = ~y.oursRemoved
        OBVIOUS
    <2>11. x.oursRemoved = flag
        BY <2>8, <2>9, <2>10
    <2>12. x = [y EXCEPT !.oursRemoved = flag]
        BY <2>4, <2>5, <2>7, <2>11 DEF AddRemoves
    <2> QED BY <2>1, <2>2, <2>10, <2>12
<1>8. c = [i \in DOMAIN clashing |-> c[i]]
    BY <1>4
<1> QED BY <1>6, <1>7, <1>8

(* The features that are not in conflict as additions of both sides. *)
SettledFeatures(b, list, conflicted) ==
    {f \in ToSet(list) : Has(b, f.id) \/ f.id \notin conflicted}

LEMMA FeaturesOf ==
    ASSUME NEW list \in Trees, NEW f
    PROVE  f \in ToSet(list) <=> f.id \in IdsOf(list) /\ f = At(list, f.id)
<1>1. list \in Seq(Features) /\ Distinct(list)
    BY DEF Trees
<1>2. ASSUME f \in ToSet(list) PROVE f.id \in IdsOf(list) /\ f = At(list, f.id)
    <2>1. PICK i \in DOMAIN list : f = list[i]
        BY <1>2 DEF ToSet
    <2> QED BY <2>1, <1>1, FoundThere
<1>3. ASSUME f.id \in IdsOf(list), f = At(list, f.id) PROVE f \in ToSet(list)
    <2>1. IndexOf(list, f.id) \in DOMAIN list
        BY <1>1, <1>3, Found
    <2> QED BY <2>1, <1>3 DEF At, ToSet
<1> QED BY <1>2, <1>3

LEMMA SettledExchanged ==
    ASSUME NEW b \in Trees, NEW o \in Trees, NEW t \in Trees, NEW m, NEW n,
           MergedAs(b, o, t, m), MergedAs(b, t, o, n), NEW conflicted,
           \A id \in Ids : id \notin conflicted => Agreed(b, o, t, id)
    PROVE  /\ IdsOf(n) = IdsOf(m)
           /\ SettledFeatures(b, n, conflicted) = SettledFeatures(b, m, conflicted)
<1>1. IdsOf(n) = IdsOf(m)
    <2>1. {id \in IdsOf(b) \cup IdsOf(t) \cup IdsOf(o) : Survives(b, t, o, id)}
            = {id \in IdsOf(b) \cup IdsOf(o) \cup IdsOf(t) : Survives(b, o, t, id)}
        BY SidesExchanged
    <2> QED BY <2>1 DEF MergedAs
<1>2. m \in Trees /\ n \in Trees
    BY DEF MergedAs, Trees
<1>3. ASSUME NEW id \in IdsOf(m), Has(b, id) \/ id \notin conflicted
      PROVE  At(n, id) = At(m, id)
    <2>1. At(m, id) = MergedFeature(b, o, t, id) /\ id \in IdsOf(b) \cup IdsOf(o) \cup IdsOf(t)
        BY DEF MergedAs
    <2>2. At(n, id) = MergedFeature(b, t, o, id)
        BY <1>1 DEF MergedAs
    <2>3. id \in Ids
        BY <1>2, Found, FeatureFields, SMTT(40) DEF Trees
    <2> QED BY <1>3, <2>1, <2>2, <2>3, MergedFeatureExchanged
<1>4. \A f : f \in SettledFeatures(b, n, conflicted) <=> f \in SettledFeatures(b, m, conflicted)
    BY <1>1, <1>2, <1>3, FeaturesOf DEF SettledFeatures
<1> QED BY <1>1, <1>4

(* A merge does not depend on which workspace is ours: with the sides       *)
(* exchanged the conflicts are mirrored, and the merged tree has the same   *)
(* features, those aside that both sides added differently (threeWayMerge). *)
THEOREM MergingIsSymmetric == Spec => []MergeIsSymmetric
<1>1. WInv => MergeIsSymmetric
    <2> SUFFICES ASSUME WInv, Fresh PROVE MergeIsSymmetric
        BY Zenon DEF MergeIsSymmetric
    <2>1. result.made /\ ~result.touched
        BY DEF Fresh
    <2>2. PICK o \in Trees, t \in Trees, b \in Trees :
              o = result.ours /\ t = result.theirs /\ b = baseSnapshot
        BY <2>1, ResultRecords
    <2>3. PICK m : m = result.merged /\ MergedAs(b, o, t, m)
        <3>1. MergedAs(b, o, t, MergedTree(b, o, t))
            BY MergedTreeFacts DEF Trees
        <3>2. result.merged = MergedTree(b, o, t)
            BY <2>1, <2>2 DEF WInv, SoundResult
        <3> QED BY <3>1, <3>2
    <2>4. PICK n : n = MergedTree(b, t, o) /\ MergedAs(b, t, o, n)
        BY MergedTreeFacts DEF Trees
    <2>5. EmptyFrom(b, o) /\ EmptyFrom(b, t)
        BY <2>1, <2>2 DEF WInv, SoundLists, SoundResult
    <2>6. PICK c \in ConflictSets : c = Conflicts(b, o, t) /\ c = result.conflicts
        BY <2>1, <2>2, ResultRecords DEF WInv, SoundResult
    <2>7. PICK d \in ConflictSets : d = Conflicts(b, t, o)
        BY <2>5, ConflictsTyped DEF Trees
    <2>8. ASSUME NEW id \in Ids, id \notin Conflicted PROVE Agreed(b, o, t, id)
        <3>1. Listing(b, o, t, c)
            BY <2>6, ConflictsListing
        <3>2. \A k \in Keys(c) : k[1] # id
            BY <2>8, <2>6 DEF Conflicted
        <3>3. ASSUME NEW x \in c.type, x.id = id PROVE FALSE
            <4>1. <<x.id, NoName>> \in Keys(c)
                BY Zenon DEF Keys
            <4> QED BY <4>1, <3>2, <3>3
        <3>4. ASSUME NEW x \in c.suppression, x.id = id PROVE FALSE
            <4>1. <<x.id, NoName>> \in Keys(c)
                BY Zenon DEF Keys
            <4> QED BY <4>1, <3>2, <3>4
        <3>5. ASSUME NEW x \in c.param, x.id = id PROVE FALSE
            <4>1. <<x.id, x.name>> \in Keys(c)
                BY Zenon DEF Keys
            <4> QED BY <4>1, <3>2, <3>5
        <3>6. id \notin TypeClashes(b, o, t)
            BY <3>1, <3>3, Zenon DEF Listing
        <3>7. id \notin SuppressionClashes(b, o, t)
            BY <3>1, <3>4, Zenon DEF Listing
        <3>8. ASSUME NEW p \in Names PROVE <<id, p>> \notin ParamClashes(b, o, t)
            BY <3>1, <3>5, Zenon DEF Listing
        <3> QED BY <3>6, <3>7, <3>8 DEF Agreed
    <2>9. IdsOf(n) = IdsOf(m)
          /\ SettledFeatures(b, n, Conflicted) = SettledFeatures(b, m, Conflicted)
        BY <2>3, <2>4, <2>8, SettledExchanged
    <2>10. d.position = c.position
        BY <2>6, <2>7, ClashesExchanged DEF Conflicts
    <2>11. MirroredParams(b, c.param, d.param)
        BY <2>6, <2>7, ParamMirrored
    <2>12. MirroredTypes(c.type, d.type)
        BY <2>6, <2>7, TypeMirrored
    <2>13. [i \in DOMAIN d.addRemove |-> [d.addRemove[i] EXCEPT !.oursRemoved = ~@]] = c.addRemove
        <3>1. c.addRemove = AddRemoveConflicts(b, o, t) /\ d.addRemove = AddRemoveConflicts(b, t, o)
            BY <2>6, <2>7 DEF Conflicts
        <3> QED BY <3>1, AddRemoveMirrored
    <2> QED BY <2>2, <2>3, <2>4, <2>6, <2>7, <2>9, <2>10, <2>11, <2>12, <2>13, Zenon
            DEF MergeIsSymmetric, Mirror, Mirrored, MirroredParams, MirroredTypes, SettledFeatures
<1> QED BY <1>1, SpecWInv, PTL

-----------------------------------------------------------------------------
(* A clean merge, merged once more *)

LEMMA CombineAgain ==
    ASSUME NEW x, NEW y, NEW z, ~Clash(x, y, z), NEW w, w = Combine(x, y, z)
    PROVE  ~Clash(x, w, z) /\ Combine(x, w, z) = w
BY DEF Clash, Combine

(* Nothing is in conflict about any feature. *)
Conflictless(b, o, t) ==
    \A id \in Ids : Agreed(b, o, t, id) /\ ~Contested(b, o, t, id)

(* Which features a side has in the second merge, and in the first. *)
Presence(b, o, t, m, id) ==
    /\ ~Contested(b, m, t, id)
    /\ Has(m, id) <=> Survives(b, o, t, id)
    /\ Survives(b, m, t, id) <=> Has(m, id)
    /\ InAllThree(b, m, t, id) <=> InAllThree(b, o, t, id)
    /\ Has(m, id) /\ Has(b, id) => InAllThree(b, o, t, id)
    /\ BothAdded(b, m, t, id) => At(m, id) = At(t, id)

LEMMA TreeIds ==
    ASSUME NEW list \in Trees
    PROVE  IdsOf(list) \subseteq Ids
BY Found, FeatureFields DEF Trees

LEMMA PresenceKept ==
    ASSUME NEW b \in Trees, NEW o \in Trees, NEW t \in Trees, Conflictless(b, o, t),
           NEW m, MergedAs(b, o, t, m), NEW id \in IdsOf(b) \cup IdsOf(o) \cup IdsOf(t)
    PROVE  Presence(b, o, t, m, id)
<1>1. id \in Ids
    BY TreeIds
<1>2. Agreed(b, o, t, id) /\ ~Contested(b, o, t, id)
    BY <1>1 DEF Conflictless
<1>3. Has(m, id) <=> Survives(b, o, t, id)
    BY DEF MergedAs, Has
<1>4. Survives(b, o, t, id) <=> \/ ~Has(b, id) /\ (Has(o, id) \/ Has(t, id))
                                \/ Has(b, id) /\ Has(o, id) /\ Has(t, id)
    BY <1>2 DEF Survives, Contested, InAllThree
<1>5. ~Contested(b, m, t, id)
    BY <1>2, <1>3, <1>4 DEF Contested, RemovedModified
<1>6. Survives(b, m, t, id) <=> \/ ~Has(b, id) /\ (Has(m, id) \/ Has(t, id))
                                \/ Has(b, id) /\ Has(m, id) /\ Has(t, id)
    BY <1>5 DEF Survives, Contested, InAllThree
<1>7. ASSUME BothAdded(b, m, t, id) PROVE At(m, id) = At(t, id)
    <2>1. At(m, id) = MergedFeature(b, o, t, id) /\ ~Has(b, id) /\ Has(t, id)
        BY <1>7 DEF BothAdded, MergedAs, Has
    <2>2. CASE Has(o, id)
        <3>1. At(o, id) = At(t, id)
            BY <1>1, <1>2, <2>1, <2>2, AgreedIsSame DEF BothAdded
        <3> QED BY <2>1, <2>2, <3>1 DEF MergedFeature, InAllThree
    <2>3. CASE ~Has(o, id)
        BY <2>1, <2>3 DEF MergedFeature, InAllThree
    <2> QED BY <2>2, <2>3
<1>8. InAllThree(b, m, t, id) <=> InAllThree(b, o, t, id)
    BY <1>3, <1>4 DEF InAllThree
<1>9. Has(m, id) /\ Has(b, id) => InAllThree(b, o, t, id)
    BY <1>3, <1>4 DEF InAllThree
<1>10. Survives(b, m, t, id) <=> Has(m, id)
    BY <1>3, <1>4, <1>6
<1> QED BY <1>3, <1>5, <1>7, <1>8, <1>9, <1>10 DEF Presence

LEMMA UnionOfSides ==
    ASSUME NEW b, NEW o, NEW t, NEW m, MergedAs(b, o, t, m), NEW id, Has(m, id)
    PROVE  id \in IdsOf(b) \cup IdsOf(o) \cup IdsOf(t)
BY DEF MergedAs, Has

(* What a feature of all three trees is after the first merge. *)
CombinedOnce(f, g, h, k) ==
    /\ k \in Features /\ k.id = f.id /\ ~Clash(f.type, k.type, h.type)
    /\ ~Clash(f.suppressed, k.suppressed, h.suppressed)
    /\ \A n \in Names : ~Clash(Param(f, n), Param(k, n), Param(h, n))
    /\ CombinedFeature(f, k, h) = k

LEMMA CombinedAgain ==
    ASSUME NEW f \in Features, NEW g \in Features, NEW h \in Features,
           ~Clash(f.type, g.type, h.type), ~Clash(f.suppressed, g.suppressed, h.suppressed),
           \A n \in Names : ~Clash(Param(f, n), Param(g, n), Param(h, n)),
           NEW k, k = CombinedFeature(f, g, h)
    PROVE  CombinedOnce(f, g, h, k)
<1>1. /\ k \in Features /\ k.id = f.id
      /\ k.type = Combine(f.type, g.type, h.type)
      /\ k.suppressed = Combine(f.suppressed, g.suppressed, h.suppressed)
      /\ \A n \in Names : Param(k, n) = Combine(Param(f, n), Param(g, n), Param(h, n))
    BY CombinedFeatureTyped
<1>2. ~Clash(f.type, k.type, h.type) /\ Combine(f.type, k.type, h.type) = k.type
    BY <1>1, CombineAgain
<1>3. /\ ~Clash(f.suppressed, k.suppressed, h.suppressed)
      /\ Combine(f.suppressed, k.suppressed, h.suppressed) = k.suppressed
    BY <1>1, CombineAgain
<1>4. ASSUME NEW n \in Names
      PROVE  /\ ~Clash(Param(f, n), Param(k, n), Param(h, n))
             /\ Combine(Param(f, n), Param(k, n), Param(h, n)) = Param(k, n)
    BY <1>1, CombineAgain
<1>5. PICK j \in Features : j = CombinedFeature(f, k, h)
    BY <1>1, CombinedFeatureTyped
<1>6. j.id = k.id /\ j.type = k.type /\ j.suppressed = k.suppressed
    BY <1>1, <1>2, <1>3, <1>5, CombinedFeatureTyped
<1>7. \A n \in Names : Param(j, n) = Param(k, n)
    BY <1>1, <1>4, <1>5, CombinedFeatureTyped
<1>8. j.params = k.params
    BY <1>1, <1>7, ParamsEqual
<1>9. j = k
    BY <1>1, <1>6, <1>8, FeaturesEqual
<1> QED BY <1>1, <1>2, <1>3, <1>4, <1>5, <1>9 DEF CombinedOnce

(* The features of all three trees, with those of the first merge for ours. *)
LEMMA OfAllThreeAgain ==
    ASSUME NEW b \in Trees, NEW o \in Trees, NEW t \in Trees, Conflictless(b, o, t),
           NEW m, MergedAs(b, o, t, m), NEW id, InAllThree(b, o, t, id)
    PROVE  /\ CombinedOnce(At(b, id), At(o, id), At(t, id), At(m, id))
           /\ MergedFeature(b, m, t, id) = At(m, id)
<1>1. PICK f \in Features, g \in Features, h \in Features :
          f = At(b, id) /\ g = At(o, id) /\ h = At(t, id)
    BY Found DEF InAllThree, Has, Trees
<1>2. id \in IdsOf(b) \cup IdsOf(o) \cup IdsOf(t) /\ id \in Ids
    BY TreeIds DEF InAllThree, Has
<1>3. Agreed(b, o, t, id)
    BY <1>2 DEF Conflictless
<1>4. ~Clash(f.type, g.type, h.type)
    BY <1>1, <1>2, <1>3 DEF Agreed, TypeClashes
<1>5. ~Clash(f.suppressed, g.suppressed, h.suppressed)
    BY <1>1, <1>2, <1>3 DEF Agreed, SuppressionClashes
<1>6. ASSUME NEW n \in Names PROVE ~Clash(Param(f, n), Param(g, n), Param(h, n))
    <2>1. <<id, n>> \in Ids \X Names /\ <<id, n>>[1] = id /\ <<id, n>>[2] = n
        BY <1>2
    <2>2. <<id, n>> \notin ParamClashes(b, o, t)
        BY <1>3 DEF Agreed
    <2> QED BY <1>1, <2>1, <2>2 DEF ParamClashes
<1>7. Presence(b, o, t, m, id)
    BY <1>2, PresenceKept
<1>8. Has(m, id) /\ InAllThree(b, m, t, id)
    BY <1>7 DEF Presence, Survives
<1>9. PICK k : k = At(m, id) /\ k = CombinedFeature(f, g, h)
    BY <1>1, <1>8 DEF MergedAs, MergedFeature, Has
<1>10. CombinedOnce(f, g, h, k)
    BY <1>4, <1>5, <1>6, <1>9, CombinedAgain
<1>11. MergedFeature(b, m, t, id) = CombinedFeature(f, k, h)
    BY <1>1, <1>8, <1>9 DEF MergedFeature
<1>12. CombinedFeature(f, k, h) = k
    BY <1>10 DEF CombinedOnce
<1> QED BY <1>1, <1>9, <1>10, <1>11, <1>12

(* The second merge has no conflicts about what features are. *)
LEMMA NoClashesAgain ==
    ASSUME NEW b \in Trees, NEW o \in Trees, NEW t \in Trees, Conflictless(b, o, t),
           NEW m, MergedAs(b, o, t, m)
    PROVE  /\ ParamClashes(b, m, t) = {} /\ TypeClashes(b, m, t) = {}
           /\ SuppressionClashes(b, m, t) = {}
           /\ {id \in IdsOf(b) : Contested(b, m, t, id)} = {}
<1>1. ASSUME NEW id, InAllThree(b, m, t, id) \/ BothAdded(b, m, t, id)
      PROVE  Presence(b, o, t, m, id)
    <2>1. id \in IdsOf(b) \cup IdsOf(o) \cup IdsOf(t)
        BY <1>1 DEF InAllThree, BothAdded, Has
    <2> QED BY <2>1, PresenceKept
<1>2. ASSUME NEW id, InAllThree(b, m, t, id)
      PROVE  CombinedOnce(At(b, id), At(o, id), At(t, id), At(m, id))
    <2>1. InAllThree(b, o, t, id)
        BY <1>1, <1>2 DEF Presence
    <2> QED BY <2>1, OfAllThreeAgain
<1>3. ASSUME NEW id, BothAdded(b, m, t, id) PROVE At(m, id) = At(t, id)
    BY <1>1, <1>3 DEF Presence
<1>4. ASSUME NEW id \in Ids PROVE id \notin TypeClashes(b, m, t)
    BY <1>2, <1>3 DEF TypeClashes, CombinedOnce
<1>5. ASSUME NEW id \in Ids PROVE id \notin SuppressionClashes(b, m, t)
    BY <1>2, <1>3 DEF SuppressionClashes, CombinedOnce
<1>6. ASSUME NEW k \in Ids \X Names PROVE k \notin ParamClashes(b, m, t)
    <2>1. k[2] \in Names
        OBVIOUS
    <2>2. ASSUME InAllThree(b, m, t, k[1])
          PROVE  ~Clash(Param(At(b, k[1]), k[2]), Param(At(m, k[1]), k[2]), Param(At(t, k[1]), k[2]))
        <3>1. CombinedOnce(At(b, k[1]), At(o, k[1]), At(t, k[1]), At(m, k[1]))
            BY <1>2, <2>2
        <3> QED BY <2>1, <3>1, Zenon DEF CombinedOnce
    <2>3. ASSUME BothAdded(b, m, t, k[1]) PROVE Param(At(m, k[1]), k[2]) = Param(At(t, k[1]), k[2])
        <3>1. At(m, k[1]) = At(t, k[1])
            BY <1>3, <2>3
        <3> QED BY <3>1, Zenon
    <2> QED BY <2>2, <2>3, Zenon DEF ParamClashes
<1>7. ASSUME NEW id \in IdsOf(b) PROVE ~Contested(b, m, t, id)
    <2>1. Presence(b, o, t, m, id)
        BY PresenceKept
    <2> QED BY <2>1 DEF Presence
<1>8. ParamClashes(b, m, t) = {}
    BY <1>6 DEF ParamClashes
<1>9. TypeClashes(b, m, t) = {}
    BY <1>4 DEF TypeClashes
<1>10. SuppressionClashes(b, m, t) = {}
    BY <1>5 DEF SuppressionClashes
<1> QED BY <1>7, <1>8, <1>9, <1>10

(* Nor about their places: the merge puts them in base's order. *)
LEMMA NoPositionClashesAgain ==
    ASSUME NEW b \in Trees, NEW o \in Trees, NEW t \in Trees, Conflictless(b, o, t),
           NEW m, MergedAs(b, o, t, m)
    PROVE  PositionClashes(b, m, t) = {}
<1>1. PICK ids : ids = {id \in IdsOf(b) : Survives(b, m, t, id)}
    OBVIOUS
<1>2. PICK retained : retained = RetainedBase(b, m, t) /\ PickedFrom(Features, b, ids, retained)
    BY <1>1, WithIdsFacts DEF RetainedBase, Trees
<1>3. PICK kept : kept = IdsOf(retained) /\ kept \subseteq IdsOf(b) /\ kept \subseteq IdsOf(m)
    <2>1. IdsOf(retained) = IdsOf(b) \cap ids
        BY <1>2 DEF PickedFrom
    <2>2. ASSUME NEW id \in IdsOf(b), Survives(b, m, t, id) PROVE id \in IdsOf(m)
        <3>1. Presence(b, o, t, m, id)
            BY PresenceKept
        <3> QED BY <2>2, <3>1 DEF Presence, Has
    <2> QED BY <1>1, <2>1, <2>2
<1>4. m \in Seq(Features) /\ Distinct(m)
    BY DEF MergedAs
<1>5. PICK ours : ours = RelativeOrder(m, retained) /\ PickedFrom(Features, m, kept, ours)
    BY <1>3, <1>4, WithIdsFacts DEF RelativeOrder
<1>6. IdsOf(ours) = kept
    BY <1>3, <1>5 DEF PickedFrom
<1>7. ASSUME NEW x \in kept, NEW y \in kept, IndexOf(retained, x) < IndexOf(retained, y)
      PROVE  IndexOf(ours, x) < IndexOf(ours, y)
    <2>1. IndexOf(b, x) < IndexOf(b, y)
        BY <1>2, <1>3, <1>7 DEF PickedFrom
    <2>2. Comes(b, o, t, x, y)
        BY <1>3, <2>1 DEF Comes, Has
    <2>3. IndexOf(m, x) < IndexOf(m, y)
        BY <1>3, <2>2 DEF MergedAs
    <2> QED BY <1>5, <1>6, <2>3 DEF PickedFrom
<1>8. retained \in Seq(Features) /\ Distinct(retained) /\ ours \in Seq(Features) /\ Distinct(ours)
    BY <1>2, <1>5 DEF PickedFrom
<1>9. Len(retained) = Len(ours) /\ \A i \in DOMAIN retained : retained[i].id = ours[i].id
    BY <1>3, <1>6, <1>7, <1>8, SameOrder
<1>10. DOMAIN ours = DOMAIN retained
    BY <1>8, <1>9
<1>11. \A id \in IdsOf(retained) : IndexOf(ours, id) = IndexOf(retained, id)
    BY <1>8, <1>9, <1>10, SamePlaces
<1>12. PICK theirs : theirs = RelativeOrder(t, retained)
    OBVIOUS
<1>13. PositionClashes(b, m, t) =
         {id \in IdsOf(retained) :
             /\ Has(ours, id) /\ Has(theirs, id)
             /\ Clash(IndexOf(retained, id), IndexOf(ours, id), IndexOf(theirs, id))}
    BY <1>2, <1>5, <1>12, Zenon DEF PositionClashes
<1>14. ASSUME NEW id \in IdsOf(retained)
       PROVE  ~Clash(IndexOf(retained, id), IndexOf(ours, id), IndexOf(theirs, id))
    BY <1>11 DEF Clash
<1> QED BY <1>13, <1>14

LEMMA NothingToRecord ==
    ASSUME NEW b \in Trees, NEW o \in Trees, NEW t \in Trees,
           ParamClashes(b, o, t) = {}, TypeClashes(b, o, t) = {}, SuppressionClashes(b, o, t) = {},
           {id \in IdsOf(b) : Contested(b, o, t, id)} = {}, PositionClashes(b, o, t) = {}
    PROVE  Clean(Conflicts(b, o, t))
<1>1. PICK A : A = AddRemoveConflicts(b, o, t) /\ AddRemoveSound(b, o, t, A)
    BY AddRemoveFacts DEF Trees
<1>2. A \in Seq(AddRemoves) /\ IdsOf(A) = {}
    BY <1>1 DEF AddRemoveSound
<1>3. DOMAIN A = {}
    BY <1>2 DEF IdsOf
<1>4. A = <<>>
    BY <1>2, <1>3
<1>5. PICK P, T, S, Q :
          /\ P = {ParamConflict(b, o, t, k[1], k[2]) : k \in ParamClashes(b, o, t)}
          /\ T = {TypeConflict(b, o, t, id) : id \in TypeClashes(b, o, t)}
          /\ S = {SuppressionConflict(b, o, t, id) : id \in SuppressionClashes(b, o, t)}
          /\ Q = PositionClashes(b, o, t)
    OBVIOUS
<1>6. P = {} /\ T = {} /\ S = {} /\ Q = {}
    BY <1>5
<1>7. Conflicts(b, o, t)
        = [param |-> P, type |-> T, suppression |-> S, addRemove |-> A, position |-> Q]
    BY <1>1, <1>5, Zenon DEF Conflicts
<1> QED BY <1>4, <1>6, <1>7, Zenon DEF Clean, NoConflicts

LEMMA NothingRecorded ==
    ASSUME NEW b \in Trees, NEW o \in Trees, NEW t \in Trees, Clean(Conflicts(b, o, t))
    PROVE  Conflictless(b, o, t)
<1>1. PICK c : c = Conflicts(b, o, t) /\ c = NoConflicts
    BY DEF Clean
<1>2. c.param = {} /\ c.type = {} /\ c.suppression = {} /\ c.addRemove = <<>>
    BY <1>1 DEF NoConflicts
<1>3. ToSet(c.addRemove) = {}
    BY <1>2 DEF ToSet
<1>4. Listing(b, o, t, c)
    BY <1>1, ConflictsListing
<1>5. ASSUME NEW id \in Ids PROVE Agreed(b, o, t, id) /\ ~Contested(b, o, t, id)
    <2>1. id \notin TypeClashes(b, o, t)
        BY <1>2, <1>4 DEF Listing
    <2>2. id \notin SuppressionClashes(b, o, t)
        BY <1>2, <1>4 DEF Listing
    <2>3. ASSUME NEW n \in Names PROVE <<id, n>> \notin ParamClashes(b, o, t)
        BY <1>2, <1>4 DEF Listing
    <2>4. ~Contested(b, o, t, id)
        <3>1. ~(id \in IdsOf(b) /\ Contested(b, o, t, id))
            BY <1>3, <1>4, Zenon DEF Listing
        <3> QED BY <3>1, ContestedWhere DEF Has
    <2> QED BY <2>1, <2>2, <2>3, <2>4 DEF Agreed
<1> QED BY <1>5 DEF Conflictless

LEMMA SameTree ==
    ASSUME NEW m \in Trees, NEW n \in Trees, IdsOf(m) = IdsOf(n),
           \A id \in IdsOf(m) : At(m, id) = At(n, id),
           \A x, y \in IdsOf(m) : IndexOf(m, x) < IndexOf(m, y) => IndexOf(n, x) < IndexOf(n, y)
    PROVE  m = n
<1>1. m \in Seq(Features) /\ Distinct(m) /\ n \in Seq(Features) /\ Distinct(n)
    BY DEF Trees
<1>2. Len(m) = Len(n) /\ \A i \in DOMAIN m : m[i].id = n[i].id
    BY <1>1, SameOrder
<1>3. DOMAIN m = DOMAIN n
    BY <1>1, <1>2
<1>4. ASSUME NEW i \in DOMAIN m PROVE m[i] = n[i]
    <2>1. m[i].id \in IdsOf(m) /\ At(m, m[i].id) = m[i]
        BY <1>1, FoundThere
    <2>2. At(n, n[i].id) = n[i]
        BY <1>1, <1>3, FoundThere
    <2> QED BY <1>2, <2>1, <2>2
<1> QED BY <1>1, <1>2, <1>4

LEMMA SameTreeAgain ==
    ASSUME NEW b \in Trees, NEW o \in Trees, NEW t \in Trees, Conflictless(b, o, t),
           NEW m, MergedAs(b, o, t, m)
    PROVE  MergedTree(b, m, t) = m
<1>1. m \in Trees
    BY DEF MergedAs, Trees
<1>2. PICK n : n = MergedTree(b, m, t) /\ MergedAs(b, m, t, n)
    BY <1>1, MergedTreeFacts DEF Trees
<1>3. n \in Trees
    BY <1>2 DEF MergedAs, Trees
<1>4. IdsOf(n) = IdsOf(m)
    <2>1. IdsOf(m) \subseteq IdsOf(b) \cup IdsOf(o) \cup IdsOf(t)
        BY DEF MergedAs
    <2>2. \A id \in IdsOf(b) \cup IdsOf(m) \cup IdsOf(t) : Survives(b, m, t, id) <=> id \in IdsOf(m)
        BY <2>1, PresenceKept DEF Presence, Has
    <2>3. IdsOf(n) = {id \in IdsOf(b) \cup IdsOf(m) \cup IdsOf(t) : Survives(b, m, t, id)}
        BY <1>2 DEF MergedAs
    <2> QED BY <2>2, <2>3
<1>5. ASSUME NEW id \in IdsOf(n) PROVE At(n, id) = At(m, id)
    <2>1. At(n, id) = MergedFeature(b, m, t, id)
        BY <1>2 DEF MergedAs
    <2>2. Has(m, id) /\ id \in IdsOf(b) \cup IdsOf(o) \cup IdsOf(t)
        BY <1>4, UnionOfSides DEF Has
    <2>3. Presence(b, o, t, m, id)
        BY <2>2, PresenceKept
    <2>4. CASE Has(b, id)
        <3>1. InAllThree(b, o, t, id)
            BY <2>2, <2>3, <2>4 DEF Presence
        <3> QED BY <2>1, <3>1, OfAllThreeAgain
    <2>5. CASE ~Has(b, id)
        BY <2>1, <2>2, <2>5 DEF MergedFeature, InAllThree
    <2> QED BY <2>4, <2>5
<1>6. ASSUME NEW x \in IdsOf(n), NEW y \in IdsOf(n), IndexOf(n, x) < IndexOf(n, y)
      PROVE  IndexOf(m, x) < IndexOf(m, y)
    <2>1. Comes(b, m, t, x, y)
        BY <1>2, <1>6 DEF MergedAs
    <2>2. Has(m, x) /\ Has(m, y)
        BY <1>4 DEF Has
    <2>3. CASE Has(b, x)
        <3>1. Comes(b, o, t, x, y)
            BY <2>1, <2>3 DEF Comes
        <3> QED BY <2>2, <3>1 DEF MergedAs, Has
    <2>4. CASE ~Has(b, x)
        BY <2>1, <2>2, <2>4 DEF Comes
    <2> QED BY <2>3, <2>4
<1> QED BY <1>1, <1>2, <1>3, <1>4, <1>5, <1>6, SameTree

(* Merging the other workspace once more into a merge without conflicts has *)
(* no conflicts and changes nothing (threeWayMerge).                        *)
THEOREM MergingIsAbsorbed == Spec => []MergeIsAbsorbed
<1>1. WInv => MergeIsAbsorbed
    <2> SUFFICES ASSUME WInv, Fresh, Clean(result.conflicts)
                 PROVE  /\ Clean(Conflicts(baseSnapshot, result.merged, result.theirs))
                        /\ MergedTree(baseSnapshot, result.merged, result.theirs) = result.merged
        BY Zenon DEF MergeIsAbsorbed
    <2>1. result.made /\ ~result.touched
        BY DEF Fresh
    <2>2. PICK o \in Trees, t \in Trees, b \in Trees :
              o = result.ours /\ t = result.theirs /\ b = baseSnapshot
        BY <2>1, ResultRecords
    <2>3. PICK m : m = result.merged /\ MergedAs(b, o, t, m)
        <3>1. MergedAs(b, o, t, MergedTree(b, o, t))
            BY MergedTreeFacts DEF Trees
        <3>2. result.merged = MergedTree(b, o, t)
            BY <2>1, <2>2 DEF WInv, SoundResult
        <3> QED BY <3>1, <3>2
    <2>4. Clean(Conflicts(b, o, t))
        BY <2>1, <2>2 DEF WInv, SoundResult
    <2>5. Conflictless(b, o, t)
        BY <2>4, NothingRecorded
    <2>6. m \in Trees
        BY <2>3 DEF MergedAs, Trees
    <2>7. Clean(Conflicts(b, m, t))
        BY <2>3, <2>5, <2>6, NoClashesAgain, NoPositionClashesAgain, NothingToRecord
    <2>8. MergedTree(b, m, t) = m
        BY <2>3, <2>5, SameTreeAgain
    <2> QED BY <2>2, <2>3, <2>7, <2>8
<1> QED BY <1>1, SpecWInv, PTL

-----------------------------------------------------------------------------
(* What resolutions decide *)

(* Every conflict is resolved, for the same side. *)
ForOneSide(chosen, conflicts, choice) ==
    DOMAIN chosen = Keys(conflicts) /\ \A k \in DOMAIN chosen : chosen[k] = choice

(* That side. *)
Winner(choice, o, t) == IF choice = "Ours" THEN o ELSE t

(* What the conflicts say of the sides. *)
ValuesRecorded(b, o, t, conflicts) ==
    /\ \A d \in conflicts.param :
          /\ <<d.id, d.name>> \in ParamClashes(b, o, t)
          /\ d.ours = OrEmpty(Param(At(o, d.id), d.name))
          /\ d.theirs = OrEmpty(Param(At(t, d.id), d.name))
    /\ \A d \in conflicts.type :
          /\ d.id \in TypeClashes(b, o, t)
          /\ d.ours = At(o, d.id).type /\ d.theirs = At(t, d.id).type
    /\ \A d \in conflicts.suppression :
          /\ d.id \in SuppressionClashes(b, o, t)
          /\ d.ours = At(o, d.id).suppressed /\ d.theirs = At(t, d.id).suppressed

LEMMA ConflictsRecordValues ==
    ASSUME NEW b, NEW o, NEW t, NEW conflicts, conflicts = Conflicts(b, o, t)
    PROVE  ValuesRecorded(b, o, t, conflicts)
<1>1. conflicts.param = {ParamConflict(b, o, t, k[1], k[2]) : k \in ParamClashes(b, o, t)}
    BY DEF Conflicts
<1>2. conflicts.type = {TypeConflict(b, o, t, id) : id \in TypeClashes(b, o, t)}
    BY DEF Conflicts
<1>3. conflicts.suppression
        = {SuppressionConflict(b, o, t, id) : id \in SuppressionClashes(b, o, t)}
    BY DEF Conflicts
<1>4. ASSUME NEW d \in conflicts.param
      PROVE  /\ <<d.id, d.name>> \in ParamClashes(b, o, t)
             /\ d.ours = OrEmpty(Param(At(o, d.id), d.name))
             /\ d.theirs = OrEmpty(Param(At(t, d.id), d.name))
    <2>1. PICK k \in ParamClashes(b, o, t) : d = ParamConflict(b, o, t, k[1], k[2])
        BY <1>1
    <2>2. /\ d.id = k[1] /\ d.name = k[2]
          /\ d.ours = OrEmpty(Param(At(o, k[1]), k[2]))
          /\ d.theirs = OrEmpty(Param(At(t, k[1]), k[2]))
        BY <2>1 DEF ParamConflict
    <2>3. <<k[1], k[2]>> = k
        BY DEF ParamClashes
    <2> QED BY <2>2, <2>3
<1>5. ASSUME NEW d \in conflicts.type
      PROVE  /\ d.id \in TypeClashes(b, o, t)
             /\ d.ours = At(o, d.id).type /\ d.theirs = At(t, d.id).type
    <2>1. PICK id \in TypeClashes(b, o, t) : d = TypeConflict(b, o, t, id)
        BY <1>2
    <2> QED BY <2>1 DEF TypeConflict
<1>6. ASSUME NEW d \in conflicts.suppression
      PROVE  /\ d.id \in SuppressionClashes(b, o, t)
             /\ d.ours = At(o, d.id).suppressed /\ d.theirs = At(t, d.id).suppressed
    <2>1. PICK id \in SuppressionClashes(b, o, t) : d = SuppressionConflict(b, o, t, id)
        BY <1>3
    <2> QED BY <2>1 DEF SuppressionConflict
<1> QED BY <1>4, <1>5, <1>6, Zenon DEF ValuesRecorded

LEMMA PickWinner ==
    ASSUME NEW d, NEW choice \in {"Ours", "Theirs"}, NEW custom, NEW o, NEW t
    PROVE  Pick(d, choice, custom) = Winner(choice, d.ours, d.theirs)
BY DEF Pick, Winner

LEMMA KeysThere ==
    ASSUME NEW conflicts
    PROVE  /\ \A c \in conflicts.param : <<c.id, c.name>> \in Keys(conflicts)
           /\ \A c \in conflicts.type : <<c.id, NoName>> \in Keys(conflicts)
           /\ \A c \in conflicts.suppression : <<c.id, NoName>> \in Keys(conflicts)
           /\ \A i \in DOMAIN conflicts.addRemove :
                 <<conflicts.addRemove[i].id, NoName>> \in Keys(conflicts)
<1>1. ASSUME NEW c \in conflicts.param PROVE <<c.id, c.name>> \in Keys(conflicts)
    BY Zenon DEF Keys
<1>2. ASSUME NEW c \in conflicts.type PROVE <<c.id, NoName>> \in Keys(conflicts)
    BY Zenon DEF Keys
<1>3. ASSUME NEW c \in conflicts.suppression PROVE <<c.id, NoName>> \in Keys(conflicts)
    BY Zenon DEF Keys
<1>4. ASSUME NEW i \in DOMAIN conflicts.addRemove
      PROVE  <<conflicts.addRemove[i].id, NoName>> \in Keys(conflicts)
    <2>1. conflicts.addRemove[i] \in ToSet(conflicts.addRemove)
        BY Zenon DEF ToSet
    <2> QED BY <2>1, Zenon DEF Keys
<1> QED BY <1>1, <1>2, <1>3, <1>4

(* Two lists have the same of a feature. *)
SameOf(l, w, id) ==
    /\ Has(l, id) <=> Has(w, id)
    /\ Has(l, id) => At(l, id) = At(w, id)

(* A feature that one side removed and the other modified. *)
LEMMA ContestedSettled ==
    ASSUME NEW b, NEW o, NEW t, NEW m, NEW conflicts \in ConflictSets,
           AddRemoveSound(b, o, t, conflicts.addRemove),
           NEW chosen, NEW choice \in {"Ours", "Theirs"}, ForOneSide(chosen, conflicts, choice),
           NEW l, SettledAs(m, conflicts, chosen, Len(conflicts.addRemove), l),
           NEW w, w = Winner(choice, o, t), NEW id, Contested(b, o, t, id)
    PROVE  SameOf(l, w, id)
<1>1. PICK list \in Seq(AddRemoves) : list = conflicts.addRemove
    BY DEF AddRemoveSound
<1>2. id \in IdsOf(list)
    BY <1>1, ContestedWhere DEF AddRemoveSound, Has
<1>3. PICK j \in 1..Len(list) : list[j].id = id
    BY <1>2 DEF IdsOf
<1>4. PICK c \in AddRemoves : c = list[j]
    BY <1>1
<1>5. Records(b, o, t, c)
    BY <1>1, <1>4 DEF AddRemoveSound
<1>6. <<id, NoName>> \in Keys(conflicts)
    BY <1>1, <1>3, KeysThere, SMTT(40)
<1>7. Resolved(chosen, id, NoName) /\ chosen[<<id, NoName>>] = choice
    BY <1>6 DEF ForOneSide, Resolved
<1>8. Decided(l, c, choice)
    BY <1>1, <1>3, <1>4, <1>7 DEF SettledAs
<1>9. Has(o, id) <=> ~Has(t, id)
    BY ContestedWhere
<1>10. c.id = id /\ (c.oursRemoved <=> ~Has(o, id)) /\ c.oursRemoved \in BOOLEAN
       /\ c.modified = At(IF Has(o, id) THEN o ELSE t, id)
    BY <1>3, <1>4, <1>5 DEF Records, AddRemoves
<1>11. CASE choice = "Ours"
    <2>1. w = o
        BY <1>11 DEF Winner
    <2>2. CASE Has(o, id)
        <3>1. ~((choice = "Ours") = c.oursRemoved)
            BY <1>10, <1>11, <2>2
        <3>2. Has(l, id) /\ At(l, id) = c.modified
            BY <1>8, <1>10, <1>11, <3>1 DEF Decided
        <3> QED BY <1>10, <2>1, <2>2, <3>2 DEF SameOf
    <2>3. CASE ~Has(o, id)
        <3>1. (choice = "Ours") = c.oursRemoved
            BY <1>10, <1>11, <2>3
        <3>2. ~Has(l, id)
            BY <1>8, <1>10, <1>11, <3>1 DEF Decided
        <3> QED BY <2>1, <2>3, <3>2 DEF SameOf
    <2> QED BY <2>2, <2>3 DEF SameOf
<1>12. CASE choice = "Theirs"
    <2>1. w = t
        BY <1>12 DEF Winner
    <2>2. CASE Has(o, id)
        <3>1. (choice = "Ours") = c.oursRemoved
            BY <1>10, <1>12, <2>2
        <3>2. ~Has(l, id)
            BY <1>8, <1>10, <1>12, <3>1 DEF Decided
        <3> QED BY <1>9, <2>1, <2>2, <3>2 DEF SameOf
    <2>3. CASE ~Has(o, id)
        <3>1. ~((choice = "Ours") = c.oursRemoved)
            BY <1>10, <1>12, <2>3
        <3>2. Has(l, id) /\ At(l, id) = c.modified
            BY <1>8, <1>10, <1>12, <3>1 DEF Decided
        <3> QED BY <1>9, <1>10, <2>1, <2>3, <3>2 DEF SameOf
    <2> QED BY <2>2, <2>3 DEF SameOf
<1> QED BY <1>11, <1>12 DEF SameOf

(* Any other: its contents are resolved, where it is. *)
LEMMA UncontestedSettled ==
    ASSUME NEW b, NEW o, NEW t, NEW m, NEW conflicts \in ConflictSets,
           AddRemoveSound(b, o, t, conflicts.addRemove), NEW chosen,
           NEW l, SettledAs(m, conflicts, chosen, Len(conflicts.addRemove), l),
           NEW id, ~Contested(b, o, t, id)
    PROVE  /\ Has(l, id) <=> Has(m, id)
           /\ Has(m, id) => At(l, id) = ResolvedFeature(At(m, id), conflicts, chosen)
<1>1. PICK list \in Seq(AddRemoves) : list = conflicts.addRemove
    BY DEF AddRemoveSound
<1>2. \A j \in 1..Len(list) : list[j].id # id
    <2>1. IdsOf(list) = {x \in IdsOf(b) : Contested(b, o, t, x)}
        BY <1>1 DEF AddRemoveSound
    <2> QED BY <1>1, <2>1 DEF IdsOf
<1>3. \A j \in 1..Len(conflicts.addRemove) :
          conflicts.addRemove[j].id = id => ~Resolved(chosen, id, NoName)
    BY <1>1, <1>2
<1>4. id \in IdsOf(m) =>
          Has(l, id) /\ At(l, id) = ResolvedFeature(At(m, id), conflicts, chosen)
    BY <1>3, Zenon DEF SettledAs
<1>5. id \in IdsOf(l) => id \in IdsOf(m)
    BY DEF SettledAs
<1> QED BY <1>4, <1>5 DEF Has

LeftAs(b, o, t, f, r, id) ==
    /\ id \notin TypeClashes(b, o, t) => r.type = f.type
    /\ id \notin SuppressionClashes(b, o, t) => r.suppressed = f.suppressed
    /\ \A n \in Names : <<id, n>> \notin ParamClashes(b, o, t) => Param(r, n) = Param(f, n)

(* What is not in conflict is left as it was merged. *)
LEMMA OutOfConflictLeft ==
    ASSUME NEW b, NEW o, NEW t, NEW conflicts \in ConflictSets,
           ValuesRecorded(b, o, t, conflicts), NEW chosen,
           NEW f \in Features, NEW r, ResolvedAs(f, conflicts, chosen, r), NEW id, f.id = id
    PROVE  LeftAs(b, o, t, f, r, id)
<1>1. ASSUME id \notin TypeClashes(b, o, t) PROVE r.type = f.type
    <2>1. Among(conflicts.type, f, chosen) = {}
        BY <1>1 DEF Among, ValuesRecorded
    <2> QED BY <2>1 DEF ResolvedAs
<1>2. ASSUME id \notin SuppressionClashes(b, o, t) PROVE r.suppressed = f.suppressed
    <2>1. Among(conflicts.suppression, f, chosen) = {}
        BY <1>2 DEF Among, ValuesRecorded
    <2> QED BY <2>1, Zenon DEF ResolvedAs
<1>3. ASSUME NEW n \in Names, <<id, n>> \notin ParamClashes(b, o, t)
      PROVE  Param(r, n) = Param(f, n)
    <2>1. \A c \in MineOf(f, conflicts, chosen) : c.name # n
        BY <1>3 DEF MineOf, ValuesRecorded
    <2> QED BY <2>1, Zenon DEF ResolvedAs
<1> QED BY <1>1, <1>2, <1>3, Zenon DEF LeftAs

(* The value of a conflict that the choice picks. *)
LEMMA WinnersValue ==
    ASSUME NEW d, NEW choice \in {"Ours", "Theirs"}, NEW custom, NEW o, NEW t, NEW x, NEW y,
           d.ours = x, d.theirs = y
    PROVE  Pick(d, choice, custom) = Winner(choice, x, y)
BY DEF Pick, Winner

(* What is in conflict is as the chosen side has it, except that a          *)
(* parameter is not taken away.                                             *)
LEMMA InConflictChosen ==
    ASSUME NEW b \in Trees, NEW o \in Trees, NEW t \in Trees, NEW conflicts \in ConflictSets,
           ValuesRecorded(b, o, t, conflicts), Listing(b, o, t, conflicts),
           NEW chosen, NEW choice \in {"Ours", "Theirs"}, ForOneSide(chosen, conflicts, choice),
           NEW f \in Features, NEW r, ResolvedAs(f, conflicts, chosen, r), NEW id, f.id = id,
           NEW w, w = Winner(choice, o, t)
    PROVE  /\ id \in TypeClashes(b, o, t) => r.type = At(w, id).type
           /\ id \in SuppressionClashes(b, o, t) => r.suppressed = At(w, id).suppressed
           /\ \A n \in Names : <<id, n>> \in ParamClashes(b, o, t) =>
                 Param(r, n) = OrEmpty(Param(At(w, id), n))
<1>1. ASSUME id \in TypeClashes(b, o, t) PROVE r.type = At(w, id).type
    <2>1. PICK c \in conflicts.type : c.id = id
        BY <1>1 DEF Listing
    <2>2. <<id, NoName>> \in Keys(conflicts)
        BY <2>1, KeysThere
    <2>3. Resolved(chosen, id, NoName) /\ chosen[<<id, NoName>>] = choice
        BY <2>2 DEF ForOneSide, Resolved
    <2>4. c \in Among(conflicts.type, f, chosen)
        BY <2>1, <2>3 DEF Among
    <2>5. PICK d \in Among(conflicts.type, f, chosen) : r.type = Pick(d, choice, CustomType)
        BY <2>3, <2>4 DEF ResolvedAs
    <2>6. d \in conflicts.type /\ d.id = id
        BY <2>5 DEF Among
    <2>7. PICK x, y : x = At(o, id).type /\ y = At(t, id).type
        OBVIOUS
    <2>8. d.ours = x /\ d.theirs = y
        BY <2>6, <2>7 DEF ValuesRecorded
    <2>9. Pick(d, choice, CustomType) = Winner(choice, x, y)
        BY <2>8, WinnersValue
    <2> QED BY <2>5, <2>7, <2>9 DEF Winner
<1>2. ASSUME id \in SuppressionClashes(b, o, t) PROVE r.suppressed = At(w, id).suppressed
    <2>1. PICK c \in conflicts.suppression : c.id = id
        BY <1>2 DEF Listing
    <2>2. <<id, NoName>> \in Keys(conflicts)
        BY <2>1, KeysThere
    <2>3. Resolved(chosen, id, NoName) /\ chosen[<<id, NoName>>] = choice
        BY <2>2 DEF ForOneSide, Resolved
    <2>4. c \in Among(conflicts.suppression, f, chosen)
        BY <2>1, <2>3 DEF Among
    <2>5. PICK d \in Among(conflicts.suppression, f, chosen) : r.suppressed = Pick(d, choice, TRUE)
        BY <2>3, <2>4, Zenon DEF ResolvedAs
    <2>6. d \in conflicts.suppression /\ d.id = id
        BY <2>5 DEF Among
    <2>7. PICK x, y : x = At(o, id).suppressed /\ y = At(t, id).suppressed
        OBVIOUS
    <2>8. d.ours = x /\ d.theirs = y
        BY <2>6, <2>7, Zenon DEF ValuesRecorded
    <2>9. Pick(d, choice, TRUE) = Winner(choice, x, y)
        <3>1. PICK v : v = TRUE
            OBVIOUS
        <3>2. Pick(d, choice, v) = Winner(choice, x, y)
            BY <2>8, WinnersValue
        <3> QED BY <3>1, <3>2, Zenon
    <2>10. CASE choice = "Ours"
        BY <2>5, <2>7, <2>9, <2>10, Zenon DEF Winner
    <2>11. CASE choice # "Ours"
        BY <2>5, <2>7, <2>9, <2>11, Zenon DEF Winner
    <2> QED BY <2>10, <2>11
<1>3. ASSUME NEW n \in Names, <<id, n>> \in ParamClashes(b, o, t)
      PROVE  Param(r, n) = OrEmpty(Param(At(w, id), n))
    <2>1. PICK c \in conflicts.param : c.id = id /\ c.name = n
        BY <1>3 DEF Listing
    <2>2. <<id, n>> \in Keys(conflicts)
        BY <2>1, KeysThere
    <2>3. Resolved(chosen, id, n) /\ chosen[<<id, n>>] = choice
        BY <2>2 DEF ForOneSide, Resolved
    <2>4. c \in MineOf(f, conflicts, chosen)
        BY <2>1, <2>3 DEF MineOf
    <2>5. PICK d \in MineOf(f, conflicts, chosen) :
              d.name = n /\ Param(r, n) = Pick(d, choice, CustomValue)
        BY <2>1, <2>3, <2>4 DEF ResolvedAs
    <2>6. d \in conflicts.param /\ d.id = id
        BY <2>5 DEF MineOf
    <2>7. PICK x, y : x = OrEmpty(Param(At(o, id), n)) /\ y = OrEmpty(Param(At(t, id), n))
        OBVIOUS
    <2>8. d.ours = x /\ d.theirs = y
        BY <2>5, <2>6, <2>7 DEF ValuesRecorded
    <2>9. Pick(d, choice, CustomValue) = Winner(choice, x, y)
        BY <2>8, WinnersValue
    <2> QED BY <2>5, <2>7, <2>9 DEF Winner
<1> QED BY <1>1, <1>2, <1>3

(* Where a value is in conflict, the merged tree and both sides have the    *)
(* feature.                                                                 *)
LEMMA ClashesMerged ==
    ASSUME NEW b, NEW o, NEW t, NEW m, MergedAs(b, o, t, m), NEW id,
           \/ id \in TypeClashes(b, o, t) \/ id \in SuppressionClashes(b, o, t)
           \/ \E n \in Names : <<id, n>> \in ParamClashes(b, o, t)
    PROVE  Has(m, id) /\ Has(o, id) /\ Has(t, id)
<1>1. InAllThree(b, o, t, id) \/ BothAdded(b, o, t, id)
    <2>1. CASE \E n \in Names : <<id, n>> \in ParamClashes(b, o, t)
        BY <2>1 DEF ParamClashes
    <2> QED BY <2>1 DEF TypeClashes, SuppressionClashes
<1> QED BY <1>1 DEF InAllThree, BothAdded, MergedAs, Survives, Has

(* OutOfReach, of the lists. *)
Unreached(b, o, t, w, id, a) ==
    \/ a \in Names /\ Has(w, id) /\ Aspect(w, id, a) = Unset
    \/ ~Has(b, id) /\ id \in TypeClashes(b, o, t)

SettledFor(b, o, t, m, w, l, id, a) ==
    /\ About(b, o, t, id, a) =>
          Aspect(l, id, a) = Aspect(w, id, a) \/ Unreached(b, o, t, w, id, a)
    /\ ~About(b, o, t, id, a) => Aspect(l, id, a) = Aspect(m, id, a)

(* One aspect of one feature, once all conflicts are resolved for a side. *)
LEMMA AspectSettled ==
    ASSUME NEW b \in Trees, NEW o \in Trees, NEW t \in Trees, NEW m, MergedAs(b, o, t, m),
           NEW conflicts \in ConflictSets, conflicts = Conflicts(b, o, t),
           NEW chosen, NEW choice \in {"Ours", "Theirs"}, ForOneSide(chosen, conflicts, choice),
           NEW l, SettledAs(m, conflicts, chosen, Len(conflicts.addRemove), l),
           NEW w, w = Winner(choice, o, t), NEW id \in Ids, NEW a \in Aspects
    PROVE  SettledFor(b, o, t, m, w, l, id, a)
<1>1. AddRemoveSound(b, o, t, conflicts.addRemove)
    <2>1. conflicts.addRemove = AddRemoveConflicts(b, o, t)
        BY DEF Conflicts
    <2> QED BY <2>1, AddRemoveFacts DEF Trees
<1>2. ValuesRecorded(b, o, t, conflicts) /\ Listing(b, o, t, conflicts)
    BY ConflictsRecordValues, ConflictsListing
<1>3. CASE Contested(b, o, t, id)
    <2>1. SameOf(l, w, id)
        BY <1>1, <1>3, ContestedSettled
    <2>2. Aspect(l, id, a) = Aspect(w, id, a)
        BY <2>1, Zenon DEF Aspect, SameOf
    <2> QED BY <1>3, <2>2 DEF About, SettledFor
<1>4. ASSUME ~Contested(b, o, t, id), ~Has(m, id)
      PROVE  ~About(b, o, t, id, a) /\ Aspect(l, id, a) = Aspect(m, id, a)
    <2>1. ~Has(l, id)
        BY <1>1, <1>4, UncontestedSettled
    <2>2. ~About(b, o, t, id, a)
        BY <1>4, ClashesMerged DEF About
    <2> QED BY <1>4, <2>1, <2>2, AspectOf
<1>5. ASSUME ~Contested(b, o, t, id), Has(m, id)
      PROVE  /\ About(b, o, t, id, a) =>
                 Aspect(l, id, a) = Aspect(w, id, a) \/ Unreached(b, o, t, w, id, a)
             /\ ~About(b, o, t, id, a) => Aspect(l, id, a) = Aspect(m, id, a)
    <2>1. Has(l, id) /\ At(l, id) = ResolvedFeature(At(m, id), conflicts, chosen)
        BY <1>1, <1>5, UncontestedSettled
    <2>2. PICK f \in Features : f = At(m, id) /\ f.id = id
        BY <1>5, Found DEF MergedAs, Has
    <2>3. Choosing(chosen)
        BY DEF ForOneSide, Choosing, ResolveChoices
    <2>4. PICK r : r = At(l, id) /\ ResolvedAs(f, conflicts, chosen, r)
        BY <2>1, <2>2, <2>3, ResolvedFeatureFacts
    <2>5. /\ id \notin TypeClashes(b, o, t) => r.type = f.type
          /\ id \notin SuppressionClashes(b, o, t) => r.suppressed = f.suppressed
          /\ \A n \in Names : <<id, n>> \notin ParamClashes(b, o, t) => Param(r, n) = Param(f, n)
        <3>1. LeftAs(b, o, t, f, r, id)
            BY <1>2, <2>2, <2>4, OutOfConflictLeft
        <3> QED BY <3>1, Zenon DEF LeftAs
    <2>6. /\ id \in TypeClashes(b, o, t) => r.type = At(w, id).type
          /\ id \in SuppressionClashes(b, o, t) => r.suppressed = At(w, id).suppressed
          /\ \A n \in Names : <<id, n>> \in ParamClashes(b, o, t) =>
                Param(r, n) = OrEmpty(Param(At(w, id), n))
        BY <1>2, <2>2, <2>4, InConflictChosen
    <2>7. Aspect(l, id, a) = AspectIn(r, a) /\ Aspect(m, id, a) = AspectIn(f, a)
        BY <1>5, <2>1, <2>2, <2>4, AspectOf
    <2>8. Has(w, id) => Aspect(w, id, a) = AspectIn(At(w, id), a)
        BY AspectOf
    <2>9. CASE ~Has(b, id) /\ id \in TypeClashes(b, o, t)
        BY <1>5, <2>9 DEF About, Unreached
    <2>10. ASSUME ~(~Has(b, id) /\ id \in TypeClashes(b, o, t)), a = "type"
           PROVE  /\ About(b, o, t, id, a) => Aspect(l, id, a) = Aspect(w, id, a)
                  /\ ~About(b, o, t, id, a) => Aspect(l, id, a) = Aspect(m, id, a)
        <3>1. About(b, o, t, id, a) <=> id \in TypeClashes(b, o, t)
            BY <1>5, <2>10, WorkspaceAssumption DEF About
        <3>2. ASSUME id \in TypeClashes(b, o, t) PROVE Aspect(l, id, a) = Aspect(w, id, a)
            <4>1. Has(w, id)
                BY <3>2, ClashesMerged DEF Winner
            <4> QED BY <2>6, <2>7, <2>8, <2>10, <3>2, <4>1 DEF AspectIn
        <3>3. ASSUME id \notin TypeClashes(b, o, t) PROVE Aspect(l, id, a) = Aspect(m, id, a)
            BY <2>5, <2>7, <2>10, <3>3 DEF AspectIn
        <3> QED BY <3>1, <3>2, <3>3
    <2>11. ASSUME ~(~Has(b, id) /\ id \in TypeClashes(b, o, t)), a = "suppressed"
           PROVE  /\ About(b, o, t, id, a) => Aspect(l, id, a) = Aspect(w, id, a)
                  /\ ~About(b, o, t, id, a) => Aspect(l, id, a) = Aspect(m, id, a)
        <3>1. About(b, o, t, id, a) <=> id \in SuppressionClashes(b, o, t)
            BY <1>5, <2>11, WorkspaceAssumption DEF About
        <3>2. ASSUME id \in SuppressionClashes(b, o, t) PROVE Aspect(l, id, a) = Aspect(w, id, a)
            <4>1. Has(w, id)
                BY <3>2, ClashesMerged DEF Winner
            <4>2. Aspect(l, id, a) = ToString(r.suppressed)
                BY <2>7, <2>11 DEF AspectIn
            <4>3. Aspect(w, id, a) = ToString(At(w, id).suppressed)
                BY <2>8, <2>11, <4>1 DEF AspectIn
            <4>4. r.suppressed = At(w, id).suppressed
                BY <2>6, <3>2, Zenon
            <4> QED BY <4>2, <4>3, <4>4, Zenon
        <3>3. ASSUME id \notin SuppressionClashes(b, o, t) PROVE Aspect(l, id, a) = Aspect(m, id, a)
            <4>1. Aspect(l, id, a) = ToString(r.suppressed)
                BY <2>7, <2>11 DEF AspectIn
            <4>2. Aspect(m, id, a) = ToString(f.suppressed)
                BY <2>7, <2>11 DEF AspectIn
            <4>3. r.suppressed = f.suppressed
                BY <2>5, <3>3, Zenon
            <4> QED BY <4>1, <4>2, <4>3, Zenon
        <3> QED BY <3>1, <3>2, <3>3
    <2>12. ASSUME ~(~Has(b, id) /\ id \in TypeClashes(b, o, t)), a \in Names
           PROVE  /\ About(b, o, t, id, a) =>
                       Aspect(l, id, a) = Aspect(w, id, a) \/ Unreached(b, o, t, w, id, a)
                  /\ ~About(b, o, t, id, a) => Aspect(l, id, a) = Aspect(m, id, a)
        <3>1. a # "type" /\ a # "suppressed"
            BY <2>12, WorkspaceAssumption
        <3>2. About(b, o, t, id, a) <=> <<id, a>> \in ParamClashes(b, o, t)
            BY <1>5, <2>12, <3>1 DEF About
        <3>3. ASSUME <<id, a>> \in ParamClashes(b, o, t), Aspect(w, id, a) # Unset
              PROVE  Aspect(l, id, a) = Aspect(w, id, a)
            <4>1. Has(w, id)
                BY <2>12, <3>3, ClashesMerged DEF Winner
            <4>2. Aspect(w, id, a) = Param(At(w, id), a) /\ Aspect(l, id, a) = Param(r, a)
                BY <2>7, <2>8, <3>1, <4>1 DEF AspectIn
            <4>3. Param(r, a) = OrEmpty(Param(At(w, id), a))
                BY <2>6, <2>12, <3>3
            <4> QED BY <3>3, <4>2, <4>3 DEF OrEmpty
        <3>4. ASSUME <<id, a>> \in ParamClashes(b, o, t), Aspect(w, id, a) = Unset
              PROVE  Unreached(b, o, t, w, id, a)
            <4>1. Has(w, id)
                BY <2>12, <3>4, ClashesMerged DEF Winner
            <4> QED BY <2>12, <3>4, <4>1 DEF Unreached
        <3>5. ASSUME <<id, a>> \notin ParamClashes(b, o, t)
              PROVE  Aspect(l, id, a) = Aspect(m, id, a)
            BY <2>5, <2>7, <2>12, <3>1, <3>5 DEF AspectIn
        <3> QED BY <3>2, <3>3, <3>4, <3>5
    <2> QED BY <2>9, <2>10, <2>11, <2>12 DEF Aspects
<1> QED BY <1>3, <1>4, <1>5, Zenon DEF SettledFor

(* The aspects of a feature, of which each change applies or is in conflict. *)
LEMMA SidesDecide ==
    ASSUME NEW b, NEW o, NEW t, NEW m, NEW id, NEW a, AppliesOrConflicts(b, o, t, m, id, a),
           ~About(b, o, t, id, a), NEW w, NEW l, \/ w = o /\ l = t
                                                 \/ w = t /\ l = o
    PROVE  Aspect(m, id, a) = IF Aspect(w, id, a) # Aspect(b, id, a) THEN Aspect(w, id, a)
                              ELSE Aspect(l, id, a)
BY Zenon DEF AppliesOrConflicts

(* What a fresh result and its resolution are. *)
FreshAs(b, o, t, m, c) ==
    /\ b \in Trees /\ o \in Trees /\ t \in Trees /\ MergedAs(b, o, t, m)
    /\ c \in ConflictSets /\ c = Conflicts(b, o, t)
    /\ AddRemoveSound(b, o, t, c.addRemove) /\ Recording(c.addRemove)
    /\ Distinct(c.addRemove) /\ IdsOf(c.addRemove) \subseteq IdsOf(m)

LEMMA FreshResult ==
    ASSUME WInv, Fresh
    PROVE  FreshAs(baseSnapshot, result.ours, result.theirs, result.merged, result.conflicts)
<1>1. result.made /\ ~result.touched
    BY DEF Fresh
<1>2. PICK o \in Trees, t \in Trees, b \in Trees :
          o = result.ours /\ t = result.theirs /\ b = baseSnapshot
    BY <1>1, ResultRecords
<1>3. PICK m : m = result.merged /\ MergedAs(b, o, t, m)
    <2>1. MergedAs(b, o, t, MergedTree(b, o, t))
        BY MergedTreeFacts DEF Trees
    <2>2. result.merged = MergedTree(b, o, t)
        BY <1>1, <1>2 DEF WInv, SoundResult
    <2> QED BY <2>1, <2>2
<1>4. PICK c \in ConflictSets : c = Conflicts(b, o, t) /\ c = result.conflicts
    BY <1>1, <1>2, ResultRecords DEF WInv, SoundResult
<1>5. AddRemoveSound(b, o, t, c.addRemove) /\ Recording(c.addRemove)
    BY <1>1, <1>2, <1>4, ResultRecords
<1>6. Distinct(c.addRemove)
    BY <1>5 DEF AddRemoveSound
<1>7. IdsOf(c.addRemove) \subseteq IdsOf(m)
    <2>1. IdsOf(c.addRemove) = {id \in IdsOf(b) : Contested(b, o, t, id)}
        BY <1>5 DEF AddRemoveSound
    <2>2. \A id : Contested(b, o, t, id) => Survives(b, o, t, id)
        BY ContestedWhere
    <2> QED BY <1>3, <2>1, <2>2 DEF MergedAs
<1> QED BY <1>2, <1>3, <1>4, <1>5, <1>6, <1>7 DEF FreshAs

LEMMA ResolvedResult ==
    ASSUME WInv, Fresh, final.made
    PROVE  /\ final.features \in Trees /\ Choosing(final.chosen)
           /\ SettledAs(result.merged, result.conflicts, final.chosen,
                        Len(result.conflicts.addRemove), final.features)
<1>1. PICK b, o, t, m, c : /\ FreshAs(b, o, t, m, c)
                           /\ m = result.merged /\ c = result.conflicts
    BY FreshResult
<1>2. PICK chosen : chosen = final.chosen /\ Choosing(chosen)
    BY DEF WInv, SoundFinal
<1>3. final.features = ApplyResolutions(m, c, chosen) /\ final.features \in Trees
    BY <1>1, <1>2 DEF WInv, SoundFinal
<1>4. m \in Trees
    BY <1>1 DEF FreshAs, MergedAs, Trees
<1>5. SettledAs(m, c, chosen, Len(c.addRemove), ApplyResolutions(m, c, chosen))
    BY <1>1, <1>2, <1>4, ApplyResolutionsFacts DEF FreshAs
<1> QED BY <1>1, <1>2, <1>3, <1>5

(* Resolving every conflict for one side. *)
LEMMA OneSideDecides ==
    ASSUME WInv, Fresh, final.made, NEW choice \in {"Ours", "Theirs"},
           ForOneSide(final.chosen, result.conflicts, choice),
           NEW winner, NEW loser,
           winner = IF choice = "Ours" THEN result.ours ELSE result.theirs,
           loser = IF choice = "Ours" THEN result.theirs ELSE result.ours,
           NEW id \in Ids, NEW a \in Aspects
    PROVE  \/ Aspect(final.features, id, a) =
                 IF \/ Aspect(winner, id, a) # Aspect(baseSnapshot, id, a)
                    \/ InConflict(id, a)
                 THEN Aspect(winner, id, a) ELSE Aspect(loser, id, a)
           \/ InConflict(id, a) /\ OutOfReach(winner, id, a)
<1>1. PICK b, o, t, m, c :
          /\ FreshAs(b, o, t, m, c) /\ b = baseSnapshot /\ o = result.ours /\ t = result.theirs
          /\ m = result.merged /\ c = result.conflicts
    BY FreshResult
<1>2. PICK l, chosen : /\ l = final.features /\ chosen = final.chosen
                       /\ SettledAs(m, c, chosen, Len(c.addRemove), l)
    BY <1>1, ResolvedResult
<1>3. b \in Trees /\ o \in Trees /\ t \in Trees /\ MergedAs(b, o, t, m)
      /\ c \in ConflictSets /\ c = Conflicts(b, o, t)
    BY <1>1 DEF FreshAs
<1>4. /\ winner = Winner(choice, o, t)
      /\ (winner = o /\ loser = t) \/ (winner = t /\ loser = o)
    BY <1>1 DEF Winner
<1>5. ForOneSide(chosen, c, choice)
    BY <1>1, <1>2
<1>6. /\ About(b, o, t, id, a) =>
            Aspect(l, id, a) = Aspect(winner, id, a) \/ Unreached(b, o, t, winner, id, a)
      /\ ~About(b, o, t, id, a) => Aspect(l, id, a) = Aspect(m, id, a)
    <2>1. SettledFor(b, o, t, m, winner, l, id, a)
        BY <1>2, <1>3, <1>4, <1>5, AspectSettled
    <2> QED BY <2>1, Zenon DEF SettledFor
<1>7. AppliesOrConflicts(b, o, t, m, id, a)
    BY <1>3, CombinedAspect, OtherAspect
<1>8. ~About(b, o, t, id, a) =>
          Aspect(m, id, a) = IF Aspect(winner, id, a) # Aspect(b, id, a)
                             THEN Aspect(winner, id, a) ELSE Aspect(loser, id, a)
    BY <1>4, <1>7, SidesDecide
<1>9. InConflict(id, a) <=> About(b, o, t, id, a)
    BY <1>1, AboutIsInConflict DEF Fresh
<1>10. Unreached(b, o, t, winner, id, a) => OutOfReach(winner, id, a)
    <2>1. id \in TypeClashes(b, o, t) => \E x \in c.type : x.id = id
        <3>1. Listing(b, o, t, c)
            BY <1>3, ConflictsListing
        <3> QED BY <3>1, Zenon DEF Listing
    <2> QED BY <1>1, <2>1, Zenon DEF Unreached, OutOfReach
<1> QED BY <1>1, <1>2, <1>6, <1>8, <1>9, <1>10, Zenon

(* Resolving moves nothing, and leaves what is in no conflict. *)
LEMMA OrderIsKept ==
    ASSUME WInv, Fresh, final.made
    PROVE  /\ Len(final.features) = Len(WithIds(result.merged, IdsOf(final.features)))
           /\ \A i \in DOMAIN WithIds(result.merged, IdsOf(final.features)) :
                 final.features[i].id = WithIds(result.merged, IdsOf(final.features))[i].id
<1>1. PICK b, o, t, m, c : /\ FreshAs(b, o, t, m, c)
                           /\ m = result.merged /\ c = result.conflicts
    BY FreshResult
<1>2. PICK l : l = final.features /\ l \in Trees
               /\ SettledAs(m, c, final.chosen, Len(c.addRemove), l)
    BY <1>1, ResolvedResult
<1>3. PICK ids : ids = IdsOf(l)
    OBVIOUS
<1>4. m \in Seq(Features) /\ Distinct(m)
    BY <1>1 DEF FreshAs, MergedAs
<1>5. PICK left : left = WithIds(m, ids) /\ PickedFrom(Features, m, ids, left)
    BY <1>4, WithIdsFacts
<1>6. IdsOf(left) = ids
    BY <1>2, <1>3, <1>5 DEF PickedFrom, SettledAs
<1>7. ASSUME NEW x \in IdsOf(left), NEW y \in IdsOf(left), IndexOf(left, x) < IndexOf(left, y)
      PROVE  IndexOf(l, x) < IndexOf(l, y)
    <2>1. IndexOf(m, x) < IndexOf(m, y)
        BY <1>5, <1>7 DEF PickedFrom
    <2> QED BY <1>2, <1>3, <1>6, <2>1 DEF SettledAs
<1>8. left \in Seq(Features) /\ Distinct(left) /\ l \in Seq(Features) /\ Distinct(l)
    BY <1>2, <1>5 DEF PickedFrom, Trees
<1>9. Len(left) = Len(l) /\ \A i \in DOMAIN left : left[i].id = l[i].id
    BY <1>3, <1>6, <1>7, <1>8, SameOrder
<1>10. left = WithIds(result.merged, IdsOf(final.features))
    BY <1>1, <1>2, <1>3, <1>5
<1> QED BY <1>2, <1>9, <1>10

LEMMA UnconflictedLeft ==
    ASSUME WInv, Fresh, final.made, NEW f \in ToSet(result.merged), f.id \notin Conflicted
    PROVE  f \in ToSet(final.features)
<1>1. PICK b, o, t, m, c : /\ FreshAs(b, o, t, m, c)
                           /\ m = result.merged /\ c = result.conflicts
    BY FreshResult
<1>2. PICK l, chosen : /\ l = final.features /\ chosen = final.chosen /\ l \in Trees
                       /\ SettledAs(m, c, chosen, Len(c.addRemove), l) /\ Choosing(chosen)
    BY <1>1, ResolvedResult
<1>3. m \in Trees
    BY <1>1 DEF FreshAs, MergedAs, Trees
<1>4. PICK id : id = f.id /\ id \in IdsOf(m) /\ f = At(m, id) /\ f \in Features
    <2>1. f.id \in IdsOf(m) /\ f = At(m, f.id)
        BY <1>1, <1>3, FeaturesOf
    <2>2. f \in Features
        BY <1>3, <2>1, Found DEF Trees
    <2> QED BY <2>1, <2>2
<1>5. \A k \in Keys(c) : k[1] # id
    BY <1>1, <1>4 DEF Conflicted
<1>6. /\ \A x \in c.param : x.id # id
      /\ \A x \in c.type : x.id # id
      /\ \A x \in c.suppression : x.id # id
      /\ \A i \in DOMAIN c.addRemove : c.addRemove[i].id # id
    <2>1. \A x, y : <<x, y>>[1] = x
        OBVIOUS
    <2> QED BY <1>5, <2>1, KeysThere
<1>7. ~Contested(b, o, t, id)
    <2>1. \A i \in DOMAIN c.addRemove : c.addRemove[i].id # id
        BY <1>6
    <2>2. IdsOf(c.addRemove) = {x \in IdsOf(b) : Contested(b, o, t, x)}
        BY <1>1 DEF FreshAs, AddRemoveSound
    <2>3. id \notin IdsOf(c.addRemove)
        BY <2>1 DEF IdsOf
    <2> QED BY <2>2, <2>3, ContestedWhere DEF Has
<1>8. Has(l, id) /\ At(l, id) = ResolvedFeature(f, c, chosen)
    BY <1>1, <1>2, <1>4, <1>7, UncontestedSettled DEF FreshAs, Has
<1>9. PICK r : r = At(l, id) /\ ResolvedAs(f, c, chosen, r)
    BY <1>1, <1>2, <1>4, <1>8, ResolvedFeatureFacts DEF FreshAs
<1>10. MineOf(f, c, chosen) = {}
    BY <1>4, <1>6 DEF MineOf
<1>11. Among(c.type, f, chosen) = {} /\ Among(c.suppression, f, chosen) = {}
    BY <1>4, <1>6 DEF Among
<1>12. r \in Features /\ r.id = f.id /\ r.type = f.type
    BY <1>9, <1>11 DEF ResolvedAs
<1>13. r.suppressed = f.suppressed
    BY <1>9, <1>11, Zenon DEF ResolvedAs
<1>14. \A n \in Names : Param(r, n) = Param(f, n)
    BY <1>9, <1>10 DEF ResolvedAs
<1>15. r.params = f.params
    BY <1>4, <1>12, <1>14, ParamsEqual
<1>16. r = f
    BY <1>4, <1>12, <1>13, <1>15, FeaturesEqual
<1> QED BY <1>2, <1>4, <1>8, <1>9, <1>16, FeaturesOf DEF Has

(* Resolving all conflicts for one side gives each feature that side's value *)
(* of what it changed or was in conflict, and the other side's of the rest;  *)
(* no resolution, of all conflicts or of some, moves a feature or touches    *)
(* one in no conflict (applyResolutions).                                    *)
THEOREM ResolutionsDecideThem == Spec => []ResolutionsDecideConflicts
<1>1. ASSUME WInv, Fresh, final.made, DOMAIN final.chosen = Keys(result.conflicts),
             NEW sides \in {<<"Ours", result.ours, result.theirs>>,
                            <<"Theirs", result.theirs, result.ours>>},
             \A k \in DOMAIN final.chosen : final.chosen[k] = sides[1],
             NEW id \in Ids, NEW a \in Aspects
      PROVE  LET w == Aspect(sides[2], id, a)
                 l == Aspect(sides[3], id, a)
             IN  \/ Aspect(final.features, id, a) =
                       IF w # Aspect(baseSnapshot, id, a) \/ InConflict(id, a) THEN w ELSE l
                 \/ InConflict(id, a) /\ OutOfReach(sides[2], id, a)
    <2>1. PICK choice, winner, loser :
              choice = sides[1] /\ winner = sides[2] /\ loser = sides[3]
        OBVIOUS
    <2>2. /\ choice \in {"Ours", "Theirs"}
          /\ winner = IF choice = "Ours" THEN result.ours ELSE result.theirs
          /\ loser = IF choice = "Ours" THEN result.theirs ELSE result.ours
        BY <1>1, <2>1
    <2>3. ForOneSide(final.chosen, result.conflicts, choice)
        BY <1>1, <2>1 DEF ForOneSide
    <2>4. \/ Aspect(final.features, id, a) =
                 IF \/ Aspect(winner, id, a) # Aspect(baseSnapshot, id, a)
                    \/ InConflict(id, a)
                 THEN Aspect(winner, id, a) ELSE Aspect(loser, id, a)
          \/ InConflict(id, a) /\ OutOfReach(winner, id, a)
        BY <1>1, <2>2, <2>3, OneSideDecides
    <2> QED BY <2>1, <2>4, Zenon
<1>2. WInv => ResolutionsDecide
    BY <1>1, Zenon DEF ResolutionsDecide
<1>3. WInv => ResolvingKeepsOrder
    BY OrderIsKept, UnconflictedLeft, Zenon DEF ResolvingKeepsOrder
<1>4. WInv => ResolutionsDecideConflicts
    BY <1>2, <1>3 DEF ResolutionsDecideConflicts
<1> QED BY <1>4, SpecWInv, PTL

=============================================================================
