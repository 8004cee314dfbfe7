---- MODULE MCWorkspace ----
(* Small instances of Workspace. *)
EXTENDS Workspace

F(id, type, params) == [id |-> id, type |-> type, suppressed |-> FALSE, params |-> params]

OneParam(v) == [n \in Names |-> v]

(* Two and three features of one parameter each *)
Pair   == <<F("a", "box", OneParam("1")), F("b", "box", OneParam("1"))>>
Triple == <<F("a", "box", OneParam("1")), F("b", "box", OneParam("1")), F("c", "box", OneParam("1"))>>
PairOrTriple == {Pair, Triple}

(* A new feature with two contents, and a removed one re-added as another  *)
(* type and without parameters                                             *)
NewOrReadded ==
    {F("d", "box", OneParam("1")), F("d", "sphere", OneParam("2")), F("a", "sphere", <<>>)}

-----------------------------------------------------------------------------
(* Bounds by document: two features with MaxEdits edits of each workspace, *)
(* or three features, of which moves can conflict, with one edit of each   *)
(* workspace and MaxMergedEdits of a merged tree.                          *)
VARIABLE opened   \* the number of features the document was opened with

MergeInit == Init /\ opened = Len(main)

MergeNext ==
    \/ EditMain /\ UNCHANGED opened /\ (opened = 3 => edits.main = 0)
    \/ EditBranch /\ UNCHANGED opened /\ (opened = 3 => edits.branch = 0)
    \/ EditMerged /\ UNCHANGED opened /\ opened = 3
    \/ ThreeWayMerge /\ UNCHANGED opened
    \/ Resolve /\ UNCHANGED opened
    \/ ForkAgain /\ UNCHANGED opened

MergeSpec == MergeInit /\ [][MergeNext]_<<vars, opened>>
=============================================================================
