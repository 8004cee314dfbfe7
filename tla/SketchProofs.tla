----------------------------- MODULE SketchProofs ----------------------------
(***************************************************************************)
(* Theorems about the sketch handle of the C interface, for every sketch,  *)
(* every order of its edits and solves and every domain of values: public  *)
(* ids go on naming what they named, into a solve, out of its result and   *)
(* across removals; and what a solve leaves in the slots meets what it     *)
(* was asked for.                                                          *)
(***************************************************************************)
EXTENDS SketchSlots, Recursion, FiniteSetTheorems, SequenceTheorems

-----------------------------------------------------------------------------
(* Numbers in their order: each has as many before it as its place says.    *)
Before(ids, id) == Cardinality({j \in ids : j < id})

LEMMA CountsAre ==
    ASSUME NEW S, IsFiniteSet(S), NEW T, T \subseteq S
    PROVE  /\ IsFiniteSet(T) /\ Cardinality(T) \in Nat /\ Cardinality(S) \in Nat
           /\ Cardinality(T) <= Cardinality(S)
           /\ T # S => Cardinality(T) < Cardinality(S)
<1>1. IsFiniteSet(T) /\ Cardinality(T) <= Cardinality(S) /\ (Cardinality(S) = Cardinality(T) => S = T)
    BY FS_Subset
<1>2. Cardinality(T) \in Nat /\ Cardinality(S) \in Nat
    BY <1>1, FS_CardinalityType
<1> QED BY <1>1, <1>2

LEMMA BeforeGrows ==
    ASSUME NEW ids, IsFiniteSet(ids), ids \subseteq Nat, NEW a \in ids, NEW b \in Nat, a < b
    PROVE  /\ Before(ids, a) \in Nat /\ Before(ids, b) \in Nat /\ Before(ids, a) < Before(ids, b)
           /\ Before(ids, a) < Cardinality(ids)
<1> DEFINE A == {j \in ids : j < a}
           B == {j \in ids : j < b}
<1>1. A \subseteq B /\ A # B /\ B \subseteq ids /\ A # ids
    <2>1. a \in B /\ a \notin A
        OBVIOUS
    <2>2. \A j \in ids : j < a => j < b
        OBVIOUS
    <2> QED BY <2>1, <2>2
<1>2. Before(ids, a) = Cardinality(A) /\ Before(ids, b) = Cardinality(B)
    BY DEF Before
<1> HIDE DEF A, B
<1>3. IsFiniteSet(B) /\ Cardinality(B) \in Nat
    BY <1>1, CountsAre
<1>4. Cardinality(A) \in Nat /\ Cardinality(A) < Cardinality(B)
    BY <1>1, <1>3, CountsAre
<1>5. A \subseteq ids /\ Cardinality(A) < Cardinality(ids)
    <2>1. A \subseteq ids
        BY <1>1
    <2> QED BY <1>1, <2>1, CountsAre
<1> QED BY <1>2, <1>3, <1>4, <1>5

(* Each place up to the last has its number. *)
LEMMA PlaceIsTaken ==
    ASSUME NEW top \in Nat, NEW ids, ids \subseteq 0..(top - 1), NEW k \in Nat, k < Cardinality(ids)
    PROVE  \E id \in ids : Before(ids, id) = k
<1>1. IsFiniteSet(ids) /\ ids \subseteq Nat
    <2>1. IsFiniteSet(0..(top - 1))
        BY FS_Interval
    <2>2. IsFiniteSet(ids)
        BY <2>1, FS_Subset
    <2>3. ids \subseteq Nat
        OBVIOUS
    <2> QED BY <2>2, <2>3
<1>2. \A n \in Nat : Before(ids, n) \in Nat
    <2> SUFFICES ASSUME NEW n \in Nat PROVE Before(ids, n) \in Nat
        OBVIOUS
    <2>1. {j \in ids : j < n} \subseteq ids
        OBVIOUS
    <2> QED BY <1>1, <2>1, CountsAre DEF Before
<1> DEFINE Far == {n \in Nat : Before(ids, n) > k}
<1>3. top \in Far
    <2>1. \A j \in ids : j < top
        OBVIOUS
    <2>2. {j \in ids : j < top} = ids
        BY <2>1, Zenon
    <2>3. Before(ids, top) = Cardinality(ids)
        BY <2>2 DEF Before
    <2> QED BY <1>2, <2>3
<1>4. PICK n \in Far : \A m \in Far : n <= m
    <2>1. Far \in SUBSET Nat /\ Far # {}
        BY <1>3
    <2> HIDE DEF Far
    <2> QED BY <2>1, LeastExists
<1>5. n # 0
    <2>1. \A j \in ids : ~(j < 0)
        BY <1>1
    <2>4. {j \in ids : j < 0} = {}
        BY <2>1, Zenon
    <2>2. Before(ids, 0) = 0
        BY <2>4, FS_EmptySet DEF Before
    <2> QED BY <2>2
<1>6. PICK m \in Nat : n = m + 1
    BY <1>5
<1>7. Before(ids, m) <= k
    <2>1. m \notin Far
        BY <1>4, <1>6
    <2> QED BY <1>2, <2>1
<1>8. {j \in ids : j < n} = {j \in ids : j < m} \cup {j \in ids : j = m}
    <2>1. \A j \in ids : j < n <=> j < m \/ j = m
        BY <1>1, <1>6
    <2> QED BY <2>1
<1>9. m \in ids
    <2> SUFFICES ASSUME m \notin ids PROVE FALSE
        OBVIOUS
    <2>1. {j \in ids : j = m} = {}
        OBVIOUS
    <2>2. Before(ids, n) = Before(ids, m)
        BY <1>8, <2>1 DEF Before
    <2> QED BY <1>2, <1>4, <1>7, <2>2
<1>10. Before(ids, n) = Before(ids, m) + 1
    <2> DEFINE A == {j \in ids : j < m}
    <2>1. A \subseteq ids /\ m \notin A
        BY <1>1
    <2>2. {j \in ids : j < n} = A \cup {m}
        BY <1>8, <1>9
    <2>3. Before(ids, n) = Cardinality(A \cup {m}) /\ Before(ids, m) = Cardinality(A)
        BY <2>2 DEF Before
    <2> HIDE DEF A
    <2>4. IsFiniteSet(A)
        BY <1>1, <2>1, CountsAre
    <2> QED BY <2>1, <2>3, <2>4, FS_AddElement
<1>11. Before(ids, m) = k
    BY <1>2, <1>4, <1>7, <1>10
<1> QED BY <1>9, <1>11

LEMMA InOrderIs ==
    ASSUME NEW top \in Nat, NEW ids, ids \subseteq 0..(top - 1)
    PROVE  /\ Cardinality(ids) \in Nat
           /\ \A id \in ids : Before(ids, id) \in 0..(Cardinality(ids) - 1)
                              /\ InOrder(ids)[Before(ids, id) + 1] = id
           /\ \A k \in 1..Cardinality(ids) : InOrder(ids)[k] \in ids
                              /\ Before(ids, InOrder(ids)[k]) = k - 1
<1>1. IsFiniteSet(ids) /\ ids \subseteq Nat
    <2>1. IsFiniteSet(0..(top - 1))
        BY FS_Interval
    <2>2. IsFiniteSet(ids)
        BY <2>1, FS_Subset
    <2>3. ids \subseteq Nat
        OBVIOUS
    <2> QED BY <2>2, <2>3
<1>2. PICK many \in Nat : many = Cardinality(ids)
    BY <1>1, FS_CardinalityType
<1>3. ASSUME NEW k \in 1..many
      PROVE  InOrder(ids)[k] \in ids /\ Before(ids, InOrder(ids)[k]) = k - 1
    <2>1. InOrder(ids)[k] = CHOOSE id \in ids : Before(ids, id) = k - 1
        BY <1>2 DEF InOrder, Before
    <2>2. k - 1 \in Nat /\ k - 1 < Cardinality(ids)
        BY <1>2
    <2>3. \E id \in ids : Before(ids, id) = k - 1
        BY <2>2, PlaceIsTaken
    <2> QED BY <2>1, <2>3, Zenon
<1>4. ASSUME NEW id \in ids
      PROVE  Before(ids, id) \in 0..(many - 1) /\ InOrder(ids)[Before(ids, id) + 1] = id
    <2>1. id \in Nat /\ id + 1 \in Nat /\ id < id + 1
        BY <1>1
    <2>2. PICK b \in Nat : b = Before(ids, id) /\ b < many
        BY <1>1, <1>2, <2>1, BeforeGrows
    <2>3. PICK other : other = InOrder(ids)[b + 1]
        OBVIOUS
    <2>4. other \in ids /\ Before(ids, other) = b
        <3>1. b + 1 \in 1..many /\ (b + 1) - 1 = b
            BY <2>2
        <3> QED BY <1>3, <2>3, <3>1
    <2>5. other = id
        <3>1. other \in Nat
            BY <1>1, <2>4
        <3>2. ~(other < id)
            <4> SUFFICES ASSUME other < id PROVE FALSE
                OBVIOUS
            <4>1. Before(ids, other) < Before(ids, id)
                BY <1>1, <2>1, <2>4, BeforeGrows
            <4> QED BY <2>2, <2>4, <4>1
        <3>3. ~(id < other)
            <4> SUFFICES ASSUME id < other PROVE FALSE
                OBVIOUS
            <4>1. Before(ids, id) < Before(ids, other)
                BY <1>1, <2>4, <3>1, BeforeGrows
            <4> QED BY <2>2, <2>4, <4>1
        <3> QED BY <2>1, <3>1, <3>2, <3>3
    <2> QED BY <2>2, <2>3, <2>5
<1> QED BY <1>2, <1>3, <1>4

-----------------------------------------------------------------------------
LEMMA SeqWidens ==
    ASSUME NEW S, NEW W, S \subseteq W, NEW s \in Seq(S)
    PROVE  s \in Seq(W)
OBVIOUS

-----------------------------------------------------------------------------
(* What a solver constraint acts on.                                        *)

\* An operand is a constant or one of some unknowns.
Fine(p, known) == IsUnknown(p) => p \in known
Only(operands, known) == \E S : operands \in Seq(S) /\ \A p \in S : Fine(p, known)

PointIn(pt, known) == X(pt) \in known /\ Y(pt) \in known
LineIn(l, known)   == PointIn(Pt(l, "p1"), known) /\ PointIn(Pt(l, "p2"), known)
CurveIn(c, known)  == PointIn(Center(c), known) /\ Rad(c) \in known

\* A solver constraint with its tag; an equation has two sides.
PostedRow(kind, operands, tag) == [kind |-> kind, params |-> operands, tag |-> tag]
RowFits(row, tag, known) ==
    \E kind, operands : /\ row = PostedRow(kind, operands, tag)
                        /\ Only(operands, known)
                        /\ kind = "Equal" => Len(operands) = 2
RowsFit(rows, tag, known) == \E S : rows \in Seq(S) /\ \A row \in S : RowFits(row, tag, known)

LEMMA ConstantsAreFine == ASSUME NEW v, NEW known PROVE Fine(Const(v), known)
BY DEF Fine, Const, IsUnknown

LEMMA KnownAreFine == ASSUME NEW known, NEW p \in known PROVE Fine(p, known)
BY DEF Fine

LEMMA OnlyJoins ==
    ASSUME NEW known, NEW a, NEW b, Only(a, known), Only(b, known)
    PROVE  Only(a \o b, known)
<1>1. PICK S : a \in Seq(S) /\ \A p \in S : Fine(p, known)
    BY Zenon DEF Only
<1>2. PICK W : b \in Seq(W) /\ \A p \in W : Fine(p, known)
    BY Zenon DEF Only
<1>3. PICK U : U = S \cup W
    OBVIOUS
<1>4. a \in Seq(U) /\ b \in Seq(U)
    <2>1. S \subseteq U /\ W \subseteq U
        BY <1>3
    <2> QED BY <1>1, <1>2, <2>1, SeqWidens
<1>5. a \o b \in Seq(U)
    BY <1>4
<1>6. \A p \in U : Fine(p, known)
    BY <1>1, <1>2, <1>3
<1> QED BY <1>5, <1>6, Zenon DEF Only

LEMMA OnlyOne ==
    ASSUME NEW known, NEW p, Fine(p, known)
    PROVE  Only(<<p>>, known)
<1>0. PICK S : S = {p}
    OBVIOUS
<1>1. <<p>> \in Seq(S)
    BY <1>0
<1>3. \A q \in S : Fine(q, known)
    BY <1>0
<1> QED BY <1>1, <1>3, Zenon DEF Only

LEMMA OnlyTwo ==
    ASSUME NEW known, NEW p, NEW q, Fine(p, known), Fine(q, known)
    PROVE  Only(<<p, q>>, known) /\ Len(<<p, q>>) = 2
<1>0. PICK S : S = {p, q}
    OBVIOUS
<1>1. <<p, q>> \in Seq(S)
    BY <1>0
<1>3. \A x \in S : Fine(x, known)
    BY <1>0
<1>2. Len(<<p, q>>) = 2
    OBVIOUS
<1> QED BY <1>1, <1>2, <1>3, Zenon DEF Only

LEMMA OnlyThree ==
    ASSUME NEW known, NEW p, NEW q, NEW r, Fine(p, known), Fine(q, known), Fine(r, known)
    PROVE  Only(<<p, q, r>>, known)
<1>0. PICK S : S = {p, q, r}
    OBVIOUS
<1>1. <<p, q, r>> \in Seq(S)
    BY <1>0
<1>3. \A x \in S : Fine(x, known)
    BY <1>0
<1> QED BY <1>1, <1>3, Zenon DEF Only

LEMMA OnlyFour ==
    ASSUME NEW known, NEW p, NEW q, NEW r, NEW s,
           Fine(p, known), Fine(q, known), Fine(r, known), Fine(s, known)
    PROVE  Only(<<p, q, r, s>>, known)
<1>0. PICK S : S = {p, q, r, s}
    OBVIOUS
<1>1. <<p, q, r, s>> \in Seq(S)
    BY <1>0
<1>3. \A x \in S : Fine(x, known)
    BY <1>0
<1> QED BY <1>1, <1>3, Zenon DEF Only

LEMMA OnlyCoords ==
    ASSUME NEW known, NEW pt, PointIn(pt, known)
    PROVE  Only(Coords(pt), known)
<1>1. Fine(X(pt), known) /\ Fine(Y(pt), known)
    BY KnownAreFine, Zenon DEF PointIn
<1> QED BY <1>1, OnlyTwo, Zenon DEF Coords

LEMMA OnlyEnds ==
    ASSUME NEW known, NEW l, LineIn(l, known)
    PROVE  Only(Ends(l), known)
<1>1. PointIn(Pt(l, "p1"), known) /\ PointIn(Pt(l, "p2"), known)
    BY Zenon DEF LineIn
<1>2. Only(Coords(Pt(l, "p1")), known) /\ Only(Coords(Pt(l, "p2")), known)
    BY <1>1, OnlyCoords, Zenon
<1> QED BY <1>2, OnlyJoins, Zenon DEF Ends

LEMMA BasicFits ==
    ASSUME NEW known, NEW kind, NEW operands, NEW tag, Only(operands, known),
           kind = "Equal" => Len(operands) = 2
    PROVE  RowsFit(Basic(kind, operands, tag), tag, known)
<1>1. PICK row : row = PostedRow(kind, operands, tag)
    OBVIOUS
<1>2. RowFits(row, tag, known)
    BY <1>1, Zenon DEF RowFits
<1>3. Basic(kind, operands, tag) = <<row>>
    BY <1>1, Zenon DEF Basic, PostedRow
<1>6. PICK S : S = {row}
    OBVIOUS
<1>4. <<row>> \in Seq(S)
    BY <1>6
<1>5. \A r \in S : RowFits(r, tag, known)
    BY <1>2, <1>6
<1> QED BY <1>3, <1>4, <1>5, Zenon DEF RowsFit

LEMMA NoRowsFit == ASSUME NEW known, NEW tag PROVE RowsFit(<<>>, tag, known)
<1>0. PICK S : S = {}
    OBVIOUS
<1>1. <<>> \in Seq(S)
    BY <1>0
<1>3. \A r \in S : RowFits(r, tag, known)
    BY <1>0
<1> QED BY <1>1, <1>3, Zenon DEF RowsFit

LEMMA RowsJoin ==
    ASSUME NEW known, NEW tag, NEW a, NEW b, RowsFit(a, tag, known), RowsFit(b, tag, known)
    PROVE  RowsFit(a \o b, tag, known)
<1>1. PICK S : a \in Seq(S) /\ \A r \in S : RowFits(r, tag, known)
    BY Zenon DEF RowsFit
<1>2. PICK W : b \in Seq(W) /\ \A r \in W : RowFits(r, tag, known)
    BY Zenon DEF RowsFit
<1>3. PICK U : U = S \cup W
    OBVIOUS
<1>4. a \in Seq(U) /\ b \in Seq(U)
    <2>1. S \subseteq U /\ W \subseteq U
        BY <1>3
    <2> QED BY <1>1, <1>2, <2>1, SeqWidens
<1>5. a \o b \in Seq(U)
    BY <1>4
<1>6. \A r \in U : RowFits(r, tag, known)
    BY <1>1, <1>2, <1>3
<1> QED BY <1>5, <1>6, Zenon DEF RowsFit

LEMMA EqualFits ==
    ASSUME NEW known, NEW p, NEW q, NEW tag, Fine(p, known), Fine(q, known)
    PROVE  RowsFit(Equal(p, q, tag), tag, known)
<1>1. Only(<<p, q>>, known) /\ Len(<<p, q>>) = 2
    BY OnlyTwo
<1> QED BY <1>1, BasicFits, Zenon DEF Equal

LEMMA PointEquationsFit ==
    ASSUME NEW known, NEW p, NEW q, NEW tag, PointIn(p, known), PointIn(q, known)
    PROVE  RowsFit(P2PCoincident(p, q, tag), tag, known)
<1>1. /\ Fine(X(p), known) /\ Fine(X(q), known)
      /\ Fine(Y(p), known) /\ Fine(Y(q), known)
    BY KnownAreFine, Zenon DEF PointIn
<1>2. RowsFit(Equal(X(p), X(q), tag), tag, known) /\ RowsFit(Equal(Y(p), Y(q), tag), tag, known)
    BY <1>1, EqualFits
<1> QED BY <1>2, RowsJoin, Zenon DEF P2PCoincident

LEMMA DistancesFit ==
    ASSUME NEW known, NEW p, NEW d, NEW tag, PointIn(p, known), Fine(d, known)
    PROVE  /\ \A q : PointIn(q, known) => RowsFit(P2PDistance(p, q, d, tag), tag, known)
           /\ \A l : LineIn(l, known) => RowsFit(P2LDistance(p, l, d, tag), tag, known)
           /\ \A l : LineIn(l, known) => RowsFit(PointOnLine(p, l, tag), tag, known)
<1>1. Only(Coords(p), known) /\ Only(<<d>>, known)
    BY OnlyCoords, OnlyOne
<1>2. ASSUME NEW q, PointIn(q, known)
      PROVE  RowsFit(P2PDistance(p, q, d, tag), tag, known)
    <2>1. Only(Coords(p) \o Coords(q) \o <<d>>, known)
        BY <1>1, <1>2, OnlyCoords, OnlyJoins
    <2> QED BY <2>1, BasicFits DEF P2PDistance
<1>3. ASSUME NEW l, LineIn(l, known)
      PROVE  /\ RowsFit(P2LDistance(p, l, d, tag), tag, known)
             /\ RowsFit(PointOnLine(p, l, tag), tag, known)
    <2>1. Only(Coords(p) \o Ends(l), known)
        BY <1>1, <1>3, OnlyEnds, OnlyJoins
    <2>2. Only(Coords(p) \o Ends(l) \o <<d>>, known)
        BY <1>1, <2>1, OnlyJoins
    <2> QED BY <2>1, <2>2, BasicFits DEF P2LDistance, PointOnLine
<1> QED BY <1>2, <1>3

LEMMA LineRowsFit ==
    ASSUME NEW known, NEW l, NEW k, NEW tag, LineIn(l, known), LineIn(k, known)
    PROVE  /\ \A kind : kind # "Equal" => RowsFit(Basic(kind, Ends(l) \o Ends(k), tag), tag, known)
           /\ \A kind, v : kind # "Equal" =>
                 RowsFit(Basic(kind, Ends(l) \o Ends(k) \o <<Const(v)>>, tag), tag, known)
           /\ RowsFit(Horizontal(l, tag), tag, known)
           /\ RowsFit(Vertical(l, tag), tag, known)
           /\ RowsFit(PointOnLine(Pt(k, "p1"), l, tag), tag, known)
<1>1. Only(Ends(l) \o Ends(k), known)
    BY OnlyEnds, OnlyJoins
<1>2. ASSUME NEW v PROVE Only(Ends(l) \o Ends(k) \o <<Const(v)>>, known)
    <2>1. Only(<<Const(v)>>, known)
        BY ConstantsAreFine, OnlyOne
    <2> QED BY <1>1, <2>1, OnlyJoins
<1>3. PointIn(Pt(l, "p1"), known) /\ PointIn(Pt(l, "p2"), known) /\ PointIn(Pt(k, "p1"), known)
    BY Zenon DEF LineIn
<1>4. /\ Fine(X(Pt(l, "p1")), known) /\ Fine(X(Pt(l, "p2")), known)
      /\ Fine(Y(Pt(l, "p1")), known) /\ Fine(Y(Pt(l, "p2")), known)
    BY <1>3, KnownAreFine, Zenon DEF PointIn
<1>5. RowsFit(Horizontal(l, tag), tag, known) /\ RowsFit(Vertical(l, tag), tag, known)
    BY <1>4, EqualFits, Zenon DEF Horizontal, Vertical
<1>6. RowsFit(PointOnLine(Pt(k, "p1"), l, tag), tag, known)
    <2>1. Fine(Const(0), known)
        BY ConstantsAreFine
    <2> QED BY <1>3, <2>1, DistancesFit
<1>7. ASSUME NEW kind, kind # "Equal"
      PROVE  RowsFit(Basic(kind, Ends(l) \o Ends(k), tag), tag, known)
    BY <1>1, <1>7, BasicFits
<1>8. ASSUME NEW kind, NEW v, kind # "Equal"
      PROVE  RowsFit(Basic(kind, Ends(l) \o Ends(k) \o <<Const(v)>>, tag), tag, known)
    BY <1>2, <1>8, BasicFits
<1> QED BY <1>5, <1>6, <1>7, <1>8

LEMMA SymmetryFits ==
    ASSUME NEW known, NEW p, NEW q, NEW l, NEW tag,
           PointIn(p, known), PointIn(q, known), LineIn(l, known)
    PROVE  RowsFit(P2PSymmetric(p, q, l, tag), tag, known)
<1>1. Only(Coords(p) \o Coords(q) \o Ends(l), known)
    BY OnlyCoords, OnlyEnds, OnlyJoins
<1>2. /\ RowsFit(Basic("Perpendicular", Coords(p) \o Coords(q) \o Ends(l), tag), tag, known)
      /\ RowsFit(Basic("MidpointOnLine", Coords(p) \o Coords(q) \o Ends(l), tag), tag, known)
    BY <1>1, BasicFits
<1> QED BY <1>2, RowsJoin, Zenon DEF P2PSymmetric

LEMMA CurveRowsFit ==
    ASSUME NEW known, NEW c, NEW tag, CurveIn(c, known)
    PROVE  /\ \A p : PointIn(p, known) => RowsFit(PointOnCurve(p, c, tag), tag, known)
           /\ \A l : LineIn(l, known) => RowsFit(TangentLine(l, c, tag), tag, known)
           /\ \A d, vals : CurveIn(d, known) => RowsFit(TangentCurves(c, d, vals, tag), tag, known)
           /\ \A v : RowsFit(Radius(c, v, tag), tag, known)
           /\ \A d : CurveIn(d, known) => RowsFit(EqualRadius(c, d, tag), tag, known)
<1>1. Fine(Rad(c), known) /\ PointIn(Center(c), known)
    BY KnownAreFine, Zenon DEF CurveIn
<1>2. ASSUME NEW p, PointIn(p, known) PROVE RowsFit(PointOnCurve(p, c, tag), tag, known)
    <2>1. RowsFit(P2PDistance(p, Center(c), Rad(c), tag), tag, known)
        BY <1>1, <1>2, DistancesFit
    <2> QED BY <2>1, Zenon DEF PointOnCurve
<1>3. ASSUME NEW l, LineIn(l, known) PROVE RowsFit(TangentLine(l, c, tag), tag, known)
    <2>1. RowsFit(P2LDistance(Center(c), l, Rad(c), tag), tag, known)
        BY <1>1, <1>3, DistancesFit
    <2> QED BY <2>1, Zenon DEF TangentLine
<1>4. ASSUME NEW d, NEW vals, CurveIn(d, known)
      PROVE  RowsFit(TangentCurves(c, d, vals, tag), tag, known)
    <2>1. Fine(Rad(d), known) /\ PointIn(Center(d), known)
        BY <1>4, KnownAreFine, Zenon DEF CurveIn
    <2>2. PICK inside : TangentCurves(c, d, vals, tag) =
                Basic("TangentCircumf", Coords(Center(c)) \o Coords(Center(d))
                                        \o <<Rad(c), Rad(d), Const(inside)>>, tag)
        BY Zenon DEF TangentCurves
    <2>3. Only(<<Rad(c), Rad(d), Const(inside)>>, known)
        BY <1>1, <2>1, ConstantsAreFine, OnlyThree
    <2>4. Only(Coords(Center(c)) \o Coords(Center(d)) \o <<Rad(c), Rad(d), Const(inside)>>, known)
        BY <1>1, <2>1, <2>3, OnlyCoords, OnlyJoins
    <2> QED BY <2>2, <2>4, BasicFits
<1>5. ASSUME NEW v PROVE RowsFit(Radius(c, v, tag), tag, known)
    BY <1>1, ConstantsAreFine, EqualFits, Zenon DEF Radius
<1>6. ASSUME NEW d, CurveIn(d, known) PROVE RowsFit(EqualRadius(c, d, tag), tag, known)
    <2>1. Fine(Rad(d), known)
        BY <1>6, KnownAreFine, Zenon DEF CurveIn
    <2> QED BY <1>1, <2>1, EqualFits, Zenon DEF EqualRadius
<1> QED BY <1>2, <1>3, <1>4, <1>5, <1>6

-----------------------------------------------------------------------------
LEMMA SchemasAre ==
    /\ \A type \in PointTypes : ConstraintSchemaFor(type) = Unvalued("Point", "Point", "None")
    /\ ConstraintSchemaFor("Symmetric") = Unvalued("Point", "Point", "Line")
    /\ \A type \in {"PointOnLine", "PointToLineDistance"} :
          ConstraintSchemaFor(type) = Unvalued("Point", "Line", "None")
    /\ \A type \in {"PointOnCircle", "PointToCircleDistance"} :
          ConstraintSchemaFor(type) = Unvalued("Point", "Circle", "None")
    /\ ConstraintSchemaFor("PointOnArc") = Unvalued("Point", "Arc", "None")
    /\ ConstraintSchemaFor("CircleToLineDistance") = Unvalued("Circle", "Line", "None")
    /\ \A type \in LineTypes : ConstraintSchemaFor(type) = Unvalued("Line", "Line", "None")
    /\ \A type \in {"Horizontal", "Vertical"} :
          ConstraintSchemaFor(type) = Unvalued("Line", "None", "None")
    /\ ConstraintSchemaFor("Tangent") = Unvalued("AnyCurve", "AnyCurve", "None")
    /\ ConstraintSchemaFor("TangentLineArc") = Unvalued("Line", "Arc", "None")
    /\ ConstraintSchemaFor("TangentArcArc") = Unvalued("Arc", "Arc", "None")
    /\ \A type \in {"TangentCircleCircle", "EqualRadius", "Concentric"} :
          ConstraintSchemaFor(type) = Unvalued("Circle", "Circle", "None")
    /\ ConstraintSchemaFor("TangentLineCircle") = Unvalued("Line", "Circle", "None")
    /\ \A type \in {"TangentCircleArc", "EqualRadiusCircleArc"} :
          ConstraintSchemaFor(type) = Unvalued("Circle", "Arc", "None")
    /\ \A type \in {"Radius", "CircleDiameter"} :
          ConstraintSchemaFor(type) = Positive("CircleOrArc", "None", "None")
    /\ ConstraintSchemaFor("ArcLength") = Positive("Arc", "None", "None")
    /\ \A type \in {"Fixed", "CoordinateX", "CoordinateY"} :
          ConstraintSchemaFor(type) = Unvalued("Point", "None", "None")
BY DEF ConstraintSchemaFor, PointTypes, LineTypes

LEMMA SchemaEntities ==
    ASSUME NEW a, NEW b, NEW c
    PROVE  /\ Unvalued(a, b, c).e[1] = a /\ Unvalued(a, b, c).e[2] = b /\ Unvalued(a, b, c).e[3] = c
           /\ Positive(a, b, c).e[1] = a /\ Positive(a, b, c).e[2] = b /\ Positive(a, b, c).e[3] = c
BY DEF Unvalued, Positive

LEMMA MembersAre ==
    /\ \A fam \in Families : Members(fam) = <<fam>> /\ ToSet(Members(fam)) = {fam}
    /\ ToSet(Members("AnyCurve")) = {"Line", "Circle", "Arc"}
    /\ ToSet(Members("CircleOrArc")) = {"Circle", "Arc"}
    /\ ToSet(Members("None")) = {}
<1>1. \A fam \in Families : Members(fam) = <<fam>>
    BY DEF Members, Families
<1>2. /\ Members("AnyCurve") = <<"Line", "Circle", "Arc">>
      /\ Members("CircleOrArc") = <<"Circle", "Arc">> /\ Members("None") = <<>>
    BY DEF Members
<1>3. ASSUME NEW x, NEW y, NEW z
      PROVE  ToSet(<<x>>) = {x} /\ ToSet(<<x, y>>) = {x, y} /\ ToSet(<<x, y, z>>) = {x, y, z}
    BY DEF ToSet
<1>4. ToSet(<<>>) = {}
    BY DEF ToSet
<1>5. /\ ToSet(Members("AnyCurve")) = {"Line", "Circle", "Arc"}
      /\ ToSet(Members("CircleOrArc")) = {"Circle", "Arc"} /\ ToSet(Members("None")) = {}
    <2>1. ToSet(<<"Line", "Circle", "Arc">>) = {"Line", "Circle", "Arc"}
        BY DEF ToSet
    <2>2. ToSet(<<"Circle", "Arc">>) = {"Circle", "Arc"}
        BY DEF ToSet
    <2> QED BY <1>2, <1>4, <2>1, <2>2
<1>6. \A fam \in Families : ToSet(Members(fam)) = {fam}
    BY <1>1, <1>3, Zenon
<1> QED BY <1>1, <1>5, <1>6, Zenon

(* What a constraint of a live sketch may act on: the entities it names.    *)
Reaches(c, n, k, fam) ==
    /\ fam \in Families /\ fam \in ToSet(Members(ConstraintSchemaFor(c.type).e[k]))
    /\ c.e[k] \in 0..(n[fam] - 1)

Targets(c, n) ==
    UNION {UNION {Parameters(fam, c.e[k]) : fam \in {f \in Families : Reaches(c, n, k, f)}} : k \in 1..3}

SmallConstraint(c, n) ==
    /\ c.type \in ConstraintTypes /\ c.e \in [1..3 -> Int] /\ n \in [Families -> Nat]
    /\ ~BadConstraint(c, n)

LEMMA ReachedAreTargets ==
    ASSUME NEW c, NEW n, NEW k \in 1..3, NEW fam, Reaches(c, n, k, fam)
    PROVE  Parameters(fam, c.e[k]) \subseteq Targets(c, n)
<1>1. fam \in Families
    BY DEF Reaches
<1>2. fam \in {f \in Families : Reaches(c, n, k, f)}
    BY <1>1
<1>3. PICK own : own = {Parameters(f, c.e[k]) : f \in {g \in Families : Reaches(c, n, k, g)}}
    BY Zenon
<1>4. Parameters(fam, c.e[k]) \in own
    BY <1>2, <1>3, Zenon
<1> DEFINE all == {UNION {Parameters(f, c.e[m]) : f \in {g \in Families : Reaches(c, n, m, g)}} : m \in 1..3}
<1>5. UNION own \in all
    BY <1>3, Zenon
<1>6. Targets(c, n) = UNION all
    BY Zenon DEF Targets
<1> HIDE DEF all
<1> QED BY <1>4, <1>5, <1>6

LEMMA NamedIsReached ==
    ASSUME NEW c, NEW n, SmallConstraint(c, n), NEW k \in 1..3, NEW fam,
           ConstraintSchemaFor(c.type).e[k] = fam, fam # "None"
    PROVE  /\ c.e[k] \in Int /\ c.e[k] >= 0
           /\ \E f \in ToSet(Members(fam)) : c.e[k] < n[f]
<1>1. FamilyOk(fam, c.e[k], n)
    BY Zenon DEF SmallConstraint, BadConstraint
<1>2. c.e[k] \in Int
    BY DEF SmallConstraint
<1> QED BY <1>1, <1>2, Zenon DEF FamilyOk

LEMMA FamilyIsReached ==
    ASSUME NEW c, NEW n, SmallConstraint(c, n), NEW k \in 1..3, NEW fam \in Families,
           ConstraintSchemaFor(c.type).e[k] = fam
    PROVE  Parameters(fam, c.e[k]) \subseteq Targets(c, n)
<1>1. fam # "None"
    BY DEF Families
<1>2. c.e[k] \in Int /\ c.e[k] >= 0 /\ c.e[k] < n[fam] /\ fam \in ToSet(Members(fam))
    BY <1>1, NamedIsReached, MembersAre
<1>3. n[fam] \in Nat
    BY DEF SmallConstraint
<1>4. Reaches(c, n, k, fam)
    BY <1>2, <1>3 DEF Reaches
<1> QED BY <1>4, ReachedAreTargets

LEMMA ParametersAre ==
    ASSUME NEW known, NEW i
    PROVE  /\ Parameters("Point", i) \subseteq known => PointIn(At(i), known)
           /\ Parameters("Line", i) \subseteq known => LineIn(Entity("Line", i), known)
           /\ Parameters("Circle", i) \subseteq known => CurveIn(Entity("Circle", i), known)
           /\ Parameters("Arc", i) \subseteq known => CurveIn(Entity("Arc", i), known)
<1>1. \A fam, part : part \in Parts(fam) => <<fam, i, part>> \in Parameters(fam, i)
    BY Zenon DEF Parameters
<1>2. /\ <<"at", "x">> \in Parts("Point") /\ <<"at", "y">> \in Parts("Point")
      /\ <<"p1", "x">> \in Parts("Line") /\ <<"p1", "y">> \in Parts("Line")
      /\ <<"p2", "x">> \in Parts("Line") /\ <<"p2", "y">> \in Parts("Line")
    BY DEF Parts, PointsOf
<1>3. \A fam \in {"Circle", "Arc"} :
         <<"center", "x">> \in Parts(fam) /\ <<"center", "y">> \in Parts(fam)
         /\ <<"radius">> \in Parts(fam)
    BY DEF Parts, PointsOf
<1>4. /\ X(At(i)) = <<"Point", i, <<"at", "x">>>> /\ Y(At(i)) = <<"Point", i, <<"at", "y">>>>
    BY DEF X, Y, At
<1>5. ASSUME NEW fam, NEW name
      PROVE  /\ X(Pt(Entity(fam, i), name)) = <<fam, i, <<name, "x">>>>
             /\ Y(Pt(Entity(fam, i), name)) = <<fam, i, <<name, "y">>>>
             /\ Rad(Entity(fam, i)) = <<fam, i, <<"radius">>>>
    BY DEF X, Y, Pt, Entity, Rad
<1>6. Parameters("Point", i) \subseteq known => PointIn(At(i), known)
    BY <1>1, <1>2, <1>4, Zenon DEF PointIn
<1>7. Parameters("Line", i) \subseteq known => LineIn(Entity("Line", i), known)
    BY <1>1, <1>2, <1>5, Zenon DEF LineIn, PointIn
<1>8. ASSUME NEW fam \in {"Circle", "Arc"}, Parameters(fam, i) \subseteq known
      PROVE  CurveIn(Entity(fam, i), known)
    BY <1>1, <1>3, <1>5, <1>8, Zenon DEF CurveIn, PointIn, Center
<1> QED BY <1>6, <1>7, <1>8

-----------------------------------------------------------------------------
(* The rows of a constraint between points, points and lines.              *)
PointsRows(c, p, q, l, m, vals, tag, rows) ==
    /\ c.type = "Coincident" => rows = P2PCoincident(p, q, tag)
    /\ c.type = "Distance" => rows = P2PDistance(p, q, Const(c.value), tag)
    /\ c.type = "DistanceX" => rows = Basic("Difference", <<X(p), X(q), Const(c.value)>>, tag)
    /\ c.type = "DistanceY" => rows = Basic("Difference", <<Y(p), Y(q), Const(c.value)>>, tag)
    /\ c.type = "PointOnLine" => rows = PointOnLine(p, l, tag)
    /\ c.type = "PointToLineDistance" => rows = P2LDistance(p, l, Const(c.value), tag)
    /\ c.type = "Symmetric" => rows = P2PSymmetric(p, q, m, tag)
    /\ c.type = "Fixed" => rows = Equal(X(p), Const(vals[X(p)]), tag)
                                    \o Equal(Y(p), Const(vals[Y(p)]), tag)
    /\ c.type = "CoordinateX" => rows = Equal(X(p), Const(c.value), tag)
    /\ c.type = "CoordinateY" => rows = Equal(Y(p), Const(c.value), tag)

LEMMA PointsPosted ==
    ASSUME NEW c, NEW n, NEW vals, NEW tag, NEW p, NEW q, NEW l, NEW m, NEW rows,
           p = At(c.e[1]), q = At(c.e[2]), l = Entity("Line", c.e[2]), m = Entity("Line", c.e[3]),
           rows = Posted(c, n, vals, tag)
    PROVE  PointsRows(c, p, q, l, m, vals, tag, rows)
<1>1. c.type \in OnPointsTypes => Posted(c, n, vals, tag) = PostedOnPoints(c, vals, tag)
    BY Zenon DEF Posted
<1>2. {"Coincident", "Distance", "DistanceX", "DistanceY", "PointOnLine", "PointToLineDistance",
       "Symmetric", "Fixed", "CoordinateX", "CoordinateY"} \subseteq OnPointsTypes
    BY DEF OnPointsTypes, PointTypes
<1> QED BY <1>1, <1>2 DEF PostedOnPoints, PointsRows

LEMMA PointsFit ==
    ASSUME NEW c, NEW n, SmallConstraint(c, n), c.type \in OnPointsTypes, NEW vals, NEW tag
    PROVE  RowsFit(Posted(c, n, vals, tag), tag, Targets(c, n))
<1>1. PICK p, q, l, m, known, rows :
        /\ p = At(c.e[1]) /\ q = At(c.e[2]) /\ l = Entity("Line", c.e[2])
        /\ m = Entity("Line", c.e[3]) /\ known = Targets(c, n)
        /\ rows = Posted(c, n, vals, tag)
    BY Zenon
<1>0. PointsRows(c, p, q, l, m, vals, tag, rows)
    BY <1>1, PointsPosted
<1>13. SUFFICES RowsFit(rows, tag, known)
    BY <1>1, Zenon
<1>2. \A v : Fine(Const(v), known)
    BY ConstantsAreFine
<1>3. PointIn(p, known)
    <2>1. ConstraintSchemaFor(c.type).e[1] = "Point"
        BY SchemasAre, SchemaEntities DEF OnPointsTypes
    <2> QED BY <1>1, <2>1, FamilyIsReached, ParametersAre DEF Families
<1>4. Fine(X(p), known) /\ Fine(Y(p), known)
    BY <1>3, KnownAreFine, Zenon DEF PointIn
<1>5. ASSUME c.type \in PointTypes \cup {"Symmetric"}
      PROVE  PointIn(q, known) /\ Fine(X(q), known) /\ Fine(Y(q), known)
    <2>1. ConstraintSchemaFor(c.type).e[2] = "Point"
        BY <1>5, SchemasAre, SchemaEntities
    <2>2. PointIn(q, known)
        BY <1>1, <2>1, FamilyIsReached, ParametersAre DEF Families
    <2> QED BY <2>2, KnownAreFine, Zenon DEF PointIn
<1>6. ASSUME c.type \in {"PointOnLine", "PointToLineDistance"}
      PROVE  LineIn(l, known)
    <2>1. ConstraintSchemaFor(c.type).e[2] = "Line"
        BY <1>6, SchemasAre, SchemaEntities
    <2> QED BY <1>1, <2>1, FamilyIsReached, ParametersAre DEF Families
<1>7. ASSUME c.type = "Symmetric"
      PROVE  LineIn(m, known)
    <2>1. ConstraintSchemaFor(c.type).e[3] = "Line"
        BY <1>7, SchemasAre, SchemaEntities
    <2> QED BY <1>1, <2>1, FamilyIsReached, ParametersAre DEF Families
<1>8. CASE c.type \in {"Coincident", "Distance"}
    <2>1. PointIn(q, known)
        BY <1>5, <1>8 DEF PointTypes
    <2>2. RowsFit(P2PCoincident(p, q, tag), tag, known)
        BY <1>3, <2>1, PointEquationsFit
    <2>3. RowsFit(P2PDistance(p, q, Const(c.value), tag), tag, known)
        BY <1>2, <1>3, <2>1, DistancesFit
    <2> QED BY <1>0, <1>8, <2>2, <2>3 DEF PointsRows
<1>9. CASE c.type \in {"DistanceX", "DistanceY"}
    <2>1. Fine(X(q), known) /\ Fine(Y(q), known)
        BY <1>5, <1>9 DEF PointTypes
    <2>2. /\ Only(<<X(p), X(q), Const(c.value)>>, known)
          /\ Only(<<Y(p), Y(q), Const(c.value)>>, known)
        BY <1>2, <1>4, <2>1, OnlyThree
    <2>3. /\ RowsFit(Basic("Difference", <<X(p), X(q), Const(c.value)>>, tag), tag, known)
          /\ RowsFit(Basic("Difference", <<Y(p), Y(q), Const(c.value)>>, tag), tag, known)
        BY <2>2, BasicFits
    <2> QED BY <1>0, <1>9, <2>3 DEF PointsRows
<1>10. CASE c.type \in {"PointOnLine", "PointToLineDistance"}
    <2>1. /\ RowsFit(PointOnLine(p, l, tag), tag, known)
          /\ RowsFit(P2LDistance(p, l, Const(c.value), tag), tag, known)
        BY <1>2, <1>3, <1>6, <1>10, DistancesFit
    <2> QED BY <1>0, <1>10, <2>1 DEF PointsRows
<1>11. CASE c.type = "Symmetric"
    <2>1. PointIn(q, known) /\ LineIn(m, known)
        BY <1>5, <1>7, <1>11
    <2>2. RowsFit(P2PSymmetric(p, q, m, tag), tag, known)
        BY <1>3, <2>1, SymmetryFits
    <2> QED BY <1>0, <1>11, <2>2 DEF PointsRows
<1>12. CASE c.type \in {"Fixed", "CoordinateX", "CoordinateY"}
    <2>1. \A v : RowsFit(Equal(X(p), Const(v), tag), tag, known)
                 /\ RowsFit(Equal(Y(p), Const(v), tag), tag, known)
        BY <1>2, <1>4, EqualFits
    <2>2. RowsFit(Equal(X(p), Const(vals[X(p)]), tag) \o Equal(Y(p), Const(vals[Y(p)]), tag), tag, known)
        BY <2>1, RowsJoin
    <2> QED BY <1>0, <1>12, <2>1, <2>2 DEF PointsRows
<1> QED BY <1>8, <1>9, <1>10, <1>11, <1>12 DEF OnPointsTypes, PointTypes

LEMMA LinesPosted ==
    ASSUME NEW c, NEW n, NEW vals, NEW tag, NEW l, NEW k, NEW rows,
           l = Entity("Line", c.e[1]), k = Entity("Line", c.e[2]),
           rows = Posted(c, n, vals, tag)
    PROVE      /\ c.type = "Horizontal" => rows = Horizontal(l, tag)
               /\ c.type = "Vertical" => rows = Vertical(l, tag)
               /\ c.type \in {"Parallel", "Perpendicular", "MidpointOnLine"} =>
                     rows = Basic(c.type, Ends(l) \o Ends(k), tag)
               /\ c.type = "Equal" => rows = Basic("EqualLineLength", Ends(l) \o Ends(k), tag)
               /\ c.type = "Angle" => rows = Basic("L2LAngle", Ends(l) \o Ends(k) \o <<Const(c.value)>>, tag)
               /\ c.type = "Collinear" => rows = Basic("Parallel", Ends(l) \o Ends(k), tag)
                                                 \o PointOnLine(Pt(k, "p1"), l, tag)
<1>1. c.type \in OnLinesTypes => Posted(c, n, vals, tag) = PostedOnLines(c, tag)
    <2>1. c.type \in OnLinesTypes => c.type \notin OnPointsTypes
        BY DEF OnLinesTypes, LineTypes, OnPointsTypes, PointTypes
    <2> QED BY <2>1, Zenon DEF Posted
<1>2. {"Horizontal", "Vertical", "Parallel", "Perpendicular", "MidpointOnLine", "Equal", "Angle",
       "Collinear"} \subseteq OnLinesTypes
    BY DEF OnLinesTypes, LineTypes
<1> QED BY <1>1, <1>2 DEF PostedOnLines

LEMMA LinesFit ==
    ASSUME NEW c, NEW n, SmallConstraint(c, n), c.type \in OnLinesTypes, NEW vals, NEW tag
    PROVE  RowsFit(Posted(c, n, vals, tag), tag, Targets(c, n))
<1>1. PICK l, k, known, rows :
        /\ l = Entity("Line", c.e[1]) /\ k = Entity("Line", c.e[2]) /\ known = Targets(c, n)
        /\ rows = Posted(c, n, vals, tag)
    BY Zenon
<1>0. /\ c.type = "Horizontal" => rows = Horizontal(l, tag)
      /\ c.type = "Vertical" => rows = Vertical(l, tag)
      /\ c.type \in {"Parallel", "Perpendicular", "MidpointOnLine"} =>
            rows = Basic(c.type, Ends(l) \o Ends(k), tag)
      /\ c.type = "Equal" => rows = Basic("EqualLineLength", Ends(l) \o Ends(k), tag)
      /\ c.type = "Angle" => rows = Basic("L2LAngle", Ends(l) \o Ends(k) \o <<Const(c.value)>>, tag)
      /\ c.type = "Collinear" => rows = Basic("Parallel", Ends(l) \o Ends(k), tag)
                                        \o PointOnLine(Pt(k, "p1"), l, tag)
    BY <1>1, LinesPosted
<1>5. SUFFICES RowsFit(rows, tag, known)
    BY <1>1, Zenon
<1>2. LineIn(l, known)
    <2>1. ConstraintSchemaFor(c.type).e[1] = "Line"
        BY SchemasAre, SchemaEntities DEF OnLinesTypes
    <2> QED BY <1>1, <2>1, FamilyIsReached, ParametersAre DEF Families
<1>3. CASE c.type \in {"Horizontal", "Vertical"}
    <2>1. RowsFit(Horizontal(l, tag), tag, known) /\ RowsFit(Vertical(l, tag), tag, known)
        BY <1>2, LineRowsFit
    <2> QED BY <1>0, <1>3, <2>1
<1>4. CASE c.type \in LineTypes
    <2>1. ConstraintSchemaFor(c.type).e[2] = "Line"
        BY <1>4, SchemasAre, SchemaEntities
    <2>2. LineIn(k, known)
        BY <1>1, <2>1, FamilyIsReached, ParametersAre DEF Families
    <2>3. /\ \A kind : kind # "Equal" => RowsFit(Basic(kind, Ends(l) \o Ends(k), tag), tag, known)
          /\ \A kind, v : kind # "Equal" =>
                RowsFit(Basic(kind, Ends(l) \o Ends(k) \o <<Const(v)>>, tag), tag, known)
          /\ RowsFit(PointOnLine(Pt(k, "p1"), l, tag), tag, known)
        BY <1>2, <2>2, LineRowsFit
    <2>4. CASE c.type \in {"Parallel", "Perpendicular", "MidpointOnLine"}
        <3>1. RowsFit(Basic(c.type, Ends(l) \o Ends(k), tag), tag, known)
            BY <2>3, <2>4
        <3> QED BY <1>0, <2>4, <3>1
    <2>5. CASE c.type \in {"Equal", "Angle"}
        <3>1. /\ RowsFit(Basic("EqualLineLength", Ends(l) \o Ends(k), tag), tag, known)
              /\ RowsFit(Basic("L2LAngle", Ends(l) \o Ends(k) \o <<Const(c.value)>>, tag), tag, known)
            BY <2>3
        <3> QED BY <1>0, <2>5, <3>1
    <2>6. CASE c.type = "Collinear"
        <3>1. RowsFit(Basic("Parallel", Ends(l) \o Ends(k), tag), tag, known)
            BY <2>3
        <3>2. RowsFit(Basic("Parallel", Ends(l) \o Ends(k), tag)
                      \o PointOnLine(Pt(k, "p1"), l, tag), tag, known)
            BY <2>3, <3>1, RowsJoin
        <3> QED BY <1>0, <2>6, <3>2
    <2> QED BY <1>4, <2>4, <2>5, <2>6 DEF LineTypes
<1> QED BY <1>3, <1>4 DEF OnLinesTypes

-----------------------------------------------------------------------------
LEMMA CurveIsReached ==
    ASSUME NEW c, NEW n, NEW k \in 1..3, NEW fam \in {"Circle", "Arc"},
           Reaches(c, n, k, fam) \/ (SmallConstraint(c, n) /\ ConstraintSchemaFor(c.type).e[k] = fam)
    PROVE  CurveIn(Entity(fam, c.e[k]), Targets(c, n))
<1>1. Parameters(fam, c.e[k]) \subseteq Targets(c, n)
    BY ReachedAreTargets, FamilyIsReached DEF Families
<1> QED BY <1>1, ParametersAre

(* The family a position is looked up in when two are possible.             *)
LEMMA OneOfTwoIsReached ==
    ASSUME NEW c, NEW n, SmallConstraint(c, n), c.type \in {"Radius", "CircleDiameter"},
           NEW first, NEW other, {first, other} = {"Circle", "Arc"}
    PROVE  CurveIn(Entity(IF c.e[1] < n[first] THEN first ELSE other, c.e[1]), Targets(c, n))
<1>1. ConstraintSchemaFor(c.type).e[1] = "CircleOrArc"
    BY SchemasAre, SchemaEntities
<1>2. c.e[1] \in Int /\ c.e[1] >= 0 /\ \E f \in {"Circle", "Arc"} : c.e[1] < n[f]
    BY <1>1, NamedIsReached, MembersAre
<1>3. n["Circle"] \in Nat /\ n["Arc"] \in Nat
    BY DEF SmallConstraint, Families
<1>4. PICK fam : fam = IF c.e[1] < n[first] THEN first ELSE other
    OBVIOUS
<1>5. fam \in {"Circle", "Arc"} /\ c.e[1] < n[fam]
    BY <1>2, <1>3, <1>4
<1>6. Reaches(c, n, 1, fam)
    <2>1. fam \in Families /\ fam \in ToSet(Members(ConstraintSchemaFor(c.type).e[1]))
        BY <1>1, <1>5, MembersAre DEF Families
    <2>2. c.e[1] \in 0..(n[fam] - 1)
        BY <1>2, <1>3, <1>5
    <2> QED BY <2>1, <2>2 DEF Reaches
<1> QED BY <1>4, <1>5, <1>6, CurveIsReached

LEMMA CurvesPosted ==
    ASSUME NEW c, NEW n, NEW vals, NEW tag, NEW rows, rows = Posted(c, n, vals, tag),
           c.type \in CurveTypes
    PROVE  rows = PostedOnCurves(c, n, vals, tag)
<1>1. c.type \notin OnPointsTypes /\ c.type \notin OnLinesTypes
    BY DEF CurveTypes, OnLinesTypes, LineTypes, OnPointsTypes, PointTypes
<1> QED BY <1>1, Zenon DEF Posted

LEMMA CurvesFit ==
    ASSUME NEW c, NEW n, SmallConstraint(c, n), c.type \in CurveTypes, NEW vals, NEW tag
    PROVE  RowsFit(Posted(c, n, vals, tag), tag, Targets(c, n))
<1>1. PICK known, rows : known = Targets(c, n) /\ rows = Posted(c, n, vals, tag)
    OBVIOUS
<1>2. rows = PostedOnCurves(c, n, vals, tag)
    BY <1>1, CurvesPosted
<1>3. SUFFICES RowsFit(rows, tag, known)
    BY <1>1
<1>4. CASE c.type = "Radius"
    <2>1. PICK en : en = Entity(IF c.e[1] < n["Circle"] THEN "Circle" ELSE "Arc", c.e[1])
        OBVIOUS
    <2>2. CurveIn(en, known)
        BY <1>1, <1>4, <2>1, OneOfTwoIsReached
    <2>3. rows = Radius(en, c.value, tag)
        BY <1>2, <1>4, <2>1 DEF PostedOnCurves
    <2> QED BY <2>2, <2>3, CurveRowsFit
<1>5. CASE c.type = "CircleDiameter"
    <2>1. PICK en : en = Entity(IF c.e[1] < n["Arc"] THEN "Arc" ELSE "Circle", c.e[1])
        OBVIOUS
    <2>2. CurveIn(en, known)
        BY <1>1, <1>5, <2>1, OneOfTwoIsReached
    <2>3. rows = Radius(en, Half(c.value), tag)
        BY <1>2, <1>5, <2>1 DEF PostedOnCurves
    <2> QED BY <2>2, <2>3, CurveRowsFit
<1>6. CASE c.type = "Tangent"
    <2>1. rows = IF c.e[1] < n["Line"] /\ c.e[2] < n["Circle"]
                 THEN TangentLine(Entity("Line", c.e[1]), Entity("Circle", c.e[2]), tag) ELSE <<>>
        BY <1>2, <1>6 DEF PostedOnCurves
    <2>2. CASE ~(c.e[1] < n["Line"] /\ c.e[2] < n["Circle"])
        BY <2>1, <2>2, NoRowsFit
    <2>3. CASE c.e[1] < n["Line"] /\ c.e[2] < n["Circle"]
        <3>1. ConstraintSchemaFor(c.type).e[1] = "AnyCurve" /\ ConstraintSchemaFor(c.type).e[2] = "AnyCurve"
            BY <1>6, SchemasAre, SchemaEntities
        <3>2. c.e[1] \in Int /\ c.e[1] >= 0 /\ c.e[2] \in Int /\ c.e[2] >= 0
            BY <3>1, NamedIsReached
        <3>3. n["Line"] \in Nat /\ n["Circle"] \in Nat
            BY DEF SmallConstraint, Families
        <3>4. Reaches(c, n, 1, "Line") /\ Reaches(c, n, 2, "Circle")
            BY <2>3, <3>1, <3>2, <3>3, MembersAre DEF Reaches, Families
        <3>5. LineIn(Entity("Line", c.e[1]), known)
            <4>1. Parameters("Line", c.e[1]) \subseteq known
                BY <1>1, <3>4, ReachedAreTargets
            <4> QED BY <4>1, ParametersAre
        <3>6. CurveIn(Entity("Circle", c.e[2]), known)
            BY <1>1, <3>4, CurveIsReached
        <3>7. RowsFit(TangentLine(Entity("Line", c.e[1]), Entity("Circle", c.e[2]), tag), tag, known)
            BY <3>5, <3>6, CurveRowsFit
        <3> QED BY <2>1, <2>3, <3>7
    <2> QED BY <2>2, <2>3
<1>7. CASE c.type = "ArcLength"
    <2>1. PICK start, end : rows = Basic("ArcLength", <<Rad(Entity("Arc", c.e[1])), Const(start), Const(end),
                                                        Const(c.value)>>, tag)
        BY <1>2, <1>7, Zenon DEF PostedOnCurves
    <2>2. ConstraintSchemaFor(c.type).e[1] = "Arc"
        BY <1>7, SchemasAre, SchemaEntities
    <2>3. CurveIn(Entity("Arc", c.e[1]), known)
        BY <1>1, <2>2, CurveIsReached
    <2>4. Fine(Rad(Entity("Arc", c.e[1])), known)
        BY <2>3, KnownAreFine, Zenon DEF CurveIn
    <2>5. Only(<<Rad(Entity("Arc", c.e[1])), Const(start), Const(end), Const(c.value)>>, known)
        BY <2>4, ConstantsAreFine, OnlyFour
    <2>6. RowsFit(Basic("ArcLength", <<Rad(Entity("Arc", c.e[1])), Const(start), Const(end),
                                       Const(c.value)>>, tag), tag, known)
        BY <2>5, BasicFits
    <2> QED BY <2>1, <2>6
<1>8. CASE c.type \in {"EqualRadius", "Concentric", "TangentCircleCircle"}
    <2>1. PICK a, b : a = Entity("Circle", c.e[1]) /\ b = Entity("Circle", c.e[2])
        OBVIOUS
    <2>2. ConstraintSchemaFor(c.type).e[1] = "Circle" /\ ConstraintSchemaFor(c.type).e[2] = "Circle"
        BY <1>8, SchemasAre, SchemaEntities
    <2>3. CurveIn(a, known) /\ CurveIn(b, known)
        BY <1>1, <2>1, <2>2, CurveIsReached
    <2>4. RowsFit(EqualRadius(a, b, tag), tag, known) /\ RowsFit(TangentCurves(a, b, vals, tag), tag, known)
        BY <2>3, CurveRowsFit
    <2>5. RowsFit(P2PCoincident(Center(a), Center(b), tag), tag, known)
        <3>1. PointIn(Center(a), known) /\ PointIn(Center(b), known)
            BY <2>3, Zenon DEF CurveIn
        <3> QED BY <3>1, PointEquationsFit
    <2>6. /\ c.type = "EqualRadius" => rows = EqualRadius(a, b, tag)
          /\ c.type = "Concentric" => rows = P2PCoincident(Center(a), Center(b), tag)
          /\ c.type = "TangentCircleCircle" => rows = TangentCurves(a, b, vals, tag)
        BY <1>2, <2>1 DEF PostedOnCurves
    <2> QED BY <1>8, <2>4, <2>5, <2>6
<1> QED BY <1>4, <1>5, <1>6, <1>7, <1>8 DEF CurveTypes

LEMMA TwosPosted ==
    ASSUME NEW c, NEW n, NEW vals, NEW tag, NEW rows, rows = Posted(c, n, vals, tag),
           c.type \in OnTwoTypes
    PROVE  rows = PostedOnTwo(c, vals, tag)
<1>1. c.type \notin OnPointsTypes /\ c.type \notin OnLinesTypes /\ c.type \notin CurveTypes
    BY DEF CurveTypes, OnLinesTypes, LineTypes, OnPointsTypes, PointTypes, OnTwoTypes
<1> QED BY <1>1, Zenon DEF Posted

LEMMA TwosFit ==
    ASSUME NEW c, NEW n, SmallConstraint(c, n), c.type \in OnTwoTypes, NEW vals, NEW tag
    PROVE  RowsFit(Posted(c, n, vals, tag), tag, Targets(c, n))
<1>1. PICK known, rows : known = Targets(c, n) /\ rows = Posted(c, n, vals, tag)
    OBVIOUS
<1>2. rows = PostedOnTwo(c, vals, tag)
    BY <1>1, TwosPosted
<1>3. SUFFICES RowsFit(rows, tag, known)
    BY <1>1
<1>4. PICK first, second : first = ConstraintSchemaFor(c.type).e[1] /\ second = ConstraintSchemaFor(c.type).e[2]
    OBVIOUS
<1>5. /\ first = "Line" => LineIn(Entity("Line", c.e[1]), known)
      /\ second = "Line" => LineIn(Entity("Line", c.e[2]), known)
      /\ first = "Point" => PointIn(At(c.e[1]), known)
    BY <1>1, <1>4, FamilyIsReached, ParametersAre DEF Families
<1>6. /\ first = "Circle" => CurveIn(Entity("Circle", c.e[1]), known)
      /\ second = "Circle" => CurveIn(Entity("Circle", c.e[2]), known)
      /\ first = "Arc" => CurveIn(Entity("Arc", c.e[1]), known)
      /\ second = "Arc" => CurveIn(Entity("Arc", c.e[2]), known)
    BY <1>1, <1>4, CurveIsReached
<1>7. CASE c.type \in {"TangentLineArc", "TangentLineCircle"}
    <2>1. first = "Line" /\ second = IF c.type = "TangentLineArc" THEN "Arc" ELSE "Circle"
        BY <1>4, <1>7, SchemasAre, SchemaEntities
    <2>2. PICK d : d = Entity(second, c.e[2])
        OBVIOUS
    <2>3. CurveIn(d, known) /\ LineIn(Entity("Line", c.e[1]), known)
        BY <1>5, <1>6, <2>1, <2>2
    <2>4. RowsFit(TangentLine(Entity("Line", c.e[1]), d, tag), tag, known)
        BY <2>3, CurveRowsFit
    <2>5. rows = TangentLine(Entity("Line", c.e[1]), d, tag)
        BY <1>2, <1>7, <2>1, <2>2 DEF PostedOnTwo
    <2> QED BY <2>4, <2>5
<1>8. CASE c.type \in {"TangentArcArc", "TangentCircleArc", "EqualRadiusCircleArc"}
    <2>1. second = "Arc" /\ first = IF c.type = "TangentArcArc" THEN "Arc" ELSE "Circle"
        BY <1>4, <1>8, SchemasAre, SchemaEntities
    <2>2. PICK a, d : a = Entity(first, c.e[1]) /\ d = Entity("Arc", c.e[2])
        OBVIOUS
    <2>3. CurveIn(a, known) /\ CurveIn(d, known)
        BY <1>6, <2>1, <2>2
    <2>4. RowsFit(TangentCurves(a, d, vals, tag), tag, known) /\ RowsFit(EqualRadius(a, d, tag), tag, known)
        BY <2>3, CurveRowsFit
    <2>5. rows = IF c.type = "EqualRadiusCircleArc" THEN EqualRadius(a, d, tag)
                 ELSE TangentCurves(a, d, vals, tag)
        BY <1>2, <1>8, <2>1, <2>2 DEF PostedOnTwo
    <2> QED BY <2>4, <2>5
<1>9. CASE c.type \in {"PointOnCircle", "PointOnArc", "PointToCircleDistance"}
    <2>1. first = "Point" /\ second = IF c.type = "PointOnArc" THEN "Arc" ELSE "Circle"
        BY <1>4, <1>9, SchemasAre, SchemaEntities
    <2>2. PICK p, d : p = At(c.e[1]) /\ d = Entity(second, c.e[2])
        OBVIOUS
    <2>3. PointIn(p, known) /\ CurveIn(d, known)
        BY <1>5, <1>6, <2>1, <2>2
    <2>4. RowsFit(PointOnCurve(p, d, tag), tag, known)
        BY <2>3, CurveRowsFit
    <2>5. Only(Coords(p) \o Coords(Center(d)) \o <<Rad(d), Const(c.value)>>, known)
        <3>1. PointIn(Center(d), known) /\ Fine(Rad(d), known) /\ Fine(Const(c.value), known)
            BY <2>3, KnownAreFine, ConstantsAreFine, Zenon DEF CurveIn
        <3>2. Only(Coords(p), known) /\ Only(Coords(Center(d)), known) /\ Only(<<Rad(d), Const(c.value)>>, known)
            BY <2>3, <3>1, OnlyCoords, OnlyTwo
        <3>3. Only(Coords(p) \o Coords(Center(d)), known)
            BY <3>2, OnlyJoins
        <3> QED BY <3>2, <3>3, OnlyJoins
    <2>6. RowsFit(Basic("P2CDistance", Coords(p) \o Coords(Center(d)) \o <<Rad(d), Const(c.value)>>, tag),
                  tag, known)
        BY <2>5, BasicFits
    <2>7. rows = IF c.type = "PointToCircleDistance"
                 THEN Basic("P2CDistance", Coords(p) \o Coords(Center(d)) \o <<Rad(d), Const(c.value)>>, tag)
                 ELSE PointOnCurve(p, d, tag)
        BY <1>2, <1>9, <2>1, <2>2 DEF PostedOnTwo
    <2> QED BY <2>4, <2>6, <2>7
<1>10. CASE c.type = "CircleToLineDistance"
    <2>1. first = "Circle" /\ second = "Line"
        BY <1>4, <1>10, SchemasAre, SchemaEntities
    <2>2. PICK d, l : d = Entity("Circle", c.e[1]) /\ l = Entity("Line", c.e[2])
        OBVIOUS
    <2>3. CurveIn(d, known) /\ LineIn(l, known)
        BY <1>5, <1>6, <2>1, <2>2
    <2>4. PointIn(Center(d), known) /\ Fine(Rad(d), known) /\ Fine(Const(c.value), known)
        BY <2>3, KnownAreFine, ConstantsAreFine, Zenon DEF CurveIn
    <2>5. Only(Coords(Center(d)), known) /\ Only(<<Rad(d)>>, known) /\ Only(Ends(l), known)
          /\ Only(<<Const(c.value)>>, known)
        BY <2>3, <2>4, OnlyCoords, OnlyOne, OnlyEnds
    <2>6. Only(Coords(Center(d)) \o <<Rad(d)>>, known)
        BY <2>5, OnlyJoins
    <2>7. Only(Coords(Center(d)) \o <<Rad(d)>> \o Ends(l), known)
        BY <2>5, <2>6, OnlyJoins
    <2>8. Only(Coords(Center(d)) \o <<Rad(d)>> \o Ends(l) \o <<Const(c.value)>>, known)
        BY <2>5, <2>7, OnlyJoins
    <2>9. RowsFit(Basic("C2LDistance", Coords(Center(d)) \o <<Rad(d)>> \o Ends(l) \o <<Const(c.value)>>, tag),
                  tag, known)
        BY <2>8, BasicFits
    <2>10. rows = Basic("C2LDistance", Coords(Center(d)) \o <<Rad(d)>> \o Ends(l) \o <<Const(c.value)>>, tag)
        BY <1>2, <1>10, <2>2 DEF PostedOnTwo
    <2> QED BY <2>9, <2>10
<1> QED BY <1>7, <1>8, <1>9, <1>10 DEF OnTwoTypes

LEMMA PostedFits ==
    ASSUME NEW c, NEW n, SmallConstraint(c, n), NEW vals, NEW tag
    PROVE  RowsFit(Posted(c, n, vals, tag), tag, Targets(c, n))
<1>1. c.type \in OnPointsTypes \/ c.type \in OnLinesTypes \/ c.type \in CurveTypes \/ c.type \in OnTwoTypes
    BY DEF SmallConstraint, ConstraintTypes
<1> QED BY <1>1, PointsFit, LinesFit, CurvesFit, TwosFit

-----------------------------------------------------------------------------
(* The rows of a system, constraint by constraint.                         *)
AddsRows(cons, n, vals, rows, top) ==
    rows[0] = <<>> /\ \A i \in 1..top : rows[i] = rows[i - 1] \o Posted(cons[i], n, vals, i - 1)

LEMMA RowsAreSequences ==
    ASSUME NEW rows, NEW tag, NEW known, RowsFit(rows, tag, known), NEW U, ToSet(rows) \subseteq U
    PROVE  rows \in Seq(U)
<1>1. PICK S : rows \in Seq(S)
    BY Zenon DEF RowsFit
<1>2. \A k \in 1..Len(rows) : rows[k] \in U
    BY <1>1 DEF ToSet
<1> QED BY <1>1, <1>2

LEMMA SystemIsMade ==
    ASSUME NEW cons, NEW top \in Nat, top = Len(cons), NEW n, NEW vals,
           \A i \in 1..top : SmallConstraint(cons[i], n)
    PROVE  \E rows : AddsRows(cons, n, vals, rows, top) /\ System(cons, n, vals) = rows[top]
<1>1. PICK U : \A i \in 1..top : ToSet(Posted(cons[i], n, vals, i - 1)) \subseteq U
    <2>1. \A i \in 1..top : ToSet(Posted(cons[i], n, vals, i - 1))
              \subseteq UNION {ToSet(Posted(cons[j], n, vals, j - 1)) : j \in 1..top}
        BY Zenon
    <2> QED BY <2>1, Zenon
<1>2. ASSUME NEW i \in 1..top PROVE Posted(cons[i], n, vals, i - 1) \in Seq(U)
    <2>1. PICK rows, known, tag : rows = Posted(cons[i], n, vals, i - 1) /\ RowsFit(rows, tag, known)
        BY PostedFits, Zenon
    <2>2. ToSet(rows) \subseteq U
        BY <1>1, <2>1, Zenon
    <2> QED BY <2>1, <2>2, RowsAreSequences
<1>3. PICK added : \A i \in 1..top : added[i] = Posted(cons[i], n, vals, i - 1)
    <2>1. \A i \in 1..top : [j \in 1..top |-> Posted(cons[j], n, vals, j - 1)][i]
                              = Posted(cons[i], n, vals, i - 1)
        BY Zenon
    <2> QED BY <2>1, Zenon
<1>4. \A i \in 1..top : added[i] \in Seq(U)
    BY <1>2, <1>3, Zenon
<1> DEFINE step == [i \in 1..top |-> [s \in Seq(U) |-> s \o added[i]]]
           MadeOf(h) == h = [i \in 0..top |-> IF i = 0 THEN <<>>
                                              ELSE h[i - 1] \o Posted(cons[i], n, vals, i - 1)]
<1>5. step \in [1..top -> [Seq(U) -> Seq(U)]]
    BY <1>4
<1>6. PICK h \in [0..top -> Seq(U)] : MadeUpTo(top, h, <<>>, step)
    <2>1. <<>> \in Seq(U)
        OBVIOUS
    <2> HIDE DEF step
    <2> QED BY <1>5, <2>1, StepsExist
<1>7. \A i \in 0..top : h[i] = IF i = 0 THEN <<>> ELSE h[i - 1] \o added[i]
    <2>1. ASSUME NEW i \in 1..top PROVE h[i] = h[i - 1] \o added[i]
        <3>1. h[i - 1] \in Seq(U)
            OBVIOUS
        <3>2. h[i] = step[i][h[i - 1]]
            BY <1>6 DEF MadeUpTo
        <3> QED BY <3>1, <3>2
    <2>2. h[0] = <<>>
        BY <1>6 DEF MadeUpTo
    <2> QED BY <2>1, <2>2
<1>8. MadeOf(h)
    <2>1. \A i \in 0..top : h[i] = IF i = 0 THEN <<>> ELSE h[i - 1] \o Posted(cons[i], n, vals, i - 1)
        <3>1. \A i \in 0..top : i # 0 => i \in 1..top
            OBVIOUS
        <3> QED BY <1>3, <1>7, <3>1, Zenon
    <2>2. h = [i \in 0..top |-> h[i]]
        OBVIOUS
    <2> QED BY <2>1, <2>2, Zenon
<1> DEFINE k == CHOOSE g : MadeOf(g)
<1>9. System(cons, n, vals) = k[top]
    BY Zenon DEF System
<1>10. MadeOf(k)
    <2> HIDE DEF MadeOf
    <2> QED BY <1>8
<1> HIDE DEF k
<1>11. AddsRows(cons, n, vals, k, top)
    <2>1. \A i \in 0..top : k[i] = IF i = 0 THEN <<>> ELSE k[i - 1] \o Posted(cons[i], n, vals, i - 1)
        BY <1>10, Zenon
    <2>2. 0 \in 0..top /\ (\A i \in 1..top : i \in 0..top /\ i # 0)
        OBVIOUS
    <2> HIDE DEF MadeOf
    <2> QED BY <2>1, <2>2, Zenon DEF AddsRows
<1> QED BY <1>9, <1>11

(* Each row of a system acts on what its constraint names.                 *)
RowOfSystem(row, cons, n) ==
    \E i \in 1..Len(cons) : RowFits(row, i - 1, Targets(cons[i], n))
SystemFits(clist, cons, n) == \E S : clist \in Seq(S) /\ \A row \in S : RowOfSystem(row, cons, n)

LEMMA SystemRowsFit ==
    ASSUME NEW cons, NEW top \in Nat, top = Len(cons), NEW n, NEW vals,
           \A i \in 1..top : SmallConstraint(cons[i], n)
    PROVE  SystemFits(System(cons, n, vals), cons, n)
<1>1. PICK rows : AddsRows(cons, n, vals, rows, top) /\ System(cons, n, vals) = rows[top]
    BY SystemIsMade
<1> DEFINE T == {i \in 0..top : SystemFits(rows[i], cons, n)}
<1>2. 0 \in T
    <2>1. rows[0] = <<>>
        BY <1>1 DEF AddsRows
    <2>2. PICK S : S = {}
        OBVIOUS
    <2>3. <<>> \in Seq(S) /\ \A row \in S : RowOfSystem(row, cons, n)
        BY <2>2
    <2>4. SystemFits(<<>>, cons, n)
        BY <2>3, Zenon DEF SystemFits
    <2> QED BY <2>1, <2>4
<1>3. ASSUME NEW i \in 1..top, i - 1 \in T PROVE i \in T
    <2>1. PICK before, added : before = rows[i - 1] /\ added = Posted(cons[i], n, vals, i - 1)
        OBVIOUS
    <2>2. rows[i] = before \o added
        BY <1>1, <2>1 DEF AddsRows
    <2>3. PICK S : before \in Seq(S) /\ \A row \in S : RowOfSystem(row, cons, n)
        BY <1>3, <2>1, Zenon DEF SystemFits
    <2>4. RowsFit(added, i - 1, Targets(cons[i], n))
        BY <2>1, PostedFits
    <2>5. PICK W : added \in Seq(W) /\ \A row \in W : RowFits(row, i - 1, Targets(cons[i], n))
        BY <2>4, Zenon DEF RowsFit
    <2>6. \A row \in W : RowOfSystem(row, cons, n)
        BY <2>5, Zenon DEF RowOfSystem
    <2>7. PICK U : U = S \cup W
        OBVIOUS
    <2>8. before \o added \in Seq(U)
        <3>1. S \subseteq U /\ W \subseteq U
            BY <2>7
        <3>2. before \in Seq(U) /\ added \in Seq(U)
            BY <2>3, <2>5, <3>1, SeqWidens
        <3> QED BY <3>2
    <2>9. \A row \in U : RowOfSystem(row, cons, n)
        BY <2>3, <2>6, <2>7
    <2>10. SystemFits(rows[i], cons, n)
        BY <2>2, <2>8, <2>9, Zenon DEF SystemFits
    <2> QED BY <2>10
<1>4. 0..top \subseteq T
    <2> HIDE DEF T
    <2> QED BY <1>2, <1>3, UpTo
<1>5. top \in T
    <2> HIDE DEF T
    <2> QED BY <1>4
<1> QED BY <1>1, <1>5

LEMMA SystemRows ==
    ASSUME NEW clist, NEW cons, NEW n, SystemFits(clist, cons, n)
    PROVE  /\ Len(clist) \in Nat /\ Rows(clist) = 1..Len(clist)
           /\ \A r \in Rows(clist) : RowOfSystem(clist[r], cons, n)
<1>1. PICK S : clist \in Seq(S) /\ \A row \in S : RowOfSystem(row, cons, n)
    BY Zenon DEF SystemFits
<1>2. Len(clist) \in Nat /\ DOMAIN clist = 1..Len(clist) /\ \A r \in DOMAIN clist : clist[r] \in S
    BY <1>1
<1> QED BY <1>1, <1>2, Zenon DEF Rows

LEMMA UnknownsFit ==
    ASSUME NEW row, NEW tag, NEW known, RowFits(row, tag, known)
    PROVE  /\ row.tag = tag
           /\ Unknowns(row) \subseteq known
           /\ Len(row.params) \in Nat /\ DOMAIN row.params = 1..Len(row.params)
           /\ \A i \in DOMAIN row.params : IsUnknown(row.params[i]) => row.params[i] \in known
           /\ row.kind = "Equal" => 1 \in DOMAIN row.params /\ 2 \in DOMAIN row.params
<1>1. PICK kind, operands : /\ row = PostedRow(kind, operands, tag)
                            /\ Only(operands, known)
                            /\ kind = "Equal" => Len(operands) = 2
    BY Zenon DEF RowFits
<1>2. row.tag = tag /\ row.params = operands /\ row.kind = kind
    BY <1>1 DEF PostedRow
<1>3. PICK S : operands \in Seq(S) /\ \A p \in S : Fine(p, known)
    BY <1>1, Zenon DEF Only
<1>4. /\ Len(operands) \in Nat /\ DOMAIN operands = 1..Len(operands)
      /\ \A i \in DOMAIN operands : operands[i] \in S
    BY <1>3
<1>5. \A i \in DOMAIN operands : IsUnknown(operands[i]) => operands[i] \in known
    BY <1>3, <1>4, Zenon DEF Fine
<1>6. Unknowns(row) \subseteq known
    <2> SUFFICES ASSUME NEW p \in Unknowns(row) PROVE p \in known
        OBVIOUS
    <2>1. p \in ToSet(operands) /\ IsUnknown(p)
        BY <1>2, Zenon DEF Unknowns
    <2>2. PICK i \in DOMAIN operands : operands[i] = p
        BY <1>3, <2>1 DEF ToSet
    <2> QED BY <1>5, <2>1, <2>2
<1> QED BY <1>1, <1>2, <1>4, <1>5, <1>6

-----------------------------------------------------------------------------
(* A finite set in a sequence: each of its members, and once.              *)
LEMMA SetInSequence ==
    ASSUME NEW S, IsFiniteSet(S)
    PROVE  \E top \in Nat : /\ SetToSeq(S) \in [1..top -> S] /\ Len(SetToSeq(S)) = top
                            /\ \A a, b \in 1..top : SetToSeq(S)[a] = SetToSeq(S)[b] => a = b
                            /\ \A x \in S : \E a \in 1..top : SetToSeq(S)[a] = x
<1>1. PICK top \in Nat : top = Cardinality(S) /\ ExistsBijection(1..top, S)
    BY FS_CardinalityType
<1>2. PICK f : f \in Bijection(1..top, S)
    BY <1>1 DEF ExistsBijection
<1>3. f \in [1..top -> S] /\ IsInjective(f)
    BY <1>2 DEF Bijection, Injection
<1>4. PICK g : g = SetToSeq(S)
    OBVIOUS
<1>5. g \in [1..top -> S] /\ IsInjective(g)
    BY <1>1, <1>3, <1>4, Zenon DEF SetToSeq
<1>6. g \in Injection(1..top, S)
    BY <1>5 DEF Injection
<1>7. g \in Surjection(1..top, S)
    <2>1. Cardinality(1..top) = top
        BY FS_Interval
    <2> QED BY <1>1, <1>6, <2>1, FS_Injection
<1>8. \A x \in S : \E a \in 1..top : g[a] = x
    BY <1>7 DEF Surjection
<1>9. \A a, b \in 1..top : g[a] = g[b] => a = b
    BY <1>5 DEF IsInjective
<1>10. Len(g) = top
    BY <1>5
<1> QED BY <1>4, <1>5, <1>8, <1>9, <1>10

-----------------------------------------------------------------------------
(* What diagnose() drops.                                                   *)

LEMMA GroupsAreOfRows ==
    ASSUME NEW clist, NEW plist, NEW groups \in ConflictGroups(clist, plist)
    PROVE  UNION groups \subseteq Rows(clist)
<1> DEFINE Bases == {b \in SUBSET Rows(clist) : Cardinality(b) <= Cardinality(plist)}
           Deps(basis) == {d \in [Rows(clist) \ basis -> SUBSET basis] :
                             \A r \in DOMAIN d : Dependent(clist, d[r] \union {r})}
           Own(dep) == {dep[r] \union {r} : r \in DOMAIN dep}
           All(basis) == {Own(dep) : dep \in Deps(basis)}
<1>1. ConflictGroups(clist, plist) = UNION {All(basis) : basis \in Bases}
    BY Zenon DEF ConflictGroups
<1>4. PICK basis \in Bases : groups \in All(basis)
    <2> HIDE DEF All, Bases
    <2> QED BY <1>1
<1>5. PICK dep \in Deps(basis) : groups = Own(dep)
    <2> HIDE DEF Deps, Own, Bases
    <2> QED BY <1>4
<1>3. dep \in [Rows(clist) \ basis -> SUBSET basis] /\ groups = {dep[r] \union {r} : r \in DOMAIN dep}
    BY <1>5
<1>2. ASSUME NEW g \in groups PROVE g \subseteq Rows(clist)
    <2>1. PICK r \in DOMAIN dep : g = dep[r] \union {r}
        BY <1>3
    <2>2. r \in Rows(clist) /\ dep[r] \subseteq Rows(clist)
        BY <2>1
    <2> QED BY <2>1, <2>2
<1> QED BY <1>2

LEMMA DroppedAreOfGroups ==
    ASSUME NEW clist, NEW open
    PROVE  Dropped(clist, open) \subseteq UNION open
BY Zenon DEF Dropped, Eligible

LEMMA SkippedAreOfGroups ==
    ASSUME NEW clist, NEW top \in Nat, top = Len(clist), NEW groups
    PROVE  Skipped(clist, groups) \subseteq UNION groups
<1>1. PICK all : all = UNION groups
    OBVIOUS
<1> DEFINE Next(before) == before \union Dropped(clist, {g \in groups : g \cap before = {}})
           step == [i \in 1..top |-> [s \in SUBSET all |-> Next(s)]]
           MadeOf(h) == h = [n \in 0..top |-> IF n = 0 THEN {} ELSE Next(h[n - 1])]
<1>2. \A s \in SUBSET all : Next(s) \in SUBSET all
    <2> SUFFICES ASSUME NEW s \in SUBSET all PROVE Next(s) \subseteq all
        OBVIOUS
    <2>1. PICK open : open = {g \in groups : g \cap s = {}}
        OBVIOUS
    <2>2. UNION open \subseteq all
        BY <1>1, <2>1
    <2>3. Dropped(clist, open) \subseteq all
        BY <2>2, DroppedAreOfGroups
    <2> QED BY <2>1, <2>3
<1> HIDE DEF Next
<1>3. step \in [1..top -> [SUBSET all -> SUBSET all]]
    BY <1>2
<1>4. PICK h \in [0..top -> SUBSET all] : MadeUpTo(top, h, {}, step)
    <2>1. {} \in SUBSET all
        OBVIOUS
    <2> HIDE DEF step
    <2> QED BY <1>3, <2>1, StepsExist
<1>5. MadeOf(h)
    <2>1. ASSUME NEW i \in 1..top PROVE h[i] = Next(h[i - 1])
        <3>1. h[i - 1] \in SUBSET all
            OBVIOUS
        <3>2. h[i] = step[i][h[i - 1]]
            BY <1>4 DEF MadeUpTo
        <3> QED BY <3>1, <3>2
    <2>2. h[0] = {}
        BY <1>4 DEF MadeUpTo
    <2>3. \A i \in 0..top : h[i] = IF i = 0 THEN {} ELSE Next(h[i - 1])
        BY <2>1, <2>2
    <2>4. h = [i \in 0..top |-> h[i]]
        OBVIOUS
    <2> QED BY <2>3, <2>4, Zenon
<1> DEFINE k == CHOOSE g : MadeOf(g)
<1>6. Skipped(clist, groups) = k[top]
    BY Zenon DEF Skipped, Next
<1>7. MadeOf(k)
    <2> HIDE DEF MadeOf
    <2> QED BY <1>5
<1> HIDE DEF k
<1> DEFINE T == {i \in 0..top : k[i] \subseteq all}
<1>8. 0 \in T
    BY <1>7
<1>9. ASSUME NEW i \in 1..top, i - 1 \in T PROVE i \in T
    <2>1. k[i] = Next(k[i - 1])
        <3>1. i \in 0..top /\ i # 0
            OBVIOUS
        <3> QED BY <1>7, <3>1, Zenon
    <2> QED BY <1>2, <1>9, <2>1
<1>10. 0..top \subseteq T
    <2> HIDE DEF T
    <2> QED BY <1>8, <1>9, UpTo
<1>11. k[top] \subseteq all
    <2>1. top \in 0..top
        OBVIOUS
    <2> QED BY <1>10, <2>1
<1> QED BY <1>1, <1>6, <1>11

(* What a diagnosis calls redundant are rows, and the tags that have only  *)
(* such rows.                                                              *)
SoundDiagnosis(d, clist) ==
    /\ d.redundant \subseteq Rows(clist)
    /\ d.redundantTags = {clist[r].tag : r \in d.redundant}
                         \ {clist[r].tag : r \in Rows(clist) \ d.redundant}

LEMMA DiagnosesAreSound ==
    ASSUME NEW clist, Len(clist) \in Nat, NEW plist, NEW ref, NEW d \in Diagnoses(clist, plist, ref)
    PROVE  SoundDiagnosis(d, clist)
<1>1. CASE plist = {}
    <2>1. d = [redundant |-> {}, conflictingTags |-> {}, redundantTags |-> {}, dofs |-> 0]
        BY <1>1 DEF Diagnoses
    <2> QED BY <2>1 DEF SoundDiagnosis
<1>2. CASE plist # {}
    <2>1. PICK groups \in ConflictGroups(clist, plist) :
             \E red \in Redundancies(clist, plist, Skipped(clist, groups), ref) :
                d = Diagnosis(clist, plist, groups, red)
        BY <1>2, Zenon DEF Diagnoses
    <2>2. PICK red \in Redundancies(clist, plist, Skipped(clist, groups), ref) :
             d = Diagnosis(clist, plist, groups, red)
        BY <2>1
    <2>3. PICK skipped : skipped = Skipped(clist, groups)
        OBVIOUS
    <2>4. skipped \subseteq Rows(clist)
        BY <2>3, GroupsAreOfRows, SkippedAreOfGroups, Zenon
    <2>5. red \subseteq skipped
        BY <2>2, <2>3, Zenon DEF Redundancies
    <2>6. /\ d.redundant = red
          /\ d.redundantTags = {clist[r].tag : r \in red} \ {clist[r].tag : r \in Rows(clist) \ red}
        BY <2>2 DEF Diagnosis
    <2> QED BY <2>4, <2>5, <2>6, Zenon DEF SoundDiagnosis
<1> QED BY <1>1, <1>2

-----------------------------------------------------------------------------
(* The unknown each unknown is replaced by, row by row.                     *)
KeptUpTo(clist, rows, plist, kept, top) ==
    /\ kept[0] = [x \in plist |-> x]
    /\ \A n \in 1..top :
          kept[n] = IF n \in Eliminated(clist, rows) THEN Joined(kept[n - 1], plist, clist[n].params)
                    ELSE kept[n - 1]

EliminatedIn(clist, rows, plist) ==
    \A n \in Eliminated(clist, rows) : clist[n].params[1] \in plist /\ clist[n].params[2] \in plist

KeptBy(clist, rows, plist, kept, top) ==
    /\ kept \in [0..top -> [plist -> plist]] /\ KeptUpTo(clist, rows, plist, kept, top)
    /\ Kept(clist, rows, plist) = kept[top]

LEMMA KeptIsMade ==
    ASSUME NEW clist, NEW top \in Nat, top = Len(clist), NEW rows, NEW plist,
           EliminatedIn(clist, rows, plist)
    PROVE  \E kept : KeptBy(clist, rows, plist, kept, top)
<1> DEFINE To(n, f) == IF n \in Eliminated(clist, rows) THEN Joined(f, plist, clist[n].params) ELSE f
           same == [x \in plist |-> x]
           step == [i \in 1..top |-> [f \in [plist -> plist] |-> To(i, f)]]
           MadeOf(h) == h = [n \in 0..top |-> IF n = 0 THEN same ELSE To(n, h[n - 1])]
<1>1. \A n, f : f \in [plist -> plist] => To(n, f) \in [plist -> plist]
    <2> SUFFICES ASSUME NEW n, NEW f \in [plist -> plist], n \in Eliminated(clist, rows)
                 PROVE  Joined(f, plist, clist[n].params) \in [plist -> plist]
        OBVIOUS
    <2>1. clist[n].params[1] \in plist /\ clist[n].params[2] \in plist
        BY DEF EliminatedIn
    <2>2. PICK p, q \in plist : p = clist[n].params[1] /\ q = clist[n].params[2]
        BY <2>1
    <2>3. Joined(f, plist, clist[n].params) = [x \in plist |-> IF f[x] = f[q] THEN f[p] ELSE f[x]]
        BY <2>2 DEF Joined
    <2> QED BY <2>3
<1> HIDE DEF To
<1>2. same \in [plist -> plist]
    OBVIOUS
<1> HIDE DEF same
<1>3. step \in [1..top -> [[plist -> plist] -> [plist -> plist]]]
    BY <1>1
<1>4. PICK h \in [0..top -> [plist -> plist]] : MadeUpTo(top, h, same, step)
    <2>1. PICK D : D = [plist -> plist]
        OBVIOUS
    <2>2. same \in D
        BY <1>2, <2>1
    <2>3. step \in [1..top -> [D -> D]]
        <3> HIDE DEF step
        <3> QED BY <1>3, <2>1
    <2> HIDE DEF step
    <2>4. \E h \in [0..top -> D] : MadeUpTo(top, h, same, step)
        BY <2>2, <2>3, StepsExist
    <2> QED BY <2>1, <2>4
<1>5. MadeOf(h)
    <2>1. ASSUME NEW i \in 1..top PROVE h[i] = To(i, h[i - 1])
        <3>1. h[i - 1] \in [plist -> plist]
            <4>1. i - 1 \in 0..top
                OBVIOUS
            <4> QED BY <4>1
        <3>2. h[i] = step[i][h[i - 1]]
            <4> HIDE DEF step
            <4> QED BY <1>4 DEF MadeUpTo
        <3> QED BY <3>1, <3>2
    <2>2. h[0] = same
        <3> HIDE DEF step
        <3> QED BY <1>4 DEF MadeUpTo
    <2>3. \A i \in 0..top : h[i] = IF i = 0 THEN same ELSE To(i, h[i - 1])
        <3>1. \A i \in 0..top : i # 0 => i \in 1..top
            OBVIOUS
        <3> QED BY <2>1, <2>2, <3>1, Zenon
    <2>4. h = [i \in 0..top |-> h[i]]
        OBVIOUS
    <2> QED BY <2>3, <2>4, Zenon
<1> DEFINE k == CHOOSE g : MadeOf(g)
<1>6. Kept(clist, rows, plist) = k[top]
    BY Zenon DEF Kept, same, To
<1>7. MadeOf(k)
    <2> HIDE DEF MadeOf
    <2> QED BY <1>5
<1> HIDE DEF k
<1>8. k[0] = same /\ \A n \in 1..top : k[n] = To(n, k[n - 1])
    <2>1. ASSUME NEW n \in 1..top PROVE k[n] = To(n, k[n - 1])
        <3>1. n \in 0..top /\ n # 0
            OBVIOUS
        <3> QED BY <1>7, <3>1, Zenon
    <2>2. k[0] = same
        <3>1. 0 \in 0..top
            OBVIOUS
        <3> QED BY <1>7, <3>1, Zenon
    <2> QED BY <2>1, <2>2
<1>9. KeptUpTo(clist, rows, plist, k, top)
    BY <1>8, Zenon DEF KeptUpTo, To, same
<1> DEFINE T == {i \in 0..top : k[i] \in [plist -> plist]}
<1>10. 0 \in T
    BY <1>2, <1>8
<1>11. ASSUME NEW i \in 1..top, i - 1 \in T PROVE i \in T
    BY <1>1, <1>8, <1>11
<1>12. 0..top \subseteq T
    <2> HIDE DEF T
    <2> QED BY <1>10, <1>11, UpTo
<1>13. k \in [0..top -> [plist -> plist]]
    <2>1. k = [i \in 0..top |-> k[i]]
        BY <1>7, Zenon
    <2>2. \A i \in 0..top : k[i] \in [plist -> plist]
        BY <1>12
    <2> QED BY <2>1, <2>2
<1>14. KeptBy(clist, rows, plist, k, top)
    BY <1>6, <1>9, <1>13, Zenon DEF KeptBy
<1> QED BY <1>14

-----------------------------------------------------------------------------
(* The values that solvers find, component by component.                    *)
PartialOn(all) == UNION {[u -> Values] : u \in SUBSET all}

LEMMA PartialValues ==
    ASSUME NEW all
    PROVE  /\ <<>> \in PartialOn(all)
           /\ \A d \in PartialOn(all) : d = [p \in DOMAIN d |-> d[p]] /\ \A p \in DOMAIN d : d[p] \in Values
           /\ \A d, v \in PartialOn(all) : Over(d, v) \in PartialOn(all)
<1>1. \A d, u : u \in SUBSET all /\ d \in [u -> Values] => d \in PartialOn(all)
    BY Zenon DEF PartialOn
<1>2. ASSUME NEW d \in PartialOn(all) PROVE DOMAIN d \in SUBSET all /\ d \in [DOMAIN d -> Values]
    <2>1. PICK u \in SUBSET all : d \in [u -> Values]
        BY Zenon DEF PartialOn
    <2> QED BY <2>1
<1>3. <<>> \in [{} -> Values]
    OBVIOUS
<1>4. <<>> \in PartialOn(all)
    BY <1>1, <1>3, Zenon
<1>5. ASSUME NEW d \in PartialOn(all), NEW v \in PartialOn(all) PROVE Over(d, v) \in PartialOn(all)
    <2>1. d \in [DOMAIN d -> Values] /\ v \in [DOMAIN v -> Values]
        BY <1>2
    <2>2. PICK u : u = DOMAIN d \union DOMAIN v
        OBVIOUS
    <2>3. Over(d, v) = [p \in u |-> IF p \in DOMAIN d THEN d[p] ELSE v[p]]
        BY <2>2 DEF Over
    <2>4. \A p \in u : (IF p \in DOMAIN d THEN d[p] ELSE v[p]) \in Values
        BY <2>1, <2>2
    <2>5. Over(d, v) \in [u -> Values]
        BY <2>3, <2>4
    <2>6. u \in SUBSET all
        BY <1>2, <2>2
    <2> QED BY <1>1, <2>5, <2>6, Zenon
<1>6. \A d \in PartialOn(all) : d = [p \in DOMAIN d |-> d[p]] /\ \A p \in DOMAIN d : d[p] \in Values
    BY <1>2
<1> QED BY <1>4, <1>5, <1>6

SolvedUpTo(alg, clist, comps, kept, ref, done, top) ==
    /\ done[0] = {<<>>}
    /\ \A n \in 1..top :
          done[n] = Extended(done[n - 1], SolveBy(alg, clist, Subsystem(clist, comps[n], kept), kept, ref))

LEMMA SolverValues ==
    ASSUME NEW alg \in Algorithms, NEW clist, NEW sub, NEW kept, NEW ref
    PROVE  /\ SolveBy(alg, clist, sub, kept, ref) \subseteq [sub.unknowns -> Values]
           /\ alg # "BFGS" => \A v \in SolveBy(alg, clist, sub, kept, ref) :
                 \A r \in sub.rows : Satisfied(Reduced(clist[r], kept), Over(v, ref))
<1>1. /\ SolveDL(clist, sub, kept, ref) \subseteq [sub.unknowns -> Values]
      /\ \A v \in SolveDL(clist, sub, kept, ref) :
            \A r \in sub.rows : Satisfied(Reduced(clist[r], kept), Over(v, ref))
    BY Zenon DEF SolveDL
<1>2. /\ alg = "DogLeg" => SolveBy(alg, clist, sub, kept, ref) = SolveDL(clist, sub, kept, ref)
      /\ alg = "LevenbergMarquardt" => SolveBy(alg, clist, sub, kept, ref) = SolveDL(clist, sub, kept, ref)
      /\ alg = "BFGS" => SolveBy(alg, clist, sub, kept, ref) = [sub.unknowns -> Values]
    BY DEF SolveBy, SolveLM, SolveBFGS
<1> QED BY <1>1, <1>2 DEF Algorithms

LEMMA SolvesAreMade ==
    ASSUME NEW alg \in Algorithms, NEW clist, NEW rows, NEW kept, NEW ref, NEW comps, NEW top \in Nat,
           comps = SetToSeq(Components(clist, rows)), Len(comps) = top
    PROVE  \E done : /\ SolvedUpTo(alg, clist, comps, kept, ref, done, top)
                     /\ Solves(alg, clist, rows, kept, ref) = done[top]
                     /\ \A n \in 0..top : \A d \in done[n] :
                           d = [p \in DOMAIN d |-> d[p]] /\ \A p \in DOMAIN d : d[p] \in Values
<1> DEFINE By(n) == SolveBy(alg, clist, Subsystem(clist, comps[n], kept), kept, ref)
           To(n, ds) == Extended(ds, By(n))
           MadeOf(h) == h = [n \in 0..top |-> IF n = 0 THEN {<<>>} ELSE To(n, h[n - 1])]
<1>1. PICK all : \A n \in 1..top : Subsystem(clist, comps[n], kept).unknowns \subseteq all
    <2>1. \A n \in 1..top : Subsystem(clist, comps[n], kept).unknowns
              \subseteq UNION {Subsystem(clist, comps[m], kept).unknowns : m \in 1..top}
        BY Zenon
    <2> QED BY <2>1, Zenon
<1>2. PICK D : D = SUBSET PartialOn(all)
    OBVIOUS
<1>3. ASSUME NEW n \in 1..top, NEW ds \in D PROVE To(n, ds) \in D
    <2>1. ASSUME NEW d \in ds, NEW v \in By(n) PROVE Over(d, v) \in PartialOn(all)
        <3>1. v \in [Subsystem(clist, comps[n], kept).unknowns -> Values]
            BY SolverValues, Zenon
        <3>2. v \in PartialOn(all)
            BY <1>1, <3>1, Zenon DEF PartialOn
        <3>3. d \in PartialOn(all)
            BY <1>2
        <3> QED BY <3>2, <3>3, PartialValues
    <2> HIDE DEF By
    <2>2. To(n, ds) \subseteq PartialOn(all)
        BY <2>1 DEF Extended
    <2> HIDE DEF To
    <2> QED BY <1>2, <2>2
<1> HIDE DEF To, By
<1> DEFINE step == [i \in 1..top |-> [ds \in D |-> To(i, ds)]]
<1>4. step \in [1..top -> [D -> D]]
    BY <1>3
<1>5. PICK start \in D : start = {<<>>}
    <2>1. {<<>>} \subseteq PartialOn(all)
        BY PartialValues
    <2> QED BY <1>2, <2>1
<1>6. PICK h \in [0..top -> D] : MadeUpTo(top, h, start, step)
    <2> HIDE DEF step
    <2> QED BY <1>4, StepsExist
<1>7. MadeOf(h)
    <2>1. ASSUME NEW i \in 1..top PROVE h[i] = To(i, h[i - 1])
        <3>1. h[i - 1] \in D
            OBVIOUS
        <3>2. h[i] = step[i][h[i - 1]]
            BY <1>6 DEF MadeUpTo
        <3> QED BY <3>1, <3>2
    <2>2. h[0] = {<<>>}
        BY <1>5, <1>6 DEF MadeUpTo
    <2>3. \A i \in 0..top : h[i] = IF i = 0 THEN {<<>>} ELSE To(i, h[i - 1])
        <3>1. \A i \in 0..top : i # 0 => i \in 1..top
            OBVIOUS
        <3> QED BY <2>1, <2>2, <3>1, Zenon
    <2>4. h = [i \in 0..top |-> h[i]]
        OBVIOUS
    <2> QED BY <2>3, <2>4, Zenon
<1> DEFINE k == CHOOSE g : MadeOf(g)
<1>8. Solves(alg, clist, rows, kept, ref) = k[top]
    BY Zenon DEF Solves, To, By
<1>9. MadeOf(k)
    <2> HIDE DEF MadeOf
    <2> QED BY <1>7
<1> HIDE DEF k
<1>10. k[0] = {<<>>} /\ \A n \in 1..top : k[n] = To(n, k[n - 1])
    <2>1. ASSUME NEW n \in 1..top PROVE k[n] = To(n, k[n - 1])
        <3>1. n \in 0..top /\ n # 0
            OBVIOUS
        <3> QED BY <1>9, <3>1, Zenon
    <2>2. k[0] = {<<>>}
        <3>1. 0 \in 0..top
            OBVIOUS
        <3> QED BY <1>9, <3>1, Zenon
    <2> QED BY <2>1, <2>2
<1>11. SolvedUpTo(alg, clist, comps, kept, ref, k, top)
    BY <1>10, Zenon DEF SolvedUpTo, To, By
<1> DEFINE T == {i \in 0..top : k[i] \in D}
<1>12. 0 \in T
    BY <1>5, <1>10
<1>13. ASSUME NEW i \in 1..top, i - 1 \in T PROVE i \in T
    BY <1>3, <1>10, <1>13
<1>14. 0..top \subseteq T
    <2> HIDE DEF T
    <2> QED BY <1>12, <1>13, UpTo
<1>15. ASSUME NEW n \in 0..top, NEW d \in k[n]
       PROVE  d = [p \in DOMAIN d |-> d[p]] /\ \A p \in DOMAIN d : d[p] \in Values
    <2>1. k[n] \in D
        BY <1>14
    <2>2. d \in PartialOn(all)
        BY <1>2, <2>1
    <2> QED BY <2>2, PartialValues
<1> QED BY <1>8, <1>11, <1>15

-----------------------------------------------------------------------------
LEMMA ListLength ==
    ASSUME NEW n \in Nat, NEW f, f = [i \in 1..n |-> f[i]]
    PROVE  Len(f) = n
<1>1. f \in [1..n -> {f[i] : i \in 1..n}]
    OBVIOUS
<1> QED BY <1>1

(* The families an entity of a constraint may come from.                    *)
LEMMA SchemaFamilies ==
    ASSUME NEW type \in ConstraintTypes, NEW k \in 1..3
    PROVE  ConstraintSchemaFor(type).e[k] \in Families \cup {"AnyCurve", "CircleOrArc", "None"}
<1>1. type \in OnPointsTypes \/ type \in OnLinesTypes \/ type \in CurveTypes \/ type \in OnTwoTypes
    BY DEF ConstraintTypes
<1>2. k = 1 \/ k = 2 \/ k = 3
    OBVIOUS
<1>3. CASE type \in OnPointsTypes
    BY <1>2, <1>3, SchemasAre, SchemaEntities DEF OnPointsTypes, Families
<1>4. CASE type \in OnLinesTypes
    BY <1>2, <1>4, SchemasAre, SchemaEntities DEF OnLinesTypes, Families
<1>5. CASE type \in CurveTypes
    BY <1>2, <1>5, SchemasAre, SchemaEntities DEF CurveTypes, Families
<1>6. CASE type \in OnTwoTypes
    BY <1>2, <1>6, SchemasAre, SchemaEntities DEF OnTwoTypes, Families
<1> QED BY <1>1, <1>3, <1>4, <1>5, <1>6

LEMMA MembersAreFamilies ==
    ASSUME NEW fam \in Families \cup {"AnyCurve", "CircleOrArc", "None"}
    PROVE  /\ Members(fam) \in Seq(Families)
           /\ ToSet(Members(fam)) \subseteq Families
           /\ fam \in Families => Members(fam) = <<fam>>
           /\ ~(Len(Members(fam)) > 1) /\ fam # "None" => fam \in Families
<1>1. CASE fam \in Families
    BY <1>1, MembersAre
<1>2. CASE fam = "AnyCurve"
    <2>1. Members(fam) = <<"Line", "Circle", "Arc">>
        BY <1>2 DEF Members
    <2>2. Len(<<"Line", "Circle", "Arc">>) = 3 /\ <<"Line", "Circle", "Arc">> \in Seq(Families)
        BY DEF Families
    <2>3. ToSet(Members(fam)) \subseteq Families /\ fam \notin Families
        BY <1>2, MembersAre DEF Families
    <2>4. Members(fam) \in Seq(Families) /\ Len(Members(fam)) > 1
        BY <2>1, <2>2
    <2> QED BY <2>3, <2>4
<1>3. CASE fam = "CircleOrArc"
    <2>1. Members(fam) = <<"Circle", "Arc">>
        BY <1>3 DEF Members
    <2>2. Len(<<"Circle", "Arc">>) = 2 /\ <<"Circle", "Arc">> \in Seq(Families)
        BY DEF Families
    <2>3. ToSet(Members(fam)) \subseteq Families /\ fam \notin Families
        BY <1>3, MembersAre DEF Families
    <2>4. Members(fam) \in Seq(Families) /\ Len(Members(fam)) > 1
        BY <2>1, <2>2
    <2> QED BY <2>3, <2>4
<1>4. CASE fam = "None"
    <2>1. Members(fam) = <<>>
        BY <1>4 DEF Members
    <2>2. Members(fam) \in Seq(Families)
        BY <2>1
    <2>3. ToSet(Members(fam)) = {} /\ fam \notin Families
        BY <1>4, MembersAre DEF Families
    <2> QED BY <1>4, <2>2, <2>3
<1> QED BY <1>1, <1>2, <1>3, <1>4

-----------------------------------------------------------------------------
(* The slots of a sketch, and the live among them.                          *)

Live(fam) == {id \in 0 .. Len(slots[fam]) - 1 : InSlot(fam, id)}

LEMMA SlotTypes ==
    ASSUME SKTypeOK, NEW fam \in Families
    PROVE  /\ Len(slots[fam]) \in Nat /\ DOMAIN slots[fam] = 1..Len(slots[fam])
           /\ \A i \in 1..Len(slots[fam]) : slots[fam][i] \in StoredEntities(fam)
           /\ \A i \in 1..Len(slots[fam]) :
                 /\ slots[fam][i].removed \in BOOLEAN /\ slots[fam][i].construction \in BOOLEAN
                 /\ slots[fam][i].vals \in [Parts(fam) -> Values \union {NaN}]
           /\ \A id : InSlot(fam, id) /\ id \in Int => id \in 0..(Len(slots[fam]) - 1)
<1>1. slots[fam] \in Seq(StoredEntities(fam))
    BY DEF SKTypeOK
<1>2. /\ Len(slots[fam]) \in Nat /\ DOMAIN slots[fam] = 1..Len(slots[fam])
      /\ \A i \in 1..Len(slots[fam]) : slots[fam][i] \in StoredEntities(fam)
    BY <1>1
<1>3. ASSUME NEW s \in StoredEntities(fam)
      PROVE  /\ s.removed \in BOOLEAN /\ s.construction \in BOOLEAN
             /\ s.vals \in [Parts(fam) -> Values \union {NaN}]
    BY DEF StoredEntities
<1>4. ASSUME NEW id \in Int, InSlot(fam, id) PROVE id \in 0..(Len(slots[fam]) - 1)
    BY <1>2, <1>4 DEF InSlot
<1> QED BY <1>2, <1>3, <1>4

LEMMA LivePositions ==
    ASSUME SKTypeOK, NEW fam \in Families
    PROVE  /\ LiveCounts[fam] \in Nat
           /\ \A id \in Int : InSlot(fam, id) =>
                 /\ Position(fam, id) \in 0..(LiveCounts[fam] - 1)
                 /\ LiveIds(fam)[Position(fam, id) + 1] = id
           /\ \A id \in Int : ~InSlot(fam, id) => Position(fam, id) = -1
           /\ \A k \in 1..LiveCounts[fam] :
                 /\ LiveIds(fam)[k] \in Int /\ InSlot(fam, LiveIds(fam)[k])
                 /\ Position(fam, LiveIds(fam)[k]) = k - 1
<1>1. PICK top \in Nat : top = Len(slots[fam])
    BY SlotTypes
<1>2. PICK ids : ids = Live(fam)
    OBVIOUS
<1>3. ids \subseteq 0..(top - 1)
    BY <1>1, <1>2, Zenon DEF Live
<1>4. /\ Cardinality(ids) \in Nat
      /\ \A id \in ids : Before(ids, id) \in 0..(Cardinality(ids) - 1)
                         /\ InOrder(ids)[Before(ids, id) + 1] = id
      /\ \A k \in 1..Cardinality(ids) : InOrder(ids)[k] \in ids
                         /\ Before(ids, InOrder(ids)[k]) = k - 1
    BY <1>3, InOrderIs
<1>5. LiveIds(fam) = InOrder(ids)
    BY <1>2, Zenon DEF LiveIds, Live
<1>6. PICK many \in Nat : many = Cardinality(ids)
    BY <1>4
<1>7. LiveCounts[fam] = many
    <2>1. PICK f : f = InOrder(ids)
        OBVIOUS
    <2>2. f = [k \in 1..many |-> f[k]]
        <3> DEFINE At1(k) == CHOOSE id \in ids : Cardinality({j \in ids : j < id}) = k - 1
        <3>1. f = [k \in 1..many |-> At1(k)]
            BY <1>6, <2>1, Zenon DEF InOrder
        <3> HIDE DEF At1
        <3> QED BY <3>1
    <2>3. Len(f) = many
        BY <2>2, ListLength
    <2>4. LiveCounts[fam] = Len(LiveIds(fam))
        BY Zenon DEF LiveCounts
    <2> QED BY <1>5, <2>1, <2>3, <2>4
<1>8. ASSUME NEW id \in Int, InSlot(fam, id)
      PROVE  id \in ids /\ Position(fam, id) = Before(ids, id)
    <2>1. id \in 0..(top - 1)
        BY <1>1, <1>8, SlotTypes
    <2>2. id \in ids
        BY <1>1, <1>2, <1>8, <2>1, Zenon DEF Live
    <2>3. {j \in 0..(id - 1) : InSlot(fam, j)} = {j \in ids : j < id}
        <3>1. \A j : j \in 0..(id - 1) /\ InSlot(fam, j) <=> j \in ids /\ j < id
            <4>1. ASSUME NEW j, j \in 0..(id - 1), InSlot(fam, j) PROVE j \in ids /\ j < id
                <5>1. j \in 0..(top - 1) /\ j < id
                    BY <2>1, <4>1
                <5> QED BY <1>1, <1>2, <4>1, <5>1 DEF Live
            <4>2. ASSUME NEW j, j \in ids, j < id PROVE j \in 0..(id - 1) /\ InSlot(fam, j)
                <5>1. j \in 0..(top - 1) /\ InSlot(fam, j)
                    BY <1>1, <1>2, <4>2 DEF Live
                <5> QED BY <2>1, <4>2, <5>1
            <4> QED BY <4>1, <4>2
        <3> QED BY <3>1, Zenon
    <2> QED BY <1>8, <2>2, <2>3 DEF Position, Before
<1>9. ASSUME NEW id \in ids PROVE id \in Int /\ InSlot(fam, id)
    <2>1. InSlot(fam, id)
        BY <1>2, Zenon DEF Live
    <2> QED BY <1>3, <2>1
<1>10. \A id \in Int : ~InSlot(fam, id) => Position(fam, id) = -1
    BY DEF Position
<1>11. ASSUME NEW id \in Int, InSlot(fam, id)
       PROVE  /\ Position(fam, id) \in 0..(many - 1)
              /\ LiveIds(fam)[Position(fam, id) + 1] = id
    BY <1>4, <1>5, <1>6, <1>8, <1>11
<1>12. ASSUME NEW k \in 1..many
       PROVE  /\ LiveIds(fam)[k] \in Int /\ InSlot(fam, LiveIds(fam)[k])
              /\ Position(fam, LiveIds(fam)[k]) = k - 1
    <2>1. PICK id : id = LiveIds(fam)[k]
        OBVIOUS
    <2>2. id \in ids /\ Before(ids, id) = k - 1
        BY <1>4, <1>5, <1>6, <2>1
    <2>3. id \in Int /\ InSlot(fam, id)
        BY <1>9, <2>2
    <2>4. Position(fam, id) = k - 1
        BY <1>8, <2>2, <2>3
    <2> QED BY <2>1, <2>3, <2>4
<1> QED BY <1>7, <1>10, <1>11, <1>12

(* The parameters of the live entities and their values.                    *)
LEMMA LiveParametersAre ==
    ASSUME SKTypeOK
    PROVE  /\ \A fam \in Families : \A i \in 0..(LiveCounts[fam] - 1) : \A part \in Parts(fam) :
                 <<fam, i, part>> \in LiveParameters
           /\ \A p \in LiveParameters :
                 \E fam \in Families : \E i \in 0..(LiveCounts[fam] - 1) : \E part \in Parts(fam) :
                    p = <<fam, i, part>>
<1> DEFINE Own(fam) == UNION {Parameters(fam, i) : i \in 0 .. LiveCounts[fam] - 1}
<1>1. LiveParameters = UNION {Own(fam) : fam \in Families}
    BY Zenon DEF LiveParameters
<1>2. \A fam, p : p \in Own(fam) <=> \E i \in 0..(LiveCounts[fam] - 1) : p \in Parameters(fam, i)
    BY Zenon
<1>3. \A fam, i, p : p \in Parameters(fam, i) <=> \E part \in Parts(fam) : p = <<fam, i, part>>
    BY Zenon DEF Parameters
<1> HIDE DEF Own
<1>4. \A p : p \in LiveParameters <=> \E fam \in Families : p \in Own(fam)
    BY <1>1, Zenon
<1>5. ASSUME NEW fam \in Families, NEW i \in 0..(LiveCounts[fam] - 1), NEW part \in Parts(fam)
      PROVE  <<fam, i, part>> \in LiveParameters
    BY <1>2, <1>3, <1>4, Zenon
<1>6. ASSUME NEW p \in LiveParameters
      PROVE  \E fam \in Families : \E i \in 0..(LiveCounts[fam] - 1) : \E part \in Parts(fam) :
                 p = <<fam, i, part>>
    <2>1. PICK fam \in Families : p \in Own(fam)
        BY <1>4
    <2>2. PICK i \in 0..(LiveCounts[fam] - 1) : p \in Parameters(fam, i)
        BY <1>2, <2>1
    <2>3. PICK part \in Parts(fam) : p = <<fam, i, part>>
        BY <1>3, <2>2
    <2> QED BY <2>3
<1> QED BY <1>5, <1>6

LEMMA LiveValuesFit ==
    ASSUME SKTypeOK
    PROVE  /\ DOMAIN LiveValues = LiveParameters
           /\ \A p \in LiveParameters : LiveValues[p] \in Values \union {NaN}
           /\ \A fam, i, part : Public(<<fam, i, part>>) = <<fam, LiveIds(fam)[i + 1], part>>
<1>1. \A fam, i, part : Public(<<fam, i, part>>) = <<fam, LiveIds(fam)[i + 1], part>>
    BY DEF Public
<1>2. ASSUME NEW p \in LiveParameters PROVE LiveValues[p] \in Values \union {NaN}
    <2>1. PICK fam \in Families : \E i \in 0..(LiveCounts[fam] - 1) : \E part \in Parts(fam) :
              p = <<fam, i, part>>
        BY LiveParametersAre
    <2>2. PICK many \in Nat : many = LiveCounts[fam]
        BY LivePositions
    <2>3. PICK i \in 0..(many - 1) : \E part \in Parts(fam) : p = <<fam, i, part>>
        BY <2>1, <2>2
    <2>4. PICK part \in Parts(fam) : p = <<fam, i, part>>
        BY <2>3
    <2>5. i + 1 \in 1..many
        OBVIOUS
    <2>6. PICK id : id = LiveIds(fam)[i + 1]
        OBVIOUS
    <2>7. id \in Int /\ InSlot(fam, id)
        BY <2>2, <2>5, <2>6, LivePositions
    <2>8. id \in 0..(Len(slots[fam]) - 1) /\ Len(slots[fam]) \in Nat
        BY <2>7, SlotTypes
    <2>9. id + 1 \in 1..Len(slots[fam])
        BY <2>8
    <2>10. slots[fam][id + 1].vals \in [Parts(fam) -> Values \union {NaN}]
        BY <2>9, SlotTypes
    <2>11. p[1] = fam /\ p[3] = part /\ Public(p)[2] = id
        BY <1>1, <2>4, <2>6
    <2>12. LiveValues[p] = slots[fam][id + 1].vals[part]
        BY <2>11 DEF LiveValues
    <2> QED BY <2>10, <2>12
<1>3. DOMAIN LiveValues = LiveParameters
    BY DEF LiveValues
<1> QED BY <1>1, <1>2, <1>3

-----------------------------------------------------------------------------
LEMMA ConstraintSlotTypes ==
    ASSUME SKTypeOK
    PROVE  /\ Len(constraintSlots) \in Nat /\ DOMAIN constraintSlots = 1..Len(constraintSlots)
           /\ \A i \in 1..Len(constraintSlots) :
                 /\ constraintSlots[i] \in StoredConstraints
                 /\ constraintSlots[i].type \in ConstraintTypes
                 /\ constraintSlots[i].e \in [1..3 -> Int]
                 /\ constraintSlots[i].removed \in BOOLEAN
<1>1. constraintSlots \in Seq(StoredConstraints)
    BY DEF SKTypeOK
<1>2. /\ Len(constraintSlots) \in Nat /\ DOMAIN constraintSlots = 1..Len(constraintSlots)
      /\ \A i \in 1..Len(constraintSlots) : constraintSlots[i] \in StoredConstraints
    BY <1>1
<1>3. \A c \in StoredConstraints :
         c.type \in ConstraintTypes /\ c.e \in [1..3 -> Int] /\ c.removed \in BOOLEAN
    BY DEF StoredConstraints
<1> QED BY <1>2, <1>3

(* A constraint's entities in a solve: positions among the live.            *)
LEMMA ResolvedEntities ==
    ASSUME SKTypeOK, NEW c, c.type \in ConstraintTypes, c.e \in [1..3 -> Int], NEW k \in 1..3
    PROVE  /\ Resolved(c)[k] \in Int
           /\ \A fam \in Families :
                 ConstraintSchemaFor(c.type).e[k] = fam /\ Resolved(c)[k] >= 0 =>
                    InSlot(fam, c.e[k]) /\ Resolved(c)[k] = Position(fam, c.e[k])
<1>1. PICK any, id : any = ConstraintSchemaFor(c.type).e[k] /\ id = c.e[k]
    OBVIOUS
<1>2. any \in Families \cup {"AnyCurve", "CircleOrArc", "None"} /\ id \in Int
    BY <1>1, SchemaFamilies
<1>3. Resolved(c)[k] = ResolveEntity(any, id)
    BY <1>1 DEF Resolved
<1>4. PICK members : members = Members(any)
    OBVIOUS
<1>5. members \in Seq(Families)
    BY <1>2, <1>4, MembersAreFamilies
<1>6. PICK found : found = {j \in DOMAIN members : InSlot(members[j], id)}
    OBVIOUS
<1>7. ResolveEntity(any, id) = IF found = {} THEN -1 ELSE Position(members[Min(found)], id)
    BY <1>4, <1>6 DEF ResolveEntity
<1>8. CASE found = {}
    <2>1. Resolved(c)[k] = -1
        BY <1>3, <1>7, <1>8
    <2> QED BY <2>1
<1>9. CASE found # {}
    <2>1. found \in SUBSET Nat
        BY <1>5, <1>6
    <2>2. \E m \in found : \A j \in found : m <= j
        BY <1>9, <2>1, LeastExists
    <2>3. PICK m \in found : m = Min(found)
        BY <2>2, Zenon DEF Min
    <2>4. m \in DOMAIN members /\ InSlot(members[m], id) /\ members[m] \in Families
        BY <1>5, <1>6
    <2>5. Resolved(c)[k] = Position(members[m], id)
        BY <1>3, <1>7, <1>9, <2>3
    <2>6. LiveCounts[members[m]] \in Nat /\ Position(members[m], id) \in 0..(LiveCounts[members[m]] - 1)
        BY <1>2, <2>4, LivePositions
    <2>7. Resolved(c)[k] \in Int
        BY <2>5, <2>6
    <2>8. ASSUME NEW fam \in Families, any = fam
          PROVE  InSlot(fam, id) /\ Resolved(c)[k] = Position(fam, id)
        <3>1. members = <<fam>>
            BY <1>4, <2>8, MembersAre
        <3>2. members[m] = fam
            BY <2>4, <3>1
        <3> QED BY <2>4, <2>5, <3>2
    <2> QED BY <1>1, <2>7, <2>8
<1> QED BY <1>8, <1>9

(* The live constraints, and what a solve gets of them.                     *)
LEMMA LiveConstraintsAre ==
    ASSUME SKTypeOK
    PROVE  \E many \in Nat :
              /\ DOMAIN LiveConstraints = 1..many
              /\ \A k \in 1..many : LiveConstraints[k] \in 0..(Len(constraintSlots) - 1)
              /\ \A j, k \in 1..many : LiveConstraints[j] = LiveConstraints[k] => j = k
              /\ Len(LiveList) = many /\ DOMAIN LiveList = 1..many
              /\ \A k \in 1..many :
                    LiveList[k] = [type |-> constraintSlots[LiveConstraints[k] + 1].type,
                                   e |-> Resolved(constraintSlots[LiveConstraints[k] + 1]),
                                   value |-> constraintSlots[LiveConstraints[k] + 1].value]
<1>1. PICK top \in Nat : top = Len(constraintSlots)
    BY ConstraintSlotTypes
<1>2. PICK ids : ids = {id \in 0 .. Len(constraintSlots) - 1 :
                ~constraintSlots[id + 1].removed /\ Translates(constraintSlots[id + 1])}
    OBVIOUS
<1>3. ids \subseteq 0..(top - 1)
    BY <1>1, <1>2, Zenon
<1>4. /\ Cardinality(ids) \in Nat
      /\ \A k \in 1..Cardinality(ids) : InOrder(ids)[k] \in ids
                         /\ Before(ids, InOrder(ids)[k]) = k - 1
    BY <1>3, InOrderIs
<1>5. PICK list : list = LiveConstraints
    OBVIOUS
<1>6. list = InOrder(ids)
    BY <1>2, <1>5, Zenon DEF LiveConstraints
<1>7. PICK many \in Nat : many = Cardinality(ids)
    BY <1>4
<1>8. DOMAIN list = 1..many
    <2> DEFINE At1(k) == CHOOSE id \in ids : Cardinality({j \in ids : j < id}) = k - 1
    <2>1. list = [k \in 1..many |-> At1(k)]
        BY <1>6, <1>7, Zenon DEF InOrder
    <2> HIDE DEF At1
    <2> QED BY <2>1
<1>9. \A k \in 1..many : list[k] \in 0..(top - 1) /\ Before(ids, list[k]) = k - 1
    BY <1>3, <1>4, <1>6, <1>7
<1>10. ASSUME NEW j \in 1..many, NEW k \in 1..many, list[j] = list[k] PROVE j = k
    <2>1. j - 1 = k - 1
        BY <1>9, <1>10
    <2> QED BY <2>1
<1> DEFINE Given(k) == [type |-> constraintSlots[list[k] + 1].type,
                        e |-> Resolved(constraintSlots[list[k] + 1]),
                        value |-> constraintSlots[list[k] + 1].value]
<1>11. LiveList = [k \in 1..many |-> Given(k)]
    BY <1>5, <1>8, Zenon DEF LiveList
<1>12. \A k \in 1..many : LiveList[k] = Given(k)
    BY <1>11, Zenon
<1>13. Len(LiveList) = many /\ DOMAIN LiveList = 1..many
    <2> HIDE DEF Given
    <2>1. PICK given : given = LiveList
        OBVIOUS
    <2>2. given = [k \in 1..many |-> given[k]] /\ DOMAIN given = 1..many
        BY <1>11, <2>1
    <2> QED BY <2>1, <2>2, ListLength
<1>14. \A k \in 1..many : list[k] \in 0..(Len(constraintSlots) - 1)
    BY <1>1, <1>9
<1> QED BY <1>5, <1>8, <1>10, <1>12, <1>13, <1>14

LEMMA LiveListFits ==
    ASSUME SKTypeOK, ~Refused(LiveList, LiveCounts, LiveValues), NEW k \in 1..Len(LiveList)
    PROVE  SmallConstraint(LiveList[k], LiveCounts)
<1>1. PICK many \in Nat :
         /\ \A j \in 1..many : LiveConstraints[j] \in 0..(Len(constraintSlots) - 1)
         /\ Len(LiveList) = many /\ DOMAIN LiveList = 1..many
         /\ \A j \in 1..many :
               LiveList[j] = [type |-> constraintSlots[LiveConstraints[j] + 1].type,
                              e |-> Resolved(constraintSlots[LiveConstraints[j] + 1]),
                              value |-> constraintSlots[LiveConstraints[j] + 1].value]
    BY LiveConstraintsAre
<1>2. PICK id : id = LiveConstraints[k]
    OBVIOUS
<1>3. id + 1 \in 1..Len(constraintSlots)
    BY <1>1, <1>2, ConstraintSlotTypes
<1>4. PICK c : c = constraintSlots[id + 1]
    OBVIOUS
<1>5. c.type \in ConstraintTypes /\ c.e \in [1..3 -> Int]
    BY <1>3, <1>4, ConstraintSlotTypes
<1>6. LiveList[k].type = c.type /\ LiveList[k].e = Resolved(c)
    BY <1>1, <1>2, <1>4
<1>7. Resolved(c) \in [1..3 -> Int]
    <2>1. PICK r : r = Resolved(c)
        OBVIOUS
    <2>2. \A j \in 1..3 : r[j] \in Int
        BY <1>5, <2>1, ResolvedEntities
    <2>3. r = [j \in 1..3 |-> r[j]]
        BY <2>1 DEF Resolved
    <2> QED BY <2>1, <2>2, <2>3
<1>8. ~BadConstraint(LiveList[k], LiveCounts)
    BY <1>1, Zenon DEF Refused
<1>9. LiveCounts \in [Families -> Nat]
    <2>1. PICK counts : counts = LiveCounts
        OBVIOUS
    <2>2. \A fam \in Families : counts[fam] \in Nat
        BY <2>1, LivePositions
    <2>3. counts = [fam \in Families |-> counts[fam]]
        BY <2>1 DEF LiveCounts
    <2> QED BY <2>1, <2>2, <2>3
<1> QED BY <1>5, <1>6, <1>7, <1>8, <1>9 DEF SmallConstraint

(* What the solver acts on for a constraint: live parameters, and, where   *)
(* an id names one entity, parameters of the entities the constraint names. *)
LEMMA TargetsAreLive ==
    ASSUME SKTypeOK, NEW c, NEW p \in Targets(c, LiveCounts)
    PROVE  p \in LiveParameters
<1>1. PICK k \in 1..3 : p \in UNION {Parameters(fam, c.e[k]) : fam \in {f \in Families : Reaches(c, LiveCounts, k, f)}}
    BY Zenon DEF Targets
<1>2. PICK fam \in Families : Reaches(c, LiveCounts, k, fam) /\ p \in Parameters(fam, c.e[k])
    BY <1>1, Zenon
<1>3. PICK part \in Parts(fam) : p = <<fam, c.e[k], part>>
    BY <1>2, Zenon DEF Parameters
<1>4. c.e[k] \in 0..(LiveCounts[fam] - 1)
    BY <1>2, Zenon DEF Reaches
<1> QED BY <1>3, <1>4, LiveParametersAre

LEMMA TargetsAreNamed ==
    ASSUME SKTypeOK, NEW c, c.type \in ConstraintTypes, c.e \in [1..3 -> Int],
           \A k \in 1..3 : ~Ambiguous(c, k), NEW given, given.type = c.type, given.e = Resolved(c),
           NEW p \in Targets(given, LiveCounts)
    PROVE  <<Public(p)[1], Public(p)[2]>> \in Named(c)
<1>1. PICK k \in 1..3 : p \in UNION {Parameters(fam, given.e[k]) :
                                        fam \in {f \in Families : Reaches(given, LiveCounts, k, f)}}
    BY Zenon DEF Targets
<1>2. PICK fam \in Families : Reaches(given, LiveCounts, k, fam) /\ p \in Parameters(fam, given.e[k])
    BY <1>1, Zenon
<1>3. PICK part \in Parts(fam) : p = <<fam, given.e[k], part>>
    BY <1>2, Zenon DEF Parameters
<1>4. PICK any : any = ConstraintSchemaFor(c.type).e[k]
    OBVIOUS
<1>5. fam \in ToSet(Members(any)) /\ given.e[k] \in 0..(LiveCounts[fam] - 1)
    BY <1>2, <1>4, Zenon DEF Reaches
<1>6. any = fam
    <2>1. any \in Families \cup {"AnyCurve", "CircleOrArc", "None"}
        BY <1>4, SchemaFamilies
    <2>2. ~(Len(Members(any)) > 1)
        BY <1>4, Zenon DEF Ambiguous
    <2>3. any # "None"
        BY <1>5, MembersAre
    <2>4. any \in Families
        BY <2>1, <2>2, <2>3, MembersAreFamilies
    <2>5. ToSet(Members(any)) = {any}
        BY <2>4, MembersAre
    <2> QED BY <1>5, <2>5
<1>7. PICK i \in Int : i = given.e[k] /\ i >= 0
    <2>1. LiveCounts[fam] \in Nat
        BY LivePositions
    <2> QED BY <1>5, <2>1
<1>8. Resolved(c)[k] = i
    BY <1>7
<1>9. InSlot(fam, c.e[k]) /\ i = Position(fam, c.e[k]) /\ c.e[k] \in Int
    BY <1>4, <1>6, <1>7, <1>8, ResolvedEntities
<1>10. LiveIds(fam)[i + 1] = c.e[k]
    BY <1>9, LivePositions
<1>11. Public(p) = <<fam, c.e[k], part>>
    BY <1>3, <1>5, <1>7, <1>10, LiveValuesFit
<1>12. <<Public(p)[1], Public(p)[2]>> = <<fam, c.e[k]>>
    BY <1>11
<1>13. fam # "None"
    BY DEF Families
<1>14. <<fam, c.e[k]>> \in Named(c)
    BY <1>4, <1>6, <1>13, Zenon DEF Named
<1> QED BY <1>12, <1>14

-----------------------------------------------------------------------------
(* How an outcome with values came about.                                   *)
CameAbout(o, clist, ref, d, alg, kept, solved) ==
    /\ o.clist = clist /\ o.rows = Rows(clist) \ d.redundant
    /\ kept = Kept(clist, o.rows, DOMAIN ref)
    /\ solved \in Solves(alg, clist, o.rows, kept, ref)
    /\ o.vals = ApplySolution(ref, solved, kept)
    /\ o.alg = alg /\ o.redundant = d.redundantTags /\ o.status \in {"OK", "Redundant"}

LEMMA OutcomesComeAbout ==
    ASSUME NEW cons, NEW n, NEW ref, NEW o \in SolveOutcomes(cons, n, ref), o.ok
    PROVE  /\ ~Refused(cons, n, ref)
           /\ \E d \in Diagnoses(System(cons, n, ref), DOMAIN ref, ref) : \E alg \in Algorithms :
                 \E kept, solved : CameAbout(o, System(cons, n, ref), ref, d, alg, kept, solved)
<1>1. \A c : ~Failure(c).ok
    BY DEF Failure
<1>2. ~Refused(cons, n, ref)
    <2> SUFFICES ASSUME Refused(cons, n, ref) PROVE FALSE
        OBVIOUS
    <2>1. o = Failure({})
        BY Zenon DEF SolveOutcomes
    <2> QED BY <1>1, <2>1
<1>3. PICK clist : clist = System(cons, n, ref)
    OBVIOUS
<1> DEFINE With(d) == UNION {Solved(cons, n, ref, d, alg) : alg \in Algorithms}
           From(d) == IF d.conflictingTags # {} THEN {Failure(d.conflictingTags)}
                      ELSE {Failure({})} \union With(d)
<1>4. SolveOutcomes(cons, n, ref) = UNION {From(d) : d \in Diagnoses(clist, DOMAIN ref, ref)}
    BY <1>2, <1>3, Zenon DEF SolveOutcomes
<1> HIDE DEF With
<1>5. PICK d \in Diagnoses(clist, DOMAIN ref, ref) : o \in From(d)
    <2> HIDE DEF From
    <2> QED BY <1>4
<1>6. o \in With(d)
    BY <1>1, <1>5
<1>7. PICK alg \in Algorithms : o \in Solved(cons, n, ref, d, alg)
    BY <1>6, Zenon DEF With
<1>8. PICK rows, kept : rows = Rows(clist) \ d.redundant /\ kept = Kept(clist, rows, DOMAIN ref)
    BY Zenon
<1> DEFINE Made(solved) ==
        [ok |-> TRUE, alg |-> alg, clist |-> clist, rows |-> rows,
         vals |-> ApplySolution(ref, solved, kept),
         status |-> IF d.redundantTags = {} THEN "OK" ELSE "Redundant",
         redundant |-> d.redundantTags, dofs |-> d.dofs]
<1>9. Solved(cons, n, ref, d, alg) = {Made(solved) : solved \in Solves(alg, clist, rows, kept, ref)}
    BY <1>3, <1>8, Zenon DEF Solved
<1>10. PICK solved \in Solves(alg, clist, rows, kept, ref) : o = Made(solved)
    <2> HIDE DEF Made
    <2> QED BY <1>7, <1>9
<1>11. CameAbout(o, clist, ref, d, alg, kept, solved)
    BY <1>8, <1>10 DEF CameAbout
<1> QED BY <1>2, <1>3, <1>5, <1>7, <1>11, Zenon

-----------------------------------------------------------------------------
(* A solve of the live sketch.                                              *)

TagOf(r, o) == o.clist[r].tag
SoundOutcome(o) ==
    /\ \A k \in 1..Len(LiveList) : SmallConstraint(LiveList[k], LiveCounts)
    /\ SystemFits(o.clist, LiveList, LiveCounts)
    /\ o.rows \subseteq Rows(o.clist)
    /\ \A t \in o.redundant : /\ \E r \in Rows(o.clist) : TagOf(r, o) = t
                              /\ \A r \in o.rows : TagOf(r, o) # t
    /\ o.status \in {"OK", "Redundant"}
    /\ o.vals \in [LiveParameters -> Values \union {NaN}]

LEMMA ComponentsAreFinite ==
    ASSUME NEW clist, NEW rows, IsFiniteSet(rows)
    PROVE  IsFiniteSet(Components(clist, rows))
<1>1. PICK T : T = Components(clist, rows)
    OBVIOUS
<1>2. PICK f : f = [r \in rows |-> Component(clist, rows, r)]
    OBVIOUS
<1>3. /\ f \in [rows -> T] /\ \A t \in T : \E r \in rows : f[r] = t
    <2>1. T = {Component(clist, rows, r) : r \in rows}
        BY <1>1 DEF Components
    <2> QED BY <1>2, <2>1
<1>4. f \in Surjection(rows, T)
    BY <1>3 DEF Surjection
<1> QED BY <1>1, <1>4, FS_Surjection

LEMMA SolvedValues ==
    ASSUME NEW alg \in Algorithms, NEW clist, NEW rows, IsFiniteSet(rows), NEW kept, NEW ref,
           NEW solved \in Solves(alg, clist, rows, kept, ref)
    PROVE  \A p \in DOMAIN solved : solved[p] \in Values
<1>1. IsFiniteSet(Components(clist, rows))
    BY ComponentsAreFinite
<1>2. PICK comps : comps = SetToSeq(Components(clist, rows))
    OBVIOUS
<1>3. PICK top \in Nat : Len(comps) = top
    BY <1>1, <1>2, SetInSequence
<1>4. PICK done : /\ Solves(alg, clist, rows, kept, ref) = done[top]
                  /\ \A n \in 0..top : \A d \in done[n] :
                        d = [p \in DOMAIN d |-> d[p]] /\ \A p \in DOMAIN d : d[p] \in Values
    BY <1>2, <1>3, SolvesAreMade
<1>5. top \in 0..top
    OBVIOUS
<1> QED BY <1>4, <1>5

ActsIn(cons, n, plist) == \A k \in 1..Len(cons) : Targets(cons[k], n) \subseteq plist
UnknownsIn(clist, plist) == \A r \in Rows(clist) : Unknowns(clist[r]) \subseteq plist

LEMMA EliminatedAreFine ==
    ASSUME NEW clist, NEW cons, NEW n, SystemFits(clist, cons, n), NEW rows, rows \subseteq Rows(clist),
           NEW plist, ActsIn(cons, n, plist)
    PROVE  UnknownsIn(clist, plist) /\ EliminatedIn(clist, rows, plist)
<1>1. ASSUME NEW r \in Rows(clist)
      PROVE  /\ Unknowns(clist[r]) \subseteq plist
             /\ clist[r].kind = "Equal" => \A i \in {1, 2} :
                   IsUnknown(clist[r].params[i]) => clist[r].params[i] \in plist
    <2>1. RowOfSystem(clist[r], cons, n)
        BY SystemRows
    <2>2. PICK k \in 1..Len(cons) : RowFits(clist[r], k - 1, Targets(cons[k], n))
        BY <2>1, Zenon DEF RowOfSystem
    <2>3. PICK row, known : row = clist[r] /\ known = Targets(cons[k], n)
        OBVIOUS
    <2>4. /\ Unknowns(row) \subseteq known
          /\ \A i \in DOMAIN row.params : IsUnknown(row.params[i]) => row.params[i] \in known
          /\ row.kind = "Equal" => 1 \in DOMAIN row.params /\ 2 \in DOMAIN row.params
        BY <2>2, <2>3, UnknownsFit
    <2>5. known \subseteq plist
        BY <2>3 DEF ActsIn
    <2> QED BY <2>3, <2>4, <2>5
<1>2. ASSUME NEW r \in Eliminated(clist, rows)
      PROVE  clist[r].params[1] \in plist /\ clist[r].params[2] \in plist
    <2>1. /\ r \in Rows(clist) /\ clist[r].kind = "Equal"
          /\ IsUnknown(clist[r].params[1]) /\ IsUnknown(clist[r].params[2])
        BY Zenon DEF Eliminated
    <2> QED BY <1>1, <2>1
<1> QED BY <1>1, <1>2, Zenon DEF UnknownsIn, EliminatedIn

LEMMA OutcomesAreSound ==
    ASSUME SKTypeOK, NEW o \in SolveOutcomes(LiveList, LiveCounts, LiveValues), o.ok
    PROVE  SoundOutcome(o)
<1>1. PICK cons, n, ref : cons = LiveList /\ n = LiveCounts /\ ref = LiveValues
    BY Zenon
<1>2. PICK clist : clist = System(cons, n, ref)
    OBVIOUS
<1>3. /\ ~Refused(cons, n, ref)
      /\ \E d \in Diagnoses(clist, DOMAIN ref, ref) : \E alg \in Algorithms :
            \E kept, solved : CameAbout(o, clist, ref, d, alg, kept, solved)
    BY <1>1, <1>2, OutcomesComeAbout
<1>4. PICK d \in Diagnoses(clist, DOMAIN ref, ref) : \E alg \in Algorithms :
         \E kept, solved : CameAbout(o, clist, ref, d, alg, kept, solved)
    BY <1>3
<1>5. PICK alg \in Algorithms : \E kept, solved : CameAbout(o, clist, ref, d, alg, kept, solved)
    BY <1>4
<1>6. PICK kept, solved : CameAbout(o, clist, ref, d, alg, kept, solved)
    BY <1>5
<1>7. PICK many \in Nat : many = Len(cons)
    BY <1>1, LiveConstraintsAre
<1>8. \A k \in 1..many : SmallConstraint(cons[k], n)
    BY <1>1, <1>3, <1>7, LiveListFits
<1>9. SystemFits(clist, cons, n)
    BY <1>2, <1>7, <1>8, SystemRowsFit
<1>10. PICK top \in Nat : top = Len(clist) /\ Rows(clist) = 1..top
    BY <1>9, SystemRows
<1>11. SoundDiagnosis(d, clist)
    BY <1>10, DiagnosesAreSound
<1>12. o.clist = clist /\ o.rows = Rows(clist) \ d.redundant /\ o.redundant = d.redundantTags
       /\ o.status \in {"OK", "Redundant"} /\ o.vals = ApplySolution(ref, solved, kept)
       /\ kept = Kept(clist, o.rows, DOMAIN ref) /\ solved \in Solves(alg, clist, o.rows, kept, ref)
    BY <1>6, Zenon DEF CameAbout
<1>13. ASSUME NEW t \in o.redundant
       PROVE  /\ \E r \in Rows(clist) : clist[r].tag = t
              /\ \A r \in o.rows : clist[r].tag # t
    BY <1>11, <1>12 DEF SoundDiagnosis
<1>14. DOMAIN ref = LiveParameters /\ \A p \in LiveParameters : ref[p] \in Values \union {NaN}
    BY <1>1, LiveValuesFit
<1>15. \A k \in 1..many : Targets(cons[k], n) \subseteq LiveParameters
    BY <1>1, TargetsAreLive
<1>16. PICK rows, plist : rows = o.rows /\ plist = LiveParameters /\ rows \subseteq Rows(clist)
    BY <1>12
<1>17. EliminatedIn(clist, rows, plist)
    <2>1. ActsIn(cons, n, plist)
        BY <1>7, <1>15, <1>16 DEF ActsIn
    <2>2. rows \subseteq Rows(clist)
        BY <1>16
    <2> QED BY <1>9, <2>1, <2>2, EliminatedAreFine
<1>18. kept \in [plist -> plist]
    <2>0. top = Len(clist)
        BY <1>10
    <2>1. PICK all : KeptBy(clist, rows, plist, all, top)
        BY <1>17, <2>0, KeptIsMade
    <2>2. all \in [0..top -> [plist -> plist]] /\ Kept(clist, rows, plist) = all[top]
        BY <2>1 DEF KeptBy
    <2>3. all[top] \in [plist -> plist]
        <3>1. top \in 0..top
            OBVIOUS
        <3> QED BY <2>2, <3>1
    <2>4. kept = Kept(clist, rows, plist)
        BY <1>12, <1>14, <1>16
    <2> QED BY <2>2, <2>3, <2>4
<1>19. \A p \in DOMAIN solved : solved[p] \in Values
    <2>1. IsFiniteSet(rows)
        <3>1. IsFiniteSet(1..top)
            BY FS_Interval
        <3> QED BY <1>10, <1>16, <3>1, FS_Subset
    <2> QED BY <1>12, <1>16, <2>1, SolvedValues
<1>20. o.vals \in [LiveParameters -> Values \union {NaN}]
    <2>1. o.vals = [p \in plist |-> IF kept[p] \in DOMAIN solved THEN solved[kept[p]] ELSE ref[kept[p]]]
        BY <1>12, <1>14, <1>16, Zenon DEF ApplySolution
    <2>2. ASSUME NEW p \in plist
          PROVE  (IF kept[p] \in DOMAIN solved THEN solved[kept[p]] ELSE ref[kept[p]])
                    \in Values \union {NaN}
        <3>1. kept[p] \in plist
            BY <1>18
        <3> QED BY <1>14, <1>16, <1>19, <3>1
    <2> QED BY <1>16, <2>1, <2>2
<1>21. \A t \in o.redundant : /\ \E r \in Rows(o.clist) : TagOf(r, o) = t
                              /\ \A r \in o.rows : TagOf(r, o) # t
    BY <1>12, <1>13 DEF TagOf
<1> QED BY <1>1, <1>7, <1>8, <1>9, <1>12, <1>16, <1>20, <1>21 DEF SoundOutcome

-----------------------------------------------------------------------------
(* What holds between calls: types, and what the last solve was given.      *)
SolveNames == solve.done => \A row \in solve.rows : row.id \in 0..(Len(constraintSlots) - 1)
SketchInv == SKTypeOK /\ SolveNames /\ AppliedToNamed /\ RedundantWerePosted

(* Calls between solves keep what constraints name and where they are.      *)
NamesKept ==
    /\ Len(constraintSlots) <= Len(constraintSlots')
    /\ \A i \in 1..Len(constraintSlots) : /\ constraintSlots'[i].type = constraintSlots[i].type
                                          /\ constraintSlots'[i].e = constraintSlots[i].e

SlotsTyped ==
    /\ DOMAIN slots = Families
    /\ \A fam \in Families : slots[fam] \in Seq(StoredEntities(fam))

LEMMA TypesAgain ==
    ASSUME SKTypeOK, SlotsTyped', constraintSlots' \in Seq(StoredConstraints), NamesKept,
           lastResult' = lastResult
    PROVE  SKTypeOK'
<1>1. PICK top \in Nat : top = Len(constraintSlots)
    BY ConstraintSlotTypes
<1>2. PICK next \in Nat : next = Len(constraintSlots')
    OBVIOUS
<1>3. top <= next
    BY <1>1, <1>2 DEF NamesKept
<1>4. \A id \in lastResult.redundant : id \in 0..(next - 1)
    BY <1>1, <1>3 DEF SKTypeOK
<1> QED BY <1>2, <1>4 DEF SKTypeOK, SlotsTyped

LEMMA HistoryKept ==
    ASSUME SketchInv, SKTypeOK', NamesKept, lastResult' = lastResult, solve' = solve
    PROVE  SketchInv'
<1>0. SKTypeOK
    BY DEF SketchInv
<1>1. PICK top \in Nat : top = Len(constraintSlots)
    BY <1>0, ConstraintSlotTypes
<1>2. PICK next \in Nat : next = Len(constraintSlots')
    BY DEF SKTypeOK
<1>3. top <= next
    BY <1>1, <1>2 DEF NamesKept
<1>4. SolveNames'
    <2>1. solve.done => \A row \in solve.rows : row.id \in 0..(top - 1)
        BY <1>1 DEF SketchInv, SolveNames
    <2> QED BY <1>2, <1>3, <2>1 DEF SolveNames
<1>5. RedundantWerePosted'
    BY DEF SketchInv, RedundantWerePosted
<1>6. AppliedToNamed'
    <2> SUFFICES ASSUME solve.done, NEW row \in solve.rows,
                        \A k \in 1..3 : ~Ambiguous(constraintSlots'[row.id + 1], k)
                 PROVE  row.entities \subseteq Named(constraintSlots'[row.id + 1])
        BY DEF AppliedToNamed
    <2>1. PICK c, d : c = constraintSlots[row.id + 1] /\ d = constraintSlots'[row.id + 1]
        BY Zenon
    <2>2. row.id + 1 \in 1..top
        BY <1>1 DEF SketchInv, SolveNames
    <2>3. d.type = c.type /\ d.e = c.e
        BY <1>1, <2>1, <2>2 DEF NamesKept
    <2>4. Named(d) = Named(c)
        BY <2>3, Zenon DEF Named
    <2>5. \A k \in 1..3 : ~Ambiguous(c, k)
        BY <2>1, <2>3, Zenon DEF Ambiguous
    <2>6. row.entities \subseteq Named(c)
        BY <2>1, <2>5 DEF SketchInv, AppliedToNamed
    <2> QED BY <2>1, <2>4, <2>6
<1> QED BY <1>4, <1>5, <1>6 DEF SketchInv

-----------------------------------------------------------------------------
(* The edits.                                                               *)

LEMMA EntityAdded ==
    ASSUME SKTypeOK, NEW fam \in Families, NEW seed \in Seeds[fam], AddEntity(fam, seed)
    PROVE  SlotsTyped'
<1>1. PICK s : s = [vals |-> seed, construction |-> FALSE, removed |-> FALSE]
    OBVIOUS
<1>2. seed \in [Parts(fam) -> Values \union {NaN}]
    BY SketchAssumption
<1>3. s \in StoredEntities(fam)
    BY <1>1, <1>2 DEF StoredEntities
<1>4. slots' = [slots EXCEPT ![fam] = Append(slots[fam], s)]
    BY <1>1 DEF AddEntity
<1>5. ASSUME NEW f \in Families PROVE slots'[f] \in Seq(StoredEntities(f))
    <2>1. slots[f] \in Seq(StoredEntities(f))
        BY DEF SKTypeOK
    <2>2. CASE f = fam
        <3>1. slots'[f] = Append(slots[f], s)
            BY <1>4, <2>2 DEF SKTypeOK
        <3>2. s \in StoredEntities(f)
            BY <1>3, <2>2
        <3> QED BY <2>1, <3>1, <3>2
    <2>3. CASE f # fam
        <3>1. slots'[f] = slots[f]
            BY <1>4, <2>3 DEF SKTypeOK
        <3> QED BY <2>1, <3>1
    <2> QED BY <2>2, <2>3
<1>6. DOMAIN slots' = Families
    BY <1>4 DEF SKTypeOK
<1> QED BY <1>5, <1>6 DEF SlotsTyped

(* An entity replaced in its slot.                                          *)
Replaced(fam, i, s) ==
    \A f \in Families : /\ Len(slots'[f]) = Len(slots[f])
                         /\ \A j \in 1..Len(slots[f]) :
                               slots'[f][j] = IF f = fam /\ j = i THEN s ELSE slots[f][j]

LEMMA EntityReplaced ==
    ASSUME SKTypeOK, NEW fam \in Families, NEW i \in 1..Len(slots[fam]), NEW s \in StoredEntities(fam),
           slots' = [slots EXCEPT ![fam] = [slots[fam] EXCEPT ![i] = s]]
    PROVE  SlotsTyped' /\ Replaced(fam, i, s)
<1>1. ASSUME NEW f \in Families
      PROVE  /\ slots'[f] \in Seq(StoredEntities(f)) /\ Len(slots'[f]) = Len(slots[f])
             /\ \A j \in 1..Len(slots[f]) : slots'[f][j] = IF f = fam /\ j = i THEN s ELSE slots[f][j]
    <2>1. PICK old, new : old = slots[f] /\ new = slots'[f] /\ old \in Seq(StoredEntities(f))
        BY DEF SKTypeOK
    <2>2. CASE f = fam
        <3>1. new = [old EXCEPT ![i] = s]
            BY <2>1, <2>2 DEF SKTypeOK
        <3>2. i \in 1..Len(old) /\ s \in StoredEntities(f)
            BY <2>1, <2>2
        <3>3. new \in Seq(StoredEntities(f)) /\ Len(new) = Len(old)
            BY <2>1, <3>1, <3>2
        <3>4. \A j \in 1..Len(old) : new[j] = IF j = i THEN s ELSE old[j]
            BY <2>1, <3>1
        <3> QED BY <2>1, <2>2, <3>3, <3>4
    <2>3. CASE f # fam
        <3>1. new = old
            BY <2>1, <2>3 DEF SKTypeOK
        <3> QED BY <2>1, <2>3, <3>1
    <2> QED BY <2>2, <2>3
<1>2. DOMAIN slots' = Families
    BY DEF SKTypeOK
<1> QED BY <1>1, <1>2 DEF SlotsTyped, Replaced

\* A call between solves keeps the values of the slots there are.
ValuesStay ==
    \A f \in Families : \A j \in DOMAIN slots[f] :
        j \in DOMAIN slots'[f] /\ slots'[f][j].vals = slots[f][j].vals

LEMMA ReplacedKeepsValues ==
    ASSUME SKTypeOK, SlotsTyped', NEW fam \in Families, NEW i \in 1..Len(slots[fam]), NEW s,
           s.vals = slots[fam][i].vals, Replaced(fam, i, s)
    PROVE  ValuesStay
<1> SUFFICES ASSUME NEW f \in Families, NEW j \in DOMAIN slots[f]
             PROVE  j \in DOMAIN slots'[f] /\ slots'[f][j].vals = slots[f][j].vals
    BY DEF ValuesStay
<1>1. PICK old, new : /\ old = slots[f] /\ new = slots'[f] /\ old \in Seq(StoredEntities(f))
                      /\ new \in Seq(StoredEntities(f))
    BY DEF SKTypeOK, SlotsTyped
<1>2. Len(new) = Len(old) /\ \A k \in 1..Len(old) : new[k] = IF f = fam /\ k = i THEN s ELSE old[k]
    BY <1>1 DEF Replaced
<1>3. j \in DOMAIN new /\ j \in 1..Len(old)
    BY <1>1, <1>2
<1> QED BY <1>1, <1>2, <1>3

LEMMA EntityRemoved ==
    ASSUME SKTypeOK, NEW fam \in Families, NEW id \in Nat, InSlot(fam, id),
           slots' = [slots EXCEPT ![fam][id + 1].removed = TRUE]
    PROVE  /\ SlotsTyped'
           /\ \A f \in Families, j \in Int :
                 InSlot(f, j) /\ ~(f = fam /\ j = id) => InSlot(f, j)'
           /\ ValuesStay
<1>1. PICK i : i = id + 1
    OBVIOUS
<1>2. i \in 1..Len(slots[fam])
    BY <1>1, SlotTypes
<1>3. PICK old : old = slots[fam][i] /\ old \in StoredEntities(fam)
    BY <1>2, SlotTypes
<1>4. PICK s : s = [old EXCEPT !.removed = TRUE]
    OBVIOUS
<1>5. s \in StoredEntities(fam) /\ s.vals = old.vals
    BY <1>3, <1>4 DEF StoredEntities
<1>6. slots' = [slots EXCEPT ![fam] = [slots[fam] EXCEPT ![i] = s]]
    BY <1>1, <1>3, <1>4
<1>7. SlotsTyped' /\ Replaced(fam, i, s)
    BY <1>2, <1>5, <1>6, EntityReplaced
<1>8. ASSUME NEW f \in Families, NEW j \in Int, InSlot(f, j), ~(f = fam /\ j = id)
      PROVE  InSlot(f, j)'
    <2>1. j \in 0..(Len(slots[f]) - 1) /\ Len(slots[f]) \in Nat
        BY <1>8, SlotTypes
    <2>2. j + 1 \in 1..Len(slots[f]) /\ ~(f = fam /\ j + 1 = i)
        BY <1>1, <1>8, <2>1
    <2>3. slots'[f][j + 1] = slots[f][j + 1] /\ Len(slots'[f]) = Len(slots[f])
        BY <1>7, <2>2 DEF Replaced
    <2> QED BY <1>8, <2>3 DEF InSlot
<1>9. ValuesStay
    BY <1>2, <1>3, <1>5, <1>7, ReplacedKeepsValues
<1> QED BY <1>7, <1>8, <1>9

LEMMA ConstructionSet ==
    ASSUME SKTypeOK, NEW fam \in Families, NEW id \in Nat, id < Len(slots[fam]), NEW flag \in BOOLEAN,
           slots' = [slots EXCEPT ![fam][id + 1].construction = flag]
    PROVE  /\ SlotsTyped'
           /\ \A f \in Families, j \in Int : InSlot(f, j) => InSlot(f, j)'
           /\ ValuesStay
<1>1. PICK i : i = id + 1
    OBVIOUS
<1>2. i \in 1..Len(slots[fam])
    BY <1>1, SlotTypes
<1>3. PICK old : old = slots[fam][i] /\ old \in StoredEntities(fam)
    BY <1>2, SlotTypes
<1>4. PICK s : s = [old EXCEPT !.construction = flag]
    OBVIOUS
<1>5. s \in StoredEntities(fam) /\ s.removed = old.removed /\ s.vals = old.vals
    BY <1>3, <1>4 DEF StoredEntities
<1>6. slots' = [slots EXCEPT ![fam] = [slots[fam] EXCEPT ![i] = s]]
    BY <1>1, <1>3, <1>4
<1>7. SlotsTyped' /\ Replaced(fam, i, s)
    BY <1>2, <1>5, <1>6, EntityReplaced
<1>8. ASSUME NEW f \in Families, NEW j \in Int, InSlot(f, j)
      PROVE  InSlot(f, j)'
    <2>1. j \in 0..(Len(slots[f]) - 1) /\ Len(slots[f]) \in Nat
        BY <1>8, SlotTypes
    <2>2. j + 1 \in 1..Len(slots[f])
        BY <2>1
    <2>3. slots'[f][j + 1].removed = slots[f][j + 1].removed /\ Len(slots'[f]) = Len(slots[f])
        BY <1>3, <1>5, <1>7, <2>2 DEF Replaced
    <2> QED BY <1>8, <2>3 DEF InSlot
<1>9. ValuesStay
    BY <1>2, <1>3, <1>5, <1>7, ReplacedKeepsValues
<1> QED BY <1>7, <1>8, <1>9

(* A constraint is not changed but for being removed.                       *)
LEMMA ConstraintsRemoved ==
    ASSUME SKTypeOK, NEW gone,
           constraintSlots' = [i \in DOMAIN constraintSlots |->
                                 IF i \in gone THEN [constraintSlots[i] EXCEPT !.removed = TRUE]
                                 ELSE constraintSlots[i]]
    PROVE  /\ constraintSlots' \in Seq(StoredConstraints) /\ NamesKept
           /\ \A i \in DOMAIN constraintSlots : ~constraintSlots'[i].removed => i \notin gone
<1>1. PICK top \in Nat : top = Len(constraintSlots) /\ DOMAIN constraintSlots = 1..top
    BY ConstraintSlotTypes
<1>2. PICK cs : cs = constraintSlots
    OBVIOUS
<1>3. \A i \in 1..top : cs[i] \in StoredConstraints
    BY <1>1, <1>2, ConstraintSlotTypes
<1> DEFINE gives(i) == IF i \in gone THEN [cs[i] EXCEPT !.removed = TRUE] ELSE cs[i]
<1>4. \A c \in StoredConstraints : /\ [c EXCEPT !.removed = TRUE] \in StoredConstraints
                                   /\ [c EXCEPT !.removed = TRUE].removed = TRUE
                                   /\ [c EXCEPT !.removed = TRUE].type = c.type
                                   /\ [c EXCEPT !.removed = TRUE].e = c.e
    BY DEF StoredConstraints
<1>5. \A i \in 1..top : /\ gives(i) \in StoredConstraints
                        /\ gives(i).type = cs[i].type /\ gives(i).e = cs[i].e
                        /\ i \in gone => gives(i).removed = TRUE
    BY <1>3, <1>4
<1>6. constraintSlots' = [i \in 1..top |-> gives(i)]
    BY <1>1, <1>2, Zenon
<1> HIDE DEF gives
<1>6a. PICK new : new = constraintSlots'
    OBVIOUS
<1>6b. new = [i \in 1..top |-> gives(i)]
    BY <1>6, <1>6a, Zenon
<1>6c. new \in [1..top -> StoredConstraints]
    BY <1>5, <1>6b
<1>7. constraintSlots' \in Seq(StoredConstraints) /\ Len(constraintSlots') = top
    <2>1. new \in Seq(StoredConstraints)
        BY <1>6c
    <2>2. Len(new) = top
        BY <1>6b, ListLength
    <2> QED BY <1>6a, <2>1, <2>2
<1>8. \A i \in 1..top : constraintSlots'[i] = gives(i)
    BY <1>6, Zenon
<1> QED BY <1>1, <1>2, <1>5, <1>7, <1>8 DEF NamesKept

-----------------------------------------------------------------------------
(* What a step may not do to the entities constraints name.                 *)
SlotsLive == \A f \in Families, j \in Int : InSlot(f, j) => InSlot(f, j)'
KeepsReferents ==
    \A i \in DOMAIN constraintSlots :
         ~constraintSlots'[i].removed =>
            \A k \in 1 .. 3 : Alive(constraintSlots[i], k) => Alive(constraintSlots[i], k)'

\* The entity of a constraint is one of a family, the step keeps it.
LEMMA ReferentsKept ==
    ASSUME SKTypeOK, NamesKept,
           NEW i \in DOMAIN constraintSlots, NEW k \in 1..3, Alive(constraintSlots[i], k),
           \A fam \in Families : fam \in ToSet(Members(ConstraintSchemaFor(constraintSlots[i].type).e[k]))
              /\ InSlot(fam, constraintSlots[i].e[k]) => InSlot(fam, constraintSlots[i].e[k])'
    PROVE  Alive(constraintSlots[i], k)'
<1>1. PICK c, d : c = constraintSlots[i] /\ d = constraintSlots'[i]
    BY Zenon
<1>2. i \in 1..Len(constraintSlots)
    BY ConstraintSlotTypes
<1>3. c.type \in ConstraintTypes /\ c.e \in [1..3 -> Int] /\ d.type = c.type /\ d.e = c.e
    BY <1>1, <1>2, ConstraintSlotTypes DEF NamesKept
<1>4. ToSet(Members(ConstraintSchemaFor(c.type).e[k])) \subseteq Families
    BY <1>3, SchemaFamilies, MembersAreFamilies
<1>5. PICK fam \in ToSet(Members(ConstraintSchemaFor(c.type).e[k])) : InSlot(fam, c.e[k])
    BY <1>1, Zenon DEF Alive
<1>6. InSlot(fam, c.e[k])'
    BY <1>1, <1>3, <1>4, <1>5
<1>7. (\E f \in ToSet(Members(ConstraintSchemaFor(d.type).e[k])) : InSlot(f, d.e[k]))'
    BY <1>1, <1>3, <1>5, <1>6
<1> QED BY <1>1, <1>7, Zenon DEF Alive

LEMMA AllKept ==
    ASSUME SKTypeOK, NamesKept, SlotsLive
    PROVE  KeepsReferents
<1> SUFFICES ASSUME NEW i \in DOMAIN constraintSlots, NEW k \in 1..3, Alive(constraintSlots[i], k)
             PROVE  Alive(constraintSlots[i], k)'
    BY Zenon DEF KeepsReferents
<1>1. constraintSlots[i].e[k] \in Int
    BY ConstraintSlotTypes
<1>2. \A fam \in Families : InSlot(fam, constraintSlots[i].e[k]) => InSlot(fam, constraintSlots[i].e[k])'
    <2>1. i \in 1..Len(constraintSlots)
        BY ConstraintSlotTypes
    <2>2. constraintSlots'[i].e = constraintSlots[i].e
        BY <2>1 DEF NamesKept
    <2> QED BY <1>1, <2>2 DEF SlotsLive
<1> QED BY <1>2, ReferentsKept

\* Slots that are as they were.
LEMMA SameSlots ==
    ASSUME SKTypeOK, slots' = slots
    PROVE  SlotsTyped' /\ SlotsLive
BY DEF SKTypeOK, SlotsTyped, SlotsLive, InSlot

\* Constraints that are as they were, and one added.
LEMMA SameConstraints ==
    ASSUME SKTypeOK, constraintSlots' = constraintSlots
    PROVE  NamesKept /\ constraintSlots' \in Seq(StoredConstraints)
<1>1. Len(constraintSlots) \in Nat
    BY ConstraintSlotTypes
<1> QED BY <1>1 DEF SKTypeOK, NamesKept

LEMMA ConstraintAdded ==
    ASSUME SKTypeOK, NEW c \in StoredConstraints, constraintSlots' = Append(constraintSlots, c)
    PROVE  NamesKept /\ constraintSlots' \in Seq(StoredConstraints)
<1>1. PICK cs, new : cs = constraintSlots /\ new = constraintSlots' /\ cs \in Seq(StoredConstraints)
    BY DEF SKTypeOK
<1>2. /\ new \in Seq(StoredConstraints) /\ Len(new) = Len(cs) + 1
      /\ \A i \in 1..Len(cs) : new[i] = cs[i]
    BY <1>1
<1>3. Len(cs) \in Nat
    BY <1>1
<1> QED BY <1>1, <1>2, <1>3 DEF NamesKept

\* An edit between solves.
EditKeeps == SketchInv' /\ KeepsReferents
LEMMA EditsKeep ==
    ASSUME SketchInv, SlotsTyped', SlotsLive, NamesKept, constraintSlots' \in Seq(StoredConstraints),
           lastResult' = lastResult, solve' = solve
    PROVE  EditKeeps
<1>1. SKTypeOK
    BY DEF SketchInv
<1>2. SKTypeOK'
    BY <1>1, TypesAgain
<1> QED BY <1>1, <1>2, HistoryKept, AllKept DEF EditKeeps

LEMMA AddingEntityKeeps ==
    ASSUME SketchInv, NEW fam \in Families, NEW seed \in Seeds[fam], AddEntity(fam, seed)
    PROVE  EditKeeps
<1>1. SKTypeOK
    BY DEF SketchInv
<1>2. SlotsTyped'
    BY <1>1, EntityAdded
<1>3. SlotsLive
    <2> SUFFICES ASSUME NEW f \in Families, NEW j \in Int, InSlot(f, j) PROVE InSlot(f, j)'
        BY DEF SlotsLive
    <2>1. Len(slots[f]) \in Nat /\ slots[f] \in Seq(StoredEntities(f)) /\ j \in 0..(Len(slots[f]) - 1)
        BY <1>1, SlotTypes DEF SKTypeOK
    <2>2. PICK s : slots' = [slots EXCEPT ![fam] = Append(slots[fam], s)]
        BY DEF AddEntity
    <2>3. CASE f = fam
        <3>1. slots'[f] = Append(slots[f], s)
            BY <1>1, <2>2, <2>3 DEF SKTypeOK
        <3>2. Len(slots'[f]) = Len(slots[f]) + 1 /\ slots'[f][j + 1] = slots[f][j + 1]
            BY <2>1, <3>1
        <3> QED BY <2>1, <3>2 DEF InSlot
    <2>4. CASE f # fam
        <3>1. slots'[f] = slots[f]
            BY <1>1, <2>2, <2>4 DEF SKTypeOK
        <3> QED BY <3>1 DEF InSlot
    <2> QED BY <2>3, <2>4
<1>4. NamesKept /\ constraintSlots' \in Seq(StoredConstraints)
    BY <1>1, SameConstraints DEF AddEntity
<1> QED BY <1>2, <1>3, <1>4, EditsKeep DEF AddEntity

LEMMA AddingConstraintKeeps ==
    ASSUME SketchInv, NEW c \in ConstraintChoices, AddConstraint(c)
    PROVE  EditKeeps
<1>1. SKTypeOK
    BY DEF SketchInv
<1>2. PICK s : s = [type |-> c.type, e |-> c.e, value |-> c.value, removed |-> FALSE]
    OBVIOUS
<1>3. s \in StoredConstraints
    BY <1>2, SketchAssumption DEF StoredConstraints
<1>4. constraintSlots' = Append(constraintSlots, s)
    BY <1>2 DEF AddConstraint
<1>5. SlotsTyped' /\ SlotsLive
    BY <1>1, SameSlots DEF AddConstraint
<1> QED BY <1>1, <1>3, <1>4, <1>5, ConstraintAdded, EditsKeep DEF AddConstraint

LEMMA RemovingEntityKeeps ==
    ASSUME SketchInv, NEW fam \in Families, NEW id \in 0..MaxEntities, RemoveEntity(fam, id)
    PROVE  EditKeeps
<1>1. SKTypeOK /\ id \in Nat
    BY SketchAssumption DEF SketchInv
<1>2. CASE ~InSlot(fam, id)
    <2>1. /\ slots' = slots /\ constraintSlots' = constraintSlots
          /\ lastResult' = lastResult /\ solve' = solve
        BY <1>2 DEF RemoveEntity
    <2> QED BY <1>1, <2>1, SameSlots, SameConstraints, EditsKeep
<1>3. CASE InSlot(fam, id)
    <2>1. /\ slots' = [slots EXCEPT ![fam][id + 1].removed = TRUE]
          /\ constraintSlots' = Cascaded(fam, id)
          /\ lastResult' = lastResult /\ solve' = solve
        BY <1>3 DEF RemoveEntity
    <2>2. /\ SlotsTyped'
          /\ \A f \in Families, j \in Int :
                InSlot(f, j) /\ ~(f = fam /\ j = id) => InSlot(f, j)'
        BY <1>1, <1>3, <2>1, EntityRemoved
    <2>3. PICK gone : gone = {i \in DOMAIN constraintSlots : Refers(constraintSlots[i], fam, id)}
        OBVIOUS
    <2>4. constraintSlots' = [i \in DOMAIN constraintSlots |->
                                 IF i \in gone THEN [constraintSlots[i] EXCEPT !.removed = TRUE]
                                 ELSE constraintSlots[i]]
        BY <2>1, <2>3 DEF Cascaded
    <2>5. /\ constraintSlots' \in Seq(StoredConstraints) /\ NamesKept
          /\ \A i \in DOMAIN constraintSlots : ~constraintSlots'[i].removed => i \notin gone
        BY <1>1, <2>4, ConstraintsRemoved
    <2>6. SketchInv'
        BY <1>1, <2>1, <2>2, <2>5, TypesAgain, HistoryKept
    <2>7. KeepsReferents
        <3> SUFFICES ASSUME NEW i \in DOMAIN constraintSlots, ~constraintSlots'[i].removed,
                            NEW k \in 1..3, Alive(constraintSlots[i], k)
                     PROVE  Alive(constraintSlots[i], k)'
            BY Zenon DEF KeepsReferents
        <3>1. ~Refers(constraintSlots[i], fam, id)
            BY <2>3, <2>5
        <3>2. constraintSlots[i].e[k] \in Int /\ i \in 1..Len(constraintSlots)
            BY <1>1, ConstraintSlotTypes
        <3>3. constraintSlots'[i].e = constraintSlots[i].e
            BY <2>5, <3>2 DEF NamesKept
        <3>4. ASSUME NEW f \in Families,
                     f \in ToSet(Members(ConstraintSchemaFor(constraintSlots[i].type).e[k])),
                     InSlot(f, constraintSlots[i].e[k])
              PROVE  InSlot(f, constraintSlots[i].e[k])'
            <4>1. ~(f = fam /\ constraintSlots[i].e[k] = id)
                BY <3>1, <3>4 DEF Refers
            <4> QED BY <2>2, <3>2, <3>3, <3>4, <4>1
        <3> QED BY <1>1, <2>5, <3>4, ReferentsKept
    <2> QED BY <2>6, <2>7 DEF EditKeeps
<1> QED BY <1>2, <1>3

LEMMA RemovingConstraintKeeps ==
    ASSUME SketchInv, NEW id \in 0..Len(constraintSlots), RemoveConstraint(id)
    PROVE  EditKeeps
<1>1. SKTypeOK
    BY DEF SketchInv
<1>2. SlotsTyped' /\ SlotsLive
    BY <1>1, SameSlots DEF RemoveConstraint
<1>3. lastResult' = lastResult /\ solve' = solve
    BY DEF RemoveConstraint
<1>4. CASE constraintSlots' = constraintSlots
    BY <1>1, <1>2, <1>3, <1>4, SameConstraints, EditsKeep
<1>5. CASE constraintSlots' # constraintSlots
    <2>1. PICK top \in Nat : top = Len(constraintSlots) /\ DOMAIN constraintSlots = 1..top
        BY <1>1, ConstraintSlotTypes
    <2>2. constraintSlots' = [constraintSlots EXCEPT ![id + 1].removed = TRUE]
        BY <1>5 DEF RemoveConstraint
    <2>3. PICK gone : gone = {id + 1}
        OBVIOUS
    <2>4. constraintSlots' = [i \in DOMAIN constraintSlots |->
                                 IF i \in gone THEN [constraintSlots[i] EXCEPT !.removed = TRUE]
                                 ELSE constraintSlots[i]]
        <3>1. constraintSlots = [i \in 1..top |-> constraintSlots[i]]
            BY <1>1, <2>1 DEF SKTypeOK
        <3> QED BY <2>1, <2>2, <2>3, <3>1
    <2>5. /\ constraintSlots' \in Seq(StoredConstraints) /\ NamesKept
        BY <1>1, <2>4, ConstraintsRemoved
    <2> QED BY <1>2, <1>3, <2>5, EditsKeep
<1> QED BY <1>4, <1>5

LEMMA SettingConstructionKeeps ==
    ASSUME SketchInv, NEW fam \in Curves, NEW id \in 0..MaxEntities, NEW flag \in BOOLEAN,
           SetConstruction(fam, id, flag)
    PROVE  EditKeeps
<1>1. SKTypeOK /\ fam \in Families /\ id \in Nat
    BY SketchAssumption DEF SketchInv, Curves, Families
<1>2. /\ constraintSlots' = constraintSlots /\ lastResult' = lastResult /\ solve' = solve
    BY DEF SetConstruction
<1>3. NamesKept /\ constraintSlots' \in Seq(StoredConstraints)
    BY <1>1, <1>2, SameConstraints
<1>4. CASE slots' = slots
    BY <1>1, <1>2, <1>3, <1>4, SameSlots, EditsKeep
<1>5. CASE slots' # slots
    <2>1. id <= Len(slots[fam]) /\ id # Len(slots[fam])
          /\ slots' = [slots EXCEPT ![fam][id + 1].construction = flag]
        BY <1>5 DEF SetConstruction
    <2>2. id < Len(slots[fam])
        BY <1>1, <2>1, SlotTypes
    <2>3. SlotsTyped' /\ SlotsLive
        BY <1>1, <2>1, <2>2, ConstructionSet DEF SlotsLive
    <2> QED BY <1>2, <1>3, <2>3, EditsKeep
<1> QED BY <1>4, <1>5

LEMMA MakingAWireKeeps ==
    ASSUME SketchInv, NEW connected, SketchToWire(connected)
    PROVE  EditKeeps
<1>1. SKTypeOK
    BY DEF SketchInv
<1>2. /\ slots' = slots /\ constraintSlots' = constraintSlots
      /\ lastResult' = lastResult /\ solve' = solve
    BY DEF SketchToWire
<1> QED BY <1>1, <1>2, SameSlots, SameConstraints, EditsKeep

-----------------------------------------------------------------------------
(* A solve gives values to the live entities and only to them.              *)
LEMMA WrittenBackFits ==
    ASSUME SKTypeOK, NEW vals \in [LiveParameters -> Values \union {NaN}], slots' = WrittenBack(vals)
    PROVE  SlotsTyped' /\ SlotsLive
<1> DEFINE placed(fam, i) ==
        [part \in DOMAIN slots[fam][i].vals |-> vals[<<fam, Position(fam, i - 1), part>>]]
           gives(fam, i) == IF slots[fam][i].removed THEN slots[fam][i]
                            ELSE [slots[fam][i] EXCEPT !.vals = placed(fam, i)]
<1>1. slots' = [fam \in Families |-> [i \in DOMAIN slots[fam] |-> gives(fam, i)]]
    BY DEF WrittenBack
<1>2. ASSUME NEW fam \in Families, NEW i \in 1..Len(slots[fam])
      PROVE  gives(fam, i) \in StoredEntities(fam) /\ gives(fam, i).removed = slots[fam][i].removed
    <2>1. PICK s, vs : s = slots[fam][i] /\ vs = placed(fam, i)
        BY Zenon
    <2>2. s \in StoredEntities(fam) /\ s.vals \in [Parts(fam) -> Values \union {NaN}]
        BY <2>1, SlotTypes
    <2>3. CASE s.removed
        BY <2>1, <2>2, <2>3
    <2>4. CASE ~s.removed
        <3>1. Len(slots[fam]) \in Nat
            BY SlotTypes
        <3>2. PICK id \in Int : id = i - 1
            OBVIOUS
        <3>3. InSlot(fam, id)
            BY <2>1, <2>4, <3>1, <3>2 DEF InSlot
        <3>4. Position(fam, id) \in 0..(LiveCounts[fam] - 1)
            BY <3>3, LivePositions
        <3>5. \A part \in Parts(fam) : <<fam, Position(fam, id), part>> \in LiveParameters
            BY <3>4, LiveParametersAre
        <3>6. vs = [part \in Parts(fam) |-> vals[<<fam, Position(fam, id), part>>]]
            BY <2>1, <2>2, <3>2
        <3>7. vs \in [Parts(fam) -> Values \union {NaN}]
            BY <3>5, <3>6
        <3>8. gives(fam, i) = [s EXCEPT !.vals = vs]
            BY <2>1, <2>4
        <3> QED BY <2>1, <2>2, <3>7, <3>8 DEF StoredEntities
    <2> QED BY <2>3, <2>4
<1> HIDE DEF gives
<1>3. ASSUME NEW fam \in Families
      PROVE  /\ slots'[fam] \in Seq(StoredEntities(fam)) /\ Len(slots'[fam]) = Len(slots[fam])
             /\ \A i \in 1..Len(slots[fam]) : slots'[fam][i] = gives(fam, i)
    <2>1. PICK top \in Nat : top = Len(slots[fam]) /\ DOMAIN slots[fam] = 1..top
        BY SlotTypes
    <2>2. PICK new : new = slots'[fam]
        OBVIOUS
    <2>3. new = [i \in 1..top |-> gives(fam, i)]
        BY <1>1, <2>1, <2>2
    <2>4. new \in [1..top -> StoredEntities(fam)]
        BY <1>2, <2>1, <2>3
    <2>5. new \in Seq(StoredEntities(fam))
        BY <2>4
    <2>6. Len(new) = top
        BY <2>3, ListLength
    <2> QED BY <2>1, <2>2, <2>3, <2>5, <2>6
<1>4. DOMAIN slots' = Families
    BY <1>1
<1>5. ASSUME NEW f \in Families, NEW j \in Int, InSlot(f, j)
      PROVE  InSlot(f, j)'
    <2>1. j \in 0..(Len(slots[f]) - 1) /\ Len(slots[f]) \in Nat
        BY <1>5, SlotTypes
    <2>2. PICK i : i = j + 1 /\ i \in 1..Len(slots[f])
        BY <2>1
    <2>3. slots'[f][i].removed = slots[f][i].removed
        BY <1>2, <1>3, <2>2
    <2>4. Len(slots'[f]) = Len(slots[f])
        BY <1>3
    <2> QED BY <1>5, <2>2, <2>3, <2>4 DEF InSlot
<1> QED BY <1>3, <1>4, <1>5 DEF SlotsTyped, SlotsLive

-----------------------------------------------------------------------------
(* What a solve remembers of the solver constraint at a position.           *)
SolvedRow(o, r) ==
    [id |-> PublicConstraint(o.clist[r].tag), entities |-> ActsOn(o.clist[r]), kept |-> r \in o.rows,
     kind |-> o.clist[r].kind,
     params |-> [i \in DOMAIN o.clist[r].params |->
                   IF IsUnknown(o.clist[r].params[i]) THEN Public(o.clist[r].params[i])
                   ELSE o.clist[r].params[i]]]

LEMMA SolvedRowsAre ==
    ASSUME NEW o
    PROVE  /\ SolvedRows(o) = {SolvedRow(o, r) : r \in Rows(o.clist)}
           /\ \A r : /\ SolvedRow(o, r).id = LiveConstraints[TagOf(r, o) + 1]
                     /\ SolvedRow(o, r).entities = ActsOn(o.clist[r])
                     /\ SolvedRow(o, r).kept = (r \in o.rows)
<1>1. SolvedRows(o) = {SolvedRow(o, r) : r \in Rows(o.clist)}
    BY Zenon DEF SolvedRows, SolvedRow
<1>2. ASSUME NEW r
      PROVE  /\ SolvedRow(o, r).id = LiveConstraints[TagOf(r, o) + 1]
             /\ SolvedRow(o, r).entities = ActsOn(o.clist[r])
             /\ SolvedRow(o, r).kept = (r \in o.rows)
    BY DEF SolvedRow, PublicConstraint, TagOf
<1> QED BY <1>1, <1>2

\* A solver constraint acts on the entities its constraint names.
RowIsNamed(o, r) ==
    LET id == LiveConstraints[TagOf(r, o) + 1]
        c  == constraintSlots[id + 1]
    IN  /\ TagOf(r, o) \in 0..(Len(LiveList) - 1)
        /\ id \in 0..(Len(constraintSlots) - 1)
        /\ (\A k \in 1..3 : ~Ambiguous(c, k)) => ActsOn(o.clist[r]) \subseteq Named(c)

LEMMA RowsAreNamed ==
    ASSUME SKTypeOK, NEW o, SoundOutcome(o), NEW r \in Rows(o.clist)
    PROVE  RowIsNamed(o, r)
<1>1. PICK many \in Nat :
         /\ Len(LiveList) = many
         /\ \A k \in 1..many : LiveConstraints[k] \in 0..(Len(constraintSlots) - 1)
         /\ \A k \in 1..many :
               LiveList[k] = [type |-> constraintSlots[LiveConstraints[k] + 1].type,
                              e |-> Resolved(constraintSlots[LiveConstraints[k] + 1]),
                              value |-> constraintSlots[LiveConstraints[k] + 1].value]
    BY LiveConstraintsAre
<1>2. RowOfSystem(o.clist[r], LiveList, LiveCounts)
    BY SystemRows DEF SoundOutcome
<1>3. PICK k \in 1..Len(LiveList) : RowFits(o.clist[r], k - 1, Targets(LiveList[k], LiveCounts))
    BY <1>2, Zenon DEF RowOfSystem
<1>4. TagOf(r, o) = k - 1 /\ Unknowns(o.clist[r]) \subseteq Targets(LiveList[k], LiveCounts)
    BY <1>3, UnknownsFit, Zenon DEF TagOf
<1>5. k \in 1..many /\ TagOf(r, o) \in 0..(Len(LiveList) - 1) /\ TagOf(r, o) + 1 = k
    BY <1>1, <1>4
<1>6. PICK id : id = LiveConstraints[k] /\ id \in 0..(Len(constraintSlots) - 1)
    BY <1>1, <1>5
<1>7. PICK c, given : c = constraintSlots[id + 1] /\ given = LiveList[k]
    BY Zenon
<1>8. given.type = c.type /\ given.e = Resolved(c)
    BY <1>1, <1>5, <1>6, <1>7
<1>9. c.type \in ConstraintTypes /\ c.e \in [1..3 -> Int]
    <2>1. id + 1 \in 1..Len(constraintSlots)
        BY <1>6, ConstraintSlotTypes
    <2> QED BY <1>7, <2>1, ConstraintSlotTypes
<1>10. ASSUME \A j \in 1..3 : ~Ambiguous(c, j)
       PROVE  ActsOn(o.clist[r]) \subseteq Named(c)
    <2> SUFFICES ASSUME NEW p \in Unknowns(o.clist[r])
                 PROVE  <<Public(p)[1], Public(p)[2]>> \in Named(c)
        BY DEF ActsOn
    <2>1. p \in Targets(given, LiveCounts)
        BY <1>4, <1>7
    <2> QED BY <1>8, <1>9, <1>10, <2>1, TargetsAreNamed
<1> QED BY <1>5, <1>6, <1>7, <1>10, Zenon DEF RowIsNamed

LEMMA RedundantAreDropped ==
    ASSUME SKTypeOK, NEW o, SoundOutcome(o), NEW t \in o.redundant
    PROVE  /\ \E row \in SolvedRows(o) : row.id = PublicConstraint(t)
           /\ \A row \in SolvedRows(o) : row.id = PublicConstraint(t) => ~row.kept
<1>1. PICK q \in Rows(o.clist) : TagOf(q, o) = t
    BY DEF SoundOutcome
<1>2. SolvedRow(o, q) \in SolvedRows(o) /\ SolvedRow(o, q).id = PublicConstraint(t)
    <2>1. SolvedRow(o, q) \in {SolvedRow(o, r) : r \in Rows(o.clist)}
        BY <1>1, Zenon
    <2> QED BY <1>1, <2>1, SolvedRowsAre, Zenon DEF PublicConstraint
<1>3. ASSUME NEW row \in SolvedRows(o), row.id = PublicConstraint(t)
      PROVE  ~row.kept
    <2>1. PICK r \in Rows(o.clist) : row = SolvedRow(o, r)
        BY SolvedRowsAre, Zenon
    <2>2. LiveConstraints[TagOf(r, o) + 1] = LiveConstraints[t + 1] /\ row.kept = (r \in o.rows)
        BY <1>3, <2>1, SolvedRowsAre, Zenon DEF PublicConstraint
    <2>3. PICK many \in Nat : /\ Len(LiveList) = many
                              /\ \A j, k \in 1..many : LiveConstraints[j] = LiveConstraints[k] => j = k
        BY LiveConstraintsAre
    <2>4. TagOf(r, o) \in 0..(many - 1) /\ t \in 0..(many - 1)
        BY <1>1, <2>3, RowsAreNamed, Zenon DEF RowIsNamed
    <2>5. TagOf(r, o) + 1 \in 1..many /\ t + 1 \in 1..many
        BY <2>4
    <2>6. TagOf(r, o) = t
        BY <2>2, <2>3, <2>4, <2>5
    <2>7. r \notin o.rows
        BY <2>6 DEF SoundOutcome
    <2> QED BY <2>2, <2>7
<1> QED BY <1>2, <1>3

LEMMA SolvingKeeps ==
    ASSUME SketchInv, NEW o \in SolveOutcomes(LiveList, LiveCounts, LiveValues), SolveSketchSlots(o)
    PROVE  EditKeeps
<1>1. SKTypeOK
    BY DEF SketchInv
<1>2. constraintSlots' = constraintSlots
    BY DEF SolveSketchSlots
<1>3. NamesKept /\ constraintSlots' \in Seq(StoredConstraints)
    BY <1>1, <1>2, SameConstraints
<1>4. CASE ~o.ok
    <2>1. /\ slots' = slots /\ lastResult' = [status |-> "Failed", redundant |-> {}, dofs |-> 0]
          /\ solve' = [done |-> FALSE, conflicting |-> o.conflicting]
        BY <1>4 DEF SolveSketchSlots
    <2>2. SlotsTyped' /\ SlotsLive
        BY <1>1, <2>1, SameSlots
    <2>3. lastResult'.status = "Failed" /\ lastResult'.redundant = {} /\ solve'.done = FALSE
        BY <2>1
    <2>4. SKTypeOK'
        BY <1>3, <2>2, <2>3 DEF SKTypeOK, SlotsTyped
    <2>5. SketchInv'
        BY <2>3, <2>4 DEF SketchInv, SolveNames, AppliedToNamed, RedundantWerePosted
    <2> QED BY <1>1, <1>3, <2>2, <2>5, AllKept DEF EditKeeps
<1>5. CASE o.ok
    <2>1. SoundOutcome(o)
        BY <1>1, <1>5, OutcomesAreSound
    <2>2. /\ slots' = WrittenBack(o.vals)
          /\ lastResult' = [status |-> o.status, dofs |-> o.dofs,
                            redundant |-> {PublicConstraint(t) : t \in o.redundant}]
          /\ solve' = [done |-> TRUE, alg |-> o.alg, rows |-> SolvedRows(o), conflicting |-> {}]
        BY <1>5 DEF SolveSketchSlots
    <2>3. SlotsTyped' /\ SlotsLive
        BY <1>1, <2>1, <2>2, WrittenBackFits DEF SoundOutcome
    <2>4. /\ lastResult'.status = o.status
          /\ lastResult'.redundant = {PublicConstraint(t) : t \in o.redundant}
          /\ solve'.rows = SolvedRows(o)
        BY <2>2
    <2>5. ASSUME NEW row \in SolvedRows(o)
          PROVE  /\ row.id \in 0..(Len(constraintSlots) - 1)
                 /\ (\A k \in 1..3 : ~Ambiguous(constraintSlots[row.id + 1], k)) =>
                       row.entities \subseteq Named(constraintSlots[row.id + 1])
        <3>1. PICK r \in Rows(o.clist) : row = SolvedRow(o, r)
            BY SolvedRowsAre, Zenon
        <3>2. RowIsNamed(o, r)
            BY <1>1, <2>1, RowsAreNamed
        <3>3. row.id = LiveConstraints[TagOf(r, o) + 1] /\ row.entities = ActsOn(o.clist[r])
            BY <3>1, SolvedRowsAre, Zenon
        <3> QED BY <3>2, <3>3, Zenon DEF RowIsNamed
    <2>6. ASSUME NEW id \in lastResult'.redundant
          PROVE  /\ \E row \in SolvedRows(o) : row.id = id
                 /\ \A row \in SolvedRows(o) : row.id = id => ~row.kept
        <3>1. PICK t \in o.redundant : id = PublicConstraint(t)
            BY <2>4
        <3> QED BY <1>1, <2>1, <3>1, RedundantAreDropped
    <2>7. SolveNames'
        BY <1>2, <2>4, <2>5 DEF SolveNames
    <2>8. SKTypeOK'
        <3>1. \A id \in lastResult'.redundant : id \in 0..(Len(constraintSlots) - 1)
            BY <2>5, <2>6
        <3>2. lastResult'.status \in {"OK", "Redundant", "Failed"}
            BY <2>1, <2>4 DEF SoundOutcome
        <3> QED BY <1>2, <1>3, <2>3, <3>1, <3>2 DEF SKTypeOK, SlotsTyped
    <2>9. RedundantWerePosted'
        BY <2>4, <2>6 DEF RedundantWerePosted
    <2>10. AppliedToNamed'
        <3> SUFFICES ASSUME NEW row \in solve'.rows,
                            \A k \in 1..3 : ~Ambiguous(constraintSlots[row.id + 1], k)
                     PROVE  row.entities \subseteq Named(constraintSlots[row.id + 1])
            BY <1>2, ZenonT(40) DEF AppliedToNamed, Ambiguous, Named
        <3> QED BY <2>4, <2>5
    <2>11. SketchInv'
        BY <2>7, <2>8, <2>9, <2>10 DEF SketchInv
    <2> QED BY <1>1, <1>3, <2>3, <2>11, AllKept DEF EditKeeps
<1> QED BY <1>4, <1>5

-----------------------------------------------------------------------------
LEMMA NothingKeeps ==
    ASSUME SketchInv, UNCHANGED skVars
    PROVE  EditKeeps
<1>1. SKTypeOK
    BY DEF SketchInv
<1>2. /\ slots' = slots /\ constraintSlots' = constraintSlots
      /\ lastResult' = lastResult /\ solve' = solve
    BY DEF skVars
<1> QED BY <1>1, <1>2, SameSlots, SameConstraints, EditsKeep

(* Public ids go on naming what they named: the solver constraints of a    *)
(* solve act on the entities that their constraint names by public id (the *)
(* types whose entity may come from several families aside), a constraint  *)
(* a result calls redundant took part and had every solver constraint of   *)
(* it dropped, and one that stays after a removal keeps its entities.      *)
THEOREM PublicIdsAlwaysHold == SKSpec => PublicIdsHold
<1>1. SKInit => SketchInv
    <2> SUFFICES ASSUME SKInit PROVE SketchInv
        OBVIOUS
    <2>1. PICK s \in StartSketches : slots = s.slots /\ constraintSlots = s.constraints
        BY DEF SKInit
    <2>2. SKTypeOK
        BY <2>1, SketchAssumption DEF SKInit, SKTypeOK, NoResult
    <2>3. solve.done = FALSE
        BY DEF SKInit, NoSolve
    <2> QED BY <2>2, <2>3 DEF SketchInv, SolveNames, AppliedToNamed, RedundantWerePosted
<1>2. SketchInv /\ [SKNext]_skVars => EditKeeps
    <2> SUFFICES ASSUME SketchInv, [SKNext]_skVars PROVE EditKeeps
        OBVIOUS
    <2>1. ASSUME NEW fam \in Families, NEW seed \in Seeds[fam], AddEntity(fam, seed)
          PROVE  EditKeeps
        BY <2>1, AddingEntityKeeps
    <2>2. ASSUME NEW c \in ConstraintChoices, AddConstraint(c) PROVE EditKeeps
        BY <2>2, AddingConstraintKeeps
    <2>3. ASSUME NEW fam \in Families, NEW id \in 0..MaxEntities, RemoveEntity(fam, id)
          PROVE  EditKeeps
        BY <2>3, RemovingEntityKeeps
    <2>4. ASSUME NEW id \in 0..Len(constraintSlots), RemoveConstraint(id) PROVE EditKeeps
        BY <2>4, RemovingConstraintKeeps
    <2>5. ASSUME NEW fam \in Curves, NEW id \in 0..MaxEntities, NEW flag \in BOOLEAN,
                 SetConstruction(fam, id, flag)
          PROVE  EditKeeps
        BY <2>5, SettingConstructionKeeps
    <2>6. ASSUME NEW o \in SolveOutcomes(LiveList, LiveCounts, LiveValues), SolveSketchSlots(o)
          PROVE  EditKeeps
        BY <2>6, SolvingKeeps
    <2>7. ASSUME NEW connected \in BOOLEAN, SketchToWire(connected) PROVE EditKeeps
        BY <2>7, MakingAWireKeeps
    <2>8. CASE UNCHANGED skVars
        BY <2>8, NothingKeeps
    <2> QED BY <2>1, <2>2, <2>3, <2>4, <2>5, <2>6, <2>7, <2>8, Zenon DEF SKNext
<1>3. EditKeeps => SketchInv' /\ [\A i \in DOMAIN constraintSlots :
         ~constraintSlots'[i].removed =>
            \A k \in 1 .. 3 : Alive(constraintSlots[i], k) => Alive(constraintSlots[i], k)']_skVars
    BY Zenon DEF EditKeeps, KeepsReferents
<1>4. SketchInv => SKTypeOK /\ AppliedToNamed /\ RedundantWerePosted
    BY Zenon DEF SketchInv
<1> QED BY <1>1, <1>2, <1>3, <1>4, PTL DEF SKSpec, PublicIdsHold, CascadeKeepsReferents

-----------------------------------------------------------------------------
(* Components: closed, least, and apart from each other.                    *)
LEMMA ComponentIsLeast ==
    ASSUME NEW clist, NEW rows, NEW r \in rows
    PROVE  /\ Component(clist, rows, r) \subseteq rows /\ r \in Component(clist, rows, r)
           /\ Closed(clist, rows, Component(clist, rows, r))
           /\ \A comp \in SUBSET rows : r \in comp /\ Closed(clist, rows, comp) =>
                 Component(clist, rows, r) \subseteq comp
<1>1. PICK C : C = Component(clist, rows, r)
    OBVIOUS
<1>2. \A s : s \in C <=> s \in rows /\ \A comp \in SUBSET rows :
                            r \in comp /\ Closed(clist, rows, comp) => s \in comp
    BY <1>1, Zenon DEF Component
<1>3. Closed(clist, rows, C)
    <2> SUFFICES ASSUME NEW s \in C, NEW t \in rows, Unknowns(clist[t]) \cap Unknowns(clist[s]) # {}
                 PROVE  t \in C
        BY Zenon DEF Closed
    <2>1. ASSUME NEW comp \in SUBSET rows, r \in comp, Closed(clist, rows, comp)
          PROVE  t \in comp
        <3>1. s \in comp
            BY <1>2, <2>1, Zenon
        <3> QED BY <2>1, <3>1, Zenon DEF Closed
    <2> QED BY <1>2, <2>1, Zenon
<1> QED BY <1>1, <1>2, <1>3

\* What one component has and another has not is closed too.
LEMMA ComponentsMeet ==
    ASSUME NEW clist, NEW rows, NEW r \in rows, NEW t \in Component(clist, rows, r)
    PROVE  Component(clist, rows, t) = Component(clist, rows, r)
<1>1. PICK C, D : C = Component(clist, rows, r) /\ D = Component(clist, rows, t)
    BY Zenon
<1>2. /\ C \subseteq rows /\ r \in C /\ Closed(clist, rows, C) /\ t \in C
      /\ \A comp \in SUBSET rows : r \in comp /\ Closed(clist, rows, comp) => C \subseteq comp
    BY <1>1, ComponentIsLeast
<1>3. /\ D \subseteq rows /\ t \in D /\ Closed(clist, rows, D)
      /\ \A comp \in SUBSET rows : t \in comp /\ Closed(clist, rows, comp) => D \subseteq comp
    BY <1>1, <1>2, ComponentIsLeast
<1>4. D \subseteq C
    BY <1>2, <1>3
<1>5. Closed(clist, rows, C \ D)
    <2> SUFFICES ASSUME NEW s \in C \ D, NEW q \in rows, Unknowns(clist[q]) \cap Unknowns(clist[s]) # {}
                 PROVE  q \in C \ D
        BY Zenon DEF Closed
    <2>1. q \in C
        BY <1>2, Zenon DEF Closed
    <2>2. Unknowns(clist[s]) \cap Unknowns(clist[q]) # {} /\ s \in rows
        BY <1>2
    <2>3. q \notin D
        BY <1>3, <2>2, Zenon DEF Closed
    <2> QED BY <2>1, <2>3
<1>6. r \in D
    <2> SUFFICES ASSUME r \notin D PROVE FALSE
        OBVIOUS
    <2>1. C \ D \in SUBSET rows /\ r \in C \ D
        BY <1>2
    <2>2. C \subseteq C \ D
        BY <1>2, <1>5, <2>1
    <2> QED BY <1>2, <1>3, <2>2
<1>7. C \subseteq D
    BY <1>2, <1>3, <1>6
<1> QED BY <1>1, <1>4, <1>7

Acted(clist, comp) == UNION {Unknowns(clist[r]) : r \in comp}

LEMMA ComponentsAreApart ==
    ASSUME NEW clist, NEW rows, NEW C \in Components(clist, rows), NEW D \in Components(clist, rows),
           C # D
    PROVE  Acted(clist, C) \cap Acted(clist, D) = {}
<1> SUFFICES ASSUME NEW p, p \in Acted(clist, C), p \in Acted(clist, D) PROVE FALSE
    BY Zenon
<1>1. PICK a \in rows : C = Component(clist, rows, a)
    BY Zenon DEF Components
<1>2. PICK b \in rows : D = Component(clist, rows, b)
    BY Zenon DEF Components
<1>3. PICK s \in C : p \in Unknowns(clist[s])
    BY Zenon DEF Acted
<1>4. PICK t \in D : p \in Unknowns(clist[t])
    BY Zenon DEF Acted
<1>5. Closed(clist, rows, C) /\ D \subseteq rows
    BY <1>1, <1>2, ComponentIsLeast
<1>6. Unknowns(clist[t]) \cap Unknowns(clist[s]) # {} /\ t \in rows
    BY <1>3, <1>4, <1>5
<1>7. t \in C
    BY <1>5, <1>6, Zenon DEF Closed
<1>8. C = Component(clist, rows, t) /\ D = Component(clist, rows, t)
    <2>1. t \in Component(clist, rows, a) /\ t \in Component(clist, rows, b)
        BY <1>1, <1>2, <1>4, <1>7
    <2> QED BY <1>1, <1>2, <2>1, ComponentsMeet
<1> QED BY <1>8

-----------------------------------------------------------------------------
(* Unknowns made equal are acted on by one component.                       *)
Together(clist, kept, plist, comp) ==
    \A x, y \in plist : kept[x] = kept[y] /\ x \in Acted(clist, comp) =>
        x = y \/ y \in Acted(clist, comp)

LEMMA EliminatedActTogether ==
    ASSUME NEW clist, NEW rows, NEW comp, Closed(clist, rows, comp), NEW m \in Eliminated(clist, rows),
           1 \in DOMAIN clist[m].params, 2 \in DOMAIN clist[m].params,
           NEW p, NEW q, p = clist[m].params[1], q = clist[m].params[2]
    PROVE  p \in Acted(clist, comp) <=> q \in Acted(clist, comp)
<1>1. m \in rows /\ IsUnknown(p) /\ IsUnknown(q)
    BY Zenon DEF Eliminated
<1>2. p \in Unknowns(clist[m]) /\ q \in Unknowns(clist[m])
    BY <1>1 DEF Unknowns, ToSet
<1>3. ASSUME NEW x \in Unknowns(clist[m]), x \in Acted(clist, comp), NEW y \in Unknowns(clist[m])
      PROVE  y \in Acted(clist, comp)
    <2>1. PICK s \in comp : x \in Unknowns(clist[s])
        BY <1>3, Zenon DEF Acted
    <2>2. Unknowns(clist[m]) \cap Unknowns(clist[s]) # {}
        BY <2>1
    <2>3. m \in comp
        BY <1>1, <2>2, Zenon DEF Closed
    <2> QED BY <2>3, Zenon DEF Acted
<1> QED BY <1>2, <1>3

LEMMA JoiningKeepsTogether ==
    ASSUME NEW clist, NEW plist, NEW comp, NEW kept \in [plist -> plist],
           Together(clist, kept, plist, comp), NEW equal,
           NEW p \in plist, NEW q \in plist, p = equal[1], q = equal[2],
           p \in Acted(clist, comp) <=> q \in Acted(clist, comp)
    PROVE  /\ Together(clist, Joined(kept, plist, equal), plist, comp)
           /\ Joined(kept, plist, equal)[p] = Joined(kept, plist, equal)[q]
           /\ \A x, y \in plist : kept[x] = kept[y] =>
                 Joined(kept, plist, equal)[x] = Joined(kept, plist, equal)[y]
<1>1. PICK new : new = Joined(kept, plist, equal)
    OBVIOUS
<1>2. \A x \in plist : new[x] = IF kept[x] = kept[q] THEN kept[p] ELSE kept[x]
    BY <1>1 DEF Joined
<1>3. PICK U : U = Acted(clist, comp)
    OBVIOUS
<1>4. \A x, y \in plist : kept[x] = kept[y] /\ x \in U => x = y \/ y \in U
    BY <1>3, Zenon DEF Together
<1>5. ASSUME NEW x \in plist, NEW y \in plist, new[x] = new[y], x \in U
      PROVE  x = y \/ y \in U
    <2>1. CASE kept[x] = kept[y]
        BY <1>4, <1>5, <2>1
    <2>2. CASE kept[x] = kept[q] /\ kept[y] = kept[p]
        <3>1. q \in U
            BY <1>4, <1>5, <2>2
        <3>2. p \in U
            BY <1>3, <3>1
        <3> QED BY <1>4, <2>2, <3>2
    <2>3. CASE kept[x] = kept[p] /\ kept[y] = kept[q]
        <3>1. p \in U
            BY <1>4, <1>5, <2>3
        <3>2. q \in U
            BY <1>3, <3>1
        <3> QED BY <1>4, <2>3, <3>2
    <2> QED BY <1>2, <1>5, <2>1, <2>2, <2>3
<1>6. new[p] = new[q] /\ \A x, y \in plist : kept[x] = kept[y] => new[x] = new[y]
    BY <1>2
<1>7. Together(clist, new, plist, comp)
    BY <1>3, <1>5, Zenon DEF Together
<1> QED BY <1>1, <1>6, <1>7

-----------------------------------------------------------------------------
Paired(clist, rows) ==
    \A m \in Eliminated(clist, rows) : 1 \in DOMAIN clist[m].params /\ 2 \in DOMAIN clist[m].params

\* The equations taken out hold of the unknowns that replace.
Replaces(clist, rows, kept, top) ==
    \A m \in Eliminated(clist, rows) :
        m \in 1..top => kept[clist[m].params[1]] = kept[clist[m].params[2]]

LEMMA KeptActsTogether ==
    ASSUME NEW clist, NEW top \in Nat, top = Len(clist), NEW rows, rows \subseteq 1..top, NEW plist,
           EliminatedIn(clist, rows, plist), Paired(clist, rows),
           NEW comp, Closed(clist, rows, comp)
    PROVE  /\ Kept(clist, rows, plist) \in [plist -> plist]
           /\ Together(clist, Kept(clist, rows, plist), plist, comp)
           /\ Replaces(clist, rows, Kept(clist, rows, plist), top)
<1>1. PICK k : KeptBy(clist, rows, plist, k, top)
    BY KeptIsMade
<1>2. /\ k \in [0..top -> [plist -> plist]] /\ Kept(clist, rows, plist) = k[top]
      /\ k[0] = [x \in plist |-> x]
      /\ \A n \in 1..top :
            k[n] = IF n \in Eliminated(clist, rows) THEN Joined(k[n - 1], plist, clist[n].params)
                   ELSE k[n - 1]
    BY <1>1 DEF KeptBy, KeptUpTo
<1>3. \A m \in Eliminated(clist, rows) : m \in 1..top
    BY Zenon DEF Eliminated
<1> DEFINE T == {n \in 0..top : Together(clist, k[n], plist, comp) /\ Replaces(clist, rows, k[n], n)}
<1>4. 0 \in T
    <2>1. Together(clist, k[0], plist, comp)
        BY <1>2 DEF Together
    <2>2. Replaces(clist, rows, k[0], 0)
        BY DEF Replaces
    <2> QED BY <2>1, <2>2
<1>5. ASSUME NEW n \in 1..top, n - 1 \in T PROVE n \in T
    <2>1. PICK old, new : old = k[n - 1] /\ new = k[n]
        BY Zenon
    <2>2. old \in [plist -> plist]
        <3>1. n - 1 \in 0..top
            OBVIOUS
        <3> QED BY <1>2, <2>1, <3>1
    <2>3. Together(clist, old, plist, comp) /\ Replaces(clist, rows, old, n - 1)
        BY <1>5, <2>1
    <2>4. CASE n \notin Eliminated(clist, rows)
        <3>1. new = old
            BY <1>2, <2>1, <2>4
        <3>2. Replaces(clist, rows, old, n)
            <4>1. ASSUME NEW m \in Eliminated(clist, rows), m \in 1..n PROVE m \in 1..(n - 1)
                <5>1. m # n
                    BY <2>4
                <5> QED BY <4>1, <5>1
            <4> QED BY <2>3, <4>1, Zenon DEF Replaces
        <3>3. Together(clist, k[n], plist, comp) /\ Replaces(clist, rows, k[n], n)
            BY <2>1, <2>3, <3>1, <3>2
        <3> QED BY <3>3
    <2>5. CASE n \in Eliminated(clist, rows)
        <3>1. PICK equal : equal = clist[n].params
            OBVIOUS
        <3>2. new = Joined(old, plist, equal)
            BY <1>2, <2>1, <2>5, <3>1
        <3>3. PICK p, q : p = equal[1] /\ q = equal[2]
            BY Zenon
        <3>4. p \in plist /\ q \in plist
            BY <2>5, <3>1, <3>3, Zenon DEF EliminatedIn
        <3>5. p \in Acted(clist, comp) <=> q \in Acted(clist, comp)
            <4>1. 1 \in DOMAIN equal /\ 2 \in DOMAIN equal
                BY <2>5, <3>1, Zenon DEF Paired
            <4> QED BY <2>5, <3>1, <3>3, <4>1, EliminatedActTogether
        <3>6. /\ Together(clist, new, plist, comp) /\ new[p] = new[q]
              /\ \A x, y \in plist : old[x] = old[y] => new[x] = new[y]
            BY <2>2, <2>3, <3>2, <3>3, <3>4, <3>5, JoiningKeepsTogether
        <3>7. ASSUME NEW m \in Eliminated(clist, rows), m \in 1..n
              PROVE  new[clist[m].params[1]] = new[clist[m].params[2]]
            <4>1. CASE m = n
                BY <3>1, <3>3, <3>6, <4>1
            <4>2. CASE m # n
                <5>1. m \in 1..(n - 1)
                    BY <3>7, <4>2
                <5>2. old[clist[m].params[1]] = old[clist[m].params[2]]
                    BY <2>3, <5>1, Zenon DEF Replaces
                <5>3. clist[m].params[1] \in plist /\ clist[m].params[2] \in plist
                    BY <3>7, Zenon DEF EliminatedIn
                <5> QED BY <3>6, <5>2, <5>3
            <4> QED BY <4>1, <4>2
        <3>8. Replaces(clist, rows, new, n)
            BY <3>7, Zenon DEF Replaces
        <3>9. Together(clist, k[n], plist, comp) /\ Replaces(clist, rows, k[n], n)
            BY <2>1, <3>6, <3>8
        <3> QED BY <3>9
    <2> QED BY <2>4, <2>5
<1>6. 0..top \subseteq T
    <2> HIDE DEF T
    <2> QED BY <1>4, <1>5, UpTo
<1>7. top \in 0..top
    OBVIOUS
<1>8. Together(clist, k[top], plist, comp) /\ Replaces(clist, rows, k[top], top)
    BY <1>6, <1>7
<1>9. k[top] \in [plist -> plist]
    BY <1>2, <1>7
<1> QED BY <1>2, <1>8, <1>9

-----------------------------------------------------------------------------
(* What a subsystem solves for.                                             *)
IsRow(c) == \E kind, operands, tag : c = PostedRow(kind, operands, tag)
Replacing(p, kept) == IF IsUnknown(p) THEN kept[p] ELSE p

LEMMA ReducedIs ==
    ASSUME NEW c, IsRow(c), NEW kept
    PROVE  /\ Reduced(c, kept).kind = c.kind
           /\ DOMAIN Reduced(c, kept).params = DOMAIN c.params
           /\ \A i \in DOMAIN c.params : Reduced(c, kept).params[i] = Replacing(c.params[i], kept)
<1>1. PICK kind, operands, tag : c = PostedRow(kind, operands, tag)
    BY Zenon DEF IsRow
<1>2. PICK new : new = [i \in DOMAIN operands |-> Replacing(operands[i], kept)]
    OBVIOUS
<1>3. c.kind = kind /\ c.params = operands
    BY <1>1 DEF PostedRow
<1>4. Reduced(c, kept) = [c EXCEPT !.params = new]
    BY <1>2, <1>3 DEF Reduced, Replacing
<1>5. Reduced(c, kept).kind = kind /\ Reduced(c, kept).params = new
    BY <1>1, <1>4 DEF PostedRow
<1> QED BY <1>2, <1>3, <1>5

LEMMA ReducedUnknowns ==
    ASSUME NEW c, IsRow(c), NEW kept
    PROVE  /\ \A q \in Unknowns(Reduced(c, kept)) : \E p \in Unknowns(c) : q = kept[p]
           /\ \A i \in DOMAIN c.params : IsUnknown(c.params[i]) /\ IsUnknown(kept[c.params[i]]) =>
                 kept[c.params[i]] \in Unknowns(Reduced(c, kept))
<1>1. PICK d : d = Reduced(c, kept)
    OBVIOUS
<1>2. /\ DOMAIN d.params = DOMAIN c.params
      /\ \A i \in DOMAIN c.params : d.params[i] = Replacing(c.params[i], kept)
    BY <1>1, ReducedIs
<1>3. /\ Unknowns(d) = {q \in {d.params[i] : i \in DOMAIN d.params} : IsUnknown(q)}
      /\ Unknowns(c) = {q \in {c.params[i] : i \in DOMAIN c.params} : IsUnknown(q)}
    BY DEF Unknowns, ToSet
<1>4. ASSUME NEW q \in Unknowns(d) PROVE \E p \in Unknowns(c) : q = kept[p]
    <2>1. PICK i \in DOMAIN c.params : q = Replacing(c.params[i], kept) /\ IsUnknown(q)
        BY <1>2, <1>3
    <2>2. IsUnknown(c.params[i])
        BY <2>1, Zenon DEF Replacing
    <2>3. q = kept[c.params[i]]
        BY <2>1, <2>2, Zenon DEF Replacing
    <2> QED BY <1>3, <2>2, <2>3
<1>5. ASSUME NEW i \in DOMAIN c.params, IsUnknown(c.params[i]), IsUnknown(kept[c.params[i]])
      PROVE  kept[c.params[i]] \in Unknowns(d)
    <2>1. d.params[i] = kept[c.params[i]]
        BY <1>2, <1>5, Zenon DEF Replacing
    <2> QED BY <1>2, <1>3, <1>5, <2>1
<1> QED BY <1>1, <1>4, <1>5

SubUnknowns(clist, comp, kept) == Subsystem(clist, comp, kept).unknowns

LEMMA SubsystemsAreApart ==
    ASSUME NEW clist, NEW rows, NEW plist, \A r \in rows : IsRow(clist[r]),
           \A r \in rows : Unknowns(clist[r]) \subseteq plist,
           NEW C \in Components(clist, rows), NEW D \in Components(clist, rows), C # D,
           NEW kept, Together(clist, kept, plist, C)
    PROVE  SubUnknowns(clist, C, kept) \cap SubUnknowns(clist, D, kept) = {}
<1> SUFFICES ASSUME NEW q, q \in SubUnknowns(clist, C, kept), q \in SubUnknowns(clist, D, kept)
             PROVE  FALSE
    BY Zenon
<1>1. C \subseteq rows /\ D \subseteq rows
    BY ComponentIsLeast DEF Components
<1>2. ASSUME NEW comp, comp \subseteq rows, q \in SubUnknowns(clist, comp, kept)
      PROVE  \E p \in plist : q = kept[p] /\ p \in Acted(clist, comp)
    <2>1. PICK r \in comp : q \in Unknowns(Reduced(clist[r], kept))
        BY <1>2 DEF SubUnknowns, Subsystem
    <2>2. PICK p \in Unknowns(clist[r]) : q = kept[p]
        BY <1>2, <2>1, ReducedUnknowns
    <2>3. p \in Acted(clist, comp)
        BY <2>1, <2>2, Zenon DEF Acted
    <2>4. p \in plist
        BY <1>2, <2>2
    <2> QED BY <2>2, <2>3, <2>4
<1>3. PICK a \in plist : q = kept[a] /\ a \in Acted(clist, C)
    BY <1>1, <1>2
<1>4. PICK b \in plist : q = kept[b] /\ b \in Acted(clist, D)
    BY <1>1, <1>2
<1>5. b \in Acted(clist, C)
    BY <1>3, <1>4, Zenon DEF Together
<1> QED BY <1>4, <1>5, ComponentsAreApart

-----------------------------------------------------------------------------
(* A solution of all gives each component what its solver found.            *)
GivenBy(d, alg, clist, comp, kept, ref) ==
    \E v \in SolveBy(alg, clist, Subsystem(clist, comp, kept), kept, ref) :
        \A q \in SubUnknowns(clist, comp, kept) : q \in DOMAIN d /\ d[q] = v[q]

\* Values for the unknowns of the components up to one.
Gathers(d, alg, clist, comps, kept, ref, n) ==
    /\ \A j \in 1..n : GivenBy(d, alg, clist, comps[j], kept, ref)
    /\ \A q \in DOMAIN d : \E j \in 1..n : q \in SubUnknowns(clist, comps[j], kept)

LEMMA ExtendingGathers ==
    ASSUME NEW alg \in Algorithms, NEW clist, NEW comps, NEW kept, NEW ref, NEW n \in Nat, n > 0,
           \A j \in 1..(n - 1) : SubUnknowns(clist, comps[j], kept)
                                    \cap SubUnknowns(clist, comps[n], kept) = {},
           NEW d, Gathers(d, alg, clist, comps, kept, ref, n - 1),
           NEW v \in SolveBy(alg, clist, Subsystem(clist, comps[n], kept), kept, ref)
    PROVE  Gathers(Over(d, v), alg, clist, comps, kept, ref, n)
<1>1. PICK new : new = Over(d, v)
    OBVIOUS
<1>2. DOMAIN v = SubUnknowns(clist, comps[n], kept)
    <2>1. v \in [Subsystem(clist, comps[n], kept).unknowns -> Values]
        BY SolverValues, Zenon
    <2> QED BY <2>1 DEF SubUnknowns
<1>3. /\ DOMAIN new = DOMAIN d \union DOMAIN v
      /\ \A q \in DOMAIN d : q \in DOMAIN new /\ new[q] = d[q]
      /\ \A q \in DOMAIN v : q \notin DOMAIN d => q \in DOMAIN new /\ new[q] = v[q]
    BY <1>1 DEF Over
<1>4. ASSUME NEW q \in DOMAIN d PROVE q \notin DOMAIN v
    <2>1. PICK j \in 1..(n - 1) : q \in SubUnknowns(clist, comps[j], kept)
        BY Zenon DEF Gathers
    <2> QED BY <1>2, <2>1
<1>5. ASSUME NEW j \in 1..n PROVE GivenBy(new, alg, clist, comps[j], kept, ref)
    <2>1. CASE j = n
        <3>1. \A q \in SubUnknowns(clist, comps[n], kept) : q \in DOMAIN new /\ new[q] = v[q]
            BY <1>2, <1>3, <1>4
        <3> QED BY <2>1, <3>1, Zenon DEF GivenBy
    <2>2. CASE j # n
        <3>1. j \in 1..(n - 1)
            BY <2>2
        <3>2. PICK w \in SolveBy(alg, clist, Subsystem(clist, comps[j], kept), kept, ref) :
                  \A q \in SubUnknowns(clist, comps[j], kept) : q \in DOMAIN d /\ d[q] = w[q]
            BY <3>1, Zenon DEF Gathers, GivenBy
        <3>3. \A q \in SubUnknowns(clist, comps[j], kept) : q \in DOMAIN new /\ new[q] = w[q]
            BY <1>3, <3>2
        <3> QED BY <3>2, <3>3, Zenon DEF GivenBy
    <2> QED BY <2>1, <2>2
<1>6. ASSUME NEW q \in DOMAIN new PROVE \E j \in 1..n : q \in SubUnknowns(clist, comps[j], kept)
    <2>1. CASE q \in DOMAIN d
        <3>1. PICK j \in 1..(n - 1) : q \in SubUnknowns(clist, comps[j], kept)
            BY <2>1, Zenon DEF Gathers
        <3>2. j \in 1..n
            OBVIOUS
        <3> QED BY <3>1, <3>2
    <2>2. CASE q \in DOMAIN v
        <3>1. n \in 1..n
            OBVIOUS
        <3> QED BY <1>2, <2>2, <3>1
    <2> QED BY <1>3, <2>1, <2>2
<1> QED BY <1>1, <1>5, <1>6, Zenon DEF Gathers

Apart(clist, rows, kept) ==
    \A C, D \in Components(clist, rows) : C # D =>
        SubUnknowns(clist, C, kept) \cap SubUnknowns(clist, D, kept) = {}

LEMMA SolvedByComponent ==
    ASSUME NEW alg \in Algorithms, NEW clist, NEW rows, IsFiniteSet(rows), NEW kept, NEW ref,
           Apart(clist, rows, kept), NEW solved \in Solves(alg, clist, rows, kept, ref),
           NEW C \in Components(clist, rows)
    PROVE  GivenBy(solved, alg, clist, C, kept, ref)
<1>1. IsFiniteSet(Components(clist, rows))
    BY ComponentsAreFinite
<1>2. PICK all : all = Components(clist, rows)
    BY Zenon
<1> DEFINE comps == SetToSeq(all)
<1>3. PICK top \in Nat : /\ comps \in [1..top -> all] /\ Len(comps) = top
                         /\ \A a, b \in 1..top : comps[a] = comps[b] => a = b
                         /\ \A x \in all : \E a \in 1..top : comps[a] = x
    <2>1. IsFiniteSet(all)
        BY <1>1, <1>2, Zenon
    <2> QED BY <2>1, SetInSequence, Zenon
<1>4. PICK done : /\ SolvedUpTo(alg, clist, comps, kept, ref, done, top)
                  /\ Solves(alg, clist, rows, kept, ref) = done[top]
    BY <1>2, <1>3, SolvesAreMade
<1> HIDE DEF comps
<1> DEFINE Right(n, d) == Gathers(d, alg, clist, comps, kept, ref, n)
           T == {n \in 0..top : \A d \in done[n] : Right(n, d)}
<1>5. 0 \in T
    <2>1. done[0] = {<<>>}
        BY <1>4 DEF SolvedUpTo
    <2>2. Right(0, <<>>)
        <3>1. \A j \in 1..0 : FALSE
            OBVIOUS
        <3>2. PICK d : d = <<>> /\ DOMAIN d = {}
            OBVIOUS
        <3>3. Gathers(d, alg, clist, comps, kept, ref, 0)
            BY <3>1, <3>2, Zenon DEF Gathers
        <3> QED BY <3>2, <3>3
    <2> HIDE DEF Right
    <2> QED BY <2>1, <2>2
<1>6. ASSUME NEW n \in 1..top, n - 1 \in T PROVE n \in T
    <2>1. PICK By : By = SolveBy(alg, clist, Subsystem(clist, comps[n], kept), kept, ref)
        OBVIOUS
    <2>2. done[n] = Extended(done[n - 1], By)
        BY <1>4, <2>1, Zenon DEF SolvedUpTo
    <2>3. n \in Nat /\ n > 0
        OBVIOUS
    <2>4. ASSUME NEW j \in 1..(n - 1)
          PROVE  SubUnknowns(clist, comps[j], kept) \cap SubUnknowns(clist, comps[n], kept) = {}
        <3>1. j \in 1..top /\ j # n
            OBVIOUS
        <3>2. comps[j] \in all /\ comps[n] \in all /\ comps[j] # comps[n]
            BY <1>3, <3>1
        <3> QED BY <1>2, <3>2, Zenon DEF Apart
    <2>5. ASSUME NEW d \in done[n - 1], NEW v \in By PROVE Right(n, Over(d, v))
        <3>1. Gathers(d, alg, clist, comps, kept, ref, n - 1)
            BY <1>6
        <3> QED BY <2>1, <2>3, <2>4, <3>1, ExtendingGathers
    <2> HIDE DEF Right
    <2>6. \A e \in Extended(done[n - 1], By) : Right(n, e)
        BY <2>5 DEF Extended
    <2>7. \A e \in done[n] : Right(n, e)
        BY <2>2, <2>6
    <2> QED BY <2>7
<1>7. 0..top \subseteq T
    <2> HIDE DEF T
    <2> QED BY <1>5, <1>6, UpTo
<1>8. top \in 0..top
    OBVIOUS
<1>9. Gathers(solved, alg, clist, comps, kept, ref, top)
    BY <1>4, <1>7, <1>8
<1>10. PICK a \in 1..top : comps[a] = C
    BY <1>2, <1>3
<1> QED BY <1>9, <1>10, Zenon DEF Gathers

-----------------------------------------------------------------------------
(* A solution, put where the unknowns were replaced, meets every row.       *)
LEMMA SolutionsMeet ==
    ASSUME NEW alg \in Algorithms, alg # "BFGS",
           NEW clist, NEW top \in Nat, top = Len(clist), NEW rows, rows \subseteq 1..top,
           NEW ref, NEW plist, plist = DOMAIN ref, \A p \in plist : IsUnknown(p),
           \A r \in rows : IsRow(clist[r]),
           \A r \in rows : Unknowns(clist[r]) \subseteq plist,
           EliminatedIn(clist, rows, plist), Paired(clist, rows),
           NEW kept, kept = Kept(clist, rows, plist),
           NEW solved \in Solves(alg, clist, rows, kept, ref), NEW r \in rows
    PROVE  Satisfied(clist[r], ApplySolution(ref, solved, kept))
<1>1. PICK c, vals : c = clist[r] /\ vals = ApplySolution(ref, solved, kept)
    BY Zenon
<1>2. \A p \in plist : vals[p] = IF kept[p] \in DOMAIN solved THEN solved[kept[p]] ELSE ref[kept[p]]
    BY <1>1 DEF ApplySolution
<1>3. PICK C : C = Component(clist, rows, r) /\ C \in Components(clist, rows)
    BY Zenon DEF Components
<1>4. C \subseteq rows /\ r \in C
    BY <1>3, ComponentIsLeast
<1>5. ASSUME NEW D \in Components(clist, rows)
      PROVE  /\ kept \in [plist -> plist] /\ Together(clist, kept, plist, D)
             /\ Replaces(clist, rows, kept, top)
    <2>1. Closed(clist, rows, D)
        BY ComponentIsLeast DEF Components
    <2> QED BY <2>1, KeptActsTogether
<1>6. kept \in [plist -> plist] /\ Replaces(clist, rows, kept, top)
    BY <1>3, <1>5
<1>7. Apart(clist, rows, kept)
    BY <1>5, SubsystemsAreApart DEF Apart
<1>8. \A i \in DOMAIN c.params : IsUnknown(c.params[i]) => c.params[i] \in plist
    BY <1>1 DEF Unknowns, ToSet
<1>9. CASE r \in Eliminated(clist, rows)
    <2>1. PICK p, q : p = c.params[1] /\ q = c.params[2]
        BY Zenon
    <2>2. c.kind = "Equal" /\ IsUnknown(p) /\ IsUnknown(q) /\ p \in plist /\ q \in plist
        BY <1>1, <1>9, <2>1, Zenon DEF Eliminated, EliminatedIn
    <2>3. 1 \in DOMAIN c.params /\ 2 \in DOMAIN c.params
        BY <1>1, <1>9, Zenon DEF Paired
    <2>4. kept[p] = kept[q]
        <3>1. r \in 1..top
            OBVIOUS
        <3> QED BY <1>1, <1>6, <1>9, <2>1, <3>1, Zenon DEF Replaces
    <2>5. vals[p] = vals[q]
        BY <1>2, <2>2, <2>4
    <2>6. PICK f : f = [i \in DOMAIN c.params |->
                          IF IsUnknown(c.params[i]) THEN vals[c.params[i]] ELSE c.params[i][2]]
        OBVIOUS
    <2>7. f[1] = f[2]
        BY <2>1, <2>2, <2>3, <2>5, <2>6
    <2>8. Holds("Equal", f)
        BY <2>7 DEF Holds, EqualMet
    <2>9. Satisfied(c, vals)
        BY <2>2, <2>6, <2>8, Zenon DEF Satisfied
    <2> QED BY <1>1, <2>9
<1>10. CASE r \notin Eliminated(clist, rows)
    <2>1. PICK sub : sub = Subsystem(clist, C, kept)
        OBVIOUS
    <2>2. r \in sub.rows /\ Unknowns(Reduced(c, kept)) \subseteq sub.unknowns
        <3>1. r \notin Eliminated(clist, C)
            BY <1>4, <1>10, Zenon DEF Eliminated
        <3>2. r \in C \ Eliminated(clist, C)
            BY <1>4, <3>1
        <3>3. /\ sub.rows = C \ Eliminated(clist, C)
              /\ sub.unknowns = UNION {Unknowns(Reduced(clist[s], kept)) : s \in C \ Eliminated(clist, C)}
            BY <2>1 DEF Subsystem
        <3> QED BY <1>1, <3>2, <3>3, Zenon
    <2>3. IsFiniteSet(rows)
        <3>1. IsFiniteSet(1..top)
            BY FS_Interval
        <3> QED BY <3>1, FS_Subset
    <2>4. PICK v \in SolveBy(alg, clist, sub, kept, ref) :
              \A q \in sub.unknowns : q \in DOMAIN solved /\ solved[q] = v[q]
        <3>1. GivenBy(solved, alg, clist, C, kept, ref)
            BY <1>3, <1>7, <2>3, SolvedByComponent
        <3> QED BY <2>1, <3>1, Zenon DEF GivenBy, SubUnknowns
    <2>5. DOMAIN v = sub.unknowns /\ Satisfied(Reduced(c, kept), Over(v, ref))
        <3>1. /\ v \in [sub.unknowns -> Values]
              /\ \A s \in sub.rows : Satisfied(Reduced(clist[s], kept), Over(v, ref))
            BY SolverValues, Zenon
        <3> QED BY <1>1, <2>2, <3>1
    <2>6. PICK new : new = Reduced(c, kept)
        OBVIOUS
    <2>7. IsRow(c)
        BY <1>1
    <2>8. /\ new.kind = c.kind /\ DOMAIN new.params = DOMAIN c.params
          /\ \A i \in DOMAIN c.params : new.params[i] = Replacing(c.params[i], kept)
        BY <2>6, <2>7, ReducedIs
    <2>9. PICK w : w = Over(v, ref)
        OBVIOUS
    <2>10. ASSUME NEW i \in DOMAIN c.params
           PROVE  (IF IsUnknown(new.params[i]) THEN w[new.params[i]] ELSE new.params[i][2])
                  = IF IsUnknown(c.params[i]) THEN vals[c.params[i]] ELSE c.params[i][2]
        <3>1. CASE ~IsUnknown(c.params[i])
            <4>1. new.params[i] = c.params[i]
                BY <2>8, <3>1, Zenon DEF Replacing
            <4> QED BY <3>1, <4>1
        <3>2. CASE IsUnknown(c.params[i])
            <4>1. PICK p, q : p = c.params[i] /\ q = kept[p]
                BY Zenon
            <4>2. p \in plist
                BY <1>8, <3>2, <4>1
            <4>3. IsUnknown(q)
                BY <1>6, <4>1, <4>2
            <4>4. q \in Unknowns(new)
                BY <2>6, <2>7, <3>2, <4>1, <4>3, ReducedUnknowns
            <4>5. q \in sub.unknowns
                BY <2>2, <2>6, <4>4
            <4>6. new.params[i] = q
                BY <2>8, <3>2, <4>1, Zenon DEF Replacing
            <4>7. w[q] = v[q]
                BY <2>5, <2>9, <4>5 DEF Over
            <4>8. vals[p] = v[q]
                BY <1>2, <2>4, <4>1, <4>2, <4>5
            <4> QED BY <3>2, <4>1, <4>3, <4>6, <4>7, <4>8
        <3> QED BY <3>1, <3>2
    <2>11. PICK f, g : /\ f = [i \in DOMAIN c.params |->
                                IF IsUnknown(c.params[i]) THEN vals[c.params[i]] ELSE c.params[i][2]]
                       /\ g = [i \in DOMAIN new.params |->
                                IF IsUnknown(new.params[i]) THEN w[new.params[i]] ELSE new.params[i][2]]
        BY Zenon
    <2>12. f = g
        BY <2>8, <2>10, <2>11
    <2>13. Holds(new.kind, g)
        BY <2>5, <2>6, <2>9, <2>11, Zenon DEF Satisfied
    <2>14. Satisfied(c, vals)
        BY <2>8, <2>11, <2>12, <2>13, Zenon DEF Satisfied
    <2> QED BY <1>1, <2>14
<1> QED BY <1>9, <1>10

-----------------------------------------------------------------------------
(* A solve that ends well, by one of the Newton-like solvers.               *)
RowIsLive(row) ==
    IsRow(row) /\ \A i \in DOMAIN row.params : IsUnknown(row.params[i]) => row.params[i] \in LiveParameters

LEMMA LiveAreUnknown ==
    ASSUME SKTypeOK, NEW p \in LiveParameters
    PROVE  IsUnknown(p)
<1>1. PICK fam \in Families : \E i \in 0..(LiveCounts[fam] - 1) : \E part \in Parts(fam) :
          p = <<fam, i, part>>
    BY LiveParametersAre
<1>2. p[1] = fam
    BY <1>1
<1> QED BY <1>2 DEF IsUnknown, Families

LEMMA SystemRowsAreLive ==
    ASSUME SKTypeOK, NEW clist, SystemFits(clist, LiveList, LiveCounts), NEW r \in Rows(clist)
    PROVE  /\ RowIsLive(clist[r])
           /\ clist[r].kind = "Equal" => 1 \in DOMAIN clist[r].params /\ 2 \in DOMAIN clist[r].params
<1>1. RowOfSystem(clist[r], LiveList, LiveCounts)
    BY SystemRows
<1>2. PICK k \in 1..Len(LiveList) : RowFits(clist[r], k - 1, Targets(LiveList[k], LiveCounts))
    BY <1>1, Zenon DEF RowOfSystem
<1>3. PICK row, given : row = clist[r] /\ given = LiveList[k]
    BY Zenon
<1>4. /\ \A i \in DOMAIN row.params : IsUnknown(row.params[i]) =>
             row.params[i] \in Targets(given, LiveCounts)
      /\ row.kind = "Equal" => 1 \in DOMAIN row.params /\ 2 \in DOMAIN row.params
    BY <1>2, <1>3, UnknownsFit
<1>5. IsRow(row)
    BY <1>2, <1>3, Zenon DEF RowFits, IsRow
<1>6. RowIsLive(row)
    BY <1>4, <1>5, TargetsAreLive DEF RowIsLive
<1> QED BY <1>3, <1>4, <1>6

OutcomeMeets(o) == \A r \in o.rows : Satisfied(o.clist[r], o.vals)

LEMMA OutcomesMeet ==
    ASSUME SKTypeOK, NEW o \in SolveOutcomes(LiveList, LiveCounts, LiveValues), o.ok, o.alg # "BFGS"
    PROVE  OutcomeMeets(o)
<1>1. SoundOutcome(o)
    BY OutcomesAreSound
<1>2. PICK cons, n, ref : cons = LiveList /\ n = LiveCounts /\ ref = LiveValues
    BY Zenon
<1>3. PICK clist : clist = System(cons, n, ref)
    OBVIOUS
<1>4. PICK d \in Diagnoses(clist, DOMAIN ref, ref) : \E alg \in Algorithms :
         \E kept, solved : CameAbout(o, clist, ref, d, alg, kept, solved)
    BY <1>2, <1>3, OutcomesComeAbout
<1>5. PICK alg \in Algorithms : \E kept, solved : CameAbout(o, clist, ref, d, alg, kept, solved)
    BY <1>4
<1>6. PICK kept, solved : CameAbout(o, clist, ref, d, alg, kept, solved)
    BY <1>5
<1>7. PICK rows, plist : rows = o.rows /\ plist = LiveParameters
    BY Zenon
<1>8. DOMAIN ref = plist
    BY <1>2, <1>7, LiveValuesFit
<1>9. /\ o.clist = clist /\ o.vals = ApplySolution(ref, solved, kept) /\ o.alg = alg
      /\ kept = Kept(clist, rows, plist) /\ solved \in Solves(alg, clist, rows, kept, ref)
    BY <1>6, <1>7, <1>8, Zenon DEF CameAbout
<1>10. SystemFits(clist, LiveList, LiveCounts) /\ rows \subseteq Rows(clist)
    BY <1>1, <1>7, <1>9 DEF SoundOutcome
<1>11. PICK top \in Nat : top = Len(clist) /\ Rows(clist) = 1..top
    BY <1>10, SystemRows
<1>12. ASSUME NEW r \in rows
       PROVE  /\ IsRow(clist[r]) /\ Unknowns(clist[r]) \subseteq plist
              /\ \A i \in DOMAIN clist[r].params :
                    IsUnknown(clist[r].params[i]) => clist[r].params[i] \in plist
              /\ clist[r].kind = "Equal" => 1 \in DOMAIN clist[r].params /\ 2 \in DOMAIN clist[r].params
    <2>1. PICK row : row = clist[r]
        OBVIOUS
    <2>2. /\ RowIsLive(row)
          /\ row.kind = "Equal" => 1 \in DOMAIN row.params /\ 2 \in DOMAIN row.params
        BY <1>10, <2>1, SystemRowsAreLive
    <2>3. IsRow(row) /\ \A i \in DOMAIN row.params : IsUnknown(row.params[i]) => row.params[i] \in plist
        BY <1>7, <2>2 DEF RowIsLive
    <2>4. Unknowns(row) \subseteq plist
        BY <2>3 DEF Unknowns, ToSet
    <2> QED BY <2>1, <2>2, <2>3, <2>4
<1>13. ASSUME NEW m \in Eliminated(clist, rows)
       PROVE  /\ 1 \in DOMAIN clist[m].params /\ 2 \in DOMAIN clist[m].params
              /\ clist[m].params[1] \in plist /\ clist[m].params[2] \in plist
    <2>1. m \in rows /\ clist[m].kind = "Equal" /\ IsUnknown(clist[m].params[1])
          /\ IsUnknown(clist[m].params[2])
        BY Zenon DEF Eliminated
    <2> QED BY <1>12, <2>1
<1>14. EliminatedIn(clist, rows, plist) /\ Paired(clist, rows)
    BY <1>13, Zenon DEF EliminatedIn, Paired
<1>15. \A p \in plist : IsUnknown(p)
    BY <1>7, LiveAreUnknown
<1>16. rows \subseteq 1..top
    BY <1>10, <1>11
<1>17. alg # "BFGS"
    BY <1>9
<1>18. ASSUME NEW r \in rows PROVE Satisfied(clist[r], ApplySolution(ref, solved, kept))
    <2>1. \A s \in rows : IsRow(clist[s])
        BY <1>12
    <2>2. \A s \in rows : Unknowns(clist[s]) \subseteq plist
        BY <1>12
    <2>3. top = Len(clist) /\ plist = DOMAIN ref /\ kept = Kept(clist, rows, plist)
          /\ solved \in Solves(alg, clist, rows, kept, ref)
        BY <1>8, <1>9, <1>11
    <2> QED BY <1>14, <1>15, <1>16, <1>17, <2>1, <2>2, <2>3, SolutionsMeet
<1> QED BY <1>7, <1>9, <1>18 DEF OutcomeMeets

-----------------------------------------------------------------------------
(* The value of a live parameter is found in its public slot.               *)
LEMMA SolvedValuesAreFound ==
    ASSUME SKTypeOK, NEW vals \in [LiveParameters -> Values \union {NaN}], slots' = WrittenBack(vals),
           NEW q \in LiveParameters, NEW p, p = Public(q)
    PROVE  /\ IsUnknown(p) /\ p[1] \in Families
           /\ p[2] + 1 \in DOMAIN slots[p[1]]
           /\ slots'[p[1]][p[2] + 1].vals[p[3]] = vals[q]
<1>1. PICK fam \in Families : \E i \in 0..(LiveCounts[fam] - 1) : \E part \in Parts(fam) :
          q = <<fam, i, part>>
    BY LiveParametersAre
<1>2. PICK many \in Nat : many = LiveCounts[fam]
    BY LivePositions
<1>3. PICK i \in 0..(many - 1) : \E part \in Parts(fam) : q = <<fam, i, part>>
    BY <1>1, <1>2
<1>4. PICK part \in Parts(fam) : q = <<fam, i, part>>
    BY <1>3
<1>5. i + 1 \in 1..many
    OBVIOUS
<1>6. PICK id \in Int : id = LiveIds(fam)[i + 1] /\ InSlot(fam, id) /\ Position(fam, id) = i
    BY <1>2, <1>5, LivePositions
<1>7. p = <<fam, id, part>>
    BY <1>4, <1>6, LiveValuesFit
<1>8. id \in 0..(Len(slots[fam]) - 1) /\ Len(slots[fam]) \in Nat
    BY <1>6, SlotTypes
<1>9. PICK s : s = slots[fam][id + 1]
    OBVIOUS
<1>10. id + 1 \in DOMAIN slots[fam] /\ ~s.removed /\ s \in StoredEntities(fam)
       /\ s.vals \in [Parts(fam) -> Values \union {NaN}]
    BY <1>6, <1>8, <1>9, SlotTypes DEF InSlot
<1>11. PICK new : new = [t \in DOMAIN s.vals |-> vals[<<fam, Position(fam, (id + 1) - 1), t>>]]
    OBVIOUS
<1>12. slots'[fam][id + 1] = [s EXCEPT !.vals = new]
    BY <1>9, <1>10, <1>11 DEF WrittenBack
<1>13. slots'[fam][id + 1].vals = new
    BY <1>10, <1>12 DEF StoredEntities
<1>14. new[part] = vals[<<fam, i, part>>]
    <2>1. (id + 1) - 1 = id
        OBVIOUS
    <2> QED BY <1>6, <1>10, <1>11, <2>1
<1>15. IsUnknown(p)
    BY <1>7 DEF IsUnknown, Families
<1> QED BY <1>4, <1>7, <1>10, <1>13, <1>14, <1>15

-----------------------------------------------------------------------------
(* The slots that a solve gave values to, and their values, stay.           *)
ParamInSlot(p) == IsUnknown(p) => p[1] \in Families /\ p[2] + 1 \in DOMAIN slots[p[1]]
SolvedInSlots ==
    solve.done => \A row \in solve.rows : \A i \in DOMAIN row.params : ParamInSlot(row.params[i])
SolvedInv == SolvedInSlots /\ SolvedMeansMet

LEMMA SolvedStays ==
    ASSUME SolvedInv, ValuesStay, solve' = solve
    PROVE  SolvedInv'
<1>1. ASSUME NEW p, ParamInSlot(p)
      PROVE  ParamInSlot(p)' /\ Value(p)' = Value(p)
    <2>1. CASE IsUnknown(p)
        <3>1. PICK fam \in Families : fam = p[1]
            BY <1>1, <2>1 DEF ParamInSlot
        <3>2. PICK j : j = p[2] + 1
            OBVIOUS
        <3>3. j \in DOMAIN slots[fam]
            BY <1>1, <2>1, <3>1, <3>2 DEF ParamInSlot
        <3>4. j \in DOMAIN slots'[fam] /\ slots'[fam][j].vals = slots[fam][j].vals
            BY <3>3 DEF ValuesStay
        <3> QED BY <2>1, <3>1, <3>2, <3>4 DEF ParamInSlot, Value
    <2>2. CASE ~IsUnknown(p)
        BY <2>2 DEF ParamInSlot, Value
    <2> QED BY <2>1, <2>2
<1>2. SolvedInSlots'
    BY <1>1 DEF SolvedInv, SolvedInSlots
<1>3. ASSUME solve.done, NEW row \in solve.rows, Met(row) PROVE Met(row)'
    <2>1. \A i \in DOMAIN row.params : Value(row.params[i])' = Value(row.params[i])
        BY <1>1, <1>3 DEF SolvedInv, SolvedInSlots
    <2>2. PICK f, g : /\ f = [i \in DOMAIN row.params |-> Value(row.params[i])]
                      /\ g = [i \in DOMAIN row.params |-> Value(row.params[i])']
        BY Zenon
    <2>3. f = g
        BY <2>1, <2>2
    <2>4. Met(row) = Holds(row.kind, f) /\ Met(row)' = Holds(row.kind, g)
        BY <2>2, Zenon DEF Met
    <2> QED BY <1>3, <2>3, <2>4
<1>4. SolvedMeansMet'
    BY <1>3, Zenon DEF SolvedInv, SolvedMeansMet
<1> QED BY <1>2, <1>4 DEF SolvedInv

-----------------------------------------------------------------------------
LEMMA EditsKeepValues ==
    ASSUME SKTypeOK
    PROVE  /\ slots' = slots => ValuesStay
           /\ \A fam \in Families : \A seed \in Seeds[fam] : AddEntity(fam, seed) => ValuesStay
           /\ \A fam \in Families, id \in 0..MaxEntities : RemoveEntity(fam, id) => ValuesStay
           /\ \A fam \in Curves, id \in 0..MaxEntities, flag \in BOOLEAN :
                 SetConstruction(fam, id, flag) => ValuesStay
<1>1. ASSUME slots' = slots PROVE ValuesStay
    BY <1>1 DEF ValuesStay
<1>2. ASSUME NEW fam \in Families, NEW seed \in Seeds[fam], AddEntity(fam, seed)
      PROVE  ValuesStay
    <2> SUFFICES ASSUME NEW f \in Families, NEW j \in DOMAIN slots[f]
                 PROVE  j \in DOMAIN slots'[f] /\ slots'[f][j].vals = slots[f][j].vals
        BY DEF ValuesStay
    <2>1. PICK old : old = slots[f] /\ old \in Seq(StoredEntities(f)) /\ j \in 1..Len(old)
        BY SlotTypes DEF SKTypeOK
    <2>2. PICK s : slots' = [slots EXCEPT ![fam] = Append(slots[fam], s)]
                   /\ s = [vals |-> seed, construction |-> FALSE, removed |-> FALSE]
        BY <1>2 DEF AddEntity
    <2>3. s \in StoredEntities(fam)
        <3>1. seed \in [Parts(fam) -> Values \union {NaN}]
            BY SketchAssumption
        <3> QED BY <2>2, <3>1 DEF StoredEntities
    <2>4. CASE f = fam
        <3>1. slots'[f] = Append(old, s)
            BY <2>1, <2>2, <2>4 DEF SKTypeOK
        <3>2. s \in StoredEntities(f)
            BY <2>3, <2>4
        <3>3. j \in DOMAIN Append(old, s) /\ Append(old, s)[j] = old[j]
            BY <2>1, <3>2
        <3> QED BY <2>1, <3>1, <3>3
    <2>5. CASE f # fam
        <3>1. slots'[f] = slots[f]
            BY <2>2, <2>5 DEF SKTypeOK
        <3> QED BY <3>1
    <2> QED BY <2>4, <2>5
<1>3. ASSUME NEW fam \in Families, NEW id \in 0..MaxEntities, RemoveEntity(fam, id)
      PROVE  ValuesStay
    <2>1. CASE ~InSlot(fam, id)
        BY <1>1, <1>3, <2>1 DEF RemoveEntity
    <2>2. CASE InSlot(fam, id)
        <3>1. slots' = [slots EXCEPT ![fam][id + 1].removed = TRUE]
            BY <1>3, <2>2 DEF RemoveEntity
        <3>2. id \in Nat
            BY SketchAssumption
        <3> QED BY <2>2, <3>1, <3>2, EntityRemoved
    <2> QED BY <2>1, <2>2
<1>4. ASSUME NEW fam \in Curves, NEW id \in 0..MaxEntities, NEW flag \in BOOLEAN,
             SetConstruction(fam, id, flag)
      PROVE  ValuesStay
    <2>0. fam \in Families /\ id \in Nat
        BY SketchAssumption DEF Curves, Families
    <2>1. CASE slots' = slots
        BY <1>1, <2>1
    <2>2. CASE slots' # slots
        <3>1. id <= Len(slots[fam]) /\ id # Len(slots[fam])
              /\ slots' = [slots EXCEPT ![fam][id + 1].construction = flag]
            BY <1>4, <2>2 DEF SetConstruction
        <3>2. id < Len(slots[fam])
            BY <2>0, <3>1, SlotTypes
        <3> QED BY <2>0, <3>1, <3>2, ConstructionSet
    <2> QED BY <2>1, <2>2
<1> QED BY <1>1, <1>2, <1>3, <1>4

LEMMA SolvedRowIs ==
    ASSUME NEW o, NEW r, NEW row, row = SolvedRow(o, r)
    PROVE  /\ row.kind = o.clist[r].kind
           /\ DOMAIN row.params = DOMAIN o.clist[r].params
           /\ \A i \in DOMAIN row.params :
                 row.params[i] = IF IsUnknown(o.clist[r].params[i]) THEN Public(o.clist[r].params[i])
                                 ELSE o.clist[r].params[i]
<1> DEFINE given == [i \in DOMAIN o.clist[r].params |->
                       IF IsUnknown(o.clist[r].params[i]) THEN Public(o.clist[r].params[i])
                       ELSE o.clist[r].params[i]]
<1>1. row.kind = o.clist[r].kind /\ row.params = given
    <2> HIDE DEF given
    <2>1. SolvedRow(o, r) = [id |-> PublicConstraint(o.clist[r].tag), entities |-> ActsOn(o.clist[r]),
                             kept |-> r \in o.rows, kind |-> o.clist[r].kind, params |-> given]
        BY Zenon DEF SolvedRow, given
    <2> QED BY <2>1
<1> QED BY <1>1

LEMMA SolvingMeets ==
    ASSUME SKTypeOK, NEW o \in SolveOutcomes(LiveList, LiveCounts, LiveValues), SolveSketchSlots(o)
    PROVE  SolvedInv'
<1>1. CASE ~o.ok
    <2>1. solve' = [done |-> FALSE, conflicting |-> o.conflicting]
        BY <1>1 DEF SolveSketchSlots
    <2>2. solve'.done = FALSE
        BY <2>1
    <2> QED BY <2>2 DEF SolvedInv, SolvedInSlots, SolvedMeansMet
<1>2. CASE o.ok
    <2>1. SoundOutcome(o)
        BY <1>2, OutcomesAreSound
    <2>2. /\ slots' = WrittenBack(o.vals)
          /\ solve' = [done |-> TRUE, alg |-> o.alg, rows |-> SolvedRows(o), conflicting |-> {}]
        BY <1>2 DEF SolveSketchSlots
    <2>3. solve'.rows = SolvedRows(o) /\ solve'.alg = o.alg
        BY <2>2
    <2>4. PICK vals \in [LiveParameters -> Values \union {NaN}] : vals = o.vals
        BY <2>1 DEF SoundOutcome
    <2>5. ASSUME NEW r \in Rows(o.clist), NEW row, row = SolvedRow(o, r), NEW i \in DOMAIN row.params
          PROVE  /\ ParamInSlot(row.params[i])'
                 /\ Value(row.params[i])' = IF IsUnknown(o.clist[r].params[i])
                                            THEN vals[o.clist[r].params[i]] ELSE o.clist[r].params[i][2]
        <3>1. PICK q : q = o.clist[r].params[i]
            OBVIOUS
        <3>2. PICK p : p = row.params[i]
            OBVIOUS
        <3>3. i \in DOMAIN o.clist[r].params /\ p = IF IsUnknown(q) THEN Public(q) ELSE q
            BY <2>5, <3>1, <3>2, SolvedRowIs
        <3>4. CASE IsUnknown(q)
            <4>1. SystemFits(o.clist, LiveList, LiveCounts)
                BY <2>1 DEF SoundOutcome
            <4>2. q \in LiveParameters
                BY <3>1, <3>3, <3>4, <4>1, SystemRowsAreLive DEF RowIsLive
            <4>3. /\ IsUnknown(p) /\ p[1] \in Families /\ p[2] + 1 \in DOMAIN slots[p[1]]
                  /\ slots'[p[1]][p[2] + 1].vals[p[3]] = vals[q]
                BY <2>2, <2>4, <3>3, <3>4, <4>2, SolvedValuesAreFound
            <4>4. p[2] + 1 \in DOMAIN slots'[p[1]]
                <5>1. PICK fam \in Families : fam = p[1]
                    BY <4>3
                <5>2. slots'[fam] = WrittenBack(vals)[fam]
                    BY <2>2, <2>4
                <5>3. DOMAIN slots'[fam] = DOMAIN slots[fam]
                    BY <5>2 DEF WrittenBack
                <5> QED BY <4>3, <5>1, <5>3
            <4> QED BY <3>1, <3>2, <3>4, <4>3, <4>4 DEF ParamInSlot, Value
        <3>5. CASE ~IsUnknown(q)
            BY <3>1, <3>2, <3>3, <3>5 DEF ParamInSlot, Value
        <3> QED BY <3>4, <3>5
    <2>6. SolvedInSlots'
        <3> SUFFICES ASSUME NEW row \in SolvedRows(o), NEW i \in DOMAIN row.params
                     PROVE  ParamInSlot(row.params[i])'
            BY <2>3 DEF SolvedInSlots
        <3>1. PICK r \in Rows(o.clist) : row = SolvedRow(o, r)
            BY SolvedRowsAre, Zenon
        <3> QED BY <2>5, <3>1
    <2>7. ASSUME o.alg # "BFGS", NEW row \in SolvedRows(o), row.kept
          PROVE  Met(row)'
        <3>1. PICK r \in Rows(o.clist) : row = SolvedRow(o, r)
            BY SolvedRowsAre, Zenon
        <3>2. r \in o.rows
            BY <2>7, <3>1, SolvedRowsAre, Zenon
        <3>3. PICK c : c = o.clist[r]
            OBVIOUS
        <3>4. Satisfied(c, vals)
            BY <1>2, <2>4, <2>7, <3>2, <3>3, OutcomesMeet DEF OutcomeMeets
        <3>5. row.kind = c.kind /\ DOMAIN row.params = DOMAIN c.params
            BY <3>1, <3>3, SolvedRowIs
        <3>6. PICK f, g : /\ f = [i \in DOMAIN c.params |->
                                   IF IsUnknown(c.params[i]) THEN vals[c.params[i]] ELSE c.params[i][2]]
                          /\ g = [i \in DOMAIN row.params |-> Value(row.params[i])']
            BY Zenon
        <3>7. \A i \in DOMAIN row.params : Value(row.params[i])' =
                  IF IsUnknown(c.params[i]) THEN vals[c.params[i]] ELSE c.params[i][2]
            BY <2>5, <3>1, <3>3
        <3>8. f = g
            BY <3>5, <3>6, <3>7
        <3>9. Holds(c.kind, f)
            BY <3>4, <3>6, Zenon DEF Satisfied
        <3>10. Met(row)' = Holds(row.kind, g)
            BY <3>6, Zenon DEF Met
        <3> QED BY <3>5, <3>8, <3>9, <3>10
    <2>8. SolvedMeansMet'
        BY <2>3, <2>7, Zenon DEF SolvedMeansMet
    <2> QED BY <2>6, <2>8 DEF SolvedInv
<1> QED BY <1>1, <1>2

(* After a solve by one of the Newton-like solvers the values in the slots *)
(* meet every solver constraint that was not dropped as redundant: neither *)
(* the division into components, nor the elimination of equal unknowns,    *)
(* nor the renumbering of live entities loses one, and no edit undoes it.  *)
THEOREM SolvedAlwaysMet == SKSpec => []SolvedMeansMet
<1>1. SKInit => SolvedInv
    <2>1. SKInit => solve.done = FALSE
        BY DEF SKInit, NoSolve
    <2> QED BY <2>1 DEF SolvedInv, SolvedInSlots, SolvedMeansMet
<1>2. SKTypeOK /\ SolvedInv /\ [SKNext]_skVars => SolvedInv'
    <2> SUFFICES ASSUME SKTypeOK, SolvedInv, [SKNext]_skVars PROVE SolvedInv'
        OBVIOUS
    <2>1. ASSUME NEW fam \in Families, NEW seed \in Seeds[fam], AddEntity(fam, seed)
          PROVE  SolvedInv'
        BY <2>1, EditsKeepValues, SolvedStays DEF AddEntity
    <2>2. ASSUME NEW c \in ConstraintChoices, AddConstraint(c) PROVE SolvedInv'
        BY <2>2, EditsKeepValues, SolvedStays DEF AddConstraint
    <2>3. ASSUME NEW fam \in Families, NEW id \in 0..MaxEntities, RemoveEntity(fam, id)
          PROVE  SolvedInv'
        <3>1. solve' = solve
            BY <2>3 DEF RemoveEntity
        <3> QED BY <2>3, <3>1, EditsKeepValues, SolvedStays
    <2>4. ASSUME NEW id \in 0..Len(constraintSlots), RemoveConstraint(id) PROVE SolvedInv'
        BY <2>4, EditsKeepValues, SolvedStays DEF RemoveConstraint
    <2>5. ASSUME NEW fam \in Curves, NEW id \in 0..MaxEntities, NEW flag \in BOOLEAN,
                 SetConstruction(fam, id, flag)
          PROVE  SolvedInv'
        <3>1. solve' = solve
            BY <2>5 DEF SetConstruction
        <3> QED BY <2>5, <3>1, EditsKeepValues, SolvedStays
    <2>6. ASSUME NEW o \in SolveOutcomes(LiveList, LiveCounts, LiveValues), SolveSketchSlots(o)
          PROVE  SolvedInv'
        BY <2>6, SolvingMeets
    <2>7. ASSUME NEW connected \in BOOLEAN, SketchToWire(connected) PROVE SolvedInv'
        BY <2>7, EditsKeepValues, SolvedStays DEF SketchToWire
    <2>8. CASE UNCHANGED skVars
        BY <2>8, EditsKeepValues, SolvedStays DEF skVars
    <2> QED BY <2>1, <2>2, <2>3, <2>4, <2>5, <2>6, <2>7, <2>8, Zenon DEF SKNext
<1>3. SKSpec => []SKTypeOK
    BY PublicIdsAlwaysHold, PTL DEF PublicIdsHold
<1>4. SolvedInv => SolvedMeansMet
    BY DEF SolvedInv
<1> QED BY <1>1, <1>2, <1>3, <1>4, PTL DEF SKSpec

=============================================================================
