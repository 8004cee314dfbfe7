------------------------- MODULE FeatureTreeProofs -------------------------
(***************************************************************************)
(* Theorems about the feature tree and its incremental replay, and about   *)
(* the part studio around it: what is up to date is right and what         *)
(* execute() returns is current, for every catalogue, every bound, every   *)
(* schema, every configuration and every history of edits, partial         *)
(* replays, reloads and exceptions.                                        *)
(***************************************************************************)
EXTENDS FeatureTreeRefinement, PartStudioProperties, Recursion, SequencesExt,
        SequenceTheorems

-----------------------------------------------------------------------------
(* Lists *)

LEMMA MaximumExists ==
    ASSUME NEW n \in Nat, NEW S \in SUBSET (1..n), S # {}
    PROVE  \E i \in S : \A j \in S : j <= i
<1> DEFINE T == {k \in Nat : \E i \in S : k = n - i}
<1>1. PICK i0 \in S : TRUE
    OBVIOUS
<1>2. n - i0 \in T
    OBVIOUS
<1>3. T \subseteq Nat /\ T # {}
    BY <1>2
<1>4. \A j \in S : n - j \in T
    OBVIOUS
<1>5. PICK x \in T : \A y \in T : ~ (<<y, x>> \in OpToRel(<, Nat))
    <2> HIDE DEF T
    <2> QED BY <1>3, WFMin, NatLessThanWellFounded
<1>6. ASSUME NEW y \in T PROVE ~(y < x)
    <2>1. y \in Nat /\ x \in Nat
        OBVIOUS
    <2>2. y < x => <<y, x>> \in OpToRel(<, Nat)
        BY <2>1, Zenon DEF OpToRel
    <2> QED BY <2>2, <1>5
<1>7. PICK i \in S : x = n - i
    OBVIOUS
<1>8. \A j \in S : j <= i
    BY <1>4, <1>6, <1>7
<1> QED BY <1>8

(* A function that no step changes is constant. *)
LEMMA ConstantBetween ==
    ASSUME NEW g, NEW m \in Nat, NEW n \in Nat, m <= n,
           \A k \in (m + 1)..n : g[k] = g[k - 1]
    PROVE  g[n] = g[m]
<1> DEFINE S == {k \in m..n : g[k] # g[m]}
<1> SUFFICES ASSUME S # {} PROVE FALSE
    OBVIOUS
<1>1. PICK k \in S : \A j \in S : k <= j
    <2>1. S \subseteq Nat
        OBVIOUS
    <2> HIDE DEF S
    <2> QED BY <2>1, LeastExists
<1>2. k \in (m + 1)..n
    OBVIOUS
<1>3. k - 1 \in m..n /\ ~(k <= k - 1)
    BY <1>2
<1>4. k - 1 \notin S
    BY <1>1, <1>3
<1> QED BY <1>2, <1>3, <1>4

(* A value that only the indices of a set change is, after the last of     *)
(* them, what that one left.                                               *)
LEMMA LastChange ==
    ASSUME NEW n \in Nat, NEW g, NEW S \in SUBSET (1..n),
           \A k \in 1..n : k \notin S => g[k + 1] = g[k]
    PROVE  /\ S = {} => g[n + 1] = g[1]
           /\ S # {} => LET last == CHOOSE i \in S : \A j \in S : j <= i
                        IN  last \in S /\ g[n + 1] = g[last + 1]
<1>1. ASSUME NEW m \in 1..(n + 1), \A k \in m..n : k \notin S
      PROVE  g[n + 1] = g[m]
    <2>1. \A k \in (m + 1)..(n + 1) : g[k] = g[k - 1]
        <3> SUFFICES ASSUME NEW k \in (m + 1)..(n + 1) PROVE g[k] = g[k - 1]
            OBVIOUS
        <3>1. k - 1 \in m..n /\ k - 1 \in 1..n /\ (k - 1) + 1 = k
            OBVIOUS
        <3> QED BY <1>1, <3>1
    <2>2. m \in Nat /\ n + 1 \in Nat /\ m <= n + 1
        OBVIOUS
    <2> QED BY <2>1, <2>2, ConstantBetween
<1>2. ASSUME S = {} PROVE g[n + 1] = g[1]
    BY <1>1, <1>2
<1>3. ASSUME S # {}
      PROVE  LET last == CHOOSE i \in S : \A j \in S : j <= i
             IN  last \in S /\ g[n + 1] = g[last + 1]
    <2> DEFINE last == CHOOSE i \in S : \A j \in S : j <= i
    <2>1. \E i \in S : \A j \in S : j <= i
        BY <1>3, MaximumExists
    <2>2. last \in S /\ \A j \in S : j <= last
        BY <2>1
    <2> HIDE DEF last
    <2>3. last + 1 \in 1..(n + 1) /\ \A k \in (last + 1)..n : k \notin S
        BY <2>2
    <2>4. last \in S /\ g[n + 1] = g[last + 1]
        BY <1>1, <2>2, <2>3
    <2> QED BY <2>4 DEF last
<1> QED BY <1>2, <1>3

LEMMA InsertAtProperties ==
    ASSUME NEW S, NEW s \in Seq(S), NEW e \in S, NEW at \in 1..(Len(s) + 1)
    PROVE  /\ InsertAt(s, at, e) \in Seq(S)
           /\ Len(InsertAt(s, at, e)) = Len(s) + 1
           /\ \A i \in 1..(at - 1) : InsertAt(s, at, e)[i] = s[i]
           /\ InsertAt(s, at, e)[at] = e
           /\ \A i \in (at + 1)..(Len(s) + 1) : InsertAt(s, at, e)[i] = s[i - 1]
<1> DEFINE a == SubSeq(s, 1, at - 1)
           b == SubSeq(s, at, Len(s))
<1>1. /\ a \in Seq(S) /\ Len(a) = at - 1
      /\ \A i \in 1..(at - 1) : a[i] = s[i]
    BY SubSeqProperties
<1>2. /\ b \in Seq(S) /\ Len(b) = Len(s) + 1 - at
      /\ \A i \in 1..(Len(s) + 1 - at) : b[i] = s[at + i - 1]
    BY SubSeqProperties
<1>3. InsertAt(s, at, e) = (a \o <<e>>) \o b
    BY DEF InsertAt
<1>4. <<e>> \in Seq(S) /\ Len(<<e>>) = 1 /\ <<e>>[1] = e
    OBVIOUS
<1> HIDE DEF a, b
<1> DEFINE c == a \o <<e>>
<1>5. /\ c \in Seq(S) /\ Len(c) = at
      /\ \A i \in 1..(at - 1) : c[i] = s[i]
      /\ c[at] = e
    BY <1>1, <1>4, ConcatProperties
<1> HIDE DEF c
<1>6. /\ c \o b \in Seq(S)
      /\ Len(c \o b) = Len(s) + 1
      /\ \A i \in 1..(Len(s) + 1) : (c \o b)[i] = IF i <= at THEN c[i] ELSE b[i - at]
    BY <1>2, <1>5, ConcatProperties
<1>7. InsertAt(s, at, e) = c \o b
    BY <1>3 DEF c
<1> QED BY <1>2, <1>5, <1>6, <1>7

LEMMA RemoveAtProperties ==
    ASSUME NEW S, NEW s \in Seq(S), NEW at \in DOMAIN s
    PROVE  /\ RemoveAt(s, at) \in Seq(S)
           /\ Len(RemoveAt(s, at)) = Len(s) - 1
           /\ \A i \in 1..(at - 1) : RemoveAt(s, at)[i] = s[i]
           /\ \A i \in at..(Len(s) - 1) : RemoveAt(s, at)[i] = s[i + 1]
<1> DEFINE a == SubSeq(s, 1, at - 1)
           b == SubSeq(s, at + 1, Len(s))
<1>0. at \in 1..Len(s) /\ Len(s) \in Nat
    OBVIOUS
<1>1. /\ a \in Seq(S) /\ Len(a) = at - 1
      /\ \A i \in 1..(at - 1) : a[i] = s[i]
    BY <1>0, SubSeqProperties
<1>2. /\ b \in Seq(S) /\ Len(b) = Len(s) - at
      /\ \A i \in 1..(Len(s) - at) : b[i] = s[at + i]
    BY <1>0, SubSeqProperties
<1>3. RemoveAt(s, at) = a \o b
    BY DEF RemoveAt
<1> HIDE DEF a, b
<1>4. /\ a \o b \in Seq(S)
      /\ Len(a \o b) = Len(a) + Len(b)
      /\ \A i \in 1..(Len(a) + Len(b)) :
             (a \o b)[i] = IF i <= Len(a) THEN a[i] ELSE b[i - Len(a)]
    BY <1>1, <1>2, ConcatProperties, Zenon
<1>5. Len(a \o b) = Len(s) - 1
    BY <1>0, <1>1, <1>2, <1>4
<1>6. ASSUME NEW i \in 1..(at - 1) PROVE (a \o b)[i] = s[i]
    <2>1. i \in 1..(Len(a) + Len(b)) /\ i <= Len(a)
        BY <1>0, <1>1, <1>2
    <2>2. (a \o b)[i] = a[i]
        BY <1>4, <2>1, Zenon
    <2> QED BY <1>1, <2>2
<1>7. ASSUME NEW i \in at..(Len(s) - 1) PROVE (a \o b)[i] = s[i + 1]
    <2>1. i \in 1..(Len(a) + Len(b)) /\ ~(i <= Len(a))
        BY <1>0, <1>1, <1>2
    <2>2. (a \o b)[i] = b[i - Len(a)]
        BY <1>4, <2>1, Zenon
    <2>3. i - Len(a) \in 1..(Len(s) - at) /\ at + (i - Len(a)) = i + 1
        BY <1>0, <1>1
    <2>4. b[i - Len(a)] = s[at + (i - Len(a))]
        BY <1>2, <2>3
    <2> QED BY <2>2, <2>3, <2>4
<1> QED BY <1>3, <1>4, <1>5, <1>6, <1>7

-----------------------------------------------------------------------------
(* Helpers *)

LEMMA ClampRange ==
    ASSUME NEW x \in Int, NEW lo \in Int, NEW hi \in Int, lo <= hi
    PROVE  Clamp(x, lo, hi) \in lo..hi
  BY DEF Clamp

LEMMA BoundsType ==
    /\ MaxFeatures \in Nat
    /\ \A j \in 0..(MaxFeatures + 1) : j \in Int
  BY FeatureTreeAssumption DEF FeatureTreeAssumption

LEMMA EmptyMapType ==
    ASSUME NEW S PROVE MapFrom(EmptyMap, S)
  BY DEF MapFrom, EmptyMap

LEMMA PutType ==
    ASSUME NEW S, NEW f, MapFrom(f, S), NEW k \in Ids, NEW v \in S
    PROVE  MapFrom(Put(f, k, v), S)
  BY DEF MapFrom, Put

LEMMA EraseType ==
    ASSUME NEW S, NEW f, MapFrom(f, S), NEW k
    PROVE  MapFrom(Erase(f, k), S)
  BY DEF MapFrom, Erase, Restrict

LEMMA IdsInType ==
    ASSUME NEW list \in Seq(Features), NEW lo, NEW hi
    PROVE  IdsIn(list, lo, hi) \subseteq Ids
<1> SUFFICES ASSUME NEW x \in IdsIn(list, lo, hi) PROVE x \in Ids
    OBVIOUS
<1>1. PICK i \in DOMAIN list : x = list[i].id
    BY DEF IdsIn
<1>2. list[i] \in Features
    OBVIOUS
<1> QED BY <1>1, <1>2 DEF Features

LEMMA MarkedType ==
    ASSUME NEW list \in Seq(Features), NEW flags, MapFrom(flags, BOOLEAN), NEW index
    PROVE  MapFrom(MarkedDirtyFrom(list, flags, index), BOOLEAN)
<1>1. IdsIn(list, index, Len(list)) \subseteq Ids
    BY IdsInType
<1> QED BY <1>1 DEF MapFrom, MarkedDirtyFrom

LEMMA NullShapeType == NullShape \in Shapes
  BY DEF NullShape, Shapes

(* What ShapeBefore finds in the cache is a shape. *)
LEMMA ShapeBeforeType ==
    ASSUME TypeOK, NEW start \in DOMAIN features
    PROVE  ShapeBefore(start) \in Shapes
<1> DEFINE usable == {i \in 1..(start - 1) : /\ ~features[i].suppressed
                                             /\ features[i].status = "OK"
                                             /\ features[i].id \in DOMAIN cache}
           last == CHOOSE i \in usable : \A j \in usable : j <= i
<1>1. CASE usable = {}
    BY <1>1, NullShapeType DEF ShapeBefore
<1>2. CASE usable # {}
    <2>1. start - 1 \in Nat
        BY DEF TypeOK
    <2>2. \E i \in usable : \A j \in usable : j <= i
        BY <1>2, <2>1, MaximumExists
    <2>3. last \in usable
        BY <2>2
    <2>4. cache[features[last].id] \in Shapes
        BY <2>3 DEF TypeOK, MapFrom
    <2> QED BY <1>2, <2>4 DEF ShapeBefore
<1> QED BY <1>1, <1>2

LEMMA UsesType ==
    ASSUME NEW shape \in Shapes
    PROVE  Uses(shape) \subseteq Ids \X Literals
<1> SUFFICES ASSUME NEW use \in Uses(shape) PROVE use \in Ids \X Literals
    OBVIOUS
<1>1. shape.geo \in Seq(Operations)
    BY DEF Shapes
<1>2. PICK i \in DOMAIN shape.geo : use = <<shape.geo[i].by, shape.geo[i].val>>
    BY DEF Uses, Range
<1>3. shape.geo[i] \in Operations
    BY <1>1
<1> QED BY <1>2, <1>3 DEF Operations

LEMMA EffectiveValueType ==
    ASSUME NEW f \in Features,
           NEW t \in [Inputs -> Literals \cup {Unbound}] \cup {NoTransformer}
    PROVE  EffectiveValue(f, t) \in Literals \cup Inputs \cup {Unbound}
  BY DEF EffectiveValue, Features

LEMMA ExecutedShapeType ==
    ASSUME NEW f \in Features, NEW val \in Literals, NEW base \in Shapes,
           NEW uses \in SUBSET (Ids \X Literals), NEW identity \in Nat
    PROVE  ExecutedShape(f, val, base, uses, identity) \in Shapes
<1> DEFINE op == [by |-> f.id, val |-> val, on |-> uses]
<1>1. op \in Operations
    BY DEF Operations, Features
<1>2. base.geo \in Seq(Operations) /\ base.ids \in Seq(Nat)
    BY DEF Shapes
<1> HIDE DEF op
<1>3. <<op>> \in Seq(Operations) /\ Append(base.geo, op) \in Seq(Operations)
    BY <1>1, <1>2
<1>4. <<identity>> \in Seq(Nat) /\ Append(base.ids, identity) \in Seq(Nat)
    BY <1>2
<1>5. ExecutedGeo(f, val, base, uses) \in Seq(Operations)
    BY <1>3 DEF ExecutedGeo, op
<1> QED BY <1>4, <1>5 DEF ExecutedShape, Shapes

-----------------------------------------------------------------------------
(* Type correctness *)

LEMMA TurnOfLoopType ==
    ASSUME TypeOK, Looping, NEW status \in Statuses, NEW shape \in Shapes,
           NEW allocated \in Nat, TurnOfLoop(status, shape, allocated)
    PROVE  TypeOK'
<1>1. pos \in 1..Len(features) /\ features[pos] \in Features
    BY DEF TypeOK, Looping
<1>2. features[pos].id \in Ids
    BY <1>1 DEF Features
<1>3. features' \in Seq(Features)
    <2>1. [features[pos] EXCEPT !.status = status] \in Features
        BY <1>1 DEF Features
    <2> QED BY <1>1, <2>1, ExceptSeq DEF TurnOfLoop, TypeOK
<1>4. MapFrom(allocatorSnapshotsBefore', Nat)
    BY <1>2, PutType DEF TurnOfLoop, TypeOK
<1>5. MapFrom(cache', Shapes)
    BY <1>2, PutType DEF TurnOfLoop, TypeOK
<1>6. MapFrom(dirty', BOOLEAN)
    BY <1>2, PutType DEF TurnOfLoop, TypeOK
<1>7. counter' \in Nat /\ pos' \in Nat \ {0} /\ currentShape' \in Shapes
    BY DEF TurnOfLoop, TypeOK
<1> QED BY <1>3, <1>4, <1>5, <1>6, <1>7 DEF TurnOfLoop, TypeOK, marker

(* Lists whose features one operation changed are still lists of features. *)
LEMMA ListsOfFeatures ==
    ASSUME TypeOK, NEW i \in DOMAIN features
    PROVE  /\ i \in 1..Len(features) /\ Len(features) \in Nat
           /\ features[i] \in Features /\ features[i].id \in Ids
           /\ \A v \in Literals \cup Inputs : [features EXCEPT ![i].val = v] \in Seq(Features)
           /\ \A b \in BOOLEAN : [features EXCEPT ![i].suppressed = b] \in Seq(Features)
           /\ \A st \in Statuses : [features EXCEPT ![i].status = st] \in Seq(Features)
<1>1. i \in 1..Len(features) /\ Len(features) \in Nat /\ features[i] \in Features
    BY DEF TypeOK
<1>2. ASSUME NEW v \in Literals \cup Inputs PROVE [features EXCEPT ![i].val = v] \in Seq(Features)
    <2>1. [features[i] EXCEPT !.val = v] \in Features
        BY <1>1 DEF Features
    <2> QED BY <1>1, <2>1, ExceptSeq DEF TypeOK
<1>3. ASSUME NEW b \in BOOLEAN PROVE [features EXCEPT ![i].suppressed = b] \in Seq(Features)
    <2>1. [features[i] EXCEPT !.suppressed = b] \in Features
        BY <1>1 DEF Features
    <2> QED BY <1>1, <2>1, ExceptSeq DEF TypeOK
<1>4. ASSUME NEW st \in Statuses PROVE [features EXCEPT ![i].status = st] \in Seq(Features)
    <2>1. [features[i] EXCEPT !.status = st] \in Features
        BY <1>1 DEF Features
    <2> QED BY <1>1, <2>1, ExceptSeq DEF TypeOK
<1> QED BY <1>1, <1>2, <1>3, <1>4 DEF Features

LEMMA MovedType ==
    ASSUME TypeOK, NEW i \in DOMAIN features, NEW to \in 1..Len(features)
    PROVE  InsertAt(RemoveAt(features, i), to, features[i]) \in Seq(Features)
<1>1. RemoveAt(features, i) \in Seq(Features) /\ Len(RemoveAt(features, i)) = Len(features) - 1
    BY RemoveAtProperties DEF TypeOK
<1>2. to \in 1..(Len(RemoveAt(features, i)) + 1) /\ features[i] \in Features
    BY <1>1 DEF TypeOK
<1> QED BY <1>1, <1>2, InsertAtProperties

LEMMA ReplacedType ==
    ASSUME TypeOK, NEW old \in Ids, NEW new \in Ids
    PROVE  [i \in DOMAIN features |->
              IF features[i].ref = old THEN [features[i] EXCEPT !.ref = new] ELSE features[i]]
           \in Seq(Features)
<1> DEFINE replaced(i) ==
        IF features[i].ref = old THEN [features[i] EXCEPT !.ref = new] ELSE features[i]
<1>1. Len(features) \in Nat /\ DOMAIN features = 1..Len(features)
    BY DEF TypeOK
<1>2. ASSUME NEW i \in 1..Len(features) PROVE replaced(i) \in Features
    <2>1. features[i] \in Features
        BY DEF TypeOK
    <2>2. [features[i] EXCEPT !.ref = new] \in Features
        BY <2>1 DEF Features
    <2> QED BY <2>1, <2>2
<1> HIDE DEF replaced
<1>3. [i \in 1..Len(features) |-> replaced(i)] \in Seq(Features)
    BY <1>1, <1>2, IsASeq
<1> QED BY <1>1, <1>3 DEF replaced

LEMMA EditType ==
    ASSUME TypeOK, Edit
    PROVE  TypeOK'
<1> USE DEF Editing
<1>0. Len(features) \in Nat /\ DOMAIN features = 1..Len(features)
    BY DEF TypeOK
<1>1. ASSUME NEW f \in Catalog, AddFeature(f) PROVE TypeOK'
    <2>1. f \in Features /\ f.id \in Ids
        BY FeatureTreeAssumption DEF FeatureTreeAssumption, Features
    <2>2. features' \in Seq(Features)
        BY <1>1, <2>1, AppendProperties DEF AddFeature, TypeOK
    <2>3. MapFrom(dirty', BOOLEAN)
        BY <1>1, <2>1, PutType DEF AddFeature, TypeOK
    <2> QED BY <1>1, <2>2, <2>3 DEF AddFeature, TypeOK, marker, loop
<1>2. ASSUME NEW f \in Catalog, NEW i \in 0..(MaxFeatures + 1), InsertFeature(i, f) PROVE TypeOK'
    <2> DEFINE at == Clamp(i, 1, Len(features) + 1)
    <2>1. f \in Features
        BY FeatureTreeAssumption DEF FeatureTreeAssumption
    <2>2. at \in 1..(Len(features) + 1)
        <3>1. i \in Int /\ 1 \in Int /\ Len(features) + 1 \in Int /\ 1 <= Len(features) + 1
            BY <1>0, BoundsType
        <3> QED BY <3>1, ClampRange
    <2> HIDE DEF at
    <2>3. InsertAt(features, at, f) \in Seq(Features)
        BY <2>1, <2>2, InsertAtProperties DEF TypeOK
    <2>4. features' \in Seq(Features)
        BY <1>2, <2>3 DEF InsertFeature, at
    <2>5. MapFrom(dirty', BOOLEAN)
        BY <1>2, <2>4, MarkedType DEF InsertFeature, TypeOK
    <2> QED BY <1>2, <2>4, <2>5 DEF InsertFeature, TypeOK, marker, loop
<1>3. ASSUME NEW i \in DOMAIN features, RemoveFeature(i) PROVE TypeOK'
    <2>1. features' \in Seq(Features)
        BY <1>3, RemoveAtProperties DEF RemoveFeature, TypeOK
    <2>2. MapFrom(cache', Shapes) /\ MapFrom(allocatorSnapshotsBefore', Nat)
        BY <1>3, EraseType DEF RemoveFeature, TypeOK
    <2>3. MapFrom(Erase(dirty, features[i].id), BOOLEAN)
        BY EraseType DEF TypeOK
    <2>4. MapFrom(dirty', BOOLEAN)
        BY <1>3, <2>1, <2>3, MarkedType DEF RemoveFeature
    <2> QED BY <1>3, <2>1, <2>2, <2>4 DEF RemoveFeature, TypeOK, marker, loop
<1>4. ASSUME NEW i \in DOMAIN features, NEW v \in NewValues, UpdateParameter(i, v) PROVE TypeOK'
    <2>1. features' \in Seq(Features)
        BY <1>4, ListsOfFeatures, FeatureTreeAssumption DEF UpdateParameter, FeatureTreeAssumption
    <2>2. MapFrom(dirty', BOOLEAN)
        BY <1>4, MarkedType DEF UpdateParameter, TypeOK
    <2> QED BY <1>4, <2>1, <2>2 DEF UpdateParameter, TypeOK, marker, loop
<1>5. ASSUME NEW i \in DOMAIN features, NEW b \in BOOLEAN, SuppressFeature(i, b) PROVE TypeOK'
    <2>1. features' \in Seq(Features)
        BY <1>5, ListsOfFeatures DEF SuppressFeature
    <2>2. MapFrom(dirty', BOOLEAN)
        BY <1>5, MarkedType DEF SuppressFeature, TypeOK
    <2> QED BY <1>5, <2>1, <2>2 DEF SuppressFeature, TypeOK, marker, loop
<1>6. ASSUME NEW i \in DOMAIN features, NEW j \in 0..(MaxFeatures + 1), MoveFeature(i, j) PROVE TypeOK'
    <2> DEFINE to == Clamp(j, 1, Len(features))
    <2>1. to \in 1..Len(features)
        <3>1. j \in Int /\ 1 \in Int /\ Len(features) \in Int /\ 1 <= Len(features)
            BY <1>0, BoundsType
        <3> QED BY <3>1, ClampRange
    <2> HIDE DEF to
    <2>2. InsertAt(RemoveAt(features, i), to, features[i]) \in Seq(Features)
        BY <2>1, MovedType
    <2>3. features' \in Seq(Features)
        BY <1>6, <2>2 DEF MoveFeature, to
    <2>4. MapFrom(dirty', BOOLEAN)
        BY <1>6, <2>3, MarkedType DEF MoveFeature, TypeOK
    <2> QED BY <1>6, <2>3, <2>4 DEF MoveFeature, TypeOK, marker, loop
<1>7. ASSUME NEW old \in Ids, NEW new \in Ids, ReplaceReference(old, new) PROVE TypeOK'
    <2>1. features' \in Seq(Features)
        BY <1>7, ReplacedType DEF ReplaceReference
    <2>2. MapFrom(dirty', BOOLEAN)
        BY <1>7, MarkedType DEF ReplaceReference, TypeOK
    <2> QED BY <1>7, <2>1, <2>2 DEF ReplaceReference, TypeOK, marker, loop
<1> QED BY <1>1, <1>2, <1>3, <1>4, <1>5, <1>6, <1>7 DEF Edit

LEMMA ReplayStepType ==
    ASSUME TypeOK, ReplayStep
    PROVE  TypeOK'
<1>1. CASE SkipSuppressed
    <2>1. "Suppressed" \in Statuses /\ currentShape \in Shapes
        BY DEF Statuses, TypeOK
    <2> QED BY <1>1, <2>1, TurnOfLoopType DEF SkipSuppressed
<1>2. CASE SkipTransformFailure
    <2>1. currentShape \in Shapes
        BY DEF TypeOK
    <2>2. TransformedStatus(features[pos], featureTransformer) \in Statuses
        BY <1>2 DEF SkipTransformFailure, TransformerRejects, Statuses
    <2> QED BY <1>2, <2>1, <2>2, TurnOfLoopType DEF SkipTransformFailure
<1>3. CASE ExecuteFeature
    <2> DEFINE f == features[pos]
               val == EffectiveValue(f, featureTransformer)
               status == ExecutedStatus(f, val, currentShape, Resolves(f))
               shape == ExecutedShape(f, val, currentShape, ReferencedOps(f), counter + 1)
    <2>1. f \in Features /\ currentShape \in Shapes /\ counter + 1 \in Nat
        BY <1>3 DEF ExecuteFeature, Looping, TypeOK
    <2>2. status \in Statuses
        BY DEF ExecutedStatus, Statuses, Broken
    <2>3. ASSUME status = "OK" PROVE shape \in Shapes
        <3>1. val \in Literals /\ Resolves(f)
            BY <2>3 DEF ExecutedStatus
        <3>2. f.ref # NoRef => cache[f.ref] \in Shapes
            BY <3>1 DEF Resolves, ResolvesIn, TypeOK, MapFrom
        <3>3. ReferencedOps(f) \in SUBSET (Ids \X Literals)
            BY <3>2, UsesType DEF ReferencedOps
        <3> QED BY <2>1, <3>1, <3>3, ExecutedShapeType
    <2>4. \/ status = "OK" /\ TurnOfLoop("OK", shape, 1)
          \/ TurnOfLoop(status, currentShape, 0)
        BY <1>3 DEF ExecuteFeature
    <2>5. Looping
        BY <1>3 DEF ExecuteFeature
    <2> HIDE DEF f, val, status, shape
    <2> QED BY <2>1, <2>2, <2>3, <2>4, <2>5, TurnOfLoopType
<1>4. CASE Return
    BY <1>4, NullShapeType DEF Return, TypeOK, maps, marker
<1> QED BY <1>1, <1>2, <1>3, <1>4 DEF ReplayStep

LEMMA StartReplayType ==
    ASSUME TypeOK, StartReplay
    PROVE  TypeOK'
<1> USE NullShapeType, EmptyMapType, MarkedType DEF EnterLoop
<1>0. features \in Seq(Features) /\ MapFrom(dirty, BOOLEAN)
    BY DEF TypeOK
<1>1. ASSUME NEW op \in {"replay", "replayToRollback"}, Replay(op) PROVE TypeOK'
    BY <1>0, <1>1 DEF Replay, TypeOK, marker
<1>2. CASE ReplayFromFirst
    BY <1>0, <1>2 DEF ReplayFromFirst, TypeOK, marker
<1>3. ASSUME NEW i \in DOMAIN features, ReplayFromSnapshot(i) PROVE TypeOK'
    <2>1. currentShape' \in Shapes
        BY <1>3, ShapeBeforeType DEF ReplayFromSnapshot
    <2>2. counter' \in Nat
        BY <1>3 DEF ReplayFromSnapshot, TypeOK, MapFrom
    <2>3. i \in Nat \ {0}
        BY DEF TypeOK
    <2> QED BY <1>0, <1>3, <2>1, <2>2, <2>3 DEF ReplayFromSnapshot, TypeOK, marker
<1>4. ASSUME NEW i \in DOMAIN features, ReplayFromUnknown(i) PROVE TypeOK'
    BY <1>0, <1>4 DEF ReplayFromUnknown, TypeOK, marker
<1> QED BY <1>1, <1>2, <1>3, <1>4 DEF StartReplay

LEMMA NextTypeOK ==
    TypeOK /\ [Next]_vars => TypeOK'
<1> SUFFICES ASSUME TypeOK, [Next]_vars PROVE TypeOK'
    OBVIOUS
<1>1. CASE Edit
    BY <1>1, EditType
<1>2. ASSUME NEW i \in Markers, SetRollbackIndex(i) PROVE TypeOK'
    <2>1. i \in Int /\ Len(features) \in Nat
        BY FeatureTreeAssumption DEF FeatureTreeAssumption, TypeOK
    <2>2. Clamp(i, 0, Len(features)) \in 0..Len(features)
        BY <2>1, ClampRange
    <2>3. rollbackIndex' \in Nat
        BY <1>2, <2>1, <2>2 DEF SetRollbackIndex
    <2> QED BY <1>2, <2>3 DEF SetRollbackIndex, TypeOK, maps, loop
<1>3. ASSUME NEW t \in Configs \cup {NoTransformer}, SetFeatureTransformer(t) PROVE TypeOK'
    BY <1>3, FeatureTreeAssumption DEF FeatureTreeAssumption, SetFeatureTransformer, TypeOK, maps, loop
<1>4. CASE StartReplay
    BY <1>4, StartReplayType
<1>5. CASE ReplayStep
    BY <1>5, ReplayStepType
<1>6. CASE Abort
    <2>1. pos \in DOMAIN features
        BY <1>6 DEF Abort, Looping, TypeOK
    <2>2. features' \in Seq(Features)
        BY <1>6, <2>1, ListsOfFeatures DEF Abort, TypeOK, Statuses
    <2>3. MapFrom(allocatorSnapshotsBefore', Nat)
        BY <1>6, <2>1, ListsOfFeatures, PutType DEF Abort, TypeOK
    <2> QED BY <1>6, <2>2, <2>3, NullShapeType DEF Abort, TypeOK, marker
<1>7. CASE UNCHANGED vars
    BY <1>7 DEF vars, maps, marker, loop, TypeOK
<1> QED BY <1>1, <1>2, <1>3, <1>4, <1>5, <1>6, <1>7 DEF Next

(* Every reachable state has the types the code declares.                  *)
THEOREM TypeCorrect == Spec => []TypeOK
<1>1. Init => TypeOK
    BY NullShapeType, EmptyMapType DEF Init, TypeOK
<1>2. TypeOK /\ [Next]_vars => TypeOK'
    BY NextTypeOK
<1> QED BY <1>1, <1>2, PTL DEF Spec

-----------------------------------------------------------------------------
(* The maps follow the list *)

UniqueIds(list) == \A i, j \in DOMAIN list : list[i].id = list[j].id => i = j

LEMMA AllIdsElements ==
    ASSUME NEW list \in Seq(Features)
    PROVE  \A x : x \in AllIds(list) <=> \E i \in DOMAIN list : x = list[i].id
<1>1. \A i \in DOMAIN list : 1 <= i /\ i <= Len(list)
    OBVIOUS
<1> QED BY <1>1 DEF AllIds, IdsIn

LEMMA IdsInBounds ==
    ASSUME NEW list \in Seq(Features), NEW lo
    PROVE  IdsIn(list, lo, Len(list)) \subseteq AllIds(list)
<1>1. \A i \in DOMAIN list : 1 <= i /\ i <= Len(list)
    OBVIOUS
<1> QED BY <1>1 DEF AllIds, IdsIn

LEMMA MarkedDomain ==
    ASSUME NEW list \in Seq(Features), NEW flags, NEW index, DOMAIN flags = AllIds(list)
    PROVE  DOMAIN MarkedDirtyFrom(list, flags, index) = AllIds(list)
<1>1. IdsIn(list, index, Len(list)) \subseteq AllIds(list)
    BY IdsInBounds
<1>2. DOMAIN MarkedDirtyFrom(list, flags, index) = DOMAIN flags \cup IdsIn(list, index, Len(list))
    BY DEF MarkedDirtyFrom
<1> QED BY <1>1, <1>2

(* Changing features in place changes no id. *)
LEMMA SameIds ==
    ASSUME NEW list \in Seq(Features), NEW list2 \in Seq(Features),
           DOMAIN list2 = DOMAIN list, \A i \in DOMAIN list : list2[i].id = list[i].id
    PROVE  /\ AllIds(list2) = AllIds(list)
           /\ UniqueIds(list) => UniqueIds(list2)
<1>1. \A x : x \in AllIds(list2) <=> x \in AllIds(list)
    BY AllIdsElements
<1> QED BY <1>1 DEF UniqueIds

LEMMA InsertedIds ==
    ASSUME NEW list \in Seq(Features), NEW f \in Features, NEW at \in 1..(Len(list) + 1),
           UniqueIds(list), f.id \notin AllIds(list)
    PROVE  /\ AllIds(InsertAt(list, at, f)) = AllIds(list) \cup {f.id}
           /\ UniqueIds(InsertAt(list, at, f))
           /\ f.id \in IdsIn(InsertAt(list, at, f), at, Len(InsertAt(list, at, f)))
<1> DEFINE new == InsertAt(list, at, f)
<1>1. /\ new \in Seq(Features) /\ Len(new) = Len(list) + 1 /\ Len(list) \in Nat
      /\ \A i \in 1..(at - 1) : new[i] = list[i]
      /\ new[at] = f
      /\ \A i \in (at + 1)..(Len(list) + 1) : new[i] = list[i - 1]
    <2>1. Len(list) \in Nat
        OBVIOUS
    <2> HIDE DEF new
    <2>2. /\ new \in Seq(Features) /\ Len(new) = Len(list) + 1
          /\ \A i \in 1..(at - 1) : new[i] = list[i]
          /\ new[at] = f
          /\ \A i \in (at + 1)..(Len(list) + 1) : new[i] = list[i - 1]
        BY InsertAtProperties DEF new
    <2> QED BY <2>1, <2>2
<1> HIDE DEF new
<1>2. DOMAIN new = 1..(Len(list) + 1) /\ DOMAIN list = 1..Len(list)
    BY <1>1
<1>3. ASSUME NEW i \in DOMAIN new, i # at
      PROVE  \E k \in DOMAIN list : /\ k = (IF i < at THEN i ELSE i - 1)
                                    /\ new[i] = list[k]
    <2>1. CASE i < at
        BY <1>1, <1>2, <2>1
    <2>2. CASE ~(i < at)
        <3>1. i \in (at + 1)..(Len(list) + 1) /\ i - 1 \in 1..Len(list)
            BY <1>1, <1>2, <1>3, <2>2
        <3> QED BY <1>1, <1>2, <2>2, <3>1
    <2> QED BY <2>1, <2>2
<1>4. ASSUME NEW k \in DOMAIN list
      PROVE  \E i \in DOMAIN new : new[i] = list[k]
    <2>1. CASE k < at
        BY <1>1, <1>2, <2>1
    <2>2. CASE ~(k < at)
        <3>1. k + 1 \in (at + 1)..(Len(list) + 1) /\ (k + 1) - 1 = k
            BY <1>1, <1>2, <2>2
        <3> QED BY <1>1, <1>2, <3>1
    <2> QED BY <2>1, <2>2
<1>5. at \in DOMAIN new
    BY <1>1, <1>2
<1>e. /\ \A x : x \in AllIds(new) <=> \E i \in DOMAIN new : x = new[i].id
      /\ \A x : x \in AllIds(list) <=> \E i \in DOMAIN list : x = list[i].id
    BY <1>1, AllIdsElements
<1>6. \A x : x \in AllIds(new) <=> x \in AllIds(list) \cup {f.id}
    <2> SUFFICES ASSUME NEW x PROVE x \in AllIds(new) <=> x \in AllIds(list) \cup {f.id}
        OBVIOUS
    <2>1. ASSUME x \in AllIds(new) PROVE x \in AllIds(list) \cup {f.id}
        <3>1. PICK i \in DOMAIN new : x = new[i].id
            BY <1>e, <2>1
        <3>2. CASE i = at
            BY <1>1, <3>1, <3>2
        <3>3. CASE i # at
            <4>1. \E k \in DOMAIN list : new[i] = list[k]
                BY <1>3, <3>3
            <4> QED BY <1>e, <3>1, <4>1
        <3> QED BY <3>2, <3>3
    <2>2. ASSUME x \in AllIds(list) PROVE x \in AllIds(new)
        <3>1. PICK k \in DOMAIN list : x = list[k].id
            BY <1>e, <2>2
        <3>2. \E i \in DOMAIN new : new[i] = list[k]
            BY <1>4
        <3> QED BY <1>e, <3>1, <3>2
    <2>3. f.id \in AllIds(new)
        BY <1>1, <1>5, <1>e
    <2> QED BY <2>1, <2>2, <2>3
<1>7. ASSUME NEW i \in DOMAIN new, NEW j \in DOMAIN new, new[i].id = new[j].id
      PROVE  i = j
    <2>1. ASSUME NEW k \in DOMAIN new, new[k].id = f.id PROVE k = at
        <3>1. ASSUME k # at PROVE FALSE
            <4>1. PICK l \in DOMAIN list : new[k] = list[l]
                BY <1>3, <3>1
            <4> QED BY <1>e, <2>1, <4>1
        <3> QED BY <3>1
    <2>2. CASE i = at \/ j = at
        BY <1>1, <1>7, <2>1, <2>2
    <2>3. CASE i # at /\ j # at
        <3>1. (IF i < at THEN i ELSE i - 1) = (IF j < at THEN j ELSE j - 1)
            BY <1>3, <1>7, <2>3 DEF UniqueIds
        <3> QED BY <1>1, <1>2, <2>3, <3>1
    <2> QED BY <2>2, <2>3
<1>8. f.id \in IdsIn(new, at, Len(new))
    BY <1>1, <1>2, <1>5 DEF IdsIn
<1> QED BY <1>6, <1>7, <1>8 DEF UniqueIds, new

LEMMA RemovedIds ==
    ASSUME NEW list \in Seq(Features), NEW at \in DOMAIN list, UniqueIds(list)
    PROVE  /\ AllIds(RemoveAt(list, at)) = AllIds(list) \ {list[at].id}
           /\ UniqueIds(RemoveAt(list, at))
<1> DEFINE new == RemoveAt(list, at)
<1>1. /\ new \in Seq(Features) /\ Len(new) = Len(list) - 1 /\ Len(list) \in Nat /\ at \in 1..Len(list)
      /\ \A i \in 1..(at - 1) : new[i] = list[i]
      /\ \A i \in at..(Len(list) - 1) : new[i] = list[i + 1]
    <2>1. Len(list) \in Nat /\ at \in 1..Len(list)
        OBVIOUS
    <2> QED BY <2>1, RemoveAtProperties, Zenon
<1> HIDE DEF new
<1>2. DOMAIN new = 1..(Len(list) - 1) /\ DOMAIN list = 1..Len(list)
    BY <1>1
<1>3. ASSUME NEW i \in DOMAIN new
      PROVE  \E k \in DOMAIN list : /\ k = (IF i < at THEN i ELSE i + 1)
                                    /\ k # at
                                    /\ new[i] = list[k]
    <2>1. CASE i < at
        BY <1>1, <1>2, <2>1
    <2>2. CASE ~(i < at)
        <3>1. i \in at..(Len(list) - 1) /\ i + 1 \in 1..Len(list)
            BY <1>1, <1>2, <2>2
        <3> QED BY <1>1, <1>2, <2>2, <3>1
    <2> QED BY <2>1, <2>2
<1>4. ASSUME NEW k \in DOMAIN list, k # at
      PROVE  \E i \in DOMAIN new : new[i] = list[k]
    <2>1. CASE k < at
        BY <1>1, <1>2, <2>1
    <2>2. CASE ~(k < at)
        <3>1. k - 1 \in at..(Len(list) - 1) /\ (k - 1) + 1 = k
            BY <1>1, <1>2, <1>4, <2>2
        <3> QED BY <1>1, <1>2, <3>1
    <2> QED BY <2>1, <2>2
<1>e. /\ \A x : x \in AllIds(new) <=> \E i \in DOMAIN new : x = new[i].id
      /\ \A x : x \in AllIds(list) <=> \E i \in DOMAIN list : x = list[i].id
    BY <1>1, AllIdsElements
<1>5. \A x : x \in AllIds(new) <=> x \in AllIds(list) \ {list[at].id}
    <2> SUFFICES ASSUME NEW x PROVE x \in AllIds(new) <=> x \in AllIds(list) \ {list[at].id}
        OBVIOUS
    <2>1. ASSUME x \in AllIds(new) PROVE x \in AllIds(list) \ {list[at].id}
        <3>1. PICK i \in DOMAIN new : x = new[i].id
            BY <1>e, <2>1
        <3>2. PICK k \in DOMAIN list : k # at /\ new[i] = list[k]
            BY <1>3
        <3> QED BY <1>e, <3>1, <3>2 DEF UniqueIds
    <2>2. ASSUME x \in AllIds(list), x # list[at].id PROVE x \in AllIds(new)
        <3>1. PICK k \in DOMAIN list : x = list[k].id
            BY <1>e, <2>2
        <3>2. \E i \in DOMAIN new : new[i] = list[k]
            BY <1>4, <2>2, <3>1
        <3> QED BY <1>e, <3>1, <3>2
    <2> QED BY <2>1, <2>2
<1>6. ASSUME NEW i \in DOMAIN new, NEW j \in DOMAIN new, new[i].id = new[j].id
      PROVE  i = j
    <2>1. (IF i < at THEN i ELSE i + 1) = (IF j < at THEN j ELSE j + 1)
        BY <1>3, <1>6 DEF UniqueIds
    <2> QED BY <1>1, <1>2, <2>1
<1> QED BY <1>5, <1>6 DEF UniqueIds, new

LEMMA MapsFollowListUnfolded ==
    MapsFollowList <=> /\ UniqueIds(features)
                       /\ DOMAIN cache \subseteq AllIds(features)
                       /\ DOMAIN allocatorSnapshotsBefore \subseteq AllIds(features)
                       /\ DOMAIN dirty = AllIds(features)
  BY Zenon DEF MapsFollowList, UniqueIds

LEMMA EditKeepsMaps ==
    ASSUME TypeOK, TypeOK', MapsFollowList, Edit
    PROVE  MapsFollowList'
<1> USE DEF Editing
<1>0. /\ features \in Seq(Features) /\ features' \in Seq(Features)
      /\ Len(features) \in Nat /\ DOMAIN features = 1..Len(features)
    BY DEF TypeOK
<1>m. /\ UniqueIds(features)
      /\ DOMAIN cache \subseteq AllIds(features)
      /\ DOMAIN allocatorSnapshotsBefore \subseteq AllIds(features)
      /\ DOMAIN dirty = AllIds(features)
    BY MapsFollowListUnfolded
<1>p. MapsFollowList' <=> /\ UniqueIds(features')
                          /\ DOMAIN cache' \subseteq AllIds(features')
                          /\ DOMAIN allocatorSnapshotsBefore' \subseteq AllIds(features')
                          /\ DOMAIN dirty' = AllIds(features')
    BY Zenon DEF MapsFollowList, UniqueIds
<1>1. ASSUME NEW f \in Catalog, AddFeature(f) PROVE MapsFollowList'
    <2>1. f \in Features
        BY FeatureTreeAssumption DEF FeatureTreeAssumption
    <2>2. Append(features, f) = InsertAt(features, Len(features) + 1, f)
        <3>1. SubSeq(features, 1, (Len(features) + 1) - 1) = features
            BY <1>0
        <3>2. SubSeq(features, Len(features) + 1, Len(features)) = <<>>
            BY <1>0
        <3>3. features \o <<f>> \o <<>> = Append(features, f)
            BY <1>0, <2>1
        <3> QED BY <3>1, <3>2, <3>3 DEF InsertAt
    <2>3. /\ AllIds(features') = AllIds(features) \cup {f.id}
          /\ UniqueIds(features')
        <3>1. f.id \notin AllIds(features) /\ features' = InsertAt(features, Len(features) + 1, f)
            BY <1>1, <2>2 DEF AddFeature, Unused
        <3>2. Len(features) + 1 \in 1..(Len(features) + 1)
            BY <1>0
        <3> QED BY <1>0, <1>m, <2>1, <3>1, <3>2, InsertedIds
    <2>4. DOMAIN dirty' = DOMAIN dirty \cup {f.id}
        BY <1>1 DEF AddFeature, Put
    <2>5. UNCHANGED <<cache, allocatorSnapshotsBefore>>
        BY <1>1 DEF AddFeature
    <2> QED BY <1>m, <1>p, <2>3, <2>4, <2>5
<1>2. ASSUME NEW f \in Catalog, NEW i \in 0..(MaxFeatures + 1), InsertFeature(i, f) PROVE MapsFollowList'
    <2> DEFINE at == Clamp(i, 1, Len(features) + 1)
    <2>1. f \in Features
        BY FeatureTreeAssumption DEF FeatureTreeAssumption
    <2>2. at \in 1..(Len(features) + 1)
        <3>1. i \in Int /\ 1 \in Int /\ Len(features) + 1 \in Int /\ 1 <= Len(features) + 1
            BY <1>0, BoundsType
        <3> QED BY <3>1, ClampRange
    <2>3. /\ f.id \notin AllIds(features)
          /\ features' = InsertAt(features, at, f)
          /\ dirty' = MarkedDirtyFrom(features', dirty, at)
          /\ UNCHANGED <<cache, allocatorSnapshotsBefore>>
        BY <1>2 DEF InsertFeature, Unused
    <2> HIDE DEF at
    <2>4. /\ AllIds(features') = AllIds(features) \cup {f.id}
          /\ UniqueIds(features')
          /\ f.id \in IdsIn(features', at, Len(features'))
        BY <1>0, <1>m, <2>1, <2>2, <2>3, InsertedIds
    <2>5. DOMAIN dirty' = AllIds(features) \cup IdsIn(features', at, Len(features'))
        BY <1>m, <2>3 DEF MarkedDirtyFrom
    <2>6. IdsIn(features', at, Len(features')) \subseteq AllIds(features')
        BY <1>0, IdsInBounds
    <2> QED BY <1>m, <1>p, <2>3, <2>4, <2>5, <2>6
<1>3. ASSUME NEW i \in DOMAIN features, RemoveFeature(i) PROVE MapsFollowList'
    <2> DEFINE id == features[i].id
    <2>1. /\ features' = RemoveAt(features, i)
          /\ DOMAIN cache' = DOMAIN cache \ {id}
          /\ DOMAIN allocatorSnapshotsBefore' = DOMAIN allocatorSnapshotsBefore \ {id}
          /\ DOMAIN Erase(dirty, id) = DOMAIN dirty \ {id}
          /\ dirty' = MarkedDirtyFrom(features', Erase(dirty, id), i)
        BY <1>3 DEF RemoveFeature, Erase, Restrict
    <2>2. /\ AllIds(features') = AllIds(features) \ {id}
          /\ UniqueIds(features')
        BY <1>0, <1>m, <2>1, RemovedIds
    <2>3. DOMAIN dirty' = AllIds(features')
        BY <1>0, <1>m, <2>1, <2>2, MarkedDomain
    <2> QED BY <1>m, <1>p, <2>1, <2>2, <2>3
<1>4. ASSUME NEW first, DOMAIN features' = DOMAIN features,
             \A i \in DOMAIN features : features'[i].id = features[i].id,
             dirty' = MarkedDirtyFrom(features, dirty, first),
             UNCHANGED <<cache, allocatorSnapshotsBefore>>
      PROVE  MapsFollowList'
    <2>1. AllIds(features') = AllIds(features) /\ UniqueIds(features')
        BY <1>0, <1>m, <1>4, SameIds
    <2>2. DOMAIN dirty' = AllIds(features)
        BY <1>0, <1>m, <1>4, MarkedDomain
    <2> QED BY <1>m, <1>p, <1>4, <2>1, <2>2
<1>5. ASSUME NEW i \in DOMAIN features, NEW v \in NewValues, UpdateParameter(i, v) PROVE MapsFollowList'
    BY <1>0, <1>4, <1>5 DEF UpdateParameter
<1>6. ASSUME NEW i \in DOMAIN features, NEW b \in BOOLEAN, SuppressFeature(i, b) PROVE MapsFollowList'
    BY <1>0, <1>4, <1>6 DEF SuppressFeature
<1>7. ASSUME NEW i \in DOMAIN features, NEW j \in 0..(MaxFeatures + 1), MoveFeature(i, j)
      PROVE  MapsFollowList'
    <2> DEFINE to == Clamp(j, 1, Len(features))
               rest == RemoveAt(features, i)
               from == IF to < i THEN to ELSE i
    <2>1. to \in 1..Len(features) /\ features[i] \in Features
        <3>1. j \in Int /\ 1 \in Int /\ Len(features) \in Int /\ 1 <= Len(features)
            BY <1>0, BoundsType
        <3>2. to \in 1..Len(features)
            BY <3>1, ClampRange
        <3>3. features[i] \in Features
            BY <1>0
        <3> QED BY <3>2, <3>3
    <2>2. /\ features' = InsertAt(rest, to, features[i])
          /\ dirty' = MarkedDirtyFrom(features', dirty, from)
          /\ UNCHANGED <<cache, allocatorSnapshotsBefore>>
        BY <1>7 DEF MoveFeature
    <2> HIDE DEF to, from
    <2>3. rest \in Seq(Features) /\ Len(rest) = Len(features) - 1
        BY <1>0, RemoveAtProperties
    <2>4. AllIds(rest) = AllIds(features) \ {features[i].id} /\ UniqueIds(rest)
        BY <1>0, <1>m, RemovedIds
    <2>5. features[i].id \in AllIds(features)
        BY <1>0, AllIdsElements
    <2> HIDE DEF rest
    <2>6. AllIds(features') = AllIds(rest) \cup {features[i].id} /\ UniqueIds(features')
        <3>1. to \in 1..(Len(rest) + 1) /\ features[i].id \notin AllIds(rest)
            BY <1>0, <2>1, <2>3, <2>4
        <3> QED BY <2>1, <2>2, <2>3, <2>4, <3>1, InsertedIds
    <2>7. AllIds(features') = AllIds(features)
        BY <2>4, <2>5, <2>6
    <2>8. DOMAIN dirty' = AllIds(features')
        BY <1>0, <1>m, <2>2, <2>7, MarkedDomain
    <2> QED BY <1>m, <1>p, <2>2, <2>6, <2>7, <2>8
<1>8. ASSUME NEW old \in Ids, NEW new \in Ids, ReplaceReference(old, new) PROVE MapsFollowList'
    <2>1. PICK first \in DOMAIN features :
              /\ features' = [i \in DOMAIN features |->
                   IF features[i].ref = old THEN [features[i] EXCEPT !.ref = new] ELSE features[i]]
              /\ dirty' = MarkedDirtyFrom(features, dirty, first)
        BY <1>8 DEF ReplaceReference
    <2>2. \A i \in DOMAIN features : features'[i].id = features[i].id
        <3> SUFFICES ASSUME NEW i \in DOMAIN features PROVE features'[i].id = features[i].id
            OBVIOUS
        <3>1. features[i] \in Features
            BY <1>0
        <3>2. [features[i] EXCEPT !.ref = new].id = features[i].id
            BY <3>1 DEF Features
        <3> QED BY <2>1, <3>2
    <2> QED BY <1>4, <1>8, <2>1, <2>2 DEF ReplaceReference
<1> QED BY <1>1, <1>2, <1>3, <1>5, <1>6, <1>7, <1>8 DEF Edit

LEMMA TurnOfLoopKeepsMaps ==
    ASSUME TypeOK, TypeOK', MapsFollowList, Looping, NEW status, NEW shape, NEW allocated,
           TurnOfLoop(status, shape, allocated)
    PROVE  MapsFollowList'
<1>1. pos \in DOMAIN features /\ features \in Seq(Features) /\ features' \in Seq(Features)
    BY DEF TypeOK, Looping
<1>2. DOMAIN features' = DOMAIN features /\ \A i \in DOMAIN features : features'[i].id = features[i].id
    BY <1>1 DEF TurnOfLoop
<1>3. AllIds(features') = AllIds(features) /\ UniqueIds(features')
    BY <1>1, <1>2, SameIds, MapsFollowListUnfolded
<1>4. features[pos].id \in AllIds(features)
    BY <1>1, AllIdsElements
<1>5. /\ DOMAIN cache' = DOMAIN cache \cup {features[pos].id}
      /\ DOMAIN dirty' = DOMAIN dirty \cup {features[pos].id}
      /\ DOMAIN allocatorSnapshotsBefore' = DOMAIN allocatorSnapshotsBefore \cup {features[pos].id}
    BY DEF TurnOfLoop, Put
<1> QED BY <1>3, <1>4, <1>5, MapsFollowListUnfolded DEF MapsFollowList, UniqueIds

LEMMA NextMaps ==
    TypeOK /\ TypeOK' /\ MapsFollowList /\ [Next]_vars => MapsFollowList'
<1> SUFFICES ASSUME TypeOK, TypeOK', MapsFollowList, [Next]_vars PROVE MapsFollowList'
    OBVIOUS
<1>0. features \in Seq(Features)
    BY DEF TypeOK
<1>m. /\ UniqueIds(features)
      /\ DOMAIN cache \subseteq AllIds(features)
      /\ DOMAIN allocatorSnapshotsBefore \subseteq AllIds(features)
      /\ DOMAIN dirty = AllIds(features)
    BY MapsFollowListUnfolded
<1>p. MapsFollowList' <=> /\ UniqueIds(features')
                          /\ DOMAIN cache' \subseteq AllIds(features')
                          /\ DOMAIN allocatorSnapshotsBefore' \subseteq AllIds(features')
                          /\ DOMAIN dirty' = AllIds(features')
    BY Zenon DEF MapsFollowList, UniqueIds
<1>1. CASE Edit
    BY <1>1, EditKeepsMaps
<1>2. CASE UNCHANGED <<features, maps>>
    BY <1>2, <1>m, <1>p DEF maps
<1>3. ASSUME NEW start, features' = features,
             dirty' = MarkedDirtyFrom(features, dirty, start),
             DOMAIN cache' \subseteq DOMAIN cache,
             DOMAIN allocatorSnapshotsBefore' \subseteq DOMAIN allocatorSnapshotsBefore
      PROVE  MapsFollowList'
    <2>1. DOMAIN dirty' = AllIds(features)
        BY <1>0, <1>m, <1>3, MarkedDomain
    <2> QED BY <1>m, <1>p, <1>3, <2>1
<1>4. ASSUME StartReplay
      PROVE  /\ features' = features
             /\ \E start : dirty' = MarkedDirtyFrom(features, dirty, start)
             /\ DOMAIN cache' \subseteq DOMAIN cache
             /\ DOMAIN allocatorSnapshotsBefore' \subseteq DOMAIN allocatorSnapshotsBefore
    BY <1>4 DEF StartReplay, Replay, ReplayFromFirst, ReplayFromSnapshot, ReplayFromUnknown, EmptyMap
<1>5. CASE StartReplay
    BY <1>3, <1>4, <1>5
<1>6. CASE ReplayStep
    BY <1>2, <1>6, TurnOfLoopKeepsMaps
       DEF ReplayStep, SkipSuppressed, SkipTransformFailure, ExecuteFeature, Return
<1>7. CASE Abort
    <2>1. pos \in DOMAIN features
        BY <1>7 DEF Abort, Looping, TypeOK
    <2>2. DOMAIN features' = DOMAIN features /\ \A i \in DOMAIN features : features'[i].id = features[i].id
        BY <1>0, <1>7, <2>1 DEF Abort
    <2>3. AllIds(features') = AllIds(features) /\ UniqueIds(features')
        BY <1>0, <1>m, <2>2, SameIds DEF TypeOK
    <2>4. features[pos].id \in AllIds(features)
        BY <1>0, <2>1, AllIdsElements
    <2>5. /\ DOMAIN allocatorSnapshotsBefore' = DOMAIN allocatorSnapshotsBefore \cup {features[pos].id}
          /\ UNCHANGED <<cache, dirty>>
        BY <1>7 DEF Abort, Put
    <2> QED BY <1>m, <1>p, <2>3, <2>4, <2>5
<1>8. CASE UNCHANGED vars \/ (\E i \in Markers : SetRollbackIndex(i))
           \/ (\E t \in Configs \cup {NoTransformer} : SetFeatureTransformer(t))
    BY <1>2, <1>8 DEF vars, SetRollbackIndex, SetFeatureTransformer
<1> QED BY <1>1, <1>5, <1>6, <1>7, <1>8 DEF Next

(* An id names one feature, and nothing keyed by id outlives its feature.  *)
THEOREM MapsAlwaysFollowList == Spec => []MapsFollowList
<1>1. Init => MapsFollowList
    BY DEF Init, MapsFollowList, EmptyMap, AllIds, IdsIn
<1>2. TypeOK /\ TypeOK' /\ MapsFollowList /\ [Next]_vars => MapsFollowList'
    BY NextMaps
<1> QED BY <1>1, <1>2, TypeCorrect, PTL DEF Spec

-----------------------------------------------------------------------------
(* Edits mark dirty what they change *)

(* A feature that is not dirty has a cached shape. *)
CleanIsCached == \A id \in DOMAIN dirty : ~dirty[id] => id \in DOMAIN cache

LEMMA MarkedStaysDirty ==
    ASSUME NEW list \in Seq(Features), NEW flags, NEW index,
           NEW id \in DOMAIN MarkedDirtyFrom(list, flags, index),
           ~MarkedDirtyFrom(list, flags, index)[id]
    PROVE  id \in DOMAIN flags /\ ~flags[id]
  BY DEF MarkedDirtyFrom

LEMMA NextCached ==
    TypeOK /\ TypeOK' /\ MapsFollowList /\ CleanIsCached /\ [Next]_vars => CleanIsCached'
<1> SUFFICES ASSUME TypeOK, TypeOK', MapsFollowList, CleanIsCached, [Next]_vars
             PROVE  CleanIsCached'
    OBVIOUS
<1>0. features \in Seq(Features) /\ features' \in Seq(Features)
    BY DEF TypeOK
<1>1. ASSUME NEW list \in Seq(Features), NEW start,
             dirty' = MarkedDirtyFrom(list, dirty, start), cache' = cache
      PROVE  CleanIsCached'
    BY <1>1, MarkedStaysDirty DEF CleanIsCached
<1>2. ASSUME NEW f \in Catalog, AddFeature(f) PROVE CleanIsCached'
    BY <1>2 DEF AddFeature, Put, CleanIsCached
<1>3. ASSUME NEW i \in DOMAIN features, RemoveFeature(i) PROVE CleanIsCached'
    <2> DEFINE id == features[i].id
    <2>1. /\ dirty' = MarkedDirtyFrom(features', Erase(dirty, id), i)
          /\ cache' = Erase(cache, id)
        BY <1>3 DEF RemoveFeature
    <2> SUFFICES ASSUME NEW x \in DOMAIN dirty', ~dirty'[x] PROVE x \in DOMAIN cache'
        BY DEF CleanIsCached
    <2>2. x \in DOMAIN Erase(dirty, id) /\ ~Erase(dirty, id)[x]
        BY <1>0, <2>1, MarkedStaysDirty
    <2> QED BY <2>1, <2>2 DEF Erase, Restrict, CleanIsCached
<1>4. CASE Edit
    BY <1>0, <1>1, <1>2, <1>3, <1>4
       DEF Edit, InsertFeature, UpdateParameter, SuppressFeature, MoveFeature, ReplaceReference
<1>5. CASE StartReplay
    <2>1. ASSUME features' = features, dirty' = MarkedDirtyFrom(features, dirty, 1)
          PROVE  CleanIsCached'
        <3>1. \A x \in DOMAIN dirty' : dirty'[x]
            <4>1. DOMAIN dirty = AllIds(features) /\ IdsIn(features, 1, Len(features)) = AllIds(features)
                BY DEF MapsFollowList, AllIds
            <4> QED BY <2>1, <4>1 DEF MarkedDirtyFrom
        <3> QED BY <3>1 DEF CleanIsCached
    <2> QED BY <1>0, <1>1, <1>5, <2>1
           DEF StartReplay, Replay, ReplayFromFirst, ReplayFromSnapshot, ReplayFromUnknown
<1>6. ASSUME NEW status, NEW shape, NEW allocated, TurnOfLoop(status, shape, allocated)
      PROVE  CleanIsCached'
    BY <1>6 DEF TurnOfLoop, Put, CleanIsCached
<1>7. CASE ReplayStep \/ Abort
    BY <1>6, <1>7 DEF ReplayStep, SkipSuppressed, SkipTransformFailure, ExecuteFeature, Return,
                      Abort, maps, CleanIsCached
<1>8. CASE UNCHANGED vars \/ (\E i \in Markers : SetRollbackIndex(i))
           \/ (\E t \in Configs \cup {NoTransformer} : SetFeatureTransformer(t))
    BY <1>8 DEF vars, maps, SetRollbackIndex, SetFeatureTransformer, CleanIsCached
<1> QED BY <1>4, <1>5, <1>7, <1>8 DEF Next

LEMMA CleanAlwaysCached == Spec => []CleanIsCached
<1>1. Init => CleanIsCached
    BY DEF Init, CleanIsCached, EmptyMap
<1>2. TypeOK /\ TypeOK' /\ MapsFollowList /\ CleanIsCached /\ [Next]_vars => CleanIsCached'
    BY NextCached
<1> QED BY <1>1, <1>2, TypeCorrect, MapsAlwaysFollowList, PTL DEF Spec

(* What EditsDirtyWhatTheyChange asks of one step. *)
CleanKept ==
    \A i \in DOMAIN features' :
        CleanUpTo(i)' => /\ i <= Len(features)
                         /\ \A j \in 1..i : /\ features'[j] = features[j]
                                            /\ cache'[features[j].id] = cache[features[j].id]

(* An edit that leaves everything before position `from` alone and marks   *)
(* everything from there on keeps what is clean.                           *)
LEMMA SuffixEditKeepsClean ==
    ASSUME TypeOK, TypeOK', MapsFollowList, NEW from \in Nat \ {0},
           NEW flags, dirty' = MarkedDirtyFrom(features', flags, from),
           from <= Len(features) + 1,
           \A j \in 1..(from - 1) :
               j \in DOMAIN features' => /\ features'[j] = features[j]
                                         /\ ~dirty'[features[j].id] =>
                                                cache'[features[j].id] = cache[features[j].id]
    PROVE  CleanKept
<1>0. /\ Len(features) \in Nat /\ Len(features') \in Nat
      /\ DOMAIN features' = 1..Len(features')
    BY DEF TypeOK
<1> SUFFICES ASSUME NEW i \in DOMAIN features', CleanUpTo(i)'
             PROVE  /\ i <= Len(features)
                    /\ \A j \in 1..i : /\ features'[j] = features[j]
                                       /\ cache'[features[j].id] = cache[features[j].id]
    BY DEF CleanKept
<1>1. \A j \in 1..i : ~dirty'[features'[j].id]
    BY DEF CleanUpTo
<1>2. ASSUME NEW j \in 1..i PROVE j < from
    <2>1. SUFFICES ASSUME from <= j PROVE FALSE
        BY <1>0
    <2>2. j \in DOMAIN features' /\ from <= j /\ j <= Len(features')
        BY <1>0, <2>1
    <2>3. features'[j].id \in IdsIn(features', from, Len(features'))
        BY <2>2 DEF IdsIn
    <2>4. dirty'[features'[j].id] = TRUE
        BY <2>3 DEF MarkedDirtyFrom
    <2> QED BY <1>1, <2>4
<1>3. i < from /\ i \in Nat
    BY <1>0, <1>2
<1>4. ASSUME NEW j \in 1..i
      PROVE  features'[j] = features[j] /\ cache'[features[j].id] = cache[features[j].id]
    <2>1. j \in 1..(from - 1) /\ j \in DOMAIN features'
        BY <1>0, <1>2, <1>3
    <2> QED BY <1>1, <2>1
<1> QED BY <1>0, <1>3, <1>4

LEMMA SameIdsMarked ==
    ASSUME NEW list \in Seq(Features), NEW list2 \in Seq(Features),
           DOMAIN list2 = DOMAIN list, \A i \in DOMAIN list : list2[i].id = list[i].id,
           NEW flags, NEW index
    PROVE  MarkedDirtyFrom(list2, flags, index) = MarkedDirtyFrom(list, flags, index)
<1>1. Len(list2) = Len(list)
    OBVIOUS
<1>2. IdsIn(list2, index, Len(list2)) = IdsIn(list, index, Len(list))
    BY <1>1 DEF IdsIn
<1> QED BY <1>2 DEF MarkedDirtyFrom

LEMMA InsertedPrefix ==
    ASSUME NEW list \in Seq(Features), NEW f \in Features, NEW at \in 1..(Len(list) + 1)
    PROVE  \A j \in 1..(at - 1) : InsertAt(list, at, f)[j] = list[j]
<1> DEFINE new == InsertAt(list, at, f)
<1> HIDE DEF new
<1>1. /\ new \in Seq(Features) /\ Len(new) = Len(list) + 1
      /\ \A i \in 1..(at - 1) : new[i] = list[i]
    BY InsertAtProperties DEF new
<1> QED BY <1>1 DEF new

LEMMA EditKeepsClean ==
    ASSUME TypeOK, TypeOK', MapsFollowList, CleanIsCached, Edit
    PROVE  CleanKept
<1>0. /\ features \in Seq(Features) /\ features' \in Seq(Features)
      /\ Len(features) \in Nat /\ DOMAIN features = 1..Len(features)
      /\ Len(features') \in Nat /\ DOMAIN features' = 1..Len(features')
    BY DEF TypeOK
<1>1. ASSUME NEW f \in Catalog, AddFeature(f) PROVE CleanKept
    <2> DEFINE from == Len(features) + 1
    <2>1. f \in Features /\ features' = Append(features, f) /\ cache' = cache
        BY <1>1, FeatureTreeAssumption DEF FeatureTreeAssumption, AddFeature
    <2>2. /\ Len(features') = from /\ features'[from] = f
          /\ \A j \in 1..(from - 1) : features'[j] = features[j]
        BY <1>0, <2>1
    <2>3. IdsIn(features', from, Len(features')) = {f.id}
        <3>1. {j \in DOMAIN features' : from <= j /\ j <= Len(features')} = {from}
            BY <1>0, <2>2
        <3> QED BY <2>2, <3>1 DEF IdsIn
    <2>4. dirty' = MarkedDirtyFrom(features', dirty, from)
        BY <1>1, <2>3 DEF AddFeature, Put, MarkedDirtyFrom
    <2>5. from \in Nat \ {0} /\ from <= Len(features) + 1
        BY <1>0
    <2> HIDE DEF from
    <2> QED BY <2>1, <2>2, <2>4, <2>5, SuffixEditKeepsClean
<1>2. ASSUME NEW f \in Catalog, NEW i \in 0..(MaxFeatures + 1), InsertFeature(i, f) PROVE CleanKept
    <2> DEFINE at == Clamp(i, 1, Len(features) + 1)
    <2>1. f \in Features
        BY FeatureTreeAssumption DEF FeatureTreeAssumption
    <2>2. at \in 1..(Len(features) + 1)
        <3>1. i \in Int /\ 1 \in Int /\ Len(features) + 1 \in Int /\ 1 <= Len(features) + 1
            BY <1>0, BoundsType
        <3> QED BY <3>1, ClampRange
    <2>3. /\ features' = InsertAt(features, at, f)
          /\ dirty' = MarkedDirtyFrom(features', dirty, at)
          /\ cache' = cache
        BY <1>2 DEF InsertFeature
    <2> HIDE DEF at
    <2>4. \A j \in 1..(at - 1) : features'[j] = features[j]
        <3>1. \A j \in 1..(at - 1) : InsertAt(features, at, f)[j] = features[j]
            BY <1>0, <2>1, <2>2, InsertedPrefix
        <3> QED BY <2>3, <3>1
    <2>5. at \in Nat \ {0} /\ at <= Len(features) + 1
        BY <1>0, <2>2
    <2> QED BY <2>3, <2>4, <2>5, SuffixEditKeepsClean
<1>3. ASSUME NEW i \in DOMAIN features, RemoveFeature(i) PROVE CleanKept
    <2> DEFINE id == features[i].id
    <2>1. /\ features' = RemoveAt(features, i)
          /\ cache' = Erase(cache, id)
          /\ dirty' = MarkedDirtyFrom(features', Erase(dirty, id), i)
        BY <1>3 DEF RemoveFeature
    <2>2. \A j \in 1..(i - 1) : features'[j] = features[j]
        BY <1>0, <2>1, RemoveAtProperties
    <2>3. i \in Nat \ {0} /\ i <= Len(features) + 1
        BY <1>0
    <2>4. ASSUME NEW j \in 1..(i - 1), j \in DOMAIN features', ~dirty'[features[j].id]
          PROVE  cache'[features[j].id] = cache[features[j].id]
        <3>1. j \in DOMAIN features /\ j # i
            BY <1>0
        <3>2. features[j].id # id
            BY <3>1 DEF MapsFollowList
        <3>3. features[j].id \in DOMAIN dirty
            BY <1>0, <3>1, AllIdsElements DEF MapsFollowList
        <3>4. features[j].id \in DOMAIN Erase(dirty, id)
            BY <3>2, <3>3 DEF Erase, Restrict
        <3>5. features[j].id \in DOMAIN dirty'
            BY <2>1, <3>4 DEF MarkedDirtyFrom
        <3>6. ~Erase(dirty, id)[features[j].id]
            BY <1>0, <2>1, <2>4, <3>5, MarkedStaysDirty
        <3>7. features[j].id \in DOMAIN cache
            BY <3>3, <3>4, <3>6 DEF CleanIsCached, Erase, Restrict
        <3> QED BY <2>1, <3>2, <3>7 DEF Erase, Restrict
    <2> HIDE DEF id
    <2> QED BY <2>1, <2>2, <2>3, <2>4, SuffixEditKeepsClean
<1>4. ASSUME NEW i \in 1..Len(features), DOMAIN features' = DOMAIN features,
             \A j \in DOMAIN features : features'[j].id = features[j].id,
             \A j \in 1..(i - 1) : features'[j] = features[j],
             dirty' = MarkedDirtyFrom(features, dirty, i), cache' = cache
      PROVE  CleanKept
    <2>1. dirty' = MarkedDirtyFrom(features', dirty, i)
        BY <1>0, <1>4, SameIdsMarked
    <2>2. i \in Nat \ {0} /\ i <= Len(features) + 1
        BY <1>0
    <2> QED BY <1>4, <2>1, <2>2, SuffixEditKeepsClean
<1>5. ASSUME NEW i \in DOMAIN features, NEW v \in NewValues, UpdateParameter(i, v) PROVE CleanKept
    <2>1. /\ DOMAIN features' = DOMAIN features
          /\ \A j \in DOMAIN features : features'[j].id = features[j].id
          /\ \A j \in 1..(i - 1) : features'[j] = features[j]
          /\ dirty' = MarkedDirtyFrom(features, dirty, i) /\ cache' = cache
        BY <1>0, <1>5 DEF UpdateParameter
    <2> QED BY <1>0, <1>4, <2>1
<1>6. ASSUME NEW i \in DOMAIN features, NEW b \in BOOLEAN, SuppressFeature(i, b) PROVE CleanKept
    <2>1. /\ DOMAIN features' = DOMAIN features
          /\ \A j \in DOMAIN features : features'[j].id = features[j].id
          /\ \A j \in 1..(i - 1) : features'[j] = features[j]
          /\ dirty' = MarkedDirtyFrom(features, dirty, i) /\ cache' = cache
        BY <1>0, <1>6 DEF SuppressFeature
    <2> QED BY <1>0, <1>4, <2>1
<1>7. ASSUME NEW i \in DOMAIN features, NEW j \in 0..(MaxFeatures + 1), MoveFeature(i, j)
      PROVE  CleanKept
    <2> DEFINE to == Clamp(j, 1, Len(features))
               rest == RemoveAt(features, i)
               from == IF to < i THEN to ELSE i
    <2>1. to \in 1..Len(features) /\ features[i] \in Features
        <3>1. j \in Int /\ 1 \in Int /\ Len(features) \in Int /\ 1 <= Len(features)
            BY <1>0, BoundsType
        <3>2. to \in 1..Len(features)
            BY <3>1, ClampRange
        <3>3. features[i] \in Features
            BY <1>0
        <3> QED BY <3>2, <3>3
    <2>2. /\ features' = InsertAt(rest, to, features[i])
          /\ dirty' = MarkedDirtyFrom(features', dirty, from)
          /\ cache' = cache
        BY <1>7 DEF MoveFeature
    <2> HIDE DEF to
    <2>3. /\ rest \in Seq(Features) /\ Len(rest) = Len(features) - 1
          /\ \A k \in 1..(i - 1) : rest[k] = features[k]
        BY <1>0, RemoveAtProperties
    <2> HIDE DEF rest
    <2>4. \A k \in 1..(to - 1) : features'[k] = rest[k]
        <3>1. to \in 1..(Len(rest) + 1)
            BY <1>0, <2>1, <2>3
        <3>2. \A k \in 1..(to - 1) : InsertAt(rest, to, features[i])[k] = rest[k]
            BY <2>1, <2>3, <3>1, InsertedPrefix
        <3> QED BY <2>2, <3>2
    <2>5. from \in Nat \ {0} /\ from <= Len(features) + 1
        BY <1>0, <2>1
    <2>6. \A k \in 1..(from - 1) : features'[k] = features[k]
        <3> SUFFICES ASSUME NEW k \in 1..(from - 1) PROVE features'[k] = features[k]
            OBVIOUS
        <3>1. k \in 1..(to - 1) /\ k \in 1..(i - 1)
            BY <1>0, <2>1
        <3> QED BY <2>3, <2>4, <3>1
    <2> HIDE DEF from
    <2> QED BY <2>2, <2>5, <2>6, SuffixEditKeepsClean
<1>8. ASSUME NEW old \in Ids, NEW new \in Ids, ReplaceReference(old, new) PROVE CleanKept
    <2>1. PICK first \in DOMAIN features :
              /\ \A j \in 1..(first - 1) : features[j].ref # old
              /\ features' = [i \in DOMAIN features |->
                   IF features[i].ref = old THEN [features[i] EXCEPT !.ref = new] ELSE features[i]]
              /\ dirty' = MarkedDirtyFrom(features, dirty, first)
        BY <1>8 DEF ReplaceReference
    <2>2. ASSUME NEW i \in DOMAIN features PROVE features'[i].id = features[i].id
        <3>1. features[i] \in Features
            BY <1>0
        <3>2. [features[i] EXCEPT !.ref = new].id = features[i].id
            BY <3>1 DEF Features
        <3> QED BY <2>1, <3>2
    <2>3. \A j \in 1..(first - 1) : features'[j] = features[j]
        BY <1>0, <2>1
    <2>4. DOMAIN features' = DOMAIN features /\ cache' = cache
        BY <1>8, <2>1 DEF ReplaceReference
    <2>5. first \in 1..Len(features)
        BY <1>0
    <2> QED BY <1>4, <2>1, <2>2, <2>3, <2>4, <2>5
<1> QED BY <1>1, <1>2, <1>3, <1>5, <1>6, <1>7, <1>8 DEF Edit

(* No edit leaves a changed feature, or a feature after it, marked clean.  *)
THEOREM EditsAlwaysDirtyWhatTheyChange == Spec => EditsDirtyWhatTheyChange
<1>1. TypeOK /\ TypeOK' /\ MapsFollowList /\ CleanIsCached /\ [Next]_vars
        => [Idle /\ phase' = "idle" =>
                \A i \in DOMAIN features' :
                    CleanUpTo(i)' =>
                        /\ i <= Len(features)
                        /\ \A j \in 1..i : /\ features'[j] = features[j]
                                           /\ cache'[features[j].id] = cache[features[j].id]]_vars
    <2> SUFFICES ASSUME TypeOK, TypeOK', MapsFollowList, CleanIsCached, Next,
                        Idle, phase' = "idle"
                 PROVE  CleanKept
        BY DEF CleanKept
    <2>1. CASE Edit
        BY <2>1, EditKeepsClean
    <2>2. CASE UNCHANGED <<features, cache>>
        BY <2>2 DEF CleanKept, TypeOK
    <2>3. CASE (\E i \in Markers : SetRollbackIndex(i))
               \/ (\E t \in Configs \cup {NoTransformer} : SetFeatureTransformer(t))
        BY <2>2, <2>3 DEF SetRollbackIndex, SetFeatureTransformer, maps
    <2>4. ~StartReplay
        BY DEF StartReplay, Replay, ReplayFromFirst, ReplayFromSnapshot, ReplayFromUnknown, EnterLoop
    <2>5. ~ReplayStep /\ ~Abort
        BY DEF Idle, ReplayStep, SkipSuppressed, SkipTransformFailure, ExecuteFeature, Return, Abort, Looping
    <2> QED BY <2>1, <2>3, <2>4, <2>5 DEF Next
<1> QED BY <1>1, TypeCorrect, MapsAlwaysFollowList, CleanAlwaysCached, PTL
       DEF Spec, EditsDirtyWhatTheyChange

(* What the runs check as TreeConsistent: the state is well typed, an id   *)
(* names one feature, and no cache entry, dirty flag or allocator snapshot *)
(* of tree.cpp is left behind by a removed feature.                        *)
THEOREM TreeAlwaysConsistent == Spec => []TreeConsistent
<1>1. TypeOK /\ MapsFollowList => TreeConsistent
    BY DEF TreeConsistent
<1> QED BY <1>1, TypeCorrect, MapsAlwaysFollowList, PTL

-----------------------------------------------------------------------------
(* Incremental replay *)

(* What the theorems about the state of a tree establish. *)
TreeState == TypeOK /\ MapsFollowList /\ CleanIsCached

LEMMA TreeStateAlways == Spec => []TreeState
<1>1. TypeOK /\ MapsFollowList /\ CleanIsCached => TreeState
    BY DEF TreeState
<1> QED BY <1>1, TypeCorrect, MapsAlwaysFollowList, CleanAlwaysCached, PTL

LEMMA ListFacts ==
    ASSUME TreeState
    PROVE  /\ features \in Seq(Features) /\ Len(features) \in Nat
           /\ DOMAIN features = 1..Len(features)
           /\ \A i \in DOMAIN features : features[i].id \in DOMAIN dirty
           /\ \A i, j \in DOMAIN features : features[i].id = features[j].id => i = j
<1>1. features \in Seq(Features) /\ Len(features) \in Nat /\ DOMAIN features = 1..Len(features)
    BY DEF TreeState, TypeOK
<1>2. DOMAIN dirty = AllIds(features)
    BY DEF TreeState, MapsFollowList
<1>3. \A i \in DOMAIN features : features[i].id \in DOMAIN dirty
    BY <1>1, <1>2, AllIdsElements
<1> QED BY <1>1, <1>3 DEF TreeState, MapsFollowList

-----------------------------------------------------------------------------
(* Steps that keep what is up to date *)

(* What is up to date after the step was so before it, and is the same. *)
PrefixKept ==
    \A i \in DOMAIN features' :
        CleanUpTo(i)' =>
            /\ i \in DOMAIN features /\ CleanUpTo(i)
            /\ \A j \in 1..i : /\ features'[j] = features[j]
                               /\ cache'[features[j].id] = cache[features[j].id]

LEMMA EditOnlyRaisesFlags ==
    ASSUME TreeState, TreeState', Edit
    PROVE  \A id \in DOMAIN dirty' : ~dirty'[id] => id \in DOMAIN dirty /\ ~dirty[id]
<1>0. features \in Seq(Features) /\ features' \in Seq(Features)
    BY DEF TreeState, TypeOK
<1>1. ASSUME NEW list, NEW start, dirty' = MarkedDirtyFrom(list, dirty, start)
      PROVE  \A id \in DOMAIN dirty' : ~dirty'[id] => id \in DOMAIN dirty /\ ~dirty[id]
    BY <1>1 DEF MarkedDirtyFrom
<1>2. ASSUME NEW f \in Catalog, AddFeature(f)
      PROVE  \A id \in DOMAIN dirty' : ~dirty'[id] => id \in DOMAIN dirty /\ ~dirty[id]
    BY <1>2 DEF AddFeature, Put
<1>3. ASSUME NEW i \in DOMAIN features, RemoveFeature(i)
      PROVE  \A id \in DOMAIN dirty' : ~dirty'[id] => id \in DOMAIN dirty /\ ~dirty[id]
    <2>1. dirty' = MarkedDirtyFrom(features', Erase(dirty, features[i].id), i)
        BY <1>3 DEF RemoveFeature
    <2> QED BY <2>1 DEF MarkedDirtyFrom, Erase, Restrict
<1> QED BY <1>1, <1>2, <1>3
       DEF Edit, InsertFeature, UpdateParameter, SuppressFeature, MoveFeature, ReplaceReference

LEMMA EditKeepsPrefix ==
    ASSUME TreeState, TreeState', Edit
    PROVE  PrefixKept
<1>1. CleanKept
    BY EditKeepsClean DEF TreeState
<1> SUFFICES ASSUME NEW i \in DOMAIN features', CleanUpTo(i)'
             PROVE  /\ i \in DOMAIN features /\ CleanUpTo(i)
                    /\ \A j \in 1..i : /\ features'[j] = features[j]
                                       /\ cache'[features[j].id] = cache[features[j].id]
    BY DEF PrefixKept
<1>2. /\ i <= Len(features)
      /\ \A j \in 1..i : /\ features'[j] = features[j]
                         /\ cache'[features[j].id] = cache[features[j].id]
    BY <1>1 DEF CleanKept
<1>3. i \in DOMAIN features /\ 1..i \subseteq DOMAIN features'
    BY <1>2, ListFacts DEF TreeState, TypeOK
<1>4. ASSUME NEW j \in 1..i PROVE ~dirty[features[j].id]
    <2>1. features'[j].id \in DOMAIN dirty' /\ ~dirty'[features'[j].id]
        <3>1. \A k \in DOMAIN features' : features'[k].id \in DOMAIN dirty'
            <4>1. features' \in Seq(Features) /\ DOMAIN dirty' = AllIds(features')
                BY DEF TreeState, TypeOK, MapsFollowList
            <4> QED BY <4>1, AllIdsElements
        <3> QED BY <1>3, <3>1 DEF CleanUpTo
    <2> QED BY <1>2, <2>1, EditOnlyRaisesFlags
<1> QED BY <1>2, <1>3, <1>4 DEF CleanUpTo

(* A step that changes nothing before position `from` and leaves no flag   *)
(* down from there on. *)
LEMMA SuffixStepKeepsPrefix ==
    ASSUME TreeState, TreeState', NEW from \in Nat,
           DOMAIN features' = DOMAIN features,
           \A j \in DOMAIN features : features'[j].id = features[j].id,
           \A j \in DOMAIN features :
               j < from => /\ features'[j] = features[j]
                           /\ cache'[features[j].id] = cache[features[j].id],
           \A j \in DOMAIN features : dirty'[features[j].id] = FALSE => dirty[features[j].id] = FALSE,
           \A j \in DOMAIN features : from <= j => dirty'[features[j].id]
    PROVE  PrefixKept
<1> SUFFICES ASSUME NEW i \in DOMAIN features, CleanUpTo(i)'
             PROVE  /\ CleanUpTo(i)
                    /\ \A j \in 1..i : /\ features'[j] = features[j]
                                       /\ cache'[features[j].id] = cache[features[j].id]
    BY DEF PrefixKept
<1>1. \A j \in 1..i : j \in DOMAIN features /\ j \in Nat
    BY ListFacts
<1>2. \A j \in 1..i : ~dirty'[features[j].id]
    BY <1>1 DEF CleanUpTo
<1>3. \A j \in 1..i : j < from
    BY <1>1, <1>2
<1>4. \A j \in DOMAIN features : dirty'[features[j].id] \in BOOLEAN /\ dirty[features[j].id] \in BOOLEAN
    <2>1. \A j \in DOMAIN features : features[j].id \in DOMAIN dirty /\ features[j].id \in DOMAIN dirty'
        <3>1. DOMAIN dirty' = AllIds(features') /\ features' \in Seq(Features)
            BY DEF TreeState, TypeOK, MapsFollowList
        <3>2. \A j \in DOMAIN features : features[j].id \in DOMAIN dirty'
            BY <3>1, AllIdsElements
        <3> QED BY <3>2, ListFacts
    <2> QED BY <2>1 DEF TreeState, TypeOK, MapFrom
<1>5. \A j \in 1..i : ~dirty[features[j].id]
    BY <1>1, <1>2, <1>4
<1> QED BY <1>1, <1>3, <1>5 DEF CleanUpTo

(* The loop has not passed the end, and everything ahead of it is dirty. *)
LoopInList ==
    ~Idle => /\ pos <= Len(features) + 1
             /\ \A j \in DOMAIN features : pos <= j => dirty[features[j].id]

LEMMA MarkedFrom ==
    ASSUME TreeState, NEW flags, NEW start
    PROVE  \A j \in DOMAIN features :
               start <= j => MarkedDirtyFrom(features, flags, start)[features[j].id] = TRUE
<1>1. \A j \in DOMAIN features : start <= j => features[j].id \in IdsIn(features, start, Len(features))
    BY ListFacts DEF IdsIn
<1> QED BY <1>1 DEF MarkedDirtyFrom

(* What every way to start a replay does to list, flags and cache. *)
LEMMA StartReplaySteps ==
    ASSUME TreeState, StartReplay
    PROVE  /\ features' = features /\ pos' \in 1..(Len(features) + 1)
           /\ dirty' = MarkedDirtyFrom(features, dirty, pos')
           /\ pos' # 1 => /\ pos' \in DOMAIN features
                          /\ cache' = cache /\ currentShape' = ShapeBefore(pos')
           /\ pos' = 1 => currentShape' = NullShape
           /\ phase' # "idle" /\ Idle
<1>0. Len(features) \in Nat /\ DOMAIN features = 1..Len(features)
    BY ListFacts
<1> QED BY <1>0 DEF StartReplay, Replay, ReplayFromFirst, ReplayFromSnapshot, ReplayFromUnknown, EnterLoop

(* The same feature but for its status. *)
SameButStatus(f, g) ==
    /\ f.id = g.id /\ f.kind = g.kind /\ f.val = g.val /\ f.ref = g.ref
    /\ f.suppressed = g.suppressed

LEMMA TurnFacts ==
    ASSUME TreeState, LoopInList, Looping, NEW status, NEW shape, NEW allocated,
           TurnOfLoop(status, shape, allocated)
    PROVE  /\ pos \in DOMAIN features /\ pos' = pos + 1
           /\ DOMAIN features' = DOMAIN features
           /\ SameButStatus(features'[pos], features[pos]) /\ features'[pos].status = status
           /\ \A j \in DOMAIN features : j # pos =>
                /\ features'[j] = features[j]
                /\ features[j].id \in DOMAIN cache => cache'[features[j].id] = cache[features[j].id]
                /\ dirty'[features[j].id] = dirty[features[j].id]
                /\ features[j].id \in DOMAIN cache' <=> features[j].id \in DOMAIN cache
           /\ \A j \in DOMAIN features : features'[j].id = features[j].id
           /\ cache'[features[pos].id] = shape /\ features[pos].id \in DOMAIN cache'
           /\ dirty'[features[pos].id] = FALSE
           /\ currentShape' = shape /\ phase' = phase
<1>1. /\ pos \in DOMAIN features /\ features \in Seq(Features)
      /\ DOMAIN features = 1..Len(features)
    BY ListFacts DEF Looping, TreeState, TypeOK
<1>2. /\ DOMAIN features' = DOMAIN features
      /\ \A j \in DOMAIN features : j # pos => features'[j] = features[j]
    BY <1>1 DEF TurnOfLoop
<1>6. SameButStatus(features'[pos], features[pos]) /\ features'[pos].status = status
    <2>1. features[pos] \in Features
        BY <1>1
    <2>2. features'[pos] = [features[pos] EXCEPT !.status = status]
        BY <1>1 DEF TurnOfLoop
    <2> QED BY <2>1, <2>2 DEF SameButStatus, Features
<1>3. \A j \in DOMAIN features : features'[j].id = features[j].id
    <2> QED BY <1>2, <1>6 DEF SameButStatus
<1>4. ASSUME NEW j \in DOMAIN features, j # pos
      PROVE  /\ features[j].id \in DOMAIN cache => cache'[features[j].id] = cache[features[j].id]
             /\ dirty'[features[j].id] = dirty[features[j].id]
             /\ features[j].id \in DOMAIN cache' <=> features[j].id \in DOMAIN cache
    <2>1. features[j].id # features[pos].id
        BY <1>1, <1>4, ListFacts
    <2>2. features[j].id \in DOMAIN dirty
        BY <1>4, ListFacts
    <2>3. dirty'[features[j].id] = dirty[features[j].id]
        BY <2>1, <2>2 DEF TurnOfLoop, Put
    <2>4. DOMAIN cache' = DOMAIN cache \cup {features[pos].id}
        BY DEF TurnOfLoop, Put
    <2> QED BY <2>1, <2>3, <2>4 DEF TurnOfLoop, Put
<1>5. /\ cache'[features[pos].id] = shape /\ features[pos].id \in DOMAIN cache'
      /\ dirty'[features[pos].id] = FALSE
      /\ currentShape' = shape /\ phase' = phase /\ pos' = pos + 1
    BY DEF TurnOfLoop, Put
<1> QED BY <1>1, <1>2, <1>3, <1>4, <1>5, <1>6

LEMMA NextInList ==
    TreeState /\ TreeState' /\ LoopInList /\ [Next]_vars => LoopInList'
<1> SUFFICES ASSUME TreeState, TreeState', LoopInList, [Next]_vars PROVE LoopInList'
    OBVIOUS
<1>1. CASE Edit \/ Return \/ Abort
    <2>1. phase' = "idle"
        BY <1>1 DEF Edit, AddFeature, InsertFeature, RemoveFeature, UpdateParameter, SuppressFeature,
                    MoveFeature, ReplaceReference, Editing, Idle, loop, Return, Abort
    <2> QED BY <2>1 DEF LoopInList, Idle
<1>2. CASE StartReplay
    <2>1. features' = features /\ pos' \in 1..(Len(features) + 1)
        BY <1>2, StartReplaySteps
    <2>2. \A j \in DOMAIN features : pos' <= j => dirty'[features[j].id] = TRUE
        <3>1. dirty' = MarkedDirtyFrom(features, dirty, pos')
            BY <1>2, StartReplaySteps
        <3> QED BY <3>1, MarkedFrom
    <2>3. pos' <= Len(features) + 1
        BY <2>1, ListFacts
    <2> QED BY <2>1, <2>2, <2>3 DEF LoopInList
<1>3. ASSUME Looping, NEW status, NEW shape, NEW allocated, TurnOfLoop(status, shape, allocated)
      PROVE  LoopInList'
    <2>1. /\ pos' = pos + 1 /\ pos \in Nat /\ pos <= Len(features) /\ Len(features) \in Nat
          /\ Len(features') = Len(features) /\ DOMAIN features' = DOMAIN features
          /\ DOMAIN features = 1..Len(features)
        <3>1. Len(features') \in Nat /\ DOMAIN features' = 1..Len(features')
            BY DEF TreeState, TypeOK
        <3>2. pos' = pos + 1 /\ DOMAIN features' = DOMAIN features
            BY <1>3, TurnFacts
        <3> QED BY <1>3, <3>1, <3>2, ListFacts DEF Looping, TreeState, TypeOK
    <2>2. ASSUME NEW j \in DOMAIN features, pos + 1 <= j PROVE dirty'[features'[j].id]
        <3>1. j # pos /\ pos <= j
            BY <2>1, <2>2
        <3>2. features'[j].id = features[j].id /\ dirty'[features[j].id] = dirty[features[j].id]
            BY <1>3, <3>1, TurnFacts
        <3>3. dirty[features[j].id]
            BY <1>3, <3>1 DEF LoopInList, Looping
        <3> QED BY <3>2, <3>3
    <2> QED BY <2>1, <2>2 DEF LoopInList
<1>4. CASE SkipSuppressed \/ SkipTransformFailure \/ ExecuteFeature
    BY <1>3, <1>4 DEF SkipSuppressed, SkipTransformFailure, ExecuteFeature
<1>5. CASE UNCHANGED <<features, dirty, loop>>
    BY <1>5 DEF loop, LoopInList, Idle
<1>6. CASE UNCHANGED vars \/ (\E i \in Markers : SetRollbackIndex(i))
           \/ (\E t \in Configs \cup {NoTransformer} : SetFeatureTransformer(t))
    BY <1>5, <1>6 DEF vars, maps, SetRollbackIndex, SetFeatureTransformer
<1> QED BY <1>1, <1>2, <1>4, <1>6 DEF Next, ReplayStep

LEMMA LoopAlwaysInList == Spec => []LoopInList
<1>1. Init => LoopInList
    BY DEF Init, Idle, LoopInList
<1>2. TreeState /\ TreeState' /\ LoopInList /\ [Next]_vars => LoopInList'
    BY NextInList
<1> QED BY <1>1, <1>2, TreeStateAlways, PTL DEF Spec

TurnStep == SkipSuppressed \/ SkipTransformFailure \/ ExecuteFeature

(* Every step but a turn of the loop keeps what is up to date. *)
LEMMA StepsKeepPrefix ==
    ASSUME TreeState, TreeState', LoopInList, [Next]_vars, ~TurnStep
    PROVE  PrefixKept
<1>0. /\ Len(features) \in Nat /\ DOMAIN features = 1..Len(features)
      /\ \A j \in DOMAIN features : features[j].id \in DOMAIN dirty
    BY ListFacts
<1>1. CASE Edit
    BY <1>1, EditKeepsPrefix
<1>2. CASE StartReplay
    <2>1. /\ features' = features /\ pos' \in Nat /\ dirty' = MarkedDirtyFrom(features, dirty, pos')
          /\ pos' # 1 => cache' = cache
        BY <1>0, <1>2, StartReplaySteps
    <2>2. \A j \in DOMAIN features : j < pos' => cache'[features[j].id] = cache[features[j].id]
        BY <1>0, <2>1
    <2>3. \A j \in DOMAIN features : dirty'[features[j].id] = FALSE => dirty[features[j].id] = FALSE
        BY <1>0, <2>1 DEF MarkedDirtyFrom
    <2>4. \A j \in DOMAIN features : pos' <= j => dirty'[features[j].id]
        BY <2>1, MarkedFrom
    <2> QED BY <2>1, <2>2, <2>3, <2>4, SuffixStepKeepsPrefix
<1>3. CASE Abort
    <2>1. /\ pos \in Nat /\ ~Idle /\ cache' = cache /\ dirty' = dirty
          /\ \/ features' = features
             \/ features' = [features EXCEPT ![pos].status = "OK"]
        BY <1>3 DEF Abort, Looping, TreeState, TypeOK
    <2>2. /\ DOMAIN features' = DOMAIN features
          /\ \A j \in DOMAIN features : j < pos => features'[j] = features[j]
        BY <1>0, <2>1
    <2>3. \A j \in DOMAIN features : features'[j].id = features[j].id
        <3>1. \A j \in DOMAIN features : features[j] \in Features
            BY ListFacts
        <3>2. \A j \in DOMAIN features : [features[j] EXCEPT !.status = "OK"].id = features[j].id
            BY <3>1 DEF Features
        <3> QED BY <2>1, <3>2
    <2>4. \A j \in DOMAIN features : pos <= j => dirty'[features[j].id]
        BY <2>1 DEF LoopInList
    <2> QED BY <2>1, <2>2, <2>3, <2>4, SuffixStepKeepsPrefix
<1>4. CASE UNCHANGED <<features, cache, dirty>>
    BY <1>4 DEF PrefixKept, CleanUpTo
<1>5. CASE Return \/ UNCHANGED vars \/ (\E i \in Markers : SetRollbackIndex(i))
           \/ (\E t \in Configs \cup {NoTransformer} : SetFeatureTransformer(t))
    BY <1>4, <1>5 DEF Return, vars, maps, SetRollbackIndex, SetFeatureTransformer
<1> QED BY <1>1, <1>2, <1>3, <1>5 DEF Next, ReplayStep, TurnStep

(* The three things a turn of the loop may do with the feature. *)
LEMMA TurnCases ==
    ASSUME TurnStep
    PROVE  /\ Looping
           /\ LET f   == features[pos]
                  val == EffectiveValue(f, featureTransformer)
              IN  \/ f.suppressed /\ TurnOfLoop("Suppressed", currentShape, 0)
                  \/ /\ ~f.suppressed /\ TransformerRejects(f)
                     /\ \E status \in Broken : TurnOfLoop(status, currentShape, 0)
                  \/ /\ ~f.suppressed /\ ~TransformerRejects(f)
                     /\ ExecutedStatus(f, val, currentShape, Resolves(f)) \in Broken
                     /\ TurnOfLoop(ExecutedStatus(f, val, currentShape, Resolves(f)), currentShape, 0)
                  \/ /\ ~f.suppressed /\ ~TransformerRejects(f)
                     /\ ExecutedStatus(f, val, currentShape, Resolves(f)) = "OK"
                     /\ TurnOfLoop("OK", ExecutedShape(f, val, currentShape, ReferencedOps(f), counter + 1), 1)
<1>1. \A f, val, base, resolves :
          ExecutedStatus(f, val, base, resolves) # "OK" => ExecutedStatus(f, val, base, resolves) \in Broken
    BY DEF ExecutedStatus, Broken
<1>2. CASE SkipSuppressed
    BY <1>2 DEF SkipSuppressed
<1>3. CASE SkipTransformFailure
    BY <1>3 DEF SkipTransformFailure, TransformerRejects
<1>4. CASE ExecuteFeature
    BY <1>1, <1>4 DEF ExecuteFeature
<1> QED BY <1>2, <1>3, <1>4 DEF TurnStep

(* A turn leaves what was up to date before it. *)
LEMMA TurnKeepsPrefix ==
    ASSUME TreeState, TreeState', LoopInList, LoopInList', Looping,
           NEW status, NEW shape, NEW allocated, TurnOfLoop(status, shape, allocated),
           NEW i \in DOMAIN features', CleanUpTo(i)'
    PROVE  /\ i \in 1..pos
           /\ i < pos => CleanUpTo(i)
           /\ i = pos => CleanUpTo(pos - 1)
           /\ \A j \in 1..i : j # pos => /\ j \in DOMAIN features
                                         /\ features[j].id \in DOMAIN cache
                                         /\ features'[j] = features[j]
                                         /\ cache'[features[j].id] = cache[features[j].id]
<1>0. /\ Len(features) \in Nat /\ DOMAIN features = 1..Len(features) /\ DOMAIN features' = DOMAIN features
      /\ pos \in DOMAIN features /\ pos' = pos + 1 /\ phase' = phase
      /\ \A j \in DOMAIN features : features'[j].id = features[j].id
    BY TurnFacts, ListFacts
<1>1. \A j \in 1..i : j \in DOMAIN features
    BY <1>0
<1>2. \A j \in 1..i : ~dirty'[features[j].id]
    BY <1>0, <1>1 DEF CleanUpTo
<1>3. i <= pos
    <2>1. SUFFICES ASSUME pos + 1 <= i PROVE FALSE
        BY <1>0
    <2>2. dirty'[features'[i].id]
        BY <1>0, <2>1 DEF LoopInList, Looping, Idle
    <2> QED BY <1>0, <1>2, <2>2
<1>4. ASSUME NEW j \in 1..i, j # pos
      PROVE  /\ ~dirty[features[j].id] /\ features[j].id \in DOMAIN cache
             /\ features'[j] = features[j] /\ cache'[features[j].id] = cache[features[j].id]
    <2>1. ~dirty[features[j].id]
        BY <1>1, <1>2, <1>4, TurnFacts
    <2>2. features[j].id \in DOMAIN cache
        BY <1>1, <2>1, ListFacts DEF TreeState, CleanIsCached
    <2> QED BY <1>1, <1>4, <2>1, <2>2, TurnFacts
<1>5. i < pos => CleanUpTo(i)
    BY <1>0, <1>1, <1>4 DEF CleanUpTo
<1>6. i = pos => CleanUpTo(pos - 1)
    BY <1>0, <1>1, <1>4 DEF CleanUpTo
<1> QED BY <1>0, <1>1, <1>3, <1>4, <1>5, <1>6

-----------------------------------------------------------------------------
(* What an up-to-date feature passes on *)

(* It has its own shape when it succeeded and the one before it otherwise. *)
PassesOn(i) ==
    LET f == features[i]
    IN  /\ f.suppressed => f.status = "Suppressed"
        /\ IF f.status = "OK"
           THEN ~IsNull(cache[f.id]) /\ Last(cache[f.id].geo).by = f.id
           ELSE cache[f.id] = Base(i)

CleanPassesOn == \A i \in DOMAIN features : CleanUpTo(i) => PassesOn(i)

(* The loop works on the shape that the features before it have left. *)
WorksOnBase == ~Idle /\ CleanUpTo(pos - 1) => currentShape = Base(pos)

(* The shape after a prefix is that of the last feature in it that passed  *)
(* on a shape of its own. *)
LEMMA LastOwnShape ==
    ASSUME TreeState, CleanPassesOn, NEW n \in Nat, n <= Len(features), CleanUpTo(n),
           NEW own \in SUBSET (1..n),
           \A k \in (1..n) \ own : features[k].status # "OK"
    PROVE  /\ own = {} => Base(n + 1) = NullShape
           /\ own # {} => Base(n + 1) = cache[features[CHOOSE i \in own : \A j \in own : j <= i].id]
<1> DEFINE base == [k \in 1..(n + 1) |-> Base(k)]
           last == CHOOSE i \in own : \A j \in own : j <= i
<1>1. \A k \in 1..n : base[k + 1] = cache[features[k].id]
    BY DEF Base
<1>2. ASSUME NEW k \in 1..n, k \notin own PROVE base[k + 1] = base[k]
    <2>1. CleanUpTo(k) /\ k \in DOMAIN features
        BY ListFacts DEF CleanUpTo
    <2>2. cache[features[k].id] = Base(k)
        BY <1>2, <2>1 DEF CleanPassesOn, PassesOn
    <2> QED BY <1>1, <2>2
<1>3. base[1] = NullShape /\ base[n + 1] = Base(n + 1)
    BY DEF Base
<1> HIDE DEF base
<1>4. /\ own = {} => base[n + 1] = base[1]
      /\ own # {} => last \in own /\ base[n + 1] = base[last + 1]
    BY <1>2, LastChange
<1> QED BY <1>1, <1>3, <1>4

(* What replayFrom looks up is the shape of the feature before. *)
LEMMA ShapeBeforeIsBase ==
    ASSUME TreeState, CleanPassesOn, NEW start \in DOMAIN features, CleanUpTo(start - 1)
    PROVE  ShapeBefore(start) = Base(start)
<1> DEFINE usable == {i \in 1..(start - 1) : /\ ~features[i].suppressed
                                             /\ features[i].status = "OK"
                                             /\ features[i].id \in DOMAIN cache}
<1>1. start - 1 \in Nat /\ start - 1 <= Len(features) /\ (start - 1) + 1 = start
    BY ListFacts
<1>2. ASSUME NEW k \in (1..(start - 1)) \ usable PROVE features[k].status # "OK"
    <2>1. CleanUpTo(k) /\ k \in DOMAIN features /\ ~dirty[features[k].id]
        BY ListFacts DEF CleanUpTo
    <2>2. features[k].id \in DOMAIN cache
        BY <2>1, ListFacts DEF TreeState, CleanIsCached
    <2>3. features[k].suppressed => features[k].status = "Suppressed"
        BY <2>1 DEF CleanPassesOn, PassesOn
    <2> QED BY <2>2, <2>3
<1> HIDE DEF usable
<1>3. usable \in SUBSET (1..(start - 1))
    BY DEF usable
<1>4. /\ usable = {} => Base(start) = NullShape
      /\ usable # {} => Base(start) = cache[features[CHOOSE i \in usable : \A j \in usable : j <= i].id]
    BY <1>1, <1>2, <1>3, LastOwnShape
<1> QED BY <1>4 DEF ShapeBefore, usable

LEMMA ExecutedGeoLast ==
    ASSUME NEW f, NEW val, NEW base \in Shapes, NEW uses
    PROVE  /\ ExecutedGeo(f, val, base, uses) # <<>>
           /\ Last(ExecutedGeo(f, val, base, uses)).by = f.id
<1> DEFINE op == [by |-> f.id, val |-> val, on |-> uses]
<1>1. op.by = f.id
    OBVIOUS
<1> HIDE DEF op
<1>2. base.geo \in Seq(Operations)
    BY DEF Shapes
<1>3. CASE f.kind = "Make"
    <2>1. ExecutedGeo(f, val, base, uses) = <<op>>
        BY <1>3 DEF ExecutedGeo, op
    <2> QED BY <1>1, <2>1 DEF Last
<1>4. CASE f.kind # "Make"
    <2>1. ExecutedGeo(f, val, base, uses) = Append(base.geo, op)
        BY <1>4 DEF ExecutedGeo, op
    <2> QED BY <1>1, <1>2, <2>1 DEF Last
<1> QED BY <1>3, <1>4

(* Base is the same after a step that kept the features before. *)
LEMMA BaseKept ==
    ASSUME NEW i \in Nat \ {0},
           \A j \in 1..(i - 1) : /\ features'[j] = features[j]
                                 /\ cache'[features[j].id] = cache[features[j].id]
    PROVE  Base(i)' = Base(i)
  BY DEF Base

(* The place before a place that is not the first. *)
LEMMA OneBefore ==
    ASSUME NEW n \in Nat, NEW p \in 1..(n + 1), p # 1
    PROVE  p - 1 \in 1..n /\ p \in Nat \ {0}
OBVIOUS

LEMMA PassingOnAlways == Spec => [](CleanPassesOn /\ WorksOnBase)
<1>1. Init => CleanPassesOn /\ WorksOnBase
    BY DEF Init, Idle, CleanPassesOn, WorksOnBase
<1>2. ASSUME TreeState, TreeState', LoopInList, LoopInList', CleanPassesOn, WorksOnBase, [Next]_vars
      PROVE  CleanPassesOn' /\ WorksOnBase'
    <2>0. /\ Len(features) \in Nat /\ DOMAIN features = 1..Len(features)
          /\ \A i \in DOMAIN features : features[i] \in Features
        BY <1>2, ListFacts
    <2>1. ASSUME PrefixKept PROVE CleanPassesOn'
        <3> SUFFICES ASSUME NEW i \in DOMAIN features', CleanUpTo(i)' PROVE PassesOn(i)'
            BY DEF CleanPassesOn
        <3>1. /\ i \in DOMAIN features /\ CleanUpTo(i) /\ i \in Nat \ {0}
              /\ \A j \in 1..i : /\ features'[j] = features[j]
                                 /\ cache'[features[j].id] = cache[features[j].id]
            BY <2>0, <2>1 DEF PrefixKept
        <3>2. PassesOn(i)
            BY <1>2, <3>1 DEF CleanPassesOn
        <3>3. Base(i)' = Base(i)
            BY <3>1, BaseKept
        <3>4. features'[i] = features[i] /\ cache'[features[i].id] = cache[features[i].id]
            BY <3>1
        <3> QED BY <3>2, <3>3, <3>4 DEF PassesOn
    <2>2. ASSUME PrefixKept, StartReplay PROVE WorksOnBase'
        <3> SUFFICES ASSUME CleanUpTo(pos - 1)' PROVE currentShape' = Base(pos)'
            BY DEF WorksOnBase
        <3>1. /\ features' = features /\ pos' \in 1..(Len(features) + 1)
              /\ pos' # 1 => /\ pos' \in DOMAIN features
                             /\ cache' = cache /\ currentShape' = ShapeBefore(pos')
              /\ pos' = 1 => currentShape' = NullShape
            BY <1>2, <2>2, StartReplaySteps
        <3>2. CASE pos' = 1
            BY <3>1, <3>2 DEF Base
        <3>3. CASE pos' # 1
            <4>1. pos' - 1 \in DOMAIN features' /\ pos' \in Nat \ {0}
                <5>1. pos' - 1 \in 1..Len(features) /\ pos' \in Nat \ {0}
                    <6>1. Len(features) \in Nat
                        BY <2>0
                    <6>2. pos' \in 1..(Len(features) + 1) /\ pos' # 1
                        BY <3>1, <3>3
                    <6> QED BY <6>1, <6>2, OneBefore
                <5> QED BY <2>0, <3>1, <5>1
            <4>2. CleanUpTo(pos' - 1)
                <5>1. \A j \in 1..(pos' - 1) : ~dirty'[features'[j].id]
                    BY DEF CleanUpTo
                <5>2. \A i \in DOMAIN features' : (\A j \in 1..i : ~dirty'[features'[j].id]) => CleanUpTo(i)
                    BY <2>2 DEF PrefixKept, CleanUpTo
                <5> QED BY <4>1, <5>1, <5>2
            <4>3. ShapeBefore(pos') = Base(pos')
                BY <1>2, <3>1, <3>3, <4>2, ShapeBeforeIsBase
            <4> QED BY <3>1, <3>3, <4>3 DEF Base
        <3> QED BY <3>2, <3>3
    <2>3. CASE ~TurnStep
        <3>1. PrefixKept
            BY <1>2, <2>3, StepsKeepPrefix
        <3>2. CASE StartReplay
            BY <2>1, <2>2, <3>1, <3>2
        <3>3. CASE Edit \/ Return \/ Abort
            <4>1. phase' = "idle"
                BY <3>3 DEF Edit, AddFeature, InsertFeature, RemoveFeature, UpdateParameter, SuppressFeature,
                            MoveFeature, ReplaceReference, Editing, Idle, loop, Return, Abort
            <4> QED BY <2>1, <3>1, <4>1 DEF WorksOnBase, Idle
        <3>4. CASE UNCHANGED vars \/ (\E i \in Markers : SetRollbackIndex(i))
                   \/ (\E t \in Configs \cup {NoTransformer} : SetFeatureTransformer(t))
            <4>1. UNCHANGED <<features, maps, loop>>
                BY <3>4 DEF vars, SetRollbackIndex, SetFeatureTransformer
            <4>2. WorksOnBase'
                BY <1>2, <4>1 DEF maps, loop, WorksOnBase, Idle, CleanUpTo, Base
            <4> QED BY <2>1, <3>1, <4>2
        <3> QED BY <1>2, <2>3, <3>2, <3>3, <3>4 DEF Next, ReplayStep, TurnStep
    <2>4. ASSUME Looping, NEW status, NEW shape, NEW allocated, TurnOfLoop(status, shape, allocated),
                 \/ status # "OK" /\ shape = currentShape /\ (features[pos].suppressed => status = "Suppressed")
                 \/ /\ status = "OK" /\ ~features[pos].suppressed
                    /\ ~IsNull(shape) /\ Last(shape.geo).by = features[pos].id
          PROVE  CleanPassesOn' /\ WorksOnBase'
        <3>a. pos \in DOMAIN features /\ pos \in Nat \ {0} /\ ~Idle
            BY <1>2, <2>0, <2>4 DEF Looping, TreeState, TypeOK
        <3>0. /\ pos \in DOMAIN features /\ pos' = pos + 1 /\ pos \in Nat \ {0} /\ ~Idle
              /\ features'[pos].status = status /\ features'[pos].suppressed = features[pos].suppressed
              /\ features'[pos].id = features[pos].id
              /\ cache'[features[pos].id] = shape /\ currentShape' = shape
              /\ DOMAIN features' = DOMAIN features
            BY <1>2, <2>4, <3>a, TurnFacts DEF SameButStatus
        <3>1. WorksOnBase'
            <4>1. pos' # 1 /\ pos' - 1 = pos
                BY <3>0
            <4>2. (IF pos' = 1 THEN NullShape ELSE cache'[features'[pos' - 1].id]) = shape
                BY <3>0, <4>1
            <4>3. currentShape' = IF pos' = 1 THEN NullShape ELSE cache'[features'[pos' - 1].id]
                BY <3>0, <4>2
            <4> QED BY <4>3 DEF WorksOnBase, Base
        <3>2. ASSUME NEW i \in DOMAIN features', CleanUpTo(i)' PROVE PassesOn(i)'
            <4>1. /\ i \in 1..pos
                  /\ i < pos => CleanUpTo(i)
                  /\ i = pos => CleanUpTo(pos - 1)
                  /\ \A j \in 1..i : j # pos => /\ features'[j] = features[j]
                                                /\ cache'[features[j].id] = cache[features[j].id]
                BY <1>2, <2>4, <3>2, TurnKeepsPrefix
            <4>2. Base(i)' = Base(i)
                <5>1. i \in Nat \ {0} /\ \A j \in 1..(i - 1) : j \in 1..i /\ j # pos
                    BY <3>0, <4>1
                <5> QED BY <4>1, <5>1, BaseKept
            <4>3. CASE i < pos
                <5>1. PassesOn(i)
                    BY <1>2, <3>0, <3>2, <4>1, <4>3 DEF CleanPassesOn
                <5>2. features'[i] = features[i] /\ cache'[features[i].id] = cache[features[i].id]
                    BY <3>0, <4>1, <4>3
                <5> QED BY <4>2, <5>1, <5>2 DEF PassesOn
            <4>4. CASE i = pos
                <5>1. currentShape = Base(pos)
                    BY <1>2, <3>0, <4>1, <4>4 DEF WorksOnBase
                <5> QED BY <2>4, <3>0, <4>2, <4>4, <5>1 DEF PassesOn
            <4> QED BY <3>0, <4>1, <4>3, <4>4
        <3> QED BY <3>1, <3>2 DEF CleanPassesOn
    <2>5. CASE TurnStep
        <3> DEFINE f == features[pos]
                   val == EffectiveValue(f, featureTransformer)
                   made == ExecutedShape(f, val, currentShape, ReferencedOps(f), counter + 1)
        <3>1. Looping
            BY <2>5, TurnCases
        <3>2. CASE f.suppressed /\ TurnOfLoop("Suppressed", currentShape, 0)
            BY <2>4, <3>1, <3>2
        <3>3. ASSUME ~f.suppressed, NEW status \in Broken, TurnOfLoop(status, currentShape, 0)
              PROVE  CleanPassesOn' /\ WorksOnBase'
            BY <2>4, <3>1, <3>3 DEF Broken
        <3>4. CASE ~f.suppressed /\ TurnOfLoop("OK", made, 1)
            <4>1. ~IsNull(made) /\ Last(made.geo).by = f.id
                <5>1. made.geo = ExecutedGeo(f, val, currentShape, ReferencedOps(f))
                    BY DEF ExecutedShape
                <5>2. currentShape \in Shapes
                    BY <1>2 DEF TreeState, TypeOK
                <5> HIDE DEF made, f, val
                <5> QED BY <5>1, <5>2, ExecutedGeoLast DEF IsNull
            <4> HIDE DEF made
            <4> QED BY <2>4, <3>1, <3>4, <4>1
        <3> QED BY <2>5, <3>1, <3>2, <3>3, <3>4, TurnCases
    <2> QED BY <2>3, <2>5
<1>3. TreeState /\ TreeState' /\ LoopInList /\ LoopInList' /\ (CleanPassesOn /\ WorksOnBase) /\ [Next]_vars
        => (CleanPassesOn /\ WorksOnBase)'
    BY <1>2
<1> QED BY <1>1, <1>3, TreeStateAlways, LoopAlwaysInList, PTL DEF Spec

(* What the runs check as CleanShapesFollowStatus: under every transformer *)
(* and after every exception, an up-to-date feature that failed or is      *)
(* suppressed passes on the shape before it.                               *)
THEOREM CleanShapesAlwaysFollowStatus == Spec => []CleanShapesFollowStatus
<1>1. CleanPassesOn /\ WorksOnBase => CleanShapesFollowStatus
    BY DEF CleanPassesOn, PassesOn, CleanShapesFollowStatus
<1> QED BY <1>1, PassingOnAlways, PTL

-----------------------------------------------------------------------------
(* What an up-to-date feature holds *)

(* Everything before position i, and what i refers to, is unchanged. *)
UpstreamKept(i) ==
    /\ i \in DOMAIN features /\ i \in DOMAIN features'
    /\ features'[i].id = features[i].id /\ features'[i].ref = features[i].ref
    /\ \A j \in 1..(i - 1) :
          /\ j \in DOMAIN features /\ j \in DOMAIN features'
          /\ features'[j] = features[j]
          /\ cache'[features[j].id] = cache[features[j].id]
          /\ features[j].id \in DOMAIN cache /\ features[j].id \in DOMAIN cache'

(* What feature i refers to stands before it, or is not in the list. *)
TargetKept(i) ==
    \/ RefersUpstream(i)'
    \/ /\ features[i].ref \notin AllIds(features) \cup AllIds(features')
       /\ features[i].ref # NoRef

LEMMA UpstreamBefore ==
    ASSUME TreeState, TreeState', NEW i, UpstreamKept(i), RefersUpstream(i)'
    PROVE  /\ RefersUpstream(i)
           /\ features[i].ref # NoRef =>
                \E k \in 1..(i - 1) :
                    /\ k \in DOMAIN features /\ k \in DOMAIN features' /\ features'[k] = features[k]
                    /\ features[i].ref = features[k].id
                    /\ cache'[features[k].id] = cache[features[k].id]
                    /\ features[k].id \in DOMAIN cache /\ features[k].id \in DOMAIN cache'
<1>0. features'[i].ref = features[i].ref /\ i \in Nat
    BY ListFacts DEF UpstreamKept
<1>1. CASE features[i].ref = NoRef
    BY <1>1 DEF RefersUpstream
<1>2. CASE features[i].ref # NoRef
    <2>1. PICK k \in DOMAIN features' : 1 <= k /\ k <= i - 1 /\ features[i].ref = features'[k].id
        BY <1>0, <1>2 DEF RefersUpstream, IdsIn
    <2>2. k \in 1..(i - 1)
        <3>1. k \in Nat
            BY DEF TreeState, TypeOK
        <3> QED BY <1>0, <2>1, <3>1
    <2>3. /\ k \in DOMAIN features /\ features'[k] = features[k] /\ features[i].ref = features[k].id
          /\ cache'[features[k].id] = cache[features[k].id]
          /\ features[k].id \in DOMAIN cache /\ features[k].id \in DOMAIN cache'
        BY <2>1, <2>2 DEF UpstreamKept
    <2>4. RefersUpstream(i)
        BY <2>1, <2>3 DEF RefersUpstream, IdsIn
    <2> QED BY <2>1, <2>2, <2>3, <2>4
<1> QED BY <1>1, <1>2

(* The reference then resolves as it did, to the same shape. *)
LEMMA TargetResolves ==
    ASSUME TreeState, TreeState', NEW i, UpstreamKept(i), TargetKept(i)
    PROVE  /\ Resolves(features[i])' <=> Resolves(features[i])
           /\ Resolves(features[i]) => ReferencedOps(features[i])' = ReferencedOps(features[i])
<1> DEFINE ref == features[i].ref
<1>0. features'[i].ref = ref
    BY DEF UpstreamKept
<1>1. CASE ref = NoRef
    BY <1>0, <1>1 DEF Resolves, ReferencedOps
<1>2. CASE ref # NoRef /\ RefersUpstream(i)'
    <2>1. PICK k \in 1..(i - 1) :
             /\ k \in DOMAIN features /\ k \in DOMAIN features' /\ features'[k] = features[k]
             /\ ref = features[k].id
             /\ cache'[ref] = cache[ref] /\ ref \in DOMAIN cache /\ ref \in DOMAIN cache'
        BY <1>2, UpstreamBefore
    <2>2. ResolvesIn(features, cache, ref) <=> ~features[k].suppressed /\ ~IsNull(cache[ref])
        BY <2>1, ListFacts DEF ResolvesIn
    <2>3. ResolvesIn(features', cache', ref) <=> ~features[k].suppressed /\ ~IsNull(cache[ref])
        <3>1. \A m, n \in DOMAIN features' : features'[m].id = features'[n].id => m = n
            BY DEF TreeState, MapsFollowList
        <3> QED BY <2>1, <3>1 DEF ResolvesIn
    <2>4. Resolves(features[i])' <=> Resolves(features[i])
        BY <1>0, <1>2, <2>2, <2>3 DEF Resolves
    <2>5. ReferencedOps(features[i])' = ReferencedOps(features[i])
        BY <1>0, <1>2, <2>1 DEF ReferencedOps
    <2> QED BY <2>4, <2>5
<1>3. CASE ref # NoRef /\ ref \notin AllIds(features) \cup AllIds(features')
    <2>1. ref \notin DOMAIN cache /\ ref \notin DOMAIN cache'
        BY <1>3 DEF TreeState, MapsFollowList
    <2> QED BY <1>0, <1>3, <2>1 DEF Resolves, ResolvesIn
<1> QED BY <1>1, <1>2, <1>3 DEF TargetKept

(* What feature i holds follows from what it is and what comes before it. *)
LEMMA CoherentKept ==
    ASSUME TreeState, TreeState', NEW i, UpstreamKept(i), TargetKept(i), features'[i] = features[i],
           cache'[features[i].id] = cache[features[i].id], Coherent(i)
    PROVE  Coherent(i)'
<1>1. /\ Resolves(features[i])' <=> Resolves(features[i])
      /\ Resolves(features[i]) => ReferencedOps(features[i])' = ReferencedOps(features[i])
    BY TargetResolves
<1>2. Base(i)' = Base(i)
    <2>1. i \in Nat \ {0}
        BY ListFacts DEF UpstreamKept
    <2> QED BY <2>1, BaseKept DEF UpstreamKept
<1>3. features'[i] = features[i] /\ cache'[features[i].id] = cache[features[i].id]
    OBVIOUS
<1> QED BY <1>1, <1>2, <1>3 DEF Coherent, ExecutedStatus

(* A feature that a turn leaves after an up-to-date prefix holds what      *)
(* executing it produces.                                                  *)
LEMMA TurnIsCoherent ==
    ASSUME TreeState, TreeState', LoopInList, TurnStep, NEW i, i = pos,
           UpstreamKept(i), TargetKept(i), featureTransformer = NoTransformer, currentShape = Base(i)
    PROVE  Coherent(i)'
<1> DEFINE f == features[i]
           status == ExecutedStatus(f, f.val, Base(i), Resolves(f))
           made == ExecutedShape(f, f.val, Base(i), ReferencedOps(f), counter + 1)
<1>1. /\ Resolves(f)' <=> Resolves(f)
      /\ Resolves(f) => ReferencedOps(f)' = ReferencedOps(f)
    BY TargetResolves
<1>2. Base(i)' = Base(i)
    <2>1. i \in Nat \ {0}
        BY DEF TreeState, TypeOK
    <2> QED BY <2>1, BaseKept DEF UpstreamKept
<1>3. ASSUME NEW newStatus, NEW shape, NEW allocated, TurnOfLoop(newStatus, shape, allocated)
      PROVE  /\ SameButStatus(features'[i], f) /\ features'[i].status = newStatus
             /\ cache'[f.id] = shape
    BY <1>3, TurnCases, TurnFacts
<1>4. ~TransformerRejects(f) /\ EffectiveValue(f, featureTransformer) = f.val
    BY DEF TransformerRejects, EffectiveValue
<1>5. \/ f.suppressed /\ TurnOfLoop("Suppressed", Base(i), 0)
      \/ ~f.suppressed /\ status \in Broken /\ TurnOfLoop(status, Base(i), 0)
      \/ ~f.suppressed /\ status = "OK" /\ TurnOfLoop("OK", made, 1)
    <2> HIDE DEF made, status
    <2> QED BY <1>4, TurnCases DEF made, status
<1>6. CASE f.suppressed /\ TurnOfLoop("Suppressed", Base(i), 0)
    BY <1>2, <1>3, <1>6 DEF Coherent, SameButStatus
<1>7. CASE ~f.suppressed /\ status \in Broken /\ TurnOfLoop(status, Base(i), 0)
    <2>1. /\ SameButStatus(features'[i], f) /\ features'[i].status = status
          /\ cache'[f.id] = Base(i)
        BY <1>3, <1>7
    <2>2. ExecutedStatus(features'[i], features'[i].val, Base(i), Resolves(f)) = status
        BY <2>1 DEF SameButStatus, ExecutedStatus
    <2>3. status # "OK"
        BY <1>7 DEF Broken
    <2> QED BY <1>1, <1>2, <1>7, <2>1, <2>3 DEF Coherent, SameButStatus, ExecutedStatus
<1>8. CASE ~f.suppressed /\ status = "OK" /\ TurnOfLoop("OK", made, 1)
    <2>1. /\ SameButStatus(features'[i], f) /\ features'[i].status = "OK"
          /\ cache'[f.id] = made
        BY <1>3, <1>8
    <2>2. made.geo = ExecutedGeo(f, f.val, Base(i), ReferencedOps(f))
        BY DEF ExecutedShape
    <2>3. ExecutedGeo(features'[i], features'[i].val, Base(i), ReferencedOps(f)) = made.geo
        BY <2>1, <2>2 DEF SameButStatus, ExecutedGeo
    <2>4. Resolves(f)
        BY <1>8 DEF ExecutedStatus
    <2> QED BY <1>1, <1>2, <1>8, <2>1, <2>3, <2>4 DEF Coherent, SameButStatus, ExecutedStatus
<1> QED BY <1>5, <1>6, <1>7, <1>8

(* What is up to date after a step stands after an unchanged prefix, and   *)
(* was up to date before it or has just been run.                          *)
LEMMA StepKeepsUpstream ==
    ASSUME TreeState, TreeState', LoopInList, LoopInList', [Next]_vars,
           NEW i \in DOMAIN features', CleanUpTo(i)'
    PROVE  /\ UpstreamKept(i)
           /\ \/ /\ CleanUpTo(i) /\ features'[i] = features[i]
                 /\ cache'[features[i].id] = cache[features[i].id]
              \/ TurnStep /\ i = pos /\ CleanUpTo(pos - 1)
<1>0. i \in Nat \ {0} /\ \A j \in 1..i : j \in DOMAIN features'
    <2>1. DOMAIN features' = 1..Len(features') /\ Len(features') \in Nat
        BY DEF TreeState, TypeOK
    <2> QED BY <2>1
<1>1. CASE ~TurnStep
    <2>1. PrefixKept
        BY <1>1, StepsKeepPrefix
    <2>2. /\ i \in DOMAIN features /\ CleanUpTo(i)
          /\ \A j \in 1..i : /\ features'[j] = features[j]
                             /\ cache'[features[j].id] = cache[features[j].id]
        BY <2>1 DEF PrefixKept
    <2>3. \A j \in 1..i : j \in DOMAIN features
        BY <1>0, <2>2, ListFacts
    <2>4. \A j \in 1..i : features[j].id \in DOMAIN cache
        BY <2>2, <2>3, ListFacts DEF CleanUpTo, TreeState, CleanIsCached
    <2>5. \A j \in 1..i : features'[j].id \in DOMAIN cache'
        <3>1. \A j \in DOMAIN features' : features'[j].id \in DOMAIN dirty'
            <4>1. features' \in Seq(Features) /\ DOMAIN dirty' = AllIds(features')
                BY DEF TreeState, TypeOK, MapsFollowList
            <4> QED BY <4>1, AllIdsElements
        <3> QED BY <1>0, <3>1 DEF CleanUpTo, TreeState, CleanIsCached
    <2>6. UpstreamKept(i)
        BY <1>0, <2>2, <2>3, <2>4, <2>5 DEF UpstreamKept
    <2>7. features'[i] = features[i] /\ cache'[features[i].id] = cache[features[i].id]
        BY <1>0, <2>2
    <2> QED BY <2>2, <2>6, <2>7
<1>2. CASE TurnStep
    <2>1. PICK status, shape, allocated : Looping /\ TurnOfLoop(status, shape, allocated)
        BY <1>2, TurnCases
    <2>2. /\ i \in 1..pos
          /\ i < pos => CleanUpTo(i)
          /\ i = pos => CleanUpTo(pos - 1)
          /\ \A j \in 1..i : j # pos => /\ j \in DOMAIN features
                                        /\ features[j].id \in DOMAIN cache
                                        /\ features'[j] = features[j]
                                        /\ cache'[features[j].id] = cache[features[j].id]
        BY <2>1, TurnKeepsPrefix
    <2>3. /\ DOMAIN features' = DOMAIN features /\ pos \in DOMAIN features
          /\ SameButStatus(features'[pos], features[pos])
        BY <2>1, TurnFacts
    <2>4. \A j \in DOMAIN features : j # pos =>
             (features[j].id \in DOMAIN cache' <=> features[j].id \in DOMAIN cache)
        BY <2>1, TurnFacts
    <2>5. pos \in Nat
        BY <2>3, ListFacts
    <2>6. features'[i].id = features[i].id /\ features'[i].ref = features[i].ref
        <3>1. CASE i = pos
            BY <2>3, <3>1 DEF SameButStatus
        <3>2. CASE i # pos
            BY <1>0, <2>2, <3>2
        <3> QED BY <3>1, <3>2
    <2>7. \A j \in 1..(i - 1) : j \in 1..i /\ j # pos
        BY <1>0, <2>2, <2>5
    <2>8. UpstreamKept(i)
        BY <1>0, <2>2, <2>3, <2>4, <2>6, <2>7 DEF UpstreamKept
    <2>9. i < pos \/ i = pos
        BY <1>0, <2>2, <2>5
    <2>10. i # pos => features'[i] = features[i] /\ cache'[features[i].id] = cache[features[i].id]
        BY <1>0, <2>2
    <2> QED BY <1>2, <2>2, <2>5, <2>8, <2>9, <2>10
<1> QED BY <1>1, <1>2

(* So it holds what executing it would produce, if it did before. *)
LEMMA StepKeepsCoherent ==
    ASSUME TreeState, TreeState', LoopInList, LoopInList', WorksOnBase, [Next]_vars,
           featureTransformer = NoTransformer,
           NEW i \in DOMAIN features', CleanUpTo(i)', TargetKept(i),
           CleanUpTo(i) => Coherent(i)
    PROVE  Coherent(i)'
<1>1. CASE /\ CleanUpTo(i) /\ features'[i] = features[i]
           /\ cache'[features[i].id] = cache[features[i].id]
    BY <1>1, StepKeepsUpstream, CoherentKept
<1>2. CASE TurnStep /\ i = pos /\ CleanUpTo(pos - 1)
    <2>1. currentShape = Base(i)
        <3>1. ~Idle
            BY <1>2, TurnCases DEF Looping
        <3> QED BY <1>2, <3>1 DEF WorksOnBase
    <2> QED BY <1>2, <2>1, StepKeepsUpstream, TurnIsCoherent
<1> QED BY <1>1, <1>2, StepKeepsUpstream

LEMMA NeverTransformed ==
    ASSUME Configs = {}
    PROVE  Spec => [](featureTransformer = NoTransformer)
<1>1. ASSUME featureTransformer = NoTransformer, [Next]_vars PROVE featureTransformer' = NoTransformer
    <2>1. CASE \E t \in Configs \cup {NoTransformer} : SetFeatureTransformer(t)
        BY <2>1 DEF SetFeatureTransformer
    <2>2. CASE UNCHANGED featureTransformer
        BY <1>1, <2>2
    <2> QED BY <1>1, <2>1, <2>2, TurnCases
          DEF Next, Edit, AddFeature, InsertFeature, RemoveFeature, UpdateParameter, SuppressFeature,
              MoveFeature, ReplaceReference, SetRollbackIndex, StartReplay, Replay, ReplayFromFirst,
              ReplayFromSnapshot, ReplayFromUnknown, ReplayStep, TurnStep, TurnOfLoop, Return, Abort,
              marker, vars
<1>2. Init => featureTransformer = NoTransformer
    BY DEF Init
<1>3. featureTransformer = NoTransformer /\ [Next]_vars => (featureTransformer = NoTransformer)'
    BY <1>1
<1> QED BY <1>2, <1>3, PTL DEF Spec

CleanCoherent == \A i \in DOMAIN features : CleanUpTo(i) /\ RefersUpstream(i) => Coherent(i)

LEMMA CoherentAlways ==
    ASSUME Configs = {}
    PROVE  Spec => []CleanCoherent
<1>1. Init => CleanCoherent
    BY DEF Init, CleanCoherent
<1>2. ASSUME TreeState, TreeState', LoopInList, LoopInList', WorksOnBase, CleanCoherent, [Next]_vars,
             featureTransformer = NoTransformer
      PROVE  CleanCoherent'
    <2> SUFFICES ASSUME NEW i \in DOMAIN features', CleanUpTo(i)', RefersUpstream(i)'
                 PROVE  Coherent(i)'
        BY DEF CleanCoherent
    <2>1. UpstreamKept(i)
        BY <1>2, StepKeepsUpstream
    <2>2. TargetKept(i)
        BY DEF TargetKept
    <2>3. RefersUpstream(i) /\ i \in DOMAIN features
        BY <1>2, <2>1, UpstreamBefore DEF UpstreamKept
    <2>4. CleanUpTo(i) => Coherent(i)
        BY <1>2, <2>3 DEF CleanCoherent
    <2> QED BY <1>2, <2>2, <2>4, StepKeepsCoherent
<1>3. TreeState /\ TreeState' /\ LoopInList /\ LoopInList' /\ (CleanPassesOn /\ WorksOnBase)
        /\ CleanCoherent /\ [Next]_vars /\ featureTransformer = NoTransformer
      => CleanCoherent'
    BY <1>2
<1> QED BY <1>1, <1>3, TreeStateAlways, LoopAlwaysInList, PassingOnAlways, NeverTransformed, PTL DEF Spec

(* What the runs check as CleanPrefixCoherent: with no transformer, and    *)
(* whatever edits, partial replays and exceptions came before, a feature   *)
(* up to date with everything before it holds what executing it would      *)
(* produce, and has the status it would get.                               *)
THEOREM CleanPrefixAlwaysCoherent ==
    ASSUME Configs = {}
    PROVE  Spec => []CleanPrefixCoherent
<1>1. TreeState /\ CleanCoherent => CleanPrefixCoherent
    <2> SUFFICES ASSUME TreeState, CleanCoherent, NEW i \in DOMAIN features, CleanUpTo(i)
                 PROVE  features[i].id \in DOMAIN cache
        BY DEF CleanCoherent, CleanPrefixCoherent
    <2>1. i \in 1..i
        BY ListFacts
    <2> QED BY <2>1, ListFacts DEF CleanUpTo, TreeState, CleanIsCached
<1> QED BY <1>1, TreeStateAlways, CoherentAlways, PTL

-----------------------------------------------------------------------------
(* Identities.  An exception may leave a replay after it has taken a       *)
(* snapshot and before the later ones are retaken; what follows is about   *)
(* replays that return.                                                    *)

Succeeded(i) == CleanUpTo(i) /\ features[i].status = "OK"

(* An up-to-date feature that succeeded owns an identity. *)
OwnsOne == \A i \in DOMAIN features : Succeeded(i) => OwnIdentity(i) \in Nat

(* Every snapshot that can be restored is above the identities upstream. *)
Restorable ==
    \A i, j \in DOMAIN features :
        /\ i < j /\ Succeeded(i)
        /\ features[j].id \in DOMAIN allocatorSnapshotsBefore
        /\ Idle \/ j < pos
        => OwnIdentity(i) <= allocatorSnapshotsBefore[features[j].id]

(* So is the counter while the loop runs. *)
CounterAbove ==
    ~Idle => \A i \in DOMAIN features : i < pos /\ Succeeded(i) => OwnIdentity(i) <= counter

Ascending ==
    \A i, j \in DOMAIN features :
        i < j /\ Succeeded(i) /\ Succeeded(j) => OwnIdentity(i) < OwnIdentity(j)

IdentityInv == OwnsOne /\ Restorable /\ CounterAbove /\ Ascending

LEMMA PrefixKeepsOwn ==
    ASSUME TreeState, PrefixKept, NEW i \in DOMAIN features', Succeeded(i)'
    PROVE  /\ i \in DOMAIN features /\ i \in Nat /\ Succeeded(i)
           /\ OwnIdentity(i)' = OwnIdentity(i)
           /\ \A j \in 1..i : features'[j] = features[j]
<1>1. /\ i \in DOMAIN features /\ CleanUpTo(i)
      /\ \A j \in 1..i : /\ features'[j] = features[j]
                         /\ cache'[features[j].id] = cache[features[j].id]
    BY DEF PrefixKept, Succeeded
<1>2. i \in 1..i
    BY <1>1, ListFacts
<1>3. features'[i] = features[i] /\ cache'[features[i].id] = cache[features[i].id]
    BY <1>1, <1>2
<1>4. OwnIdentity(i)' = OwnIdentity(i)
    BY <1>3 DEF OwnIdentity
<1>5. Succeeded(i)
    BY <1>1, <1>3 DEF Succeeded
<1> QED BY <1>1, <1>2, <1>4, <1>5

(* A snapshot that a step between replays has kept belongs to a feature    *)
(* that was downstream of what is still up to date.                        *)
LEMMA SnapshotsStayAbove ==
    ASSUME TreeState, TreeState', PrefixKept, Restorable, Idle,
           DOMAIN allocatorSnapshotsBefore' \subseteq DOMAIN allocatorSnapshotsBefore,
           \A id \in DOMAIN allocatorSnapshotsBefore' :
               allocatorSnapshotsBefore'[id] = allocatorSnapshotsBefore[id],
           NEW i \in DOMAIN features', NEW j \in DOMAIN features', i < j, Succeeded(i)',
           features'[j].id \in DOMAIN allocatorSnapshotsBefore'
    PROVE  OwnIdentity(i)' <= allocatorSnapshotsBefore'[features'[j].id]
<1>1. /\ i \in DOMAIN features /\ i \in Nat /\ Succeeded(i)
      /\ OwnIdentity(i)' = OwnIdentity(i)
      /\ \A k \in 1..i : features'[k] = features[k]
    BY PrefixKeepsOwn
<1>2. PICK k \in DOMAIN features : features[k].id = features'[j].id
    <2>1. features'[j].id \in AllIds(features) /\ features \in Seq(Features)
        BY DEF TreeState, TypeOK, MapsFollowList
    <2> QED BY <2>1, AllIdsElements
<1>3. k \in Nat /\ j \in Nat
    BY DEF TreeState, TypeOK
<1>4. i < k
    <2> SUFFICES ASSUME k <= i PROVE FALSE
        BY <1>1, <1>3
    <2>1. k \in 1..i /\ k \in DOMAIN features'
        BY <1>1, <1>3 DEF TreeState, TypeOK
    <2>2. features'[k].id = features'[j].id
        BY <1>1, <1>2, <2>1
    <2>3. k = j
        BY <2>1, <2>2 DEF TreeState, MapsFollowList
    <2> QED BY <1>1, <1>3, <2>1, <2>3
<1>5. OwnIdentity(i) <= allocatorSnapshotsBefore[features[k].id]
    BY <1>1, <1>2, <1>4 DEF Restorable
<1> QED BY <1>1, <1>2, <1>5

LEMMA SnapshotsOnlyShrink ==
    ASSUME Edit \/ StartReplay
    PROVE  /\ DOMAIN allocatorSnapshotsBefore' \subseteq DOMAIN allocatorSnapshotsBefore
           /\ \A id \in DOMAIN allocatorSnapshotsBefore' :
                  allocatorSnapshotsBefore'[id] = allocatorSnapshotsBefore[id]
<1>1. CASE Edit
    <2>1. ASSUME NEW i \in DOMAIN features, RemoveFeature(i)
          PROVE  allocatorSnapshotsBefore' = Erase(allocatorSnapshotsBefore, features[i].id)
        BY <2>1 DEF RemoveFeature
    <2> QED BY <1>1, <2>1 DEF Edit, AddFeature, InsertFeature, UpdateParameter, SuppressFeature, MoveFeature,
                              ReplaceReference, Erase, Restrict
<1>2. CASE StartReplay
    BY <1>2 DEF StartReplay, Replay, ReplayFromFirst, ReplayFromSnapshot, ReplayFromUnknown, EmptyMap
<1> QED BY <1>1, <1>2

(* A feature that runs owns the identity it asked for. *)
LEMMA ExecutedOwns ==
    ASSUME NEW f, NEW val, NEW base \in Shapes, NEW uses, NEW identity \in Nat
    PROVE  Last(ExecutedShape(f, val, base, uses, identity).ids) = identity
<1>1. base.ids \in Seq(Nat)
    BY DEF Shapes
<1>2. Last(<<identity>>) = identity /\ Last(Append(base.ids, identity)) = identity
    BY <1>1 DEF Last
<1> QED BY <1>2 DEF ExecutedShape

(* A step between replays, or one that starts a replay. *)
LEMMA StepsKeepIdentities ==
    ASSUME TreeState, TreeState', LoopInList, IdentityInv, Edit \/ StartReplay
    PROVE  IdentityInv'
<1>1. Idle
    BY StartReplaySteps DEF Edit, AddFeature, InsertFeature, RemoveFeature, UpdateParameter,
           SuppressFeature, MoveFeature, ReplaceReference, Editing
<1>2. PrefixKept
    <2>1. ~TurnStep
        BY <1>1, TurnCases DEF Looping
    <2> QED BY <2>1, StepsKeepPrefix DEF Next
<1>3. ASSUME NEW i \in DOMAIN features', Succeeded(i)'
      PROVE  /\ i \in DOMAIN features /\ i \in Nat /\ Succeeded(i)
             /\ OwnIdentity(i)' = OwnIdentity(i)
    BY <1>2, <1>3, PrefixKeepsOwn
<1>4. OwnsOne'
    BY <1>3 DEF IdentityInv, OwnsOne
<1>5. Ascending'
    BY <1>3 DEF IdentityInv, Ascending
<1>6. Restorable'
    BY <1>1, <1>2, SnapshotsStayAbove, SnapshotsOnlyShrink DEF IdentityInv, Restorable
<1>7. CounterAbove'
    <2>1. CASE Edit
        BY <2>1 DEF CounterAbove, Idle, Edit, AddFeature, InsertFeature, RemoveFeature, UpdateParameter,
                    SuppressFeature, MoveFeature, ReplaceReference, Editing, loop
    <2>2. ASSUME pos' = 1 PROVE CounterAbove'
        <3>1. \A i \in DOMAIN features' : i \in Nat /\ ~(i < 1)
            BY DEF TreeState, TypeOK
        <3> QED BY <2>2, <3>1 DEF CounterAbove
    <2>3. ASSUME NEW start \in DOMAIN features, ReplayFromSnapshot(start) PROVE CounterAbove'
        <3>1. /\ pos' = start /\ features' = features
              /\ features[start].id \in DOMAIN allocatorSnapshotsBefore
              /\ counter' = allocatorSnapshotsBefore[features[start].id]
            BY <2>3 DEF ReplayFromSnapshot, EnterLoop
        <3> SUFFICES ASSUME NEW i \in DOMAIN features', i < start, Succeeded(i)'
                     PROVE  OwnIdentity(i)' <= counter'
            BY <3>1 DEF CounterAbove
        <3>2. /\ i \in DOMAIN features /\ Succeeded(i) /\ OwnIdentity(i)' = OwnIdentity(i)
            BY <1>3
        <3> QED BY <1>1, <3>1, <3>2 DEF IdentityInv, Restorable
    <2>4. CASE StartReplay
        BY <2>2, <2>3, <2>4 DEF StartReplay, Replay, ReplayFromFirst, ReplayFromUnknown, EnterLoop
    <2> QED BY <2>1, <2>4
<1> QED BY <1>4, <1>5, <1>6, <1>7 DEF IdentityInv

(* A turn of the loop gives its feature an identity above those in use. *)
LEMMA TurnKeepsIdentities ==
    ASSUME TreeState, TreeState', LoopInList, LoopInList', Looping, IdentityInv,
           NEW status, NEW shape, NEW allocated \in Nat, TurnOfLoop(status, shape, allocated),
           status = "OK" => allocated = 1 /\ Last(shape.ids) = counter + 1
    PROVE  IdentityInv'
<1>0. /\ DOMAIN features' = DOMAIN features /\ pos \in DOMAIN features /\ pos \in Nat
      /\ pos' = pos + 1 /\ ~Idle /\ ~Idle'
      /\ features'[pos].status = status /\ cache'[features'[pos].id] = shape
      /\ \A j \in DOMAIN features : features'[j].id = features[j].id
    <2>1. /\ pos' = pos + 1 /\ phase' = phase /\ cache'[features[pos].id] = shape
          /\ \A j \in DOMAIN features : features'[j].id = features[j].id
        BY TurnFacts
    <2>2. DOMAIN features' = DOMAIN features /\ pos \in DOMAIN features /\ features'[pos].status = status
        BY TurnFacts
    <2>3. pos \in Nat
        BY <2>2, ListFacts
    <2> QED BY <2>1, <2>2, <2>3 DEF Looping, Idle
<1>1. /\ counter \in Nat /\ counter' = counter + allocated
      /\ allocatorSnapshotsBefore'[features[pos].id] = counter
      /\ \A j \in DOMAIN features : j # pos =>
            /\ features[j].id \in DOMAIN allocatorSnapshotsBefore'
                 => features[j].id \in DOMAIN allocatorSnapshotsBefore
            /\ allocatorSnapshotsBefore'[features[j].id] = allocatorSnapshotsBefore[features[j].id]
               \/ features[j].id \notin DOMAIN allocatorSnapshotsBefore
    <2>1. \A j \in DOMAIN features : j # pos => features[j].id # features[pos].id
        BY <1>0, ListFacts
    <2> QED BY <2>1 DEF TurnOfLoop, Put, TreeState, TypeOK
<1>2. ASSUME NEW i \in DOMAIN features', Succeeded(i)', i # pos
      PROVE  /\ i \in DOMAIN features /\ i \in Nat /\ i < pos /\ Succeeded(i)
             /\ OwnIdentity(i)' = OwnIdentity(i)
             /\ OwnIdentity(i) \in Nat /\ OwnIdentity(i) <= counter
    <2>1. /\ i \in 1..pos
          /\ i < pos => CleanUpTo(i)
          /\ \A j \in 1..i : j # pos => /\ features'[j] = features[j]
                                        /\ cache'[features[j].id] = cache[features[j].id]
        <3>1. CleanUpTo(i)'
            BY <1>2 DEF Succeeded
        <3> QED BY <1>2, <3>1, TurnKeepsPrefix
    <2>2. i \in Nat /\ i < pos /\ i \in DOMAIN features /\ i \in 1..i
        BY <1>0, <1>2, <2>1
    <2>3. features'[i] = features[i] /\ cache'[features[i].id] = cache[features[i].id]
        BY <1>2, <2>1, <2>2
    <2>4. Succeeded(i)
        BY <1>2, <2>1, <2>2, <2>3 DEF Succeeded
    <2>5. OwnIdentity(i)' = OwnIdentity(i)
        BY <2>3 DEF OwnIdentity
    <2> QED BY <1>0, <2>2, <2>4, <2>5 DEF IdentityInv, OwnsOne, CounterAbove
<1>3. ASSUME NEW i \in DOMAIN features', Succeeded(i)', i = pos
      PROVE  OwnIdentity(i)' = counter + 1 /\ counter' = counter + 1
    BY <1>0, <1>1, <1>3 DEF Succeeded, OwnIdentity
<1>4. ASSUME NEW i \in DOMAIN features' PROVE i \in DOMAIN features /\ i \in Nat
    BY <1>0, <1>4, ListFacts
<1>5. OwnsOne'
    BY <1>1, <1>2, <1>3 DEF OwnsOne
<1>6. Restorable'
    <2> SUFFICES ASSUME NEW i \in DOMAIN features', NEW j \in DOMAIN features', i < j, Succeeded(i)',
                        features'[j].id \in DOMAIN allocatorSnapshotsBefore', j < pos'
                 PROVE  OwnIdentity(i)' <= allocatorSnapshotsBefore'[features'[j].id]
        BY <1>0 DEF Restorable
    <2>1. j <= pos /\ i # pos /\ j \in Nat /\ i \in Nat
        BY <1>0, <1>4
    <2>2. /\ i \in DOMAIN features /\ Succeeded(i) /\ OwnIdentity(i)' = OwnIdentity(i)
          /\ OwnIdentity(i) <= counter
        BY <1>2, <2>1
    <2>3. features'[j].id = features[j].id /\ j \in DOMAIN features
        BY <1>0
    <2>4. CASE j = pos
        BY <1>1, <2>2, <2>3, <2>4
    <2>5. CASE j # pos
        <3>1. j < pos /\ features[j].id \in DOMAIN allocatorSnapshotsBefore
              /\ allocatorSnapshotsBefore'[features[j].id] = allocatorSnapshotsBefore[features[j].id]
            BY <1>0, <1>1, <2>1, <2>3, <2>5
        <3> QED BY <2>2, <2>3, <3>1 DEF IdentityInv, Restorable
    <2> QED BY <2>4, <2>5
<1>7. CounterAbove'
    <2> SUFFICES ASSUME NEW i \in DOMAIN features', Succeeded(i)'
                 PROVE  OwnIdentity(i)' <= counter'
        BY DEF CounterAbove
    <2> QED BY <1>1, <1>2, <1>3
<1>8. Ascending'
    <2> SUFFICES ASSUME NEW i \in DOMAIN features', NEW j \in DOMAIN features', i < j,
                        Succeeded(i)', Succeeded(j)'
                 PROVE  OwnIdentity(i)' < OwnIdentity(j)'
        BY DEF Ascending
    <2>1. i \in Nat /\ j \in Nat
        BY <1>4
    <2>2. CASE j # pos
        BY <1>0, <1>2, <2>1, <2>2 DEF IdentityInv, Ascending
    <2>3. CASE j = pos
        <3>1. OwnIdentity(j)' = counter + 1
            BY <1>3, <2>3
        <3>2. OwnIdentity(i)' \in Nat /\ OwnIdentity(i)' <= counter
            BY <1>0, <1>2, <2>1, <2>3
        <3> QED BY <1>1, <3>1, <3>2
    <2> QED BY <2>2, <2>3
<1> QED BY <1>5, <1>6, <1>7, <1>8 DEF IdentityInv

LEMMA IdentityAlways ==
    ASSUME Aborts = FALSE
    PROVE  Spec => []IdentityInv
<1>1. Init => IdentityInv
    BY DEF Init, Idle, IdentityInv, OwnsOne, Restorable, CounterAbove, Ascending
<1>2. ASSUME TreeState, TreeState', LoopInList, LoopInList', IdentityInv, [Next]_vars
      PROVE  IdentityInv'
    <2>1. CASE Edit \/ StartReplay
        BY <1>2, <2>1, StepsKeepIdentities
    <2>2. CASE TurnStep
        <3> DEFINE f == features[pos]
                   made == ExecutedShape(f, EffectiveValue(f, featureTransformer), currentShape,
                                         ReferencedOps(f), counter + 1)
        <3>1. Last(made.ids) = counter + 1
            <4>1. currentShape \in Shapes /\ counter + 1 \in Nat
                BY <1>2 DEF TreeState, TypeOK
            <4> QED BY <4>1, ExecutedOwns
        <3>2. Looping
            BY <2>2, TurnCases
        <3>3. \/ \E status \in Broken \cup {"Suppressed"} : TurnOfLoop(status, currentShape, 0)
              \/ TurnOfLoop("OK", made, 1)
            <4> HIDE DEF made
            <4> QED BY <2>2, TurnCases DEF made
        <3>4. \A status \in Broken \cup {"Suppressed"} : status # "OK"
            BY DEF Broken
        <3> HIDE DEF made
        <3> QED BY <1>2, <3>1, <3>2, <3>3, <3>4, TurnKeepsIdentities
    <2>3. CASE Return
        <3>1. /\ features' = features /\ Idle' /\ ~Idle /\ pos > Len(features)
              /\ UNCHANGED <<cache, dirty, allocatorSnapshotsBefore>>
            BY <2>3 DEF Return, Idle, maps
        <3>2. \A j \in DOMAIN features : j < pos
            <4>1. pos \in Nat
                BY <1>2 DEF TreeState, TypeOK
            <4> QED BY <1>2, <3>1, <4>1, ListFacts
        <3> QED BY <1>2, <3>1, <3>2 DEF IdentityInv, OwnsOne, Restorable, CounterAbove, Ascending,
                                        Succeeded, CleanUpTo, OwnIdentity
    <2>4. CASE UNCHANGED <<features, maps, counter, loop>>
        BY <1>2, <2>4 DEF IdentityInv, OwnsOne, Restorable, CounterAbove, Ascending, Succeeded, CleanUpTo,
                          OwnIdentity, maps, loop, Idle
    <2>5. ~Abort
        BY DEF Abort
    <2> QED BY <1>2, <2>1, <2>2, <2>3, <2>4, <2>5
          DEF Next, ReplayStep, TurnStep, SetRollbackIndex, SetFeatureTransformer, vars
<1>3. TreeState /\ TreeState' /\ LoopInList /\ LoopInList' /\ IdentityInv /\ [Next]_vars => IdentityInv'
    BY <1>2
<1> QED BY <1>1, <1>3, TreeStateAlways, LoopAlwaysInList, PTL DEF Spec

(* What the runs check as IdentitiesDistinct: as long as replays return,   *)
(* two up-to-date features never own the same identity, and the later one  *)
(* owns the larger, whatever edits and restored snapshots came before.     *)
THEOREM IdentitiesAlwaysDistinct ==
    ASSUME Aborts = FALSE
    PROVE  Spec => []IdentitiesDistinct
<1>1. TreeState /\ IdentityInv => IdentitiesDistinct
    <2> SUFFICES ASSUME TreeState, IdentityInv, NEW i \in DOMAIN features, NEW j \in DOMAIN features,
                        i < j, CleanUpTo(j), features[i].status = "OK", features[j].status = "OK"
                 PROVE  OwnIdentity(i) < OwnIdentity(j)
        BY DEF IdentitiesDistinct
    <2>1. CleanUpTo(i)
        <3>1. \A k \in 1..i : k \in 1..j
            BY ListFacts
        <3> QED BY <3>1 DEF CleanUpTo
    <2> QED BY <2>1 DEF IdentityInv, Ascending, Succeeded
<1> QED BY <1>1, TreeStateAlways, IdentityAlways, PTL

-----------------------------------------------------------------------------
(* What a replay returns *)

(* The shape it works on at its end is the one getFinalShape finds. *)
LEMMA ReturnsFinal ==
    ASSUME TreeState, LoopInList, CleanPassesOn, WorksOnBase
    PROVE  ReturnsFinalShape
<1> SUFFICES ASSUME Returning, AllClean PROVE currentShape = FinalShape
    BY DEF ReturnsFinalShape
<1> DEFINE cached == {i \in DOMAIN features : /\ features[i].id \in DOMAIN cache
                                              /\ ~IsNull(cache[features[i].id])}
           n == Len(features)
<1>1. n \in Nat /\ DOMAIN features = 1..n /\ CleanUpTo(n)
    BY ListFacts DEF AllClean
<1>2. currentShape = Base(n + 1)
    <2>1. pos = n + 1 /\ pos - 1 = n /\ ~Idle
        BY <1>1 DEF Returning, LoopInList, TreeState, TypeOK
    <2> QED BY <1>1, <2>1 DEF WorksOnBase
<1>3. ASSUME NEW k \in (1..n) \ cached PROVE features[k].status # "OK"
    <2>1. CleanUpTo(k) /\ k \in DOMAIN features /\ ~dirty[features[k].id]
        BY <1>1 DEF CleanUpTo
    <2>2. features[k].id \in DOMAIN cache
        BY <2>1, ListFacts DEF TreeState, CleanIsCached
    <2> QED BY <2>1, <2>2 DEF CleanPassesOn, PassesOn
<1> HIDE DEF cached, n
<1>4. cached \in SUBSET (1..n) /\ n <= Len(features)
    BY <1>1 DEF cached, n
<1>5. /\ cached = {} => Base(n + 1) = NullShape
      /\ cached # {} => Base(n + 1) = cache[features[CHOOSE i \in cached : \A j \in cached : j <= i].id]
    BY <1>1, <1>3, <1>4, LastOwnShape
<1> QED BY <1>2, <1>5 DEF FinalShape, cached

(* A shape that owes nothing to features other than S. *)
MadeFrom(shape, S) ==
    \A op \in Range(shape.geo) : {op.by} \cup {used[1] : used \in op.on} \subseteq S

(* In a full replay a shape owes nothing to features the loop has not run. *)
FullReplaying == phase \in {"replay", "replayToRollback"}

MadeInOrder ==
    FullReplaying =>
        /\ DOMAIN cache \subseteq IdsIn(features, 1, pos - 1)
        /\ MadeFrom(currentShape, IdsIn(features, 1, pos - 1))
        /\ \A i \in DOMAIN features :
              i < pos => /\ features[i].id \in DOMAIN cache
                         /\ MadeFrom(cache[features[i].id], IdsIn(features, 1, i))

LEMMA IdsInGrow ==
    ASSUME NEW list \in Seq(Features), NEW i \in Int, NEW j \in Int, i <= j
    PROVE  IdsIn(list, 1, i) \subseteq IdsIn(list, 1, j)
<1>1. \A k \in DOMAIN list : k \in Int
    OBVIOUS
<1> QED BY <1>1 DEF IdsIn

LEMMA SameIdsIn ==
    ASSUME NEW list, NEW other, DOMAIN other = DOMAIN list,
           \A k \in DOMAIN list : other[k].id = list[k].id
    PROVE  \A lo, hi : IdsIn(other, lo, hi) = IdsIn(list, lo, hi)
  BY DEF IdsIn

LEMMA MadeFromMore ==
    ASSUME NEW shape, NEW S, NEW T, MadeFrom(shape, S), S \subseteq T
    PROVE  MadeFrom(shape, T)
  BY DEF MadeFrom

LEMMA UsesMadeFrom ==
    ASSUME NEW shape, NEW S, MadeFrom(shape, S)
    PROVE  \A used \in Uses(shape) : used[1] \in S
<1>1. ASSUME NEW op \in Range(shape.geo) PROVE <<op.by, op.val>>[1] \in S
    BY DEF MadeFrom
<1> QED BY <1>1 DEF Uses

(* A successful execution adds its own operation to those of its base.     *)
LEMMA ExecutedOps ==
    ASSUME NEW f, NEW val, NEW base \in Shapes, NEW uses, NEW identity,
           NEW x \in Range(ExecutedShape(f, val, base, uses, identity).geo)
    PROVE  x = [by |-> f.id, val |-> val, on |-> uses] \/ x \in Range(base.geo)
<1> DEFINE op == [by |-> f.id, val |-> val, on |-> uses]
           geo == ExecutedGeo(f, val, base, uses)
<1>0. x \in Range(geo)
    BY DEF ExecutedShape
<1>1. CASE f.kind = "Make"
    BY <1>0, <1>1 DEF ExecutedGeo, Range
<1>2. CASE f.kind # "Make"
    <2>1. geo = Append(base.geo, op) /\ base.geo \in Seq(Operations)
        BY <1>2 DEF ExecutedGeo, Shapes
    <2> HIDE DEF op, geo
    <2>2. PICK k \in DOMAIN geo : x = geo[k]
        BY <1>0 DEF Range
    <2>3. (k \in DOMAIN base.geo /\ geo[k] = base.geo[k]) \/ geo[k] = op
        BY <2>1, <2>2
    <2> QED BY <2>2, <2>3 DEF Range, op
<1> QED BY <1>1, <1>2

LEMMA ExecutedMadeFrom ==
    ASSUME NEW f, NEW val, NEW base \in Shapes, NEW uses, NEW identity, NEW S,
           MadeFrom(base, S), f.id \in S, \A used \in uses : used[1] \in S
    PROVE  MadeFrom(ExecutedShape(f, val, base, uses, identity), S)
<1> DEFINE op == [by |-> f.id, val |-> val, on |-> uses]
<1>1. {op.by} \cup {used[1] : used \in op.on} \subseteq S
    OBVIOUS
<1>2. \A x \in Range(ExecutedShape(f, val, base, uses, identity).geo) : x = op \/ x \in Range(base.geo)
    BY ExecutedOps
<1> HIDE DEF op
<1> QED BY <1>1, <1>2 DEF MadeFrom

LEMMA TurnMakesInOrder ==
    ASSUME TreeState, TreeState', LoopInList, MadeInOrder, TurnStep
    PROVE  MadeInOrder'
<1> DEFINE before == IdsIn(features, 1, pos - 1)
           upto == IdsIn(features, 1, pos)
           f == features[pos]
<1> SUFFICES ASSUME FullReplaying'
             PROVE  /\ DOMAIN cache' \subseteq IdsIn(features', 1, pos' - 1)
                    /\ MadeFrom(currentShape', IdsIn(features', 1, pos' - 1))
                    /\ \A i \in DOMAIN features' :
                          i < pos' => /\ features'[i].id \in DOMAIN cache'
                                      /\ MadeFrom(cache'[features'[i].id], IdsIn(features', 1, i))
    BY DEF MadeInOrder
<1>1. PICK status, shape, allocated :
         /\ TurnOfLoop(status, shape, allocated)
         /\ \/ shape = currentShape
            \/ /\ Resolves(f)
               /\ \E val : shape = ExecutedShape(f, val, currentShape, ReferencedOps(f), counter + 1)
    <2>1. \A val, base, resolves : ExecutedStatus(f, val, base, resolves) = "OK" => resolves
        BY DEF ExecutedStatus
    <2> QED BY <2>1, TurnCases
<1>2. /\ DOMAIN features' = DOMAIN features /\ pos \in DOMAIN features
      /\ pos' = pos + 1 /\ phase' = phase /\ currentShape' = shape
      /\ cache'[f.id] = shape
      /\ \A j \in DOMAIN features : features'[j].id = features[j].id
    BY <1>1, TurnCases, TurnFacts, ZenonT(40)
<1>3. \A j \in DOMAIN features : j # pos /\ features[j].id \in DOMAIN cache
                                    => cache'[features[j].id] = cache[features[j].id]
    BY <1>1, TurnCases, TurnFacts
<1>4. pos \in Nat /\ pos' - 1 = pos /\ DOMAIN features \subseteq Nat /\ features \in Seq(Features)
    BY <1>2 DEF TreeState, TypeOK
<1>5. before \subseteq upto /\ f.id \in upto
    <2>1. before \subseteq upto
        BY <1>4, IdsInGrow
    <2>2. pos \in {j \in DOMAIN features : 1 <= j /\ j <= pos}
        BY <1>2, ListFacts
    <2> QED BY <2>1, <2>2 DEF IdsIn
<1>6. /\ DOMAIN cache \subseteq before
      /\ MadeFrom(currentShape, before)
      /\ \A i \in DOMAIN features :
            i < pos => /\ features[i].id \in DOMAIN cache
                       /\ MadeFrom(cache[features[i].id], IdsIn(features, 1, i))
    BY <1>2 DEF FullReplaying, MadeInOrder
<1>7. DOMAIN cache' \subseteq upto
    <2>1. DOMAIN cache' = DOMAIN cache \cup {f.id}
        BY <1>1 DEF TurnOfLoop, Put
    <2> QED BY <1>5, <1>6, <2>1
<1>8. MadeFrom(shape, upto)
    <2>1. MadeFrom(currentShape, upto)
        BY <1>5, <1>6, MadeFromMore
    <2>2. ASSUME Resolves(f) PROVE \A used \in ReferencedOps(f) : used[1] \in upto
        <3>1. CASE f.ref = NoRef
            BY <3>1 DEF ReferencedOps
        <3>2. CASE f.ref # NoRef
            <4>1. f.ref \in before
                BY <1>6, <2>2, <3>2 DEF Resolves, ResolvesIn
            <4>2. PICK k \in DOMAIN features : k <= pos - 1 /\ f.ref = features[k].id
                BY <4>1 DEF IdsIn
            <4>3. MadeFrom(cache[f.ref], IdsIn(features, 1, k)) /\ IdsIn(features, 1, k) \subseteq upto
                <5>1. k \in Int /\ k < pos /\ k <= pos
                    BY <1>4, <4>2
                <5>2. IdsIn(features, 1, k) \subseteq upto
                    BY <1>4, <5>1, IdsInGrow
                <5> QED BY <1>6, <4>2, <5>1, <5>2
            <4>4. MadeFrom(cache[f.ref], upto)
                BY <4>3, MadeFromMore
            <4> QED BY <3>2, <4>4, UsesMadeFrom DEF ReferencedOps
        <3> QED BY <3>1, <3>2
    <2>3. currentShape \in Shapes
        BY DEF TreeState, TypeOK
    <2> HIDE DEF upto, before, f
    <2> QED BY <1>1, <1>5, <2>1, <2>2, <2>3, ExecutedMadeFrom
<1>9. ASSUME NEW i \in DOMAIN features, i < pos + 1
      PROVE  /\ features[i].id \in DOMAIN cache'
             /\ MadeFrom(cache'[features[i].id], IdsIn(features, 1, i))
    <2>0. DOMAIN cache' = DOMAIN cache \cup {f.id}
        BY <1>1 DEF TurnOfLoop, Put
    <2>1. CASE i = pos
        BY <1>2, <1>8, <2>0, <2>1
    <2>2. CASE i # pos
        <3>1. i < pos
            BY <1>4, <1>9, <2>2
        <3> QED BY <1>3, <1>6, <2>0, <2>2, <3>1
    <2> QED BY <2>1, <2>2
<1>10. \A lo, hi : IdsIn(features', lo, hi) = IdsIn(features, lo, hi)
    BY <1>2, SameIdsIn
<1> HIDE DEF f, before, upto
<1> QED BY <1>2, <1>4, <1>7, <1>8, <1>9, <1>10 DEF upto

LEMMA NextMakesInOrder ==
    ASSUME TreeState, TreeState', LoopInList, MadeInOrder, [Next]_vars
    PROVE  MadeInOrder'
<1>1. CASE TurnStep
    BY <1>1, TurnMakesInOrder
<1>2. CASE Edit \/ Return \/ Abort
    <2>1. phase' = "idle"
        BY <1>2 DEF Edit, AddFeature, InsertFeature, RemoveFeature, UpdateParameter, SuppressFeature,
                    MoveFeature, ReplaceReference, Editing, Idle, loop, Return, Abort
    <2> QED BY <2>1 DEF MadeInOrder, FullReplaying
<1>3. CASE StartReplay
    <2>1. ASSUME FullReplaying'
          PROVE  /\ pos' = 1 /\ cache' = EmptyMap /\ currentShape' = NullShape
        BY <1>3, <2>1 DEF StartReplay, Replay, ReplayFromFirst, ReplayFromSnapshot, ReplayFromUnknown,
                          EnterLoop, FullReplaying
    <2>2. DOMAIN EmptyMap = {} /\ \A S : MadeFrom(NullShape, S)
        BY DEF EmptyMap, MadeFrom, NullShape, Range
    <2>3. \A i \in DOMAIN features' : ~(i < 1)
        BY DEF TreeState, TypeOK
    <2> QED BY <2>1, <2>2, <2>3 DEF MadeInOrder
<1>4. CASE UNCHANGED <<features, cache, loop>>
    BY <1>4 DEF MadeInOrder, FullReplaying, loop
<1> QED BY <1>1, <1>2, <1>3, <1>4
      DEF Next, ReplayStep, TurnStep, SetRollbackIndex, SetFeatureTransformer, vars, maps

LEMMA OrderAlways == Spec => []MadeInOrder
<1>1. Init => MadeInOrder
    BY DEF Init, FullReplaying, MadeInOrder
<1>2. TreeState /\ TreeState' /\ LoopInList /\ MadeInOrder /\ [Next]_vars => MadeInOrder'
    BY NextMakesInOrder
<1> QED BY <1>1, <1>2, TreeStateAlways, LoopAlwaysInList, PTL DEF Spec

LEMMA RollbackHides ==
    ASSUME TreeState, LoopInList, MadeInOrder
    PROVE  RollbackHidesLaterFeatures
<1> SUFFICES ASSUME Returning, phase = "replayToRollback", rollbackIndex \in DOMAIN features
             PROVE  MadeFrom(RollbackShape, IdsIn(features, 1, rollbackIndex))
    BY DEF RollbackHidesLaterFeatures, MadeFrom
<1>1. rollbackIndex # 0 /\ ~(rollbackIndex > Len(features)) /\ rollbackIndex < pos
    BY ListFacts DEF Returning, TreeState, TypeOK
<1>2. RollbackShape = cache[features[rollbackIndex].id]
    BY <1>1 DEF RollbackShape
<1> QED BY <1>1, <1>2 DEF MadeInOrder, FullReplaying

-----------------------------------------------------------------------------
(* A full replay against the reference *)

(* The reference is what any function that takes its steps computes. *)
LEMMA FullReplayIs ==
    ASSUME NEW list, Len(list) \in Nat, NEW transformer, NEW g,
           g[0] = Nothing,
           \A n \in 1..Len(list) : g[n] = Replayed(list, transformer, g[n - 1], list[n])
    PROVE  /\ DOMAIN FullReplay(list, transformer) = 1..Len(list)
           /\ \A n \in 1..Len(list) : FullReplay(list, transformer)[n] = g[n]
<1> DEFINE solves(h) == h = [n \in 0..Len(list) |->
                  IF n = 0 THEN Nothing ELSE Replayed(list, transformer, h[n - 1], list[n])]
           known == [n \in 0..Len(list) |-> g[n]]
           after == CHOOSE h : solves(h)
<1>0. solves(known)
    <2>1. ASSUME NEW n \in 0..Len(list)
          PROVE  g[n] = IF n = 0 THEN Nothing ELSE Replayed(list, transformer, known[n - 1], list[n])
        <3>1. CASE n = 0
            BY <3>1
        <3>2. CASE n # 0
            <4>1. n \in 1..Len(list) /\ n - 1 \in 0..Len(list)
                BY <3>2
            <4> QED BY <3>2, <4>1
        <3> QED BY <3>1, <3>2
    <2> QED BY <2>1
<1>1. solves(after)
    <2> HIDE DEF solves
    <2> QED BY <1>0
<1> HIDE DEF after
<1>2. \A n \in 0..Len(list) : after[n] = g[n]
    <2> DEFINE S == {n \in 0..Len(list) : after[n] # g[n]}
    <2> SUFFICES ASSUME S # {} PROVE FALSE
        OBVIOUS
    <2>1. PICK n \in S : \A m \in S : n <= m
        <3>1. S \subseteq Nat
            OBVIOUS
        <3> HIDE DEF S
        <3> QED BY <3>1, LeastExists
    <2>2. n \in 0..Len(list) /\ after[n] # g[n]
        OBVIOUS
    <2>3. n # 0
        BY <1>1, <2>2
    <2>4. n - 1 \in 0..Len(list) /\ n - 1 \notin S /\ n \in 1..Len(list)
        BY <2>1, <2>2, <2>3
    <2>5. after[n - 1] = g[n - 1]
        BY <2>4
    <2>6. after[n] = Replayed(list, transformer, after[n - 1], list[n])
        BY <1>1, <2>2, <2>3
    <2> QED BY <2>2, <2>4, <2>5, <2>6
<1>3. FullReplay(list, transformer) = [n \in 1..Len(list) |-> after[n]]
    BY DEF FullReplay, after
<1> QED BY <1>2, <1>3

(* The reference does not look at the statuses of the list it replays. *)
LEMMA ReplayedIgnoresStatus ==
    ASSUME NEW list, NEW other, DOMAIN other = DOMAIN list,
           \A k \in DOMAIN list : SameButStatus(other[k], list[k]),
           NEW t, NEW prev, NEW f, NEW g, SameButStatus(g, f)
    PROVE  Replayed(other, t, prev, g) = Replayed(list, t, prev, f)
<1>1. \A shapes, ref : ResolvesIn(other, shapes, ref) <=> ResolvesIn(list, shapes, ref)
    BY DEF ResolvesIn, SameButStatus
<1>2. PICK val : val = EffectiveValue(f, t) /\ val = EffectiveValue(g, t)
    BY DEF EffectiveValue, SameButStatus
<1>3. ASSUME NEW p, NEW q, p <=> q
      PROVE  \A base : ExecutedStatus(g, val, base, p) = ExecutedStatus(f, val, base, q)
    BY <1>3 DEF ExecutedStatus, SameButStatus
<1>4. \A base : ExecutedStatus(g, val, base, g.ref = NoRef \/ ResolvesIn(other, prev.shapes, g.ref))
                = ExecutedStatus(f, val, base, f.ref = NoRef \/ ResolvesIn(list, prev.shapes, f.ref))
    <2>1. (g.ref = NoRef \/ ResolvesIn(other, prev.shapes, g.ref))
          <=> (f.ref = NoRef \/ ResolvesIn(list, prev.shapes, f.ref))
        BY <1>1 DEF SameButStatus
    <2> QED BY <1>3, <2>1
<1>5. \A base, uses, identity :
          ExecutedShape(g, val, base, uses, identity) = ExecutedShape(f, val, base, uses, identity)
    BY DEF ExecutedShape, ExecutedGeo, SameButStatus
<1>6. g.ref = f.ref /\ g.id = f.id /\ g.suppressed = f.suppressed
    BY DEF SameButStatus
<1> QED BY <1>2, <1>4, <1>5, <1>6 DEF Replayed

(* What is known after feature f when it leaves this shape and status. *)
KnownAfter(prev, f, shape, status, count) ==
    [shape |-> shape, status |-> status, counter |-> count,
     shapes |-> [x \in DOMAIN prev.shapes \cup {f.id} |->
                     IF x = f.id THEN shape ELSE prev.shapes[x]]]

(* The three outcomes of a feature in the reference. *)
LEMMA ReplayedCases ==
    ASSUME NEW list, NEW t, NEW prev, NEW f, NEW val, val = EffectiveValue(f, t),
           f.suppressed \/ val # Unbound, NEW status, NEW made,
           status = ExecutedStatus(f, val, prev.shape,
                                   f.ref = NoRef \/ ResolvesIn(list, prev.shapes, f.ref)),
           made = ExecutedShape(f, val, prev.shape,
                                IF f.ref = NoRef THEN {} ELSE Uses(prev.shapes[f.ref]), prev.counter + 1)
    PROVE  Replayed(list, t, prev, f) =
               IF f.suppressed THEN KnownAfter(prev, f, prev.shape, "Suppressed", prev.counter)
               ELSE IF status = "OK" THEN KnownAfter(prev, f, made, "OK", prev.counter + 1)
               ELSE KnownAfter(prev, f, prev.shape, status, prev.counter)
<1>1. CASE f.suppressed
    BY <1>1 DEF Replayed, KnownAfter
<1>2. CASE ~f.suppressed
    BY <1>2 DEF Replayed, KnownAfter
<1> QED BY <1>1, <1>2

(* What a full replay knows after feature i, as the reference has it. *)
Known(i) ==
    IF i = 0 THEN Nothing
    ELSE [shape   |-> cache[features[i].id],
          status  |-> features[i].status,
          counter |-> IF i + 1 < pos THEN allocatorSnapshotsBefore[features[i + 1].id] ELSE counter,
          shapes  |-> [x \in IdsIn(features, 1, i) |-> cache[x]]]

(* A transformer keeps a feature that once failed from running again; the  *)
(* reference runs every feature.                                           *)
Unbroken ==
    \/ featureTransformer = NoTransformer
    \/ \A i \in DOMAIN features : i < pos => features[i].status \notin Broken

(* The loop takes the steps of the reference. *)
FollowsReference ==
    FullReplaying /\ Unbroken =>
        \A i \in Nat :
            /\ i = pos - 1 => currentShape = Known(i).shape /\ counter = Known(i).counter
            /\ i \in 1..(pos - 1) =>
                  /\ features[i].id \in DOMAIN allocatorSnapshotsBefore
                  /\ Known(i) = Replayed(features, featureTransformer, Known(i - 1), features[i])

(* A turn changes nothing of what was known before it. *)
LEMMA TurnKeepsKnown ==
    ASSUME TreeState, TreeState', LoopInList, MadeInOrder, FullReplaying, Looping,
           NEW status, NEW shape, NEW allocated, TurnOfLoop(status, shape, allocated),
           NEW i \in 0..(pos - 1),
           \A j \in 1..(pos - 1) : features[j].id \in DOMAIN allocatorSnapshotsBefore
    PROVE  Known(i)' = Known(i)
<1>0. /\ DOMAIN features' = DOMAIN features /\ pos \in DOMAIN features /\ pos \in Nat /\ pos' = pos + 1
      /\ \A j \in DOMAIN features : j # pos => features'[j] = features[j]
      /\ \A j \in DOMAIN features : features'[j].id = features[j].id
    <2>1. pos \in DOMAIN features /\ pos' = pos + 1
        BY TurnFacts
    <2>2. /\ DOMAIN features' = DOMAIN features
          /\ \A j \in DOMAIN features : j # pos => features'[j] = features[j]
          /\ \A j \in DOMAIN features : features'[j].id = features[j].id
        BY TurnFacts
    <2> QED BY <2>1, <2>2, ListFacts
<1>1. CASE i = 0
    BY <1>1 DEF Known
<1>2. CASE i # 0
    <2>1. i \in DOMAIN features /\ i \in Nat /\ i < pos /\ i + 1 \in DOMAIN features
        BY <1>0, <1>2, ListFacts
    <2>2. IdsIn(features', 1, i) = IdsIn(features, 1, i)
        BY <1>0, SameIdsIn
    <2>3. ASSUME NEW x \in IdsIn(features, 1, i) PROVE cache'[x] = cache[x]
        <3>1. PICK k \in DOMAIN features : k <= i /\ x = features[k].id
            BY DEF IdsIn
        <3>2. k # pos /\ k < pos
            BY <1>0, <2>1, <3>1, ListFacts
        <3>3. features[k].id \in DOMAIN cache
            BY <3>1, <3>2 DEF MadeInOrder
        <3> QED BY <3>1, <3>2, <3>3, TurnFacts
    <2>4. features[i].id \in IdsIn(features, 1, i)
        BY <2>1, ListFacts DEF IdsIn
    <2>5. features'[i] = features[i] /\ cache'[features[i].id] = cache[features[i].id]
        BY <1>0, <2>1, <2>3, <2>4
    <2>6. [x \in IdsIn(features', 1, i) |-> cache'[x]] = [x \in IdsIn(features, 1, i) |-> cache[x]]
        BY <2>2, <2>3
    <2>7. i + 1 < pos' /\ features'[i + 1].id = features[i + 1].id
        BY <1>0, <2>1
    <2>8. CASE i + 1 = pos
        <3>1. allocatorSnapshotsBefore'[features[i + 1].id] = counter
            BY <2>8 DEF TurnOfLoop, Put
        <3> QED BY <1>2, <2>5, <2>6, <2>7, <2>8, <3>1 DEF Known
    <2>9. CASE i + 1 # pos
        <3>1. i + 1 < pos /\ features[i + 1].id # features[pos].id
            BY <1>0, <2>1, <2>9, ListFacts
        <3>2. features[i + 1].id \in DOMAIN allocatorSnapshotsBefore
            BY <1>0, <2>1, <3>1
        <3>3. allocatorSnapshotsBefore'[features[i + 1].id] = allocatorSnapshotsBefore[features[i + 1].id]
            BY <3>1, <3>2 DEF TurnOfLoop, Put
        <3> QED BY <1>2, <2>5, <2>6, <2>7, <3>1, <3>3 DEF Known
    <2> QED BY <2>8, <2>9
<1> QED BY <1>1, <1>2

(* What the loop has before a turn is what the reference has. *)
LEMMA KnownBeforeTurn ==
    ASSUME TreeState, Looping, MadeInOrder, FollowsReference, FullReplaying,
           Unbroken, NEW i \in Nat, i + 1 = pos
    PROVE  /\ Known(i).shape = currentShape /\ Known(i).counter = counter
           /\ DOMAIN Known(i).shapes = IdsIn(features, 1, i)
           /\ DOMAIN cache = IdsIn(features, 1, i)
           /\ \A x \in IdsIn(features, 1, i) : Known(i).shapes[x] = cache[x]
<1>1. i = pos - 1
    OBVIOUS
<1>2. Known(i).shape = currentShape /\ Known(i).counter = counter
    BY <1>1 DEF FollowsReference
<1>3. DOMAIN cache = IdsIn(features, 1, i)
    <2>1. \A k \in DOMAIN features : k <= i => features[k].id \in DOMAIN cache
        <3>1. \A k \in DOMAIN features : k <= i => k < pos
            BY ListFacts
        <3> QED BY <3>1 DEF MadeInOrder
    <2>2. IdsIn(features, 1, i) \subseteq DOMAIN cache
        BY <2>1 DEF IdsIn
    <2> QED BY <1>1, <2>2 DEF MadeInOrder
<1>4. /\ DOMAIN Known(i).shapes = IdsIn(features, 1, i)
      /\ \A x \in IdsIn(features, 1, i) : Known(i).shapes[x] = cache[x]
    <2>1. CASE i = 0
        <3>1. IdsIn(features, 1, 0) = {}
            <4>1. \A k \in DOMAIN features : ~(1 <= k /\ k <= 0)
                BY ListFacts
            <4> QED BY <4>1 DEF IdsIn
        <3> QED BY <2>1, <3>1 DEF Known, Nothing
    <2>2. CASE i # 0
        BY <2>2 DEF Known
    <2> QED BY <2>1, <2>2
<1> QED BY <1>2, <1>3, <1>4

(* What a turn sets of the feature it is about. *)
LEMMA TurnSets ==
    ASSUME TreeState, LoopInList, Looping, NEW status, NEW shape, NEW allocated,
           TurnOfLoop(status, shape, allocated), NEW n, n = pos
    PROVE  /\ features'[n].status = status /\ features'[n].id = features[n].id
           /\ cache'[features[n].id] = shape /\ pos' = pos + 1 /\ currentShape' = shape
<1>1. n \in DOMAIN features
    BY TurnFacts
<1>2. features'[pos].status = status
    BY TurnFacts
<1>5. cache'[features[pos].id] = shape
    BY TurnFacts
<1>3. \A j \in DOMAIN features : features'[j].id = features[j].id
    BY TurnFacts
<1>4. pos' = pos + 1 /\ currentShape' = shape
    BY DEF TurnOfLoop
<1> QED BY <1>1, <1>2, <1>3, <1>4, <1>5

(* A turn adds to what is known what the reference adds. *)
LEMMA TurnAddsReplayed ==
    ASSUME TreeState, TreeState', LoopInList, MadeInOrder, FollowsReference, FullReplaying, TurnStep,
           Unbroken, Unbroken', NEW i \in Nat, i + 1 = pos
    PROVE  /\ currentShape' = Known(i + 1)'.shape /\ counter' = Known(i + 1)'.counter
           /\ Known(i + 1)' = Replayed(features, featureTransformer, Known(i), features[i + 1])
<1> DEFINE f == features[i + 1]
           prev == Known(i)
           val == EffectiveValue(f, featureTransformer)
           resolves == f.ref = NoRef \/ ResolvesIn(features, prev.shapes, f.ref)
           status == ExecutedStatus(f, val, prev.shape, resolves)
           uses == IF f.ref = NoRef THEN {} ELSE Uses(prev.shapes[f.ref])
           made == ExecutedShape(f, val, prev.shape, uses, prev.counter + 1)
<1>0. Looping
    BY TurnCases
<1>1. /\ prev.shape = currentShape /\ prev.counter = counter
      /\ DOMAIN prev.shapes = IdsIn(features, 1, i)
      /\ DOMAIN cache = IdsIn(features, 1, i)
      /\ \A x \in IdsIn(features, 1, i) : prev.shapes[x] = cache[x]
    BY <1>0, KnownBeforeTurn
<1>2. /\ pos \in DOMAIN features /\ f \in Features
      /\ ~f.suppressed => ~TransformerRejects(f) /\ val # Unbound
    <2>1. pos \in DOMAIN features /\ f \in Features
        BY <1>0, ListFacts DEF Looping, TreeState, TypeOK
    <2>2. CASE featureTransformer = NoTransformer
        BY <2>1, <2>2, FeatureAssumption DEF TransformerRejects, EffectiveValue, Features, FeatureAssumption
    <2>3. CASE featureTransformer # NoTransformer
        <3>1. f.suppressed \/ ~TransformerRejects(f)
            <4>1. SUFFICES ASSUME ~f.suppressed, TransformerRejects(f) PROVE FALSE
                OBVIOUS
            <4>2. PICK st \in Broken : TurnOfLoop(st, currentShape, 0)
                BY <4>1, TurnCases
            <4>3. /\ features'[pos].status = st /\ pos \in DOMAIN features' /\ pos' = pos + 1
                BY <1>0, <2>1, <4>2, TurnFacts
            <4>4. featureTransformer' # NoTransformer /\ pos < pos'
                BY <2>3, <4>2, <4>3 DEF TurnOfLoop, marker
            <4> QED BY <4>3, <4>4 DEF Unbroken
        <3>2. ~TransformerRejects(f) => val # Unbound
            BY <2>3 DEF TransformerRejects, TransformedStatus, Broken
        <3> QED BY <2>1, <3>1, <3>2
    <2> QED BY <2>2, <2>3
<1>3. /\ resolves <=> Resolves(f)
      /\ Resolves(f) => uses = ReferencedOps(f)
    BY <1>1 DEF Resolves, ResolvesIn, ReferencedOps
<1>4. /\ status = ExecutedStatus(f, val, currentShape, Resolves(f))
      /\ status = "OK" => made = ExecutedShape(f, val, currentShape, ReferencedOps(f), counter + 1)
    BY <1>1, <1>3 DEF ExecutedStatus
<1>5. ASSUME NEW st, NEW shape, NEW allocated, TurnOfLoop(st, shape, allocated)
      PROVE  /\ Known(i + 1)' = KnownAfter(prev, f, shape, st, counter + allocated)
             /\ currentShape' = shape /\ counter' = counter + allocated
    <2>1. /\ features'[i + 1].status = st /\ features'[i + 1].id = f.id
          /\ cache'[f.id] = shape /\ pos' = pos + 1 /\ currentShape' = shape
        BY <1>0, <1>2, <1>5, TurnSets
    <2>2. counter' = counter + allocated
        BY <1>5 DEF TurnOfLoop
    <2>3. IdsIn(features', 1, i + 1) = IdsIn(features, 1, i) \cup {f.id}
        <3>1. IdsIn(features', 1, i + 1) = IdsIn(features, 1, i + 1)
            <4>1. /\ DOMAIN features' = DOMAIN features
                  /\ \A k \in DOMAIN features : features'[k].id = features[k].id
                BY <1>0, <1>5, TurnFacts
            <4> QED BY <4>1, SameIdsIn
        <3>2. {k \in DOMAIN features : 1 <= k /\ k <= i + 1}
              = {k \in DOMAIN features : 1 <= k /\ k <= i} \cup {i + 1}
            BY <1>2, ListFacts
        <3>3. IdsIn(features, 1, i + 1) = IdsIn(features, 1, i) \cup {f.id}
            BY <3>2 DEF IdsIn
        <3> QED BY <3>1, <3>3
    <2>4. ASSUME NEW x \in IdsIn(features, 1, i) \cup {f.id}
          PROVE  cache'[x] = IF x = f.id THEN shape ELSE prev.shapes[x]
        BY <1>1, <1>5, <2>1 DEF TurnOfLoop, Put
    <2>5. [x \in IdsIn(features', 1, i + 1) |-> cache'[x]]
          = [x \in DOMAIN prev.shapes \cup {f.id} |-> IF x = f.id THEN shape ELSE prev.shapes[x]]
        BY <1>1, <2>3, <2>4
    <2>6. i + 1 # 0 /\ ~((i + 1) + 1 < pos')
        BY <2>1
    <2>7. Known(i + 1)' = [shape |-> cache'[features'[i + 1].id], status |-> features'[i + 1].status,
                           counter |-> counter',
                           shapes |-> [x \in IdsIn(features', 1, i + 1) |-> cache'[x]]]
        BY <2>6 DEF Known
    <2> QED BY <2>1, <2>2, <2>5, <2>7 DEF KnownAfter
<1>6. Replayed(features, featureTransformer, prev, f) =
          IF f.suppressed THEN KnownAfter(prev, f, prev.shape, "Suppressed", prev.counter)
          ELSE IF status = "OK" THEN KnownAfter(prev, f, made, "OK", prev.counter + 1)
          ELSE KnownAfter(prev, f, prev.shape, status, prev.counter)
    BY <1>2, ReplayedCases
<1>7. PICK st, shape, allocated :
         /\ TurnOfLoop(st, shape, allocated)
         /\ Replayed(features, featureTransformer, prev, f) = KnownAfter(prev, f, shape, st, counter + allocated)
    <2>1. counter + 0 = counter
        BY DEF TreeState, TypeOK
    <2>2. CASE f.suppressed
        <3>1. TurnOfLoop("Suppressed", currentShape, 0)
            BY <2>2, TurnCases
        <3>2. Replayed(features, featureTransformer, prev, f)
              = KnownAfter(prev, f, currentShape, "Suppressed", counter + 0)
            BY <1>1, <1>6, <2>1, <2>2
        <3> QED BY <3>1, <3>2
    <2>3. CASE ~f.suppressed /\ status # "OK"
        <3>1. TurnOfLoop(status, currentShape, 0)
            BY <1>2, <1>4, <2>3, TurnCases
        <3>2. Replayed(features, featureTransformer, prev, f)
              = KnownAfter(prev, f, currentShape, status, counter + 0)
            BY <1>1, <1>6, <2>1, <2>3
        <3> QED BY <3>1, <3>2
    <2>4. CASE ~f.suppressed /\ status = "OK"
        <3>1. TurnOfLoop("OK", made, 1)
            BY <1>2, <1>4, <2>4, TurnCases DEF Broken
        <3>2. Replayed(features, featureTransformer, prev, f) = KnownAfter(prev, f, made, "OK", counter + 1)
            BY <1>1, <1>6, <2>4
        <3> QED BY <3>1, <3>2
    <2> QED BY <2>2, <2>3, <2>4
<1>8. /\ Known(i + 1)' = KnownAfter(prev, f, shape, st, counter + allocated)
      /\ currentShape' = shape /\ counter' = counter + allocated
    BY <1>5, <1>7
<1> QED BY <1>7, <1>8 DEF KnownAfter

LEMMA TurnFollowsReference ==
    ASSUME TreeState, TreeState', LoopInList, MadeInOrder, FollowsReference, TurnStep
    PROVE  FollowsReference'
<1> SUFFICES ASSUME FullReplaying', Unbroken', NEW j \in Nat
             PROVE  /\ j = pos' - 1 => currentShape' = Known(j)'.shape /\ counter' = Known(j)'.counter
                    /\ j \in 1..(pos' - 1) =>
                          /\ features'[j].id \in DOMAIN allocatorSnapshotsBefore'
                          /\ Known(j)' = Replayed(features', featureTransformer', Known(j - 1)', features'[j])
    BY DEF FollowsReference
<1>1. PICK status, shape, allocated : Looping /\ TurnOfLoop(status, shape, allocated)
    BY TurnCases
<1>2. /\ DOMAIN features' = DOMAIN features /\ pos \in DOMAIN features /\ pos' = pos + 1
      /\ \A k \in DOMAIN features : features'[k].id = features[k].id
      /\ FullReplaying /\ featureTransformer' = featureTransformer
    <2>1. FullReplaying /\ featureTransformer' = featureTransformer
        BY <1>1 DEF TurnOfLoop, FullReplaying, marker
    <2> QED BY <1>1, <2>1, TurnFacts
<1>3. \A k \in DOMAIN features : SameButStatus(features'[k], features[k])
    <2>1. \A k \in DOMAIN features : k # pos => features'[k] = features[k]
        BY <1>1, TurnFacts
    <2>2. SameButStatus(features'[pos], features[pos])
        BY <1>1, TurnFacts
    <2> QED BY <2>1, <2>2 DEF SameButStatus
<1>u. Unbroken
    <2>1. \A k \in DOMAIN features : k < pos => features'[k] = features[k] /\ k < pos' /\ k \in DOMAIN features'
        <3>1. \A k \in DOMAIN features : k # pos => features'[k] = features[k]
            BY <1>1, TurnFacts
        <3> QED BY <1>2, <3>1, ListFacts
    <2> QED BY <1>2, <2>1 DEF Unbroken
<1>4. pos \in Nat \ {0} /\ pos - 1 \in Nat /\ (pos - 1) + 1 = pos /\ pos' - 1 = pos
    BY <1>2, ListFacts
<1>5. ASSUME j = pos
      PROVE  /\ currentShape' = Known(j)'.shape /\ counter' = Known(j)'.counter
             /\ Known(j)' = Replayed(features, featureTransformer, Known(j - 1), features[j])
    <2>1. PICK i \in Nat : i = j - 1 /\ i + 1 = j
        BY <1>4, <1>5
    <2>2. /\ currentShape' = Known(i + 1)'.shape /\ counter' = Known(i + 1)'.counter
          /\ Known(i + 1)' = Replayed(features, featureTransformer, Known(i), features[i + 1])
        BY <1>2, <1>5, <1>u, <2>1, TurnAddsReplayed
    <2> QED BY <2>1, <2>2
<1>6. ASSUME NEW i \in 0..(pos - 1) PROVE Known(i)' = Known(i)
    <2>1. \A k \in 1..(pos - 1) : features[k].id \in DOMAIN allocatorSnapshotsBefore
        BY <1>2, <1>u DEF FollowsReference
    <2> QED BY <1>1, <1>2, <2>1, TurnKeepsKnown
<1>7. ASSUME j \in 1..pos
      PROVE  /\ features'[j].id \in DOMAIN allocatorSnapshotsBefore'
             /\ Known(j)' = Replayed(features', featureTransformer, Known(j - 1)', features'[j])
    <2>1. j \in DOMAIN features /\ j - 1 \in 0..(pos - 1)
        BY <1>2, <1>4, <1>7, ListFacts
    <2>2. Known(j - 1)' = Known(j - 1)
        BY <1>6, <2>1
    <2>3. Replayed(features', featureTransformer, Known(j - 1), features'[j])
          = Replayed(features, featureTransformer, Known(j - 1), features[j])
        BY <1>2, <1>3, <2>1, ReplayedIgnoresStatus
    <2>4. DOMAIN allocatorSnapshotsBefore' = DOMAIN allocatorSnapshotsBefore \cup {features[pos].id}
        BY <1>1 DEF TurnOfLoop, Put
    <2>5. CASE j = pos
        BY <1>2, <1>5, <2>2, <2>3, <2>4, <2>5
    <2>6. CASE j # pos
        <3>1. j \in 1..(pos - 1) /\ j \in 0..(pos - 1)
            BY <1>4, <1>7, <2>6
        <3>2. /\ features[j].id \in DOMAIN allocatorSnapshotsBefore
              /\ Known(j) = Replayed(features, featureTransformer, Known(j - 1), features[j])
            BY <1>2, <1>u, <3>1 DEF FollowsReference
        <3>3. Known(j)' = Known(j)
            BY <1>6, <3>1
        <3> QED BY <1>2, <2>1, <2>2, <2>3, <2>4, <3>2, <3>3
    <2> QED BY <2>5, <2>6
<1> QED BY <1>2, <1>4, <1>5, <1>7

LEMMA NextFollowsReference ==
    ASSUME TreeState, TreeState', LoopInList, MadeInOrder, FollowsReference, [Next]_vars
    PROVE  FollowsReference'
<1>1. CASE TurnStep
    BY <1>1, TurnFollowsReference
<1>2. CASE Edit \/ Return \/ Abort
    <2>1. phase' = "idle"
        BY <1>2 DEF Edit, AddFeature, InsertFeature, RemoveFeature, UpdateParameter, SuppressFeature,
                    MoveFeature, ReplaceReference, Editing, Idle, loop, Return, Abort
    <2> QED BY <2>1 DEF FollowsReference, FullReplaying
<1>3. CASE StartReplay
    <2>1. ASSUME FullReplaying'
          PROVE  pos' = 1 /\ counter' = 0 /\ currentShape' = NullShape
        BY <1>3, <2>1 DEF StartReplay, Replay, ReplayFromFirst, ReplayFromSnapshot, ReplayFromUnknown,
                          EnterLoop, FullReplaying
    <2>2. \A i \in Nat : ~(i \in 1..0)
        OBVIOUS
    <2>3. \A i \in Nat : i = 0 => Known(i)'.shape = NullShape /\ Known(i)'.counter = 0
        BY DEF Known, Nothing
    <2> QED BY <2>1, <2>2, <2>3 DEF FollowsReference
<1>4. CASE \/ \E i \in Markers : SetRollbackIndex(i)
           \/ \E t \in Configs \cup {NoTransformer} : SetFeatureTransformer(t)
           \/ UNCHANGED vars
    <2>1. CASE \E t \in Configs \cup {NoTransformer} : SetFeatureTransformer(t)
        <3>1. phase' = "idle"
            BY <2>1 DEF SetFeatureTransformer, Idle, loop
        <3> QED BY <3>1 DEF FollowsReference, FullReplaying
    <2>2. CASE UNCHANGED <<features, maps, counter, loop, featureTransformer>>
        BY <2>2 DEF FollowsReference, FullReplaying, Unbroken, Known, maps, loop
    <2> QED BY <1>4, <2>1, <2>2 DEF SetRollbackIndex, vars, marker
<1> QED BY <1>1, <1>2, <1>3, <1>4 DEF Next, ReplayStep, TurnStep

LEMMA ReferenceAlways == Spec => []FollowsReference
<1>1. Init => FollowsReference
    BY DEF Init, FullReplaying, FollowsReference
<1>2. TreeState /\ TreeState' /\ LoopInList /\ MadeInOrder /\ FollowsReference /\ [Next]_vars => FollowsReference'
    BY NextFollowsReference
<1> QED BY <1>1, <1>2, TreeStateAlways, LoopAlwaysInList, OrderAlways, PTL DEF Spec

LEMMA FullMatches ==
    ASSUME TreeState, LoopInList, FollowsReference
    PROVE  FullReplayMatches
<1> SUFFICES ASSUME Returning, FullReplaying, featureTransformer = NoTransformer,
                    NEW i \in DOMAIN features
             PROVE  /\ cache[features[i].id] = FullReplay(features, NoTransformer)[i].shape
                    /\ features[i].status = FullReplay(features, NoTransformer)[i].status
    BY DEF FullReplayMatches, FullReplaying
<1> DEFINE n == Len(features)
           known == [m \in 0..n |-> Known(m)]
<1>1. n \in Nat /\ pos - 1 = n /\ i \in 1..n
    BY ListFacts DEF Returning, LoopInList, TreeState, TypeOK
<1>2. known[0] = Nothing
    BY <1>1 DEF Known
<1>3. ASSUME NEW m \in 1..n
      PROVE  known[m] = Replayed(features, NoTransformer, known[m - 1], features[m])
    <2>1. m \in 1..(pos - 1) /\ m - 1 \in 0..n /\ m \in 0..n /\ m \in Nat
        BY <1>1
    <2>2. Known(m) = Replayed(features, NoTransformer, Known(m - 1), features[m])
        BY <2>1 DEF FollowsReference, Unbroken
    <2> QED BY <2>1, <2>2
<1>4. FullReplay(features, NoTransformer)[i] = known[i]
    <2> HIDE DEF known
    <2> QED BY <1>1, <1>2, <1>3, FullReplayIs
<1>5. known[i] = Known(i)
    BY <1>1
<1> QED BY <1>1, <1>4, <1>5 DEF Known

(* What the runs check as ReplaysAnswerRight: what a replay returns is     *)
(* what getFinalShape then answers; replayToRollback shows nothing of what *)
(* stands after the marker; and a full replay leaves shapes, identities    *)
(* and statuses that depend on the list alone.                             *)
THEOREM ReplaysAlwaysAnswerRight == Spec => []ReplaysAnswerRight
<1>1. TreeState /\ LoopInList /\ (CleanPassesOn /\ WorksOnBase) /\ MadeInOrder /\ FollowsReference
        => ReplaysAnswerRight
    BY ReturnsFinal, RollbackHides, FullMatches DEF ReplaysAnswerRight
<1> QED BY <1>1, TreeStateAlways, LoopAlwaysInList, PassingOnAlways, OrderAlways, ReferenceAlways, PTL

-----------------------------------------------------------------------------
(* Incremental replay implements Timeline *)

(* The reference takes its steps: every list has a full replay. *)
LEMMA FullReplaySteps ==
    ASSUME NEW list, Len(list) \in Nat, NEW transformer
    PROVE  \E g : /\ g[0] = Nothing
                  /\ \A n \in 1..Len(list) : g[n] = Replayed(list, transformer, g[n - 1], list[n])
                  /\ \A n \in 1..Len(list) : FullReplay(list, transformer)[n] = g[n]
<1> DEFINE steps(g, m) == /\ g[0] = Nothing
                          /\ \A n \in 1..m : g[n] = Replayed(list, transformer, g[n - 1], list[n])
           S == {m \in 0..Len(list) : ~ \E g : steps(g, m)}
<1>1. S = {}
    <2> SUFFICES ASSUME S # {} PROVE FALSE
        OBVIOUS
    <2>1. PICK m \in S : \A k \in S : m <= k
        <3>1. S \subseteq Nat
            OBVIOUS
        <3> HIDE DEF S
        <3> QED BY <3>1, LeastExists
    <2>2. m # 0
        <3>1. steps([n \in {0} |-> Nothing], 0)
            OBVIOUS
        <3> HIDE DEF steps
        <3> QED BY <3>1
    <2>3. m - 1 \in 0..Len(list) /\ m - 1 \notin S
        <3>1. m \in 0..Len(list)
            OBVIOUS
        <3> HIDE DEF S
        <3> QED BY <2>1, <2>2, <3>1
    <2>4. PICK g : steps(g, m - 1)
        <3> HIDE DEF steps
        <3> QED BY <2>3
    <2> DEFINE h == [n \in 0..m |-> IF n = m THEN Replayed(list, transformer, g[m - 1], list[m]) ELSE g[n]]
    <2>5. h[0] = Nothing
        BY <2>2, <2>4
    <2>6. ASSUME NEW n \in 1..m PROVE h[n] = Replayed(list, transformer, h[n - 1], list[n])
        <3>1. n - 1 \in 0..m /\ n \in 0..m /\ n - 1 # m
            OBVIOUS
        <3>2. h[n - 1] = g[n - 1]
            BY <3>1
        <3>3. CASE n = m
            BY <3>1, <3>2, <3>3
        <3>4. CASE n # m
            <4>1. n \in 1..(m - 1)
                BY <3>4
            <4> QED BY <2>4, <3>1, <3>2, <3>4, <4>1
        <3> QED BY <3>3, <3>4
    <2>7. steps(h, m)
        <3> HIDE DEF h
        <3> QED BY <2>5, <2>6
    <2> HIDE DEF steps, h
    <2> QED BY <2>1, <2>7
<1>2. PICK g : steps(g, Len(list))
    <2> HIDE DEF steps
    <2> QED BY <1>1
<1>3. \A n \in 1..Len(list) : FullReplay(list, transformer)[n] = g[n]
    BY <1>2, FullReplayIs
<1> QED BY <1>2, <1>3

(* Without references downstream, all of what is up to date is coherent. *)
AllCoherent == \A i \in DOMAIN features : CleanUpTo(i) => Coherent(i)

LEMMA UpstreamIsSpec == UpstreamSpec => Spec
<1>1. [Next /\ NoForwardRefs']_vars => [Next]_vars
    OBVIOUS
<1> QED BY <1>1, PTL DEF UpstreamSpec, Spec

LEMMA NeverForward == UpstreamSpec => []NoForwardRefs
<1>1. Init => NoForwardRefs
    BY DEF Init, NoForwardRefs
<1>2. NoForwardRefs /\ [Next /\ NoForwardRefs']_vars => NoForwardRefs'
    BY DEF NoForwardRefs, vars
<1> QED BY <1>1, <1>2, PTL DEF UpstreamSpec

LEMMA AllCoherentAlways ==
    ASSUME Configs = {}
    PROVE  UpstreamSpec => []AllCoherent
<1>1. Init => AllCoherent
    BY DEF Init, AllCoherent
<1>2. ASSUME TreeState, TreeState', LoopInList, LoopInList', WorksOnBase, AllCoherent, [Next]_vars,
             featureTransformer = NoTransformer, NoForwardRefs, NoForwardRefs'
      PROVE  AllCoherent'
    <2> SUFFICES ASSUME NEW i \in DOMAIN features', CleanUpTo(i)' PROVE Coherent(i)'
        BY DEF AllCoherent
    <2>1. UpstreamKept(i)
        BY <1>2, StepKeepsUpstream
    <2>2. TargetKept(i)
        <3> DEFINE ref == features[i].ref
        <3> SUFFICES ASSUME ref # NoRef, ref \notin IdsIn(features', 1, i - 1)
                     PROVE  ref \notin AllIds(features) \cup AllIds(features')
            BY <2>1 DEF UpstreamKept, TargetKept, RefersUpstream
        <3>1. /\ i \in DOMAIN features /\ features'[i].ref = ref
              /\ ref \notin IdsIn(features, i, Len(features))
              /\ ref \notin IdsIn(features', i, Len(features'))
            BY <1>2, <2>1 DEF UpstreamKept, NoForwardRefs
        <3>2. /\ DOMAIN features' = 1..Len(features') /\ Len(features') \in Nat
              /\ DOMAIN features = 1..Len(features) /\ Len(features) \in Nat
            BY <1>2, ListFacts DEF TreeState, TypeOK
        <3>3. ASSUME NEW k \in DOMAIN features' PROVE features'[k].id # ref
            BY <3>1, <3>2 DEF IdsIn
        <3>4. ASSUME NEW k \in DOMAIN features PROVE features[k].id # ref
            <4>1. CASE k < i
                BY <2>1, <3>2, <3>3, <4>1 DEF UpstreamKept
            <4>2. CASE ~(k < i)
                BY <3>1, <3>2, <4>2 DEF IdsIn
            <4> QED BY <4>1, <4>2
        <3> QED BY <3>3, <3>4 DEF AllIds, IdsIn
    <2>3. CleanUpTo(i) => Coherent(i)
        BY <1>2, <2>1 DEF AllCoherent, UpstreamKept
    <2> QED BY <1>2, <2>2, <2>3, StepKeepsCoherent
<1>3. TreeState /\ TreeState' /\ LoopInList /\ LoopInList' /\ (CleanPassesOn /\ WorksOnBase)
        /\ AllCoherent /\ [Next]_vars /\ featureTransformer = NoTransformer
        /\ NoForwardRefs /\ NoForwardRefs'
      => AllCoherent'
    BY <1>2
<1>4. UpstreamSpec => Init
    BY DEF UpstreamSpec
<1>5. UpstreamSpec => [][Next]_vars
    BY UpstreamIsSpec, PTL DEF Spec
<1> QED BY <1>1, <1>3, <1>4, <1>5, UpstreamIsSpec, NeverForward, TreeStateAlways, LoopAlwaysInList,
           PassingOnAlways, NeverTransformed, PTL

(* If the reference agrees with the cache before an up-to-date feature, it *)
(* does after it.                                                          *)
LEMMA ReplayedAgrees ==
    ASSUME TreeState, NEW n \in DOMAIN features, CleanUpTo(n), Coherent(n), NoForwardRefs,
           NEW prev, prev.shape.geo = Base(n).geo,
           DOMAIN prev.shapes = IdsIn(features, 1, n - 1),
           \A k \in 1..(n - 1) : prev.shapes[features[k].id].geo = cache[features[k].id].geo,
           NEW after, after = Replayed(features, NoTransformer, prev, features[n])
    PROVE  /\ after.shape.geo = cache[features[n].id].geo
           /\ DOMAIN after.shapes = IdsIn(features, 1, n)
           /\ \A k \in 1..n : after.shapes[features[k].id].geo = cache[features[k].id].geo
<1> DEFINE f == features[n]
           resolves == f.ref = NoRef \/ ResolvesIn(features, prev.shapes, f.ref)
           uses == IF f.ref = NoRef THEN {} ELSE Uses(prev.shapes[f.ref])
           status == ExecutedStatus(f, f.val, prev.shape, resolves)
           made == ExecutedShape(f, f.val, prev.shape, uses, prev.counter + 1)
<1>0. /\ f \in Features /\ f.val # Unbound /\ n \in Nat \ {0}
      /\ DOMAIN features = 1..Len(features) /\ Len(features) \in Nat
    <2>1. f \in Features
        BY DEF TreeState, TypeOK
    <2> QED BY <2>1, ListFacts, FeatureAssumption DEF Features, FeatureAssumption
<1>1. /\ resolves <=> Resolves(f)
      /\ Resolves(f) => uses = ReferencedOps(f)
    <2>1. CASE f.ref = NoRef
        BY <2>1 DEF Resolves, ReferencedOps
    <2>2. CASE f.ref # NoRef /\ f.ref \in IdsIn(features, 1, n - 1)
        <3>1. PICK k \in DOMAIN features : 1 <= k /\ k <= n - 1 /\ f.ref = features[k].id
            BY <2>2 DEF IdsIn
        <3>2. k \in 1..(n - 1) /\ k \in 1..n
            BY <1>0, <3>1
        <3>3. f.ref \in DOMAIN cache
            <4>1. ~dirty[features[k].id]
                BY <3>2 DEF CleanUpTo
            <4> QED BY <3>1, <4>1, ListFacts DEF TreeState, CleanIsCached
        <3>4. prev.shapes[f.ref].geo = cache[f.ref].geo
            BY <3>1, <3>2
        <3>5. Uses(prev.shapes[f.ref]) = Uses(cache[f.ref])
            BY <3>4 DEF Uses
        <3> QED BY <2>2, <3>3, <3>4, <3>5 DEF Resolves, ResolvesIn, IsNull, ReferencedOps
    <2>3. CASE f.ref # NoRef /\ f.ref \notin IdsIn(features, 1, n - 1)
        <3>1. f.ref \notin AllIds(features)
            BY <1>0, <2>3 DEF NoForwardRefs, AllIds, IdsIn
        <3>2. f.ref \notin DOMAIN cache
            BY <3>1 DEF TreeState, MapsFollowList
        <3> QED BY <2>3, <3>2 DEF Resolves, ResolvesIn
    <2> QED BY <2>1, <2>2, <2>3
<1>2. status = ExecutedStatus(f, f.val, Base(n), Resolves(f))
    BY <1>1 DEF ExecutedStatus, IsNull
<1>3. after = IF f.suppressed THEN KnownAfter(prev, f, prev.shape, "Suppressed", prev.counter)
              ELSE IF status = "OK" THEN KnownAfter(prev, f, made, "OK", prev.counter + 1)
              ELSE KnownAfter(prev, f, prev.shape, status, prev.counter)
    <2>1. EffectiveValue(f, NoTransformer) = f.val
        BY DEF EffectiveValue
    <2> QED BY <1>0, <2>1, ReplayedCases
<1>4. status = "OK" => made.geo = ExecutedGeo(f, f.val, Base(n), ReferencedOps(f))
    <2>1. status = "OK" => Resolves(f)
        BY <1>2 DEF ExecutedStatus
    <2>2. made.geo = ExecutedGeo(f, f.val, prev.shape, uses)
        BY DEF ExecutedShape
    <2> QED BY <1>1, <2>1, <2>2 DEF ExecutedGeo
<1>5. PICK shape, st, count : after = KnownAfter(prev, f, shape, st, count) /\ shape.geo = cache[f.id].geo
    <2>1. CASE f.suppressed
        <3>1. cache[f.id] = Base(n)
            BY <2>1 DEF Coherent
        <3> QED BY <1>3, <2>1, <3>1
    <2>2. CASE ~f.suppressed /\ status # "OK"
        <3>1. cache[f.id] = Base(n)
            BY <1>2, <2>2 DEF Coherent
        <3> QED BY <1>3, <2>2, <3>1
    <2>3. CASE ~f.suppressed /\ status = "OK"
        <3>1. cache[f.id].geo = made.geo
            BY <1>2, <1>4, <2>3 DEF Coherent
        <3>2. after = KnownAfter(prev, f, made, "OK", prev.counter + 1)
            BY <1>3, <2>3
        <3> QED BY <3>1, <3>2
    <2> QED BY <2>1, <2>2, <2>3
<1>6. /\ after.shape = shape /\ DOMAIN after.shapes = DOMAIN prev.shapes \cup {f.id}
      /\ \A x \in DOMAIN prev.shapes \cup {f.id} : after.shapes[x] = IF x = f.id THEN shape ELSE prev.shapes[x]
    BY <1>5 DEF KnownAfter
<1>7. IdsIn(features, 1, n) = IdsIn(features, 1, n - 1) \cup {f.id}
    <2>1. {k \in DOMAIN features : 1 <= k /\ k <= n}
          = {k \in DOMAIN features : 1 <= k /\ k <= n - 1} \cup {n}
        BY <1>0
    <2> QED BY <2>1 DEF IdsIn
<1>8. ASSUME NEW k \in 1..n PROVE after.shapes[features[k].id].geo = cache[features[k].id].geo
    <2>1. CASE k = n
        BY <1>5, <1>6, <2>1
    <2>2. CASE k # n
        <3>1. k \in 1..(n - 1) /\ k \in DOMAIN features
            BY <1>0, <2>2
        <3>2. features[k].id # f.id
            BY <2>2, <3>1, ListFacts
        <3>3. features[k].id \in DOMAIN prev.shapes
            BY <1>0, <3>1 DEF IdsIn
        <3> QED BY <1>6, <3>1, <3>2, <3>3
    <2> QED BY <2>1, <2>2
<1> QED BY <1>5, <1>6, <1>7, <1>8

(* The list the reference replays, and what is shown of it. *)
Model == [i \in DOMAIN features |-> Unexecuted(features[i])]
Shown == [i \in 1..UpToDate |-> cache[features[i].id].geo]

LEMMA ModelFacts ==
    ASSUME TreeState
    PROVE  /\ Model \in Seq(Features) /\ Len(Model) = Len(features) /\ DOMAIN Model = DOMAIN features
           /\ \A k \in DOMAIN features : SameButStatus(Model[k], features[k])
<1>1. Len(features) \in Nat /\ DOMAIN features = 1..Len(features)
    BY ListFacts
<1>2. ASSUME NEW k \in 1..Len(features)
      PROVE  Unexecuted(features[k]) \in Features /\ SameButStatus(Unexecuted(features[k]), features[k])
    <2>1. features[k] \in Features
        BY <1>1 DEF TreeState, TypeOK
    <2> QED BY <2>1 DEF Unexecuted, Features, Statuses, SameButStatus
<1>3. [k \in 1..Len(features) |-> Unexecuted(features[k])] \in Seq(Features)
    BY <1>1, <1>2, IsASeq
<1>4. Model \in Seq(Features) /\ DOMAIN Model = DOMAIN features
    BY <1>1, <1>3 DEF Model
<1>5. Len(Model) = Len(features)
    BY <1>1, <1>4
<1> QED BY <1>1, <1>2, <1>4, <1>5 DEF Model
LEMMA SameModel ==
    ASSUME TreeState, TreeState', DOMAIN features' = DOMAIN features,
           \A k \in DOMAIN features : SameButStatus(features'[k], features[k])
    PROVE  Model' = Model
<1>1. ASSUME NEW f \in Features, NEW g \in Features, SameButStatus(f, g)
      PROVE  Unexecuted(f) = Unexecuted(g)
    BY <1>1 DEF Unexecuted, Features, SameButStatus
<1>2. \A k \in DOMAIN features : features[k] \in Features /\ features'[k] \in Features
    BY DEF TreeState, TypeOK
<1>3. \A k \in DOMAIN features : Unexecuted(features'[k]) = Unexecuted(features[k])
    BY <1>1, <1>2
<1> QED BY <1>3 DEF Model

(* After every up-to-date feature the reference shows the cached geometry. *)
LEMMA CacheIsReplayed ==
    ASSUME TreeState, AllCoherent, NoForwardRefs,
           NEW u \in 0..Len(features), CleanUpTo(u), NEW i \in 1..u
    PROVE  FullReplay(Model, NoTransformer)[i].shape.geo = cache[features[i].id].geo
<1>0. /\ Len(features) \in Nat /\ DOMAIN features = 1..Len(features)
      /\ Len(Model) = Len(features) /\ i \in DOMAIN features
    BY ListFacts, ModelFacts
<1>1. PICK g : /\ g[0] = Nothing
               /\ \A n \in 1..Len(features) : g[n] = Replayed(Model, NoTransformer, g[n - 1], Model[n])
               /\ \A n \in 1..Len(features) : FullReplay(Model, NoTransformer)[n] = g[n]
    BY <1>0, FullReplaySteps
<1>2. ASSUME NEW n \in 1..Len(features)
      PROVE  g[n] = Replayed(features, NoTransformer, g[n - 1], features[n])
    <2>1. /\ DOMAIN Model = DOMAIN features /\ n \in DOMAIN features
          /\ \A k \in DOMAIN features : SameButStatus(Model[k], features[k])
        BY <1>0, ModelFacts
    <2>2. Replayed(Model, NoTransformer, g[n - 1], Model[n])
          = Replayed(features, NoTransformer, g[n - 1], features[n])
        BY <2>1, ReplayedIgnoresStatus
    <2> QED BY <1>1, <2>2
<1> DEFINE Agrees(n) == /\ g[n].shape.geo = Base(n + 1).geo
                        /\ DOMAIN g[n].shapes = IdsIn(features, 1, n)
                        /\ \A k \in 1..n : g[n].shapes[features[k].id].geo = cache[features[k].id].geo
           S == {n \in 0..u : ~Agrees(n)}
<1>3. Agrees(0)
    <2>1. g[0].shape = NullShape /\ DOMAIN g[0].shapes = {}
        BY <1>1 DEF Nothing
    <2>2. Base(0 + 1) = NullShape
        BY DEF Base
    <2>3. IdsIn(features, 1, 0) = {}
        BY <1>0 DEF IdsIn
    <2> QED BY <2>1, <2>2, <2>3
<1>4. ASSUME NEW n \in 1..u, Agrees(n - 1)
      PROVE  Agrees(n)
    <2>1. n \in DOMAIN features /\ n \in 1..Len(features) /\ (n - 1) + 1 = n
        BY <1>0
    <2>2. CleanUpTo(n)
        BY DEF CleanUpTo
    <2>3. Coherent(n)
        BY <2>1, <2>2 DEF AllCoherent
    <2>4. /\ g[n].shape.geo = cache[features[n].id].geo
          /\ DOMAIN g[n].shapes = IdsIn(features, 1, n)
          /\ \A k \in 1..n : g[n].shapes[features[k].id].geo = cache[features[k].id].geo
        <3>1. /\ g[n - 1].shape.geo = Base(n).geo
              /\ DOMAIN g[n - 1].shapes = IdsIn(features, 1, n - 1)
              /\ \A k \in 1..(n - 1) : g[n - 1].shapes[features[k].id].geo = cache[features[k].id].geo
            BY <1>4, <2>1
        <3>2. g[n] = Replayed(features, NoTransformer, g[n - 1], features[n])
            BY <1>2, <2>1
        <3> HIDE DEF Agrees
        <3> QED BY <2>1, <2>2, <2>3, <3>1, <3>2, ReplayedAgrees
    <2>5. Base(n + 1) = cache[features[n].id]
        <3>1. n + 1 # 1 /\ (n + 1) - 1 = n
            OBVIOUS
        <3> QED BY <3>1 DEF Base
    <2> QED BY <2>4, <2>5
<1>5. S = {}
    <2> SUFFICES ASSUME S # {} PROVE FALSE
        OBVIOUS
    <2> HIDE DEF Agrees
    <2>1. PICK n \in S : \A k \in S : n <= k
        <3>1. S \subseteq Nat
            OBVIOUS
        <3> HIDE DEF S
        <3> QED BY <3>1, LeastExists
    <2>2. n \in 0..u /\ ~Agrees(n)
        OBVIOUS
    <2>3. n # 0
        BY <1>3, <2>2
    <2>4. n - 1 \in 0..u /\ n - 1 \notin S /\ n \in 1..u
        BY <2>1, <2>2, <2>3
    <2> QED BY <1>4, <2>2, <2>4
<1>6. Agrees(i)
    <2> HIDE DEF Agrees
    <2>1. i \in 0..u
        OBVIOUS
    <2> QED BY <1>5, <2>1
<1>7. Base(i + 1) = cache[features[i].id]
    <2>1. i + 1 # 1 /\ (i + 1) - 1 = i
        OBVIOUS
    <2> QED BY <2>1 DEF Base
<1> QED BY <1>0, <1>1, <1>6, <1>7

(* The up-to-date prefix is the longest that is. *)
LEMMA UpToDateIs ==
    ASSUME TreeState
    PROVE  /\ UpToDate \in 0..Len(features) /\ CleanUpTo(UpToDate)
           /\ \A n \in 0..Len(features) : CleanUpTo(n) => n <= UpToDate
<1> DEFINE S == {n \in 0..Len(features) : CleanUpTo(n)}
           T == {n + 1 : n \in S}
<1>1. Len(features) \in Nat
    BY ListFacts
<1>2. 0 \in S
    BY <1>1 DEF CleanUpTo
<1>3. PICK m \in T : \A k \in T : k <= m
    <2>1. T \in SUBSET (1..(Len(features) + 1)) /\ T # {} /\ Len(features) + 1 \in Nat
        BY <1>1, <1>2
    <2> HIDE DEF T
    <2> QED BY <2>1, MaximumExists
<1>4. PICK u \in S : \A n \in S : n <= u
    <2>1. PICK u \in S : m = u + 1
        OBVIOUS
    <2>2. ASSUME NEW n \in S PROVE n <= u
        <3>1. n + 1 \in T /\ n \in Nat /\ u \in Nat
            BY <1>1
        <3>2. n + 1 <= m
            <4> HIDE DEF T
            <4> QED BY <1>3, <3>1
        <3> QED BY <2>1, <3>1, <3>2
    <2> QED BY <2>2
<1>5. \A n \in S : n \in Nat
    BY <1>1
<1>6. UpToDate \in S /\ \A n \in S : n <= UpToDate
    <2>1. UpToDate = CHOOSE x \in S : \A y \in S : x >= y
        BY DEF UpToDate, Max
    <2>2. u \in S /\ \A y \in S : u >= y
        BY <1>4, <1>5
    <2> HIDE DEF S
    <2>3. UpToDate \in S /\ \A y \in S : UpToDate >= y
        BY <2>1, <2>2
    <2> QED BY <1>5, <2>3
<1> QED BY <1>6

(* What is up to date shows what a full replay shows. *)
ShowsReplayed ==
    /\ UpToDate \in 0..Len(features) /\ CleanUpTo(UpToDate)
    /\ \A i \in 1..UpToDate :
           FullReplay(Model, NoTransformer)[i].shape.geo = cache[features[i].id].geo

LEMMA ShowsReplayedAlways ==
    ASSUME Configs = {}
    PROVE  UpstreamSpec => []ShowsReplayed
<1>1. TreeState /\ AllCoherent /\ NoForwardRefs => ShowsReplayed
    <2> SUFFICES ASSUME TreeState, AllCoherent, NoForwardRefs PROVE ShowsReplayed
        OBVIOUS
    <2>1. PICK u \in 0..Len(features) : u = UpToDate /\ CleanUpTo(u)
        BY UpToDateIs
    <2>2. \A i \in 1..u : FullReplay(Model, NoTransformer)[i].shape.geo = cache[features[i].id].geo
        BY <2>1, CacheIsReplayed
    <2> QED BY <2>1, <2>2 DEF ShowsReplayed
<1> QED BY <1>1, UpstreamIsSpec, TreeStateAlways, AllCoherentAlways, NeverForward, PTL
(* Timeline's full replay is the one above. *)
LEMMA SameReference ==
    \A list : timeline!Geometries(list) = Geometries(list)
<1>1. \A list, transformer : timeline!FullReplay(list, transformer) = FullReplay(list, transformer)
    BY SMT
    DEF timeline!FullReplay, timeline!Nothing, timeline!NullShape, timeline!Replayed,
        timeline!EffectiveValue, timeline!ResolvesIn, timeline!IsNull, timeline!ExecutedStatus,
        timeline!Uses, timeline!Range, timeline!ExecutedShape, timeline!ExecutedGeo,
        FullReplay, Nothing, NullShape, Replayed, EffectiveValue, ResolvesIn, IsNull, ExecutedStatus,
        Uses, Range, ExecutedShape, ExecutedGeo
<1> QED BY <1>1 DEF timeline!Geometries, Geometries

(* A step that leaves the list as it is shows a prefix of its full replay. *)
LEMMA StepShows ==
    ASSUME TreeState, TreeState', Model' = Model, ShowsReplayed'
    PROVE  timeline!Show
<1>1. PICK k : k = UpToDate'
    OBVIOUS
<1>2. /\ k \in 0..Len(Model) /\ Len(Model) \in Nat /\ DOMAIN Model = 1..Len(Model)
    <2>1. Len(features') = Len(Model') /\ DOMAIN features' = 1..Len(features') /\ Len(features') \in Nat
        <3>1. /\ features' \in Seq(Features) /\ DOMAIN Model' = DOMAIN features'
            BY DEF TreeState, TypeOK, Model
        <3>2. Len(features') \in Nat /\ DOMAIN features' = 1..Len(features')
            BY <3>1
        <3>3. Model \in Seq(Features)
            BY ModelFacts
        <3> QED BY <3>1, <3>2, <3>3
    <2> QED BY <1>1, <2>1, ModelFacts DEF ShowsReplayed
<1>3. /\ Shown' = [i \in 1..k |-> cache'[features'[i].id].geo]
      /\ \A i \in 1..k : FullReplay(Model, NoTransformer)[i].shape.geo = cache'[features'[i].id].geo
    BY <1>1 DEF Shown, ShowsReplayed
<1>4. SubSeq(Geometries(Model), 1, k) = Shown'
    <2>1. SubSeq(Geometries(Model), 1, k) = [i \in 1..k |-> Geometries(Model)[i]]
        <3>1. \A i \in 1..k : 1 + i - 1 = i
            BY <1>2
        <3> QED BY <1>2, <3>1
    <2>2. \A i \in 1..k : Geometries(Model)[i] = FullReplay(Model, NoTransformer)[i].shape.geo
        BY <1>2 DEF Geometries
    <2> QED BY <1>3, <2>1, <2>2
<1> QED BY <1>2, <1>4, SameReference DEF timeline!Show, Model, Shown
(* An edit keeps a prefix of what is shown and the list up to there. *)
LEMMA EditShortens ==
    ASSUME TreeState, TreeState', ShowsReplayed, ShowsReplayed', Edit
    PROVE  timeline!Edit
<1>1. PICK k : k = UpToDate'
    OBVIOUS
<1>2. PICK u : u = UpToDate
    OBVIOUS
<1>3. /\ Len(features) \in Nat /\ DOMAIN features = 1..Len(features)
      /\ Len(features') \in Nat /\ DOMAIN features' = 1..Len(features')
      /\ k \in 0..Len(features') /\ u \in 0..Len(features)
    BY <1>1, <1>2, ListFacts DEF TreeState, TypeOK, ShowsReplayed
<1>4. k # 0 => CleanUpTo(k)'
    BY <1>1 DEF ShowsReplayed, CleanUpTo
<1>5. /\ k <= u
      /\ \A j \in 1..k : features'[j] = features[j] /\ cache'[features[j].id] = cache[features[j].id]
    <2>1. CASE k = 0
        BY <1>3, <2>1
    <2>2. CASE k # 0
        <3>1. k \in DOMAIN features' /\ PrefixKept
            BY <1>3, <2>2, EditKeepsPrefix
        <3>2. /\ k \in DOMAIN features /\ CleanUpTo(k)
              /\ \A j \in 1..k : features'[j] = features[j] /\ cache'[features[j].id] = cache[features[j].id]
            BY <1>4, <2>2, <3>1 DEF PrefixKept
        <3>3. k <= u
            <4>1. k \in 0..Len(features)
                BY <1>3, <3>2
            <4> QED BY <1>2, <3>2, <4>1, UpToDateIs
        <3> QED BY <3>2, <3>3
    <2> QED BY <2>1, <2>2
<1>6. Shown' = SubSeq(Shown, 1, k)
    <2>1. Shown = [i \in 1..u |-> cache[features[i].id].geo]
        BY <1>2 DEF Shown
    <2>2. Shown' = [i \in 1..k |-> cache'[features'[i].id].geo]
        BY <1>1 DEF Shown
    <2>3. \A i \in 1..k : Shown'[i] = Shown[i] /\ 1 + i - 1 = i
        BY <1>3, <1>5, <2>1, <2>2
    <2>4. SubSeq(Shown, 1, k) = [i \in 1..k |-> Shown[i]]
        <3>1. k \in Nat
            BY <1>3
        <3> HIDE DEF Shown
        <3> QED BY <2>3, <3>1
    <2> QED BY <2>2, <2>3, <2>4
<1>7. SubSeq(Model', 1, k) = SubSeq(Model, 1, k)
    <2>1. DOMAIN Model = 1..Len(features) /\ DOMAIN Model' = 1..Len(features')
        BY <1>3 DEF Model
    <2>2. \A i \in 1..k : Model'[i] = Model[i] /\ 1 + i - 1 = i
        <3>1. \A i \in 1..k : i \in DOMAIN features /\ i \in DOMAIN features'
            BY <1>3, <1>5
        <3> QED BY <1>3, <1>5, <3>1 DEF Model
    <2>3. k \in Nat
        BY <1>3
    <2>4. SubSeq(Model, 1, k) = [i \in 1..k |-> Model[i]]
        BY <2>2, <2>3
    <2>5. SubSeq(Model', 1, k) = [i \in 1..k |-> Model'[i]]
        BY <2>2, <2>3
    <2> QED BY <2>2, <2>4, <2>5
<1>8. k \in 0..Len(Shown)
    <2>1. Shown = [i \in 1..u |-> cache[features[i].id].geo] /\ u \in Nat
        BY <1>2, <1>3 DEF Shown
    <2>2. Len(Shown) = u
        BY <2>1
    <2> QED BY <1>3, <1>5, <2>2
<1> QED BY <1>6, <1>7, <1>8 DEF timeline!Edit, Model, Shown

(* Every step that is not an edit leaves the list, but for its statuses.   *)
LEMMA StepKeepsModel ==
    ASSUME TreeState, TreeState', LoopInList, [Next]_vars, ~Edit
    PROVE  Model' = Model
<1>1. CASE UNCHANGED features
    BY <1>1 DEF Model
<1>2. CASE TurnStep
    <2>1. PICK status, shape, allocated : Looping /\ TurnOfLoop(status, shape, allocated)
        BY <1>2, TurnCases
    <2>2. /\ DOMAIN features' = DOMAIN features
          /\ SameButStatus(features'[pos], features[pos])
          /\ \A j \in DOMAIN features : j # pos => features'[j] = features[j]
        BY <2>1, TurnFacts
    <2>3. \A j \in DOMAIN features : SameButStatus(features'[j], features[j])
        BY <2>2 DEF SameButStatus
    <2> QED BY <2>2, <2>3, SameModel
<1>3. CASE Abort
    <2>1. pos \in DOMAIN features
        BY <1>3, ListFacts DEF Abort, Looping, TreeState, TypeOK
    <2>2. \A j \in DOMAIN features : features[j] \in Features
        BY ListFacts
    <2>3. CASE features' = [features EXCEPT ![pos].status = "OK"]
        <3>1. /\ DOMAIN features' = DOMAIN features
              /\ features'[pos] = [features[pos] EXCEPT !.status = "OK"]
              /\ \A j \in DOMAIN features : j # pos => features'[j] = features[j]
            BY <2>1, <2>3
        <3>2. SameButStatus(features'[pos], features[pos])
            BY <2>1, <2>2, <3>1 DEF Features, SameButStatus
        <3>3. \A j \in DOMAIN features : SameButStatus(features'[j], features[j])
            BY <3>1, <3>2 DEF SameButStatus
        <3> QED BY <3>1, <3>3, SameModel
    <2> QED BY <1>1, <1>3, <2>3 DEF Abort
<1>4. CASE StartReplay
    BY <1>1, <1>4, StartReplaySteps
<1>5. CASE \/ Return \/ UNCHANGED vars
           \/ \E i \in Markers : SetRollbackIndex(i)
           \/ \E t \in Configs \cup {NoTransformer} : SetFeatureTransformer(t)
    BY <1>1, <1>5 DEF Return, SetRollbackIndex, SetFeatureTransformer, vars
<1> QED BY <1>2, <1>3, <1>4, <1>5 DEF Next, ReplayStep, TurnStep

(* What the runs check as ImplementsTimeline: as long as references point  *)
(* upstream and nothing is configured, what the tree holds of its          *)
(* up-to-date features is, at every moment, what a replay of the whole     *)
(* list would show, and no step but an edit changes the list.              *)
THEOREM ReplayImplementsTimeline ==
    ASSUME Configs = {}
    PROVE  UpstreamSpec => ImplementsTimeline
<1>1. Init => timeline!Init
    <2> SUFFICES ASSUME Init PROVE Model = <<>> /\ Shown = <<>>
        BY DEF timeline!Init, Model, Shown
    <2>1. features = <<>> /\ Len(features) = 0 /\ DOMAIN features = {}
        BY DEF Init
    <2>2. {n \in 0..Len(features) : CleanUpTo(n)} = {0}
        BY <2>1 DEF CleanUpTo
    <2>3. UpToDate = 0
        BY <2>2 DEF UpToDate, Max
    <2> QED BY <2>1, <2>3 DEF Model, Shown
<1>2. ASSUME TreeState, TreeState', LoopInList, ShowsReplayed, ShowsReplayed', [Next]_vars
      PROVE  timeline!Next
    <2>1. CASE Edit
        BY <1>2, <2>1, EditShortens DEF timeline!Next
    <2>2. CASE ~Edit
        BY <1>2, <2>2, StepKeepsModel, StepShows DEF timeline!Next
    <2> QED BY <2>1, <2>2
<1>3. TreeState /\ TreeState' /\ LoopInList /\ ShowsReplayed /\ ShowsReplayed' /\ [Next]_vars
        => [timeline!Next]_timeline!vars
    BY <1>2
<1>4. UpstreamSpec => Init
    BY DEF UpstreamSpec
<1>5. UpstreamSpec => [][Next]_vars
    BY UpstreamIsSpec, PTL DEF Spec
<1> QED BY <1>1, <1>3, <1>4, <1>5, UpstreamIsSpec, TreeStateAlways, LoopAlwaysInList,
           ShowsReplayedAlways, PTL DEF ImplementsTimeline, timeline!Spec

-----------------------------------------------------------------------------
(* The inductive invariant: its parts about the studio *)

(* A document holds what a tree may be loaded from.                        *)
DocumentOK ==
    document # NoDocument =>
        /\ UniqueIds(document.tree.features)
        /\ DOMAIN document.schema \subseteq Inputs
        /\ document.schema \in [DOMAIN document.schema -> Declarations]

(* Where execute() stands, the tree's loop stands.                         *)
CallFollowsLoop ==
    /\ call \in {"entered", "rejected", "returned", "thrown"} => Idle
    /\ call = "replaying" => phase = "replay"

StudioInv == PSTypeOK /\ TransformerScoped /\ DocumentOK /\ CallFollowsLoop

(* What is known of the tree alone.                                        *)
TreeInv == TreeState /\ LoopInList /\ MadeInOrder /\ FollowsReference

-----------------------------------------------------------------------------
(* Steps of the studio are steps of its tree *)

(* What a step of the studio does to the tree: a step of the tree, an      *)
(* installed configuration, or a loaded document.                          *)
LEMMA StudioStepsTree ==
    ASSUME PSNext \/ UNCHANGED psVars
    PROVE  \/ [Next]_vars
           \/ \E config \in ConfigValues :
                 ValidConfig(config) /\ SetFeatureTransformer(Resolver(config))
           \/ document # NoDocument /\ FromJSON(document.tree)
<1>1. CASE TreeStep
    BY <1>1 DEF TreeStep, Next, StartReplay
<1>2. ASSUME NEW i \in Markers, SetRollbackIndex(i) PROVE [Next]_vars
    BY <1>2 DEF Next
<1>3. ASSUME NEW config \in ConfigValues, ExecuteRejected(config) \/ ExecuteEnter(config)
      PROVE  UNCHANGED vars \/ (ValidConfig(config) /\ SetFeatureTransformer(Resolver(config)))
    BY <1>3 DEF ExecuteRejected, ExecuteEnter
<1>4. CASE ExecuteReplay
    BY <1>4 DEF ExecuteReplay, Next, StartReplay
<1>5. CASE ExecuteLoop
    BY <1>5 DEF ExecuteLoop, Next, ReplayStep
<1>6. CASE ExecuteReturn
    BY <1>6 DEF ExecuteReturn, Next, ReplayStep
<1>7. CASE ExecuteThrows
    BY <1>7 DEF ExecuteThrows, Next
<1>8. CASE ExecuteLeave
    BY <1>8 DEF ExecuteLeave, Next
<1>9. CASE Load
    BY <1>9 DEF Load
<1>10. CASE ClearSchema \/ Save \/ UNCHANGED psVars
    BY <1>10 DEF ClearSchema, Save, psVars
<1>11. ASSUME NEW name \in Inputs, NEW spec \in Specs, AddInput(name, spec) PROVE UNCHANGED vars
    BY <1>11 DEF AddInput
<1> QED BY <1>1, <1>2, <1>3, <1>4, <1>5, <1>6, <1>7, <1>8, <1>9, <1>10, <1>11 DEF PSNext

(* A valid configuration gives every input a literal or leaves it unbound. *)
LEMMA ResolverType ==
    ASSUME PSTypeOK, NEW config, ValidConfig(config)
    PROVE  Resolver(config) \in [Inputs -> Literals \cup {Unbound}]
<1> SUFFICES ASSUME NEW name \in Inputs, name \in DOMAIN schema
             PROVE  (IF name \in DOMAIN config THEN config[name] ELSE schema[name].default) \in Literals
    BY DEF Resolver
<1>1. PICK spec \in Declarations : spec = schema[name]
    BY DEF PSTypeOK
<1>2. spec.default \in Literals /\ spec.allowed \subseteq Literals
    BY DEF Declarations
<1>3. name \in DOMAIN config => config[name] \in spec.allowed
    BY <1>1 DEF ValidConfig
<1> QED BY <1>1, <1>2, <1>3

LEMMA TransformerKeepsTree ==
    ASSUME TreeInv, NEW t \in [Inputs -> Literals \cup {Unbound}], SetFeatureTransformer(t)
    PROVE  TreeInv'
<1>1. /\ UNCHANGED <<features, maps, rollbackIndex, counter, loop>>
      /\ phase' = "idle" /\ featureTransformer' = t
    BY DEF SetFeatureTransformer, loop, Idle
<1>2. TypeOK'
    BY <1>1 DEF TreeInv, TreeState, TypeOK, maps, loop
<1>3. MapsFollowList' /\ CleanIsCached'
    BY <1>1 DEF TreeInv, TreeState, MapsFollowList, CleanIsCached, maps
<1>4. LoopInList' /\ MadeInOrder' /\ FollowsReference'
    BY <1>1 DEF LoopInList, MadeInOrder, FollowsReference, FullReplaying, Idle
<1> QED BY <1>2, <1>3, <1>4 DEF TreeInv, TreeState

LEMMA LoadKeepsTree ==
    ASSUME TreeInv, PSTypeOK, DocumentOK, document # NoDocument, FromJSON(document.tree)
    PROVE  TreeInv'
<1> DEFINE list == document.tree.features
<1>1. /\ list \in Seq(Features) /\ UniqueIds(list) /\ document.tree.rollbackIndex \in Int
    BY DEF PSTypeOK, DocumentOK
<1>2. /\ features' = list /\ cache' = EmptyMap /\ allocatorSnapshotsBefore' = EmptyMap
      /\ dirty' = [id \in AllIds(list) |-> TRUE] /\ featureTransformer' = NoTransformer
      /\ phase' = "idle" /\ UNCHANGED loop /\ counter' \in {0, counter}
    BY DEF FromJSON, Idle, loop
<1>3. AllIds(list) \subseteq Ids
    BY <1>1, IdsInType DEF AllIds
<1>4. rollbackIndex' \in Nat
    <2>1. \A x : Clamp(x, 0, 0) \in {x, 0}
        BY DEF Clamp
    <2>2. document.tree.rollbackIndex \in Nat
        BY DEF PSTypeOK
    <2> QED BY <2>1, <2>2 DEF FromJSON, DecodedMarker
<1> HIDE DEF list
<1>5. TypeOK'
    <2>1. MapFrom(cache', Shapes) /\ MapFrom(allocatorSnapshotsBefore', Nat)
        BY <1>2, EmptyMapType
    <2>2. MapFrom(dirty', BOOLEAN)
        BY <1>2, <1>3 DEF MapFrom
    <2>3. counter' \in Nat
        BY <1>2 DEF TreeInv, TreeState, TypeOK
    <2> QED BY <1>1, <1>2, <1>4, <2>1, <2>2, <2>3 DEF TreeInv, TreeState, TypeOK, loop
<1>6. MapsFollowList'
    <2>1. DOMAIN EmptyMap = {}
        BY DEF EmptyMap
    <2> QED BY <1>1, <1>2, <2>1 DEF MapsFollowList, UniqueIds
<1>7. CleanIsCached'
    BY <1>2 DEF CleanIsCached
<1>8. LoopInList' /\ MadeInOrder' /\ FollowsReference'
    BY <1>2 DEF LoopInList, MadeInOrder, FollowsReference, FullReplaying, Idle
<1> QED BY <1>5, <1>6, <1>7, <1>8 DEF TreeInv, TreeState

LEMMA StepKeepsTree ==
    ASSUME TreeInv, PSTypeOK, DocumentOK, PSNext \/ UNCHANGED psVars
    PROVE  TreeInv'
<1>1. CASE [Next]_vars
    <2>1. TreeState'
        BY <1>1, NextTypeOK, NextMaps, NextCached DEF TreeInv, TreeState
    <2>2. LoopInList'
        BY <1>1, <2>1, NextInList DEF TreeInv
    <2>3. MadeInOrder' /\ FollowsReference'
        BY <1>1, <2>1, NextMakesInOrder, NextFollowsReference DEF TreeInv
    <2> QED BY <2>1, <2>2, <2>3 DEF TreeInv
<1>2. ASSUME NEW config, ValidConfig(config), SetFeatureTransformer(Resolver(config)) PROVE TreeInv'
    BY <1>2, ResolverType, TransformerKeepsTree
<1>3. CASE document # NoDocument /\ FromJSON(document.tree)
    BY <1>3, LoadKeepsTree
<1> QED BY <1>1, <1>2, <1>3, StudioStepsTree

-----------------------------------------------------------------------------
(* The state of a studio is well formed *)

(* A saved list holds the features of the tree, none of them executed.     *)
LEMMA SavedList ==
    ASSUME TreeState
    PROVE  ToJSON.features \in Seq(Features) /\ UniqueIds(ToJSON.features)
<1> DEFINE list == [i \in DOMAIN features |-> Unexecuted(features[i])]
<1>1. ToJSON.features = list
    BY DEF ToJSON
<1>2. /\ features \in Seq(Features) /\ Len(features) \in Nat /\ DOMAIN features = 1..Len(features)
      /\ \A i, j \in DOMAIN features : features[i].id = features[j].id => i = j
    BY ListFacts
<1>3. ASSUME NEW i \in DOMAIN features PROVE list[i] \in Features /\ list[i].id = features[i].id
    <2>1. PICK f \in Features : f = features[i]
        BY <1>2
    <2>2. Unexecuted(f) \in Features /\ Unexecuted(f).id = f.id
        BY DEF Unexecuted, Features, Statuses
    <2> QED BY <2>1, <2>2
<1>4. DOMAIN list = 1..Len(features)
    BY <1>2
<1> HIDE DEF list
<1>5. list \in Seq(Features)
    <2>1. list = [i \in 1..Len(features) |-> list[i]]
        BY <1>2 DEF list
    <2> QED BY <1>2, <1>3, <1>4, <2>1
<1> QED BY <1>1, <1>2, <1>3, <1>4, <1>5 DEF UniqueIds

(* A step that leaves the studio's own variables and the transformer.      *)
LEMMA SameStudio ==
    ASSUME StudioInv, TypeOK', UNCHANGED studio,
           call = "none" => featureTransformer' = NoTransformer, CallFollowsLoop'
    PROVE  StudioInv'
  BY DEF StudioInv, PSTypeOK, TransformerScoped, DocumentOK, studio

LEMMA StepKeepsStudio ==
    ASSUME StudioInv, TreeInv, TypeOK', PSNext \/ UNCHANGED psVars
    PROVE  StudioInv'
<1>u. ASSUME UNCHANGED <<schema, document>>, TypeOK', call' \in Calls, finalShape' \in Shapes,
             outcome' \in Outcomes, TransformerScoped', CallFollowsLoop'
      PROVE  StudioInv'
    BY <1>u DEF StudioInv, PSTypeOK, DocumentOK
<1>s. /\ call \in Calls /\ finalShape \in Shapes /\ outcome \in Outcomes
      /\ currentShape \in Shapes /\ TransformerScoped /\ CallFollowsLoop
    BY DEF StudioInv, PSTypeOK, TypeOK
<1>1. CASE TreeStep
    <2>1. UNCHANGED studio /\ call = "none"
        BY <1>1 DEF TreeStep
    <2>2. featureTransformer' = featureTransformer
        BY <1>1 DEF TreeStep, Edit, AddFeature, InsertFeature, RemoveFeature, UpdateParameter,
                    SuppressFeature, MoveFeature, ReplaceReference, Replay, ReplayFromFirst,
                    ReplayFromSnapshot, ReplayFromUnknown, ReplayStep, SkipSuppressed,
                    SkipTransformFailure, ExecuteFeature, TurnOfLoop, Return, Abort, marker
    <2>3. CallFollowsLoop'
        BY <2>1 DEF CallFollowsLoop, studio
    <2> QED BY <1>s, <2>1, <2>2, <2>3, SameStudio DEF TransformerScoped
<1>2. ASSUME NEW i \in Markers, SetRollbackIndex(i), call = "none", UNCHANGED studio PROVE StudioInv'
    <2>1. CallFollowsLoop' /\ featureTransformer' = featureTransformer
        BY <1>2 DEF CallFollowsLoop, studio, SetRollbackIndex
    <2> QED BY <1>2, <1>s, <2>1, SameStudio DEF TransformerScoped
<1>3. ASSUME NEW name \in Inputs, NEW spec \in Specs, AddInput(name, spec) PROVE StudioInv'
    <2>1. /\ schema' = Put(schema, name, spec)
          /\ UNCHANGED <<vars, call, finalShape, outcome, document>>
        BY <1>3 DEF AddInput
    <2>2. spec \in Declarations
        BY PartStudioAssumption DEF PartStudioAssumption, Declarations
    <2>3. DOMAIN schema' \subseteq Inputs /\ schema' \in [DOMAIN schema' -> Declarations]
        BY <2>1, <2>2 DEF Put, StudioInv, PSTypeOK
    <2>4. TransformerScoped' /\ CallFollowsLoop'
        BY <1>s, <2>1 DEF TransformerScoped, CallFollowsLoop, vars, marker, loop, Idle
    <2> QED BY <2>1, <2>3, <2>4 DEF StudioInv, PSTypeOK, DocumentOK
<1>4. CASE ClearSchema
    <2>1. schema' = EmptyMap /\ UNCHANGED <<vars, call, finalShape, outcome, document>>
        BY <1>4 DEF ClearSchema
    <2>2. DOMAIN schema' \subseteq Inputs /\ schema' \in [DOMAIN schema' -> Declarations]
        BY <2>1 DEF EmptyMap
    <2>3. TransformerScoped' /\ CallFollowsLoop'
        BY <1>s, <2>1 DEF TransformerScoped, CallFollowsLoop, vars, marker, loop, Idle
    <2> QED BY <2>1, <2>2, <2>3 DEF StudioInv, PSTypeOK, DocumentOK
<1>5. ASSUME NEW config, ExecuteRejected(config) \/ ExecuteEnter(config) PROVE StudioInv'
    <2>1. /\ call' \in {"rejected", "entered"} /\ outcome' \in {outcome, "Failed"} /\ phase' = "idle"
          /\ UNCHANGED <<schema, finalShape, document>>
        BY <1>5 DEF ExecuteRejected, ExecuteEnter, SetFeatureTransformer, vars, loop, Idle
    <2> QED BY <1>u, <1>s, <2>1 DEF Calls, Outcomes, TransformerScoped, CallFollowsLoop, Idle
<1>6. CASE ExecuteReplay
    <2>1. /\ call' = "replaying" /\ phase' = "replay"
          /\ UNCHANGED <<schema, finalShape, outcome, document>>
        BY <1>6 DEF ExecuteReplay, Replay, EnterLoop
    <2> QED BY <1>u, <1>s, <2>1 DEF Calls, TransformerScoped, CallFollowsLoop
<1>7. CASE ExecuteLoop
    <2>1. UNCHANGED studio /\ call = "replaying"
        BY <1>7 DEF ExecuteLoop
    <2>2. phase' = phase
        BY <1>7 DEF ExecuteLoop, SkipSuppressed, SkipTransformFailure, ExecuteFeature, TurnOfLoop
    <2>3. CallFollowsLoop'
        BY <1>s, <2>1, <2>2 DEF CallFollowsLoop, studio
    <2> QED BY <2>1, <2>3, SameStudio
<1>8. CASE ExecuteReturn
    <2>1. /\ call' = "returned" /\ phase' = "idle" /\ finalShape' = currentShape
          /\ outcome' \in {"Failed", "Partial", "Ok"} /\ UNCHANGED <<schema, document>>
        BY <1>8 DEF ExecuteReturn, Return
    <2> QED BY <1>u, <1>s, <2>1 DEF Calls, Outcomes, TransformerScoped, CallFollowsLoop, Idle
<1>9. CASE ExecuteThrows
    <2>1. /\ call' = "thrown" /\ phase' = "idle"
          /\ UNCHANGED <<schema, finalShape, outcome, document>>
        BY <1>9 DEF ExecuteThrows, Abort
    <2> QED BY <1>u, <1>s, <2>1 DEF Calls, TransformerScoped, CallFollowsLoop, Idle
<1>10. CASE ExecuteLeave
    <2>1. /\ call' = "none" /\ featureTransformer' = NoTransformer /\ finalShape' = NullShape
          /\ outcome' = "Ok" /\ UNCHANGED <<schema, document>>
        BY <1>10 DEF ExecuteLeave, SetFeatureTransformer
    <2> QED BY <1>u, <2>1, NullShapeType DEF Calls, Outcomes, TransformerScoped, CallFollowsLoop
<1>11. CASE Save
    <2>1. document' = [tree |-> ToJSON, schema |-> schema] /\ UNCHANGED <<vars, schema, call, finalShape, outcome>>
        BY <1>11 DEF Save
    <2>2. document'.tree.features = ToJSON.features /\ document'.tree.rollbackIndex = rollbackIndex
        BY <2>1 DEF ToJSON
    <2>3. DocumentOK'
        BY <2>1, <2>2, SavedList DEF DocumentOK, TreeInv, StudioInv, PSTypeOK
    <2>4. PSTypeOK'
        BY <2>1, <2>2, SavedList DEF TreeInv, TreeState, TypeOK, StudioInv, PSTypeOK
    <2>5. TransformerScoped' /\ CallFollowsLoop'
        BY <1>s, <2>1 DEF TransformerScoped, CallFollowsLoop, vars, marker, loop, Idle
    <2> QED BY <2>3, <2>4, <2>5 DEF StudioInv
<1>12. CASE Load
    <2>1. /\ call = "none" /\ document # NoDocument /\ schema' = document.schema
          /\ featureTransformer' = NoTransformer /\ UNCHANGED <<call, finalShape, outcome, document>>
        BY <1>12 DEF Load, FromJSON
    <2>2. DOMAIN schema' \subseteq Inputs /\ schema' \in [DOMAIN schema' -> Declarations]
        BY <2>1 DEF StudioInv, DocumentOK
    <2>3. TransformerScoped' /\ CallFollowsLoop'
        BY <2>1 DEF TransformerScoped, CallFollowsLoop
    <2> QED BY <2>1, <2>2, <2>3 DEF StudioInv, PSTypeOK, DocumentOK
<1>13. CASE UNCHANGED psVars
    <2>1. UNCHANGED studio /\ UNCHANGED vars
        BY <1>13 DEF psVars
    <2>2. CallFollowsLoop' /\ featureTransformer' = featureTransformer
        BY <1>s, <2>1 DEF CallFollowsLoop, studio, vars, marker, loop, Idle
    <2> QED BY <1>s, <2>1, <2>2, SameStudio DEF TransformerScoped
<1> QED BY <1>1, <1>2, <1>3, <1>4, <1>5, <1>6, <1>7, <1>8, <1>9, <1>10, <1>11, <1>12, <1>13 DEF PSNext

LEMMA StudioInvAlways == PSSpec => [](StudioInv /\ TreeInv)
<1>1. PSInit => StudioInv /\ TreeInv
    <2> SUFFICES ASSUME PSInit PROVE StudioInv /\ TreeInv
        OBVIOUS
    <2>1. TypeOK
        BY NullShapeType, EmptyMapType DEF PSInit, Init, TypeOK
    <2>2. MapsFollowList /\ CleanIsCached
        BY DEF PSInit, Init, MapsFollowList, CleanIsCached, EmptyMap, AllIds, IdsIn
    <2>3. LoopInList /\ MadeInOrder /\ FollowsReference
        BY DEF PSInit, Init, Idle, FullReplaying, LoopInList, MadeInOrder, FollowsReference
    <2>4. StudioInv
        BY <2>1, NullShapeType
           DEF PSInit, Init, Idle, StudioInv, PSTypeOK, TransformerScoped, DocumentOK, CallFollowsLoop,
               EmptyMap, Calls, Outcomes
    <2> QED BY <2>1, <2>2, <2>3, <2>4 DEF TreeInv, TreeState
<1>2. (StudioInv /\ TreeInv) /\ [PSNext]_psVars => (StudioInv /\ TreeInv)'
    <2>1. StudioInv => PSTypeOK /\ DocumentOK
        BY DEF StudioInv
    <2>2. TreeInv' => TypeOK'
        BY DEF TreeInv, TreeState
    <2> QED BY <2>1, <2>2, StepKeepsTree, StepKeepsStudio
<1> QED BY <1>1, <1>2, PTL DEF PSSpec

(* What the runs check as StudioConsistent: schema, tree, document and     *)
(* outputs are well formed, and the transformer that lends the caller's    *)
(* configuration is gone whenever execute() is not running, whether the    *)
(* call was rejected, returned or left by an exception.                    *)
THEOREM StudioAlwaysConsistent == PSSpec => []StudioConsistent
<1>1. StudioInv => StudioConsistent
    BY DEF StudioInv, StudioConsistent
<1> QED BY <1>1, StudioInvAlways, PTL
-----------------------------------------------------------------------------
(* What execute() is making *)

(* Some feature among the first n ran with this value, and succeeded.      *)
Backed(by, val, n) ==
    \E i \in DOMAIN features :
        /\ i <= n
        /\ features[i].id = by
        /\ features[i].status = "OK"
        /\ ~features[i].suppressed
        /\ EffectiveValue(features[i], featureTransformer) = val

BackedShape(shape, n) ==
    \A op \in Range(shape.geo) :
        /\ Backed(op.by, op.val, n)
        /\ \A used \in op.on : Backed(used[1], used[2], n)

(* Everything the running execute() has made so far is its own.            *)
RunIsOwn ==
    call = "replaying" =>
        /\ BackedShape(currentShape, pos - 1)
        /\ \A id \in DOMAIN cache : BackedShape(cache[id], pos - 1)

(* What a turn of the loop makes: the shape it worked on, or that shape    *)
(* with the operation of a feature that succeeded.                         *)
LEMMA TurnMakes ==
    ASSUME TurnStep
    PROVE  \E status, shape, allocated :
              /\ TurnOfLoop(status, shape, allocated)
              /\ \/ shape = currentShape
                 \/ LET f   == features[pos]
                        val == EffectiveValue(f, featureTransformer)
                    IN  /\ status = "OK" /\ ~f.suppressed /\ Resolves(f)
                        /\ shape = ExecutedShape(f, val, currentShape, ReferencedOps(f), counter + 1)
<1>1. \A f, val, base, resolves : ExecutedStatus(f, val, base, resolves) = "OK" => resolves
    BY DEF ExecutedStatus
<1> QED BY <1>1, TurnCases

(* What was backed before a turn still is after it. *)
LEMMA BackedKept ==
    ASSUME TreeInv, Looping, NEW status, NEW shape, NEW allocated, TurnOfLoop(status, shape, allocated),
           NEW by, NEW val, Backed(by, val, pos - 1)
    PROVE  Backed(by, val, pos - 1)'
<1>1. PICK i \in DOMAIN features :
         /\ i <= pos - 1 /\ features[i].id = by /\ features[i].status = "OK" /\ ~features[i].suppressed
         /\ EffectiveValue(features[i], featureTransformer) = val
    BY DEF Backed
<1>2. i # pos /\ i <= pos' - 1 /\ featureTransformer' = featureTransformer
    BY <1>1, ListFacts DEF TurnOfLoop, marker, Looping, TreeInv, TreeState, TypeOK
<1>3. i \in DOMAIN features' /\ features'[i] = features[i]
    BY <1>2, TurnFacts DEF TreeInv
<1> QED BY <1>1, <1>2, <1>3 DEF Backed

LEMMA TurnIsOwn ==
    ASSUME TreeInv, RunIsOwn, call = "replaying", TurnStep
    PROVE  RunIsOwn'
<1> DEFINE Kept(shape) == \A op \in Range(shape.geo) :
                           /\ Backed(op.by, op.val, pos - 1)'
                           /\ \A used \in op.on : Backed(used[1], used[2], pos - 1)'
<1>f. PICK f, val : f = features[pos] /\ val = EffectiveValue(f, featureTransformer)
    OBVIOUS
<1>0. Looping
    BY TurnCases
<1>1. PICK status, shape, allocated :
         /\ TurnOfLoop(status, shape, allocated)
         /\ \/ shape = currentShape
            \/ /\ status = "OK" /\ ~f.suppressed /\ Resolves(f)
               /\ shape = ExecutedShape(f, val, currentShape, ReferencedOps(f), counter + 1)
    BY <1>f, TurnMakes
<1>2. ASSUME NEW old, BackedShape(old, pos - 1) PROVE Kept(old)
    <2>1. \A by, v : Backed(by, v, pos - 1) => Backed(by, v, pos - 1)'
        BY <1>0, <1>1, BackedKept
    <2> QED BY <1>2, <2>1 DEF BackedShape
<1>3. Kept(currentShape) /\ \A id \in DOMAIN cache : Kept(cache[id])
    BY <1>2 DEF RunIsOwn
<1>4. ASSUME status = "OK", ~f.suppressed PROVE Backed(f.id, val, pos - 1)'
    <2>1. /\ pos \in DOMAIN features /\ pos' = pos + 1 /\ DOMAIN features' = DOMAIN features
          /\ SameButStatus(features'[pos], f) /\ features'[pos].status = status
        BY <1>0, <1>1, <1>f, TurnFacts DEF TreeInv
    <2>2. pos \in DOMAIN features' /\ pos <= pos' - 1 /\ featureTransformer' = featureTransformer
        BY <1>1, <2>1 DEF TurnOfLoop, marker, TreeInv, TreeState, TypeOK
    <2>3. /\ features'[pos].id = f.id /\ ~features'[pos].suppressed
          /\ EffectiveValue(features'[pos], featureTransformer') = val
        BY <1>4, <1>f, <2>1, <2>2 DEF SameButStatus, EffectiveValue
    <2> QED BY <1>4, <2>1, <2>2, <2>3 DEF Backed
<1>5. ASSUME Resolves(f), NEW used \in ReferencedOps(f) PROVE Backed(used[1], used[2], pos - 1)'
    <2>1. f.ref \in DOMAIN cache /\ used \in Uses(cache[f.ref])
        BY <1>5 DEF ReferencedOps, Resolves, ResolvesIn
    <2>2. PICK op \in Range(cache[f.ref].geo) : used = <<op.by, op.val>>
        BY <2>1 DEF Uses
    <2> QED BY <1>3, <2>1, <2>2
<1>6. Kept(shape)
    <2>1. CASE shape = currentShape
        BY <1>3, <2>1
    <2>2. CASE /\ status = "OK" /\ ~f.suppressed /\ Resolves(f)
               /\ shape = ExecutedShape(f, val, currentShape, ReferencedOps(f), counter + 1)
        <3>own. PICK own : own = [by |-> f.id, val |-> val, on |-> ReferencedOps(f)]
            OBVIOUS
        <3>1. currentShape \in Shapes
            BY DEF TreeInv, TreeState, TypeOK
        <3>2. \A op \in Range(shape.geo) : op = own \/ op \in Range(currentShape.geo)
            BY <2>2, <3>own, <3>1, ExecutedOps
        <3>3. Backed(own.by, own.val, pos - 1)'
            BY <1>4, <2>2, <3>own
        <3>4. \A used \in own.on : Backed(used[1], used[2], pos - 1)'
            BY <1>5, <2>2, <3>own
        <3> QED BY <1>3, <3>2, <3>3, <3>4
    <2> QED BY <1>1, <2>1, <2>2
<1>7. /\ currentShape' = shape /\ DOMAIN cache' = DOMAIN cache \cup {f.id}
      /\ \A id \in DOMAIN cache' : cache'[id] = shape \/ (id \in DOMAIN cache /\ cache'[id] = cache[id])
    BY <1>1, <1>f DEF TurnOfLoop, Put
<1>8. Kept(currentShape') /\ \A id \in DOMAIN cache' : Kept(cache'[id])
    BY <1>3, <1>6, <1>7
<1> QED BY <1>8 DEF RunIsOwn, BackedShape

-----------------------------------------------------------------------------
(* What execute() returns *)

(* At the end of the loop, nothing broken and a shape made, the shape is   *)
(* the one the reference computes for the tree under this configuration.   *)
LEMMA OkMatchesReference ==
    ASSUME TreeInv, FullReplaying, Returning, BrokenFeatures = {}, ~IsNull(currentShape)
    PROVE  currentShape = FullReplay(features, featureTransformer)[Len(features)].shape
<1> DEFINE n == Len(features)
           known == [m \in 0..n |-> Known(m)]
<1>1. n \in Nat /\ pos - 1 = n
    BY ListFacts DEF Returning, TreeInv, LoopInList, TreeState, TypeOK
<1>2. Unbroken
    BY DEF Unbroken, BrokenFeatures
<1>3. currentShape = Known(n).shape
    BY <1>1, <1>2 DEF TreeInv, FollowsReference
<1>4. n \in 1..n
    <2>1. n # 0
        BY <1>3 DEF Known, Nothing, NullShape, IsNull
    <2> QED BY <1>1, <2>1
<1>5. known[0] = Nothing
    BY <1>1 DEF Known
<1>6. ASSUME NEW m \in 1..n
      PROVE  known[m] = Replayed(features, featureTransformer, known[m - 1], features[m])
    <2>1. m \in 1..(pos - 1) /\ m - 1 \in 0..n /\ m \in 0..n /\ m \in Nat
        BY <1>1
    <2>2. Known(m) = Replayed(features, featureTransformer, Known(m - 1), features[m])
        BY <1>2, <2>1 DEF TreeInv, FollowsReference
    <2> QED BY <2>1, <2>2
<1>7. FullReplay(features, featureTransformer)[n] = known[n]
    <2> HIDE DEF known
    <2> QED BY <1>1, <1>4, <1>5, <1>6, FullReplayIs
<1>8. known[n] = Known(n)
    BY <1>4
<1> QED BY <1>3, <1>7, <1>8

(* The inductive invariant of a call: what it has made, and what it gave. *)
CallInv == RunIsOwn /\ OutputUsesThisConfig /\ OkMeansComplete

LEMMA StepKeepsCall ==
    ASSUME StudioInv, TreeInv, CallInv, PSNext \/ UNCHANGED psVars
    PROVE  CallInv'
<1>1. CASE ExecuteReplay
    <2>1. call' = "replaying" /\ cache' = EmptyMap /\ currentShape' = NullShape
        BY <1>1 DEF ExecuteReplay, Replay
    <2>2. DOMAIN EmptyMap = {} /\ Range(NullShape.geo) = {}
        BY DEF EmptyMap, NullShape, Range
    <2> QED BY <2>1, <2>2 DEF CallInv, RunIsOwn, BackedShape, OutputUsesThisConfig, OkMeansComplete
<1>2. CASE ExecuteLoop
    <2>1. call = "replaying" /\ call' = "replaying" /\ TurnStep
        BY <1>2 DEF ExecuteLoop, TurnStep, studio
    <2> QED BY <2>1, TurnIsOwn DEF CallInv, OutputUsesThisConfig, OkMeansComplete
<1>3. CASE ExecuteReturn
    <2>1. /\ call = "replaying" /\ Returning /\ call' = "returned" /\ finalShape' = currentShape
          /\ UNCHANGED <<features, featureTransformer>>
          /\ outcome' = "Ok" => ~IsNull(currentShape) /\ BrokenFeatures = {}
        BY <1>3 DEF ExecuteReturn, Return, Returning, marker
    <2>2. OutputUsesThisConfig'
        <3>1. \A by, val, n : Backed(by, val, n) => Supports(by, val)
            BY DEF Backed, Supports
        <3>2. \A by, val : Supports(by, val)' <=> Supports(by, val)
            BY <2>1 DEF Supports
        <3>3. BackedShape(currentShape, pos - 1)
            BY <2>1 DEF CallInv, RunIsOwn
        <3> QED BY <2>1, <3>1, <3>2, <3>3 DEF OutputUsesThisConfig, BackedShape
    <2>3. OkMeansComplete'
        <3>1. FullReplaying
            BY <2>1 DEF StudioInv, CallFollowsLoop, FullReplaying
        <3> QED BY <2>1, <3>1, OkMatchesReference DEF OkMeansComplete
    <2> QED BY <2>1, <2>2, <2>3 DEF CallInv, RunIsOwn
<1>4. CASE UNCHANGED psVars
    BY <1>4 DEF psVars, vars, maps, marker, loop, studio, CallInv, RunIsOwn, BackedShape, Backed,
                OutputUsesThisConfig, Supports, OkMeansComplete
<1>5. ASSUME call' \notin {"replaying", "returned"} PROVE CallInv'
    BY <1>5 DEF CallInv, RunIsOwn, OutputUsesThisConfig, OkMeansComplete
<1>6. CASE \/ TreeStep \/ ClearSchema \/ ExecuteThrows \/ ExecuteLeave \/ Save \/ Load
           \/ \E i \in Markers : SetRollbackIndex(i) /\ call = "none" /\ UNCHANGED studio
           \/ \E name \in Inputs, spec \in Specs : AddInput(name, spec)
           \/ \E config \in ConfigValues : ExecuteRejected(config) \/ ExecuteEnter(config)
    <2>1. call' \in {"none", "thrown", "rejected", "entered"}
        BY <1>6 DEF TreeStep, ClearSchema, ExecuteThrows, ExecuteLeave, Save, Load, AddInput,
                    ExecuteRejected, ExecuteEnter, studio
    <2> QED BY <1>5, <2>1
<1> QED BY <1>1, <1>2, <1>3, <1>4, <1>6 DEF PSNext

LEMMA CallInvAlways == PSSpec => []CallInv
<1>1. PSInit => CallInv
    BY DEF PSInit, CallInv, RunIsOwn, OutputUsesThisConfig, OkMeansComplete
<1>2. (StudioInv /\ TreeInv) /\ CallInv /\ [PSNext]_psVars => CallInv'
    BY StepKeepsCall
<1> QED BY <1>1, <1>2, StudioInvAlways, PTL DEF PSSpec

(* What the runs check as OutputUsesThisConfig: a shape that execute()     *)
(* returns never holds work of an earlier execution: every operation in    *)
(* it, and every operation it referred to, was done in this call, by a     *)
(* feature that succeeded with the value this configuration gives it.      *)
THEOREM OutputAlwaysUsesThisConfig == PSSpec => []OutputUsesThisConfig
<1>1. CallInv => OutputUsesThisConfig
    BY DEF CallInv
<1> QED BY <1>1, CallInvAlways, PTL

(* What the runs check as OkMeansComplete: when execute() answers Ok, its  *)
(* shape, identities included, is the one a tree that was never executed   *)
(* would give under this configuration.                                    *)
THEOREM OkAlwaysMeansComplete == PSSpec => []OkMeansComplete
<1>1. CallInv => OkMeansComplete
    BY DEF CallInv
<1> QED BY <1>1, CallInvAlways, PTL

=============================================================================
