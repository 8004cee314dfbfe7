--------------------------- MODULE ExchangeProofs ---------------------------
(***************************************************************************)
(* Theorems about the imports and exports of several threads, for any      *)
(* threads, settings, files, limits and documents: no two of them disturb  *)
(* each other's settings or temporary files, and limits are kept.          *)
(***************************************************************************)
EXTENDS DataExchange, Recursion, SequenceTheorems

-----------------------------------------------------------------------------
(* What an export writes *)

(* The labels made of the first n shapes of a list.                         *)
LabelsMade(shapes, metas, labels) ==
    /\ labels[0] = <<>>
    /\ \A n \in 1..Len(shapes) :
          labels[n] = IF shapes[n] = None THEN labels[n - 1]
                      ELSE Append(labels[n - 1], LabelAt(shapes, metas, n))

LEMMA ExportIsMade ==
    ASSUME NEW S, NEW shapes \in Seq(S), NEW metas,
           NEW L, \A n \in 1..Len(shapes) : LabelAt(shapes, metas, n) \in L
    PROVE  \E labels \in [0..Len(shapes) -> Seq(L)] :
              /\ LabelsMade(shapes, metas, labels)
              /\ ExportWithXcaf(shapes, metas) = labels[Len(shapes)]
<1>1. PICK top \in Nat : top = Len(shapes)
    OBVIOUS
<1> DEFINE step == [n \in 1..top |-> [s \in Seq(L) |->
                       IF shapes[n] = None THEN s ELSE Append(s, LabelAt(shapes, metas, n))]]
           solves(h) == h = [n \in 0..top |->
                                IF n = 0 THEN <<>>
                                ELSE IF shapes[n] = None THEN h[n - 1]
                                ELSE Append(h[n - 1], LabelAt(shapes, metas, n))]
<1>2. step \in [1..top -> [Seq(L) -> Seq(L)]]
    <2>1. ASSUME NEW n \in 1..top, NEW s \in Seq(L)
          PROVE  (IF shapes[n] = None THEN s ELSE Append(s, LabelAt(shapes, metas, n))) \in Seq(L)
        BY <1>1
    <2> QED BY <2>1
<1>3. PICK made \in [0..top -> Seq(L)] : MadeUpTo(top, made, <<>>, step)
    <2>1. <<>> \in Seq(L)
        OBVIOUS
    <2> HIDE DEF step
    <2> QED BY <1>2, <2>1, StepsExist
<1>4. solves(made)
    <2>1. ASSUME NEW n \in 0..top
          PROVE  made[n] = IF n = 0 THEN <<>>
                           ELSE IF shapes[n] = None THEN made[n - 1]
                           ELSE Append(made[n - 1], LabelAt(shapes, metas, n))
        <3>1. CASE n = 0
            BY <3>1, <1>3 DEF MadeUpTo
        <3>2. CASE n # 0
            <4>1. n \in 1..top /\ n - 1 \in 0..top
                BY <3>2
            <4>2. made[n - 1] \in Seq(L)
                BY <4>1
            <4>3. made[n] = step[n][made[n - 1]]
                <5> HIDE DEF step
                <5> QED BY <4>1, <1>3 DEF MadeUpTo
            <4> QED BY <3>2, <4>1, <4>2, <4>3
        <3> QED BY <3>1, <3>2
    <2> HIDE DEF step
    <2> QED BY <2>1
<1>5. PICK labels : solves(labels) /\ ExportWithXcaf(shapes, metas) = labels[top]
    <2> DEFINE k == CHOOSE h : solves(h)
    <2>1. ExportWithXcaf(shapes, metas) = k[top]
        BY <1>1 DEF ExportWithXcaf
    <2>2. solves(k)
        <3> HIDE DEF solves
        <3> QED BY <1>4
    <2> HIDE DEF k, solves
    <2> QED BY <2>1, <2>2
<1> HIDE DEF step
<1>6. LabelsMade(shapes, metas, labels)
    <2>1. ASSUME NEW n \in 0..top
          PROVE  labels[n] = IF n = 0 THEN <<>>
                             ELSE IF shapes[n] = None THEN labels[n - 1]
                             ELSE Append(labels[n - 1], LabelAt(shapes, metas, n))
        BY <1>5, Zenon
    <2>2. labels[0] = <<>>
        BY <2>1, <1>1
    <2>3. ASSUME NEW n \in 1..top
          PROVE  labels[n] = IF shapes[n] = None THEN labels[n - 1]
                             ELSE Append(labels[n - 1], LabelAt(shapes, metas, n))
        <3>1. n \in 0..top /\ n # 0
            OBVIOUS
        <3> QED BY <3>1, <2>1, Zenon
    <2> QED BY <1>1, <2>2, <2>3 DEF LabelsMade
<1>7. \A n \in 0..top : labels[n] \in Seq(L)
    <2> DEFINE T == {n \in 0..top : labels[n] \in Seq(L)}
    <2>1. 0 \in T
        <3>1. labels[0] = <<>>
            BY <1>6, Zenon DEF LabelsMade
        <3>2. <<>> \in Seq(L) /\ 0 \in 0..top
            BY <1>1
        <3> QED BY <3>1, <3>2
    <2>2. ASSUME NEW n \in 1..top, n - 1 \in T PROVE n \in T
        <3>1. labels[n - 1] \in Seq(L) /\ LabelAt(shapes, metas, n) \in L /\ n \in 0..top
            BY <2>2, <1>1
        <3>2. Append(labels[n - 1], LabelAt(shapes, metas, n)) \in Seq(L)
            BY <3>1
        <3>3. labels[n] = Append(labels[n - 1], LabelAt(shapes, metas, n)) \/ labels[n] = labels[n - 1]
            BY <1>1, <1>6 DEF LabelsMade
        <3> QED BY <3>1, <3>2, <3>3
    <2>3. 0..top \subseteq T
        <3> HIDE DEF T
        <3> QED BY <1>1, <2>1, <2>2, UpTo
    <2> QED BY <2>3
<1>8. labels \in [0..top -> Seq(L)]
    <2>1. labels = [n \in 0..top |-> labels[n]]
        BY <1>5
    <2> QED BY <2>1, <1>7
<1> QED BY <1>1, <1>5, <1>6, <1>8

(* The labels are those of the first n shapes that are not null.            *)
LabelsOfFirst(n, labels, shapes, metas) ==
    \E place \in [1..Len(labels) -> 1..n] :
        /\ \A i, j \in 1..Len(labels) : i < j => place[i] < place[j]
        /\ \A i \in 1..Len(labels) :
              labels[i] = LabelAt(shapes, metas, place[i]) /\ shapes[place[i]] # None
        /\ \A p \in 1..n : shapes[p] # None => \E i \in 1..Len(labels) : place[i] = p

(* A null shape leaves the labels as they are; another one adds its own.    *)
LEMMA LabelsOfNext ==
    ASSUME NEW n \in Nat \ {0}, NEW shapes, NEW metas, NEW L, NEW s \in Seq(L),
           LabelsOfFirst(n - 1, s, shapes, metas), LabelAt(shapes, metas, n) \in L
    PROVE  /\ shapes[n] = None => LabelsOfFirst(n, s, shapes, metas)
           /\ shapes[n] # None =>
                  LabelsOfFirst(n, Append(s, LabelAt(shapes, metas, n)), shapes, metas)
<1>1. PICK place \in [1..Len(s) -> 1..(n - 1)] :
          /\ \A i, j \in 1..Len(s) : i < j => place[i] < place[j]
          /\ \A i \in 1..Len(s) :
                s[i] = LabelAt(shapes, metas, place[i]) /\ shapes[place[i]] # None
          /\ \A p \in 1..(n - 1) : shapes[p] # None => \E i \in 1..Len(s) : place[i] = p
    BY DEF LabelsOfFirst
<1>2. ASSUME shapes[n] = None PROVE LabelsOfFirst(n, s, shapes, metas)
    <2>1. place \in [1..Len(s) -> 1..n]
        OBVIOUS
    <2>2. \A p \in 1..n : shapes[p] # None => p \in 1..(n - 1)
        BY <1>2
    <2> QED BY <1>1, <2>1, <2>2 DEF LabelsOfFirst
<1>3. ASSUME shapes[n] # None
      PROVE  LabelsOfFirst(n, Append(s, LabelAt(shapes, metas, n)), shapes, metas)
    <2>1. PICK label \in L : label = LabelAt(shapes, metas, n)
        OBVIOUS
    <2>2. PICK t \in Seq(L) : t = Append(s, label)
        <3>1. Append(s, label) \in Seq(L)
            BY AppendProperties
        <3> QED BY <3>1
    <2>3. /\ Len(t) = Len(s) + 1 /\ Len(s) \in Nat /\ t[Len(t)] = label
          /\ \A i \in 1..Len(s) : t[i] = s[i]
        BY <2>2
    <2> DEFINE q == [i \in 1..Len(t) |-> IF i = Len(t) THEN n ELSE place[i]]
    <2>4. q \in [1..Len(t) -> 1..n]
        BY <2>3
    <2>5. \A i \in 1..Len(t) : i # Len(t) => i \in 1..Len(s) /\ q[i] = place[i]
        BY <2>3
    <2>6. q[Len(t)] = n /\ Len(t) \in 1..Len(t)
        BY <2>3
    <2> HIDE DEF q
    <2>7. ASSUME NEW i \in 1..Len(t), NEW j \in 1..Len(t), i < j PROVE q[i] < q[j]
        <3>1. i # Len(t) /\ i \in 1..Len(s) /\ q[i] = place[i]
            BY <2>5, <2>7, <2>3
        <3>2. CASE j = Len(t)
            <4>1. place[i] \in 1..(n - 1)
                BY <3>1
            <4> QED BY <3>1, <3>2, <2>6, <4>1
        <3>3. CASE j # Len(t)
            BY <3>1, <3>3, <2>5, <1>1, <2>7
        <3> QED BY <3>2, <3>3
    <2>8. ASSUME NEW i \in 1..Len(t)
          PROVE  t[i] = LabelAt(shapes, metas, q[i]) /\ shapes[q[i]] # None
        <3>1. CASE i = Len(t)
            BY <3>1, <2>1, <2>3, <2>6, <1>3
        <3>2. CASE i # Len(t)
            BY <3>2, <2>5, <2>3, <1>1
        <3> QED BY <3>1, <3>2
    <2>9. ASSUME NEW p \in 1..n, shapes[p] # None PROVE \E i \in 1..Len(t) : q[i] = p
        <3>1. CASE p = n
            BY <3>1, <2>6
        <3>2. CASE p # n
            <4>1. PICK i \in 1..Len(s) : place[i] = p
                <5>1. p \in 1..(n - 1)
                    BY <3>2
                <5> QED BY <5>1, <1>1, <2>9
            <4>2. i \in 1..Len(t) /\ i # Len(t)
                BY <2>3
            <4> QED BY <4>1, <4>2, <2>5
        <3> QED BY <3>1, <3>2
    <2>10. LabelsOfFirst(n, t, shapes, metas)
        BY <2>4, <2>7, <2>8, <2>9 DEF LabelsOfFirst
    <2> QED BY <2>1, <2>2, <2>10
<1> QED BY <1>2, <1>3

(* What exportWithXcaf writes.                                              *)
LEMMA ExportLabelsTheShapes ==
    ASSUME NEW S, NEW shapes \in Seq(S), NEW metas
    PROVE  LabelsTheShapes(ExportWithXcaf(shapes, metas), shapes, metas)
<1> DEFINE L == {LabelAt(shapes, metas, n) : n \in 1..Len(shapes)}
<1>1. \A n \in 1..Len(shapes) : LabelAt(shapes, metas, n) \in L
    OBVIOUS
<1> HIDE DEF L
<1>2. PICK labels \in [0..Len(shapes) -> Seq(L)] :
          /\ LabelsMade(shapes, metas, labels)
          /\ ExportWithXcaf(shapes, metas) = labels[Len(shapes)]
    BY <1>1, ExportIsMade
<1>3. PICK top \in Nat : top = Len(shapes) /\ DOMAIN shapes = 1..top
    OBVIOUS
<1> DEFINE T == {n \in 0..top : LabelsOfFirst(n, labels[n], shapes, metas)}
<1>4. 0 \in T
    <2>1. Len(labels[0]) = 0
        BY <1>2 DEF LabelsMade
    <2>2. [i \in 1..0 |-> 0] \in [1..Len(labels[0]) -> 1..0]
        BY <2>1
    <2> QED BY <2>1, <2>2, <1>3, SMTT(40) DEF LabelsOfFirst
<1>5. ASSUME NEW n \in 1..top, n - 1 \in T PROVE n \in T
    <2>1. /\ n \in Nat \ {0} /\ labels[n - 1] \in Seq(L) /\ LabelAt(shapes, metas, n) \in L
          /\ n \in 0..top
        <3>1. n \in Nat \ {0} /\ n \in 0..top /\ n - 1 \in 0..Len(shapes) /\ n \in 1..Len(shapes)
            BY <1>3
        <3>2. labels[n - 1] \in Seq(L)
            BY <3>1
        <3> QED BY <1>1, <3>1, <3>2
    <2>2. LabelsOfFirst(n - 1, labels[n - 1], shapes, metas)
        BY <1>5
    <2>3. CASE shapes[n] = None
        <3>1. labels[n] = labels[n - 1]
            BY <1>2, <1>3, <2>3 DEF LabelsMade
        <3> QED BY <2>1, <2>2, <2>3, <3>1, LabelsOfNext
    <2>4. CASE shapes[n] # None
        <3>1. labels[n] = Append(labels[n - 1], LabelAt(shapes, metas, n))
            BY <1>2, <1>3, <2>4 DEF LabelsMade
        <3> QED BY <2>1, <2>2, <2>4, <3>1, LabelsOfNext
    <2> QED BY <2>3, <2>4
<1>6. LabelsOfFirst(top, labels[top], shapes, metas)
    <2>1. 0..top \subseteq T
        <3> HIDE DEF T
        <3> QED BY <1>3, <1>4, <1>5, UpTo
    <2> QED BY <2>1
<1>7. PICK s \in Seq(L) : s = labels[top]
    BY <1>3
<1>8. PICK place \in [1..Len(s) -> 1..top] :
          /\ \A i, j \in 1..Len(s) : i < j => place[i] < place[j]
          /\ \A i \in 1..Len(s) :
                s[i] = LabelAt(shapes, metas, place[i]) /\ shapes[place[i]] # None
          /\ \A p \in 1..top : shapes[p] # None => \E i \in 1..Len(s) : place[i] = p
    BY <1>6, <1>7 DEF LabelsOfFirst
<1> DEFINE given == {p \in DOMAIN shapes : shapes[p] # None}
<1>9. DOMAIN s = 1..Len(s) /\ place \in [DOMAIN s -> given]
    BY <1>3, <1>8
<1>10. \A p \in given : \E i \in DOMAIN s : place[i] = p
    BY <1>3, <1>8, <1>9
<1>11. LabelsTheShapes(s, shapes, metas)
    BY <1>8, <1>9, <1>10 DEF LabelsTheShapes
<1> QED BY <1>2, <1>3, <1>7, <1>11

-----------------------------------------------------------------------------
(* One call *)

Results == {"none", "ok", "failed", "thrown"}
Bytes == Sizes \cup {0, Unknown}
Lists == {<<>>} \cup {x.shapes : x \in Exports}
MetaLists == {<<>>} \cup {x.metas : x \in Exports}
Written == {ExportWithXcaf(s, m) : s \in Lists, m \in MetaLists}
ReadShapes == {None, "Sewn", "Compound"} \cup {ImportWithXcaf(roots).shape : roots \in Documents}
ReadMetas == {NoMetadata} \cup {ImportWithXcaf(roots).meta : roots \in Documents}

CallRecords ==
    [op : Ops \cup {Nobody}, phase : Phases, bytes : Bytes, shapes : Lists, metas : MetaLists,
     temp : TempNames \cup {Nobody}, tried : Nat, todo : Seq(Settings),
     roots : {<<>>} \cup Documents \cup Written, shape : ReadShapes, meta : ReadMetas,
     drawn : {<<>>} \cup {Drawn(op) : op \in Ops}, warned : BOOLEAN, result : Results]

(* The phases in which a call has not decided on its result. *)
Undecided == Phases \ {"idle", "closing", "returned", "unstaging"}

Within(c) == BufferLimit = 0 \/ c.bytes <= BufferLimit

Measured(c) == c.bytes \in Sizes \cup {0}

(* The metadata is that of the root that was read, or none, with a warning. *)
OwnMetadata(c) == c.meta = IF c.warned THEN NoMetadata ELSE ExtractMetadata(Head(c.roots))

IsStepImport(c) == c.op \in StepOps \cap ImportOps

(* What was written are the labels of the shapes that were given, or, with  *)
(* a warning, labels without metadata.                                      *)
OwnLabels(c) == LabelsTheShapes(c.roots, c.shapes, IF c.warned THEN <<>> ELSE c.metas)

IsStepExport(c) == c.op \in StepOps \ ImportOps

LabelsFit(c) == IsStepExport(c) /\ c.result = "ok" /\ c.phase # "idle" => OwnLabels(c)

(* A call has the file it is to have, and no other. *)
FileFits(c) ==
    /\ c.temp # Nobody => c.op \in StagedOps /\ c.phase \notin {"idle", "called", "staging"}
    /\ c.op \in StagedOps /\ c.phase \notin {"idle", "called", "staging"} => c.temp # Nobody

(* A call is where its operation can take it. *)
PhaseFits(c) ==
    /\ c.phase \in {"locking", "setting", "fallback", "closing"} => c.op \in GuardedOps
    /\ c.phase = "staging" => c.op \in StagedOps
    /\ c.phase = "adopting" => c.op \in ImportOps
    /\ c.phase = "packing" => c.op \in ThreeMfOps
    /\ c.phase \in {"returned", "unstaging"} => c.temp # Nobody
    /\ c.phase = "setting" => c.todo # <<>>
    /\ c.phase \in Undecided => c.result = "none"
    /\ c.phase \in Undecided \ {"adopting", "fallback"} => ~c.warned

QuotaFits(c) ==
    /\ c.phase \in {"locking", "setting", "converting", "fallback", "adopting"} /\ c.op \in ImportOps
         => ~OverQuota(c)
    /\ c.phase = "packing" => Measured(c)
    /\ c.op = "exportStl" /\ c.result = "ok" /\ c.phase # "idle" => Measured(c)
    /\ c.op = "exportStl" /\ c.result = "ok" /\ c.phase \in {"idle", "unstaging"} => Within(c)
    /\ c.op = "exportThreeMf" /\ c.result = "ok" => Within(c)

MetadataFits(c) ==
    /\ IsStepImport(c) /\ (c.phase = "adopting" \/ (c.result = "ok" /\ c.phase # "idle")) => OwnMetadata(c)
    /\ LabelsFit(c)

CallFits(c) ==
    c \in CallRecords /\ FileFits(c) /\ PhaseFits(c) /\ QuotaFits(c) /\ MetadataFits(c)

(* The call has a guard open; and it reads or writes under it. *)
Holding(c) == c.op \in GuardedOps /\ c.phase \in {"setting", "converting", "fallback", "adopting", "closing"}
Using(c) == c.op \in GuardedOps /\ c.phase \in {"converting", "fallback", "adopting"}

(* The call went on with neither its guard nor its file. *)
Worked(c, d) ==
    /\ CallFits(d)
    /\ Holding(d) <=> Holding(c)
    /\ Using(d) => Using(c) /\ d.op = c.op
    /\ d.phase = "setting" => d = c
    /\ d.temp = c.temp

LEMMA SizeFacts == Sizes \subseteq Nat /\ BufferLimit \in Nat /\ Nobody \notin TempNames
BY ExchangeAssumption DEF ExchangeAssumption

LEMMA OpsKinds ==
    /\ StepOps \subseteq GuardedOps /\ IgesOps \subseteq GuardedOps /\ GuardedOps \subseteq Ops
    /\ ImportOps \subseteq Ops /\ StagedOps \subseteq Ops /\ ThreeMfOps \subseteq Ops /\ StlOps \subseteq Ops
    /\ ThreeMfOps \cap GuardedOps = {} /\ ThreeMfOps \cap StagedOps = {} /\ ThreeMfOps \cap ImportOps = {}
    /\ StlOps \cap GuardedOps = {} /\ "exportStl" \in StagedOps \ ImportOps
    /\ "exportThreeMf" \in ThreeMfOps /\ "exportStl" \in StlOps
    /\ StepOps \cap IgesOps = {} /\ StlOps \cap StepOps = {} /\ StlOps \cap IgesOps = {}
BY DEF StepOps, IgesOps, StlOps, ThreeMfOps, Ops, GuardedOps, ImportOps, StagedOps

LEMMA NoCallFits == CallFits(NoCall) /\ ~Holding(NoCall)
<1>1. NoCall \in CallRecords
    BY DEF NoCall, CallRecords, Phases, Bytes, Lists, MetaLists, ReadShapes, ReadMetas, Results
<1>2. FileFits(NoCall) /\ PhaseFits(NoCall) /\ ~Holding(NoCall)
    BY DEF NoCall, FileFits, PhaseFits, Holding, Undecided
<1>3. QuotaFits(NoCall) /\ MetadataFits(NoCall)
    BY DEF NoCall, QuotaFits, MetadataFits, LabelsFit
<1> QED BY <1>1, <1>2, <1>3 DEF CallFits

(* What a call leaves when it returns. *)
LEMMA ReturnedIs ==
    ASSUME NEW c \in CallRecords
    PROVE  /\ Returned(c) \in CallRecords
           /\ Returned(c).op = c.op /\ Returned(c).phase = "idle" /\ Returned(c).temp = Nobody
           /\ Returned(c).result = c.result /\ Returned(c).warned = FALSE
           /\ c.op \notin ImportOps => Returned(c).bytes = c.bytes
<1>1. NoCall \in CallRecords
    BY NoCallFits DEF CallFits
<1>2. c.op \in Ops \cup {Nobody} /\ c.result \in Results /\ c.bytes \in Bytes /\ 0 \in Bytes
    BY DEF CallRecords, Bytes
<1>3. NoCall.phase = "idle" /\ NoCall.temp = Nobody /\ NoCall.warned = FALSE
    BY DEF NoCall
<1>4. PICK bytes \in Bytes : /\ bytes = IF c.op \in ImportOps THEN 0 ELSE c.bytes
    BY <1>2
<1>5. Returned(c) = [NoCall EXCEPT !.op = c.op, !.result = c.result, !.bytes = bytes]
    BY <1>4 DEF Returned
<1>6. Returned(c) \in CallRecords
    BY <1>1, <1>2, <1>5 DEF CallRecords
<1>7. /\ Returned(c).op = c.op /\ Returned(c).result = c.result /\ Returned(c).bytes = bytes
      /\ Returned(c).phase = "idle" /\ Returned(c).temp = Nobody /\ Returned(c).warned = FALSE
    BY <1>1, <1>3, <1>5 DEF CallRecords
<1> QED BY <1>4, <1>6, <1>7

(* The fields that neither the phase nor the result is. *)
SameData(c, d) ==
    /\ d.op = c.op /\ d.bytes = c.bytes /\ d.temp = c.temp /\ d.todo = c.todo
    /\ d.roots = c.roots /\ d.meta = c.meta /\ d.warned = c.warned
    /\ d.shapes = c.shapes /\ d.metas = c.metas

LEMMA Moved ==
    ASSUME NEW c \in CallRecords, NEW phase \in Phases, NEW d, d = [c EXCEPT !.phase = phase]
    PROVE  d \in CallRecords /\ d.phase = phase /\ d.result = c.result /\ SameData(c, d)
BY DEF CallRecords, SameData

(* A call that ends unwinds what it has opened. *)
LEMMA EndedWorks ==
    ASSUME NEW c \in CallRecords, CallFits(c), c.phase \in Undecided,
           c.phase # "setting", NEW result \in Results,
           result = "ok" => /\ c.op = "exportStl" => Measured(c) /\ c.temp # Nobody
                            /\ c.op = "exportThreeMf" => Within(c)
                            /\ IsStepImport(c) => OwnMetadata(c)
                            /\ IsStepExport(c) => OwnLabels(c)
    PROVE  Worked(c, Ended(c, result))
<1>1. PICK p \in Phases : p = Unwound(c)
    BY DEF Unwound, Phases
<1>2. PICK d : d = [c EXCEPT !.phase = p, !.result = result]
    OBVIOUS
<1>3. d \in CallRecords /\ d.phase = p /\ d.result = result /\ SameData(c, d)
    BY <1>2 DEF CallRecords, SameData
<1>4. Ended(c, result) = IF p = "idle" THEN Returned(d) ELSE d
    BY <1>1, <1>2, <1>3 DEF Ended
<1>5. CASE c.phase \in {"converting", "fallback", "adopting"} /\ c.op \in GuardedOps
    <2>1. p = "closing"
        BY <1>1, <1>5 DEF Unwound
    <2>2. d.phase = "closing" /\ Ended(c, result) = d
        BY <1>3, <1>4, <2>1
    <2>3. FileFits(d) /\ PhaseFits(d) /\ MetadataFits(d)
        BY <1>3, <1>5, <2>2, OpsKinds DEF CallFits, FileFits, PhaseFits, MetadataFits, LabelsFit, SameData, Undecided,
            IsStepImport, OwnMetadata, IsStepExport, OwnLabels
    <2>4. QuotaFits(d)
        <3>1. c.op # "exportStl" /\ c.op # "exportThreeMf"
            BY <1>5, OpsKinds
        <3> QED BY <1>3, <2>2, <3>1 DEF QuotaFits, SameData
    <2>5. Holding(d) /\ Holding(c) /\ ~Using(d)
        BY <1>3, <1>5, <2>2 DEF Holding, Using, SameData
    <2> QED BY <1>3, <2>2, <2>3, <2>4, <2>5 DEF Worked, CallFits, SameData
<1>6. CASE ~(c.phase \in {"converting", "fallback", "adopting"} /\ c.op \in GuardedOps)
    <2>1. ~Holding(c)
        BY <1>6 DEF Holding, Undecided
    <2>2. CASE c.op \in StagedOps /\ c.temp # Nobody
        <3>1. d.phase = "returned" /\ Ended(c, result) = d
            BY <1>1, <1>3, <1>6, <1>4, <2>2 DEF Unwound
        <3>2. FileFits(d) /\ PhaseFits(d) /\ MetadataFits(d)
            BY <1>3, <2>2, <3>1 DEF FileFits, PhaseFits, MetadataFits, LabelsFit, SameData, Undecided,
                IsStepImport, OwnMetadata, IsStepExport, OwnLabels
        <3>3. QuotaFits(d)
            BY <1>3, <3>1 DEF QuotaFits, SameData, Measured, Within
        <3>4. ~Holding(d) /\ ~Using(d)
            BY <3>1 DEF Holding, Using
        <3> QED BY <1>3, <2>1, <3>1, <3>2, <3>3, <3>4 DEF Worked, CallFits, SameData
    <2>3. CASE ~(c.op \in StagedOps /\ c.temp # Nobody)
        <3>1. d.phase = "idle" /\ Ended(c, result) = Returned(d)
            BY <1>1, <1>3, <1>6, <1>4, <2>3 DEF Unwound
        <3>2. c.temp = Nobody
            BY <2>3 DEF CallFits, FileFits
        <3>3. PICK e : e = Returned(d)
            OBVIOUS
        <3>4. /\ e \in CallRecords /\ e.op = c.op /\ e.phase = "idle" /\ e.temp = Nobody
              /\ e.result = result /\ e.warned = FALSE
              /\ c.op \notin ImportOps => e.bytes = c.bytes
            BY <1>3, <3>3, ReturnedIs DEF SameData
        <3>5. FileFits(e) /\ PhaseFits(e) /\ MetadataFits(e) /\ ~Holding(e) /\ ~Using(e)
            BY <3>4 DEF FileFits, PhaseFits, MetadataFits, LabelsFit, Holding, Using, Undecided
        <3>6. QuotaFits(e)
            BY <3>2, <3>4, OpsKinds DEF QuotaFits, Within
        <3> QED BY <2>1, <3>1, <3>2, <3>3, <3>4, <3>5, <3>6 DEF Worked, CallFits
    <2> QED BY <2>2, <2>3
<1> QED BY <1>5, <1>6

-----------------------------------------------------------------------------
(* The steps of a call that touch neither a guard nor a file *)

CallsFit == calls \in [Threads -> CallRecords] /\ \A t \in Threads : CallFits(calls[t])

LEMMA CallWorks ==
    ASSUME CallsFit, NEW t \in Threads, Call(t)
    PROVE  \E d : Step(t, d) /\ Worked(calls[t], d)
<1> DEFINE c == calls[t]
<1>1. CallFits(c) /\ c \in CallRecords /\ c.phase = "idle" /\ c.temp = Nobody
    BY DEF CallsFit, Call, In, CallFits, FileFits
<1>2. ASSUME NEW d \in CallRecords, d.phase = "called", d.temp = Nobody, d.result = "none", d.warned = FALSE
      PROVE  Worked(c, d)
    BY <1>1, <1>2 DEF Worked, CallFits, FileFits, PhaseFits, QuotaFits, MetadataFits, LabelsFit, Holding, Using, Undecided,
        IsStepImport
<1>3. NoCall \in CallRecords /\ NoCall.temp = Nobody /\ NoCall.result = "none" /\ NoCall.warned = FALSE
    BY NoCallFits DEF CallFits, NoCall
<1>4. ThreadOps[t] \subseteq Ops /\ "called" \in Phases
    BY ExchangeAssumption DEF ExchangeAssumption, Phases
<1>5. ASSUME NEW op \in Ops, NEW bytes \in Bytes, NEW d,
             d = [NoCall EXCEPT !.op = op, !.phase = "called", !.bytes = bytes]
      PROVE  Worked(c, d)
    <2>1. d \in CallRecords /\ d.phase = "called" /\ d.temp = Nobody /\ d.result = "none" /\ d.warned = FALSE
        BY <1>3, <1>4, <1>5 DEF CallRecords
    <2> QED BY <1>2, <2>1
<1>6. ASSUME NEW op \in Ops, NEW bytes \in Bytes, NEW shapes \in Lists, NEW metas \in MetaLists, NEW d,
             d = [NoCall EXCEPT !.op = op, !.phase = "called", !.bytes = bytes,
                                !.shapes = shapes, !.metas = metas]
      PROVE  Worked(c, d)
    <2>1. d \in CallRecords /\ d.phase = "called" /\ d.temp = Nobody /\ d.result = "none" /\ d.warned = FALSE
        BY <1>3, <1>4, <1>6 DEF CallRecords
    <2> QED BY <1>2, <2>1
<1>7. PICK op \in Ops :
         \/ \E bytes \in Bytes :
                Step(t, [NoCall EXCEPT !.op = op, !.phase = "called", !.bytes = bytes])
         \/ \E x \in Exports, bytes \in {0, Unknown} :
                Step(t, [NoCall EXCEPT !.op = op, !.phase = "called",
                                       !.bytes = IF op \in WithPath THEN bytes ELSE Unknown,
                                       !.shapes = x.shapes, !.metas = x.metas])
    BY <1>4 DEF Call, Bytes
<1>8. CASE \E bytes \in Bytes : Step(t, [NoCall EXCEPT !.op = op, !.phase = "called", !.bytes = bytes])
    BY <1>5, <1>8
<1>9. ASSUME NEW x \in Exports, NEW bytes \in {0, Unknown},
             Step(t, [NoCall EXCEPT !.op = op, !.phase = "called",
                                    !.bytes = IF op \in WithPath THEN bytes ELSE Unknown,
                                    !.shapes = x.shapes, !.metas = x.metas])
      PROVE  \E d : Step(t, d) /\ Worked(c, d)
    <2>1. PICK b \in Bytes : b = IF op \in WithPath THEN bytes ELSE Unknown
        BY DEF Bytes
    <2>2. x.shapes \in Lists /\ x.metas \in MetaLists
        BY DEF Lists, MetaLists
    <2>3. PICK d : d = [NoCall EXCEPT !.op = op, !.phase = "called", !.bytes = b,
                                      !.shapes = x.shapes, !.metas = x.metas]
        OBVIOUS
    <2>4. Worked(c, d)
        BY <1>6, <2>2, <2>3
    <2>5. Step(t, d)
        BY <1>9, <2>1, <2>3
    <2> QED BY <2>4, <2>5
<1> QED BY <1>7, <1>8, <1>9

LEMMA CheckBufferWorks ==
    ASSUME CallsFit, NEW t \in Threads, CheckBuffer(t)
    PROVE  \E d : Step(t, d) /\ Worked(calls[t], d)
<1>1. PICK c \in CallRecords : c = calls[t] /\ CallFits(c) /\ c.phase = "called"
    BY DEF CallsFit, CheckBuffer, In
<1>2. ASSUME NEW phase \in {"checking", "staging"}, phase = "staging" <=> c.op \in StagedOps
      PROVE  Worked(c, [c EXCEPT !.phase = phase])
    <2>1. PICK d : d = [c EXCEPT !.phase = phase]
        OBVIOUS
    <2>2. d \in CallRecords /\ d.phase = phase /\ d.result = c.result /\ SameData(c, d)
        <3>1. phase \in Phases
            BY DEF Phases
        <3> QED BY <2>1, <3>1, Moved
    <2>3. FileFits(d) /\ PhaseFits(d) /\ ~Holding(d) /\ ~Holding(c) /\ ~Using(d) /\ d.temp = c.temp
        BY <1>1, <1>2, <2>2 DEF CallFits, FileFits, PhaseFits, SameData, Holding, Using, Undecided, Phases
    <2>4. QuotaFits(d) /\ MetadataFits(d)
        BY <1>1, <1>2, <2>2 DEF CallFits, PhaseFits, QuotaFits, MetadataFits, LabelsFit, SameData, Undecided, Phases
    <2> QED BY <1>2, <2>1, <2>2, <2>3, <2>4 DEF Worked, CallFits
<1>3. Worked(c, Ended(c, "failed"))
    BY <1>1, EndedWorks DEF Undecided, Results, Phases
<1> QED BY <1>1, <1>2, <1>3 DEF CheckBuffer

LEMMA CheckFileWorks ==
    ASSUME CallsFit, NEW t \in Threads, CheckFile(t)
    PROVE  \E d : Step(t, d) /\ Worked(calls[t], d)
<1>1. PICK c \in CallRecords : c = calls[t] /\ CallFits(c) /\ c.phase = "checking"
    BY DEF CallsFit, CheckFile, In
<1>2. ASSUME NEW phase, phase = IF c.op \in GuardedOps THEN "locking" ELSE "converting",
             c.op \in ImportOps => ~OverQuota(c)
      PROVE  Worked(c, [c EXCEPT !.phase = phase])
    <2>1. PICK d : d = [c EXCEPT !.phase = phase]
        OBVIOUS
    <2>2. d \in CallRecords /\ d.phase = phase /\ d.result = c.result /\ SameData(c, d)
        <3>1. phase \in Phases
            BY <1>2 DEF Phases
        <3> QED BY <2>1, <3>1, Moved
    <2>3. FileFits(d) /\ PhaseFits(d) /\ ~Holding(d) /\ ~Holding(c) /\ ~Using(d) /\ d.temp = c.temp
        BY <1>1, <1>2, <2>2 DEF CallFits, FileFits, PhaseFits, SameData, Holding, Using, Undecided, Phases
    <2>4. QuotaFits(d) /\ MetadataFits(d)
        BY <1>1, <1>2, <2>2
           DEF CallFits, PhaseFits, QuotaFits, MetadataFits, LabelsFit, SameData, OverQuota, Undecided, Phases
    <2> QED BY <1>2, <2>1, <2>2, <2>3, <2>4 DEF Worked, CallFits
<1>3. Worked(c, Ended(c, "failed"))
    BY <1>1, EndedWorks DEF Undecided, Results, Phases
<1>4. \A cancelled : ~FileRefused(c, cancelled) => (c.op \in ImportOps => ~OverQuota(c))
    BY DEF FileRefused
<1> QED BY <1>1, <1>2, <1>3, <1>4 DEF CheckFile

(* The lists a call is given are lists. *)
LEMMA ListsAreLabelled ==
    ASSUME NEW c \in CallRecords, NEW metas
    PROVE  LabelsTheShapes(ExportWithXcaf(c.shapes, metas), c.shapes, metas)
<1>1. c.shapes \in Lists
    BY DEF CallRecords
<1>2. \E S : c.shapes \in Seq(S)
    <2>1. \A x \in Exports : x.shapes \in Seq(Range(x.shapes))
        BY ExchangeAssumption DEF ExchangeAssumption
    <2>2. <<>> \in Seq({})
        OBVIOUS
    <2> QED BY <1>1, <2>1, <2>2 DEF Lists
<1> QED BY <1>2, ExportLabelsTheShapes

(* A call gets on with what it reads, writes or names, in the same phase.  *)
LEMMA PayloadFits ==
    ASSUME NEW c \in CallRecords, CallFits(c), c.phase \in Undecided, c.phase # "setting",
           NEW d \in CallRecords,
           d.op = c.op /\ d.temp = c.temp /\ d.phase = c.phase /\ d.result = c.result,
           \/ d.bytes = c.bytes
           \/ c.phase = "converting" /\ c.op \notin ImportOps,
           d.warned => c.phase \in {"adopting", "fallback"},
           IsStepImport(c) => d.meta = c.meta /\ d.warned = c.warned /\ d.roots = c.roots
    PROVE  CallFits(d) /\ \A e : Worked(d, e) => Worked(c, e)
<1>1. FileFits(d)
    BY DEF CallFits, FileFits
<1>2. PhaseFits(d)
    BY DEF CallFits, PhaseFits
<1>3. QuotaFits(d)
    BY DEF CallFits, PhaseFits, QuotaFits, OverQuota, Measured, Within
<1>4. MetadataFits(d)
    <2>1. d.result = "none"
        BY DEF CallFits, PhaseFits
    <2> QED BY <2>1 DEF CallFits, MetadataFits, LabelsFit, IsStepImport, OwnMetadata
<1>5. \A e : Worked(d, e) => Worked(c, e)
    BY DEF Worked, Holding, Using
<1> QED BY <1>1, <1>2, <1>3, <1>4, <1>5 DEF CallFits

(* The next attempt at the same file, or the shape that one has found.     *)
LEMMA AttemptWorks ==
    ASSUME NEW c \in CallRecords, CallFits(c), c.phase \in {"converting", "fallback"},
           NEW d \in CallRecords,
           d.op = c.op /\ d.temp = c.temp /\ d.bytes = c.bytes /\ d.result = c.result,
           \/ d.phase = "fallback" /\ c.op \in GuardedOps
           \/ d.phase = "adopting" /\ c.op \in ImportOps /\ (IsStepImport(c) => OwnMetadata(d))
    PROVE  Worked(c, d)
<1>1. FileFits(d)
    BY DEF CallFits, FileFits
<1>2. PhaseFits(d)
    BY DEF CallFits, PhaseFits, Undecided, Phases
<1>3. QuotaFits(d)
    BY DEF CallFits, PhaseFits, QuotaFits, OverQuota, Undecided, Phases
<1>4. MetadataFits(d)
    BY <1>2 DEF CallFits, PhaseFits, MetadataFits, LabelsFit, IsStepImport, Undecided, Phases
<1>5. /\ Holding(d) <=> Holding(c)
      /\ Using(d) => Using(c)
    BY DEF Holding, Using
<1> QED BY <1>1, <1>2, <1>3, <1>4, <1>5 DEF Worked, CallFits

LEMMA ReadWithMetadataWorks ==
    ASSUME CallsFit, NEW t \in Threads, ReadWithMetadata(t)
    PROVE  \E d : Step(t, d) /\ Worked(calls[t], d)
<1>1. PICK c \in CallRecords : /\ c = calls[t] /\ CallFits(c) /\ c.phase = "converting"
                               /\ c.op \in GuardedOps \cap ImportOps
    BY DEF CallsFit, ReadWithMetadata, In
<1>2. ~c.warned /\ "adopting" \in Phases /\ "fallback" \in Phases
    BY <1>1 DEF CallFits, PhaseFits, Undecided, Phases
<1>3. ASSUME NEW roots \in Documents, NEW r, r = ImportWithXcaf(roots),
             NEW meta, meta = IF c.op \in StepOps THEN r.meta ELSE c.meta
      PROVE  /\ r.ok => Worked(c, [[c EXCEPT !.shape = r.shape, !.meta = meta] EXCEPT !.phase = "adopting", !.roots = roots])
             /\ Worked(c, [[c EXCEPT !.shape = r.shape, !.meta = meta] EXCEPT !.phase = "fallback"])
    <2>1. r.shape \in ReadShapes /\ meta \in ReadMetas
        BY <1>3 DEF ReadShapes, ReadMetas, CallRecords
    <2>2. PICK read : read = [c EXCEPT !.shape = r.shape, !.meta = meta]
        OBVIOUS
    <2>3. /\ read \in CallRecords
          /\ read.op = c.op /\ read.temp = c.temp /\ read.bytes = c.bytes /\ read.result = c.result
          /\ read.warned = c.warned /\ read.meta = meta
        BY <2>1, <2>2 DEF CallRecords
    <2>4. PICK d : d = [read EXCEPT !.phase = "adopting", !.roots = roots]
        OBVIOUS
    <2>5. /\ d \in CallRecords
          /\ d.op = c.op /\ d.temp = c.temp /\ d.bytes = c.bytes /\ d.result = c.result
          /\ d.warned = c.warned /\ d.meta = meta /\ d.phase = "adopting" /\ d.roots = roots
        BY <1>2, <2>3, <2>4 DEF CallRecords
    <2>6. PICK e : e = [read EXCEPT !.phase = "fallback"]
        OBVIOUS
    <2>7. /\ e \in CallRecords
          /\ e.op = c.op /\ e.temp = c.temp /\ e.bytes = c.bytes /\ e.result = c.result
          /\ e.phase = "fallback"
        BY <1>2, <2>3, <2>6 DEF CallRecords
    <2>8. ASSUME r.ok, IsStepImport(c) PROVE OwnMetadata(d)
        <3>1. roots # <<>> /\ meta = ExtractMetadata(roots[1])
            BY <1>3, <2>8 DEF ImportWithXcaf, IsStepImport
        <3>2. Head(roots) = roots[1]
            OBVIOUS
        <3> QED BY <1>2, <2>5, <3>1, <3>2 DEF OwnMetadata
    <2>9. r.ok => Worked(c, d)
        BY <1>1, <2>5, <2>8, AttemptWorks
    <2>10. Worked(c, e)
        BY <1>1, <2>7, AttemptWorks
    <2> QED BY <2>2, <2>4, <2>6, <2>9, <2>10
<1>4. Worked(c, [c EXCEPT !.phase = "fallback"])
    <2>1. PICK d : d = [c EXCEPT !.phase = "fallback"]
        OBVIOUS
    <2>2. d \in CallRecords /\ d.phase = "fallback" /\ d.result = c.result /\ SameData(c, d)
        BY <1>2, <2>1, Moved
    <2> QED BY <1>1, <2>1, <2>2, AttemptWorks DEF SameData
<1>5. Worked(c, Thrown(c))
    BY <1>1, EndedWorks DEF Thrown, Undecided, Results, Phases
<1> QED BY <1>1, <1>3, <1>4, <1>5 DEF ReadWithMetadata

LEMMA ReadBasicWorks ==
    ASSUME CallsFit, NEW t \in Threads, ReadBasic(t)
    PROVE  \E d : Step(t, d) /\ Worked(calls[t], d)
<1>1. PICK c \in CallRecords : c = calls[t] /\ CallFits(c) /\ c.phase = "fallback" /\ c.op \in ImportOps
    BY DEF CallsFit, ReadBasic, In
<1>2. Worked(c, [WithMetadataReset(c) EXCEPT !.phase = "adopting", !.shape = "Compound", !.warned = TRUE])
    <2>1. PICK reset : reset = WithMetadataReset(c)
        OBVIOUS
    <2>2. /\ reset \in CallRecords /\ reset.meta = NoMetadata
          /\ reset.op = c.op /\ reset.temp = c.temp /\ reset.bytes = c.bytes /\ reset.result = c.result
        BY <2>1 DEF WithMetadataReset, CallRecords, ReadMetas
    <2>3. PICK d : d = [reset EXCEPT !.phase = "adopting", !.shape = "Compound", !.warned = TRUE]
        OBVIOUS
    <2>4. "adopting" \in Phases /\ "Compound" \in ReadShapes
        BY DEF Phases, ReadShapes
    <2>5. /\ d \in CallRecords /\ d.meta = NoMetadata /\ d.warned = TRUE /\ d.phase = "adopting"
          /\ d.op = c.op /\ d.temp = c.temp /\ d.bytes = c.bytes /\ d.result = c.result
        BY <2>2, <2>3, <2>4 DEF CallRecords
    <2>6. Worked(c, d)
        BY <1>1, <2>5, AttemptWorks DEF OwnMetadata
    <2> QED BY <2>1, <2>3, <2>6, Zenon
<1>3. Worked(c, Ended(c, "failed")) /\ Worked(c, Thrown(c))
    BY <1>1, EndedWorks DEF Thrown, Undecided, Results, Phases
<1> QED BY <1>1, <1>2, <1>3 DEF ReadBasic

LEMMA ReadStlWorks ==
    ASSUME CallsFit, NEW t \in Threads, ReadStl(t)
    PROVE  \E d : Step(t, d) /\ Worked(calls[t], d)
<1>1. PICK c \in CallRecords : /\ c = calls[t] /\ CallFits(c) /\ c.phase = "converting"
                               /\ c.op \in StlOps \cap ImportOps
    BY DEF CallsFit, ReadStl, In
<1>2. ASSUME NEW shape \in {"Sewn", "Compound"}
      PROVE  Worked(c, [c EXCEPT !.phase = "adopting", !.shape = shape])
    <2>1. PICK d : d = [c EXCEPT !.phase = "adopting", !.shape = shape]
        OBVIOUS
    <2>2. "adopting" \in Phases /\ shape \in ReadShapes
        BY DEF Phases, ReadShapes
    <2>3. /\ d \in CallRecords /\ d.phase = "adopting"
          /\ d.op = c.op /\ d.temp = c.temp /\ d.bytes = c.bytes /\ d.result = c.result
        BY <2>1, <2>2 DEF CallRecords
    <2>4. ~IsStepImport(c)
        BY <1>1, OpsKinds DEF IsStepImport
    <2> QED BY <1>1, <2>1, <2>3, <2>4, AttemptWorks
<1>3. Worked(c, Ended(c, "failed"))
    BY <1>1, EndedWorks DEF Undecided, Results, Phases
<1> QED BY <1>1, <1>2, <1>3 DEF ReadStl

LEMMA AdoptWorks ==
    ASSUME CallsFit, NEW t \in Threads, Adopt(t)
    PROVE  \E d : Step(t, d) /\ Worked(calls[t], d)
<1>1. PICK c \in CallRecords : /\ c = calls[t] /\ CallFits(c) /\ c.phase = "adopting" /\ c.op \in ImportOps
    BY DEF CallsFit, Adopt, In, CallFits, PhaseFits
<1>2. PICK d : d = [c EXCEPT !.drawn = Drawn(c.op)]
    OBVIOUS
<1>3. d \in CallRecords /\ d.phase = c.phase /\ d.result = c.result /\ SameData(c, d)
    <2>1. PICK drawn \in {<<>>} \cup {Drawn(op) : op \in Ops} : drawn = Drawn(c.op)
        BY <1>1, OpsKinds
    <2>2. d = [c EXCEPT !.drawn = drawn]
        BY <1>2, <2>1
    <2> QED BY <2>1, <2>2 DEF CallRecords, SameData
<1>4. c.phase \in Undecided /\ c.phase # "setting"
    BY <1>1 DEF Undecided, Phases
<1>5. CallFits(d) /\ \A e : Worked(d, e) => Worked(c, e)
    BY <1>1, <1>3, <1>4, PayloadFits DEF SameData
<1>6. Worked(d, Ended(d, "ok"))
    <2>1. d.op # "exportStl" /\ d.op # "exportThreeMf"
        BY <1>1, <1>3, OpsKinds DEF SameData
    <2>2. IsStepImport(d) => OwnMetadata(d)
        BY <1>1, <1>3, <1>5 DEF CallFits, MetadataFits, LabelsFit
    <2>3. ~IsStepExport(d)
        BY <1>1, <1>3 DEF SameData, IsStepExport
    <2> QED BY <1>3, <1>4, <1>5, <2>1, <2>2, <2>3, EndedWorks DEF Results
<1>7. Worked(c, Ended(c, "failed"))
    BY <1>1, <1>4, EndedWorks DEF Results
<1> QED BY <1>1, <1>2, <1>5, <1>6, <1>7 DEF Adopt

LEMMA WriteWithMetadataWorks ==
    ASSUME CallsFit, NEW t \in Threads, WriteWithMetadata(t)
    PROVE  \E d : Step(t, d) /\ Worked(calls[t], d)
<1>1. PICK c \in CallRecords : /\ c = calls[t] /\ CallFits(c) /\ c.phase = "converting"
                               /\ c.op \in GuardedOps \ ImportOps
    BY DEF CallsFit, WriteWithMetadata, In
<1>2. c.phase \in Undecided /\ c.phase # "setting" /\ ~c.warned
    BY <1>1 DEF CallFits, PhaseFits, Undecided, Phases
<1>3. PICK metas \in MetaLists : metas = IF c.op \in StepOps THEN c.metas ELSE <<>>
    BY DEF CallRecords, MetaLists
<1>4. PICK roots \in Written : roots = ExportWithXcaf(c.shapes, metas)
    BY DEF CallRecords, Written
<1>5. PICK d : d = [c EXCEPT !.roots = roots]
    OBVIOUS
<1>6. /\ d \in CallRecords /\ d.phase = c.phase /\ d.result = c.result /\ d.warned = c.warned
      /\ d.op = c.op /\ d.temp = c.temp /\ d.bytes = c.bytes
    BY <1>5 DEF CallRecords
<1>7. ~IsStepImport(c) /\ c.op # "exportStl" /\ c.op # "exportThreeMf"
    BY <1>1, OpsKinds DEF IsStepImport
<1>8. CallFits(d) /\ \A e : Worked(d, e) => Worked(c, e)
    BY <1>1, <1>2, <1>6, <1>7, PayloadFits
<1>9. Worked(d, Ended(d, "ok"))
    <2>1. IsStepExport(d) => OwnLabels(d)
        <3> SUFFICES ASSUME IsStepExport(d) PROVE OwnLabels(d)
            OBVIOUS
        <3>1. /\ d.roots = ExportWithXcaf(c.shapes, metas) /\ d.shapes = c.shapes /\ d.metas = c.metas
              /\ metas = d.metas /\ ~d.warned
            BY <1>2, <1>3, <1>4, <1>5, <1>6 DEF CallRecords, IsStepExport
        <3>2. LabelsTheShapes(ExportWithXcaf(c.shapes, metas), c.shapes, metas)
            BY <1>1, ListsAreLabelled
        <3>3. LabelsTheShapes(d.roots, d.shapes, d.metas)
            BY <3>1, <3>2
        <3> QED BY <3>1, <3>3 DEF OwnLabels
    <2> QED BY <1>2, <1>6, <1>7, <1>8, <2>1, EndedWorks DEF Results, IsStepImport
<1>10. Worked(c, Thrown(c))
    BY <1>1, <1>2, EndedWorks DEF Thrown, Results
<1>11. Worked(c, [c EXCEPT !.phase = "fallback"])
    <2>1. PICK e : e = [c EXCEPT !.phase = "fallback"]
        OBVIOUS
    <2>2. e \in CallRecords /\ e.phase = "fallback" /\ e.result = c.result /\ SameData(c, e)
        BY <2>1, Moved DEF Phases
    <2> QED BY <1>1, <2>1, <2>2, AttemptWorks DEF SameData
<1> QED BY <1>1, <1>3, <1>4, <1>5, <1>8, <1>9, <1>10, <1>11 DEF WriteWithMetadata

LEMMA WriteBasicWorks ==
    ASSUME CallsFit, NEW t \in Threads, WriteBasic(t)
    PROVE  \E d : Step(t, d) /\ Worked(calls[t], d)
<1>1. PICK c \in CallRecords : /\ c = calls[t] /\ CallFits(c) /\ c.phase = "fallback" /\ c.op \notin ImportOps
    BY DEF CallsFit, WriteBasic, In
<1>2. c.phase \in Undecided /\ c.phase # "setting" /\ c.op \in GuardedOps
    BY <1>1 DEF CallFits, PhaseFits, Undecided, Phases
<1>3. PICK roots \in Written : roots = ExportWithXcaf(c.shapes, <<>>)
    BY DEF CallRecords, Written, MetaLists
<1>4. PICK d : d = [c EXCEPT !.roots = roots, !.warned = TRUE]
    OBVIOUS
<1>5. /\ d \in CallRecords /\ d.phase = c.phase /\ d.result = c.result
      /\ d.op = c.op /\ d.temp = c.temp /\ d.bytes = c.bytes
    BY <1>4 DEF CallRecords
<1>6. ~IsStepImport(c) /\ c.op # "exportStl" /\ c.op # "exportThreeMf"
    BY <1>1, <1>2, OpsKinds DEF IsStepImport
<1>7. CallFits(d) /\ \A e : Worked(d, e) => Worked(c, e)
    BY <1>1, <1>2, <1>5, <1>6, PayloadFits
<1>8. Worked(d, Ended(d, "ok"))
    <2>1. OwnLabels(d)
        <3>1. d.roots = ExportWithXcaf(c.shapes, <<>>) /\ d.shapes = c.shapes /\ d.warned
            BY <1>3, <1>4 DEF CallRecords
        <3>2. LabelsTheShapes(ExportWithXcaf(c.shapes, <<>>), c.shapes, <<>>)
            BY <1>1, ListsAreLabelled
        <3>3. LabelsTheShapes(d.roots, d.shapes, <<>>)
            BY <3>1, <3>2
        <3> QED BY <3>1, <3>3 DEF OwnLabels
    <2> QED BY <1>2, <1>5, <1>6, <1>7, <2>1, EndedWorks DEF Results, IsStepImport
<1>9. Worked(c, Thrown(c)) /\ Worked(c, Ended(c, "failed"))
    BY <1>1, <1>2, EndedWorks DEF Thrown, Results
<1> QED BY <1>1, <1>3, <1>4, <1>7, <1>8, <1>9 DEF WriteBasic

LEMMA WriteStlWorks ==
    ASSUME CallsFit, NEW t \in Threads, WriteStl(t)
    PROVE  \E d : Step(t, d) /\ Worked(calls[t], d)
<1>1. PICK c \in CallRecords : /\ c = calls[t] /\ CallFits(c) /\ c.phase = "converting"
                               /\ c.op \in StlOps \ ImportOps
    BY DEF CallsFit, WriteStl, In
<1>2. /\ c.phase \in Undecided /\ c.phase # "setting" /\ c.phase \notin {"idle", "called", "staging"}
      /\ ~c.warned /\ ~IsStepImport(c) /\ c.op # "exportThreeMf"
    BY <1>1, OpsKinds DEF CallFits, PhaseFits, Undecided, Phases, IsStepImport, ThreeMfOps, StlOps
<1>3. ASSUME NEW bytes \in Sizes \cup {0}
      PROVE  Worked(c, Ended([c EXCEPT !.bytes = bytes], "ok"))
    <2>1. PICK d : d = [c EXCEPT !.bytes = bytes]
        OBVIOUS
    <2>2. /\ d \in CallRecords /\ d.phase = c.phase /\ d.result = c.result /\ d.warned = c.warned
          /\ d.op = c.op /\ d.temp = c.temp /\ d.bytes = bytes
        <3>1. bytes \in Bytes
            BY DEF Bytes
        <3> QED BY <2>1, <3>1 DEF CallRecords
    <2>3. CallFits(d) /\ \A e : Worked(d, e) => Worked(c, e)
        BY <1>1, <1>2, <2>2, PayloadFits
    <2>4. d.op = "exportStl" => Measured(d) /\ d.temp # Nobody
        BY <1>2, <2>2, <2>3, OpsKinds DEF Measured, CallFits, FileFits
    <2>5. ~IsStepExport(d)
        BY <1>1, <2>2, OpsKinds DEF IsStepExport
    <2>6. Worked(d, Ended(d, "ok"))
        BY <1>2, <2>2, <2>3, <2>4, <2>5, EndedWorks DEF Results, IsStepImport
    <2> QED BY <2>1, <2>3, <2>6
<1>4. Worked(c, Ended(c, "failed"))
    BY <1>1, <1>2, EndedWorks DEF Results
<1> QED BY <1>1, <1>3, <1>4 DEF WriteStl

LEMMA WriteThreeMfWorks ==
    ASSUME CallsFit, NEW t \in Threads, WriteThreeMf(t)
    PROVE  \E d : Step(t, d) /\ Worked(calls[t], d)
<1>1. PICK c \in CallRecords : /\ c = calls[t] /\ CallFits(c) /\ c.phase = "converting"
                               /\ c.op \in ThreeMfOps
    BY DEF CallsFit, WriteThreeMf, In
<1>2. /\ c.phase \in Undecided /\ c.phase # "setting" /\ c.result = "none" /\ ~c.warned
      /\ c.op \notin GuardedOps /\ c.op \notin StagedOps /\ c.op \notin ImportOps /\ c.op # "exportStl"
    BY <1>1, OpsKinds DEF CallFits, PhaseFits, Undecided, Phases
<1>3. ASSUME NEW triangles \in Sizes \cup {0}, NEW vertices \in Sizes \cup {0}
      PROVE  Worked(c, [c EXCEPT !.phase = "packing", !.bytes = Max({triangles, vertices})])
    <2>1. PICK bytes \in Sizes \cup {0} : bytes = Max({triangles, vertices})
        <3>1. triangles \in Nat /\ vertices \in Nat
            BY SizeFacts
        <3>2. \E x \in {triangles, vertices} : \A y \in {triangles, vertices} : x >= y
            BY <3>1
        <3> QED BY <3>2 DEF Max
    <2>2. PICK d : d = [c EXCEPT !.phase = "packing", !.bytes = bytes]
        OBVIOUS
    <2>3. /\ d \in CallRecords /\ d.phase = "packing" /\ d.result = "none" /\ d.warned = c.warned
          /\ d.op = c.op /\ d.temp = c.temp /\ d.bytes = bytes
        <3>1. bytes \in Bytes /\ "packing" \in Phases
            BY DEF Bytes, Phases
        <3> QED BY <1>2, <2>2, <3>1 DEF CallRecords
    <2>4. FileFits(d) /\ PhaseFits(d) /\ QuotaFits(d) /\ MetadataFits(d)
        BY <1>1, <1>2, <2>3 DEF CallFits, FileFits, PhaseFits, QuotaFits, MetadataFits, LabelsFit, Measured, IsStepImport,
            Undecided, Phases
    <2>5. ~Holding(c) /\ ~Holding(d) /\ ~Using(d)
        BY <1>2, <2>3 DEF Holding, Using
    <2> QED BY <2>1, <2>2, <2>3, <2>4, <2>5 DEF Worked, CallFits
<1>4. Worked(c, Ended(c, "failed")) /\ Worked(c, Ended(c, "thrown"))
    BY <1>1, <1>2, EndedWorks DEF Results
<1> QED BY <1>1, <1>3, <1>4 DEF WriteThreeMf

LEMMA WithinUnlessOver ==
    ASSUME NEW bytes \in Sizes \cup {0}, ~Over(BufferLimit, bytes)
    PROVE  BufferLimit = 0 \/ bytes <= BufferLimit
<1>1. bytes \in Nat /\ BufferLimit \in Nat
    BY SizeFacts
<1> QED BY <1>1 DEF Over

LEMMA PackWorks ==
    ASSUME CallsFit, NEW t \in Threads, Pack(t)
    PROVE  \E d : Step(t, d) /\ Worked(calls[t], d)
<1>1. PICK c \in CallRecords : c = calls[t] /\ CallFits(c) /\ c.phase = "packing"
    BY DEF CallsFit, Pack, In
<1>2. /\ c.phase \in Undecided /\ c.phase # "setting" /\ Measured(c)
      /\ ~IsStepImport(c) /\ c.op # "exportStl"
    BY <1>1, OpsKinds DEF CallFits, PhaseFits, QuotaFits, Undecided, Phases, IsStepImport
<1>3. ~Over(BufferLimit, c.bytes) => Within(c)
    BY <1>2, WithinUnlessOver DEF Within, Measured
<1>4. ~Over(BufferLimit, c.bytes) => Worked(c, Ended(c, "ok"))
    <2>1. ~IsStepExport(c)
        BY <1>1, OpsKinds DEF CallFits, PhaseFits, IsStepExport
    <2> QED BY <1>1, <1>2, <1>3, <2>1, EndedWorks DEF Results
<1>5. Worked(c, Ended(c, "failed"))
    BY <1>1, <1>2, EndedWorks DEF Results
<1> QED BY <1>1, <1>4, <1>5 DEF Pack

LEMMA ReadBackWorks ==
    ASSUME CallsFit, NEW t \in Threads, ReadBack(t)
    PROVE  \E d : Step(t, d) /\ Worked(calls[t], d)
<1>1. PICK c \in CallRecords : c = calls[t] /\ CallFits(c) /\ c.phase = "returned"
    BY DEF CallsFit, ReadBack, In
<1>2. ASSUME NEW result \in Results,
             result = "ok" => c.result = "ok" /\ (c.op = "exportStl" => ~Over(BufferLimit, c.bytes))
      PROVE  Worked(c, [c EXCEPT !.phase = "unstaging", !.result = result])
    <2>1. PICK d : d = [c EXCEPT !.phase = "unstaging", !.result = result]
        OBVIOUS
    <2>2. d \in CallRecords /\ d.phase = "unstaging" /\ d.result = result /\ SameData(c, d)
        <3>1. "unstaging" \in Phases
            BY DEF Phases
        <3> QED BY <2>1, <3>1 DEF CallRecords, SameData
    <2>3. FileFits(d) /\ PhaseFits(d) /\ MetadataFits(d)
        BY <1>1, <1>2, <2>2 DEF CallFits, FileFits, PhaseFits, MetadataFits, LabelsFit, SameData, IsStepImport, OwnMetadata, IsStepExport, OwnLabels,
            Undecided, Phases
    <2>4. ASSUME c.op = "exportStl", result = "ok" PROVE Measured(d) /\ Within(d)
        <3>1. Measured(c) /\ ~Over(BufferLimit, c.bytes)
            BY <1>1, <1>2, <2>4 DEF CallFits, QuotaFits
        <3>2. Within(c)
            BY <3>1, WithinUnlessOver DEF Measured, Within
        <3> QED BY <2>2, <3>1, <3>2 DEF Measured, Within, SameData
    <2>5. QuotaFits(d)
        BY <1>1, <1>2, <2>2, <2>4 DEF CallFits, QuotaFits, SameData, Within
    <2>6. ~Holding(c) /\ ~Holding(d) /\ ~Using(d)
        BY <1>1, <2>2 DEF Holding, Using
    <2> QED BY <2>1, <2>2, <2>3, <2>5, <2>6 DEF Worked, CallFits, SameData
<1>3. PICK result \in Results :
          result = IF c.op = "exportStl" /\ c.result = "ok" /\ Over(BufferLimit, c.bytes) THEN "failed" ELSE c.result
    BY DEF CallRecords, Results
<1>4. Worked(c, [c EXCEPT !.phase = "unstaging", !.result = result])
    BY <1>2, <1>3
<1>5. Worked(c, [c EXCEPT !.phase = "unstaging", !.result = "failed"])
    BY <1>2 DEF Results
<1> QED BY <1>1, <1>3, <1>4, <1>5 DEF ReadBack

-----------------------------------------------------------------------------
(* Temporary files *)

(* A call's file is created with a name nobody has, or not at all.         *)
LEMMA StageFits ==
    ASSUME CallsFit, NEW t \in Threads, Stage(t)
    PROVE  /\ calls[t].temp = Nobody /\ ~Holding(calls[t])
           /\ \E d : /\ Step(t, d) /\ CallFits(d) /\ ~Holding(d) /\ ~Using(d) /\ d.phase # "setting"
                     /\ \/ files' = files /\ d.temp = Nobody
                        \/ /\ d.temp \in TempNames \ files
                           /\ files' = files \cup {d.temp}
<1>1. PICK c \in CallRecords : c = calls[t] /\ CallFits(c) /\ c.phase = "staging"
    BY DEF CallsFit, Stage, In
<1>2. /\ c.temp = Nobody /\ c.op \in StagedOps /\ c.result = "none" /\ ~c.warned /\ ~Holding(c)
      /\ c.phase \in Undecided /\ c.phase # "setting"
    BY <1>1 DEF CallFits, FileFits, PhaseFits, Holding, Undecided, Phases
<1> DEFINE Staged(d) == CallFits(d) /\ ~Holding(d) /\ ~Using(d) /\ d.phase # "setting"
<1>3. ASSUME NEW name \in TempNames
      PROVE  LET d == [c EXCEPT !.temp = name, !.phase = "checking"]
             IN  Staged(d) /\ d.temp = name
    <2>1. PICK d : d = [c EXCEPT !.temp = name, !.phase = "checking"]
        OBVIOUS
    <2>2. /\ d \in CallRecords /\ d.phase = "checking" /\ d.temp = name
          /\ d.op = c.op /\ d.result = "none" /\ d.warned = c.warned
        <3>1. "checking" \in Phases
            BY DEF Phases
        <3> QED BY <1>2, <2>1, <3>1 DEF CallRecords
    <2>3. name # Nobody
        BY SizeFacts
    <2>4. FileFits(d) /\ PhaseFits(d) /\ QuotaFits(d) /\ MetadataFits(d) /\ ~Holding(d) /\ ~Using(d)
        BY <1>2, <2>2, <2>3 DEF FileFits, PhaseFits, QuotaFits, MetadataFits, LabelsFit, Holding, Using
    <2> QED BY <2>1, <2>2, <2>4 DEF CallFits
<1>4. ASSUME NEW name \in TempNames
      PROVE  LET d == Ended([c EXCEPT !.temp = name], "failed")
             IN  Staged(d) /\ d.temp = name
    <2>1. PICK b : b = [c EXCEPT !.temp = name]
        OBVIOUS
    <2>2. b \in CallRecords /\ b.phase = "staging" /\ b.temp = name /\ b.op = c.op
        BY <1>1, <2>1 DEF CallRecords
    <2>3. name # Nobody
        BY SizeFacts
    <2>4. Unwound(b) = "returned"
        BY <1>2, <2>2, <2>3 DEF Unwound
    <2>5. PICK d : d = [b EXCEPT !.phase = "returned", !.result = "failed"]
        OBVIOUS
    <2>6. /\ d \in CallRecords /\ d.phase = "returned" /\ d.result = "failed" /\ d.temp = name
          /\ d.op = c.op
        <3>1. "returned" \in Phases /\ "failed" \in Results
            BY DEF Phases, Results
        <3> QED BY <2>2, <2>5, <3>1 DEF CallRecords
    <2>7. FileFits(d) /\ PhaseFits(d) /\ QuotaFits(d) /\ MetadataFits(d) /\ ~Holding(d) /\ ~Using(d)
        BY <1>2, <2>3, <2>6 DEF FileFits, PhaseFits, QuotaFits, MetadataFits, LabelsFit, Holding, Using, Undecided
    <2>8. Ended(b, "failed") = d
        BY <2>4, <2>5, <2>6 DEF Ended
    <2> QED BY <2>1, <2>6, <2>7, <2>8 DEF CallFits
<1>5. LET d == [c EXCEPT !.tried = @ + 1]
      IN  Staged(d) /\ d.temp = Nobody
    <2>1. PICK d : d = [c EXCEPT !.tried = @ + 1]
        OBVIOUS
    <2>2. d \in CallRecords /\ d.phase = c.phase /\ d.result = c.result /\ SameData(c, d)
        BY <2>1 DEF CallRecords, SameData
    <2>3. CallFits(d)
        BY <1>1, <1>2, <2>2, PayloadFits DEF SameData
    <2> QED BY <1>1, <1>2, <2>1, <2>2, <2>3 DEF SameData, Holding, Using
<1>6. Staged(Ended(c, "thrown")) /\ Ended(c, "thrown").temp = Nobody
    <2>1. Worked(c, Ended(c, "thrown"))
        BY <1>1, <1>2, EndedWorks DEF Results
    <2> QED BY <1>1, <1>2, <2>1 DEF Worked, Holding, Using
<1> HIDE DEF Staged
<1>7. PICK name \in TempNames :
          IF TryExclusiveCreate(name)
          THEN /\ files' = files \cup {name}
               /\ \/ Step(t, [c EXCEPT !.temp = name, !.phase = "checking"])
                  \/ c.op \in ImportOps /\ Step(t, Ended([c EXCEPT !.temp = name], "failed"))
          ELSE /\ IF c.tried + 1 < MaxAttempts
                  THEN Step(t, [c EXCEPT !.tried = @ + 1])
                  ELSE Step(t, Ended(c, "thrown"))
               /\ UNCHANGED files
    BY <1>1 DEF Stage
<1>8. \E d : /\ Step(t, d) /\ Staged(d)
             /\ \/ files' = files /\ d.temp = Nobody
                \/ /\ d.temp \in TempNames \ files
                   /\ files' = files \cup {d.temp}
    BY <1>3, <1>4, <1>5, <1>6, <1>7 DEF TryExclusiveCreate
<1> QED BY <1>1, <1>2, <1>8 DEF Staged

LEMMA UnstageFits ==
    ASSUME CallsFit, NEW t \in Threads, Unstage(t)
    PROVE  /\ ~Holding(calls[t]) /\ calls[t].temp # Nobody
           /\ \E d : /\ Step(t, d) /\ CallFits(d) /\ ~Holding(d) /\ ~Using(d) /\ d.phase # "setting"
                     /\ d.temp = Nobody /\ files' = files \ {calls[t].temp}
<1>1. PICK c \in CallRecords : c = calls[t] /\ CallFits(c) /\ c.phase = "unstaging"
    BY DEF CallsFit, Unstage, In
<1>2. PICK d : d = Returned(c)
    OBVIOUS
<1>3. /\ d \in CallRecords /\ d.op = c.op /\ d.phase = "idle" /\ d.temp = Nobody /\ d.result = c.result
      /\ d.warned = FALSE
      /\ c.op \notin ImportOps => d.bytes = c.bytes
    BY <1>2, ReturnedIs
<1>4. c.temp # Nobody /\ c.op \in StagedOps
    BY <1>1 DEF CallFits, PhaseFits, FileFits
<1>5. FileFits(d) /\ PhaseFits(d) /\ MetadataFits(d) /\ ~Holding(d) /\ ~Using(d) /\ ~Holding(c)
    BY <1>1, <1>3 DEF FileFits, PhaseFits, MetadataFits, LabelsFit, Holding, Using, Undecided
<1>6. QuotaFits(d)
    BY <1>1, <1>3, <1>4, OpsKinds DEF CallFits, QuotaFits, Within
<1> QED BY <1>1, <1>2, <1>3, <1>4, <1>5, <1>6 DEF CallFits, Unstage

-----------------------------------------------------------------------------
(* The settings of the guards *)

GuardRecords ==
    [key : {Nobody, Nullptr}, saved : UNION {[S -> Texts] : S \in SUBSET Settings}, closing : BOOLEAN]

(* What a guard will write back, and what it has not written, is as found. *)
SavesOriginal(t) ==
    \A s \in Settings :
        IF s \in DOMAIN guards[t].saved
        THEN guards[t].saved[s] \in {Original[s], Snapshot(Original[s])}
        ELSE AsFound(s)

(* The settings a call still has to write are the ones ahead of it.        *)
SettingsMade(t) ==
    LET c == calls[t]
    IN  /\ c.phase = "setting" => \A s \in Range(Sets(c.op)) : s \in Range(c.todo) \/ statics[s] = Wanted(s)
        /\ Using(c) => \A s \in Range(Sets(c.op)) : statics[s] = Wanted(s)

GuardsTyped ==
    /\ statics \in [Settings -> Texts \cup {Unset}]
    /\ owner \in [Keys -> Threads \cup {Nobody}]
    /\ guards \in [Threads -> GuardRecords]
    /\ \A t \in Threads, k \in Keys : owner[k] = t <=> guards[t].key = k

GuardsFit ==
    /\ GuardsTyped
    /\ \A t \in Threads : /\ Holds(t) <=> Holding(calls[t])
                          /\ guards[t].closing => calls[t].phase = "closing"
                          /\ Holds(t) => SavesOriginal(t)
                          /\ SettingsMade(t)
    /\ SettingsRestored

LEMMA KeyFacts ==
    /\ Nobody \notin Threads /\ Nobody \notin Keys /\ Nullptr \in Keys /\ Nullptr # Nobody
    /\ Unset \notin Texts /\ Empty \in Texts /\ Original \in [Settings -> Texts \cup {Unset}]
BY GuardAssumption, ExchangeAssumption DEF GuardAssumption, ExchangeAssumption

LEMMA NoGuardFits ==
    NoGuard \in GuardRecords /\ NoGuard.key = Nobody /\ NoGuard.closing = FALSE /\ DOMAIN NoGuard.saved = {}
<1>1. [s \in {} |-> Empty] \in UNION {[S -> Texts] : S \in SUBSET Settings}
    <2>1. {} \in SUBSET Settings /\ [s \in {} |-> Empty] \in [{} -> Texts]
        OBVIOUS
    <2> QED BY <2>1
<1>2. PICK m : m = [s \in {} |-> Empty]
    OBVIOUS
<1>3. DOMAIN m = {} /\ NoGuard = [key |-> Nobody, saved |-> m, closing |-> FALSE]
    BY <1>2 DEF NoGuard
<1> QED BY <1>1, <1>2, <1>3 DEF GuardRecords

(* There is one key, so there is one guard.                                *)
LEMMA OneHolder ==
    ASSUME GuardsTyped, NEW t \in Threads, NEW u \in Threads, Holds(t), Holds(u)
    PROVE  t = u
<1>1. guards[t].key = Nullptr /\ guards[u].key = Nullptr
    BY DEF GuardsTyped, GuardRecords, Holds
<1> QED BY <1>1, KeyFacts DEF GuardsTyped

(* A step that leaves settings and guards alone.                           *)
LEMMA WorkKeepsGuards ==
    ASSUME CallsFit, GuardsFit, UNCHANGED guardVars, NEW t \in Threads, NEW d,
           Step(t, d), Holding(d) <=> Holding(calls[t]),
           Using(d) => Using(calls[t]) /\ d.op = calls[t].op,
           d.phase = "setting" => d = calls[t]
    PROVE  GuardsFit'
<1>1. UNCHANGED <<owner, statics, guards>>
    BY DEF guardVars
<1>2. calls'[t] = d /\ \A u \in Threads : u # t => calls'[u] = calls[u]
    BY DEF CallsFit, Step
<1>3. ASSUME NEW u \in Threads
      PROVE  /\ Holds(u)' <=> Holding(calls'[u])
             /\ guards'[u].closing => calls'[u].phase = "closing"
             /\ Holds(u)' => SavesOriginal(u)'
             /\ SettingsMade(u)'
    <2>1. Holds(u)' <=> Holds(u)
        BY <1>1 DEF Holds
    <2>2. SavesOriginal(u)' <=> SavesOriginal(u)
        BY <1>1 DEF SavesOriginal, AsFound
    <2>3. CASE u # t
        BY <1>1, <1>2, <2>1, <2>2, <2>3 DEF GuardsFit, SettingsMade
    <2>4. CASE u = t
        <3>1. Holds(t)' <=> Holding(d)
            BY <2>1, <2>4 DEF GuardsFit
        <3>2. guards'[t].closing => d.phase = "closing"
            <4>1. guards[t].closing => calls[t].phase = "closing"
                BY DEF GuardsFit
            <4>2. calls[t].phase = "closing" => Holding(calls[t])
                BY DEF CallsFit, CallFits, PhaseFits, Holding
            <4> QED BY <1>1, <4>1, <4>2 DEF Holding, Using
        <3>3. SettingsMade(t)'
            <4>1. SettingsMade(t)
                BY DEF GuardsFit
            <4> QED BY <1>1, <1>2, <4>1 DEF SettingsMade
        <3> QED BY <1>2, <2>1, <2>2, <2>4, <3>1, <3>2, <3>3 DEF GuardsFit
    <2> QED BY <2>3, <2>4
<1>4. GuardsTyped' /\ SettingsRestored'
    BY <1>1 DEF GuardsFit, GuardsTyped, SettingsRestored, Holds, AsFound
<1> QED BY <1>3, <1>4 DEF GuardsFit

(* What a guard is about to write.                                         *)
LEMMA SetsType ==
    ASSUME NEW op \in GuardedOps
    PROVE  Sets(op) \in Seq(Settings) /\ Sets(op) # <<>> /\ \A s \in Range(Sets(op)) : s \in Settings
<1>1. Range(Sets(op)) \subseteq Settings
    BY SettingsAssumption DEF SettingsAssumption
<1>2. \A i \in 1..Len(Sets(op)) : i \in DOMAIN Sets(op) => Sets(op)[i] \in Settings
    BY <1>1 DEF Range
<1>3. CASE op \in {"importStep", "importStepFile"}
    <2>1. Sets(op) = <<"xstep.cascade.unit">>
        BY <1>3 DEF Sets
    <2>2. Sets(op)[1] \in Settings
        BY <1>2, <2>1
    <2> QED BY <1>1, <2>1, <2>2
<1>4. CASE op \in {"exportStep", "exportStepFile"}
    <2>1. Sets(op) = <<"write.step.schema", "write.step.unit", "xstep.cascade.unit">>
        BY <1>4 DEF Sets
    <2>2. Sets(op)[1] \in Settings /\ Sets(op)[2] \in Settings /\ Sets(op)[3] \in Settings
        BY <1>2, <2>1
    <2> QED BY <1>1, <2>1, <2>2
<1>5. CASE op \in {"importIges", "importIgesFile"}
    <2>1. Sets(op) = <<"read.iges.bspline.continuity", "xstep.cascade.unit">>
        BY <1>5 DEF Sets
    <2>2. Sets(op)[1] \in Settings /\ Sets(op)[2] \in Settings
        BY <1>2, <2>1
    <2> QED BY <1>1, <2>1, <2>2
<1>6. CASE op \in {"exportIges", "exportIgesFile"}
    <2>1. Sets(op) = <<"write.iges.unit", "write.iges.brep.mode", "xstep.cascade.unit">>
        BY <1>6 DEF Sets
    <2>2. Sets(op)[1] \in Settings /\ Sets(op)[2] \in Settings /\ Sets(op)[3] \in Settings
        BY <1>2, <2>1
    <2> QED BY <1>1, <2>1, <2>2
<1> QED BY <1>3, <1>4, <1>5, <1>6 DEF GuardedOps, StepOps, IgesOps

LEMMA AcquireFits ==
    ASSUME CallsFit, GuardsFit, NEW t \in Threads, Acquire(t)
    PROVE  GuardsFit' /\ \E d : Step(t, d) /\ CallFits(d) /\ d.temp = calls[t].temp
<1>1. PICK c \in CallRecords : /\ c = calls[t] /\ CallFits(c) /\ c.phase = "locking" /\ c.op \in GuardedOps
                               /\ c.result = "none" /\ ~c.warned
    BY DEF CallsFit, Acquire, In, CallFits, PhaseFits, Undecided, Phases
<1>2. PICK todo \in Seq(Settings) : /\ todo = Sets(c.op) /\ todo # <<>>
    BY <1>1, SetsType
<1>3. PICK d : d = [c EXCEPT !.phase = "setting", !.todo = todo]
    OBVIOUS
<1>4. /\ d \in CallRecords /\ d.phase = "setting" /\ d.todo = todo
      /\ d.op = c.op /\ d.temp = c.temp /\ d.bytes = c.bytes /\ d.result = c.result /\ d.warned = c.warned
    <2>1. "setting" \in Phases
        BY DEF Phases
    <2> QED BY <1>3, <2>1 DEF CallRecords
<1>5. CallFits(d) /\ Holding(d) /\ ~Using(d)
    <2>1. FileFits(d) /\ PhaseFits(d) /\ MetadataFits(d) /\ Holding(d) /\ ~Using(d)
        BY <1>1, <1>2, <1>4 DEF CallFits, FileFits, PhaseFits, MetadataFits, LabelsFit, Holding, Using, Undecided, Phases
    <2>2. QuotaFits(d)
        BY <1>1, <1>4 DEF CallFits, QuotaFits, OverQuota
    <2> QED BY <1>4, <2>1, <2>2 DEF CallFits
<1>6. Step(t, d)
    BY <1>1, <1>2, <1>3 DEF Acquire
<1>7. calls'[t] = d /\ \A u \in Threads : u # t => calls'[u] = calls[u]
    BY <1>6 DEF CallsFit, Step
<1>8. PICK open \in GuardRecords : /\ open = [NoGuard EXCEPT !.key = Nullptr] /\ open.key = Nullptr
                                   /\ open.closing = FALSE /\ DOMAIN open.saved = {}
    <2>1. PICK none \in GuardRecords : none = NoGuard /\ none.closing = FALSE /\ DOMAIN none.saved = {}
        BY NoGuardFits
    <2>2. PICK open : open = [none EXCEPT !.key = Nullptr]
        OBVIOUS
    <2>3. /\ open \in GuardRecords /\ open.key = Nullptr
          /\ open.closing = none.closing /\ open.saved = none.saved
        BY <2>2 DEF GuardRecords
    <2> QED BY <2>1, <2>2, <2>3
<1>9. /\ owner[Nullptr] = Nobody /\ owner' = [owner EXCEPT ![Nullptr] = t]
      /\ guards' = [guards EXCEPT ![t] = open] /\ statics' = statics
    BY <1>8 DEF Acquire, OpenGuard, GuardKey
<1>10. /\ owner'[Nullptr] = t /\ \A k \in Keys : k # Nullptr => owner'[k] = owner[k]
       /\ guards'[t] = open /\ \A u \in Threads : u # t => guards'[u] = guards[u]
    BY <1>9, KeyFacts DEF GuardsFit, GuardsTyped
<1>11. \A u \in Threads : ~Holds(u)
    <2> SUFFICES ASSUME NEW u \in Threads, Holds(u) PROVE FALSE
        OBVIOUS
    <2>1. guards[u].key = Nullptr
        BY DEF Holds, GuardsFit, GuardsTyped, GuardRecords
    <2> QED BY <1>9, <2>1, KeyFacts DEF GuardsFit, GuardsTyped
<1>12. GuardsTyped'
    <2>1. \A u \in Threads, k \in Keys : guards[u].key # k
        BY <1>11, KeyFacts DEF Holds, GuardsFit, GuardsTyped, GuardRecords
    <2>2. owner' \in [Keys -> Threads \cup {Nobody}] /\ guards' \in [Threads -> GuardRecords]
        BY <1>8, <1>9 DEF GuardsFit, GuardsTyped
    <2>3. ASSUME NEW u \in Threads, NEW k \in Keys PROVE owner'[k] = u <=> guards'[u].key = k
        <3>1. CASE u = t
            <4>1. owner[k] # t
                BY <2>1 DEF GuardsFit, GuardsTyped
            <4> QED BY <1>8, <1>10, <3>1, <4>1
        <3>2. CASE u # t
            <4>1. owner[k] # u /\ guards[u].key # k
                BY <2>1 DEF GuardsFit, GuardsTyped
            <4> QED BY <1>10, <3>2, <4>1
        <3> QED BY <3>1, <3>2
    <2> QED BY <1>9, <2>2, <2>3 DEF GuardsFit, GuardsTyped
<1>13. Holds(t)'
    BY <1>8, <1>10, KeyFacts DEF Holds
<1>14. ASSUME NEW u \in Threads
       PROVE  /\ Holds(u)' <=> Holding(calls'[u])
              /\ guards'[u].closing => calls'[u].phase = "closing"
              /\ Holds(u)' => SavesOriginal(u)'
              /\ SettingsMade(u)'
    <2>1. CASE u # t
        BY <1>7, <1>9, <1>10, <1>11, <2>1 DEF GuardsFit, Holds, SettingsMade
    <2>2. CASE u = t
        <3>1. SavesOriginal(t)'
            BY <1>8, <1>9, <1>10, <1>11 DEF GuardsFit, SettingsRestored, SavesOriginal, AsFound
        <3>2. SettingsMade(t)'
            BY <1>2, <1>4, <1>5, <1>7 DEF SettingsMade
        <3> QED BY <1>5, <1>7, <1>8, <1>10, <1>13, <2>2, <3>1, <3>2
    <2> QED BY <2>1, <2>2
<1>15. SettingsRestored'
    BY <1>13 DEF SettingsRestored
<1> QED BY <1>1, <1>4, <1>5, <1>6, <1>12, <1>14, <1>15 DEF GuardsFit

(* A step of the thread that has the guard.                                *)
LEMMA HolderStep ==
    ASSUME CallsFit, GuardsFit, NEW t \in Threads, Holds(t), NEW d, Step(t, d), Holding(d),
           NEW g \in GuardRecords, guards' = [guards EXCEPT ![t] = g], owner' = owner,
           g.key = guards[t].key, g.closing => d.phase = "closing",
           statics' \in [Settings -> Texts \cup {Unset}], SavesOriginal(t)', SettingsMade(t)'
    PROVE  GuardsFit'
<1>1. calls'[t] = d /\ \A u \in Threads : u # t => calls'[u] = calls[u]
    BY DEF CallsFit, Step
<1>2. guards'[t] = g /\ \A u \in Threads : u # t => guards'[u] = guards[u]
    BY DEF GuardsFit, GuardsTyped
<1>3. GuardsTyped'
    <2>1. \A u \in Threads : guards'[u].key = guards[u].key
        BY <1>2
    <2>2. guards' \in [Threads -> GuardRecords] /\ owner' \in [Keys -> Threads \cup {Nobody}]
        BY DEF GuardsFit, GuardsTyped
    <2>3. \A u \in Threads, k \in Keys : owner'[k] = u <=> guards'[u].key = k
        BY <2>1 DEF GuardsFit, GuardsTyped
    <2> QED BY <2>2, <2>3 DEF GuardsTyped
<1>4. Holds(t)'
    BY <1>2 DEF Holds
<1>5. ASSUME NEW u \in Threads
      PROVE  /\ Holds(u)' <=> Holding(calls'[u])
             /\ guards'[u].closing => calls'[u].phase = "closing"
             /\ Holds(u)' => SavesOriginal(u)'
             /\ SettingsMade(u)'
    <2>1. CASE u = t
        BY <1>1, <1>2, <1>4, <2>1
    <2>2. CASE u # t
        <3>1. ~Holds(u) /\ ~Holding(calls[u])
            BY <2>2, OneHolder DEF GuardsFit
        <3>2. ~Holds(u)' /\ ~Holding(calls'[u])
            BY <1>1, <1>2, <2>2, <3>1 DEF Holds
        <3>3. SettingsMade(u)'
            <4>1. calls'[u] \in CallRecords /\ PhaseFits(calls'[u])
                BY <1>1, <2>2 DEF CallsFit, CallFits
            <4> QED BY <3>2, <4>1 DEF SettingsMade, Holding, Using, PhaseFits
        <3> QED BY <1>1, <1>2, <2>2, <3>2, <3>3 DEF GuardsFit
    <2> QED BY <2>1, <2>2
<1>6. SettingsRestored'
    BY <1>4 DEF SettingsRestored
<1> QED BY <1>3, <1>5, <1>6 DEF GuardsFit

(* What is written back reads as what was found.                           *)
LEMMA SnapshotFacts ==
    /\ \A v \in Texts \cup {Unset} : Snapshot(v) \in Texts
    /\ \A v : Snapshot(Snapshot(v)) = Snapshot(v)
BY GuardAssumption DEF GuardAssumption, Snapshot

LEMMA StartClosingFits ==
    ASSUME CallsFit, GuardsFit, NEW t \in Threads, StartClosing(t)
    PROVE  GuardsFit' /\ UNCHANGED callVars
<1>1. calls[t].phase = "closing" /\ Holding(calls[t]) /\ Holds(t) /\ UNCHANGED callVars
    BY DEF StartClosing, In, CallsFit, CallFits, PhaseFits, Holding, GuardsFit
<1>2. PICK b \in GuardRecords : b = guards[t]
    BY DEF GuardsFit, GuardsTyped
<1>3. PICK g : g = [b EXCEPT !.closing = TRUE]
    OBVIOUS
<1>4. g \in GuardRecords /\ g.key = b.key /\ g.saved = b.saved
    BY <1>3 DEF GuardRecords
<1>5. guards' = [guards EXCEPT ![t] = g] /\ owner' = owner /\ statics' = statics
    BY <1>2, <1>3 DEF StartClosing, BeginClose
<1>6. guards'[t] = g
    BY <1>5 DEF GuardsFit, GuardsTyped
<1>7. Step(t, calls[t]) /\ calls'[t] = calls[t]
    BY <1>1 DEF Step, callVars, CallsFit
<1>8. SavesOriginal(t)'
    BY <1>1, <1>2, <1>4, <1>5, <1>6 DEF GuardsFit, SavesOriginal, AsFound
<1>9. SettingsMade(t)'
    BY <1>1, <1>7 DEF SettingsMade, Using
<1>10. statics' \in [Settings -> Texts \cup {Unset}]
    BY <1>5 DEF GuardsFit, GuardsTyped
<1> QED BY <1>1, <1>2, <1>4, <1>5, <1>7, <1>8, <1>9, <1>10, HolderStep

LEMMA RestoreFits ==
    ASSUME CallsFit, GuardsFit, NEW t \in Threads, RestoreNext(t)
    PROVE  GuardsFit' /\ UNCHANGED callVars
<1>1. calls[t].phase = "closing" /\ Holding(calls[t]) /\ Holds(t) /\ UNCHANGED callVars
    BY DEF RestoreNext, In, CallsFit, CallFits, PhaseFits, Holding, GuardsFit
<1>2. PICK b \in GuardRecords : b = guards[t]
    BY DEF GuardsFit, GuardsTyped
<1>3. PICK s \in DOMAIN b.saved : RestoreStatic(t, s)
    BY <1>2 DEF RestoreNext
<1>4. PICK S \in SUBSET Settings : b.saved \in [S -> Texts]
    BY DEF GuardRecords
<1>5. PICK m : m = [r \in DOMAIN b.saved \ {s} |-> b.saved[r]]
    OBVIOUS
<1>6. /\ m \in [S \ {s} -> Texts] /\ DOMAIN m = DOMAIN b.saved \ {s}
      /\ \A r \in DOMAIN m : m[r] = b.saved[r]
    BY <1>4, <1>5
<1>7. PICK g : g = [b EXCEPT !.saved = m]
    OBVIOUS
<1>8. g \in GuardRecords /\ g.key = b.key /\ g.saved = m
    <2>1. m \in UNION {[T -> Texts] : T \in SUBSET Settings}
        BY <1>6
    <2> QED BY <1>7, <2>1 DEF GuardRecords
<1>9. /\ guards' = [guards EXCEPT ![t] = g] /\ owner' = owner
      /\ statics' = [statics EXCEPT ![s] = b.saved[s]]
    BY <1>2, <1>3, <1>5, <1>7 DEF RestoreStatic
<1>10. guards'[t] = g
    BY <1>9 DEF GuardsFit, GuardsTyped
<1>11. statics' \in [Settings -> Texts \cup {Unset}]
    BY <1>3, <1>4, <1>9 DEF GuardsFit, GuardsTyped
<1>12. statics'[s] = b.saved[s] /\ \A r \in Settings : r # s => statics'[r] = statics[r]
    BY <1>3, <1>4, <1>9 DEF GuardsFit, GuardsTyped
<1>13. SavesOriginal(t)'
    BY <1>1, <1>2, <1>3, <1>4, <1>6, <1>8, <1>10, <1>12 DEF GuardsFit, SavesOriginal, AsFound
<1>14. Step(t, calls[t]) /\ calls'[t] = calls[t]
    BY <1>1 DEF Step, callVars, CallsFit
<1>15. SettingsMade(t)'
    BY <1>1, <1>14 DEF SettingsMade, Using
<1> QED BY <1>1, <1>2, <1>8, <1>9, <1>11, <1>13, <1>14, <1>15, HolderStep

(* The rest of a list that is being written.                               *)
LEMMA TailRange ==
    ASSUME NEW S, NEW list \in Seq(S), list # <<>>
    PROVE  /\ Head(list) \in S /\ Tail(list) \in Seq(S) /\ Len(list) \in Nat \ {0}
           /\ Len(list) # 1 => Tail(list) # <<>>
           /\ \A r \in Range(list) : r = Head(list) \/ (Len(list) # 1 /\ r \in Range(Tail(list)))
<1>1. Head(list) \in S /\ Len(list) \in Nat \ {0} /\ Head(list) = list[1]
    OBVIOUS
<1>2. PICK tail \in Seq(S) : tail = Tail(list)
    <2>1. Tail(list) \in Seq(S)
        OBVIOUS
    <2> QED BY <2>1
<1>3. /\ Len(tail) = Len(list) - 1
      /\ \A i \in 1..(Len(list) - 1) : tail[i] = list[i + 1]
    BY <1>1, <1>2
<1>4. Len(list) # 1 => tail # <<>>
    <2>1. Len(<<>>) = 0
        OBVIOUS
    <2> QED BY <1>1, <1>3, <2>1
<1>5. ASSUME NEW r \in Range(list), r # Head(list)
      PROVE  Len(list) # 1 /\ r \in Range(tail)
    <2>1. PICK i \in 1..Len(list) : list[i] = r
        BY <1>1 DEF Range
    <2>2. i # 1 /\ i - 1 \in 1..(Len(list) - 1)
        BY <1>1, <1>5, <2>1
    <2>3. tail[i - 1] = r
        BY <1>1, <1>3, <2>1, <2>2
    <2>4. i - 1 \in DOMAIN tail
        BY <1>1, <1>3, <2>2
    <2>5. r \in Range(tail)
        BY <2>3, <2>4 DEF Range
    <2>6. Len(list) # 1
        BY <1>1, <2>1, <2>2
    <2> QED BY <2>5, <2>6
<1> QED BY <1>1, <1>2, <1>4, <1>5

LEMMA SetNextFits ==
    ASSUME CallsFit, GuardsFit, NEW t \in Threads, SetNext(t)
    PROVE  GuardsFit' /\ \E d : Step(t, d) /\ CallFits(d) /\ d.temp = calls[t].temp
<1>1. PICK c \in CallRecords : /\ c = calls[t] /\ CallFits(c) /\ c.phase = "setting" /\ c.op \in GuardedOps
                               /\ c.result = "none" /\ ~c.warned /\ c.todo # <<>>
    BY DEF CallsFit, SetNext, In, CallFits, PhaseFits, Undecided, Phases
<1>2. PICK todo \in Seq(Settings) : todo = c.todo
    BY DEF CallRecords
<1>3. PICK s \in Settings : s = Head(todo)
    BY <1>1, <1>2, TailRange
<1>4. PICK rest \in Seq(Settings) : rest = Tail(todo)
    BY <1>1, <1>2, TailRange
<1>5. PICK phase \in {"setting", "converting"} :
          /\ phase = IF Len(todo) = 1 THEN "converting" ELSE "setting"
          /\ phase = "setting" => rest # <<>>
    BY <1>1, <1>2, <1>4, TailRange
<1>6. PICK d : d = [c EXCEPT !.todo = rest, !.phase = phase]
    OBVIOUS
<1>7. /\ d \in CallRecords /\ d.phase = phase /\ d.todo = rest
      /\ d.op = c.op /\ d.temp = c.temp /\ d.bytes = c.bytes /\ d.result = c.result /\ d.warned = c.warned
    <2>1. phase \in Phases
        BY DEF Phases
    <2> QED BY <1>6, <2>1 DEF CallRecords
<1>8. CallFits(d) /\ Holding(d)
    <2>1. FileFits(d) /\ PhaseFits(d) /\ MetadataFits(d) /\ Holding(d)
        BY <1>1, <1>5, <1>7 DEF CallFits, FileFits, PhaseFits, MetadataFits, LabelsFit, Holding, Undecided, Phases
    <2>2. QuotaFits(d)
        BY <1>1, <1>7 DEF CallFits, QuotaFits, OverQuota
    <2> QED BY <1>7, <2>1, <2>2 DEF CallFits
<1>9. Step(t, d)
    BY <1>1, <1>2, <1>4, <1>5, <1>6 DEF SetNext, AfterSettings
<1>10. calls'[t] = d /\ Holds(t)
    BY <1>1, <1>9 DEF CallsFit, Step, GuardsFit, Holding
<1>11. PICK b \in GuardRecords : b = guards[t]
    BY DEF GuardsFit, GuardsTyped
<1>12. PICK S \in SUBSET Settings : b.saved \in [S -> Texts]
    BY DEF GuardRecords
<1>13. PICK m : m = Saved(b.saved, s)
    OBVIOUS
<1>14. /\ m \in UNION {[T -> Texts] : T \in SUBSET Settings} /\ DOMAIN m = S \cup {s}
       /\ \A r \in S \cup {s} : m[r] = IF r \in S THEN b.saved[r] ELSE Snapshot(statics[s])
    <2>1. PICK saved \in [S -> Texts] : saved = b.saved
        BY <1>12
    <2>2. Snapshot(statics[s]) \in Texts
        BY SnapshotFacts DEF GuardsFit, GuardsTyped
    <2>3. m = [r \in S \cup {s} |-> IF r \in S THEN saved[r] ELSE Snapshot(statics[s])]
        BY <1>13, <2>1 DEF Saved
    <2>4. m \in [S \cup {s} -> Texts] /\ S \cup {s} \in SUBSET Settings
        BY <2>2, <2>3
    <2> QED BY <2>1, <2>3, <2>4
<1>15. PICK g : g = [b EXCEPT !.saved = m]
    OBVIOUS
<1>16. g \in GuardRecords /\ g.key = b.key /\ g.saved = m /\ g.closing = b.closing
    BY <1>14, <1>15 DEF GuardRecords
<1>17. /\ guards' = [guards EXCEPT ![t] = g] /\ owner' = owner
       /\ statics' = [statics EXCEPT ![s] = Wanted(s)]
    BY <1>1, <1>2, <1>3, <1>11, <1>13, <1>15 DEF SetNext, SetStatic
<1>18. guards'[t] = g
    BY <1>17 DEF GuardsFit, GuardsTyped
<1>19. Wanted(s) \in Texts
    BY SettingsAssumption DEF SettingsAssumption
<1>20. /\ statics' \in [Settings -> Texts \cup {Unset}] /\ statics'[s] = Wanted(s)
       /\ \A r \in Settings : r # s => statics'[r] = statics[r]
    BY <1>17, <1>19 DEF GuardsFit, GuardsTyped
<1>21. SavesOriginal(t)'
    <2>1. ASSUME NEW r \in Settings
          PROVE  IF r \in DOMAIN m THEN m[r] \in {Original[r], Snapshot(Original[r])} ELSE AsFound(r)'
        <3>1. /\ r \in S => b.saved[r] \in {Original[r], Snapshot(Original[r])}
              /\ r \notin S => statics[r] \in {Original[r], Snapshot(Original[r])}
            BY <1>10, <1>11, <1>12 DEF GuardsFit, SavesOriginal, AsFound
        <3>2. CASE r \in S
            BY <1>14, <3>1, <3>2
        <3>3. CASE r \notin S /\ r = s
            BY <1>14, <3>1, <3>3, SnapshotFacts
        <3>4. CASE r \notin S /\ r # s
            BY <1>14, <1>20, <3>1, <3>4 DEF AsFound
        <3> QED BY <3>2, <3>3, <3>4
    <2> QED BY <1>16, <1>18, <2>1 DEF SavesOriginal
<1>22. SettingsMade(t)'
    <2>1. ASSUME NEW r \in Range(Sets(c.op))
          PROVE  statics'[r] = Wanted(r) \/ (Len(todo) # 1 /\ r \in Range(rest))
        <3>1. r \in Settings
            BY <1>1, SetsType
        <3>2. r \in Range(todo) \/ statics[r] = Wanted(r)
            BY <1>1, <1>2 DEF GuardsFit, SettingsMade
        <3> QED BY <1>1, <1>2, <1>3, <1>4, <1>20, <3>1, <3>2, TailRange
    <2> QED BY <1>5, <1>7, <1>10, <2>1 DEF SettingsMade, Using
<1>23. g.closing => d.phase = "closing"
    BY <1>1, <1>11, <1>16 DEF GuardsFit
<1>24. GuardsFit'
    BY <1>8, <1>9, <1>10, <1>11, <1>16, <1>17, <1>20, <1>21, <1>22, <1>23, HolderStep
<1> QED BY <1>1, <1>7, <1>8, <1>9, <1>24

LEMMA ReleaseFits ==
    ASSUME CallsFit, GuardsFit, NEW t \in Threads, Release(t)
    PROVE  GuardsFit' /\ \E d : Step(t, d) /\ CallFits(d) /\ d.temp = calls[t].temp
<1>1. PICK c \in CallRecords : c = calls[t] /\ CallFits(c) /\ c.phase = "closing" /\ c.op \in GuardedOps
    BY DEF CallsFit, Release, In, CallFits, PhaseFits
<1>2. PICK d : d = IF c.temp # Nobody THEN [c EXCEPT !.phase = "returned"] ELSE Returned(c)
    OBVIOUS
<1>3. Step(t, d)
    BY <1>1, <1>2 DEF Release
<1>4. CallFits(d) /\ ~Holding(d) /\ ~Using(d) /\ d.temp = c.temp /\ d.phase # "setting"
    <2>1. CASE c.temp # Nobody
        <3>1. d = [c EXCEPT !.phase = "returned"] /\ "returned" \in Phases
            BY <1>2, <2>1 DEF Phases
        <3>2. d \in CallRecords /\ d.phase = "returned" /\ d.result = c.result /\ SameData(c, d)
            BY <3>1, Moved
        <3>3. FileFits(d) /\ PhaseFits(d) /\ ~Holding(d) /\ ~Using(d)
            BY <1>1, <2>1, <3>2 DEF SameData, CallFits, FileFits, PhaseFits, Holding, Using, Undecided
        <3>4. QuotaFits(d)
            BY <1>1, <3>2, OpsKinds DEF SameData, CallFits, QuotaFits
        <3>5. MetadataFits(d)
            BY <1>1, <3>2 DEF SameData, CallFits, MetadataFits, LabelsFit, IsStepImport, OwnMetadata, IsStepExport, OwnLabels
        <3> QED BY <3>2, <3>3, <3>4, <3>5 DEF CallFits, SameData
    <2>2. CASE c.temp = Nobody
        <3>1. d = Returned(c)
            BY <1>2, <2>2
        <3>2. /\ d \in CallRecords /\ d.op = c.op /\ d.phase = "idle" /\ d.temp = Nobody
              /\ d.result = c.result /\ d.warned = FALSE
            BY <3>1, ReturnedIs
        <3>3. FileFits(d) /\ PhaseFits(d) /\ MetadataFits(d) /\ ~Holding(d) /\ ~Using(d)
            BY <3>2 DEF FileFits, PhaseFits, MetadataFits, LabelsFit, Holding, Using, Undecided
        <3>4. QuotaFits(d)
            BY <1>1, <3>2, OpsKinds DEF QuotaFits
        <3> QED BY <2>2, <3>2, <3>3, <3>4 DEF CallFits
    <2> QED BY <2>1, <2>2
<1>5. calls'[t] = d /\ \A u \in Threads : u # t => calls'[u] = calls[u]
    BY <1>3 DEF CallsFit, Step
<1>6. Holds(t) /\ guards[t].key = Nullptr
    BY <1>1 DEF GuardsFit, GuardsTyped, GuardRecords, Holding, Holds
<1>7. /\ DOMAIN guards[t].saved = {} /\ statics' = statics
      /\ owner' = [owner EXCEPT ![Nullptr] = Nobody] /\ guards' = [guards EXCEPT ![t] = NoGuard]
    BY <1>6 DEF Release, CloseGuard
<1>8. \A s \in Settings : AsFound(s)'
    BY <1>6, <1>7 DEF GuardsFit, SavesOriginal, AsFound
<1>9. guards'[t] = NoGuard /\ \A u \in Threads : u # t => guards'[u] = guards[u]
    BY <1>7 DEF GuardsFit, GuardsTyped
<1>10. \A u \in Threads : ~Holds(u)'
    <2>1. \A u \in Threads : u # t => ~Holds(u)
        BY <1>6, OneHolder DEF GuardsFit
    <2> QED BY <1>9, <2>1, NoGuardFits DEF Holds
<1>11. GuardsTyped'
    <2>1. owner'[Nullptr] = Nobody /\ \A k \in Keys : k # Nullptr => owner'[k] = owner[k]
        BY <1>7, KeyFacts DEF GuardsFit, GuardsTyped
    <2>2. ASSUME NEW u \in Threads, NEW k \in Keys PROVE owner'[k] = u <=> guards'[u].key = k
        <3>1. guards'[u].key # k
            BY <1>10, KeyFacts DEF Holds, GuardsFit, GuardsTyped, GuardRecords
        <3>2. owner'[k] # u
            <4>1. CASE k = Nullptr
                BY <2>1, <4>1, KeyFacts
            <4>2. CASE k # Nullptr
                <5>1. guards[u].key # k
                    BY <4>2, KeyFacts DEF GuardsFit, GuardsTyped, GuardRecords
                <5> QED BY <2>1, <4>2, <5>1 DEF GuardsFit, GuardsTyped
            <4> QED BY <4>1, <4>2
        <3> QED BY <3>1, <3>2
    <2>3. owner' \in [Keys -> Threads \cup {Nobody}] /\ guards' \in [Threads -> GuardRecords]
        BY <1>7, NoGuardFits DEF GuardsFit, GuardsTyped
    <2> QED BY <1>7, <2>2, <2>3 DEF GuardsFit, GuardsTyped
<1>12. ASSUME NEW u \in Threads
       PROVE  /\ Holds(u)' <=> Holding(calls'[u])
              /\ guards'[u].closing => calls'[u].phase = "closing"
              /\ SettingsMade(u)'
    <2>1. CASE u = t
        BY <1>4, <1>5, <1>9, <1>10, <2>1, NoGuardFits DEF SettingsMade
    <2>2. CASE u # t
        BY <1>5, <1>7, <1>9, <1>10, <2>2 DEF GuardsFit, Holds, SettingsMade
    <2> QED BY <2>1, <2>2
<1>13. SettingsRestored'
    BY <1>8 DEF SettingsRestored
<1> QED BY <1>1, <1>3, <1>4, <1>10, <1>11, <1>12, <1>13 DEF GuardsFit

-----------------------------------------------------------------------------
(* The temporary files *)

(* A step of one call, which keeps its file.                               *)
LEMMA FilesKept ==
    ASSUME CallsFit, TempFilesOwned, NEW t \in Threads, NEW d, Step(t, d), d.temp = calls[t].temp, files' = files
    PROVE  TempFilesOwned'
<1>1. \A u \in Threads : calls'[u].temp = calls[u].temp
    BY DEF CallsFit, Step
<1> QED BY <1>1 DEF TempFilesOwned

(* A call creates the file it owns from then on.                           *)
LEMMA FileMade ==
    ASSUME CallsFit, TempFilesOwned, NEW t \in Threads, NEW d, Step(t, d), calls[t].temp = Nobody,
           d.temp \notin files, d.temp # Nobody, files' = files \cup {d.temp}
    PROVE  TempFilesOwned'
<1>1. calls'[t].temp = d.temp /\ \A u \in Threads : u # t => calls'[u].temp = calls[u].temp
    BY DEF CallsFit, Step
<1> DEFINE owners == {u \in Threads : calls[u].temp # Nobody}
           ownersAfter == {u \in Threads : calls'[u].temp # Nobody}
<1>2. ownersAfter = owners \cup {t} /\ t \notin owners
    BY <1>1
<1>3. files = Stale \cup {calls[u].temp : u \in owners}
    BY DEF TempFilesOwned
<1>4. files' = Stale \cup {calls'[u].temp : u \in ownersAfter}
    BY <1>1, <1>2, <1>3
<1>5. \A u \in ownersAfter : calls'[u].temp \notin Stale
    BY <1>1, <1>2, <1>3 DEF TempFilesOwned
<1>6. \A u, v \in ownersAfter : u # v => calls'[u].temp # calls'[v].temp
    <2>1. \A u \in owners : calls'[u].temp = calls[u].temp /\ calls[u].temp # d.temp
        BY <1>1, <1>2, <1>3
    <2>2. \A u, v \in owners : u # v => calls[u].temp # calls[v].temp
        BY DEF TempFilesOwned
    <2> QED BY <1>1, <1>2, <2>1, <2>2
<1> QED BY <1>4, <1>5, <1>6 DEF TempFilesOwned

(* A call removes the file it owns.                                        *)
LEMMA FileRemoved ==
    ASSUME CallsFit, TempFilesOwned, NEW t \in Threads, NEW d, Step(t, d), calls[t].temp # Nobody,
           d.temp = Nobody, files' = files \ {calls[t].temp}
    PROVE  TempFilesOwned'
<1>1. calls'[t].temp = Nobody /\ \A u \in Threads : u # t => calls'[u].temp = calls[u].temp
    BY DEF CallsFit, Step
<1> DEFINE owners == {u \in Threads : calls[u].temp # Nobody}
           ownersAfter == {u \in Threads : calls'[u].temp # Nobody}
<1>2. ownersAfter = owners \ {t} /\ t \in owners
    BY <1>1
<1>3. /\ files = Stale \cup {calls[u].temp : u \in owners} /\ calls[t].temp \notin Stale
      /\ \A u \in owners : u # t => calls[u].temp # calls[t].temp
    BY <1>2 DEF TempFilesOwned
<1>4. files' = Stale \cup {calls'[u].temp : u \in ownersAfter}
    BY <1>1, <1>2, <1>3
<1>5. \A u \in ownersAfter : calls'[u].temp \notin Stale
    BY <1>1, <1>2 DEF TempFilesOwned
<1>6. \A u, v \in ownersAfter : u # v => calls'[u].temp # calls'[v].temp
    BY <1>1, <1>2 DEF TempFilesOwned
<1> QED BY <1>4, <1>5, <1>6 DEF TempFilesOwned

-----------------------------------------------------------------------------
(* The whole exchange *)

(* Every call is where it can be, the guards are those of the calls, and   *)
(* so are the files.                                                       *)
ExchangeInv == CallsFit /\ GuardsFit /\ TempFilesOwned

LEMMA ExchangeInitially == ExchangeInit => ExchangeInv
<1> SUFFICES ASSUME ExchangeInit PROVE ExchangeInv
    OBVIOUS
<1>1. CallsFit
    BY NoCallFits DEF ExchangeInit, CallsFit, CallFits
<1>2. \A t \in Threads : calls[t] = NoCall /\ guards[t] = NoGuard /\ ~Holds(t)
    BY NoGuardFits DEF ExchangeInit, GuardInit, Holds
<1>3. GuardsTyped
    BY <1>2, NoGuardFits, KeyFacts DEF ExchangeInit, GuardInit, GuardsTyped
<1>4. SettingsRestored
    BY DEF ExchangeInit, GuardInit, SettingsRestored, AsFound
<1>5. \A t \in Threads : SettingsMade(t)
    BY <1>2 DEF SettingsMade, Using, NoCall
<1>6. GuardsFit
    BY <1>2, <1>3, <1>4, <1>5, NoCallFits, NoGuardFits DEF GuardsFit
<1>7. TempFilesOwned
    BY <1>2 DEF ExchangeInit, TempFilesOwned, NoCall
<1> QED BY <1>1, <1>6, <1>7 DEF ExchangeInv

(* A step that neither the guards nor the files see.                       *)
LEMMA WorkKeeps ==
    ASSUME ExchangeInv, NEW t \in Threads, \E d : Step(t, d) /\ Worked(calls[t], d),
           UNCHANGED files, UNCHANGED guardVars
    PROVE  ExchangeInv'
<1>1. PICK d : Step(t, d) /\ Worked(calls[t], d)
    OBVIOUS
<1>2. CallsFit'
    BY <1>1 DEF ExchangeInv, CallsFit, Step, Worked, CallFits
<1>3. GuardsFit'
    BY <1>1, WorkKeepsGuards DEF ExchangeInv, Worked
<1>4. TempFilesOwned'
    BY <1>1, FilesKept DEF ExchangeInv, Worked
<1> QED BY <1>2, <1>3, <1>4 DEF ExchangeInv

LEMMA ExchangeNextKeeps ==
    ASSUME ExchangeInv, [ExchangeNext]_exchangeVars
    PROVE  ExchangeInv'
<1> USE DEF ExchangeInv
<1>1. CASE UNCHANGED exchangeVars
    <2>1. UNCHANGED <<owner, statics, guards, calls, files>>
        BY <1>1 DEF exchangeVars, guardVars, callVars
    <2>2. CallsFit'
        BY <2>1 DEF CallsFit
    <2>3. GuardsFit'
        BY <2>1 DEF GuardsFit, GuardsTyped, Holds, SavesOriginal, AsFound, SettingsMade, SettingsRestored
    <2>4. TempFilesOwned'
        BY <2>1 DEF TempFilesOwned
    <2> QED BY <2>2, <2>3, <2>4
<1>2. ASSUME NEW t \in Threads, Call(t) \/ Proceed(t)
      PROVE  ExchangeInv'
    <2>1. CASE Call(t)
        BY <2>1, CallWorks, WorkKeeps DEF Call
    <2>2. CASE CheckBuffer(t)
        BY <2>2, CheckBufferWorks, WorkKeeps DEF CheckBuffer
    <2>3. CASE CheckFile(t)
        BY <2>3, CheckFileWorks, WorkKeeps DEF CheckFile
    <2>4. CASE ReadWithMetadata(t)
        BY <2>4, ReadWithMetadataWorks, WorkKeeps DEF ReadWithMetadata
    <2>5. CASE ReadBasic(t)
        BY <2>5, ReadBasicWorks, WorkKeeps DEF ReadBasic
    <2>6. CASE ReadStl(t)
        BY <2>6, ReadStlWorks, WorkKeeps DEF ReadStl
    <2>7. CASE Adopt(t)
        BY <2>7, AdoptWorks, WorkKeeps DEF Adopt
    <2>8. CASE WriteWithMetadata(t)
        BY <2>8, WriteWithMetadataWorks, WorkKeeps DEF WriteWithMetadata
    <2>9. CASE WriteBasic(t)
        BY <2>9, WriteBasicWorks, WorkKeeps DEF WriteBasic
    <2>10. CASE WriteStl(t)
        BY <2>10, WriteStlWorks, WorkKeeps DEF WriteStl
    <2>11. CASE WriteThreeMf(t)
        BY <2>11, WriteThreeMfWorks, WorkKeeps DEF WriteThreeMf
    <2>12. CASE Pack(t)
        BY <2>12, PackWorks, WorkKeeps DEF Pack
    <2>13. CASE ReadBack(t)
        BY <2>13, ReadBackWorks, WorkKeeps DEF ReadBack
    <2>14. CASE Acquire(t)
        <3>1. GuardsFit' /\ \E d : Step(t, d) /\ CallFits(d) /\ d.temp = calls[t].temp
            BY <2>14, AcquireFits
        <3>2. files' = files
            BY <2>14 DEF Acquire
        <3>3. CallsFit'
            BY <3>1 DEF CallsFit, Step, CallFits
        <3> QED BY <3>1, <3>2, <3>3, FilesKept
    <2>15. CASE SetNext(t)
        <3>1. GuardsFit' /\ \E d : Step(t, d) /\ CallFits(d) /\ d.temp = calls[t].temp
            BY <2>15, SetNextFits
        <3>2. files' = files
            BY <2>15 DEF SetNext
        <3>3. CallsFit'
            BY <3>1 DEF CallsFit, Step, CallFits
        <3> QED BY <3>1, <3>2, <3>3, FilesKept
    <2>16. CASE Release(t)
        <3>1. GuardsFit' /\ \E d : Step(t, d) /\ CallFits(d) /\ d.temp = calls[t].temp
            BY <2>16, ReleaseFits
        <3>2. files' = files
            BY <2>16 DEF Release
        <3>3. CallsFit'
            BY <3>1 DEF CallsFit, Step, CallFits
        <3> QED BY <3>1, <3>2, <3>3, FilesKept
    <2>17. CASE StartClosing(t) \/ RestoreNext(t)
        <3>1. GuardsFit' /\ calls' = calls /\ files' = files
            BY <2>17, StartClosingFits, RestoreFits DEF callVars
        <3> QED BY <3>1 DEF CallsFit, TempFilesOwned
    <2>18. CASE Stage(t)
        <3>1. /\ calls[t].temp = Nobody /\ ~Holding(calls[t])
              /\ \E d : /\ Step(t, d) /\ CallFits(d) /\ ~Holding(d) /\ ~Using(d) /\ d.phase # "setting"
                        /\ \/ d.temp = Nobody /\ files' = files
                           \/ d.temp \notin files /\ d.temp # Nobody /\ files' = files \cup {d.temp}
            BY <2>18, StageFits, SizeFacts
        <3>2. CallsFit'
            BY <3>1 DEF CallsFit, Step, CallFits
        <3>3. GuardsFit'
            BY <2>18, <3>1, WorkKeepsGuards DEF Stage
        <3>4. TempFilesOwned'
            BY <3>1, FilesKept, FileMade
        <3> QED BY <3>2, <3>3, <3>4
    <2>19. CASE Unstage(t)
        <3>1. /\ ~Holding(calls[t]) /\ calls[t].temp # Nobody
              /\ \E d : /\ Step(t, d) /\ CallFits(d) /\ ~Holding(d) /\ ~Using(d) /\ d.phase # "setting"
                        /\ d.temp = Nobody /\ files' = files \ {calls[t].temp}
            BY <2>19, UnstageFits
        <3>2. CallsFit'
            BY <3>1 DEF CallsFit, Step, CallFits
        <3>3. GuardsFit'
            BY <2>19, <3>1, WorkKeepsGuards DEF Unstage
        <3>4. TempFilesOwned'
            BY <3>1, FileRemoved
        <3> QED BY <3>2, <3>3, <3>4
    <2> QED BY <1>2, <2>1, <2>2, <2>3, <2>4, <2>5, <2>6, <2>7, <2>8, <2>9, <2>10, <2>11, <2>12, <2>13,
               <2>14, <2>15, <2>16, <2>17, <2>18, <2>19 DEF Proceed
<1> QED BY <1>1, <1>2 DEF ExchangeNext

LEMMA ExchangeAlwaysFits == ExchangeSpec => []ExchangeInv
BY ExchangeInitially, ExchangeNextKeeps, PTL DEF ExchangeSpec

(* Once two threads are in imports or exports, neither sees the settings   *)
(* of the other: whatever a reader or writer runs under is what its own    *)
(* call wrote, and when all guards are closed the table of the process is  *)
(* as it was found.                                                        *)
THEOREM SettingsAlwaysScoped == ExchangeSpec => []SettingsScoped
<1>1. ASSUME ExchangeInv PROVE SettingsScoped
    <2>1. XTypeOK
        <3>1. files \subseteq TempNames
            BY <1>1, ExchangeAssumption
               DEF ExchangeInv, TempFilesOwned, CallsFit, CallRecords, ExchangeAssumption
        <3>2. ASSUME NEW t \in Threads
              PROVE  /\ guards[t].key \in Keys \cup {Nobody}
                     /\ DOMAIN guards[t].saved \subseteq Settings
                     /\ calls[t].phase \in Phases
                     /\ calls[t].result \in {"none", "ok", "failed", "thrown"}
                     /\ \A k \in Keys : owner[k] = t <=> guards[t].key = k
            <4>1. calls[t] \in CallRecords
                BY <1>1 DEF ExchangeInv, CallsFit
            <4>2. guards[t] \in GuardRecords /\ \A k \in Keys : owner[k] = t <=> guards[t].key = k
                BY <1>1 DEF ExchangeInv, GuardsFit, GuardsTyped
            <4>3. calls[t].phase \in Phases /\ calls[t].result \in {"none", "ok", "failed", "thrown"}
                BY <4>1 DEF CallRecords, Results
            <4>4. guards[t].key \in Keys \cup {Nobody} /\ DOMAIN guards[t].saved \subseteq Settings
                BY <4>2, KeyFacts DEF GuardRecords
            <4> QED BY <4>2, <4>3, <4>4
        <3> QED BY <1>1, <3>1, <3>2 DEF XTypeOK, ExchangeInv, GuardsFit, GuardsTyped
    <2>2. SettingsHeld
        BY <1>1 DEF ExchangeInv, GuardsFit, SettingsMade, Using, SettingsHeld
    <2> QED BY <1>1, <2>1, <2>2 DEF ExchangeInv, GuardsFit, SettingsScoped
<1> QED BY <1>1, ExchangeAlwaysFits, PTL

(* A temporary file is one call's from its creation to its removal, and a  *)
(* file another process left is never taken.                               *)
THEOREM TempFilesAlwaysOwned == ExchangeSpec => []TempFilesOwned
<1>1. ExchangeInv => TempFilesOwned
    BY DEF ExchangeInv
<1> QED BY <1>1, ExchangeAlwaysFits, PTL

(* A file over the limit reaches no reader, and no buffer over the limit   *)
(* is handed out.                                                          *)
THEOREM QuotasAlwaysEnforced == ExchangeSpec => []QuotasEnforced
<1>1. ASSUME ExchangeInv PROVE QuotasEnforced
    BY <1>1 DEF ExchangeInv, CallsFit, CallFits, QuotaFits, Within, QuotasEnforced, QuotaBeforeReader, BuffersBounded
<1> QED BY <1>1, ExchangeAlwaysFits, PTL

(* Metadata goes with the shape it was given or read with: what a          *)
(* successful STEP import returns with a shape was read with that shape,   *)
(* not by the attempt before, and a STEP export writes every shape of its  *)
(* list once and in order, with the metadata given at its own place.       *)
THEOREM MetadataAlwaysKept == ExchangeSpec => []MetadataKept
<1>1. ASSUME ExchangeInv PROVE MetadataKept
    <2>1. MetadataOfItsShape
        BY <1>1 DEF ExchangeInv, CallsFit, CallFits, MetadataFits, IsStepImport, OwnMetadata, MetadataOfItsShape
    <2>2. ExportedMetadata
        BY <1>1 DEF ExchangeInv, CallsFit, CallFits, MetadataFits, LabelsFit, IsStepExport, OwnLabels, ExportedMetadata
    <2> QED BY <2>1, <2>2 DEF MetadataKept
<1> QED BY <1>1, ExchangeAlwaysFits, PTL
=============================================================================
