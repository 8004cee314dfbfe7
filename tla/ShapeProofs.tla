----------------------------- MODULE ShapeProofs -----------------------------
(***************************************************************************)
(* Theorems about shapes, for every bound: of the operations that make     *)
(* them, what goes wrong anywhere in a call reaches its caller, and        *)
(* identities are drawn per success; of their tessellation with a cache,   *)
(* what is shown fits the body it is shown for; of their element map,      *)
(* names lead back to the elements that bear them and to where they come   *)
(* from.                                                                   *)
(***************************************************************************)
EXTENDS Geometry, Mesh, ElementMap, Recursion, FiniteSetTheorems, SequenceTheorems

-----------------------------------------------------------------------------
(* The recipes *)

Composites == {"Hole", "ThroughHole", "Rib", "Pocket"}
StepsOf(op) == Recipes[op].steps

LEMMA OperationNames ==
    GeometryOperations =
        {"Box", "BoxAt", "Cylinder", "Sphere", "Cone", "Torus", "Wedge", "Mirror", "SplitBody", "WireOffset", "MakeFaceFromWire", "WireFillet", "Combine", "Extrude", "Revolve", "Draft", "Offset", "Thicken", "VariableFillet", "PatternLinear", "PatternCircular", "Shell", "Sweep", "Fillet", "Chamfer", "Loft", "Boolean", "Hole", "ThroughHole", "Rib", "Pocket"}
  BY DEF GeometryOperations, Recipes

LEMMA PlainSteps ==
    ASSUME NEW op \in {"Box", "BoxAt", "Cylinder", "Sphere", "Cone", "Torus", "Wedge", "Mirror", "SplitBody", "WireOffset", "MakeFaceFromWire", "WireFillet", "Combine"}
    PROVE  StepsOf(op) = <<"make", "map">>
  BY SMTT(40) DEF StepsOf, Recipes, Primitive, Modelling, Unchecked, Box, BoxAt, Cylinder, Sphere, Cone, Torus, Wedge, Mirror, SplitBody, WireOffset, MakeFaceFromWire, WireFillet, Combine

LEMMA HealedSteps ==
    ASSUME NEW op \in {"Extrude", "Revolve", "Draft", "Offset", "Thicken", "VariableFillet", "PatternLinear", "PatternCircular"}
    PROVE  StepsOf(op) = <<"make", "heal", "map">>
  BY DEF StepsOf, Recipes, Modelling, Healed, Extrude, Revolve, Draft, Offset, Thicken, VariableFillet, PatternLinear, PatternCircular

LEMMA PolledSteps ==
    /\ \A op \in {"Shell", "Sweep"} : StepsOf(op) = <<"poll", "make", "heal", "map">>
    /\ \A op \in {"Fillet", "Chamfer", "Loft"} :
          StepsOf(op) = <<"poll", "pick", "make", "heal", "map">>
    /\ StepsOf("Boolean") = <<"poll", "attempt", "heal", "map">>
  BY DEF StepsOf, Recipes, Modelling, Polled, Picked, Shell, Sweep, Fillet, Chamfer, Loft, Boolean

LEMMA CompositeSteps ==
    /\ \A op \in {"Hole", "ThroughHole"} : StepsOf(op) = <<"make", "map", "boolean">>
    /\ StepsOf("Rib") = <<"extrude", "boolean">>
    /\ StepsOf("Pocket") = <<"extrude", "retry", "boolean">>
  BY DEF StepsOf, Recipes, Modelling, Hole, ThroughHole, Rib, Pocket

LEMMA OperationSteps ==
    ASSUME NEW op \in GeometryOperations
    PROVE  \/ /\ op \notin Composites
              /\ \/ StepsOf(op) = <<"make", "map">>
                 \/ StepsOf(op) = <<"make", "heal", "map">>
                 \/ StepsOf(op) = <<"poll", "make", "heal", "map">>
                 \/ StepsOf(op) = <<"poll", "pick", "make", "heal", "map">>
                 \/ StepsOf(op) = <<"poll", "attempt", "heal", "map">>
           \/ op \in {"Hole", "ThroughHole"} /\ StepsOf(op) = <<"make", "map", "boolean">>
           \/ op = "Rib" /\ StepsOf(op) = <<"extrude", "boolean">>
           \/ op = "Pocket" /\ StepsOf(op) = <<"extrude", "retry", "boolean">>
  BY OperationNames, PlainSteps, HealedSteps, PolledSteps, CompositeSteps DEF Composites

(* A result of this operation is neither healed nor made by a boolean.     *)
Unhealed(op) == \A i \in DOMAIN StepsOf(op) : StepsOf(op)[i] \notin {"heal", "boolean"}

(* Which step can follow which, and in the recipes of which operations.    *)
LEMMA StepFollows ==
    ASSUME NEW op \in GeometryOperations, NEW at \in Nat, at \in 1..Len(StepsOf(op)),
           NEW s, s = StepsOf(op)
    PROVE  /\ Len(s) \in Nat
           /\ s[at] \in {"poll", "pick", "make", "attempt", "heal", "map", "extrude", "retry", "boolean"}
           /\ s[at] \in {"poll", "pick", "make", "attempt", "heal", "extrude", "retry"} => at < Len(s)
           /\ s[at] \in {"poll", "pick", "attempt", "heal"} => op \notin Composites
           /\ s[at] \in {"extrude", "retry", "boolean"} => op \in Composites
           /\ s[at] = "poll" => op # "Extrude" /\ s[at + 1] \in {"pick", "make", "attempt"}
           /\ s[at] = "pick" => s[at + 1] = "make"
           /\ s[at] = "make" => \/ s[at + 1] = "heal" /\ op \notin Composites
                                \/ s[at + 1] = "map" /\ (op \in Composites \/ Unhealed(op))
           /\ s[at] = "attempt" => s[at + 1] = "heal"
           /\ s[at] = "heal" => s[at + 1] = "map"
           /\ s[at] = "map" /\ op \in Composites => at < Len(s) /\ s[at + 1] = "boolean"
           /\ s[at] = "map" /\ op \notin Composites => at = Len(s)
           /\ s[at] = "extrude" => \/ op = "Rib" /\ s[at + 1] = "boolean"
                                   \/ /\ op = "Pocket" /\ s[at + 1] = "retry"
                                      /\ at + 2 <= Len(s) /\ s[at + 2] = "boolean"
           /\ s[at] = "retry" => op = "Pocket" /\ s[at + 1] = "boolean"
           /\ s[at] = "boolean" => at = Len(s)
<1>0. op = "Extrude" => Len(s) = 3 /\ s[1] = "make"
    BY HealedSteps
<1>1. CASE op \notin Composites /\ s = <<"make", "map">>
    BY <1>1 DEF Unhealed
<1>2. CASE op \notin Composites /\ s = <<"make", "heal", "map">>
    BY <1>2
<1>3. CASE op \notin Composites /\ s = <<"poll", "make", "heal", "map">>
    <2>1. op # "Extrude"
        BY <1>0, <1>3
    <2>2. Len(s) = 4 /\ DOMAIN s = 1..4
        BY <1>3
    <2> QED BY <1>3, <2>1, <2>2
<1>4. CASE op \notin Composites /\ s = <<"poll", "pick", "make", "heal", "map">>
    <2>1. op # "Extrude"
        BY <1>0, <1>4
    <2>2. Len(s) = 5 /\ DOMAIN s = 1..5
        BY <1>4
    <2> QED BY <1>4, <2>1, <2>2
<1>5. CASE op \notin Composites /\ s = <<"poll", "attempt", "heal", "map">>
    <2>1. op # "Extrude"
        BY <1>0, <1>5
    <2>2. Len(s) = 4 /\ DOMAIN s = 1..4
        BY <1>5
    <2> QED BY <1>5, <2>1, <2>2
<1>6. CASE op \in {"Hole", "ThroughHole"} /\ s = <<"make", "map", "boolean">>
    BY <1>6 DEF Composites
<1>7. CASE op = "Rib" /\ s = <<"extrude", "boolean">>
    BY <1>7 DEF Composites
<1>8. CASE op = "Pocket" /\ s = <<"extrude", "retry", "boolean">>
    BY <1>8 DEF Composites
<1> QED BY OperationSteps, <1>1, <1>2, <1>3, <1>4, <1>5, <1>6, <1>7, <1>8

LEMMA FirstSteps ==
    ASSUME NEW op \in GeometryOperations
    PROVE  /\ Len(StepsOf(op)) \in Nat /\ 1 \in 1..Len(StepsOf(op))
           /\ op \notin Composites => StepsOf(op)[1] \in {"poll", "make"}
           /\ op \in {"Hole", "ThroughHole"} => StepsOf(op)[1] = "make"
           /\ op \in {"Rib", "Pocket"} => StepsOf(op)[1] = "extrude"
  BY OperationSteps DEF Composites

LEMMA BooleansHeal == {"Boolean", "Extrude"} \subseteq GeometryOperations \ Composites /\ ~Unhealed("Boolean")
<1>1. StepsOf("Boolean") = <<"poll", "attempt", "heal", "map">>
    BY PolledSteps
<1>2. 3 \in DOMAIN StepsOf("Boolean") /\ StepsOf("Boolean")[3] = "heal"
    BY <1>1
<1> QED BY <1>2, OperationNames DEF Unhealed, Composites

-----------------------------------------------------------------------------
(* Frames *)

FrameRecords(O) ==
    [op : GeometryOperations, operands : O, at : Nat, tries : 0..4, body : Shapes,
     reply : Shapes \cup {"none", "failed"},
     err : BOOLEAN, warn : BOOLEAN, saw : BOOLEAN, swallowed : BOOLEAN, drew : Nat]

StepAt(f) == Steps(f)[f.at]

(* Identities that a successful operation has drawn by now.                *)
DrawnBy(f) == (IF StepAt(f) = "boolean" THEN 1 ELSE 0) + (IF f.reply = "none" THEN 0 ELSE 1)

Share(op) == IF op \in Composites THEN 2 ELSE 1

(* Identities that an operation under way may yet draw.                    *)
Left(f) ==
    IF f.op \notin Composites THEN 1
    ELSE (IF StepAt(f) = "boolean" THEN 1
          ELSE IF StepAt(f) = "extrude" /\ f.op = "Pocket" THEN 3 ELSE 2)
         - (IF f.reply = "none" THEN 0 ELSE 1)

FrameFits(f) ==
    /\ f.at \in 1..Len(Steps(f))
    /\ f.op \notin Composites =>
          f.reply = "none" /\ ~f.err /\ ~f.saw /\ ~f.swallowed /\ f.drew = 0
    /\ f.reply = "failed" \/ f.saw \/ f.swallowed => f.err
    /\ f.reply # "none" => StepAt(f) \in {"extrude", "retry", "boolean"}
    /\ f.saw => StepAt(f) = "boolean" /\ f.reply = "failed"
    /\ StepAt(f) = "map" /\ f.body = "broken" /\ f.op \notin Composites => f.warn \/ Unhealed(f.op)
    /\ StepAt(f) = "boolean" /\ f.reply = "broken" => f.warn
    /\ f.op \in Composites /\ ~f.err => f.drew = DrawnBy(f)

(* An operation that returns, and whether makeResult() is given a value.   *)
Returns(f, value) ==
    /\ value \/ f.err
    /\ f.saw \/ f.swallowed => f.err
    /\ ~f.err => f.drew = Share(f.op)
    /\ ~f.err /\ f.body = "broken" => f.warn \/ Unhealed(f.op)

(* A composite that waits for the operation it called.                     *)
Waits(caller, op) ==
    /\ caller.op \in Composites
    /\ caller.reply = "none"
    /\ StepAt(caller) \in {"extrude", "retry", "boolean"}
    /\ op = IF StepAt(caller) = "boolean" THEN "Boolean" ELSE "Extrude"

FinishedFits ==
    /\ finished.op \in GeometryOperations \cup {"none"}
    /\ finished.ok => /\ ~finished.saw /\ ~finished.swallowed
                      /\ finished.op \in GeometryOperations
                      /\ finished.drew = Share(finished.op)
                      /\ finished.body = "broken" => finished.warn \/ Unhealed(finished.op)
    /\ ~finished.ok => finished.err

LEMMA FrameStepFollows ==
    ASSUME NEW O, NEW f \in FrameRecords(O), FrameFits(f)
    PROVE  LET s == StepAt(f)
               t == Steps(f)[f.at + 1]
               last == Len(Steps(f))
           IN  /\ f.op \in GeometryOperations /\ f.at \in Nat /\ last \in Nat
               /\ f.at >= 1 /\ f.at <= last
               /\ s \in {"poll", "pick", "make", "attempt", "heal", "map", "extrude", "retry", "boolean"}
               /\ s \in {"poll", "pick", "make", "attempt", "heal", "extrude", "retry"} => f.at < last
               /\ s \in {"poll", "pick", "attempt", "heal"} => f.op \notin Composites
               /\ s \in {"extrude", "retry", "boolean"} => f.op \in Composites
               /\ s = "poll" => f.op # "Extrude" /\ t \in {"pick", "make", "attempt"}
               /\ s = "pick" => t = "make"
               /\ s = "make" => \/ t = "heal" /\ f.op \notin Composites
                                \/ t = "map" /\ (f.op \in Composites \/ Unhealed(f.op))
               /\ s = "attempt" => t = "heal"
               /\ s = "heal" => t = "map"
               /\ s = "map" /\ f.op \in Composites => f.at < last /\ t = "boolean"
               /\ s = "map" /\ f.op \notin Composites => f.at = last
               /\ s = "extrude" => \/ f.op = "Rib" /\ t = "boolean"
                                   \/ /\ f.op = "Pocket" /\ t = "retry"
                                      /\ f.at + 2 <= last /\ Steps(f)[f.at + 2] = "boolean"
               /\ s = "retry" => f.op = "Pocket" /\ t = "boolean"
               /\ s = "boolean" => f.at = last
<1>1. f.op \in GeometryOperations /\ f.at \in Nat
    BY DEF FrameRecords
<1>2. PICK op \in GeometryOperations : op = f.op
    BY <1>1
<1>3. PICK at \in Nat : at = f.at
    BY <1>1
<1>4. Steps(f) = StepsOf(op)
    BY <1>2 DEF Steps, StepsOf
<1>5. PICK s : s = StepsOf(op)
    OBVIOUS
<1>6. at \in 1..Len(StepsOf(op))
    BY <1>3, <1>4 DEF FrameFits
<1>7. Len(s) \in Nat
    BY <1>5, <1>6, StepFollows
<1>8. StepAt(f) = s[at] /\ Steps(f)[f.at + 1] = s[at + 1] /\ Len(Steps(f)) = Len(s)
      /\ Steps(f)[f.at + 2] = s[at + 2]
    BY <1>3, <1>4, <1>5 DEF StepAt
<1> HIDE DEF Unhealed
<1> QED BY <1>2, <1>3, <1>5, <1>6, <1>7, <1>8, StepFollows, SMTT(40)

(* What the caller becomes when the operation it called returns.           *)
Told(r, a, f, v) ==
    /\ r.op = a.op /\ r.at = a.at /\ r.body = a.body
    /\ r.err <=> a.err \/ f.err
    /\ r.warn <=> a.warn \/ f.warn
    /\ r.saw <=> a.saw \/ f.saw
    /\ r.swallowed <=> a.swallowed \/ f.swallowed \/ ~(v /\ ~f.err)
    /\ r.drew = a.drew + f.drew
    /\ r.reply = IF v /\ ~f.err THEN f.body ELSE "failed"

LEMMA ReportedFrame ==
    ASSUME NEW O, NEW a \in FrameRecords(O), NEW f \in FrameRecords(O), NEW v \in BOOLEAN
    PROVE  Reported(a, f, v) \in FrameRecords(O) /\ Told(Reported(a, f, v), a, f, v)
<1>0. PICK r : r = Reported(a, f, v)
    OBVIOUS
<1>1. PICK e \in BOOLEAN : e <=> a.err \/ f.err
    BY DEF FrameRecords
<1>2. PICK w \in BOOLEAN : w <=> a.warn \/ f.warn
    BY DEF FrameRecords
<1>3. PICK c \in BOOLEAN : c <=> a.saw \/ f.saw
    BY DEF FrameRecords
<1>4. PICK l \in BOOLEAN : l <=> a.swallowed \/ f.swallowed \/ ~(v /\ ~f.err)
    BY DEF FrameRecords
<1>5. PICK d \in Nat : d = a.drew + f.drew
    BY DEF FrameRecords
<1>6. PICK y \in Shapes \cup {"none", "failed"} : y = IF v /\ ~f.err THEN f.body ELSE "failed"
    BY DEF FrameRecords
<1>7. r = [a EXCEPT !.err = e, !.warn = w, !.saw = c, !.swallowed = l, !.drew = d, !.reply = y]
    <2>1. (a.err \/ f.err) = e /\ (a.warn \/ f.warn) = w /\ (a.saw \/ f.saw) = c
        BY <1>1, <1>2, <1>3, Zenon
    <2>2. (a.swallowed \/ f.swallowed \/ ~MakesResult(f, v)) = l
        BY <1>4, Zenon DEF MakesResult
    <2>3. (IF MakesResult(f, v) THEN f.body ELSE "failed") = y
        BY <1>6 DEF MakesResult
    <2> QED BY <1>0, <1>5, <2>1, <2>2, <2>3, Zenon DEF Reported
<1>8. /\ r \in FrameRecords(O) /\ r.op = a.op /\ r.at = a.at /\ r.body = a.body
      /\ r.err = e /\ r.warn = w /\ r.saw = c /\ r.swallowed = l /\ r.drew = d /\ r.reply = y
    <2>1. PICK p : p = [a EXCEPT !.err = e, !.warn = w, !.saw = c]
        OBVIOUS
    <2>2. p \in FrameRecords(O)
        BY <2>1 DEF FrameRecords
    <2>3. r = [p EXCEPT !.swallowed = l, !.drew = d, !.reply = y]
        BY <1>7, <2>1, Zenon
    <2>4. r \in FrameRecords(O)
        BY <2>2, <2>3 DEF FrameRecords
    <2>5. /\ r.op = a.op /\ r.at = a.at /\ r.body = a.body
          /\ r.err = e /\ r.warn = w /\ r.saw = c /\ r.swallowed = l /\ r.drew = d /\ r.reply = y
        BY <1>7, SMTT(30) DEF FrameRecords
    <2> QED BY <2>4, <2>5
<1> QED BY <1>0, <1>1, <1>2, <1>3, <1>4, <1>5, <1>6, <1>8 DEF Told

-----------------------------------------------------------------------------
(* The stack of calls *)

CallsFit(stack, drawn) ==
    /\ stack \in Seq(FrameRecords({stack[i].operands : i \in DOMAIN stack}))
    /\ Len(stack) <= 2
    /\ \A i \in DOMAIN stack : FrameFits(stack[i])
    /\ stack # <<>> => stack[1].drew <= drawn /\ drawn + Left(stack[1]) <= MaxDrawn
    /\ Len(stack) = 2 => Waits(stack[1], stack[2].op)

GeoInv ==
    /\ geoCounter \in 0..MaxDrawn
    /\ token \in BOOLEAN
    /\ CallsFit(calls, geoCounter)
    /\ FinishedFits

(* What a frame stands on: nothing, or a composite that waits for it.      *)
Hosts(O, below, f, drawn) ==
    \/ below = <<>> /\ f.drew <= drawn /\ drawn + Left(f) <= MaxDrawn
    \/ \E a \in FrameRecords(O) :
          /\ below = <<a>> /\ FrameFits(a) /\ Waits(a, f.op)
          /\ a.drew <= drawn /\ drawn + Left(a) <= MaxDrawn

LEMMA SmallTuples ==
    ASSUME NEW S, NEW x \in S
    PROVE  /\ <<x>> \in Seq(S) /\ Len(<<x>>) = 1 /\ <<x>>[1] = x
           /\ Append(<<>>, x) = <<x>>
           /\ \A y \in S : /\ <<x, y>> \in Seq(S) /\ Len(<<x, y>>) = 2
                           /\ <<x, y>>[1] = x /\ <<x, y>>[2] = y
                           /\ Append(<<x>>, y) = <<x, y>>
<1>1. <<x>> \in Seq(S) /\ Len(<<x>>) = 1 /\ <<x>>[1] = x
    OBVIOUS
<1>2. Append(<<>>, x) = <<x>>
    OBVIOUS
<1>3. ASSUME NEW y \in S
      PROVE  /\ <<x, y>> \in Seq(S) /\ Len(<<x, y>>) = 2
             /\ <<x, y>>[1] = x /\ <<x, y>>[2] = y
             /\ Append(<<x>>, y) = <<x, y>>
    <2>1. PICK w \in Seq(S) : w = Append(<<x>>, y)
        BY <1>1, AppendProperties
    <2>2. Len(w) = 2 /\ w[1] = x /\ w[2] = y
        BY <1>1, <2>1, AppendProperties
    <2>3. <<x, y>> \in Seq(S) 
        OBVIOUS
    <2>4. Len(<<x, y>>) = 2 /\ <<x, y>>[1] = x /\ <<x, y>>[2] = y
        OBVIOUS
    <2>5. \A i \in 1..Len(w) : w[i] = <<x, y>>[i]
        BY <2>2, <2>4
    <2>6. w = <<x, y>>
        BY <2>2, <2>3, <2>4, <2>5, SeqEqual
    <2> QED BY <2>1, <2>3, <2>4, <2>6
<1> QED BY <1>1, <1>2, <1>3

LEMMA ShortSequences ==
    ASSUME NEW S, NEW s \in Seq(S)
    PROVE  /\ Len(s) \in Nat /\ DOMAIN s = 1..Len(s) /\ (s # <<>> => Len(s) > 0)
           /\ Len(s) = 1 => s[1] \in S /\ SubSeq(s, 1, Len(s) - 1) = <<>> /\ s = Append(<<>>, s[1])
           /\ Len(s) = 2 => /\ s[1] \in S /\ s[2] \in S
                            /\ SubSeq(s, 1, Len(s) - 1) = <<s[1]>> /\ s = Append(<<s[1]>>, s[2])
<1>1. Len(s) \in Nat /\ DOMAIN s = 1..Len(s) /\ (s # <<>> => Len(s) > 0)
    OBVIOUS
<1>2. ASSUME Len(s) = 1
      PROVE  s[1] \in S /\ SubSeq(s, 1, Len(s) - 1) = <<>> /\ s = Append(<<>>, s[1])
    <2>1. PICK x \in S : x = s[1]
        BY <1>2, ElementOfSeq
    <2>2. SubSeq(s, 1, 0) = <<>>
        BY SubSeqEmpty
    <2>3. <<x>> \in Seq(S) /\ Len(<<x>>) = 1 /\ <<x>>[1] = x /\ Append(<<>>, x) = <<x>>
        BY SmallTuples
    <2>4. s = <<x>>
        BY <1>2, <2>1, <2>3, SeqEqual
    <2> QED BY <1>2, <2>1, <2>2, <2>3, <2>4
<1>3. ASSUME Len(s) = 2
      PROVE  /\ s[1] \in S /\ s[2] \in S
             /\ SubSeq(s, 1, Len(s) - 1) = <<s[1]>> /\ s = Append(<<s[1]>>, s[2])
    <2>1. PICK x \in S : x = s[1]
        BY <1>3, ElementOfSeq, SMTT(40)
    <2>2. PICK y \in S : y = s[2]
        BY <1>3, ElementOfSeq
    <2>3. /\ <<x>> \in Seq(S) /\ <<x, y>> \in Seq(S) /\ Len(<<x, y>>) = 2
          /\ <<x, y>>[1] = x /\ <<x, y>>[2] = y /\ Append(<<x>>, y) = <<x, y>>
        BY SmallTuples
    <2>4. SubSeq(s, 1, 1) = <<s[1]>> \o SubSeq(s, 2, 1)
        BY <1>3, SubSeqRecursiveFirst
    <2>5. SubSeq(s, 2, 1) = <<>>
        BY SubSeqEmpty
    <2>6. SubSeq(s, 1, 1) = <<x>>
        BY <2>1, <2>3, <2>4, <2>5, ConcatEmptySeq
    <2>7. s = <<x, y>>
        BY <1>3, <2>1, <2>2, <2>3, SeqEqual
    <2> QED BY <1>3, <2>1, <2>2, <2>3, <2>6, <2>7
<1> QED BY <1>1, <1>2, <1>3

LEMMA TopIs ==
    ASSUME CallsFit(calls, geoCounter), calls # <<>>
    PROVE  \E O : \E f \in FrameRecords(O) :
              /\ f = Top /\ FrameFits(f) /\ calls = Append(Callers, f)
              /\ Hosts(O, Callers, f, geoCounter)
<1>1. PICK O : calls \in Seq(FrameRecords(O))
    BY DEF CallsFit
<1>2. PICK S : S = FrameRecords(O)
    OBVIOUS
<1>3. calls \in Seq(S)
    BY <1>1, <1>2
<1>4. Len(calls) \in {1, 2} /\ DOMAIN calls = 1..Len(calls)
    <2>1. Len(calls) \in Nat /\ Len(calls) > 0 /\ DOMAIN calls = 1..Len(calls)
        BY <1>3, ShortSequences
    <2> QED BY <2>1 DEF CallsFit
<1>5. CASE Len(calls) = 1
    <2>1. /\ calls[1] \in S /\ calls[1] = Top /\ Callers = <<>> /\ calls = Append(Callers, calls[1])
          /\ 1 \in DOMAIN calls
        BY <1>3, <1>4, <1>5, ShortSequences DEF Top, Callers
    <2>2. FrameFits(calls[1]) /\ Hosts(O, Callers, calls[1], geoCounter)
        BY <2>1 DEF CallsFit, Hosts
    <2> QED BY <1>2, <2>1, <2>2
<1>6. CASE Len(calls) = 2
    <2>1. PICK f \in S : f = calls[2]
        BY <1>3, <1>6, ShortSequences
    <2>2. PICK a \in S : a = calls[1]
        BY <1>3, <1>6, ShortSequences
    <2>3. f = Top /\ 1 \in DOMAIN calls /\ 2 \in DOMAIN calls
        BY <1>4, <1>6, <2>1 DEF Top
    <2>5. Callers = <<a>> /\ calls = Append(Callers, f)
        BY <1>3, <1>6, <2>1, <2>2, ShortSequences DEF Callers
    <2>4. FrameFits(a) /\ FrameFits(f) /\ Waits(a, f.op) /\ a.drew <= geoCounter
          /\ geoCounter + Left(a) <= MaxDrawn
        BY <1>6, <2>1, <2>2, <2>3 DEF CallsFit
    <2> QED BY <1>2, <2>3, <2>4, <2>5 DEF Hosts
<1> QED BY <1>4, <1>5, <1>6

LEMMA StacksFit ==
    ASSUME NEW O, NEW f \in FrameRecords(O), NEW below, NEW drawn, FrameFits(f),
           Hosts(O, below, f, drawn)
    PROVE  CallsFit(Append(below, f), drawn)
<1>1. CASE below = <<>> /\ f.drew <= drawn /\ drawn + Left(f) <= MaxDrawn
    <2>1. PICK s : s = Append(below, f)
        OBVIOUS
    <2>2. s = <<f>> /\ DOMAIN s = {1} /\ s[1] = f /\ Len(s) = 1
        BY <1>1, <2>1
    <2>3. PICK P : P = {s[i].operands : i \in DOMAIN s}
        OBVIOUS
    <2>4. f \in FrameRecords(P)
        <3>1. f.operands \in P
            BY <2>2, <2>3
        <3> QED BY <3>1 DEF FrameRecords
    <2>5. s \in Seq(FrameRecords(P))
        BY <2>2, <2>4
    <2> QED BY <1>1, <2>1, <2>2, <2>3, <2>5 DEF CallsFit
<1>2. CASE \E a \in FrameRecords(O) :
              /\ below = <<a>> /\ FrameFits(a) /\ Waits(a, f.op)
              /\ a.drew <= drawn /\ drawn + Left(a) <= MaxDrawn
    <2>0. PICK a \in FrameRecords(O) :
              /\ below = <<a>> /\ FrameFits(a) /\ Waits(a, f.op)
              /\ a.drew <= drawn /\ drawn + Left(a) <= MaxDrawn
        BY <1>2
    <2>1. PICK s : s = Append(below, f)
        OBVIOUS
    <2>2. s = <<a, f>> /\ s[1] = a /\ s[2] = f /\ Len(s) = 2 /\ DOMAIN s = {1, 2}
        BY <2>0, <2>1, SmallTuples
    <2>3. PICK P : P = {s[i].operands : i \in DOMAIN s}
        OBVIOUS
    <2>4. f \in FrameRecords(P) /\ a \in FrameRecords(P)
        <3>1. f.operands \in P /\ a.operands \in P
            BY <2>2, <2>3
        <3> QED BY <3>1 DEF FrameRecords
    <2>5. s \in Seq(FrameRecords(P))
        BY <2>2, <2>4
    <2>6. FrameFits(s[1]) /\ FrameFits(s[2])
        BY <2>0, <2>2
    <2>7. \A i \in DOMAIN s : FrameFits(s[i])
        BY <2>2, <2>6
    <2>8. s # <<>> /\ s[1].drew <= drawn /\ drawn + Left(s[1]) <= MaxDrawn /\ Waits(s[1], s[2].op)
        BY <2>0, <2>2
    <2>9. CallsFit(s, drawn)
        BY <2>2, <2>3, <2>5, <2>7, <2>8 DEF CallsFit
    <2> QED BY <2>1, <2>9
<1> QED BY <1>1, <1>2 DEF Hosts

(* An operation goes on to another frame.                                  *)
LEMMA GoingOnFits ==
    ASSUME NEW O, NEW f \in FrameRecords(O), NEW g \in FrameRecords(O), NEW below, NEW drawn,
           calls = Append(below, f), Hosts(O, below, g, drawn), FrameFits(g),
           calls' = [calls EXCEPT ![Len(calls)] = g]
    PROVE  CallsFit(calls', drawn)
<1>1. PICK S : S = FrameRecords(O)
    OBVIOUS
<1>2. below \in Seq(S) /\ f \in S /\ g \in S
    <2>1. below = <<>> \/ \E a \in S : below = <<a>>
        BY <1>1 DEF Hosts
    <2>2. \A a \in S : <<a>> \in Seq(S)
        BY SmallTuples
    <2>3. <<>> \in Seq(S)
        BY EmptySeq
    <2>4. below \in Seq(S)
        BY <2>1, <2>2, <2>3, Zenon
    <2> QED BY <1>1, <2>4
<1>3. PICK old \in Seq(S) : old = calls /\ Len(old) = Len(below) + 1 /\ Len(below) \in Nat
                            /\ \A i \in 1..Len(below) : old[i] = below[i]
    BY <1>2, AppendProperties
<1>4. PICK new \in Seq(S) : new = Append(below, g) /\ Len(new) = Len(below) + 1
                            /\ new[Len(below) + 1] = g /\ \A i \in 1..Len(below) : new[i] = below[i]
    <2>1. PICK new : new = Append(below, g)
        OBVIOUS
    <2>2. /\ new \in Seq(S) /\ Len(new) = Len(below) + 1 /\ new[Len(below) + 1] = g
          /\ \A i \in 1..Len(below) : new[i] = below[i]
        BY <1>2, <2>1, AppendProperties
    <2> QED BY <2>1, <2>2
<1>5. PICK next : next = [old EXCEPT ![Len(old)] = g]
    OBVIOUS
<1>6. Len(old) \in 1..Len(old)
    BY <1>3
<1>7. /\ next \in Seq(S) /\ Len(next) = Len(old)
      /\ \A j \in 1..Len(old) : next[j] = IF j = Len(old) THEN g ELSE old[j]
    BY <1>2, <1>5, <1>6, ExceptSeq
<1>8. \A i \in 1..Len(next) : next[i] = new[i]
    BY <1>3, <1>4, <1>7
<1>9. next = new
    BY <1>3, <1>4, <1>7, <1>8, SeqEqual
<1>10. calls' = Append(below, g)
    BY <1>3, <1>4, <1>5, <1>9
<1> QED BY <1>10, StacksFit

(* An operation returns.                                                   *)
LEMMA ReturningFits ==
    ASSUME NEW O, NEW f \in FrameRecords(O), NEW g \in FrameRecords(O), NEW below, NEW v \in BOOLEAN,
           NEW drawn \in Nat, NEW now \in Nat, now \in {drawn, drawn + 1},
           Hosts(O, below, f, drawn), g.op = f.op, Returns(g, v), g.drew = f.drew + (now - drawn),
           f.op \notin Composites => f.drew = 0,
           g.saw => f.op # "Extrude",
           FinishedFits, Return(below, g, v), DrawnAssumption
    PROVE  CallsFit(calls', now) /\ FinishedFits'
<1>1. CASE below = <<>>
    <2>1. calls' = <<>>
        BY <1>1 DEF Return
    <2>2. CallsFit(calls', now)
        BY <2>1 DEF CallsFit
    <2>3. PICK b \in BOOLEAN : b <=> v /\ ~g.err
        OBVIOUS
    <2>4. MakesResult(g, v) = b
        BY <2>3, Zenon DEF MakesResult, FrameRecords
    <2>5. finished' = [op |-> g.op, ok |-> b, body |-> g.body, err |-> g.err, warn |-> g.warn,
                       saw |-> g.saw, swallowed |-> g.swallowed, drew |-> g.drew]
        BY <1>1, <2>4 DEF Return
    <2>6. /\ finished'.op = g.op /\ finished'.ok = b /\ finished'.body = g.body /\ finished'.err = g.err
          /\ finished'.warn = g.warn /\ finished'.saw = g.saw /\ finished'.swallowed = g.swallowed
          /\ finished'.drew = g.drew
        BY <2>5
    <2>7. g.op \in GeometryOperations
        BY DEF FrameRecords
    <2> QED BY <2>2, <2>3, <2>6, <2>7 DEF FinishedFits, Returns
<1>2. CASE below # <<>>
    <2>1. PICK a \in FrameRecords(O) :
              /\ below = <<a>> /\ FrameFits(a) /\ Waits(a, f.op)
              /\ a.drew <= drawn /\ drawn + Left(a) <= MaxDrawn
        BY <1>2 DEF Hosts
    <2>2. PICK r : r = Reported(a, g, v)
        OBVIOUS
    <2>3. calls' = Append(<<>>, r) /\ UNCHANGED finished
        BY <2>1, <2>2 DEF Return
    <2>14. r \in FrameRecords(O) /\ Told(r, a, g, v)
        BY <2>2, ReportedFrame
    <2>4. /\ r \in FrameRecords(O)
          /\ r.op = a.op /\ r.at = a.at /\ r.body = a.body
          /\ r.err <=> a.err \/ g.err
          /\ r.warn <=> a.warn \/ g.warn
          /\ r.saw <=> a.saw \/ g.saw
          /\ r.swallowed <=> a.swallowed \/ g.swallowed \/ ~(v /\ ~g.err)
          /\ r.drew = a.drew + g.drew
          /\ r.reply = IF v /\ ~g.err THEN g.body ELSE "failed"
        BY <2>14 DEF Told
    <2>5. Steps(r) = Steps(a) /\ StepAt(r) = StepAt(a)
        BY <2>4 DEF Steps, StepAt
    <2>6. /\ a.op \in Composites /\ a.reply = "none" /\ f.op \in {"Boolean", "Extrude"}
          /\ StepAt(a) \in {"extrude", "retry", "boolean"}
          /\ StepAt(a) = "boolean" <=> f.op = "Boolean"
        BY <2>1 DEF Waits
    <2>7. f.op \notin Composites /\ f.drew = 0 /\ g.drew \in {0, 1} /\ g.drew = now - drawn
        BY <2>6, BooleansHeal
    <2>8. r.reply # "none" /\ a.drew \in Nat /\ g.body \in Shapes
        BY <2>4 DEF FrameRecords, Shapes
    <2>9. FrameFits(r)
        <3>1. ~a.saw /\ r.at \in 1..Len(Steps(r))
            BY <2>1, <2>4, <2>5, <2>6 DEF FrameFits
        <3>2. r.reply = "failed" \/ r.saw \/ r.swallowed => r.err
            BY <2>1, <2>4, <2>8 DEF FrameFits, Returns, Shapes
        <3>3. r.saw => StepAt(r) = "boolean" /\ r.reply = "failed"
            BY <2>4, <2>5, <2>6, <3>1 DEF Returns
        <3>4. StepAt(r) = "boolean" /\ r.reply = "broken" => r.warn
            BY <2>4, <2>5, <2>6, BooleansHeal DEF Returns
        <3>5. ~r.err => r.drew = DrawnBy(r)
            <4>1. ~r.err => g.drew = 1 /\ a.drew = DrawnBy(a)
                BY <2>1, <2>4, <2>6, <2>7 DEF Returns, Share, FrameFits
            <4> QED BY <2>4, <2>5, <2>6, <2>8, <4>1 DEF DrawnBy
        <3> QED BY <2>4, <2>5, <2>6, <3>1, <3>2, <3>3, <3>4, <3>5 DEF FrameFits
    <2>10. r.drew <= now
        BY <2>1, <2>4, <2>7, <2>8
    <2>11. Left(a) \in Nat /\ Left(r) = Left(a) - 1
        BY <2>4, <2>5, <2>6, <2>8 DEF Left
    <2>12. now + Left(r) <= MaxDrawn
        BY <2>1, <2>11 DEF DrawnAssumption
    <2>13. CallsFit(calls', now)
        BY <2>3, <2>4, <2>9, <2>10, <2>12, StacksFit DEF Hosts
    <2> QED BY <2>3, <2>13 DEF FinishedFits
<1> QED BY <1>1, <1>2

-----------------------------------------------------------------------------
(* Going on *)

(* An operation that is no composite keeps its frame clean.                *)
LEMMA SimpleFrame ==
    ASSUME NEW O, NEW f \in FrameRecords(O), NEW g \in FrameRecords(O), NEW below, NEW drawn,
           FrameFits(f), Hosts(O, below, f, drawn), f.op \notin Composites,
           g.op = f.op, g.at \in 1..Len(Steps(g)), g.reply = f.reply, g.err = f.err, g.saw = f.saw,
           g.swallowed = f.swallowed, g.drew = f.drew,
           StepAt(g) = "map" /\ g.body = "broken" => g.warn \/ Unhealed(g.op)
    PROVE  FrameFits(g) /\ Hosts(O, below, g, drawn)
<1>1. g.reply = "none" /\ ~g.err /\ ~g.saw /\ ~g.swallowed /\ g.drew = 0
    BY DEF FrameFits
<1>2. FrameFits(g)
    BY <1>1 DEF FrameFits
<1>3. Left(g) = Left(f)
    BY DEF Left
<1>4. \A a : Waits(a, f.op) => Waits(a, g.op)
    OBVIOUS
<1>5. Hosts(O, below, g, drawn)
    BY <1>3, <1>4 DEF Hosts
<1> QED BY <1>2, <1>5

LEMMA Advanced ==
    ASSUME NEW O, NEW f \in FrameRecords(O), NEW n \in Nat
    PROVE  \E h \in FrameRecords(O) :
              /\ h = [f EXCEPT !.at = n]
              /\ h.op = f.op /\ h.at = n /\ h.body = f.body /\ h.reply = f.reply /\ h.err = f.err
              /\ h.warn = f.warn /\ h.saw = f.saw /\ h.swallowed = f.swallowed /\ h.drew = f.drew
              /\ h.tries = f.tries /\ h.operands = f.operands
<1>1. PICK h : h = [f EXCEPT !.at = n]
    OBVIOUS
<1>2. h \in FrameRecords(O)
    BY <1>1 DEF FrameRecords
<1>3. /\ h.op = f.op /\ h.at = n /\ h.body = f.body /\ h.reply = f.reply /\ h.err = f.err
      /\ h.warn = f.warn /\ h.saw = f.saw /\ h.swallowed = f.swallowed /\ h.drew = f.drew
      /\ h.tries = f.tries /\ h.operands = f.operands
    BY <1>1 DEF FrameRecords
<1> QED BY <1>1, <1>2, <1>3

(* An operation that is no composite goes on to a step that is not its last. *)
LEMMA SimpleContinues ==
    ASSUME NEW O, NEW f \in FrameRecords(O), NEW g \in FrameRecords(O),
           GeoInv, calls = Append(Callers, f), FrameFits(f), Hosts(O, Callers, f, geoCounter),
           f.op \notin Composites, StepAt(f) # "map",
           g.op = f.op, g.at = f.at, g.reply = f.reply, g.err = f.err, g.saw = f.saw,
           g.swallowed = f.swallowed, g.drew = f.drew,
           Steps(f)[f.at + 1] = "map" /\ g.body = "broken" => g.warn \/ Unhealed(f.op),
           Continue(g)
    PROVE  CallsFit(calls', geoCounter) /\ FinishedFits'
<1>1. /\ f.at \in Nat /\ Len(Steps(f)) \in Nat /\ f.at >= 1 /\ f.at < Len(Steps(f))
    BY FrameStepFollows
<1>2. Steps(g) = Steps(f)
    BY DEF Steps
<1>3. calls' = [calls EXCEPT ![Len(calls)] = [g EXCEPT !.at = @ + 1]] /\ UNCHANGED finished
    BY <1>1, <1>2 DEF Continue
<1>4. PICK n \in Nat : n = f.at + 1
    BY <1>1
<1>5. PICK h \in FrameRecords(O) :
          /\ h = [g EXCEPT !.at = n]
          /\ h.op = g.op /\ h.at = n /\ h.body = g.body /\ h.reply = g.reply /\ h.err = g.err
          /\ h.warn = g.warn /\ h.saw = g.saw /\ h.swallowed = g.swallowed /\ h.drew = g.drew
    BY Advanced
<1>6. calls' = [calls EXCEPT ![Len(calls)] = h]
    BY <1>3, <1>4, <1>5
<1>7. h.at \in 1..Len(Steps(h)) /\ StepAt(h) = Steps(f)[f.at + 1]
    BY <1>1, <1>2, <1>4, <1>5, SMTT(40) DEF Steps, StepAt
<1>8. FrameFits(h) /\ Hosts(O, Callers, h, geoCounter)
    BY <1>5, <1>7, SimpleFrame
<1>9. CallsFit(calls', geoCounter)
    BY <1>6, <1>8, GoingOnFits
<1> QED BY <1>3, <1>9 DEF GeoInv, FinishedFits

(* An operation fails.                                                     *)
LEMMA FailingFits ==
    ASSUME NEW O, NEW f \in FrameRecords(O), NEW g \in FrameRecords(O), NEW below,
           NEW drawn \in Nat, NEW now \in Nat, now \in {drawn, drawn + 1},
           FinishedFits, FrameFits(f), Hosts(O, below, f, drawn), DrawnAssumption,
           g.op = f.op, g.drew = f.drew + (now - drawn), g.saw => f.op # "Extrude",
           Failed(below, g)
    PROVE  CallsFit(calls', now) /\ FinishedFits'
<1>1. PICK h : h = [g EXCEPT !.err = TRUE]
    OBVIOUS
<1>2. h \in FrameRecords(O) /\ h.err = TRUE /\ h.op = g.op /\ h.drew = g.drew /\ h.saw = g.saw
    BY <1>1 DEF FrameRecords
<1>3. Return(below, h, FALSE)
    BY <1>1 DEF Failed
<1>4. Returns(h, FALSE)
    BY <1>2 DEF Returns
<1>5. f.op \notin Composites => f.drew = 0
    BY DEF FrameFits
<1>6. FALSE \in BOOLEAN /\ h.op = f.op /\ h.drew = f.drew + (now - drawn) /\ (h.saw => f.op # "Extrude")
    BY <1>2
<1> QED BY <1>2, <1>3, <1>4, <1>5, <1>6, ReturningFits

-----------------------------------------------------------------------------
(* The actions *)


LEMMA AtTop ==
    ASSUME GeoInv, NEW step, AtStep(step)
    PROVE  \E O : \E f \in FrameRecords(O) :
              /\ f = Top /\ FrameFits(f) /\ calls = Append(Callers, f)
              /\ Hosts(O, Callers, f, geoCounter) /\ StepAt(f) = step
<1>1. calls # <<>>
    BY DEF AtStep
<1>2. PICK O : \E f \in FrameRecords(O) :
              /\ f = Top /\ FrameFits(f) /\ calls = Append(Callers, f)
              /\ Hosts(O, Callers, f, geoCounter)
    BY <1>1, TopIs DEF GeoInv
<1>3. PICK f \in FrameRecords(O) :
              /\ f = Top /\ FrameFits(f) /\ calls = Append(Callers, f)
              /\ Hosts(O, Callers, f, geoCounter)
    BY <1>2
<1>4. StepAt(f) = step
    BY <1>3 DEF AtStep, StepAt
<1> QED BY <1>3, <1>4

LEMMA CounterIsNat ==
    ASSUME GeoInv
    PROVE  geoCounter \in Nat /\ MaxDrawn \in Nat /\ DrawnAssumption
  BY DrawnAssumption DEF GeoInv, DrawnAssumption

LEMMA PollKeeps ==
    ASSUME GeoInv, Poll PROVE GeoInv'
<1>1. PICK O : \E f \in FrameRecords(O) :
              /\ f = Top /\ FrameFits(f) /\ calls = Append(Callers, f)
              /\ Hosts(O, Callers, f, geoCounter) /\ StepAt(f) = "poll"
    BY AtTop DEF Poll
<1>2. PICK f \in FrameRecords(O) :
              /\ f = Top /\ FrameFits(f) /\ calls = Append(Callers, f)
              /\ Hosts(O, Callers, f, geoCounter) /\ StepAt(f) = "poll"
    BY <1>1
<1>3. f.op \notin Composites /\ f.op # "Extrude" /\ Steps(f)[f.at + 1] # "map"
    BY <1>2, FrameStepFollows
<1>4. CASE token
    <2>1. PICK g : g = [f EXCEPT !.saw = TRUE]
        OBVIOUS
    <2>2. g \in FrameRecords(O) /\ g.op = f.op /\ g.drew = f.drew
        BY <2>1 DEF FrameRecords
    <2>3. Failed(Callers, g)
        BY <1>2, <1>4, <2>1 DEF Poll
    <2>4. f.drew = 0
        BY <1>2, <1>3 DEF FrameFits
    <2>5. g.drew = f.drew + (geoCounter - geoCounter)
        BY <2>2, <2>4, CounterIsNat
    <2>6. CallsFit(calls', geoCounter) /\ FinishedFits'
        BY <1>2, <1>3, <2>2, <2>3, <2>5, CounterIsNat, FailingFits DEF GeoInv
    <2> QED BY <2>6 DEF GeoInv, Poll
<1>5. CASE ~token
    <2>1. Continue(f)
        BY <1>2, <1>5 DEF Poll
    <2>2. CallsFit(calls', geoCounter) /\ FinishedFits'
        BY <1>2, <1>3, <2>1, SimpleContinues
    <2> QED BY <2>2 DEF GeoInv, Poll
<1> QED BY <1>4, <1>5

(* The operation at the top fails without having drawn anything more.      *)
LEMMA TopFails ==
    ASSUME NEW O, NEW f \in FrameRecords(O), GeoInv, FrameFits(f), Hosts(O, Callers, f, geoCounter),
           ~f.saw \/ f.op # "Extrude", Failed(Callers, f), UNCHANGED <<geoCounter, token>>
    PROVE  GeoInv'
<1>1. f.drew \in Nat
    BY DEF FrameRecords
<1>2. f.drew = f.drew + (geoCounter - geoCounter)
    BY <1>1, CounterIsNat
<1>3. CallsFit(calls', geoCounter) /\ FinishedFits'
    BY <1>2, CounterIsNat, FailingFits DEF GeoInv
<1> QED BY <1>3 DEF GeoInv

LEMMA PickKeeps ==
    ASSUME GeoInv, Pick PROVE GeoInv'
<1>1. PICK O : \E f \in FrameRecords(O) :
              /\ f = Top /\ FrameFits(f) /\ calls = Append(Callers, f)
              /\ Hosts(O, Callers, f, geoCounter) /\ StepAt(f) = "pick"
    BY AtTop DEF Pick
<1>2. PICK f \in FrameRecords(O) :
              /\ f = Top /\ FrameFits(f) /\ calls = Append(Callers, f)
              /\ Hosts(O, Callers, f, geoCounter) /\ StepAt(f) = "pick"
    BY <1>1
<1>3. f.op \notin Composites /\ Steps(f)[f.at + 1] # "map"
    BY <1>2, FrameStepFollows
<1>4. CASE Failed(Callers, f)
    BY <1>2, <1>3, <1>4, TopFails DEF Pick, FrameFits
<1>5. CASE Continue(f)
    <2>1. CallsFit(calls', geoCounter) /\ FinishedFits'
        BY <1>2, <1>3, <1>5, SimpleContinues
    <2> QED BY <2>1 DEF GeoInv, Pick
<1> QED BY <1>2, <1>4, <1>5 DEF Pick

LEMMA GiveUpKeeps ==
    ASSUME GeoInv, GiveUp PROVE GeoInv'
<1>1. PICK step \in {"pick", "make", "attempt", "heal"} : AtStep(step)
    BY DEF GiveUp
<1>2. PICK O : \E f \in FrameRecords(O) :
              /\ f = Top /\ FrameFits(f) /\ calls = Append(Callers, f)
              /\ Hosts(O, Callers, f, geoCounter) /\ StepAt(f) = step
    BY <1>1, AtTop
<1>3. PICK f \in FrameRecords(O) :
              /\ f = Top /\ FrameFits(f) /\ calls = Append(Callers, f)
              /\ Hosts(O, Callers, f, geoCounter) /\ StepAt(f) = step
    BY <1>2
<1>4. ~f.saw
    BY <1>3 DEF FrameFits
<1> QED BY <1>3, <1>4, TopFails DEF GiveUp

(* What a composite is while no call of its own is under way.              *)
LEMMA CompositeAlone ==
    ASSUME NEW O, NEW f \in FrameRecords(O), NEW below, f.op \in Composites,
           Hosts(O, below, f, geoCounter)
    PROVE  below = <<>> /\ f.drew <= geoCounter /\ geoCounter + Left(f) <= MaxDrawn
<1>1. ASSUME NEW a, Waits(a, f.op) PROVE FALSE
    BY <1>1, BooleansHeal DEF Waits
<1> QED BY <1>1 DEF Hosts

(* A composite goes on to a later step.                                    *)
LEMMA CompositeContinues ==
    ASSUME NEW O, NEW f \in FrameRecords(O), NEW g \in FrameRecords(O), NEW now \in Nat,
           GeoInv, calls = Append(Callers, f), FrameFits(f), Hosts(O, Callers, f, geoCounter),
           f.op \in Composites,
           g.op = f.op, g.at \in Nat, g.at >= 1, g.at < Len(Steps(f)), g.reply = "none",
           ~g.saw, g.swallowed => g.err,
           ~g.err => g.drew = IF Steps(f)[g.at + 1] = "boolean" THEN 1 ELSE 0,
           g.drew <= now,
           now + (IF Steps(f)[g.at + 1] = "boolean" THEN 1
                  ELSE IF Steps(f)[g.at + 1] = "extrude" /\ f.op = "Pocket" THEN 3 ELSE 2) <= MaxDrawn,
           Continue(g)
    PROVE  CallsFit(calls', now) /\ FinishedFits'
<1>1. Steps(g) = Steps(f)
    BY DEF Steps
<1>2. Len(Steps(f)) \in Nat
    BY FrameStepFollows
<1>3. calls' = [calls EXCEPT ![Len(calls)] = [g EXCEPT !.at = @ + 1]] /\ UNCHANGED finished
    BY <1>1 DEF Continue
<1>4. PICK n \in Nat : n = g.at + 1
    OBVIOUS
<1>5. PICK h : h = [g EXCEPT !.at = n]
    OBVIOUS
<1>11. h \in FrameRecords(O)
    BY <1>5 DEF FrameRecords
<1>12. /\ h.op = g.op /\ h.at = n /\ h.reply = g.reply /\ h.err = g.err
       /\ h.saw = g.saw /\ h.swallowed = g.swallowed /\ h.drew = g.drew
    BY <1>5 DEF FrameRecords
<1>6. calls' = [calls EXCEPT ![Len(calls)] = h]
    BY <1>3, <1>4, <1>5
<1>7. h.at \in 1..Len(Steps(h)) /\ StepAt(h) = Steps(f)[g.at + 1]
    BY <1>1, <1>2, <1>4, <1>12 DEF Steps, StepAt
<1>8. FrameFits(h)
    BY <1>7, <1>12 DEF FrameFits, DrawnBy
<1>9. Hosts(O, Callers, h, now)
    <2>1. h.drew <= now
        BY <1>12
    <2>2. now + Left(h) <= MaxDrawn
        BY <1>7, <1>12, CounterIsNat DEF Left
    <2> QED BY <2>1, <2>2, CompositeAlone DEF Hosts
<1>10. CallsFit(calls', now)
    BY <1>6, <1>8, <1>9, <1>11, GoingOnFits
<1> QED BY <1>3, <1>10 DEF GeoInv, FinishedFits

LEMMA MakeKeeps ==
    ASSUME GeoInv, Make PROVE GeoInv'
<1>1. PICK O : \E f \in FrameRecords(O) :
              /\ f = Top /\ FrameFits(f) /\ calls = Append(Callers, f)
              /\ Hosts(O, Callers, f, geoCounter) /\ StepAt(f) = "make"
    BY AtTop DEF Make
<1>2. PICK f \in FrameRecords(O) :
              /\ f = Top /\ FrameFits(f) /\ calls = Append(Callers, f)
              /\ Hosts(O, Callers, f, geoCounter) /\ StepAt(f) = "make"
    BY <1>1
<1>3. PICK s \in {"solid", "broken"} : Continue([Top EXCEPT !.body = s])
    BY DEF Make
<1>4. PICK g : g = [f EXCEPT !.body = s]
    OBVIOUS
<1>5. /\ g \in FrameRecords(O) /\ g.op = f.op /\ g.at = f.at /\ g.reply = f.reply /\ g.err = f.err
      /\ g.warn = f.warn /\ g.saw = f.saw /\ g.swallowed = f.swallowed /\ g.drew = f.drew
    BY <1>4 DEF FrameRecords, Shapes
<1>6. Continue(g)
    BY <1>2, <1>3, <1>4
<1>7. /\ f.at \in Nat /\ f.at >= 1 /\ f.at < Len(Steps(f))
      /\ \/ Steps(f)[f.at + 1] = "heal" /\ f.op \notin Composites
         \/ Steps(f)[f.at + 1] = "map" /\ (f.op \in Composites \/ Unhealed(f.op))
    BY <1>2, FrameStepFollows
<1>8. CASE f.op \notin Composites
    <2>1. Steps(f)[f.at + 1] = "map" /\ g.body = "broken" => g.warn \/ Unhealed(f.op)
        BY <1>7, <1>8
    <2>2. CallsFit(calls', geoCounter) /\ FinishedFits'
        BY <1>2, <1>5, <1>6, <1>8, <2>1, SimpleContinues
    <2> QED BY <2>2 DEF GeoInv, Make
<1>9. CASE f.op \in Composites
    <2>1. f.reply = "none" /\ ~f.saw /\ (f.swallowed => f.err) /\ (~f.err => f.drew = 0)
        BY <1>2, <1>9 DEF FrameFits, DrawnBy
    <2>2. f.drew <= geoCounter /\ geoCounter + 2 <= MaxDrawn
        BY <1>2, <1>9, <2>1, CompositeAlone, CounterIsNat DEF Left
    <2>3. Steps(f)[f.at + 1] = "map"
        BY <1>7, <1>9
    <2>4. CallsFit(calls', geoCounter) /\ FinishedFits'
        <3>1. /\ g.op = f.op /\ g.at \in Nat /\ g.at >= 1 /\ g.at < Len(Steps(f)) /\ g.reply = "none"
              /\ ~g.saw /\ (g.swallowed => g.err) /\ (~g.err => g.drew = 0) /\ g.drew <= geoCounter
              /\ Steps(f)[g.at + 1] = "map"
            BY <1>5, <1>7, <2>1, <2>2, <2>3
        <3> QED BY <1>2, <1>5, <1>6, <1>9, <2>2, <3>1, CompositeContinues, CounterIsNat
    <2> QED BY <2>4 DEF GeoInv, Make
<1> QED BY <1>8, <1>9

LEMMA AttemptKeeps ==
    ASSUME GeoInv, Attempt PROVE GeoInv'
<1>1. PICK O : \E f \in FrameRecords(O) :
              /\ f = Top /\ FrameFits(f) /\ calls = Append(Callers, f)
              /\ Hosts(O, Callers, f, geoCounter) /\ StepAt(f) = "attempt"
    BY AtTop DEF Attempt
<1>2. PICK f \in FrameRecords(O) :
              /\ f = Top /\ FrameFits(f) /\ calls = Append(Callers, f)
              /\ Hosts(O, Callers, f, geoCounter) /\ StepAt(f) = "attempt"
    BY <1>1
<1>3. f.op \notin Composites /\ Steps(f)[f.at + 1] = "heal"
    BY <1>2, FrameStepFollows
<1>4. CASE \E s \in {"solid", "broken"} : Continue([Top EXCEPT !.body = s])
    <2>1. PICK s \in {"solid", "broken"} : Continue([Top EXCEPT !.body = s])
        BY <1>4
    <2>2. PICK g : g = [f EXCEPT !.body = s]
        OBVIOUS
    <2>3. /\ g \in FrameRecords(O) /\ g.op = f.op /\ g.at = f.at /\ g.reply = f.reply /\ g.err = f.err
          /\ g.saw = f.saw /\ g.swallowed = f.swallowed /\ g.drew = f.drew
        BY <2>2 DEF FrameRecords, Shapes
    <2>4. Continue(g)
        BY <1>2, <2>1, <2>2
    <2>5. CallsFit(calls', geoCounter) /\ FinishedFits'
        BY <1>2, <1>3, <2>3, <2>4, SimpleContinues
    <2> QED BY <2>5 DEF GeoInv, Attempt
<1>5. CASE Top.tries = 4 /\ Failed(Callers, Top)
    <2>1. ~f.saw
        BY <1>2, <1>3 DEF FrameFits
    <2> QED BY <1>2, <1>5, <2>1, TopFails DEF Attempt
<1>6. CASE Top.tries # 4 /\ calls' = [calls EXCEPT ![Len(calls)].tries = @ + 1] /\ UNCHANGED finished
    <2>1. PICK n \in 0..4 : n = f.tries + 1
        BY <1>2, <1>6 DEF FrameRecords
    <2>2. PICK g : g = [f EXCEPT !.tries = n]
        OBVIOUS
    <2>3. /\ g \in FrameRecords(O) /\ g.op = f.op /\ g.at = f.at /\ g.reply = f.reply /\ g.err = f.err
          /\ g.saw = f.saw /\ g.swallowed = f.swallowed /\ g.drew = f.drew
        BY <2>2 DEF FrameRecords
    <2>4. Steps(g) = Steps(f) /\ StepAt(g) = "attempt" /\ g.at \in 1..Len(Steps(g))
        BY <1>2, <2>3 DEF Steps, StepAt, FrameFits
    <2>5. FrameFits(g) /\ Hosts(O, Callers, g, geoCounter)
        BY <1>2, <1>3, <2>3, <2>4, SimpleFrame
    <2>6. calls' = [calls EXCEPT ![Len(calls)] = g]
        BY <1>2, <1>6, <2>1, <2>2, Zenon DEF Top
    <2>7. CallsFit(calls', geoCounter)
        BY <1>2, <2>3, <2>5, <2>6, GoingOnFits
    <2> QED BY <1>6, <2>7 DEF GeoInv, Attempt, FinishedFits
<1> QED BY <1>4, <1>5, <1>6 DEF Attempt

LEMMA HealKeeps ==
    ASSUME GeoInv, Heal PROVE GeoInv'
<1>1. PICK O : \E f \in FrameRecords(O) :
              /\ f = Top /\ FrameFits(f) /\ calls = Append(Callers, f)
              /\ Hosts(O, Callers, f, geoCounter) /\ StepAt(f) = "heal"
    BY AtTop DEF Heal
<1>2. PICK f \in FrameRecords(O) :
              /\ f = Top /\ FrameFits(f) /\ calls = Append(Callers, f)
              /\ Hosts(O, Callers, f, geoCounter) /\ StepAt(f) = "heal"
    BY <1>1
<1>3. f.op \notin Composites
    BY <1>2, FrameStepFollows
<1>4. PICK r \in FixShape(f.body) :
          Continue([Top EXCEPT !.body = r.shape, !.warn = @ \/ r.shape = "broken"])
    BY <1>2 DEF Heal
<1>5. PICK s \in Shapes : s = r.shape
    BY <1>4 DEF FixShape, FrameRecords, Shapes
<1>6. PICK w \in BOOLEAN : w <=> f.warn \/ s = "broken"
    OBVIOUS
<1>7. PICK g : g = [f EXCEPT !.body = s, !.warn = w]
    OBVIOUS
<1>8. /\ g \in FrameRecords(O) /\ g.op = f.op /\ g.at = f.at /\ g.reply = f.reply /\ g.err = f.err
      /\ g.saw = f.saw /\ g.swallowed = f.swallowed /\ g.drew = f.drew
      /\ g.body = s /\ g.warn = w
    BY <1>7 DEF FrameRecords
<1>9. (f.warn \/ s = "broken") = w
    BY <1>6, Zenon DEF FrameRecords
<1>10. Continue(g)
    BY <1>2, <1>4, <1>5, <1>7, <1>9, Zenon
<1>11. g.body = "broken" => g.warn \/ Unhealed(f.op)
    BY <1>6, <1>8
<1>12. CallsFit(calls', geoCounter) /\ FinishedFits'
    BY <1>2, <1>3, <1>8, <1>10, <1>11, SimpleContinues
<1> QED BY <1>12 DEF GeoInv, Heal

LEMMA MapElementsKeeps ==
    ASSUME GeoInv, MapElements PROVE GeoInv'
<1>1. PICK O : \E f \in FrameRecords(O) :
              /\ f = Top /\ FrameFits(f) /\ calls = Append(Callers, f)
              /\ Hosts(O, Callers, f, geoCounter) /\ StepAt(f) = "map"
    BY AtTop DEF MapElements
<1>2. PICK f \in FrameRecords(O) :
              /\ f = Top /\ FrameFits(f) /\ calls = Append(Callers, f)
              /\ Hosts(O, Callers, f, geoCounter) /\ StepAt(f) = "map"
    BY <1>1
<1>3. PICK g : g = [f EXCEPT !.drew = f.drew + 1]
    OBVIOUS
<1>4. f.drew \in Nat /\ f.body \in Shapes
    BY DEF FrameRecords
<1>5. /\ g \in FrameRecords(O) /\ g.op = f.op /\ g.at = f.at /\ g.reply = f.reply /\ g.err = f.err
      /\ g.warn = f.warn /\ g.saw = f.saw /\ g.swallowed = f.swallowed /\ g.drew = f.drew + 1
      /\ g.body = f.body
    BY <1>3, <1>4 DEF FrameRecords
<1>6. PICK now \in Nat : now = geoCounter + 1
    BY CounterIsNat
<1>7. geoCounter' = now /\ UNCHANGED token /\ (Continue(g) \/ Failed(Callers, g))
    BY <1>2, <1>3, <1>6 DEF MapElements
<1>8. now \in {geoCounter, geoCounter + 1} /\ g.drew = f.drew + (now - geoCounter)
    BY <1>4, <1>5, <1>6, CounterIsNat
<1>9. f.reply = "none" /\ ~f.saw
    BY <1>2 DEF FrameFits
<1>10. now <= MaxDrawn
    <2>1. CASE f.op \in Composites
        <3>1. Left(f) = 2
            BY <1>2, <1>9, <2>1 DEF Left
        <3> QED BY <1>2, <1>6, <2>1, <3>1, CompositeAlone, CounterIsNat
    <2>2. CASE f.op \notin Composites
        <3>1. Left(f) = 1
            BY <2>2 DEF Left
        <3>2. ASSUME NEW a \in FrameRecords(O), Waits(a, f.op), geoCounter + Left(a) <= MaxDrawn
              PROVE  now <= MaxDrawn
            <4>1. Left(a) \in {1, 2, 3}
                BY <3>2 DEF Left, Waits
            <4> QED BY <1>6, <3>2, <4>1, CounterIsNat
        <3>3. Callers = <<>> => geoCounter + Left(f) <= MaxDrawn
            BY <1>2 DEF Hosts
        <3> QED BY <1>2, <1>6, <3>1, <3>2, CounterIsNat DEF Hosts
    <2> QED BY <2>1, <2>2
<1>11. CASE Failed(Callers, g)
    <2>1. CallsFit(calls', now) /\ FinishedFits'
        BY <1>2, <1>5, <1>8, <1>9, <1>11, CounterIsNat, FailingFits DEF GeoInv
    <2> QED BY <1>7, <1>10, <2>1 DEF GeoInv
<1>12. CASE Continue(g) /\ f.op \notin Composites
    <2>1. f.at = Len(Steps(f)) /\ f.at \in Nat /\ Steps(g) = Steps(f)
        BY <1>2, <1>5, <1>12, FrameStepFollows DEF Steps
    <2>2. Return(Callers, g, TRUE)
        <3>1. ~(g.at < Len(Steps(g)))
            BY <1>5, <2>1
        <3> QED BY <1>12, <3>1, Zenon DEF Continue
    <2>3. f.drew = 0 /\ ~f.err /\ ~f.saw /\ ~f.swallowed /\ (f.body = "broken" => f.warn \/ Unhealed(f.op))
        BY <1>2, <1>12 DEF FrameFits
    <2>4. Returns(g, TRUE)
        BY <1>5, <1>12, <2>3 DEF Returns, Share
    <2>5. (f.op \notin Composites => f.drew = 0) /\ (g.saw => f.op # "Extrude")
        BY <1>5, <2>3
    <2>6. CallsFit(calls', now) /\ FinishedFits'
        BY <1>2, <1>5, <1>8, <2>2, <2>4, <2>5, CounterIsNat, ReturningFits DEF GeoInv
    <2> QED BY <1>7, <1>10, <2>6 DEF GeoInv
<1>13. CASE Continue(g) /\ f.op \in Composites
    <2>1. f.at \in Nat /\ f.at >= 1 /\ f.at < Len(Steps(f)) /\ Steps(f)[f.at + 1] = "boolean"
        BY <1>2, <1>13, FrameStepFollows
    <2>2. (f.swallowed => f.err) /\ (~f.err => f.drew = 0)
        BY <1>2, <1>13 DEF FrameFits, DrawnBy
    <2>3. Left(f) = 2
        BY <1>2, <1>9, <1>13 DEF Left
    <2>4. f.drew <= geoCounter /\ geoCounter + 2 <= MaxDrawn
        BY <1>2, <1>13, <2>3, CompositeAlone
    <2>5. CallsFit(calls', now) /\ FinishedFits'
        <3>1. /\ g.at \in Nat /\ g.at >= 1 /\ g.at < Len(Steps(f)) /\ g.reply = "none"
              /\ ~g.saw /\ (g.swallowed => g.err) /\ (~g.err => g.drew = 1)
            BY <1>4, <1>5, <1>9, <2>1, <2>2
        <3>2. g.drew <= now /\ now + 1 <= MaxDrawn
            BY <1>4, <1>5, <1>6, <2>4, CounterIsNat
        <3>3. Steps(f)[g.at + 1] = "boolean"
            BY <1>5, <2>1
        <3> QED BY <1>2, <1>5, <1>13, <3>1, <3>2, <3>3, CompositeContinues
    <2> QED BY <1>7, <1>10, <2>5 DEF GeoInv
<1> QED BY <1>7, <1>11, <1>12, <1>13

(* An operation begins.                                                    *)
LEMMA NewFrame ==
    ASSUME NEW op \in GeometryOperations, NEW o, NEW O, o \in O
    PROVE  /\ Frame(op, o) \in FrameRecords(O) /\ FrameFits(Frame(op, o))
           /\ Frame(op, o).op = op /\ Frame(op, o).drew = 0
           /\ Left(Frame(op, o)) \in {1, 2, 3}
<1>1. PICK f : f = Frame(op, o)
    OBVIOUS
<1>2. /\ f.op = op /\ f.at = 1 /\ f.reply = "none" /\ f.err = FALSE /\ f.saw = FALSE
      /\ f.swallowed = FALSE /\ f.drew = 0 /\ f.body = "null"
    BY <1>1 DEF Frame
<1>3. f \in FrameRecords(O)
    BY <1>1 DEF Frame, FrameRecords, Shapes
<1>4. Steps(f) = StepsOf(op)
    BY <1>2 DEF Steps, StepsOf
<1>5. f.at \in 1..Len(Steps(f))
    BY <1>2, <1>4, FirstSteps
<1>6. /\ op \notin Composites => StepAt(f) \in {"poll", "make"}
      /\ op \in Composites => StepAt(f) \in {"make", "extrude"}
    BY <1>2, <1>4, FirstSteps DEF StepAt, Composites
<1>7. FrameFits(f)
    BY <1>2, <1>5, <1>6 DEF FrameFits, DrawnBy
<1>8. Left(f) \in {1, 2, 3}
    BY <1>2 DEF Left
<1> QED BY <1>1, <1>2, <1>3, <1>7, <1>8

LEMMA BeginKeeps ==
    ASSUME GeoInv, NEW op, NEW inputs, NEW O, NEW f \in FrameRecords(O),
           f = Frame(op, Operands(inputs)), FrameFits(f), f.drew = 0, ~f.saw,
           Hosts(O, calls, f, geoCounter), Begin(op, inputs), UNCHANGED <<geoCounter, token>>
    PROVE  GeoInv'
<1>1. CASE calls' = Append(calls, f) /\ UNCHANGED finished
    <2>1. CallsFit(calls', geoCounter)
        BY <1>1, StacksFit
    <2> QED BY <1>1, <2>1 DEF GeoInv, FinishedFits
<1>2. CASE Failed(calls, f)
    <2>1. f.drew = f.drew + (geoCounter - geoCounter)
        BY CounterIsNat
    <2>2. CallsFit(calls', geoCounter) /\ FinishedFits'
        BY <1>2, <2>1, CounterIsNat, FailingFits DEF GeoInv
    <2> QED BY <2>2 DEF GeoInv
<1> QED BY <1>1, <1>2 DEF Begin

LEMMA GeoCallKeeps ==
    ASSUME GeoInv, NEW op \in GeometryOperations, GeoCall(op) PROVE GeoInv'
<1>1. PICK inputs : Begin(op, inputs)
    BY DEF GeoCall
<1>2. PICK o : o = Operands(inputs)
    OBVIOUS
<1>3. PICK f \in FrameRecords({o}) :
          f = Frame(op, o) /\ FrameFits(f) /\ f.op = op /\ f.drew = 0 /\ Left(f) \in {1, 2, 3}
    <2>1. o \in {o}
        OBVIOUS
    <2> QED BY <2>1, NewFrame
<1>4. f.saw = FALSE
    BY <1>3 DEF Frame
<1>5. calls = <<>> /\ geoCounter + 3 <= MaxDrawn /\ UNCHANGED <<geoCounter, token>>
    BY DEF GeoCall
<1>6. f.drew <= geoCounter /\ geoCounter + Left(f) <= MaxDrawn
    BY <1>3, <1>5, CounterIsNat
<1>7. Hosts({o}, calls, f, geoCounter)
    BY <1>5, <1>6 DEF Hosts
<1> QED BY <1>1, <1>2, <1>3, <1>4, <1>5, <1>7, BeginKeeps

(* The composite at the top: nothing is under it.                          *)
LEMMA AtComposite ==
    ASSUME GeoInv, calls # <<>>, \/ Top.reply # "none"
                                 \/ \E step \in {"extrude", "retry", "boolean"} : AtStep(step)
    PROVE  \E O : \E f \in FrameRecords(O) :
              /\ f = Top /\ FrameFits(f) /\ calls = Append(Callers, f)
              /\ Hosts(O, Callers, f, geoCounter)
              /\ f.op \in Composites /\ StepAt(f) \in {"extrude", "retry", "boolean"}
              /\ Callers = <<>> /\ f.drew <= geoCounter /\ geoCounter + Left(f) <= MaxDrawn
<1>1. PICK O : \E f \in FrameRecords(O) :
              /\ f = Top /\ FrameFits(f) /\ calls = Append(Callers, f)
              /\ Hosts(O, Callers, f, geoCounter)
    BY TopIs DEF GeoInv
<1>2. PICK f \in FrameRecords(O) :
              /\ f = Top /\ FrameFits(f) /\ calls = Append(Callers, f)
              /\ Hosts(O, Callers, f, geoCounter)
    BY <1>1
<1>3. StepAt(f) \in {"extrude", "retry", "boolean"}
    BY <1>2 DEF FrameFits, AtStep, StepAt
<1>4. f.op \in Composites
    BY <1>2, <1>3, FrameStepFollows
<1>5. Callers = <<>> /\ f.drew <= geoCounter /\ geoCounter + Left(f) <= MaxDrawn
    BY <1>2, <1>4, CompositeAlone
<1> QED BY <1>2, <1>3, <1>4, <1>5

LEMMA NestKeeps ==
    ASSUME GeoInv, Nest PROVE GeoInv'
<1>1. PICK O : \E f \in FrameRecords(O) :
              /\ f = Top /\ FrameFits(f) /\ calls = Append(Callers, f)
              /\ Hosts(O, Callers, f, geoCounter)
              /\ f.op \in Composites /\ StepAt(f) \in {"extrude", "retry", "boolean"}
              /\ Callers = <<>> /\ f.drew <= geoCounter /\ geoCounter + Left(f) <= MaxDrawn
    BY AtComposite DEF Nest
<1>2. PICK a \in FrameRecords(O) :
              /\ a = Top /\ FrameFits(a) /\ calls = Append(Callers, a)
              /\ Hosts(O, Callers, a, geoCounter)
              /\ a.op \in Composites /\ StepAt(a) \in {"extrude", "retry", "boolean"}
              /\ Callers = <<>> /\ a.drew <= geoCounter /\ geoCounter + Left(a) <= MaxDrawn
    BY <1>1
<1>3. \E op \in {"Extrude", "Boolean"} : \E inputs :
          /\ op = IF StepAt(a) = "boolean" THEN "Boolean" ELSE "Extrude"
          /\ Begin(op, inputs)
    BY <1>2 DEF Nest, AtStep, StepAt
<1>4. PICK op \in {"Extrude", "Boolean"} : \E inputs :
          /\ op = IF StepAt(a) = "boolean" THEN "Boolean" ELSE "Extrude"
          /\ Begin(op, inputs)
    BY <1>3
<1>5. PICK inputs :
          /\ op = IF StepAt(a) = "boolean" THEN "Boolean" ELSE "Extrude"
          /\ Begin(op, inputs)
    BY <1>4
<1>6. PICK o : o = Operands(inputs)
    OBVIOUS
<1>7. PICK P : P = {o, a.operands}
    OBVIOUS
<1>8. a \in FrameRecords(P)
    BY <1>2, <1>7 DEF FrameRecords
<1>9. o \in P /\ op \in GeometryOperations
    BY <1>7, BooleansHeal
<1>10. PICK f \in FrameRecords(P) : f = Frame(op, o) /\ FrameFits(f) /\ f.op = op /\ f.drew = 0
    BY <1>9, NewFrame
<1>11. f.saw = FALSE
    BY <1>10 DEF Frame
<1>12. a.reply = "none" /\ UNCHANGED <<geoCounter, token>>
    BY <1>2 DEF Nest
<1>13. Waits(a, f.op)
    BY <1>2, <1>5, <1>10, <1>12 DEF Waits
<1>14. calls = <<a>>
    BY <1>2, SmallTuples
<1>15. Hosts(P, calls, f, geoCounter)
    BY <1>2, <1>8, <1>13, <1>14 DEF Hosts
<1> QED BY <1>5, <1>6, <1>10, <1>11, <1>12, <1>15, BeginKeeps

LEMMA ResumeKeeps ==
    ASSUME GeoInv, Resume PROVE GeoInv'
<1>1. PICK O : \E f \in FrameRecords(O) :
              /\ f = Top /\ FrameFits(f) /\ calls = Append(Callers, f)
              /\ Hosts(O, Callers, f, geoCounter)
              /\ f.op \in Composites /\ StepAt(f) \in {"extrude", "retry", "boolean"}
              /\ Callers = <<>> /\ f.drew <= geoCounter /\ geoCounter + Left(f) <= MaxDrawn
    BY AtComposite DEF Resume
<1>2. PICK f \in FrameRecords(O) :
              /\ f = Top /\ FrameFits(f) /\ calls = Append(Callers, f)
              /\ Hosts(O, Callers, f, geoCounter)
              /\ f.op \in Composites /\ StepAt(f) \in {"extrude", "retry", "boolean"}
              /\ Callers = <<>> /\ f.drew <= geoCounter /\ geoCounter + Left(f) <= MaxDrawn
    BY <1>1
<1>3. f.reply # "none" /\ UNCHANGED <<geoCounter, token>>
    BY <1>2 DEF Resume
<1>4. PICK inner \in Shapes : inner = IF f.reply # "failed" THEN f.reply ELSE f.body
    BY <1>3 DEF FrameRecords
<1>5. PICK g : g = [f EXCEPT !.reply = "none", !.body = inner]
    OBVIOUS
<1>6. /\ g \in FrameRecords(O) /\ g.op = f.op /\ g.at = f.at /\ g.reply = "none" /\ g.err = f.err
      /\ g.warn = f.warn /\ g.saw = f.saw /\ g.swallowed = f.swallowed /\ g.drew = f.drew
      /\ g.body = inner
    BY <1>5 DEF FrameRecords
<1>7. PICK again \in BOOLEAN : again <=> f.at < Len(Steps(f)) /\ Steps(f)[f.at + 1] = "retry"
    OBVIOUS
<1>8. Steps(g) = Steps(f) /\ StepAt(g) = StepAt(f)
    BY <1>6 DEF Steps, StepAt
<1>9. /\ f.reply # "failed" =>
            Continue([g EXCEPT !.at = IF again THEN g.at + 1 ELSE g.at])
      /\ f.reply = "failed" /\ again => Continue(g)
      /\ f.reply = "failed" /\ ~again /\ StepAt(f) = "boolean" => Return(Callers, g, FALSE)
      /\ f.reply = "failed" /\ ~again /\ StepAt(f) # "boolean" => Failed(Callers, g)
    <2>1. g = [f EXCEPT !.reply = "none", !.body = IF f.reply # "failed" THEN f.reply ELSE f.body]
        BY <1>4, <1>5
    <2>2. again <=> g.at < Len(Steps(g)) /\ Steps(g)[g.at + 1] = "retry"
        BY <1>6, <1>7, <1>8
    <2>3. AtStep("boolean") <=> StepAt(f) = "boolean"
        BY <1>2 DEF AtStep, StepAt, Resume
    <2>4. g = [Top EXCEPT !.reply = "none", !.body = IF Top.reply # "failed" THEN Top.reply ELSE @]
        BY <1>2, <2>1
    <2> QED BY <1>2, <2>2, <2>3, <2>4 DEF Resume
<1>10. /\ f.at \in Nat /\ f.at >= 1 /\ f.at <= Len(Steps(f)) /\ Len(Steps(f)) \in Nat
       /\ f.drew \in Nat
    BY <1>2, FrameStepFollows DEF FrameRecords
<1>11. /\ f.swallowed \/ f.saw \/ f.reply = "failed" => f.err
       /\ f.saw => StepAt(f) = "boolean"
       /\ ~f.err => f.drew = DrawnBy(f)
    BY <1>2 DEF FrameFits
<1>12. CASE StepAt(f) = "boolean"
    <2>1. ~again /\ f.at = Len(Steps(f))
        BY <1>2, <1>7, <1>12, FrameStepFollows
    <2>2. PICK v \in BOOLEAN : v <=> f.reply # "failed"
        OBVIOUS
    <2>3. Return(Callers, g, v)
        <3>1. CASE f.reply = "failed"
            BY <1>9, <1>12, <2>1, <2>2, <3>1
        <3>2. CASE f.reply # "failed"
            <4>1. [g EXCEPT !.at = g.at] = g
                BY <1>6 DEF FrameRecords
            <4>2. Continue(g)
                BY <1>9, <2>1, <3>2, <4>1
            <4>3. Return(Callers, g, TRUE)
                <5>1. ~(g.at < Len(Steps(g)))
                    BY <1>6, <1>8, <1>10, <2>1
                <5> QED BY <4>2, <5>1, Zenon DEF Continue
            <4> QED BY <2>2, <3>2, <4>3
        <3> QED BY <3>1, <3>2
    <2>4. Returns(g, v)
        <3>1. ~f.err => f.drew = 2
            BY <1>3, <1>11, <1>12 DEF DrawnBy
        <3>2. ~f.err /\ inner = "broken" => f.warn
            BY <1>2, <1>4, <1>11, <1>12 DEF FrameFits
        <3> QED BY <1>2, <1>6, <1>11, <2>2, <3>1, <3>2 DEF Returns, Share
    <2>5. g.drew = f.drew + (geoCounter - geoCounter)
        BY <1>6, <1>10, CounterIsNat
    <2>6. g.saw => f.op # "Extrude"
        BY <1>2, BooleansHeal
    <2>7. CallsFit(calls', geoCounter) /\ FinishedFits'
        BY <1>2, <1>6, <2>3, <2>4, <2>5, <2>6, CounterIsNat, ReturningFits DEF GeoInv
    <2> QED BY <1>3, <2>7 DEF GeoInv
<1>13. CASE StepAt(f) # "boolean" /\ f.reply = "failed" /\ ~again
    <2>1. g.drew = f.drew + (geoCounter - geoCounter)
        BY <1>6, <1>10, CounterIsNat
    <2>2. g.saw => f.op # "Extrude"
        BY <1>2, BooleansHeal
    <2>3. CallsFit(calls', geoCounter) /\ FinishedFits'
        BY <1>2, <1>6, <1>9, <1>13, <2>1, <2>2, CounterIsNat, FailingFits DEF GeoInv
    <2> QED BY <1>3, <2>3 DEF GeoInv
<1>14. CASE StepAt(f) # "boolean" /\ f.reply = "failed" /\ again
    <2>1. StepAt(f) = "extrude" /\ f.op = "Pocket" /\ f.at < Len(Steps(f)) /\ Steps(f)[f.at + 1] = "retry"
        BY <1>2, <1>7, <1>14, FrameStepFollows
    <2>2. Left(f) = 2
        BY <1>2, <1>3, <2>1 DEF Left
    <2>3. /\ g.at \in Nat /\ g.at >= 1 /\ g.at < Len(Steps(f)) /\ g.reply = "none"
          /\ ~g.saw /\ (g.swallowed => g.err) /\ g.err /\ g.drew <= geoCounter
          /\ Steps(f)[g.at + 1] = "retry" /\ geoCounter + 2 <= MaxDrawn
        BY <1>2, <1>6, <1>10, <1>11, <1>14, <2>1, <2>2
    <2>4. Continue(g)
        BY <1>9, <1>14
    <2>5. CallsFit(calls', geoCounter) /\ FinishedFits'
        BY <1>2, <1>6, <2>3, <2>4, CounterIsNat, CompositeContinues
    <2> QED BY <1>3, <2>5 DEF GeoInv
<1>15. CASE StepAt(f) # "boolean" /\ f.reply # "failed"
    <2>1. PICK n \in Nat : n = IF again THEN g.at + 1 ELSE g.at
        BY <1>6, <1>10
    <2>2. n >= 1 /\ n < Len(Steps(f)) /\ Steps(f)[n + 1] = "boolean"
        <3>1. CASE again
            <4>1. /\ f.at + 2 <= Len(Steps(f)) /\ Steps(f)[f.at + 2] = "boolean"
                BY <1>2, <1>7, <1>15, <3>1, FrameStepFollows
            <4>2. n = f.at + 1 /\ n + 1 = f.at + 2
                BY <1>6, <1>10, <2>1, <3>1
            <4> QED BY <1>10, <4>1, <4>2
        <3>2. CASE ~again
            <4>1. f.at < Len(Steps(f)) /\ Steps(f)[f.at + 1] = "boolean"
                BY <1>2, <1>7, <1>15, <3>2, FrameStepFollows
            <4> QED BY <1>6, <1>10, <2>1, <3>2, <4>1
        <3> QED BY <3>1, <3>2
    <2>3. PICK h : h = [g EXCEPT !.at = n]
        OBVIOUS
    <2>4. h \in FrameRecords(O)
        BY <1>6, <2>3 DEF FrameRecords
    <2>5. /\ h.op = g.op /\ h.at = n /\ h.reply = "none" /\ h.err = g.err
          /\ h.saw = g.saw /\ h.swallowed = g.swallowed /\ h.drew = g.drew
        BY <1>6, <2>3 DEF FrameRecords
    <2>6. Continue(h)
        BY <1>9, <1>15, <2>1, <2>3
    <2>7. Left(f) \in {1, 2} /\ (~f.err => f.drew = 1)
        BY <1>2, <1>3, <1>11, <1>15 DEF Left, DrawnBy
    <2>8. /\ h.at \in Nat /\ h.at >= 1 /\ h.at < Len(Steps(f))
          /\ ~h.saw /\ (h.swallowed => h.err) /\ (~h.err => h.drew = 1) /\ h.drew <= geoCounter
          /\ Steps(f)[h.at + 1] = "boolean" /\ geoCounter + 1 <= MaxDrawn
        BY <1>2, <1>6, <1>11, <1>15, <2>2, <2>5, <2>7, CounterIsNat
    <2>9. CallsFit(calls', geoCounter) /\ FinishedFits'
        BY <1>2, <1>6, <2>4, <2>5, <2>6, <2>8, CounterIsNat, CompositeContinues
    <2> QED BY <1>3, <2>9 DEF GeoInv
<1> QED BY <1>12, <1>13, <1>14, <1>15

-----------------------------------------------------------------------------
(* The invariant *)

LEMMA GeoInitFits == GeoInit => GeoInv
<1> SUFFICES ASSUME GeoInit PROVE GeoInv
    OBVIOUS
<1>1. calls = <<>> /\ geoCounter = 0 /\ token = FALSE
    BY DEF GeoInit
<1>2. CallsFit(calls, geoCounter)
    BY <1>1 DEF CallsFit
<1>3. finished.op = "none" /\ finished.ok = FALSE /\ finished.err = TRUE
    BY DEF GeoInit, NothingFinished
<1>4. FinishedFits
    BY <1>3 DEF FinishedFits
<1>5. geoCounter \in 0..MaxDrawn
    BY <1>1, DrawnAssumption DEF DrawnAssumption
<1>6. token \in BOOLEAN
    BY <1>1
<1> QED BY <1>2, <1>4, <1>5, <1>6 DEF GeoInv

LEMMA GeoInvKept == GeoInv /\ [GeoNext]_geoVars => GeoInv'
<1> SUFFICES ASSUME GeoInv, [GeoNext]_geoVars PROVE GeoInv'
    OBVIOUS
<1>1. CASE Cancel
    BY <1>1 DEF Cancel, GeoInv, FinishedFits
<1>2. CASE UNCHANGED geoVars
    BY <1>2 DEF geoVars, GeoInv, FinishedFits
<1> QED BY <1>1, <1>2, GeoCallKeeps, PollKeeps, PickKeeps, MakeKeeps, GiveUpKeeps, AttemptKeeps,
           HealKeeps, MapElementsKeeps, NestKeeps, ResumeKeeps DEF GeoNext

LEMMA GeoInvAlways == GeoSpec => []GeoInv
<1> QED BY GeoInitFits, GeoInvKept, PTL DEF GeoSpec

(* What the runs check as FailuresReachTheCaller: a call that found its    *)
(* token cancelled, in which a nested call failed, or that was refused,    *)
(* fails with an error, and one that heals its result says when that did   *)
(* not help, whatever it went through.                                     *)
THEOREM FailuresAlwaysReachTheCaller == GeoSpec => []FailuresReachTheCaller
<1>1. GeoInv => FailuresReachTheCaller
    BY DEF GeoInv, FinishedFits, FailuresReachTheCaller, CancelledCallsFail, RefusalsExplained,
           NoFailureSwallowed, InvalidResultsWarned, Unhealed, StepsOf
<1> QED BY <1>1, GeoInvAlways, PTL

(* From a poll that found the token cancelled until the outermost call     *)
(* returns, only that call's own failure is left to do.                    *)
LEMMA CancelledDrawNothing ==
    ASSUME GeoInv, [GeoNext]_geoVars, \E i \in DOMAIN calls : calls[i].saw
    PROVE  geoCounter' = geoCounter
<1>1. CASE MapElements
    <2>1. PICK O : \E f \in FrameRecords(O) :
              /\ f = Top /\ FrameFits(f) /\ calls = Append(Callers, f)
              /\ Hosts(O, Callers, f, geoCounter) /\ StepAt(f) = "map"
        BY <1>1, AtTop DEF MapElements
    <2>2. PICK f \in FrameRecords(O) :
              /\ f = Top /\ FrameFits(f) /\ calls = Append(Callers, f)
              /\ Hosts(O, Callers, f, geoCounter) /\ StepAt(f) = "map"
        BY <2>1
    <2>3. ~f.saw
        BY <2>2 DEF FrameFits
    <2>4. ASSUME NEW a \in FrameRecords(O), FrameFits(a), Waits(a, f.op) PROVE ~a.saw
        BY <2>4 DEF FrameFits, Waits
    <2>5. CASE Callers = <<>>
        <3>1. calls = <<f>>
            BY <2>2, <2>5, SmallTuples
        <3>2. \A i \in DOMAIN calls : calls[i] = f
            BY <3>1
        <3> QED BY <2>3, <3>2
    <2>6. CASE \E a \in FrameRecords(O) : Callers = <<a>> /\ FrameFits(a) /\ Waits(a, f.op)
        <3>1. PICK a \in FrameRecords(O) : Callers = <<a>> /\ FrameFits(a) /\ Waits(a, f.op)
            BY <2>6
        <3>2. calls = <<a, f>>
            BY <2>2, <3>1, SmallTuples
        <3>3. \A i \in DOMAIN calls : calls[i] = a \/ calls[i] = f
            BY <3>2
        <3> QED BY <2>3, <2>4, <3>1, <3>3
    <2> QED BY <2>2, <2>5, <2>6 DEF Hosts
<1>2. CASE ~MapElements
    BY <1>2 DEF GeoNext, GeoCall, Cancel, Poll, Pick, Make, GiveUp, Attempt, Heal, Nest, Resume, geoVars
<1> QED BY <1>1, <1>2

(* The operations under way and the identities they draw fit together.     *)
LEMMA TypesFit == GeoInv => GeoTypeOK
<1> SUFFICES ASSUME GeoInv PROVE GeoTypeOK
    OBVIOUS
<1>1. CASE calls = <<>>
    BY <1>1 DEF GeoInv, GeoTypeOK, FinishedFits
<1>2. CASE calls # <<>>
    <2>1. PICK O : \E f \in FrameRecords(O) :
              /\ f = Top /\ FrameFits(f) /\ calls = Append(Callers, f)
              /\ Hosts(O, Callers, f, geoCounter)
        BY <1>2, TopIs DEF GeoInv
    <2>2. PICK f \in FrameRecords(O) :
              /\ f = Top /\ FrameFits(f) /\ calls = Append(Callers, f)
              /\ Hosts(O, Callers, f, geoCounter)
        BY <2>1
    <2>3. ASSUME NEW g \in FrameRecords(O), FrameFits(g), g.drew <= geoCounter
          PROVE  /\ g.op \in GeometryOperations /\ g.at \in 1..Len(Steps(g)) /\ g.tries \in 0..4
                 /\ g.body \in Shapes /\ g.drew <= geoCounter
        BY <2>3 DEF FrameRecords, FrameFits
    <2>4. CASE Callers = <<>> /\ f.drew <= geoCounter
        <3>1. calls = <<f>>
            BY <2>2, <2>4, SmallTuples
        <3>2. Len(calls) = 1 /\ \A i \in DOMAIN calls : calls[i] = f
            BY <3>1
        <3> QED BY <2>2, <2>3, <2>4, <3>2 DEF GeoInv, GeoTypeOK, FinishedFits
    <2>5. CASE \E a \in FrameRecords(O) :
                  Callers = <<a>> /\ FrameFits(a) /\ Waits(a, f.op) /\ a.drew <= geoCounter
        <3>1. PICK a \in FrameRecords(O) :
                  Callers = <<a>> /\ FrameFits(a) /\ Waits(a, f.op) /\ a.drew <= geoCounter
            BY <2>5
        <3>2. calls = <<a, f>>
            BY <2>2, <3>1, SmallTuples
        <3>3. Len(calls) = 2 /\ calls[1] = a /\ \A i \in DOMAIN calls : calls[i] = a \/ calls[i] = f
            BY <3>2
        <3>4. f.drew = 0 /\ a.op \in Composites
            BY <2>2, <3>1, BooleansHeal DEF FrameFits, Waits
        <3>5. f.drew <= geoCounter
            BY <3>4, CounterIsNat
        <3> QED BY <2>2, <2>3, <3>1, <3>3, <3>4, <3>5 DEF GeoInv, GeoTypeOK, FinishedFits, Composites
    <2> QED BY <2>2, <2>4, <2>5 DEF Hosts
<1> QED BY <1>1, <1>2

(* What the runs check as IdentitiesAccounted: an operation that succeeds  *)
(* has drawn as many identities as it always does, whatever retries it     *)
(* took, and none is drawn once a poll has found the token cancelled.      *)
THEOREM IdentitiesAlwaysAccounted == GeoSpec => IdentitiesAccounted
<1>1. GeoInv => GeoTypeOK /\ SuccessDrawsItsShare
    <2>1. GeoInv => SuccessDrawsItsShare
        BY DEF GeoInv, FinishedFits, SuccessDrawsItsShare, Share, Composites
    <2> QED BY <2>1, TypesFit
<1>2. GeoInv /\ [GeoNext]_geoVars
        => [(\E i \in DOMAIN calls : calls[i].saw) => geoCounter' = geoCounter]_geoVars
    BY CancelledDrawNothing
<1> QED BY <1>1, <1>2, GeoInvAlways, PTL DEF GeoSpec, IdentitiesAccounted, NothingDrawnAfterCancel

-----------------------------------------------------------------------------
(* Tessellation with a cache *)

(* Faces as a body has them; a face's triangulation has a deflection.       *)
MeshFaces == [outline : Outlines, holes : {0, 1}, fine : Nat]

LEMMA LargestOfTwo ==
    ASSUME NEW a \in Nat, NEW b \in Nat
    PROVE  Largest({a, b}) \in Nat
<1>1. \E x \in {a, b} : \A y \in {a, b} : x >= y
    <2>1. CASE a >= b
        BY <2>1
    <2>2. CASE b >= a
        BY <2>2
    <2> QED BY <2>1, <2>2
<1>2. Max({a, b}) \in {a, b}
    BY <1>1, Zenon DEF Max
<1>3. Max({a, b}) \in Nat
    BY <1>2
<1>4. Largest({a, b}) = Max({a, b})
    <2>1. {a, b} # {}
        OBVIOUS
    <2> QED BY <2>1, Zenon DEF Largest
<1> QED BY <1>3, <1>4

LEMMA LargestOutline ==
    ASSUME NEW faces \in Seq(MeshFaces)
    PROVE  Diagonal(faces) \in Nat
<1> DEFINE outlines == {faces[i].outline : i \in DOMAIN faces}
<1>1. outlines \subseteq {1, 2}
    <2>1. ASSUME NEW i \in DOMAIN faces PROVE faces[i].outline \in {1, 2}
        <3>1. faces[i] \in MeshFaces
            OBVIOUS
        <3> QED BY <3>1 DEF MeshFaces, Outlines
    <2> QED BY <2>1, Zenon
<1>2. Diagonal(faces) = Largest(outlines)
    BY Zenon DEF Diagonal
<1> HIDE DEF outlines
<1>3. outlines = {} \/ outlines = {1, 1} \/ outlines = {2, 2} \/ outlines = {1, 2}
    BY <1>1
<1>4. Largest({}) = 0
    BY Zenon DEF Largest
<1>5. Largest({1, 1}) \in Nat /\ Largest({2, 2}) \in Nat /\ Largest({1, 2}) \in Nat
    <2>1. 1 \in Nat /\ 2 \in Nat
        OBVIOUS
    <2> QED BY <2>1, LargestOfTwo, Zenon
<1>6. Largest(outlines) \in Nat
    <2>1. 0 \in Nat
        OBVIOUS
    <2> QED BY <1>3, <1>4, <1>5, <2>1, Zenon
<1> QED BY <1>2, <1>6, Zenon

LEMMA ParamsAreTold ==
    ASSUME NEW params \in ParamChoices
    PROVE  params.linear \in Nat
<1>1. CASE params \in [mode : {"absolute"}, linear : {0, 1, 2}, normals : {TRUE}]
    BY <1>1
<1>2. CASE params \in [mode : {"absolute", "relative", "auto"}, linear : {1}, normals : {FALSE}]
    BY <1>2
<1> QED BY <1>1, <1>2, Zenon DEF ParamChoices

LEMMA DeflectionIsNat ==
    ASSUME NEW faces \in Seq(MeshFaces), NEW params \in ParamChoices
    PROVE  Deflection(faces, params) \in Nat
<1>1. PICK d \in Nat : d = Diagonal(faces)
    BY LargestOutline
<1>2. PICK n \in Nat : n = params.linear
    BY ParamsAreTold
<1>3. PICK k \in Nat : k = IF params.mode = "auto" THEN 1 ELSE n
    OBVIOUS
<1>4. d * k \in Nat
    <2>1. \A a, b \in Nat : a * b \in Nat
        OBVIOUS
    <2> QED BY <2>1, Zenon
<1>5. Largest({n, 1}) \in Nat /\ Largest({1, d * k}) \in Nat
    <2>1. 1 \in Nat
        OBVIOUS
    <2> QED BY <1>4, <2>1, LargestOfTwo, Zenon
<1>6. Deflection(faces, params) =
        IF params.mode = "absolute" THEN n
        ELSE IF d = 0 THEN Largest({n, 1}) ELSE Largest({1, d * k})
    BY <1>1, <1>2, <1>3, Zenon DEF Deflection
<1>7. CASE params.mode = "absolute"
    BY <1>6, <1>7
<1>8. CASE params.mode # "absolute" /\ d = 0
    BY <1>5, <1>6, <1>8, Zenon
<1>9. CASE params.mode # "absolute" /\ d # 0
    BY <1>5, <1>6, <1>9, Zenon
<1> QED BY <1>7, <1>8, <1>9

(* The mesher leaves the faces what they are and no coarser than asked.     *)
Refined(faces, before, deflection) ==
    /\ faces \in Seq(MeshFaces) /\ DOMAIN faces = DOMAIN before /\ Len(faces) = Len(before)
    /\ \A i \in DOMAIN before : /\ faces[i].outline = before[i].outline
                                /\ faces[i].holes = before[i].holes
                                /\ faces[i].fine <= deflection

LEMMA TriangulatedIsRefined ==
    ASSUME NEW before \in Seq(MeshFaces), NEW deflection \in Nat,
           NEW faces \in Triangulated(before, deflection)
    PROVE  Refined(faces, before, deflection)
<1>1. PICK done \in SUBSET DOMAIN before :
        faces = [i \in DOMAIN before |->
                    IF before[i].fine \in 1..deflection THEN before[i]
                    ELSE [before[i] EXCEPT !.fine = IF i \in done THEN deflection ELSE 0]]
    BY DEF Triangulated
<1>2. ASSUME NEW i \in DOMAIN before
      PROVE  /\ faces[i] \in MeshFaces
             /\ faces[i].outline = before[i].outline /\ faces[i].holes = before[i].holes
             /\ faces[i].fine <= deflection
    <2>1. before[i] \in MeshFaces
        OBVIOUS
    <2>2. CASE before[i].fine \in 1..deflection
        <3>1. faces[i] = before[i]
            BY <1>1, <2>2
        <3> QED BY <2>1, <2>2, <3>1
    <2>3. CASE before[i].fine \notin 1..deflection
        <3>1. PICK n \in {0, deflection} : n = IF i \in done THEN deflection ELSE 0
            OBVIOUS
        <3>2. faces[i] = [before[i] EXCEPT !.fine = n]
            BY <1>1, <2>3, <3>1
        <3> QED BY <2>1, <3>2 DEF MeshFaces
    <2> QED BY <2>2, <2>3
<1>3. DOMAIN faces = DOMAIN before /\ DOMAIN before = 1..Len(before) /\ Len(before) \in Nat
    BY <1>1
<1>4. faces = [i \in 1..Len(before) |-> faces[i]]
    BY <1>1, <1>3
<1>5. faces \in Seq(MeshFaces) /\ Len(faces) = Len(before)
    BY <1>2, <1>3, <1>4
<1> QED BY <1>2, <1>3, <1>5 DEF Refined

LEMMA RefinedKeepsDeflection ==
    ASSUME NEW before, NEW faces, NEW d, Refined(faces, before, d), NEW params
    PROVE  Deflection(faces, params) = Deflection(before, params)
<1>1. {faces[i].outline : i \in DOMAIN faces} = {before[i].outline : i \in DOMAIN before}
    BY DEF Refined
<1>2. Diagonal(faces) = Diagonal(before)
    BY <1>1, Zenon DEF Diagonal
<1> QED BY <1>2, Zenon DEF Deflection

-----------------------------------------------------------------------------
(* Assembling *)

AppendsFaces(cached, assembled) ==
    assembled = [i \in 0..Len(cached) |->
                    IF i = 0 THEN NoBuffers ELSE WithFace(assembled[i - 1], i, cached[i])]

LEMMA AssemblyIsMade ==
    ASSUME NEW cached, Len(cached) \in Nat
    PROVE  \E assembled : /\ AppendsFaces(cached, assembled)
                          /\ AssembleMesh(cached) = assembled[Len(cached)]
<1>1. PICK top \in Nat : top = Len(cached)
    OBVIOUS
<1> DEFINE Made(n, h) == h = [i \in 0..n |-> IF i = 0 THEN NoBuffers ELSE WithFace(h[i - 1], i, cached[i])]
           T == {n \in 0..top : \E h : Made(n, h)}
<1>2. 0 \in T
    <2> DEFINE h == [i \in 0..0 |-> NoBuffers]
    <2>1. Made(0, h)
        <3>1. \A i \in 0..0 : i = 0
            OBVIOUS
        <3>2. h = [i \in 0..0 |-> IF i = 0 THEN NoBuffers ELSE WithFace(h[i - 1], i, cached[i])]
            BY <3>1
        <3> QED BY <3>2
    <2> HIDE DEF Made
    <2> QED BY <2>1
<1>3. ASSUME NEW n \in 1..top, n - 1 \in T PROVE n \in T
    <2>1. PICK h : Made(n - 1, h)
        BY <1>3
    <2> DEFINE g == [i \in 0..n |-> IF i = n THEN WithFace(h[n - 1], n, cached[n]) ELSE h[i]]
    <2>2. ASSUME NEW i \in 0..n
          PROVE  g[i] = IF i = 0 THEN NoBuffers ELSE WithFace(g[i - 1], i, cached[i])
        <3>1. CASE i = n
            <4>1. n # 0 /\ n - 1 \in 0..n /\ n - 1 # n
                OBVIOUS
            <4>2. g[n - 1] = h[n - 1] /\ g[n] = WithFace(h[n - 1], n, cached[n])
                BY <4>1
            <4> HIDE DEF g
            <4> QED BY <3>1, <4>1, <4>2
        <3>2. CASE i # n
            <4>1. i \in 0..(n - 1) /\ g[i] = h[i]
                BY <3>2
            <4>2. h[i] = IF i = 0 THEN NoBuffers ELSE WithFace(h[i - 1], i, cached[i])
                BY <2>1, <4>1
            <4>3. i # 0 => i - 1 \in 0..n /\ i - 1 # n
                BY <3>2
            <4>4. i # 0 => g[i - 1] = h[i - 1]
                BY <4>3
            <4> HIDE DEF g
            <4> QED BY <4>1, <4>2, <4>4
        <3> QED BY <3>1, <3>2
    <2>3. Made(n, g)
        <3>1. g = [i \in 0..n |-> g[i]]
            OBVIOUS
        <3> HIDE DEF g
        <3> QED BY <2>2, <3>1
    <2>4. n \in 0..top
        OBVIOUS
    <2> HIDE DEF Made
    <2> QED BY <2>3, <2>4
<1>4. \E h : Made(top, h)
    <2>1. 0..top \subseteq T
        <3> HIDE DEF T
        <3> QED BY <1>2, <1>3, UpTo
    <2> HIDE DEF Made
    <2> QED BY <2>1
<1> DEFINE k == CHOOSE h : Made(top, h)
<1>5. AssembleMesh(cached) = k[top]
    BY <1>1 DEF AssembleMesh
<1>6. Made(top, k)
    <2> HIDE DEF Made
    <2> QED BY <1>4
<1> HIDE DEF k
<1>7. AppendsFaces(cached, k)
    BY <1>1, <1>6 DEF AppendsFaces
<1> QED BY <1>1, <1>5, <1>7

LEMMA SeqGrows ==
    ASSUME NEW S, NEW s \in Seq(S), NEW x
    PROVE  s \in Seq(S \cup {x})
<1>1. \A i \in 1..Len(s) : s[i] \in S \cup {x}
    OBVIOUS
<1>2. s = [i \in 1..Len(s) |-> s[i]] /\ Len(s) \in Nat
    OBVIOUS
<1> QED BY <1>1, <1>2

LEMMA LengthOfList ==
    ASSUME NEW n \in Nat, NEW f, f = [i \in 1..n |-> f[i]]
    PROVE  Len(f) = n
<1> DEFINE S == {f[i] : i \in 1..n}
<1>1. \A i \in 1..n : f[i] \in S
    OBVIOUS
<1> HIDE DEF S
<1>2. f \in Seq(S)
    BY <1>1
<1> QED BY <1>2

(* What is assembled from n faces counts each as a group or as failed.      *)
Buffers(p, x, g, f, b) ==
    [positions |-> p, indices |-> x, groups |-> g, failed |-> f, normals |-> b]

CountsTo(mesh, n) ==
    \E p, x, g, f, b, S : /\ mesh = Buffers(p, x, g, f, b)
                          /\ f \in Nat /\ g \in Seq(S)
                          /\ f + Len(g) = n

LEMMA WithFaceCounts ==
    ASSUME NEW n \in Nat, NEW mesh, CountsTo(mesh, n), NEW i, NEW cached
    PROVE  CountsTo(WithFace(mesh, i, cached), n + 1)
<1>1. PICK p, x, g, f, b, S : /\ mesh = Buffers(p, x, g, f, b)
                              /\ f \in Nat /\ g \in Seq(S)
                              /\ f + Len(g) = n
    BY DEF CountsTo
<1>2. CASE cached.failed
    <2>1. WithFace(mesh, i, cached) = [mesh EXCEPT !.failed = @ + 1]
        BY <1>2, Zenon DEF WithFace
    <2>2. WithFace(mesh, i, cached) = Buffers(p, x, g, f + 1, b)
        BY <1>1, <2>1 DEF Buffers
    <2>3. f + 1 \in Nat /\ (f + 1) + Len(g) = n + 1
        BY <1>1
    <2> QED BY <1>1, <2>2, <2>3, Zenon DEF CountsTo
<1>3. CASE ~cached.failed
    <2>1. PICK e : e = GroupOf(mesh, i, cached)
        BY Zenon
    <2>2. PICK p2, x2 : /\ p2 = mesh.positions \o VerticesOf(i, cached)
                        /\ x2 = mesh.indices \o IndicesOf(Len(mesh.positions), cached)
        BY Zenon
    <2>3. PICK b2 : b2 = (mesh.normals \/ cached.normals)
        BY Zenon
    <2>4. WithFace(mesh, i, cached) =
            [mesh EXCEPT !.positions = p2, !.indices = x2, !.groups = Append(@, e), !.normals = b2]
        BY <1>3, <2>1, <2>2, <2>3, Zenon DEF WithFace
    <2>5. WithFace(mesh, i, cached) = Buffers(p2, x2, Append(g, e), f, b2)
        BY <1>1, <2>4 DEF Buffers
    <2>6. g \in Seq(S \cup {e}) /\ e \in S \cup {e}
        BY <1>1, SeqGrows
    <2>7. Append(g, e) \in Seq(S \cup {e}) /\ Len(Append(g, e)) = Len(g) + 1
        BY <2>6
    <2>8. f + Len(Append(g, e)) = n + 1
        <3>1. Len(g) \in Nat
            BY <1>1
        <3> QED BY <1>1, <2>7, <3>1
    <2> QED BY <1>1, <2>5, <2>7, <2>8, Zenon DEF CountsTo
<1> QED BY <1>2, <1>3

LEMMA AssemblyCounts ==
    ASSUME NEW cached, Len(cached) \in Nat
    PROVE  LET mesh == AssembleMesh(cached)
           IN  mesh.failed + Len(mesh.groups) = Len(cached)
<1>1. PICK assembled : /\ AppendsFaces(cached, assembled)
                       /\ AssembleMesh(cached) = assembled[Len(cached)]
    BY AssemblyIsMade
<1>2. PICK top \in Nat : top = Len(cached)
    OBVIOUS
<1> DEFINE T == {n \in 0..top : CountsTo(assembled[n], n)}
<1>3. 0 \in T
    <2>1. assembled[0] = NoBuffers
        BY <1>1, <1>2 DEF AppendsFaces
    <2>2. NoBuffers = Buffers(<<>>, <<>>, <<>>, 0, FALSE)
        BY DEF NoBuffers, Buffers
    <2>3. 0 \in Nat /\ <<>> \in Seq({}) /\ 0 + Len(<<>>) = 0
        OBVIOUS
    <2>4. CountsTo(assembled[0], 0)
        BY <2>1, <2>2, <2>3, Zenon DEF CountsTo
    <2> QED BY <2>4
<1>4. ASSUME NEW n \in 1..top, n - 1 \in T PROVE n \in T
    <2>1. assembled[n] = WithFace(assembled[n - 1], n, cached[n])
        BY <1>1, <1>2 DEF AppendsFaces
    <2>2. n - 1 \in Nat /\ CountsTo(assembled[n - 1], n - 1) /\ (n - 1) + 1 = n
        BY <1>4
    <2>3. CountsTo(WithFace(assembled[n - 1], n, cached[n]), (n - 1) + 1)
        BY <2>2, WithFaceCounts
    <2>4. CountsTo(assembled[n], n)
        BY <2>1, <2>2, <2>3
    <2> QED BY <2>4
<1>5. 0..top \subseteq T
    <2> HIDE DEF T
    <2> QED BY <1>3, <1>4, UpTo
<1>6. CountsTo(assembled[top], top)
    <2>1. top \in 0..top
        OBVIOUS
    <2> QED BY <1>5, <2>1
<1>7. PICK p, x, g, f, b, S : /\ assembled[top] = Buffers(p, x, g, f, b)
                              /\ f \in Nat /\ g \in Seq(S)
                              /\ f + Len(g) = top
    BY <1>6, Zenon DEF CountsTo
<1>8. assembled[top].failed = f /\ assembled[top].groups = g
    BY <1>7 DEF Buffers
<1> QED BY <1>1, <1>2, <1>7, <1>8

-----------------------------------------------------------------------------
(* The buffers of a mesh, and the document that is written from them.        *)

(* Sums, and what is chosen of a sequence, are made position by position.   *)
SumsUpTo(numbers, sum, top) ==
    sum[0] = 0 /\ \A n \in 1..top : sum[n] = sum[n - 1] + numbers[n]

LEMMA TotalIsMade ==
    ASSUME NEW numbers \in Seq(Nat)
    PROVE  \E sum : /\ SumsUpTo(numbers, sum, Len(numbers))
                    /\ Total(numbers) = sum[Len(numbers)]
<1>1. PICK top \in Nat : top = Len(numbers)
    OBVIOUS
<1> DEFINE Made(h) == h = [n \in 0..top |-> IF n = 0 THEN 0 ELSE h[n - 1] + numbers[n]]
           step == [n \in 1..top |-> [c \in Nat |-> c + numbers[n]]]
<1>2. step \in [1..top -> [Nat -> Nat]]
    <2>1. \A n \in 1..top : numbers[n] \in Nat
        BY <1>1
    <2> QED BY <2>1
<1>3. PICK made \in [0..top -> Nat] : MadeUpTo(top, made, 0, step)
    <2> HIDE DEF step
    <2> QED BY <1>2, StepsExist
<1>4. Made(made)
    <2>1. ASSUME NEW n \in 1..top PROVE made[n] = made[n - 1] + numbers[n]
        <3>1. made[n - 1] \in Nat
            OBVIOUS
        <3>2. made[n] = step[n][made[n - 1]]
            BY <1>3 DEF MadeUpTo
        <3> QED BY <3>1, <3>2
    <2>2. made[0] = 0
        BY <1>3 DEF MadeUpTo
    <2>3. \A n \in 0..top : made[n] = IF n = 0 THEN 0 ELSE made[n - 1] + numbers[n]
        BY <2>1, <2>2
    <2>4. made = [n \in 0..top |-> made[n]]
        OBVIOUS
    <2> QED BY <2>3, <2>4
<1> DEFINE k == CHOOSE h : Made(h)
<1>5. Total(numbers) = k[top]
    BY <1>1 DEF Total
<1>6. Made(k)
    <2> HIDE DEF Made
    <2> QED BY <1>4
<1> HIDE DEF k
<1>7. SumsUpTo(numbers, k, top)
    BY <1>6 DEF SumsUpTo
<1> QED BY <1>1, <1>5, <1>7

(* A total is the last of the sums that lead to it.                         *)
LEMMA TotalOfSums ==
    ASSUME NEW numbers \in Seq(Nat), NEW ends, SumsUpTo(numbers, ends, Len(numbers))
    PROVE  Total(numbers) = ends[Len(numbers)]
<1>1. PICK sum : /\ SumsUpTo(numbers, sum, Len(numbers))
                 /\ Total(numbers) = sum[Len(numbers)]
    BY TotalIsMade
<1>2. PICK top \in Nat : top = Len(numbers)
    OBVIOUS
<1> DEFINE T == {n \in 0..top : sum[n] = ends[n]}
<1>3. 0 \in T
    BY <1>1 DEF SumsUpTo
<1>4. ASSUME NEW n \in 1..top, n - 1 \in T PROVE n \in T
    <2>1. sum[n] = sum[n - 1] + numbers[n] /\ ends[n] = ends[n - 1] + numbers[n]
        BY <1>1, <1>2 DEF SumsUpTo
    <2> QED BY <1>4, <2>1
<1>5. 0..top \subseteq T
    <2> HIDE DEF T
    <2> QED BY <1>3, <1>4, UpTo
<1>6. sum[top] = ends[top]
    BY <1>5
<1> QED BY <1>1, <1>2, <1>6

ChosenUpTo(elements, positions, chosen, top) ==
    /\ chosen[0] = <<>>
    /\ \A n \in 1..top :
          chosen[n] = IF n \in positions THEN Append(chosen[n - 1], elements[n]) ELSE chosen[n - 1]

LEMMA ChosenIsMade ==
    ASSUME NEW S, NEW elements \in Seq(S), NEW positions
    PROVE  \E chosen : /\ ChosenUpTo(elements, positions, chosen, Len(elements))
                       /\ Chosen(elements, positions) = chosen[Len(elements)]
<1>1. PICK top \in Nat : top = Len(elements)
    OBVIOUS
<1> DEFINE Made(h) == h = [n \in 0..top |->
                            IF n = 0 THEN <<>>
                            ELSE IF n \in positions THEN Append(h[n - 1], elements[n]) ELSE h[n - 1]]
           step == [n \in 1..top |-> [c \in Seq(S) |->
                        IF n \in positions THEN Append(c, elements[n]) ELSE c]]
<1>2. step \in [1..top -> [Seq(S) -> Seq(S)]]
    <2>1. \A n \in 1..top : elements[n] \in S
        BY <1>1
    <2>2. \A n \in 1..top, c \in Seq(S) : Append(c, elements[n]) \in Seq(S)
        BY <2>1
    <2> QED BY <2>2
<1>3. PICK made \in [0..top -> Seq(S)] : MadeUpTo(top, made, <<>>, step)
    <2>1. <<>> \in Seq(S)
        OBVIOUS
    <2> HIDE DEF step
    <2> QED BY <1>2, <2>1, StepsExist
<1>4. Made(made)
    <2>1. ASSUME NEW n \in 1..top
          PROVE  made[n] = IF n \in positions THEN Append(made[n - 1], elements[n]) ELSE made[n - 1]
        <3>1. made[n - 1] \in Seq(S)
            OBVIOUS
        <3>2. made[n] = step[n][made[n - 1]]
            BY <1>3 DEF MadeUpTo
        <3> QED BY <3>1, <3>2
    <2>2. made[0] = <<>>
        BY <1>3 DEF MadeUpTo
    <2>3. \A n \in 0..top : made[n] = IF n = 0 THEN <<>>
                ELSE IF n \in positions THEN Append(made[n - 1], elements[n]) ELSE made[n - 1]
        <3>1. \A n \in 0..top : n # 0 => n \in 1..top
            OBVIOUS
        <3> QED BY <2>1, <2>2, <3>1, Zenon
    <2>4. made = [n \in 0..top |-> made[n]]
        OBVIOUS
    <2> QED BY <2>3, <2>4
<1> DEFINE k == CHOOSE h : Made(h)
<1>5. Chosen(elements, positions) = k[top]
    BY <1>1 DEF Chosen
<1>6. Made(k)
    <2> HIDE DEF Made
    <2> QED BY <1>4
<1> HIDE DEF k
<1>7. ChosenUpTo(elements, positions, k, top)
    <2>1. ASSUME NEW n \in 0..top
          PROVE  k[n] = IF n = 0 THEN <<>>
                        ELSE IF n \in positions THEN Append(k[n - 1], elements[n]) ELSE k[n - 1]
        BY <1>6, Zenon
    <2>2. 0 \in 0..top /\ \A n \in 1..top : n \in 0..top /\ n # 0
        OBVIOUS
    <2> QED BY <2>1, <2>2, Zenon DEF ChosenUpTo
<1> QED BY <1>1, <1>5, <1>7

(* What is chosen is among the elements, and all is chosen of all positions. *)
LEMMA ChosenIsAmong ==
    ASSUME NEW S, NEW elements \in Seq(S), NEW positions
    PROVE  Chosen(elements, positions) \in Seq(S)
<1>1. PICK chosen : /\ ChosenUpTo(elements, positions, chosen, Len(elements))
                    /\ Chosen(elements, positions) = chosen[Len(elements)]
    BY ChosenIsMade
<1>2. PICK top \in Nat : top = Len(elements)
    OBVIOUS
<1> DEFINE T == {n \in 0..top : chosen[n] \in Seq(S)}
<1>3. 0 \in T
    <2>1. <<>> \in Seq(S)
        OBVIOUS
    <2>2. chosen[0] = <<>>
        BY <1>1, Zenon DEF ChosenUpTo
    <2>3. 0 \in 0..top
        OBVIOUS
    <2> QED BY <2>1, <2>2, <2>3, Zenon
<1>4. ASSUME NEW n \in 1..top, n - 1 \in T PROVE n \in T
    <2>1. chosen[n] = IF n \in positions THEN Append(chosen[n - 1], elements[n]) ELSE chosen[n - 1]
        BY <1>1, <1>2, Zenon DEF ChosenUpTo
    <2>2. elements[n] \in S
        BY <1>2
    <2>3. CASE n \in positions
        <3>1. chosen[n] = Append(chosen[n - 1], elements[n])
            BY <2>1, <2>3, Zenon
        <3>2. chosen[n - 1] \in Seq(S)
            BY <1>4, Zenon
        <3>3. Append(chosen[n - 1], elements[n]) \in Seq(S)
            BY <2>2, <3>2
        <3>4. n \in 0..top
            OBVIOUS
        <3> QED BY <3>1, <3>3, <3>4, Zenon
    <2>4. CASE n \notin positions
        <3>1. chosen[n] = chosen[n - 1]
            BY <2>1, <2>4, Zenon
        <3>2. n \in 0..top
            OBVIOUS
        <3> QED BY <1>4, <3>1, <3>2, Zenon
    <2> QED BY <2>3, <2>4
<1>5. 0..top \subseteq T
    <2> HIDE DEF T
    <2> QED BY <1>3, <1>4, UpTo
<1> QED BY <1>1, <1>2, <1>5

LEMMA AllAreChosen ==
    ASSUME NEW S, NEW elements \in Seq(S), NEW positions, DOMAIN elements \subseteq positions
    PROVE  Chosen(elements, positions) = elements
<1>1. PICK chosen : /\ ChosenUpTo(elements, positions, chosen, Len(elements))
                    /\ Chosen(elements, positions) = chosen[Len(elements)]
    BY ChosenIsMade
<1>2. PICK top \in Nat : top = Len(elements)
    OBVIOUS
<1> DEFINE Beginning(n) == [i \in 1..n |-> elements[i]]
           T == {n \in 0..top : chosen[n] = Beginning(n)}
<1>3. 0 \in T
    <2>1. Beginning(0) = <<>>
        OBVIOUS
    <2> QED BY <1>1, <2>1 DEF ChosenUpTo
<1>4. ASSUME NEW n \in 1..top, n - 1 \in T PROVE n \in T
    <2>1. n \in positions
        BY <1>2
    <2>2. chosen[n] = Append(Beginning(n - 1), elements[n])
        BY <1>1, <1>2, <1>4, <2>1 DEF ChosenUpTo
    <2>3. Append(Beginning(n - 1), elements[n]) = Beginning(n)
        <3>1. Beginning(n - 1) \in Seq(S) /\ Beginning(n) \in Seq(S) /\ elements[n] \in S
            BY <1>2
        <3>2. Len(Beginning(n - 1)) = n - 1 /\ Len(Beginning(n)) = n
            OBVIOUS
        <3> DEFINE a == Append(Beginning(n - 1), elements[n])
        <3>3. a \in Seq(S) /\ Len(a) = n
            BY <3>1, <3>2
        <3>4. \A i \in 1..n : a[i] = Beginning(n)[i]
            BY <3>1, <3>2
        <3> HIDE DEF a, Beginning
        <3>5. a = Beginning(n)
            BY <3>1, <3>2, <3>3, <3>4
        <3> QED BY <3>5 DEF a
    <2> HIDE DEF Beginning
    <2> QED BY <2>2, <2>3, SMTT(40)
<1>5. 0..top \subseteq T
    <2> HIDE DEF T
    <2> QED BY <1>3, <1>4, UpTo
<1>6. chosen[top] = Beginning(top)
    BY <1>5
<1>7. Beginning(top) = elements
    BY <1>2
<1> QED BY <1>1, <1>2, <1>6, <1>7

LEMMA Thirds ==
    ASSUME NEW n \in Nat
    PROVE  /\ n \div 3 \in Nat /\ n % 3 \in 0..2 /\ n = 3 * (n \div 3) + (n % 3)
           /\ (3 * n) \div 3 = n
OBVIOUS

LEMMA Remains ==
    ASSUME NEW n \in Nat, n < IndexSpace
    PROVE  n % IndexSpace = n
BY MeshAssumption

LEMMA WordsOf ==
    ASSUME NEW S, NEW vertices \in Seq(S)
    PROVE  /\ Words(vertices) \in Seq(S) /\ Len(Words(vertices)) = 3 * Len(vertices)
           /\ \A w \in 1..(3 * Len(vertices)) :
                 \E v \in DOMAIN vertices : Words(vertices)[w] = vertices[v]
           /\ \A v \in 0..(Len(vertices) - 1) : Words(vertices)[3 * v + 1] = vertices[v + 1]
<1>1. PICK top \in Nat : top = Len(vertices)
    OBVIOUS
<1>2. Words(vertices) = [w \in 1..(3 * top) |-> vertices[(w - 1) \div 3 + 1]]
    BY <1>1, Zenon DEF Words
<1>3. ASSUME NEW w \in 1..(3 * top)
      PROVE  (w - 1) \div 3 + 1 \in 1..top
    <2>1. w - 1 \in Nat
        OBVIOUS
    <2>2. PICK q \in Nat, r \in 0..2 : q = (w - 1) \div 3 /\ w - 1 = 3 * q + r
        BY <2>1, Thirds
    <2> QED BY <2>2
<1>4. \A w \in 1..(3 * top) : vertices[(w - 1) \div 3 + 1] \in S
    BY <1>1, <1>3
<1>5. Words(vertices) \in Seq(S) /\ Len(Words(vertices)) = 3 * top
    <2>1. 3 * top \in Nat
        OBVIOUS
    <2> QED BY <1>2, <1>4, <2>1
<1>6. ASSUME NEW w \in 1..(3 * top)
      PROVE  \E v \in DOMAIN vertices : Words(vertices)[w] = vertices[v]
    <2>1. Words(vertices)[w] = vertices[(w - 1) \div 3 + 1]
        BY <1>2
    <2>2. (w - 1) \div 3 + 1 \in DOMAIN vertices
        BY <1>1, <1>3
    <2> QED BY <2>1, <2>2, Zenon
<1>7. ASSUME NEW v \in 0..(top - 1)
      PROVE  Words(vertices)[3 * v + 1] = vertices[v + 1]
    <2>1. 3 * v + 1 \in 1..(3 * top) /\ (3 * v + 1) - 1 = 3 * v /\ v \in Nat
        OBVIOUS
    <2>2. (3 * v) \div 3 = v
        BY <2>1, Thirds
    <2>3. Words(vertices)[3 * v + 1] = vertices[((3 * v + 1) - 1) \div 3 + 1]
        BY <1>2, <2>1
    <2> QED BY <2>1, <2>2, <2>3
<1> QED BY <1>1, <1>5, <1>6, <1>7

(* The groups of a mesh, of which the buffers hold so many vertices and      *)
(* indices: they follow one another without a gap, each over whole           *)
(* triangles, and lead to vertices of their face.                           *)
MeshVertices == {"vertex"} \X Nat \X Nat
MeshGroups   == [face : Nat, start : Nat, count : Nat]

Behind(group) == group.start + group.count

Shows(p, vertices, x, indices, g, groups) ==
    /\ \A m \in 1..groups : /\ g[m] \in MeshGroups /\ g[m].count > 0
                            /\ g[m].start = IF m = 1 THEN 0 ELSE Behind(g[m - 1])
                            /\ Behind(g[m]) <= indices
    /\ indices = IF groups = 0 THEN 0 ELSE Behind(g[groups])
    /\ \A m, h \in 1..groups : m < h => Behind(g[m]) <= g[h].start
    /\ \A t \in Nat : 3 * t < indices =>
          \E m \in 1..groups : g[m].start <= 3 * t /\ 3 * t + 3 <= Behind(g[m])
    /\ \A m \in 1..groups, n \in 1..indices :
          g[m].start < n /\ n <= Behind(g[m]) =>
             x[n] + 1 \in 1..vertices /\ p[x[n] + 1][2] = g[m].face

LEMMA NothingIsMissing == Shows(<<>>, 0, <<>>, 0, <<>>, 0)
BY DEF Shows

\* One more group e of so many triangles, with its vertices and indices.
Follows(p, pn, x, t, g, gn, p2, vn, x2, many, g2, e) ==
    /\ \A k \in 1..pn : p2[k] = p[k]
    /\ \A k \in 1..vn : p2[pn + k][2] = e.face
    /\ \A n \in 1..(3 * t) : x2[n] = x[n]
    /\ \A n \in 1..(3 * many) : \E k \in 1..vn : x2[3 * t + n] + 1 = pn + k
    /\ \A m \in 1..gn : g2[m] = g[m]
    /\ g2[gn + 1] = e /\ e.start = 3 * t /\ e.count = 3 * many

LEMMA GroupAdded ==
    ASSUME NEW p, NEW x, NEW g, NEW p2, NEW x2, NEW g2, NEW e \in MeshGroups,
           NEW pn \in Nat, NEW vn \in Nat, NEW t \in Nat, NEW many \in Nat \ {0}, NEW gn \in Nat,
           Shows(p, pn, x, 3 * t, g, gn),
           Follows(p, pn, x, t, g, gn, p2, vn, x2, many, g2, e)
    PROVE  Shows(p2, pn + vn, x2, 3 * t + 3 * many, g2, gn + 1)
<1> USE DEF Follows
<1>1. \A m \in 1..gn : /\ g[m].start \in Nat /\ g[m].count \in Nat /\ Behind(g[m]) \in Nat
                       /\ Behind(g[m]) = g[m].start + g[m].count
    BY DEF Shows, MeshGroups, Behind
<1>2. Behind(e) = 3 * t + 3 * many
    BY DEF Behind
<1>3. ASSUME NEW m \in 1..(gn + 1) PROVE m \in 1..gn \/ m = gn + 1
    OBVIOUS
<1>4. ASSUME NEW m \in 1..(gn + 1)
      PROVE  /\ g2[m] \in MeshGroups /\ g2[m].count > 0
             /\ g2[m].start = IF m = 1 THEN 0 ELSE Behind(g2[m - 1])
             /\ Behind(g2[m]) <= 3 * t + 3 * many
    <2>1. CASE m \in 1..gn
        <3>1. g2[m] = g[m] /\ (m # 1 => g2[m - 1] = g[m - 1])
            BY <2>1
        <3>2. /\ g[m] \in MeshGroups /\ g[m].count > 0
              /\ g[m].start = IF m = 1 THEN 0 ELSE Behind(g[m - 1])
              /\ Behind(g[m]) <= 3 * t
            BY <2>1, Zenon DEF Shows
        <3>3. Behind(g[m]) <= 3 * t + 3 * many
            BY <1>1, <2>1, <3>2
        <3>4. g2[m].start = IF m = 1 THEN 0 ELSE Behind(g2[m - 1])
            BY <3>1, <3>2, Zenon
        <3> QED BY <3>1, <3>2, <3>3, <3>4, Zenon
    <2>2. CASE m = gn + 1
        <3>1. g2[m] = e /\ (m # 1 => m - 1 = gn /\ gn \in 1..gn /\ gn # 0)
            BY <2>2
        <3>2. 3 * t = IF gn = 0 THEN 0 ELSE Behind(g[gn])
            BY Zenon DEF Shows
        <3>3. e.start = IF m = 1 THEN 0 ELSE Behind(g2[m - 1])
            <4>1. CASE m = 1
                BY <2>2, <3>2, <4>1
            <4>2. CASE m # 1
                BY <3>1, <3>2, <4>2
            <4> QED BY <4>1, <4>2
        <3>4. e.count > 0
            OBVIOUS
        <3>5. Behind(e) <= 3 * t + 3 * many
            BY <1>2
        <3> QED BY <3>1, <3>3, <3>4, <3>5, Zenon
    <2> QED BY <1>3, <2>1, <2>2
<1>5. 3 * t + 3 * many = IF gn + 1 = 0 THEN 0 ELSE Behind(g2[gn + 1])
    BY <1>2
<1>6. ASSUME NEW m \in 1..(gn + 1), NEW h \in 1..(gn + 1), m < h
      PROVE  Behind(g2[m]) <= g2[h].start
    <2>1. m \in 1..gn /\ g2[m] = g[m]
        BY <1>6
    <2>2. CASE h \in 1..gn
        <3>1. Behind(g[m]) <= g[h].start
            BY <1>6, <2>1, <2>2, Zenon DEF Shows
        <3>2. g2[h] = g[h]
            BY <2>2
        <3> QED BY <2>1, <3>1, <3>2
    <2>3. CASE h = gn + 1
        <3>1. Behind(g[m]) <= 3 * t
            BY <2>1, Zenon DEF Shows
        <3> QED BY <2>1, <2>3, <3>1
    <2> QED BY <1>3, <2>2, <2>3
<1>7. ASSUME NEW u \in Nat, 3 * u < 3 * t + 3 * many
      PROVE  \E m \in 1..(gn + 1) : g2[m].start <= 3 * u /\ 3 * u + 3 <= Behind(g2[m])
    <2>1. CASE u < t
        <3>1. 3 * u < 3 * t
            BY <2>1
        <3>2. PICK m \in 1..gn : g[m].start <= 3 * u /\ 3 * u + 3 <= Behind(g[m])
            BY <3>1, Zenon DEF Shows
        <3>3. m \in 1..(gn + 1) /\ g2[m] = g[m]
            OBVIOUS
        <3> QED BY <3>2, <3>3, Zenon
    <2>2. CASE u >= t
        <3>1. 3 * t <= 3 * u /\ 3 * u + 3 <= 3 * t + 3 * many
            BY <1>7, <2>2
        <3>2. gn + 1 \in 1..(gn + 1) /\ e.start <= 3 * u /\ 3 * u + 3 <= Behind(e)
            BY <1>2, <3>1
        <3> QED BY <3>2
    <2> QED BY <2>1, <2>2
<1>8. ASSUME NEW m \in 1..(gn + 1), NEW n \in 1..(3 * t + 3 * many),
             g2[m].start < n, n <= Behind(g2[m])
      PROVE  x2[n] + 1 \in 1..(pn + vn) /\ p2[x2[n] + 1][2] = g2[m].face
    <2>1. CASE m \in 1..gn
        <3>1. g2[m] = g[m]
            BY <2>1
        <3>2. Behind(g[m]) <= 3 * t
            BY <2>1, Zenon DEF Shows
        <3>3. n \in 1..(3 * t)
            BY <1>1, <1>8, <2>1, <3>1, <3>2
        <3>4. x[n] + 1 \in 1..pn /\ p[x[n] + 1][2] = g[m].face
            BY <1>8, <2>1, <3>1, <3>3, Zenon DEF Shows
        <3>5. x2[n] = x[n] /\ p2[x[n] + 1] = p[x[n] + 1]
            BY <3>3, <3>4
        <3>6. x[n] + 1 \in 1..(pn + vn)
            BY <3>4
        <3> QED BY <3>1, <3>4, <3>5, <3>6, Zenon
    <2>2. CASE m = gn + 1
        <3>1. 3 * t < n /\ n <= 3 * t + 3 * many
            BY <1>2, <1>8, <2>2
        <3>2. PICK c \in 1..(3 * many) : n = 3 * t + c
            <4>1. n - 3 * t \in 1..(3 * many) /\ n = 3 * t + (n - 3 * t)
                BY <3>1
            <4> QED BY <4>1
        <3>3. PICK k \in 1..vn : x2[3 * t + c] + 1 = pn + k
            OBVIOUS
        <3>4. p2[pn + k][2] = e.face /\ pn + k \in 1..(pn + vn)
            OBVIOUS
        <3> QED BY <2>2, <3>2, <3>3, <3>4
    <2> QED BY <1>3, <2>1, <2>2
<1> QED BY <1>4, <1>5, <1>6, <1>7, <1>8, Zenon DEF Shows

(* What is assembled shows its faces, as long as it can be counted.         *)
ShowsFaces(mesh) ==
    \E f, b : \E p \in Seq(MeshVertices), x \in Seq(Nat), g \in Seq(MeshGroups), t \in Nat :
        /\ mesh = Buffers(p, x, g, f, b) /\ Len(x) = 3 * t
        /\ Len(p) < IndexSpace /\ 3 * t < IndexSpace => Shows(p, Len(p), x, 3 * t, g, Len(g))

LEMMA RemainderIsNat ==
    ASSUME NEW n \in Nat
    PROVE  n % IndexSpace \in Nat
BY MeshAssumption

LEMMA FaceIndices ==
    ASSUME NEW offset \in Nat, NEW cached, cached.triangles \in Nat
    PROVE  /\ IndicesOf(offset, cached) \in Seq(Nat)
           /\ Len(IndicesOf(offset, cached)) = 3 * cached.triangles
           /\ offset + (cached.triangles + 2) < IndexSpace =>
                 \A n \in 1..(3 * cached.triangles) :
                    \E k \in 1..(cached.triangles + 2) :
                       IndicesOf(offset, cached)[n] + 1 = offset + k
<1>1. PICK many \in Nat : many = cached.triangles
    OBVIOUS
<1> DEFINE At(n) == offset + ((n - 1) \div 3) + ((n - 1) % 3)
<1>2. IndicesOf(offset, cached) = [n \in 1..(3 * many) |-> At(n) % IndexSpace]
    BY <1>1, Zenon DEF IndicesOf
<1>3. ASSUME NEW n \in 1..(3 * many)
      PROVE  At(n) \in Nat /\ At(n) < offset + (many + 2)
    <2>1. PICK m \in Nat : m = n - 1
        OBVIOUS
    <2>2. PICK q \in Nat, r \in 0..2 : q = m \div 3 /\ r = m % 3 /\ m = 3 * q + r
        BY Thirds
    <2>3. At(n) = offset + q + r
        BY <2>1, <2>2
    <2>4. q < many
        BY <2>1, <2>2
    <2> HIDE DEF At
    <2> QED BY <2>3, <2>4
<1> HIDE DEF At
<1>4. \A n \in 1..(3 * many) : At(n) % IndexSpace \in Nat
    BY <1>3, RemainderIsNat
<1>5. IndicesOf(offset, cached) \in Seq(Nat) /\ Len(IndicesOf(offset, cached)) = 3 * many
    <2>1. 3 * many \in Nat
        OBVIOUS
    <2> QED BY <1>2, <1>4, <2>1
<1>6. ASSUME offset + (many + 2) < IndexSpace, NEW n \in 1..(3 * many)
      PROVE  \E k \in 1..(many + 2) : IndicesOf(offset, cached)[n] + 1 = offset + k
    <2>1. At(n) < IndexSpace
        BY <1>3, <1>6, MeshAssumption
    <2>2. IndicesOf(offset, cached)[n] = At(n)
        BY <1>2, <1>3, <2>1, Remains
    <2>3. At(n) >= offset
        <3>1. PICK m \in Nat : m = n - 1
            OBVIOUS
        <3>2. m \div 3 \in Nat /\ m % 3 \in Nat
            BY Thirds
        <3> QED BY <3>1, <3>2 DEF At
    <2>4. At(n) - offset + 1 \in 1..(many + 2)
        BY <1>3, <2>3
    <2>5. At(n) + 1 = offset + (At(n) - offset + 1)
        BY <1>3
    <2> QED BY <2>2, <2>4, <2>5
<1> QED BY <1>1, <1>5, <1>6

LEMMA FaceVertices ==
    ASSUME NEW i \in Nat, NEW cached, cached.triangles \in Nat
    PROVE  /\ VerticesOf(i, cached) \in Seq(MeshVertices)
           /\ Len(VerticesOf(i, cached)) = cached.triangles + 2
           /\ \A k \in 1..(cached.triangles + 2) : VerticesOf(i, cached)[k][2] = i
<1>1. PICK many \in Nat : many = cached.triangles + 2
    OBVIOUS
<1>2. VerticesOf(i, cached) = [k \in 1..many |-> <<"vertex", i, k>>]
    BY <1>1, Zenon DEF VerticesOf
<1>3. \A k \in 1..many : <<"vertex", i, k>> \in MeshVertices
    BY DEF MeshVertices
<1> QED BY <1>1, <1>2, <1>3

IsJoined(c, a, m, b, n) ==
    /\ Len(c) = m + n
    /\ \A i \in 1..m : c[i] = a[i]
    /\ \A i \in 1..n : c[m + i] = b[i]

LEMMA Joined ==
    ASSUME NEW S, NEW a \in Seq(S), NEW b \in Seq(S), NEW m \in Nat, NEW n \in Nat,
           Len(a) = m, Len(b) = n
    PROVE  a \o b \in Seq(S) /\ IsJoined(a \o b, a, m, b, n)
<1> DEFINE c == a \o b
<1>1. /\ c \in Seq(S) /\ Len(c) = m + n
      /\ \A i \in 1..(m + n) : c[i] = IF i <= m THEN a[i] ELSE b[i - m]
    BY ConcatProperties
<1> HIDE DEF c
<1>2. ASSUME NEW i \in 1..m PROVE c[i] = a[i]
    BY <1>1
<1>3. ASSUME NEW i \in 1..n PROVE c[m + i] = b[i]
    <2>1. m + i \in 1..(m + n) /\ ~(m + i <= m) /\ (m + i) - m = i
        OBVIOUS
    <2> QED BY <1>1, <2>1
<1> QED BY <1>1, <1>2, <1>3, Zenon DEF c, IsJoined

LEMMA FaceAdded ==
    ASSUME NEW mesh, ShowsFaces(mesh), NEW i \in Nat, NEW cached, cached.triangles \in Nat \ {0}
    PROVE  ShowsFaces(WithFace(mesh, i, cached))
<1>0. PICK f, b : \E p \in Seq(MeshVertices), x \in Seq(Nat), g \in Seq(MeshGroups), t \in Nat :
        /\ mesh = Buffers(p, x, g, f, b) /\ Len(x) = 3 * t
        /\ Len(p) < IndexSpace /\ 3 * t < IndexSpace => Shows(p, Len(p), x, 3 * t, g, Len(g))
    BY Zenon DEF ShowsFaces
<1>1. PICK p \in Seq(MeshVertices), x \in Seq(Nat), g \in Seq(MeshGroups), t \in Nat :
        /\ mesh = Buffers(p, x, g, f, b) /\ Len(x) = 3 * t
        /\ Len(p) < IndexSpace /\ 3 * t < IndexSpace => Shows(p, Len(p), x, 3 * t, g, Len(g))
    BY <1>0, Zenon
<1>2. CASE cached.failed
    <2>1. WithFace(mesh, i, cached) = [mesh EXCEPT !.failed = @ + 1]
        BY <1>2, Zenon DEF WithFace
    <2>2. WithFace(mesh, i, cached) = Buffers(p, x, g, f + 1, b)
        BY <1>1, <2>1 DEF Buffers
    <2> QED BY <1>1, <2>2, Zenon DEF ShowsFaces
<1>3. CASE ~cached.failed
    <2>1. PICK many \in Nat \ {0} : many = cached.triangles
        OBVIOUS
    <2>2. PICK pn \in Nat, gn \in Nat : pn = Len(p) /\ gn = Len(g)
        OBVIOUS
    <2>3. mesh.positions = p /\ mesh.indices = x
        BY <1>1 DEF Buffers
    <2>4. PICK v \in Seq(MeshVertices) :
            /\ v = VerticesOf(i, cached) /\ Len(v) = many + 2
            /\ \A k \in 1..(many + 2) : v[k][2] = i
        BY <2>1, FaceVertices
    <2>5. PICK r \in Seq(Nat) :
            /\ r = IndicesOf(pn, cached) /\ Len(r) = 3 * many
            /\ pn + (many + 2) < IndexSpace =>
                  \A n \in 1..(3 * many) : \E k \in 1..(many + 2) : r[n] + 1 = pn + k
        BY <2>1, FaceIndices
    <2>6. PICK e \in MeshGroups :
            /\ e = GroupOf(mesh, i, cached) /\ e.face = i
            /\ e.start = (3 * t) % IndexSpace /\ e.count = (3 * many) % IndexSpace
        <3>1. GroupOf(mesh, i, cached) =
                [face |-> i, start |-> (3 * t) % IndexSpace, count |-> (3 * many) % IndexSpace]
            BY <1>1, <2>1, <2>3, Zenon DEF GroupOf
        <3>2. PICK start \in Nat, count \in Nat :
                start = (3 * t) % IndexSpace /\ count = (3 * many) % IndexSpace
            <4>1. 3 * t \in Nat /\ 3 * many \in Nat
                OBVIOUS
            <4> QED BY <4>1, RemainderIsNat
        <3>3. [face |-> i, start |-> start, count |-> count] \in MeshGroups
            BY DEF MeshGroups
        <3> QED BY <3>1, <3>2, <3>3
    <2>7. PICK b2 : b2 = (mesh.normals \/ cached.normals)
        BY Zenon
    <2>8. PICK p2 \in Seq(MeshVertices) :
            p2 = p \o v /\ IsJoined(p2, p, pn, v, many + 2)
        <3>1. many + 2 \in Nat
            OBVIOUS
        <3>2. p \o v \in Seq(MeshVertices) /\ IsJoined(p \o v, p, pn, v, many + 2)
            BY <2>2, <2>4, <3>1, Joined
        <3> QED BY <3>2, Zenon
    <2>9. PICK x2 \in Seq(Nat) :
            x2 = x \o r /\ IsJoined(x2, x, 3 * t, r, 3 * many)
        <3>1. 3 * t \in Nat /\ 3 * many \in Nat
            OBVIOUS
        <3>2. x \o r \in Seq(Nat) /\ IsJoined(x \o r, x, 3 * t, r, 3 * many)
            BY <1>1, <2>5, <3>1, Joined
        <3> QED BY <3>2, Zenon
    <2>10. PICK g2 \in Seq(MeshGroups) :
            /\ g2 = Append(g, e) /\ Len(g2) = gn + 1
            /\ \A m \in 1..gn : g2[m] = g[m]
            /\ g2[gn + 1] = e
        BY <2>2, AppendProperties
    <2>11. WithFace(mesh, i, cached) = Buffers(p2, x2, g2, f, b2)
        <3>1. WithFace(mesh, i, cached) =
                [mesh EXCEPT !.positions = p2, !.indices = x2, !.groups = Append(@, e), !.normals = b2]
            BY <1>3, <2>2, <2>3, <2>4, <2>5, <2>6, <2>7, <2>8, <2>9, Zenon DEF WithFace
        <3> QED BY <1>1, <2>10, <3>1 DEF Buffers
    <2>12. ASSUME Len(p2) < IndexSpace, 3 * (t + many) < IndexSpace
           PROVE  Shows(p2, Len(p2), x2, 3 * (t + many), g2, Len(g2))
        <3>a. PICK vn \in Nat : vn = many + 2
            OBVIOUS
        <3>b. /\ Len(p2) = pn + vn
              /\ \A k \in 1..pn : p2[k] = p[k]
              /\ \A k \in 1..vn : p2[pn + k] = v[k]
            BY <2>8, <3>a, Zenon DEF IsJoined
        <3>c. /\ Len(x2) = 3 * t + 3 * many
              /\ \A n \in 1..(3 * t) : x2[n] = x[n]
              /\ \A n \in 1..(3 * many) : x2[3 * t + n] = r[n]
            BY <2>9, Zenon DEF IsJoined
        <3>1. 3 * (t + many) = 3 * t + 3 * many
            OBVIOUS
        <3>2. pn < IndexSpace /\ 3 * t < IndexSpace /\ 3 * many < IndexSpace
            BY <2>12, <3>1, <3>b, MeshAssumption, SMTT(40)
        <3>3. e.start = 3 * t /\ e.count = 3 * many
            <4>1. 3 * t \in Nat /\ 3 * many \in Nat
                OBVIOUS
            <4> QED BY <2>6, <3>2, <4>1, Remains
        <3>4. Shows(p, pn, x, 3 * t, g, gn)
            BY <1>1, <2>2, <3>2, Zenon
        <3>5. \A n \in 1..(3 * many) : \E k \in 1..vn : x2[3 * t + n] + 1 = pn + k
            <4>1. \A n \in 1..(3 * many) : \E k \in 1..vn : r[n] + 1 = pn + k
                BY <2>5, <2>12, <3>a, <3>b
            <4> QED BY <3>c, <4>1
        <3>6. \A k \in 1..vn : p2[pn + k][2] = e.face
            BY <2>4, <2>6, <3>a, <3>b
        <3>7. /\ \A n \in 1..(3 * t) : x2[n] = x[n]
              /\ \A k \in 1..pn : p2[k] = p[k]
            BY <3>b, <3>c
        <3>8. /\ \A m \in 1..gn : g2[m] = g[m]
              /\ g2[gn + 1] = e
            BY <2>10
        <3>9. Shows(p2, pn + vn, x2, 3 * t + 3 * many, g2, gn + 1)
            <4>1. Follows(p, pn, x, t, g, gn, p2, vn, x2, many, g2, e)
                BY <3>3, <3>5, <3>6, <3>7, <3>8, Zenon DEF Follows
            <4> QED BY <3>4, <4>1, GroupAdded
        <3> QED BY <2>10, <3>1, <3>9, <3>b, Zenon
    <2>13. t + many \in Nat /\ Len(x2) = 3 * (t + many)
        <3>1. Len(x2) = 3 * t + 3 * many
            BY <2>9, Zenon DEF IsJoined
        <3> QED BY <3>1
    <2> QED BY <2>11, <2>12, <2>13, Zenon DEF ShowsFaces
<1> QED BY <1>2, <1>3

LEMMA AssemblyShowsFaces ==
    ASSUME NEW cached, Len(cached) \in Nat, \A i \in 1..Len(cached) : cached[i].triangles \in Nat \ {0}
    PROVE  ShowsFaces(AssembleMesh(cached))
<1>1. PICK assembled : /\ AppendsFaces(cached, assembled)
                       /\ AssembleMesh(cached) = assembled[Len(cached)]
    BY AssemblyIsMade
<1>2. PICK top \in Nat : top = Len(cached)
    OBVIOUS
<1> DEFINE T == {n \in 0..top : ShowsFaces(assembled[n])}
<1>3. 0 \in T
    <2>1. assembled[0] = NoBuffers
        BY <1>1, <1>2 DEF AppendsFaces
    <2>2. NoBuffers = Buffers(<<>>, <<>>, <<>>, 0, FALSE)
        BY DEF NoBuffers, Buffers
    <2>3. /\ 0 \in Nat /\ <<>> \in Seq(MeshVertices) /\ <<>> \in Seq(Nat) /\ <<>> \in Seq(MeshGroups)
          /\ Len(<<>>) = 0 /\ 3 * 0 = 0
        OBVIOUS
    <2>4. ShowsFaces(assembled[0])
        BY <2>1, <2>2, <2>3, NothingIsMissing, Zenon DEF ShowsFaces
    <2> QED BY <2>4
<1>4. ASSUME NEW n \in 1..top, n - 1 \in T PROVE n \in T
    <2>1. assembled[n] = WithFace(assembled[n - 1], n, cached[n])
        BY <1>1, <1>2, SMTT(40) DEF AppendsFaces
    <2>2. ShowsFaces(assembled[n - 1]) /\ n \in Nat /\ cached[n].triangles \in Nat \ {0}
        BY <1>2, <1>4
    <2>3. ShowsFaces(assembled[n])
        BY <2>1, <2>2, FaceAdded
    <2> QED BY <2>3
<1>5. 0..top \subseteq T
    <2> HIDE DEF T
    <2> QED BY <1>3, <1>4, UpTo
<1>6. top \in 0..top
    OBVIOUS
<1> QED BY <1>1, <1>2, <1>5, <1>6

LEMMA MaxIs ==
    ASSUME NEW S \in SUBSET Nat, NEW m \in S, \A n \in S : n <= m
    PROVE  Max(S) = m
<1>1. \E x \in S : \A y \in S : x >= y
    BY Zenon, SMT
<1>2. Max(S) \in S /\ \A y \in S : Max(S) >= y
    BY <1>1, Zenon DEF Max
<1>3. Max(S) \in Nat /\ m \in Nat /\ Max(S) <= m /\ Max(S) >= m
    BY <1>2
<1> HIDE DEF Max
<1> QED BY <1>3

LEMMA FaceOfTriangle ==
    ASSUME NEW mesh, ShowsFaces(mesh), Counts(mesh), NEW u \in MeshTriangles(mesh)
    PROVE  \A k \in 1..3 : Vertex(mesh, 3 * u + k)[2] = FaceIdForTriangle(mesh, u)
<1>0. PICK f, b : \E p \in Seq(MeshVertices), x \in Seq(Nat), g \in Seq(MeshGroups), t \in Nat :
        /\ mesh = Buffers(p, x, g, f, b) /\ Len(x) = 3 * t
        /\ Len(p) < IndexSpace /\ 3 * t < IndexSpace => Shows(p, Len(p), x, 3 * t, g, Len(g))
    BY Zenon DEF ShowsFaces
<1>1. PICK p \in Seq(MeshVertices), x \in Seq(Nat), g \in Seq(MeshGroups), t \in Nat :
        /\ mesh = Buffers(p, x, g, f, b) /\ Len(x) = 3 * t
        /\ Len(p) < IndexSpace /\ 3 * t < IndexSpace => Shows(p, Len(p), x, 3 * t, g, Len(g))
    BY <1>0, Zenon
<1>2. mesh.positions = p /\ mesh.indices = x /\ mesh.groups = g
    BY <1>1 DEF Buffers
<1>3. 3 * t < IndexSpace /\ Shows(p, Len(p), x, 3 * t, g, Len(g))
    BY <1>1, <1>2 DEF Counts
<1>4. PICK gn \in Nat : gn = Len(g) /\ DOMAIN g = 1..gn
    OBVIOUS
<1>5. u \in Nat /\ 3 * u + 3 <= 3 * t
    <2>1. (3 * t) \div 3 = t
        BY Thirds
    <2>2. u \in 0..(t - 1)
        BY <1>1, <1>2, <2>1, Zenon DEF MeshTriangles
    <2> QED BY <2>2
<1>6. PICK m \in 1..gn : g[m].start <= 3 * u /\ 3 * u + 3 <= Behind(g[m])
    <2>1. 3 * u < 3 * t
        BY <1>5
    <2> QED BY <1>3, <1>4, <1>5, <2>1, Zenon DEF Shows
<1>7. \A h \in 1..gn : g[h].start \in Nat /\ g[h].count \in Nat
                       /\ Behind(g[h]) \in Nat /\ Behind(g[h]) = g[h].start + g[h].count
    <2>1. \A h \in 1..gn : g[h] \in MeshGroups
        BY <1>4
    <2> QED BY <2>1 DEF MeshGroups, Behind
<1> DEFINE upTo == {h \in DOMAIN g : g[h].start <= 3 * u}
<1>8. Max(upTo) = m
    <2>1. upTo \in SUBSET Nat /\ m \in upTo
        BY <1>4, <1>6
    <2>2. ASSUME NEW h \in upTo PROVE h <= m
        <3>1. h \in 1..gn /\ g[h].start <= 3 * u
            BY <1>4
        <3>2. m < h => Behind(g[m]) <= g[h].start
            BY <1>3, <1>4, <3>1, Zenon DEF Shows
        <3> QED BY <1>5, <1>6, <1>7, <3>1, <3>2
    <2> HIDE DEF upTo
    <2> QED BY <2>1, <2>2, MaxIs
<1>9. (3 * u) % IndexSpace = 3 * u
    <2>1. 3 * u \in Nat /\ 3 * u < IndexSpace
        BY <1>3, <1>5, MeshAssumption
    <2> QED BY <2>1, Remains
<1>10. (g[m].start + g[m].count) % IndexSpace = Behind(g[m])
    <2>1. Behind(g[m]) <= 3 * t
        BY <1>3, <1>4, Zenon DEF Shows
    <2>2. Behind(g[m]) \in Nat /\ Behind(g[m]) < IndexSpace
        BY <1>3, <1>7, <2>1, MeshAssumption
    <2> QED BY <1>7, <2>2, Remains
<1>11. FaceIdForTriangle(mesh, u) = g[m].face
    <2>1. FaceIdForTriangle(mesh, u) =
            IF 3 * u >= Len(x) \/ upTo = {} THEN -1
            ELSE IF 3 * u < (g[Max(upTo)].start + g[Max(upTo)].count) % IndexSpace
                 THEN g[Max(upTo)].face ELSE -1
        BY <1>2, <1>9, Zenon DEF FaceIdForTriangle
    <2>2. ~(3 * u >= Len(x)) /\ 3 * u < Behind(g[m])
        BY <1>1, <1>5, <1>6, <1>7
    <2>3. upTo # {}
        BY <1>4, <1>6
    <2> HIDE DEF upTo
    <2> QED BY <1>8, <1>10, <2>1, <2>2, <2>3, Zenon
<1>12. ASSUME NEW k \in 1..3
       PROVE  Vertex(mesh, 3 * u + k)[2] = g[m].face
    <2>1. /\ 3 * u + k \in 1..(3 * t) /\ g[m].start < 3 * u + k /\ 3 * u + k <= Behind(g[m])
        <3>1. k \in Nat /\ 1 <= k /\ k <= 3 /\ 3 * u \in Nat /\ 3 * t \in Nat
            BY <1>5
        <3>2. g[m].start \in Nat /\ Behind(g[m]) \in Nat
            BY <1>7
        <3> QED BY <1>5, <1>6, <3>1, <3>2, SMTT(40)
    <2>2. p[x[3 * u + k] + 1][2] = g[m].face
        BY <1>3, <1>4, <2>1, Zenon DEF Shows
    <2> QED BY <1>2, <2>2, Zenon DEF Vertex
<1> QED BY <1>11, <1>12

LEMMA NoFaceBehind ==
    ASSUME NEW mesh, ShowsFaces(mesh),
           NEW u \in 0..((IndexSpace - 1) \div 3) \ MeshTriangles(mesh)
    PROVE  FaceIdForTriangle(mesh, u) = -1
<1>0. PICK f, b : \E p \in Seq(MeshVertices), x \in Seq(Nat), g \in Seq(MeshGroups), t \in Nat :
        /\ mesh = Buffers(p, x, g, f, b) /\ Len(x) = 3 * t
        /\ Len(p) < IndexSpace /\ 3 * t < IndexSpace => Shows(p, Len(p), x, 3 * t, g, Len(g))
    BY Zenon DEF ShowsFaces
<1>1. PICK p \in Seq(MeshVertices), x \in Seq(Nat), g \in Seq(MeshGroups), t \in Nat :
        mesh = Buffers(p, x, g, f, b) /\ Len(x) = 3 * t
    BY <1>0, Zenon
<1>2. mesh.indices = x
    BY <1>1 DEF Buffers
<1>3. u \in Nat /\ 3 * u < IndexSpace
    <2>1. IndexSpace - 1 \in Nat
        BY MeshAssumption
    <2>2. PICK q \in Nat, r \in 0..2 : q = (IndexSpace - 1) \div 3 /\ IndexSpace - 1 = 3 * q + r
        BY <2>1, Thirds
    <2> QED BY <2>2, MeshAssumption
<1>4. u >= t
    <2>1. (3 * t) \div 3 = t
        BY Thirds
    <2>2. u \notin 0..(t - 1)
        BY <1>1, <1>2, <2>1, Zenon DEF MeshTriangles
    <2> QED BY <1>3, <2>2
<1>5. (3 * u) % IndexSpace = 3 * u
    <2>1. 3 * u \in Nat
        BY <1>3
    <2> QED BY <1>3, <2>1, Remains
<1>6. 3 * u >= Len(mesh.indices)
    BY <1>1, <1>2, <1>3, <1>4
<1> QED BY <1>5, <1>6, Zenon DEF FaceIdForTriangle

(* The edges of a mesh, and the region their strips are packed into.        *)
MeshPoints == {"point"} \X Nat \X Nat

MeshEdges ==
    {e \in [edge : Nat, vertices : Seq(MeshPoints)] :
        \A k \in 1..Len(e.vertices) : e.vertices[k][2] = e.edge}

LEMMA EdgesExtracted ==
    ASSUME NEW faces \in Seq(MeshFaces)
    PROVE  ExtractEdges(faces) \in Seq(MeshEdges)
<1>1. PICK top \in Nat : DOMAIN faces = 1..top
    OBVIOUS
<1> DEFINE Drawn(i) == [k \in 1..(4 - faces[i].fine) |-> <<"point", i, k>>]
           all == [i \in DOMAIN faces |-> [edge |-> i, vertices |-> Drawn(i)]]
<1>2. ASSUME NEW i \in 1..top
      PROVE  [edge |-> i, vertices |-> Drawn(i)] \in MeshEdges
    <2>1. faces[i].fine \in Nat
        <3>1. faces[i] \in MeshFaces
            BY <1>1
        <3> QED BY <3>1 DEF MeshFaces
    <2>2. PICK many \in Nat : 1..(4 - faces[i].fine) = 1..many
        <3>1. CASE faces[i].fine <= 4
            <4>1. 4 - faces[i].fine \in Nat
                BY <2>1, <3>1
            <4> QED BY <4>1, Zenon
        <3>2. CASE faces[i].fine > 4
            <4>1. 1..(4 - faces[i].fine) = 1..0
                BY <2>1, <3>2
            <4> QED BY <4>1
        <3> QED BY <2>1, <3>1, <3>2
    <2>3. Drawn(i) = [k \in 1..many |-> <<"point", i, k>>]
        BY <2>2
    <2> HIDE DEF Drawn
    <2>4. \A k \in 1..many : <<"point", i, k>> \in MeshPoints
        BY DEF MeshPoints
    <2>5. Drawn(i) \in Seq(MeshPoints) /\ Len(Drawn(i)) = many
        BY <2>3, <2>4
    <2>6. \A k \in 1..many : Drawn(i)[k][2] = i
        BY <2>3
    <2> QED BY <2>5, <2>6 DEF MeshEdges
<1>3. all \in Seq(MeshEdges)
    <2>1. all = [i \in 1..top |-> [edge |-> i, vertices |-> Drawn(i)]]
        BY <1>1
    <2> HIDE DEF all, Drawn
    <2> QED BY <1>2, <2>1
<1>4. ExtractEdges(faces) = Chosen(all, {i \in DOMAIN faces : faces[i].fine # 0})
    BY Zenon DEF ExtractEdges
<1> HIDE DEF all
<1> QED BY <1>3, <1>4, ChosenIsAmong

StripSlots == [start : Nat, count : Nat, edge : Nat]
Region(words, slots) == [words |-> words, slots |-> slots]

\* Every strip of the region leads to the points of its edge.
ShowsEdges(region) ==
    \E w \in Seq(MeshPoints), s \in Seq(StripSlots) :
        /\ region = Region(w, s)
        /\ \A n \in 1..Len(s) :
              /\ s[n].start + 3 * s[n].count <= Len(w)
              /\ \A k \in 1..(3 * s[n].count) : w[s[n].start + k][2] = s[n].edge

LEMMA NoStripsMissing == ShowsEdges(NoStrips)
<1>1. NoStrips = Region(<<>>, <<>>)
    BY DEF NoStrips, Region
<1>2. <<>> \in Seq(MeshPoints) /\ <<>> \in Seq(StripSlots) /\ 1..Len(<<>>) = {}
    OBVIOUS
<1> QED BY <1>1, <1>2, Zenon DEF ShowsEdges

LEMMA StripAdded ==
    ASSUME NEW region, ShowsEdges(region), NEW e \in MeshEdges
    PROVE  ShowsEdges(WithStrip(region, e))
<1>1. PICK w \in Seq(MeshPoints), s \in Seq(StripSlots) :
        /\ region = Region(w, s)
        /\ \A n \in 1..Len(s) :
              /\ s[n].start + 3 * s[n].count <= Len(w)
              /\ \A k \in 1..(3 * s[n].count) : w[s[n].start + k][2] = s[n].edge
    BY Zenon DEF ShowsEdges
<1>2. CASE Len(e.vertices) < 2
    <2>1. WithStrip(region, e) = region
        BY <1>2, Zenon DEF WithStrip
    <2> QED BY <2>1
<1>3. CASE ~(Len(e.vertices) < 2)
    <2>1. /\ region.words = w /\ region.slots = s
        BY <1>1 DEF Region
    <2>2. PICK v \in Seq(MeshPoints), many \in Nat :
            v = e.vertices /\ many = Len(v) /\ \A k \in 1..many : v[k][2] = e.edge
        BY DEF MeshEdges
    <2>3. PICK wn \in Nat, sn \in Nat : wn = Len(w) /\ sn = Len(s)
        OBVIOUS
    <2>4. PICK r \in Seq(MeshPoints) :
            /\ r = Words(v) /\ Len(r) = 3 * many
            /\ \A k \in 1..(3 * many) : \E c \in DOMAIN v : r[k] = v[c]
        BY <2>2, WordsOf, SMTT(40)
    <2>5. ASSUME NEW k \in 1..(3 * many) PROVE r[k][2] = e.edge
        <3>1. DOMAIN v = 1..many
            BY <2>2
        <3>2. PICK c \in 1..many : r[k] = v[c]
            BY <2>4, <3>1
        <3>3. v[c][2] = e.edge
            BY <2>2
        <3> QED BY <3>2, <3>3, Zenon
    <2>6. PICK slot \in StripSlots :
            slot = [start |-> wn, count |-> many, edge |-> e.edge]
        <3>1. e.edge \in Nat
            BY DEF MeshEdges
        <3> QED BY <3>1 DEF StripSlots
    <2>7. PICK w2 \in Seq(MeshPoints) : w2 = w \o r /\ IsJoined(w2, w, wn, r, 3 * many)
        <3>1. 3 * many \in Nat
            OBVIOUS
        <3>2. w \o r \in Seq(MeshPoints) /\ IsJoined(w \o r, w, wn, r, 3 * many)
            BY <2>3, <2>4, <3>1, Joined
        <3> QED BY <3>2, Zenon
    <2>8. PICK s2 \in Seq(StripSlots) :
            /\ s2 = Append(s, slot) /\ Len(s2) = sn + 1
            /\ \A n \in 1..sn : s2[n] = s[n]
            /\ s2[sn + 1] = slot
        BY <2>3, AppendProperties
    <2>9. WithStrip(region, e) = Region(w2, s2)
        BY <1>3, <2>1, <2>2, <2>3, <2>4, <2>6, <2>7, <2>8, Zenon DEF WithStrip, Region
    <2>10. ASSUME NEW n \in 1..(sn + 1)
           PROVE  /\ s2[n].start + 3 * s2[n].count <= Len(w2)
                  /\ \A k \in 1..(3 * s2[n].count) : w2[s2[n].start + k][2] = s2[n].edge
        <3>1. Len(w2) = wn + 3 * many /\ (\A k \in 1..wn : w2[k] = w[k])
            BY <2>7, Zenon DEF IsJoined
        <3>2. \A k \in 1..(3 * many) : w2[wn + k] = r[k]
            BY <2>7, Zenon DEF IsJoined
        <3>3. CASE n \in 1..sn
            <4>1. /\ s2[n] = s[n] /\ s[n].start + 3 * s[n].count <= wn
                  /\ \A k \in 1..(3 * s[n].count) : w[s[n].start + k][2] = s[n].edge
                BY <1>1, <2>3, <2>8, <3>3
            <4>2. s[n].start \in Nat /\ s[n].count \in Nat
                <5>1. s[n] \in StripSlots
                    BY <2>3, <3>3
                <5> QED BY <5>1 DEF StripSlots
            <4>3. ASSUME NEW k \in 1..(3 * s[n].count)
                  PROVE  w2[s[n].start + k][2] = s[n].edge
                <5>1. PICK start \in Nat, count \in Nat : start = s[n].start /\ count = s[n].count
                    BY <4>2
                <5>2. start + 3 * count <= wn /\ k \in 1..(3 * count)
                    BY <4>1, <5>1
                <5>3. start + k \in 1..wn
                    BY <5>2
                <5>4. s[n].start + k \in 1..wn
                    BY <5>1, <5>3
                <5> QED BY <3>1, <4>1, <5>4
            <4>4. s[n].start + 3 * s[n].count <= Len(w2)
                BY <3>1, <4>1, <4>2, SMTT(40)
            <4> QED BY <4>1, <4>3, <4>4
        <3>4. CASE n = sn + 1
            <4>1. s2[n].start = wn /\ s2[n].count = many /\ s2[n].edge = e.edge
                BY <2>6, <2>8, <3>4
            <4>2. s2[n].start + 3 * s2[n].count <= Len(w2)
                BY <3>1, <4>1
            <4>3. \A k \in 1..(3 * many) : w2[wn + k][2] = e.edge
                BY <2>5, <3>2, Zenon
            <4> QED BY <4>1, <4>2, <4>3, Zenon
        <3> QED BY <3>3, <3>4
    <2> QED BY <2>8, <2>9, <2>10, ZenonT(40) DEF ShowsEdges
<1> QED BY <1>2, <1>3

LEMMA RegionIsMade ==
    ASSUME NEW edges \in Seq(MeshEdges)
    PROVE  ShowsEdges(EdgeRegion(edges))
<1>1. PICK top \in Nat : top = Len(edges)
    OBVIOUS
<1> DEFINE D == {region \in [words : Seq(MeshPoints), slots : Seq(StripSlots)] : ShowsEdges(region)}
           Made(h) == h = [n \in 0..top |-> IF n = 0 THEN NoStrips ELSE WithStrip(h[n - 1], edges[n])]
           step == [n \in 1..top |-> [region \in D |-> WithStrip(region, edges[n])]]
<1>2. ASSUME NEW region, ShowsEdges(region)
      PROVE  region \in D
    <2>1. PICK w \in Seq(MeshPoints), s \in Seq(StripSlots) : region = Region(w, s)
        BY <1>2, Zenon DEF ShowsEdges
    <2>2. region \in [words : Seq(MeshPoints), slots : Seq(StripSlots)]
        BY <2>1 DEF Region
    <2> QED BY <1>2, <2>2
<1>3. \A n \in 1..top, region \in D : WithStrip(region, edges[n]) \in D
    <2> SUFFICES ASSUME NEW n \in 1..top, NEW region \in D
                 PROVE  WithStrip(region, edges[n]) \in D
        OBVIOUS
    <2>1. edges[n] \in MeshEdges /\ ShowsEdges(region)
        BY <1>1
    <2> HIDE DEF D
    <2> QED BY <1>2, <2>1, StripAdded
<1>4. step \in [1..top -> [D -> D]]
    <2> HIDE DEF D
    <2> QED BY <1>3
<1>5. NoStrips \in D
    BY <1>2, NoStripsMissing, Zenon
<1>6. \A region \in D : ShowsEdges(region)
    OBVIOUS
<1> HIDE DEF D
<1>7. PICK made \in [0..top -> D] : MadeUpTo(top, made, NoStrips, step)
    <2> HIDE DEF step
    <2> QED BY <1>4, <1>5, StepsExist
<1>8. Made(made)
    <2>1. ASSUME NEW n \in 1..top PROVE made[n] = WithStrip(made[n - 1], edges[n])
        <3>1. made[n - 1] \in D
            OBVIOUS
        <3>2. made[n] = step[n][made[n - 1]]
            BY <1>7 DEF MadeUpTo
        <3> QED BY <3>1, <3>2
    <2>2. made[0] = NoStrips
        BY <1>7 DEF MadeUpTo
    <2>3. \A n \in 0..top : n # 0 => n \in 1..top
        OBVIOUS
    <2>4. \A n \in 0..top : made[n] = IF n = 0 THEN NoStrips ELSE WithStrip(made[n - 1], edges[n])
        BY <2>1, <2>2, <2>3, Zenon
    <2>5. made = [n \in 0..top |-> made[n]]
        OBVIOUS
    <2> QED BY <2>4, <2>5
<1> DEFINE k == CHOOSE h : Made(h)
<1>9. EdgeRegion(edges) = k[top]
    BY <1>1 DEF EdgeRegion
<1>10. Made(k)
    <2> HIDE DEF Made
    <2> QED BY <1>8
<1> HIDE DEF k
<1> DEFINE T == {n \in 0..top : ShowsEdges(k[n])}
<1>11. \A n \in 0..top : k[n] = IF n = 0 THEN NoStrips ELSE WithStrip(k[n - 1], edges[n])
    BY <1>10, Zenon
<1>12. 0 \in T
    BY <1>11, NoStripsMissing
<1>13. ASSUME NEW n \in 1..top, n - 1 \in T PROVE n \in T
    <2>1. n \in 0..top /\ n # 0 /\ edges[n] \in MeshEdges
        BY <1>1
    <2>2. k[n] = WithStrip(k[n - 1], edges[n])
        BY <1>11, <2>1, Zenon
    <2>3. ShowsEdges(k[n])
        BY <1>13, <2>1, <2>2, StripAdded
    <2> QED BY <2>1, <2>3
<1>14. 0..top \subseteq T
    <2> HIDE DEF T
    <2> QED BY <1>12, <1>13, UpTo
<1>15. top \in 0..top
    OBVIOUS
<1> QED BY <1>9, <1>14, <1>15

(* A chunk of four regions, and what is read of it. *)
Holds(bin, from, region, size) == \A n \in 1..size : bin[from + n] = region[n]

Regions(bin, S, a, an, bn, c, cn, d, dn) ==
    /\ bin \in Seq(S) /\ Len(bin) = an + bn + cn + dn
    /\ Holds(bin, 0, a, an)
    /\ Holds(bin, an + bn, c, cn)
    /\ Holds(bin, an + bn + cn, d, dn)

LEMMA FourRegions ==
    ASSUME NEW S, NEW a \in Seq(S), NEW b \in Seq(S), NEW c \in Seq(S), NEW d \in Seq(S),
           NEW an \in Nat, NEW bn \in Nat, NEW cn \in Nat, NEW dn \in Nat,
           Len(a) = an, Len(b) = bn, Len(c) = cn, Len(d) = dn
    PROVE  Regions(a \o b \o c \o d, S, a, an, bn, c, cn, d, dn)
<1>1. PICK ab \in Seq(S) : ab = a \o b /\ IsJoined(ab, a, an, b, bn)
    <2>1. a \o b \in Seq(S) /\ IsJoined(a \o b, a, an, b, bn)
        BY Joined
    <2> QED BY <2>1, Zenon
<1>2. PICK m \in Nat : m = an + bn /\ Len(ab) = m
    BY <1>1 DEF IsJoined
<1>3. PICK abc \in Seq(S) : abc = ab \o c /\ IsJoined(abc, ab, m, c, cn)
    <2>1. ab \o c \in Seq(S) /\ IsJoined(ab \o c, ab, m, c, cn)
        BY <1>2, Joined
    <2> QED BY <2>1, Zenon
<1>4. PICK l \in Nat : l = m + cn /\ Len(abc) = l
    BY <1>3 DEF IsJoined
<1>5. PICK bin \in Seq(S) : bin = abc \o d /\ IsJoined(bin, abc, l, d, dn)
    <2>1. abc \o d \in Seq(S) /\ IsJoined(abc \o d, abc, l, d, dn)
        BY <1>4, Joined
    <2> QED BY <2>1, Zenon
<1>6. bin = a \o b \o c \o d
    BY <1>1, <1>3, <1>5, Zenon
<1>7. Len(bin) = an + bn + cn + dn
    BY <1>2, <1>4, <1>5 DEF IsJoined
<1>8. ASSUME NEW n \in 1..an PROVE bin[0 + n] = a[n]
    <2>1. n \in 1..m /\ n \in 1..l /\ 0 + n = n
        BY <1>2, <1>4
    <2> QED BY <1>1, <1>3, <1>5, <2>1 DEF IsJoined
<1>9. ASSUME NEW n \in 1..cn PROVE bin[(an + bn) + n] = c[n]
    <2>1. m + n \in 1..l /\ (an + bn) + n = m + n
        BY <1>2, <1>4
    <2>2. abc[m + n] = c[n]
        BY <1>3 DEF IsJoined
    <2>3. bin[m + n] = abc[m + n]
        BY <1>5, <2>1 DEF IsJoined
    <2> QED BY <2>1, <2>2, <2>3
<1>10. ASSUME NEW n \in 1..dn PROVE bin[(an + bn + cn) + n] = d[n]
    <2>1. (an + bn + cn) + n = l + n
        BY <1>2, <1>4
    <2>2. bin[l + n] = d[n]
        BY <1>5 DEF IsJoined
    <2> QED BY <2>1, <2>2
<1> QED BY <1>6, <1>7, <1>8, <1>9, <1>10, Zenon DEF Holds, Regions

Reads(doc, accessor, from, size) ==
    /\ DOMAIN Read(doc, accessor) = 1..size
    /\ \A k \in 1..size : Read(doc, accessor)[k] = doc.bin[from + k]

LEMMA ReadIs ==
    ASSUME NEW S, NEW doc, doc.bin \in Seq(S), NEW accessor, NEW from \in Nat, NEW size \in Nat,
           accessor.from = from, accessor.count * accessor.width = size,
           from + size <= Len(doc.bin)
    PROVE  Reads(doc, accessor, from, size)
<1>1. PICK bin \in Seq(S) : bin = doc.bin
    BY Zenon
<1>2. PICK r : r = Read(doc, accessor)
    BY Zenon
<1>3. r = SubSeq(bin, from + 1, from + size)
    BY <1>1, <1>2, Zenon DEF Read
<1>4. /\ r \in Seq(S) /\ Len(r) = size
      /\ \A k \in 1..size : r[k] = bin[from + k]
    <2>1. \A k \in (from + 1)..(from + size) : bin[k] \in S
        BY <1>1
    <2>2. from + 1 \in Int /\ from + size \in Int
        OBVIOUS
    <2>3. /\ r \in Seq(S)
          /\ Len(r) = IF from + 1 <= from + size THEN (from + size) - (from + 1) + 1 ELSE 0
          /\ \A k \in 1..((from + size) - (from + 1) + 1) : r[k] = bin[(from + 1) + k - 1]
        BY <1>3, <2>1, <2>2, SubSeqProperties
    <2>4. (from + size) - (from + 1) + 1 = size
        OBVIOUS
    <2>5. \A k \in 1..size : (from + 1) + k - 1 = from + k
        OBVIOUS
    <2>6. Len(r) = size
        BY <2>3
    <2>7. \A k \in 1..size : r[k] = bin[from + k]
        BY <2>3, <2>4, <2>5, Zenon
    <2> QED BY <2>3, <2>6, <2>7, Zenon
<1>5. DOMAIN r = 1..size
    BY <1>4
<1> QED BY <1>1, <1>2, <1>4, <1>5, Zenon DEF Reads

LEMMA ShownIsAll ==
    ASSUME NEW mesh, NEW g \in Seq(MeshGroups), mesh.groups = g,
           \A m \in 1..Len(g) : g[m].count > 0
    PROVE  ShownGroups(mesh) = g
<1>1. DOMAIN g \subseteq {m \in DOMAIN g : g[m].count > 0}
    OBVIOUS
<1>2. ShownGroups(mesh) = Chosen(g, {m \in DOMAIN g : g[m].count > 0})
    BY Zenon DEF ShownGroups
<1> QED BY <1>1, <1>2, AllAreChosen

(* The words of the chunk. *)
MeshWords ==
    MeshVertices \cup {<<"normal", v>> : v \in Nat} \cup {<<"index", n>> : n \in Nat} \cup MeshPoints

LEMMA NormalsFit ==
    ASSUME NEW p \in Seq(MeshVertices)
    PROVE  LET normals == [v \in DOMAIN p |-> <<"normal", v>>]
           IN  normals \in Seq(MeshWords)
<1>1. PICK top \in Nat : DOMAIN p = 1..top
    OBVIOUS
<1>2. \A v \in 1..top : <<"normal", v>> \in MeshWords
    BY DEF MeshWords
<1> QED BY <1>1, <1>2

LEMMA IndicesFit ==
    ASSUME NEW x \in Seq(Nat)
    PROVE  /\ IndexWords(x) \in Seq(MeshWords) /\ Len(IndexWords(x)) = Len(x)
           /\ \A n \in 1..Len(x) : IndexWords(x)[n][2] = x[n]
<1>1. PICK top \in Nat : top = Len(x) /\ DOMAIN x = 1..top
    OBVIOUS
<1>2. IndexWords(x) = [n \in 1..top |-> <<"index", x[n]>>]
    BY <1>1, Zenon DEF IndexWords
<1>3. \A n \in 1..top : <<"index", x[n]>> \in MeshWords
    <2>1. \A n \in 1..top : x[n] \in Nat
        BY <1>1
    <2> QED BY <2>1 DEF MeshWords
<1> QED BY <1>1, <1>2, <1>3

LEMMA SeqWidens ==
    ASSUME NEW S, NEW W, S \subseteq W, NEW s \in Seq(S)
    PROVE  s \in Seq(W)
OBVIOUS

(* The chunk of a document, with i words before its indices and e before its *)
(* strips, and where its accessors lead.                                    *)
Chunk(doc, p, x, w, i, e) ==
    /\ doc.bin \in Seq(MeshWords) /\ Len(doc.bin) = e + Len(w)
    /\ Holds(doc.bin, 0, Words(p), 3 * Len(p)) /\ 3 * Len(p) <= i
    /\ Holds(doc.bin, i, IndexWords(x), Len(x)) /\ e = i + Len(x)
    /\ Holds(doc.bin, e, w, Len(w))

ViewAt(offset, length) == [offset |-> offset, length |-> length]

Outline(doc, mesh, s, i, e, perFace) ==
    /\ doc.positions = Accessor(ViewAt(0, 3 * Len(mesh.positions)), 0, Len(mesh.positions), 3)
    /\ doc.primitives = IF perFace = TRUE /\ mesh.groups # <<>>
                        THEN GroupPrimitives(mesh, ViewAt(i, Len(mesh.indices)))
                        ELSE WholePrimitive(mesh, ViewAt(i, Len(mesh.indices)))
    /\ doc.materials = IF perFace = TRUE /\ mesh.groups # <<>>
                       THEN [n \in DOMAIN ShownGroups(mesh) |-> ShownGroups(mesh)[n].face] ELSE <<>>
    /\ \E l : doc.strips = Strips(s, ViewAt(e, l))

\* A document laid out in one chunk, its strips of one edge each.
LaidOut(doc, mesh, p, x, perFace, includeEdges) ==
    \E w \in Seq(MeshPoints), s \in Seq(StripSlots), i \in Nat, e \in Nat :
       /\ includeEdges = TRUE \/ s = <<>>
       /\ \A n \in 1..Len(s) :
             /\ s[n].start + 3 * s[n].count <= Len(w)
             /\ \A k \in 1..(3 * s[n].count) : w[s[n].start + k][2] = s[n].edge
       /\ Chunk(doc, p, x, w, i, e) /\ Outline(doc, mesh, s, i, e, perFace)

LEMMA DocumentIs ==
    ASSUME NEW mesh, NEW p \in Seq(MeshVertices), NEW x \in Seq(Nat),
           mesh.positions = p, mesh.indices = x,
           NEW edges \in Seq(MeshEdges), NEW perFace \in BOOLEAN, NEW includeEdges \in BOOLEAN
    PROVE  LaidOut(ExportGlb(mesh, edges, perFace, includeEdges), mesh, p, x, perFace, includeEdges)
<1> DEFINE A == Words(mesh.positions)
           B == IF mesh.normals THEN Words([v \in DOMAIN mesh.positions |-> <<"normal", v>>]) ELSE <<>>
           C == IndexWords(mesh.indices)
           region == IF includeEdges THEN EdgeRegion(edges) ELSE NoStrips
           iOff == Len(A) + Len(B)
           eOff == iOff + Len(C)
           doc == ExportGlb(mesh, edges, perFace, includeEdges)
<1>1. /\ doc.bin = A \o B \o C \o region.words
      /\ doc.positions = Accessor(ViewAt(0, Len(A)), 0, Len(mesh.positions), 3)
      /\ doc.primitives = IF perFace /\ mesh.groups # <<>>
                          THEN GroupPrimitives(mesh, ViewAt(iOff, Len(C)))
                          ELSE WholePrimitive(mesh, ViewAt(iOff, Len(C)))
      /\ doc.materials = IF perFace /\ mesh.groups # <<>>
                         THEN [n \in DOMAIN ShownGroups(mesh) |-> ShownGroups(mesh)[n].face] ELSE <<>>
      /\ doc.strips = Strips(region.slots, ViewAt(eOff, Len(region.words)))
    BY DEF ExportGlb, ViewAt
<1>2. ShowsEdges(region) /\ (includeEdges = TRUE \/ region = NoStrips)
    <2>1. CASE includeEdges = TRUE
        BY <2>1, RegionIsMade
    <2>2. CASE includeEdges = FALSE
        BY <2>2, NoStripsMissing
    <2> QED BY <2>1, <2>2
<1>3. PICK w \in Seq(MeshPoints), s \in Seq(StripSlots) :
        /\ region = Region(w, s)
        /\ \A n \in 1..Len(s) :
              /\ s[n].start + 3 * s[n].count <= Len(w)
              /\ \A k \in 1..(3 * s[n].count) : w[s[n].start + k][2] = s[n].edge
    <2> HIDE DEF region
    <2> QED BY <1>2, Zenon DEF ShowsEdges
<1>4. region.words = w /\ region.slots = s
    <2> HIDE DEF region
    <2> QED BY <1>3 DEF Region
<1>5. includeEdges = TRUE \/ s = <<>>
    <2>1. NoStrips.slots = <<>>
        BY DEF NoStrips
    <2> HIDE DEF region
    <2> QED BY <1>2, <1>4, <2>1
<1> HIDE DEF region
<1>6. PICK pn \in Nat, xn \in Nat, wn \in Nat : pn = Len(p) /\ xn = Len(x) /\ wn = Len(w)
    OBVIOUS
<1>7. A \in Seq(MeshWords) /\ Len(A) = 3 * pn
    <2>1. p \in Seq(MeshWords)
        <3>1. MeshVertices \subseteq MeshWords
            BY DEF MeshWords
        <3> QED BY <3>1, SeqWidens
    <2> QED BY <1>6, <2>1, WordsOf
<1>8. B \in Seq(MeshWords) /\ Len(B) \in Nat
    <2>1. CASE mesh.normals
        <3>1. [v \in DOMAIN mesh.positions |-> <<"normal", v>>] \in Seq(MeshWords)
            BY NormalsFit
        <3>2. B = Words([v \in DOMAIN mesh.positions |-> <<"normal", v>>])
            BY <2>1, Zenon
        <3>3. B \in Seq(MeshWords)
            BY <3>1, <3>2, WordsOf, Zenon
        <3> HIDE DEF B
        <3> QED BY <3>3
    <2>2. CASE ~mesh.normals
        <3>1. B = <<>>
            BY <2>2, Zenon
        <3> HIDE DEF B
        <3> QED BY <3>1
    <2> QED BY <2>1, <2>2
<1>9. C \in Seq(MeshWords) /\ Len(C) = xn
    BY <1>6, IndicesFit
<1>10. w \in Seq(MeshWords)
    <2>1. MeshPoints \subseteq MeshWords
        BY DEF MeshWords
    <2> QED BY <2>1, SeqWidens
<1>11. A = Words(p) /\ C = IndexWords(x)
    OBVIOUS
<1> HIDE DEF A, B, C, doc
<1>12. PICK bn \in Nat, an \in Nat : bn = Len(B) /\ an = Len(A) /\ an = 3 * pn
    BY <1>7, <1>8
<1>13. /\ doc.bin \in Seq(MeshWords) /\ Len(doc.bin) = an + bn + xn + wn
       /\ Holds(doc.bin, 0, A, an)
       /\ Holds(doc.bin, an + bn, C, xn)
       /\ Holds(doc.bin, an + bn + xn, w, wn)
    <2>1. doc.bin = A \o B \o C \o w
        BY <1>1, <1>4, Zenon
    <2>2. Regions(A \o B \o C \o w, MeshWords, A, an, bn, C, xn, w, wn)
        BY <1>6, <1>7, <1>8, <1>9, <1>10, <1>12, FourRegions
    <2> QED BY <2>1, <2>2, Zenon DEF Regions
<1>14. PICK i \in Nat, e \in Nat : i = an + bn /\ e = an + bn + xn
    OBVIOUS
<1>15. Chunk(doc, p, x, w, i, e)
    <2>1. 3 * Len(p) <= i /\ e = i + Len(x) /\ Len(doc.bin) = e + Len(w) /\ an = 3 * Len(p)
        BY <1>6, <1>12, <1>13, <1>14
    <2> QED BY <1>6, <1>11, <1>13, <1>14, <2>1, Zenon DEF Chunk
<1>16. Outline(doc, mesh, s, i, e, perFace)
    <2>1. Len(A) = 3 * Len(mesh.positions) /\ Len(C) = Len(mesh.indices) /\ iOff = i /\ eOff = e
        BY <1>6, <1>7, <1>9, <1>12, <1>14
    <2>2. perFace <=> perFace = TRUE
        OBVIOUS
    <2> HIDE DEF iOff, eOff
    <2> QED BY <1>1, <1>4, <2>1, <2>2, Zenon DEF Outline
<1>17. LaidOut(doc, mesh, p, x, perFace, includeEdges)
    BY <1>3, <1>5, <1>15, <1>16, Zenon DEF LaidOut
<1> QED BY <1>17 DEF doc

(* Every vertex is found at the first of its words.                         *)
LEMMA VerticesRead ==
    ASSUME NEW doc, NEW mesh, NEW p \in Seq(MeshVertices), NEW x \in Seq(Nat), mesh.positions = p,
           NEW w \in Seq(MeshPoints), NEW s, NEW i \in Nat, NEW e \in Nat, NEW perFace,
           Chunk(doc, p, x, w, i, e), Outline(doc, mesh, s, i, e, perFace),
           NEW v \in 0..(Len(p) - 1)
    PROVE  Read(doc, doc.positions)[3 * v + 1] = p[v + 1]
<1>1. PICK pn \in Nat : pn = Len(p)
    OBVIOUS
<1>2. /\ doc.positions.from = 0 /\ doc.positions.count = pn /\ doc.positions.width = 3
    BY <1>1 DEF Outline, Accessor, ViewAt
<1>3. pn * 3 = 3 * pn /\ 3 * pn \in Nat /\ 3 * v + 1 \in 1..(3 * pn)
    BY <1>1
<1>4. 0 + 3 * pn <= Len(doc.bin)
    <2>1. PICK xn \in Nat, wn \in Nat : xn = Len(x) /\ wn = Len(w)
        OBVIOUS
    <2> QED BY <1>1, <2>1 DEF Chunk
<1>5. Read(doc, doc.positions)[3 * v + 1] = doc.bin[0 + (3 * v + 1)]
    <2>1. doc.bin \in Seq(MeshWords)
        BY DEF Chunk
    <2>2. 0 \in Nat /\ doc.positions.count * doc.positions.width = 3 * pn
        BY <1>2, <1>3
    <2>3. \A k \in 1..(3 * pn) : Read(doc, doc.positions)[k] = doc.bin[0 + k]
        <3>1. Reads(doc, doc.positions, 0, 3 * pn)
            BY <1>2, <1>3, <1>4, <2>1, <2>2, ReadIs
        <3> QED BY <3>1, Zenon DEF Reads
    <2> QED BY <1>3, <2>3
<1>6. doc.bin[0 + (3 * v + 1)] = Words(p)[3 * v + 1]
    BY <1>1, <1>3 DEF Chunk, Holds
<1>7. Words(p)[3 * v + 1] = p[v + 1]
    BY WordsOf
<1> QED BY <1>5, <1>6, <1>7

(* A document of a mesh that shows its groups. *)
OneEach(doc, mesh, g, i) ==
    /\ doc.primitives = GroupPrimitives(mesh, ViewAt(i, Len(mesh.indices)))
    /\ doc.materials = [n \in 1..Len(g) |-> g[n].face]
    /\ ShownGroups(mesh) = g

LEMMA GroupsAreShown ==
    ASSUME NEW doc, NEW mesh, NEW p, NEW x, NEW g \in Seq(MeshGroups), mesh.groups = g,
           NEW size, Shows(p, Len(p), x, size, g, Len(g)),
           NEW s, NEW i, NEW e, Outline(doc, mesh, s, i, e, TRUE), g # <<>>
    PROVE  OneEach(doc, mesh, g, i)
<1>1. \A m \in 1..Len(g) : g[m].count > 0
    BY Zenon DEF Shows
<1>2. ShownGroups(mesh) = g
    BY <1>1, ShownIsAll
<1>3. DOMAIN g = 1..Len(g)
    OBVIOUS
<1> QED BY <1>2, <1>3, Zenon DEF Outline, OneEach

LEMMA FacesAreRead ==
    ASSUME NEW doc, NEW mesh, NEW p \in Seq(MeshVertices), NEW x \in Seq(Nat),
           NEW g \in Seq(MeshGroups),
           mesh.positions = p, mesh.indices = x, mesh.groups = g,
           Shows(p, Len(p), x, Len(x), g, Len(g)),
           NEW w \in Seq(MeshPoints), NEW s, NEW i \in Nat, NEW e \in Nat, NEW perFace \in BOOLEAN,
           Chunk(doc, p, x, w, i, e), Outline(doc, mesh, s, i, e, perFace),
           NEW q \in DOMAIN doc.primitives,
           NEW n \in DOMAIN Read(doc, doc.primitives[q].indices),
           doc.primitives[q].face # -1
    PROVE  LET read == Read(doc, doc.primitives[q].indices)
           IN  /\ Read(doc, doc.positions)[3 * read[n][2] + 1][2] = doc.primitives[q].face
               /\ doc.materials[doc.primitives[q].material] = doc.primitives[q].face
<1>1. perFace = TRUE /\ g # <<>>
    <2> SUFFICES ASSUME ~(perFace = TRUE /\ g # <<>>) PROVE FALSE
        OBVIOUS
    <2>1. doc.primitives = WholePrimitive(mesh, ViewAt(i, Len(mesh.indices)))
        BY Zenon DEF Outline
    <2>2. q = 1 /\ doc.primitives[1].face = -1
        BY <2>1 DEF WholePrimitive
    <2> QED BY <2>2
<1>2. /\ doc.primitives = GroupPrimitives(mesh, ViewAt(i, Len(mesh.indices)))
      /\ doc.materials = [m \in 1..Len(g) |-> g[m].face]
      /\ ShownGroups(mesh) = g
    <2>1. Outline(doc, mesh, s, i, e, TRUE)
        BY <1>1, Zenon
    <2>2. OneEach(doc, mesh, g, i)
        BY <1>1, <2>1, GroupsAreShown
    <2> QED BY <2>2, Zenon DEF OneEach
<1>3. q \in 1..Len(g)
    <2>1. DOMAIN doc.primitives = DOMAIN g
        BY <1>2 DEF GroupPrimitives
    <2> QED BY <2>1
<1>4. PICK start \in Nat, count \in Nat, face \in Nat :
        start = g[q].start /\ count = g[q].count /\ face = g[q].face
    <2>1. g[q] \in MeshGroups
        BY <1>3
    <2> QED BY <2>1 DEF MeshGroups
<1>5. /\ doc.primitives[q].face = face /\ doc.primitives[q].material = q
      /\ doc.primitives[q].indices = Accessor(ViewAt(i, Len(mesh.indices)), start, count, 1)
    <2>1. q \in DOMAIN g
        BY <1>3
    <2>2. doc.primitives[q] =
            [indices |-> Accessor(ViewAt(i, Len(mesh.indices)), g[q].start, g[q].count, 1),
             face |-> g[q].face, material |-> q]
        BY <1>2, <2>1, ZenonT(40) DEF GroupPrimitives
    <2> QED BY <1>4, <2>2
<1>6. doc.materials[q] = face
    BY <1>2, <1>3, <1>4
<1> DEFINE accessor == doc.primitives[q].indices
           read == Read(doc, accessor)
<1>7. accessor.from = i + start /\ accessor.count * accessor.width = count
    <2>1. accessor.from = i + start /\ accessor.count = count /\ accessor.width = 1
        BY <1>5 DEF Accessor, ViewAt
    <2> QED BY <2>1
<1>8. PICK xn \in Nat : xn = Len(x)
    OBVIOUS
<1>9. start + count <= xn
    <2>1. Behind(g[q]) <= Len(x)
        BY <1>3, Zenon DEF Shows
    <2> QED BY <1>4, <1>8, <2>1 DEF Behind
<1>10. DOMAIN read = 1..count /\ \A k \in 1..count : read[k] = doc.bin[(i + start) + k]
    <2>1. doc.bin \in Seq(MeshWords)
        BY DEF Chunk
    <2>2. i + start \in Nat /\ (i + start) + count <= Len(doc.bin)
        <3>1. PICK wn \in Nat : wn = Len(w)
            OBVIOUS
        <3> QED BY <1>8, <1>9, <3>1 DEF Chunk
    <2> HIDE DEF accessor
    <2>3. Reads(doc, accessor, i + start, count)
        BY <1>7, <2>1, <2>2, ReadIs
    <2> QED BY <2>3, Zenon DEF Reads
<1>11. n \in 1..count
    BY <1>10
<1>12. read[n][2] = x[start + n]
    <2>1. start + n \in 1..xn /\ (i + start) + n = i + (start + n)
        BY <1>9, <1>11
    <2>2. doc.bin[i + (start + n)] = IndexWords(x)[start + n]
        BY <1>8, <2>1 DEF Chunk, Holds
    <2>3. IndexWords(x)[start + n][2] = x[start + n]
        BY <1>8, <2>1, IndicesFit
    <2> HIDE DEF read
    <2> QED BY <1>10, <1>11, <2>1, <2>2, <2>3
<1>13. x[start + n] + 1 \in 1..Len(p) /\ p[x[start + n] + 1][2] = face
    <2>1. /\ start + n \in 1..Len(x) /\ g[q].start < start + n /\ start + n <= Behind(g[q])
        <3>1. n \in Nat /\ 1 <= n /\ n <= count
            BY <1>11
        <3>2. start + n \in 1..xn /\ start < start + n /\ start + n <= start + count
            BY <1>9, <3>1
        <3> QED BY <1>4, <1>8, <3>2, Zenon DEF Behind
    <2> QED BY <1>3, <1>4, <2>1, Zenon DEF Shows
<1>14. Read(doc, doc.positions)[3 * x[start + n] + 1] = p[x[start + n] + 1]
    <2>1. PICK v \in 0..(Len(p) - 1) : v = x[start + n]
        <3>1. PICK pn \in Nat : pn = Len(p)
            OBVIOUS
        <3>2. x[start + n] \in Nat
            BY <1>8, <1>9, <1>11
        <3> QED BY <1>13, <3>1, <3>2
    <2>2. Read(doc, doc.positions)[3 * v + 1] = p[v + 1]
        BY VerticesRead
    <2> QED BY <2>1, <2>2
<1> QED BY <1>5, <1>6, <1>12, <1>13, <1>14

(* The primitives are of as many indices as there are. *)
LEMMA CountsAddUp ==
    ASSUME NEW doc, NEW mesh, NEW p, NEW x \in Seq(Nat), NEW g \in Seq(MeshGroups),
           mesh.indices = x, mesh.groups = g,
           Shows(p, Len(p), x, Len(x), g, Len(g)),
           NEW s, NEW i, NEW e, NEW perFace \in BOOLEAN, Outline(doc, mesh, s, i, e, perFace)
    PROVE  Total([q \in DOMAIN doc.primitives |-> doc.primitives[q].indices.count]) = Len(x)
<1> DEFINE counts == [q \in DOMAIN doc.primitives |-> doc.primitives[q].indices.count]
<1>1. PICK xn \in Nat, gn \in Nat : xn = Len(x) /\ gn = Len(g)
    OBVIOUS
<1>2. CASE perFace = TRUE /\ g # <<>>
    <2>1. /\ doc.primitives = GroupPrimitives(mesh, ViewAt(i, Len(mesh.indices)))
          /\ ShownGroups(mesh) = g
        <3>1. Outline(doc, mesh, s, i, e, TRUE)
            BY <1>2, Zenon
        <3>2. OneEach(doc, mesh, g, i)
            BY <1>2, <3>1, GroupsAreShown
        <3> QED BY <3>2, Zenon DEF OneEach
    <2>2. \A q \in 1..gn : g[q].start \in Nat /\ g[q].count \in Nat
                           /\ Behind(g[q]) = g[q].start + g[q].count
        <3>1. \A q \in 1..gn : g[q] \in MeshGroups
            BY <1>1
        <3> QED BY <3>1 DEF MeshGroups, Behind
    <2>3. counts = [q \in 1..gn |-> g[q].count]
        <3>1. DOMAIN doc.primitives = 1..gn
            BY <1>1, <2>1 DEF GroupPrimitives
        <3>2. \A q \in 1..gn : doc.primitives[q].indices.count = g[q].count
            BY <1>1, <2>1 DEF GroupPrimitives, Accessor
        <3> QED BY <3>1, <3>2
    <2> HIDE DEF counts
    <2>4. counts \in Seq(Nat) /\ Len(counts) = gn
        BY <2>2, <2>3
    <2> DEFINE ends == [q \in 0..gn |-> IF q = 0 THEN 0 ELSE Behind(g[q])]
    <2>5. SumsUpTo(counts, ends, gn)
        <3>1. ends[0] = 0
            OBVIOUS
        <3>2. ASSUME NEW q \in 1..gn PROVE ends[q] = ends[q - 1] + counts[q]
            <4>1. g[q].start = IF q = 1 THEN 0 ELSE Behind(g[q - 1])
                BY <1>1, Zenon DEF Shows
            <4>2. ends[q] = Behind(g[q]) /\ counts[q] = g[q].count
                BY <2>3
            <4>3. ends[q - 1] = IF q = 1 THEN 0 ELSE Behind(g[q - 1])
                OBVIOUS
            <4> HIDE DEF ends
            <4> QED BY <2>2, <4>1, <4>2, <4>3
        <3> HIDE DEF ends
        <3> QED BY <3>1, <3>2, Zenon DEF SumsUpTo
    <2>6. Total(counts) = ends[gn]
        <3> HIDE DEF ends
        <3> QED BY <2>4, <2>5, TotalOfSums
    <2>7. gn # 0
        BY <1>1, <1>2
    <2>8. xn = Behind(g[gn])
        BY <1>1, <2>7, Zenon DEF Shows
    <2>9. ends[gn] = Behind(g[gn])
        BY <2>7
    <2> QED BY <1>1, <2>6, <2>8, <2>9, Zenon DEF counts
<1>3. CASE ~(perFace = TRUE /\ g # <<>>)
    <2>1. doc.primitives = WholePrimitive(mesh, ViewAt(i, Len(mesh.indices)))
        BY <1>3, Zenon DEF Outline
    <2>2. counts = [q \in 1..1 |-> xn]
        BY <1>1, <2>1 DEF WholePrimitive, Accessor
    <2> HIDE DEF counts
    <2>3. counts \in Seq(Nat) /\ Len(counts) = 1
        BY <2>2
    <2> DEFINE ends == [q \in 0..1 |-> IF q = 0 THEN 0 ELSE xn]
    <2>4. SumsUpTo(counts, ends, 1)
        BY <2>2 DEF SumsUpTo
    <2>5. Total(counts) = ends[1] /\ ends[1] = xn
        <3>1. ends[1] = xn
            OBVIOUS
        <3> HIDE DEF ends
        <3> QED BY <2>3, <2>4, <3>1, TotalOfSums
    <2> QED BY <1>1, <2>5 DEF counts
<1> QED BY <1>2, <1>3

LEMMA StripsAreRead ==
    ASSUME NEW doc, NEW mesh, NEW p \in Seq(MeshVertices), NEW x \in Seq(Nat),
           NEW w \in Seq(MeshPoints), NEW s \in Seq(StripSlots), NEW i \in Nat, NEW e \in Nat,
           NEW perFace,
           Chunk(doc, p, x, w, i, e), Outline(doc, mesh, s, i, e, perFace),
           \A m \in 1..Len(s) :
              /\ s[m].start + 3 * s[m].count <= Len(w)
              /\ \A k \in 1..(3 * s[m].count) : w[s[m].start + k][2] = s[m].edge,
           NEW n \in DOMAIN doc.strips, NEW k \in 1..(3 * doc.strips[n].points.count)
    PROVE  Read(doc, doc.strips[n].points)[k][2] = doc.strips[n].edge
<1>1. PICK l : doc.strips = Strips(s, ViewAt(e, l))
    BY Zenon DEF Outline
<1>2. n \in 1..Len(s)
    <2>1. DOMAIN doc.strips = DOMAIN s
        BY <1>1 DEF Strips
    <2> QED BY <2>1
<1>3. PICK start \in Nat, count \in Nat, edge \in Nat :
        start = s[n].start /\ count = s[n].count /\ edge = s[n].edge
    <2>1. s[n] \in StripSlots
        BY <1>2
    <2> QED BY <2>1 DEF StripSlots
<1>4. doc.strips[n].edge = edge /\ doc.strips[n].points = Accessor(ViewAt(e, l), start, count, 3)
    BY <1>1, <1>2, <1>3 DEF Strips
<1> DEFINE accessor == doc.strips[n].points
<1>5. accessor.from = e + start /\ accessor.count = count /\ accessor.width = 3
    BY <1>4 DEF Accessor, ViewAt
<1> HIDE DEF accessor
<1>6. PICK wn \in Nat : wn = Len(w)
    OBVIOUS
<1>7. start + 3 * count <= wn /\ \A c \in 1..(3 * count) : w[start + c][2] = edge
    BY <1>2, <1>3, <1>6
<1>8. Reads(doc, accessor, e + start, 3 * count)
    <2>1. doc.bin \in Seq(MeshWords) /\ Len(doc.bin) = e + wn
        BY <1>6 DEF Chunk
    <2>2. e + start \in Nat /\ 3 * count \in Nat /\ (e + start) + 3 * count <= Len(doc.bin)
        BY <1>7, <2>1
    <2>3. accessor.count * accessor.width = 3 * count
        BY <1>5
    <2> QED BY <1>5, <2>1, <2>2, <2>3, ReadIs
<1>9. k \in 1..(3 * count)
    BY <1>5 DEF accessor
<1>10. Read(doc, accessor)[k] = doc.bin[e + (start + k)]
    <2>1. (e + start) + k = e + (start + k)
        BY <1>9
    <2> QED BY <1>8, <1>9, <2>1 DEF Reads
<1>11. doc.bin[e + (start + k)] = w[start + k]
    <2>1. start + k \in 1..wn
        BY <1>7, <1>9
    <2> QED BY <1>6, <2>1 DEF Chunk, Holds
<1>12. w[start + k][2] = edge
    BY <1>7, <1>9
<1> QED BY <1>4, <1>10, <1>11, <1>12, Zenon DEF accessor

(* All that a reader finds. *)
DocumentShows(doc, mesh, includeEdges) ==
    LET vertices == Read(doc, doc.positions)
    IN  /\ \A p \in DOMAIN doc.primitives :
              LET prim == doc.primitives[p]
                  read == Read(doc, prim.indices)
              IN  \A n \in DOMAIN read :
                     LET v == vertices[3 * read[n][2] + 1]
                     IN  prim.face # -1 =>
                           v[2] = prim.face /\ doc.materials[prim.material] = prim.face
        /\ Total([p \in DOMAIN doc.primitives |-> doc.primitives[p].indices.count])
              = Len(mesh.indices)
        /\ includeEdges =>
              \A n \in DOMAIN doc.strips :
                  \A k \in 1..(3 * doc.strips[n].points.count) :
                      Read(doc, doc.strips[n].points)[k][2] = doc.strips[n].edge

LEMMA DocumentShowsMesh ==
    ASSUME NEW mesh, ShowsFaces(mesh), Counts(mesh), NEW edges \in Seq(MeshEdges),
           NEW perFace \in BOOLEAN, NEW includeEdges \in BOOLEAN
    PROVE  DocumentShows(ExportGlb(mesh, edges, perFace, includeEdges), mesh, includeEdges)
<1>0. PICK f, b : \E p \in Seq(MeshVertices), x \in Seq(Nat), g \in Seq(MeshGroups), t \in Nat :
        /\ mesh = Buffers(p, x, g, f, b) /\ Len(x) = 3 * t
        /\ Len(p) < IndexSpace /\ 3 * t < IndexSpace => Shows(p, Len(p), x, 3 * t, g, Len(g))
    BY Zenon DEF ShowsFaces
<1>1. PICK p \in Seq(MeshVertices), x \in Seq(Nat), g \in Seq(MeshGroups), t \in Nat :
        /\ mesh = Buffers(p, x, g, f, b) /\ Len(x) = 3 * t
        /\ Len(p) < IndexSpace /\ 3 * t < IndexSpace => Shows(p, Len(p), x, 3 * t, g, Len(g))
    BY <1>0, Zenon
<1>2. mesh.positions = p /\ mesh.indices = x /\ mesh.groups = g
    BY <1>1 DEF Buffers
<1>3. Shows(p, Len(p), x, Len(x), g, Len(g))
    BY <1>1, <1>2, Zenon DEF Counts
<1>4. PICK doc : doc = ExportGlb(mesh, edges, perFace, includeEdges)
    BY Zenon
<1>5. PICK w \in Seq(MeshPoints), s \in Seq(StripSlots), i \in Nat, e \in Nat :
        /\ \A n \in 1..Len(s) :
              /\ s[n].start + 3 * s[n].count <= Len(w)
              /\ \A k \in 1..(3 * s[n].count) : w[s[n].start + k][2] = s[n].edge
        /\ Chunk(doc, p, x, w, i, e) /\ Outline(doc, mesh, s, i, e, perFace)
    <2>1. p \in Seq(MeshVertices) /\ x \in Seq(Nat)
        BY <1>1
    <2>2. LaidOut(doc, mesh, p, x, perFace, includeEdges)
        BY <1>2, <1>4, <2>1, DocumentIs
    <2> QED BY <2>2, Zenon DEF LaidOut
<1>6. ASSUME NEW q \in DOMAIN doc.primitives,
             NEW n \in DOMAIN Read(doc, doc.primitives[q].indices), doc.primitives[q].face # -1
      PROVE  LET read == Read(doc, doc.primitives[q].indices)
             IN  /\ Read(doc, doc.positions)[3 * read[n][2] + 1][2] = doc.primitives[q].face
                 /\ doc.materials[doc.primitives[q].material] = doc.primitives[q].face
    BY <1>2, <1>3, <1>5, <1>6, FacesAreRead, ZenonT(40)
<1>7. Total([q \in DOMAIN doc.primitives |-> doc.primitives[q].indices.count]) = Len(mesh.indices)
    BY <1>2, <1>3, <1>5, CountsAddUp
<1>8. ASSUME NEW n \in DOMAIN doc.strips, NEW k \in 1..(3 * doc.strips[n].points.count)
      PROVE  Read(doc, doc.strips[n].points)[k][2] = doc.strips[n].edge
    BY <1>5, StripsAreRead
<1>9. DocumentShows(doc, mesh, includeEdges)
    BY <1>6, <1>7, <1>8, Zenon DEF DocumentShows
<1> QED BY <1>4, <1>9

-----------------------------------------------------------------------------
(* What is cached, and what is shown.                                       *)

\* An entry of the cache is as its parameters ask, as long as the modes used
\* with them are absolute.
FitsCache(entry, params, modes) ==
    /\ entry.print = Fingerprint(entry.of)
    /\ entry.normals = params.normals
    /\ modes \subseteq {"absolute"} => entry.of.fine <= params.linear
    /\ entry.triangles \in {1, 2}

ShownFits(result, modes) ==
    result.ok =>
        /\ result.mesh.failed + Len(result.mesh.groups) = Len(result.faces)
        /\ (result.cached => modes = {"absolute"}) =>
              \A i \in DOMAIN result.from :
                  /\ result.from[i].of.fine <= Deflection(result.faces, result.params)
                  /\ result.from[i].normals = result.params.normals
        /\ \A i \in DOMAIN result.from : result.from[i].of.outline = result.faces[i].outline
        /\ ShowsFaces(result.mesh) /\ result.edges \in Seq(MeshEdges)

MeshInv ==
    /\ body \in [null : BOOLEAN, faces : Seq(MeshFaces)]
    /\ cacheParams \in ParamChoices
    /\ \A i \in DOMAIN meshCache : FitsCache(meshCache[i], cacheParams, kinds)
    /\ ShownFits(meshed, kinds)

LEMMA NothingIsCached ==
    ASSUME NEW params, NEW modes
    PROVE  \A i \in DOMAIN <<>> : FitsCache(<<>>[i], params, modes)
<1>1. DOMAIN <<>> = {}
    OBVIOUS
<1> QED BY <1>1, Zenon

LEMMA NothingIsShown ==
    ASSUME NEW modes
    PROVE  ShownFits(NotMeshed, modes)
<1>1. NotMeshed.ok = FALSE
    BY DEF NotMeshed
<1> QED BY <1>1, Zenon DEF ShownFits

(* A face that is meshed anew is as its parameters ask.                     *)
LEMMA MeshedAnew ==
    ASSUME NEW before \in Seq(MeshFaces), NEW params \in ParamChoices,
           NEW faces \in Triangulated(before, Deflection(before, params)),
           NEW i \in DOMAIN faces
    PROVE  LET entry == TessellateSingleFace(faces[i], params)
           IN  /\ entry.print = Fingerprint(entry.of)
               /\ entry.normals = params.normals
               /\ entry.of.fine <= Deflection(faces, params)
               /\ params.mode = "absolute" => entry.of.fine <= params.linear
               /\ entry.of.outline = faces[i].outline
               /\ entry.triangles \in {1, 2}
<1>1. PICK entry : entry = TessellateSingleFace(faces[i], params)
    BY Zenon
<1>2. entry.of = faces[i] /\ entry.print = Fingerprint(faces[i]) /\ entry.normals = params.normals
    BY <1>1 DEF TessellateSingleFace
<1>3. Refined(faces, before, Deflection(before, params))
    BY DeflectionIsNat, TriangulatedIsRefined
<1>4. Deflection(faces, params) = Deflection(before, params)
    BY <1>3, RefinedKeepsDeflection
<1>5. faces[i].fine <= Deflection(before, params)
    BY <1>3 DEF Refined
<1>6. params.mode = "absolute" => Deflection(before, params) = params.linear
    BY Zenon DEF Deflection
<1>7. entry.triangles \in {1, 2}
    BY <1>1 DEF TessellateSingleFace
<1> QED BY <1>1, <1>2, <1>4, <1>5, <1>6, <1>7

(* What a call shows: a mesh for each face, that is fine and its own.       *)
AreAsFine(mesh, faces, params) ==
    \A i \in DOMAIN faces : /\ mesh[i].of.fine <= Deflection(faces, params)
                            /\ mesh[i].normals = params.normals

AreTheirOwn(mesh, faces) ==
    \A i \in DOMAIN faces : mesh[i].of.outline = faces[i].outline

HaveTriangles(mesh, faces) ==
    \A i \in DOMAIN faces : mesh[i].triangles \in {1, 2}

LEMMA SuccessFits ==
    ASSUME NEW cached \in BOOLEAN, NEW faces \in Seq(MeshFaces), NEW params, NEW mesh,
           NEW modes, mesh = [i \in DOMAIN faces |-> mesh[i]],
           (cached = TRUE /\ modes # {"absolute"}) \/ AreAsFine(mesh, faces, params),
           AreTheirOwn(mesh, faces), HaveTriangles(mesh, faces)
    PROVE  ShownFits(Succeeded(cached, faces, params, mesh), modes)
<1>1. PICK r : r = Succeeded(cached, faces, params, mesh)
    BY Zenon
<1>2. /\ r.ok = TRUE /\ r.cached = cached /\ r.params = params /\ r.faces = faces
      /\ r.mesh = AssembleMesh(mesh) /\ r.from = mesh /\ r.edges = ExtractEdges(faces)
    BY <1>1 DEF Succeeded
<1>3. DOMAIN mesh = DOMAIN faces /\ DOMAIN faces = 1..Len(faces) /\ Len(faces) \in Nat
    OBVIOUS
<1>4. Len(mesh) = Len(faces)
    <2>1. mesh = [i \in 1..Len(faces) |-> mesh[i]]
        BY <1>3
    <2> QED BY <1>3, <2>1, LengthOfList
<1>5. AssembleMesh(mesh).failed + Len(AssembleMesh(mesh).groups) = Len(faces)
    BY <1>3, <1>4, AssemblyCounts
<1>6. r.mesh.failed + Len(r.mesh.groups) = Len(r.faces)
    BY <1>2, <1>5
<1>7. ShowsFaces(r.mesh) /\ r.edges \in Seq(MeshEdges)
    <2>1. \A i \in 1..Len(mesh) : mesh[i].triangles \in Nat \ {0}
        BY <1>3, <1>4 DEF HaveTriangles
    <2>2. ShowsFaces(AssembleMesh(mesh))
        BY <1>3, <1>4, <2>1, AssemblyShowsFaces
    <2> QED BY <1>2, <2>2, EdgesExtracted, Zenon
<1>8. ShownFits(r, modes)
    <2>1. (r.cached => modes = {"absolute"}) => AreAsFine(r.from, r.faces, r.params)
        BY <1>2, Zenon
    <2>2. AreTheirOwn(r.from, r.faces)
        BY <1>2, Zenon
    <2>3. DOMAIN r.from = DOMAIN r.faces
        BY <1>2, <1>3, Zenon
    <2> QED BY <1>6, <1>7, <2>1, <2>2, <2>3, Zenon DEF ShownFits, AreAsFine, AreTheirOwn
<1> QED BY <1>1, <1>8

-----------------------------------------------------------------------------
LEMMA MeshInitFits == MeshInit => MeshInv
<1> SUFFICES ASSUME MeshInit PROVE MeshInv
    OBVIOUS
<1>1. body \in [null : BOOLEAN, faces : Seq(MeshFaces)]
    BY DEF MeshInit
<1>2. cacheParams \in ParamChoices
    BY DEF MeshInit, DefaultParams, ParamChoices
<1>3. \A i \in DOMAIN meshCache : FitsCache(meshCache[i], cacheParams, kinds)
    BY NothingIsCached, Zenon DEF MeshInit
<1>4. ShownFits(meshed, kinds)
    BY NothingIsShown, Zenon DEF MeshInit
<1> QED BY <1>1, <1>2, <1>3, <1>4 DEF MeshInv

LEMMA EditedBodyFits ==
    ASSUME MeshInv, EditBody
    PROVE  MeshInv'
<1>1. PICK null \in BOOLEAN, n \in 0..MaxFaces :
        \E faces \in [1..n -> FreshFaces \cup {body.faces[i] : i \in DOMAIN body.faces}] :
            body' = [null |-> null, faces |-> IF null THEN <<>> ELSE faces]
    BY Zenon DEF EditBody
<1>2. PICK faces \in [1..n -> FreshFaces \cup {body.faces[i] : i \in DOMAIN body.faces}] :
        body' = [null |-> null, faces |-> IF null THEN <<>> ELSE faces]
    BY <1>1
<1>3. FreshFaces \cup {body.faces[i] : i \in DOMAIN body.faces} \subseteq MeshFaces
    <2>1. FreshFaces \subseteq MeshFaces
        BY DEF FreshFaces, MeshFaces
    <2>2. body.faces \in Seq(MeshFaces)
        BY DEF MeshInv
    <2>3. \A i \in DOMAIN body.faces : body.faces[i] \in MeshFaces
        BY <2>2
    <2> QED BY <2>1, <2>3, Zenon
<1>4. faces \in Seq(MeshFaces)
    <2>1. \A i \in 1..n : faces[i] \in MeshFaces
        BY <1>3
    <2>2. faces = [i \in 1..n |-> faces[i]] /\ n \in Nat
        BY MeshAssumption
    <2> QED BY <2>1, <2>2
<1>5. PICK left \in Seq(MeshFaces) : left = IF null THEN <<>> ELSE faces
    <2>1. <<>> \in Seq(MeshFaces)
        OBVIOUS
    <2> QED BY <1>4, <2>1, Zenon
<1>6. body' \in [null : BOOLEAN, faces : Seq(MeshFaces)]
    BY <1>2, <1>5
<1>7. meshed' = NotMeshed /\ meshCache' = meshCache /\ cacheParams' = cacheParams /\ kinds' = kinds
    BY DEF EditBody
<1>8. ShownFits(meshed', kinds')
    BY <1>7, NothingIsShown
<1> QED BY <1>6, <1>7, <1>8, Zenon DEF MeshInv

LEMMA FailedCallFits ==
    ASSUME MeshInv, TessellateFails
    PROVE  MeshInv'
<1>1. /\ meshed' = NotMeshed /\ body' = body /\ meshCache' = meshCache
      /\ cacheParams' = cacheParams /\ kinds' = kinds
    BY DEF TessellateFails
<1>2. ShownFits(meshed', kinds')
    BY <1>1, NothingIsShown
<1> QED BY <1>1, <1>2, Zenon DEF MeshInv

(* The mesher leaves the body with the faces it has triangulated.           *)
LEMMA TriangulatedBody ==
    ASSUME MeshInv, NEW params \in ParamChoices,
           NEW faces \in Triangulated(body.faces, Deflection(body.faces, params))
    PROVE  /\ body.faces \in Seq(MeshFaces) /\ faces \in Seq(MeshFaces)
           /\ [body EXCEPT !.faces = faces] \in [null : BOOLEAN, faces : Seq(MeshFaces)]
<1>1. body \in [null : BOOLEAN, faces : Seq(MeshFaces)] /\ body.faces \in Seq(MeshFaces)
    BY DEF MeshInv
<1>2. Refined(faces, body.faces, Deflection(body.faces, params))
    BY <1>1, DeflectionIsNat, TriangulatedIsRefined
<1>3. faces \in Seq(MeshFaces)
    BY <1>2 DEF Refined
<1> QED BY <1>1, <1>3

LEMMA TessellatedFits ==
    ASSUME MeshInv, NEW params \in ParamChoices, Tessellate(params)
    PROVE  MeshInv'
<1>1. PICK faces \in Triangulated(body.faces, Deflection(body.faces, params)) :
        LET result == Succeeded(FALSE, faces, params,
                                [i \in DOMAIN faces |-> TessellateSingleFace(faces[i], params)])
        IN  /\ body' = [body EXCEPT !.faces = faces]
            /\ meshed' = IF OverQuota(result.mesh) THEN NotMeshed ELSE result
    BY Zenon DEF Tessellate
<1>2. meshCache' = meshCache /\ cacheParams' = cacheParams /\ kinds' = kinds
    BY DEF Tessellate
<1>3. /\ body.faces \in Seq(MeshFaces) /\ faces \in Seq(MeshFaces)
      /\ body' \in [null : BOOLEAN, faces : Seq(MeshFaces)]
    BY <1>1, TriangulatedBody
<1> DEFINE mesh == [i \in DOMAIN faces |-> TessellateSingleFace(faces[i], params)]
<1>4. mesh = [i \in DOMAIN faces |-> mesh[i]]
    BY Zenon
<1>5. AreAsFine(mesh, faces, params) /\ AreTheirOwn(mesh, faces) /\ HaveTriangles(mesh, faces)
    <2>1. \A i \in DOMAIN faces : mesh[i] = TessellateSingleFace(faces[i], params)
        BY Zenon
    <2> HIDE DEF mesh
    <2>2. \A i \in DOMAIN faces : /\ mesh[i].of.fine <= Deflection(faces, params)
                                  /\ mesh[i].normals = params.normals
                                  /\ mesh[i].of.outline = faces[i].outline
                                  /\ mesh[i].triangles \in {1, 2}
        BY <1>1, <1>3, <2>1, MeshedAnew
    <2> QED BY <2>2, Zenon DEF AreAsFine, AreTheirOwn, HaveTriangles
<1>6. meshed' = NotMeshed \/ meshed' = Succeeded(FALSE, faces, params, mesh)
    BY <1>1, Zenon
<1> HIDE DEF mesh
<1>7. ShownFits(Succeeded(FALSE, faces, params, mesh), kinds)
    <2>1. FALSE \in BOOLEAN
        BY Zenon
    <2> QED BY <1>3, <1>4, <1>5, <2>1, SuccessFits, Zenon
<1>8. ShownFits(meshed', kinds')
    BY <1>2, <1>6, <1>7, NothingIsShown
<1> QED BY <1>2, <1>3, <1>8, Zenon DEF MeshInv

(* What a call of tessellateIncremental() keeps of the cache fits it.       *)
LEMMA KeptCacheFits ==
    ASSUME MeshInv, NEW params \in ParamChoices
    PROVE  LET modes == IF ParamsMatch(params) THEN kinds ELSE {}
           IN  \A i \in DOMAIN KeptCache(params) : FitsCache(KeptCache(params)[i], params, modes)
<1>1. CASE ParamsMatch(params)
    <2>1. KeptCache(params) = meshCache
        BY <1>1, Zenon DEF KeptCache
    <2>2. cacheParams.linear = params.linear /\ cacheParams.normals = params.normals
        BY <1>1, Zenon DEF ParamsMatch
    <2>3. \A i \in DOMAIN meshCache : FitsCache(meshCache[i], cacheParams, kinds)
        BY DEF MeshInv
    <2>4. \A i \in DOMAIN meshCache : FitsCache(meshCache[i], params, kinds)
        BY <2>2, <2>3 DEF FitsCache
    <2> QED BY <1>1, <2>1, <2>4, Zenon
<1>2. CASE ~ParamsMatch(params)
    <2>1. KeptCache(params) = <<>>
        BY <1>2, Zenon DEF KeptCache
    <2> QED BY <1>2, <2>1, NothingIsCached, Zenon
<1> QED BY <1>1, <1>2

(* Fewer modes are asked less of: what fits more modes fits the cache.      *)
LEMMA FitsWithMode ==
    ASSUME NEW entry, NEW params, NEW modes, NEW mode, FitsCache(entry, params, modes)
    PROVE  FitsCache(entry, params, modes \cup {mode})
<1>1. modes \cup {mode} \subseteq {"absolute"} => modes \subseteq {"absolute"}
    BY Zenon
<1> QED BY <1>1, Zenon DEF FitsCache

LEMMA IncrementFits ==
    ASSUME MeshInv, NEW params \in ParamChoices, TessellateIncremental(params)
    PROVE  MeshInv'
<1> DEFINE cache == KeptCache(params)
           kept  == IF ParamsMatch(params) THEN kinds ELSE {}
           modes == kept \cup {params.mode}
<1>1. PICK faces \in Triangulated(body.faces, Deflection(body.faces, params)) :
        LET mesh == [i \in DOMAIN faces |-> FaceMesh(cache, faces, i, params)]
        IN  /\ body' = [body EXCEPT !.faces = faces]
            /\ meshCache' = [i \in DOMAIN faces \cup DOMAIN cache |->
                               IF i \in DOMAIN faces THEN mesh[i] ELSE cache[i]]
            /\ meshed' = Succeeded(TRUE, faces, params, mesh)
    BY Zenon DEF TessellateIncremental
<1> DEFINE mesh == [i \in DOMAIN faces |-> FaceMesh(cache, faces, i, params)]
<1>2. /\ kinds' = modes
      /\ cacheParams' = IF ParamsMatch(params) THEN cacheParams ELSE params
    BY Zenon DEF TessellateIncremental
<1>3. /\ body.faces \in Seq(MeshFaces) /\ faces \in Seq(MeshFaces)
      /\ body' \in [null : BOOLEAN, faces : Seq(MeshFaces)]
    BY <1>1, TriangulatedBody
<1>4. \A i \in DOMAIN cache : FitsCache(cache[i], params, kept)
    BY KeptCacheFits, Zenon
<1>5. mesh = [i \in DOMAIN faces |-> mesh[i]]
    BY Zenon
<1>6. /\ \A i \in DOMAIN faces : mesh[i] = FaceMesh(cache, faces, i, params)
      /\ meshCache' = [i \in DOMAIN faces \cup DOMAIN cache |->
                         IF i \in DOMAIN faces THEN mesh[i] ELSE cache[i]]
      /\ meshed' = Succeeded(TRUE, faces, params, mesh)
    BY <1>1, Zenon
<1> HIDE DEF mesh, cache, kept
\* The parameters of the cache are those of the call but for the mode.
<1>7. /\ cacheParams' \in ParamChoices
      /\ cacheParams'.linear = params.linear /\ cacheParams'.normals = params.normals
    <2>1. CASE ParamsMatch(params)
        BY <1>2, <2>1 DEF ParamsMatch, MeshInv
    <2>2. CASE ~ParamsMatch(params)
        BY <1>2, <2>2
    <2> QED BY <2>1, <2>2
<1>8. modes \subseteq {"absolute"} => params.mode = "absolute" /\ modes = {"absolute"}
    BY Zenon
<1>9. ASSUME NEW i \in DOMAIN faces
      PROVE  FitsCache(mesh[i], params, modes) /\ mesh[i].of.outline = faces[i].outline
    <2>1. CASE i \in DOMAIN cache /\ cache[i].print = Fingerprint(faces[i])
        <3>1. mesh[i] = cache[i]
            BY <1>6, <2>1, Zenon DEF FaceMesh
        <3>2. FitsCache(cache[i], params, modes)
            BY <1>4, <2>1, FitsWithMode
        <3>3. cache[i].of.outline = faces[i].outline
            BY <2>1, <3>2 DEF FitsCache, Fingerprint
        <3> QED BY <3>1, <3>2, <3>3
    <2>2. CASE ~(i \in DOMAIN cache /\ cache[i].print = Fingerprint(faces[i]))
        <3>1. mesh[i] = TessellateSingleFace(faces[i], params)
            BY <1>6, <2>2, Zenon DEF FaceMesh
        <3>2. /\ mesh[i].print = Fingerprint(mesh[i].of)
              /\ mesh[i].normals = params.normals
              /\ params.mode = "absolute" => mesh[i].of.fine <= params.linear
              /\ mesh[i].of.outline = faces[i].outline
              /\ mesh[i].triangles \in {1, 2}
            BY <1>3, <3>1, MeshedAnew
        <3> QED BY <1>8, <3>2, Zenon DEF FitsCache
    <2> QED BY <2>1, <2>2, Zenon
<1>10. \A i \in DOMAIN meshCache' : FitsCache(meshCache'[i], cacheParams', kinds')
    <2>1. ASSUME NEW i \in DOMAIN faces \cup DOMAIN cache
          PROVE  FitsCache(meshCache'[i], params, modes)
        <3>1. CASE i \in DOMAIN faces
            BY <1>6, <1>9, <3>1
        <3>2. CASE i \notin DOMAIN faces
            <4>1. i \in DOMAIN cache /\ meshCache'[i] = cache[i]
                BY <1>6, <2>1, <3>2, Zenon
            <4> QED BY <1>4, <4>1, FitsWithMode
        <3> QED BY <3>1, <3>2
    <2>2. DOMAIN meshCache' = DOMAIN faces \cup DOMAIN cache
        BY <1>6
    <2>3. \A i \in DOMAIN meshCache' : FitsCache(meshCache'[i], params, modes)
        BY <2>1, <2>2, Zenon
    <2> QED BY <1>2, <1>7, <2>3, Zenon DEF FitsCache
<1>11. modes # {"absolute"} \/ AreAsFine(mesh, faces, params)
    <2> SUFFICES ASSUME modes = {"absolute"}, NEW i \in DOMAIN faces
                 PROVE  /\ mesh[i].of.fine <= Deflection(faces, params)
                        /\ mesh[i].normals = params.normals
        BY Zenon DEF AreAsFine
    <2>1. params.mode = "absolute"
        BY <1>8, Zenon
    <2>2. Deflection(faces, params) = params.linear
        BY <2>1, Zenon DEF Deflection
    <2> QED BY <1>9, <2>2, Zenon DEF FitsCache
<1>12. ShownFits(meshed', kinds')
    <2>1. TRUE \in BOOLEAN /\ ((TRUE = TRUE /\ modes # {"absolute"}) \/ AreAsFine(mesh, faces, params))
        BY <1>11, Zenon
    <2>2. AreTheirOwn(mesh, faces) /\ HaveTriangles(mesh, faces)
        BY <1>9, Zenon DEF AreTheirOwn, HaveTriangles, FitsCache
    <2> HIDE DEF modes
    <2>3. ShownFits(Succeeded(TRUE, faces, params, mesh), modes)
        BY <1>3, <1>5, <2>1, <2>2, SuccessFits, Zenon
    <2> QED BY <1>2, <1>6, <2>3, Zenon
<1> QED BY <1>3, <1>7, <1>10, <1>12, Zenon DEF MeshInv

LEMMA FailedIncrementFits ==
    ASSUME MeshInv, NEW params \in ParamChoices, TessellateIncrementalFails(params)
    PROVE  MeshInv'
<1>1. /\ meshed' = NotMeshed /\ body' = body /\ meshCache' = KeptCache(params)
      /\ cacheParams' = IF ParamsMatch(params) THEN cacheParams ELSE params
      /\ kinds' = IF ParamsMatch(params) THEN kinds ELSE {}
    BY DEF TessellateIncrementalFails
<1>2. ShownFits(meshed', kinds')
    BY <1>1, NothingIsShown
<1>3. /\ cacheParams' \in ParamChoices
      /\ cacheParams'.linear = params.linear /\ cacheParams'.normals = params.normals
    <2>1. CASE ParamsMatch(params)
        BY <1>1, <2>1 DEF ParamsMatch, MeshInv
    <2>2. CASE ~ParamsMatch(params)
        BY <1>1, <2>2
    <2> QED BY <2>1, <2>2
<1>4. \A i \in DOMAIN meshCache' : FitsCache(meshCache'[i], params, kinds')
    BY <1>1, KeptCacheFits, Zenon
<1>5. \A i \in DOMAIN meshCache' : FitsCache(meshCache'[i], cacheParams', kinds')
    BY <1>3, <1>4, Zenon DEF FitsCache
<1> QED BY <1>1, <1>2, <1>3, <1>5, Zenon DEF MeshInv

LEMMA InvalidatedFits ==
    ASSUME MeshInv, InvalidateFace \/ InvalidateAll
    PROVE  MeshInv'
<1>1. CASE InvalidateFace
    <2>1. PICK i \in DOMAIN meshCache :
            meshCache' = [k \in DOMAIN meshCache \ {i} |-> meshCache[k]]
        BY <1>1, Zenon DEF InvalidateFace
    <2>2. body' = body /\ cacheParams' = cacheParams /\ meshed' = meshed /\ kinds' = kinds
        BY <1>1 DEF InvalidateFace
    <2>3. \A k \in DOMAIN meshCache' : k \in DOMAIN meshCache /\ meshCache'[k] = meshCache[k]
        BY <2>1
    <2> QED BY <2>2, <2>3, Zenon DEF MeshInv
<1>2. CASE InvalidateAll
    <2>1. /\ meshCache' = <<>> /\ kinds' = {}
          /\ body' = body /\ cacheParams' = cacheParams /\ meshed' = meshed
        BY <1>2 DEF InvalidateAll
    <2>2. \A i \in DOMAIN meshCache' : FitsCache(meshCache'[i], cacheParams', kinds')
        BY <2>1, NothingIsCached, Zenon
    <2>3. ShownFits(meshed, {})
        <3>1. {} # {"absolute"}
            OBVIOUS
        <3>2. ShownFits(meshed, kinds)
            BY DEF MeshInv
        <3> QED BY <3>1, <3>2, Zenon DEF ShownFits
    <2> QED BY <2>1, <2>2, <2>3, Zenon DEF MeshInv
<1> QED BY <1>1, <1>2

LEMMA MeshInvInductive ==
    ASSUME MeshInv, [MeshNext]_meshVars
    PROVE  MeshInv'
<1>1. CASE EditBody
    BY <1>1, EditedBodyFits
<1>2. CASE TessellateFails
    BY <1>2, FailedCallFits
<1>3. CASE \E params \in ParamChoices : Tessellate(params)
    BY <1>3, TessellatedFits
<1>4. CASE \E params \in ParamChoices : TessellateIncremental(params)
    BY <1>4, IncrementFits
<1>5. CASE \E params \in ParamChoices : TessellateIncrementalFails(params)
    BY <1>5, FailedIncrementFits
<1>6. CASE InvalidateFace \/ InvalidateAll
    BY <1>6, InvalidatedFits
<1>7. CASE UNCHANGED meshVars
    BY <1>7 DEF meshVars, MeshInv
<1> QED BY <1>1, <1>2, <1>3, <1>4, <1>5, <1>6, <1>7, Zenon DEF MeshNext

LEMMA ShownBuffers == MeshInv => BuffersShowTheFaces
<1> SUFFICES ASSUME MeshInv PROVE BuffersShowTheFaces
    OBVIOUS
<1>1. meshed.ok => ShowsFaces(meshed.mesh) /\ meshed.edges \in Seq(MeshEdges)
    BY Zenon DEF MeshInv, ShownFits
<1>2. PicksTheFace
    <2> SUFFICES ASSUME meshed.ok, Counts(meshed.mesh)
                 PROVE  /\ \A t \in MeshTriangles(meshed.mesh) : \A k \in 1..3 :
                              Vertex(meshed.mesh, 3 * t + k)[2] = FaceIdForTriangle(meshed.mesh, t)
                        /\ \A t \in 0..((IndexSpace - 1) \div 3) \ MeshTriangles(meshed.mesh) :
                              FaceIdForTriangle(meshed.mesh, t) = -1
        BY Zenon DEF PicksTheFace
    <2> QED BY <1>1, FaceOfTriangle, NoFaceBehind, Zenon
<1>3. GlbShowsMesh
    <2> SUFFICES ASSUME meshed.ok, Counts(meshed.mesh),
                        NEW perFace \in BOOLEAN, NEW includeEdges \in BOOLEAN
                 PROVE  DocumentShows(ExportGlb(meshed.mesh, meshed.edges, perFace, includeEdges),
                                      meshed.mesh, includeEdges)
        BY Zenon DEF GlbShowsMesh, DocumentShows
    <2> QED BY <1>1, DocumentShowsMesh
<1> QED BY <1>2, <1>3, Zenon DEF BuffersShowTheFaces

(* What a mesh shows fits the body it is asked of, as fine as it is asked   *)
(* and each face with the mesh of its own outline, however often features   *)
(* renumber the faces between calls that share a cache and whatever entries  *)
(* are invalidated (tessellateIncremental, MeshCache).                      *)
THEOREM CachedFacesAlwaysFit == MeshSpec => []CachedFacesFit
<1>1. MeshInit => MeshInv
    BY MeshInitFits
<1>2. MeshInv /\ [MeshNext]_meshVars => MeshInv'
    BY MeshInvInductive
<1>3. MeshInv => CachedFacesFit
    <2> SUFFICES ASSUME MeshInv PROVE CachedFacesFit
        OBVIOUS
    <2>1. /\ \A i \in DOMAIN meshCache : FitsCache(meshCache[i], cacheParams, kinds)
          /\ ShownFits(meshed, kinds)
        BY DEF MeshInv
    <2>2. MeshTypeOK
        BY <2>1, Zenon DEF MeshTypeOK, FitsCache, ShownFits
    <2>3. AsFineAsAsked
        BY <2>1, Zenon DEF AsFineAsAsked, ShownFits
    <2>4. RenumberedFacesTold
        BY <2>1, Zenon DEF RenumberedFacesTold, ShownFits
    <2> QED BY <2>2, <2>3, <2>4, Zenon DEF CachedFacesFit
<1> QED BY <1>1, <1>2, <1>3, PTL DEF MeshSpec

(* The buffers of a mesh show its faces: the face that is found for a picked *)
(* triangle is the one its vertices were made from, whichever faces failed   *)
(* before it, and a reader of the GLB document that follows its offsets finds *)
(* each face under its own primitive and material and each edge in its strip, *)
(* for meshes of every size that can be counted (assembleMeshFromFaces,      *)
(* faceIdForTriangle, exportGLB).                                          *)
THEOREM BuffersAlwaysShowTheFaces == MeshSpec => []BuffersShowTheFaces
<1>1. MeshInit => MeshInv
    BY MeshInitFits
<1>2. MeshInv /\ [MeshNext]_meshVars => MeshInv'
    BY MeshInvInductive
<1>3. MeshInv => BuffersShowTheFaces
    BY ShownBuffers
<1> QED BY <1>1, <1>2, <1>3, PTL DEF MeshSpec

-----------------------------------------------------------------------------
(* The element map: texts, and positions in them. *)

LEMMA TextOf ==
    ASSUME NEW S, NEW name \in Seq(S)
    PROVE  IsText(name)
<1>1. name = [p \in 1..Len(name) |-> name[p]] /\ Len(name) \in Nat
    OBVIOUS
<1>2. \A p \in 1..Len(name) : name[p] \in ToSet(name)
    BY DEF ToSet
<1> QED BY <1>1, <1>2 DEF IsText

LEMMA GreatestExists ==
    ASSUME NEW n \in Nat, NEW S \in SUBSET (1..n), S # {}
    PROVE  \E p \in S : \A q \in S : q <= p
<1> DEFINE T == {n - p : p \in S}
<1>1. T \in SUBSET Nat /\ T # {}
    <2>1. ASSUME NEW p \in S PROVE n - p \in Nat
        <3>1. p \in 1..n
            OBVIOUS
        <3> QED BY <3>1
    <2>2. PICK p : p \in S
        OBVIOUS
    <2>3. n - p \in T
        BY <2>2, Zenon
    <2> QED BY <2>1, <2>3
<1>2. PICK x \in T : \A y \in T : x <= y
    <2> HIDE DEF T
    <2> QED BY <1>1, LeastExists
<1>3. PICK p \in S : x = n - p
    OBVIOUS
<1>4. ASSUME NEW q \in S PROVE q <= p
    <2>1. n - p <= n - q
        BY <1>2, <1>3
    <2>2. n \in Nat /\ p \in 1..n /\ q \in 1..n
        OBVIOUS
    <2> HIDE DEF T
    <2> QED BY <2>1, <2>2
<1> QED BY <1>4

Ranked(S, k, p) == p \in S /\ Cardinality({q \in S : q > p}) = k - 1

(* Of finitely many positions there is one with k - 1 to its right.         *)
LEMMA RankedExists ==
    ASSUME NEW n \in Nat, NEW S \in SUBSET (1..n), NEW k \in 1..Cardinality(S)
    PROVE  \E p : Ranked(S, k, p)
<1>1. IsFiniteSet(1..n)
    BY FS_Interval
<1>2. IsFiniteSet(S) /\ Cardinality(S) \in Nat
    BY <1>1, FS_Subset, FS_CardinalityType
<1>3. PICK top \in Nat : top = Cardinality(S)
    BY <1>2
<1> DEFINE T == {i \in 0..top : i = 0 \/ \E p : Ranked(S, i, p)}
<1>4. 0 \in T
    OBVIOUS
<1>5. ASSUME NEW i \in 1..top, i - 1 \in T PROVE i \in T
    <2>1. CASE i = 1
        <3>1. S # {}
            BY <1>3, <2>1, FS_EmptySet
        <3>2. PICK p \in S : \A q \in S : q <= p
            BY <3>1, GreatestExists
        <3>3. {q \in S : q > p} = {}
            <4>1. ASSUME NEW q \in S PROVE ~(q > p)
                <5>1. q \in 1..n /\ p \in 1..n /\ q <= p
                    BY <3>2
                <5> QED BY <5>1
            <4> QED BY <4>1
        <3>4. Cardinality({q \in S : q > p}) = 0
            BY <3>3, FS_EmptySet
        <3>5. Ranked(S, i, p)
            BY <2>1, <3>4 DEF Ranked
        <3> QED BY <3>5
    <2>2. CASE i # 1
        <3>1. PICK p : Ranked(S, i - 1, p)
            BY <1>5, <2>2
        <3> DEFINE after == {q \in S : q > p}
                   below == {q \in S : q < p}
        <3>2. /\ p \in S /\ Cardinality(after) = (i - 1) - 1
            BY <3>1 DEF Ranked
        <3>3. IsFiniteSet(after)
            <4>1. after \subseteq S
                OBVIOUS
            <4> QED BY <1>2, <4>1, FS_Subset
        <3>4. p \notin after
            <4>1. p \in 1..n
                BY <3>2
            <4> QED BY <4>1
        <3>5. Cardinality(after \cup {p}) = i - 1
            BY <3>2, <3>3, <3>4, FS_AddElement
        <3>6. below # {}
            <4>1. SUFFICES ASSUME below = {} PROVE FALSE
                OBVIOUS
            <4>2. S \subseteq after \cup {p}
                <5>1. ASSUME NEW q \in S PROVE q > p \/ q = p
                    <6>1. q \in 1..n /\ p \in 1..n /\ ~(q < p)
                        BY <3>2, <4>1
                    <6> QED BY <6>1
                <5> QED BY <5>1
            <4>3. S = after \cup {p}
                BY <3>2, <4>2
            <4> HIDE DEF after
            <4> QED BY <1>3, <3>5, <4>3
        <3>7. PICK m \in below : \A q \in below : q <= m
            <4>1. below \in SUBSET (1..n)
                OBVIOUS
            <4> HIDE DEF below
            <4> QED BY <3>6, <4>1, GreatestExists
        <3>8. m \in S /\ m < p
            OBVIOUS
        <3>9. {q \in S : q > m} = after \cup {p}
            <4>1. ASSUME NEW q \in S PROVE q > m <=> (q > p \/ q = p)
                <5>1. q \in Nat /\ p \in Nat /\ m \in Nat
                    BY <3>2, <3>8
                <5>2. q < p => q <= m
                    BY <3>7
                <5> HIDE DEF below
                <5> QED BY <3>8, <5>1, <5>2
            <4> QED BY <3>2, <4>1
        <3>10. Ranked(S, i, m)
            <4> HIDE DEF after
            <4> QED BY <3>5, <3>8, <3>9, Zenon DEF Ranked
        <3> QED BY <3>10
    <2> QED BY <2>1, <2>2
<1>6. 0..top \subseteq T
    <2> HIDE DEF T
    <2> QED BY <1>4, <1>5, UpTo
<1>7. k \in T
    BY <1>3, <1>6
<1>8. k # 0
    OBVIOUS
<1> QED BY <1>7, <1>8

-----------------------------------------------------------------------------
(* The name an element gets when it comes in with an operation.             *)

LEMMA EncodedName ==
    ASSUME NEW name, IsText(name), NEW id, NEW postfix,
           NEW named, named = EncodeElementName(name, id, postfix)
    PROVE  /\ Len(name) \in Nat /\ DOMAIN name = 1..Len(name)
           /\ IsText(named) /\ named # <<>>
           /\ Len(named) = Len(name) + 2 /\ DOMAIN named = 1..(Len(name) + 2)
           /\ \A p \in 1..Len(name) : named[p] = name[p]
           /\ named[Len(name) + 1] = <<"P", id.documentId, id.counter>>
           /\ named[Len(name) + 2] = <<postfix>>
           /\ SubSeq(named, 1, Len(name)) = name
<1>1. PICK a, b : a = <<"P", id.documentId, id.counter>> /\ b = <<postfix>>
    BY Zenon
<1>2. PICK S : S = ToSet(name) \cup {a, b}
    BY Zenon
<1>3. name \in Seq(S) /\ <<a, b>> \in Seq(S) /\ Len(name) \in Nat /\ DOMAIN name = 1..Len(name)
    <2>1. name \in Seq(ToSet(name))
        BY DEF IsText
    <2>2. name = [p \in 1..Len(name) |-> name[p]] /\ Len(name) \in Nat /\ DOMAIN name = 1..Len(name)
        BY <2>1
    <2>3. \A p \in 1..Len(name) : name[p] \in S
        BY <1>2, <2>1
    <2>4. name \in Seq(S)
        BY <2>2, <2>3
    <2>5. a \in S /\ b \in S
        BY <1>2
    <2>6. <<a, b>> \in Seq(S)
        BY <2>5
    <2> QED BY <2>2, <2>4, <2>6
<1>4. named = name \o <<a, b>>
    BY <1>1, Zenon DEF EncodeElementName
<1>5. Len(<<a, b>>) = 2 /\ <<a, b>>[1] = a /\ <<a, b>>[2] = b
    OBVIOUS
<1>6. named \in Seq(S) /\ Len(named) = Len(name) + 2
    BY <1>3, <1>4, <1>5
<1>7. \A p \in 1..Len(name) : named[p] = name[p]
    BY <1>3, <1>4
<1>8. named[Len(name) + 1] = a /\ named[Len(name) + 2] = b
    BY <1>3, <1>4, <1>5
<1>9. SubSeq(named, 1, Len(name)) = name
    BY <1>3, <1>6, <1>7
<1>10. named # <<>> /\ DOMAIN named = 1..(Len(name) + 2)
    BY <1>3, <1>6
<1>11. IsText(named)
    BY <1>6, TextOf
<1> QED BY <1>1, <1>3, <1>6, <1>7, <1>8, <1>9, <1>10, <1>11

\* What an operation's name adds to the name of the element it comes from.
IsChildName(named, name, id) ==
    /\ IsText(name) /\ named = EncodeElementName(name, id, "C")
    /\ id \in ShapeIdentities /\ id.counter # 0

LEMMA MarkersOfChild ==
    ASSUME NEW name, NEW id, NEW named, IsChildName(named, name, id)
    PROVE  /\ Marker(name) \subseteq 1..Len(name)
           /\ Marker(named) = Marker(name) \cup {Len(name) + 1}
           /\ Len(name) + 1 \notin Marker(name)
<1>1. /\ Len(name) \in Nat /\ DOMAIN name = 1..Len(name)
      /\ DOMAIN named = 1..(Len(name) + 2)
      /\ \A p \in 1..Len(name) : named[p] = name[p]
      /\ named[Len(name) + 1] = <<"P", id.documentId, id.counter>>
      /\ named[Len(name) + 2] = <<"C">>
    BY EncodedName DEF IsChildName
<1>2. Code(named, Len(name) + 1) = "P" /\ Code(named, Len(name) + 2) = "C"
    BY <1>1 DEF Code
<1>3. \A p \in 1..Len(name) : Code(named, p) = Code(name, p)
    BY <1>1 DEF Code
<1>4. PICK l \in Nat : l = Len(name)
    BY <1>1
<1>5. 1..(l + 2) = (1..l) \cup {l + 1, l + 2} /\ l + 1 \notin 1..l /\ l + 2 \notin 1..l
    OBVIOUS
<1>6. Marker(name) = {p \in 1..l : Code(name, p) \in {"P", "Plin", "H"}}
    BY <1>1, <1>4, Zenon DEF Marker
<1>7. Marker(named) = {p \in 1..(l + 2) : Code(named, p) \in {"P", "Plin", "H"}}
    BY <1>1, <1>4, Zenon DEF Marker
<1> QED BY <1>2, <1>3, <1>4, <1>5, <1>6, <1>7

LEMMA DocumentOfChild ==
    ASSUME NEW name, NEW id, NEW named, IsChildName(named, name, id)
    PROVE  ExtractDocumentId(named) = ExtractDocumentId(name)
<1>1. /\ Len(name) \in Nat /\ DOMAIN name = 1..Len(name)
      /\ DOMAIN named = 1..(Len(name) + 2)
      /\ \A p \in 1..Len(name) : named[p] = name[p]
      /\ named[Len(name) + 1] = <<"P", id.documentId, id.counter>>
      /\ named[Len(name) + 2] = <<"C">>
    BY EncodedName DEF IsChildName
<1>2. Code(named, Len(name) + 1) = "P" /\ Code(named, Len(name) + 2) = "C"
    BY <1>1 DEF Code
<1>3. \A p \in 1..Len(name) : Code(named, p) = Code(name, p)
    BY <1>1 DEF Code
<1>4. PICK l \in Nat : l = Len(name)
    BY <1>1
<1> DEFINE at(text) == {p \in DOMAIN text : Code(text, p) = "Q"}
           last(S) == CHOOSE p \in S : \A q \in S : q <= p
<1>5. at(named) = at(name) /\ at(name) \in SUBSET (1..l)
    <2>1. 1..(l + 2) = (1..l) \cup {l + 1, l + 2}
        OBVIOUS
    <2> QED BY <1>1, <1>2, <1>3, <1>4, <2>1
<1>6. /\ ExtractDocumentId(named) = IF at(named) = {} THEN 0 ELSE named[last(at(named))][2]
      /\ ExtractDocumentId(name) = IF at(name) = {} THEN 0 ELSE name[last(at(name))][2]
    BY Zenon DEF ExtractDocumentId
<1> HIDE DEF at
<1>7. CASE at(name) = {}
    BY <1>5, <1>6, <1>7
<1>8. CASE at(name) # {}
    <2>1. \E p \in at(name) : \A q \in at(name) : q <= p
        BY <1>5, <1>8, GreatestExists
    <2>2. last(at(name)) \in at(name)
        BY <2>1, Zenon
    <2> HIDE DEF last
    <2>3. last(at(name)) \in 1..Len(name)
        BY <1>4, <1>5, <2>2
    <2> QED BY <1>1, <1>5, <1>6, <1>8, <2>3
<1> QED BY <1>7, <1>8

(* What the older markers of a name say is what they said.                  *)
LEMMA MarkersKeepTheirSense ==
    ASSUME NEW name, NEW id, NEW named, IsChildName(named, name, id), NEW p \in Marker(name)
    PROVE  /\ p \in 1..Len(name) /\ Len(name) \in Nat
           /\ Code(named, p) = Code(name, p)
           /\ Malformed(named, p) <=> Malformed(name, p)
           /\ IdentityAt(named, p) = IdentityAt(name, p)
           /\ OperationAt(named, p) = OperationAt(name, p)
           /\ SubSeq(named, 1, p - 1) = SubSeq(name, 1, p - 1)
<1>1. /\ Len(name) \in Nat /\ DOMAIN name = 1..Len(name)
      /\ IsText(named) /\ Len(named) = Len(name) + 2
      /\ \A q \in 1..Len(name) : named[q] = name[q]
      /\ named[Len(name) + 1] = <<"P", id.documentId, id.counter>>
    BY EncodedName DEF IsChildName
<1>2. p \in 1..Len(name) /\ named[p] = name[p]
    BY <1>1, MarkersOfChild
<1>3. Code(named, p) = Code(name, p)
    BY <1>2, Zenon DEF Code
<1>4. ExtractDocumentId(named) = ExtractDocumentId(name)
    BY DocumentOfChild
<1>5. Malformed(named, p) <=> Malformed(name, p)
    BY <1>2, <1>3, <1>4, Zenon DEF Malformed
<1>6. IdentityAt(named, p) = IdentityAt(name, p)
    BY <1>2, <1>3, <1>4, Zenon DEF IdentityAt
<1>7. OperationAt(named, p) = OperationAt(name, p)
    <2>1. p # Len(named)
        BY <1>1, <1>2
    <2>2. CASE p = Len(name)
        <3>1. Code(named, p + 1) = "P"
            BY <1>1, <2>2 DEF Code
        <3>2. OperationAt(named, p) = "Unknown"
            BY <2>1, <3>1 DEF OperationAt
        <3>3. OperationAt(name, p) = "Unknown"
            BY <2>2, Zenon DEF OperationAt
        <3> QED BY <3>2, <3>3
    <2>3. CASE p # Len(name)
        <3>1. p + 1 \in 1..Len(name)
            <4>1. PICK l \in Nat : l = Len(name)
                BY <1>1
            <4>2. p \in 1..l /\ p # l
                BY <1>2, <2>3, <4>1
            <4>3. p + 1 \in 1..l
                BY <4>2
            <4> QED BY <4>1, <4>3
        <3>2. Code(named, p + 1) = Code(name, p + 1)
            BY <1>1, <3>1, Zenon DEF Code
        <3>3. PICK code : code = Code(name, p + 1)
            BY Zenon
        <3>4. OperationAt(named, p) =
                CASE code \in {"M", "MG"} -> "Modified" [] code = "G" -> "Generated"
                  [] code = "C" -> "Child" [] OTHER -> "Unknown"
            BY <2>1, <3>2, <3>3, Zenon DEF OperationAt
        <3>5. OperationAt(name, p) =
                CASE code \in {"M", "MG"} -> "Modified" [] code = "G" -> "Generated"
                  [] code = "C" -> "Child" [] OTHER -> "Unknown"
            BY <2>3, <3>3, Zenon DEF OperationAt
        <3> QED BY <3>4, <3>5, Zenon
    <2> QED BY <2>2, <2>3
<1>8. SubSeq(named, 1, p - 1) = SubSeq(name, 1, p - 1)
    <2>1. SubSeq(named, 1, p - 1) = [q \in 1..(p - 1) |-> named[q]]
        BY <1>1, <1>2 DEF IsText
    <2>2. SubSeq(name, 1, p - 1) = [q \in 1..(p - 1) |-> name[q]]
        BY <1>1, <1>2 DEF IsText, IsChildName
    <2>3. \A q \in 1..(p - 1) : named[q] = name[q]
        BY <1>1, <1>2
    <2> QED BY <2>1, <2>2, <2>3
<1> QED BY <1>1, <1>2, <1>3, <1>5, <1>6, <1>7, <1>8

LEMMA IdentityOfChild ==
    ASSUME NEW name, NEW id, NEW named, IsChildName(named, name, id)
    PROVE  /\ ExtractShapeIdentity(named) = id /\ id # Identity(0, 0)
           /\ ~Malformed(named, Len(name) + 1) /\ IdentityAt(named, Len(name) + 1) = id
           /\ OperationAt(named, Len(name) + 1) = "Child"
           /\ SubSeq(named, 1, (Len(name) + 1) - 1) = name
<1>1. PICK d, c \in UInt64 : c # 0 /\ id = Identity(d, c)
    BY DEF IsChildName, ShapeIdentities, Identity
<1>2. id.documentId = d /\ id.counter = c /\ id # Identity(0, 0)
    BY <1>1 DEF Identity
<1>3. PICK l \in Nat : l = Len(name)
    BY EncodedName DEF IsChildName
<1>4. /\ Len(named) = l + 2 /\ named[l + 1] = <<"P", d, c>> /\ named[l + 2] = <<"C">>
      /\ SubSeq(named, 1, l) = name
    BY <1>2, <1>3, EncodedName DEF IsChildName
<1>5. Code(named, l + 1) = "P" /\ Code(named, l + 2) = "C"
    BY <1>4 DEF Code
<1>6. ~Malformed(named, l + 1)
    BY <1>5, Zenon DEF Malformed
<1>7. IdentityAt(named, l + 1) = id
    <2>1. named[l + 1][2] = d /\ named[l + 1][3] = c
        BY <1>4
    <2> QED BY <1>1, <1>5, <2>1, Zenon DEF IdentityAt
<1>8. OperationAt(named, l + 1) = "Child"
    <2>1. l + 1 # Len(named) /\ (l + 1) + 1 = l + 2
        BY <1>4
    <2>2. OperationAt(named, l + 1) =
            CASE "C" \in {"M", "MG"} -> "Modified" [] "C" = "G" -> "Generated"
              [] "C" = "C" -> "Child" [] OTHER -> "Unknown"
        BY <1>5, <2>1, Zenon DEF OperationAt
    <2> QED BY <2>2
<1>9. ExtractShapeIdentity(named) = id
    <2> DEFINE p == CHOOSE p \in Marker(named) : \A q \in Marker(named) : q <= p
    <2>1. Marker(name) \subseteq 1..l /\ Marker(named) = Marker(name) \cup {l + 1}
        BY <1>3, MarkersOfChild
    <2>2. l + 1 \in Marker(named) /\ \A q \in Marker(named) : q <= l + 1
        BY <2>1
    <2>3. p \in Marker(named) /\ \A q \in Marker(named) : q <= p
        BY <2>2, Zenon
    <2>4. p = l + 1
        <3> HIDE DEF p
        <3>1. p <= l + 1 /\ l + 1 <= p /\ p \in Nat
            BY <2>1, <2>2, <2>3
        <3> QED BY <3>1
    <2>5. Marker(named) # {}
        BY <2>2
    <2> QED BY <1>6, <1>7, <2>4, <2>5, Zenon DEF ExtractShapeIdentity
<1>10. (l + 1) - 1 = l
    OBVIOUS
<1> QED BY <1>2, <1>3, <1>4, <1>6, <1>7, <1>8, <1>9, <1>10

LEMMA BaseNameOfChild ==
    ASSUME NEW name, NEW id, NEW named, IsChildName(named, name, id)
    PROVE  ExtractBaseName(named) = ExtractBaseName(name)
<1> DEFINE Codes == {"P", "H", "Q", "M", "G", "MG", "C", "Plin"}
           cut(text) == {p \in DOMAIN text : Code(text, p) \in Codes}
           first(S) == CHOOSE p \in S : \A q \in S : p <= q
<1>1. PICK l \in Nat : l = Len(name)
    BY EncodedName DEF IsChildName
<1>2. /\ DOMAIN name = 1..l /\ DOMAIN named = 1..(l + 2) /\ Len(named) = l + 2
      /\ \A p \in 1..l : named[p] = name[p]
      /\ named[l + 1] = <<"P", id.documentId, id.counter>> /\ named[l + 2] = <<"C">>
      /\ SubSeq(named, 1, l) = name /\ IsText(name) /\ IsText(named)
    BY <1>1, EncodedName DEF IsChildName
<1>3. Code(named, l + 1) = "P" /\ Code(named, l + 2) = "C"
    BY <1>2 DEF Code
<1>4. \A p \in 1..l : Code(named, p) = Code(name, p)
    BY <1>2 DEF Code
<1>5. cut(name) \in SUBSET (1..l) /\ cut(named) = cut(name) \cup {l + 1, l + 2}
    <2>1. 1..(l + 2) = (1..l) \cup {l + 1, l + 2} /\ l + 1 \notin 1..l /\ l + 2 \notin 1..l
        OBVIOUS
    <2> QED BY <1>2, <1>3, <1>4, <2>1
<1>6. /\ ExtractBaseName(name) =
            IF cut(name) = {} THEN name ELSE SubSeq(name, 1, first(cut(name)) - 1)
      /\ ExtractBaseName(named) =
            IF cut(named) = {} THEN named ELSE SubSeq(named, 1, first(cut(named)) - 1)
    BY Zenon DEF ExtractBaseName
<1> HIDE DEF cut
<1>7. ASSUME NEW m \in cut(named), \A q \in cut(named) : m <= q
      PROVE  ExtractBaseName(named) = SubSeq(named, 1, m - 1)
    <2>1. first(cut(named)) \in cut(named) /\ \A q \in cut(named) : first(cut(named)) <= q
        BY <1>7, Zenon
    <2> HIDE DEF first
    <2>2. first(cut(named)) <= m /\ m <= first(cut(named)) /\ first(cut(named)) \in Nat /\ m \in Nat
        BY <1>5, <1>7, <2>1
    <2>3. first(cut(named)) = m
        BY <2>2
    <2>4. cut(named) # {}
        BY <1>7
    <2> QED BY <1>6, <2>3, <2>4
<1>8. CASE cut(name) = {}
    <2>1. l + 1 \in cut(named) /\ \A q \in cut(named) : l + 1 <= q
        BY <1>5, <1>8
    <2>2. ExtractBaseName(named) = SubSeq(named, 1, (l + 1) - 1)
        BY <1>7, <2>1
    <2>3. (l + 1) - 1 = l
        OBVIOUS
    <2> QED BY <1>2, <1>6, <1>8, <2>2, <2>3
<1>9. CASE cut(name) # {}
    <2>1. \E p \in cut(name) : \A q \in cut(name) : p <= q
        <3>1. cut(name) \in SUBSET Nat
            BY <1>5
        <3> QED BY <1>9, <3>1, LeastExists
    <2>2. first(cut(name)) \in cut(name) /\ \A q \in cut(name) : first(cut(name)) <= q
        BY <2>1, Zenon
    <2>3. PICK m \in 1..l : /\ m = first(cut(name))
                            /\ m \in cut(named) /\ \A q \in cut(named) : m <= q
        <3> HIDE DEF first
        <3> QED BY <1>5, <2>2
    <2> HIDE DEF first
    <2>4. ExtractBaseName(named) = SubSeq(named, 1, m - 1)
        BY <1>7, <2>3
    <2>5. ExtractBaseName(name) = SubSeq(name, 1, m - 1)
        BY <1>6, <1>9, <2>3
    <2>6. SubSeq(named, 1, m - 1) = [q \in 1..(m - 1) |-> named[q]]
        BY <1>2 DEF IsText
    <2>7. SubSeq(name, 1, m - 1) = [q \in 1..(m - 1) |-> name[q]]
        BY <1>1, <1>2 DEF IsText
    <2>8. \A q \in 1..(m - 1) : named[q] = name[q]
        BY <1>2
    <2> QED BY <2>4, <2>5, <2>6, <2>7, <2>8
<1> QED BY <1>8, <1>9


-----------------------------------------------------------------------------
(* Histories. *)

BadAt(name, p) ==
    \/ Malformed(name, p)
    \/ Code(name, p) = "P" /\ IdentityAt(name, p) = Identity(0, 0)

Ranks(name)   == 1..Cardinality(Marker(name))
BadHops(name) == {k \in Ranks(name) : BadAt(name, KthNewest(name, k))}
HopsOf(name, depth) == {k \in Ranks(name) : k <= depth /\ \A b \in BadHops(name) : k < b}
HopAt(name, p) ==
    [name |-> SubSeq(name, 1, p - 1), id |-> IdentityAt(name, p), operation |-> OperationAt(name, p)]

LEMMA HistoryIs ==
    ASSUME NEW name, NEW depth
    PROVE  TraceHistory(name, depth) =
              [k \in HopsOf(name, depth) |-> HopAt(name, KthNewest(name, k))]
<1> DEFINE newest == [k \in 1..Cardinality(Marker(name)) |-> KthNewest(name, k)]
           bad    == {k \in DOMAIN newest :
                        \/ Malformed(name, newest[k])
                        \/ /\ Code(name, newest[k]) = "P"
                           /\ IdentityAt(name, newest[k]) = Identity(0, 0)}
           hops   == {k \in DOMAIN newest : k <= depth /\ \A b \in bad : k < b}
<1>1. TraceHistory(name, depth) =
        [k \in hops |->
            LET p == newest[k]
            IN  [name |-> SubSeq(name, 1, p - 1), id |-> IdentityAt(name, p),
                 operation |-> OperationAt(name, p)]]
    BY Zenon DEF TraceHistory
<1>2. DOMAIN newest = Ranks(name) /\ \A k \in Ranks(name) : newest[k] = KthNewest(name, k)
    BY Zenon DEF Ranks
<1> HIDE DEF newest
<1>3. bad = BadHops(name)
    <2>1. \A k \in Ranks(name) :
            BadAt(name, KthNewest(name, k)) <=>
                \/ Malformed(name, newest[k])
                \/ Code(name, newest[k]) = "P" /\ IdentityAt(name, newest[k]) = Identity(0, 0)
        BY <1>2, Zenon DEF BadAt
    <2>2. BadHops(name) = {k \in Ranks(name) : BadAt(name, KthNewest(name, k))}
        BY Zenon DEF BadHops
    <2> QED BY <1>2, <2>1, <2>2
<1> HIDE DEF bad
<1>4. hops = HopsOf(name, depth)
    BY <1>2, <1>3, Zenon DEF HopsOf
<1>5. \A k \in hops : newest[k] = KthNewest(name, k)
    BY <1>2
<1> HIDE DEF hops
<1> QED BY <1>1, <1>4, <1>5, Zenon DEF HopAt

LEMMA NewestIsMarker ==
    ASSUME NEW name, IsText(name), NEW k \in Ranks(name)
    PROVE  KthNewest(name, k) \in Marker(name)
<1>1. Len(name) \in Nat /\ DOMAIN name = 1..Len(name)
    BY DEF IsText
<1>2. Marker(name) \in SUBSET (1..Len(name))
    BY <1>1 DEF Marker
<1>3. \E p : Ranked(Marker(name), k, p)
    BY <1>1, <1>2, RankedExists DEF Ranks
<1> QED BY <1>3, Zenon DEF KthNewest, Ranked

(* What may be followed are the first so many hops.                         *)
LEMMA HopsAreFirst ==
    ASSUME NEW name, IsText(name), NEW depth \in Nat
    PROVE  \E n \in Nat : HopsOf(name, depth) = 1..n /\ n <= depth
<1>1. Len(name) \in Nat /\ DOMAIN name = 1..Len(name)
    BY DEF IsText
<1>2. PICK top \in Nat : Ranks(name) = 1..top
    <2>1. Marker(name) \subseteq 1..Len(name) /\ IsFiniteSet(1..Len(name))
        BY <1>1, FS_Interval DEF Marker
    <2>2. Cardinality(Marker(name)) \in Nat
        BY <2>1, FS_Subset, FS_CardinalityType
    <2> QED BY <2>2 DEF Ranks
<1> DEFINE beyond == {k \in 1..(top + 1) : k \notin HopsOf(name, depth)}
<1>3. HopsOf(name, depth) \subseteq 1..top
    BY <1>2 DEF HopsOf
<1>4. top + 1 \in beyond /\ beyond \in SUBSET Nat
    BY <1>3
<1>5. PICK m \in beyond : \A k \in beyond : m <= k
    <2> HIDE DEF beyond
    <2> QED BY <1>4, LeastExists
<1>6. ASSUME NEW k \in 1..top PROVE k \in HopsOf(name, depth) <=> k < m
    <2>1. k < m => k \in HopsOf(name, depth)
        BY <1>5
    <2>2. ASSUME k \in HopsOf(name, depth), m <= k PROVE FALSE
        <3>1. m \in 1..top
            BY <2>2
        <3>2. m <= depth /\ \A b \in BadHops(name) : m < b
            <4>1. k <= depth /\ \A b \in BadHops(name) : k < b
                BY <2>2 DEF HopsOf
            <4>2. BadHops(name) \subseteq 1..top
                BY <1>2 DEF BadHops
            <4>3. m \in Nat /\ k \in Nat
                BY <3>1
            <4> HIDE DEF beyond
            <4> QED BY <2>2, <4>1, <4>2, <4>3
        <3>3. m \in HopsOf(name, depth)
            BY <1>2, <3>1, <3>2 DEF HopsOf
        <3> QED BY <3>3
    <2>3. k \in Nat /\ m \in Nat
        OBVIOUS
    <2> HIDE DEF beyond
    <2> QED BY <2>1, <2>2, <2>3
<1>7. m \in 1..(top + 1)
    OBVIOUS
<1> HIDE DEF beyond
<1>8. HopsOf(name, depth) = 1..(m - 1)
    <2>1. \A k : k \in 1..(m - 1) <=> k \in 1..top /\ k < m
        BY <1>7
    <2> QED BY <1>3, <1>6, <2>1
<1>9. m - 1 <= depth
    <2>1. CASE m = 1
        BY <2>1
    <2>2. CASE m # 1
        <3>1. m - 1 \in 1..(m - 1)
            BY <1>7, <2>2
        <3>2. m - 1 \in HopsOf(name, depth)
            BY <1>8, <3>1
        <3> QED BY <3>2 DEF HopsOf
    <2> QED BY <2>1, <2>2
<1>10. m - 1 \in Nat
    BY <1>7
<1> QED BY <1>8, <1>9, <1>10

(* The hop that was added comes first and moves each other one on by one.   *)
LEMMA NewestOfChild ==
    ASSUME NEW name, NEW id, NEW named, IsChildName(named, name, id)
    PROVE  /\ \A k \in Ranks(named) : k = 1 \/ k - 1 \in Ranks(name)
           /\ \A k \in Ranks(name) : k + 1 \in Ranks(named)
           /\ 1 \in Ranks(named)
           /\ KthNewest(named, 1) = Len(name) + 1
           /\ \A k \in Ranks(name) : KthNewest(named, k + 1) = KthNewest(name, k)
<1>1. PICK l \in Nat : l = Len(name)
    BY EncodedName DEF IsChildName
<1> DEFINE M == Marker(name)
<1>2. M \subseteq 1..l /\ Marker(named) = M \cup {l + 1} /\ l + 1 \notin M
    BY <1>1, MarkersOfChild
<1>3. IsFiniteSet(M)
    BY <1>2, FS_Interval, FS_Subset
<1>4. Cardinality(M) \in Nat /\ Cardinality(M \cup {l + 1}) = Cardinality(M) + 1
    BY <1>2, <1>3, FS_CardinalityType, FS_AddElement
<1>5. Ranks(name) = 1..Cardinality(M) /\ Ranks(named) = 1..(Cardinality(M) + 1)
    BY <1>2, <1>4, Zenon DEF Ranks
<1>6. /\ \A k \in Ranks(named) : k = 1 \/ k - 1 \in Ranks(name)
      /\ \A k \in Ranks(name) : k + 1 \in Ranks(named)
      /\ 1 \in Ranks(named)
    BY <1>4, <1>5
<1> DEFINE newer(p) == {q \in M : q > p}
<1>7. ASSUME NEW p \in M
      PROVE  Cardinality({q \in Marker(named) : q > p}) = Cardinality(newer(p)) + 1
    <2>1. {q \in Marker(named) : q > p} = newer(p) \cup {l + 1} /\ l + 1 \notin newer(p)
        BY <1>2
    <2>2. IsFiniteSet(newer(p))
        BY <1>3, FS_Subset
    <2> HIDE DEF newer
    <2> QED BY <2>1, <2>2, FS_AddElement
<1>8. Cardinality({q \in Marker(named) : q > l + 1}) = 0
    <2>1. {q \in Marker(named) : q > l + 1} = {}
        BY <1>2
    <2> QED BY <2>1, FS_EmptySet
<1>9. \A p \in M : Cardinality(newer(p)) \in Nat
    <2>1. \A p \in M : newer(p) \subseteq M
        OBVIOUS
    <2> HIDE DEF newer
    <2> QED BY <1>3, <2>1, FS_Subset, FS_CardinalityType
<1>10. \A k : KthNewest(named, k) =
            CHOOSE p : p \in Marker(named) /\ Cardinality({q \in Marker(named) : q > p}) = k - 1
    BY Zenon DEF KthNewest
<1>11. \A k : KthNewest(name, k) = CHOOSE p : p \in M /\ Cardinality(newer(p)) = k - 1
    BY Zenon DEF KthNewest
<1> HIDE DEF newer, M
<1>12. KthNewest(named, 1) = l + 1
    <2>1. KthNewest(named, 1) \in Marker(named) /\
          Cardinality({q \in Marker(named) : q > KthNewest(named, 1)}) = 1 - 1
        <3>1. l + 1 \in Marker(named) /\ Cardinality({q \in Marker(named) : q > l + 1}) = 1 - 1
            BY <1>2, <1>8
        <3> QED BY <1>10, <3>1, Zenon
    <2>2. PICK p : p = KthNewest(named, 1)
        BY Zenon
    <2>3. p \notin M
        <3>1. SUFFICES ASSUME p \in M PROVE FALSE
            OBVIOUS
        <3>2. Cardinality({q \in Marker(named) : q > p}) = 0
            BY <2>1, <2>2
        <3> QED BY <1>7, <1>9, <3>1, <3>2
    <2> QED BY <1>2, <2>1, <2>2, <2>3
<1>13. ASSUME NEW k \in Ranks(name) PROVE KthNewest(named, k + 1) = KthNewest(name, k)
    <2>1. k \in Nat /\ k # 0
        BY <1>4, <1>5
    <2>2. \A p : (p \in Marker(named) /\ Cardinality({q \in Marker(named) : q > p}) = (k + 1) - 1)
                   <=> (p \in M /\ Cardinality(newer(p)) = k - 1)
        <3>1. ASSUME NEW p
              PROVE  (p \in Marker(named) /\ Cardinality({q \in Marker(named) : q > p}) = (k + 1) - 1)
                        <=> (p \in M /\ Cardinality(newer(p)) = k - 1)
            <4>1. CASE p \in M
                BY <1>2, <1>7, <1>9, <2>1, <4>1
            <4>2. CASE p = l + 1
                BY <1>2, <1>8, <2>1, <4>2
            <4>3. CASE p \notin M /\ p # l + 1
                BY <1>2, <4>3
            <4> QED BY <4>1, <4>2, <4>3
        <3> QED BY <3>1
    <2>3. PICK n : n = k + 1
        BY Zenon
    <2>4. (CHOOSE p : p \in Marker(named) /\ Cardinality({q \in Marker(named) : q > p}) = n - 1)
            = (CHOOSE p : p \in M /\ Cardinality(newer(p)) = k - 1)
        BY <2>2, <2>3, Zenon
    <2> QED BY <1>10, <1>11, <2>3, <2>4, Zenon
<1> QED BY <1>1, <1>6, <1>12, <1>13

LEMMA HopsOfChild ==
    ASSUME NEW name, NEW id, NEW named, IsChildName(named, name, id), NEW depth \in Nat,
           NEW n \in Nat, HopsOf(name, depth) = 1..n, n <= depth
    PROVE  HopsOf(named, depth) = 1..(IF n + 1 <= depth THEN n + 1 ELSE depth)
<1>1. IsText(name)
    BY DEF IsChildName
<1>2. PICK top \in Nat : Ranks(name) = 1..top
    <2>1. Len(name) \in Nat /\ DOMAIN name = 1..Len(name)
        BY <1>1 DEF IsText
    <2>2. Marker(name) \subseteq 1..Len(name) /\ IsFiniteSet(1..Len(name))
        BY <2>1, FS_Interval DEF Marker
    <2>3. Cardinality(Marker(name)) \in Nat
        BY <2>2, FS_Subset, FS_CardinalityType
    <2> QED BY <2>3 DEF Ranks
<1>3. Ranks(named) = 1..(top + 1)
    <2>1. /\ \A k \in Ranks(named) : k = 1 \/ k - 1 \in Ranks(name)
          /\ \A k \in Ranks(name) : k + 1 \in Ranks(named)
          /\ 1 \in Ranks(named)
        BY NewestOfChild
    <2>2. Ranks(named) \subseteq Int
        BY DEF Ranks
    <2>3. \A k \in 1..(top + 1) : k = 1 \/ (k - 1 \in 1..top /\ (k - 1) + 1 = k)
        OBVIOUS
    <2>4. 1..(top + 1) \subseteq Ranks(named)
        BY <1>2, <2>1, <2>3
    <2>5. \A k \in Ranks(named) : k \in 1..(top + 1)
        BY <1>2, <2>1, <2>2
    <2> QED BY <2>4, <2>5
<1>4. /\ 1 \notin BadHops(named)
      /\ \A k \in 1..top : k + 1 \in BadHops(named) <=> k \in BadHops(name)
    <2>1. KthNewest(named, 1) = Len(name) + 1
        BY NewestOfChild
    <2>2. ~BadAt(named, Len(name) + 1)
        BY IdentityOfChild, Zenon DEF BadAt
    <2>3. ASSUME NEW k \in 1..top PROVE k + 1 \in BadHops(named) <=> k \in BadHops(name)
        <3>1. KthNewest(named, k + 1) = KthNewest(name, k)
            BY <1>2, NewestOfChild
        <3>2. KthNewest(name, k) \in Marker(name)
            BY <1>1, <1>2, NewestIsMarker
        <3>3. PICK p \in Marker(name) : p = KthNewest(name, k)
            BY <3>2
        <3>4. BadAt(named, p) <=> BadAt(name, p)
            BY MarkersKeepTheirSense, Zenon DEF BadAt
        <3>5. k + 1 \in Ranks(named) /\ k \in Ranks(name)
            BY <1>2, <1>3
        <3> QED BY <3>1, <3>3, <3>4, <3>5, Zenon DEF BadHops
    <2> QED BY <2>1, <2>2, <2>3, Zenon DEF BadHops
<1>5. BadHops(named) \subseteq 1..(top + 1) /\ BadHops(name) \subseteq 1..top
    BY <1>2, <1>3 DEF BadHops
<1>6. ASSUME NEW k \in 1..(top + 1)
      PROVE  k \in HopsOf(named, depth) <=> (k <= depth /\ (k = 1 \/ k - 1 \in HopsOf(name, depth)))
    <2>1. k \in HopsOf(named, depth) <=> (k <= depth /\ \A b \in BadHops(named) : k < b)
        BY <1>3, Zenon DEF HopsOf
    <2>2. CASE k = 1
        <3>1. \A b \in BadHops(named) : k < b
            BY <1>4, <1>5, <2>2
        <3> QED BY <2>1, <2>2, <3>1
    <2>3. CASE k # 1
        <3>1. PICK j \in 1..top : k = j + 1 /\ k - 1 = j
            BY <2>3
        <3>2. j \in HopsOf(name, depth) <=> (j <= depth /\ \A b \in BadHops(name) : j < b)
            BY <1>2, Zenon DEF HopsOf
        <3>3. (\A b \in BadHops(named) : j + 1 < b) <=> (\A b \in BadHops(name) : j < b)
            <4>1. ASSUME \A b \in BadHops(named) : j + 1 < b, NEW b \in BadHops(name) PROVE j < b
                <5>1. b \in 1..top /\ b + 1 \in BadHops(named)
                    BY <1>4, <1>5
                <5> QED BY <4>1, <5>1
            <4>2. ASSUME \A b \in BadHops(name) : j < b, NEW b \in BadHops(named) PROVE j + 1 < b
                <5>1. b # 1 /\ b \in 1..(top + 1)
                    BY <1>4, <1>5
                <5>2. PICK a \in 1..top : b = a + 1
                    BY <5>1
                <5>3. a \in BadHops(name)
                    BY <1>4, <5>2
                <5> QED BY <4>2, <5>2, <5>3
            <4> QED BY <4>1, <4>2
        <3>4. k <= depth => j <= depth
            BY <3>1
        <3> QED BY <2>1, <3>1, <3>2, <3>3, <3>4
    <2> QED BY <2>2, <2>3
<1>7. HopsOf(named, depth) \subseteq 1..(top + 1) /\ n <= top
    <2>1. HopsOf(named, depth) \subseteq 1..(top + 1)
        BY <1>3 DEF HopsOf
    <2>2. HopsOf(name, depth) \subseteq 1..top
        BY <1>2 DEF HopsOf
    <2>3. n = 0 \/ n \in 1..n
        OBVIOUS
    <2> QED BY <2>1, <2>2, <2>3
<1>8. PICK m \in Nat : m = IF n + 1 <= depth THEN n + 1 ELSE depth
    OBVIOUS
<1>9. ASSUME NEW k \in 1..(top + 1) PROVE k \in HopsOf(named, depth) <=> k \in 1..m
    BY <1>6, <1>8
<1>10. 1..m \subseteq 1..(top + 1)
    BY <1>7, <1>8
<1> QED BY <1>7, <1>8, <1>9, <1>10

(* An imported name's history: the operation, then the child's history.     *)
LEMMA HistoryOfChild ==
    ASSUME NEW name, NEW id, NEW named, IsChildName(named, name, id), NEW depth \in Nat
    PROVE  LET hop   == [name |-> name, id |-> id, operation |-> "Child"]
               whole == <<hop>> \o TraceHistory(name, depth)
           IN  TraceHistory(named, depth) = SubSeq(whole, 1, Min({Len(whole), depth}))
<1>1. IsText(name)
    BY DEF IsChildName
<1>2. PICK n \in Nat : HopsOf(name, depth) = 1..n /\ n <= depth
    BY <1>1, HopsAreFirst
<1>3. PICK m \in Nat : m = IF n + 1 <= depth THEN n + 1 ELSE depth
    OBVIOUS
<1>4. HopsOf(named, depth) = 1..m
    BY <1>2, <1>3, HopsOfChild
<1>5. PICK hop : hop = [name |-> name, id |-> id, operation |-> "Child"]
    BY Zenon
<1>6. PICK old : old = TraceHistory(name, depth)
    BY Zenon
<1>7. old = [k \in 1..n |-> HopAt(name, KthNewest(name, k))]
    BY <1>2, <1>6, HistoryIs
<1>8. TraceHistory(named, depth) = [k \in 1..m |-> HopAt(named, KthNewest(named, k))]
    BY <1>4, HistoryIs
<1>9. PICK S : S = {hop} \cup {old[k] : k \in 1..n}
    BY Zenon
<1>10. old \in Seq(S) /\ Len(old) = n /\ <<hop>> \in Seq(S)
    <2>1. \A k \in 1..n : old[k] \in S
        BY <1>9
    <2>2. old = [k \in 1..n |-> old[k]]
        BY <1>7
    <2>3. hop \in S
        BY <1>9
    <2> QED BY <2>1, <2>2, <2>3
<1>11. PICK whole : whole = <<hop>> \o old
    BY Zenon
<1>12. /\ whole \in Seq(S) /\ Len(whole) = n + 1 /\ whole[1] = hop
       /\ \A k \in 1..n : whole[k + 1] = old[k]
    <2>1. Len(<<hop>>) = 1 /\ <<hop>>[1] = hop
        OBVIOUS
    <2>2. whole \in Seq(S) /\ Len(whole) = n + 1
        BY <1>10, <1>11, <2>1
    <2>3. whole[1] = hop
        BY <1>10, <1>11, <2>1
    <2>4. \A k \in 1..n : whole[k + 1] = old[(k + 1) - 1]
        BY <1>10, <1>11, <2>1
    <2> QED BY <2>2, <2>3, <2>4
<1>13. Min({Len(whole), depth}) = m
    <2>1. PICK w \in Nat : w = Len(whole)
        BY <1>12
    <2>2. m \in {w, depth} /\ \A y \in {w, depth} : m <= y
        BY <1>3, <1>12, <2>1
    <2>3. PICK x : x = Min({w, depth})
        BY Zenon
    <2>4. x \in {w, depth} /\ \A y \in {w, depth} : x <= y
        BY <2>2, <2>3, Zenon DEF Min
    <2>5. x = m
        BY <2>2, <2>4
    <2> QED BY <2>1, <2>3, <2>5
<1>14. SubSeq(whole, 1, m) = [k \in 1..m |-> whole[k]]
    BY <1>3, <1>12
<1>15. ASSUME NEW k \in 1..m PROVE HopAt(named, KthNewest(named, k)) = whole[k]
    <2>1. CASE k = 1
        <3>1. KthNewest(named, k) = Len(name) + 1
            BY <2>1, NewestOfChild
        <3>2. HopAt(named, Len(name) + 1) = hop
            BY <1>5, IdentityOfChild, Zenon DEF HopAt
        <3> QED BY <1>12, <2>1, <3>1, <3>2
    <2>2. CASE k # 1
        <3>1. PICK j \in 1..n : k = j + 1
            BY <1>3, <2>2
        <3>2. j \in Ranks(name)
            BY <1>2 DEF HopsOf
        <3>3. KthNewest(named, k) = KthNewest(name, j) /\ KthNewest(name, j) \in Marker(name)
            BY <1>1, <3>1, <3>2, NewestOfChild, NewestIsMarker
        <3>4. PICK p \in Marker(name) : p = KthNewest(name, j)
            BY <3>3
        <3>5. HopAt(named, p) = HopAt(name, p)
            BY MarkersKeepTheirSense, Zenon DEF HopAt
        <3>6. old[j] = HopAt(name, p)
            BY <1>7, <3>4
        <3> QED BY <1>12, <3>1, <3>3, <3>4, <3>5, <3>6
    <2> QED BY <2>1, <2>2
<1>16. TraceHistory(named, depth) = SubSeq(whole, 1, m)
    BY <1>8, <1>14, <1>15, Zenon
<1> QED BY <1>5, <1>6, <1>11, <1>13, <1>16, Zenon


-----------------------------------------------------------------------------
(* The two directions. *)

NamesFit(names) ==
    /\ DOMAIN names \subseteq Elements
    /\ \A i \in DOMAIN names : IsText(names[i]) /\ names[i] # <<>>

Directions(m) ==
    \A name \in DOMAIN m.owner :
        m.owner[name] \in DOMAIN m.names /\ m.names[m.owner[name]] = name

Found(m) ==
    m.overwritten = FALSE =>
        \A i \in DOMAIN m.names :
            m.names[i] \in DOMAIN m.owner /\ m.owner[m.names[i]] = i

ChildrenFit(children) ==
    \A c \in DOMAIN children :
        /\ children[c].map # <<>> => NamesFit(children[c].map[1].names)
        /\ children[c].id \in ChildIds

Maps(n, o, c, w) == [names |-> n, owner |-> o, children |-> c, overwritten |-> w]

\* A map: its two directions agree, and its children have names to import.
MapFits(m) ==
    /\ \E n, o, c, S, w : w \in BOOLEAN /\ m = Maps(n, o, c, w) /\ c \in Seq(S)
    /\ NamesFit(m.names)
    /\ Directions(m)
    /\ Found(m)
    /\ ChildrenFit(m.children)

\* g is f, but for its value at x.
Differs(g, f, x, y) ==
    /\ DOMAIN g = DOMAIN f \cup {x}
    /\ g[x] = y
    /\ \A z \in DOMAIN f : z # x => g[z] = f[z]

LEMMA WithIs ==
    ASSUME NEW f, NEW x, NEW y
    PROVE  Differs(With(f, x, y), f, x, y)
BY DEF With, Differs

LEMMA WithoutIs ==
    ASSUME NEW f, NEW S
    PROVE  /\ DOMAIN Without(f, S) = DOMAIN f \ S
           /\ \A z \in DOMAIN f \ S : Without(f, S)[z] = f[z]
BY DEF Without

LEMMA DisambiguatedIsText ==
    ASSUME NEW name, IsText(name), NEW k
    PROVE  IsText(Disambiguated(name, k)) /\ Disambiguated(name, k) # <<>>
<1>1. PICK added : added = <<"D", k>>
    BY Zenon
<1>2. PICK S : S = ToSet(name) \cup {added}
    BY Zenon
<1>3. name = [p \in 1..Len(name) |-> name[p]] /\ Len(name) \in Nat /\ name \in Seq(ToSet(name))
    BY DEF IsText
<1>4. \A p \in 1..Len(name) : name[p] \in S
    BY <1>2, <1>3
<1>5. name \in Seq(S) /\ added \in S
    BY <1>2, <1>3, <1>4
<1>6. Append(name, added) \in Seq(S) /\ Len(Append(name, added)) = Len(name) + 1
    BY <1>5
<1>7. Disambiguated(name, k) = Append(name, added)
    BY <1>1, Zenon DEF Disambiguated
<1>8. Append(name, added) # <<>>
    BY <1>3, <1>6
<1> QED BY <1>6, <1>7, <1>8, TextOf

(* The name settled on: nobody's, unless it is taken over.                  *)
LEMMA ChosenNameFits ==
    ASSUME NEW m, NEW i, NEW name, IsText(name), name # <<>>, NEW overwrite \in BOOLEAN,
           ~(name \in DOMAIN m.owner /\ m.owner[name] = i)
    PROVE  LET chosen == ChosenName(m, i, name, overwrite)
           IN  /\ IsText(chosen) /\ chosen # <<>>
               /\ ~TakesOver(m, i, name, overwrite) => chosen \notin DOMAIN m.owner
<1>1. PICK chosen : chosen = ChosenName(m, i, name, overwrite)
    BY Zenon
<1>2. CASE name \notin DOMAIN m.owner \/ TakesOver(m, i, name, overwrite)
    <2>1. chosen = name
        BY <1>1, <1>2, Zenon DEF ChosenName
    <2>2. ~TakesOver(m, i, name, overwrite) => chosen \notin DOMAIN m.owner
        BY <1>2, <2>1
    <2> QED BY <1>1, <2>1, <2>2
<1>3. CASE ~(name \notin DOMAIN m.owner \/ TakesOver(m, i, name, overwrite))
    <2>1. name \in DOMAIN m.owner /\ m.owner[name] # i
        BY <1>3
    <2>2. Attempts(m, name) # {}
        BY <1>3, <2>1, Zenon DEF TakesOver
    <2>3. Attempts(m, name) \in SUBSET Nat
        BY ElementMapAssumption DEF Attempts
    <2>4. \E k \in Attempts(m, name) : \A l \in Attempts(m, name) : k <= l
        BY <2>2, <2>3, LeastExists
    <2>5. PICK k \in Attempts(m, name) : chosen = Disambiguated(name, k)
        <3> DEFINE k == CHOOSE k \in Attempts(m, name) : \A l \in Attempts(m, name) : k <= l
        <3>1. k \in Attempts(m, name)
            BY <2>4, Zenon
        <3>2. chosen = Disambiguated(name, k)
            BY <1>1, <1>3, <2>1, Zenon DEF ChosenName
        <3> QED BY <3>1, <3>2, Zenon
    <2>6. chosen \notin DOMAIN m.owner
        BY <2>5 DEF Attempts
    <2>7. IsText(chosen) /\ chosen # <<>>
        BY <2>5, DisambiguatedIsText
    <2> QED BY <1>1, <2>6, <2>7
<1> QED BY <1>2, <1>3

LEMMA WithElementNameFits ==
    ASSUME NEW m, MapFits(m), NEW i \in Elements, NEW name, IsText(name),
           NEW overwrite \in BOOLEAN
    PROVE  LET a == WithElementName(m, i, name, overwrite)
           IN  /\ MapFits(a)
               /\ \A j \in DOMAIN m.names : j # i => j \in DOMAIN a.names /\ a.names[j] = m.names[j]
               /\ a.overwritten = FALSE => m.overwritten = FALSE
               /\ a.children = m.children
<1>1. CASE name = <<>> \/ (name \in DOMAIN m.owner /\ m.owner[name] = i)
    <2>1. WithElementName(m, i, name, overwrite) = m
        BY <1>1, Zenon DEF WithElementName
    <2> QED BY <2>1
<1>2. CASE ~(name = <<>> \/ (name \in DOMAIN m.owner /\ m.owner[name] = i))
    <2>1. PICK n, o, c, S, w : w \in BOOLEAN /\ m = Maps(n, o, c, w) /\ c \in Seq(S)
        BY Zenon DEF MapFits
    <2>2. m.names = n /\ m.owner = o /\ m.children = c /\ m.overwritten = w
        BY <2>1 DEF Maps
    <2>3. PICK chosen : chosen = ChosenName(m, i, name, overwrite)
        BY Zenon
    <2>4. PICK over \in BOOLEAN : over <=> TakesOver(m, i, name, overwrite)
        OBVIOUS
    <2>5. IsText(chosen) /\ chosen # <<>> /\ (~over => chosen \notin DOMAIN o)
        BY <1>2, <2>2, <2>3, <2>4, ChosenNameFits
    <2>6. PICK old : old = IF i \in DOMAIN n THEN {n[i]} ELSE {}
        BY Zenon
    <2>7. PICK n2, o2 : n2 = With(n, i, chosen) /\ o2 = With(Without(o, old), chosen, i)
        BY Zenon
    <2>8. PICK w2 \in BOOLEAN : w2 <=> (w \/ over)
        OBVIOUS
    <2>9. PICK a : a = WithElementName(m, i, name, overwrite)
        BY Zenon
    <2>10. a = Maps(n2, o2, c, w2)
        <3>1. Entered(m, i, chosen) = [m EXCEPT !.names = n2, !.owner = o2]
            <4>1. Entered(m, i, chosen) =
                    [m EXCEPT !.names = With(@, i, chosen), !.owner = With(Without(@, old), chosen, i)]
                BY <2>2, <2>6, Zenon DEF Entered
            <4> QED BY <2>1, <2>7, <4>1 DEF Maps
        <3>2. Entered(m, i, chosen) = Maps(n2, o2, c, w)
            BY <2>1, <3>1 DEF Maps
        <3>3. (w \/ TakesOver(m, i, name, overwrite)) = w2
            BY <2>4, <2>8
        <3>4. a = [Entered(m, i, chosen) EXCEPT !.overwritten = @ \/ TakesOver(m, i, name, overwrite)]
            BY <1>2, <2>3, <2>9, Zenon DEF WithElementName
        <3>5. a = [Maps(n2, o2, c, w) EXCEPT !.overwritten = w2]
            BY <3>2, <3>3, <3>4 DEF Maps
        <3> QED BY <3>5 DEF Maps
    <2>11. a.names = n2 /\ a.owner = o2 /\ a.children = c /\ a.overwritten = w2
        BY <2>10 DEF Maps
    <2>12. /\ DOMAIN n2 = DOMAIN n \cup {i} /\ n2[i] = chosen
           /\ \A j \in DOMAIN n : j # i => n2[j] = n[j]
        <3>1. Differs(n2, n, i, chosen)
            BY <2>7, WithIs
        <3> QED BY <3>1 DEF Differs
    <2>13. /\ DOMAIN o2 = (DOMAIN o \ old) \cup {chosen} /\ o2[chosen] = i
           /\ \A x \in DOMAIN o \ old : x # chosen => o2[x] = o[x]
        <3>1. PICK left : left = Without(o, old)
            BY Zenon
        <3>2. DOMAIN left = DOMAIN o \ old /\ \A x \in DOMAIN o \ old : left[x] = o[x]
            BY <3>1, WithoutIs, Zenon
        <3>3. /\ DOMAIN o2 = DOMAIN left \cup {chosen} /\ o2[chosen] = i
              /\ \A x \in DOMAIN left : x # chosen => o2[x] = left[x]
            <4>1. Differs(o2, left, chosen, i)
                BY <2>7, <3>1, WithIs
            <4> QED BY <4>1 DEF Differs
        <3> QED BY <3>2, <3>3
    <2>14. /\ NamesFit(n)
           /\ \A x \in DOMAIN o : o[x] \in DOMAIN n /\ n[o[x]] = x
           /\ w = FALSE => \A j \in DOMAIN n : n[j] \in DOMAIN o /\ o[n[j]] = j
           /\ ChildrenFit(c)
        BY <2>2 DEF MapFits, Directions, Found
    <2>15. NamesFit(n2)
        BY <2>5, <2>12, <2>14 DEF NamesFit
    <2>16. ASSUME NEW x \in DOMAIN o2 PROVE o2[x] \in DOMAIN n2 /\ n2[o2[x]] = x
        <3>1. CASE x = chosen
            BY <2>12, <2>13, <3>1
        <3>2. CASE x # chosen
            <4>1. x \in DOMAIN o /\ x \notin old /\ o2[x] = o[x]
                BY <2>13, <3>2
            <4>2. o[x] \in DOMAIN n /\ n[o[x]] = x
                BY <2>14, <4>1
            <4>3. o[x] # i
                BY <2>6, <4>1, <4>2
            <4> QED BY <2>12, <4>1, <4>2, <4>3
        <3> QED BY <3>1, <3>2
    <2>17. ASSUME w2 = FALSE, NEW j \in DOMAIN n2 PROVE n2[j] \in DOMAIN o2 /\ o2[n2[j]] = j
        <3>1. w = FALSE /\ ~over
            BY <2>8, <2>17
        <3>2. CASE j = i
            BY <2>12, <2>13, <3>2
        <3>3. CASE j # i
            <4>1. j \in DOMAIN n /\ n2[j] = n[j]
                BY <2>12, <3>3
            <4>2. n[j] \in DOMAIN o /\ o[n[j]] = j
                BY <2>14, <3>1, <4>1
            <4>3. n[j] # chosen
                BY <2>5, <3>1, <4>2
            <4>4. n[j] \notin old
                <5>1. SUFFICES ASSUME n[j] \in old PROVE FALSE
                    OBVIOUS
                <5>2. i \in DOMAIN n /\ n[j] = n[i]
                    BY <2>6, <5>1
                <5>3. o[n[i]] = i
                    BY <2>14, <3>1, <5>2
                <5> QED BY <3>3, <4>2, <5>2, <5>3
            <4> QED BY <2>13, <4>1, <4>2, <4>3, <4>4
        <3> QED BY <3>2, <3>3
    <2>18. Directions(a)
        BY <2>11, <2>16, Zenon DEF Directions
    <2>19. Found(a)
        BY <2>11, <2>17, Zenon DEF Found
    <2>20. MapFits(a)
        BY <2>1, <2>10, <2>11, <2>14, <2>15, <2>18, <2>19, Zenon DEF MapFits
    <2>21. \A j \in DOMAIN m.names : j # i => j \in DOMAIN a.names /\ a.names[j] = m.names[j]
        BY <2>2, <2>11, <2>12
    <2>22. a.overwritten = FALSE => m.overwritten = FALSE
        BY <2>2, <2>8, <2>11
    <2> QED BY <2>2, <2>9, <2>11, <2>20, <2>21, <2>22
<1> QED BY <1>1, <1>2

LEMMA WithoutElementFits ==
    ASSUME NEW m, MapFits(m), NEW i
    PROVE  MapFits(WithoutElement(m, i))
<1>1. CASE i \notin DOMAIN m.names
    <2>1. WithoutElement(m, i) = m
        BY <1>1, Zenon DEF WithoutElement
    <2> QED BY <2>1
<1>2. CASE i \in DOMAIN m.names
    <2>1. PICK n, o, c, S, w : w \in BOOLEAN /\ m = Maps(n, o, c, w) /\ c \in Seq(S)
        BY Zenon DEF MapFits
    <2>2. m.names = n /\ m.owner = o /\ m.children = c /\ m.overwritten = w
        BY <2>1 DEF Maps
    <2>3. PICK n2, o2 : n2 = Without(n, {i}) /\ o2 = Without(o, {n[i]})
        BY Zenon
    <2>4. PICK a : a = WithoutElement(m, i)
        BY Zenon
    <2>5. a = Maps(n2, o2, c, w)
        <3>1. a = [m EXCEPT !.names = Without(@, {i}), !.owner = Without(@, {m.names[i]})]
            BY <1>2, <2>4, Zenon DEF WithoutElement
        <3> QED BY <2>1, <2>2, <2>3, <3>1 DEF Maps
    <2>6. a.names = n2 /\ a.owner = o2 /\ a.children = c /\ a.overwritten = w
        BY <2>5 DEF Maps
    <2>7. /\ DOMAIN n2 = DOMAIN n \ {i} /\ \A j \in DOMAIN n \ {i} : n2[j] = n[j]
          /\ DOMAIN o2 = DOMAIN o \ {n[i]} /\ \A x \in DOMAIN o \ {n[i]} : o2[x] = o[x]
        BY <2>3, WithoutIs
    <2>8. /\ NamesFit(n)
          /\ \A x \in DOMAIN o : o[x] \in DOMAIN n /\ n[o[x]] = x
          /\ w = FALSE => \A j \in DOMAIN n : n[j] \in DOMAIN o /\ o[n[j]] = j
          /\ ChildrenFit(c)
        BY <2>2 DEF MapFits, Directions, Found
    <2>9. NamesFit(n2)
        BY <2>7, <2>8 DEF NamesFit
    <2>10. ASSUME NEW x \in DOMAIN o2 PROVE o2[x] \in DOMAIN n2 /\ n2[o2[x]] = x
        BY <2>7, <2>8
    <2>11. ASSUME w = FALSE, NEW j \in DOMAIN n2 PROVE n2[j] \in DOMAIN o2 /\ o2[n2[j]] = j
        <3>1. j \in DOMAIN n /\ j # i /\ n2[j] = n[j]
            BY <2>7
        <3>2. n[j] \in DOMAIN o /\ o[n[j]] = j /\ o[n[i]] = i
            BY <1>2, <2>2, <2>8, <2>11, <3>1
        <3>3. n[j] # n[i]
            BY <3>1, <3>2
        <3> QED BY <2>7, <3>1, <3>2, <3>3
    <2>12. Directions(a)
        BY <2>6, <2>10, Zenon DEF Directions
    <2>13. Found(a)
        BY <2>6, <2>11, Zenon DEF Found
    <2>14. MapFits(a)
        BY <2>1, <2>5, <2>6, <2>8, <2>9, <2>12, <2>13, Zenon DEF MapFits
    <2> QED BY <2>4, <2>14
<1> QED BY <1>1, <1>2

LEMMA EmptyMapFits == MapFits(EmptyMap)
<1>1. EmptyMap = Maps(EmptyNames, [x \in {} |-> 0], <<>>, FALSE)
    BY DEF EmptyMap, Maps
<1>2. <<>> \in Seq({}) /\ FALSE \in BOOLEAN /\ DOMAIN <<>> = {}
    OBVIOUS
<1>3. /\ EmptyMap.names = EmptyNames /\ DOMAIN EmptyNames = {}
      /\ DOMAIN EmptyMap.owner = {} /\ EmptyMap.children = <<>>
    BY DEF EmptyMap, EmptyNames
<1>4. NamesFit(EmptyMap.names) /\ Directions(EmptyMap) /\ Found(EmptyMap)
    BY <1>3, Zenon DEF NamesFit, Directions, Found
<1>5. ChildrenFit(EmptyMap.children)
    BY <1>2, <1>3, Zenon DEF ChildrenFit
<1> QED BY <1>1, <1>2, <1>4, <1>5, Zenon DEF MapFits

\* No element loses its name.
KeepsNames(a, m) ==
    \A j \in DOMAIN m.names : j \in DOMAIN a.names /\ a.names[j] = m.names[j]

ImportsNames(imported, m, child, id, postfix, n) ==
    imported = [i \in 0..n |->
                  IF i = 0 THEN m ELSE WithChildName(imported[i - 1], child, i, id, postfix)]

LEMMA ImportIsMade ==
    ASSUME NEW m, NEW child, NEW id, NEW postfix, NEW top \in Nat, top = Cardinality(Elements)
    PROVE  \E imported : /\ ImportsNames(imported, m, child, id, postfix, top)
                         /\ WithChildNames(m, child, id, postfix) = imported[top]
<1> DEFINE Made(n, h) == ImportsNames(h, m, child, id, postfix, n)
           T == {n \in 0..top : \E h : Made(n, h)}
<1>1. 0 \in T
    <2> DEFINE h == [i \in 0..0 |-> m]
    <2>1. Made(0, h)
        <3>1. \A i \in 0..0 : i = 0
            OBVIOUS
        <3>2. h = [i \in 0..0 |->
                      IF i = 0 THEN m ELSE WithChildName(h[i - 1], child, i, id, postfix)]
            BY <3>1
        <3> QED BY <3>2 DEF ImportsNames
    <2> HIDE DEF Made
    <2> QED BY <2>1
<1>2. ASSUME NEW n \in 1..top, n - 1 \in T PROVE n \in T
    <2>1. PICK h : Made(n - 1, h)
        BY <1>2
    <2> DEFINE g == [i \in 0..n |->
                       IF i = n THEN WithChildName(h[n - 1], child, n, id, postfix) ELSE h[i]]
    <2>2. ASSUME NEW i \in 0..n
          PROVE  g[i] = IF i = 0 THEN m ELSE WithChildName(g[i - 1], child, i, id, postfix)
        <3>1. CASE i = n
            <4>1. n # 0 /\ n - 1 \in 0..n /\ n - 1 # n
                OBVIOUS
            <4>2. g[n - 1] = h[n - 1] /\ g[n] = WithChildName(h[n - 1], child, n, id, postfix)
                BY <4>1
            <4> HIDE DEF g
            <4> QED BY <3>1, <4>1, <4>2
        <3>2. CASE i # n
            <4>1. i \in 0..(n - 1) /\ g[i] = h[i]
                BY <3>2
            <4>2. h[i] = IF i = 0 THEN m ELSE WithChildName(h[i - 1], child, i, id, postfix)
                BY <2>1, <4>1 DEF ImportsNames
            <4>3. i # 0 => i - 1 \in 0..n /\ i - 1 # n
                BY <3>2
            <4>4. i # 0 => g[i - 1] = h[i - 1]
                BY <4>3
            <4> HIDE DEF g
            <4> QED BY <4>1, <4>2, <4>4
        <3> QED BY <3>1, <3>2
    <2>3. Made(n, g)
        <3>1. g = [i \in 0..n |-> g[i]]
            OBVIOUS
        <3> HIDE DEF g
        <3> QED BY <2>2, <3>1 DEF ImportsNames
    <2>4. n \in 0..top
        OBVIOUS
    <2> HIDE DEF Made
    <2> QED BY <2>3, <2>4
<1>3. \E h : Made(top, h)
    <2>1. 0..top \subseteq T
        <3> HIDE DEF T
        <3> QED BY <1>1, <1>2, UpTo
    <2> HIDE DEF Made
    <2> QED BY <2>1
<1> DEFINE k == CHOOSE h : h = [i \in 0..top |->
                IF i = 0 THEN m ELSE WithChildName(h[i - 1], child, i, id, postfix)]
<1>4. WithChildNames(m, child, id, postfix) = k[top]
    BY Zenon DEF WithChildNames
<1>5. Made(top, k)
    <2>1. \E h : h = [i \in 0..top |->
                IF i = 0 THEN m ELSE WithChildName(h[i - 1], child, i, id, postfix)]
        BY <1>3, Zenon DEF ImportsNames
    <2>2. k = [i \in 0..top |->
                IF i = 0 THEN m ELSE WithChildName(k[i - 1], child, i, id, postfix)]
        BY <2>1, Zenon
    <2> HIDE DEF k
    <2> QED BY <2>2, Zenon DEF ImportsNames
<1> HIDE DEF k
<1> QED BY <1>4, <1>5

LEMMA WithChildNameFits ==
    ASSUME NEW m, MapFits(m), NEW child, NamesFit(child.names), NEW i \in Elements,
           NEW id, NEW postfix
    PROVE  /\ MapFits(WithChildName(m, child, i, id, postfix))
           /\ KeepsNames(WithChildName(m, child, i, id, postfix), m)
<1>1. PICK a : a = WithChildName(m, child, i, id, postfix)
    BY Zenon
<1>2. CASE i \notin DOMAIN child.names \/ i \in DOMAIN m.names
    <2>1. a = m
        BY <1>1, <1>2, Zenon DEF WithChildName
    <2> QED BY <1>1, <2>1 DEF KeepsNames
<1>3. CASE ~(i \notin DOMAIN child.names \/ i \in DOMAIN m.names)
    <2>1. PICK named : named = EncodeElementName(child.names[i], id, postfix)
        BY Zenon
    <2>2. IsText(child.names[i])
        BY <1>3 DEF NamesFit
    <2>3. IsText(named)
        BY <2>1, <2>2, EncodedName
    <2>4. a = WithElementName(m, i, named, FALSE)
        BY <1>1, <1>3, <2>1, Zenon DEF WithChildName
    <2>5. FALSE \in BOOLEAN
        OBVIOUS
    <2>6. /\ MapFits(a)
          /\ \A j \in DOMAIN m.names : j # i => j \in DOMAIN a.names /\ a.names[j] = m.names[j]
        BY <2>3, <2>4, <2>5, WithElementNameFits, Zenon
    <2>7. KeepsNames(a, m)
        BY <1>3, <2>6, Zenon DEF KeepsNames
    <2> QED BY <1>1, <2>6, <2>7
<1> QED BY <1>2, <1>3

LEMMA WithChildNamesFits ==
    ASSUME NEW m, MapFits(m), NEW child, NamesFit(child.names), NEW id, NEW postfix
    PROVE  /\ MapFits(WithChildNames(m, child, id, postfix))
           /\ KeepsNames(WithChildNames(m, child, id, postfix), m)
<1>1. PICK top \in Nat : top = Cardinality(Elements)
    BY ElementMapAssumption, FS_CardinalityType
<1>2. PICK imported : /\ ImportsNames(imported, m, child, id, postfix, top)
                      /\ WithChildNames(m, child, id, postfix) = imported[top]
    BY <1>1, ImportIsMade
<1>3. Elements = 1..top
    BY <1>1, ElementMapAssumption
<1>4. /\ imported[0] = m
      /\ \A i \in 1..top : imported[i] = WithChildName(imported[i - 1], child, i, id, postfix)
    BY <1>2 DEF ImportsNames
<1> DEFINE T == {n \in 0..top : MapFits(imported[n]) /\ KeepsNames(imported[n], m)}
<1>5. 0 \in T
    <2>1. KeepsNames(m, m)
        BY DEF KeepsNames
    <2>2. 0 \in 0..top
        OBVIOUS
    <2> QED BY <1>4, <2>1, <2>2
<1>6. ASSUME NEW n \in 1..top, n - 1 \in T PROVE n \in T
    <2>1. PICK b : b = imported[n - 1]
        BY Zenon
    <2>2. MapFits(b) /\ KeepsNames(b, m)
        BY <1>6, <2>1
    <2>3. PICK a : a = imported[n]
        BY Zenon
    <2>4. a = WithChildName(b, child, n, id, postfix) /\ n \in Elements
        BY <1>3, <1>4, <2>1, <2>3
    <2>5. MapFits(a) /\ KeepsNames(a, b)
        BY <2>2, <2>4, WithChildNameFits, Zenon
    <2>6. KeepsNames(a, m)
        BY <2>2, <2>5 DEF KeepsNames
    <2>7. n \in 0..top
        OBVIOUS
    <2> QED BY <2>3, <2>5, <2>6, <2>7
<1>7. 0..top \subseteq T
    <2> HIDE DEF T
    <2> QED BY <1>5, <1>6, UpTo
<1>8. top \in 0..top
    OBVIOUS
<1> QED BY <1>2, <1>7, <1>8

-----------------------------------------------------------------------------
(* Every map that calls make fits. *)

LEMMA ChildAddedFits ==
    ASSUME NEW m, MapFits(m), NEW id \in ChildIds
    PROVE  MapFits([m EXCEPT !.children = Append(@, [map |-> <<>>, id |-> id, postfix |-> "C"])])
<1>1. PICK n, o, c, S, w : w \in BOOLEAN /\ m = Maps(n, o, c, w) /\ c \in Seq(S)
    BY Zenon DEF MapFits
<1>2. m.names = n /\ m.owner = o /\ m.children = c /\ m.overwritten = w
    BY <1>1 DEF Maps
<1>3. PICK child : child = [map |-> <<>>, id |-> id, postfix |-> "C"]
    BY Zenon
<1>4. child.map = <<>> /\ child.id = id
    BY <1>3
<1>5. PICK c2 : c2 = Append(c, child)
    BY Zenon
<1>6. PICK a : a = [m EXCEPT !.children = Append(@, [map |-> <<>>, id |-> id, postfix |-> "C"])]
    BY Zenon
<1>7. a = Maps(n, o, c2, w)
    <2>1. a = [m EXCEPT !.children = c2]
        BY <1>2, <1>3, <1>5, <1>6
    <2> QED BY <1>1, <2>1 DEF Maps
<1>8. a.names = n /\ a.owner = o /\ a.children = c2 /\ a.overwritten = w
    BY <1>7 DEF Maps
<1>9. /\ c2 \in Seq(S \cup {child}) /\ DOMAIN c2 = 1..(Len(c) + 1) /\ DOMAIN c = 1..Len(c)
      /\ Len(c) \in Nat /\ c2[Len(c) + 1] = child /\ \A x \in 1..Len(c) : c2[x] = c[x]
    <2>1. c \in Seq(S \cup {child})
        BY <1>1, SeqGrows
    <2>2. child \in S \cup {child}
        OBVIOUS
    <2> QED BY <1>5, <2>1, <2>2
<1>10. ChildrenFit(c) /\ NamesFit(n)
    BY <1>2 DEF MapFits
<1>11. ASSUME NEW x \in DOMAIN c2
       PROVE  (c2[x].map # <<>> => NamesFit(c2[x].map[1].names)) /\ c2[x].id \in ChildIds
    <2>1. CASE x = Len(c) + 1
        BY <1>4, <1>9, <2>1
    <2>2. CASE x # Len(c) + 1
        <3>1. x \in DOMAIN c /\ c2[x] = c[x]
            BY <1>9, <2>2
        <3> QED BY <1>10, <3>1, Zenon DEF ChildrenFit
    <2> QED BY <2>1, <2>2
<1>12. ChildrenFit(c2)
    BY <1>11, Zenon DEF ChildrenFit
<1>13. Directions(a) /\ Found(a)
    <2>1. Directions(m) /\ Found(m)
        BY DEF MapFits
    <2> QED BY <1>2, <1>8, <2>1 DEF Directions, Found
<1>14. MapFits(a)
    BY <1>1, <1>7, <1>8, <1>9, <1>10, <1>12, <1>13, Zenon DEF MapFits
<1> QED BY <1>6, <1>14

LEMMA ResultMapFits ==
    ASSUME NEW m, MapFits(m), NEW id \in ChildIds, NEW postfix
    PROVE  MapFits([EmptyMap EXCEPT
                      !.children = <<[map |-> <<m>>, id |-> id, postfix |-> postfix]>>])
<1>1. PICK child : child = [map |-> <<m>>, id |-> id, postfix |-> postfix]
    BY Zenon
<1>2. child.map = <<m>> /\ child.map[1] = m /\ child.id = id
    BY <1>1
<1>3. PICK c : c = <<child>>
    BY Zenon
<1>4. c \in Seq({child}) /\ DOMAIN c = {1} /\ c[1] = child
    BY <1>3
<1>5. PICK o : o = [x \in {} |-> 0]
    BY Zenon
<1>6. PICK a : a = [EmptyMap EXCEPT
                      !.children = <<[map |-> <<m>>, id |-> id, postfix |-> postfix]>>]
    BY Zenon
<1>7. a = Maps(EmptyNames, o, c, FALSE)
    <2>1. a = [EmptyMap EXCEPT !.children = c]
        BY <1>1, <1>3, <1>6
    <2> QED BY <1>5, <2>1 DEF EmptyMap, Maps
<1>8. a.names = EmptyNames /\ a.owner = o /\ a.children = c
    BY <1>7 DEF Maps
<1>9. DOMAIN EmptyNames = {} /\ DOMAIN o = {}
    BY <1>5 DEF EmptyNames
<1>10. NamesFit(a.names) /\ Directions(a) /\ Found(a)
    BY <1>8, <1>9, Zenon DEF NamesFit, Directions, Found
<1>11. NamesFit(m.names)
    BY DEF MapFits
<1>12. ChildrenFit(c)
    BY <1>2, <1>4, <1>11 DEF ChildrenFit
<1>13. FALSE \in BOOLEAN
    OBVIOUS
<1>14. MapFits(a)
    BY <1>4, <1>7, <1>8, <1>10, <1>12, <1>13, Zenon DEF MapFits
<1> QED BY <1>6, <1>14

EMInv == MapFits(map)

LEMMA ImportKeepsNames ==
    ASSUME EMInv, NEW c \in DOMAIN map.children, ImportChildNames(c)
    PROVE  EMInv' /\ KeepsNames(map', map)
<1>1. PICK child, id, postfix : /\ child = map.children[c].map[1] /\ id = map.children[c].id
                                /\ postfix = map.children[c].postfix
    BY Zenon
<1>2. map.children[c].map # <<>> /\ map' = WithChildNames(map, child, id, postfix)
    BY <1>1, Zenon DEF ImportChildNames
<1>3. MapFits(map)
    BY DEF EMInv
<1>4. NamesFit(child.names)
    BY <1>1, <1>2, <1>3 DEF MapFits, ChildrenFit
<1>5. MapFits(map') /\ KeepsNames(map', map)
    BY <1>2, <1>3, <1>4, WithChildNamesFits
<1> QED BY <1>5 DEF EMInv

LEMMA EMInit_EMInv == EMInit => EMInv
BY EmptyMapFits DEF EMInit, EMInv

LEMMA EMNext_EMInv == EMInv /\ [EMNext]_emVars => EMInv'
<1> SUFFICES ASSUME EMInv, [EMNext]_emVars PROVE EMInv'
    OBVIOUS
<1>1. MapFits(map)
    BY DEF EMInv
<1>2. ASSUME NEW i \in Elements, NEW name \in GivenNames, NEW overwrite \in BOOLEAN,
             SetElementName(i, name, overwrite)
      PROVE  EMInv'
    <2>1. IsText(name)
        BY ElementMapAssumption
    <2>2. map' = WithElementName(map, i, name, overwrite)
        BY <1>2, Zenon DEF SetElementName
    <2>3. MapFits(WithElementName(map, i, name, overwrite))
        BY <1>1, <2>1, WithElementNameFits, Zenon
    <2> QED BY <2>2, <2>3 DEF EMInv
<1>3. ASSUME NEW i \in Elements, RemoveElement(i) PROVE EMInv'
    <2>1. map' = WithoutElement(map, i)
        BY <1>3, Zenon DEF RemoveElement
    <2> QED BY <1>1, <2>1, WithoutElementFits DEF EMInv
<1>4. ASSUME Clear PROVE EMInv'
    BY <1>4, EmptyMapFits DEF Clear, EMInv
<1>5. ASSUME NEW id \in ChildIds, NEW postfix \in {"C", "Plin"}, AddChildToResult(id, postfix)
      PROVE  EMInv'
    <2>1. map' = [EmptyMap EXCEPT
                    !.children = <<[map |-> <<map>>, id |-> id, postfix |-> postfix]>>]
        BY <1>5, Zenon DEF AddChildToResult
    <2>2. MapFits([EmptyMap EXCEPT
                    !.children = <<[map |-> <<map>>, id |-> id, postfix |-> postfix]>>])
        BY <1>1, ResultMapFits, Zenon
    <2> QED BY <2>1, <2>2, Zenon DEF EMInv
<1>6. ASSUME NEW id \in ChildIds, AddEmptyChild(id) PROVE EMInv'
    <2>1. map' = [map EXCEPT !.children = Append(@, [map |-> <<>>, id |-> id, postfix |-> "C"])]
        BY <1>6, Zenon DEF AddEmptyChild
    <2>2. MapFits([map EXCEPT
                    !.children = Append(@, [map |-> <<>>, id |-> id, postfix |-> "C"])])
        BY <1>1, ChildAddedFits, Zenon
    <2> QED BY <2>1, <2>2, Zenon DEF EMInv
<1>7. ASSUME NEW c \in DOMAIN map.children, ImportChildNames(c) PROVE EMInv'
    BY <1>7, ImportKeepsNames
<1>8. ASSUME UNCHANGED emVars PROVE EMInv'
    BY <1>1, <1>8 DEF EMInv, emVars
<1> QED BY <1>2, <1>3, <1>4, <1>5, <1>6, <1>7, <1>8, Zenon DEF EMNext

LEMMA FitsTellsTypes == EMInv => EMTypeOK /\ ReverseSound /\ NamesFound
<1> SUFFICES ASSUME EMInv PROVE EMTypeOK /\ ReverseSound /\ NamesFound
    OBVIOUS
<1>1. NamesFit(map.names) /\ Directions(map) /\ Found(map)
    BY DEF EMInv, MapFits
<1>2. map.overwritten \in BOOLEAN
    <2>1. PICK n, o, c, S, w : w \in BOOLEAN /\ map = Maps(n, o, c, w) /\ c \in Seq(S)
        BY Zenon DEF EMInv, MapFits
    <2> QED BY <2>1 DEF Maps
<1>3. ReverseSound
    BY <1>1, Zenon DEF ReverseSound, Directions
<1>4. EMTypeOK
    <2>1. DOMAIN map.names \subseteq Elements /\ \A i \in DOMAIN map.names : map.names[i] # <<>>
        BY <1>1 DEF NamesFit
    <2>2. \A name \in DOMAIN map.owner : map.owner[name] \in Elements
        BY <1>1, <2>1, Zenon DEF Directions
    <2> QED BY <1>2, <2>1, <2>2, Zenon DEF EMTypeOK
<1>5. NamesFound
    <2>1. CASE map.overwritten = TRUE
        BY <2>1, Zenon DEF NamesFound
    <2>2. CASE map.overwritten = FALSE
        BY <1>1, <2>2, Zenon DEF NamesFound, Found
    <2> QED BY <1>2, <2>1, <2>2
<1> QED BY <1>3, <1>4, <1>5

LEMMA FitsComposes == EMInv => HistoryComposes
<1> SUFFICES ASSUME EMInv, NEW id \in ChildIds, NEW i \in DOMAIN map.names
             PROVE  LET name  == map.names[i]
                        named == EncodeElementName(name, id, "C")
                        hop   == [name |-> name, id |-> id, operation |-> "Child"]
                        whole == <<hop>> \o TraceHistory(name, MaxTrace)
                    IN  /\ ExtractShapeIdentity(named) = id
                        /\ ExtractBaseName(named) = ExtractBaseName(name)
                        /\ TraceHistory(named, MaxTrace)
                              = SubSeq(whole, 1, Min({Len(whole), MaxTrace}))
    BY Zenon DEF HistoryComposes
<1>1. PICK name, named : name = map.names[i] /\ named = EncodeElementName(name, id, "C")
    BY Zenon
<1>2. IsText(name)
    BY <1>1 DEF EMInv, MapFits, NamesFit
<1>3. id \in ShapeIdentities /\ id.counter # 0 /\ MaxTrace \in Nat
    BY ElementMapAssumption
<1>4. IsChildName(named, name, id)
    BY <1>1, <1>2, <1>3, Zenon DEF IsChildName
<1>5. ExtractShapeIdentity(named) = id /\ ExtractBaseName(named) = ExtractBaseName(name)
    BY <1>4, IdentityOfChild, BaseNameOfChild, Zenon
<1>6. LET hop   == [name |-> name, id |-> id, operation |-> "Child"]
          whole == <<hop>> \o TraceHistory(name, MaxTrace)
      IN  TraceHistory(named, MaxTrace) = SubSeq(whole, 1, Min({Len(whole), MaxTrace}))
    BY <1>3, <1>4, HistoryOfChild, Zenon
<1> QED BY <1>1, <1>5, <1>6, Zenon

LEMMA ImportsYieldStep ==
    ASSUME EMInv, NEW c \in DOMAIN map.children, ImportChildNames(c), ~map'.overwritten,
           NEW i \in DOMAIN map.names
    PROVE  map'.names[i] = map.names[i] /\ map'.owner[map.names[i]] = i
<1>1. EMInv' /\ KeepsNames(map', map)
    BY ImportKeepsNames
<1>2. i \in DOMAIN map'.names /\ map'.names[i] = map.names[i]
    BY <1>1, Zenon DEF KeepsNames
<1>3. NamesFound'
    BY <1>1, FitsTellsTypes, PTL
<1>4. map'.owner[map'.names[i]] = i
    BY <1>2, <1>3, Zenon DEF NamesFound
<1> QED BY <1>2, <1>4

(* Names lead back, whatever the elements, the names and identities that    *)
(* come in and the bounds: a name leads to the element that bears it        *)
(* (setElementName, removeElement and clear of naming/element_map.cpp), a   *)
(* name that was imported tells the operation and then the history it had   *)
(* (encodeElementName, traceHistory), and importChildNames takes no name.   *)
THEOREM NamesAlwaysLeadBack == EMSpec => NamesLeadBack
<1>1. EMInv /\ [EMNext]_emVars => EMInv'
    BY EMNext_EMInv
<1>2. EMInv => EMTypeOK /\ ReverseSound /\ NamesFound /\ HistoryComposes
    BY FitsTellsTypes, FitsComposes
<1>3. EMInv => \A c \in DOMAIN map.children :
                  ImportChildNames(c) /\ ~map'.overwritten =>
                      \A i \in DOMAIN map.names :
                          /\ map'.names[i] = map.names[i]
                          /\ map'.owner[map.names[i]] = i
    BY ImportsYieldStep, Zenon
<1> QED BY <1>1, <1>2, <1>3, EMInit_EMInv, PTL DEF EMSpec, NamesLeadBack, ImportsYield

=============================================================================
