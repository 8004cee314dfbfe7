----------------------------- MODULE ElementMap ----------------------------
(***************************************************************************)
(* The two-way map between the indexed elements of a shape and their       *)
(* persistent names (naming/element_map.h, naming/element_map.cpp).        *)
(*                                                                         *)
(* A name is a sequence of tokens: a base name, then the postfixes an      *)
(* operation appends to it.  <<"P", document, counter>> is an identity,    *)
(* <<"H", scalar>> the identity of format v1, <<"Q", document>> the        *)
(* document of the name, <<"D", n>> a disambiguation, and <<"M">>, <<"G">>,*)
(* <<"MG">>, <<"C">> say how the element came about.  <<"Plin">> is the    *)
(* postfix of patterns, which begins like an identity and does not parse   *)
(* as one.                                                                 *)
(***************************************************************************)
EXTENDS FiniteSets, SequencesExt, ShapeIdentity

CONSTANTS
    Elements,     \* IndexedNames, in the order of the std::map: 1..n
    GivenNames,   \* names callers give to elements
    ChildIds,     \* identities of the operations that bring in child maps
    MaxAttempts,  \* disambiguations tried, 100 in the code
    MaxTrace,     \* hops traceHistory follows, 50 in the code
    MaxCalls      \* bound on calls

\* A text is a sequence of tokens, whatever these are.
IsText(name) == name \in Seq(ToSet(name))

ASSUME ElementMapAssumption ==
    /\ IsFiniteSet(Elements) /\ Elements = 1..Cardinality(Elements)
    /\ \A name \in GivenNames : IsText(name)
    /\ \A id \in ChildIds : id \in ShapeIdentities /\ id.counter # 0
    /\ MaxAttempts \in Nat \ {0} /\ MaxTrace \in Nat

VARIABLES
    map,     \* names (indexToMapped_), owner (mappedToIndex_), children_ and
             \* whether some element's name was ever taken over by another one
    mapCalls \* calls made, for the bound

emVars == <<map, mapCalls>>

EmptyNames == [i \in {} |-> <<>>]
EmptyMap   == [names |-> EmptyNames, owner |-> [n \in {} |-> 0], children |-> <<>>,
               overwritten |-> FALSE]

-----------------------------------------------------------------------------
(* Names *)

Code(name, p) == name[p][1]

(* data += ";D<n>" *)
Disambiguated(name, n) == Append(name, <<"D", n>>)

(* encodeElementName *)
EncodeElementName(name, id, postfix) ==
    name \o <<<<"P", id.documentId, id.counter>>, <<postfix>>>>

(* extractDocumentId: the last ;:Q, 0 when there is none *)
ExtractDocumentId(name) ==
    LET at == {p \in DOMAIN name : Code(name, p) = "Q"}
    IN  IF at = {} THEN 0 ELSE name[CHOOSE p \in at : \A q \in at : q <= p][2]

Marker(name) == {p \in DOMAIN name : Code(name, p) \in {"P", "Plin", "H"}}

(* A payload that is no identity, or a scalar that belongs to another      *)
(* document than the ;:Q names.                                            *)
Malformed(name, p) ==
    \/ Code(name, p) = "Plin"
    \/ Code(name, p) = "H" /\ HintMismatch(name[p][2], ExtractDocumentId(name))

IdentityAt(name, p) ==
    IF Code(name, p) = "P" THEN Identity(name[p][2], name[p][3])
    ELSE DecodeV1Scalar(name[p][2], ExtractDocumentId(name))

(* extractShapeIdentity: the rightmost marker decides; without one, or     *)
(* with one that does not decode, the identity is {0, 0}.                  *)
ExtractShapeIdentity(name) ==
    IF Marker(name) = {} THEN Identity(0, 0)
    ELSE LET p == CHOOSE p \in Marker(name) : \A q \in Marker(name) : q <= p
         IN  IF Malformed(name, p) THEN Identity(0, 0) ELSE IdentityAt(name, p)

(* extractBaseName: what precedes the first postfix that starts with ";:" *)
ExtractBaseName(name) ==
    LET cut == {p \in DOMAIN name : Code(name, p) \in {"P", "H", "Q", "M", "G", "MG", "C", "Plin"}}
    IN  IF cut = {} THEN name
        ELSE SubSeq(name, 1, (CHOOSE p \in cut : \A q \in cut : p <= q) - 1)

(* The text after the value is matched against ";:M" before ";:MG". *)
OperationAt(name, p) ==
    IF p = Len(name) THEN "Unknown"
    ELSE CASE Code(name, p + 1) \in {"M", "MG"} -> "Modified"
           [] Code(name, p + 1) = "G"           -> "Generated"
           [] Code(name, p + 1) = "C"           -> "Child"
           [] OTHER                             -> "Unknown"

(* The marker with k - 1 markers to its right. *)
KthNewest(name, k) ==
    CHOOSE p \in Marker(name) : Cardinality({q \in Marker(name) : q > p}) = k - 1

(* traceHistory: the hops from the newest to the oldest, cut off after     *)
(* maxDepth hops and at the first marker that does not decode.             *)
TraceHistory(name, maxDepth) ==
    LET newestFirst == [k \in 1..Cardinality(Marker(name)) |-> KthNewest(name, k)]
        bad         == {k \in DOMAIN newestFirst :
                          \/ Malformed(name, newestFirst[k])
                          \/ /\ Code(name, newestFirst[k]) = "P"
                             /\ IdentityAt(name, newestFirst[k]) = Identity(0, 0)}
        hops        == {k \in DOMAIN newestFirst :
                          k <= maxDepth /\ \A b \in bad : k < b}
    IN  [k \in hops |->
            LET p == newestFirst[k]
            IN  [name |-> SubSeq(name, 1, p - 1), id |-> IdentityAt(name, p),
                 operation |-> OperationAt(name, p)]]

-----------------------------------------------------------------------------
(* The two directions *)

Without(f, S) == [x \in DOMAIN f \ S |-> f[x]]
With(f, x, y) == [z \in DOMAIN f \cup {x} |-> IF z = x THEN y ELSE f[z]]

(* Mutant of Entered: the reverse entry of the name it had stays. *)
EnteredKeepingOld(m, i, name) ==
    [m EXCEPT !.names = With(@, i, name), !.owner = With(@, name, i)]

(* Element i gets this name: what it had, and whoever had the name, lose   *)
(* their reverse entries.                                                  *)
Entered(m, i, name) ==
    LET old == IF i \in DOMAIN m.names THEN {m.names[i]} ELSE {}
    IN  [m EXCEPT !.names = With(@, i, name),
                  !.owner = With(Without(@, old), name, i)]

(* Names to try in turn when the name belongs to another element. *)
Attempts(m, name) ==
    {k \in 1..MaxAttempts : Disambiguated(name, k) \notin DOMAIN m.owner}

TakesOver(m, i, name, overwrite) ==
    /\ name \in DOMAIN m.owner
    /\ m.owner[name] # i
    /\ overwrite \/ Attempts(m, name) = {}

(* The name setElementName settles on: the one asked for if it is free, or *)
(* the element's already, or to be overwritten.                            *)
ChosenName(m, i, name, overwrite) ==
    IF \/ name \notin DOMAIN m.owner
       \/ m.owner[name] = i
       \/ TakesOver(m, i, name, overwrite)
    THEN name
    ELSE Disambiguated(name, CHOOSE k \in Attempts(m, name) :
                                 \A l \in Attempts(m, name) : k <= l)

(* setElementName: nothing happens for an empty name, and for a name the   *)
(* element has already.                                                    *)
WithElementName(m, i, name, overwrite) ==
    IF name = <<>> \/ (name \in DOMAIN m.owner /\ m.owner[name] = i) THEN m
    ELSE [Entered(m, i, ChosenName(m, i, name, overwrite))
              EXCEPT !.overwritten = @ \/ TakesOver(m, i, name, overwrite)]

WithoutElement(m, i) ==
    IF i \notin DOMAIN m.names THEN m
    ELSE [m EXCEPT !.names = Without(@, {i}), !.owner = Without(@, {m.names[i]})]

(* An element of the same index that has a name keeps it. *)
WithChildName(m, child, i, id, postfix) ==
    IF i \notin DOMAIN child.names \/ i \in DOMAIN m.names THEN m
    ELSE WithElementName(m, i, EncodeElementName(child.names[i], id, postfix), FALSE)

(* importChildNames, in the order of the child's std::map *)
WithChildNames(m, child, id, postfix) ==
    LET imported[i \in 0..Cardinality(Elements)] ==
            IF i = 0 THEN m ELSE WithChildName(imported[i - 1], child, i, id, postfix)
    IN  imported[Cardinality(Elements)]

-----------------------------------------------------------------------------
EMInit ==
    /\ map = EmptyMap
    /\ mapCalls = 0

Called ==
    /\ mapCalls < MaxCalls
    /\ mapCalls' = mapCalls + 1

SetElementName(i, name, overwrite) ==
    /\ Called
    /\ map' = WithElementName(map, i, name, overwrite)

RemoveElement(i) ==
    /\ Called
    /\ map' = WithoutElement(map, i)

Clear ==
    /\ Called
    /\ map' = EmptyMap

(* addChild, as patterns use it: the result is named anew and the map of   *)
(* the input becomes the child of the new one.                             *)
AddChildToResult(id, postfix) ==
    /\ Called
    /\ map' = [EmptyMap EXCEPT
                  !.children = <<[map |-> <<map>>, id |-> id, postfix |-> postfix]>>]

(* addChild of a child without a map *)
AddEmptyChild(id) ==
    /\ Called
    /\ map' = [map EXCEPT
                  !.children = Append(@, [map |-> <<>>, id |-> id, postfix |-> "C"])]

ImportChildNames(c) ==
    /\ Called
    /\ map.children[c].map # <<>>
    /\ map' = WithChildNames(map, map.children[c].map[1], map.children[c].id,
                             map.children[c].postfix)

EMNext ==
    \/ \E i \in Elements, name \in GivenNames, overwrite \in BOOLEAN :
           SetElementName(i, name, overwrite)
    \/ \E i \in Elements : RemoveElement(i)
    \/ Clear
    \/ \E id \in ChildIds, postfix \in {"C", "Plin"} : AddChildToResult(id, postfix)
    \/ \E id \in ChildIds : AddEmptyChild(id)
    \/ \E c \in DOMAIN map.children : ImportChildNames(c)

EMSpec == EMInit /\ [][EMNext]_emVars

-----------------------------------------------------------------------------
(* What an element map promises of its two directions.                     *)
(* The type invariant. *)
EMTypeOK ==
    /\ DOMAIN map.names \subseteq Elements
    /\ \A i \in DOMAIN map.names : map.names[i] # <<>>
    /\ \A name \in DOMAIN map.owner : map.owner[name] \in Elements
    /\ map.overwritten \in BOOLEAN

(* A name that is looked up leads to an element that bears it: also after  *)
(* names were overwritten, and after elements were renamed or removed that *)
(* had lost their name to another one.                                     *)
ReverseSound ==
    \A name \in DOMAIN map.owner :
        /\ map.owner[name] \in DOMAIN map.names
        /\ map.names[map.owner[name]] = name

(* As long as no name was taken over, every named element is found by its  *)
(* name, and so no two elements share one.                                 *)
NamesFound ==
    ~map.overwritten =>
        \A i \in DOMAIN map.names :
            map.names[i] \in DOMAIN map.owner /\ map.owner[map.names[i]] = i

(* "Child names are lower priority": an import changes neither the name of *)
(* a named element nor what its name leads to.                             *)
ImportsYield ==
    [][ \A c \in DOMAIN map.children :
            ImportChildNames(c) /\ ~map'.overwritten =>
                \A i \in DOMAIN map.names :
                    /\ map'.names[i] = map.names[i]
                    /\ map'.owner[map.names[i]] = i ]_emVars

(* An imported name tells the operation that brought it in, and then       *)
(* everything the child's name told: the history of a name is that of its  *)
(* input and one hop more, up to the depth to which histories are traced.  *)
HistoryComposes ==
    \A id \in ChildIds, i \in DOMAIN map.names :
        LET name  == map.names[i]
            named == EncodeElementName(name, id, "C")
            hop   == [name |-> name, id |-> id, operation |-> "Child"]
            whole == <<hop>> \o TraceHistory(name, MaxTrace)
        IN  /\ ExtractShapeIdentity(named) = id
            /\ ExtractBaseName(named) = ExtractBaseName(name)
            /\ TraceHistory(named, MaxTrace) = SubSeq(whole, 1, Min({Len(whole), MaxTrace}))

(* Names lead back: to the element that bears them, and to the inputs and  *)
(* operations they come from; and imports take none away.                  *)
NamesLeadBack ==
    [](EMTypeOK /\ ReverseSound /\ NamesFound /\ HistoryComposes) /\ ImportsYield

=============================================================================
