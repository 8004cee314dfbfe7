---------------------------- MODULE ShapeNaming ----------------------------
(***************************************************************************)
(* How the elements of an operation's result get their names from those of *)
(* its inputs: mapShapeElements (naming/map_shape_elements.cpp) and        *)
(* TopoShapeAdapter::buildElementMap (naming/topo_shape_adapter.cpp) over  *)
(* the element map of naming/freecad/ElementMap.cpp.                       *)
(*                                                                         *)
(* An element is <<kind, index>>.  A name is a sequence of tokens          *)
(* <<code, number>>: the code says what the token is, and names are        *)
(* compared token by token.                                                *)
(***************************************************************************)
EXTENDS SequencesExt, ShapeIdentity

CONSTANTS
    InputChoices,  \* sequences of [elements, names |-> element :> name, id]
    ResultElements,
    Topologies,    \* [subs |-> element :> sequence of its lower elements,
                   \*  outer |-> face :> sequence of the edges of its outer wire]
    OpId,          \* identity of the operation
    Shapes,        \* what an operation may report as generated
    MaxRecords     \* bound on what the operation reports

Vertex == 0
Edge   == 1
Face   == 2

(* Codes of the tokens, in the order of their characters. *)
Base   == 0
Dup    == 1
Gen    == 2
Mod    == 3
ModGen == 4
Tagged == 5     \* ";:H<tag>:<length>,<kind>"
Legacy == 6     \* ";:H<scalar>" of format v1
Key    == 7     \* ";:K<index>"
Lower  == 8
Upper  == 9
Hop    == 10
Open   == 11
Bar    == 12
Close  == 13
Index  == 14

(* Stand for INT_MIN and INT_MIN + 1 *)
Parallel == -1000
Coplanar == -999

VARIABLES
    history,    \* the result, and what the operation reports of its inputs'
                \* elements
    naming      \* <<>>, or <<the names of the result>>

snVars == <<history, naming>>

Inputs == history.inputs

InputElements == UNION {{<<k, x>> : x \in Inputs[k].elements} : k \in DOMAIN Inputs}
Kind(ix) == ix[2][1]

-----------------------------------------------------------------------------
(* Orders *)

TokenLess(s, t) == s[1] < t[1] \/ (s[1] = t[1] /\ s[2] < t[2])

NameLess(a, b) ==
    \E p \in DOMAIN b :
        /\ \A q \in 1..(p - 1) : q \in DOMAIN a /\ a[q] = b[q]
        /\ p \in DOMAIN a => TokenLess(a[p], b[p])

(* A set in the order of a std::map *)
Sorted(S, Less(_, _)) ==
    [p \in 1..Cardinality(S) |->
        CHOOSE x \in S : Cardinality({y \in S : Less(y, x)}) = p - 1]

SmallestName(S) == CHOOSE n \in S : \A o \in S \ {n} : NameLess(n, o)

(* Of IndexedName: Edge, Face, Vertex, and by index *)
ElementLess(x, y) ==
    LET rank(e) == (e[1] + 2) % 3
    IN  rank(x) < rank(y) \/ (rank(x) = rank(y) /\ x[2] < y[2])

InOrder(S) == Sorted(S, ElementLess)
OfKind(k)  == {e \in ResultElements : e[1] = k}

(* NameKey::operator< *)
KeyLess(s, t) ==
    \/ s.level < t.level
    \/ s.level = t.level /\ s.tag < t.tag
    \/ s.level = t.level /\ s.tag = t.tag /\ NameLess(s.name, t.name)

-----------------------------------------------------------------------------
(* Data::ElementMap: an element may have several names, the first counts. *)

Unnamed(st, e) == st.names[e] = <<>>
NameOf(st, e)  == st.names[e][1]

(* encodeElementName without a tag: the tag the name ends in is repeated. *)
WithOwnTag(name, ops) ==
    name \o ops \o (IF Last(name)[1] = Tagged THEN <<Last(name)>> ELSE <<>>)

(* encodeElementName with an input's tag: nothing is added when there is no *)
(* postfix and the name ends in that tag.                                   *)
WithTag(name, ops, tag) ==
    IF ops = <<>> /\ Last(name) = <<Tagged, tag>> THEN name
    ELSE name \o ops \o <<<<Tagged, tag>>>>

(* setElementName of FreeCAD's map: a name that another element has gets a *)
(* random number (renameDuplicateElement), st.draw.                        *)
Assign(st, e, name) ==
    LET owners == {x \in ResultElements : name \in Range(st.names[x])}
        renamed == WithOwnTag(name, <<<<Dup, st.draw>>>>)
    IN  IF owners = {}
        THEN [st EXCEPT !.names[e] = Append(@, name)]
        ELSE IF e \in owners THEN st
        ELSE [st EXCEPT !.names[e] = Append(@, renamed), !.draw = @ + 1]

-----------------------------------------------------------------------------
(* mapSubElement: an element that the result shares with an input keeps    *)
(* the name the first such input gives it.                                 *)
ReportOrder(ix, jx) ==
    \/ ix[1] < jx[1]
    \/ ix[1] = jx[1] /\ Kind(ix) < Kind(jx)
    \/ ix[1] = jx[1] /\ Kind(ix) = Kind(jx) /\ ix[2][2] < jx[2][2]

(* Mutant of MapSubElement: an unchanged element counts as modified. *)
MapSubElementTagged(h, st) ==
    LET named == {ix \in DOMAIN h.kept : ix[2] \in DOMAIN Inputs[ix[1]].names}
        Import(acc, ix) ==
            Assign(acc, h.kept[ix], WithTag(Inputs[ix[1]].names[ix[2]], <<>>, ix[1]))
    IN  FoldLeft(Import, st, Sorted(named, ReportOrder))

MapSubElement(h, st) ==
    LET named == {ix \in DOMAIN h.kept : ix[2] \in DOMAIN Inputs[ix[1]].names}
        Import(acc, ix) ==
            IF Unnamed(acc, h.kept[ix]) THEN Assign(acc, h.kept[ix], Inputs[ix[1]].names[ix[2]])
            ELSE acc
    IN  FoldLeft(Import, st, Sorted(named, ReportOrder))

InputName(ix) ==
    LET names == Inputs[ix[1]].names
    IN  IF ix[2] \in DOMAIN names THEN names[ix[2]]
        ELSE <<<<Index, 10 * ix[2][1] + ix[2][2]>>>>

(* Pass 1: what one input element contributes, in the order of the reports; *)
(* elements of a larger shape come after all others (level + 3).            *)
FromModified(h, ix) ==
    [p \in DOMAIN h.modified[ix] |->
        [to |-> h.modified[ix][p], level |-> Kind(ix), tag |-> ix[1],
         name |-> InputName(ix), index |-> p]]

(* The number of an element runs over all generated shapes of the input     *)
(* element, those of the parallel and the coplanar face over one of them.   *)
FromGenerated(h, ix) ==
    LET Expand(acc, s) ==
            acc \o [p \in DOMAIN s.parts |->
                [to |-> s.parts[p], tag |-> ix[1], name |-> InputName(ix),
                 level |-> IF s.larger THEN Kind(ix) + 3 ELSE Kind(ix),
                 index |-> LET counter == Len(acc) + p
                               flat    == s.larger /\ Kind(ix) = Face
                           IN  IF flat /\ counter = s.parallel THEN Parallel
                               ELSE IF flat /\ counter = s.coplanar THEN Coplanar
                               ELSE -counter]]
    IN  FoldLeft(Expand, <<>>, h.generated[ix])

(* Of one source the last report counts. *)
LastReports(all) ==
    {all[p] : p \in {p \in DOMAIN all :
                \A q \in DOMAIN all :
                    all[q].to = all[p].to /\ all[q].level = all[p].level => q <= p}}

SourcesOf(e, found) == Sorted({f \in found : f.to = e}, KeyLess)

(* newNames: unnamed elements with their sources. *)
NewNames(h, st) ==
    LET found == UNION {LastReports(FromModified(h, ix) \o FromGenerated(h, ix)) : ix \in InputElements}
    IN  [e \in {f.to : f \in found} \cap {r \in ResultElements : Unnamed(st, r)} |->
            SourcesOf(e, found)]

-----------------------------------------------------------------------------
(* Direct naming *)

Number(index) ==
    IF index = Parallel THEN 0 ELSE IF index = Coplanar THEN -1
    ELSE IF index < 0 THEN -index ELSE index

Others(sources) ==
    LET later == {p \in 2..Len(sources) :
                    ~(sources[1].level < 3 /\ \E q \in 2..p : sources[q].level >= 3)}
    IN  SubSeq(sources, 2, Min({Cardinality(later), 4}) + 1)

OtherName(o) ==
    WithTag(o.name, IF o.index = 1 THEN <<>> ELSE <<<<Key, o.index>>>>, o.tag)

OtherNames(others) ==
    IF others = <<>> THEN <<>>
    ELSE LET Join(acc, o) == acc \o <<<<IF acc = <<>> THEN Open ELSE Bar, 0>>>> \o OtherName(o)
         IN  FoldLeft(Join, <<>>, others) \o <<<<Close, 0>>>>

DirectName(sources) ==
    LET first  == sources[1]
        others == Others(sources)
        mixed  == \E o \in Range(others) : (first.index > 0) # (o.index > 0)
        code   == IF mixed THEN ModGen ELSE IF first.index > 0 THEN Mod ELSE Gen
    IN  WithTag(first.name, <<<<code, Number(first.index)>>>> \o OtherNames(others), first.tag)

(* Larger shapes wait for the second round, unless the face is parallel or *)
(* coplanar to its source.                                                 *)
Waits(sources) == sources[1].level >= 3 /\ sources[1].index > Coplanar

DirectPass(new, st, delayed) ==
    LET Step(acc, e) ==
            IF ~delayed /\ Waits(new[e]) THEN acc
            ELSE IF ~delayed /\ ~Unnamed(acc, e) THEN [acc EXCEPT !.pending = @ \ {e}]
            ELSE LET named == Assign(acc, e, DirectName(new[e]))
                 IN  IF ~delayed /\ new[e][1].level < 3
                     THEN [named EXCEPT !.pending = @ \ {e}] ELSE named
    IN  FoldLeft(Step, st, InOrder(st.pending))

-----------------------------------------------------------------------------
(* The reverse pass names lower elements after higher ones: the smallest   *)
(* name, and the place of the element among the unnamed ones of that       *)
(* higher element.                                                         *)
Mentions(st, kind, delayed) ==
    {<<u, x>> \in OfKind(kind) \X OfKind(kind - 1) :
        /\ u \in st.pending <=> delayed
        /\ ~Unnamed(st, u)
        /\ x \in Range(st.shape.subs[u])
        /\ Unnamed(st, x)}

PlaceIn(st, u, x) ==
    LET unnamed == SelectSeq(st.shape.subs[u], LAMBDA y : Unnamed(st, y))
    IN  CHOOSE p \in DOMAIN unnamed : unnamed[p] = x

(* Mutant of ReverseKind: the first higher element, not the smallest name. *)
ReverseKindByIndex(st, kind, delayed) ==
    LET told == Mentions(st, kind, delayed)
        Name(acc, x) ==
            LET uppers == {m[1] : m \in {m \in told : m[2] = x}}
                u == CHOOSE u \in uppers : \A w \in uppers : u[2] <= w[2]
            IN  Assign(acc, x, WithOwnTag(NameOf(st, u), <<<<Upper, PlaceIn(st, u, x)>>>>))
    IN  FoldLeft(Name, st, InOrder({m[2] : m \in told}))

ReverseKind(st, kind, delayed) ==
    LET told == Mentions(st, kind, delayed)
        Name(acc, x) ==
            LET uppers == {m[1] : m \in {m \in told : m[2] = x}}
                name   == SmallestName({NameOf(st, u) : u \in uppers})
                u      == CHOOSE u \in uppers : NameOf(st, u) = name
            IN  Assign(acc, x, WithOwnTag(name, <<<<Upper, PlaceIn(st, u, x)>>>>))
    IN  FoldLeft(Name, st, InOrder({m[2] : m \in told}))

ReversePass(st, delayed) ==
    ReverseKind(ReverseKind(st, Face, delayed), Edge, delayed)

-----------------------------------------------------------------------------
(* The forward pass names a higher element after its lower ones, when all  *)
(* of them are settled; of a face those on the outer wire.                 *)
Bounds(shape, e) == IF e[1] = Face THEN shape.outer[e] ELSE shape.subs[e]

Settled(st, e, delayed) ==
    /\ Bounds(st.shape, e) # <<>>
    /\ \A x \in Range(Bounds(st.shape, e)) :
           ~Unnamed(st, x) /\ (delayed \/ x \notin st.pending)

ListedLower(rest) ==
    LET Join(acc, n) == acc \o <<<<IF acc = <<>> THEN Open ELSE Bar, 0>>>> \o n
    IN  IF rest = <<>> THEN <<>>
        ELSE FoldLeft(Join, <<>>, SubSeq(rest, 1, Min({Len(rest), 4}))) \o <<<<Close, 0>>>>

LowerName(names) ==
    LET first == SmallestName(names)
    IN  WithOwnTag(first, <<<<Lower, 0>>>> \o ListedLower(Sorted(names \ {first}, NameLess)))

ForwardPass(st, delayed) ==
    LET Name(acc, e) ==
            IF ~Unnamed(acc, e) THEN acc
            ELSE IF ~Settled(acc, e, delayed) THEN [acc EXCEPT !.hasUnnamed = TRUE]
            ELSE Assign(acc, e, LowerName({NameOf(acc, x) : x \in Range(Bounds(acc.shape, e))}))
    IN  FoldLeft(Name, [st EXCEPT !.hasUnnamed = FALSE],
                 InOrder(OfKind(Edge)) \o InOrder(OfKind(Face)))

Round(new, st, delayed) ==
    ForwardPass(ReversePass(DirectPass(new, st, delayed), delayed), delayed)

BlankMap(h, draw) ==
    [names |-> [e \in ResultElements |-> <<>>], pending |-> {},
     hasUnnamed |-> FALSE, draw |-> draw, shape |-> h.shape]

FirstRound(h, draw) ==
    LET kept == MapSubElement(h, BlankMap(h, draw))
        new  == NewNames(h, kept)
    IN  Round(new, [kept EXCEPT !.pending = DOMAIN new], FALSE)

SecondRound(new, once) ==
    IF once.hasUnnamed /\ once.pending # {} THEN Round(new, once, TRUE) ELSE once

(* buildElementMap: a second round if something stayed unnamed. *)
BuildElementMap(h, draw) ==
    SecondRound(NewNames(h, MapSubElement(h, BlankMap(h, draw))), FirstRound(h, draw))

-----------------------------------------------------------------------------
(* canonicalizeToV2: tags become the identities of the inputs; so do       *)
(* scalars of format v1 that equal a tag.                                  *)
TagIdentity(t) ==
    IF t \in DOMAIN Inputs THEN Inputs[t].id
    ELSE IF t = Len(Inputs) + 1 THEN OpId
    ELSE DecodeV1Scalar(t, OpId.documentId)

HopOf(id) == <<Hop, id.documentId * 100 + id.counter>>

Decodable(t) == t \in 1..(Len(Inputs) + 1) \/ ~HintMismatch(t, OpId.documentId)

Canonical(name) ==
    [p \in DOMAIN name |->
        IF name[p][1] \in {Tagged, Legacy} /\ Decodable(name[p][2])
        THEN HopOf(TagIdentity(name[p][2])) ELSE name[p]]

(* setElementName of the result's map *)
FreeName(acc, e, name) ==
    LET free(n) == \A x \in DOMAIN acc : acc[x] = n => x = e
        tries   == {k \in 1..100 : free(Append(name, <<Dup, k>>))}
    IN  IF free(name) THEN name
        ELSE Append(name, <<Dup, CHOOSE k \in tries : \A l \in tries : k <= l>>)

(* toNamedShape: the names in their order; the last one an element has     *)
(* wins, and one that another element has gets a number.                   *)
ToNamedShape(st) ==
    LET pairs == UNION {{<<n, e>> : n \in Range(st.names[e])} : e \in ResultElements}
        Enter(acc, ne) == (ne[2] :> FreeName(acc, ne[2], Canonical(ne[1]))) @@ acc
    IN  FoldLeft(Enter, [e \in {} |-> <<>>],
                 Sorted(pairs, LAMBDA s, t : NameLess(s[1], t[1])))

(* buildPrimitiveNames *)
PrimitiveNames ==
    [e \in ResultElements |-> <<<<Index, 10 * e[1] + e[2]>>, HopOf(OpId)>>]

MapShapeElements(h, draw) ==
    IF Inputs = <<>> THEN PrimitiveNames ELSE ToNamedShape(BuildElementMap(h, draw))

-----------------------------------------------------------------------------
EmptyHistory(inputs, shape) ==
    LET elements == UNION {{<<k, x>> : x \in inputs[k].elements} : k \in DOMAIN inputs}
    IN  [inputs    |-> inputs,
         shape     |-> shape,
         kept      |-> [ix \in {} |-> <<0, 0>>],
         modified  |-> [ix \in elements |-> <<>>],
         generated |-> [ix \in elements |-> <<>>]]

Records ==
    Cardinality(DOMAIN history.kept)
    + FoldSet(LAMBDA ix, n : n + Len(history.modified[ix]) + Len(history.generated[ix]), 0,
              InputElements)

SNInit ==
    /\ \E inputs \in InputChoices, shape \in Topologies :
           history = EmptyHistory(inputs, shape)
    /\ naming = <<>>

Reporting == naming = <<>> /\ Records < MaxRecords

(* The result shares an element with an input. *)
Keep(ix, e) ==
    /\ Reporting
    /\ ix \notin DOMAIN history.kept
    /\ \A jx \in DOMAIN history.kept : history.kept[jx] = e => jx[1] # ix[1]
    /\ e[1] = Kind(ix)
    /\ history' = [history EXCEPT !.kept = (ix :> e) @@ @]
    /\ UNCHANGED naming

(* ShapeMapper::modified, ShapeMapper::generated: the modeller reports      *)
(* elements of the same kind as modified, and none of a lower kind as       *)
(* generated.                                                               *)
Modify(ix, e) ==
    /\ Reporting
    /\ e[1] = Kind(ix)
    /\ history' = [history EXCEPT !.modified[ix] = Append(@, e)]
    /\ UNCHANGED naming

Generate(ix, shape) ==
    /\ Reporting
    /\ shape.parts[1][1] >= Kind(ix)
    /\ history' = [history EXCEPT !.generated[ix] = Append(@, shape)]
    /\ UNCHANGED naming

NameElements(draw) ==
    /\ naming = <<>>
    /\ naming' = <<MapShapeElements(history, draw)>>
    /\ UNCHANGED history

SNNext ==
    \/ \E ix \in InputElements, e \in ResultElements : Keep(ix, e)
    \/ \E ix \in InputElements, e \in ResultElements : Modify(ix, e)
    \/ \E ix \in InputElements, shape \in Shapes : Generate(ix, shape)
    \/ NameElements(1)

SNSpec == SNInit /\ [][SNNext]_snVars

-----------------------------------------------------------------------------
(* What the names of a result owe to its inputs and to its topology.       *)
Named   == naming # <<>>
Names   == naming[1]

(* No two elements competed for one name, here or as canonical names. *)
NoneCompete(st) ==
    /\ st.draw = 1
    /\ \A e, x \in ResultElements : e # x =>
           \A p \in DOMAIN st.names[e], q \in DOMAIN st.names[x] :
               Canonical(st.names[e][p]) # Canonical(st.names[x][q])
NoDuplicates == NoneCompete(BuildElementMap(history, 1))

(* The type invariant; names of a result are "pure v2": no tag of the      *)
(* naming pass is left in them.                                            *)
SNTypeOK ==
    /\ DOMAIN history.kept \subseteq InputElements
    /\ Named => \A e \in DOMAIN Names :
           e \in ResultElements /\ \A p \in DOMAIN Names[e] : Names[e][p][1] # Tagged

(* A permutation of the faces and one of the edges, as another build of    *)
(* the same geometry may number them.                                      *)
Renumberings == {r \in Permutations(ResultElements) : \A e \in ResultElements : r[e][1] = e[1]}

Renumbered(h, r) ==
    LET seq(s)   == [p \in DOMAIN s |-> IF s[p] \in ResultElements THEN r[s[p]] ELSE s[p]]
        old(e)   == CHOOSE x \in ResultElements : r[x] = e
    IN  [inputs |-> h.inputs,
         shape |-> [subs  |-> [e \in ResultElements |-> seq(h.shape.subs[old(e)])],
                    outer |-> [e \in OfKind(Face) |-> seq(h.shape.outer[old(e)])]],
         kept |-> [ix \in DOMAIN h.kept |-> r[h.kept[ix]]],
         modified |-> [ix \in InputElements |-> seq(h.modified[ix])],
         generated |-> [ix \in InputElements |->
             [p \in DOMAIN h.generated[ix] |->
                 [h.generated[ix][p] EXCEPT !.parts = seq(@)]]]]

(* Topological names other than those of primitives do not depend on how the modeller numbers the         *)
(* elements of the result, which may change with every recompute: the same *)
(* result with its elements renumbered gets the same names, as long as no  *)
(* two elements compete for one.                                           *)
NumberingIrrelevant ==
    Named /\ Inputs # <<>> /\ NoDuplicates =>
        \A r \in Renumberings :
            LET other == MapShapeElements(Renumbered(history, r), 1)
            IN  \A e \in DOMAIN Names : r[e] \in DOMAIN other /\ other[r[e]] = Names[e]

(* An element that comes unchanged from an input keeps its name, so that a *)
(* reference to it survives the operation, unless an element of another    *)
(* input has the same one.                                                 *)
UnchangedKeepNames ==
    Named => \A ix \in DOMAIN history.kept :
        LET e    == history.kept[ix]
            name == InputName(ix)
        IN  /\ ix[2] \in DOMAIN Inputs[ix[1]].names
            /\ \A jx \in DOMAIN history.kept : history.kept[jx] = e => ix[1] <= jx[1]
            /\ \A jx \in DOMAIN history.kept \ {ix} : Canonical(InputName(jx)) # Canonical(name)
            => e \in DOMAIN Names /\ Names[e] = Canonical(name)

(* The boundary of whatever the first round settles is named with it: all *)
(* edges of such a face, and the vertices of those edges.  (The second     *)
(* round names the edges of the faces that waited, not the vertices.)      *)
BoundaryNamed ==
    LET once == FirstRound(history, 1)
    IN  Named /\ Inputs # <<>> =>
            \A u \in ResultElements \ once.pending :
                ~Unnamed(once, u) =>
                    \A x \in Range(history.shape.subs[u]) : x \in DOMAIN Names

(* A name that an element of the result got from an element that was       *)
(* modified or generated begins with a name of such an element and goes on *)
(* with the identity of the input it is an element of, however many        *)
(* sources it lists.                                                       *)
DirectNamesTellSource ==
    LET kept == MapSubElement(history, BlankMap(history, 1))
        new  == NewNames(history, kept)
    IN  Named /\ NoDuplicates => \A e \in DOMAIN new :
            new[e][1].level < 3 =>
                \E s \in Range(new[e]) :
                    LET name == Names[e]
                    IN  /\ SubSeq(name, 1, Len(s.name)) = Canonical(s.name)
                        /\ Last(name) = HopOf(Inputs[s.tag].id)

(* Two elements of a result never end up with one name, also when their    *)
(* names differ only in inputs that have the same identity.                *)
NamesDistinct ==
    Named => \A e, x \in DOMAIN Names : Names[e] = Names[x] => e = x

(* The names of a result are well formed and distinct, and tell what became *)
(* of the elements of the inputs.                                          *)
ResultNamesSound ==
    SNTypeOK /\ NamesDistinct /\ UnchangedKeepNames /\ BoundaryNamed /\ DirectNamesTellSource

=============================================================================
