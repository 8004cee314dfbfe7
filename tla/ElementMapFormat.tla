-------------------------- MODULE ElementMapFormat -------------------------
(***************************************************************************)
(* The buffer an element map is written to and read from                   *)
(* (ElementMap::serialize, deserializeWithDepth in naming/element_map.cpp).*)
(*                                                                         *)
(* Format 3 carries whole identities, format 2 their v1 scalars; format 2  *)
(* is only read.  A buffer is a record of what its bytes say; that bytes   *)
(* are damaged is not modelled.                                            *)
(***************************************************************************)
EXTENDS ElementMap

CONSTANTS
    MaxDepth,  \* kMaxElementMapRecursionDepth, 16 in the code
    Hints      \* document ids a reader passes as the hint

Rejected == [version |-> 0]

(* Entries go out in the order of the std::map. *)
WrittenEntries(m, Carried(_)) ==
    LET order == SetToSortSeq(DOMAIN m.names, <)
    IN  [k \in DOMAIN order |->
            [index |-> order[k], name |-> m.names[order[k]],
             carried |-> Carried(ExtractShapeIdentity(m.names[order[k]]))]]

(* serialize: a child without a map writes a length of zero. *)
RECURSIVE Serialize(_)
Serialize(m) ==
    [version  |-> 3,
     entries  |-> WrittenEntries(m, LAMBDA id : id),
     children |-> [c \in DOMAIN m.children |->
                      [carried |-> m.children[c].id, postfix |-> m.children[c].postfix,
                       data |-> IF m.children[c].map = <<>> THEN <<>>
                                ELSE <<Serialize(m.children[c].map[1])>>]]]

(* What the writers of format 2 wrote for it: an identity became a scalar, *)
(* none the scalar 0.                                                      *)
Scalar(id) == IF IsValid(id) THEN EncodeV1Scalar(id) ELSE 0

RECURSIVE SerializeV2(_)
SerializeV2(m) ==
    [version  |-> 2,
     entries  |-> WrittenEntries(m, Scalar),
     children |-> [c \in DOMAIN m.children |->
                      [carried |-> Scalar(m.children[c].id), postfix |-> m.children[c].postfix,
                       data |-> IF m.children[c].map = <<>> THEN <<>>
                                ELSE <<SerializeV2(m.children[c].map[1])>>]]]

-----------------------------------------------------------------------------
(* A scalar of another document than the hint fails the whole buffer. *)
Decodes(buffer, carried, hint) ==
    buffer.version = 3 \/ ~HintMismatch(carried, hint)

Decoded(buffer, carried, hint) ==
    IF buffer.version = 3 THEN carried ELSE DecodeV1Scalar(carried, hint)

(* The identities of the entries are read and dropped: they live in the    *)
(* names, which are entered as by any caller.                              *)
ReadEntries(buffer) ==
    FoldLeft(LAMBDA m, e : WithElementName(m, e.index, e.name, FALSE),
             EmptyMap, buffer.entries)

(* deserializeWithDepth: any failure below rejects the buffer. *)
RECURSIVE Deserialize(_, _, _)
Deserialize(buffer, hint, depth) ==
    LET Child(c) ==
            [map |-> IF buffer.children[c].data = <<>> THEN <<>>
                     ELSE <<Deserialize(buffer.children[c].data[1], hint, depth + 1)>>,
             id |-> Decoded(buffer, buffer.children[c].carried, hint),
             postfix |-> buffer.children[c].postfix]
    IN  IF \/ depth > MaxDepth
           \/ \E k \in DOMAIN buffer.entries :
                 ~Decodes(buffer, buffer.entries[k].carried, hint)
           \/ \E c \in DOMAIN buffer.children :
                 \/ ~Decodes(buffer, buffer.children[c].carried, hint)
                 \/ Child(c).map = <<Rejected>>
        THEN Rejected
        ELSE [ReadEntries(buffer) EXCEPT
                 !.children = [c \in DOMAIN buffer.children |-> Child(c)]]

-----------------------------------------------------------------------------
(* What saving and loading owe the map *)

RECURSIVE Depth(_)
Depth(m) ==
    Max({0} \cup {1 + Depth(c.map[1]) : c \in {k \in ToSet(m.children) : k.map # <<>>}})

RECURSIVE NeverOverwritten(_)
NeverOverwritten(m) ==
    /\ ~m.overwritten
    /\ \A c \in ToSet(m.children) : c.map # <<>> => NeverOverwritten(c.map[1])

(* A saved map is read back exactly, children included, whatever the hint: *)
(* unless names in it were overwritten, or it nests deeper than the reader *)
(* accepts, which the writer does not check.                               *)
SavedMapReadsBack ==
    NeverOverwritten(map) =>
        \A hint \in Hints :
            Deserialize(Serialize(map), hint, 0) =
                IF Depth(map) <= MaxDepth THEN map ELSE Rejected

(* A map of format 2 read with the id of its document as the hint: read    *)
(* when no identity in it is of another document, and a child's identity   *)
(* of that document comes back whole, although its scalar had lost half of *)
(* the document id.                                                        *)
OfDocument(m, hint) ==
    /\ \A i \in DOMAIN m.names : ExtractShapeIdentity(m.names[i]).documentId \in {0, hint}
    /\ \A c \in ToSet(m.children) : c.id.documentId = hint

LegacyMapReadsBack ==
    \A hint \in Hints :
        LET read == Deserialize(SerializeV2(map), hint, 0)
        IN  /\ OfDocument(map, hint) /\ Depth(map) = 0 => read # Rejected
            /\ read # Rejected /\ ~map.overwritten =>
                  /\ read.names = map.names
                  /\ \A c \in DOMAIN map.children :
                        map.children[c].id.documentId = hint =>
                            read.children[c].id = map.children[c].id

=============================================================================
