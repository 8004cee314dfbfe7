----------------------- MODULE TagAllocatorProperties -----------------------
(***************************************************************************)
(* What allocators owe the shapes they name.                               *)
(***************************************************************************)
EXTENDS TagAllocator

Blocks == [documentId : UInt64, first : Int64, last : Int64]

(* TATypeOK: counters are 64-bit and handles 32-bit two's complement         *)
(* integers, v1 tags are int64, document ids are unsigned.                 *)
TATypeOK ==
    /\ live \subseteq Allocators
    /\ documentId \in [Allocators -> UInt64]
    /\ counter \in [Allocators -> Int64]
    /\ occtTagMap \in [Allocators -> SUBSET (ShapeIdentities \X (1..Int32Max))]
    /\ answers \in [Allocators -> SUBSET (ShapeIdentities \X (1..Int32Max))]
    /\ nextOcctTag \in [Allocators -> (-Int32Max - 1)..Int32Max]
    /\ registry \subseteq UInt64 \ {0}
    /\ snapshots \subseteq [counter : 0..Int64Max, documentId : UInt64]
    /\ issued \in [Allocators -> Seq(Blocks)]
    /\ overflowed \subseteq Allocators
    /\ tags \subseteq Int64 \X ShapeIdentities
    /\ calls \in 0..MaxCalls

Disjoint(b, c) == b.documentId # c.documentId \/ b.last < c.first \/ c.last < b.first

(* IssuedOnce: until its counter overflows or its caller discards what it  *)
(* handed out (a reset or a forced restore), an allocator hands out no     *)
(* identity twice, through single calls, ranges, failed calls, late seeds  *)
(* and restores, whichever documents those name.                           *)
IssuedOnce ==
    \A a \in Allocators \ overflowed :
        \A i, j \in DOMAIN issued[a] : i # j => Disjoint(issued[a][i], issued[a][j])

(* IssuedValid: no identity handed out has the counter 0 that marks an     *)
(* unset one, nor a counter that is negative as an int64.                  *)
IssuedValid ==
    \A a \in Allocators : \A b \in ToSet(issued[a]) : 0 < b.first /\ b.first <= b.last

(* AllocatorConsistent: integers keep their width, and identities are valid *)
(* and handed out once.                                                    *)
AllocatorConsistent == TATypeOK /\ IssuedValid /\ IssuedOnce

MultiDocTags == {t \in tags : ~IsSingleDoc(t[2])}

(* MultiDocTagsDistinct: two documents that allocators were created for    *)
(* (or set to) in a process never share a v1 tag, although a tag has room  *)
(* for half of a document id only: the registry refuses the second.        *)
MultiDocTagsDistinct == \A t, u \in MultiDocTags : t[1] = u[1] => t[2] = u[2]

(* MultiDocTagsDecode: the tag of a document decodes to the identity it    *)
(* was made from, given the document, also when it is negative.            *)
MultiDocTagsDecode ==
    \A t \in MultiDocTags :
        /\ ~HintMismatch(t[1], t[2].documentId)
        /\ DecodeV1Scalar(t[1], t[2].documentId) = t[2]

(* OcctTagsStable: between two resets an allocator answers the same        *)
(* identity with the same OCCT tag, whatever it is restored to.            *)
OcctTagsStable ==
    \A a \in Allocators : \A x, y \in answers[a] : x[1] = y[1] => x[2] = y[2]

(* TagsNameOneIdentity: the shorter tags that documents and OCCT are given *)
(* for identities go on standing for the same one.                         *)
TagsNameOneIdentity == MultiDocTagsDistinct /\ MultiDocTagsDecode /\ OcctTagsStable

=============================================================================
