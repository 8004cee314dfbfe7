---------------------------- MODULE TagAllocator ----------------------------
(***************************************************************************)
(* The identity allocators of a process (core/tag_allocator.h): each       *)
(* belongs to a KernelContext and hands out shape identities, v1 tags and  *)
(* OCCT tags; one registry of document ids is global.                      *)
(*                                                                         *)
(* Allocation is one fetch_add whose result is checked afterwards: a call  *)
(* that throws has advanced the counter.  The counter is a wrapping int64. *)
(***************************************************************************)
EXTENDS ShapeIdentity, Sequences, SequencesExt, FiniteSets

CONSTANTS
    Allocators,   \* the contexts of the process
    DocumentIds,  \* documents they are created for
    Seeds,        \* counters they are created with
    RangeSizes,   \* arguments of allocateRange
    Foreign,      \* identities of shapes other processes made
    Persisted,    \* snapshots read from files
    MaxCalls      \* bound on the calls of a behaviour

ASSUME AllocatorAssumption ==
    /\ DocumentIds \subseteq UInt64
    /\ Seeds \subseteq 0..Int64Max
    /\ RangeSizes \subseteq 1..Int64Max
    /\ Foreign \subseteq ShapeIdentities
    /\ Persisted \subseteq [counter : 0..Int64Max, documentId : UInt64]
    /\ MaxCalls \in Nat

VARIABLES
    live,         \* the contexts that exist
    documentId,   \* documentId_
    counter,      \* counter_
    occtTagMap,   \* occtTagMap_, a set of <<identity, handle>>
    nextOcctTag,  \* nextOcctTag_
    registry,     \* docIdRegistry_: the document ids registered
    snapshots,    \* the snapshots callers hold
    issued,       \* history: blocks of identities handed out, by allocator,
                  \* since the caller last discarded what was handed out
    overflowed,   \* history: the allocators whose counter wrapped since
    tags,         \* history: <<tag, identity>> of nextTag
    answers,      \* history: <<identity, OCCT tag>>, by allocator
    calls         \* bounds a behaviour

allocator == <<live, documentId, counter, occtTagMap, nextOcctTag>>
history   == <<issued, overflowed, tags, answers>>
taVars      == <<allocator, registry, snapshots, history, calls>>

TAInit ==
    /\ live = {}
    /\ documentId = [a \in Allocators |-> 0]
    /\ counter = [a \in Allocators |-> 0]
    /\ occtTagMap = [a \in Allocators |-> {}]
    /\ nextOcctTag = [a \in Allocators |-> 1]
    /\ registry = {}
    /\ snapshots = Persisted
    /\ issued = [a \in Allocators |-> <<>>]
    /\ overflowed = {}
    /\ tags = {}
    /\ answers = [a \in Allocators |-> {}]
    /\ calls = 0

Call == calls < MaxCalls /\ calls' = calls + 1

-----------------------------------------------------------------------------
(* Contexts come and go *)

(* Mutant of Registrable: the registry compares whole document ids. *)
RegistrableWhole(id) == TRUE

(* registerDocumentId throws otherwise. *)
Registrable(id) == \A other \in registry : Low32(other) = Low32(id) => other = id

Registered(id) == registry' = registry \cup (IF id = 0 THEN {} ELSE {id})

(* A new allocator for a document, with the counter at `start`. *)
Create(a, id, start) ==
    /\ a \notin live
    /\ id = 0 \/ Registrable(id)
    /\ Registered(id)
    /\ live' = live \cup {a}
    /\ documentId' = [documentId EXCEPT ![a] = id]
    /\ counter' = [counter EXCEPT ![a] = start]
    /\ occtTagMap' = [occtTagMap EXCEPT ![a] = {}]
    /\ nextOcctTag' = [nextOcctTag EXCEPT ![a] = 1]
    /\ issued' = [issued EXCEPT ![a] = <<>>]
    /\ overflowed' = overflowed \ {a}
    /\ answers' = [answers EXCEPT ![a] = {}]
    /\ UNCHANGED <<snapshots, tags>>

CreateAllocator ==
    /\ Call
    /\ \E a \in Allocators, id \in DocumentIds, start \in Seeds : Create(a, id, start)

(* KernelContext::clone: a counter that overflowed is refused as a seed,   *)
(* which leaves the copy unseeded.                                         *)
CloneAllocator ==
    /\ Call
    /\ \E a \in live, copy \in Allocators :
          Create(copy, documentId[a], IF counter[a] < 0 THEN 0 ELSE counter[a])

DestroyContext ==
    /\ Call
    /\ \E a \in live : live' = live \ {a}
    /\ UNCHANGED <<documentId, counter, occtTagMap, nextOcctTag, registry, snapshots, history>>

-----------------------------------------------------------------------------
(* Allocation *)

(* fetch_add on int64_t *)
Advanced(c, n) == IF c + n > Int64Max THEN c + n - UInt64Max - 1 ELSE c + n

(* The counter advances by n; the call hands out what follows it unless it *)
(* throws.                                                                 *)
Advance(a, n, throws) ==
    /\ counter' = [counter EXCEPT ![a] = Advanced(@, n)]
    /\ overflowed' = overflowed \cup (IF counter[a] + n > Int64Max THEN {a} ELSE {})
    /\ issued' = [issued EXCEPT ![a] =
                     IF throws THEN @
                     ELSE Append(@, [documentId |-> documentId[a],
                                     first |-> counter[a] + 1, last |-> counter[a] + n])]
    /\ UNCHANGED <<live, documentId, occtTagMap, nextOcctTag, registry, snapshots, answers>>

NextOverflows(a) == counter[a] < 0 \/ counter[a] = Int64Max

NextShapeIdentity ==
    /\ Call
    /\ \E a \in live : Advance(a, 1, NextOverflows(a))
    /\ UNCHANGED tags

RangeOverflows(a, n) == counter[a] < 0 \/ counter[a] > Int64Max - n - 1

AllocateRangeV2 ==
    /\ Call
    /\ \E a \in live, n \in RangeSizes : Advance(a, n, RangeOverflows(a, n))
    /\ UNCHANGED tags

(* The deprecated range is of sequence numbers, and ends at the v1 cliff. *)
V1RangeOverflows(a, n) ==
    \/ RangeOverflows(a, n)
    \/ documentId[a] # 0 /\ counter[a] + n > UInt32Max

AllocateRange ==
    /\ Call
    /\ \E a \in live, n \in RangeSizes : Advance(a, n, V1RangeOverflows(a, n))
    /\ UNCHANGED tags

(* nextTag hands out an identity and encodes it; at the v1 cliff the       *)
(* identity is lost.                                                       *)
NextTag ==
    /\ Call
    /\ \E a \in live :
          LET id == Identity(documentId[a], counter[a] + 1)
          IN  IF NextOverflows(a) \/ ~EncodableV1(id)
              THEN Advance(a, 1, TRUE) /\ UNCHANGED tags
              ELSE /\ Advance(a, 1, FALSE)
                   /\ tags' = tags \cup {<<EncodeV1Scalar(id), id>>}

-----------------------------------------------------------------------------
(* Configuration *)

Discarded(a) ==
    /\ issued' = [issued EXCEPT ![a] = <<>>]
    /\ overflowed' = overflowed \ {a}

Reset ==
    /\ Call
    /\ \E a \in live :
          /\ counter' = [counter EXCEPT ![a] = 0]
          /\ documentId' = [documentId EXCEPT ![a] = 0]
          /\ occtTagMap' = [occtTagMap EXCEPT ![a] = {}]
          /\ nextOcctTag' = [nextOcctTag EXCEPT ![a] = 1]
          /\ answers' = [answers EXCEPT ![a] = {}]
          /\ Discarded(a)
    /\ UNCHANGED <<live, registry, snapshots, tags>>

ResetCounterOnly ==
    /\ Call
    /\ \E a \in live :
          /\ counter' = [counter EXCEPT ![a] = 0]
          /\ Discarded(a)
    /\ UNCHANGED <<live, documentId, occtTagMap, nextOcctTag, registry, snapshots, tags, answers>>

(* seed and setDocumentId throw once the counter has advanced. *)
MaySeed(a) == counter[a] = 0

Seed ==
    /\ Call
    /\ \E a \in live, start \in Seeds :
          MaySeed(a) /\ counter' = [counter EXCEPT ![a] = start]
    /\ UNCHANGED <<live, documentId, occtTagMap, nextOcctTag, registry, snapshots, history>>

SetDocumentId ==
    /\ Call
    /\ \E a \in live, id \in DocumentIds :
          /\ MaySeed(a)
          /\ id = 0 \/ Registrable(id)
          /\ Registered(id)
          /\ documentId' = [documentId EXCEPT ![a] = id]
    /\ UNCHANGED <<live, counter, occtTagMap, nextOcctTag, snapshots, history>>

SnapshotV2 ==
    /\ Call
    /\ \E a \in live :
          /\ counter[a] >= 0
          /\ snapshots' = snapshots \cup {[counter |-> counter[a], documentId |-> documentId[a]]}
    /\ UNCHANGED <<allocator, registry, history>>

(* Mutant of MayRestore: the comparison is turned around. *)
MayRestoreBackwards(a, snap, force) == force \/ counter[a] >= snap.counter

(* restoreV2 and restore throw otherwise. *)
MayRestore(a, snap, force) == force \/ counter[a] <= snap.counter

(* The OCCT map is not restored. *)
RestoreV2 ==
    /\ Call
    /\ \E a \in live, snap \in snapshots, force \in BOOLEAN :
          /\ MayRestore(a, snap, force)
          /\ counter' = [counter EXCEPT ![a] = snap.counter]
          /\ documentId' = [documentId EXCEPT ![a] = snap.documentId]
          /\ IF force THEN Discarded(a) ELSE UNCHANGED <<issued, overflowed>>
    /\ UNCHANGED <<live, occtTagMap, nextOcctTag, registry, snapshots, tags, answers>>

-----------------------------------------------------------------------------
(* OCCT tags *)

HandedOut(a) ==
    UNION {{Identity(b.documentId, c) : c \in b.first..b.last} : b \in ToSet(issued[a])}

(* The shapes a caller may ask about *)
Known == Foreign \cup UNION {HandedOut(a) : a \in Allocators}

PassesThrough(id) == IsSingleDoc(id) /\ id.counter <= Int32Max

Handles(a, id) == {h[2] : h \in {g \in occtTagMap[a] : g[1] = id}}

Answer(a, id, tag) == answers' = [answers EXCEPT ![a] = @ \cup {<<id, tag>>}]

(* A handle is drawn by fetch_add on int32_t, which wraps at the end: that  *)
(* call and the 2^31 after it throw, each with the next handle drawn.      *)
NewHandle(a, id) ==
    /\ nextOcctTag' = [nextOcctTag EXCEPT ![a] = IF @ = Int32Max THEN -Int32Max - 1 ELSE @ + 1]
    /\ IF nextOcctTag[a] > 0
       THEN /\ occtTagMap' = [occtTagMap EXCEPT ![a] = @ \cup {<<id, nextOcctTag[a]>>}]
            /\ Answer(a, id, nextOcctTag[a])
       ELSE UNCHANGED <<occtTagMap, answers>>

ToOcctTag ==
    /\ Call
    /\ \E a \in live, id \in Known :
          /\ IsValid(id)
          /\ \/ /\ PassesThrough(id)
                /\ Answer(a, id, id.counter)
                /\ UNCHANGED <<occtTagMap, nextOcctTag>>
             \/ /\ ~PassesThrough(id)
                /\ \E tag \in Handles(a, id) : Answer(a, id, tag)
                /\ UNCHANGED <<occtTagMap, nextOcctTag>>
             \/ /\ ~PassesThrough(id) /\ Handles(a, id) = {}
                /\ NewHandle(a, id)
    /\ UNCHANGED <<live, documentId, counter, registry, snapshots, issued, overflowed, tags>>

TANext ==
    \/ CreateAllocator \/ CloneAllocator \/ DestroyContext
    \/ NextShapeIdentity \/ AllocateRangeV2 \/ AllocateRange \/ NextTag
    \/ Reset \/ ResetCounterOnly \/ Seed \/ SetDocumentId
    \/ SnapshotV2 \/ RestoreV2 \/ ToOcctTag

TASpec == TAInit /\ [][TANext]_taVars

=============================================================================
