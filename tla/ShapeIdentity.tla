--------------------------- MODULE ShapeIdentity ---------------------------
(***************************************************************************)
(* Shape identities (core/shape_identity.h), their 64-bit scalars of       *)
(* format v1 and the way back (core/shape_identity_v1.cpp).                *)
(*                                                                         *)
(* All widths follow from Int32Max, so that every limit of the code is a   *)
(* limit here: with Int32Max = 2^31 - 1 they are the code's.               *)
(***************************************************************************)
EXTENDS Integers

CONSTANT Int32Max

ASSUME WidthAssumption == Int32Max \in Nat \ {0}

UInt32Max == 2 * Int32Max + 1
TwoTo32   == UInt32Max + 1
Int64Max  == 2 * (Int32Max + 1) * (Int32Max + 1) - 1
UInt64Max == 2 * Int64Max + 1

UInt64 == 0..UInt64Max
Int64  == (-Int64Max - 1)..Int64Max

(* static_cast<int64_t> of a uint64_t, and back *)
AsInt64(u)  == IF u > Int64Max THEN u - UInt64Max - 1 ELSE u
AsUInt64(i) == IF i < 0 THEN i + UInt64Max + 1 ELSE i

Low32(u)  == u % TwoTo32
High32(u) == u \div TwoTo32

ShapeIdentities == [documentId : UInt64, counter : UInt64]

Identity(documentId, counter) == [documentId |-> documentId, counter |-> counter]

IsValid(id)     == id.counter # 0
IsSingleDoc(id) == id.documentId = 0

-----------------------------------------------------------------------------
(* The v1 scalars *)

(* Otherwise encodeV1Scalar throws. *)
EncodableV1(id) ==
    /\ IsValid(id)
    /\ id.counter <= IF IsSingleDoc(id) THEN Int64Max ELSE UInt32Max

EncodeV1Scalar(id) ==
    IF IsSingleDoc(id) THEN id.counter
    ELSE AsInt64(Low32(id.documentId) * TwoTo32 + id.counter)

(* The hint is of another document than the scalar: decodeV1Scalar throws. *)
HintMismatch(scalar, hint) ==
    LET high == High32(AsUInt64(scalar))
    IN  high # 0 /\ hint # 0 /\ Low32(hint) # high

(* Case A: single-document scalars.  Case B: no hint, and the high half of *)
(* the document id is lost.  Case C: the hint gives it.                    *)
DecodeV1Scalar(scalar, hint) ==
    LET u == AsUInt64(scalar)
    IN  IF High32(u) = 0 THEN Identity(hint, u)
        ELSE Identity(IF hint = 0 THEN High32(u) ELSE hint, Low32(u))

=============================================================================
