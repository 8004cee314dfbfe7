------------------------------ MODULE ShapeFile -----------------------------
(***************************************************************************)
(* io/oreo_serialize.cpp: a shape, its element map and its identity in a   *)
(* buffer, and the reader of formats 3 and 1.                              *)
(*                                                                         *)
(* A buffer is a sequence of fields <<type, value>>; lengths count fields, *)
(* and the reader goes by positions and lengths as the code does, so that  *)
(* a damaged length or version makes it read one field for another.  The   *)
(* checksum is taken to tell any two payloads apart.                       *)
(***************************************************************************)
EXTENDS ElementMapFormat

CONSTANTS
    Texts,      \* the BRep texts of shapes, sequences of fields
    SizeLimit   \* maxSerializeBytes in fields, 0 for none

Magic == 1000        \* "ORC3", larger than the length of any buffer
Refused == <<"refused", 0>>
U32(n) == <<"u32", n>>

\* Mutant of Checksum: it covers the geometry only.
ChecksumOfGeometry(payload) == <<"sum", SubSeq(payload, 1, Min({2, Len(payload)}))>>

\* fnv1a64.
Checksum(payload) == <<"sum", payload>>


\* [brep_len][brep][map_len][map][identity]: no map is written as length 0.
Payload(text, maps, id) ==
    <<U32(Len(text))>> \o text
        \o <<U32(Len(maps))>> \o [k \in DOMAIN maps |-> <<"map", Serialize(maps[k])>>]
        \o <<<<"u64", id.documentId>>, <<"u64", id.counter>>>>

\* serialize: a null shape and a buffer over the quota are refused.
SerializeShape(text, maps, id) ==
    LET payload == Payload(text, maps, id)
        buffer  == <<<<"u8", 3>>, U32(Magic), Checksum(payload)>> \o payload
    IN  IF text = <<>> \/ (SizeLimit > 0 /\ Len(buffer) > SizeLimit) THEN Refused ELSE buffer

\* What the writer of format 1 wrote: no checksum, a map of format 2 and the
\* scalar of the identity.
SerializeShapeV1(text, maps, id) ==
    <<<<"u8", 1>>, U32(Len(text))>> \o text
        \o <<U32(Len(maps))>> \o [k \in DOMAIN maps |-> <<"map", SerializeV2(maps[k])>>]
        \o <<<<"i64", Scalar(id)>>>>

-----------------------------------------------------------------------------
\* canRead.
CanRead(buffer, pos, n) == pos + n <= Len(buffer) + 1

\* readU32 at a field that may be of another type, whose bytes then make a
\* number too large to be a length here.
Length(buffer, pos) == IF buffer[pos][1] = "u32" THEN buffer[pos][2] ELSE Magic

\* isAsciiBrepPayload and BRepTools::Read: text reads as a shape if it is
\* the text of one.
ReadsAsShape(fields) == fields \in Texts

\* The map: none when its length is 0, refused when its reader refuses it.
MapAt(buffer, pos, n, hint) ==
    IF n = 0 THEN <<>>
    ELSE IF buffer[pos][1] # "map" \/ n > 1 THEN Refused
    ELSE LET read == Deserialize(buffer[pos][2], hint, 0)
         IN  IF read = Rejected THEN Refused ELSE <<read>>

\* The identity at the end (and, Unhinted, without its document), which nothing may follow.  Format 1 decodes its
\* scalar with the document of the reading context as the hint.
TailOk(buffer, pos, hint) ==
    IF buffer[1] = <<"u8", 3>>
    THEN /\ CanRead(buffer, pos, 2) /\ Len(buffer) = pos + 1
         /\ buffer[pos][1] = "u64" /\ buffer[pos + 1][1] = "u64"
    ELSE /\ CanRead(buffer, pos, 1) /\ Len(buffer) = pos
         /\ buffer[pos][1] = "i64" /\ ~HintMismatch(buffer[pos][2], hint)

TailIdentity(buffer, pos, hint) ==
    IF buffer[1] = <<"u8", 3>> THEN Identity(buffer[pos][2], buffer[pos + 1][2])
    ELSE DecodeV1Scalar(buffer[pos][2], hint)

\* The two fields of the integrity header, which is recognised by its magic.
HasChecksum(buffer) ==
    buffer[1] = <<"u8", 3>> /\ CanRead(buffer, 2, 2) /\ buffer[2] = U32(Magic)

\* The payload from pos on.
ReadPayload(buffer, pos, hint) ==
    IF ~CanRead(buffer, pos, 1) \/ ~CanRead(buffer, pos + 1, Length(buffer, pos)) THEN Refused
    ELSE LET n    == Length(buffer, pos)
             text == SubSeq(buffer, pos + 1, pos + n)
             mpos == pos + n + 1
         IN  IF \/ ~ReadsAsShape(text)
                \/ ~CanRead(buffer, mpos, 1) \/ ~CanRead(buffer, mpos + 1, Length(buffer, mpos))
             THEN Refused
             ELSE LET k    == Length(buffer, mpos)
                      maps == MapAt(buffer, mpos + 1, k, hint)
                      tail == mpos + 1 + k
                  IN  IF maps = Refused \/ ~TailOk(buffer, tail, hint) THEN Refused
                      ELSE <<"shape", text, maps, TailIdentity(buffer, tail, hint)>>

\* deserialize.
DeserializeShape(buffer, hint) ==
    IF \/ Len(buffer) < 4 \/ (SizeLimit > 0 /\ Len(buffer) > SizeLimit)
       \/ buffer[1] \notin {<<"u8", 3>>, <<"u8", 1>>}
       \/ HasChecksum(buffer) /\ Checksum(SubSeq(buffer, 4, Len(buffer))) # buffer[3]
    THEN Refused
    ELSE ReadPayload(buffer, IF HasChecksum(buffer) THEN 4 ELSE 2, hint)

-----------------------------------------------------------------------------
(* What saving and loading owe the shape *)

\* The buffers one field away from a buffer: cut short, with bytes after its
\* end, or with one field replaced by another of its type.
Replacements(field) ==
    CASE field[1] = "u8"  -> {<<"u8", 1>>, <<"u8", 2>>}
      [] field[1] = "u32" -> {U32(0), U32(1), U32(2), U32(field[2] + 1)} \ {field}
      [] field[1] = "u64" -> {<<"u64", 9>>}
      [] field[1] = "sum" -> {<<"sum", <<>>>>}
      [] field[1] = "map" -> {<<"map", Serialize(EmptyMap)>>} \ {field}
      [] OTHER            -> {f[1] : f \in Texts} \ {field}

Damaged(buffer) ==
    {SubSeq(buffer, 1, n) : n \in 0..(Len(buffer) - 1)} \cup {Append(buffer, U32(0))}
        \cup UNION {{[buffer EXCEPT ![k] = r] : r \in Replacements(buffer[k])} : k \in DOMAIN buffer}

(* A shape saved with its map is read back with its text, map and whole    *)
(* identity in any document, when its map reads back (SavedMapReadsBack).  *)
SavedShapeReadsBack ==
    NeverOverwritten(map) /\ Depth(map) <= MaxDepth =>
        \A text \in Texts, id \in ChildIds, hint \in Hints, maps \in {<<>>, <<map>>} :
            LET saved == SerializeShape(text, maps, id)
            IN  saved # Refused => DeserializeShape(saved, hint) = <<"shape", text, maps, id>>

(* A saved buffer that was cut, extended or changed in one field is never  *)
(* read as a shape: not even when the damage turns off the checksum.       *)
DamageDetected ==
    \A text \in Texts, id \in ChildIds :
        LET saved == SerializeShape(text, <<map>>, id)
        IN  saved # Refused =>
                \A hint \in Hints, b \in Damaged(saved) : DeserializeShape(b, hint) = Refused

(* A shape of format 1 opened in its own document gets its identity back;  *)
(* opened in another document whose id its scalar contradicts, it is       *)
(* refused and never given an identity of that document.                   *)
LegacyShapeReadsBack ==
    \A text \in Texts, id \in ChildIds, hint \in Hints, maps \in {<<>>, <<map>>} :
        LET read == DeserializeShape(SerializeShapeV1(text, maps, id), hint)
        IN  read # Refused =>
              /\ read[4].counter = id.counter
              /\ hint = id.documentId => read[4] = id

(* What was saved, now or by version 1, is read back as it was, by itself  *)
(* and as part of a shape; and what was damaged is not read.               *)
FilesReadBack ==
    /\ SavedMapReadsBack /\ LegacyMapReadsBack
    /\ SavedShapeReadsBack /\ LegacyShapeReadsBack
    /\ DamageDetected

=============================================================================
