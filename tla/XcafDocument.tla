---------------------------- MODULE XcafDocument ----------------------------
(***************************************************************************)
(* The XDE document of io/oreo_step.cpp: labels with a shape, a name,      *)
(* colours by kind and layers.  How metadata is taken from the root labels *)
(* of a file, and how shapes and metadata are written to one.              *)
(***************************************************************************)
EXTENDS Naturals, Sequences, SequencesExt

CONSTANTS None   \* no name, no colour, no layer, no shape

\* Colours in the order they are looked up.
ColorKinds == <<"Surf", "Gen", "Curv">>

NoMetadata == [name |-> None, color |-> None, layer |-> None]

\* The surface colour before the generic one, before the curve colour.
LabelColor(label) ==
    LET found == SelectSeq(ColorKinds, LAMBDA k: label.colors[k] # None)
    IN  IF found = <<>> THEN None ELSE label.colors[Head(found)]

ExtractMetadata(label) ==
    [name |-> label.name,
     color |-> LabelColor(label),
     layer |-> IF label.layers = <<>> THEN None ELSE Head(label.layers)]

\* GetShape of one root, or the reader's OneShape for several.
RootsShape(roots) == IF Len(roots) = 1 THEN roots[1].shape ELSE "Compound"

\* importWithXcaf, when the file was read and transferred: its result and
\* both output parameters.  The metadata is filled in before the shape is
\* found to be null.
ImportWithXcaf(roots) ==
    IF roots = <<>> THEN [ok |-> FALSE, shape |-> None, meta |-> NoMetadata]
    ELSE [ok |-> RootsShape(roots) # None, shape |-> RootsShape(roots),
          meta |-> ExtractMetadata(roots[1])]

\* A label AddShape makes, with the metadata given for it.
MetadataLabel(shape, meta) ==
    [shape |-> shape, name |-> meta.name,
     colors |-> [k \in Range(ColorKinds) |-> IF k = "Surf" THEN meta.color ELSE None],
     layers |-> IF meta.layer = None THEN <<>> ELSE <<meta.layer>>]


\* What is known of the i-th shape of a list: the list of metadata may be
\* the shorter one.
LabelAt(shapes, metas, i) ==
    MetadataLabel(shapes[i], IF i <= Len(metas) THEN metas[i] ELSE NoMetadata)

\* exportWithXcaf: null shapes are skipped but keep their place in the list
\* of metadata.
ExportWithXcaf(shapes, metas) ==
    LET labels[i \in 0..Len(shapes)] ==
          IF i = 0 THEN <<>>
          ELSE IF shapes[i] = None THEN labels[i - 1]
          ELSE Append(labels[i - 1], LabelAt(shapes, metas, i))
    IN  labels[Len(shapes)]

=============================================================================
