----------------------------- MODULE MCExchange -----------------------------
(* Two worker threads, settings of which one was never registered, two      *)
(* names for temporary files of which one is taken, and files with one      *)
(* root, one null root and two roots.                                       *)
EXTENDS DataExchange

CONSTANTS t1, t2, nullptr, p1, p2

MCThreads == {t1, t2}
MCKeys == {nullptr, t1, t2}
MCSettings == {"xstep.cascade.unit", "write.step.schema", "write.step.unit",
               "read.iges.bspline.continuity", "write.iges.unit", "write.iges.brep.mode"}
MCTexts == {"MM", "M", "AP214", "AP203", "0", "1", "2", Empty}
MCOriginal == [s \in MCSettings |->
    CASE s = "xstep.cascade.unit" -> "M" [] s = "write.step.schema" -> "AP203" [] s = "write.step.unit" -> "MM"
      [] s = "read.iges.bspline.continuity" -> "1" [] s = "write.iges.unit" -> Unset [] OTHER -> "0"]
Label(shape, name, gen, curv) ==
    [shape |-> shape, name |-> name, layers |-> <<"base", "top">>,
     colors |-> [k \in {"Surf", "Gen", "Curv"} |-> CASE k = "Gen" -> gen [] k = "Curv" -> curv [] OTHER -> None]]
MCDocuments == {<<Label("Box", "part", "red", "blue")>>, <<Label(None, "ghost", None, "blue")>>,
                <<Label("Box", "part", None, None), Label("Rod", "rod", "red", None)>>, <<>>}
Metadata(name) == [name |-> name, color |-> "red", layer |-> None]
MCExports == {[shapes |-> <<>>, metas |-> <<>>], [shapes |-> <<"Box">>, metas |-> <<>>],
              [shapes |-> <<None, "Box", "Rod">>, metas |-> <<Metadata("none"), Metadata("box")>>]}
MCThreadOps == [t \in MCThreads |-> IF t = t1 THEN Ops ELSE {"importIges"}]
=============================================================================
