---------------------------- MODULE MCPartStudio ---------------------------
(* Instances of the part studio for TLC. *)
EXTENDS PartStudioProperties

CONSTANTS f1, f2, v1, v2, bad, size

Entry(id, kind, val, ref) ==
    [id |-> id, kind |-> kind, val |-> val, ref |-> ref, suppressed |-> FALSE,
     status |-> "NotExecuted"]

(* A primitive whose size is configured, and an operation using it. *)
MCCatalog == {Entry(f1, "Make", size, NoRef), Entry(f2, "Modify", v1, f1)}

(* An input that admits the failing value and one that does not. *)
MCSpecs == {[default |-> v1, allowed |-> {v1, v2, bad}],
            [default |-> v2, allowed |-> {v1, v2}]}

(* Rollback positions below the list and inside it. *)
MCMarkers == {-1, 1}

(* The defaults, and a configuration that only one of the inputs admits. *)
MCConfigValues == {[x \in {} |-> v1], [x \in {size} |-> bad]}

=============================================================================
