--------------------------- MODULE MCFeatureTree ---------------------------
(* Instances of the feature tree for TLC. *)
EXTENDS FeatureTreeRefinement

CONSTANTS f1, f2, f3, v1, v2, bad, c

Entry(id, kind, ref) ==
    [id |-> id, kind |-> kind, val |-> v1, ref |-> ref, suppressed |-> FALSE,
     status |-> "NotExecuted"]

(* A primitive, an operation on it, and an operation with a tool feature. *)
MCCatalog == {Entry(f1, "Make", NoRef), Entry(f2, "Modify", NoRef), Entry(f3, "Modify", f1)}

(* The same with a parameter bound to a configuration input. *)
MCConfiguredCatalog == {Entry(f1, "Make", NoRef),
                        [Entry(f2, "Modify", f1) EXCEPT !.val = c]}

(* Configurations that give the input a value or do not know it. *)
MCConfigs == {[x \in {c} |-> v1], [x \in {c} |-> Unbound]}

(* Rollback positions: below the list, its ends, inside it and beyond it. *)
MCMarkers == {-1, 0, 1, 2, 5}

=============================================================================
