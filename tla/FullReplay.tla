----------------------------- MODULE FullReplay ----------------------------
(***************************************************************************)
(* The reference for incremental replay: replaying a whole list of         *)
(* features from nothing, with no cache, no dirty flags and no allocator   *)
(* snapshots (FeatureTree::replay over feature/feature.cpp).               *)
(***************************************************************************)
EXTENDS Feature

(* What is known before the first feature. *)
Nothing == [shape |-> NullShape, status |-> "OK", counter |-> 0, shapes |-> [x \in {} |-> NullShape]]

(* What is known after feature `f` of `list`: its shape and its status,    *)
(* the identity counter, and the shapes a later reference can resolve to.  *)
Replayed(list, transformer, prev, f) ==
    LET val      == EffectiveValue(f, transformer)
        resolves == f.ref = NoRef \/ ResolvesIn(list, prev.shapes, f.ref)
        status   == CASE f.suppressed    -> "Suppressed"
                      [] ~f.suppressed /\ val = Unbound -> "BrokenReference"
                      [] OTHER -> ExecutedStatus(f, val, prev.shape, resolves)
        uses     == IF f.ref = NoRef THEN {} ELSE Uses(prev.shapes[f.ref])
        count    == IF status = "OK" THEN prev.counter + 1 ELSE prev.counter
        shape    == IF status = "OK"
                    THEN ExecutedShape(f, val, prev.shape, uses, count)
                    ELSE prev.shape
    IN  [shape |-> shape, status |-> status, counter |-> count,
         shapes |-> [x \in DOMAIN prev.shapes \cup {f.id} |->
                        IF x = f.id THEN shape ELSE prev.shapes[x]]]

(* The full replay of `list`: what is known after each feature. *)
FullReplay(list, transformer) ==
    LET after[n \in 0..Len(list)] ==
            IF n = 0 THEN Nothing ELSE Replayed(list, transformer, after[n - 1], list[n])
    IN  [n \in 1..Len(list) |-> after[n]]

Geometries(list) ==
    LET replayed == FullReplay(list, NoTransformer)
    IN  [n \in DOMAIN list |-> replayed[n].shape.geo]

=============================================================================
