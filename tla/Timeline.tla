------------------------------ MODULE Timeline -----------------------------
(***************************************************************************)
(* What an incremental replay engine promises: whatever it shows of a      *)
(* feature list is what replaying the whole list from nothing would show.  *)
(***************************************************************************)
EXTENDS FullReplay

VARIABLES
    model,   \* the list of features, without their statuses
    shown    \* the geometry after each feature of a prefix of the list

vars == <<model, shown>>

-----------------------------------------------------------------------------
Init == model = <<>> /\ shown = <<>>

(* An edit may forget what is shown, and must from where the list changed. *)
Edit ==
    \E k \in 0..Len(shown) :
        /\ shown' = SubSeq(shown, 1, k)
        /\ SubSeq(model', 1, k) = SubSeq(model, 1, k)

(* A replay may show any prefix of what the full replay shows. *)
Show ==
    /\ model' = model
    /\ \E k \in 0..Len(model) : shown' = SubSeq(Geometries(model), 1, k)

Next == Edit \/ Show

Spec == Init /\ [][Next]_vars

=============================================================================
