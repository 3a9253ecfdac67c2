--------------------------- MODULE MCFormRuntime ---------------------------
(* A small instance of FormRuntime: two controls on one field, and one on   *)
(* the payload of the optional.                                             *)
EXTENDS FormRuntime

CONSTANTS left, right, detail, name, details, v1, v2

MCFields   == {name}
MCControls == {left, right, detail}
Symmetry   == Permutations({v1, v2})
MCBound    == left :> name @@ right :> name @@ detail :> details
=============================================================================
