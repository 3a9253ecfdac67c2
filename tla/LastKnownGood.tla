--------------------------- MODULE LastKnownGood ---------------------------
(***************************************************************************)
(* What a refresh operation promises to whoever reads it: the newest value *)
(* a fetch produced, kept until a newer one replaces it; the problem of    *)
(* the newest fetch, cleared by a success; and whether a fetch runs.       *)
(***************************************************************************)
CONSTANTS None, Data, Problems

VARIABLES value, problem, busy

cell == <<value, problem, busy>>

Init == value = None /\ problem = None /\ busy = FALSE

\* Starting a fetch and giving it up do not show in value and problem.
Begin   == ~busy /\ busy' = TRUE /\ UNCHANGED <<value, problem>>
Abandon ==  busy /\ busy' = FALSE /\ UNCHANGED <<value, problem>>

Succeed == /\ value' \in Data
           /\ problem' = None
           /\ busy' = FALSE

Fail    == /\ problem' \in Problems
           /\ busy' = FALSE
           /\ UNCHANGED value

Next == Begin \/ Abandon \/ Succeed \/ Fail

Spec == Init /\ [][Next]_cell

=============================================================================
