----------------------------- MODULE MCFeedback ------------------------------
(* Two rounds of one combination, two requests that may race. *)
EXTENDS Feedback, TLC

Alike == Permutations(Round) \cup Permutations(Request)

OneCombo == [r \in Round |-> CHOOSE c \in Combo : TRUE]
=============================================================================
