--------------------------- MODULE MCTuningHelper --------------------------
(* Model-checking instances of TuningHelper. *)
EXTENDS TuningHelper, TLC

CONSTANTS h1, h2, low, high

const_Helpers  == {h1, h2}
const_Value    == {low, high}
const_Identity == [v \in const_Value |-> v]

\* Writing back a limit of a fractional number of watts (low) rounds it up.
const_Rounding == [v \in const_Value |-> high]

\* A booted machine runs at the high settings.
const_Boot == [c \in Control |-> high]

Symmetry == Permutations(const_Helpers)
=============================================================================
