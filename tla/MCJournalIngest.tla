-------------------------- MODULE MCJournalIngest --------------------------
(* Model-checking instance of JournalIngest. *)
EXTENDS JournalIngest

\* Four records, one of them noise and one of the others oversized.
const_Storable  == {1, 2, 4}
const_Oversized == {2}
=============================================================================
