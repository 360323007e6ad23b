----------------------------- MODULE MCHistory -----------------------------
(***************************************************************************)
(* A small instance of History: two requests at once, pages of two.        *)
(***************************************************************************)
EXTENDS History, TLC

\* Requests are told apart by what they ask.
Symmetry == Permutations(Slots)
=============================================================================
