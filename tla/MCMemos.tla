------------------------------ MODULE MCMemos ------------------------------
(***************************************************************************)
(* A small instance of Memos: one account that two users of the music      *)
(* server have in turn, two keys, writes that change one of them or both.  *)
(***************************************************************************)
EXTENDS Memos, TLC

CONSTANTS a1, v1, v2, k1, k2, r1, r2

StarOrAll == {{k1}, Keys}
Symmetry == Permutations(Viewers) \cup Permutations(Slots)
=============================================================================
