------------------------------ MODULE MCShares ------------------------------
(***************************************************************************)
(* A small instance of Shares: one link, of one of two accounts that two    *)
(* users of the music server have in turn, `a2` on a server that gives no   *)
(* ids, and three requests.                                                *)
(***************************************************************************)
EXTENDS Shares, TLC

CONSTANTS a1, a2, u1, u2, l1, r1, r2, r3

Symmetry == Permutations(Users) \cup Permutations(Calls)
=============================================================================
