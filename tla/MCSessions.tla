----------------------------- MODULE MCSessions -----------------------------
(***************************************************************************)
(* A small instance of Sessions: three sessions in all, of which the       *)
(* account may hold two, one request and two operations at a time.         *)
(***************************************************************************)
EXTENDS Sessions, TLC

\* Sessions are told apart by when they were created, the rest by nothing.
SessionSymmetry == Permutations(Tokens) \cup Permutations(Requests) \cup Permutations(Ops)
=============================================================================
