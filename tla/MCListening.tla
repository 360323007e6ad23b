---------------------------- MODULE MCListening ----------------------------
(***************************************************************************)
(* A small instance of Listening: one account that changes what is shown   *)
(* of it and one that watches, two streams, one app.                       *)
(***************************************************************************)
EXTENDS Listening, TLC

\* Streams are told apart by their accounts alone, requests by what they ask.
Symmetry == Permutations(Peers) \cup Permutations(Ops)
=============================================================================
