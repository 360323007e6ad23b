---------------------------- MODULE MCTranscodes ----------------------------
(***************************************************************************)
(* A small instance of Transcodes: two transcodes of one account, one of   *)
(* which outgrows what may be held, and two requests.                      *)
(***************************************************************************)
EXTENDS Transcodes, TLC

CONSTANTS k1, k2, q1, q2

Owner == k1 :> "ann" @@ k2 :> "ann"
Lengths == k1 :> 2 @@ k2 :> 3

\* Requests are told apart by nothing but what they ask for.
Symmetry == Permutations(Requests)
=============================================================================
