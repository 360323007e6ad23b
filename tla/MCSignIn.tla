------------------------------ MODULE MCSignIn ------------------------------
(***************************************************************************)
(* A small instance of SignIn: two requests at once, three in all beside   *)
(* the browser already signed in, and limits one wrong attempt reaches.    *)
(***************************************************************************)
EXTENDS SignIn, TLC

CONSTANTS r1, r2

\* The browser is not known, and its address is its own.
Unknown == {<<"user", "addr">>}

Limits == [key \in Keys |-> 1]

\* Slots are told apart by nothing.
Symmetry == Permutations(Slots)
=============================================================================
