------------------------------ MODULE Additions ------------------------------
(***************************************************************************)
(* What a party promises of the tracks its members add, without streams,   *)
(* reports, players or names: each waits until the host's browser has it   *)
(* or it is let go, those taken are taken in the order made, what is let   *)
(* go never comes back, and no more are kept than the cap.                 *)
(***************************************************************************)
EXTENDS Integers, FiniteSets

CONSTANT MaxAdded  \* how many the server keeps at a time

VARIABLES
    count,    \* additions made; each is known by its number
    waiting,  \* those the host's browser is not known to have
    playing,  \* those it has, and keeps in its queue
    asked     \* those of them it is asked to take out

vars == <<count, waiting, playing, asked>>

Init == count = 0 /\ waiting = {} /\ playing = {} /\ asked = {}

\* A member adds a track.
Add ==
    /\ Cardinality(waiting \cup playing) < MaxAdded
    /\ count' = count + 1
    /\ waiting' = waiting \cup {count'}
    /\ UNCHANGED <<playing, asked>>

\* Some are let go while they wait: taken back, or their member is removed.
LetGo ==
    /\ \E gone \in SUBSET waiting : waiting' = waiting \ gone
    /\ UNCHANGED <<count, playing, asked>>

\* One that plays is taken back.
TakeBack ==
    /\ \E k \in playing : asked' = asked \cup {k}
    /\ UNCHANGED <<count, waiting, playing>>

\* The host's browser is known to have all up to some number, and which of them
\* it keeps.
Take ==
    /\ \E n \in 0..count : waiting' = {k \in waiting : k > n}
    /\ playing' \subseteq playing \cup (waiting \ waiting')
    /\ asked' = asked \cap playing'
    /\ UNCHANGED count

Next == Add \/ LetGo \/ TakeBack \/ Take

Spec == Init /\ [][Next]_vars
=============================================================================
