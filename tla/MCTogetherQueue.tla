-------------------------- MODULE MCTogetherQueue --------------------------
(***************************************************************************)
(* Small instances of TogetherQueue: one member, a host with one or two     *)
(* tracks of its own, two additions, of songs the party has or not.        *)
(***************************************************************************)
EXTENDS TogetherQueue, TLC

CONSTANTS o, a, b

OneOwn == <<o>>
TwoOwn == <<o, o>>

\* The songs to add are alike: nothing names one of them.
SongSymmetry == Permutations({a, b})

\* Without crashes, what is saved is read again only after the load that follows
\* a reload: a page that holds a queue writes it on its way out.  (It would be
\* read, too, after a reload with an emptied queue; emptying a queue of two takes
\* all the turns of the instance.)  States that differ in it otherwise are one.
SavedIfRead == IF here /\ queue # <<>> THEN "written" ELSE saved
Pages == <<server, network, browser, SavedIfRead, history, loads, turns>>
=============================================================================
