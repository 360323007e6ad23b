----------------------------- MODULE MCPlayback -----------------------------
(***************************************************************************)
(* A small instance of Playback: a restored queue of two tracks, an album  *)
(* of one, one more track to queue.                                        *)
(***************************************************************************)
EXTENDS Playback

CONSTANTS s1, s2, s3

Two == <<s1, s2>>
Album == <<s3>>

\* The two elements are alike, but for which is the primary, and what is said of
\* the last drop is read only until the next one: states that differ in these
\* are one.
Role(e) == IF e = page.primary THEN "a" ELSE "b"
Roles ==
    <<graph, presses, faults,
      [page EXCEPT
          !.primary = "a",
          !.el = [e \in Elements |-> page.el[IF e = "a" THEN page.primary ELSE Secondary(page)]],
          !.fades = [i \in DOMAIN @ |-> [@[i] EXCEPT !.element = Role(@)]],
          !.asking = {[ask EXCEPT !.element = Role(@)] : ask \in @},
          !.recoveredFrom = IF page.recoveries = 0 THEN 0 ELSE @]>>
=============================================================================
