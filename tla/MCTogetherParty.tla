-------------------------- MODULE MCTogetherParty --------------------------
(***************************************************************************)
(* Small instances of TogetherParty: the host's session, another of the    *)
(* host's account, which may join, and a guest's, whose account is of      *)
(* another music server and may only listen.  Any of the three may host.   *)
(***************************************************************************)
EXTENDS TogetherParty, TLC

CONSTANTS host, other, guest, alice, bob

AccountOf == host :> alice @@ other :> alice @@ guest :> bob
ServersApart == alice :> "navidrome" @@ bob :> "jellyfin"

\* Streams and requests are interchangeable, and so are parties not started.
PartySymmetry == Permutations(Streams) \cup Permutations(Requests) \cup Permutations(Parties)
=============================================================================
