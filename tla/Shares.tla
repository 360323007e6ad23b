------------------------------- MODULE Shares -------------------------------
(***************************************************************************)
(* Links to a song, an album or a playlist that open without an account     *)
(* (lib/server/shares.ts, share-media.ts).  A visitor's request reads the   *)
(* link's row, then the sharer's credential, then registers its stream and  *)
(* looks the track up; a withdrawal deletes the row and then cuts what is   *)
(* registered.  Each statement of the database is a step of its own.        *)
(***************************************************************************)
EXTENDS Integers, FiniteSets

CONSTANTS
    Sharers, Users,   \* accounts here, and users of the music server
    ByNameAlone,      \* those accounts whose music server gives users no id
    Links,            \* the ids that can be given
    Calls,            \* requests under way at once
    MaxActiveShares,
    NotMade           \* of a link that has no row yet

ASSUME SharesAssumption ==
    /\ IsFiniteSet(Links)
    /\ ByNameAlone \subseteq Sharers
    /\ MaxActiveShares \in Nat \ {0}
    /\ "nothing" \notin Users
    /\ NotMade \notin [account : Sharers, user : Users]

VARIABLES
    \* The database
    rows,         \* links that have one
    user,         \* who the stored credential of each account signs in as
    expired,      \* links past their lifetime
    \* This process
    openStreams,  \* the requests registered against each link
    call,
    \* Bookkeeping, read by the properties
    madeBy,       \* the account and user each link was made by
    missed,       \* links made while all of an account's were being withdrawn
    stray,        \* links made by a request of a user who was being replaced
    kept          \* links that stayed when another user took a name over

shareVars == <<rows, user, expired, openStreams, call, madeBy, missed, stray, kept>>

-----------------------------------------------------------------------------
(* Types *)

Maker == [account : Sharers, user : Users]

\* `late`: its link was withdrawn after it had read the row and before it had
\* registered.  `then` is what follows a withdrawal: another user's sign-in.
Call ==
    [at : {"idle"}]
    \cup [at : {"resolved"}, link : Links, late : BOOLEAN]
    \cup [at : {"looking", "opening", "streaming", "broken"}, link : Links, viewer : Users,
          aborted : BOOLEAN, late : BOOLEAN]
    \cup [at : {"asked", "counted"}, account : Sharers, user : Users]
    \cup [at : {"listed", "cutting"}, account : Sharers, links : SUBSET Links,
          then : Users \cup {"nothing"}]
    \cup [at : {"replacing"}, account : Sharers, then : Users]

NoCall == [at |-> "idle"]
CallAt(r, at) == call[r].at = at
CallBecomes(r, new) == call' = [call EXCEPT ![r] = new]

\* A request that has registered its stream.
Registered(r) == call[r].at \in {"looking", "opening", "streaming", "broken"}

Made == {l \in Links : madeBy[l] # NotMade}
LinksOf(a) == {l \in Made : madeBy[l].account = a}

-----------------------------------------------------------------------------
(* A visitor's request *)

\* resolveShare: the row, deleted when it has expired.  No row and an expired one
\* are the same 404.
ResolveShare(r, l) ==
    /\ CallAt(r, "idle") /\ l \in rows
    /\ IF l \in expired
       THEN rows' = rows \ {l} /\ UNCHANGED call
       ELSE CallBecomes(r, [at |-> "resolved", link |-> l, late |-> FALSE]) /\ UNCHANGED rows
    /\ UNCHANGED <<user, expired, openStreams, madeBy, missed, stray, kept>>

\* The credential no longer opens.
Unopened(r) ==
    /\ CallAt(r, "resolved") /\ CallBecomes(r, NoCall)
    /\ UNCHANGED <<rows, user, expired, openStreams, madeBy, missed, stray, kept>>

\* Mutant of Registers: the stream is not registered.
RegistersNone(r) == openStreams
\* holdShareStream, once the track's link is known and before it is looked up.
Registers(r) == [openStreams EXCEPT ![call[r].link] = @ \cup {r}]

\* sharerCredential, and the stream registered.
Hold(r) ==
    /\ CallAt(r, "resolved")
    /\ CallBecomes(r, [at |-> "looking", link |-> call[r].link, late |-> call[r].late,
                        viewer |-> user[madeBy[call[r].link].account], aborted |-> FALSE])
    /\ openStreams' = Registers(r)
    /\ UNCHANGED <<rows, user, expired, madeBy, missed, stray, kept>>

\* The release: the track is not found, the music server fails or has sent all,
\* the visitor has left, the stream was aborted.
CallEnds(r) ==
    /\ Registered(r) /\ CallBecomes(r, NoCall)
    /\ openStreams' = [openStreams EXCEPT ![call[r].link] = @ \ {r}]
    /\ UNCHANGED <<rows, user, expired, madeBy, missed, stray, kept>>

\* The track is found, by a request that was not aborted meanwhile; then the
\* music server answers.
Goes(r, from, to) ==
    /\ CallAt(r, from) /\ ~call[r].aborted
    /\ CallBecomes(r, [call[r] EXCEPT !.at = to])
    /\ UNCHANGED <<rows, user, expired, openStreams, madeBy, missed, stray, kept>>

\* A chunk that comes now is passed on.
Passes(r) == CallAt(r, "streaming") /\ ~call[r].aborted /\ call[r].link \notin expired

\* A chunk of an expired link ends its stream, as a failure in the middle does.
\* Neither releases it: the request's own signal does (CallEnds).
Breaks(r) ==
    /\ CallAt(r, "streaming")
    /\ CallBecomes(r, [call[r] EXCEPT !.at = "broken", !.aborted = @ \/ call[r].link \in expired])
    /\ UNCHANGED <<rows, user, expired, openStreams, madeBy, missed, stray, kept>>

-----------------------------------------------------------------------------
(* A request of the sharer *)

\* POST /api/shares: the session is resolved and the item looked up with it.
Ask(r, a) ==
    /\ CallAt(r, "idle") /\ CallBecomes(r, [at |-> "asked", account |-> a, user |-> user[a]])
    /\ UNCHANGED <<rows, user, expired, openStreams, madeBy, missed, stray, kept>>

\* `exclusive`: another request is between its count and its insert.
Locked(a) == \E q \in Calls : CallAt(q, "counted") /\ call[q].account = a

\* createShare counts the live links, after expired ones are swept when due.
Count(r, due) ==
    LET a == call[r].account
    IN
    /\ CallAt(r, "asked") /\ ~Locked(a)
    /\ CallBecomes(r, IF Cardinality((LinksOf(a) \cap rows) \ expired) < MaxActiveShares
                      THEN [call[r] EXCEPT !.at = "counted"] ELSE NoCall)
    /\ rows' = IF due THEN rows \ expired ELSE rows
    /\ UNCHANGED <<user, expired, openStreams, madeBy, missed, stray, kept>>

\* Another user has the name, or will have it with nothing left to be withdrawn.
Replaces(a, u) ==
    \/ user[a] # u
    \/ \E q \in Calls : /\ call[q].at \in {"cutting", "replacing"} /\ call[q].account = a
                        /\ call[q].then # "nothing"

Insert(r, l) ==
    LET a == call[r].account
        u == call[r].user
    IN
    /\ CallAt(r, "counted") /\ l \notin Made
    /\ rows' = rows \cup {l} /\ madeBy' = [madeBy EXCEPT ![l] = [account |-> a, user |-> u]]
    /\ stray' = IF Replaces(a, u) THEN stray \cup {l} ELSE stray
    /\ CallBecomes(r, NoCall)
    /\ UNCHANGED <<user, expired, openStreams, missed, kept>>

\* revokeShare deletes the row, if it is the account's and there.
Revoke(r, l) ==
    /\ CallAt(r, "idle") /\ l \in rows
    /\ rows' = rows \ {l}
    /\ CallBecomes(r, [at |-> "cutting", account |-> madeBy[l].account, links |-> {l}, then |-> "nothing"])
    /\ UNCHANGED <<user, expired, openStreams, madeBy, missed, stray, kept>>

\* revokeAllShares: the ids, then the rows.  storeAccount calls it when another
\* user of the music server, told apart by the id, has taken the name.
List(r, a, then) ==
    /\ CallAt(r, "idle") /\ then # user[a]
    /\ a \in ByNameAlone => then = "nothing"
    /\ CallBecomes(r, [at |-> "listed", account |-> a, links |-> LinksOf(a) \cap rows, then |-> then])
    /\ UNCHANGED <<rows, user, expired, openStreams, madeBy, missed, stray, kept>>

\* Mutant of Withdrawn: the links stay.
NoneWithdrawn(a) == {}
Withdrawn(a) == LinksOf(a) \cap rows

Delete(r) ==
    /\ CallAt(r, "listed")
    /\ rows' = rows \ Withdrawn(call[r].account)
    /\ missed' = missed \cup (Withdrawn(call[r].account) \ call[r].links)
    /\ CallBecomes(r, [call[r] EXCEPT !.at = "cutting"])
    /\ UNCHANGED <<user, expired, openStreams, madeBy, stray, kept>>

\* cutShareStreams, for each link withdrawn: what is registered is aborted.
Cut(r) ==
    LET links == call[r].links
    IN
    /\ CallAt(r, "cutting")
    /\ openStreams' = [l \in Links |-> IF l \in links THEN {} ELSE openStreams[l]]
    /\ call' = [q \in Calls |->
           IF q = r
           THEN IF call[r].then = "nothing" THEN NoCall
                ELSE [at |-> "replacing", account |-> call[r].account, then |-> call[r].then]
           ELSE IF CallAt(q, "resolved") /\ call[q].link \in links
           THEN [call[q] EXCEPT !.late = TRUE]
           ELSE IF Registered(q) /\ call[q].link \in links /\ q \in openStreams[call[q].link]
           THEN [call[q] EXCEPT !.aborted = TRUE]
           ELSE call[q]]
    /\ UNCHANGED <<rows, user, expired, madeBy, missed, stray, kept>>

\* storeAccount where users have no id: another user of the name looks like a
\* changed password, and the links stay.
TakeOver(r, a, then) ==
    /\ CallAt(r, "idle") /\ then # user[a]
    /\ a \in ByNameAlone
    /\ CallBecomes(r, [at |-> "replacing", account |-> a, then |-> then])
    /\ UNCHANGED <<rows, user, expired, openStreams, madeBy, missed, stray, kept>>

\* storeAccount, at last: the credential of the new user.
Replace(r) ==
    LET a == call[r].account
    IN
    /\ CallAt(r, "replacing") /\ CallBecomes(r, NoCall)
    /\ user' = [user EXCEPT ![a] = call[r].then]
    /\ kept' = IF a \in ByNameAlone THEN kept \cup (LinksOf(a) \cap rows) ELSE kept
    /\ UNCHANGED <<rows, expired, openStreams, madeBy, missed, stray>>

Expire(l) ==
    /\ l \in Made \ expired /\ expired' = expired \cup {l}
    /\ UNCHANGED <<rows, user, openStreams, call, madeBy, missed, stray, kept>>

-----------------------------------------------------------------------------
(* Specification *)

ShareInit ==
    /\ rows = {} /\ expired = {} /\ user \in [Sharers -> Users]
    /\ openStreams = [l \in Links |-> {}] /\ call = [r \in Calls |-> NoCall]
    /\ madeBy = [l \in Links |-> NotMade] /\ missed = {} /\ stray = {} /\ kept = {}

Visiting(r) ==
    \/ \E l \in Links : ResolveShare(r, l)
    \/ Unopened(r) \/ Hold(r)
    \/ Goes(r, "looking", "opening") \/ Goes(r, "opening", "streaming")
    \/ Breaks(r) \/ CallEnds(r)

Sharing(r) ==
    \/ \E a \in Sharers : Ask(r, a)
    \/ \E due \in BOOLEAN : Count(r, due)
    \/ \E l \in Links : Insert(r, l) \/ Revoke(r, l)

WithdrawingAll(r) ==
    \/ \E a \in Sharers, then \in Users \cup {"nothing"} : List(r, a, then)
    \/ \E a \in Sharers, then \in Users : TakeOver(r, a, then)
    \/ Delete(r) \/ Cut(r) \/ Replace(r)

ShareNext ==
    \/ \E r \in Calls : Visiting(r) \/ Sharing(r) \/ WithdrawingAll(r)
    \/ \E l \in Links : Expire(l)

ShareSpec == ShareInit /\ [][ShareNext]_shareVars

-----------------------------------------------------------------------------
(* Properties *)

\* Types, as every step keeps them (shares.ts, share-media.ts).
ShareTypeOK ==
    /\ rows \subseteq Links /\ user \in [Sharers -> Users] /\ expired \subseteq Links
    /\ openStreams \in [Links -> SUBSET Calls] /\ call \in [Calls -> Call]
    /\ madeBy \in [Links -> Maker \cup {NotMade}] /\ missed \subseteq Links /\ stray \subseteq Links
    /\ kept \subseteq Links

\* A withdrawal of this link has deleted its row and is yet to cut its streams.
BeingCut(l) == \E q \in Calls : CallAt(q, "cutting") /\ l \in call[q].links

\* Nothing more passes through a link that has no row, withdrawn or expired and
\* swept, whatever the request was at when it went (share-media.ts:46).  Excepted
\* are links made while all were being withdrawn, and a request that had read the
\* row and was reading the credential when the withdrawal cut the rest.
DeadLinksSilent ==
    \A r \in Calls : Passes(r) =>
        LET l == call[r].link
        IN l \in rows \/ BeingCut(l) \/ call[r].late \/ l \in missed

\* A link reads the library of the user who made it, also when another has taken
\* the account's name (auth.ts:228), but for the same exceptions, for a link made
\* by a request of the first user that outlasted the withdrawal, and for the
\* links that were there when another took over a name of a music server that
\* gives no ids: those are kept, and read the new user's library (auth.ts:252).
OwnersLibrary ==
    \A r \in Calls : Passes(r) =>
        LET l == call[r].link
        IN \/ call[r].viewer = madeBy[l].user
           \/ BeingCut(l) \/ call[r].late \/ l \in missed
           \/ l \in stray \/ l \in kept

=============================================================================
