------------------------------ MODULE Sessions ------------------------------
(***************************************************************************)
(* The sessions of one account and everything that ends them               *)
(* (lib/server/auth.ts), on PostgreSQL, where a resolved session is        *)
(* remembered for five seconds.  SQLite remembers nothing: its behaviours  *)
(* are those where Resolve never takes the first way.                      *)
(*                                                                         *)
(* What waits for the database is two steps: the statement runs there, and *)
(* its answer is handled here later; in between, anything may run.  A      *)
(* process is a request that is served, or an operation that ends sessions *)
(* or changes the account.                                                 *)
(***************************************************************************)
EXTENDS Integers, FiniteSets

CONSTANTS
    Tokens,       \* sessions, each issued once
    Requests,     \* requests that bring a session
    Ops,          \* operations under way at once
    MaxSessions,  \* MAX_SESSIONS_PER_ACCOUNT
    None,         \* nothing remembered
    MaxPassword   \* a bound of the model: changes of the password, upstream

ASSUME SessionsAssumption ==
    /\ MaxSessions \in Nat \ {0} /\ MaxPassword \in Nat
    /\ IsFiniteSet(Tokens) /\ IsFiniteSet(Ops)
    /\ None \notin Nat

VARIABLES
    \* The music server
    password,   \* the account's password there, counted by its changes
    \* The database
    rows,       \* the sessions with a row
    credential, \* the password stored with the account
    \* This process
    cache,      \* sessionCache: the credential of each session remembered
    fresh,      \* requests whose reads began since sessionEpoch last moved
    request,    \* what each request is at
    op,         \* what each operation is at
    \* Bookkeeping, read by the properties, and the order of created_at
    created,    \* sessions issued, and how many were before: their age
    born,       \* the credential each was issued under
    passed,     \* requests under way when their session was cut
    uncut,      \* sessions deleted by an operation that does not cut them
    alone       \* whether no two sign-ins have been under way at once

database == <<rows, credential>>
process  == <<cache, fresh>>
issued   == <<created, born>>
vars == <<password, database, process, request, op, issued, passed, uncut, alone>>

-----------------------------------------------------------------------------
(* Types *)

Passwords == 0..MaxPassword

Request ==
    [at : {"idle", "reading", "row", "read", "resolved", "streaming"},
     token : Tokens \cup {None}, credential : Passwords \cup {None}]

Idle == [at |-> "idle", token |-> None, credential |-> None]

\* `ends` are the sessions an operation selected, `left` those of them it has
\* yet to delete, `last` the ones deleted by its last statement; `signsIn` tells
\* a sign-in, and `credential` is what that stores.
Op ==
    [at : {"idle", "signedOut", "ending", "ended", "select", "deleting", "deleted",
           "update", "updated", "insert", "cap", "capped"},
     ends : SUBSET Tokens, left : SUBSET Tokens, last : SUBSET Tokens,
     signsIn : BOOLEAN, credential : Passwords]

Resting == [at |-> "idle", ends |-> {}, left |-> {}, last |-> {},
            signsIn |-> FALSE, credential |-> 0]

Created == {s \in Tokens : created[s] # 0}
SigningIn == {o \in Ops : op[o].signsIn}

-----------------------------------------------------------------------------
(* What this process does at once, in one step *)

\* Mutant of StillFresh: a read is remembered whatever ended meanwhile.
StillFreshAlways(r) == TRUE
\* No sign-out has landed since the reads of r began.
StillFresh(r) == r \in fresh

\* Mutant of Cached: sessions are forgotten for their row alone.
CachedAnyway(without) == [s \in Tokens |-> IF s \in without \cap rows THEN None ELSE cache[s]]
\* What is remembered without these sessions.
Cached(without) == [s \in Tokens |-> IF s \in without THEN None ELSE cache[s]]

\* Drops these sessions, and moves the epoch.
Forget(without) == cache' = Cached(without) /\ fresh' = {}

\* Mutant of CutBy: streams outlive the session.
CutByNone(ends) == {}
\* cutSessionStreams: the streams tied to these sessions.
CutBy(ends) == {r \in Requests : request[r].at = "streaming" /\ request[r].token \in ends}

Cut(ends) ==
    /\ request' = [r \in Requests |-> IF r \in CutBy(ends) THEN Idle ELSE request[r]]
    /\ passed' = passed \cup {r \in Requests : /\ request[r].at \notin {"idle", "streaming"}
                                               /\ request[r].token \in ends}

-----------------------------------------------------------------------------
(* A request *)

Step(r, at) == request' = [request EXCEPT ![r].at = at]

\* A request brings a token.  Its session is remembered, or is read.
Resolve(r, s) ==
    /\ request[r] = Idle
    /\ s \in Created
    /\ passed' = passed \ {r}
    /\ \/ /\ cache[s] # None
          /\ request' = [request EXCEPT ![r] = [at |-> "resolved", token |-> s, credential |-> cache[s]]]
          /\ UNCHANGED fresh
       \/ /\ cache[s] = None
          /\ request' = [request EXCEPT ![r] = [at |-> "reading", token |-> s, credential |-> None]]
          /\ fresh' = fresh \cup {r}
    /\ UNCHANGED <<password, database, cache, op, issued, uncut, alone>>

\* The first read, of the session's row.
ReadRow(r) ==
    /\ request[r].at = "reading"
    /\ IF request[r].token \in rows THEN Step(r, "row")
       ELSE request' = [request EXCEPT ![r] = Idle]
    /\ UNCHANGED <<password, database, process, op, issued, passed, uncut, alone>>

\* The second, of the account.
ReadAccount(r) ==
    /\ request[r].at = "row"
    /\ request' = [request EXCEPT ![r].at = "read", ![r].credential = credential]
    /\ UNCHANGED <<password, database, process, op, issued, passed, uncut, alone>>

\* Both are here: remembered, unless something has ended since they began.
Resolved(r) ==
    /\ request[r].at = "read"
    /\ cache' = IF StillFresh(r) THEN [cache EXCEPT ![request[r].token] = request[r].credential]
                ELSE cache
    /\ Step(r, "resolved")
    /\ UNCHANGED <<password, database, fresh, op, issued, passed, uncut, alone>>

\* The request is for audio: the music server has opened it, and the response
\* is tied to the session.
OpenStream(r) ==
    /\ request[r].at = "resolved" /\ request[r].credential = password
    /\ Step(r, "streaming")
    /\ UNCHANGED <<password, database, process, op, issued, passed, uncut, alone>>

\* The request is answered, or its stream ends.
Done(r) ==
    /\ request[r].at \in {"resolved", "streaming"}
    /\ request' = [request EXCEPT ![r] = Idle]
    /\ UNCHANGED <<password, database, process, op, issued, passed, uncut, alone>>

\* Five seconds pass.
Lapse(s) ==
    /\ cache[s] # None
    /\ cache' = [cache EXCEPT ![s] = None]
    /\ UNCHANGED <<password, database, fresh, request, op, issued, passed, uncut, alone>>

-----------------------------------------------------------------------------
(* Signing out *)

Goes(o, at) == op' = [op EXCEPT ![o].at = at]
Rests(o) == op' = [op EXCEPT ![o] = Resting]

\* destroySession: the row goes.
SignOut(o, s) ==
    /\ op[o] = Resting
    /\ s \in rows
    /\ rows' = rows \ {s}
    /\ op' = [op EXCEPT ![o] = [Resting EXCEPT !.at = "signedOut", !.ends = {s}, !.last = {s}]]
    /\ UNCHANGED <<password, credential, process, request, issued, passed, uncut, alone>>

\* It is forgotten and its streams are cut.
SignedOut(o) ==
    /\ op[o].at = "signedOut"
    /\ Forget(op[o].last)
    /\ Cut(op[o].ends)
    /\ Rests(o)
    /\ UNCHANGED <<password, database, issued, uncut, alone>>

\* endSessions: the account's sessions are read, and those to end picked:
\* all but this one, or some, none of them younger (unless a factor changed).
EndOthers(o, s, newer) ==
    /\ op[o] = Resting
    /\ s \in rows
    /\ \E ends \in (SUBSET {t \in rows \ {s} : newer \/ created[t] <= created[s]}) \ {{}} :
            op' = [op EXCEPT ![o] = [Resting EXCEPT !.at = "ending", !.ends = ends, !.left = ends]]
    /\ UNCHANGED <<password, database, process, request, issued, passed, uncut, alone>>

\* One row goes,
EndOne(o, s) ==
    /\ op[o].at = "ending" /\ s \in op[o].left
    /\ rows' = rows \ {s}
    /\ op' = [op EXCEPT ![o].at = "ended", ![o].left = @ \ {s}, ![o].last = {s}]
    /\ UNCHANGED <<password, credential, process, request, issued, passed, uncut, alone>>

\* and is forgotten; after the last, all their streams are cut.
EndedOne(o) ==
    /\ op[o].at = "ended"
    /\ Forget(op[o].last)
    /\ \/ /\ op[o].left # {}
          /\ Goes(o, "ending")
          /\ UNCHANGED <<request, passed>>
       \/ /\ op[o].left = {}
          /\ Cut(op[o].ends)
          /\ Rests(o)
    /\ UNCHANGED <<password, database, issued, uncut, alone>>

\* destroyAllSessions, as the music server refuses the credential of a request.
Refuse(o, r) ==
    /\ op[o] = Resting
    /\ request[r].at = "resolved" /\ request[r].credential # password
    /\ op' = [op EXCEPT ![o] = [Resting EXCEPT !.at = "select"]]
    /\ request' = [request EXCEPT ![r] = Idle]
    /\ UNCHANGED <<password, database, process, issued, passed, uncut, alone>>

\* The sessions to cut are read,
SelectAll(o) ==
    /\ op[o].at = "select"
    /\ op' = [op EXCEPT ![o].at = "deleting", ![o].ends = rows]
    /\ UNCHANGED <<password, database, process, request, issued, passed, uncut, alone>>

\* then every row goes, those issued since among them,
DeleteAll(o) ==
    /\ op[o].at = "deleting"
    /\ rows' = {}
    /\ uncut' = uncut \cup (rows \ op[o].ends)
    /\ op' = [op EXCEPT ![o].at = "deleted", ![o].last = op[o].ends \cup rows]
    /\ UNCHANGED <<password, credential, process, request, issued, passed, alone>>

\* and after the account's tokens and links are gone, the streams are cut and
\* the account forgotten.  A sign-in goes on.
ForgetAll(o) ==
    /\ op[o].at = "deleted"
    /\ Cut(op[o].ends)
    /\ Forget(Tokens)
    /\ IF op[o].signsIn
       THEN op' = [op EXCEPT ![o].at = "update", ![o].ends = {}, ![o].last = {}]
       ELSE Rests(o)
    /\ UNCHANGED <<password, database, issued, uncut, alone>>

-----------------------------------------------------------------------------
(* Signing in *)

\* The password changes at the music server.
ChangePassword ==
    /\ password < MaxPassword
    /\ password' = password + 1
    /\ UNCHANGED <<database, process, request, op, issued, passed, uncut, alone>>

\* Mutant of PasswordChanged: the stored credential is only replaced.
PasswordChangedNever(new) == FALSE
\* A sign-in stores another password than the one held.
PasswordChanged(new) == new # credential

\* A sign-in that the music server took reads the account (storeAccount).
SignIn(o) ==
    /\ op[o] = Resting
    /\ Created # Tokens
    /\ op' = [op EXCEPT ![o] = [Resting EXCEPT
                !.at = IF PasswordChanged(password) THEN "select" ELSE "update",
                !.signsIn = TRUE, !.credential = password]]
    /\ alone' = (alone /\ SigningIn = {})
    /\ UNCHANGED <<password, database, process, request, issued, passed, uncut>>

\* The account gets its credential,
Update(o) ==
    /\ op[o].at = "update"
    /\ credential' = op[o].credential
    /\ Goes(o, "updated")
    /\ UNCHANGED <<password, rows, process, request, issued, passed, uncut, alone>>

\* is forgotten,
Updated(o) ==
    /\ op[o].at = "updated"
    /\ Forget(Tokens)
    /\ Goes(o, "insert")
    /\ UNCHANGED <<password, database, request, issued, passed, uncut, alone>>

\* and has a new session (createSession).
Insert(o, s) ==
    /\ op[o].at = "insert"
    /\ s \in Tokens \ Created
    /\ rows' = rows \cup {s}
    /\ created' = [created EXCEPT ![s] = Cardinality(Created) + 1]
    /\ born' = [born EXCEPT ![s] = op[o].credential]
    /\ Goes(o, "cap")
    /\ UNCHANGED <<password, credential, process, request, passed, uncut, alone>>

\* The account's sessions past its limit, the oldest.
Oldest == {s \in rows : Cardinality({t \in rows : created[t] > created[s]}) >= MaxSessions}

\* capSessions: they go,
Cap(o) ==
    /\ op[o].at = "cap"
    /\ rows' = rows \ Oldest
    /\ uncut' = uncut \cup Oldest
    /\ IF Oldest = {} THEN Rests(o)
       ELSE op' = [op EXCEPT ![o].at = "capped", ![o].last = Oldest]
    /\ UNCHANGED <<password, credential, process, request, issued, passed, alone>>

\* and are forgotten, their streams and parties left alone.
Capped(o) ==
    /\ op[o].at = "capped"
    /\ Forget(Tokens)
    /\ Rests(o)
    /\ UNCHANGED <<password, database, request, issued, passed, uncut, alone>>

-----------------------------------------------------------------------------
(* The specification *)

Init ==
    /\ password = 0 /\ rows = {} /\ credential = 0
    /\ cache = [s \in Tokens |-> None] /\ fresh = {}
    /\ request = [r \in Requests |-> Idle]
    /\ op = [o \in Ops |-> Resting]
    /\ created = [s \in Tokens |-> 0] /\ born = [s \in Tokens |-> 0]
    /\ passed = {} /\ uncut = {} /\ alone = TRUE

Serving(r) ==
    \/ \E s \in Tokens : Resolve(r, s)
    \/ ReadRow(r) \/ ReadAccount(r) \/ Resolved(r) \/ OpenStream(r) \/ Done(r)

Ending(o) ==
    \/ \E s \in Tokens : \/ SignOut(o, s) \/ EndOne(o, s)
                         \/ \E newer \in BOOLEAN : EndOthers(o, s, newer)
    \/ \E r \in Requests : Refuse(o, r)
    \/ SignedOut(o) \/ EndedOne(o) \/ SelectAll(o) \/ DeleteAll(o) \/ ForgetAll(o)

Entering(o) ==
    \/ SignIn(o) \/ Update(o) \/ Updated(o) \/ Cap(o) \/ Capped(o)
    \/ \E s \in Tokens : Insert(o, s)

Next ==
    \/ \E r \in Requests : Serving(r)
    \/ \E s \in Tokens : Lapse(s)
    \/ \E o \in Ops : Ending(o) \/ Entering(o)
    \/ ChangePassword

Spec == Init /\ [][Next]_vars

-----------------------------------------------------------------------------
(* Properties *)

\* The type invariant.
TypeOK ==
    /\ password \in Passwords /\ credential \in Passwords
    /\ rows \subseteq Created
    /\ cache \in [Tokens -> Passwords \cup {None}]
    /\ fresh \subseteq Requests /\ passed \subseteq Requests
    /\ request \in [Requests -> Request]
    /\ op \in [Ops -> Op]
    /\ created \in [Tokens -> 0..Cardinality(Tokens)]
    /\ born \in [Tokens -> Passwords]
    /\ uncut \subseteq Created \ rows
    /\ alone \in BOOLEAN

\* The sessions some operation has deleted and is about to forget.
Forgetting == UNION {op[o].last : o \in {p \in Ops : op[p].at \in {"signedOut", "ended", "deleted", "capped"}}}

\* A session that ended is not remembered, once what ended it is done, though
\* the reads that would remember it may have begun before (resolveSession, the
\* epoch): a request that comes then is refused.
EndedForgotten ==
    \A s \in Tokens : cache[s] # None => s \in rows \cup Forgetting

\* What is remembered of the account is its row as it is, but while a sign-in
\* that changed it is about to forget it.
CacheCurrent ==
    \A s \in Tokens : cache[s] \in {None, credential} \/ \E o \in Ops : op[o].at = "updated"

\* The sessions some operation is about to cut.
Cutting == UNION {op[o].ends : o \in Ops}

\* No stream goes on under a session that was ended ("Audio in progress, by
\* session, so that ending a session stops it"), but those opened by a request
\* that was under way when it was cut, and those of sessions deleted to make
\* room, or between the two statements of destroyAllSessions.
StreamsCut ==
    \A r \in Requests :
        request[r].at = "streaming" =>
            request[r].token \in rows \cup Cutting \cup uncut \/ r \in passed

\* Sessions do not outlive the password they were signed in with: every row is
\* of the credential stored (storeAccount), while sign-ins come one at a time.
BornUnderCredential ==
    alone => \A s \in rows : born[s] = credential

\* No request pairs an old session with the new credential (storeAccount), but
\* one under way before its session is cut, while sign-ins come one at a time.
NoPairing ==
    alone => \A r \in Requests :
        request[r].credential # None =>
            \/ request[r].credential = born[request[r].token]
            \/ r \in passed \/ request[r].token \in uncut \cup Cutting
=============================================================================
