--------------------------- MODULE TogetherParty ---------------------------
(***************************************************************************)
(* Who is in a listen-together party: starting and ending one, the event   *)
(* streams of its listeners, joining as a member, adding tracks, removal   *)
(* by the host, and what the end of a session ends                         *)
(* (lib/server/together.ts, routes/together/[token], routes/api/together). *)
(*                                                                         *)
(* A request resolves its session first (hooks.server.ts), then awaits its *)
(* settings and its body, and only then calls the party's function, which  *)
(* is synchronous: the session it brings may have ended meanwhile.  Adding *)
(* a track awaits again, between `admit` and `enqueue`.  What becomes of   *)
(* the tracks is in TogetherQueue; here additions are counted.             *)
(***************************************************************************)
EXTENDS Integers, FiniteSetsExt

CONSTANTS
    Accounts, Sessions,
    Account,            \* the account of each session
    Server,             \* the music server of each account
    Parties,            \* parties that may be started: a token is used once
    Streams,            \* event streams that may be open
    Requests,           \* requests in flight
    Public, Private,    \* addresses, told apart per visitor or not
    MaxListeners,       \* MAX_LISTENERS
    MaxStreams,         \* MAX_STREAMS_PER_SOURCE
    MaxParties,         \* MAX_PARTIES
    MaxAdded,           \* MAX_ADDED
    MaxAddedPerMember,  \* MAX_ADDED_PER_MEMBER
    None,               \* no session, no account, no party, no source
    MaxEnds             \* a bound of the model: sessions that end

Addresses == Public \cup Private

ASSUME PartyAssumption ==
    /\ Account \in [Sessions -> Accounts]
    /\ Accounts \subseteq DOMAIN Server
    /\ {MaxListeners, MaxStreams, MaxParties, MaxAdded, MaxAddedPerMember, MaxEnds}
         \subseteq Nat
    /\ None \notin Sessions \cup Accounts \cup Parties \cup Addresses
    /\ Accounts \cap Addresses = {}
    /\ IsFiniteSet(Accounts) /\ IsFiniteSet(Streams) /\ IsFiniteSet(Parties)

VARIABLES
    alive,    \* sessions with a row in the database
    uncut,    \* sessions whose row is gone, to be cut next (cutSessionStreams)
    party,    \* each party
    stream,   \* each event stream: the listeners of the parties
    request,  \* each request
    capped,   \* bookkeeping: sessions deleted to make room for a new one
    late      \* bookkeeping: sessions a request was served for after their cut

vars == <<alive, uncut, party, stream, request, capped, late>>

-----------------------------------------------------------------------------
(* Types *)

Viewer == Sessions \cup {None}

Party ==
    [status : {"none", "on", "over"}, host : Viewer, expired : BOOLEAN,
     members : SUBSET Accounts, removed : SUBSET Accounts,
     cooling : SUBSET Accounts,       \* added in the last 2 seconds (lastAdd)
     waiting : [Accounts -> Nat],     \* additions not reported taken, by member
     taken : [Accounts -> Nat]]       \* additions in the host's queue

NoParty ==
    [status |-> "none", host |-> None, expired |-> FALSE, members |-> {},
     removed |-> {}, cooling |-> {}, waiting |-> [a \in Accounts |-> 0],
     taken |-> [a \in Accounts |-> 0]]

\* `account` is who opened the stream, `member` and `session` who it joined as.
Stream ==
    [party : Parties \cup {None}, host : BOOLEAN, source : Accounts \cup Public \cup {None},
     account : Accounts \cup {None}, member : Accounts \cup {None}, session : Viewer]

Closed == [party |-> None, host |-> FALSE, source |-> None, account |-> None,
           member |-> None, session |-> None]

Request == [at : {"idle", "in", "admitted", "found"}, session : Viewer,
            party : Parties \cup {None}]

Idle == [at |-> "idle", session |-> None, party |-> None]

-----------------------------------------------------------------------------
(* Looking at a party *)

\* Parties in memory; those among them that a lookup finds.
Held == {p \in Parties : party[p].status = "on"}
Live == {p \in Held : ~party[p].expired}
Hosted(s) == {p \in Held : party[p].host = s}

ListenersOf(p) == {g \in Streams : stream[g].party = p}
Visitors(p) == {g \in ListenersOf(p) : stream[g].account = None /\ ~stream[g].host}
Holding(p, source) == {g \in ListenersOf(p) : stream[g].source = source}

\* Who a request is to a party.  The hosting session comes before `removed`:
\* the host's account may join from another browser, and be removed there.
Standing(p, s) ==
    IF s = None THEN "listener"
    ELSE IF s = party[p].host THEN "host"
    ELSE IF Account[s] \in party[p].removed THEN "removed"
    ELSE IF Server[Account[s]] = Server[Account[party[p].host]] THEN "member"
    ELSE "listener"

Member(p, s) == Standing(p, s) = "member" /\ Account[s] \in party[p].members

Source(p, s, address) ==
    IF Standing(p, s) = "host" THEN None
    ELSE IF s # None THEN Account[s]
    ELSE IF address \in Public THEN address
    ELSE None

\* Mutant of Admitted: the cap comes before anything about the viewer.
AdmittedCapFirst(p, s, address) ==
    /\ Cardinality(ListenersOf(p)) < MaxListeners
    /\ Cardinality(Holding(p, Source(p, s, address))) < MaxStreams
\* Whether a stream may open.
Admitted(p, s, address) ==
    \/ Standing(p, s) = "host"
    \/ s # None /\ Cardinality(Holding(p, Source(p, s, address))) < MaxStreams
    \/ /\ s = None /\ Cardinality(Visitors(p)) < MaxListeners
       /\ \/ Source(p, s, address) = None
          \/ Cardinality(Holding(p, Source(p, s, address))) < MaxStreams

\* Additions of one member, and of the whole party.
AddedBy(p, a) == party[p].waiting[a] + party[p].taken[a]
Added(p) == MapThenSumSet(LAMBDA a : AddedBy(p, a), Accounts)

Room(p, a) == Added(p) < MaxAdded /\ AddedBy(p, a) < MaxAddedPerMember

\* The party may have filled during the lookups.
RoomStill(p, a) == Room(p, a)

-----------------------------------------------------------------------------
(* Ending parties *)

\* A party let go.  Its token leads nowhere from here on.
Over == [NoParty EXCEPT !.status = "over"]

Ended(ps) == [p \in Parties |-> IF p \in ps THEN Over ELSE party[p]]
ClosedOf(ps) == [g \in Streams |-> IF stream[g].party \in ps THEN Closed ELSE stream[g]]

\* Mutant of Nameless: the name stays with the stream.
NamelessNot(g, s) == g
\* A stream whose session has ended stays, as a listener's.
Nameless(g, s) == IF g.session = s /\ s # None
                  THEN [g EXCEPT !.member = None, !.session = None] ELSE g

-----------------------------------------------------------------------------
(* Requests *)

Answered(r) == request' = [request EXCEPT ![r] = Idle]

\* A request arrives: its session is resolved (on PostgreSQL a session just
\* deleted may be remembered until it is cut), or it has none.
Arrive(r, s) ==
    /\ request[r] = Idle
    /\ s \in alive \cup uncut \cup {None}
    /\ request' = [request EXCEPT ![r] = [at |-> "in", session |-> s, party |-> None]]
    /\ UNCHANGED <<alive, uncut, party, stream, capped, late>>

\* What it brings as its session when it is served.
Served(r, s) == request[r].at = "in" /\ s = request[r].session
\* A session that is cut already is served all the same.
ServedLate(s) == late' = IF s \in alive \cup uncut \cup capped THEN late ELSE late \cup {s}

\* Any request that finds its party past its time ends it, and is refused.
\* (The ones that start a party are in Start.)
FindsExpired(r, p) ==
    /\ request[r].at \in {"in", "found"}
    /\ request[r].at = "found" => request[r].party = p
    /\ p \in Held \ Live
    /\ party' = Ended({p})
    /\ stream' = ClosedOf({p})
    /\ Answered(r)
    /\ UNCHANGED <<alive, uncut, capped, late>>

\* A request fails, or is refused without having changed anything.
Refused(r) ==
    /\ request[r] # Idle
    /\ Answered(r)
    /\ UNCHANGED <<alive, uncut, party, stream, capped, late>>

\* Starts a party for a session that hosts none.  One it hosted that is past
\* its time is ended first, and counts no more.
Start(r, s, p) ==
    /\ Served(r, s) /\ s # None
    /\ party[p].status = "none"
    /\ Hosted(s) \cap Live = {}
    /\ Cardinality(Held \ Hosted(s)) < MaxParties
    /\ party' = [Ended(Hosted(s)) EXCEPT ![p] = [NoParty EXCEPT !.status = "on", !.host = s]]
    /\ stream' = ClosedOf(Hosted(s))
    /\ ServedLate(s)
    /\ Answered(r)
    /\ UNCHANGED <<alive, uncut, capped>>

\* The host ends its party.
EndParty(r, s) ==
    /\ Served(r, s)
    /\ Hosted(s) # {}
    /\ party' = Ended(Hosted(s))
    /\ stream' = ClosedOf(Hosted(s))
    /\ Answered(r)
    /\ UNCHANGED <<alive, uncut, capped, late>>

\* An event stream opens.
Listen(r, s, p, g, address) ==
    /\ Served(r, s)
    /\ p \in Live /\ stream[g] = Closed
    /\ Standing(p, s) # "removed"
    /\ Admitted(p, s, address)
    /\ stream' = [stream EXCEPT ![g] =
            [party |-> p, host |-> Standing(p, s) = "host", source |-> Source(p, s, address),
             account |-> IF s = None THEN None ELSE Account[s],
             member |-> None, session |-> None]]
    /\ Answered(r)
    /\ UNCHANGED <<alive, uncut, party, capped, late>>

\* The listener is gone.
Leave(g) ==
    /\ stream[g] # Closed
    /\ stream' = [stream EXCEPT ![g] = Closed]
    /\ UNCHANGED <<alive, uncut, party, request, capped, late>>

\* Mutant of Opened: any stream whose id is known.
OpenedByAnyone(g, s) == s # None
\* A stream can be joined by the account that opened it.
Opened(g, s) == s # None /\ stream[g].account = Account[s]

\* A listener's stream becomes a member's.
Join(r, s, p, g) ==
    /\ Served(r, s)
    /\ p \in Live /\ g \in ListenersOf(p)
    /\ Opened(g, s)
    /\ Standing(p, s) = "member"
    /\ party' = [party EXCEPT ![p].members = @ \cup {Account[s]}]
    /\ stream' = [stream EXCEPT ![g].member = Account[s], ![g].session = s]
    /\ ServedLate(s)
    /\ Answered(r)
    /\ UNCHANGED <<alive, uncut, capped>>

\* A member is about to add a track: counted, whatever comes of it.
Admit(r, s, p) ==
    /\ Served(r, s)
    /\ p \in Live /\ Member(p, s)
    /\ Account[s] \notin party[p].cooling
    /\ party' = [party EXCEPT ![p].cooling = @ \cup {Account[s]}]
    /\ \/ /\ Room(p, Account[s])
          /\ request' = [request EXCEPT ![r].at = "admitted", ![r].party = p]
       \/ ~Room(p, Account[s]) /\ Answered(r)
    /\ UNCHANGED <<alive, uncut, stream, capped, late>>

\* Two seconds later.
Cool(p, a) ==
    /\ a \in party[p].cooling
    /\ party' = [party EXCEPT ![p].cooling = @ \ {a}]
    /\ UNCHANGED <<alive, uncut, stream, request, capped, late>>

\* The track is in the member's library, and the host's session has a row (or
\* may have, for a party that is over).
FindHost(r) ==
    /\ request[r].at = "admitted"
    /\ party[request[r].party].host \in alive \cup {None}
    /\ request' = [request EXCEPT ![r].at = "found"]
    /\ UNCHANGED <<alive, uncut, party, stream, capped, late>>

\* The track is in the host's library too, and is added if it still may be.
Enqueue(r) ==
    /\ request[r].at = "found"
    /\ LET p == request[r].party
           a == Account[request[r].session]
       IN  /\ p \in Live /\ Member(p, request[r].session)
           /\ RoomStill(p, a)
           /\ party' = [party EXCEPT ![p].waiting[a] = @ + 1]
    /\ Answered(r)
    /\ UNCHANGED <<alive, uncut, stream, capped, late>>

\* The account has an addition waiting.
Waits(p, a) == party[p].waiting[a] > 0

\* A member takes back an addition that waits.  (One in the host's queue is
\* marked; see TogetherQueue.)
Withdraw(r, s, p) ==
    /\ Served(r, s) /\ s # None
    /\ p \in Live /\ Standing(p, s) = "member"
    /\ Waits(p, Account[s])
    /\ party' = [party EXCEPT ![p].waiting[Account[s]] = @ - 1]
    /\ Answered(r)
    /\ UNCHANGED <<alive, uncut, stream, capped, late>>

\* The host's browser reports: some that waited are taken, some taken are gone.
ReportQueue(r, s, p) ==
    /\ Served(r, s)
    /\ p \in Hosted(s) \cap Live
    /\ \E waiting, taken \in [Accounts -> 0..MaxAddedPerMember] :
        /\ \A a \in Accounts : /\ waiting[a] <= party[p].waiting[a]
                               /\ waiting[a] + taken[a] <= AddedBy(p, a)
        /\ party' = [party EXCEPT ![p].waiting = waiting, ![p].taken = taken]
    /\ Answered(r)
    /\ UNCHANGED <<alive, uncut, stream, capped, late>>

\* Mutant of StreamsRemoved: the streams that joined, not all it has open.
StreamsJoined(p, a) == {g \in ListenersOf(p) : stream[g].member = a}
StreamsRemoved(p, a) == {g \in ListenersOf(p) : stream[g].account = a /\ ~stream[g].host}

\* The host removes a member: its streams close, what it added and nobody took
\* is dropped.
RemoveMember(r, s, p, a) ==
    /\ Served(r, s)
    /\ p \in Hosted(s) \cap Live
    /\ a \in party[p].members
    /\ party' = [party EXCEPT ![p].members = @ \ {a}, ![p].removed = @ \cup {a},
                              ![p].waiting[a] = 0]
    /\ stream' = [g \in Streams |-> IF g \in StreamsRemoved(p, a) THEN Closed ELSE stream[g]]
    /\ Answered(r)
    /\ UNCHANGED <<alive, uncut, capped, late>>

-----------------------------------------------------------------------------
(* Time, and the end of sessions *)

\* The party is past its time.  It is in memory until something looks at it.
Expire(p) ==
    /\ p \in Live
    /\ party' = [party EXCEPT ![p].expired = TRUE]
    /\ UNCHANGED <<alive, uncut, stream, request, capped, late>>

MayEnd(s) == s \in alive /\ Cardinality(Sessions \ alive) < MaxEnds

\* A session is signed out: first its row goes.
EndSession(s) ==
    /\ MayEnd(s)
    /\ alive' = alive \ {s}
    /\ uncut' = uncut \cup {s}
    /\ UNCHANGED <<party, stream, request, capped, late>>

\* Mutant of EndedBy: a party nobody listens to is passed over.
EndedByHeard(s) == {p \in Hosted(s) : ListenersOf(p) # {}}
\* The party a session takes with it.
EndedBy(s) == Hosted(s)

\* Then it is cut: its party ends, and its name leaves the others'.
Cut(s) ==
    /\ s \in uncut
    /\ uncut' = uncut \ {s}
    /\ party' = Ended(EndedBy(s))
    /\ stream' = [g \in Streams |-> Nameless(ClosedOf(EndedBy(s))[g], s)]
    /\ UNCHANGED <<alive, request, capped, late>>

\* A sign-in past the account's limit deletes its oldest session, and cuts
\* nothing.
CapSession(s) ==
    /\ MayEnd(s)
    /\ alive' = alive \ {s}
    /\ capped' = capped \cup {s}
    /\ UNCHANGED <<uncut, party, stream, request, late>>

-----------------------------------------------------------------------------
(* The specification *)

\* Every session is signed in; nobody has started a party.
Init ==
    /\ alive = Sessions /\ uncut = {} /\ capped = {} /\ late = {}
    /\ party = [p \in Parties |-> NoParty]
    /\ stream = [g \in Streams |-> Closed]
    /\ request = [r \in Requests |-> Idle]

Hosting(r) ==
    \E s \in Viewer, p \in Parties :
        \/ Start(r, s, p) \/ ReportQueue(r, s, p)
        \/ \E a \in Accounts : RemoveMember(r, s, p, a)

Listening(r) ==
    \E s \in Viewer, p \in Parties :
        \/ \E g \in Streams : \/ \E address \in Addresses : Listen(r, s, p, g, address)
                              \/ Join(r, s, p, g)
        \/ Admit(r, s, p) \/ Withdraw(r, s, p)

Next ==
    \/ \E r \in Requests : \/ \E s \in Viewer : Arrive(r, s) \/ EndParty(r, s)
                           \/ Hosting(r) \/ Listening(r)
                           \/ FindHost(r) \/ Enqueue(r) \/ Refused(r)
                           \/ \E p \in Parties : FindsExpired(r, p)
    \/ \E g \in Streams : Leave(g)
    \/ \E p \in Parties : Expire(p) \/ \E a \in Accounts : Cool(p, a)
    \/ \E s \in Sessions : EndSession(s) \/ Cut(s) \/ CapSession(s)

Spec == Init /\ [][Next]_vars

-----------------------------------------------------------------------------
(* Properties *)

\* The type invariant.
TypeOK ==
    /\ alive \subseteq Sessions /\ uncut \subseteq Sessions \ alive
    /\ capped \subseteq Sessions \ alive /\ late \subseteq Sessions \ alive
    /\ party \in [Parties -> Party]
    /\ stream \in [Streams -> Stream]
    /\ request \in [Requests -> Request]

\* An account the host removed is out for the rest of the party: no membership,
\* nothing waiting to be added, and no stream open but the hosting browser's,
\* whatever it had in flight when it was removed (removeMember; enqueue looks
\* again after its lookups, and so do listen and join after their waits).
RemovedStaysOut ==
    \A p \in Held : \A a \in party[p].removed :
        /\ a \notin party[p].members
        /\ party[p].waiting[a] = 0
        /\ \A g \in ListenersOf(p) : stream[g].account = a => stream[g].host

\* A stream shows no name but that of the account that opened it, one of the
\* party's members (join: names were once put on strangers' streams).  The
\* hosting browser's stream outlives a removal of its account.
NamesAreTheirs ==
    \A p \in Held : \A g \in ListenersOf(p) :
        stream[g].member # None => /\ stream[g].member = stream[g].account
                                   /\ stream[g].member \in party[p].members \/ stream[g].host

\* The name of a member whose session was signed out leaves the host's list
\* (endPartiesOf), unless the join was served after the cut.
NamesLeave ==
    \A g \in Streams :
        stream[g].session # None => stream[g].session \in alive \cup uncut \cup capped \cup late

\* A party ends with its host's session when that is signed out, unless the
\* party was started after the cut.
EndsWhenSignedOut ==
    \A p \in Held : party[p].host \in alive \cup uncut \cup capped \cup late

\* A party ends with its host's session (together.ts PARTY_TTL_MS: "It also
\* ends with the host's session"), however that ends.  It does not when a
\* sign-in past the account's limit ends it: capSessions cuts nothing.
EndsWithSession ==
    \A p \in Held : party[p].host \in alive \cup uncut \cup late

\* Nobody is shut out by others' streams: a signed-in account that the host has
\* not removed gets in while it holds fewer than its own share (admission; the
\* cap once came first, and one visitor could fill the party).
OnlyOwnStreamsShutOut ==
    \A p \in Live, s \in Sessions :
        /\ Standing(p, s) # "removed"
        /\ Cardinality({g \in ListenersOf(p) : stream[g].account = Account[s]}) < MaxStreams
        => \A address \in Addresses : Admitted(p, s, address)
=============================================================================
