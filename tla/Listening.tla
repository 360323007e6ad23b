----------------------------- MODULE Listening -----------------------------
(***************************************************************************)
(* What the accounts of a server are shown of each other's listening       *)
(* (lib/server/listening.ts), from what their browsers and their other     *)
(* apps report (lib/server/remote.ts, takePlayback of plugin.ts).          *)
(*                                                                         *)
(* An account is shown only while its profile says so, and what its other  *)
(* apps play only while its settings say so as well.  Both are rows of the *)
(* database; what is shown is worked out in memory from a profile read     *)
(* once (`known`), sent to every open stream, and kept current by every    *)
(* report, save and closing stream.  A statement takes effect in one step  *)
(* and its answer is handled in a later one, so saves, reads and reports   *)
(* of one account pass each other.                                         *)
(***************************************************************************)
EXTENDS Integers, Sequences, FiniteSets

CONSTANTS
    Accounts,
    Peers,      \* ids of browsers' streams
    Apps,       \* other apps: Navidrome's ids for its clients
    Songs,
    Names,      \* display names
    None,       \* no profile, nothing playing, not told yet
    MaxPeers,   \* MAX_PEERS_PER_ACCOUNT
    MaxApps,    \* MAX_APPS_PER_ACCOUNT
    \* Bounds of the model
    Ops,        \* requests under way
    Changing,   \* accounts that change what is shown of them
    MaxMade     \* requests made

ASSUME ListeningAssumption ==
    /\ None \notin Accounts \cup Songs \cup Names /\ Names # {}
    /\ {MaxPeers, MaxMade} \subseteq Nat /\ MaxApps \in Nat \ {0}
    /\ Peers \cap Apps = {}
    /\ Changing \subseteq Accounts

VARIABLES
    rows,       \* the profile of each account
    sharing,    \* listeningOtherApps of each account's settings
    memory,     \* what the process holds
    ops,        \* each request
    chosen,     \* bookkeeping: what each account last chose to be, shown or not
    made,       \* requests made so far
    crossed     \* bookkeeping: accounts whose changes or reads undid each other

vars == <<rows, sharing, memory, ops, chosen, made, crossed>>

-----------------------------------------------------------------------------
(* What is held *)

\* An account without a row is as one not shown.
Profile == [shown : BOOLEAN, name : Names]
NoProfile == [shown |-> FALSE, name |-> CHOOSE n \in Names : TRUE]

\* `peers`: None, or the account, the song it plays, and the list last sent.
\* `apps`: by account, the one heard last at the end.
\* `gap`: whether a list was just sent to everyone, and has to be sent again.
Entry == [source : Peers \cup Apps, song : Songs, name : Names]
App == [app : Apps, song : Songs \cup {None}, shared : BOOLEAN]
List == [Accounts -> {None} \cup [song : Songs, name : Names]]
Peer == [account : Accounts, song : Songs \cup {None}, told : {None} \cup List]

\* No record stands for its absence.
ASSUME NoneAssumption == None \notin Profile \cup Entry \cup Peer

PeersOf(m, a) == {p \in Peers : m.peers[p] # None /\ m.peers[p].account = a}
AppsHeld(m, a) == {m.apps[a][i] : i \in DOMAIN m.apps[a]}

\* present, hasApps.
Connected(m, a) == PeersOf(m, a) # {} \/ m.apps[a] # <<>>

\* playingInApps.
InApps(m, a) ==
    {[source |-> h.app, song |-> h.song] :
        h \in {x \in AppsHeld(m, a) : x.shared /\ x.song # None}}
\* playingOn.
OnPeers(m, a) ==
    {[source |-> p, song |-> m.peers[p].song] : p \in {q \in PeersOf(m, a) : m.peers[q].song # None}}

\* What an account's browsers are sent: the others, without what was chosen from.
ListFor(m, a) ==
    [b \in Accounts |-> IF b = a \/ m.playing[b] = None THEN None
                        ELSE [song |-> m.playing[b].song, name |-> m.playing[b].name]]

Tell(m, p) == [m EXCEPT !.peers[p].told = ListFor(m, m.peers[p].account)]

TellEveryone(m) ==
    [m EXCEPT !.peers = [p \in Peers |->
        IF @[p] = None THEN None ELSE [@[p] EXCEPT !.told = ListFor(m, m.peers[p].account)]]]

\* Mutant of SendAgain: what changes within the gap is left to the next change.
SendAgainNot(m) == m
\* What changes within the gap is sent at its end.
SendAgain(m) == [m EXCEPT !.gap = "again"]

Publish(m) ==
    IF m.gap = "none" THEN [TellEveryone(m) EXCEPT !.gap = "held"] ELSE SendAgain(m)

\* What an account may be shown as.  The source shown stays; failing that the
\* one heard last is taken (any here: times are left out).  The same track
\* under the same name, not far from where it was, changes nothing, the source
\* included.
Shown(m, a) ==
    LET before == m.playing[a]
        reports == IF m.known[a] # None /\ m.known[a].shown THEN OnPeers(m, a) \cup InApps(m, a)
                   ELSE {}
        same == {r \in reports : before # None /\ r.source = before.source}
        entry(r) == [source |-> r.source, song |-> r.song, name |-> m.known[a].name]
        entries == {entry(r) : r \in IF same # {} THEN same ELSE reports}
    IN IF reports = {} THEN {None}
       ELSE entries \cup {e \in {before} : e # None /\ \E x \in entries :
                                              x.song = e.song /\ x.name = e.name}

\* refresh, and the list sent if it is no longer right: what memory may come to.
\* (A seek sends it again without a change that shows here.)
Refresh(m, a) ==
    LET shown == Shown(m, a) IN
    {Publish([m EXCEPT !.playing[a] = e]) : e \in shown \ {m.playing[a]}}
        \cup (IF m.playing[a] \in shown THEN {m} ELSE {})
        \cup (IF m.playing[a] \in shown \ {None} THEN {Publish(m)} ELSE {})

\* The watcher: a report has come, or a stream or an app has gone.
Watch(m, a) == Refresh(IF Connected(m, a) THEN m ELSE [m EXCEPT !.known[a] = None], a)

-----------------------------------------------------------------------------
(* Requests *)

\* `what` it was asked, and what it `saw` when it read.
Idle == [kind |-> "idle", at |-> "idle", account |-> None, what |-> None, saw |-> None]
Op(kind, at, a, what) == [kind |-> kind, at |-> at, account |-> a, what |-> what, saw |-> None]

OpsOf(a) == {o \in Ops : ops[o].account = a}
At(o, kind, at) == ops[o].kind = kind /\ ops[o].at = at

\* Requests that may undo each other: two that write what they read, or one that
\* reads what the other changes.  (A save meeting a read is seen to by the code.)
Crossing(k, l) ==
    \/ {k, l} \subseteq {"save", "hide"}
    \/ {k, l} = {"set"}
    \/ {k, l} \in {{"hide", "arrive"}, {"hide", "app"}, {"set", "app"}}

Made == made < MaxMade /\ made' = made + 1

\* A request begins.  (A bound: once its changes crossed, an account makes none.)
Begins(o, new) ==
    /\ ops[o] = Idle /\ new.account \notin crossed
    /\ ops' = [ops EXCEPT ![o] = new]
    /\ crossed' = IF \E u \in OpsOf(new.account) : Crossing(ops[u].kind, new.kind)
                  THEN crossed \cup {new.account} ELSE crossed
    /\ Made

\* A stream or an app of the account goes.  If it was the last, a profile still
\* being read for it may be put in place later, for a stream opened since, older
\* than what was saved meanwhile.
Goes(a) ==
    LET reads == {u \in OpsOf(a) : ops[u].kind \in {"arrive", "app"}
                                     /\ ops[u].at \in {"reading", "read"}} IN
    /\ crossed' = IF ~Connected(memory', a) /\ reads # {} THEN crossed \cup {a} ELSE crossed
    /\ UNCHANGED made

\* Its answer arrives, with what was read; or it ends.
GoesOn(o, at, saw) == ops' = [ops EXCEPT ![o].at = at, ![o].saw = saw] /\ UNCHANGED <<made, crossed>>
Ends(o) == ops' = [ops EXCEPT ![o] = Idle] /\ UNCHANGED <<made, crossed>>

Stored == <<rows, sharing, chosen>>

-----------------------------------------------------------------------------
(* Browsers *)

\* A stream opens: join, then `arrived`.  Its id is not one still in use.
Open(o, p, a) ==
    LET new == [account |-> a, song |-> None, told |-> None]
        m == [memory EXCEPT !.peers[p] = new] IN
    /\ memory.peers[p] = None
    /\ \A u \in Ops : ops[u].kind = "arrive" => ops[u].what # p
    /\ \A u \in Ops : ops[u].kind = "hide" => p \notin ops[u].what
    /\ \A b \in Accounts : memory.playing[b] # None => memory.playing[b].source # p
    /\ Cardinality(PeersOf(memory, a)) < MaxPeers
    /\ \/ /\ memory.known[a] # None
          /\ memory' = Tell(m, p) /\ Made /\ UNCHANGED <<ops, crossed>>
       \/ /\ memory.known[a] = None
          /\ Begins(o, Op("arrive", "reading", a, p)) /\ memory' = m
    /\ UNCHANGED Stored

\* Mutant of Arrived: the profile read replaces the one held.
ArrivedAnyway(m, a, profile) == [m EXCEPT !.known[a] = profile]
\* A save in the meantime has put a newer profile here than the one read.
Arrived(m, a, profile) ==
    IF m.known[a] = None THEN [m EXCEPT !.known[a] = profile] ELSE m

\* The account's profile has been read.  The stream may have closed.
Arrives(o) ==
    LET a == ops[o].account
        p == ops[o].what
        m == Arrived(memory, a, ops[o].saw) IN
    /\ At(o, "arrive", "read")
    /\ memory' = IF PeersOf(memory, a) = {} THEN memory
                 ELSE IF memory.peers[p] = None THEN m ELSE Tell(m, p)
    /\ Ends(o)
    /\ UNCHANGED Stored

\* A stream closes: leave.
Close(p) ==
    /\ memory.peers[p] # None
    /\ memory' \in Watch([memory EXCEPT !.peers[p] = None], memory.peers[p].account)
    /\ Goes(memory.peers[p].account)
    /\ UNCHANGED ops /\ UNCHANGED Stored

\* A browser reports what it plays: POST /api/remote/state.
Report(p, song) ==
    /\ memory.peers[p] # None
    /\ memory' \in Watch([memory EXCEPT !.peers[p].song = song], memory.peers[p].account)
    /\ UNCHANGED <<ops, made, crossed>> /\ UNCHANGED Stored

-----------------------------------------------------------------------------
(* The profile *)

\* What a save may ask for: a name other than the first, to be shown or not, or
\* another picture.
Patches == [field : {"name"}, value : Names \ {NoProfile.name}] \cup [field : {"shown"}, value : BOOLEAN]
             \cup {[field |-> "picture", value |-> None]}

\* saveProfile reads what there is first; setAvatar does not.
Save(o, a, patch) ==
    /\ Begins(o, Op("save", IF patch.field = "picture" THEN "read" ELSE "reading", a, patch))
    /\ UNCHANGED memory /\ UNCHANGED Stored

\* A name another account goes by is refused.
NameTaken(o) ==
    /\ At(o, "save", "read") /\ ops[o].what.field = "name"
    /\ ops[o].what.value # ops[o].saw.name
    /\ Ends(o)
    /\ UNCHANGED memory /\ UNCHANGED Stored

\* The row written: what was read where the patch says nothing.
Patched(saw, patch) ==
    [shown |-> IF patch.field = "shown" THEN patch.value ELSE saw.shown,
     name |-> IF patch.field = "name" THEN patch.value ELSE saw.name]

Write(o) ==
    LET a == ops[o].account
        patch == ops[o].what IN
    /\ At(o, "save", "read")
    /\ rows' = IF patch.field = "picture" THEN rows
               ELSE [rows EXCEPT ![a] = Patched(ops[o].saw, patch)]
    /\ chosen' = IF patch.field = "shown" THEN [chosen EXCEPT ![a] = patch.value] ELSE chosen
    /\ GoesOn(o, "written", None)
    /\ UNCHANGED <<sharing, memory>>

\* A profile is read, for a stream, a save, or an app's report.
ReadProfile(o) ==
    /\ \/ /\ ops[o].at = "reading" /\ ops[o].kind # "set"
          /\ GoesOn(o, "read", rows[ops[o].account])
       \/ At(o, "save", "written") /\ GoesOn(o, "reread", rows[ops[o].account])
    /\ UNCHANGED memory /\ UNCHANGED Stored

\* changed: the saved profile is held if the account is connected, and the list
\* sent whether or not it changed.
Changed(o) ==
    LET a == ops[o].account
        m == IF Connected(memory, a) THEN [memory EXCEPT !.known[a] = ops[o].saw] ELSE memory IN
    /\ At(o, "save", "reread")
    /\ \E e \in Shown(m, a) : memory' = Publish([m EXCEPT !.playing[a] = e])
    /\ Ends(o)
    /\ UNCHANGED Stored

\* A sign-in with another password: the account's sessions end, and with them
\* the streams open now; then its profile is hidden (hideProfile).
Hide(o, a) ==
    /\ Begins(o, Op("hide", "ending", a, PeersOf(memory, a)))
    /\ UNCHANGED memory /\ UNCHANGED Stored

HideRow(o) ==
    /\ At(o, "hide", "ending")
    /\ \A p \in ops[o].what : memory.peers[p] = None
    /\ rows' = [rows EXCEPT ![ops[o].account].shown = FALSE]
    /\ chosen' = [chosen EXCEPT ![ops[o].account] = FALSE]
    /\ GoesOn(o, "hidden", None)
    /\ UNCHANGED <<sharing, memory>>

\* What is shown is not looked at again: an app that plays on, or a stream opened
\* meanwhile, stays in the list until its next report.
Hidden(o) ==
    LET a == ops[o].account IN
    /\ At(o, "hide", "hidden")
    /\ memory' = [memory EXCEPT !.known[a] = None]
    /\ ops' = [ops EXCEPT ![o] = Idle]
    /\ crossed' = IF memory.playing[a] # None THEN crossed \cup {a} ELSE crossed
    /\ UNCHANGED made
    /\ UNCHANGED Stored

-----------------------------------------------------------------------------
(* Other apps *)

AppReports == [app : Apps, song : Songs \cup {None}, stopped : BOOLEAN]

\* Navidrome's plugin reports what an app plays, pauses (None) or has stopped;
\* the account, its track and its settings are looked up.
Playback(o, a, report) ==
    /\ report.stopped => report.song = None
    /\ Begins(o, Op("app", "looking", a, report))
    /\ UNCHANGED memory /\ UNCHANGED Stored

\* Settings are remembered for a while, until a save of theirs is answered.
Setting(o) ==
    LET a == ops[o].account
        saving == {u \in OpsOf(a) : At(u, "set", "written")} IN
    /\ At(o, "app", "looking") /\ ~ops[o].what.stopped
    /\ \E shared \in {sharing[a]} \cup {ops[u].saw : u \in saving} : GoesOn(o, "found", shared)
    /\ UNCHANGED memory /\ UNCHANGED Stored

\* dropApp.  An app is held once.
Without(held, app) ==
    LET places == {i \in DOMAIN held : held[i].app = app}
        at == CHOOSE i \in places : TRUE
    IN IF places = {} THEN held
       ELSE SubSeq(held, 1, at - 1) \o SubSeq(held, at + 1, Len(held))

\* reportApp, with the one longest unheard dropped over the cap.
Reported(held, report, shared) ==
    LET others == Without(held, report.app) IN
    IF report.stopped THEN others
    ELSE Append(IF Len(others) = Len(held) /\ Len(held) >= MaxApps THEN Tail(others) ELSE others,
                [app |-> report.app, song |-> report.song, shared |-> shared])

\* The report is taken, and the profile read if it is not held (appChanged).
Take(o) ==
    LET a == ops[o].account
        report == ops[o].what IN
    /\ At(o, "app", IF report.stopped THEN "looking" ELSE "found")
    /\ memory' \in Watch([memory EXCEPT !.apps[a] = Reported(@, report, ops[o].saw)], a)
    /\ ops' = IF memory'.known[a] = None /\ memory'.apps[a] # <<>>
              THEN [ops EXCEPT ![o].at = "reading", ![o].saw = None]
              ELSE [ops EXCEPT ![o] = Idle]
    /\ Goes(a)
    /\ UNCHANGED Stored

\* The app may have stopped while that was read.
AppChanged(o) ==
    LET a == ops[o].account IN
    /\ At(o, "app", "read")
    /\ memory' \in Refresh(IF memory.apps[a] # <<>> THEN Arrived(memory, a, ops[o].saw)
                           ELSE memory, a)
    /\ Ends(o)
    /\ UNCHANGED Stored

\* No report says that it stopped.
AppExpires(a, app) ==
    /\ \E h \in AppsHeld(memory, a) : h.app = app
    /\ memory' \in Watch([memory EXCEPT !.apps[a] = Without(@, app)], a)
    /\ Goes(a)
    /\ UNCHANGED ops /\ UNCHANGED Stored

\* A setting is saved: this one, or another (None), with what was read of the rest.
Set(o, a, value) ==
    /\ Begins(o, Op("set", "reading", a, value))
    /\ UNCHANGED memory /\ UNCHANGED Stored

ReadSettings(o) ==
    /\ At(o, "set", "reading")
    /\ GoesOn(o, "read", sharing[ops[o].account])
    /\ UNCHANGED memory /\ UNCHANGED Stored

\* Until the answer, the settings remembered are those before.
WriteSettings(o) ==
    LET a == ops[o].account
        value == IF ops[o].what = None THEN ops[o].saw ELSE ops[o].what IN
    /\ At(o, "set", "read")
    /\ sharing' = [sharing EXCEPT ![a] = value]
    /\ ops' = [ops EXCEPT ![o].at = "written", ![o].what = value, ![o].saw = sharing[a]]
    /\ UNCHANGED <<rows, memory, chosen, made, crossed>>

\* Mutant of Sharing: the apps held keep what they were reported with.
SharingLater(held, shared) == held
\* shareApps: the apps held now are shown or not from here on.
Sharing(held, shared) == [i \in DOMAIN held |-> [held[i] EXCEPT !.shared = shared]]

ShareApps(o) ==
    LET a == ops[o].account IN
    /\ At(o, "set", "written")
    /\ memory' \in IF memory.apps[a] = <<>> THEN {memory}
                   ELSE Watch([memory EXCEPT !.apps[a] = Sharing(@, ops[o].what)], a)
    /\ Ends(o)
    /\ UNCHANGED Stored

-----------------------------------------------------------------------------
(* The specification *)

\* The gap of 250 ms is over.
GapEnds ==
    /\ memory.gap # "none"
    /\ memory' = IF memory.gap = "again" THEN Publish([memory EXCEPT !.gap = "none"])
                 ELSE [memory EXCEPT !.gap = "none"]
    /\ UNCHANGED <<ops, made, crossed>> /\ UNCHANGED Stored

\* The process has just started, with what was chosen before in the database.
Init ==
    /\ chosen \in {f \in [Accounts -> BOOLEAN] : \A a \in Accounts \ Changing : ~f[a]}
    /\ sharing \in {f \in [Accounts -> BOOLEAN] : \A a \in Accounts \ Changing : ~f[a]}
    /\ rows = [a \in Accounts |-> [NoProfile EXCEPT !.shown = chosen[a]]]
    /\ memory = [known |-> [a \in Accounts |-> None], peers |-> [p \in Peers |-> None],
                 apps |-> [a \in Accounts |-> <<>>], playing |-> [a \in Accounts |-> None],
                 gap |-> "none"]
    /\ ops = [o \in Ops |-> Idle]
    /\ made = 0
    /\ crossed = {}

Browsing ==
    \E p \in Peers : \/ \E o \in Ops, a \in Accounts : Open(o, p, a)
                     \/ Close(p)
                     \/ \E song \in Songs \cup {None} : Report(p, song)

Choosing ==
    \E o \in Ops, a \in Changing : \/ \E patch \in Patches : Save(o, a, patch)
                                   \/ \E value \in BOOLEAN \cup {None} : Set(o, a, value)
                                   \/ \E report \in AppReports : Playback(o, a, report)
                                   \/ Hide(o, a)

GoingOn ==
    \E o \in Ops :
        \/ ReadProfile(o) \/ Arrives(o)
        \/ NameTaken(o) \/ Write(o) \/ Changed(o) \/ HideRow(o) \/ Hidden(o)
        \/ Setting(o) \/ Take(o) \/ AppChanged(o)
        \/ ReadSettings(o) \/ WriteSettings(o) \/ ShareApps(o)

Next ==
    \/ Browsing \/ Choosing \/ GoingOn \/ GapEnds
    \/ \E a \in Accounts, app \in Apps : AppExpires(a, app)

Spec == Init /\ [][Next]_vars

-----------------------------------------------------------------------------
(* Properties *)

Quiet(a) == OpsOf(a) = {} /\ a \notin crossed

\* A profile is held only for an account with a stream open or an app playing,
\* whatever closed while it was read; and it is the one in the database, whatever
\* was saved meanwhile (arrived, appChanged: "a save in the meantime has put a
\* newer profile here than the one read"), unless two changes crossed.
KnownTrue ==
    \A a \in Accounts : memory.known[a] # None =>
        /\ Connected(memory, a)
        /\ Quiet(a) => memory.known[a] = rows[a]

\* An account is shown only by its own choice, as playing what it plays where
\* that may be shown: on a browser, or on another app if it chose that too.
\* (`crossed` names the cases in which the code does not see to that.)
ShownByChoice ==
    \A a \in Accounts :
        LET inApps == {h.song : h \in {x \in AppsHeld(memory, a) : sharing[a]}} \ {None}
        IN memory.playing[a] # None /\ Quiet(a) =>
              /\ chosen[a]
              /\ memory.playing[a].song \in {r.song : r \in OnPeers(memory, a)} \cup inApps

\* Every browser that was sent a list holds the one of now, once the gap between
\* two sendings is over: no change falls into it unseen.
ListsCurrent ==
    \A p \in Peers : memory.peers[p] # None /\ memory.gap # "again" =>
        memory.peers[p].told \in {None, ListFor(memory, memory.peers[p].account)}
=============================================================================
