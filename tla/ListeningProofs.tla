--------------------------- MODULE ListeningProofs ---------------------------
(***************************************************************************)
(* What accounts are shown of each other is what each chose, what it plays *)
(* and what was sent last: whatever the number of accounts, streams, apps, *)
(* requests and caps.                                                      *)
(***************************************************************************)
EXTENDS Listening, TLAPS

-----------------------------------------------------------------------------
(* Types *)

Memory == [known : [Accounts -> {None} \cup Profile], peers : [Peers -> {None} \cup Peer],
           apps : [Accounts -> Seq(App)], playing : [Accounts -> {None} \cup Entry],
           gap : {"none", "held", "again"}]

Kinds == {"idle", "arrive", "save", "hide", "app", "set"}
Reads(op) == op.kind \in {"arrive", "app"}

\* A save that reads the profile it changes.
Rewrites(op) == op.kind = "save" /\ op.what.field # "picture"

\* A request, with what it was asked and has seen by then.
Sensible(op) ==
    /\ op = [kind |-> op.kind, at |-> op.at, account |-> op.account, what |-> op.what, saw |-> op.saw]
    /\ op.kind \in Kinds /\ (op.kind = "idle" => op = Idle)
    /\ op.kind # "idle" => op.account \in Accounts
    /\ op.kind = "arrive" => op.what \in Peers /\ op.at \in {"reading", "read"}
    /\ op.kind = "hide" => op.what \subseteq Peers /\ op.at \in {"ending", "hidden"}
    /\ op.kind = "save" => op.what \in Patches /\ op.at \in {"reading", "read", "written", "reread"}
    /\ op.kind = "app" => op.what \in AppReports /\ op.at \in {"looking", "found", "reading", "read"}
    /\ op.kind = "set" => /\ op.what \in BOOLEAN \cup {None}
                          /\ op.at \in {"reading", "read", "written"}
    /\ \/ Reads(op) /\ op.at = "read"
       \/ op.kind = "save" /\ op.at = "reread"
       \/ Rewrites(op) /\ op.at = "read"
       => op.saw \in Profile
    /\ op.kind = "app" /\ op.at = "found" => op.saw \in BOOLEAN
    /\ op.kind = "set" /\ op.at = "read" => op.saw \in BOOLEAN
    /\ op.kind = "set" /\ op.at = "written" => op.what \in BOOLEAN /\ op.saw \in BOOLEAN

TypeOK ==
    /\ rows \in [Accounts -> Profile] /\ sharing \in [Accounts -> BOOLEAN]
    /\ chosen \in [Accounts -> BOOLEAN]
    /\ memory \in Memory
    /\ DOMAIN ops = Ops /\ \A o \in Ops : Sensible(ops[o])
    /\ crossed \subseteq Accounts

-----------------------------------------------------------------------------
(* What is held *)

\* The lists sent are those of now.
Current(m) ==
    \A p \in Peers : m.peers[p] # None /\ m.gap # "again" =>
        m.peers[p].told \in {None, ListFor(m, m.peers[p].account)}

\* The same streams, with the same account and song each.
SamePeers(m, n) ==
    \A p \in Peers : /\ n.peers[p] = None <=> m.peers[p] = None
                     /\ m.peers[p] # None => /\ n.peers[p].account = m.peers[p].account
                                             /\ n.peers[p].song = m.peers[p].song

\* The same but for what was sent.
SameButTold(m, n) ==
    /\ n.known = m.known /\ n.apps = m.apps /\ n.playing = m.playing
    /\ SamePeers(m, n)

LEMMA Fields ==
    ASSUME NEW m \in Memory
    PROVE  /\ m.known \in [Accounts -> {None} \cup Profile] /\ m.peers \in [Peers -> {None} \cup Peer]
           /\ m.apps \in [Accounts -> Seq(App)] /\ m.playing \in [Accounts -> {None} \cup Entry]
           /\ m.gap \in {"none", "held", "again"}
BY DEF Memory

LEMMA ListIs ==
    ASSUME NEW m \in Memory, NEW a
    PROVE  ListFor(m, a) \in List
<1>1. ASSUME NEW b \in Accounts, m.playing[b] # None
      PROVE  [song |-> m.playing[b].song, name |-> m.playing[b].name] \in [song : Songs, name : Names]
  <2>1. m.playing[b] \in Entry
    BY <1>1, Fields
  <2> QED
    BY <2>1 DEF Entry
<1> QED
  BY <1>1 DEF ListFor, List

\* A list says what is played.
LEMMA ListOf ==
    ASSUME NEW m, NEW n, n.playing = m.playing, NEW a
    PROVE  ListFor(n, a) = ListFor(m, a)
BY DEF ListFor

LEMMA PeerTold ==
    ASSUME NEW m \in Memory, NEW p \in Peers, m.peers[p] # None, NEW list \in List
    PROVE  LET q == [m.peers[p] EXCEPT !.told = list] IN
           /\ q \in Peer /\ q # None /\ q.told = list
           /\ q.account = m.peers[p].account /\ q.song = m.peers[p].song
<1>1. m.peers[p] \in Peer
  BY Fields
<1>2. [m.peers[p] EXCEPT !.told = list] \in Peer
  BY <1>1 DEF Peer
<1> QED
  BY <1>1, <1>2, NoneAssumption DEF Peer

\* tell.
LEMMA TellTells ==
    ASSUME NEW m \in Memory, NEW p \in Peers, m.peers[p] # None
    PROVE  /\ Tell(m, p) \in Memory /\ SameButTold(m, Tell(m, p))
           /\ Current(m) => Current(Tell(m, p))
<1> DEFINE list == ListFor(m, m.peers[p].account)
           q == [m.peers[p] EXCEPT !.told = list]
           n == Tell(m, p)
<1>1. /\ q \in Peer /\ q # None /\ q.told = list
      /\ q.account = m.peers[p].account /\ q.song = m.peers[p].song
  BY PeerTold, ListIs
<1>2. n = [m EXCEPT !.peers = [m.peers EXCEPT ![p] = q]]
  BY Fields DEF Tell, Memory
<1> HIDE DEF q, n
<1>3. [m.peers EXCEPT ![p] = q] \in [Peers -> {None} \cup Peer]
  BY <1>1, Fields
<1>4. /\ n \in Memory /\ n.known = m.known /\ n.apps = m.apps /\ n.playing = m.playing /\ n.gap = m.gap
      /\ n.peers = [m.peers EXCEPT ![p] = q]
  BY <1>2, <1>3 DEF Memory
<1>5. \A r \in Peers : n.peers[r] = IF r = p THEN q ELSE m.peers[r]
  BY <1>4, Fields
<1>6. SameButTold(m, n)
  BY <1>1, <1>4, <1>5 DEF SameButTold, SamePeers
<1>7. ASSUME Current(m), NEW r \in Peers, n.peers[r] # None, n.gap # "again"
      PROVE  n.peers[r].told \in {None, ListFor(n, n.peers[r].account)}
  <2>1. ListFor(n, n.peers[r].account) = ListFor(m, n.peers[r].account)
    BY <1>4, ListOf
  <2> QED
    BY <1>1, <1>4, <1>5, <1>7, <2>1 DEF Current
<1> QED
  BY <1>4, <1>6, <1>7 DEF n, Current

\* tellEveryone.
LEMMA TellEveryoneTells ==
    ASSUME NEW m \in Memory
    PROVE  LET n == TellEveryone(m) IN
           /\ n \in Memory /\ SameButTold(m, n) /\ n.gap = m.gap
           /\ \A p \in Peers : n.peers[p] # None => n.peers[p].told = ListFor(n, n.peers[p].account)
<1> DEFINE n == TellEveryone(m)
           q(p) == [m.peers[p] EXCEPT !.told = ListFor(m, m.peers[p].account)]
           peers == [p \in Peers |-> IF m.peers[p] = None THEN None ELSE q(p)]
<1>1. n = [m EXCEPT !.peers = peers]
  BY DEF TellEveryone, Memory
<1>2. ASSUME NEW p \in Peers, m.peers[p] # None
      PROVE  /\ q(p) \in Peer /\ q(p) # None /\ q(p).told = ListFor(m, m.peers[p].account)
             /\ q(p).account = m.peers[p].account /\ q(p).song = m.peers[p].song
  BY <1>2, PeerTold, ListIs
<1> HIDE DEF q, n
<1>3. peers \in [Peers -> {None} \cup Peer]
  BY <1>2
<1>4. /\ n \in Memory /\ n.known = m.known /\ n.apps = m.apps /\ n.playing = m.playing /\ n.gap = m.gap
      /\ n.peers = peers
  BY <1>1, <1>3 DEF Memory
<1>5. SameButTold(m, n)
  BY <1>2, <1>4 DEF SameButTold, SamePeers
<1>6. ASSUME NEW p \in Peers, n.peers[p] # None
      PROVE  n.peers[p].told = ListFor(n, n.peers[p].account)
  <2>1. m.peers[p] # None /\ n.peers[p] = q(p)
    BY <1>4, <1>6
  <2>2. ListFor(n, n.peers[p].account) = ListFor(m, m.peers[p].account)
    BY <1>2, <1>4, <2>1, ListOf
  <2> QED
    BY <1>2, <2>1, <2>2
<1> QED
  BY <1>4, <1>5, <1>6 DEF n

\* publish: what has changed is sent now, or at the end of the gap.
LEMMA PublishTells ==
    ASSUME NEW m \in Memory
    PROVE  Publish(m) \in Memory /\ SameButTold(m, Publish(m)) /\ Current(Publish(m))
<1>1. CASE m.gap = "none"
  <2> DEFINE k == TellEveryone(m)
             n == [k EXCEPT !.gap = "held"]
  <2>1. /\ k \in Memory /\ SameButTold(m, k) /\ k.gap = m.gap
        /\ \A p \in Peers : k.peers[p] # None => k.peers[p].told = ListFor(k, k.peers[p].account)
    BY TellEveryoneTells
  <2> HIDE DEF k
  <2>2. /\ n \in Memory /\ n.known = k.known /\ n.apps = k.apps /\ n.playing = k.playing
        /\ n.gap = "held" /\ n.peers = k.peers
    BY <2>1 DEF Memory
  <2>3. Publish(m) = n
    BY <1>1 DEF Publish, k
  <2> HIDE DEF n
  <2>4. SameButTold(m, n)
    BY <2>1, <2>2 DEF SameButTold, SamePeers
  <2>5. ASSUME NEW p \in Peers, n.peers[p] # None
        PROVE  n.peers[p].told = ListFor(n, n.peers[p].account)
    BY <2>1, <2>2, <2>5, ListOf
  <2> QED
    BY <2>2, <2>3, <2>4, <2>5 DEF Current
<1>2. CASE m.gap # "none"
  <2> DEFINE n == [m EXCEPT !.gap = "again"]
  <2>1. Publish(m) = n
    BY <1>2 DEF Publish, SendAgain
  <2>2. /\ n \in Memory /\ n.known = m.known /\ n.apps = m.apps /\ n.playing = m.playing
        /\ n.gap = "again" /\ n.peers = m.peers
    BY DEF Memory
  <2> HIDE DEF n
  <2> QED
    BY <2>1, <2>2 DEF SameButTold, SamePeers, Current
<1> QED
  BY <1>1, <1>2

-----------------------------------------------------------------------------
(* What an account is shown as *)

\* Only what was let be shown is.
Allowed(m, a) == m.playing[a] # None => m.known[a] # None /\ m.known[a].shown

Reports(m, a) == OnPeers(m, a) \cup InApps(m, a)

\* And only what is reported as playing.
Heard(m, a) == m.playing[a] # None => \E r \in Reports(m, a) : r.song = m.playing[a].song

\* All that is shown or sent differs, and what is shown for this account alone.
Reshown(m, n, a) ==
    /\ n.known = m.known /\ n.apps = m.apps /\ SamePeers(m, n)
    /\ \A b \in Accounts \ {a} : n.playing[b] = m.playing[b]

LEMMA ReportIs ==
    ASSUME NEW m \in Memory, NEW a \in Accounts, NEW r \in Reports(m, a)
    PROVE  r.source \in Peers \cup Apps /\ r.song \in Songs
<1>1. CASE r \in OnPeers(m, a)
  <2>1. PICK p \in PeersOf(m, a) : r = [source |-> p, song |-> m.peers[p].song] /\ m.peers[p].song # None
    BY <1>1 DEF OnPeers
  <2>2. p \in Peers /\ m.peers[p] \in Peer
    BY <2>1, Fields DEF PeersOf
  <2> QED
    BY <2>1, <2>2 DEF Peer
<1>2. CASE r \in InApps(m, a)
  <2>1. PICK h \in AppsHeld(m, a) : r = [source |-> h.app, song |-> h.song] /\ h.song # None
    BY <1>2 DEF InApps
  <2>2. PICK i \in DOMAIN m.apps[a] : h = m.apps[a][i]
    BY <2>1 DEF AppsHeld
  <2>3. m.apps[a] \in Seq(App)
    BY Fields
  <2>4. h \in App
    BY <2>2, <2>3
  <2> QED
    BY <2>1, <2>4 DEF App
<1> QED
  BY <1>1, <1>2 DEF Reports

\* chosen, listener: what an account may be shown as is allowed and reported.
LEMMA ShownIs ==
    ASSUME NEW m \in Memory, NEW a \in Accounts, NEW e \in Shown(m, a)
    PROVE  /\ e \in {None} \cup Entry
           /\ e # None => /\ m.known[a] # None /\ m.known[a].shown
                          /\ \E r \in Reports(m, a) : r.song = e.song
<1> DEFINE before == m.playing[a]
           reports == IF m.known[a] # None /\ m.known[a].shown THEN OnPeers(m, a) \cup InApps(m, a)
                      ELSE {}
           same == {r \in reports : before # None /\ r.source = before.source}
           entry(r) == [source |-> r.source, song |-> r.song, name |-> m.known[a].name]
           entries == {entry(r) : r \in IF same # {} THEN same ELSE reports}
<1>1. before \in {None} \cup Entry /\ m.known[a] \in {None} \cup Profile
  BY Fields
<1>2. CASE reports = {}
  BY <1>2 DEF Shown
<1>3. CASE reports # {}
  <2>1. m.known[a] # None /\ m.known[a].shown /\ reports = Reports(m, a) /\ m.known[a].name \in Names
    BY <1>1, <1>3 DEF Reports, Profile
  <2>2. e \in entries \cup {x \in {before} : x # None /\ \E y \in entries :
                                                y.song = x.song /\ y.name = x.name}
    BY <1>3 DEF Shown
  <2>3. ASSUME NEW y \in entries
        PROVE  y \in Entry /\ \E r \in Reports(m, a) : r.song = y.song
    <3>1. PICK r \in Reports(m, a) : y = entry(r)
      BY <2>1, <2>3
    <3> QED
      BY <2>1, <3>1, ReportIs DEF Entry
  <2>4. CASE e \in entries
    BY <2>1, <2>3, <2>4
  <2>5. CASE e = before /\ e # None /\ \E y \in entries : y.song = e.song
    <3>1. PICK y \in entries : y.song = e.song
      BY <2>5
    <3> HIDE DEF before, entries
    <3> QED
      BY <1>1, <2>1, <2>3, <2>5, <3>1
  <2> QED
    BY <2>2, <2>4, <2>5
<1> QED
  BY <1>2, <1>3

LEMMA SamePeersOf ==
    ASSUME NEW m, NEW n, SamePeers(m, n), NEW a
    PROVE  PeersOf(n, a) = PeersOf(m, a) /\ OnPeers(n, a) = OnPeers(m, a)
<1>1. PeersOf(n, a) = PeersOf(m, a)
  BY DEF PeersOf, SamePeers
<1>2. \A p \in PeersOf(m, a) : n.peers[p].song = m.peers[p].song
  BY DEF PeersOf, SamePeers
<1> QED
  BY <1>1, <1>2 DEF OnPeers

LEMMA SameReports ==
    ASSUME NEW m, NEW n, SamePeers(m, n), NEW a, n.apps[a] = m.apps[a]
    PROVE  /\ Reports(n, a) = Reports(m, a) /\ (Connected(n, a) <=> Connected(m, a))
           /\ AppsHeld(n, a) = AppsHeld(m, a) /\ InApps(n, a) = InApps(m, a)
<1>1. AppsHeld(n, a) = AppsHeld(m, a)
  BY DEF AppsHeld
<1>2. InApps(n, a) = InApps(m, a)
  BY <1>1 DEF InApps
<1> QED
  BY <1>1, <1>2, SamePeersOf DEF Reports, Connected

\* A change to what an account is shown as.
LEMMA PlayingIs ==
    ASSUME NEW m \in Memory, NEW a \in Accounts, NEW e \in {None} \cup Entry
    PROVE  LET k == [m EXCEPT !.playing[a] = e] IN
           /\ k \in Memory /\ k.known = m.known /\ k.apps = m.apps /\ k.peers = m.peers
           /\ k.playing[a] = e /\ \A b \in Accounts \ {a} : k.playing[b] = m.playing[b]
<1> DEFINE k == [m EXCEPT !.playing[a] = e]
           playing == [m.playing EXCEPT ![a] = e]
<1>1. playing \in [Accounts -> {None} \cup Entry]
  BY Fields
<1>2. k = [m EXCEPT !.playing = playing]
  BY DEF Memory
<1>3. playing[a] = e /\ \A b \in Accounts \ {a} : playing[b] = m.playing[b]
  BY Fields
<1> HIDE DEF playing
<1> QED
  BY <1>1, <1>2, <1>3 DEF Memory

\* A change to the profile held for it.
LEMMA KnownIs ==
    ASSUME NEW m \in Memory, NEW a \in Accounts, NEW profile \in {None} \cup Profile
    PROVE  LET k == [m EXCEPT !.known[a] = profile] IN
           /\ k \in Memory /\ k.playing = m.playing /\ k.apps = m.apps /\ k.peers = m.peers
           /\ k.gap = m.gap /\ k.known[a] = profile
           /\ \A b \in Accounts \ {a} : k.known[b] = m.known[b]
           /\ Current(m) => Current(k)
<1> DEFINE k == [m EXCEPT !.known[a] = profile]
           known == [m.known EXCEPT ![a] = profile]
<1>1. known \in [Accounts -> {None} \cup Profile]
  BY Fields
<1>2. k = [m EXCEPT !.known = known]
  BY DEF Memory
<1>3. known[a] = profile /\ \A b \in Accounts \ {a} : known[b] = m.known[b]
  BY Fields
<1> HIDE DEF known
<1>4. /\ k \in Memory /\ k.playing = m.playing /\ k.apps = m.apps /\ k.peers = m.peers
      /\ k.gap = m.gap /\ k.known = known
  BY <1>1, <1>2 DEF Memory
<1> HIDE DEF k
<1>5. Current(m) => Current(k)
  BY <1>4, ListOf DEF Current
<1> QED
  BY <1>3, <1>4, <1>5 DEF k

\* An account shown as it may be, and everyone told.
LEMMA PublishShows ==
    ASSUME NEW m \in Memory, NEW a \in Accounts, NEW e \in Shown(m, a),
           NEW n, n = Publish([m EXCEPT !.playing[a] = e])
    PROVE  n \in Memory /\ Reshown(m, n, a) /\ Allowed(n, a) /\ Heard(n, a) /\ Current(n)
<1> DEFINE k == [m EXCEPT !.playing[a] = e]
<1>1. /\ e \in {None} \cup Entry
      /\ e # None => /\ m.known[a] # None /\ m.known[a].shown
                     /\ \E r \in Reports(m, a) : r.song = e.song
  BY ShownIs
<1>2. /\ k \in Memory /\ k.known = m.known /\ k.apps = m.apps /\ k.peers = m.peers
      /\ k.playing[a] = e /\ \A b \in Accounts \ {a} : k.playing[b] = m.playing[b]
  BY <1>1, PlayingIs
<1> HIDE DEF k
<1>3. n \in Memory /\ SameButTold(k, n) /\ Current(n)
  BY <1>2, PublishTells DEF k
<1>4. Reshown(m, n, a) /\ n.playing[a] = e
  BY <1>2, <1>3 DEF Reshown, SameButTold, SamePeers
<1>5. Reports(n, a) = Reports(m, a)
  BY <1>4, SameReports DEF Reshown
<1>6. Allowed(n, a) /\ Heard(n, a)
  BY <1>1, <1>4, <1>5 DEF Allowed, Heard, Reshown
<1> QED
  BY <1>3, <1>4, <1>6

\* refresh.
LEMMA RefreshShows ==
    ASSUME NEW m \in Memory, NEW a \in Accounts, NEW n \in Refresh(m, a)
    PROVE  /\ n \in Memory /\ Reshown(m, n, a) /\ Allowed(n, a) /\ Heard(n, a)
           /\ Current(m) => Current(n)
<1> DEFINE shown == Shown(m, a)
<1>1. CASE \E e \in shown : n = Publish([m EXCEPT !.playing[a] = e])
  BY <1>1, PublishShows
<1>2. ASSUME m.playing[a] \in shown
      PROVE  Allowed(m, a) /\ Heard(m, a)
  BY <1>2, ShownIs DEF Allowed, Heard
<1>3. CASE m.playing[a] \in shown /\ n = m
  BY <1>2, <1>3 DEF Reshown, SamePeers
<1>4. CASE m.playing[a] \in shown /\ n = Publish(m)
  <2>1. n \in Memory /\ SameButTold(m, n) /\ Current(n)
    BY <1>4, PublishTells
  <2>2. Reshown(m, n, a) /\ n.playing[a] = m.playing[a]
    BY <2>1 DEF Reshown, SameButTold
  <2>3. Reports(n, a) = Reports(m, a)
    BY <2>2, SameReports DEF Reshown
  <2> QED
    BY <1>2, <1>4, <2>1, <2>2, <2>3 DEF Allowed, Heard, Reshown
<1> QED
  BY <1>1, <1>3, <1>4 DEF Refresh

\* The watcher.
LEMMA WatchShows ==
    ASSUME NEW m \in Memory, NEW a \in Accounts, NEW n \in Watch(m, a)
    PROVE  /\ n \in Memory /\ n.apps = m.apps /\ SamePeers(m, n)
           /\ \A b \in Accounts \ {a} : n.playing[b] = m.playing[b] /\ n.known[b] = m.known[b]
           /\ n.known[a] = IF Connected(m, a) THEN m.known[a] ELSE None
           /\ Connected(n, a) <=> Connected(m, a)
           /\ Allowed(n, a) /\ Heard(n, a)
           /\ Current(m) => Current(n)
<1> DEFINE k == IF Connected(m, a) THEN m ELSE [m EXCEPT !.known[a] = None]
<1>1. /\ k \in Memory /\ k.playing = m.playing /\ k.apps = m.apps /\ k.peers = m.peers
      /\ k.known[a] = IF Connected(m, a) THEN m.known[a] ELSE None
      /\ \A b \in Accounts \ {a} : k.known[b] = m.known[b]
      /\ Current(m) => Current(k)
  BY KnownIs
<1>2. n \in Refresh(k, a)
  BY DEF Watch
<1> HIDE DEF k
<1>3. /\ n \in Memory /\ Reshown(k, n, a) /\ Allowed(n, a) /\ Heard(n, a)
      /\ Current(k) => Current(n)
  BY <1>1, <1>2, RefreshShows
<1>4. n.apps = m.apps /\ SamePeers(m, n)
  BY <1>1, <1>3 DEF Reshown, SamePeers
<1>5. Connected(n, a) <=> Connected(m, a)
  BY <1>4, SameReports
<1> QED
  BY <1>1, <1>3, <1>4, <1>5 DEF Reshown

-----------------------------------------------------------------------------
(* The inductive invariant *)

\* Requests whose changes do not cross undo nothing of each other.
Apart(a) == \A o, u \in OpsOf(a) : o # u => ~Crossing(ops[o].kind, ops[u].kind)

\* A row, or a setting, has been written and is yet to be put in place.
Saving(a) == \E u \in OpsOf(a) : ops[u].kind = "save" /\ ops[u].at \in {"written", "reread"}
Hiding(a) == \E u \in OpsOf(a) : ops[u].kind = "hide" /\ ops[u].at = "hidden"
SettingApps(a) == \E u \in OpsOf(a) : ops[u].kind = "set" /\ ops[u].at = "written"

\* What is held is the row there is, but while another is put in place.
HeldTrue(a) == memory.known[a] # None => memory.known[a] = rows[a] \/ Saving(a) \/ Hiding(a)

\* So is what was read to be held, and what it was read for is still there.
ReadTrue(op, a) ==
    Reads(op) /\ op.at \in {"reading", "read"} =>
        /\ Connected(memory, a)
        /\ op.at = "read" /\ memory.known[a] = None => op.saw = rows[a] \/ Saving(a)

\* What a save read, and what it reads again, is the row there is.
SaveTrue(op, a) ==
    \/ op.kind = "save" /\ op.at = "reread"
    \/ Rewrites(op) /\ op.at = "read"
    => op.saw = rows[a]

\* What a request knows of the setting is as it is.
SetTrue(op, a) ==
    /\ op.kind = "set" /\ op.at = "written" => op.what = sharing[a]
    /\ op.kind = "app" /\ op.at = "found" => op.saw = sharing[a]

OpTrue(op, a) == ReadTrue(op, a) /\ SaveTrue(op, a) /\ SetTrue(op, a)

\* Apps are shared as the setting says, but while another is put in place.
AppsTrue(a) == SettingApps(a) \/ \A h \in AppsHeld(memory, a) : h.shared = sharing[a]

\* What holds while no changes of the account have crossed.
Uncrossed(a) ==
    /\ Apart(a) /\ Allowed(memory, a) /\ rows[a].shown = chosen[a]
    /\ HeldTrue(a) /\ AppsTrue(a)
    /\ \A o \in OpsOf(a) : OpTrue(ops[o], a)

Wanted(m, a) == m.known[a] # None => Connected(m, a)

Good(a) ==
    /\ Wanted(memory, a) /\ Heard(memory, a)
    /\ a \notin crossed => Uncrossed(a)

IInv == TypeOK /\ Current(memory) /\ \A a \in Accounts : Good(a)

-----------------------------------------------------------------------------
(* Steps *)

\* Of all requests, one of the account's begins, goes on or ends.
Moves(o, a) ==
    /\ \A u \in Ops \ {o} : ops'[u] = ops[u]
    /\ ops[o].account \in {None, a} /\ ops'[o].account \in {None, a}

\* All is the same for an account.
Alike(m, n, b) ==
    /\ n.known[b] = m.known[b] /\ n.playing[b] = m.playing[b] /\ n.apps[b] = m.apps[b]
    /\ PeersOf(n, b) = PeersOf(m, b) /\ OnPeers(n, b) = OnPeers(m, b)

Untouched(b) ==
    /\ rows'[b] = rows[b] /\ sharing'[b] = sharing[b] /\ chosen'[b] = chosen[b]
    /\ Alike(memory, memory', b)
    /\ b \in crossed => b \in crossed'
    /\ OpsOf(b)' = OpsOf(b) /\ \A o \in OpsOf(b) : ops'[o] = ops[o]

LEMMA AlikeReports ==
    ASSUME NEW m, NEW n, NEW b, Alike(m, n, b)
    PROVE  /\ Reports(n, b) = Reports(m, b) /\ (Connected(n, b) <=> Connected(m, b))
           /\ AppsHeld(n, b) = AppsHeld(m, b)
           /\ Wanted(m, b) => Wanted(n, b)
           /\ Heard(m, b) => Heard(n, b)
           /\ Allowed(m, b) => Allowed(n, b)
<1>1. AppsHeld(n, b) = AppsHeld(m, b)
  BY DEF AppsHeld, Alike
<1>2. InApps(n, b) = InApps(m, b)
  BY <1>1 DEF InApps
<1>3. Reports(n, b) = Reports(m, b) /\ (Connected(n, b) <=> Connected(m, b))
  BY <1>2 DEF Reports, Connected, Alike
<1> QED
  BY <1>1, <1>3 DEF Wanted, Heard, Allowed, Alike

LEMMA UntouchedGood ==
    ASSUME NEW b \in Accounts, Good(b), Untouched(b)
    PROVE  Good(b)'
<1>1. /\ (Connected(memory', b) <=> Connected(memory, b))
      /\ AppsHeld(memory', b) = AppsHeld(memory, b)
      /\ Wanted(memory', b) /\ Heard(memory', b)
      /\ Allowed(memory, b) => Allowed(memory', b)
  BY AlikeReports DEF Untouched, Good
<1>2. ASSUME b \notin crossed'
      PROVE  Uncrossed(b)'
  <2>1. Uncrossed(b)
    BY <1>2 DEF Good, Untouched
  <2>2. Apart(b)'
    BY <2>1 DEF Uncrossed, Apart, Untouched
  <2>3. (Saving(b)' <=> Saving(b)) /\ (Hiding(b)' <=> Hiding(b)) /\ (SettingApps(b)' <=> SettingApps(b))
    BY DEF Saving, Hiding, SettingApps, Untouched
  <2>4. HeldTrue(b)'
    BY <2>1, <2>3 DEF Uncrossed, HeldTrue, Untouched, Alike
  <2>5. AppsTrue(b)'
    BY <1>1, <2>1, <2>3 DEF Uncrossed, AppsTrue, Untouched
  <2>6. ASSUME NEW o \in OpsOf(b)'
        PROVE  OpTrue(ops[o], b)'
    <3>1. ops'[o] = ops[o] /\ OpTrue(ops[o], b)
      BY <2>1 DEF Untouched, Uncrossed
    <3> QED
      BY <1>1, <2>3, <3>1 DEF OpTrue, ReadTrue, SaveTrue, SetTrue, Untouched, Alike
  <2>7. rows'[b].shown = chosen'[b]
    BY <2>1 DEF Uncrossed, Untouched
  <2> QED
    BY <1>1, <2>1, <2>2, <2>4, <2>5, <2>6, <2>7 DEF Uncrossed
<1> QED
  BY <1>1, <1>2 DEF Good

LEMMA Elsewhere ==
    ASSUME NEW a \in Accounts, NEW b \in Accounts \ {a}, NEW o \in Ops, Moves(o, a)
    PROVE  OpsOf(b)' = OpsOf(b) /\ \A u \in OpsOf(b) : ops'[u] = ops[u]
<1>1. \A u \in Ops : ops'[u].account = b <=> ops[u].account = b
  BY ListeningAssumption DEF Moves
<1>2. \A u \in Ops : ops[u].account = b => u # o
  BY ListeningAssumption DEF Moves
<1> QED
  BY <1>1, <1>2 DEF Moves, OpsOf

\* A request of the account's own, and those beside it.
LEMMA OpsAfter ==
    ASSUME NEW a \in Accounts, NEW o \in Ops, Moves(o, a)
    PROVE  /\ OpsOf(a)' \subseteq OpsOf(a) \cup {o}
           /\ OpsOf(a) \ {o} = OpsOf(a)' \ {o}
           /\ \A u \in OpsOf(a) \ {o} : ops'[u] = ops[u]
BY DEF Moves, OpsOf

\* Of a kind of its own, or none.
LEMMA ApartKept ==
    ASSUME NEW a \in Accounts, NEW o \in Ops, Moves(o, a), Apart(a),
           o \in OpsOf(a)' => o \in OpsOf(a) /\ ops'[o].kind = ops[o].kind
    PROVE  Apart(a)'
<1>1. \A u \in OpsOf(a)' : u \in OpsOf(a) /\ ops'[u].kind = ops[u].kind
  BY OpsAfter
<1> QED
  BY <1>1 DEF Apart

LEMMA CrossingTurned ==
    ASSUME NEW k, NEW l
    PROVE  Crossing(k, l) <=> Crossing(l, k)
<1>1. {k, l} = {l, k}
  OBVIOUS
<1> QED
  BY <1>1 DEF Crossing

LEMMA ApartBegun ==
    ASSUME NEW a \in Accounts, NEW o \in Ops, Moves(o, a), Apart(a), o \notin OpsOf(a),
           \A u \in OpsOf(a) : ~Crossing(ops[u].kind, ops'[o].kind)
    PROVE  Apart(a)'
<1>1. ASSUME NEW u \in OpsOf(a)', NEW v \in OpsOf(a)', u # v
      PROVE  ~Crossing(ops'[u].kind, ops'[v].kind)
  <2>1. CASE u # o /\ v # o
    BY <1>1, <2>1, OpsAfter DEF Apart
  <2>2. CASE u # o /\ v = o
    BY <1>1, <2>2, OpsAfter
  <2>3. CASE u = o /\ v # o
    BY <1>1, <2>3, OpsAfter, CrossingTurned
  <2> QED
    BY <1>1, <2>1, <2>2, <2>3
<1> QED
  BY <1>1 DEF Apart

\* The requests there may be beside one.
LEMMA Beside ==
    ASSUME NEW a, Apart(a), NEW o \in OpsOf(a), NEW u \in OpsOf(a), u # o
    PROVE  /\ ops[o].kind \in {"save", "hide"} => ops[u].kind \notin {"save", "hide"}
           /\ ops[o].kind = "hide" => ~Reads(ops[u])
           /\ ops[o].kind = "set" => ops[u].kind \notin {"set", "app"}
           /\ ops[o].kind = "app" => ops[u].kind \notin {"set", "hide"}
           /\ ops[o].kind = "arrive" => ops[u].kind # "hide"
<1> DEFINE k == ops[o].kind
           l == ops[u].kind
<1>1. ~Crossing(k, l)
  BY DEF Apart
<1> HIDE DEF k, l
<1>2. /\ k \in {"save", "hide"} => l \notin {"save", "hide"}
      /\ k = "hide" => l \notin {"arrive", "app"}
      /\ k = "set" => l \notin {"set", "app"}
      /\ k = "app" => l \notin {"set", "hide"}
      /\ k = "arrive" => l # "hide"
  BY <1>1 DEF Crossing
<1> QED
  BY <1>2 DEF k, l, Reads

\* A request begins, asks on or ends where nothing else changes.
LEMMA AsksOn ==
    ASSUME NEW a \in Accounts, NEW o \in Ops, Moves(o, a), Good(a),
           UNCHANGED memory, UNCHANGED Stored, crossed \subseteq crossed',
           a \notin crossed' => /\ Apart(a)'
                                /\ Saving(a) => Saving(a)'
                                /\ Hiding(a) => Hiding(a)'
                                /\ SettingApps(a) => SettingApps(a)',
           a \notin crossed' => /\ ReadTrue(ops[o], a)' \/ o \notin OpsOf(a)'
                                /\ SaveTrue(ops[o], a)' \/ o \notin OpsOf(a)'
                                /\ SetTrue(ops[o], a)' \/ o \notin OpsOf(a)'
    PROVE  Good(a)'
<1>1. Wanted(memory, a)' /\ Heard(memory, a)'
  BY DEF Good, Wanted, Heard, Connected, PeersOf, Reports, OnPeers, InApps, AppsHeld
<1>2. ASSUME a \notin crossed'
      PROVE  Uncrossed(a)'
  <2>1. Uncrossed(a)
    BY <1>2 DEF Good
  <2>2. Allowed(memory, a)'
    BY <2>1 DEF Uncrossed, Allowed
  <2>3. HeldTrue(a)'
    BY <1>2, <2>1 DEF Uncrossed, HeldTrue, Stored
  <2>4. AppsTrue(a)'
    BY <1>2, <2>1 DEF Uncrossed, AppsTrue, AppsHeld, Stored
  <2>5. ASSUME NEW u \in OpsOf(a)'
        PROVE  OpTrue(ops[u], a)'
    <3>1. CASE u = o
      BY <1>2, <2>5, <3>1 DEF OpTrue
    <3>2. CASE u # o
      <4>1. u \in OpsOf(a) /\ ops'[u] = ops[u] /\ OpTrue(ops[u], a)
        BY <2>1, <2>5, <3>2, OpsAfter DEF Uncrossed
      <4>2. Connected(memory, a)' <=> Connected(memory, a)
        BY DEF Connected, PeersOf
      <4> QED
        BY <1>2, <4>1, <4>2 DEF OpTrue, ReadTrue, SaveTrue, SetTrue, Stored
    <3> QED
      BY <3>1, <3>2
  <2>6. (rows[a].shown = chosen[a])'
    BY <2>1 DEF Uncrossed, Stored
  <2> QED
    BY <1>2, <2>1, <2>2, <2>3, <2>4, <2>5, <2>6 DEF Uncrossed
<1> QED
  BY <1>1, <1>2 DEF Good

-----------------------------------------------------------------------------
(* Requests that begin, go on and end *)

LEMMA OpIs ==
    ASSUME TypeOK, NEW o \in Ops, NEW new, ops' = [ops EXCEPT ![o] = new]
    PROVE  /\ ops'[o] = new /\ \A u \in Ops \ {o} : ops'[u] = ops[u]
           /\ Sensible(new) => DOMAIN ops' = Ops /\ \A u \in Ops : Sensible(ops'[u])
BY DEF TypeOK

LEMMA OpChanged ==
    ASSUME NEW op, NEW at, NEW saw,
           op = [kind |-> op.kind, at |-> op.at, account |-> op.account, what |-> op.what, saw |-> op.saw]
    PROVE  [op EXCEPT !.at = at, !.saw = saw]
             = [kind |-> op.kind, at |-> at, account |-> op.account, what |-> op.what, saw |-> saw]
<1> DEFINE next == [op EXCEPT !.at = at]
<1>1. next = [kind |-> op.kind, at |-> at, account |-> op.account, what |-> op.what, saw |-> op.saw]
  OBVIOUS
<1> HIDE DEF next
<1>2. [next EXCEPT !.saw = saw]
        = [kind |-> op.kind, at |-> at, account |-> op.account, what |-> op.what, saw |-> saw]
  BY <1>1
<1> QED
  BY <1>2 DEF next

Turns(o, at, saw) == ops' = [ops EXCEPT ![o].at = at, ![o].saw = saw]
Rests(o) == ops' = [ops EXCEPT ![o] = Idle]

LEMMA TurnsIs ==
    ASSUME TypeOK, NEW o \in Ops, NEW at, NEW saw, Turns(o, at, saw)
    PROVE  /\ ops'[o] = [kind |-> ops[o].kind, at |-> at, account |-> ops[o].account,
                         what |-> ops[o].what, saw |-> saw]
           /\ \A u \in Ops \ {o} : ops'[u] = ops[u]
           /\ Sensible(ops'[o]) => DOMAIN ops' = Ops /\ \A u \in Ops : Sensible(ops'[u])
<1>1. ops[o] = [kind |-> ops[o].kind, at |-> ops[o].at, account |-> ops[o].account,
                what |-> ops[o].what, saw |-> ops[o].saw]
  BY DEF TypeOK, Sensible
<1>2. ops' = [ops EXCEPT ![o] = [ops[o] EXCEPT !.at = at, !.saw = saw]]
  BY DEF Turns, TypeOK
<1>3. [ops[o] EXCEPT !.at = at, !.saw = saw]
        = [kind |-> ops[o].kind, at |-> at, account |-> ops[o].account,
           what |-> ops[o].what, saw |-> saw]
  <2> DEFINE op == ops[o]
  <2>1. op = [kind |-> op.kind, at |-> op.at, account |-> op.account, what |-> op.what, saw |-> op.saw]
    BY <1>1
  <2> HIDE DEF op
  <2>2. [op EXCEPT !.at = at, !.saw = saw]
          = [kind |-> op.kind, at |-> at, account |-> op.account, what |-> op.what, saw |-> saw]
    BY <2>1, OpChanged, Zenon
  <2> QED
    BY <2>2 DEF op
<1> QED
  BY <1>2, <1>3, OpIs

LEMMA IdleSensible == Sensible(Idle) /\ Idle.account = None /\ Idle.kind = "idle"
BY ListeningAssumption DEF Sensible, Idle, Reads, Rewrites, Kinds

LEMMA NotIdle ==
    ASSUME TypeOK, NEW o \in Ops
    PROVE  /\ ops[o].kind # "idle" => ops[o].account \in Accounts /\ o \in OpsOf(ops[o].account)
           /\ ops[o].kind = "idle" => ops[o] = Idle
BY DEF TypeOK, Sensible, OpsOf

\* Nothing happens but to requests, and all stay right.
LEMMA AskedOn ==
    ASSUME IInv, NEW a \in Accounts, NEW o \in Ops, Moves(o, a),
           UNCHANGED memory, UNCHANGED Stored, crossed \subseteq crossed', crossed' \subseteq Accounts,
           DOMAIN ops' = Ops, \A u \in Ops : Sensible(ops'[u]),
           Good(a)'
    PROVE  IInv'
<1>1. TypeOK'
  BY DEF IInv, TypeOK, Stored
<1>2. Current(memory)'
  BY DEF IInv, Current, ListFor
<1>3. ASSUME NEW b \in Accounts \ {a}
      PROVE  Good(b)'
  <2>1. Untouched(b)
    BY Elsewhere DEF Untouched, Alike, Stored, PeersOf, OnPeers
  <2> QED
    BY <2>1, UntouchedGood DEF IInv
<1> QED
  BY <1>1, <1>2, <1>3 DEF IInv

\* A request of no kind yet begins: what it may find is still to come.
LEMMA BeginsIs ==
    ASSUME TypeOK, NEW o \in Ops, NEW a \in Accounts, NEW kind \in Kinds \ {"idle"}, NEW at, NEW what,
           Sensible(Op(kind, at, a, what)), Begins(o, Op(kind, at, a, what))
    PROVE  /\ Moves(o, a) /\ crossed \subseteq crossed' /\ crossed' \subseteq Accounts
           /\ crossed' \subseteq crossed \cup {a}
           /\ DOMAIN ops' = Ops /\ \A u \in Ops : Sensible(ops'[u])
           /\ ops'[o] = Op(kind, at, a, what) /\ o \notin OpsOf(a)
           /\ Saving(a) => Saving(a)'
           /\ Hiding(a) => Hiding(a)'
           /\ SettingApps(a) => SettingApps(a)'
           /\ a \notin crossed' /\ Apart(a) => Apart(a)'
<1> DEFINE new == Op(kind, at, a, what)
<1>1. /\ ops'[o] = new /\ \A u \in Ops \ {o} : ops'[u] = ops[u]
      /\ DOMAIN ops' = Ops /\ \A u \in Ops : Sensible(ops'[u])
  BY OpIs DEF Begins
<1>2. new.account = a /\ new.kind = kind
  BY DEF Op
<1>3. ops[o].account = None /\ o \notin OpsOf(a)
  BY ListeningAssumption DEF Begins, Idle, OpsOf
<1> HIDE DEF new
<1>4. Moves(o, a)
  BY <1>1, <1>2, <1>3 DEF Moves
<1>5. \A u \in OpsOf(a) : u \in OpsOf(a)' /\ ops'[u] = ops[u]
  BY <1>1, <1>3 DEF OpsOf
<1>6. /\ Saving(a) => Saving(a)'
      /\ Hiding(a) => Hiding(a)'
      /\ SettingApps(a) => SettingApps(a)'
  BY <1>5 DEF Saving, Hiding, SettingApps
<1>7. /\ crossed' = IF \E u \in OpsOf(a) : Crossing(ops[u].kind, kind)
                    THEN crossed \cup {a} ELSE crossed
      /\ crossed \subseteq Accounts
  BY <1>2 DEF Begins, TypeOK, new
<1>8. a \notin crossed' /\ Apart(a) => Apart(a)'
  BY <1>1, <1>2, <1>3, <1>4, <1>7, ApartBegun
<1> QED
  BY <1>1, <1>3, <1>4, <1>6, <1>7, <1>8 DEF new

\* Save, hide, set, or an app's report: nothing else happens.
LEMMA BegunGood ==
    ASSUME IInv, NEW o \in Ops, NEW a \in Accounts,
           NEW kind \in {"save", "hide", "set", "app"}, NEW at, NEW what,
           Sensible(Op(kind, at, a, what)), Begins(o, Op(kind, at, a, what)),
           at \in {"reading", "read", "ending", "looking"},
           kind = "app" => at = "looking",
           kind = "save" /\ at = "read" => what.field = "picture",
           UNCHANGED memory, UNCHANGED Stored
    PROVE  IInv'
<1>1. /\ Moves(o, a) /\ crossed \subseteq crossed' /\ crossed' \subseteq Accounts
      /\ DOMAIN ops' = Ops /\ \A u \in Ops : Sensible(ops'[u])
      /\ ops'[o] = Op(kind, at, a, what)
      /\ Saving(a) => Saving(a)'
      /\ Hiding(a) => Hiding(a)'
      /\ SettingApps(a) => SettingApps(a)'
      /\ a \notin crossed' /\ Apart(a) => Apart(a)'
  BY BeginsIs DEF IInv, Kinds
<1>2. ReadTrue(ops[o], a)' /\ SaveTrue(ops[o], a)' /\ SetTrue(ops[o], a)'
  <2>1. ops'[o].kind = kind /\ ops'[o].at = at /\ ops'[o].what = what
    BY <1>1 DEF Op
  <2> QED
    BY <2>1 DEF ReadTrue, SaveTrue, SetTrue, Reads, Rewrites
<1>3. Good(a) /\ (a \notin crossed' => Apart(a))
  BY <1>1 DEF IInv, Good, Uncrossed
<1>4. Good(a)'
  BY <1>1, <1>2, <1>3, AsksOn
<1> QED
  BY <1>1, <1>4, AskedOn

LEMMA ChoosingGood ==
    ASSUME IInv, Choosing
    PROVE  IInv'
<1>0. PICK o \in Ops, a \in Changing :
          \/ \E patch \in Patches : Save(o, a, patch)
          \/ \E value \in BOOLEAN \cup {None} : Set(o, a, value)
          \/ \E report \in AppReports : Playback(o, a, report)
          \/ Hide(o, a)
  BY DEF Choosing
<1>1. a \in Accounts
  BY ListeningAssumption
<1>2. ASSUME NEW patch \in Patches, Save(o, a, patch)
      PROVE  IInv'
  <2> DEFINE at == IF patch.field = "picture" THEN "read" ELSE "reading"
  <2>1. Sensible(Op("save", at, a, patch))
    BY <1>1 DEF Sensible, Op, Reads, Rewrites, Kinds
  <2> QED
    BY <1>1, <1>2, <2>1, BegunGood DEF Save
<1>3. ASSUME NEW value \in BOOLEAN \cup {None}, Set(o, a, value)
      PROVE  IInv'
  <2>1. Sensible(Op("set", "reading", a, value))
    BY <1>1 DEF Sensible, Op, Reads, Rewrites, Kinds
  <2> QED
    BY <1>1, <1>3, <2>1, BegunGood DEF Set
<1>4. ASSUME NEW report \in AppReports, Playback(o, a, report)
      PROVE  IInv'
  <2>1. Sensible(Op("app", "looking", a, report))
    BY <1>1 DEF Sensible, Op, Reads, Rewrites, Kinds
  <2> QED
    BY <1>1, <1>4, <2>1, BegunGood DEF Playback
<1>5. ASSUME Hide(o, a)
      PROVE  IInv'
  <2>1. Sensible(Op("hide", "ending", a, PeersOf(memory, a)))
    BY <1>1 DEF Sensible, Op, Reads, Rewrites, Kinds, PeersOf
  <2> QED
    BY <1>1, <1>5, <2>1, BegunGood DEF Hide
<1> QED
  BY <1>0, <1>2, <1>3, <1>4, <1>5

\* What is being put in place still is, unless this request did.
LEMMA StillBeing ==
    ASSUME NEW a \in Accounts, NEW o \in Ops, Moves(o, a)
    PROVE  /\ \/ ~(ops[o].kind = "save" /\ ops[o].at \in {"written", "reread"})
              \/ o \in OpsOf(a)' /\ ops'[o].kind = "save" /\ ops'[o].at \in {"written", "reread"}
              => (Saving(a) => Saving(a)')
           /\ ~(ops[o].kind = "hide" /\ ops[o].at = "hidden") => (Hiding(a) => Hiding(a)')
           /\ ~(ops[o].kind = "set" /\ ops[o].at = "written") => (SettingApps(a) => SettingApps(a)')
BY OpsAfter DEF Saving, Hiding, SettingApps

\* A request ends.
LEMMA RestsIs ==
    ASSUME TypeOK, NEW o \in Ops, ops[o].kind # "idle", NEW a, a = ops[o].account, Rests(o)
    PROVE  /\ a \in Accounts /\ o \in OpsOf(a) /\ Moves(o, a)
           /\ DOMAIN ops' = Ops /\ \A u \in Ops : Sensible(ops'[u])
           /\ o \notin OpsOf(a)' /\ OpsOf(a)' = OpsOf(a) \ {o}
           /\ \A u \in OpsOf(a) \ {o} : ops'[u] = ops[u]
           /\ Apart(a) => Apart(a)'
<1>1. a \in Accounts /\ o \in OpsOf(a) /\ a # None
  BY NotIdle, ListeningAssumption
<1>2. /\ ops'[o] = Idle /\ \A u \in Ops \ {o} : ops'[u] = ops[u]
      /\ DOMAIN ops' = Ops /\ \A u \in Ops : Sensible(ops'[u])
  BY OpIs, IdleSensible DEF Rests
<1>3. Moves(o, a)
  BY <1>1, <1>2, IdleSensible DEF Moves
<1>4. o \notin OpsOf(a)' /\ OpsOf(a)' = OpsOf(a) \ {o}
  BY <1>1, <1>2, <1>3, IdleSensible, OpsAfter DEF OpsOf
<1>5. Apart(a) => Apart(a)'
  BY <1>1, <1>3, <1>4, ApartKept
<1> QED
  BY <1>1, <1>2, <1>3, <1>4, <1>5, OpsAfter

\* A request goes on.
LEMMA TurnIs ==
    ASSUME TypeOK, NEW o \in Ops, ops[o].kind # "idle", NEW a, a = ops[o].account,
           NEW at, NEW saw, Turns(o, at, saw)
    PROVE  /\ a \in Accounts /\ o \in OpsOf(a) /\ Moves(o, a)
           /\ ops'[o].kind = ops[o].kind /\ ops'[o].at = at /\ ops'[o].saw = saw
           /\ ops'[o].what = ops[o].what /\ ops'[o].account = a
           /\ ops'[o] = [kind |-> ops'[o].kind, at |-> ops'[o].at, account |-> ops'[o].account,
                         what |-> ops'[o].what, saw |-> ops'[o].saw]
           /\ o \in OpsOf(a)' /\ OpsOf(a)' = OpsOf(a)
           /\ \A u \in OpsOf(a) \ {o} : ops'[u] = ops[u]
           /\ Apart(a) => Apart(a)'
           /\ Sensible(ops'[o]) => DOMAIN ops' = Ops /\ \A u \in Ops : Sensible(ops'[u])
<1>1. a \in Accounts /\ o \in OpsOf(a)
  BY NotIdle
<1>2. /\ ops'[o] = [kind |-> ops[o].kind, at |-> at, account |-> a, what |-> ops[o].what, saw |-> saw]
      /\ \A u \in Ops \ {o} : ops'[u] = ops[u]
      /\ Sensible(ops'[o]) => DOMAIN ops' = Ops /\ \A u \in Ops : Sensible(ops'[u])
     
  BY TurnsIs
<1>3. /\ ops'[o].kind = ops[o].kind /\ ops'[o].at = at /\ ops'[o].saw = saw
      /\ ops'[o].what = ops[o].what /\ ops'[o].account = a
  BY <1>2
<1>4. Moves(o, a)
  BY <1>2, <1>3 DEF Moves
<1>5. o \in OpsOf(a)' /\ OpsOf(a)' = OpsOf(a)
  BY <1>1, <1>3, <1>4, OpsAfter DEF OpsOf
<1>6. Apart(a) => Apart(a)'
  BY <1>1, <1>3, <1>4, ApartKept
<1> QED
  BY <1>1, <1>2, <1>3, <1>4, <1>5, <1>6, OpsAfter

LEMMA EndsIs ==
    ASSUME TypeOK, NEW o \in Ops, ops[o].kind # "idle", NEW a, a = ops[o].account, Ends(o)
    PROVE  /\ a \in Accounts /\ o \in OpsOf(a) /\ Moves(o, a) /\ UNCHANGED <<made, crossed>>
           /\ DOMAIN ops' = Ops /\ \A u \in Ops : Sensible(ops'[u])
           /\ o \notin OpsOf(a)' /\ OpsOf(a)' = OpsOf(a) \ {o}
           /\ \A u \in OpsOf(a) \ {o} : ops'[u] = ops[u]
           /\ Apart(a) => Apart(a)'
<1>1. Rests(o) /\ UNCHANGED <<made, crossed>>
  BY DEF Ends, Rests
<1> QED
  BY <1>1, RestsIs

LEMMA OnIs ==
    ASSUME TypeOK, NEW o \in Ops, ops[o].kind # "idle", NEW a, a = ops[o].account,
           NEW at, NEW saw, GoesOn(o, at, saw)
    PROVE  /\ a \in Accounts /\ o \in OpsOf(a) /\ Moves(o, a) /\ UNCHANGED <<made, crossed>>
           /\ ops'[o].kind = ops[o].kind /\ ops'[o].at = at /\ ops'[o].saw = saw
           /\ ops'[o].what = ops[o].what /\ ops'[o].account = a
           /\ ops'[o] = [kind |-> ops'[o].kind, at |-> ops'[o].at, account |-> ops'[o].account,
                         what |-> ops'[o].what, saw |-> ops'[o].saw]
           /\ o \in OpsOf(a)' /\ OpsOf(a)' = OpsOf(a)
           /\ \A u \in OpsOf(a) \ {o} : ops'[u] = ops[u]
           /\ Apart(a) => Apart(a)'
           /\ Sensible(ops'[o]) => DOMAIN ops' = Ops /\ \A u \in Ops : Sensible(ops'[u])
<1>1. Turns(o, at, saw) /\ UNCHANGED <<made, crossed>>
  BY DEF GoesOn, Turns
<1> QED
  BY <1>1, TurnIs

LEMMA KindIs ==
    ASSUME TypeOK, NEW o \in Ops
    PROVE  /\ ops[o].kind = "idle" => ops[o].at = "idle"
           /\ ops[o].at \in {"reading", "read", "written", "reread", "looking", "found",
                             "ending", "hidden"} => ops[o].kind # "idle"
           /\ Sensible(ops[o])
BY DEF TypeOK, Sensible, Idle

\* getProfile: what is read is the row there is.
LEMMA ReadProfileGood ==
    ASSUME IInv, NEW o \in Ops, ReadProfile(o)
    PROVE  IInv'
<1>1. ops[o].kind # "idle" /\ Sensible(ops[o]) /\ ops[o].kind # "set"
  BY KindIs DEF IInv, ReadProfile, At
<1>a. PICK a \in Accounts : a = ops[o].account
  BY <1>1, NotIdle DEF IInv
<1>b. PICK saw : saw = rows[a]
  OBVIOUS
<1>2. PICK at \in {"read", "reread"} :
          /\ GoesOn(o, at, saw)
          /\ at = "read" => ops[o].at = "reading"
          /\ at = "reread" => ops[o].kind = "save" /\ ops[o].at = "written"
  BY <1>a, <1>b DEF ReadProfile, At
<1>3. /\ a \in Accounts /\ o \in OpsOf(a) /\ Moves(o, a) /\ UNCHANGED <<made, crossed>>
      /\ ops'[o].kind = ops[o].kind /\ ops'[o].at = at /\ ops'[o].saw = saw
      /\ ops'[o].what = ops[o].what /\ ops'[o].account = a
      /\ ops'[o] = [kind |-> ops'[o].kind, at |-> ops'[o].at, account |-> ops'[o].account,
                    what |-> ops'[o].what, saw |-> ops'[o].saw]
      /\ o \in OpsOf(a)'
      /\ Apart(a) => Apart(a)'
      /\ Sensible(ops'[o]) => DOMAIN ops' = Ops /\ \A u \in Ops : Sensible(ops'[u])
  BY <1>1, <1>a, <1>2, OnIs DEF IInv
<1>4. saw \in Profile
  BY <1>b DEF IInv, TypeOK
<1>5. Sensible(ops'[o])
  BY <1>1, <1>2, <1>3, <1>4 DEF Sensible, Reads, Rewrites
<1>6. /\ Saving(a) => Saving(a)'
      /\ Hiding(a) => Hiding(a)'
      /\ SettingApps(a) => SettingApps(a)'
  BY <1>1, <1>2, <1>3, StillBeing
<1>7. UNCHANGED memory /\ UNCHANGED Stored
  BY DEF ReadProfile
<1>8. Good(a)
  BY <1>3 DEF IInv
<1>9. ASSUME a \notin crossed
      PROVE  ReadTrue(ops[o], a)' /\ SaveTrue(ops[o], a)' /\ SetTrue(ops[o], a)'
  <2>1. OpTrue(ops[o], a)
    BY <1>3, <1>8, <1>9 DEF Good, Uncrossed
  <2>2. rows'[a] = saw
    BY <1>b, <1>7 DEF Stored
  <2>3. SaveTrue(ops[o], a)' /\ SetTrue(ops[o], a)'
    BY <1>1, <1>2, <1>3, <2>2 DEF SaveTrue, SetTrue
  <2>4. ASSUME Reads(ops'[o])
        PROVE  Connected(memory', a)
    BY <1>1, <1>2, <1>3, <1>7, <2>1, <2>4 DEF OpTrue, ReadTrue, Reads, Connected, PeersOf
  <2> QED
    BY <1>3, <2>2, <2>3, <2>4 DEF ReadTrue
<1>10. Good(a)'
  <2>1. a \notin crossed' => Apart(a)'
    BY <1>3, <1>8 DEF Good, Uncrossed
  <2> QED
    BY <1>3, <1>6, <1>7, <1>8, <1>9, <2>1, AsksOn
<1>11. crossed' \subseteq Accounts
  BY <1>3 DEF IInv, TypeOK
<1> QED
  BY <1>3, <1>5, <1>7, <1>10, <1>11, AskedOn

\* A request ends, and what it knew with it.
LEMMA NameTakenGood ==
    ASSUME IInv, NEW o \in Ops, NameTaken(o)
    PROVE  IInv'
<1>1. ops[o].kind = "save" /\ ops[o].at = "read"
  BY DEF NameTaken, At
<1>a. PICK a \in Accounts : a = ops[o].account
  BY <1>1, NotIdle DEF IInv
<1>2. /\ a \in Accounts /\ o \in OpsOf(a) /\ Moves(o, a) /\ UNCHANGED <<made, crossed>>
      /\ DOMAIN ops' = Ops /\ \A u \in Ops : Sensible(ops'[u])
      /\ o \notin OpsOf(a)'
      /\ Apart(a) => Apart(a)'
  BY <1>1, <1>a, EndsIs DEF NameTaken, IInv
<1>3. /\ Saving(a) => Saving(a)'
      /\ Hiding(a) => Hiding(a)'
      /\ SettingApps(a) => SettingApps(a)'
  BY <1>1, <1>2, StillBeing
<1>4. UNCHANGED memory /\ UNCHANGED Stored
  BY DEF NameTaken
<1>5. Good(a) /\ (a \notin crossed => Apart(a)) /\ crossed \subseteq Accounts
  BY <1>2 DEF IInv, Good, Uncrossed, TypeOK
<1>6. Good(a)'
  BY <1>2, <1>3, <1>4, <1>5, AsksOn
<1> QED
  BY <1>2, <1>4, <1>5, <1>6, AskedOn

\* A request goes on where nothing else changes and nothing was being put in place.
LEMMA WentOnGood ==
    ASSUME IInv, NEW o \in Ops, NEW a \in Accounts, a = ops[o].account, NEW at, NEW saw,
           GoesOn(o, at, saw), UNCHANGED memory, UNCHANGED Stored,
           ops[o].kind # "idle", ops[o].at \notin {"written", "reread", "hidden"},
           Sensible(ops'[o]),
           a \notin crossed => ReadTrue(ops[o], a)' /\ SaveTrue(ops[o], a)' /\ SetTrue(ops[o], a)'
    PROVE  IInv'
<1>1. /\ o \in OpsOf(a) /\ Moves(o, a) /\ UNCHANGED <<made, crossed>>
      /\ Apart(a) => Apart(a)'
      /\ DOMAIN ops' = Ops /\ \A u \in Ops : Sensible(ops'[u])
  <2>1. TypeOK
    BY DEF IInv
  <2> QED
    BY <2>1, OnIs
<1>2. /\ Saving(a) => Saving(a)'
      /\ Hiding(a) => Hiding(a)'
      /\ SettingApps(a) => SettingApps(a)'
  BY <1>1, StillBeing
<1>3. Good(a) /\ (a \notin crossed => Apart(a)) /\ crossed' \subseteq Accounts
  BY <1>1 DEF IInv, Good, Uncrossed, TypeOK
<1>4. Good(a)'
  BY <1>1, <1>2, <1>3, AsksOn
<1> QED
  BY <1>1, <1>3, <1>4, AskedOn

\* getSettings: for an account whose changes did not cross, no save of them is
\* under way, and what is remembered is what there is.
LEMMA SettingGood ==
    ASSUME IInv, NEW o \in Ops, Setting(o)
    PROVE  IInv'
<1>1. ops[o].kind = "app" /\ ops[o].at = "looking" /\ Sensible(ops[o])
  BY KindIs DEF IInv, Setting, At
<1>2. PICK a \in Accounts : a = ops[o].account
  BY <1>1, NotIdle DEF IInv
<1>3. PICK shared \in {sharing[a]} \cup {ops[u].saw : u \in {v \in OpsOf(a) : At(v, "set", "written")}} :
          GoesOn(o, "found", shared)
  BY <1>2 DEF Setting
<1>4. UNCHANGED memory /\ UNCHANGED Stored
  BY DEF Setting
<1>5. /\ o \in OpsOf(a) /\ UNCHANGED crossed
      /\ ops'[o].kind = "app" /\ ops'[o].at = "found" /\ ops'[o].saw = shared
      /\ ops'[o].what = ops[o].what /\ ops'[o].account = a
      /\ ops'[o] = [kind |-> ops'[o].kind, at |-> ops'[o].at, account |-> ops'[o].account,
                    what |-> ops'[o].what, saw |-> ops'[o].saw]
  BY <1>1, <1>2, <1>3, OnIs DEF IInv
<1>6. shared \in BOOLEAN
  <2>1. \A v \in OpsOf(a) : At(v, "set", "written") => ops[v].saw \in BOOLEAN
    BY DEF IInv, TypeOK, Sensible, At, OpsOf
  <2>2. sharing[a] \in BOOLEAN
    BY DEF IInv, TypeOK
  <2> QED
    BY <1>3, <2>1, <2>2
<1>7. Sensible(ops'[o])
  BY <1>1, <1>5, <1>6 DEF Sensible, Reads, Rewrites, Kinds
<1>8. ASSUME a \notin crossed
      PROVE  ReadTrue(ops[o], a)' /\ SaveTrue(ops[o], a)' /\ SetTrue(ops[o], a)'
  <2>1. Apart(a)
    BY <1>8 DEF IInv, Good, Uncrossed
  <2>2. ASSUME NEW v \in OpsOf(a), At(v, "set", "written")
        PROVE  FALSE
    BY <1>1, <1>5, <2>1, <2>2, Beside DEF At
  <2>3. shared = sharing[a] /\ sharing'[a] = sharing[a]
    BY <1>3, <1>4, <2>2 DEF Stored
  <2> QED
    BY <1>5, <2>3 DEF ReadTrue, SaveTrue, SetTrue, Rewrites
<1> QED
  BY <1>1, <1>2, <1>3, <1>4, <1>7, <1>8, WentOnGood

\* saveSettings reads the settings first.
LEMMA ReadSettingsGood ==
    ASSUME IInv, NEW o \in Ops, ReadSettings(o)
    PROVE  IInv'
<1>1. ops[o].kind = "set" /\ ops[o].at = "reading" /\ Sensible(ops[o])
  BY KindIs DEF IInv, ReadSettings, At
<1>2. PICK a \in Accounts : a = ops[o].account
  BY <1>1, NotIdle DEF IInv
<1>3. PICK shared \in BOOLEAN : shared = sharing[a]
  BY DEF IInv, TypeOK
<1>4. GoesOn(o, "read", shared) /\ UNCHANGED memory /\ UNCHANGED Stored
  BY <1>2, <1>3 DEF ReadSettings
<1>5. /\ ops'[o].kind = "set" /\ ops'[o].at = "read" /\ ops'[o].saw = shared
      /\ ops'[o].what = ops[o].what /\ ops'[o].account = a
      /\ ops'[o] = [kind |-> ops'[o].kind, at |-> ops'[o].at, account |-> ops'[o].account,
                    what |-> ops'[o].what, saw |-> ops'[o].saw]
  BY <1>1, <1>2, <1>4, OnIs DEF IInv
<1>6. Sensible(ops'[o])
  BY <1>1, <1>5 DEF Sensible, Reads, Rewrites, Kinds
<1>7. ReadTrue(ops[o], a)' /\ SaveTrue(ops[o], a)' /\ SetTrue(ops[o], a)'
  BY <1>5 DEF ReadTrue, SaveTrue, SetTrue, Reads, Rewrites
<1> QED
  BY <1>1, <1>2, <1>4, <1>6, <1>7, WentOnGood

-----------------------------------------------------------------------------
(* What changes the database *)

\* The row of an account, or its setting, changes: all other accounts are as they were.
LEMMA StoredGood ==
    ASSUME IInv, NEW a \in Accounts, NEW o \in Ops, Moves(o, a),
           UNCHANGED memory, UNCHANGED crossed,
           rows' \in [Accounts -> Profile], sharing' \in [Accounts -> BOOLEAN],
           chosen' \in [Accounts -> BOOLEAN],
           \A b \in Accounts \ {a} : /\ rows'[b] = rows[b] /\ sharing'[b] = sharing[b]
                                     /\ chosen'[b] = chosen[b],
           DOMAIN ops' = Ops, \A u \in Ops : Sensible(ops'[u]),
           a \notin crossed => Uncrossed(a)'
    PROVE  IInv'
<1>1. TypeOK'
  BY DEF IInv, TypeOK
<1>2. Current(memory)'
  BY DEF IInv, Current, ListFor
<1>3. ASSUME NEW b \in Accounts \ {a}
      PROVE  Good(b)'
  <2>1. Untouched(b)
    BY Elsewhere DEF Untouched, Alike, PeersOf, OnPeers
  <2> QED
    BY <2>1, UntouchedGood DEF IInv
<1>4. Wanted(memory, a)' /\ Heard(memory, a)'
  BY DEF IInv, Good, Wanted, Heard, Connected, PeersOf, Reports, OnPeers, InApps, AppsHeld
<1>5. Good(a)'
  BY <1>4 DEF Good
<1> QED
  BY <1>1, <1>2, <1>3, <1>5 DEF IInv

LEMMA PatchedIs ==
    ASSUME NEW saw \in Profile, NEW patch \in Patches, patch.field # "picture"
    PROVE  /\ Patched(saw, patch) \in Profile
           /\ Patched(saw, patch).shown
                = IF patch.field = "shown" THEN patch.value ELSE saw.shown
           /\ patch.field = "shown" => patch.value \in BOOLEAN
<1>1. patch.field = "shown" => patch.value \in BOOLEAN
  BY DEF Patches
<1>2. patch.field # "shown" => patch.field = "name" /\ patch.value \in Names
  BY DEF Patches
<1> QED
  BY <1>1, <1>2 DEF Patched, Profile

\* saveProfile writes the row, from what it read.
LEMMA WriteGood ==
    ASSUME IInv, NEW o \in Ops, Write(o)
    PROVE  IInv'
<1>1. ops[o].kind = "save" /\ ops[o].at = "read" /\ Sensible(ops[o])
  BY KindIs DEF IInv, Write, At
<1>2. PICK a \in Accounts : a = ops[o].account
  BY <1>1, NotIdle DEF IInv
<1>3. PICK patch \in Patches : patch = ops[o].what
  BY <1>1 DEF Sensible
<1>4. PICK saw : saw = ops[o].saw
  OBVIOUS
<1>5. /\ rows' = IF patch.field = "picture" THEN rows ELSE [rows EXCEPT ![a] = Patched(saw, patch)]
      /\ chosen' = IF patch.field = "shown" THEN [chosen EXCEPT ![a] = patch.value] ELSE chosen
      /\ GoesOn(o, "written", None) /\ UNCHANGED <<sharing, memory>>
  BY <1>2, <1>3, <1>4 DEF Write
<1>6. /\ o \in OpsOf(a) /\ Moves(o, a) /\ UNCHANGED crossed
      /\ ops'[o].kind = "save" /\ ops'[o].at = "written" /\ ops'[o].what = patch
      /\ ops'[o].account = a
      /\ ops'[o] = [kind |-> ops'[o].kind, at |-> ops'[o].at, account |-> ops'[o].account,
                    what |-> ops'[o].what, saw |-> ops'[o].saw]
      /\ o \in OpsOf(a)' /\ OpsOf(a)' = OpsOf(a)
      /\ \A u \in OpsOf(a) \ {o} : ops'[u] = ops[u]
      /\ Apart(a) => Apart(a)'
      /\ Sensible(ops'[o]) => DOMAIN ops' = Ops /\ \A u \in Ops : Sensible(ops'[u])
  BY <1>1, <1>2, <1>3, <1>5, OnIs DEF IInv
<1>7. Sensible(ops'[o])
  BY <1>6 DEF Sensible, Reads, Rewrites, Kinds
<1>8. patch.field # "picture" => saw \in Profile
  BY <1>1, <1>3, <1>4 DEF Sensible, Rewrites
<1>9. patch.field # "picture" =>
          /\ Patched(saw, patch) \in Profile
          /\ Patched(saw, patch).shown = IF patch.field = "shown" THEN patch.value ELSE saw.shown
          /\ patch.field = "shown" => patch.value \in BOOLEAN
  BY <1>8, PatchedIs
<1>10. rows \in [Accounts -> Profile] /\ chosen \in [Accounts -> BOOLEAN] /\ sharing \in [Accounts -> BOOLEAN]
  BY DEF IInv, TypeOK
<1>11. /\ rows' \in [Accounts -> Profile] /\ chosen' \in [Accounts -> BOOLEAN]
       /\ \A b \in Accounts \ {a} : rows'[b] = rows[b] /\ chosen'[b] = chosen[b]
  BY <1>5, <1>9, <1>10
<1>12. Saving(a)' /\ (SettingApps(a) => SettingApps(a)')
  BY <1>1, <1>6, StillBeing DEF Saving
<1>13. ASSUME a \notin crossed
       PROVE  Uncrossed(a)'
  <2>1. Uncrossed(a)
    BY <1>13 DEF IInv, Good
  <2>2. patch.field # "picture" => saw = rows[a]
    BY <1>1, <1>3, <1>4, <1>6, <2>1 DEF Uncrossed, OpTrue, SaveTrue, Rewrites
  <2>3. rows'[a].shown = chosen'[a]
    <3>1. CASE patch.field = "picture"
      BY <1>5, <2>1, <3>1 DEF Uncrossed
    <3>2. CASE patch.field = "shown"
      BY <1>5, <1>9, <1>10, <3>2
    <3>3. CASE patch.field \notin {"picture", "shown"}
      <4>1. Patched(saw, patch).shown = chosen[a]
        BY <1>9, <2>1, <2>2, <3>3 DEF Uncrossed
      <4> QED
        BY <1>5, <1>10, <3>3, <4>1
    <3> QED
      BY <3>1, <3>2, <3>3
  <2>4. Allowed(memory, a)' /\ HeldTrue(a)' /\ Apart(a)'
    BY <1>5, <1>6, <1>12, <2>1 DEF Uncrossed, Allowed, HeldTrue
  <2>5. AppsTrue(a)'
    BY <1>5, <1>12, <2>1 DEF Uncrossed, AppsTrue, AppsHeld
  <2>6. ASSUME NEW u \in OpsOf(a)'
        PROVE  OpTrue(ops[u], a)'
    <3>1. CASE u = o
      BY <1>6, <3>1 DEF OpTrue, ReadTrue, SaveTrue, SetTrue, Reads, Rewrites
    <3>2. CASE u # o
      <4>1. u \in OpsOf(a) /\ ops'[u] = ops[u] /\ OpTrue(ops[u], a)
        BY <1>6, <2>1, <2>6, <3>2 DEF Uncrossed
      <4>2. ops[u].kind # "save"
        BY <1>1, <1>6, <2>1, <3>2, <4>1, Beside DEF Uncrossed
      <4>3. ReadTrue(ops[u], a)'
        BY <1>5, <1>12, <4>1 DEF OpTrue, ReadTrue, Connected, PeersOf
      <4> QED
        BY <1>5, <4>1, <4>2, <4>3 DEF OpTrue, SaveTrue, SetTrue, Rewrites
    <3> QED
      BY <3>1, <3>2
  <2> QED
    BY <2>3, <2>4, <2>5, <2>6 DEF Uncrossed
<1> QED
  BY <1>5, <1>6, <1>7, <1>10, <1>11, <1>13, StoredGood

\* hideProfile.
LEMMA HideRowGood ==
    ASSUME IInv, NEW o \in Ops, HideRow(o)
    PROVE  IInv'
<1>1. ops[o].kind = "hide" /\ ops[o].at = "ending" /\ Sensible(ops[o])
  BY KindIs DEF IInv, HideRow, At
<1>2. PICK a \in Accounts : a = ops[o].account
  BY <1>1, NotIdle DEF IInv
<1>3. /\ rows' = [rows EXCEPT ![a].shown = FALSE] /\ chosen' = [chosen EXCEPT ![a] = FALSE]
      /\ GoesOn(o, "hidden", None) /\ UNCHANGED <<sharing, memory>>
  BY <1>2 DEF HideRow
<1>4. /\ o \in OpsOf(a) /\ Moves(o, a) /\ UNCHANGED crossed
      /\ ops'[o].kind = "hide" /\ ops'[o].at = "hidden" /\ ops'[o].what = ops[o].what
      /\ ops'[o].account = a
      /\ ops'[o] = [kind |-> ops'[o].kind, at |-> ops'[o].at, account |-> ops'[o].account,
                    what |-> ops'[o].what, saw |-> ops'[o].saw]
      /\ o \in OpsOf(a)' /\ OpsOf(a)' = OpsOf(a)
      /\ \A u \in OpsOf(a) \ {o} : ops'[u] = ops[u]
      /\ Apart(a) => Apart(a)'
      /\ Sensible(ops'[o]) => DOMAIN ops' = Ops /\ \A u \in Ops : Sensible(ops'[u])
  BY <1>1, <1>2, <1>3, OnIs DEF IInv
<1>5. Sensible(ops'[o])
  BY <1>1, <1>4 DEF Sensible, Reads, Rewrites, Kinds
<1>6. rows \in [Accounts -> Profile] /\ chosen \in [Accounts -> BOOLEAN] /\ sharing \in [Accounts -> BOOLEAN]
  BY DEF IInv, TypeOK
<1>7. [rows[a] EXCEPT !.shown = FALSE] \in Profile /\ [rows[a] EXCEPT !.shown = FALSE].shown = FALSE
  <2>1. rows[a] \in Profile
    BY <1>6
  <2> QED
    BY <2>1 DEF Profile
<1>8. /\ rows' \in [Accounts -> Profile] /\ chosen' \in [Accounts -> BOOLEAN]
      /\ \A b \in Accounts \ {a} : rows'[b] = rows[b] /\ chosen'[b] = chosen[b]
      /\ rows'[a].shown = chosen'[a]
  BY <1>3, <1>6, <1>7
<1>9. Hiding(a)' /\ (SettingApps(a) => SettingApps(a)')
  BY <1>1, <1>4, StillBeing DEF Hiding
<1>10. ASSUME a \notin crossed
       PROVE  Uncrossed(a)'
  <2>1. Uncrossed(a)
    BY <1>10 DEF IInv, Good
  <2>2. Allowed(memory, a)' /\ HeldTrue(a)' /\ Apart(a)'
    BY <1>3, <1>4, <1>9, <2>1 DEF Uncrossed, Allowed, HeldTrue
  <2>3. AppsTrue(a)'
    BY <1>3, <1>9, <2>1 DEF Uncrossed, AppsTrue, AppsHeld
  <2>4. ASSUME NEW u \in OpsOf(a)'
        PROVE  OpTrue(ops[u], a)'
    <3>1. CASE u = o
      BY <1>4, <3>1 DEF OpTrue, ReadTrue, SaveTrue, SetTrue, Reads, Rewrites
    <3>2. CASE u # o
      <4>1. u \in OpsOf(a) /\ ops'[u] = ops[u] /\ OpTrue(ops[u], a)
        BY <1>4, <2>1, <2>4, <3>2 DEF Uncrossed
      <4>2. ops[u].kind # "save" /\ ~Reads(ops[u])
        BY <1>1, <1>4, <2>1, <3>2, <4>1, Beside DEF Uncrossed
      <4> QED
        BY <1>3, <4>1, <4>2 DEF OpTrue, ReadTrue, SaveTrue, SetTrue, Rewrites
    <3> QED
      BY <3>1, <3>2
  <2> QED
    BY <1>8, <2>2, <2>3, <2>4 DEF Uncrossed
<1> QED
  BY <1>3, <1>4, <1>5, <1>6, <1>8, <1>10, StoredGood

\* saveSettings.
LEMMA WriteSettingsGood ==
    ASSUME IInv, NEW o \in Ops, WriteSettings(o)
    PROVE  IInv'
<1>1. ops[o].kind = "set" /\ ops[o].at = "read" /\ Sensible(ops[o])
  BY KindIs DEF IInv, WriteSettings, At
<1>2. PICK a \in Accounts : a = ops[o].account
  BY <1>1, NotIdle DEF IInv
<1>3. PICK value \in BOOLEAN : value = IF ops[o].what = None THEN ops[o].saw ELSE ops[o].what
  BY <1>1 DEF Sensible
<1>4. PICK saw \in BOOLEAN : saw = sharing[a]
  BY DEF IInv, TypeOK
<1>5. /\ sharing' = [sharing EXCEPT ![a] = value]
      /\ ops' = [ops EXCEPT ![o].at = "written", ![o].what = value, ![o].saw = saw]
      /\ UNCHANGED <<rows, memory, chosen, made, crossed>>
  BY <1>2, <1>3, <1>4 DEF WriteSettings
<1>6. PICK kept : kept = ops[o]
  OBVIOUS
<1>7. kept = [kind |-> kept.kind, at |-> kept.at, account |-> a, what |-> kept.what, saw |-> kept.saw]
  BY <1>1, <1>2, <1>6 DEF Sensible
<1> DEFINE new == [[[kept EXCEPT !.at = "written"] EXCEPT !.what = value] EXCEPT !.saw = saw]
<1>8. ops' = [ops EXCEPT ![o] = new]
  BY <1>5, <1>6 DEF IInv, TypeOK
<1>9. /\ new = [kind |-> new.kind, at |-> new.at, account |-> new.account, what |-> new.what, saw |-> new.saw]
      /\ new.kind = kept.kind /\ new.account = a
      /\ new.at = "written" /\ new.what = value /\ new.saw = saw
  <2> DEFINE first == [kept EXCEPT !.at = "written"]
             second == [first EXCEPT !.what = value]
  <2>1. first = [kind |-> kept.kind, at |-> "written", account |-> a, what |-> kept.what, saw |-> kept.saw]
    BY <1>7
  <2> HIDE DEF first
  <2>2. second = [kind |-> kept.kind, at |-> "written", account |-> a, what |-> value, saw |-> kept.saw]
    BY <2>1
  <2> HIDE DEF second
  <2>3. [second EXCEPT !.saw = saw]
          = [kind |-> kept.kind, at |-> "written", account |-> a, what |-> value, saw |-> saw]
    BY <2>2
  <2>4. new = [second EXCEPT !.saw = saw]
    BY DEF first, second
  <2> QED
    BY <2>3, <2>4
<1> HIDE DEF new
<1>10. Sensible(new) /\ new.kind = "set"
  BY <1>1, <1>6, <1>9 DEF Sensible, Reads, Rewrites, Kinds
<1>11. /\ ops'[o] = new /\ \A u \in Ops \ {o} : ops'[u] = ops[u]
       /\ DOMAIN ops' = Ops /\ \A u \in Ops : Sensible(ops'[u])
  BY <1>8, <1>10, OpIs DEF IInv
<1>12. Moves(o, a) /\ o \in OpsOf(a) /\ o \in OpsOf(a)'
  BY <1>2, <1>9, <1>11 DEF Moves, OpsOf
<1>13. rows \in [Accounts -> Profile] /\ chosen \in [Accounts -> BOOLEAN] /\ sharing \in [Accounts -> BOOLEAN]
  BY DEF IInv, TypeOK
<1>14. /\ sharing' \in [Accounts -> BOOLEAN] /\ sharing'[a] = value
       /\ \A b \in Accounts \ {a} : sharing'[b] = sharing[b]
  BY <1>5, <1>13
<1>15. SettingApps(a)' /\ (Saving(a) => Saving(a)') /\ (Hiding(a) => Hiding(a)')
  BY <1>1, <1>9, <1>10, <1>11, <1>12, StillBeing DEF SettingApps
<1>16. ASSUME a \notin crossed
       PROVE  Uncrossed(a)'
  <2>1. Uncrossed(a)
    BY <1>16 DEF IInv, Good
  <2>2. Allowed(memory, a)' /\ HeldTrue(a)'
    BY <1>5, <1>15, <2>1 DEF Uncrossed, Allowed, HeldTrue
  <2>3. Apart(a)'
    BY <1>1, <1>10, <1>11, <1>12, <2>1, ApartKept DEF Uncrossed
  <2>4. AppsTrue(a)' /\ rows'[a].shown = chosen'[a]
    BY <1>5, <1>15, <2>1 DEF AppsTrue, Uncrossed
  <2>5. ASSUME NEW u \in OpsOf(a)'
        PROVE  OpTrue(ops[u], a)'
    <3>1. CASE u = o
      BY <1>9, <1>10, <1>11, <1>14, <3>1 DEF OpTrue, ReadTrue, SaveTrue, SetTrue, Reads, Rewrites
    <3>2. CASE u # o
      <4>1. u \in OpsOf(a) /\ ops'[u] = ops[u] /\ OpTrue(ops[u], a)
        BY <1>12, <2>1, <2>5, <3>2, OpsAfter DEF Uncrossed
      <4>2. ops[u].kind \notin {"set", "app"}
        BY <1>1, <1>12, <2>1, <3>2, <4>1, Beside DEF Uncrossed
      <4>3. ReadTrue(ops[u], a)' /\ SaveTrue(ops[u], a)'
        BY <1>5, <1>15, <4>1 DEF OpTrue, ReadTrue, SaveTrue, Connected, PeersOf
      <4> QED
        BY <4>1, <4>2, <4>3 DEF OpTrue, SetTrue
    <3> QED
      BY <3>1, <3>2
  <2> QED
    BY <2>2, <2>3, <2>4, <2>5 DEF Uncrossed
<1> QED
  BY <1>5, <1>11, <1>12, <1>13, <1>14, <1>16, StoredGood

-----------------------------------------------------------------------------
(* What changes what is held *)

OpsKept(b) == OpsOf(b)' = OpsOf(b) /\ \A u \in OpsOf(b) : ops'[u] = ops[u]

\* What is held of an account changes: all others are as they were.
LEMMA MemoryGood ==
    ASSUME IInv, NEW a \in Accounts, UNCHANGED Stored,
           memory' \in Memory, Current(memory'),
           \A b \in Accounts \ {a} : Alike(memory, memory', b) /\ OpsKept(b),
           crossed \subseteq crossed', crossed' \subseteq Accounts,
           DOMAIN ops' = Ops, \A u \in Ops : Sensible(ops'[u]),
           Wanted(memory', a), Heard(memory', a),
           a \notin crossed' => Uncrossed(a)'
    PROVE  IInv'
<1>1. TypeOK'
  BY DEF IInv, TypeOK, Stored
<1>2. Current(memory)'
  BY DEF Current, ListFor
<1>3. ASSUME NEW b \in Accounts \ {a}
      PROVE  Good(b)'
  <2>1. Untouched(b)
    BY DEF Untouched, OpsKept, Stored
  <2> QED
    BY <2>1, UntouchedGood DEF IInv
<1>4. Wanted(memory, a)' /\ Heard(memory, a)'
  BY DEF Wanted, Heard, Connected, PeersOf, Reports, OnPeers, InApps, AppsHeld
<1>5. Good(a)'
  BY <1>4 DEF Good
<1> QED
  BY <1>1, <1>2, <1>3, <1>5 DEF IInv

LEMMA AlikeTwice ==
    ASSUME NEW k, NEW m, NEW n, NEW b, Alike(k, m, b), Alike(m, n, b)
    PROVE  Alike(k, n, b)
BY DEF Alike

LEMMA AlikeSame ==
    ASSUME NEW m, NEW n, NEW b, SamePeers(m, n), n.apps[b] = m.apps[b],
           n.known[b] = m.known[b], n.playing[b] = m.playing[b]
    PROVE  Alike(m, n, b)
BY SamePeersOf DEF Alike

\* A report has come, or a stream or an app has gone, and what is shown follows.
LEMMA WatchedGood ==
    ASSUME IInv, NEW a \in Accounts, UNCHANGED Stored,
           NEW m \in Memory, memory' \in Watch(m, a), Current(memory) => Current(m),
           m.known[a] = memory.known[a],
           \A b \in Accounts \ {a} : Alike(memory, m, b) /\ OpsKept(b),
           crossed \subseteq crossed', crossed' \subseteq Accounts,
           DOMAIN ops' = Ops, \A u \in Ops : Sensible(ops'[u]),
           a \notin crossed' /\ Uncrossed(a) =>
               /\ Apart(a)' /\ AppsTrue(a)'
               /\ Saving(a) => Saving(a)'
               /\ Hiding(a) => Hiding(a)'
               /\ \A u \in OpsOf(a)' : \/ OpTrue(ops[u], a)'
                                       \/ /\ u \in OpsOf(a) /\ ops'[u] = ops[u]
                                          /\ Reads(ops[u]) /\ ops[u].at \in {"reading", "read"}
                                                 => Connected(m, a)
    PROVE  IInv'
<1>1. /\ memory' \in Memory /\ memory'.apps = m.apps /\ SamePeers(m, memory')
      /\ \A b \in Accounts \ {a} : /\ memory'.playing[b] = m.playing[b]
                                   /\ memory'.known[b] = m.known[b]
      /\ memory'.known[a] = IF Connected(m, a) THEN m.known[a] ELSE None
      /\ Connected(memory', a) <=> Connected(m, a)
      /\ Allowed(memory', a) /\ Heard(memory', a)
      /\ Current(m) => Current(memory')
  BY WatchShows
<1>2. \A b \in Accounts \ {a} : Alike(memory, memory', b)
  BY <1>1, AlikeSame, AlikeTwice
<1>3. Wanted(memory', a)
  BY <1>1 DEF Wanted
<1>4. ASSUME a \notin crossed'
      PROVE  Uncrossed(a)'
  <2>1. Uncrossed(a)
    BY <1>4 DEF IInv, Good
  <2>2. HeldTrue(a)'
    BY <1>1, <1>4, <2>1 DEF Uncrossed, HeldTrue, Stored
  <2>3. Allowed(memory, a)' /\ (rows[a].shown = chosen[a])'
    BY <1>1, <2>1 DEF Allowed, Uncrossed, Stored
  <2>4. ASSUME NEW u \in OpsOf(a)'
        PROVE  OpTrue(ops[u], a)'
    <3>1. CASE /\ u \in OpsOf(a) /\ ops'[u] = ops[u]
               /\ Reads(ops[u]) /\ ops[u].at \in {"reading", "read"} => Connected(m, a)
      <4>1. OpTrue(ops[u], a)
        BY <2>1, <3>1 DEF Uncrossed
      <4>2. Connected(memory, a)' <=> Connected(m, a)
        BY <1>1 DEF Connected, PeersOf
      <4>3. ReadTrue(ops[u], a)'
        BY <1>1, <1>4, <2>1, <3>1, <4>1, <4>2 DEF OpTrue, ReadTrue, Stored
      <4> QED
        BY <3>1, <4>1, <4>3 DEF OpTrue, SaveTrue, SetTrue, Stored
    <3> QED
      BY <1>4, <2>1, <2>4, <3>1
  <2> QED
    BY <1>4, <2>1, <2>2, <2>3, <2>4 DEF Uncrossed
<1> QED
  BY <1>1, <1>2, <1>3, <1>4, MemoryGood DEF IInv

\* A stream comes, changes or goes.
WithPeer(m, p, peer) == [m EXCEPT !.peers[p] = peer]

LEMMA PeerIs ==
    ASSUME NEW m \in Memory, NEW p \in Peers, NEW peer \in {None} \cup Peer,
           NEW n, n = WithPeer(m, p, peer)
    PROVE  /\ n \in Memory /\ n.known = m.known /\ n.apps = m.apps /\ n.playing = m.playing
           /\ n.gap = m.gap
           /\ n.peers[p] = peer /\ \A q \in Peers \ {p} : n.peers[q] = m.peers[q]
<1> DEFINE peers == [m.peers EXCEPT ![p] = peer]
<1>1. peers \in [Peers -> {None} \cup Peer]
  BY Fields
<1>2. n = [m EXCEPT !.peers = peers]
  BY DEF Memory, WithPeer
<1>3. peers[p] = peer /\ \A q \in Peers \ {p} : peers[q] = m.peers[q]
  BY Fields
<1> HIDE DEF peers
<1> QED
  BY <1>1, <1>2, <1>3 DEF Memory

\* It is of one account.
LEMMA PeerAlike ==
    ASSUME NEW m \in Memory, NEW n \in Memory, NEW p \in Peers, NEW a,
           n.known = m.known, n.apps = m.apps, n.playing = m.playing,
           \A q \in Peers \ {p} : n.peers[q] = m.peers[q],
           m.peers[p] # None => m.peers[p].account = a,
           n.peers[p] # None => n.peers[p].account = a,
           NEW b, b # a
    PROVE  Alike(m, n, b)
<1>1. \A q \in Peers : q \in PeersOf(n, b) <=> q \in PeersOf(m, b)
  BY DEF PeersOf
<1>2. PeersOf(n, b) = PeersOf(m, b)
  BY <1>1 DEF PeersOf
<1>3. \A q \in PeersOf(m, b) : n.peers[q] = m.peers[q]
  BY DEF PeersOf
<1>4. OnPeers(n, b) = OnPeers(m, b)
  BY <1>2, <1>3 DEF OnPeers
<1> QED
  BY <1>2, <1>4 DEF Alike

LEMMA PeerCurrent ==
    ASSUME NEW m \in Memory, NEW n \in Memory, NEW p \in Peers,
           n.playing = m.playing, n.gap = m.gap, Current(m),
           \A q \in Peers \ {p} : n.peers[q] = m.peers[q],
           \/ n.peers[p] = None
           \/ n.peers[p].told = None
           \/ m.peers[p] # None /\ n.peers[p].told = m.peers[p].told /\ n.peers[p].account = m.peers[p].account
    PROVE  Current(n)
<1>1. ASSUME NEW q \in Peers, n.peers[q] # None, n.gap # "again"
      PROVE  n.peers[q].told \in {None, ListFor(n, n.peers[q].account)}
  <2>1. ListFor(n, n.peers[q].account) = ListFor(m, n.peers[q].account)
    BY ListOf
  <2>2. CASE q # p
    BY <1>1, <2>1, <2>2 DEF Current
  <2>3. CASE q = p
    BY <1>1, <2>1, <2>3 DEF Current
  <2> QED
    BY <2>2, <2>3
<1> QED
  BY <1>1 DEF Current

LEMMA Unasked ==
    ASSUME UNCHANGED ops
    PROVE  /\ \A b \in Accounts : OpsKept(b)
           /\ \A a \in Accounts : /\ Apart(a)' <=> Apart(a)
                                  /\ Saving(a)' <=> Saving(a)
                                  /\ Hiding(a)' <=> Hiding(a)
                                  /\ SettingApps(a)' <=> SettingApps(a)
BY DEF OpsKept, OpsOf, Apart, Saving, Hiding, SettingApps

\* leave.
LEMMA CloseGood ==
    ASSUME IInv, NEW p \in Peers, Close(p)
    PROVE  IInv'
<1>0. memory \in Memory /\ crossed \subseteq Accounts
  BY DEF IInv, TypeOK
<1>1. memory.peers[p] # None /\ memory.peers[p] \in Peer
  BY <1>0, Fields DEF Close
<1>2. PICK a \in Accounts : a = memory.peers[p].account
  BY <1>1 DEF Peer
<1>3. PICK m : m = WithPeer(memory, p, None)
  OBVIOUS
<1>4. /\ memory' \in Watch(m, a) /\ Goes(a) /\ UNCHANGED ops /\ UNCHANGED Stored
  BY <1>2, <1>3 DEF Close, WithPeer
<1>5. /\ m \in Memory /\ m.known = memory.known /\ m.apps = memory.apps /\ m.playing = memory.playing
      /\ m.gap = memory.gap
      /\ m.peers[p] = None /\ \A q \in Peers \ {p} : m.peers[q] = memory.peers[q]
  BY <1>0, <1>3, PeerIs
<1>6. Current(memory) => Current(m)
  BY <1>0, <1>5, PeerCurrent
<1>7. \A b \in Accounts \ {a} : Alike(memory, m, b)
  BY <1>0, <1>2, <1>5, PeerAlike
<1>8. /\ crossed \subseteq crossed' /\ crossed' \subseteq Accounts
      /\ DOMAIN ops' = Ops /\ \A u \in Ops : Sensible(ops'[u])
  BY <1>0, <1>4 DEF Goes, IInv, TypeOK
<1>9. memory'.apps = memory.apps /\ (Connected(memory', a) <=> Connected(m, a))
  BY <1>4, <1>5, WatchShows
<1>10. ASSUME a \notin crossed', NEW u \in OpsOf(a), Reads(ops[u]), ops[u].at \in {"reading", "read"}
       PROVE  Connected(m, a)
  BY <1>4, <1>9, <1>10 DEF Goes, Reads
<1>11. ASSUME a \notin crossed', Uncrossed(a)
       PROVE  /\ Apart(a)' /\ AppsTrue(a)'
              /\ Saving(a) => Saving(a)'
              /\ Hiding(a) => Hiding(a)'
              /\ \A u \in OpsOf(a)' : /\ u \in OpsOf(a) /\ ops'[u] = ops[u]
                                      /\ Reads(ops[u]) /\ ops[u].at \in {"reading", "read"}
                                             => Connected(m, a)
  <2>1. AppsTrue(a)'
    BY <1>4, <1>9, <1>11, Unasked DEF Uncrossed, AppsTrue, AppsHeld, Stored
  <2>2. \A u \in OpsOf(a)' : u \in OpsOf(a) /\ ops'[u] = ops[u]
    BY <1>4 DEF OpsOf
  <2> QED
    BY <1>4, <1>10, <1>11, <2>1, <2>2, Unasked DEF Uncrossed
<1> QED
  BY <1>4, <1>5, <1>6, <1>7, <1>8, <1>11, Unasked, WatchedGood

\* report.
LEMMA ReportGood ==
    ASSUME IInv, NEW p \in Peers, NEW song \in Songs \cup {None}, Report(p, song)
    PROVE  IInv'
<1>0. memory \in Memory /\ crossed \subseteq Accounts
  BY DEF IInv, TypeOK
<1>1. memory.peers[p] # None /\ memory.peers[p] \in Peer
  BY <1>0, Fields DEF Report
<1>2. PICK a \in Accounts : a = memory.peers[p].account
  BY <1>1 DEF Peer
<1>3. PICK peer : peer = [memory.peers[p] EXCEPT !.song = song]
  OBVIOUS
<1>4. /\ peer \in Peer /\ peer # None /\ peer.account = a /\ peer.told = memory.peers[p].told
  BY <1>1, <1>2, <1>3, NoneAssumption DEF Peer
<1>5. PICK m : m = WithPeer(memory, p, peer)
  OBVIOUS
<1>6. /\ memory' \in Watch(m, a) /\ UNCHANGED <<ops, made, crossed>> /\ UNCHANGED Stored
  BY <1>0, <1>2, <1>3, <1>5 DEF Report, Memory, WithPeer
<1>7. /\ m \in Memory /\ m.known = memory.known /\ m.apps = memory.apps /\ m.playing = memory.playing
      /\ m.gap = memory.gap
      /\ m.peers[p] = peer /\ \A q \in Peers \ {p} : m.peers[q] = memory.peers[q]
  BY <1>0, <1>4, <1>5, PeerIs
<1>8. Current(memory) => Current(m)
  BY <1>0, <1>1, <1>2, <1>4, <1>7, PeerCurrent
<1>9. \A b \in Accounts \ {a} : Alike(memory, m, b)
  BY <1>0, <1>2, <1>4, <1>7, PeerAlike
<1>10. /\ crossed \subseteq crossed' /\ crossed' \subseteq Accounts
      /\ DOMAIN ops' = Ops /\ \A u \in Ops : Sensible(ops'[u])
  BY <1>0, <1>6 DEF IInv, TypeOK
<1>11. memory'.apps = memory.apps
  BY <1>6, <1>7, WatchShows
<1>12. Connected(m, a)
  BY <1>4, <1>7 DEF Connected, PeersOf
<1>13. ASSUME a \notin crossed', Uncrossed(a)
       PROVE  /\ Apart(a)' /\ AppsTrue(a)'
              /\ Saving(a) => Saving(a)'
              /\ Hiding(a) => Hiding(a)'
              /\ \A u \in OpsOf(a)' : u \in OpsOf(a) /\ ops'[u] = ops[u]
  <2>1. AppsTrue(a)'
    BY <1>6, <1>11, <1>13, Unasked DEF Uncrossed, AppsTrue, AppsHeld, Stored
  <2>2. \A u \in OpsOf(a)' : u \in OpsOf(a) /\ ops'[u] = ops[u]
    BY <1>6 DEF OpsOf
  <2> QED
    BY <1>6, <1>13, <2>1, <2>2, Unasked DEF Uncrossed
<1> QED
  BY <1>6, <1>7, <1>8, <1>9, <1>10, <1>12, <1>13, Unasked, WatchedGood

-----------------------------------------------------------------------------
(* The apps held *)

In(held) == {held[i] : i \in DOMAIN held}

LEMMA WithoutIs ==
    ASSUME NEW held \in Seq(App), NEW app
    PROVE  Without(held, app) \in Seq(App) /\ In(Without(held, app)) \subseteq In(held)
<1> DEFINE places == {i \in DOMAIN held : held[i].app = app}
           at == CHOOSE i \in places : TRUE
           left == SubSeq(held, 1, at - 1)
           right == SubSeq(held, at + 1, Len(held))
<1>1. CASE places = {}
  BY <1>1 DEF Without
<1>2. CASE places # {}
  <2>1. at \in DOMAIN held
    BY <1>2
  <2>2. at \in 1..Len(held) /\ Len(held) \in Nat
    BY <2>1
  <2>3. Without(held, app) = left \o right
    BY <1>2 DEF Without
  <2> HIDE DEF at
  <2>4. /\ left \in Seq(App) /\ Len(left) = at - 1
        /\ \A i \in 1..(at - 1) : left[i] = held[i]
    BY <2>2
  <2>5. /\ right \in Seq(App) /\ Len(right) = Len(held) - at
        /\ \A i \in 1..(Len(held) - at) : right[i] = held[at + i]
    BY <2>2
  <2> HIDE DEF left, right
  <2>6. left \o right \in Seq(App) /\ Len(left \o right) = Len(held) - 1
    BY <2>2, <2>4, <2>5
  <2>7. ASSUME NEW i \in 1..(Len(held) - 1)
        PROVE  (left \o right)[i] \in In(held)
    <3>1. CASE i <= at - 1
      <4>1. (left \o right)[i] = held[i] /\ i \in DOMAIN held
        BY <2>2, <2>4, <2>5, <2>7, <3>1
      <4> QED
        BY <4>1 DEF In
    <3>2. CASE i > at - 1
      <4>1. (left \o right)[i] = right[i - (at - 1)]
        BY <2>2, <2>4, <2>5, <2>7, <3>2
      <4>2. i - (at - 1) \in 1..(Len(held) - at) /\ at + (i - (at - 1)) = i + 1
        BY <2>2, <2>7, <3>2
      <4>3. (left \o right)[i] = held[i + 1] /\ i + 1 \in DOMAIN held
        BY <2>2, <2>5, <2>7, <4>1, <4>2
      <4> QED
        BY <4>3 DEF In
    <3>3. i <= at - 1 \/ i > at - 1
      BY <2>2
    <3> QED
      BY <3>1, <3>2, <3>3
  <2>8. DOMAIN (left \o right) = 1..(Len(held) - 1)
    BY <2>6
  <2> QED
    BY <2>3, <2>6, <2>7, <2>8 DEF In
<1> QED
  BY <1>1, <1>2

LEMMA AppendIn ==
    ASSUME NEW held \in Seq(App), NEW x \in App
    PROVE  Append(held, x) \in Seq(App) /\ In(Append(held, x)) = In(held) \cup {x}
<1>1. /\ Append(held, x) \in Seq(App) /\ Len(Append(held, x)) = Len(held) + 1
      /\ DOMAIN Append(held, x) = 1..(Len(held) + 1) /\ DOMAIN held = 1..Len(held) /\ Len(held) \in Nat
      /\ \A i \in 1..Len(held) : Append(held, x)[i] = held[i]
      /\ Append(held, x)[Len(held) + 1] = x
  OBVIOUS
<1>2. \A i \in 1..(Len(held) + 1) : i \in 1..Len(held) \/ i = Len(held) + 1
  BY <1>1
<1> QED
  BY <1>1, <1>2 DEF In

LEMMA TailIn ==
    ASSUME NEW held \in Seq(App), held # <<>>
    PROVE  Tail(held) \in Seq(App) /\ In(Tail(held)) \subseteq In(held)
<1>1. /\ Tail(held) \in Seq(App) /\ Len(held) \in Nat /\ Len(Tail(held)) = Len(held) - 1
      /\ DOMAIN Tail(held) = 1..(Len(held) - 1) /\ DOMAIN held = 1..Len(held)
      /\ \A i \in 1..(Len(held) - 1) : Tail(held)[i] = held[i + 1]
  OBVIOUS
<1>2. \A i \in 1..(Len(held) - 1) : i + 1 \in 1..Len(held)
  BY <1>1
<1> QED
  BY <1>1, <1>2 DEF In

\* reportApp: the apps held, and the one heard now.
LEMMA ReportedIs ==
    ASSUME NEW held \in Seq(App), NEW report \in AppReports, NEW shared,
           ~report.stopped => shared \in BOOLEAN
    PROVE  /\ Reported(held, report, shared) \in Seq(App)
           /\ \A h \in In(Reported(held, report, shared)) :
                  h \in In(held) \/ (~report.stopped /\ h.shared = shared)
<1> DEFINE others == Without(held, report.app)
           kept == IF Len(others) = Len(held) /\ Len(held) >= MaxApps THEN Tail(others) ELSE others
           x == [app |-> report.app, song |-> report.song, shared |-> shared]
<1>1. others \in Seq(App) /\ In(others) \subseteq In(held)
  BY WithoutIs
<1> HIDE DEF others
<1>2. CASE report.stopped
  BY <1>1, <1>2 DEF Reported, others
<1>3. CASE ~report.stopped
  <2>1. x \in App /\ x.shared = shared
    BY <1>3 DEF App, AppReports
  <2>2. kept \in Seq(App) /\ In(kept) \subseteq In(held)
    <3>1. ASSUME Len(others) = Len(held), Len(held) >= MaxApps
          PROVE  others # <<>>
      BY <1>1, <3>1, ListeningAssumption
    <3> QED
      BY <1>1, <3>1, TailIn
  <2>3. Reported(held, report, shared) = Append(kept, x)
    BY <1>3 DEF Reported, others
  <2> HIDE DEF kept, x
  <2>4. Append(kept, x) \in Seq(App) /\ In(Append(kept, x)) = In(kept) \cup {x}
    BY <2>1, <2>2, AppendIn
  <2> QED
    BY <1>3, <2>1, <2>2, <2>3, <2>4
<1> QED
  BY <1>2, <1>3

\* shareApps.
LEMMA SharingIs ==
    ASSUME NEW held \in Seq(App), NEW shared \in BOOLEAN
    PROVE  /\ Sharing(held, shared) \in Seq(App)
           /\ held # <<>> => Sharing(held, shared) # <<>>
           /\ \A h \in In(Sharing(held, shared)) : h.shared = shared
<1> DEFINE next == Sharing(held, shared)
<1>1. ASSUME NEW i \in DOMAIN held
      PROVE  [held[i] EXCEPT !.shared = shared] \in App /\ [held[i] EXCEPT !.shared = shared].shared = shared
  <2>1. held[i] \in App
    OBVIOUS
  <2> QED
    BY <2>1 DEF App
<1>2. DOMAIN held = 1..Len(held) /\ Len(held) \in Nat
  OBVIOUS
<1>3. /\ next = [i \in DOMAIN held |-> [held[i] EXCEPT !.shared = shared]]
      /\ DOMAIN next = 1..Len(held)
  BY <1>2 DEF Sharing
<1>4. \A i \in DOMAIN next : next[i] \in App /\ next[i].shared = shared
  BY <1>1, <1>2, <1>3
<1> HIDE DEF next
<1>5. next \in [1..Len(held) -> App]
  BY <1>3, <1>4
<1>6. next \in Seq(App) /\ Len(next) = Len(held)
  BY <1>2, <1>3, <1>5
<1>7. held # <<>> => next # <<>>
  BY <1>6
<1> QED
  BY <1>4, <1>6, <1>7 DEF In, next

\* The apps of an account.
WithApps(m, a, held) == [m EXCEPT !.apps[a] = held]

LEMMA AppsAre ==
    ASSUME NEW m \in Memory, NEW a \in Accounts, NEW held \in Seq(App),
           NEW n, n = WithApps(m, a, held)
    PROVE  /\ n \in Memory /\ n.known = m.known /\ n.peers = m.peers /\ n.playing = m.playing
           /\ n.gap = m.gap /\ n.apps[a] = held
           /\ Current(m) => Current(n)
           /\ \A b \in Accounts \ {a} : Alike(m, n, b)
<1> DEFINE apps == [m.apps EXCEPT ![a] = held]
<1>1. apps \in [Accounts -> Seq(App)]
  BY Fields
<1>2. n = [m EXCEPT !.apps = apps]
  BY DEF Memory, WithApps
<1>3. apps[a] = held /\ \A b \in Accounts \ {a} : apps[b] = m.apps[b]
  BY Fields
<1> HIDE DEF apps
<1>4. /\ n \in Memory /\ n.known = m.known /\ n.peers = m.peers /\ n.playing = m.playing
      /\ n.gap = m.gap /\ n.apps = apps
  BY <1>1, <1>2 DEF Memory
<1>5. \A b \in Accounts \ {a} : Alike(m, n, b)
  BY <1>3, <1>4, AlikeSame DEF SamePeers
<1>6. Current(m) => Current(n)
  BY <1>4, ListOf DEF Current
<1> QED
  BY <1>3, <1>4, <1>5, <1>6

\* The apps of an account have changed, and who of it is gone is seen to.
LEMMA AppsWatchedGood ==
    ASSUME IInv, NEW a \in Accounts, UNCHANGED Stored,
           NEW held \in Seq(App), memory' \in Watch(WithApps(memory, a, held), a),
           \A b \in Accounts \ {a} : OpsKept(b),
           crossed \subseteq crossed', crossed' \subseteq Accounts,
           DOMAIN ops' = Ops, \A u \in Ops : Sensible(ops'[u]),
           a \notin crossed' /\ Uncrossed(a) =>
               /\ Apart(a)'
               /\ SettingApps(a)' \/ \A h \in In(held) : h.shared = sharing[a]
               /\ Saving(a) => Saving(a)'
               /\ Hiding(a) => Hiding(a)'
               /\ \A u \in OpsOf(a)' : \/ OpTrue(ops[u], a)'
                                       \/ /\ u \in OpsOf(a) /\ ops'[u] = ops[u]
                                          /\ Reads(ops[u]) /\ ops[u].at \in {"reading", "read"}
                                                 => Connected(memory', a)
    PROVE  IInv'
<1>1. PICK m : m = WithApps(memory, a, held)
  OBVIOUS
<1>2. /\ m \in Memory /\ m.known = memory.known /\ m.peers = memory.peers /\ m.apps[a] = held
      /\ Current(memory) => Current(m)
      /\ \A b \in Accounts \ {a} : Alike(memory, m, b)
  BY <1>1, AppsAre DEF IInv, TypeOK
<1>3. memory' \in Watch(m, a)
  BY <1>1
<1>4. memory'.apps[a] = held /\ (Connected(memory', a) <=> Connected(m, a))
  BY <1>2, <1>3, WatchShows
<1>5. ASSUME a \notin crossed', Uncrossed(a)
      PROVE  AppsTrue(a)'
  <2>1. AppsHeld(memory, a)' = In(held)
    BY <1>4 DEF AppsHeld, In
  <2>2. sharing'[a] = sharing[a]
    BY DEF Stored
  <2> QED
    BY <1>5, <2>1, <2>2 DEF AppsTrue
<1>6. ASSUME a \notin crossed', Uncrossed(a), NEW u \in OpsOf(a)'
      PROVE  \/ OpTrue(ops[u], a)'
             \/ /\ u \in OpsOf(a) /\ ops'[u] = ops[u]
                /\ Reads(ops[u]) /\ ops[u].at \in {"reading", "read"} => Connected(m, a)
  BY <1>4, <1>6
<1> QED
  BY <1>2, <1>3, <1>5, <1>6, WatchedGood

\* An app that is not heard any more.
LEMMA AppExpiresGood ==
    ASSUME IInv, NEW a \in Accounts, NEW app \in Apps, AppExpires(a, app)
    PROVE  IInv'
<1>1. PICK held : held = Without(memory.apps[a], app)
  OBVIOUS
<1>2. /\ memory' \in Watch(WithApps(memory, a, held), a)
      /\ Goes(a) /\ UNCHANGED ops /\ UNCHANGED Stored
  BY <1>1 DEF AppExpires, WithApps, IInv, TypeOK, Memory
<1>3. memory.apps[a] \in Seq(App)
  BY Fields DEF IInv, TypeOK
<1>4. held \in Seq(App) /\ In(held) \subseteq AppsHeld(memory, a)
  BY <1>1, <1>3, WithoutIs DEF In, AppsHeld
<1>5. /\ crossed \subseteq crossed' /\ crossed' \subseteq Accounts
      /\ DOMAIN ops' = Ops /\ \A u \in Ops : Sensible(ops'[u])
  BY <1>2 DEF Goes, IInv, TypeOK
<1>6. ASSUME a \notin crossed', NEW u \in OpsOf(a), Reads(ops[u]), ops[u].at \in {"reading", "read"}
      PROVE  Connected(memory', a)
  BY <1>2, <1>6 DEF Goes, Reads
<1>7. \A u \in OpsOf(a)' : u \in OpsOf(a) /\ ops'[u] = ops[u]
  BY <1>2 DEF OpsOf
<1>8. ASSUME a \notin crossed', Uncrossed(a)
      PROVE  /\ Apart(a)'
             /\ SettingApps(a)' \/ \A h \in In(held) : h.shared = sharing[a]
             /\ Saving(a) => Saving(a)'
             /\ Hiding(a) => Hiding(a)'
  BY <1>2, <1>4, <1>8, Unasked DEF Uncrossed, AppsTrue
<1> QED
  BY <1>2, <1>4, <1>5, <1>6, <1>7, <1>8, Unasked, AppsWatchedGood

\* takePlayback.
LEMMA TakeGood ==
    ASSUME IInv, NEW o \in Ops, Take(o)
    PROVE  IInv'
<1>1. ops[o].kind = "app" /\ Sensible(ops[o])
  BY KindIs DEF IInv, Take, At
<1>2. PICK a \in Accounts : a = ops[o].account
  BY <1>1, NotIdle DEF IInv
<1>3. PICK report \in AppReports : report = ops[o].what
  BY <1>1 DEF Sensible
<1>4. PICK saw : saw = ops[o].saw
  OBVIOUS
<1>5. ~report.stopped => ops[o].at = "found" /\ saw \in BOOLEAN
  BY <1>1, <1>3, <1>4 DEF Take, At, Sensible
<1>6. PICK held : held = Reported(memory.apps[a], report, saw)
  OBVIOUS
<1>7. /\ memory' \in Watch(WithApps(memory, a, held), a)
      /\ \/ Turns(o, "reading", None) /\ memory'.apps[a] # <<>>
         \/ Rests(o)
      /\ Goes(a) /\ UNCHANGED Stored
  BY <1>2, <1>3, <1>4, <1>6 DEF Take, Turns, Rests, WithApps, IInv, TypeOK, Memory
<1>8. memory.apps[a] \in Seq(App)
  BY Fields DEF IInv, TypeOK
<1>9. /\ held \in Seq(App)
      /\ \A h \in In(held) : h \in AppsHeld(memory, a) \/ (~report.stopped /\ h.shared = saw)
  <2>1. AppsHeld(memory, a) = In(memory.apps[a])
    BY DEF In, AppsHeld
  <2> QED
    BY <1>5, <1>6, <1>8, <2>1, ReportedIs
<1>10. crossed \subseteq crossed' /\ crossed' \subseteq Accounts
  BY <1>7 DEF Goes, IInv, TypeOK
<1>11. ASSUME Turns(o, "reading", None), memory'.apps[a] # <<>>
       PROVE  /\ DOMAIN ops' = Ops /\ \A u \in Ops : Sensible(ops'[u])
              /\ o \in OpsOf(a) /\ Moves(o, a) /\ (Apart(a) => Apart(a)')
              /\ OpTrue(ops[o], a)'
  <2>1. /\ o \in OpsOf(a) /\ Moves(o, a)
        /\ ops'[o].kind = "app" /\ ops'[o].at = "reading" /\ ops'[o].saw = None
        /\ ops'[o].what = report /\ ops'[o].account = a
        /\ ops'[o] = [kind |-> ops'[o].kind, at |-> ops'[o].at, account |-> ops'[o].account,
                      what |-> ops'[o].what, saw |-> ops'[o].saw]
        /\ Apart(a) => Apart(a)'
        /\ Sensible(ops'[o]) => DOMAIN ops' = Ops /\ \A u \in Ops : Sensible(ops'[u])
    BY <1>1, <1>2, <1>3, <1>11, TurnIs DEF IInv
  <2>2. Sensible(ops'[o])
    BY <2>1 DEF Sensible, Reads, Rewrites, Kinds
  <2>3. Connected(memory, a)'
    BY <1>11 DEF Connected
  <2>4. OpTrue(ops[o], a)'
    BY <2>1, <2>3 DEF OpTrue, ReadTrue, SaveTrue, SetTrue, Rewrites
  <2> QED
    BY <2>1, <2>2, <2>4
<1>12. ASSUME Rests(o)
       PROVE  /\ DOMAIN ops' = Ops /\ \A u \in Ops : Sensible(ops'[u])
              /\ o \in OpsOf(a) /\ Moves(o, a) /\ (Apart(a) => Apart(a)')
              /\ o \notin OpsOf(a)'
  BY <1>1, <1>2, <1>12, RestsIs DEF IInv
<1>13. /\ DOMAIN ops' = Ops /\ \A u \in Ops : Sensible(ops'[u])
       /\ o \in OpsOf(a) /\ Moves(o, a) /\ (Apart(a) => Apart(a)')
       /\ o \notin OpsOf(a)' \/ OpTrue(ops[o], a)'
  BY <1>7, <1>11, <1>12
<1>14. \A b \in Accounts \ {a} : OpsKept(b)
  BY <1>13, Elsewhere DEF OpsKept
<1>15. ASSUME a \notin crossed', NEW u \in OpsOf(a), Reads(ops[u]), ops[u].at \in {"reading", "read"}
       PROVE  Connected(memory', a)
  BY <1>7, <1>15 DEF Goes, Reads
<1>16. (Saving(a) => Saving(a)') /\ (Hiding(a) => Hiding(a)')
  BY <1>1, <1>13, StillBeing
<1>17. ASSUME Uncrossed(a)
       PROVE  \A h \in In(held) : h.shared = sharing[a]
  <2>1. ~SettingApps(a)
    BY <1>1, <1>13, <1>17, Beside DEF SettingApps, Uncrossed
  <2>2. \A h \in AppsHeld(memory, a) : h.shared = sharing[a]
    BY <1>17, <2>1 DEF Uncrossed, AppsTrue
  <2>3. ~report.stopped => saw = sharing[a]
    BY <1>1, <1>4, <1>5, <1>13, <1>17 DEF Uncrossed, OpTrue, SetTrue
  <2> QED
    BY <1>9, <2>2, <2>3
<1>18. ASSUME NEW u \in OpsOf(a)'
       PROVE  OpTrue(ops[u], a)' \/ (u \in OpsOf(a) /\ ops'[u] = ops[u])
  BY <1>13, <1>18, OpsAfter
<1> QED
  BY <1>7, <1>9, <1>10, <1>13, <1>14, <1>15, <1>16, <1>17, <1>18, AppsWatchedGood DEF Uncrossed

-----------------------------------------------------------------------------
(* What leaves an account shown as it is *)

LEMMA KeptGood ==
    ASSUME IInv, NEW a \in Accounts, UNCHANGED Stored,
           memory' \in Memory, Current(memory'),
           \A b \in Accounts \ {a} : Alike(memory, memory', b) /\ OpsKept(b),
           crossed \subseteq crossed', crossed' \subseteq Accounts,
           DOMAIN ops' = Ops, \A u \in Ops : Sensible(ops'[u]),
           memory'.known[a] = memory.known[a], memory'.playing[a] = memory.playing[a],
           Reports(memory', a) = Reports(memory, a),
           Connected(memory, a) => Connected(memory', a),
           a \notin crossed' /\ Uncrossed(a) =>
               /\ Apart(a)' /\ AppsTrue(a)'
               /\ Saving(a) => Saving(a)'
               /\ Hiding(a) => Hiding(a)'
               /\ \A u \in OpsOf(a)' : OpTrue(ops[u], a)' \/ (u \in OpsOf(a) /\ ops'[u] = ops[u])
    PROVE  IInv'
<1>1. Wanted(memory', a) /\ Heard(memory', a)
  BY DEF IInv, Good, Wanted, Heard
<1>2. ASSUME a \notin crossed'
      PROVE  Uncrossed(a)'
  <2>1. Uncrossed(a)
    BY <1>2 DEF IInv, Good
  <2>2. HeldTrue(a)'
    BY <1>2, <2>1 DEF Uncrossed, HeldTrue, Stored
  <2>3. Allowed(memory, a)' /\ (rows[a].shown = chosen[a])'
    BY <2>1 DEF Allowed, Uncrossed, Stored
  <2>4. ASSUME NEW u \in OpsOf(a)', u \in OpsOf(a), ops'[u] = ops[u]
        PROVE  OpTrue(ops[u], a)'
    <3>1. OpTrue(ops[u], a)
      BY <2>1, <2>4 DEF Uncrossed
    <3>2. Connected(memory, a) => Connected(memory, a)'
      BY DEF Connected, PeersOf
    <3>3. ReadTrue(ops[u], a)'
      BY <1>2, <2>1, <2>4, <3>1, <3>2 DEF OpTrue, ReadTrue, Stored
    <3> QED
      BY <2>4, <3>1, <3>3 DEF OpTrue, SaveTrue, SetTrue, Stored
  <2> QED
    BY <1>2, <2>1, <2>2, <2>3, <2>4 DEF Uncrossed
<1> QED
  BY <1>1, <1>2, MemoryGood

LEMMA AppsTrueKept ==
    ASSUME NEW a \in Accounts, UNCHANGED Stored, memory'.apps[a] = memory.apps[a],
           SettingApps(a) => SettingApps(a)', AppsTrue(a)
    PROVE  AppsTrue(a)'
BY DEF AppsTrue, AppsHeld, Stored

\* join: an account is connected, and plays nothing there yet.
LEMMA OpenGood ==
    ASSUME IInv, NEW o \in Ops, NEW p \in Peers, NEW a \in Accounts, Open(o, p, a)
    PROVE  IInv'
<1>0. memory \in Memory /\ crossed \subseteq Accounts /\ memory.peers[p] = None
  BY DEF IInv, TypeOK, Open
<1> DEFINE new == [account |-> a, song |-> None, told |-> None]
<1>1. new \in Peer /\ new # None /\ new.account = a /\ new.song = None /\ new.told = None
  BY NoneAssumption DEF Peer
<1>2. PICK peer \in Peer : peer = new
  BY <1>1
<1>3. PICK m : m = WithPeer(memory, p, peer)
  OBVIOUS
<1>4. /\ UNCHANGED Stored
      /\ \/ memory' = Tell(m, p) /\ UNCHANGED <<ops, crossed>>
         \/ memory' = m /\ Begins(o, Op("arrive", "reading", a, p))
  BY <1>2, <1>3 DEF Open, WithPeer
<1>5. peer # None /\ peer.account = a /\ peer.song = None /\ peer.told = None
  BY <1>1, <1>2
<1> HIDE DEF new
<1>6. /\ m \in Memory /\ m.known = memory.known /\ m.apps = memory.apps /\ m.playing = memory.playing
      /\ m.gap = memory.gap
      /\ m.peers[p] = peer /\ \A q \in Peers \ {p} : m.peers[q] = memory.peers[q]
  BY <1>0, <1>3, PeerIs
<1>7. Current(m)
  BY <1>0, <1>5, <1>6, PeerCurrent DEF IInv
<1>8. /\ memory' \in Memory /\ Current(memory') /\ SameButTold(m, memory')
  <2>1. CASE memory' = Tell(m, p)
    BY <1>5, <1>6, <1>7, <2>1, TellTells
  <2>2. CASE memory' = m
    BY <1>6, <1>7, <2>2 DEF SameButTold, SamePeers
  <2> QED
    BY <1>4, <2>1, <2>2
<1>9. ASSUME NEW b \in Accounts \ {a}
      PROVE  Alike(memory, memory', b)
  <2>1. Alike(memory, m, b)
    BY <1>0, <1>5, <1>6, PeerAlike
  <2>2. Alike(m, memory', b)
    BY <1>8, AlikeSame DEF SameButTold
  <2> QED
    BY <2>1, <2>2, AlikeTwice
<1>10. Reports(memory', a) = Reports(memory, a) /\ Connected(memory', a)
  <2>1. \A q \in Peers \ {p} : q \in PeersOf(m, a) <=> q \in PeersOf(memory, a)
    BY <1>6 DEF PeersOf
  <2>2. p \in PeersOf(m, a) /\ p \notin PeersOf(memory, a)
    BY <1>0, <1>5, <1>6 DEF PeersOf
  <2>3. {q \in PeersOf(m, a) : m.peers[q].song # None} = {q \in PeersOf(memory, a) : memory.peers[q].song # None}
    BY <1>5, <1>6, <2>1, <2>2 DEF PeersOf
  <2>4. \A q \in PeersOf(memory, a) : m.peers[q].song = memory.peers[q].song
    BY <1>6, <2>2 DEF PeersOf
  <2>5. OnPeers(m, a) = OnPeers(memory, a)
    BY <2>3, <2>4 DEF OnPeers
  <2>6. InApps(m, a) = InApps(memory, a) /\ Connected(m, a)
    BY <1>6, <2>2 DEF InApps, AppsHeld, Connected
  <2> QED
    BY <1>8, <2>5, <2>6, SameReports DEF Reports, SameButTold
<1>11. /\ memory'.known[a] = memory.known[a] /\ memory'.playing[a] = memory.playing[a]
       /\ memory'.apps[a] = memory.apps[a]
  BY <1>6, <1>8 DEF SameButTold
<1>12. CASE UNCHANGED <<ops, crossed>>
  <2>1. /\ crossed \subseteq crossed' /\ crossed' \subseteq Accounts
        /\ DOMAIN ops' = Ops /\ \A u \in Ops : Sensible(ops'[u])
        /\ \A u \in OpsOf(a)' : u \in OpsOf(a) /\ ops'[u] = ops[u]
    BY <1>0, <1>12 DEF IInv, TypeOK, OpsOf
  <2>2. Uncrossed(a) => /\ Apart(a)' /\ AppsTrue(a)'
                        /\ Saving(a) => Saving(a)'
                        /\ Hiding(a) => Hiding(a)'
    BY <1>4, <1>11, <1>12, Unasked, AppsTrueKept DEF Uncrossed
  <2> QED
    BY <1>4, <1>8, <1>9, <1>10, <1>11, <1>12, <2>1, <2>2, Unasked, KeptGood
<1>13. CASE Begins(o, Op("arrive", "reading", a, p))
  <2>1. Sensible(Op("arrive", "reading", a, p))
    BY DEF Sensible, Op, Reads, Rewrites, Kinds
  <2>2. /\ Moves(o, a) /\ crossed \subseteq crossed' /\ crossed' \subseteq Accounts
        /\ DOMAIN ops' = Ops /\ \A u \in Ops : Sensible(ops'[u])
        /\ ops'[o] = Op("arrive", "reading", a, p)
        /\ Saving(a) => Saving(a)'
        /\ Hiding(a) => Hiding(a)'
        /\ SettingApps(a) => SettingApps(a)'
        /\ a \notin crossed' /\ Apart(a) => Apart(a)'
    BY <1>13, <2>1, BeginsIs DEF IInv, Kinds
  <2>3. \A b \in Accounts \ {a} : OpsKept(b)
    BY <2>2, Elsewhere DEF OpsKept
  <2>4. OpTrue(ops[o], a)'
    <3>1. ops'[o].kind = "arrive" /\ ops'[o].at = "reading"
      BY <2>2 DEF Op
    <3>2. Connected(memory, a)'
      BY <1>10 DEF Connected, PeersOf
    <3> QED
      BY <3>1, <3>2 DEF OpTrue, ReadTrue, SaveTrue, SetTrue, Rewrites
  <2>5. \A u \in OpsOf(a)' : OpTrue(ops[u], a)' \/ (u \in OpsOf(a) /\ ops'[u] = ops[u])
    BY <2>2, <2>4, OpsAfter
  <2>6. Uncrossed(a) => AppsTrue(a)'
    BY <1>4, <1>11, <2>2, AppsTrueKept DEF Uncrossed
  <2> QED
    BY <1>4, <1>8, <1>9, <1>10, <1>11, <2>2, <2>3, <2>5, <2>6, KeptGood DEF Uncrossed
<1> QED
  BY <1>4, <1>12, <1>13

\* The end of the gap: what changed within it is sent.
LEMMA GapEndsGood ==
    ASSUME IInv, GapEnds
    PROVE  IInv'
<1>0. memory \in Memory /\ memory.gap # "none" /\ Current(memory)
  BY DEF IInv, TypeOK, GapEnds
<1>1. PICK m : m = [memory EXCEPT !.gap = "none"]
  OBVIOUS
<1>2. /\ m \in Memory /\ m.known = memory.known /\ m.apps = memory.apps /\ m.playing = memory.playing
      /\ m.gap = "none" /\ m.peers = memory.peers
  BY <1>0, <1>1 DEF Memory
<1>3. memory' = IF memory.gap = "again" THEN Publish(m) ELSE m
  BY <1>1 DEF GapEnds
<1>4. memory' \in Memory /\ Current(memory') /\ SameButTold(m, memory')
  <2>1. CASE memory.gap = "again"
    BY <1>2, <1>3, <2>1, PublishTells
  <2>2. CASE memory.gap # "again"
    <3>1. Current(m)
      BY <1>0, <1>2, <2>2, ListOf DEF Current
    <3> QED
      BY <1>2, <1>3, <2>2, <3>1 DEF SameButTold, SamePeers
  <2> QED
    BY <2>1, <2>2
<1>5. SamePeers(memory, memory')
  BY <1>2, <1>4 DEF SameButTold, SamePeers
<1>6. UNCHANGED <<ops, made, crossed>> /\ UNCHANGED Stored
  BY DEF GapEnds
<1>7. TypeOK'
  BY <1>4, <1>6 DEF IInv, TypeOK, Stored
<1>8. ASSUME NEW b \in Accounts
      PROVE  Good(b)'
  <2>1. Alike(memory, memory', b)
    BY <1>2, <1>4, <1>5, AlikeSame DEF SameButTold
  <2>2. Untouched(b)
    BY <1>6, <2>1, Unasked DEF Untouched, OpsKept, Stored
  <2> QED
    BY <2>2, UntouchedGood DEF IInv
<1>9. Current(memory)'
  BY <1>4 DEF Current, ListFor
<1> QED
  BY <1>7, <1>8, <1>9 DEF IInv

-----------------------------------------------------------------------------
(* What is put in place *)

\* A profile that was read is held, unless a newer one is.
LEMMA PutGood ==
    ASSUME IInv, NEW o \in Ops, NEW a \in Accounts, a = ops[o].account,
           Reads(ops[o]), ops[o].at = "read", Ends(o), UNCHANGED Stored,
           memory' \in Memory, Current(memory'), memory'.apps[a] = memory.apps[a],
           \A b \in Accounts \ {a} : Alike(memory, memory', b),
           Connected(memory', a) <=> Connected(memory, a),
           \/ memory'.known[a] = memory.known[a]
           \/ memory.known[a] = None /\ memory'.known[a] = ops[o].saw /\ Connected(memory, a),
           Heard(memory', a), Uncrossed(a) => Allowed(memory', a)
    PROVE  IInv'
<1>1. /\ o \in OpsOf(a) /\ Moves(o, a) /\ UNCHANGED <<made, crossed>>
      /\ DOMAIN ops' = Ops /\ \A u \in Ops : Sensible(ops'[u])
      /\ o \notin OpsOf(a)' /\ OpsOf(a)' = OpsOf(a) \ {o}
      /\ \A u \in OpsOf(a) \ {o} : ops'[u] = ops[u]
      /\ Apart(a) => Apart(a)'
  BY EndsIs DEF IInv, Reads
<1>2. /\ Saving(a) => Saving(a)'
      /\ Hiding(a) => Hiding(a)'
      /\ SettingApps(a) => SettingApps(a)'
  BY <1>1, StillBeing DEF Reads
<1>3. \A b \in Accounts \ {a} : OpsKept(b)
  BY <1>1, Elsewhere DEF OpsKept
<1>4. Wanted(memory', a)
  BY DEF IInv, Good, Wanted
<1>5. ASSUME a \notin crossed'
      PROVE  Uncrossed(a)'
  <2>1. Uncrossed(a)
    BY <1>1, <1>5 DEF IInv, Good
  <2>2. OpTrue(ops[o], a)
    BY <1>1, <2>1 DEF Uncrossed
  <2>3. HeldTrue(a)'
    BY <1>2, <2>1, <2>2 DEF Uncrossed, HeldTrue, OpTrue, ReadTrue, Stored
  <2>4. Allowed(memory, a)' /\ (rows[a].shown = chosen[a])'
    BY <2>1 DEF Allowed, Uncrossed, Stored
  <2>5. AppsTrue(a)'
    BY <1>2, <2>1, AppsTrueKept DEF Uncrossed
  <2>6. ASSUME NEW u \in OpsOf(a)'
        PROVE  OpTrue(ops[u], a)'
    <3>1. u \in OpsOf(a) /\ ops'[u] = ops[u] /\ OpTrue(ops[u], a)
      BY <1>1, <2>1, <2>6 DEF Uncrossed
    <3>2. Connected(memory, a)' <=> Connected(memory, a)
      BY DEF Connected, PeersOf
    <3>3. ReadTrue(ops[u], a)'
      BY <1>2, <3>1, <3>2 DEF OpTrue, ReadTrue, Stored
    <3> QED
      BY <3>1, <3>3 DEF OpTrue, SaveTrue, SetTrue, Stored
  <2> QED
    BY <1>1, <2>1, <2>3, <2>4, <2>5, <2>6 DEF Uncrossed
<1>6. crossed \subseteq crossed' /\ crossed' \subseteq Accounts
  BY <1>1 DEF IInv, TypeOK
<1> QED
  BY <1>1, <1>3, <1>4, <1>5, <1>6, MemoryGood

LEMMA ArrivedIs ==
    ASSUME NEW m \in Memory, NEW a \in Accounts, NEW profile \in Profile
    PROVE  LET k == Arrived(m, a, profile) IN
           /\ k \in Memory /\ k.playing = m.playing /\ k.apps = m.apps /\ k.peers = m.peers
           /\ \A b \in Accounts \ {a} : k.known[b] = m.known[b]
           /\ k.known[a] = IF m.known[a] = None THEN profile ELSE m.known[a]
           /\ Current(m) => Current(k)
<1>1. CASE m.known[a] = None
  <2>1. Arrived(m, a, profile) = [m EXCEPT !.known[a] = profile]
    BY <1>1 DEF Arrived
  <2> QED
    BY <1>1, <2>1, KnownIs
<1>2. CASE m.known[a] # None
  BY <1>2 DEF Arrived
<1> QED
  BY <1>1, <1>2

\* arrived, its profile read.
LEMMA ArrivesGood ==
    ASSUME IInv, NEW o \in Ops, Arrives(o)
    PROVE  IInv'
<1>1. ops[o].kind = "arrive" /\ ops[o].at = "read" /\ Sensible(ops[o])
  BY KindIs DEF IInv, Arrives, At
<1>2. PICK a \in Accounts : a = ops[o].account
  BY <1>1, NotIdle DEF IInv
<1>3. PICK p \in Peers : p = ops[o].what
  BY <1>1 DEF Sensible
<1>4. PICK saw \in Profile : saw = ops[o].saw
  BY <1>1 DEF Sensible, Reads
<1>5. PICK m : m = Arrived(memory, a, saw)
  OBVIOUS
<1>6. /\ memory' = IF PeersOf(memory, a) = {} THEN memory
                   ELSE IF memory.peers[p] = None THEN m ELSE Tell(m, p)
      /\ Ends(o) /\ UNCHANGED Stored
  BY <1>2, <1>3, <1>4, <1>5 DEF Arrives
<1>7. memory \in Memory /\ Current(memory) /\ Good(a)
  BY DEF IInv, TypeOK
<1>8. /\ m \in Memory /\ m.playing = memory.playing /\ m.apps = memory.apps /\ m.peers = memory.peers
      /\ \A b \in Accounts \ {a} : m.known[b] = memory.known[b]
      /\ m.known[a] = IF memory.known[a] = None THEN saw ELSE memory.known[a]
      /\ Current(m)
  BY <1>5, <1>7, ArrivedIs
<1>9. CASE PeersOf(memory, a) = {}
  <2>1. memory' = memory
    BY <1>6, <1>9
  <2> QED
    BY <1>1, <1>2, <1>6, <1>7, <2>1, PutGood DEF Alike, Good, Uncrossed, Reads
<1>10. CASE PeersOf(memory, a) # {}
  <2>1. memory' \in Memory /\ Current(memory') /\ SameButTold(m, memory')
    <3>1. CASE memory.peers[p] = None
      BY <1>6, <1>8, <1>10, <3>1 DEF SameButTold, SamePeers
    <3>2. CASE memory.peers[p] # None
      BY <1>6, <1>8, <1>10, <3>2, TellTells
    <3> QED
      BY <3>1, <3>2
  <2>2. /\ memory'.known = m.known /\ memory'.apps = memory.apps /\ memory'.playing = memory.playing
        /\ SamePeers(memory, memory')
    BY <1>8, <2>1 DEF SameButTold, SamePeers
  <2>3. /\ Connected(memory', a) <=> Connected(memory, a)
        /\ Reports(memory', a) = Reports(memory, a)
    BY <2>2, SameReports
  <2>4. \A b \in Accounts \ {a} : Alike(memory, memory', b)
    BY <1>8, <2>2, AlikeSame
  <2>5. \/ memory'.known[a] = memory.known[a]
        \/ memory.known[a] = None /\ memory'.known[a] = ops[o].saw /\ Connected(memory, a)
    BY <1>4, <1>8, <1>10, <2>2 DEF Connected
  <2>6. Heard(memory', a) /\ (Uncrossed(a) => Allowed(memory', a))
    BY <1>7, <1>8, <2>2, <2>3 DEF Heard, Allowed, Good, Uncrossed
  <2> QED
    BY <1>1, <1>2, <1>6, <2>1, <2>2, <2>3, <2>4, <2>5, <2>6, PutGood DEF Reads
<1> QED
  BY <1>9, <1>10

\* appChanged, its profile read.
LEMMA AppChangedGood ==
    ASSUME IInv, NEW o \in Ops, AppChanged(o)
    PROVE  IInv'
<1>1. ops[o].kind = "app" /\ ops[o].at = "read" /\ Sensible(ops[o])
  BY KindIs DEF IInv, AppChanged, At
<1>2. PICK a \in Accounts : a = ops[o].account
  BY <1>1, NotIdle DEF IInv
<1>3. PICK saw \in Profile : saw = ops[o].saw
  BY <1>1 DEF Sensible, Reads
<1>4. PICK m : m = IF memory.apps[a] # <<>> THEN Arrived(memory, a, saw) ELSE memory
  OBVIOUS
<1>5. memory' \in Refresh(m, a) /\ Ends(o) /\ UNCHANGED Stored
  BY <1>2, <1>3, <1>4 DEF AppChanged
<1>6. memory \in Memory /\ Current(memory)
  BY DEF IInv, TypeOK
<1>7. /\ m \in Memory /\ m.playing = memory.playing /\ m.apps = memory.apps /\ m.peers = memory.peers
      /\ \A b \in Accounts \ {a} : m.known[b] = memory.known[b]
      /\ \/ m.known[a] = memory.known[a]
         \/ memory.known[a] = None /\ m.known[a] = saw /\ memory.apps[a] # <<>>
      /\ Current(m)
  BY <1>4, <1>6, ArrivedIs
<1>8. /\ memory' \in Memory /\ Reshown(m, memory', a) /\ Allowed(memory', a) /\ Heard(memory', a)
      /\ Current(memory')
  BY <1>5, <1>7, RefreshShows
<1>9. /\ memory'.known = m.known /\ memory'.apps = memory.apps /\ SamePeers(memory, memory')
      /\ \A b \in Accounts \ {a} : memory'.playing[b] = memory.playing[b]
  BY <1>7, <1>8 DEF Reshown, SamePeers
<1>10. Connected(memory', a) <=> Connected(memory, a)
  BY <1>9, SameReports
<1>11. \A b \in Accounts \ {a} : Alike(memory, memory', b)
  BY <1>7, <1>9, AlikeSame
<1>12. \/ memory'.known[a] = memory.known[a]
       \/ memory.known[a] = None /\ memory'.known[a] = ops[o].saw /\ Connected(memory, a)
  BY <1>3, <1>7, <1>9 DEF Connected
<1> QED
  BY <1>1, <1>2, <1>5, <1>8, <1>9, <1>10, <1>11, <1>12, PutGood DEF Reads

\* changed: what was saved is held, where anything is.
LEMMA ChangedGood ==
    ASSUME IInv, NEW o \in Ops, Changed(o)
    PROVE  IInv'
<1>1. ops[o].kind = "save" /\ ops[o].at = "reread" /\ Sensible(ops[o])
  BY KindIs DEF IInv, Changed, At
<1>2. PICK a \in Accounts : a = ops[o].account
  BY <1>1, NotIdle DEF IInv
<1>3. PICK saw \in Profile : saw = ops[o].saw
  BY <1>1 DEF Sensible
<1>4. PICK m : m = IF Connected(memory, a) THEN [memory EXCEPT !.known[a] = saw] ELSE memory
  OBVIOUS
<1>5. /\ \E e \in Shown(m, a) : memory' = Publish([m EXCEPT !.playing[a] = e])
      /\ Ends(o) /\ UNCHANGED Stored
  BY <1>2, <1>3, <1>4 DEF Changed
<1>6. memory \in Memory /\ Good(a)
  BY DEF IInv, TypeOK
<1>7. /\ m \in Memory /\ m.playing = memory.playing /\ m.apps = memory.apps /\ m.peers = memory.peers
      /\ \A b \in Accounts \ {a} : m.known[b] = memory.known[b]
      /\ m.known[a] = IF Connected(memory, a) THEN saw ELSE memory.known[a]
  BY <1>4, <1>6, KnownIs
<1>8. /\ memory' \in Memory /\ Reshown(m, memory', a) /\ Allowed(memory', a) /\ Heard(memory', a)
      /\ Current(memory')
  BY <1>5, <1>7, PublishShows
<1>9. /\ memory'.known = m.known /\ memory'.apps = memory.apps /\ SamePeers(memory, memory')
      /\ \A b \in Accounts \ {a} : memory'.playing[b] = memory.playing[b]
  BY <1>7, <1>8 DEF Reshown, SamePeers
<1>10. Connected(memory', a) <=> Connected(memory, a)
  BY <1>9, SameReports
<1>11. \A b \in Accounts \ {a} : Alike(memory, memory', b)
  BY <1>7, <1>9, AlikeSame
<1>12. /\ o \in OpsOf(a) /\ Moves(o, a) /\ UNCHANGED <<made, crossed>>
       /\ DOMAIN ops' = Ops /\ \A u \in Ops : Sensible(ops'[u])
       /\ o \notin OpsOf(a)' /\ OpsOf(a)' = OpsOf(a) \ {o}
       /\ \A u \in OpsOf(a) \ {o} : ops'[u] = ops[u]
       /\ Apart(a) => Apart(a)'
  BY <1>1, <1>2, <1>5, EndsIs DEF IInv
<1>13. memory'.known[a] = IF Connected(memory, a) THEN saw ELSE None
  BY <1>6, <1>7, <1>9 DEF Good, Wanted
<1>14. saw # None
  BY <1>3, NoneAssumption
<1>15. Wanted(memory', a)
  BY <1>10, <1>13 DEF Wanted
<1>16. ASSUME a \notin crossed'
       PROVE  Uncrossed(a)'
  <2>1. Uncrossed(a)
    BY <1>6, <1>12, <1>16 DEF Good
  <2>2. saw = rows[a]
    BY <1>1, <1>3, <1>12, <2>1 DEF Uncrossed, OpTrue, SaveTrue
  <2>3. HeldTrue(a)'
    BY <1>5, <1>13, <2>2 DEF HeldTrue, Stored
  <2>4. Allowed(memory, a)' /\ (rows[a].shown = chosen[a])'
    BY <1>5, <1>8, <2>1 DEF Allowed, Uncrossed, Stored
  <2>5. SettingApps(a) => SettingApps(a)'
    BY <1>1, <1>12, StillBeing
  <2>6. AppsTrue(a)'
    BY <1>5, <1>9, <2>1, <2>5, AppsTrueKept DEF Uncrossed
  <2>7. ASSUME NEW u \in OpsOf(a)'
        PROVE  OpTrue(ops[u], a)'
    <3>1. u \in OpsOf(a) /\ ops'[u] = ops[u] /\ OpTrue(ops[u], a)
      BY <1>12, <2>1, <2>7 DEF Uncrossed
    <3>2. Connected(memory, a)' <=> Connected(memory, a)
      BY <1>10 DEF Connected, PeersOf
    <3>3. ReadTrue(ops[u], a)'
      BY <1>13, <1>14, <3>1, <3>2 DEF OpTrue, ReadTrue
    <3> QED
      BY <1>5, <3>1, <3>3 DEF OpTrue, SaveTrue, SetTrue, Stored
  <2> QED
    BY <1>12, <2>1, <2>3, <2>4, <2>6, <2>7 DEF Uncrossed
<1>17. crossed \subseteq crossed' /\ crossed' \subseteq Accounts
  BY <1>12 DEF IInv, TypeOK
<1>18. \A b \in Accounts \ {a} : OpsKept(b)
  BY <1>12, Elsewhere DEF OpsKept
<1> QED
  BY <1>5, <1>8, <1>11, <1>12, <1>15, <1>16, <1>17, <1>18, MemoryGood

\* hideProfile, done: nothing is held of the account; what it was shown as
\* stays, which is named as a crossing.
LEMMA HiddenGood ==
    ASSUME IInv, NEW o \in Ops, Hidden(o)
    PROVE  IInv'
<1>1. ops[o].kind = "hide" /\ ops[o].at = "hidden"
  BY DEF Hidden, At
<1>2. PICK a \in Accounts : a = ops[o].account
  BY <1>1, NotIdle DEF IInv
<1>3. /\ memory' = [memory EXCEPT !.known[a] = None] /\ Rests(o) /\ UNCHANGED Stored
      /\ crossed' = IF memory.playing[a] # None THEN crossed \cup {a} ELSE crossed
  BY <1>2 DEF Hidden, Rests
<1>4. memory \in Memory /\ Current(memory) /\ Good(a) /\ crossed \subseteq Accounts
  BY DEF IInv, TypeOK
<1>5. /\ memory' \in Memory /\ memory'.playing = memory.playing /\ memory'.apps = memory.apps
      /\ memory'.peers = memory.peers /\ memory'.known[a] = None
      /\ \A b \in Accounts \ {a} : memory'.known[b] = memory.known[b]
      /\ Current(memory')
  BY <1>3, <1>4, KnownIs
<1>6. SamePeers(memory, memory')
  BY <1>5 DEF SamePeers
<1>7. \A b \in Accounts \ {a} : Alike(memory, memory', b)
  BY <1>5, <1>6, AlikeSame
<1>8. Reports(memory', a) = Reports(memory, a)
  BY <1>5, <1>6, SameReports
<1>9. Wanted(memory', a) /\ Heard(memory', a)
  BY <1>4, <1>5, <1>8 DEF Good, Wanted, Heard
<1>10. /\ o \in OpsOf(a) /\ Moves(o, a)
       /\ DOMAIN ops' = Ops /\ \A u \in Ops : Sensible(ops'[u])
       /\ o \notin OpsOf(a)' /\ OpsOf(a)' = OpsOf(a) \ {o}
       /\ \A u \in OpsOf(a) \ {o} : ops'[u] = ops[u]
       /\ Apart(a) => Apart(a)'
  BY <1>1, <1>2, <1>3, RestsIs DEF IInv
<1>11. ASSUME a \notin crossed'
       PROVE  Uncrossed(a)'
  <2>1. Uncrossed(a) /\ memory.playing[a] = None
    BY <1>3, <1>4, <1>11 DEF Good
  <2>2. Allowed(memory, a)' /\ HeldTrue(a)' /\ (rows[a].shown = chosen[a])'
    BY <1>3, <1>5, <2>1 DEF Allowed, HeldTrue, Uncrossed, Stored
  <2>3. SettingApps(a) => SettingApps(a)'
    BY <1>1, <1>10, StillBeing
  <2>4. AppsTrue(a)'
    BY <1>3, <1>5, <2>1, <2>3, AppsTrueKept DEF Uncrossed
  <2>5. ASSUME NEW u \in OpsOf(a)'
        PROVE  OpTrue(ops[u], a)'
    <3>1. u \in OpsOf(a) /\ u # o /\ ops'[u] = ops[u] /\ OpTrue(ops[u], a)
      BY <1>10, <2>1, <2>5 DEF Uncrossed
    <3>2. ~Reads(ops[u])
      BY <1>1, <1>10, <2>1, <3>1, Beside DEF Uncrossed
    <3> QED
      BY <1>3, <3>1, <3>2 DEF OpTrue, ReadTrue, SaveTrue, SetTrue, Stored
  <2> QED
    BY <1>10, <2>1, <2>2, <2>4, <2>5 DEF Uncrossed
<1>12. crossed \subseteq crossed' /\ crossed' \subseteq Accounts
  BY <1>3, <1>4
<1>13. \A b \in Accounts \ {a} : OpsKept(b)
  BY <1>10, Elsewhere DEF OpsKept
<1> QED
  BY <1>3, <1>5, <1>7, <1>9, <1>10, <1>11, <1>12, <1>13, MemoryGood

\* shareApps: the apps held are as the setting that was saved.
LEMMA ShareAppsGood ==
    ASSUME IInv, NEW o \in Ops, ShareApps(o)
    PROVE  IInv'
<1>1. ops[o].kind = "set" /\ ops[o].at = "written" /\ Sensible(ops[o])
  BY KindIs DEF IInv, ShareApps, At
<1>2. PICK a \in Accounts : a = ops[o].account
  BY <1>1, NotIdle DEF IInv
<1>3. PICK shared \in BOOLEAN : shared = ops[o].what
  BY <1>1 DEF Sensible
<1>4. PICK held : held = Sharing(memory.apps[a], shared)
  OBVIOUS
<1>5. /\ \/ memory.apps[a] = <<>> /\ memory' = memory
         \/ memory.apps[a] # <<>> /\ memory' \in Watch(WithApps(memory, a, held), a)
      /\ Ends(o) /\ UNCHANGED Stored
  BY <1>2, <1>3, <1>4 DEF ShareApps, WithApps, IInv, TypeOK, Memory
<1>6. memory \in Memory /\ Current(memory) /\ Good(a) /\ crossed \subseteq Accounts
  BY DEF IInv, TypeOK
<1>7. /\ o \in OpsOf(a) /\ Moves(o, a) /\ UNCHANGED <<made, crossed>>
      /\ DOMAIN ops' = Ops /\ \A u \in Ops : Sensible(ops'[u])
      /\ o \notin OpsOf(a)' /\ OpsOf(a)' = OpsOf(a) \ {o}
      /\ \A u \in OpsOf(a) \ {o} : ops'[u] = ops[u]
      /\ Apart(a) => Apart(a)'
  BY <1>1, <1>2, <1>5, EndsIs DEF IInv
<1>8. (Saving(a) => Saving(a)') /\ (Hiding(a) => Hiding(a)')
  BY <1>1, <1>7, StillBeing
<1>9. \A b \in Accounts \ {a} : OpsKept(b)
  BY <1>7, Elsewhere DEF OpsKept
<1>10. \A u \in OpsOf(a)' : u \in OpsOf(a) /\ ops'[u] = ops[u]
  BY <1>7
<1>11. CASE memory.apps[a] = <<>> /\ memory' = memory
  <2>1. AppsHeld(memory, a)' = {}
    BY <1>11 DEF AppsHeld
  <2>2. AppsTrue(a)'
    BY <2>1 DEF AppsTrue
  <2>3. \A b \in Accounts : Alike(memory, memory', b)
    BY <1>11 DEF Alike
  <2> QED
    BY <1>5, <1>6, <1>7, <1>8, <1>9, <1>10, <1>11, <2>2, <2>3, KeptGood DEF Uncrossed
<1>12. CASE memory.apps[a] # <<>> /\ memory' \in Watch(WithApps(memory, a, held), a)
  <2>1. memory.apps[a] \in Seq(App)
    BY <1>6, Fields
  <2>2. held \in Seq(App) /\ held # <<>> /\ \A h \in In(held) : h.shared = shared
    BY <1>4, <1>12, <2>1, SharingIs
  <2>3. Uncrossed(a) => shared = sharing[a]
    BY <1>1, <1>3, <1>7 DEF Uncrossed, OpTrue, SetTrue
  <2>4. Connected(memory', a)
    <3>1. PICK m : m = WithApps(memory, a, held)
      OBVIOUS
    <3>2. m \in Memory /\ m.apps[a] = held
      BY <1>6, <2>2, <3>1, AppsAre
    <3>3. memory'.apps[a] = held
      BY <1>12, <3>1, <3>2, WatchShows
    <3> QED
      BY <2>2, <3>3 DEF Connected
  <2> QED
    BY <1>5, <1>7, <1>8, <1>9, <1>10, <1>12, <2>2, <2>3, <2>4, <1>6, AppsWatchedGood DEF Uncrossed
<1> QED
  BY <1>5, <1>11, <1>12

-----------------------------------------------------------------------------
(* The theorems *)

LEMMA InitGood == Init => IInv
<1> SUFFICES ASSUME Init PROVE IInv
  OBVIOUS
<1>1. NoProfile \in Profile
  <2>1. (CHOOSE n \in Names : TRUE) \in Names
    BY ListeningAssumption
  <2> QED
    BY <2>1 DEF NoProfile, Profile
<1>2. chosen \in [Accounts -> BOOLEAN] /\ sharing \in [Accounts -> BOOLEAN]
  BY DEF Init
<1>3. rows \in [Accounts -> Profile] /\ \A a \in Accounts : rows[a].shown = chosen[a]
  <2>1. ASSUME NEW a \in Accounts
        PROVE  [NoProfile EXCEPT !.shown = chosen[a]] \in Profile
               /\ [NoProfile EXCEPT !.shown = chosen[a]].shown = chosen[a]
    BY <1>1, <1>2 DEF Profile
  <2>2. rows = [a \in Accounts |-> [NoProfile EXCEPT !.shown = chosen[a]]]
    BY DEF Init
  <2> QED
    BY <2>1, <2>2
<1>4. /\ memory.known = [a \in Accounts |-> None] /\ memory.peers = [p \in Peers |-> None]
      /\ memory.apps = [a \in Accounts |-> <<>>] /\ memory.playing = [a \in Accounts |-> None]
      /\ memory.gap = "none"
      /\ memory = [known |-> memory.known, peers |-> memory.peers, apps |-> memory.apps,
                   playing |-> memory.playing, gap |-> memory.gap]
  BY DEF Init
<1>5. memory \in Memory
  <2>1. <<>> \in Seq(App)
    OBVIOUS
  <2> QED
    BY <1>4, <2>1 DEF Memory
<1>6. DOMAIN ops = Ops /\ (\A o \in Ops : ops[o] = Idle) /\ crossed = {}
  BY DEF Init
<1>7. TypeOK
  BY <1>2, <1>3, <1>5, <1>6, IdleSensible DEF TypeOK
<1>8. Current(memory)
  BY <1>4 DEF Current
<1>9. ASSUME NEW a \in Accounts
      PROVE  Good(a)
  <2>1. OpsOf(a) = {}
    BY <1>6, <1>9, IdleSensible, ListeningAssumption DEF OpsOf
  <2>2. memory.known[a] = None /\ memory.playing[a] = None /\ AppsHeld(memory, a) = {}
    BY <1>4 DEF AppsHeld
  <2> QED
    BY <1>3, <2>1, <2>2 DEF Good, Wanted, Heard, Uncrossed, Apart, Allowed, HeldTrue, AppsTrue
<1> QED
  BY <1>7, <1>8, <1>9 DEF IInv

LEMMA StutterGood ==
    ASSUME IInv, UNCHANGED vars
    PROVE  IInv'
<1>1. UNCHANGED memory /\ UNCHANGED Stored /\ UNCHANGED <<ops, crossed>>
  BY DEF vars, Stored
<1>2. TypeOK'
  BY <1>1 DEF IInv, TypeOK, Stored
<1>3. Current(memory)'
  BY <1>1 DEF IInv, Current, ListFor
<1>4. ASSUME NEW a \in Accounts
      PROVE  Good(a)'
  <2>1. Untouched(a)
    BY <1>1, Unasked DEF Untouched, OpsKept, Alike, Stored, PeersOf, OnPeers
  <2> QED
    BY <2>1, UntouchedGood DEF IInv
<1> QED
  BY <1>2, <1>3, <1>4 DEF IInv

LEMMA Step == IInv /\ [Next]_vars => IInv'
<1> SUFFICES ASSUME IInv, [Next]_vars
             PROVE  IInv'
  OBVIOUS
<1>1. CASE Browsing
  BY <1>1, OpenGood, CloseGood, ReportGood DEF Browsing
<1>2. CASE Choosing
  BY <1>2, ChoosingGood
<1>3. CASE GoingOn
  BY <1>3, ReadProfileGood, ArrivesGood, NameTakenGood, WriteGood, ChangedGood, HideRowGood,
     HiddenGood, SettingGood, TakeGood, AppChangedGood, ReadSettingsGood, WriteSettingsGood,
     ShareAppsGood DEF GoingOn
<1>4. CASE GapEnds
  BY <1>4, GapEndsGood
<1>5. CASE \E a \in Accounts, app \in Apps : AppExpires(a, app)
  BY <1>5, AppExpiresGood
<1>6. CASE UNCHANGED vars
  BY <1>6, StutterGood
<1> QED
  BY <1>1, <1>2, <1>3, <1>4, <1>5, <1>6 DEF Next

LEMMA Inductive == Spec => []IInv
<1> QED
  BY InitGood, Step, PTL DEF Spec

\* What the process holds, what is stored and what each request knows have
\* their types, through every save, read, report, closing and expiry.
THEOREM TypeCorrect == Spec => []TypeOK
<1>1. IInv => TypeOK
  BY DEF IInv
<1> QED
  BY <1>1, Inductive, PTL

\* Every stream that was sent a list holds the one of now, once the gap between
\* two sendings is over: publish, tell and tellEveryone of listening.ts miss no
\* change, whichever report, save or closing made it.
THEOREM ListsAreCurrent == Spec => []ListsCurrent
<1>1. IInv => ListsCurrent
  BY DEF IInv, Current, ListsCurrent
<1> QED
  BY <1>1, Inductive, PTL

\* `known` holds a profile only for an account that is connected, and with
\* nothing under way it is the row of the database, unless changes crossed:
\* the save that came in while a stream or an app had it read is not undone.
THEOREM HeldIsTrue == Spec => []KnownTrue
<1>1. ASSUME IInv
      PROVE  KnownTrue
  <2> SUFFICES ASSUME NEW a \in Accounts, memory.known[a] # None
               PROVE  /\ Connected(memory, a)
                      /\ Quiet(a) => memory.known[a] = rows[a]
    BY DEF KnownTrue
  <2>1. Good(a)
    BY <1>1 DEF IInv
  <2>2. ASSUME Quiet(a)
        PROVE  memory.known[a] = rows[a]
    <3>1. HeldTrue(a) /\ OpsOf(a) = {}
      BY <2>1, <2>2 DEF Good, Quiet, Uncrossed
    <3> QED
      BY <3>1 DEF HeldTrue, Saving, Hiding
  <2> QED
    BY <2>1, <2>2 DEF Good, Wanted
<1> QED
  BY <1>1, Inductive, PTL

\* An account is shown only by its own last choice, and as playing what one of
\* its browsers plays, or one of its apps if it shares those, whatever passed
\* each other on the way, but for the crossings the module names.
THEOREM ShownIsChosen == Spec => []ShownByChoice
<1>1. ASSUME IInv
      PROVE  ShownByChoice
  <2> DEFINE inApps(a) == {h.song : h \in {x \in AppsHeld(memory, a) : sharing[a]}} \ {None}
             onPeers(a) == {r.song : r \in OnPeers(memory, a)}
  <2>1. ASSUME NEW a \in Accounts, memory.playing[a] # None, Quiet(a)
        PROVE  chosen[a] /\ memory.playing[a].song \in onPeers(a) \cup inApps(a)
    <3>1. Good(a) /\ Uncrossed(a) /\ OpsOf(a) = {}
      BY <1>1, <2>1 DEF IInv, Good, Quiet
    <3>2. ~Saving(a) /\ ~Hiding(a) /\ ~SettingApps(a)
      BY <3>1 DEF Saving, Hiding, SettingApps
    <3>3. chosen[a]
      BY <2>1, <3>1, <3>2 DEF Uncrossed, Allowed, HeldTrue
    <3>4. PICK r \in Reports(memory, a) : r.song = memory.playing[a].song
      BY <2>1, <3>1 DEF Good, Heard
    <3>5. CASE r \in OnPeers(memory, a)
      BY <3>3, <3>4, <3>5
    <3>6. CASE r \in InApps(memory, a)
      <4>1. PICK h \in AppsHeld(memory, a) : h.shared /\ h.song # None
                                             /\ r = [source |-> h.app, song |-> h.song]
        BY <3>6 DEF InApps
      <4>2. sharing[a]
        BY <3>1, <3>2, <4>1 DEF Uncrossed, AppsTrue
      <4> QED
        BY <3>3, <3>4, <4>1, <4>2
    <3> QED
      BY <3>4, <3>5, <3>6 DEF Reports
  <2> QED
    BY <2>1 DEF ShownByChoice
<1> QED
  BY <1>1, Inductive, PTL
=============================================================================
