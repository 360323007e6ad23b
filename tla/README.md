# A verification of Heddohon's shared state

Heddohon is a web player in front of a self-hosted music server (Subsonic,
Navidrome, Jellyfin): one Node process (SvelteKit), a database (SQLite or
PostgreSQL), and a browser application that plays. Paths below are relative to
the repository; the program is in `src/`.

The models here are about the parts where several actors change shared state
out of step: the queue of a *listen together* party, which lives half in the
server's memory and half in the host's browser; the membership of a party,
decided by requests that wait for things between their check and their effect;
the sessions of an account, remembered in memory while sign-outs and sign-ins
change the rows; the sign-in itself, with its throttle and second factor; the
player, where presses, timers, fades and the events of two audio elements meet;
the transcodes the server holds and shares; what accounts are shown of each
other's listening; the history of what was played, which hears of one play
from several sides; what is remembered of the music server's answers; and the
links that open a part of a library to anyone.

| Module | Models | Checked by |
| --- | --- | --- |
| `TogetherQueue` | additions, from a member's request to the host's player and back | `MCTogetherQueue` |
| `Additions` | what the queue promises of them: the abstract specification | `MCTogetherQueue` |
| `TogetherQueueProofs` | theorems about the queue, and that it implements `Additions` | TLAPS |
| `TogetherParty` | who may listen, join and add; removal, expiry, ends | `MCTogetherParty` |
| `TogetherPartyProofs` | theorems about the party | TLAPS |
| `Sessions` | the sessions of an account, their cache, and all that ends them | `MCSessions` |
| `SessionsProofs` | theorems about sessions | TLAPS |
| `SignIn` | throttle, second factor, recovery codes, Quick Connect | `MCSignIn` |
| `SignInProofs` | theorems about signing in | TLAPS |
| `Playback` | the player: queue, two elements, overlap, fades, retries | `MCPlayback` |
| `Transcodes` | reads held, shared, bounded and given up | `MCTranscodes` |
| `StreamProofs` | theorems about the held reads and their readers, and about the player | TLAPS |
| `Listening` | who is listening to what, and who is shown it | `MCListening` |
| `ListeningProofs` | theorems about what is held, shown and sent of it | TLAPS |
| `History` | plays recorded, scrobbled and imported | `MCHistory` |
| `HistoryProofs` | that each play is in the history once, and imports leave none out | TLAPS |
| `Memos` | answers of the music server remembered, shared and dropped | `MCMemos` |
| `Shares` | shared links: visitors' streams against withdrawals | `MCShares` |
| `LibraryProofs` | theorems about what is remembered, and about shared links | TLAPS |

`tlc -config X.cfg M` runs a configuration, `tlapm M.tla` checks the proofs.

## 1. The system's parts

State, operations, what is hard, and what would make each part correct.

**Listen together, the added queue** (`lib/server/together.ts`,
`lib/client/together.svelte.ts`, `lib/client/player.svelte.ts`,
`routes/+layout.svelte`, `routes/api/together/queue`).
The server holds the additions of a party, numbered in order (`seq`), the
highest one the host's browser has reported (`applied`), marks on those taken
back, and the last report of what is up next. The host's browser holds the
player's queue, the highest addition it took, the last report it sent, and a
promise chain that runs one step at a time. Events (`host`, `add`, `remove`)
go down an EventSource; reports go up as POSTs, whose answers name which tracks
are additions. Hard: the stream drops with events on their way; a report is
lost, or arrives after the browser gave up on it; the answer meets a queue that
has moved on; the page is reloaded or killed around the debounced save, and its
queue comes back as bare ids, without the marks. Correct when no addition is
lost or taken twice, only the addition taken back is removed, names stay on the
right tracks, additions stay in order, and the listeners' view settles on the
host's queue.

**Listen together, the party** (`lib/server/together.ts`,
`routes/together/[token]/*`, `routes/api/together/*`). Parties by token and by
hosting session, each with listeners, members, removed accounts, counts of
additions, a time to live. Every function of the module is synchronous, but
each request awaits its session, settings and body before it calls one, and
adding a track awaits two lookups between `admit` and `enqueue`. Correct when a
removed account is out for good, names shown belong to the stream's account,
caps hold, nobody is shut out by others' streams, and a party ends with its
host's session.

**Sessions** (`lib/server/auth.ts`, `lib/server/library.ts`). Rows in the
database; on PostgreSQL a five-second memory of resolved sessions with an epoch
that every forgetting moves; streams tied to sessions; the stored credential of
the account. Hard: a sign-out between the reads of a session and the moment they
are remembered; sign-ins that change the credential while requests carry the
old one. Correct when what ended is forgotten and cut, and no session outlives
the password it was born with.

**Sign-in** (`twofactor.ts`, `totp.ts`, `ratelimit.ts`, `quickconnect.ts`,
`routes/login`, `routes/api/two-factor`). Counts of failures by name, address,
known browser and wrong factors, reserved before the music server is asked and
handed back after; an app and its recovery codes; sign-ins the music server
accepted, held until a factor is given; a Quick Connect secret claimed by one
poll; a five-second memory of whether there is a factor. Hard: what one
statement checks is used in a later one, by several requests at once. Correct
when nothing signs in twice, guesses stay within their limit, and an account
with a factor has no session without it.

**Playback** (`player.svelte.ts`). A queue and its index, two audio elements
that take turns, what the listener means (`engaged`), and timers: a retry after
a dropped stream, a stall, the ramp of an overlap, fades before a pause, a seek
or a skip. Hard: elements play, fail and end by themselves, and each handler
runs in whatever the presses since have made of the queue. Correct when the
track heard is the track shown, a paused player stays silent, two tracks are
heard only in an overlap, a retry goes on from where it was, and nothing waits
for what will not come.

**Held transcodes** (`transcodes.ts`, and `proxyTranscode` of `proxy.ts`). One
read of the music server per transcode, kept in memory and shared by the
requests for it, within bounds on bytes and on reads per account and in all.
Hard: opening, sharing, dropping and failing at once. Correct when the bounds
hold, one read is shared, no request gets a part for the whole, and none hangs.

**Who is listening** (`listening.ts`, `remote.ts`, `plugin.ts`, `routes/api/remote`,
`routes/api/profile`, `routes/api/settings`). A registry of an account's
browsers and apps and what each plays, profiles read once and remembered, a
list of who plays what, sent to every stream at most once per gap. Hard:
profiles and settings are saved, and read for a stream or a report, at once.
Correct when the profile remembered is the one saved, an account is shown only
by its choice, and every stream ends up with the list of now.

**Remote control** (`remote.ts`, `remote.svelte.ts`). Commands relayed to one of
an account's browsers, and playback handed over. The server keeps nothing of a
command; its registry is part of *who is listening*.

**Play history** (`history.ts`, `plugin.ts`, `routes/api/playback`,
`routes/api/plugin/navidrome`). Rows of plays; one import per account; work in
turn per account. A play made in a browser is recorded here and then reported
to Navidrome, which logs it and tells its plugin, which sends it here again as
it happens, and once more in the pages of an import. Hard: each of these looks
for the play and then inserts it, with a round trip between; the plugin repeats
what it did not wait for; pages end within a second. Correct when no play is
there twice and an import leaves nothing out.

**Cover cache and fill** (`covercache.ts`, `coverfill.ts`). Files, an index of
them in memory, sweeps, one fill job with a budget.

**Memoised listings** (`memo.ts`, and its users `listings.ts`, `details.ts`,
`suggestions.ts`, `shares.ts`). Per process a map of pending and settled reads,
by account, upstream user and key, with a count per account; a write through
Heddohon drops what it changes once the music server has answered. Hard: a read
begun before a write settles after it; another user takes the account's name
while requests bring the credential of the first; the count is kept beside the
map. Correct when what is asked for after a write shows it, no answer is another
user's, and the counts are of the entries.

**Shared links** (`shares.ts`, `share-media.ts`). A row per link; in memory the
streams open through it. A visitor's request reads the row, reads the sharer's
credential, registers its stream, looks the track up and streams it. Hard: the
link is withdrawn, or another user takes the sharer's name, between any two of
these. Correct when a dead link sends nothing more and a link reads the library
of the user who made it.

**The rest**: now playing, mixes and new releases (reads with short memos);
settings and setup (records written whole); the database and the music servers
(external: a statement is a step, and the answer another); OpenID Connect,
passkeys' cryptography and the parsers (sequential, unit-tested); the
assistant's tools; pages and components; the desktop and Android shells.

**How they interact.** A request resolves its session (`Sessions`) and then
calls a party's function (`TogetherParty`), which is why `TogetherParty` has
sessions that end between the two. `cutSessionStreams` of `auth.ts` ends the
parties and the audio of a session: `Cut` in both modules. A member's accepted
addition is `Enqueue` in both: `TogetherParty` decides whether it may be made
and counts it, `TogetherQueue` follows it. It reaches the player by
`queueAddition`: in `TogetherQueue` with its marks, in `Playback` as one more
change of the queue under an overlap. `SignIn` ends in a session issued, which
is where `Sessions` begins, and ends sessions as `EndOthers` of `Sessions` does.
The end of all an account's sessions forgets its transcodes (`SessionsEnd` in
`Transcodes`), and a transcode refused for its credential ends them. A stream
of `Listening` is one of the requests tied to a session, and what the plugin
sends goes by its type to `Listening` (what plays) or to `History` (what was
played). A sign-in that replaces the upstream user of an account is `SignIn` of
`Sessions`, `TakesOver` and `Replaced` of `Memos`, and `Replace` of `Shares`,
after it has withdrawn the account's links (`List`, `Delete`, `Cut`), or, where the
music server gives its users no id, without (`TakeOver`). What a link
opens is read through a `Memo`. The modules share no
state; each states what it takes from the other as an environment step.

## 2. The queue: `TogetherQueue`

| Code | Module |
| --- | --- |
| `Party.seq`, `additions`, `applied`, `upcoming` | `made` (its length is `seq`), `additions`, `withdrawn`, `applied`, `upcoming` |
| `enqueue`, `withdraw`, `removeMember` | `Enqueue`, `Withdraw`, `RemoveMember` |
| `reportQueue`, `queueView` | `ReportQueue` with `Found`, `QueueView` |
| the host's event stream | `open`, `pipe`; `StreamOpens` sends `HostEvent` (`listen`) |
| `#work`, one step at a time | `doing`: "idle", or the step that awaits the answer to its report ("naming" within a `host` event, "closing" at its end) |
| `#attach`'s handlers, `#take`, `#drop`, `#reportQueue` | `BeginHost`, `Begin`, `Check`, `Handle`, `Report`, `Answered`, `Fails` |
| an answer whose body does not arrive: `response.json()` throws, and `#then` ends the step | `BodyLost` |
| a request the browser stopped waiting for | `late`, `ReceiveLate` |
| what a page knows of its party: `resume`, `start`, a stream answered with an error | `follows`: `Attach`, `AttachFails`, `StartAgain`, `StreamRefused` |
| `queueAddition`, `removeAt`, skipping | `QueueAdditions`, `RemoveAt`, `Skip` |
| the debounced save, `restore`, `restoreQueue` | `Persist`, `Restore`, `RestoreFails` |
| a reload, a killed tab | `Reload` (saves what there is), `Crash` (does not) |

A server function runs without interruption and is one step. A browser step
runs until it awaits an answer; what it does after is in `Resume`. The code
tells tracks apart as objects: `src` (the addition, or a negative number for a
track of the host's own) and `page` stand for the object, and no action of the
code reads them but to compare. `by` is the code's `addedBy.entry`.

*Properties.* `NoneLost`, `OnceEach`, `OnlyTakenBack`, `MarksTrue`, `InOrder`,
and under fairness `Converges` and `Arrives`.
Several except a case by name, because the code does not do better there:

- `lost`: a queue that crashed within the 1.2 seconds before its save, or could
  not be looked up after a reload;
- `resent`: a page reloaded with an addition saved and not reported yet takes
  it a second time;
- `unnamed`: a page that went on after the answer naming its tracks failed, or
  came without its body;
- `skipped`: additions that a step abandoned for a lost body left untaken. What
  was sent stays `#reported`, nothing offers them again before the stream opens
  again, and the next addition taken moves `#applied` past them: the server lets
  them go, and no queue has them (`NoneLost`, `Arrives`);
- `unread`: the last answer came without its body, so that names stay as they
  were until the queue next changes (`Converges`);
- a page that is not `Told`: the one request of `resume`, or its stream, was
  answered with an error, and neither is tried again (`Converges`, `Arrives`).

Songs may come twice into a party, the host's own included, and additions are
told apart by song (see *Other divergences*). So `MarksTrue` and `OnlyTakenBack`
say of any track that its name, or the withdrawal that took it out, is of an
addition of its song, and where no other in the party is of that song
(`OnlyOnce`), of the very addition it came from. Which of two of one song is
played first is not told apart either, so `InOrder` is of states in which none
is there twice (`SongsOnce`). The other properties make no difference.

`InOrder` speaks of additions with no track of the host's between them: a host
that goes back in its queue has later additions put before earlier ones, as
`queueAddition` means them to be (it puts them behind the *current* track). It
also excepts a host that took a track out (`left`), which can bring two such runs
together; what a withdrawal takes out is not excepted.

*Runs.* `queue`: two additions by one member, each of a song of its own, of one
song, or of the host's; a host with two tracks of one song; drops, failures,
lost bodies, late reports and reloads; two faults or moves of the host in any
mixture, a late report counting for two (1,017,384 states; those that differ only
in a saved queue that nothing will read are one, see `Pages`). Two additions are what
order, overtaking and a withdrawal beside an addition need; two turns let a fault
meet another, or a skip or removal, as in a lost body followed by a reload. A
third turn was out of reach, and so was a crash beside the others: it is in
`queue_live`, and in the proofs.
`queue_live`: the same additions, a host with one track, one fault (a crash among
them) or move, no late report (230,050 states): a late one leaves the listeners'
view behind until the queue next changes, and `Converges` says so.
Deadlock is not checked here: the additions, faults and moves of an instance run out.

*Refinement.* `Additions` is what the party promises of its additions, without
streams, reports or players: each waits until the host's browser is known to
have it or is let go, those taken are taken in the order made, what is let go
never comes back, no more are kept than the cap. `Promised` is `Additions!Spec`
with `count` for `seq`, `waiting` for the additions held past `applied`,
`playing` for the rest of those held, and `asked` for the marks. It is checked
by `queue` and proved (`PromiseKept`). It is no invariant in disguise: a late
report handled after newer ones, or a removal between a report and its answer,
has to map to a step that brings nothing back.

*Fairness.* Weak, of the browser's event loop (`Work`), the server's handling of
a request it received (`Receive`), EventSource's reconnection after a drop
(`StreamOpens`, until the stream is answered with an error: `StreamRefused`), the
end of the one request of `resume` (`Attach`, or refused, `AttachFails`), and the
end of the lookup of a saved queue (`Restore`, which a failed lookup
also disables). No fairness of members, the host (`StartAgain` included),
`Persist` or any fault. The
code retries a failed report on the check of every second, with no limit; since
faults are bounded, one succeeds.

*Bounds*: `MaxSeq`, `MaxPipe`, `MaxTurns`, `Faults`, the sets.
The code's caps are `MaxAdded` and `MaxAddedPerMember`.

*Left out*: the caps of 1000 reported tracks and 50 shown rows; a host who
shuffles, reorders or replaces its queue; a second tab of the hosting browser;
a queue saved by another browser (listed as a hazard).

## 3. The party: `TogetherParty`

| Code | Module |
| --- | --- |
| `byDigest`, `bySession` | `party`: `status`, `host`; `Held`, `Live`, `Hosted` |
| `Party.members`, `removed`, `lastAdd`, `additions` | `members`, `removed`, `cooling`, `waiting` and `taken` (counts) |
| `Party.listeners`, `Listener` | `stream` |
| a request between its awaits | `request`: "in" (session resolved), "admitted", "found" (lookups done) |
| `live`, `behind` (drop a party past its time) | `FindsExpired` |
| `startParty`, `endParty`, `listen`, `join`, `leave` | `Start`, `EndParty`, `Listen`, `Join`, `Leave` |
| `admission`, `standing`, `memberOf`, `room` | `Admitted`, `Standing`, `Member`, `Room` |
| `admit`, the two lookups, `enqueue` | `Admit`, `FindHost`, `Enqueue` |
| `withdraw`, `reportQueue`, `removeMember` | `Withdraw`, `ReportQueue`, `RemoveMember` |
| `destroySession`, then `endPartiesOf` | `EndSession`, `Cut` |
| `capSessions` | `CapSession`, which cuts nothing |

`late` remembers sessions a request was served for after they were cut:
`NamesLeave` and `EndsWhenSignedOut` except those, as a request resolves its
session once and awaits its body after.

*Properties.* `RemovedStaysOut`, `NamesAreTheirs`, `NamesLeave`,
`EndsWhenSignedOut`, `OnlyOwnStreamsShutOut`, all of them proved as well.

*Runs.* `party`: the host's session, another of the host's account, a guest of
another music server who may only listen; two requests in flight (one to wait
and one to change what it waits for), two streams against caps of one, two
parties (one started after another ended, at a cap of one), an addition per
member against two in all, visitors from one public address, one session that
ends (579,072 states). Deadlock is checked: there is always a request to make.
`party_capped` is a finding. There is no liveness to state: a party lives until
someone acts or looks.

*Left out*: reactions and the state report, which change nothing read here;
what the additions are (see `TogetherQueue`).

## 4. Sessions: `Sessions`

| Code | Module |
| --- | --- |
| rows of `sessions`, the account's credential | `rows`, `credential` |
| `sessionCache`, `sessionEpoch` | `cache`, `fresh` (the requests whose reads began in this epoch) |
| `resolveSession` | `Resolve`, `ReadRow`, `ReadAccount`, `Resolved` |
| `tiedToSession`, `cutSessionStreams` | `OpenStream`, `Cut`, `CutBy` |
| `destroySession` | `SignOut`, `SignedOut` |
| `endSessions` | `EndOthers`, `EndOne`, `EndedOne` |
| `destroyAllSessions` | `SelectAll`, `DeleteAll`, `ForgetAll` |
| `refusedCredential` | `Refuse` |
| `storeAccount`, `createSession`, `capSessions` | `SignIn`, `Update`, `Updated`, `Insert`, `Cap`, `Capped` |

A statement takes effect in one step, and its answer is handled in a later
one. SQLite has no such memory: its behaviours are those where nothing is
found remembered.

*Properties.* `EndedForgotten`, `CacheCurrent`, `StreamsCut`,
`BornUnderCredential`, `NoPairing`. Exceptions by name: `uncut` (sessions
deleted by `capSessions`, or inserted between the two statements of
`destroyAllSessions`), `passed` (requests under way when their session was
cut), `alone` (no two sign-ins at once, for the last two).

*Run.* `sessions`: three sessions issued in all against a limit of two, so that
a sign-in ends one; two operations at once, one request, one change of the
password (1,398,014 states, deadlock checked). One request is enough, since requests meet only
through the cache and the epoch, which an operation can change as well.

*Left out*: expiry and pruning; a new upstream user under an old name; device
cookies; other accounts, which share nothing with this one but the epoch (a
forgetting more discards reads and never keeps them).

## 5. Sign-in: `SignIn`

| Code | Module |
| --- | --- |
| `totp`, `recovery_codes`, `sign_in_steps`, `login_attempts` | `app`, `codes`, `steps`, `failures` |
| `remembered` of `twofactor.ts`, Quick Connect's claims | `held`, `claimed` |
| `attempt`, `refundAttempt`, `clearFailures` | `Permitted`, `Reserve`, `Refund`, `Clear` |
| the login action, the poll of Quick Connect | `Password`, `Ask`, `Poll`, `Approved`, `NotApproved`, `Connect` |
| `beginStep`, `verifyCode`, `acceptTotp`, recovery codes | `Begin`, `DropOwn`, `Hold`, `Trim`; `SendCode`, `Count`, `Look`, `Accept`, `Take`; `Finish` |
| the settings: set up, confirm, renew codes, remove | `SetUp`, `Confirm`, `Wipe`, `Fill`, `Remove`, `DropCodes`, `EndOthers` |
| `hasSecondFactor` and the gate | `Gate`, `ReadFactor`, `Remember` |
| the window of a count, a held sign-in, what is remembered, the process: their ends | `Reserve` with `over`, `Expires`, `Lapse`, `Restart` |

A request is a record of what it is at; each statement of it is one step. What
was typed is chosen where it is looked at. A window's end is chosen where the
next attempt looks at it, key by key, and time passes among the steps whose
codes are near (`Near`), so that any of these may be shown at any moment.

*Properties.* `OnceEach` (a code, a recovery code, a held sign-in and a Quick
Connect secret sign in once), `GuessesBounded`, `FactorGiven`,
`FactorRemembered`. Exceptions by name, each a place where the code does no
better:

- `carried`: an attempt handed back after its count had begun again lets one
  more guess through in the new window;
- `late`, `own`, `settled`: a sign-in that found no factor and ended after one
  was added keeps its session; so does every session where the process ended
  between the change and the sign-out of the others;
- `held.late`: an answer read before a change of the factor and remembered
  after it stays for five seconds;
- a restart forgets that a secret was claimed.

*Run.* `sign_in`: two requests at once, three in all after one that signed in,
limits that one wrong attempt reaches, codes of two time steps (which order and
repetition need), one window or held sign-in over or one restart
(1,058,241 states). Two at once are what a race needs; three let a change of
the factor come between the begin and the end of a sign-in.

*Left out*: passkeys, the requirement set by an administrator, `lastRequired`,
device cookies, pruning, the least interval between asking the music server.
The end of sessions by `storeAccount` is in `Sessions`. Seen while modelling
and not stated: a code is recorded against whichever app is on at the update,
and recovery codes can be left without a factor by two changes at once.

## 6. The player: `Playback`

`page` is the `Player` with its two elements; what a method does to it is an
operator from a page to the page after it (`Load`, `Play`, `EndCrossfade`,
`MoveTo`, ...), and an event, a timer or a press is an action that applies one.

| Code | Module |
| --- | --- |
| `#loadCurrent`, `#openAt`, `play`, `pause`, `stop`, `seek` | `LoadCurrent`, `OpenAt`, `Play`, `Pause`, `Stop`, `Seek` |
| `#fadeThen` before a pause, a seek, a change of track | `Fading`, `FadeDone`; `late` where a later one took its place |
| preloading, the overlap, `#swapElements` | `MaybePreloadNext`, `Crossfade`, `RampDone`, `Swapped`, `SecondaryAdvances` |
| `#recoverStream`, the stall timer, `#failed`, skipping | `Recover`, `Retry`, `StallTimeout`, `HeadAnswers`, `GiveUp`, `SkipBroken` |
| element events | `Loads`, `Buffers`, `TimeUpdate`, `RunsOut`, `Stalls`, `Fails`, `SecondaryFails`, `Interrupted`, `IncomingRefused` |
| what is pressed, and an addition to the party | `PressAlbum` ... `PressClear`, `Addition` |

*Properties.* `HeardIsShown`, `PauseHolds`, `OneTrackHeard`, `NoGroundLost`,
`NothingLeftWaiting`. Exceptions by name: `astray` (an overlap let go of
without the incoming element being stopped: another queue played, a track given
up, a sleep timer set or repeat turned off during it, or its ramp ended before
the track), `wrapped` (an overlap from the last track of a repeated queue into
the first, which a change of either or of repeat does not stop), `held` (paused
by the system, or a track that ends within the 150 ms of a fade, which leaves a
player that means to play and does not), `sought` (a position that was waiting
for its source: a seek passed it by, or it was left to a track already
buffered; or it was within a second of the end of the track, or of a track whose
length is not known, when the source arrived, where the code does not seek to it
and the track starts at its top).

*Run.* `playback`: a restored queue of two tracks, an album of one to play, one
more to queue; two presses of any kind before, during or after an overlap; one
stall, failure or interruption; one retry and one skip allowed before giving up
(1,316,055 states; those that differ in which element has which role are one, see
`Roles`). A track is its top, its last stretch and its end,
which is all that preloading, overlaps and recovery tell apart; whether a
position in the last stretch is within a second of the end is chosen as the
source arrives (`LoadedEvent`).

*Left out*: casting, a seek that waits for a whole transcode, shuffle, levels
and the equaliser, reports to the music server. The saved queue is in
`TogetherQueue`.

## 7. Held transcodes: `Transcodes`

A read is an object, known by its number: dropped from `held`, it goes on while
its body arrives. `store` is `held` with the reads, their order of use and which
are idle; `requests` are the calls of `proxyTranscode` under way.

| Code | Module |
| --- | --- |
| `held`, `opening`, `transcodeFor`, `start`, `sweep`, `usedAt` | `store`, `Ask`, `Opens`, `OpenFails`, `Sweep`, `Drop`, `Touch` |
| `pump`: a chunk, too much, its end, an error | `Arrives`, `TooMuch`, `Ends`, `LetGo` |
| `more`, `settled`, `bytesOf`, `wake`, the answer of `proxyTranscode` | `Answer`, `Settles`, `Pull`, `AtEnd`, `Woken` |
| `IDLE_MS`, `forgetTranscodes` | `Idles`, `SessionsEnd` |

*Properties.* `OneRead`, `WholeOrBroken`, `NoneLeftAsleep`.

*Run.* `transcodes`: two transcodes of one account, of two and three chunks
against bounds of two, one read at a time for the account, two requests of any
kind, two lapses (407,410 states). The second is too long to hold, so that a
read is given up under its requests. One account is enough for the limits, as
the bounds are sums; what one account's reads do to another's is a relay.

## 8. Who is listening: `Listening`

| Code | Module |
| --- | --- |
| `profiles`, `settings` rows | `rows`, `sharing` |
| the registry of browsers and apps (`remote.ts`) | `memory.peers`, `memory.apps` |
| `known`, `playing`, what was sent, the gap | `memory.known`, `.playing`, `.peers[p].told`, `.gap` |
| opening and closing a stream, `arrived` | `Open`, `Arrives`, `Close` |
| `reportState`, `takePlayback`, `appChanged` | `Report`, `AppReports`, `Playback`, `Setting`, `Take`, `AppChanged`, `AppExpires` |
| `saveProfile`, `changed`, `hideProfile` | `Save`, `Write`, `ReadProfile`, `Changed`; `Hide`, `HideRow`, `Hidden` |
| saving settings, `shareApps` | `Set`, `ReadSettings`, `WriteSettings`, `ShareApps` |
| `publish`, its timer | `Publish`, `SendAgain`, `GapEnds` |

*Properties.* `KnownTrue`, `ShownByChoice`, `ListsCurrent`. The first two are
stated where nothing is under way and the account is not in `crossed`: two of its
changes that read and write the same were under way at once, its last stream or
app went while its profile was read, or a hide forgot its profile while it was
listed. *Other divergences* says what each does.

*Run.* `listening`: one account that changes what is shown of it and one that
watches, two streams, one app, one song, two names, two requests at once and
four in all, none of an account after its changes crossed (883,237 states). One
watcher is enough, since a list is the same for all but its own entry.

*Left out*: renaming a browser, how long an app is kept without a report
(`AppExpires` may come at any time), matching what an app plays to a song.

## 9. Play history: `History`

A play is known by its number; `history` counts its rows, `second` says when it
was, `navidrome` is the log of the music server, `plugin` what its plugin has
still to send.

| Code | Module |
| --- | --- |
| `POST /api/playback`, `recordPlay` | `PlayHere`, `Record`, `Reports` |
| `takePlays`, `recordScrobble` | `Scrobble`, `Found`, `NotFound`, `Unreachable`, `LooksAgain`, `Adds`, `Scrobbled` |
| `inTurn` | `turns`, `MayWork`, `TakesTurn`, `LeavesTurn`, `WorkFails` |
| `requestImport`, `openScrobbleImport`, `finish` | `importing`, `job`; `Open`, `Opens`, `OpensNot`, `Finish`, `GivesUp` |
| `wanted`, `takeHistory` | `SendPage`, `PollAgain`, `TakePage`, `Lacks`, `Adds`, `PageAdded`, `NextFrom` |
| `importPlays` | `ImportLast`, `ReadLast`, `SelectHeld`, `InsertLast`, `ImportFails` |
| `clearHistory`, a restart | `Clear`, `Restart` |

The plugin is external: it sends plays and pages, and sends again what it did
not wait for.

*Properties.* `PlayedOnce`, but for plays inserted while an import of last plays
held them as missing (`passed`: `importPlays` takes no turn), or the other way
round; `ImportWhole`, but for imports that took a page sent again or late, or
whose history was cleared meanwhile (`astray`).

*Run.* `history`: three plays in the log and one more made meanwhile, in a
browser or elsewhere, pages of two, two requests at once, two imports or
clearings, two faults (1,979,835 states). Pages of two over three or four plays
end within a second or between two, as `Seconds` chooses; an import takes two or
three of them. Two requests at once let each way a play arrives cross each
other.

*Left out*: the limits by age and number (off by default), the counts an import
answers with, the windows within which two times are one play (plays of one song
are further apart), the export, statistics.

## 10. Memoised listings: `Memos`

A read is known by its number, which stands for the promise and for its entry's
place in the map: one is put in, at the end, as its read is made.

| Code | Module |
| --- | --- |
| `#entries`, `#perAccount` | `memo.entries`, `memo.perAccount` |
| `resolveSession`: the credential a request brings | `Resolve` |
| `get`: held and fresh, or not | `Hit`, `Miss` with `Swept`, `Placed`, `TrimmedFor`, `Trimmed` |
| the promise settles, or fails | `Answers`, `Settles`, `Fails` with `DropsFailed` |
| what a request is given; a lifetime over | `Served`, `Expires` |
| `forget`, `forgetAccount` | `Forgotten` |
| `POST /api/star`, the edits of a playlist | `Write`, `Changes`, `Refused`, `Written`, `WriteFails` |
| `storeAccount` for another upstream user | `TakesOver`, `Replaced` |

`Miss` is the whole of `get` up to its first await: the sweep when it is due,
the entry put in, and both evictions. `TrimmedFor` drops the account's oldest
past `#maxPerAccount`, `Trimmed` the oldest of all past `#max`.

*Properties.* `WrittenIsSeen`, `OwnAnswer`, `CountsTrue`. `WrittenIsSeen` excepts
accounts in `unheard`: a write of two calls whose first changed something and
whose second failed leaves what is held as it was
(`routes/api/playlists/[id]`).

*Run.* `memos`: one account that two upstream users have in turn, two keys,
writes that change one of them or both, two entries at most, two requests at
once, three reads, one fault. Two requests are what a read overtaken
by a write, or shared, needs; a third finds the bound of the account full and
evicts. With one account and equal bounds `TrimmedFor` evicts before `Trimmed`
can: that the count also holds through `Trimmed` is proved (`CountsHold`) and not
run. Deadlock is not checked: reads and versions run out. Where a music server
gives its users no id, the user is the name, and whoever takes over a name counts
as the same user in `OwnAnswer`.

*Left out*: what is read, and the lengths of the lifetimes (an entry may expire
at any time).

## 11. Shared links: `Shares`

| Code | Module |
| --- | --- |
| rows of `shares`, the account's credential, `expires_at` | `rows`, `user`, `expired` |
| `openStreams` | `openStreams` |
| `resolveShare`, `sharerCredential`, `holdShareStream` | `ResolveShare`, `Unopened`, `Hold` with `Registers` |
| `streamShared`: the lookup, the stream, its transform, its end | `Goes`, `Passes`, `Breaks`, `CallEnds` |
| `createShare`: the count and the insert, in `exclusive` | `Ask`, `Count`, `Insert`, `Locked` |
| `revokeShare`; `revokeAllShares`, `cutShareStreams` | `Revoke`; `List`, `Delete`, `Cut` |
| `storeAccount` for another upstream user, told apart by id | `List` with `then`, `Delete`, `Cut`, `Replace` |
| `storeAccount` for another user of a name, where users have no id | `TakeOver`, `Replace` |

*Properties.* `DeadLinksSilent`, `OwnersLibrary`. Excepted by name:

- a link being cut (`BeingCut`): its row is gone, and the cut that follows is
  about to end its streams;
- `late`: a request that had read the row, and was reading the credential when
  the withdrawal cut the rest, registers after it and streams to its end;
- `missed`: a link made between the two statements of `revokeAllShares` has its
  row deleted by the second and is not among those the first listed to be cut;
- `stray`: a link made by a request of the first user after the withdrawal that
  precedes the second's sign-in, which then reads the second's library;
- `kept`: a link that was there when another user took over a name of a music
  server that gives no ids (`ByNameAlone`): `storeAccount` takes it for a changed
  password, the links stay and read the library of the name's new holder.

*Run.* `shares`: one link, two accounts, one of them of a music server without
user ids, two upstream users, three requests of any kind: one may visit while
another withdraws and a third signs in another user (1,138,070 states). Deadlock is not checked: the link
and the users run out.

*Left out*: covers and the page of a link, which only read; the sweep of expired
rows (`ResolveShare` deletes the one it meets); the counts of visits.

## 12. What is proved

For every value of the constants, from the assumptions named in the modules
(`ConstantsAssumption`, `PartyAssumption`, `SessionsAssumption`,
`SignInAssumption`, `MemosAssumption`, `SharesAssumption`, `NoneAssumption` and
those of the other modules) alone: sets of any size (finite where something in them is counted: requests
under way, accounts, links), limits of any value.

*The queue* (`TogetherQueueProofs`), repeated songs, lost bodies and crashes
included:

- `TypeCorrect`: by the inductive `TypeInv`, which adds to `TypeOK` that events
  name additions that were made (`EventsMade`), that a step awaits exactly when
  a request is under way and its answer is as long as the report (`StepFits`),
  that a saved queue's index fits it (`SavedFits`: it is what `Restore` starts
  from), and that only additions reported taken are marked taken back
  (`WithdrawnTaken`: `removeMember` must leave no mark behind).
- `NothingLost`: `NoneLost` is not inductive: the server discards an addition on
  the word of a count, and counts are on their way in four places. `NoneLostInv`
  says of all of them, `applied`, the browser's own `taken`, the report awaited,
  reports given up on and `host` events not handled yet, that they cover only
  additions that are settled, that is in the queue or accounted for by name
  (`CountedSettled`). For that to survive the browser taking an addition and
  counting all those before it, events have to offer additions in turn
  (`OfferedInTurn`), and an open stream has to have offered everything not
  settled (`AllOffered`); `NoneForgotten` ties this to what the server holds.

- `TakenOnce`: that no addition is in the queue twice (`NoneTwice`, of the queue
  and of the saved one) is kept only if what is in it is not taken again.
  `OnceInv` says so of each (`Known`): the page counts it (`taken`), or the server
  does and no event on its way offers it, or it is one a reload had saved and not
  reported (`resent`). A page that goes empties the pipe with its stream, which is
  what makes the server's count enough for the next one.
- `MarkedTruly`, `TakenOutRightly`: a name comes with an answer, to a report of a
  queue that has moved on since. The invariant `Named` needs no assumption about
  songs: each track, in the queue, in the saved one and in a report, comes from an
  addition of its song or is the host's (`ComesFrom`), a name is of an addition of
  that song (`NameOf`), an answer names only what it was asked about, by song
  (`AnswerTrue`), and so does what was taken out (`StruckTrue`). That the
  song is of one addition alone then leaves only its own (`OneOfSong`), and a
  track's song does not change (`SongStays`).
- `PlayedInOrder`: new additions go behind those that lead what is up next, which
  the player knows by their names. So `InRuns` is of more than what is named: of
  what may be named yet, too (`Countable`, `Counting`). It is kept because a page
  either has had its first `host` event, and all that may have a name has it
  (`Briefed`), or has taken nothing yet (`Unbriefed`); between the two, the answer
  that event waits for names what there is (`NamingFits`, `AskedFits`). A page that
  goes on without those names is `unnamed`, and excepted. That the names are the
  tracks' own while no song is there twice comes from `Named` (`OwnName`); a song
  added twice stays so (`SongsOnceBefore`), so that the state before had none.

What the operators on queues do is stated first, by arithmetic on
cardinalities: taking positions out keeps every other track (`WithoutKeeps`),
putting additions in keeps all (`QueueAdditionsKeeps`), naming changes no track
(`MarkedKeeps`), and a step of `#work` only takes out what it is told to
(`HandleKeeps`).

*The refinement* (`TogetherQueueProofs`): `PromiseKept`, `Spec => Promised`.
From `TypeInv` every step of the queue is a step of `Additions` or leaves its
variables alone: `Enqueue` is `Add`, a withdrawal `LetGo` or `TakeBack`, a
member's removal `LetGo`, a report handled in time or late `Take`, and all the
browser does by itself a stutter. `WithdrawnTaken` is what makes a removal map:
without it a mark would outlive the addition it is on.

*The party* (`TogetherPartyProofs`): `TypeCorrect`, `RemovedAreOut`,
`NamedByThemselves`, `NamesGoWithSessions`, `PartiesGoWithSessions`,
`NobodyShutOut`. The invariant `IInv` is `TypeInv` with the first four
properties and two facts they lean on: a stream's party is held
(`StreamsHeld`), and a stream counted as an account's is of a session of that
account (`SourcesTrue`), without which a removal by account would miss
a stream. The fifth follows from the shape of admission, and is proved of it.

*Sessions* (`SessionsProofs`): `TypeCorrect`, by `TypeInv`, and on it

- `EndedAreForgotten`, by `ForgottenInv`: not only what is remembered but what
  is read *fresh* is known, since a read begun before the end would remember it
  after;
- `RememberedIsCurrent`, by `CurrentInv`: the same of the account's row, while
  no sign-in is about to forget it;
- `StreamsAreCut`, by `StreamsInv`: a request past the row of its session brings
  one that is there, is about to be cut, or is excepted;
- `RowsAreOfTheCredential`, by `BornInv`: a sign-in holds, at each of its
  statements, the credential its row will be issued under, or no row is left;
- `NothingIsPaired`, by `PairInv`: what would be remembered as a wrong pair was
  read before the cut, and is not fresh any more.

*Transcodes* (`StreamProofs`): `ReadIsShared`, `EndsWhole`, `NobodySleepsOn`,
from one invariant on the store and the requests. `OneAtMost` says where a read
under way is to be found: it is opening, or held under its transcode, or
`dropped`; without its second part a request could miss a read that runs.
`HeldOpened` and `WholeSized` let a request answered from what is held start
within it, and `RequestFits` says of every request how far it is and what is
still to wake it. What drops (`sweep`, `forgetTranscodes`) is handled once, for
any set of reads (`DropKeeps`), so that nothing rests on which are swept. A
transcode is assumed not to be empty.

*The player* (`StreamProofs` again, which extends `Playback` too: the two have
no name in common): `PlayerTypeCorrect`, `HeardIsShownHolds`, `PauseHoldsHolds`,
`OneTrackHeardHolds`, `NoGroundLostHolds`, `NothingLeftWaitingHolds`, for any
songs and queues, limits of retries and skips of any value, tracks of any length,
and any number of presses and faults. All six follow from one invariant,
`PlayerInv`, of a page (`Good`):

- `Firm`: the page has its type; an element without a source is an empty one,
  and only running out brings one to its end (`Sources`); no position on the bar
  or waiting is past the last stretch (`Within`), and none a timer asks for
  (`Retries`); the track said to be buffered is in the second element
  (`Preloaded`), without which a swap could bring in another;
- `Ground`: the bar is not ahead of the track, or a seek is fading; a position
  waiting, or one a timer is to ask for, is the one on the bar. `NoGroundLost`
  speaks of what is heard, and ground is lost in the steps before, when nothing
  is;
- `OnTrack`: what is loaded, and what a timer will ask for, is the track of the
  queue, or a change of track is fading; a page that means to play has a source;
- `SecondHeld`: the second element runs only under an overlap of a page that
  plays, and with the track that follows; what stops the first must stop it too;
- `FirstHeld`: a paused page has a first element that runs only while a pause of
  it fades;
- `FailedWaits`, `ReadyWaits`: a track that failed, or is there and does not
  play, has something to come, or says so. Each is broken for a moment inside a
  handler, between what it stops and what it starts.

A handler is a composition of operators on pages, so the lemmas are about those:
`...Is` says which fields an operator changes, `...Keeps` what it needs of a
page and leaves true. What it needs is less than the invariant, since it is
called halfway through a handler: `Loadable` is what `#loadCurrent` may be
called on (a queue replaced, an element failed), `Movable` what `seek` may,
`Failing` what `#recoverStream` and `#giveUp` may, `Loose` a queue changed
before `#invalidatePreload`, `Stopped` what `stop` leaves. A step then is its
handler's lemma and `SettledKeeps`.

*The play history* (`HistoryProofs`): `EachPlayOnce`. A look and its insert are
apart, so the invariant says of a request about to insert (`Fits`) that what it
holds as missing still is, or was passed by an import of last plays; for that it
has to be the one whose turn it is (`MayWork`), a play a browser reports must be
unknown to Navidrome until it was recorded (`Known`, `Brings`), and belong to
one request (`Apart`). `ImportsAreWhole`, by `WholeInv`: a page as the plugin
builds it leaves out only what is later than all it has, and than its start
(`PageTrue`), which rests on no second having more plays than a page
(`Bounded`) and on counting those before a play (`PageFromTrue`); it stays so
while plays are made. Of the import under way `Going` says that what is due from
before the next page's start, and of its first second what the last page had,
is in the history, and that one page at a time is added, each stage bringing
what it must (`Brought`). One import at a time (`OneImport`) with a number no
page was asked for before (`Numbered`) keeps pages of older imports apart.

*Signing in* (`SignInProofs`): `TypeCorrect`, `SignsInOnce`,
`GuessesStayBounded`, `FactorIsGiven`, `FactorIsRemembered`, from one inductive
invariant of nineteen parts, for any number of requests at once, every limit and
every number of codes. None of the four properties is inductive:

- a code signs in once because of two statements. The update that takes it
  leaves `last` at or past it, so `CodesGone` says of every code taken that the
  app it is of is another, or is on and past it; and of every recovery code
  taken that it is gone, below the number the next one made gets.
- A held sign-in, by number, is in exactly one place: in `steps`, with the
  request whose delete found it and is at its session, or in a session
  (`HeldFits`, `StepsOnce`). The request that may yet hold one has a number no
  step, code or session names. A secret is claimed by one request between the
  claim and the answer (`SecretOnce`).
- A guess is bounded by a count that other requests raise, hand back, clear and
  begin again while it is under way. `CountHolds` says that every wrong guess
  and every reservation *of the count there is* (`Reserved`) is in the count or
  was carried, and `LetThrough` that those not refused (`Hopeful`) were let
  through by it. A request of several keys reserves them one by one, so
  `Reserving` says which keys a request at each stage has reserved and which it
  has still to hand back.
- The sessions a change ends are read after the change, and a sign-in that found
  no factor may become a session at any time between. `OnTheWay` says that,
  while there is a factor, such a sign-in was overtaken (`late`); `EndsAll` that
  a change between its read of the sessions and their end has every session
  that gave none among them; `ChangeOwn` that the session spared is its own.
- `SawTrue` says what a request has read of the factor and not remembered yet is
  so, unless it was overtaken.

The proof is laid out by what a step leaves alone. A step of one request is
`Turns`: the request goes on, rests or comes, and of the others only what it
overtook changes. Each part of the invariant has a condition under which a step
keeps it (`StillThrottle`, `StillFactor`, `StillCodes`, `StillSteps`,
`StillSecret`, `StillGiven`); most actions meet them all (`Still`), and each of
those that do not, such as `Reserve`, `Look`, `Take`, `Hold`, `Finish`, `Issue`,
`Confirm`, `Remove` or `EndOthers`, is shown to keep the parts it touches.

*Who is listening* (`ListeningProofs`): `TypeCorrect`, `ListsAreCurrent`,
`HeldIsTrue`, `ShownIsChosen`. The properties speak of accounts with nothing
under way; the invariant has to speak of what is. It is the types, `Current` (a
list sent is the one of now, unless another is due), and `Good` of every
account: a profile is held only of one that is connected (`Wanted`), what it is
shown as playing is among what its browsers and apps report (`Heard`), and, while
no changes of it have crossed (`Uncrossed`),

- no two of its requests undo each other (`Apart`), which is what `crossed`
  counts and what lets each request below be looked at alone;
- the profile held is the row, but while a save or a hide has written and is yet
  to put it in place (`HeldTrue`), and the apps held are shared as the setting
  says, but while a save of it is (`AppsTrue`);
- what a request has read is the row or the setting as it is (`SaveTrue`,
  `SetTrue`), or may be older only where a save is yet to be put in place, which
  then finds it held (`ReadTrue`): the case `arrived` and `appChanged` guard
  against;
- it is shown only if the profile held says so (`Allowed`).

Everything shown goes through `refresh`, and everything sent through `publish`,
so the lemmas about those (`RefreshShows`, `PublishTells`, `WatchShows`) are
proved once, for any memory; a step then is one of five kinds, a request that
only moves (`AskedOn`), a row or setting written (`StoredGood`), something of an
account reported or gone (`WatchedGood`), nothing shown changed (`KeptGood`), or
a profile put in place (`PutGood`), and all other accounts are `Untouched`. That
no record stands for its own absence (`NoneAssumption`) is assumed.

*Memoised listings* (`LibraryProofs`): `TypeCorrect`, `ReadsFollowWrites`,
`AnswersAreOwn`, `CountsHold`. `WrittenIsSeen` is of requests that wait, but a
request that comes later is given what is held: `HeldIsSeen` says no entry
answered is older than what has been written, and `OwnReads` that an entry and a
request have a read of their own account, user and key. For the counts,
`OneEach` makes the read of an entry its name, so that the oldest is one; what
`Placed`, `Swept`, `TrimmedFor` and `Trimmed` do to the count is a lemma each
(`DeletedCounts`, `WithCounts`, `TrimmedForCounts`, `TrimmedCounts`).

*Shared links* (`LibraryProofs` again, which extends `Shares` too: its `ShareSpec`
has no name in common with `Memos`): `SharesTypeCorrect`, `DeadLinksStaySilent`,
`LibrariesAreOwners`. A withdrawal cuts what is registered, so every stream that
was not aborted is (`StreamsHeld`); a request past the row of its link knows
where the row has gone (`Gone`), from before it registers. A link's row implies
that its maker's user is still the account's (`MakersOwn`), which a sign-in of
another user keeps because it has left no row (`NoneLeft`), or has them in `kept`;
what a stream reads was read from that (`ViewersKnown`).

TLC checked each property on the instance of its run before it was proved, and
the invariants of signing in, who is listening, the player, the memos, the links
and `WholeInv` on theirs. Some exceptions of the player's properties (`wrapped`,
a part of `astray` and of `sought`) were found by its proof, on pages the
instance does not reach; section 13 has what the code does there.

*Only model-checked*: the liveness properties `Converges` and `Arrives`, since
the prover has neither ENABLED nor fairness. `EndsWithSession` is violated.

## 13. Findings

It has a run that expects the violation, and the passing properties that
depend on it name the exception.

- `party_capped` (`EndsWithSession`): `capSessions` ends the oldest session
  without `cutSessionStreams`: its party and listeners go on for up to twelve
  hours.

*Other divergences*, met while modelling; those that touch a property are stated
as its exceptions above:

- `withdraw` drops an addition past `applied` and tells the browser nothing,
  though its `add` may be on its way (`together.ts:668`): the track is taken, and
  plays without a name.
- The element an overlap brings in is already playing when its events are bound,
  so `play` on it raises none, and `playing`, cleared by the outgoing element's
  `pause`, stays false while the track is heard (`player.svelte.ts:1322`).
- An edit of a playlist that renames it and then fails to change who may see it
  leaves the old name remembered until the entry's lifetime ends
  (`routes/api/playlists/[id]/+server.ts:22`).
- A visitor's stream is registered after the sharer's credential was read
  (`share-media.ts:41` on), so a withdrawal between the two does not cut it.
- Additions are told apart by song. With a song in the party twice, a report
  after the first began to play names the second for it, and a withdrawal of
  the first takes the second out (`together.ts:365`).
- An answer to a host's report whose body does not arrive ends the step:
  `response.json()` throws (`together.svelte.ts:289`), while `#reported` holds what
  was sent (`together.svelte.ts:275`) and only an answer that is an error resets
  it. At a `host` event the additions that wait are then not taken; the next one
  taken moves `#applied` past them, and the server lets them go as taken. The
  names the body held are not asked for again while the queue stays as it is.
- `resume` asks once whether the page hosts a party (`together.svelte.ts:88`), and
  a stream answered with an error is not opened again: the party goes on, and its
  host's page is told nothing until it is loaded again, or the host starts one.
- A position waiting for its source is sought only where `target < duration - 1`
  (`player.svelte.ts:1746`) and is then forgotten: a stream that drops in the last
  second of a track starts it again at its top, the bar where it was.
- "Links, settings and the queue stay" (`auth.ts:252` on) is said of a changed
  password. Where users have no id, a name given to someone else looks the same:
  the links of its former holder read the library of the new one.
- `importPlays` does not take its turn (`history.ts:299` on says one at a time
  for an account), so a play recorded between its read and its insert is there
  twice. A page of an import sent again, or late after another import began,
  can end that import or pass over a part of it.
- A profile read for a stream that closed can come back after a later hide
  (`listening.ts:441`: the stream closes, the save finds nothing connected,
  another opens); a rename that crosses a hide restores what was shown, since
  `saveProfile` writes both, and so do two saves of settings; two `changed` can
  be answered out of order. `hideProfile` forgets the profile and refreshes
  nothing until the next report. `takePlayback` reads the setting before
  `reportApp`, so turning it off in between is undone for that app until its
  next report.
- Reads still opening are not counted against "At most 2 reads run per account
  and 4 in all" (`transcodes.ts:30`), and outlive `forgetTranscodes`.
- In the player: a sleep timer, a track given up or another queue during an
  overlap leaves the incoming element playing; a pause and a play within the
  fade in which a track ends leave it silent; a seek's fade that outlives a
  change of track moves the new one; a seek while a position waits is lost.
- Turning repeat off during an overlap from the last track into the first ends
  the queue under it ("The natural end of the queue stops and does not wrap.",
  `player.svelte.ts:991`): the player shows it has stopped, and the first track
  goes on playing.
- "The buffered next track is dropped only when the move changed which track is
  next" (`player.svelte.ts:772`): next there is `upNext`, which is nothing after
  the last track, so with repeat on a move that changes the first track, or an
  addition at the end, keeps the old one buffered and does not stop an overlap
  into it.
- `stop` leaves a position waiting (`#pendingSeek`). After a queue is cleared
  while one waits, an addition and a press on play begin the new track at the old
  position, which the comment at `#loadCurrent` excludes
  (`player.svelte.ts:1262`); if it was buffered, it plays from its top with the
  bar at the old position.

## 14. Hazards

`PROJECT.json` lists, at their lines, the places where this code could go wrong
in a way a test would hardly reach, with the properties that would show it. Two
have no property: a queue saved by another browser replaces the host's while it
hosts, and every property of the queue would have to except it; and a refusal
that arrives late ends sessions begun since (`library.ts:42`), which no property
of `Sessions` forbids. A state report
of a browser lost on its way is not sent again, and playback handed over pauses
the sender whether or not the other takes it (`remote.svelte.ts`): remote
control is not modelled, and neither is listed.

## 15. Not modelled

Most of the repository's lines are pages and components (drawing what the
modules above hold), translations of HTTP interfaces (`backends/*`), parsers and
formats (zip, ogg, playlist files, CBOR, lyrics), and cryptographic checks:
sequential code without state between calls, which a test reaches. The map is
therefore a small share of all lines and most of the lines where several actors
change one state.

Cover cache and cover fill: a cover's file that goes while it is read is
answered as not cached, so a race costs one more read of the music server, and
the fill runs one job at a time. Settings
and setup write records whole; the one setting another part reads while it
changes is in `Listening`.

The modules are not composed: what one says about another's part (`EndSession`
and `Cut` in `TogetherParty`, `SessionsEnd` in `Transcodes`, `Addition` in
`Playback`) is an environment step that may come at any time, which allows more
than the other part does; a product would check little more at many times the
states.

## 16. Plan

*Done*: the ten models, in the order `TogetherQueue`, `TogetherParty`,
`Sessions`, `Playback`, `Transcodes`, `SignIn`, `Listening`, `History`, `Memos`,
`Shares`; the refinement of `Additions`; and the proofs about all ten: every
invariant of a passing run is a theorem.

*Left*, most useful first: passkeys in `SignIn`; the host's queue replaced or
reordered in `TogetherQueue`; casting in `Playback`; remote control, with the
handing over of playback.
