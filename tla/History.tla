------------------------------ MODULE History ------------------------------
(***************************************************************************)
(* The play history of one account (lib/server/history.ts), and how plays  *)
(* get into it: from its browsers (routes/api/playback), from Navidrome    *)
(* through its plugin as they happen and as pages of its scrobble history  *)
(* (lib/server/plugin.ts), and from the music server's date of the last    *)
(* play of each song.                                                      *)
(*                                                                         *)
(* Navidrome logs every play, those made here too, so each play may arrive *)
(* by several of these ways, and more than once by each.  A play is known  *)
(* by its number; the ones of one song are further apart than the windows  *)
(* within which two times are taken for one play (SAME_SCROBBLE_MS,        *)
(* SAME_PLAY_SLACK_MS).  The account keeps its history without a limit,    *)
(* which is the default.                                                   *)
(***************************************************************************)
EXTENDS Integers, Sequences, FiniteSets

CONSTANTS
    Slots,      \* requests under way
    PageSize,   \* scrobbles in a page of the plugin
    OldPlays,   \* plays in Navidrome's scrobble history at first
    \* Bounds of the model
    MaxPlays,   \* plays made, those included
    MaxAsked,   \* imports asked for, and times the history is cleared
    MaxFaults   \* failures, restarts, answers not waited for

ASSUME HistoryAssumption ==
    /\ {OldPlays, MaxPlays, MaxAsked, MaxFaults} \subseteq Nat /\ PageSize \in Nat \ {0}
    /\ OldPlays <= MaxPlays

VARIABLES
    history,    \* the rows of each play
    second,     \* when each play made so far was, in seconds
    navidrome,  \* Navidrome's scrobble history
    plugin,     \* the plugin: plays to send, pages sent, and whether it waits for an answer
    importing,  \* whether the account has an import running
    job,        \* its import of the scrobble history, where one is open
    turns,      \* the work waiting for its turn, the first under way
    request,    \* what each request is at
    asked, faults,
    \* Bookkeeping, read by the properties alone
    passed,     \* plays recorded while an import of last plays held them as missing
    missed      \* plays missing from the history when an import ended well

server == <<importing, job, turns, request>>
vars == <<history, second, navidrome, plugin, server, asked, faults, passed, missed>>

-----------------------------------------------------------------------------
(* Types *)

Plays == 1..MaxPlays
None == 0

\* `of` and `from`: the import it was asked for, and from when.
Page == [of : Nat, from : Nat, plays : SUBSET Plays, more : BOOLEAN]
NoPage == [of |-> None, from |-> 0, plays |-> {}, more |-> FALSE]

\* `songs`: the plays of the songs read as it opened.  `upto`: the last play made
\* before.  `astray`: it took a page sent again or late, or the history was
\* cleared meanwhile (read by ImportWhole alone).
Job == [id : Nat, from : Nat, edge : SUBSET Plays, songs : SUBSET Plays, upto : Nat,
        astray : BOOLEAN]
NoJob == [id |-> None, from |-> 0, edge |-> {}, songs |-> {}, upto |-> 0, astray |-> FALSE]

\* `plays`: what it brings, and then what it is about to insert.
Request == [kind : {"none", "play", "scrobble", "page", "open", "last"},
            at : {"idle", "lookup", "look", "turn", "checked", "added", "reading", "read"},
            plays : SUBSET Plays, page : Page, upto : Nat]
Resting == [kind |-> "none", at |-> "idle", plays |-> {}, page |-> NoPage, upto |-> 0]

\* Of an import: the plays it is to bring.
Due(j) == {n \in j.songs : n <= j.upto}

Held == {n \in Plays : history[n] > 0}

-----------------------------------------------------------------------------
(* Requests *)

At(r, kind, at) == request[r].kind = kind /\ request[r].at = at
Begins(r, new) == request[r] = Resting /\ request' = [request EXCEPT ![r] = new]
Goes(r, at, plays) == request' = [request EXCEPT ![r].at = at, ![r].plays = plays]
Rests(r) == request' = [request EXCEPT ![r] = Resting]

Asked == asked < MaxAsked /\ asked' = asked + 1
Fault == faults < MaxFaults /\ faults' = faults + 1

\* Mutant of MayWork: work does not wait for what came before it.
MayWorkAtOnce(r) == \E i \in DOMAIN turns : turns[i] = r
\* The work whose turn it is: inTurn.
MayWork(r) == turns # <<>> /\ Head(turns) = r

TakesTurn(r) == turns' = Append(turns, r)
\* The work under way is done, if it is its own.
LeavesTurn(r) == turns' = IF turns # <<>> /\ Head(turns) = r THEN Tail(turns) ELSE turns

\* What a request holds as missing, and is about to insert.
Missing(r) == IF request[r].at = "checked" THEN request[r].plays ELSE {}

\* Plays are inserted, whatever the history holds.
Insert(r, plays) ==
    /\ history' = [n \in Plays |-> IF n \in plays THEN history[n] + 1 ELSE history[n]]
    /\ passed' = passed \cup {n \in plays : \E u \in Slots \ {r} :
                                  n \in Missing(u) /\ "last" \in {request[r].kind, request[u].kind}}

-----------------------------------------------------------------------------
(* Playing *)

\* Plays are made in turn, each in the second of the one before or the next, and
\* no second holds more than a page (of a thousand).
Seconds(plays) ==
    {t \in [1..plays -> 1..plays] :
        /\ \A n \in 1..plays : IF n = 1 THEN t[n] = 1 ELSE t[n] - t[n - 1] \in {0, 1}
        /\ \A s \in 1..plays : Cardinality({n \in 1..plays : t[n] = s}) <= PageSize}

\* A play is made.
Play(n) ==
    /\ n = Len(second) + 1 /\ n \in Plays
    /\ second' \in {t \in Seconds(n) : SubSeq(t, 1, n - 1) = second}

\* Navidrome logs a play, and calls the plugin if it runs.
Logged(n, told) ==
    /\ navidrome' = navidrome \cup {n}
    /\ plugin' = IF told THEN [plugin EXCEPT !.plays = @ \cup {n}] ELSE plugin

\* In another app.
PlayElsewhere(n, told) ==
    /\ Play(n) /\ Logged(n, told)
    /\ UNCHANGED <<history, server, asked, faults, passed, missed>>

\* In a browser: POST /api/playback, with the lookup of the song.
PlayHere(r, n) ==
    /\ Play(n) /\ Begins(r, [Resting EXCEPT !.kind = "play", !.at = "lookup", !.plays = {n}])
    /\ UNCHANGED <<history, navidrome, plugin, importing, job, turns, asked, faults, passed, missed>>

\* recordPlay.  A failed write leaves the report alone.
Record(r) ==
    /\ At(r, "play", "lookup") /\ Goes(r, "added", request[r].plays)
    /\ \/ Insert(r, request[r].plays) /\ UNCHANGED faults
       \/ Fault /\ UNCHANGED <<history, passed>>
    /\ UNCHANGED <<second, navidrome, plugin, importing, job, turns, asked, missed>>

\* It is reported to the music server, where the account does that.
Reports(r) ==
    /\ At(r, "play", "added") /\ Rests(r)
    /\ \/ \E n \in request[r].plays, told \in BOOLEAN : Logged(n, told)
       \/ UNCHANGED <<navidrome, plugin>>
    /\ UNCHANGED <<history, second, importing, job, turns, asked, faults, passed, missed>>

-----------------------------------------------------------------------------
(* Plays as they happen *)

Scrobbling(n) == {r \in Slots : request[r].kind = "scrobble" /\ request[r].plays = {n}}

\* The plugin sends a play, and again if it has not waited for the answer:
\* takePlays, with its first look.
Scrobble(r, n) ==
    /\ n \in plugin.plays
    /\ Begins(r, [Resting EXCEPT !.kind = "scrobble", !.plays = {n},
                                 !.at = IF n \in Held THEN "added" ELSE "lookup"])
    /\ IF Scrobbling(n) = {} THEN UNCHANGED faults ELSE Fault
    /\ UNCHANGED <<history, second, navidrome, plugin, importing, job, turns, asked, passed, missed>>

\* The song is looked up, and the play is to be recorded: recordScrobble.
Found(r) ==
    /\ At(r, "scrobble", "lookup") /\ Goes(r, "turn", request[r].plays) /\ TakesTurn(r)
    /\ UNCHANGED <<history, second, navidrome, plugin, importing, job, asked, faults, passed, missed>>

\* The account cannot read the song, and the play is dropped.
NotFound(r) ==
    /\ At(r, "scrobble", "lookup") /\ Goes(r, "added", request[r].plays)
    /\ Fault
    /\ UNCHANGED <<history, second, navidrome, plugin, importing, job, turns, asked, passed, missed>>

\* The music server does not answer: the plugin keeps the play.
Unreachable(r) ==
    /\ At(r, "scrobble", "lookup") /\ Rests(r) /\ Fault
    /\ UNCHANGED <<history, second, navidrome, plugin, importing, job, turns, asked, passed, missed>>

\* Its turn has come: hasScrobble.
LooksAgain(r) ==
    /\ At(r, "scrobble", "turn") /\ MayWork(r)
    /\ Goes(r, IF request[r].plays \subseteq Held THEN "added" ELSE "checked", request[r].plays)
    /\ UNCHANGED <<history, second, navidrome, plugin, importing, job, turns, asked, faults, passed, missed>>

\* recordPlay, or the next page's rows (add).
Adds(r) ==
    /\ request[r].kind \in {"scrobble", "page"} /\ request[r].at = "checked"
    /\ Insert(r, request[r].plays) /\ Goes(r, "added", request[r].plays)
    /\ UNCHANGED <<second, navidrome, plugin, importing, job, turns, asked, faults, missed>>

\* The plugin is answered, and lets the play go.
Scrobbled(r) ==
    /\ At(r, "scrobble", "added") /\ Rests(r) /\ LeavesTurn(r)
    /\ plugin' = [plugin EXCEPT !.plays = @ \ request[r].plays]
    /\ UNCHANGED <<history, second, navidrome, importing, job, asked, faults, passed, missed>>

-----------------------------------------------------------------------------
(* Importing the scrobble history *)

\* importHistory with the plugin heard of: requestImport, openScrobbleImport.
\* (With MAX_IMPORTS of other accounts open it is refused, here or in Opens.)
Open(r) ==
    /\ ~importing /\ importing' = TRUE
    /\ Begins(r, [Resting EXCEPT !.kind = "open", !.at = "reading", !.upto = Len(second)])
    /\ Asked
    /\ UNCHANGED <<history, second, navidrome, plugin, job, turns, faults, passed, missed>>

\* The songs played are read, and the plugin's pages are awaited.
Opens(r) ==
    /\ At(r, "open", "reading") /\ Rests(r)
    /\ job' = [NoJob EXCEPT !.id = asked, !.songs = navidrome, !.upto = request[r].upto]
    /\ UNCHANGED <<history, second, navidrome, plugin, importing, turns, asked, faults, passed, missed>>

\* They cannot be read, or other accounts have opened MAX_IMPORTS meanwhile.
OpensNot(r) ==
    /\ At(r, "open", "reading") /\ Rests(r) /\ importing' = FALSE /\ Fault
    /\ UNCHANGED <<history, second, navidrome, plugin, job, turns, asked, passed, missed>>

\* The page of the scrobble history wanted: wanted, and the plugin.
PageFrom(from) ==
    LET later == {n \in navidrome : second[n] >= from}
        before(m, n) == second[m] < second[n] \/ (second[m] = second[n] /\ m < n)
        first == {n \in later : Cardinality({m \in later : before(m, n)}) < PageSize}
    IN [of |-> job.id, from |-> from, plays |-> first, more |-> first # later]

\* The plugin is told what is wanted at its poll, and sends it.
SendPage ==
    /\ job # NoJob /\ ~plugin.waits
    /\ plugin' = [plugin EXCEPT !.pages = @ \cup {PageFrom(job.from)}, !.waits = TRUE]
    /\ UNCHANGED <<history, second, navidrome, server, asked, faults, passed, missed>>

\* It has not waited for the answer, and polls again.
PollAgain ==
    /\ plugin.waits /\ plugin' = [plugin EXCEPT !.waits = FALSE] /\ Fault
    /\ UNCHANGED <<history, second, navidrome, server, asked, passed, missed>>

\* The import is over: finish, with the import's end.
Finish ==
    /\ job' = NoJob /\ importing' = FALSE

\* A page arrives: takeHistory, up to its turn.
TakePage(r, page) ==
    /\ page \in plugin.pages
    /\ plugin' = [plugin EXCEPT !.pages = @ \ {page}, !.waits = @ /\ job # NoJob]
    /\ IF job = NoJob THEN UNCHANGED <<request, turns, job>>
       ELSE /\ Begins(r, [kind |-> "page", at |-> "turn", plays |-> page.plays \ job.edge,
                          page |-> [page EXCEPT !.of = job.id], upto |-> 0])
            /\ TakesTurn(r)
            /\ job' = [job EXCEPT !.astray = @ \/ page.of # job.id \/ page.from # job.from
                                               \/ \E u \in Slots : /\ request[u].kind = "page"
                                                                   /\ request[u].page.of = job.id]
    /\ UNCHANGED <<history, second, navidrome, importing, asked, faults, passed, missed>>

\* Its turn has come: what the history lacks of it, unless the import has ended.
Lacks(r) ==
    /\ At(r, "page", "turn") /\ MayWork(r)
    /\ IF request[r].page.of = job.id
       THEN Goes(r, "checked", (request[r].plays \cap Due(job)) \ Held)
       ELSE Goes(r, "added", {})
    /\ UNCHANGED <<history, second, navidrome, plugin, importing, job, turns, asked, faults, passed, missed>>

\* Mutant of NextFrom: the rest of the last second is passed over.
NextFromAfter(last) == last + 1
\* A page ends within a second: the next one begins with it again.
NextFrom(last) == last

\* The page is added: the next one is wanted, or the import is over.
PageAdded(r) ==
    LET page == request[r].page
        seconds == {second[n] : n \in page.plays}
        missing == {n \in Due(job) : history[n] = 0}
    IN
    /\ At(r, "page", "added") /\ Rests(r) /\ LeavesTurn(r)
    /\ plugin' = [plugin EXCEPT !.waits = FALSE]
    /\ CASE page.of # job.id -> UNCHANGED <<job, importing, missed>>
         [] page.of = job.id /\ ~page.more ->
                Finish /\ missed' = IF job.astray THEN missed ELSE missed \cup missing
         [] OTHER ->
                /\ \E last \in seconds \cup {0} :
                      /\ \A s \in seconds : last >= s
                      /\ job' = IF last > job.from
                                THEN [job EXCEPT !.from = NextFrom(last),
                                                 !.edge = {n \in page.plays : second[n] = last}]
                                ELSE [job EXCEPT !.from = @ + 1, !.edge = {}]
                /\ UNCHANGED <<importing, missed>>
    /\ UNCHANGED <<history, second, navidrome, asked, faults, passed>>

\* No page comes for IMPORT_IDLE_MS, or the plugin may not read the history.
GivesUp ==
    /\ job # NoJob /\ Finish /\ Fault
    /\ UNCHANGED <<history, second, navidrome, plugin, turns, request, asked, passed, missed>>

\* A statement fails: the plugin is answered with an error, and sends it again.
WorkFails(r) ==
    /\ \/ request[r].at = "turn" /\ MayWork(r)
       \/ request[r].kind \in {"scrobble", "page"} /\ request[r].at = "checked"
    /\ Rests(r) /\ LeavesTurn(r) /\ Fault
    /\ plugin' = [plugin EXCEPT !.waits = @ /\ request[r].kind # "page"]
    /\ UNCHANGED <<history, second, navidrome, importing, job, asked, passed, missed>>

-----------------------------------------------------------------------------
(* Importing the last play of each song *)

\* importHistory where the plugin has not been heard of for a minute: importPlays.
ImportLast(r) ==
    /\ ~importing /\ importing' = TRUE
    /\ Begins(r, [Resting EXCEPT !.kind = "last", !.at = "reading", !.upto = Len(second)])
    /\ Asked
    /\ UNCHANGED <<history, second, navidrome, plugin, job, turns, faults, passed, missed>>

ReadLast(r) ==
    /\ At(r, "last", "reading")
    /\ Goes(r, "read", {n \in navidrome : n <= request[r].upto})
    /\ UNCHANGED <<history, second, navidrome, plugin, importing, job, turns, asked, faults, passed, missed>>

\* The plays the history holds are left out.
SelectHeld(r) ==
    /\ At(r, "last", "read") /\ Goes(r, "checked", request[r].plays \ Held)
    /\ UNCHANGED <<history, second, navidrome, plugin, importing, job, turns, asked, faults, passed, missed>>

InsertLast(r) ==
    /\ At(r, "last", "checked") /\ Insert(r, request[r].plays) /\ Rests(r) /\ importing' = FALSE
    /\ UNCHANGED <<second, navidrome, plugin, job, turns, asked, faults, missed>>

ImportFails(r) ==
    /\ request[r].kind = "last" /\ Rests(r) /\ importing' = FALSE /\ Fault
    /\ UNCHANGED <<history, second, navidrome, plugin, job, turns, asked, passed, missed>>

-----------------------------------------------------------------------------
(* The rest *)

\* clearHistory.
Clear ==
    /\ Asked /\ history' = [n \in Plays |-> 0]
    /\ job' = [job EXCEPT !.astray = job # NoJob]
    /\ UNCHANGED <<second, navidrome, plugin, importing, turns, request, faults, passed, missed>>

\* The server restarts: what it held in memory is gone.
Restart ==
    /\ Fault /\ importing' = FALSE /\ job' = NoJob /\ turns' = <<>>
    /\ request' = [r \in Slots |-> Resting] /\ plugin' = [plugin EXCEPT !.waits = FALSE]
    /\ UNCHANGED <<history, second, navidrome, asked, passed, missed>>

-----------------------------------------------------------------------------
(* The specification *)

Init ==
    /\ history = [n \in Plays |-> 0]
    /\ second \in Seconds(OldPlays) /\ navidrome = 1..OldPlays
    /\ plugin = [plays |-> {}, pages |-> {}, waits |-> FALSE]
    /\ importing = FALSE /\ job = NoJob /\ turns = <<>>
    /\ request = [r \in Slots |-> Resting]
    /\ asked = 0 /\ faults = 0 /\ passed = {} /\ missed = {}

Playing ==
    \/ \E n \in Plays, told \in BOOLEAN : PlayElsewhere(n, told)
    \/ \E r \in Slots : (\E n \in Plays : PlayHere(r, n)) \/ Record(r) \/ Reports(r)

Scrobbles(r) ==
    \/ \E n \in Plays : Scrobble(r, n)
    \/ Found(r) \/ NotFound(r) \/ Unreachable(r) \/ LooksAgain(r) \/ Scrobbled(r)

Importing(r) ==
    \/ Open(r) \/ Opens(r) \/ OpensNot(r) \/ Lacks(r) \/ PageAdded(r)
    \/ \E page \in plugin.pages : TakePage(r, page)
    \/ ImportLast(r) \/ ReadLast(r) \/ SelectHeld(r) \/ InsertLast(r) \/ ImportFails(r)

Next ==
    \/ Playing
    \/ \E r \in Slots : Scrobbles(r) \/ Importing(r) \/ Adds(r) \/ WorkFails(r)
    \/ SendPage \/ PollAgain \/ GivesUp \/ Clear \/ Restart

Spec == Init /\ [][Next]_vars

-----------------------------------------------------------------------------
(* Properties *)

\* No play is in the history twice, by whatever ways and however often it came
\* ("a look for a play and then its insert, which must not interleave with
\* another's").  An import of last plays does not take its turn: what it held as
\* missing while another recorded it is excepted.
PlayedOnce == \A n \in Plays : history[n] > 1 => n \in passed

\* An import of the scrobble history that ends well has brought every play it
\* was asked for, though pages failed and plays went on; unless it took a page
\* sent again or late, or the history was cleared meanwhile.
ImportWhole == missed = {}
=============================================================================
