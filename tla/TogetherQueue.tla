--------------------------- MODULE TogetherQueue ---------------------------
(***************************************************************************)
(* The queue of a listen-together party: what members add, from the        *)
(* server's memory (lib/server/together.ts) to the queue of the host's     *)
(* browser (lib/client/together.svelte.ts, lib/client/player.svelte.ts).   *)
(*                                                                         *)
(* The server keeps an addition until the host's browser reports having    *)
(* taken it.  Additions reach the browser over an event stream that drops  *)
(* and reopens; reports go back as HTTP requests that fail, or arrive      *)
(* after the browser gave up on them; the page is reloaded, or crashes     *)
(* before its queue is saved.  One party, while it lasts; who may join,    *)
(* listen and add is in TogetherParty.                                     *)
(*                                                                         *)
(* Every function of the server module is synchronous, so each is one      *)
(* step.  The browser's work is a promise chain: a step of it runs until   *)
(* it awaits an answer, and the next one starts when it is done.           *)
(***************************************************************************)
EXTENDS Integers, Sequences, FiniteSets

CONSTANTS
    Members,            \* the accounts that have joined
    Songs,              \* track ids
    Own,                \* the tracks the host queued before, a sequence of Songs
    MaxAdded,           \* MAX_ADDED
    MaxAddedPerMember,  \* MAX_ADDED_PER_MEMBER
    \* Bounds of the model
    MaxSeq,             \* additions made
    MaxPipe,            \* events on their way to the host's browser
    Faults,             \* what may go wrong
    MaxTurns            \* faults, and moves of the host's in its queue, in all;
                        \* leaving a report that may still arrive counts for two

ASSUME ConstantsAssumption ==
    /\ Own \in Seq(Songs)
    /\ MaxAdded \in Nat /\ MaxAddedPerMember \in Nat
    /\ {MaxSeq, MaxPipe, MaxTurns} \subseteq Nat
    /\ Faults \subseteq {"drop", "fail", "late", "reload", "crash"}

VARIABLES
    \* The party, in the server's memory
    made,       \* every addition ever made, in order: its place is its seq
    additions,  \* the seqs the server still holds
    withdrawn,  \* those of them taken back while the host's browser held them
    applied,    \* the highest seq the host's browser has reported taken
    upcoming,   \* the host's last report, as rows
    removed,    \* members the host removed
    \* Between the two
    open,       \* whether the host's event stream is connected
    pipe,       \* events sent to the host's browser and not handled yet
    post,       \* the report the browser awaits the answer to
    late,       \* reports the browser gave up on that may still arrive
    \* The host's browser
    follows,    \* whether this page follows the party's stream
    here,       \* whether the saved queue is back after a (re)load
    queue,      \* player.queue
    index,      \* player.index, from 1
    taken,      \* #applied
    reported,   \* #reported
    doing,      \* the step of #work that awaits an answer, if any
    \* The account's play state, saved on the server
    saved,
    \* Bookkeeping, read by the properties alone
    dropped,    \* additions the server let go before they were reported taken
    left,       \* tracks the host took out of its queue
    lost,       \* additions in a queue that was not saved or not restored
    resent,     \* additions in the saved queue at a reload, not yet reported
    struck,     \* the tracks #drop took out, with the addition each was taken for
    unnamed,    \* whether a page went on without its additions named
    skipped,    \* additions an abandoned step left untaken, and not taken since
    unread,     \* whether the last report's answer came without its body
    loads,      \* times the host's page was loaded again
    turns       \* faults and moves so far

server  == <<made, additions, withdrawn, applied, upcoming, removed>>
network == <<open, pipe, post, late>>
player  == <<queue, index>>
browser == <<follows, here, queue, index, taken, reported, doing>>
history == <<dropped, left, lost, resent, struck, unnamed, skipped, unread>>
vars == <<server, network, browser, saved, history, loads, turns>>

-----------------------------------------------------------------------------
(* Types *)

Seqs == 1..MaxSeq

\* A track of the player's queue.  `src` is the addition it came from, or
\* below 0 for one of the host's own; the code does not know it, and tells
\* tracks apart as objects, which `src` and `page` (the load it was taken in)
\* stand for.  `by` is addedBy.entry, 0 without.
Track == [song : Songs, src : Int, page : Nat, by : Nat]

\* A row of what is up next, as the listeners are shown it.
Row == [song : Songs, by : Nat]

\* `host`, `add` and `remove`: an `add` carries one addition and a `remove`
\* one withdrawal.
Event == [kind : {"host", "add", "remove"}, applied : Nat,
          waiting : SUBSET Nat, withdrawn : SUBSET Nat]

Post == [state : {"none", "sent", "answered"}, applied : Nat,
         tracks : Seq(Track), answer : Seq(Nat)]

NoPost == [state |-> "none", applied |-> 0, tracks |-> <<>>, answer |-> <<>>]

Signature == [applied : Nat, songs : Seq(Songs)]
NotReported == [applied |-> -1, songs |-> <<>>]

SongsOf(tracks) == [i \in DOMAIN tracks |-> tracks[i].song]
SrcsOf(tracks)  == {tracks[i].src : i \in DOMAIN tracks}
Min2(a, b) == IF a < b THEN a ELSE b
Max2(a, b) == IF a > b THEN a ELSE b

-----------------------------------------------------------------------------
(* The server: lib/server/together.ts *)

seq == Len(made)

\* The additions the host's browser has not reported taken.
Waiting == {k \in additions : k > applied}

\* Sends an event to the host's browser, when its stream is open.
ToHost(event) == pipe' = IF open THEN Append(pipe, event) ELSE pipe

\* Mutant of HostEvent: a reopened stream is not told what waits.
HostEventBare ==
    [kind |-> "host", applied |-> applied, waiting |-> {}, withdrawn |-> withdrawn]
\* What the host's stream is sent as it opens.
HostEvent ==
    [kind |-> "host", applied |-> applied, waiting |-> Waiting, withdrawn |-> withdrawn]
AddEvent(k) ==
    [kind |-> "add", applied |-> 0, waiting |-> {k}, withdrawn |-> {}]
RemoveEvent(k) ==
    [kind |-> "remove", applied |-> 0, waiting |-> {}, withdrawn |-> {k}]

HasRoom(m) ==
    /\ Cardinality(additions) < MaxAdded
    /\ Cardinality({k \in additions : made[k].member = m}) < MaxAddedPerMember

\* A member adds a track, once the lookups are done.
Enqueue(m, s) ==
    /\ seq < MaxSeq /\ Len(pipe) < MaxPipe
    /\ m \notin removed
    /\ HasRoom(m)
    /\ made' = Append(made, [song |-> s, member |-> m])
    /\ additions' = additions \cup {seq + 1}
    /\ ToHost(AddEvent(seq + 1))
    /\ UNCHANGED <<withdrawn, applied, upcoming, removed, open, post, late,
                   browser, saved, history, loads, turns>>

\* A member takes back one of its additions: dropped here while the host's
\* browser has not reported it, otherwise marked, and that browser told.  (A
\* bound: each addition once; again would only send the event again.)
Withdraw(m, k) ==
    /\ Len(pipe) < MaxPipe
    /\ m \notin removed
    /\ k \in additions \ withdrawn /\ made[k].member = m
    /\ \/ /\ k > applied
          /\ additions' = additions \ {k}
          /\ dropped' = dropped \cup {k}
          /\ UNCHANGED <<withdrawn, pipe>>
       \/ /\ k <= applied
          /\ withdrawn' = withdrawn \cup {k}
          /\ ToHost(RemoveEvent(k))
          /\ UNCHANGED <<additions, dropped>>
    /\ UNCHANGED <<made, applied, upcoming, removed, open, post, late,
                   browser, saved, left, lost, resent, struck, unnamed, skipped, unread,
                   loads, turns>>

\* The host removes a member: its additions not reported taken go with it.
RemoveMember(m) ==
    /\ m \notin removed
    /\ removed' = removed \cup {m}
    /\ LET gone == {k \in Waiting : made[k].member = m}
       IN  /\ additions' = additions \ gone
           /\ dropped' = dropped \cup gone
    /\ UNCHANGED <<made, withdrawn, applied, upcoming, network, browser, saved,
                   left, lost, resent, struck, unnamed, skipped, unread, loads, turns>>

\* Mutant of Found: matched by place alone, whatever the song.
FoundByPlace(songs, from) ==
    [i \in DOMAIN songs |->
        LET its(k) == Cardinality({l \in from : l <= k}) = i
        IN  IF \E k \in from : its(k) THEN CHOOSE k \in from : its(k) ELSE 0]
\* The addition each reported track is: additions are matched by song id, each
\* once and in the order made.  0 for a track that is none.
Found(songs, from) ==
    [i \in DOMAIN songs |->
        LET same == {k \in from : made[k].song = songs[i]}
            nth  == Cardinality({j \in 1..i : songs[j] = songs[i]})
            its(k) == Cardinality({l \in same : l <= k}) = nth
        IN  IF \E k \in same : its(k) THEN CHOOSE k \in same : its(k) ELSE 0]

Answer(upTo, songs) ==
    Found(songs, {k \in additions : k <= Max2(applied, Min2(upTo, seq))})

\* Mutant of StillWithdrawn: a mark outlives the addition it is on.
StillWithdrawnAll(held) == withdrawn
\* The marks left once only some additions are held.
StillWithdrawn(held) == withdrawn \cap held

\* Records a report of what is up next, and lets go of the additions taken
\* and no longer in it.
ReportQueue(upTo, songs) ==
    LET found == Answer(upTo, songs)
    IN  /\ applied' = Max2(applied, Min2(upTo, seq))
        /\ additions' = {k \in additions : k > applied' \/ \E i \in DOMAIN found : found[i] = k}
        /\ withdrawn' = StillWithdrawn(additions')
        /\ upcoming' = [i \in DOMAIN songs |-> [song |-> songs[i], by |-> found[i]]]
        /\ UNCHANGED <<made, removed>>

\* How many rows lead the host's report with an addition each.
Lead == Cardinality({n \in DOMAIN upcoming : \A i \in 1..n : upcoming[i].by # 0})

\* The sequences of all of S, oldest first: there is one.
OldestFirst(S) ==
    {f \in [1..Cardinality(S) -> S] :
        /\ S = {f[i] : i \in DOMAIN f}
        /\ \A i, j \in DOMAIN f : i < j => f[i] < f[j]}

\* What everyone is shown: the additions waiting come after those that lead
\* the host's report.
QueueView ==
    LET rows == CHOOSE f \in OldestFirst(Waiting) : TRUE
        waiting == [i \in DOMAIN rows |-> [song |-> made[rows[i]].song, by |-> rows[i]]]
    IN  SubSeq(upcoming, 1, Lead) \o waiting \o SubSeq(upcoming, Lead + 1, Len(upcoming))

-----------------------------------------------------------------------------
(* What may go wrong, within the bound *)

Turns(n) == turns + n <= MaxTurns /\ turns' = turns + n
Turn == Turns(1)
Fault(kind) == kind \in Faults /\ Turn

-----------------------------------------------------------------------------
(* The event stream *)

\* The browser's stream opens, or opens again: it is told what to take or drop.
StreamOpens ==
    /\ follows = "yes" /\ ~open /\ Len(pipe) < MaxPipe
    /\ open' = TRUE
    /\ pipe' = Append(pipe, HostEvent)
    /\ UNCHANGED <<server, post, late, browser, saved, history, loads, turns>>

\* It drops.  The events not received yet are lost; one being handled is not.
StreamDrops ==
    /\ open /\ Fault("drop")
    /\ open' = FALSE
    /\ \E n \in 0..Len(pipe) :
        /\ doing = "naming" => n > 0
        /\ pipe' = SubSeq(pipe, 1, n)
    /\ UNCHANGED <<server, post, late, browser, saved, history, loads>>

\* What this page knows of the party it hosts.
Follows(now) ==
    /\ follows' = now
    /\ UNCHANGED <<server, network, here, queue, index, taken, reported, doing, saved,
                   history, loads>>

\* resume: a page loaded again asks once whether it hosts a party.
Attach == follows = "asking" /\ Follows("yes") /\ UNCHANGED turns
AttachFails == follows = "asking" /\ Follows("no") /\ Fault("fail")

\* The stream is answered with an error: EventSource does not try again.
StreamRefused == follows = "yes" /\ ~open /\ Follows("refused") /\ Fault("fail")

\* start, pressed by a host whose page knows of no party: it is given the one
\* it has.
StartAgain == follows = "no" /\ Follows("yes") /\ UNCHANGED turns

-----------------------------------------------------------------------------
(* The host's player: lib/client/player.svelte.ts *)

Upcoming(q) == SubSeq(q, index + 1, Len(q))

\* Mutant of RunEnd: always right behind the current track.
RunEndNone(q) == index
\* Where the additions behind the current track end.
RunEnd(q) ==
    index + Cardinality({n \in (index + 1)..Len(q) : \A i \in (index + 1)..n : q[i].by # 0})

\* Additions one after the other into the queue: behind the current track and
\* the additions already there, or as the whole queue when it is empty.
QueueAdditions(q, tracks) ==
    IF q = <<>> THEN tracks
    ELSE SubSeq(q, 1, RunEnd(q)) \o tracks \o SubSeq(q, RunEnd(q) + 1, Len(q))

\* q without the tracks at these positions.
Without(q, gone) ==
    LET now(i)  == i - Cardinality({j \in gone : j < i})
        past(n) == Cardinality({i \in gone : now(i) <= n})
    IN  [n \in 1..(Len(q) - Cardinality(gone)) |-> q[n + past(n)]]

\* The host plays the next track or the one before.
Skip(by) ==
    /\ here /\ Turn
    /\ index + by \in DOMAIN queue
    /\ index' = index + by
    /\ UNCHANGED <<server, network, follows, here, queue, taken, reported, doing, saved,
                   history, loads>>

\* The host takes a track out of the queue.
RemoveAt(i) ==
    /\ here /\ Turn
    /\ i \in DOMAIN queue
    /\ queue' = Without(queue, {i})
    /\ index' = IF i < index THEN index - 1
                ELSE IF i = index THEN Max2(1, Min2(index, Len(queue) - 1))
                ELSE index
    /\ left' = left \cup {queue[i].src}
    /\ UNCHANGED <<server, network, follows, here, taken, reported, doing, saved,
                   dropped, lost, resent, struck, unnamed, skipped, unread, loads>>

\* The play state is a list of ids: no track says whose addition it is.
Unmarked(q) == [i \in DOMAIN q |-> [q[i] EXCEPT !.by = 0]]
PlayState == [queue |-> Unmarked(queue), index |-> index]

\* The debounced write of the queue.
Persist ==
    /\ here /\ saved # PlayState
    /\ saved' = PlayState
    /\ UNCHANGED <<server, network, browser, history, loads, turns>>

\* The saved queue is back after a reload.
Restore ==
    /\ ~here
    /\ here' = TRUE
    /\ queue' = saved.queue
    /\ index' = saved.index
    /\ UNCHANGED <<server, network, follows, taken, reported, doing, saved, history, loads,
                   turns>>

\* It could not be looked up, and the page goes on without it.
RestoreFails ==
    /\ ~here /\ Fault("fail")
    /\ here' = TRUE
    /\ lost' = lost \cup SrcsOf(saved.queue)
    /\ UNCHANGED <<server, network, follows, queue, index, taken, reported, doing, saved,
                   dropped, left, resent, struck, unnamed, skipped, unread, loads>>

-----------------------------------------------------------------------------
(* The host's browser: lib/client/together.svelte.ts *)

\* #reportQueue: posts what is up next in queue `q`, having taken up to `upTo`,
\* and awaits the answer as `step`; nothing when that was last reported.
Report(q, upTo, last, always, step) ==
    LET signature == [applied |-> upTo, songs |-> SongsOf(Upcoming(q))]
    IN  IF ~always /\ signature = last
        THEN /\ post' = NoPost
             /\ reported' = last
             /\ doing' = "idle"
        ELSE /\ post' = [state |-> "sent", applied |-> upTo,
                         tracks |-> Upcoming(q), answer |-> <<>>]
             /\ reported' = signature
             /\ doing' = step

\* #drop of each entry: the first track still to play that carries it.
DropsAt(q, entries) ==
    {i \in (index + 1)..Len(q) : /\ q[i].by \in entries
                                 /\ \A j \in (index + 1)..(i - 1) : q[j].by # q[i].by}

\* #take of each addition not taken yet, oldest first.
Addition(k) == [song |-> made[k].song, src |-> k, page |-> loads, by |-> k]

\* Mutant of NotTaken: takes what it has taken before.
NotTakenAny(event) == event.waiting
NotTaken(event) == {k \in event.waiting : k > taken}

\* The rest of a step of #work: drops and takes what the event says, and
\* reports the queue.
Handle(q, event, last) ==
    LET gone == DropsAt(q, event.withdrawn)
    IN  \E new \in OldestFirst(NotTaken(event)) :
            /\ queue' = QueueAdditions(Without(q, gone), [n \in DOMAIN new |-> Addition(new[n])])
            /\ taken' = IF new = <<>> THEN taken ELSE new[Len(new)]
            /\ Report(queue', taken', last, FALSE, "closing")
            /\ struck' = struck \cup {<<q[i].by, q[i].src>> : i \in gone}
            /\ skipped' = skipped \ NotTaken(event)

\* Mutant of Marked: names tracks by their place when the report was sent.
MarkedByPlace(q) ==
    [i \in DOMAIN q |->
        IF i - index \in DOMAIN post.answer THEN [q[i] EXCEPT !.by = post.answer[i - index]]
        ELSE q[i]]
\* The server's answer names the additions among the tracks it was sent,
\* wherever they are in the queue by now.
Marked(q) ==
    LET at(i) == {j \in DOMAIN post.tracks : /\ post.tracks[j].src = q[i].src
                                             /\ post.tracks[j].page = q[i].page}
    IN  [i \in DOMAIN q |->
            IF at(i) = {} THEN q[i]
            ELSE [q[i] EXCEPT !.by = post.answer[CHOOSE j \in at(i) : TRUE]]]

\* The step for a `host` event reports first, so that a queue restored from
\* its ids has its additions named before any is looked for.
BeginHost ==
    /\ here /\ doing = "idle"
    /\ pipe # <<>> /\ Head(pipe).kind = "host"
    /\ taken' = Max2(taken, Head(pipe).applied)
    /\ Report(queue, taken', reported, TRUE, "naming")
    /\ UNCHANGED <<server, open, pipe, late, follows, here, queue, index, saved, history, loads,
                   turns>>

\* The steps for `add` and `remove`.
Begin ==
    /\ here /\ doing = "idle"
    /\ pipe # <<>> /\ Head(pipe).kind # "host"
    /\ Handle(queue, Head(pipe), reported)
    /\ pipe' = Tail(pipe)
    /\ UNCHANGED <<server, open, late, follows, here, index, saved,
                   dropped, left, lost, resent, unnamed, unread, loads, turns>>

\* The check of every second: reports a queue that has changed.
Check ==
    /\ follows \in {"yes", "refused"} /\ here /\ doing = "idle"
    /\ reported # [applied |-> taken, songs |-> SongsOf(Upcoming(queue))]
    /\ Report(queue, taken, reported, FALSE, "closing")
    /\ UNCHANGED <<server, open, pipe, late, follows, here, queue, index, taken,
                   saved, history, loads, turns>>

\* The step goes on, or ends, with queue `q` and last report `last`.
Resume(q, last) ==
    \/ /\ doing = "closing"
       /\ doing' = "idle" /\ post' = NoPost
       /\ queue' = q /\ reported' = last
       /\ UNCHANGED <<pipe, taken, struck, skipped>>
    \/ /\ doing = "naming"
       /\ Handle(q, Head(pipe), last)
       /\ pipe' = Tail(pipe)

\* The server handles the report awaited.
Receive ==
    /\ post.state = "sent"
    /\ ReportQueue(post.applied, SongsOf(post.tracks))
    /\ post' = [post EXCEPT !.state = "answered",
                            !.answer = Answer(post.applied, SongsOf(post.tracks))]
    /\ UNCHANGED <<open, pipe, late, browser, saved, history, loads, turns>>

\* Its answer arrives.
Answered ==
    /\ post.state = "answered"
    /\ Resume(Marked(queue), reported)
    /\ unread' = FALSE
    /\ UNCHANGED <<server, open, late, follows, here, index, saved,
                   dropped, left, lost, resent, unnamed, loads, turns>>

\* Its answer arrives, but not the body: the rest of the step is not run, and
\* what was sent stays what was last reported.
BodyLost ==
    /\ post.state = "answered" /\ Fault("fail")
    /\ doing' = "idle" /\ post' = NoPost
    /\ unread' = TRUE
    /\ \/ /\ doing = "closing"
          /\ UNCHANGED <<pipe, skipped, unnamed>>
       \/ /\ doing = "naming"
          /\ pipe' = Tail(pipe)
          /\ skipped' = skipped \cup NotTaken(Head(pipe))
          /\ unnamed' = TRUE
    /\ UNCHANGED <<server, open, late, follows, here, queue, index, taken, reported, saved,
                   dropped, left, lost, resent, struck, loads>>

\* A request the browser no longer waits for may still be handled, later.
Abandon ==
    \/ UNCHANGED late /\ Turn
    \/ /\ post.state = "sent" /\ "late" \in Faults /\ Turns(2)
       /\ late' = late \cup {[applied |-> post.applied, songs |-> SongsOf(post.tracks)]}

\* Mutant of AfterFailure: what failed counts as reported.
AfterFailureReported == reported
AfterFailure == NotReported

\* The request or its answer is lost, or the answer is an error: the step goes
\* on, and the next check asks again.
Fails ==
    /\ post.state # "none"
    /\ "fail" \in Faults /\ Abandon
    /\ Resume(queue, AfterFailure)
    /\ unnamed' = (unnamed \/ doing = "naming")
    /\ unread' = FALSE
    /\ UNCHANGED <<server, open, follows, here, index, saved, dropped, left, lost, resent, loads>>

\* A report given up on arrives after all; nobody reads the answer.
ReceiveLate ==
    \E request \in late :
        /\ late' = late \ {request}
        /\ ReportQueue(request.applied, request.songs)
        /\ UNCHANGED <<open, pipe, post, browser, saved, history, loads, turns>>

\* The page goes, and a new one finds play state `s`.  The stream, the steps
\* and the marks go with it.
PageGoes(s) ==
    /\ Abandon /\ loads' = loads + 1
    /\ open' = FALSE /\ pipe' = <<>> /\ post' = NoPost
    /\ follows' = "asking" /\ here' = FALSE /\ queue' = <<>> /\ index' = 1
    /\ taken' = 0 /\ reported' = NotReported /\ doing' = "idle"
    /\ saved' = s
    /\ resent' = resent \cup {k \in SrcsOf(s.queue) : k > applied}
    /\ unread' = FALSE
    /\ UNCHANGED <<server, dropped, left, struck, unnamed, skipped>>

\* A reload writes the queue on its way out.
Reload ==
    /\ "reload" \in Faults
    /\ PageGoes(IF here /\ queue # <<>> THEN PlayState ELSE saved)
    /\ UNCHANGED lost

\* A crash, or a killed tab, writes nothing.
Crash ==
    /\ "crash" \in Faults
    /\ PageGoes(saved)
    /\ lost' = lost \cup (SrcsOf(queue) \ SrcsOf(saved.queue))

-----------------------------------------------------------------------------
(* The specification *)

OwnTracks == [i \in DOMAIN Own |-> [song |-> Own[i], src |-> -i, page |-> 0, by |-> 0]]

\* A party just started, its host's browser about to open the stream.
Init ==
    /\ made = <<>> /\ additions = {} /\ withdrawn = {} /\ applied = 0
    /\ upcoming = <<>> /\ removed = {}
    /\ open = FALSE /\ pipe = <<>> /\ post = NoPost /\ late = {}
    /\ follows = "yes" /\ here = TRUE /\ queue = OwnTracks /\ index = 1
    /\ taken = 0 /\ reported = NotReported /\ doing = "idle"
    /\ saved = PlayState
    /\ dropped = {} /\ left = {} /\ lost = {} /\ resent = {} /\ struck = {}
    /\ unnamed = FALSE /\ skipped = {} /\ unread = FALSE
    /\ turns = 0 /\ loads = 0

Member ==
    \E m \in Members : \/ \E s \in Songs : Enqueue(m, s)
                       \/ \E k \in Seqs : Withdraw(m, k)

Host ==
    \/ \E m \in Members : RemoveMember(m)
    \/ Skip(1) \/ Skip(-1)
    \/ \E i \in DOMAIN queue : RemoveAt(i)
    \/ StartAgain

Work == BeginHost \/ Begin \/ Check \/ Answered

Trouble ==
    \/ StreamDrops \/ StreamRefused \/ AttachFails
    \/ Fails \/ BodyLost \/ RestoreFails \/ Reload \/ Crash

Next == Member \/ Host \/ Work \/ Receive \/ ReceiveLate
          \/ Attach \/ StreamOpens \/ Restore \/ Persist \/ Trouble

\* The browser's event loop and the server run what is ready, the one request
\* of a loaded page and the lookup of its saved queue end, and EventSource opens
\* a dropped stream again.  (Ended otherwise, they are AttachFails, RestoreFails
\* and StreamRefused.)
Fairness ==
    /\ WF_vars(Work) /\ WF_vars(Receive)
    /\ WF_vars(Attach) /\ WF_vars(StreamOpens) /\ WF_vars(Restore)

Spec == Init /\ [][Next]_vars /\ Fairness

-----------------------------------------------------------------------------
(* Properties *)

\* The type invariant: among the rest, that `applied` never passes the last
\* addition made, that only held additions are marked withdrawn, and that
\* `index` stays in the queue.
TypeOK ==
    /\ made \in Seq([song : Songs, member : Members]) /\ seq <= MaxSeq
    /\ additions \subseteq 1..seq
    /\ withdrawn \subseteq additions
    /\ applied \in 0..seq
    /\ upcoming \in Seq(Row)
    /\ removed \subseteq Members
    /\ open \in BOOLEAN
    /\ pipe \in Seq(Event)
    /\ post \in Post
    /\ late \subseteq Signature
    /\ follows \in {"asking", "yes", "refused", "no"}
    /\ here \in BOOLEAN
    /\ queue \in Seq(Track)
    /\ index \in 1..Max2(1, Len(queue))
    /\ taken \in 0..seq
    /\ reported \in Signature \cup {NotReported}
    /\ doing \in {"idle", "naming", "closing"}
    /\ saved \in [queue : Seq(Track), index : Nat]
    /\ dropped \subseteq Nat /\ left \subseteq Int /\ lost \subseteq Int
    /\ resent \subseteq Int
    /\ struck \subseteq Nat \X Int /\ unnamed \in BOOLEAN
    /\ skipped \subseteq Nat /\ unread \in BOOLEAN
    /\ turns \in Nat /\ loads \in Nat

\* What #drop took out of the player's queue.
TakenBack == {s[2] : s \in struck}

\* No addition is lost between the server and the player: until it is taken
\* back, or its member is removed, before the host's browser has reported it,
\* the server holds it as waiting or it is in the queue, unless it was taken
\* out there, or was in a queue that crashed unsaved or could not be restored.
\* The server counts every addition up to `applied` as taken, whatever was
\* dropped, reloaded, failed or late in between (together.ts reportQueue).
\* Excepted too is what an answer without a body left untaken (`skipped`): the
\* next addition taken moves #applied past it.
NoneLost ==
    \A k \in 1..seq :
        \/ k \in Waiting \/ k \in dropped
        \/ k \in SrcsOf(queue) \/ (~here /\ k \in SrcsOf(saved.queue))
        \/ k \in left \/ k \in TakenBack \/ k \in lost \/ k \in skipped

\* The party keeps what Additions promises, as the server sees it, through every
\* report that fails, is late or is handled out of turn.
Promise == INSTANCE Additions WITH
    count <- seq, waiting <- Waiting, playing <- additions \ Waiting, asked <- withdrawn
Promised == Promise!Spec

\* An addition is in the queue once, however often the stream reopens (#take),
\* except where the page was reloaded with it in the saved queue and not yet
\* reported: the server sends it again, and the new page cannot know it.
OnceEach ==
    \A i, j \in DOMAIN queue :
        i # j /\ queue[i].src = queue[j].src => queue[i].src \in resent

\* Whether song `s` is that of one addition at most, and of none of the host's.
OnlyOnce(s) ==
    /\ \A j, k \in 1..seq : made[j].song = s /\ made[k].song = s => j = k
    /\ (\E k \in 1..seq : made[k].song = s) => \A i \in DOMAIN Own : Own[i] # s
\* Whether every song added is.
SongsOnce == \A k \in 1..seq : OnlyOnce(made[k].song)

\* The song of the track that came from `src`.
SongOf(src) == IF src > 0 THEN made[src].song ELSE Own[-src]

\* #drop takes out a track of the song that was taken back, and where no other
\* in the party is of that song, the very track: never another's or the host's.
\* (Of a song in the party twice it may be the other one: see the findings.)
OnlyTakenBack ==
    \A s \in struck :
        /\ s[1] \in 1..seq /\ made[s[1]].song = SongOf(s[2])
        /\ OnlyOnce(made[s[1]].song) => s[1] = s[2]

\* A track carries the name of a member who added its song, and where no other
\* in the party is of that song, of the one who added it; or no name, though
\* names come with answers that arrive when the queue has moved on, and are
\* found again from ids after a reload.
MarksTrue ==
    \A i \in DOMAIN queue :
        LET track == queue[i]
        IN  track.by # 0 =>
                /\ track.by \in 1..seq /\ made[track.by].song = track.song
                /\ OnlyOnce(track.song) => track.by = track.src

\* Additions that follow each other with nothing of the host's between them are
\* played in the order made (queueAddition), unless the host took a track out,
\* which may bring two such runs together, one came twice, a page took more
\* before its own were named, or a song is in the party twice: the names found
\* again for two of one song may be the wrong way round.
InOrder ==
    SongsOnce /\ resent = {} /\ ~unnamed /\ left = {} =>
        \A i, j \in (index + 1)..Len(queue) :
            i < j /\ (\A n \in i..j : queue[n].by # 0) => queue[i].by < queue[j].by

\* Whether the host's page is still told of the party: its one request, and its
\* stream, were not refused.
Told == follows \in {"asking", "yes"}

\* Once host, members and network leave it alone, what listeners are shown is
\* what the host's queue holds, names included.  Excepted are a page that is not
\* told of the party, an answer that came without its body and that no later
\* report makes good, and additions it left waiting.  (Without late reports.)
Shown(q) == [i \in DOMAIN q |-> [song |-> q[i].song, by |-> q[i].by]]
Converges ==
    <>[](\/ QueueView = Shown(Upcoming(queue))
         \/ ~Told \/ unread \/ skipped \cap Waiting # {})

\* An addition that waits is taken in the end, or dropped, with the same two
\* exceptions: nobody offers again what an abandoned step left, before the
\* stream opens again.
Arrives == \A k \in Seqs : (k \in Waiting) ~> (k \notin Waiting \/ ~Told \/ k \in skipped)

=============================================================================
