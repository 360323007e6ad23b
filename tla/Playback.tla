------------------------------ MODULE Playback ------------------------------
(***************************************************************************)
(* The playback engine of a page (lib/client/player.svelte.ts): a queue,   *)
(* two audio elements that take turns, and everything that happens to them *)
(* after the press that asked for it.                                      *)
(*                                                                         *)
(* The listener presses; an element loads, plays, stalls, fails and runs   *)
(* out by itself; timers try a dropped stream again, ramp one track into   *)
(* the next, and bring the output down before a pause, a seek or a skip.   *)
(* Each handler is one step.  What it calls is an operator from a page to  *)
(* the page after it, so that a handler reads as the calls it makes.       *)
(*                                                                         *)
(* A position is the top of a track, one on the way, its last stretch      *)
(* (where the next one is buffered and the overlap begins) or its end.     *)
(* Not here: casting, a seek that waits for a whole transcode, levels,     *)
(* what is reported to the music server, and saving the queue.             *)
(***************************************************************************)
EXTENDS Integers, Sequences, FiniteSets

CONSTANTS
    Songs,              \* tracks; a queue holds one at most once
    NoSong,             \* no track: `null`, or an element without a source
    Restored,           \* the queue the page opens with
    Other,              \* another one, that a press on play of an album brings
    RecoveryAttempts,   \* RECOVERY_ATTEMPTS
    SkipLimit,          \* SKIP_LIMIT
    Last,               \* the last stretch of a track
    \* Bounds of the model
    Presses,            \* what the listener may press
    MaxPresses,         \* presses in all
    MaxFaults           \* stalls, failures and interruptions in all

ASSUME PlaybackAssumption ==
    /\ NoSong \notin Songs
    /\ Restored \in Seq(Songs) /\ Restored # <<>>
    /\ Other \in Seq(Songs) /\ Other # <<>>
    /\ {RecoveryAttempts, SkipLimit, MaxPresses, MaxFaults} \subseteq Nat
    /\ Last \in Nat \ {0}

VARIABLES
    graph,      \* whether the page plays through the graph (#chain)
    page,       \* the player and its two elements
    presses,    \* presses made
    faults      \* faults so far

playerVars == <<graph, page, presses, faults>>

-----------------------------------------------------------------------------
(* Types *)

Elements == {"a", "b"}
Partner(e) == IF e = "a" THEN "b" ELSE "a"

End == Last + 1
Positions == 0..End
Nowhere == -1      \* no position

\* An element.  `data` is what has arrived of `src`: "opening" until its
\* metadata has, "stalled" when it waits for more.
Element == [src : Songs \cup {NoSong}, paused : BOOLEAN, at : Positions,
            data : {"none", "opening", "ready", "stalled", "failed"}]
Empty == [src |-> NoSong, paused |-> TRUE, at |-> 0, data |-> "none"]
Opening(song) == [src |-> song, paused |-> TRUE, at |-> 0, data |-> "opening"]

\* A fade to silence in flight, and what it is for: the element to pause or
\* move and where to.  `late`: a later press of its kind has taken its place.
Fade == [kind : {"pause", "seek", "change"}, element : Elements,
         target : {Nowhere} \cup Positions, late : BOOLEAN]

\* What a timer asks for again, and from where.
Asked == [song : Songs \cup {NoSong}, at : {Nowhere} \cup Positions]
NoRetry == [song |-> NoSong, at |-> Nowhere]

\* The player.
Page == [queue : Seq(Songs), index : Nat, repeat : {"off", "all", "one"},
         sleep : BOOLEAN,                   \* the timer for the track's end
         engaged : BOOLEAN, playing : BOOLEAN, loading : BOOLEAN,
         error : BOOLEAN, stranded : BOOLEAN,
         primary : Elements, el : [Elements -> Element],
         preloadedFor : Songs \cup {NoSong},
         ramp : {"none", "timer", "graph"}, \* #fadeTimer, #chainFading
         time : Positions,                  \* currentTime
         pendingSeek : {Nowhere} \cup Positions,
         recoveries : Nat, recoveredFrom : Positions,
         retry : Asked,                     \* #recoveryTimer
         stall : BOOLEAN,                   \* #stallTimer
         skips : Nat,
         asking : SUBSET [element : Elements, song : Songs], \* #failed: HEADs out
         fades : Seq(Fade),                 \* #ducks
         \* Read by the properties alone
         astray : BOOLEAN,                  \* an overlap was let go of, not stopped
         held : BOOLEAN,                    \* paused by the system, or run out in a fade
         wrapped : BOOLEAN,                 \* the overlap began at the end of the queue
         sought : BOOLEAN]                  \* a position waiting was passed by, left, or let go of

Secondary(p) == Partner(p.primary)
Primary(p) == p.el[p.primary]
Current(p) == IF p.queue = <<>> THEN NoSong ELSE p.queue[p.index]

\* The track after this one.
Following(p) ==
    IF p.index < Len(p.queue) THEN p.queue[p.index + 1]
    ELSE IF p.repeat = "all" /\ p.queue # <<>> THEN p.queue[1] ELSE NoSong

\* Whether an element is heard.
Sounding(p, e) == p.el[e].data = "ready" /\ ~p.el[e].paused /\ p.el[e].at < End
\* Whether it is, or is going to be by itself.
Running(p, e) == p.el[e].data \notin {"none", "failed"} /\ ~p.el[e].paused

\* Whether a pause, a skip or a seek fades the output first.
Fades(p) == graph /\ ~Primary(p).paused

-----------------------------------------------------------------------------
(* What the handlers call *)

EndCrossfade(p) == [p EXCEPT !.ramp = "none"]

\* Mutant of AbandonCrossfade: the incoming track is not stopped.
AbandonRampOnly(p) == [p EXCEPT !.ramp = "none"]
AbandonCrossfade(p) ==
    IF p.ramp = "none" THEN p
    ELSE [p EXCEPT !.ramp = "none", !.el[Secondary(p)].paused = TRUE,
                   !.el[Secondary(p)].at = 0]

InvalidatePreload(p) ==
    LET q == AbandonCrossfade(p) IN
    IF q.preloadedFor = NoSong THEN q
    ELSE [q EXCEPT !.preloadedFor = NoSong, !.el[Secondary(q)] = Empty]

\* Mutant of CancelRecovery: leaves the timer running.
CancelStallOnly(p) == [p EXCEPT !.stall = FALSE]
CancelRecovery(p) == [p EXCEPT !.retry = NoRetry, !.stall = FALSE]

\* Mutant of OpenAt: the track begins again at its top.
OpenAtTop(p, song, position) ==
    [p EXCEPT !.pendingSeek = 0, !.el[p.primary] = Opening(song)]
\* Asks for `song` again, to be taken up at `position`.
OpenAt(p, song, position) ==
    [p EXCEPT !.pendingSeek = position, !.el[p.primary] = Opening(song)]

\* element.play() on the primary, with the events it brings: `play`, then
\* `playing` where there is something to play, `waiting` where there is not.
\* One that plays already raises none; one that failed makes no sound; one
\* that has ended begins again.
ElementPlay(p) ==
    LET x == Primary(p)
        q == [p EXCEPT !.el[p.primary].paused = FALSE, !.playing = TRUE,
                       !.el[p.primary].at = IF x.at = End THEN 0 ELSE x.at,
                       !.time = IF x.at = End THEN 0 ELSE @,
                       !.held = FALSE] IN
    IF ~x.paused \/ x.data \in {"none", "failed"} THEN p
    ELSE IF x.data = "ready"
         THEN [CancelRecovery(q) EXCEPT !.loading = FALSE, !.error = FALSE, !.skips = 0]
         ELSE [q EXCEPT !.loading = TRUE, !.stall = q.engaged]

\* element.pause() on the primary, and its `pause` event.
ElementPause(p) ==
    [p EXCEPT !.el[p.primary].paused = TRUE, !.playing = FALSE]

\* The buffered next track takes over: #swapElements.  One whose metadata has
\* come raises no event that would take up a position waiting.
Swapped(p) ==
    [p EXCEPT !.primary = Secondary(p), !.el[p.primary] = Empty,
              !.sought = p.pendingSeek # Nowhere /\ p.el[Secondary(p)].data = "ready"]

\* Mutant of Buffered: takes a failed one as well.
BufferedEvenFailed(p) ==
    /\ p.preloadedFor = Current(p)
    /\ p.el[Secondary(p)].data # "none"
\* Whether the second element holds the current track.
Buffered(p) ==
    /\ p.preloadedFor = Current(p)
    /\ p.el[Secondary(p)].data \notin {"none", "failed"}

\* #loadCurrent up to its play(): the buffered element where it holds the
\* track, a new request otherwise.
Load(p, resume) ==
    LET a == [CancelRecovery(EndCrossfade(p)) EXCEPT
                 !.pendingSeek = IF resume THEN @ ELSE Nowhere,
                 !.stranded = FALSE, !.recoveries = 0, !.error = FALSE,
                 !.held = FALSE, !.sought = FALSE]
        b == [a EXCEPT !.time = IF a.pendingSeek = Nowhere THEN 0 ELSE a.pendingSeek]
    IN InvalidatePreload(
         IF Buffered(b) THEN Swapped(b)
         ELSE [b EXCEPT !.loading = TRUE, !.el[b.primary] = Opening(Current(b))])

\* play(): loads a restored queue, asks again for a stream given up on.
Play(p) ==
    LET a == [p EXCEPT !.engaged = TRUE]
        b == IF Primary(a).src = NoSong THEN Load(a, TRUE)
             ELSE IF ~a.stranded THEN a
             ELSE OpenAt([a EXCEPT !.stranded = FALSE, !.recoveries = 0,
                                   !.error = FALSE, !.loading = TRUE], Current(a), a.time)
    IN IF Current(p) = NoSong THEN p ELSE ElementPlay(b)

LoadCurrent(p, autoplay) ==
    IF Current(p) = NoSong THEN p
    ELSE IF autoplay THEN Play(Load(p, FALSE)) ELSE Load(p, FALSE)

\* A fade begins.  Of several of a kind that move something, the last counts.
Fading(p, kind, target) ==
    [p EXCEPT !.fades =
        Append([i \in DOMAIN @ |->
                   IF @[i].kind = kind THEN [@[i] EXCEPT !.late = TRUE] ELSE @[i]],
               [kind |-> kind, element |-> p.primary, target |-> target, late |-> FALSE])]

\* #changeTrack: a press that changed the track.
ChangeTrack(p) ==
    IF Fades(p) THEN Fading([p EXCEPT !.engaged = TRUE], "change", Nowhere)
    ELSE LoadCurrent(p, TRUE)

\* Without a source there is no element position to move.
MoveTo(p, target) ==
    [p EXCEPT !.time = target,
              !.el[p.primary].at = IF Primary(p).src = NoSong THEN @ ELSE target]

\* Whether a position is waiting to be taken up.
Waiting(p) == p.pendingSeek # Nowhere \/ p.retry # NoRetry
PassedBy(p) == [p EXCEPT !.sought = @ \/ Waiting(p)]

Seek(p, target) ==
    LET q == PassedBy(AbandonCrossfade(p)) IN
    IF Fades(q) THEN Fading([q EXCEPT !.time = target], "seek", target)
    ELSE MoveTo(q, target)

Stop(p) ==
    [AbandonCrossfade(CancelRecovery(p)) EXCEPT
        !.engaged = FALSE, !.stranded = FALSE, !.loading = FALSE, !.error = FALSE,
        !.el[p.primary] = Empty, !.playing = FALSE, !.time = 0]

Pause(p) ==
    LET q == AbandonCrossfade([CancelRecovery(p) EXCEPT
                 !.stranded = @ \/ p.retry # NoRetry, !.loading = FALSE, !.engaged = FALSE])
    IN IF Fades(q) THEN Fading(q, "pause", Nowhere) ELSE ElementPause(q)

-----------------------------------------------------------------------------
(* A stream that stops, and a track that will not play *)

Recover(p) ==
    [CancelRecovery(p) EXCEPT
        !.recoveries = @ + 1, !.recoveredFrom = p.time, !.loading = TRUE,
        !.retry = [song |-> Current(p), at |-> p.time]]

GiveUp(p) ==
    ElementPause([CancelRecovery(p) EXCEPT
        !.stranded = TRUE, !.loading = FALSE, !.error = TRUE,
        !.astray = @ \/ Running(p, Secondary(p))])

RecoverOrGiveUp(p) ==
    IF p.engaged /\ p.recoveries < RecoveryAttempts THEN Recover(p) ELSE GiveUp(p)

\* next() at the end of a track, or past one that will not play.
NextByItself(p) ==
    LET last == p.index = Len(p.queue) IN
    IF p.repeat = "one" THEN Play(Seek(p, 0))
    ELSE IF last /\ p.repeat # "all"
         THEN [p EXCEPT !.engaged = FALSE, !.playing = FALSE, !.loading = FALSE,
                        !.astray = @ \/ Running(p, Secondary(p))]
         ELSE LoadCurrent([p EXCEPT !.index = IF last THEN 1 ELSE @ + 1], TRUE)

SkipBroken(p) ==
    IF /\ p.engaged /\ p.repeat # "one" /\ p.skips < SkipLimit
       /\ Following(p) \notin {NoSong, Current(p)}
    THEN NextByItself([p EXCEPT !.skips = @ + 1])
    ELSE GiveUp([p EXCEPT !.engaged = FALSE])

\* Stops at the end of a track with the next one loaded and not playing.
SleepAtTrackEnd(p) ==
    LET q == [p EXCEPT !.sleep = FALSE, !.engaged = FALSE, !.playing = FALSE,
                       !.astray = @ \/ Running(p, Secondary(p))]
        last == p.index = Len(p.queue) IN
    IF p.repeat = "one" THEN Seek(q, 0)
    ELSE IF last /\ p.repeat # "all" THEN q
    ELSE LoadCurrent([q EXCEPT !.index = IF last THEN 1 ELSE @ + 1], FALSE)

\* The `playing` event.
PlayingEvent(p) ==
    [CancelRecovery(p) EXCEPT !.loading = FALSE, !.skips = 0, !.error = FALSE]

-----------------------------------------------------------------------------
(* What an element does by itself, and the timers *)

\* Once an overlap let go of is heard no more, the code has hold of both
\* elements again.
Settled(p) ==
    [p EXCEPT !.astray = @ /\ \/ Running(p, Secondary(p))
                               \/ (~p.engaged /\ Running(p, p.primary))]
Becomes(p) == page' = Settled(p) /\ UNCHANGED <<graph, presses>>
Fault == faults < MaxFaults /\ faults' = faults + 1
NoFault == UNCHANGED faults

\* `loadedmetadata` and `canplay`: the position waiting is taken up, and a
\* play that could not begin is tried again.  A position that is not `within`
\* the track, up to a second before its end as far as its length is known, is
\* let go of: the track begins at its top.
LoadedEvent(p, within) ==
    LET a == [p EXCEPT !.el[p.primary].data = "ready", !.loading = FALSE, !.pendingSeek = Nowhere]
        b == IF p.pendingSeek \in {Nowhere, 0} THEN a
             ELSE IF within THEN Seek(a, p.pendingSeek)
             ELSE [a EXCEPT !.sought = TRUE]
    IN IF ~Primary(b).paused THEN PlayingEvent(b)
       ELSE IF b.engaged THEN ElementPlay(b) ELSE b

Loads ==
    /\ Primary(page).data = "opening"
    /\ \E within \in BOOLEAN : Becomes(LoadedEvent(page, within))
    /\ NoFault

\* The second element buffers, with no one listening to its events.
Buffers ==
    /\ page.el[Secondary(page)].data = "opening"
    /\ Becomes([page EXCEPT !.el[Secondary(page)].data = "ready"]) /\ NoFault

MaybePreloadNext(p) ==
    LET next == Following(p) IN
    IF next = NoSong \/ p.preloadedFor = next \/ p.time < Last THEN p
    ELSE [p EXCEPT !.preloadedFor = next, !.el[Secondary(p)] = Opening(next)]

MayCrossfade(p) ==
    /\ p.ramp = "none" /\ p.repeat # "one" /\ ~p.sleep /\ p.playing
    /\ Following(p) # NoSong /\ p.preloadedFor = Following(p)
    /\ p.el[Secondary(p)].data = "ready" /\ p.time = Last

Crossfade(p) ==
    [p EXCEPT !.ramp = IF graph THEN "graph" ELSE "timer",
              !.el[Secondary(p)].at = 0, !.el[Secondary(p)].paused = FALSE,
              !.wrapped = p.index = Len(p.queue)]

\* The primary has got to `at`, and what `timeupdate` makes of that.
FirstAt(p, at) == [p EXCEPT !.el[p.primary].at = at]
Ticked(p, at) ==
    [p EXCEPT !.time = at, !.sought = p.retry # NoRetry,
              !.recoveries = IF at > p.recoveredFrom THEN 0 ELSE @]

\* `timeupdate`.  Whether two tracks overlap is the settings' and the
\* albums' to say.
TimeUpdate == \E step \in {0, 1}, overlap \in BOOLEAN :
    LET at == Primary(page).at + step
        a == FirstAt(page, at)
        c == MaybePreloadNext(Ticked(a, at))
    IN /\ Sounding(page, page.primary) /\ at < End
       /\ overlap => MayCrossfade(c)
       /\ Becomes(IF a.fades # <<>> \/ a.pendingSeek # Nowhere THEN a
                  ELSE IF overlap THEN Crossfade(c) ELSE c)
       /\ NoFault

\* The track runs out: `pause`, then `ended`, which a fade in flight ignores.
RunsOut ==
    LET a == FirstAt(ElementPause(page), End) IN
    /\ Sounding(page, page.primary) /\ Primary(page).at = Last
    /\ Becomes(IF a.fades # <<>> THEN [a EXCEPT !.held = TRUE]
               ELSE IF a.sleep THEN SleepAtTrackEnd(a) ELSE NextByItself(a))
    /\ NoFault

\* The incoming track goes on under the overlap, or after it.
SecondaryAdvances ==
    LET e == Secondary(page) IN
    /\ Sounding(page, e)
    /\ Becomes([page EXCEPT !.el[e].at = @ + 1, !.el[e].paused = page.el[e].at + 1 = End])
    /\ NoFault

\* #stepCrossfade at the end of its ramp.  The graph's ramps need no step.
RampDone ==
    /\ page.ramp = "timer"
    /\ Becomes([page EXCEPT !.ramp = "none", !.astray = TRUE]) /\ NoFault

FadeDone ==
    LET f == Head(page.fades)
        p == [page EXCEPT !.fades = Tail(@)]
        moved == MoveTo(PassedBy(p), f.target) IN
    /\ page.fades # <<>>
    /\ \/ /\ f.kind = "pause"
          /\ Becomes(IF p.engaged THEN p
                     ELSE IF f.element = p.primary THEN ElementPause(p)
                     ELSE [p EXCEPT !.el[f.element].paused = TRUE])
       \/ /\ f.kind = "seek"
          /\ Becomes(IF f.late \/ f.element # p.primary THEN p
                     ELSE IF p.engaged THEN ElementPlay(moved) ELSE moved)
       \/ /\ f.kind = "change"
          /\ Becomes(IF f.late THEN p ELSE LoadCurrent(p, p.engaged))
    /\ NoFault

\* #recoverStream's timer.
Retry ==
    LET p == [page EXCEPT !.retry = NoRetry] IN
    /\ page.retry # NoRetry
    /\ Becomes(IF p.engaged THEN ElementPlay(OpenAt(p, page.retry.song, page.retry.at)) ELSE p)
    /\ NoFault

\* #armStall's timer.
StallTimeout ==
    LET p == [page EXCEPT !.stall = FALSE] IN
    /\ page.stall
    /\ Becomes(IF ~p.engaged \/ Primary(p).paused \/ Primary(p).data = "ready" THEN p
               ELSE RecoverOrGiveUp(p))
    /\ NoFault

\* Bytes arrive again.
Resumes ==
    LET p == [page EXCEPT !.el[page.primary].data = "ready"] IN
    /\ Primary(page).data = "stalled"
    /\ Becomes(IF ~Primary(p).paused THEN PlayingEvent(p)
               ELSE IF p.engaged THEN ElementPlay(p) ELSE p)
    /\ NoFault

\* #failed once its HEAD has answered: the file is there, so this browser
\* cannot play it, or it is gone; the session is refused; the server is down.
HeadAnswers == \E ask \in page.asking, status \in {"unplayable", "refused", "down"} :
    LET p == [page EXCEPT !.asking = @ \ {ask}] IN
    /\ Becomes(IF ask.element # p.primary \/ ask.song # Current(p) THEN p
               ELSE IF status = "unplayable" THEN SkipBroken(p)
               ELSE IF status = "refused" THEN GiveUp([p EXCEPT !.engaged = FALSE])
               ELSE RecoverOrGiveUp(p))
    /\ NoFault

\* The page comes back to the front, or the network does.
Returns ==
    /\ page.engaged
    /\ \/ /\ page.stranded
          /\ Becomes(Play(page))
       \/ /\ ~page.stranded /\ Primary(page).src # NoSong /\ Primary(page).paused
          /\ Becomes(ElementPlay(page))
    /\ NoFault

-----------------------------------------------------------------------------
(* What goes wrong *)

Stalls ==
    /\ Sounding(page, page.primary)
    /\ Becomes([page EXCEPT !.el[page.primary].data = "stalled", !.loading = TRUE,
                            !.stall = page.engaged])
    /\ Fault

\* The `error` event, and #failed up to its HEAD.
Fails == \E code \in {"network", "decode", "unsupported"} :
    LET p == [page EXCEPT !.el[page.primary].data = "failed"] IN
    /\ Primary(page).data \in {"opening", "ready", "stalled"}
    /\ Becomes(IF Current(p) = NoSong THEN p
               ELSE IF code = "decode" THEN SkipBroken(p)
               ELSE IF code = "network" THEN RecoverOrGiveUp(p)
               ELSE [p EXCEPT !.asking = @ \cup {[element |-> p.primary, song |-> Current(p)]}])
    /\ Fault

\* Nothing listens to the second element.
SecondaryFails ==
    /\ page.el[Secondary(page)].data \in {"opening", "ready"}
    /\ Becomes([page EXCEPT !.el[Secondary(page)].data = "failed"]) /\ Fault

\* A play() refused or a sound taken by the system: the element is paused and
\* the listener's intent stands.
Interrupted ==
    /\ page.engaged /\ ~Primary(page).paused
    /\ Becomes([ElementPause(page) EXCEPT !.held = TRUE]) /\ Fault

\* The incoming element is refused its play().
IncomingRefused ==
    /\ page.ramp # "none"
    /\ Becomes(AbandonCrossfade(page)) /\ Fault

-----------------------------------------------------------------------------
(* What the listener presses *)

TakenOut(s, i) == SubSeq(s, 1, i - 1) \o SubSeq(s, i + 1, Len(s))
PutIn(s, i, x) == SubSeq(s, 1, i - 1) \o <<x>> \o SubSeq(s, i, Len(s))
UpNext(p) == IF p.index < Len(p.queue) THEN p.queue[p.index + 1] ELSE NoSong

\* Another queue replaces this one.  What is buffered is forgotten, and an
\* overlap is not stopped.
PlayNow(p, songs) ==
    ChangeTrack([p EXCEPT !.queue = songs, !.index = 1, !.preloadedFor = NoSong,
                          !.astray = @ \/ Running(p, Secondary(p))])

Toggle(p) ==
    IF Current(p) = NoSong THEN p
    ELSE IF p.engaged /\ (p.playing \/ p.loading) THEN Pause(p) ELSE Play(p)

NextPressed(p) ==
    LET q == AbandonCrossfade(p) IN
    IF q.index < Len(q.queue) THEN ChangeTrack([q EXCEPT !.index = @ + 1])
    ELSE IF q.repeat = "all" THEN ChangeTrack([q EXCEPT !.index = 1]) ELSE q

\* Restarts the track, or steps back when it has just begun.
Previous(p) ==
    LET q == AbandonCrossfade(p) IN
    IF q.time > 0 \/ (q.index = 1 /\ q.repeat # "all") THEN Seek(q, 0)
    ELSE ChangeTrack([q EXCEPT !.index = IF @ = 1 THEN Len(q.queue) ELSE @ - 1])

JumpTo(p, i) == ChangeTrack(InvalidatePreload([p EXCEPT !.index = i]))

RemoveAt(p, i) ==
    LET kept == TakenOut(p.queue, i)
        q == [p EXCEPT !.queue = kept] IN
    IF kept = <<>> THEN Stop(q)
    ELSE InvalidatePreload(
           IF i < p.index THEN [q EXCEPT !.index = @ - 1]
           ELSE IF i > p.index THEN q
           ELSE LoadCurrent([q EXCEPT !.index = IF @ > Len(kept) THEN Len(kept) ELSE @],
                            p.engaged))

Move(p, from, to) ==
    LET q == [p EXCEPT !.queue = PutIn(TakenOut(@, from), to, p.queue[from]),
                       !.index = IF from = @ THEN to
                                 ELSE IF from < @ /\ to >= @ THEN @ - 1
                                 ELSE IF from > @ /\ to <= @ THEN @ + 1 ELSE @]
    IN IF UpNext(q) # UpNext(p) THEN InvalidatePreload(q) ELSE q

\* At the end of the queue; played where nothing is queued.
AddToQueue(p, song) ==
    IF p.queue = <<>> THEN PlayNow(p, <<song>>) ELSE [p EXCEPT !.queue = Append(@, song)]

\* Mutant of PlayNext: the buffered next track is kept, whatever is next now.
PlayNextKeepsPreload(p, song) ==
    IF p.queue = <<>> THEN PlayNow(p, <<song>>)
    ELSE [p EXCEPT !.queue = PutIn(@, p.index + 1, song)]
\* Straight after the track that plays; played where nothing is queued.
PlayNext(p, song) ==
    IF p.queue = <<>> THEN PlayNow(p, <<song>>)
    ELSE InvalidatePreload([p EXCEPT !.queue = PutIn(@, p.index + 1, song)])

\* An addition of a listen-together party does not start sound.
QueueAddition(p, song) ==
    IF p.queue = <<>> THEN [p EXCEPT !.queue = <<song>>, !.index = 1]
    ELSE PlayNext(p, song)

CycleRepeat(p) ==
    [p EXCEPT !.repeat = CASE @ = "off" -> "all" [] @ = "all" -> "one" [] OTHER -> "off"]

ClearQueue(p) == [Stop(p) EXCEPT !.queue = <<>>, !.index = 1]

Pressed(press, p) ==
    /\ press \in Presses /\ presses < MaxPresses
    /\ presses' = presses + 1 /\ page' = Settled(p) /\ UNCHANGED <<graph, faults>>

Places == DOMAIN page.queue
Absent == Songs \ {page.queue[i] : i \in Places}

PressAlbum    == Pressed("album", PlayNow(page, Other))
PressToggle   == Places # {} /\ Pressed("toggle", Toggle(page))
PressPause    == Pressed("pause", Pause(page))
PressNext     == Places # {} /\ Pressed("next", NextPressed(page))
PressPrevious == Places # {} /\ Pressed("previous", Previous(page))
PressSeek     == Places # {} /\ \E target \in 0..Last : Pressed("seek", Seek(page, target))
PressJump     == \E i \in Places : Pressed("jump", JumpTo(page, i))
PressRemove   == \E i \in Places : Pressed("remove", RemoveAt(page, i))
PressMove     == \E i, j \in Places : i # j /\ Pressed("move", Move(page, i, j))
PressPlayNext == \E song \in Absent : Pressed("playNext", PlayNext(page, song))
PressAdd      == \E song \in Absent : Pressed("add", AddToQueue(page, song))
PressRepeat   == Pressed("repeat", CycleRepeat(page))
PressSleep    == Pressed("sleep", [page EXCEPT !.sleep = ~@])
PressClear    == Pressed("clear", ClearQueue(page))
Addition      == \E song \in Absent : Pressed("addition", QueueAddition(page, song))

Presence == PressAlbum \/ PressToggle \/ PressPause \/ PressNext \/ PressPrevious
            \/ PressSeek \/ PressJump \/ PressRemove \/ PressMove \/ PressAdd
            \/ PressPlayNext \/ PressRepeat \/ PressSleep \/ PressClear \/ Addition
ByItself == Loads \/ Buffers \/ TimeUpdate \/ RunsOut \/ SecondaryAdvances \/ RampDone
            \/ FadeDone \/ Retry \/ StallTimeout \/ Resumes \/ HeadAnswers \/ Returns
Faults   == Stalls \/ Fails \/ SecondaryFails \/ Interrupted \/ IncomingRefused

-----------------------------------------------------------------------------
(* The specification *)

\* A page that has its saved queue back, at the position it was saved at, and
\* has not fetched anything.
Fresh ==
    [queue |-> Restored, index |-> 1, repeat |-> "off", sleep |-> FALSE,
     engaged |-> FALSE, playing |-> FALSE, loading |-> FALSE, error |-> FALSE,
     stranded |-> FALSE, primary |-> "a", el |-> [e \in Elements |-> Empty],
     preloadedFor |-> NoSong, ramp |-> "none", time |-> 1, pendingSeek |-> 1,
     recoveries |-> 0, recoveredFrom |-> 0, retry |-> NoRetry, stall |-> FALSE,
     skips |-> 0, asking |-> {}, fades |-> <<>>,
     astray |-> FALSE, held |-> FALSE, wrapped |-> FALSE, sought |-> FALSE]

\* The presses are counted from the one that first starts it, or from none.
PlayerInit ==
    /\ graph \in BOOLEAN
    /\ page \in {Fresh, Play(Fresh)}
    /\ presses = 0 /\ faults = 0

PlayerNext == Presence \/ ByItself \/ Faults

PlayerSpec == PlayerInit /\ [][PlayerNext]_playerVars

-----------------------------------------------------------------------------
(* Properties *)

\* What is heard is the track the player shows, whatever was pressed while it
\* loaded, failed or was being tried again; only a skip still fading out what
\* it left is between the two.  #loadCurrent, #recoverStream and #failed each
\* check after a wait that theirs is still the track.
HeardIsShown ==
    Sounding(page, page.primary) =>
        \/ Primary(page).src = Current(page)
        \/ \E i \in DOMAIN page.fades : page.fades[i].kind = "change"

\* A player that was paused stays silent: no retry, reload or late event
\* starts it again.  A pause still fading out is not silent yet, and an
\* overlap that was let go of without being stopped goes on (`astray`): by a
\* queue that replaced this one, a track given up, a sleep timer set or repeat
\* turned off meanwhile, or a ramp at its end before the track was.
PauseHolds ==
    ~page.engaged /\ ~page.astray =>
        \/ ~\E e \in Elements : Sounding(page, e)
        \/ \E i \in DOMAIN page.fades : page.fades[i].kind = "pause"

\* Two tracks are heard at once only while one is faded into the other, and
\* then the second is the one that follows: a change to the queue under the
\* overlap has stopped it.  An overlap into the first track of a queue that
\* repeats (`wrapped`) goes on when repeat, the end or the first track changes;
\* which track follows is asked again when the last one ends.
OneTrackHeard ==
    Sounding(page, Secondary(page)) /\ ~page.astray =>
        /\ page.ramp # "none"
        /\ \/ page.el[Secondary(page)].src = Following(page)
           \/ page.wrapped

\* The bar is never ahead of what is heard: a track picked up again after a
\* drop, a stall or a failure goes on from where it had got to.  Excepted is a
\* position not taken up as it was (`sought`): moved while it waited, left by a
\* cleared queue to a track already buffered, or in the last second of its
\* track, which then begins again at its top under a bar that is at its end.
NoGroundLost ==
    Sounding(page, page.primary) /\ page.fades = <<>> /\ ~page.sought =>
        page.time <= Primary(page).at

\* Nothing is left waiting for nothing: a player meant to play is heard, or
\* an event or a timer is still to come, or it says why not.
NothingLeftWaiting ==
    page.engaged /\ page.queue # <<>> =>
        \/ Sounding(page, page.primary)
        \/ Primary(page).data \in {"opening", "stalled"}
        \/ page.retry # NoRetry \/ page.asking # {} \/ page.fades # <<>>
        \/ page.error \/ page.held
=============================================================================
