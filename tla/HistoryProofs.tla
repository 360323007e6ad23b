---------------------------- MODULE HistoryProofs ----------------------------
(***************************************************************************)
(* No play is in the history twice, and an import that ends well has left  *)
(* none out, whatever the number of requests, plays, imports and faults,   *)
(* and whatever the size of a page.                                        *)
(***************************************************************************)
EXTENDS History, FiniteSetTheorems, SequenceTheorems, TLAPS

-----------------------------------------------------------------------------
(* Types *)

TypeInv ==
    /\ history \in [Plays -> Nat] /\ second \in Seq(Nat) /\ navidrome \subseteq Plays
    /\ plugin \in [plays : SUBSET Plays, pages : SUBSET Page, waits : BOOLEAN]
    /\ job \in Job /\ turns \in Seq(Slots) /\ request \in [Slots -> Request]
    /\ asked \in Nat /\ passed \subseteq Plays

\* The plays made.
Made == 1..Len(second)

\* What a request brings: a play made, or ones that Navidrome has logged.
Brings(u) ==
    /\ request[u].page.plays \subseteq navidrome
    /\ request[u].plays \subseteq IF request[u].kind = "play" THEN Made ELSE navidrome

\* Navidrome logs plays made, and the plugin sends plays logged.
Known ==
    /\ navidrome \subseteq Made /\ Held \subseteq Made
    /\ plugin.plays \subseteq navidrome
    /\ \A page \in plugin.pages : page.plays \subseteq navidrome
    /\ \A u \in Slots : Brings(u)

\* The records a request and an import start from and come back to.
LEMMA RestingFits == Resting \in Request /\ NoPage \in Page /\ NoJob \in Job
BY DEF Resting, Request, NoPage, Page, NoJob, Job, None

\* A function on the first numbers is the sequence of its values.
LEMMA FirstNumbers ==
    ASSUME NEW n \in Nat, NEW t \in [1..n -> 1..n]
    PROVE  t \in Seq(Nat) /\ Len(t) = n
OBVIOUS

\* A play made is the next one.
LEMMA PlayNext ==
    ASSUME TypeInv, NEW n, Play(n)
    PROVE  /\ second' \in Seq(Nat) /\ Len(second') = n
           /\ n \in Plays /\ n = Len(second) + 1
<1>1. n \in Nat /\ n \in Plays /\ n = Len(second) + 1
  BY LenProperties DEF Play, TypeInv, Plays
<1>2. second' \in [1..n -> 1..n]
  BY DEF Play, Seconds
<1> QED
  BY <1>1, <1>2, FirstNumbers

\* Who waits for a turn stays a sequence of requests.
LEMMA TurnsTypes ==
    ASSUME TypeInv, NEW r \in Slots, UNCHANGED turns \/ TakesTurn(r) \/ LeavesTurn(r)
    PROVE  turns' \in Seq(Slots)
<1>1. turns \in Seq(Slots)
  BY DEF TypeInv
<1>2. CASE TakesTurn(r)
  BY <1>1, <1>2, AppendProperties DEF TakesTurn
<1>3. CASE LeavesTurn(r)
  BY <1>1, <1>3, HeadTailProperties DEF LeavesTurn
<1> QED
  BY <1>1, <1>2, <1>3

\* A request that begins, goes on or rests.
LEMMA RequestTypes ==
    ASSUME TypeInv, NEW r \in Slots,
           \/ \E new \in Request : Begins(r, new)
           \/ \E at \in {"lookup", "look", "turn", "checked", "added", "reading", "read"},
                 plays \in SUBSET Plays : Goes(r, at, plays)
           \/ Rests(r)
    PROVE  request' \in [Slots -> Request]
<1>1. request[r] \in Request
  BY DEF TypeInv
<1>2. ASSUME NEW at \in {"lookup", "look", "turn", "checked", "added", "reading", "read"},
             NEW plays \in SUBSET Plays, Goes(r, at, plays)
      PROVE  request' \in [Slots -> Request]
  <2>1. [request[r] EXCEPT !.at = at, !.plays = plays] \in Request
    BY <1>1 DEF Request
  <2>2. request' = [request EXCEPT ![r] = [request[r] EXCEPT !.at = at, !.plays = plays]]
    BY <1>2 DEF Goes, TypeInv
  <2> QED
    BY <2>1, <2>2 DEF TypeInv
<1>3. ASSUME NEW new \in Request, request' = [request EXCEPT ![r] = new]
      PROVE  request' \in [Slots -> Request]
  BY <1>3 DEF TypeInv
<1>4. CASE \E new \in Request : Begins(r, new)
  <2>1. PICK new \in Request : Begins(r, new)
    BY <1>4
  <2> QED
    BY <1>3, <2>1 DEF Begins
<1>5. CASE Rests(r)
  <2>1. Resting \in Request
    BY RestingFits
  <2> QED
    BY <1>3, <1>5, <2>1 DEF Rests
<1> QED
  BY <1>2, <1>4, <1>5

\* Plays inserted are counted.
LEMMA InsertTypes ==
    ASSUME TypeInv, NEW r \in Slots, NEW plays \in SUBSET Plays, Insert(r, plays)
    PROVE  history' \in [Plays -> Nat] /\ passed' \subseteq Plays
BY DEF TypeInv, Insert

\* Nothing is under way at first.
LEMMA InitTypes == Init => TypeInv /\ Len(second) = OldPlays
<1> SUFFICES ASSUME Init PROVE TypeInv /\ Len(second) = OldPlays
  OBVIOUS
<1>1. OldPlays \in Nat /\ MaxPlays \in Nat /\ OldPlays <= MaxPlays
  BY HistoryAssumption
<1>2. second \in Seq(Nat) /\ Len(second) = OldPlays
  BY <1>1, FirstNumbers DEF Init, Seconds
<1>3. navidrome \subseteq Plays
  BY <1>1 DEF Init, Plays
<1> QED
  BY <1>2, <1>3, RestingFits DEF Init, TypeInv

\* Plays made, recorded and reported keep the types.
LEMMA PlayingTypes == TypeInv /\ Playing => TypeInv'
<1> SUFFICES ASSUME TypeInv, Playing PROVE TypeInv'
  OBVIOUS
<1>1. ASSUME NEW n \in Plays, NEW told \in BOOLEAN, Logged(n, told)
      PROVE  navidrome' \subseteq Plays /\ plugin' \in [plays : SUBSET Plays, pages : SUBSET Page, waits : BOOLEAN]
  BY <1>1 DEF Logged, TypeInv
<1>2. ASSUME NEW n \in Plays, NEW told \in BOOLEAN, PlayElsewhere(n, told)
      PROVE  TypeInv'
  BY <1>1, <1>2, PlayNext DEF PlayElsewhere, TypeInv, server
<1>3. ASSUME NEW r \in Slots, NEW n \in Plays, PlayHere(r, n)
      PROVE  TypeInv'
  <2>1. [Resting EXCEPT !.kind = "play", !.at = "lookup", !.plays = {n}] \in Request
    BY RestingFits DEF Resting, Request
  <2> QED
    BY <1>3, <2>1, PlayNext, RequestTypes DEF PlayHere, TypeInv
<1>4. ASSUME NEW r \in Slots, Record(r) \/ Reports(r)
      PROVE  TypeInv'
  <2>1. request[r].plays \in SUBSET Plays
    BY DEF TypeInv, Request
  <2>2. CASE Record(r)
    BY <2>1, <2>2, InsertTypes, RequestTypes DEF Record, TypeInv
  <2>3. CASE Reports(r)
    BY <1>1, <2>1, <2>3, RequestTypes DEF Reports, TypeInv
  <2> QED
    BY <1>4, <2>2, <2>3
<1> QED
  BY <1>2, <1>3, <1>4 DEF Playing

\* What the plugin sends as it happens keeps the types.
LEMMA ScrobblesTypes ==
    ASSUME TypeInv, NEW r \in Slots, Scrobbles(r) \/ Adds(r) \/ WorkFails(r)
    PROVE  TypeInv'
<1>1. request[r].plays \in SUBSET Plays
  BY DEF TypeInv, Request
<1>2. ASSUME NEW n \in Plays, Scrobble(r, n)
      PROVE  TypeInv'
  <2>1. \A at \in {"added", "lookup"} :
            [Resting EXCEPT !.kind = "scrobble", !.plays = {n}, !.at = at] \in Request
    BY RestingFits DEF Resting, Request
  <2>2. request' \in [Slots -> Request]
    BY <1>2, <2>1, RequestTypes DEF Scrobble
  <2> QED
    BY <1>2, <2>2 DEF Scrobble, TypeInv
<1>3. CASE Found(r) \/ NotFound(r) \/ Unreachable(r)
  BY <1>1, <1>3, RequestTypes, TurnsTypes DEF Found, NotFound, Unreachable, TypeInv
<1>4. CASE LooksAgain(r)
  BY <1>1, <1>4, RequestTypes DEF LooksAgain, TypeInv
<1>5. CASE Scrobbled(r)
  BY <1>1, <1>5, RequestTypes, TurnsTypes DEF Scrobbled, TypeInv
<1>6. CASE Adds(r)
  BY <1>1, <1>6, RequestTypes, InsertTypes DEF Adds, TypeInv
<1>7. CASE WorkFails(r)
  <2>1. plugin' \in [plays : SUBSET Plays, pages : SUBSET Page, waits : BOOLEAN]
    BY <1>7 DEF WorkFails, TypeInv
  <2> QED
    BY <1>7, <2>1, RequestTypes, TurnsTypes DEF WorkFails, TypeInv
<1> QED
  BY <1>2, <1>3, <1>4, <1>5, <1>6, <1>7 DEF Scrobbles

\* What a page brings is in Navidrome's history.
LEMMA PageTypes ==
    ASSUME TypeInv, NEW from \in Nat
    PROVE  PageFrom(from) \in Page /\ PageFrom(from).plays \subseteq navidrome
BY DEF PageFrom, Page, Job, TypeInv

\* The import of the scrobble history keeps the types.
LEMMA PagesTypes ==
    ASSUME TypeInv, Known, NEW r \in Slots,
           \/ Open(r) \/ Opens(r) \/ OpensNot(r) \/ Lacks(r) \/ PageAdded(r)
           \/ \E page \in plugin.pages : TakePage(r, page)
    PROVE  TypeInv'
<1>1. request[r] \in Request /\ request[r].plays \in SUBSET Plays
  BY DEF TypeInv, Request
<1>2. Len(second) \in Nat
  BY LenProperties DEF TypeInv
<1>3. CASE Open(r)
  <2>1. [Resting EXCEPT !.kind = "open", !.at = "reading", !.upto = Len(second)] \in Request
    BY <1>2, RestingFits DEF Resting, Request
  <2> QED
    BY <1>3, <2>1, RequestTypes DEF Open, Asked, TypeInv
<1>4. CASE Opens(r) \/ OpensNot(r)
  <2>1. [NoJob EXCEPT !.id = asked, !.songs = navidrome, !.upto = request[r].upto] \in Job
    BY <1>1, RestingFits DEF NoJob, Job, Request, TypeInv
  <2> QED
    BY <1>4, <2>1, RequestTypes DEF Opens, OpensNot, TypeInv
<1>5. CASE Lacks(r)
  BY <1>1, <1>5, RequestTypes DEF Lacks, TypeInv
<1>6. CASE PageAdded(r)
  <2> DEFINE page == request[r].page
  <2>1. page \in Page
    BY <1>1 DEF Request
  <2>2. \A n \in page.plays : second[n] \in Nat
    BY ElementOfSeq DEF TypeInv, Known, Brings, Made
  <2>3. ASSUME UNCHANGED job \/ job' = NoJob
        PROVE  job' \in Job
    BY <2>3, RestingFits DEF TypeInv
  <2>4. ASSUME NEW last \in {second[n] : n \in page.plays} \cup {0},
               job' = IF last > job.from
                      THEN [job EXCEPT !.from = NextFrom(last),
                                       !.edge = {n \in page.plays : second[n] = last}]
                      ELSE [job EXCEPT !.from = @ + 1, !.edge = {}]
        PROVE  job' \in Job
    <3>1. last \in Nat /\ page.plays \subseteq Plays /\ job.from \in Nat
      BY <2>1, <2>2 DEF Page, TypeInv, Job
    <3>2. [job EXCEPT !.from = NextFrom(last), !.edge = {n \in page.plays : second[n] = last}] \in Job
      BY <3>1 DEF Job, NextFrom, TypeInv
    <3>3. [job EXCEPT !.from = @ + 1, !.edge = {}] \in Job
      <4>1. job.from + 1 \in Nat
        BY <3>1
      <4> QED
        BY <4>1 DEF Job, TypeInv
    <3> QED
      BY <2>4, <3>2, <3>3
  <2>5. job' \in Job
    BY <1>6, <2>3, <2>4 DEF PageAdded, Finish
  <2>6. plugin' \in [plays : SUBSET Plays, pages : SUBSET Page, waits : BOOLEAN]
    BY <1>6 DEF PageAdded, TypeInv
  <2> QED
    BY <1>6, <2>5, <2>6, RequestTypes, TurnsTypes DEF PageAdded, TypeInv
<1>7. ASSUME NEW page \in plugin.pages, TakePage(r, page)
      PROVE  TypeInv'
  <2>1. page \in Page
    BY DEF TypeInv
  <2>2. plugin' \in [plays : SUBSET Plays, pages : SUBSET Page, waits : BOOLEAN]
    BY <1>7 DEF TakePage, TypeInv
  <2>3. CASE job = NoJob
    BY <1>7, <2>2, <2>3, RestingFits DEF TakePage, TypeInv
  <2>4. CASE job # NoJob
    <3>1. [kind |-> "page", at |-> "turn", plays |-> page.plays \ job.edge,
           page |-> [page EXCEPT !.of = job.id], upto |-> 0] \in Request
      BY <2>1 DEF Request, Page, Job, TypeInv
    <3>2. \A astray \in BOOLEAN : [job EXCEPT !.astray = astray] \in Job
      BY DEF TypeInv, Job
    <3>3. job' \in Job
      BY <1>7, <2>4, <3>2 DEF TakePage, TypeInv, Job
    <3> QED
      BY <1>7, <2>2, <2>4, <3>1, <3>3, RequestTypes, TurnsTypes DEF TakePage, TypeInv
  <2> QED
    BY <2>3, <2>4
<1> QED
  BY <1>3, <1>4, <1>5, <1>6, <1>7

\* The import of last plays keeps the types.
LEMMA LastTypes ==
    ASSUME TypeInv, NEW r \in Slots,
           ImportLast(r) \/ ReadLast(r) \/ SelectHeld(r) \/ InsertLast(r) \/ ImportFails(r)
    PROVE  TypeInv'
<1>1. request[r].plays \in SUBSET Plays
  BY DEF TypeInv, Request
<1>2. CASE ImportLast(r)
  <2>1. [Resting EXCEPT !.kind = "last", !.at = "reading", !.upto = Len(second)] \in Request
    BY RestingFits, LenProperties DEF Resting, Request, TypeInv
  <2> QED
    BY <1>2, <2>1, RequestTypes DEF ImportLast, Asked, TypeInv
<1>3. CASE ReadLast(r)
  BY <1>3, RequestTypes DEF ReadLast, TypeInv
<1>4. CASE SelectHeld(r)
  BY <1>1, <1>4, RequestTypes DEF SelectHeld, TypeInv
<1>5. CASE InsertLast(r)
  BY <1>1, <1>5, RequestTypes, InsertTypes DEF InsertLast, TypeInv
<1>6. CASE ImportFails(r)
  BY <1>6, RequestTypes DEF ImportFails, TypeInv
<1> QED
  BY <1>2, <1>3, <1>4, <1>5, <1>6

\* The plugin's polls, imports given up, the history cleared and a restart.
LEMMA RestTypes ==
    ASSUME TypeInv, SendPage \/ PollAgain \/ GivesUp \/ Clear \/ Restart
    PROVE  TypeInv'
<1>1. CASE SendPage
  <2>1. PageFrom(job.from) \in Page
    BY PageTypes DEF TypeInv, Job
  <2> QED
    BY <1>1, <2>1 DEF SendPage, TypeInv, server
<1>2. CASE PollAgain
  BY <1>2 DEF PollAgain, TypeInv, server
<1>3. CASE GivesUp
  BY <1>3, RestingFits DEF GivesUp, Finish, TypeInv
<1>4. CASE Clear
  <2>1. \A astray \in BOOLEAN : [job EXCEPT !.astray = astray] \in Job
    BY DEF TypeInv, Job
  <2>2. job' \in Job
    BY <1>4, <2>1, Zenon DEF Clear
  <2>3. UNCHANGED <<second, navidrome, plugin, turns, request, passed>> /\ asked' \in Nat
    BY <1>4 DEF Clear, Asked, TypeInv
  <2>4. history' \in [Plays -> Nat]
    BY <1>4 DEF Clear
  <2> QED
    BY <2>2, <2>3, <2>4 DEF TypeInv
<1>5. CASE Restart
  <2>1. plugin' \in [plays : SUBSET Plays, pages : SUBSET Page, waits : BOOLEAN]
    BY <1>5 DEF Restart, TypeInv
  <2>2. turns' \in Seq(Slots)
    BY <1>5, EmptySeq DEF Restart
  <2> QED
    BY <1>5, <2>1, <2>2, RestingFits DEF Restart, TypeInv
<1> QED
  BY <1>1, <1>2, <1>3, <1>4, <1>5

\* Every step keeps the types.
LEMMA StepTypes == TypeInv /\ Known /\ [Next]_vars => TypeInv'
<1>1. TypeInv /\ UNCHANGED vars => TypeInv'
  BY DEF vars, server, TypeInv
<1> QED
  BY <1>1, PlayingTypes, ScrobblesTypes, PagesTypes, LastTypes, RestTypes DEF Next, Importing

-----------------------------------------------------------------------------
(* The inductive invariant *)

\* What a request is about to insert was missing when it looked, in its turn where
\* it takes one; a play reported by a browser is in no history yet.
Fits(u) ==
    /\ request[u].kind = "scrobble" => \E n \in Plays : request[u].plays = {n}
    /\ request[u].at = "checked" =>
          /\ request[u].kind \in {"scrobble", "page", "last"}
          /\ request[u].kind # "last" => MayWork(u)
          /\ \A n \in request[u].plays : history[n] = 0 \/ n \in passed
    /\ At(u, "play", "lookup") => request[u].plays \cap (navidrome \cup Held) = {}

\* A play made in a browser is reported by one request.
Apart(u, v) ==
    At(u, "play", "lookup") /\ request[v].kind = "play" => request[u].plays \cap request[v].plays = {}

IInv ==
    /\ TypeInv /\ Known /\ PlayedOnce
    /\ \A u \in Slots : Fits(u)
    /\ \A u, v \in Slots : u # v => Apart(u, v)

\* Nothing is under way at first.
LEMMA InitInv == Init => IInv
<1> SUFFICES ASSUME Init PROVE IInv
  OBVIOUS
<1>1. Made = 1..OldPlays
  BY InitTypes DEF Made
<1>2. Held = {}
  BY DEF Init, Held
<1>3. Known
  BY <1>1, <1>2 DEF Init, Known, Brings, Resting, NoPage
<1>4. PlayedOnce /\ \A u \in Slots : Fits(u) /\ \A v \in Slots : Apart(u, v)
  BY DEF Init, PlayedOnce, Fits, At, Apart, Resting
<1> QED
  BY <1>3, <1>4, InitTypes DEF IInv

\* Whose turn it is changes when its work is done.
LEMMA TurnStays ==
    ASSUME TypeInv, NEW r \in Slots, UNCHANGED turns \/ TakesTurn(r) \/ LeavesTurn(r),
           NEW u \in Slots, MayWork(u), u # r
    PROVE  MayWork(u)'
<1>1. turns \in Seq(Slots)
  BY DEF TypeInv
<1>2. CASE TakesTurn(r)
  BY <1>1, <1>2, HeadTailAppend, AppendProperties DEF TakesTurn, MayWork
<1>3. CASE LeavesTurn(r)
  BY <1>1, <1>3 DEF LeavesTurn, MayWork
<1> QED
  BY <1>2, <1>3 DEF MayWork

\* A request that goes on, with no play recorded, made or logged.
LEMMA QuietStep ==
    ASSUME IInv, TypeInv', NEW r \in Slots,
           UNCHANGED <<history, second, navidrome, passed>>,
           UNCHANGED turns \/ TakesTurn(r) \/ LeavesTurn(r),
           \A u \in Slots \ {r} : request'[u] = request[u],
           \/ request'[r] = request[r] /\ UNCHANGED turns
           \/ request'[r].kind # "play" /\ Fits(r)' /\ Brings(r)',
           plugin'.plays \subseteq navidrome,
           \A page \in plugin'.pages : page.plays \subseteq navidrome
    PROVE  IInv'
<1>1. Made' = Made /\ Held' = Held
  BY DEF Made, Held
<1>2. Known'
  BY <1>1 DEF IInv, Known, Brings
<1>3. ASSUME NEW u \in Slots PROVE Fits(u)'
  BY <1>1, <1>3, TurnStays DEF IInv, Fits, At, MayWork
<1>4. ASSUME NEW u \in Slots, NEW v \in Slots, u # v PROVE Apart(u, v)'
  BY <1>4 DEF IInv, Apart, At
<1>5. PlayedOnce'
  BY DEF IInv, PlayedOnce
<1> QED
  BY <1>2, <1>3, <1>4, <1>5 DEF IInv

\* Requests are left alone, and so is all that is recorded.
LEMMA AloneStep ==
    ASSUME IInv, TypeInv', UNCHANGED <<history, second, navidrome, passed, request, turns>>,
           plugin'.plays \subseteq navidrome,
           \A page \in plugin'.pages : page.plays \subseteq navidrome
    PROVE  IInv'
BY DEF IInv, Known, Brings, Made, Held, Fits, At, MayWork, Apart, PlayedOnce

\* What the plugin sends as it happens, up to its insert and after it.
LEMMA ScrobblesStep ==
    ASSUME IInv, TypeInv', NEW r \in Slots, Scrobbles(r) \/ WorkFails(r)
    PROVE  IInv'
<1>1. request[r] \in Request /\ request \in [Slots -> Request] /\ Brings(r)
  BY DEF IInv, TypeInv, Known
<1>2. plugin \in [plays : SUBSET Plays, pages : SUBSET Page, waits : BOOLEAN]
  BY DEF IInv, TypeInv
<1>3. plugin.plays \subseteq navidrome /\ \A page \in plugin.pages : page.plays \subseteq navidrome
  BY DEF IInv, Known
<1>4. ASSUME NEW n \in Plays, Scrobble(r, n)
      PROVE  IInv'
  <2>1. /\ request'[r].kind = "scrobble" /\ request'[r].at \in {"added", "lookup"}
        /\ request'[r].plays = {n} /\ request'[r].page = NoPage
    BY <1>1, <1>4 DEF Scrobble, Begins, Resting
  <2>2. Fits(r)' /\ Brings(r)'
    BY <1>3, <1>4, <2>1 DEF Fits, At, Brings, NoPage, Scrobble
  <2> QED
    BY <1>1, <1>3, <1>4, <2>1, <2>2, QuietStep DEF Scrobble, Begins
<1>5. ASSUME Found(r) \/ NotFound(r)
      PROVE  IInv'
  <2>1. request'[r].kind = "scrobble" /\ request'[r].at \in {"turn", "added"}
    BY <1>1, <1>5 DEF Found, NotFound, Goes, At, Request
  <2>2. request'[r].plays = request[r].plays /\ request'[r].page = request[r].page
    BY <1>1, <1>5 DEF Found, NotFound, Goes, Request
  <2>3. Fits(r)
    BY DEF IInv
  <2>4. Fits(r)' /\ Brings(r)'
    BY <1>1, <1>5, <2>1, <2>2, <2>3 DEF Fits, At, Brings, Found, NotFound
  <2> QED
    BY <1>1, <1>3, <1>5, <2>1, <2>4, QuietStep DEF Found, NotFound, Goes
<1>6. CASE LooksAgain(r)
  <2>1. /\ request'[r].kind = "scrobble" /\ request'[r].page = request[r].page
        /\ request'[r].plays = request[r].plays
        /\ request'[r].at = IF request[r].plays \subseteq Held THEN "added" ELSE "checked"
    BY <1>1, <1>6 DEF LooksAgain, Goes, At, Request
  <2>2. PICK n \in Plays : request[r].plays = {n}
    BY <1>6 DEF IInv, Fits, LooksAgain, At
  <2>3. request[r].plays \subseteq Held \/ history[n] = 0
    BY <2>2 DEF Held, IInv, TypeInv
  <2>4. MayWork(r)'
    BY <1>6 DEF LooksAgain, MayWork
  <2>5. UNCHANGED <<history, passed, navidrome>> /\ request[r].kind = "scrobble"
    BY <1>6 DEF LooksAgain, At
  <2>6. Fits(r)' /\ Brings(r)'
    BY <1>1, <2>1, <2>2, <2>3, <2>4, <2>5 DEF Fits, At, Brings
  <2> QED
    BY <1>1, <1>3, <1>6, <2>1, <2>6, QuietStep DEF LooksAgain, Goes
<1>7. ASSUME Unreachable(r) \/ Scrobbled(r) \/ WorkFails(r)
      PROVE  IInv'
  <2>1. request'[r] = Resting
    BY <1>1, <1>7 DEF Unreachable, Scrobbled, WorkFails, Rests
  <2>2. Fits(r)' /\ Brings(r)'
    BY <2>1 DEF Fits, At, Brings, Resting, NoPage
  <2>3. plugin'.plays \subseteq navidrome /\ plugin'.pages = plugin.pages
    BY <1>2, <1>3, <1>7 DEF Unreachable, Scrobbled, WorkFails
  <2> QED
    BY <1>1, <1>3, <1>7, <2>1, <2>2, <2>3, QuietStep DEF Unreachable, Scrobbled, WorkFails, Rests, Resting
<1> QED
  BY <1>4, <1>5, <1>6, <1>7 DEF Scrobbles

\* The import of the scrobble history, but for the rows it adds.
LEMMA PagesStep ==
    ASSUME IInv, TypeInv', NEW r \in Slots,
           \/ Open(r) \/ Opens(r) \/ OpensNot(r) \/ Lacks(r) \/ PageAdded(r)
           \/ \E page \in plugin.pages : TakePage(r, page)
    PROVE  IInv'
<1>1. request[r] \in Request /\ request \in [Slots -> Request] /\ Brings(r)
  BY DEF IInv, TypeInv, Known
<1>2. plugin \in [plays : SUBSET Plays, pages : SUBSET Page, waits : BOOLEAN]
  BY DEF IInv, TypeInv
<1>3. plugin.plays \subseteq navidrome /\ \A page \in plugin.pages : page.plays \subseteq navidrome
  BY DEF IInv, Known
<1>4. CASE Open(r)
  <2>1. /\ request'[r].kind = "open" /\ request'[r].at = "reading"
        /\ request'[r].plays = {} /\ request'[r].page = NoPage
    BY <1>1, <1>4 DEF Open, Begins, Resting
  <2>2. Fits(r)' /\ Brings(r)'
    BY <2>1 DEF Fits, At, Brings, NoPage
  <2> QED
    BY <1>1, <1>3, <1>4, <2>1, <2>2, QuietStep DEF Open, Begins
<1>5. ASSUME Opens(r) \/ OpensNot(r) \/ PageAdded(r)
      PROVE  IInv'
  <2>1. request'[r] = Resting
    BY <1>1, <1>5 DEF Opens, OpensNot, PageAdded, Rests
  <2>2. Fits(r)' /\ Brings(r)'
    BY <2>1 DEF Fits, At, Brings, Resting, NoPage
  <2>3. plugin'.plays \subseteq navidrome /\ plugin'.pages = plugin.pages
    BY <1>2, <1>3, <1>5 DEF Opens, OpensNot, PageAdded
  <2>4. /\ UNCHANGED <<history, second, navidrome, passed>>
        /\ UNCHANGED turns \/ LeavesTurn(r)
        /\ Rests(r)
    BY <1>5 DEF Opens, OpensNot, PageAdded
  <2>5. \A u \in Slots \ {r} : request'[u] = request[u]
    BY <1>1, <2>4 DEF Rests
  <2> QED
    BY <1>3, <2>1, <2>2, <2>3, <2>4, <2>5, QuietStep DEF Resting
<1>6. CASE Lacks(r)
  <2>1. PICK at \in {"checked", "added"} :
            /\ request'[r].kind = "page" /\ request'[r].page = request[r].page
            /\ request'[r].at = at /\ request'[r].plays \subseteq request[r].plays \ Held
    BY <1>1, <1>6 DEF Lacks, Goes, At, Request
  <2>2. \A n \in request'[r].plays : history[n] = 0
    BY <1>1, <2>1 DEF Held, IInv, TypeInv, Request
  <2>3. MayWork(r)' /\ UNCHANGED <<history, passed, navidrome>> /\ request[r].kind = "page"
    BY <1>6 DEF Lacks, MayWork, At
  <2>4. Fits(r)' /\ Brings(r)'
    BY <1>1, <2>1, <2>2, <2>3 DEF Fits, At, Brings
  <2> QED
    BY <1>1, <1>3, <1>6, <2>1, <2>4, QuietStep DEF Lacks, Goes
<1>7. ASSUME NEW page \in plugin.pages, TakePage(r, page)
      PROVE  IInv'
  <2>1. plugin'.plays = plugin.plays /\ plugin'.pages \subseteq plugin.pages
    BY <1>2, <1>7 DEF TakePage
  <2>2. CASE job = NoJob
    BY <1>3, <1>7, <2>1, <2>2, AloneStep DEF TakePage
  <2>3. CASE job # NoJob
    <3>1. /\ request'[r].kind = "page" /\ request'[r].at = "turn"
          /\ request'[r].plays \subseteq page.plays
          /\ request'[r].page = [page EXCEPT !.of = job.id]
      <4>1. Begins(r, [kind |-> "page", at |-> "turn", plays |-> page.plays \ job.edge,
                       page |-> [page EXCEPT !.of = job.id], upto |-> 0])
        BY <1>7, <2>3 DEF TakePage
      <4> QED
        BY <1>1, <4>1 DEF Begins
    <3>2. request'[r].page.plays = page.plays
      BY <1>2, <3>1 DEF Page
    <3>3. Fits(r)' /\ Brings(r)'
      BY <1>3, <1>7, <3>1, <3>2 DEF Fits, At, Brings, TakePage
    <3> QED
      BY <1>1, <1>3, <1>7, <2>1, <2>3, <3>1, <3>3, QuietStep DEF TakePage, Begins
  <2> QED
    BY <2>2, <2>3
<1> QED
  BY <1>4, <1>5, <1>6, <1>7

\* The import of last plays, but for its insert.
LEMMA LastStep ==
    ASSUME IInv, TypeInv', NEW r \in Slots,
           ImportLast(r) \/ ReadLast(r) \/ SelectHeld(r) \/ ImportFails(r)
    PROVE  IInv'
<1>1. request[r] \in Request /\ request \in [Slots -> Request] /\ Brings(r)
  BY DEF IInv, TypeInv, Known
<1>2. plugin.plays \subseteq navidrome /\ \A page \in plugin.pages : page.plays \subseteq navidrome
  BY DEF IInv, Known
<1>3. CASE ImportLast(r)
  <2>1. /\ request'[r].kind = "last" /\ request'[r].at = "reading"
        /\ request'[r].plays = {} /\ request'[r].page = NoPage
    BY <1>1, <1>3 DEF ImportLast, Begins, Resting
  <2>2. Fits(r)' /\ Brings(r)'
    BY <2>1 DEF Fits, At, Brings, NoPage
  <2> QED
    BY <1>1, <1>2, <1>3, <2>1, <2>2, QuietStep DEF ImportLast, Begins
<1>4. CASE ReadLast(r)
  <2>1. /\ request'[r].kind = "last" /\ request'[r].at = "read"
        /\ request'[r].plays \subseteq navidrome /\ request'[r].page = request[r].page
    BY <1>1, <1>4 DEF ReadLast, Goes, At, Request
  <2>2. Fits(r)' /\ Brings(r)'
    BY <1>1, <1>4, <2>1 DEF Fits, At, Brings, ReadLast
  <2> QED
    BY <1>1, <1>2, <1>4, <2>1, <2>2, QuietStep DEF ReadLast, Goes
<1>5. CASE SelectHeld(r)
  <2>1. /\ request'[r].kind = "last" /\ request'[r].at = "checked"
        /\ request'[r].plays = request[r].plays \ Held /\ request'[r].page = request[r].page
    BY <1>1, <1>5 DEF SelectHeld, Goes, At, Request
  <2>2. \A n \in request'[r].plays : history[n] = 0
    BY <1>1, <2>1 DEF Held, IInv, TypeInv, Request
  <2>3. Fits(r)' /\ Brings(r)'
    BY <1>1, <1>5, <2>1, <2>2 DEF Fits, At, Brings, SelectHeld
  <2> QED
    BY <1>1, <1>2, <1>5, <2>1, <2>3, QuietStep DEF SelectHeld, Goes
<1>6. CASE ImportFails(r)
  <2>1. request'[r] = Resting
    BY <1>1, <1>6 DEF ImportFails, Rests
  <2>2. Fits(r)' /\ Brings(r)'
    BY <2>1 DEF Fits, At, Brings, Resting, NoPage
  <2> QED
    BY <1>1, <1>2, <1>6, <2>1, <2>2, QuietStep DEF ImportFails, Rests, Resting
<1> QED
  BY <1>3, <1>4, <1>5, <1>6

\* Plays inserted are held, and nothing else changes.
LEMMA Inserted ==
    ASSUME TypeInv, NEW r \in Slots, NEW plays \in SUBSET Plays, Insert(r, plays)
    PROVE  /\ \A n \in Plays : history'[n] = IF n \in plays THEN history[n] + 1 ELSE history[n]
           /\ Held' = Held \cup plays /\ passed \subseteq passed'
<1>1. \A n \in Plays : history'[n] = IF n \in plays THEN history[n] + 1 ELSE history[n]
  BY DEF Insert
<1>2. \A n \in Plays : history[n] \in Nat
  BY DEF TypeInv
<1>3. Held' = Held \cup plays
  BY <1>1, <1>2 DEF Held
<1> QED
  BY <1>1, <1>3 DEF Insert

\* A request inserts what it held as missing: no other held it too, in its turn.
LEMMA InsertStep ==
    ASSUME IInv, TypeInv', NEW r \in Slots, Adds(r) \/ InsertLast(r)
    PROVE  IInv'
<1>1. request[r] \in Request /\ request \in [Slots -> Request] /\ Brings(r) /\ Fits(r)
  BY DEF IInv, TypeInv, Known
<1> DEFINE plays == request[r].plays
<1>2. /\ request[r].at = "checked" /\ request[r].kind \in {"scrobble", "page", "last"}
      /\ plays \in SUBSET Plays /\ plays \subseteq navidrome
  BY <1>1 DEF Adds, InsertLast, At, Brings, Request
<1>3. Insert(r, plays) /\ UNCHANGED <<second, navidrome, plugin, turns>>
  BY DEF Adds, InsertLast
<1>4. /\ \A n \in Plays : history'[n] = IF n \in plays THEN history[n] + 1 ELSE history[n]
      /\ Held' = Held \cup plays /\ passed \subseteq passed'
  BY <1>2, <1>3, Inserted DEF IInv
<1>5. \A u \in Slots \ {r} : request'[u] = request[u]
  BY <1>1 DEF Adds, InsertLast, Goes, Rests
<1>6. /\ request'[r].at \in {"added", "idle"} /\ request'[r].kind \in {request[r].kind, "none"}
      /\ request'[r].plays \in {plays, {}} /\ request'[r].page.plays \in {request[r].page.plays, {}}
  <2>1. CASE Adds(r)
    BY <1>1, <2>1 DEF Adds, Goes, Request
  <2>2. CASE InsertLast(r)
    BY <1>1, <2>2 DEF InsertLast, Rests, Resting, NoPage
  <2> QED
    BY <2>1, <2>2
<1>7. Known'
  <2>1. Made' = Made /\ Held' \subseteq Made
    BY <1>2, <1>3, <1>4 DEF IInv, Known, Made
  <2>2. Brings(r)'
    BY <1>1, <1>2, <1>3, <1>6 DEF Brings
  <2>3. \A u \in Slots \ {r} : Brings(u)'
    BY <1>3, <1>5, <2>1 DEF IInv, Known, Brings
  <2> QED
    BY <1>3, <2>1, <2>2, <2>3 DEF IInv, Known
<1>8. PlayedOnce'
  <2>1. ASSUME NEW n \in Plays, history'[n] > 1 PROVE n \in passed'
    <3>1. history[n] \in Nat /\ (history[n] > 1 => n \in passed)
      BY DEF IInv, TypeInv, PlayedOnce
    <3>2. n \in plays => history[n] = 0 \/ n \in passed
      BY <1>1, <1>2 DEF Fits
    <3> QED
      BY <1>4, <2>1, <3>1, <3>2
  <2> QED
    BY <2>1 DEF PlayedOnce
<1>9. ASSUME NEW u \in Slots PROVE Fits(u)'
  <2>1. CASE u = r
    <3>1. request'[r].kind = "scrobble" => request'[r].plays = plays /\ request[r].kind = "scrobble"
      BY <1>1 DEF Adds, InsertLast, Goes, Rests, Resting, Request, At
    <3> QED
      BY <1>1, <1>6, <2>1, <3>1 DEF Fits, At
  <2>2. CASE u # r
    <3>1. request'[u] = request[u] /\ Fits(u) /\ Brings(u)
      BY <1>5, <2>2 DEF IInv, Known
    <3>2. MayWork(u)' <=> MayWork(u)
      BY <1>3 DEF MayWork
    <3>3. ASSUME request[u].at = "checked", NEW n \in request[u].plays
          PROVE  history'[n] = 0 \/ n \in passed'
      <4>1. n \in Plays
        BY DEF IInv, TypeInv, Request
      <4>2. CASE n \in plays
        <5>1. "last" \in {request[r].kind, request[u].kind}
          BY <1>1, <1>2, <2>2, <3>1, <3>3 DEF Fits, MayWork
        <5>2. n \in Missing(u)
          BY <3>3 DEF Missing
        <5> QED
          BY <1>3, <2>2, <4>2, <5>1, <5>2 DEF Insert
      <4>3. CASE n \notin plays
        BY <1>4, <3>1, <3>3, <4>1, <4>3 DEF Fits
      <4> QED
        BY <4>2, <4>3
    <3> QED
      BY <1>2, <1>3, <1>4, <3>1, <3>2, <3>3 DEF Fits, At
  <2> QED
    BY <2>1, <2>2
<1>10. ASSUME NEW u \in Slots, NEW v \in Slots, u # v PROVE Apart(u, v)'
  BY <1>2, <1>5, <1>6, <1>10 DEF IInv, Apart, At
<1> QED
  BY <1>7, <1>8, <1>9, <1>10 DEF IInv

\* A browser's play is recorded: nobody else has heard of it.
LEMMA RecordStep ==
    ASSUME IInv, TypeInv', NEW r \in Slots, Record(r)
    PROVE  IInv'
<1>1. request[r] \in Request /\ request \in [Slots -> Request] /\ Brings(r) /\ Fits(r)
  BY DEF IInv, TypeInv, Known
<1> DEFINE plays == request[r].plays
<1>2. /\ At(r, "play", "lookup") /\ plays \in SUBSET Plays /\ plays \subseteq Made
      /\ plays \cap (navidrome \cup Held) = {}
  BY <1>1 DEF Record, At, Brings, Fits, Request
<1>3. UNCHANGED <<second, navidrome, plugin, turns>>
  BY DEF Record
<1>4. /\ \A n \in Plays : history'[n] = IF n \in plays /\ history' # history
                                        THEN history[n] + 1 ELSE history[n]
      /\ Held' \subseteq Held \cup plays /\ passed \subseteq passed'
  <2>1. CASE Insert(r, plays)
    BY <1>2, <2>1, Inserted DEF IInv
  <2>2. CASE UNCHANGED <<history, passed>>
    BY <2>2 DEF Held
  <2> QED
    BY <2>1, <2>2 DEF Record
<1>5. \A u \in Slots \ {r} : request'[u] = request[u]
  BY <1>1 DEF Record, Goes
<1>6. /\ request'[r].kind = "play" /\ request'[r].at = "added"
      /\ request'[r].plays = plays /\ request'[r].page = request[r].page
  BY <1>1, <1>2 DEF Record, Goes, Request, At
<1>7. Known'
  <2>1. Made' = Made /\ Held' \subseteq Made
    BY <1>2, <1>3, <1>4 DEF IInv, Known, Made
  <2>2. Brings(r)'
    BY <1>1, <1>2, <1>3, <1>6, <2>1 DEF Brings
  <2>3. \A u \in Slots \ {r} : Brings(u)'
    BY <1>3, <1>5, <2>1 DEF IInv, Known, Brings
  <2> QED
    BY <1>3, <2>1, <2>2, <2>3 DEF IInv, Known
<1>8. PlayedOnce'
  <2>1. ASSUME NEW n \in Plays, history'[n] > 1 PROVE n \in passed'
    <3>1. history[n] \in Nat /\ (history[n] > 1 => n \in passed)
      BY DEF IInv, TypeInv, PlayedOnce
    <3>2. n \in plays => history[n] = 0
      BY <1>2, <3>1 DEF Held
    <3> QED
      BY <1>4, <2>1, <3>1, <3>2
  <2> QED
    BY <2>1 DEF PlayedOnce
<1>9. ASSUME NEW u \in Slots PROVE Fits(u)'
  <2>1. CASE u = r
    BY <1>6, <2>1 DEF Fits, At
  <2>2. CASE u # r
    <3>1. request'[u] = request[u] /\ Fits(u) /\ Brings(u) /\ Apart(u, r)
      BY <1>5, <2>2 DEF IInv, Known
    <3>2. MayWork(u)' <=> MayWork(u)
      BY <1>3 DEF MayWork
    <3>3. ASSUME request[u].at = "checked", NEW n \in request[u].plays
          PROVE  history'[n] = 0 \/ n \in passed'
      <4>1. n \in Plays
        BY DEF IInv, TypeInv, Request
      <4>2. n \in navidrome
        BY <3>1, <3>3 DEF Fits, Brings
      <4> QED
        BY <1>2, <1>4, <3>1, <3>3, <4>1, <4>2 DEF Fits
    <3> QED
      BY <1>2, <1>3, <1>4, <3>1, <3>2, <3>3 DEF Fits, At, Apart
  <2> QED
    BY <2>1, <2>2
<1>10. ASSUME NEW u \in Slots, NEW v \in Slots, u # v PROVE Apart(u, v)'
  <2>1. Apart(u, v)
    BY <1>10 DEF IInv
  <2> QED
    BY <1>2, <1>5, <1>6, <1>10, <2>1 DEF Apart, At
<1> QED
  BY <1>7, <1>8, <1>9, <1>10 DEF IInv

\* A play that is made is new to everyone.
LEMMA MadeNext ==
    ASSUME IInv, NEW n, Play(n)
    PROVE  /\ Made' = Made \cup {n} /\ n \in Plays
           /\ n \notin Made /\ n \notin navidrome /\ n \notin Held
           /\ \A u \in Slots : request[u].kind = "play" => n \notin request[u].plays
<1>1. Len(second') = n /\ n \in Plays /\ n = Len(second) + 1
  BY PlayNext DEF IInv
<1>2. Len(second) \in Nat
  BY LenProperties DEF IInv, TypeInv
<1>3. Made' = Made \cup {n} /\ n \notin Made
  BY <1>1, <1>2 DEF Made
<1> QED
  BY <1>1, <1>3 DEF IInv, Known, Brings

\* A play is made, in another app or in a browser.
LEMMA PlayStep ==
    ASSUME IInv, TypeInv', NEW n \in Plays,
           \/ \E told \in BOOLEAN : PlayElsewhere(n, told)
           \/ \E r \in Slots : PlayHere(r, n)
    PROVE  IInv'
<1>1. request \in [Slots -> Request] /\ plugin \in [plays : SUBSET Plays, pages : SUBSET Page, waits : BOOLEAN]
  BY DEF IInv, TypeInv
<1>2. Play(n) /\ UNCHANGED <<history, turns, passed>>
  BY DEF PlayElsewhere, PlayHere, server
<1>3. /\ Made' = Made \cup {n} /\ n \in Plays
      /\ n \notin Made /\ n \notin navidrome /\ n \notin Held
      /\ \A u \in Slots : request[u].kind = "play" => n \notin request[u].plays
  BY <1>2, MadeNext
<1>4. Held' = Held /\ PlayedOnce' /\ \A u \in Slots : MayWork(u)' <=> MayWork(u)
  BY <1>2 DEF Held, IInv, PlayedOnce, MayWork
<1>5. ASSUME NEW told \in BOOLEAN, PlayElsewhere(n, told)
      PROVE  IInv'
  <2>1. navidrome' = navidrome \cup {n} /\ request' = request
    BY <1>5 DEF PlayElsewhere, Logged, server
  <2>2. plugin'.plays \subseteq plugin.plays \cup {n} /\ plugin'.pages = plugin.pages
    BY <1>1, <1>5 DEF PlayElsewhere, Logged
  <2>3. Known'
    BY <1>3, <1>4, <2>1, <2>2 DEF IInv, Known, Brings
  <2>4. ASSUME NEW u \in Slots PROVE Fits(u)'
    BY <1>2, <1>3, <1>4, <2>1 DEF IInv, Fits, At
  <2>5. ASSUME NEW u \in Slots, NEW v \in Slots, u # v PROVE Apart(u, v)'
    BY <2>1, <2>5 DEF IInv, Apart, At
  <2> QED
    BY <1>4, <2>3, <2>4, <2>5 DEF IInv
<1>6. ASSUME NEW r \in Slots, PlayHere(r, n)
      PROVE  IInv'
  <2>1. \A u \in Slots \ {r} : request'[u] = request[u]
    BY <1>1, <1>6 DEF PlayHere, Begins
  <2>2. /\ request'[r].kind = "play" /\ request'[r].at = "lookup"
        /\ request'[r].plays = {n} /\ request'[r].page = NoPage
    BY <1>1, <1>6 DEF PlayHere, Begins, Resting
  <2>3. UNCHANGED <<navidrome, plugin>>
    BY <1>6 DEF PlayHere
  <2>4. Brings(r)'
    BY <1>3, <2>2 DEF Brings, NoPage
  <2>5. Known'
    BY <1>3, <1>4, <2>1, <2>3, <2>4 DEF IInv, Known, Brings
  <2>6. ASSUME NEW u \in Slots PROVE Fits(u)'
    BY <1>2, <1>3, <1>4, <2>1, <2>2, <2>3 DEF IInv, Fits, At
  <2>7. ASSUME NEW u \in Slots, NEW v \in Slots, u # v PROVE Apart(u, v)'
    <3>1. Apart(u, v)
      BY <2>7 DEF IInv
    <3> QED
      BY <1>3, <2>1, <2>2, <2>7, <3>1 DEF Apart, At
  <2> QED
    BY <1>4, <2>5, <2>6, <2>7 DEF IInv
<1> QED
  BY <1>5, <1>6

\* A play recorded is reported to the music server, which logs it.
LEMMA ReportStep ==
    ASSUME IInv, TypeInv', NEW r \in Slots, Reports(r)
    PROVE  IInv'
<1>1. /\ request \in [Slots -> Request] /\ request[r] \in Request /\ Brings(r)
      /\ plugin \in [plays : SUBSET Plays, pages : SUBSET Page, waits : BOOLEAN]
  BY DEF IInv, TypeInv, Known
<1>2. request[r].kind = "play" /\ UNCHANGED <<history, second, turns, passed>>
  BY DEF Reports, At
<1>3. Made' = Made /\ Held' = Held /\ PlayedOnce' /\ \A u \in Slots : MayWork(u)' <=> MayWork(u)
  BY <1>2 DEF Made, Held, IInv, PlayedOnce, MayWork
<1>4. request'[r] = Resting /\ \A u \in Slots \ {r} : request'[u] = request[u]
  BY <1>1 DEF Reports, Rests
<1>5. PICK new \in SUBSET request[r].plays :
            /\ navidrome' = navidrome \cup new
            /\ plugin'.plays \subseteq plugin.plays \cup new /\ plugin'.pages = plugin.pages
  <2>1. ASSUME NEW n \in request[r].plays, NEW told \in BOOLEAN, Logged(n, told)
        PROVE  /\ navidrome' = navidrome \cup {n}
               /\ plugin'.plays \subseteq plugin.plays \cup {n} /\ plugin'.pages = plugin.pages
    BY <1>1, <2>1 DEF Logged
  <2>2. CASE UNCHANGED <<navidrome, plugin>>
    <3>1. {} \in SUBSET request[r].plays
      OBVIOUS
    <3> QED
      BY <2>2, <3>1
  <2>3. ASSUME NEW n \in request[r].plays, NEW told \in BOOLEAN, Logged(n, told)
        PROVE  \E new \in SUBSET request[r].plays :
                  /\ navidrome' = navidrome \cup new
                  /\ plugin'.plays \subseteq plugin.plays \cup new /\ plugin'.pages = plugin.pages
    <3>1. {n} \in SUBSET request[r].plays
      OBVIOUS
    <3> QED
      BY <2>1, <2>3, <3>1
  <2> QED
    BY <2>2, <2>3 DEF Reports
<1>6. new \subseteq Made
  BY <1>1, <1>2 DEF Brings
<1>7. Brings(r)'
  BY <1>4 DEF Brings, Resting, NoPage
<1>8. Known'
  BY <1>3, <1>4, <1>5, <1>6, <1>7 DEF IInv, Known, Brings
<1>9. ASSUME NEW u \in Slots PROVE Fits(u)'
  <2>1. CASE u = r
    BY <1>4, <2>1 DEF Fits, At, Resting
  <2>2. CASE u # r
    <3>1. request'[u] = request[u] /\ Fits(u) /\ Apart(u, r)
      BY <1>4, <2>2 DEF IInv
    <3> QED
      BY <1>2, <1>3, <1>5, <3>1 DEF Fits, At, Apart
  <2> QED
    BY <2>1, <2>2
<1>10. ASSUME NEW u \in Slots, NEW v \in Slots, u # v PROVE Apart(u, v)'
  <2>1. Apart(u, v)
    BY <1>10 DEF IInv
  <2> QED
    BY <1>4, <1>10, <2>1 DEF Apart, At, Resting
<1> QED
  BY <1>3, <1>8, <1>9, <1>10 DEF IInv

\* The plugin's polls, imports given up, the history cleared and a restart.
LEMMA RestStep ==
    ASSUME IInv, TypeInv', SendPage \/ PollAgain \/ GivesUp \/ Clear \/ Restart
    PROVE  IInv'
<1>1. plugin \in [plays : SUBSET Plays, pages : SUBSET Page, waits : BOOLEAN]
  BY DEF IInv, TypeInv
<1>2. plugin.plays \subseteq navidrome /\ \A page \in plugin.pages : page.plays \subseteq navidrome
  BY DEF IInv, Known
<1>3. CASE SendPage
  <2>1. PageFrom(job.from).plays \subseteq navidrome
    BY PageTypes DEF IInv, TypeInv, Job
  <2>2. plugin'.plays = plugin.plays /\ plugin'.pages = plugin.pages \cup {PageFrom(job.from)}
    BY <1>1, <1>3 DEF SendPage
  <2> QED
    BY <1>2, <1>3, <2>1, <2>2, AloneStep DEF SendPage, server
<1>4. CASE PollAgain \/ GivesUp
  <2>1. plugin'.plays = plugin.plays /\ plugin'.pages = plugin.pages
    BY <1>1, <1>4 DEF PollAgain, GivesUp
  <2> QED
    BY <1>2, <1>4, <2>1, AloneStep DEF PollAgain, GivesUp, server
<1>5. CASE Clear
  <2>1. /\ Held' = {} /\ PlayedOnce' /\ \A n \in Plays : history'[n] = 0
        /\ UNCHANGED <<second, navidrome, plugin, turns, request, passed>>
    BY <1>5 DEF Clear, Held, PlayedOnce
  <2>2. \A u \in Slots : request[u].plays \subseteq Plays
    BY DEF IInv, TypeInv, Request
  <2> QED
    BY <2>1, <2>2 DEF IInv, Known, Made, Brings, Fits, At, MayWork, Apart
<1>6. CASE Restart
  <2>1. plugin'.plays = plugin.plays /\ plugin'.pages = plugin.pages
    BY <1>1, <1>6 DEF Restart
  <2>2. UNCHANGED <<history, second, navidrome, passed>> /\ \A u \in Slots : request'[u] = Resting
    BY <1>6 DEF Restart
  <2> QED
    BY <2>1, <2>2 DEF IInv, Known, Made, Held, PlayedOnce, Brings, Fits, At, Apart, Resting, NoPage
<1> QED
  BY <1>3, <1>4, <1>5, <1>6

\* Every step keeps the invariant.
LEMMA StepInv == IInv /\ [Next]_vars => IInv'
<1> SUFFICES ASSUME IInv, [Next]_vars PROVE IInv'
  OBVIOUS
<1>1. TypeInv'
  BY StepTypes DEF IInv
<1>2. CASE UNCHANGED vars
  BY <1>1, <1>2, AloneStep DEF vars, server, IInv, Known
<1>3. CASE Playing
  BY <1>1, <1>3, PlayStep, RecordStep, ReportStep DEF Playing
<1>4. ASSUME NEW r \in Slots, Scrobbles(r) \/ Importing(r) \/ Adds(r) \/ WorkFails(r)
      PROVE  IInv'
  BY <1>1, <1>4, ScrobblesStep, PagesStep, LastStep, InsertStep DEF Importing
<1> QED
  BY <1>1, <1>2, <1>3, <1>4, RestStep DEF Next

-----------------------------------------------------------------------------
(* The theorem *)

\* No play is in the history twice, by whatever ways and however often it came,
\* but for what an import of last plays held as missing while another recorded it.
THEOREM EachPlayOnce == Spec => []PlayedOnce
<1>1. IInv => PlayedOnce
  BY DEF IInv
<1> QED
  BY <1>1, InitInv, StepInv, PTL DEF Spec

-----------------------------------------------------------------------------
(* What an import needs to be whole *)

\* No second has more plays than a page.
Bounded == \A s \in Nat : Cardinality({n \in Made : second[n] = s}) <= PageSize

\* An import is opening, open, or reads last plays, and it is the only one.
OneImport ==
    /\ job # NoJob => job.id > None /\ importing
    /\ \A u \in Slots : request[u].kind \in {"open", "last"} => importing /\ job = NoJob
    /\ \A u, v \in Slots :
          u # v => ~({request[u].kind, request[v].kind} \subseteq {"open", "last"})

\* The number an import gets as it opens is that of no page asked for before.
Numbered ==
    /\ job.id <= asked
    /\ \A page \in plugin.pages : page.of <= asked
    /\ \A v \in Slots : request[v].page.of <= asked
    /\ \A v \in Slots : request[v].kind = "page" => request[v].page.of > None
    /\ \A u \in Slots : request[u].kind = "open" =>
          /\ asked > None
          /\ \A page \in plugin.pages : page.of < asked
          /\ \A v \in Slots : request[v].page.of < asked

\* What a page leaves out of the plays from its start is later than the start, and
\* than all that it has, and more is to come.
PageTrue(page) ==
    \A n \in job.songs \ page.plays : second[n] >= page.from =>
        /\ page.more /\ second[n] > page.from
        /\ \A m \in page.plays : second[m] <= second[n]

PagesTrue ==
    /\ job.songs \subseteq navidrome
    /\ \A page \in plugin.pages : page.of = job.id => PageTrue(page)

\* A page of the import under way, and what the history has of it by then.
OfJob(u) == request[u].kind = "page" /\ request[u].page.of = job.id
Brought(u) ==
    LET due == request[u].page.plays \cap Due(job) IN
    /\ request[u].at = "turn" => request[u].plays = request[u].page.plays \ job.edge
    /\ request[u].at = "checked" => due \subseteq Held \cup request[u].plays
    /\ request[u].at = "added" => due \subseteq Held

\* The history has what is due from before the next page's start, and of that
\* second what the last page had; one page at a time is added.
Going ==
    job # NoJob /\ ~job.astray =>
        /\ \A n \in Due(job) : second[n] < job.from \/ n \in job.edge => n \in Held
        /\ \A u, v \in Slots : OfJob(u) /\ OfJob(v) => u = v
        /\ \A u \in Slots : OfJob(u) =>
              request[u].page.from = job.from /\ PageTrue(request[u].page) /\ Brought(u)

WholeInv ==
    /\ IInv /\ Bounded /\ OneImport /\ Numbered /\ PagesTrue /\ Going
    /\ ImportWhole

\* What Seconds says of a sequence of plays.
LEMMA SecondsBounded ==
    ASSUME NEW n \in Nat, NEW t \in Seconds(n), NEW s \in Nat
    PROVE  Cardinality({m \in 1..n : t[m] = s}) <= PageSize
<1>1. /\ t \in [1..n -> 1..n]
      /\ \A u \in 1..n : Cardinality({m \in 1..n : t[m] = u}) <= PageSize
  BY DEF Seconds
<1>2. CASE s \in 1..n
  BY <1>1, <1>2
<1>3. CASE s \notin 1..n
  <2>1. {m \in 1..n : t[m] = s} = {}
    BY <1>1, <1>3
  <2> QED
    BY <2>1, FS_EmptySet, HistoryAssumption
<1> QED
  BY <1>2, <1>3

\* The next play leaves those made where they were.
LEMMA PlaySeconds ==
    ASSUME TypeInv, NEW n, Play(n)
    PROVE  Bounded' /\ \A m \in Made : second'[m] = second[m]
<1>1. /\ second' \in Seq(Nat) /\ Len(second') = n /\ second' \in Seconds(n)
      /\ Len(second) \in Nat /\ n = Len(second) + 1 /\ n \in Nat
  BY PlayNext, LenProperties DEF Play, TypeInv
<1>2. Made' = 1..n
  BY <1>1 DEF Made
<1>3. Bounded'
  BY <1>1, <1>2, SecondsBounded DEF Bounded
<1>4. SubSeq(second', 1, n - 1) = second
  BY DEF Play
<1>5. ASSUME NEW m \in 1..(n - 1) PROVE SubSeq(second', 1, n - 1)[m] = second'[m]
  BY <1>1, SubSeqProperties
<1> QED
  BY <1>1, <1>3, <1>4, <1>5 DEF Made

\* A page as the plugin builds it: the plays from its start, the first ones first,
\* up to its size.
LEMMA PageFromTrue ==
    ASSUME TypeInv, Known, Bounded, job.songs \subseteq navidrome
    PROVE  PageTrue(PageFrom(job.from))
<1> DEFINE later == {n \in navidrome : second[n] >= job.from}
           Before(n) == {m \in later : second[m] < second[n] \/ (second[m] = second[n] /\ m < n)}
           first == {n \in later : Cardinality(Before(n)) < PageSize}
<1>1. /\ PageFrom(job.from).plays = first /\ PageFrom(job.from).from = job.from
      /\ PageFrom(job.from).more = (first # later)
  BY DEF PageFrom
<1>2. /\ \A n \in Made : n \in Nat /\ second[n] \in Nat
      /\ IsFiniteSet(Made) /\ job.from \in Nat /\ PageSize \in Nat
  <2>1. Len(second) \in Nat /\ \A n \in Made : second[n] \in Nat
    BY LenProperties, ElementOfSeq DEF TypeInv, Made
  <2>2. IsFiniteSet(Made) /\ \A n \in Made : n \in Nat
    BY <2>1, FS_Interval DEF Made
  <2>3. job.from \in Nat
    BY DEF TypeInv, Job
  <2>4. PageSize \in Nat
    BY HistoryAssumption
  <2> QED
    BY <2>1, <2>2, <2>3, <2>4
<1>3. /\ later \subseteq Made
      /\ \A n \in later : IsFiniteSet(Before(n)) /\ Before(n) \subseteq Made /\ Cardinality(Before(n)) \in Nat
  <2>1. later \subseteq Made
    BY DEF Known
  <2>2. \A n \in later : Before(n) \subseteq Made
    BY <2>1
  <2> QED
    BY <1>2, <2>1, <2>2, FS_Subset, FS_CardinalityType
<1>4. ASSUME NEW n \in job.songs, n \notin first, second[n] >= job.from
      PROVE  /\ first # later /\ second[n] > job.from
             /\ \A m \in first : second[m] <= second[n]
  <2>1. n \in later /\ ~(Cardinality(Before(n)) < PageSize)
    BY <1>4
  <2>2. n \in Made /\ second[n] \in Nat /\ Cardinality(Before(n)) \in Nat
    BY <1>2, <1>3, <2>1
  <2>3. second[n] # job.from
    <3>1. SUFFICES ASSUME second[n] = job.from PROVE FALSE
      OBVIOUS
    <3> DEFINE same == {m \in Made : second[m] = job.from}
    <3>2. n \in same /\ same \subseteq Made /\ Before(n) \subseteq same \ {n}
      <4>1. ASSUME NEW m \in Before(n) PROVE m \in same /\ m # n
        <5>1. m \in Made /\ m \in Nat /\ second[m] \in Nat /\ second[m] >= job.from
          BY <1>2, <1>3, <2>1, <4>1
        <5>2. second[m] < second[n] \/ (second[m] = second[n] /\ m < n)
          BY <4>1
        <5> QED
          BY <1>2, <2>2, <3>1, <5>1, <5>2
      <4> QED
        BY <2>2, <3>1, <4>1
    <3>3. IsFiniteSet(same) /\ Cardinality(same) \in Nat /\ Cardinality(same) <= PageSize
      BY <1>2, <3>2, FS_Subset, FS_CardinalityType DEF Bounded
    <3>4. IsFiniteSet(same \ {n}) /\ Cardinality(same \ {n}) = Cardinality(same) - 1
      BY <3>2, <3>3, FS_RemoveElement
    <3>5. Cardinality(Before(n)) <= Cardinality(same \ {n})
      BY <3>2, <3>4, FS_Subset
    <3> HIDE DEF same, Before
    <3> QED
      BY <1>2, <2>1, <2>2, <3>3, <3>4, <3>5
  <2>4. ASSUME NEW m \in first PROVE second[m] <= second[n]
    <3>1. m \in later /\ Cardinality(Before(m)) < PageSize
      BY <2>4
    <3>2. second[m] \in Nat /\ IsFiniteSet(Before(m)) /\ Cardinality(Before(m)) \in Nat
      BY <1>2, <1>3, <3>1
    <3>3. SUFFICES ASSUME second[m] > second[n] PROVE FALSE
      BY <2>2, <3>2
    <3>4. Before(n) \subseteq Before(m)
      <4>1. ASSUME NEW k \in Before(n) PROVE k \in Before(m)
        <5>1. k \in later /\ (second[k] < second[n] \/ (second[k] = second[n] /\ k < n))
          BY <4>1
        <5>2. second[k] \in Nat
          BY <1>2, <1>3, <5>1
        <5>3. second[k] < second[m]
          BY <2>2, <3>2, <3>3, <5>1, <5>2
        <5> QED
          BY <5>1, <5>3
      <4> QED
        BY <4>1
    <3>5. Cardinality(Before(n)) <= Cardinality(Before(m))
      BY <3>2, <3>4, FS_Subset
    <3> HIDE DEF Before
    <3> QED
      BY <1>2, <2>1, <2>2, <3>1, <3>2, <3>5
  <2>5. n \in later /\ n \notin first
    BY <1>4, <2>1
  <2>6. second[n] > job.from
    BY <1>2, <1>4, <2>2, <2>3
  <2> QED
    BY <2>4, <2>5, <2>6
<1> HIDE DEF first, later
<1> QED
  BY <1>1, <1>4 DEF PageTrue

\* Plays made since leave a page as true as it was.
LEMMA PageStaysTrue ==
    ASSUME Known, PagesTrue, \A m \in Made : second'[m] = second[m],
           job'.songs = job.songs,
           NEW page, page.plays \subseteq navidrome, PageTrue(page)
    PROVE  PageTrue(page)'
<1>1. /\ \A n \in job.songs : second'[n] = second[n]
      /\ \A m \in page.plays : second'[m] = second[m]
  BY DEF Known, PagesTrue
<1> QED
  BY <1>1 DEF PageTrue

\* A request goes on or rests, and begins no import and no page.
GoesOn(u) ==
    /\ request'[u].kind \in {"open", "last"} => request[u].kind = request'[u].kind
    /\ request'[u].page.of \in {request[u].page.of, None}
    /\ request'[u].kind = "page" =>
          /\ request[u].kind = "page" /\ request'[u].page = request[u].page
          /\ OfJob(u) /\ job # NoJob /\ ~job.astray => Brought(u)'

\* Whose import it is stays as it was.
LEMMA QuietImport ==
    ASSUME TypeInv, TypeInv', OneImport, Numbered, UNCHANGED <<importing, job, asked>>,
           \A page \in plugin'.pages :
              page \in plugin.pages \/ (job # NoJob /\ page.of = job.id),
           \A u \in Slots : request'[u] = request[u] \/ GoesOn(u)
    PROVE  OneImport' /\ Numbered'
<1>1. ASSUME NEW u \in Slots
      PROVE  /\ request'[u].kind \in {"open", "last"} => request[u].kind = request'[u].kind
             /\ request'[u].page.of \in {request[u].page.of, None}
  BY <1>1 DEF GoesOn
<1>2. OneImport'
  BY <1>1 DEF OneImport
<1>3. asked \in Nat /\ job.id \in Nat
  BY DEF TypeInv, Job
<1>4. ASSUME NEW u \in Slots, request'[u].kind = "open"
      PROVE  /\ asked > None
             /\ \A page \in plugin'.pages : page.of < asked
             /\ \A v \in Slots : request'[v].page.of < asked
  <2>1. request[u].kind = "open" /\ job = NoJob
    BY <1>1, <1>4 DEF OneImport
  <2>2. /\ asked > None
        /\ \A page \in plugin.pages : page.of < asked
        /\ \A v \in Slots : request[v].page.of < asked
    BY <2>1 DEF Numbered
  <2>3. \A v \in Slots : request'[v].page.of < asked
    BY <1>1, <2>2 DEF None
  <2> QED
    BY <2>1, <2>2, <2>3
<1>5. \A page \in plugin'.pages : page.of <= asked
  BY DEF Numbered
<1>6. \A v \in Slots : request'[v].page.of <= asked
  BY <1>1, <1>3 DEF Numbered, None
<1>7. ASSUME NEW u \in Slots, request'[u].kind = "page" PROVE request'[u].page.of > None
  BY <1>7 DEF Numbered, GoesOn
<1> QED
  BY <1>2, <1>4, <1>5, <1>6, <1>7 DEF Numbered

\* What is built of the plays due, and what of them the history has.
LEMMA QuietPages ==
    ASSUME TypeInv, Known, Bounded, PagesTrue, \A m \in Made : second'[m] = second[m],
           navidrome \subseteq navidrome', UNCHANGED job,
           \A page \in plugin'.pages :
              page \in plugin.pages \/ (job # NoJob /\ page = PageFrom(job.from))
    PROVE  PagesTrue'
<1>1. job'.songs \subseteq navidrome'
  BY DEF PagesTrue
<1>2. ASSUME NEW page \in plugin'.pages, page.of = job.id
      PROVE  PageTrue(page)'
  <2>1. page.plays \subseteq navidrome /\ PageTrue(page)
    <3>1. CASE page \in plugin.pages
      BY <1>2, <3>1 DEF Known, PagesTrue
    <3>2. CASE page = PageFrom(job.from)
      <4>1. PageFrom(job.from).plays \subseteq navidrome
        BY PageTypes DEF TypeInv, Job
      <4>2. PageTrue(PageFrom(job.from))
        BY PageFromTrue DEF PagesTrue
      <4> QED
        BY <3>2, <4>1, <4>2
    <3> QED
      BY <3>1, <3>2
  <2> QED
    BY <2>1, PageStaysTrue
<1> QED
  BY <1>1, <1>2 DEF PagesTrue

\* A page under way goes on, and what the history has it keeps.
LEMMA QuietGoing ==
    ASSUME Known, PagesTrue, Going, \A m \in Made : second'[m] = second[m],
           Held \subseteq Held', UNCHANGED job,
           \A u \in Slots : request'[u] = request[u] \/ GoesOn(u)
    PROVE  Going'
<1>1. SUFFICES ASSUME job # NoJob, ~job.astray
               PROVE  /\ \A n \in Due(job) : second'[n] < job.from \/ n \in job.edge => n \in Held'
                      /\ \A u, v \in Slots : OfJob(u)' /\ OfJob(v)' => u = v
                      /\ \A u \in Slots : OfJob(u)' =>
                            /\ request'[u].page.from = job.from
                            /\ PageTrue(request[u].page)' /\ Brought(u)'
  BY DEF Going, Due
<1>2. \A n \in Due(job) : second'[n] < job.from \/ n \in job.edge => n \in Held'
  <2>1. \A n \in Due(job) : second'[n] = second[n]
    BY DEF Due, PagesTrue, Known
  <2> QED
    BY <1>1, <2>1 DEF Going
<1>3. ASSUME NEW u \in Slots, OfJob(u)'
      PROVE  OfJob(u) /\ request'[u].page = request[u].page
  BY <1>3 DEF OfJob, GoesOn
<1>4. ASSUME NEW u \in Slots, OfJob(u)'
      PROVE  /\ request'[u].page.from = job.from
             /\ PageTrue(request[u].page)' /\ Brought(u)'
  <2>1. /\ OfJob(u) /\ request'[u].page = request[u].page
        /\ request[u].page.from = job.from /\ PageTrue(request[u].page) /\ Brought(u)
    BY <1>1, <1>3, <1>4 DEF Going
  <2>2. PICK page : page = request[u].page
    OBVIOUS
  <2>3. page.plays \subseteq navidrome /\ PageTrue(page)
    BY <2>1, <2>2 DEF Known, Brings, PageTrue
  <2>4. PageTrue(page)'
    BY <2>3, PageStaysTrue
  <2>5. PageTrue(request[u].page)'
    BY <2>1, <2>2, <2>4 DEF PageTrue
  <2>6. Brought(u)'
    <3>1. CASE request'[u] = request[u]
      BY <2>1, <3>1 DEF Brought, Due
    <3>2. CASE GoesOn(u)
      BY <1>1, <1>4, <2>1, <3>2 DEF GoesOn, OfJob
    <3> QED
      BY <3>1, <3>2
  <2> QED
    BY <2>1, <2>5, <2>6
<1>5. \A u, v \in Slots : OfJob(u)' /\ OfJob(v)' => u = v
  BY <1>1, <1>3 DEF Going
<1> QED
  BY <1>2, <1>4, <1>5

\* A step that begins and ends no import, asks for no page and takes none.
LEMMA QuietWhole ==
    ASSUME WholeInv, IInv', Bounded', \A m \in Made : second'[m] = second[m],
           navidrome \subseteq navidrome', Held \subseteq Held',
           UNCHANGED <<importing, job, asked, missed>>,
           \A page \in plugin'.pages :
              page \in plugin.pages \/ (job # NoJob /\ page = PageFrom(job.from)),
           \A u \in Slots : request'[u] = request[u] \/ GoesOn(u)
    PROVE  WholeInv'
<1>1. TypeInv /\ TypeInv' /\ Known /\ Bounded /\ OneImport /\ Numbered /\ PagesTrue /\ Going
  BY DEF WholeInv, IInv
<1>2. PageFrom(job.from).of = job.id
  BY DEF PageFrom
<1>3. OneImport' /\ Numbered'
  BY <1>1, <1>2, QuietImport
<1>4. PagesTrue'
  BY <1>1, QuietPages
<1>5. Going'
  BY <1>1, QuietGoing
<1> QED
  BY <1>3, <1>4, <1>5 DEF WholeInv, ImportWhole

\* Where no play is made.
LEMMA SameSeconds ==
    ASSUME Bounded, UNCHANGED second
    PROVE  Bounded' /\ \A m \in Made : second'[m] = second[m]
BY DEF Bounded, Made

\* What a request that goes on keeps.
LEMMA RequestGoes ==
    ASSUME TypeInv, NEW r \in Slots,
           NEW at \in {"lookup", "look", "turn", "checked", "added", "reading", "read"},
           NEW plays \in SUBSET Plays, Goes(r, at, plays)
    PROVE  /\ request'[r].kind = request[r].kind /\ request'[r].page = request[r].page
           /\ request'[r].at = at /\ request'[r].plays = plays
           /\ \A u \in Slots \ {r} : request'[u] = request[u]
<1>1. request \in [Slots -> Request] /\ request[r] \in Request
  BY DEF TypeInv
<1>2. request' = [request EXCEPT ![r] = [request[r] EXCEPT !.at = at, !.plays = plays]]
  BY <1>1 DEF Goes
<1> QED
  BY <1>1, <1>2 DEF Request

\* A request rests, goes on with what it is at, or begins what is no import.
LEMMA RequestGoesOn ==
    ASSUME TypeInv, NEW r \in Slots,
           \/ Rests(r)
           \/ request[r].kind # "page"
              /\ \E at \in {"lookup", "look", "turn", "checked", "added", "reading", "read"},
                    plays \in SUBSET Plays : Goes(r, at, plays)
           \/ \E new \in Request : Begins(r, new) /\ new.kind \in {"play", "scrobble"} /\ new.page = NoPage
    PROVE  \A u \in Slots : request'[u] = request[u] \/ GoesOn(u)
<1>1. request \in [Slots -> Request] /\ request[r] \in Request
  BY DEF TypeInv
<1>2. CASE Rests(r)
  <2>1. request'[r] = Resting /\ \A u \in Slots \ {r} : request'[u] = request[u]
    BY <1>1, <1>2 DEF Rests
  <2>2. GoesOn(r)
    BY <2>1 DEF GoesOn, Resting, NoPage
  <2> QED
    BY <2>1, <2>2
<1>3. ASSUME NEW at \in {"lookup", "look", "turn", "checked", "added", "reading", "read"},
             NEW plays \in SUBSET Plays, request[r].kind # "page", Goes(r, at, plays)
      PROVE  \A u \in Slots : request'[u] = request[u] \/ GoesOn(u)
  <2>1. /\ request'[r].kind = request[r].kind /\ request'[r].page = request[r].page
        /\ \A u \in Slots \ {r} : request'[u] = request[u]
    BY <1>3, RequestGoes
  <2>2. GoesOn(r)
    BY <1>3, <2>1 DEF GoesOn
  <2> QED
    BY <2>1, <2>2
<1>4. ASSUME NEW new \in Request, Begins(r, new), new.kind \in {"play", "scrobble"}, new.page = NoPage
      PROVE  \A u \in Slots : request'[u] = request[u] \/ GoesOn(u)
  <2>1. request'[r] = new /\ \A u \in Slots \ {r} : request'[u] = request[u]
    BY <1>1, <1>4 DEF Begins
  <2>2. GoesOn(r)
    BY <1>4, <2>1 DEF GoesOn, NoPage
  <2> QED
    BY <2>1, <2>2
<1> QED
  BY <1>2, <1>3, <1>4

\* Plays made, recorded and reported.
LEMMA PlayingWhole ==
    ASSUME WholeInv, IInv', Playing
    PROVE  WholeInv'
<1>1. /\ TypeInv /\ Bounded /\ request \in [Slots -> Request]
      /\ plugin \in [plays : SUBSET Plays, pages : SUBSET Page, waits : BOOLEAN]
  BY DEF WholeInv, IInv, TypeInv
<1>2. ASSUME NEW n, NEW told, Logged(n, told)
      PROVE  navidrome \subseteq navidrome' /\ plugin'.pages = plugin.pages
  BY <1>1, <1>2 DEF Logged
<1>3. ASSUME NEW n \in Plays, NEW told \in BOOLEAN, PlayElsewhere(n, told)
      PROVE  WholeInv'
  <2>1. /\ Play(n) /\ UNCHANGED <<history, importing, job, request, asked, missed>>
        /\ navidrome \subseteq navidrome' /\ plugin'.pages = plugin.pages
    BY <1>2, <1>3 DEF PlayElsewhere, server
  <2>2. Bounded' /\ \A m \in Made : second'[m] = second[m]
    BY <1>1, <2>1, PlaySeconds
  <2>3. Held \subseteq Held'
    BY <2>1 DEF Held
  <2> QED
    BY <2>1, <2>2, <2>3, QuietWhole
<1>4. ASSUME NEW r \in Slots, NEW n \in Plays, PlayHere(r, n)
      PROVE  WholeInv'
  <2>1. /\ Play(n) /\ UNCHANGED <<history, navidrome, plugin, importing, job, asked, missed>>
        /\ Begins(r, [Resting EXCEPT !.kind = "play", !.at = "lookup", !.plays = {n}])
    BY <1>4 DEF PlayHere
  <2>2. Bounded' /\ \A m \in Made : second'[m] = second[m]
    BY <1>1, <2>1, PlaySeconds
  <2>3. Held \subseteq Held'
    BY <2>1 DEF Held
  <2>4. PICK new : new = [Resting EXCEPT !.kind = "play", !.at = "lookup", !.plays = {n}]
    OBVIOUS
  <2>5. new \in Request /\ new.kind = "play" /\ new.page = NoPage
    BY <2>4, RestingFits DEF Resting, Request
  <2>6. \A u \in Slots : request'[u] = request[u] \/ GoesOn(u)
    BY <1>1, <2>1, <2>4, <2>5, RequestGoesOn
  <2> QED
    BY <2>1, <2>2, <2>3, <2>6, QuietWhole
<1>5. ASSUME NEW r \in Slots, Record(r)
      PROVE  WholeInv'
  <2>1. /\ UNCHANGED <<second, navidrome, plugin, importing, job, asked, missed>>
        /\ request[r].kind = "play" /\ Goes(r, "added", request[r].plays)
        /\ Insert(r, request[r].plays) \/ UNCHANGED history
        /\ request[r].plays \in SUBSET Plays
    BY <1>1, <1>5 DEF Record, At, Request
  <2>2. Held \subseteq Held'
    <3>1. CASE Insert(r, request[r].plays)
      BY <1>1, <2>1, <3>1, Inserted
    <3>2. CASE UNCHANGED history
      BY <3>2 DEF Held
    <3> QED
      BY <2>1, <3>1, <3>2
  <2>3. \A u \in Slots : request'[u] = request[u] \/ GoesOn(u)
    BY <1>1, <2>1, RequestGoesOn
  <2>4. Bounded' /\ \A m \in Made : second'[m] = second[m]
    BY <1>1, <2>1, SameSeconds
  <2> QED
    BY <2>1, <2>2, <2>3, <2>4, QuietWhole
<1>6. ASSUME NEW r \in Slots, Reports(r)
      PROVE  WholeInv'
  <2>1. /\ UNCHANGED <<history, second, importing, job, asked, missed>> /\ Rests(r)
        /\ navidrome \subseteq navidrome' /\ plugin'.pages = plugin.pages
    BY <1>2, <1>6 DEF Reports
  <2>2. Held \subseteq Held'
    BY <2>1 DEF Held
  <2>3. \A u \in Slots : request'[u] = request[u] \/ GoesOn(u)
    BY <1>1, <2>1, RequestGoesOn
  <2>4. Bounded' /\ \A m \in Made : second'[m] = second[m]
    BY <1>1, <2>1, SameSeconds
  <2> QED
    BY <2>1, <2>2, <2>3, <2>4, QuietWhole
<1> QED
  BY <1>3, <1>4, <1>5, <1>6 DEF Playing

\* What the plugin sends as it happens, rows added, and work that fails.
LEMMA ScrobblesWhole ==
    ASSUME WholeInv, IInv', NEW r \in Slots, Scrobbles(r) \/ Adds(r) \/ WorkFails(r)
    PROVE  WholeInv'
<1>1. /\ TypeInv /\ Bounded /\ request[r] \in Request
      /\ plugin \in [plays : SUBSET Plays, pages : SUBSET Page, waits : BOOLEAN]
      /\ request[r].plays \in SUBSET Plays
  BY DEF WholeInv, IInv, TypeInv, Request
<1>2. /\ UNCHANGED <<second, navidrome, importing, job, asked, missed>>
      /\ plugin'.pages = plugin.pages
  <2>1. ASSUME NEW n \in Plays, Scrobble(r, n)
        PROVE  UNCHANGED <<second, navidrome, importing, job, asked, missed, plugin>>
    BY <2>1 DEF Scrobble
  <2>2. CASE Found(r) \/ NotFound(r) \/ Unreachable(r) \/ LooksAgain(r) \/ Adds(r)
    BY <2>2 DEF Found, NotFound, Unreachable, LooksAgain, Adds
  <2>3. CASE Scrobbled(r) \/ WorkFails(r)
    BY <1>1, <2>3 DEF Scrobbled, WorkFails
  <2> QED
    BY <2>1, <2>2, <2>3 DEF Scrobbles
<1>3. Bounded' /\ \A m \in Made : second'[m] = second[m]
  BY <1>1, <1>2, SameSeconds
<1>4. ASSUME Held \subseteq Held', \A u \in Slots : request'[u] = request[u] \/ GoesOn(u)
      PROVE  WholeInv'
  BY <1>2, <1>3, <1>4, QuietWhole
<1>5. ASSUME NEW n \in Plays, Scrobble(r, n)
      PROVE  WholeInv'
  <2>1. PICK new : /\ Begins(r, new)
                   /\ new = [Resting EXCEPT !.kind = "scrobble", !.plays = {n},
                                            !.at = IF n \in Held THEN "added" ELSE "lookup"]
    BY <1>5 DEF Scrobble
  <2>2. new \in Request /\ new.kind = "scrobble" /\ new.page = NoPage
    BY <2>1, RestingFits DEF Resting, Request
  <2>3. UNCHANGED history
    BY <1>5 DEF Scrobble
  <2> QED
    BY <1>1, <1>4, <2>1, <2>2, <2>3, RequestGoesOn DEF Held
<1>6. CASE Found(r) \/ NotFound(r) \/ LooksAgain(r)
  <2>1. /\ UNCHANGED history /\ request[r].kind = "scrobble"
        /\ \E at \in {"turn", "added", "checked"} : Goes(r, at, request[r].plays)
    BY <1>6 DEF Found, NotFound, LooksAgain, At
  <2>2. \A u \in Slots : request'[u] = request[u] \/ GoesOn(u)
    BY <1>1, <2>1, RequestGoesOn
  <2> QED
    BY <1>4, <2>1, <2>2 DEF Held
<1>7. CASE Unreachable(r) \/ Scrobbled(r) \/ WorkFails(r)
  <2>1. UNCHANGED history /\ Rests(r)
    BY <1>7 DEF Unreachable, Scrobbled, WorkFails
  <2>2. \A u \in Slots : request'[u] = request[u] \/ GoesOn(u)
    BY <1>1, <2>1, RequestGoesOn
  <2> QED
    BY <1>4, <2>1, <2>2 DEF Held
<1>8. CASE Adds(r)
  <2>1. /\ Insert(r, request[r].plays) /\ Goes(r, "added", request[r].plays)
        /\ request[r].kind \in {"scrobble", "page"} /\ request[r].at = "checked"
    BY <1>8 DEF Adds
  <2>2. Held' = Held \cup request[r].plays
    BY <1>1, <2>1, Inserted
  <2>3. /\ request'[r].kind = request[r].kind /\ request'[r].page = request[r].page
        /\ request'[r].at = "added" /\ \A u \in Slots \ {r} : request'[u] = request[u]
    BY <1>1, <2>1, RequestGoes
  <2>4. ASSUME OfJob(r), job # NoJob, ~job.astray PROVE Brought(r)'
    <3>1. Brought(r)
      BY <2>4 DEF WholeInv, Going
    <3> QED
      BY <1>2, <2>1, <2>2, <2>3, <3>1 DEF Brought, Due
  <2>5. GoesOn(r)
    BY <2>1, <2>3, <2>4 DEF GoesOn
  <2> QED
    BY <1>4, <2>2, <2>3, <2>5
<1> QED
  BY <1>5, <1>6, <1>7, <1>8 DEF Scrobbles

\* The turn of a page: what the last page had of its first second is held.
LEMMA LacksWhole ==
    ASSUME WholeInv, IInv', NEW r \in Slots, Lacks(r)
    PROVE  WholeInv'
<1>1. /\ TypeInv /\ Bounded /\ request[r].plays \in SUBSET Plays
      /\ request[r].kind = "page" /\ request[r].at = "turn"
  BY DEF WholeInv, IInv, TypeInv, Request, Lacks, At
<1>2. UNCHANGED <<history, second, navidrome, plugin, importing, job, asked, missed>>
  BY DEF Lacks
<1>3. Bounded' /\ (\A m \in Made : second'[m] = second[m]) /\ Held' = Held
  BY <1>1, <1>2, SameSeconds DEF Held
<1>4. GoesOn(r) /\ \A u \in Slots \ {r} : request'[u] = request[u]
  <2>1. CASE request[r].page.of = job.id
    <3> DEFINE plays == (request[r].plays \cap Due(job)) \ Held
    <3>1. Goes(r, "checked", plays) /\ plays \in SUBSET Plays
      BY <1>1, <2>1 DEF Lacks
    <3> HIDE DEF plays
    <3>2. /\ request'[r].kind = request[r].kind /\ request'[r].page = request[r].page
          /\ request'[r].at = "checked" /\ request'[r].plays = plays
          /\ \A u \in Slots \ {r} : request'[u] = request[u]
      BY <1>1, <3>1, RequestGoes
    <3>3. ASSUME OfJob(r), job # NoJob, ~job.astray PROVE Brought(r)'
      <4>1. /\ request[r].plays = request[r].page.plays \ job.edge
            /\ \A n \in Due(job) : n \in job.edge => n \in Held
        BY <1>1, <3>3 DEF WholeInv, Going, Brought
      <4>2. request[r].page.plays \cap Due(job) \subseteq Held \cup plays
        BY <4>1 DEF plays
      <4>3. Due(job)' = Due(job)
        BY <1>2 DEF Due
      <4> QED
        BY <1>3, <3>2, <4>2, <4>3 DEF Brought
    <3> QED
      BY <1>1, <3>2, <3>3 DEF GoesOn
  <2>2. CASE request[r].page.of # job.id
    <3>1. Goes(r, "added", {})
      BY <2>2 DEF Lacks
    <3>2. /\ request'[r].kind = request[r].kind /\ request'[r].page = request[r].page
          /\ \A u \in Slots \ {r} : request'[u] = request[u]
      BY <1>1, <3>1, RequestGoes
    <3> QED
      BY <1>1, <2>2, <3>2 DEF GoesOn, OfJob
  <2> QED
    BY <2>1, <2>2
<1> QED
  BY <1>2, <1>3, <1>4, QuietWhole

\* Last plays are read and looked for.
LEMMA LastReadWhole ==
    ASSUME WholeInv, IInv', NEW r \in Slots, ReadLast(r) \/ SelectHeld(r)
    PROVE  WholeInv'
<1>1. /\ TypeInv /\ Bounded /\ request[r].plays \in SUBSET Plays
      /\ request[r].kind = "last" /\ navidrome \subseteq Plays
  BY DEF WholeInv, IInv, TypeInv, Request, ReadLast, SelectHeld, At
<1>2. UNCHANGED <<history, second, navidrome, plugin, importing, job, asked, missed>>
  BY DEF ReadLast, SelectHeld
<1>3. Bounded' /\ (\A m \in Made : second'[m] = second[m]) /\ Held' = Held
  BY <1>1, <1>2, SameSeconds DEF Held
<1>4. \E at \in {"read", "checked"}, plays \in SUBSET Plays : Goes(r, at, plays)
  <2>1. CASE ReadLast(r)
    <3>1. {n \in navidrome : n <= request[r].upto} \in SUBSET Plays
      BY <1>1
    <3> QED
      BY <2>1, <3>1 DEF ReadLast
  <2>2. CASE SelectHeld(r)
    <3>1. request[r].plays \ Held \in SUBSET Plays
      BY <1>1
    <3> QED
      BY <2>2, <3>1 DEF SelectHeld
  <2> QED
    BY <2>1, <2>2
<1>5. \A u \in Slots : request'[u] = request[u] \/ GoesOn(u)
  BY <1>1, <1>4, RequestGoesOn
<1> QED
  BY <1>2, <1>3, <1>5, QuietWhole

\* The plugin asks, and sends the page wanted.
LEMMA PollWhole ==
    ASSUME WholeInv, IInv', SendPage \/ PollAgain
    PROVE  WholeInv'
<1>1. /\ TypeInv /\ Bounded
      /\ plugin \in [plays : SUBSET Plays, pages : SUBSET Page, waits : BOOLEAN]
  BY DEF WholeInv, IInv, TypeInv
<1>2. UNCHANGED <<history, second, navidrome, importing, job, request, asked, missed>>
  BY DEF SendPage, PollAgain, server
<1>3. Bounded' /\ (\A m \in Made : second'[m] = second[m]) /\ Held' = Held
  BY <1>1, <1>2, SameSeconds DEF Held
<1>4. ASSUME NEW page \in plugin'.pages
      PROVE  page \in plugin.pages \/ (job # NoJob /\ page = PageFrom(job.from))
  BY <1>1 DEF SendPage, PollAgain
<1> QED
  BY <1>2, <1>3, <1>4, QuietWhole

\* Where no import of the scrobble history is open any more, the rest is plain.
LEMMA NoJobWhole ==
    ASSUME WholeInv, IInv', Bounded', job' = NoJob, UNCHANGED missed, OneImport', Numbered'
    PROVE  WholeInv'
<1>1. PagesTrue' /\ Going'
  BY DEF PagesTrue, PageTrue, Going, NoJob
<1> QED
  BY <1>1 DEF WholeInv, ImportWhole

\* An import begins, of whichever kind: none was under way.
LEMMA BeginsWhole ==
    ASSUME WholeInv, IInv', NEW r \in Slots, Open(r) \/ ImportLast(r)
    PROVE  WholeInv'
<1>1. /\ TypeInv /\ Bounded /\ OneImport /\ Numbered /\ request \in [Slots -> Request]
      /\ asked \in Nat /\ job.id \in Nat /\ \A u \in Slots : request[u].page.of \in Nat
      /\ \A page \in plugin.pages : page.of \in Nat
  BY DEF WholeInv, IInv, TypeInv, Job, Page, Request
<1>2. /\ UNCHANGED <<second, plugin, job, missed>> /\ ~importing /\ importing' = TRUE
      /\ asked' = asked + 1
  BY DEF Open, ImportLast, Asked
<1>3. job = NoJob /\ \A u \in Slots : request[u].kind \notin {"open", "last"}
  BY <1>1, <1>2 DEF OneImport
<1>4. PICK new : /\ Begins(r, new) /\ new.kind \in {"open", "last"} /\ new.page = NoPage
  <2>1. PICK new : /\ Begins(r, new)
                   /\ \E kind \in {"open", "last"} :
                         new = [Resting EXCEPT !.kind = kind, !.at = "reading", !.upto = Len(second)]
    BY DEF Open, ImportLast
  <2>2. new.kind \in {"open", "last"} /\ new.page = NoPage
    BY <2>1 DEF Resting
  <2> QED
    BY <2>1, <2>2
<1>5. request'[r] = new /\ \A u \in Slots \ {r} : request'[u] = request[u]
  BY <1>1, <1>4 DEF Begins
<1>6. OneImport'
  BY <1>2, <1>3, <1>4, <1>5 DEF OneImport
<1>7. Numbered'
  <2>1. \A u \in Slots : request'[u].page.of \in {request[u].page.of, None}
    BY <1>4, <1>5 DEF NoPage
  <2>2. asked' > None /\ job'.id < asked'
    BY <1>1, <1>2 DEF Numbered, None
  <2>3. \A page \in plugin'.pages : page.of < asked'
    BY <1>1, <1>2 DEF Numbered
  <2>4. \A u \in Slots : request'[u].page.of < asked'
    BY <1>1, <1>2, <2>1 DEF Numbered, None
  <2>5. ASSUME NEW u \in Slots, request'[u].kind = "page" PROVE request'[u].page.of > None
    BY <1>1, <1>4, <1>5, <2>5 DEF Numbered
  <2>6. /\ job'.id <= asked'
        /\ \A page \in plugin'.pages : page.of <= asked'
        /\ \A u \in Slots : request'[u].page.of <= asked'
    <3>1. \A u \in Slots : request'[u].page.of \in Nat
      BY <1>1, <2>1 DEF None
    <3> QED
      BY <1>1, <1>2, <2>2, <2>3, <2>4, <3>1
  <2> QED
    BY <2>2, <2>3, <2>4, <2>5, <2>6 DEF Numbered
<1>8. Bounded'
  BY <1>1, <1>2, SameSeconds
<1> QED
  BY <1>2, <1>3, <1>6, <1>7, <1>8, NoJobWhole

\* The songs cannot be read, or an import of last plays ends.
LEMMA EndsWhole ==
    ASSUME WholeInv, IInv', NEW r \in Slots, OpensNot(r) \/ InsertLast(r) \/ ImportFails(r)
    PROVE  WholeInv'
<1>1. /\ TypeInv /\ Bounded /\ OneImport /\ Numbered /\ request \in [Slots -> Request]
      /\ asked \in Nat
  BY DEF WholeInv, IInv, TypeInv
<1>2. /\ UNCHANGED <<second, plugin, job, missed, asked>> /\ importing' = FALSE
      /\ Rests(r) /\ request[r].kind \in {"open", "last"}
  BY DEF OpensNot, InsertLast, ImportFails, At
<1>3. /\ job = NoJob
      /\ \A u \in Slots \ {r} : request[u].kind \notin {"open", "last"}
  BY <1>1, <1>2 DEF OneImport
<1>4. request'[r] = Resting /\ \A u \in Slots \ {r} : request'[u] = request[u]
  BY <1>1, <1>2 DEF Rests
<1>5. \A u \in Slots : request'[u].kind \notin {"open", "last"}
  BY <1>3, <1>4 DEF Resting
<1>6. OneImport'
  BY <1>2, <1>3, <1>5 DEF OneImport
<1>7. Numbered'
  <2>1. \A u \in Slots : request'[u].page.of <= asked
    BY <1>1, <1>4 DEF Numbered, Resting, NoPage, None
  <2>2. \A u \in Slots : request'[u].kind = "page" => request'[u].page.of > None
    BY <1>1, <1>4 DEF Numbered, Resting
  <2> QED
    BY <1>1, <1>2, <1>5, <2>1, <2>2 DEF Numbered
<1>8. Bounded'
  BY <1>1, <1>2, SameSeconds
<1> QED
  BY <1>2, <1>3, <1>6, <1>7, <1>8, NoJobWhole

\* An import opens, with a number no page has.
LEMMA OpensWhole ==
    ASSUME WholeInv, IInv', NEW r \in Slots, Opens(r)
    PROVE  WholeInv'
<1>1. /\ TypeInv /\ Bounded /\ OneImport /\ Numbered /\ request \in [Slots -> Request]
      /\ asked \in Nat
      /\ \A u \in Slots : request[u].page.of \in Nat
      /\ \A page \in plugin.pages : page.of \in Nat
  BY DEF WholeInv, IInv, TypeInv, Request, Page
<1>2. /\ UNCHANGED <<history, second, navidrome, plugin, importing, asked, missed>>
      /\ Rests(r) /\ request[r].kind = "open"
      /\ job' = [NoJob EXCEPT !.id = asked, !.songs = navidrome, !.upto = request[r].upto]
  BY DEF Opens, At
<1>3. /\ importing
      /\ \A u \in Slots \ {r} : request[u].kind \notin {"open", "last"}
      /\ asked > None
      /\ \A page \in plugin.pages : page.of < asked
      /\ \A v \in Slots : request[v].page.of < asked
  BY <1>1, <1>2 DEF OneImport, Numbered
<1>4. request'[r] = Resting /\ \A u \in Slots \ {r} : request'[u] = request[u]
  BY <1>1, <1>2 DEF Rests
<1>5. /\ \A u \in Slots : request'[u].kind \notin {"open", "last"}
      /\ \A u \in Slots : request'[u].page.of < asked
      /\ \A u \in Slots : request'[u].kind = "page" => request'[u].page.of > None
  BY <1>1, <1>3, <1>4 DEF Resting, NoPage, None, Numbered
<1>6. /\ job'.id = asked /\ job'.songs = navidrome /\ job'.from = 0 /\ job'.edge = {}
  BY <1>2 DEF NoJob
<1>7. OneImport'
  BY <1>2, <1>3, <1>5, <1>6 DEF OneImport
<1>8. Numbered'
  <2>1. \A u \in Slots : request'[u].page.of \in Nat
    BY <1>1, <1>4 DEF Resting, NoPage, None
  <2>2. /\ job'.id <= asked'
        /\ \A page \in plugin'.pages : page.of <= asked'
        /\ \A u \in Slots : request'[u].page.of <= asked'
    BY <1>1, <1>2, <1>3, <1>5, <1>6, <2>1
  <2> QED
    BY <1>5, <2>2 DEF Numbered
<1>9. Bounded'
  BY <1>1, <1>2, SameSeconds
<1>10. PagesTrue'
  <2>1. \A page \in plugin'.pages : page.of # job'.id
    BY <1>1, <1>2, <1>3, <1>6
  <2> QED
    BY <1>2, <1>6, <2>1 DEF PagesTrue
<1>11. Going'
  <2>1. \A u \in Slots : ~OfJob(u)'
    BY <1>1, <1>5, <1>6 DEF OfJob
  <2>2. \A n \in Due(job)' : ~(second'[n] < job'.from) /\ n \notin job'.edge
    <3>1. ASSUME NEW n \in Due(job)' PROVE second'[n] \in Nat
      <4>1. n \in Made
        BY <1>6, <3>1 DEF Due, WholeInv, IInv, Known
      <4> QED
        BY <1>1, <1>2, <4>1, ElementOfSeq DEF TypeInv, Made
    <3> QED
      BY <1>6, <3>1
  <2> QED
    BY <2>1, <2>2 DEF Going
<1> QED
  BY <1>2, <1>7, <1>8, <1>9, <1>10, <1>11 DEF WholeInv, ImportWhole

\* An import is given up, the history is cleared, the server restarts.
LEMMA StopsWhole ==
    ASSUME WholeInv, IInv', GivesUp \/ Clear \/ Restart
    PROVE  WholeInv'
<1>1. /\ TypeInv /\ TypeInv' /\ Known /\ Bounded /\ OneImport /\ Numbered /\ PagesTrue
      /\ request \in [Slots -> Request] /\ asked \in Nat /\ job \in Job
      /\ plugin \in [plays : SUBSET Plays, pages : SUBSET Page, waits : BOOLEAN]
      /\ \A u \in Slots : request[u].page.of \in Nat
      /\ \A page \in plugin.pages : page.of \in Nat
  BY DEF WholeInv, IInv, TypeInv, Request, Page
<1>2. UNCHANGED <<second, navidrome, missed>> /\ plugin'.pages = plugin.pages
  BY <1>1 DEF GivesUp, Clear, Restart
<1>3. Bounded' /\ \A m \in Made : second'[m] = second[m]
  BY <1>1, <1>2, SameSeconds
<1>4. CASE GivesUp
  <2>1. /\ job' = NoJob /\ UNCHANGED <<request, asked>>
        /\ \A u \in Slots : request[u].kind \notin {"open", "last"}
    BY <1>1, <1>4 DEF GivesUp, Finish, OneImport
  <2>2. OneImport' /\ Numbered'
    BY <1>1, <1>2, <2>1 DEF OneImport, Numbered, NoJob, None
  <2> QED
    BY <1>2, <1>3, <2>1, <2>2, NoJobWhole
<1>5. CASE Restart
  <2>1. job' = NoJob /\ asked' = asked /\ \A u \in Slots : request'[u] = Resting
    BY <1>5 DEF Restart
  <2>2. OneImport'
    BY <2>1 DEF OneImport, Resting
  <2>3. Numbered'
    BY <1>1, <1>2, <2>1 DEF Numbered, NoJob, None, Resting, NoPage
  <2> QED
    BY <1>2, <1>3, <2>1, <2>2, <2>3, NoJobWhole
<1>6. CASE Clear
  <2>1. /\ UNCHANGED <<plugin, importing, request>> /\ asked' = asked + 1
        /\ job' = [job EXCEPT !.astray = job # NoJob]
    BY <1>6 DEF Clear, Asked
  <2>2. /\ job'.id = job.id /\ job'.songs = job.songs /\ (job # NoJob => job'.astray)
        /\ (job = NoJob => job' = NoJob)
    <3>1. job'.id = job.id /\ job'.songs = job.songs
      BY <1>1, <2>1 DEF Job
    <3>2. CASE job # NoJob
      BY <1>1, <2>1, <3>1, <3>2 DEF Job
    <3>3. CASE job = NoJob
      <4>1. job' = [NoJob EXCEPT !.astray = FALSE]
        BY <2>1, <3>3
      <4> QED
        BY <3>1, <3>3, <4>1 DEF NoJob
    <3> QED
      BY <3>2, <3>3
  <2>3. OneImport'
    BY <1>1, <2>1, <2>2 DEF OneImport
  <2>4. Numbered'
    <3>1. job.id \in Nat
      BY <1>1 DEF Job
    <3>2. /\ \A page \in plugin.pages : page.of < asked + 1
          /\ \A v \in Slots : request[v].page.of < asked + 1
      BY <1>1 DEF Numbered
    <3> QED
      BY <1>1, <2>1, <2>2, <3>1, <3>2 DEF Numbered, None
  <2>5. PagesTrue'
    <3>1. ASSUME NEW page \in plugin.pages, page.of = job.id PROVE PageTrue(page)'
      BY <1>1, <1>3, <2>2, <3>1, PageStaysTrue DEF PagesTrue, Known
    <3> QED
      BY <1>1, <1>2, <2>1, <2>2, <3>1 DEF PagesTrue
  <2>6. Going'
    BY <2>2 DEF Going
  <2> QED
    BY <1>2, <1>3, <2>3, <2>4, <2>5, <2>6 DEF WholeInv, ImportWhole
<1> QED
  BY <1>4, <1>5, <1>6

\* A page is taken: if it is the one wanted and no other is under way, it is true.
LEMMA TakesWhole ==
    ASSUME WholeInv, IInv', NEW r \in Slots, NEW page \in plugin.pages, TakePage(r, page)
    PROVE  WholeInv'
<1>1. /\ TypeInv /\ Known /\ Bounded /\ OneImport /\ Numbered /\ PagesTrue /\ Going
      /\ request \in [Slots -> Request] /\ asked \in Nat /\ job \in Job /\ page \in Page
      /\ plugin \in [plays : SUBSET Plays, pages : SUBSET Page, waits : BOOLEAN]
      /\ page.plays \subseteq navidrome
  BY DEF WholeInv, IInv, TypeInv, Known
<1>2. /\ UNCHANGED <<history, second, navidrome, importing, asked, missed>>
      /\ plugin'.pages \subseteq plugin.pages
  BY <1>1 DEF TakePage
<1>3. Bounded' /\ (\A m \in Made : second'[m] = second[m]) /\ Held' = Held
  BY <1>1, <1>2, SameSeconds DEF Held
<1>4. CASE job = NoJob
  <2>1. UNCHANGED <<request, job>>
    BY <1>4 DEF TakePage
  <2> QED
    BY <1>2, <1>3, <2>1, QuietWhole
<1>5. CASE job # NoJob
  <2> DEFINE taken == [page EXCEPT !.of = job.id]
             new == [kind |-> "page", at |-> "turn", plays |-> page.plays \ job.edge,
                     page |-> taken, upto |-> 0]
             astray == job.astray \/ page.of # job.id \/ page.from # job.from
                          \/ \E u \in Slots : request[u].kind = "page" /\ request[u].page.of = job.id
  <2>1. /\ Begins(r, new) /\ job' = [job EXCEPT !.astray = astray]
    BY <1>5 DEF TakePage
  <2>2. /\ taken.of = job.id /\ taken.from = page.from /\ taken.plays = page.plays
        /\ taken.more = page.more
    BY <1>1 DEF Page
  <2>3. /\ job'.id = job.id /\ job'.songs = job.songs /\ job'.from = job.from
        /\ job'.edge = job.edge /\ job'.upto = job.upto /\ (job'.astray <=> astray)
    BY <1>1, <2>1 DEF Job
  <2>4. /\ request'[r].kind = "page" /\ request'[r].at = "turn" /\ request'[r].page = taken
        /\ request'[r].plays = page.plays \ job.edge
        /\ \A u \in Slots \ {r} : request'[u] = request[u]
    BY <1>1, <2>1 DEF Begins
  <2>5. (~astray => ~job.astray /\ page.of = job.id /\ page.from = job.from
                      /\ \A u \in Slots : ~OfJob(u))
    BY DEF OfJob
  <2> HIDE DEF taken, new, astray
  <2>6. OneImport'
    <3>1. job.id > None /\ importing /\ \A u \in Slots : request[u].kind \notin {"open", "last"}
      BY <1>1, <1>5 DEF OneImport
    <3>2. \A u \in Slots : request'[u].kind \notin {"open", "last"}
      BY <2>4, <3>1
    <3> QED
      BY <1>2, <2>3, <3>1, <3>2 DEF OneImport
  <2>7. Numbered'
    <3>1. job.id > None /\ \A u \in Slots : request[u].kind # "open"
      BY <1>1, <1>5 DEF OneImport
    <3>2. \A u \in Slots : request'[u].kind # "open" /\ request'[u].page.of <= asked
      BY <1>1, <2>2, <2>4, <3>1 DEF Numbered
    <3>3. \A u \in Slots : request'[u].kind = "page" => request'[u].page.of > None
      BY <1>1, <2>2, <2>4, <3>1 DEF Numbered
    <3> QED
      BY <1>1, <1>2, <2>3, <3>2, <3>3 DEF Numbered
  <2>8. PagesTrue'
    <3>1. ASSUME NEW p \in plugin.pages, p.of = job.id PROVE PageTrue(p)'
      BY <1>1, <1>3, <2>3, <3>1, PageStaysTrue DEF PagesTrue, Known
    <3> QED
      BY <1>1, <1>2, <2>3, <3>1 DEF PagesTrue
  <2>9. Going'
    <3>1. SUFFICES ASSUME ~job'.astray
                   PROVE  /\ \A n \in Due(job)' : second'[n] < job'.from \/ n \in job'.edge => n \in Held'
                          /\ \A u, v \in Slots : OfJob(u)' /\ OfJob(v)' => u = v
                          /\ \A u \in Slots : OfJob(u)' =>
                                /\ request'[u].page.from = job'.from
                                /\ PageTrue(request[u].page)' /\ Brought(u)'
      BY DEF Going
    <3>2. ~job.astray /\ page.of = job.id /\ page.from = job.from /\ \A u \in Slots : ~OfJob(u)
      BY <2>3, <2>5, <3>1
    <3>3. Due(job)' = Due(job)
      BY <2>3 DEF Due
    <3>4. \A n \in Due(job)' : second'[n] < job'.from \/ n \in job'.edge => n \in Held'
      <4>1. \A n \in Due(job) : second'[n] = second[n]
        BY <1>1, <1>3 DEF Due, PagesTrue, Known
      <4> QED
        BY <1>1, <1>3, <1>5, <2>3, <3>2, <3>3, <4>1 DEF Going
    <3>5. ASSUME NEW u \in Slots, OfJob(u)' PROVE u = r
      BY <2>3, <2>4, <3>2, <3>5 DEF OfJob
    <3>6. PageTrue(request[r].page)'
      <4>1. PageTrue(page)'
        BY <1>1, <1>3, <2>3, <3>2, PageStaysTrue DEF PagesTrue
      <4> QED
        BY <2>2, <2>4, <4>1 DEF PageTrue
    <3>7. Brought(r)'
      BY <2>2, <2>3, <2>4 DEF Brought
    <3>8. request'[r].page.from = job'.from
      BY <2>2, <2>3, <2>4, <3>2
    <3> QED
      BY <3>4, <3>5, <3>6, <3>7, <3>8
  <2> QED
    BY <1>2, <1>3, <2>6, <2>7, <2>8, <2>9 DEF WholeInv, ImportWhole
<1> QED
  BY <1>4, <1>5

\* The three ends of a page.
LEMMA PageEnds ==
    ASSUME NEW r \in Slots, PageAdded(r), request[r].page.more \in BOOLEAN
    PROVE  /\ UNCHANGED <<history, second, navidrome, asked>>
           /\ plugin' = [plugin EXCEPT !.waits = FALSE] /\ Rests(r) /\ At(r, "page", "added")
           /\ request[r].page.of # job.id => UNCHANGED <<job, importing, missed>>
           /\ request[r].page.of = job.id /\ ~request[r].page.more =>
                /\ Finish
                /\ missed' = IF job.astray THEN missed ELSE missed \cup {n \in Due(job) : history[n] = 0}
           /\ request[r].page.of = job.id /\ request[r].page.more =>
                /\ \E last \in {second[n] : n \in request[r].page.plays} \cup {0} :
                      /\ \A s \in {second[n] : n \in request[r].page.plays} : last >= s
                      /\ job' = IF last > job.from
                                THEN [job EXCEPT !.from = NextFrom(last),
                                                 !.edge = {n \in request[r].page.plays : second[n] = last}]
                                ELSE [job EXCEPT !.from = @ + 1, !.edge = {}]
                /\ UNCHANGED <<importing, missed>>
<1>1. /\ UNCHANGED <<history, second, navidrome, asked>>
      /\ plugin' = [plugin EXCEPT !.waits = FALSE] /\ Rests(r) /\ At(r, "page", "added")
  BY Zenon DEF PageAdded
<1>2. CASE request[r].page.of # job.id
  BY <1>1, <1>2, ZenonT(30) DEF PageAdded
<1>3. CASE request[r].page.of = job.id /\ ~request[r].page.more
  BY <1>1, <1>3, ZenonT(30) DEF PageAdded
<1>4. CASE request[r].page.of = job.id /\ request[r].page.more
  BY <1>1, <1>4, ZenonT(30) DEF PageAdded
<1> QED
  BY <1>2, <1>3, <1>4, ZenonT(30)

\* What a page of the import brought: all that is due up to where the next begins.
LEMMA PageBrings ==
    ASSUME TypeInv, Known, PagesTrue, Going, NEW r \in Slots, OfJob(r), request[r].at = "added",
           job # NoJob, ~job.astray
    PROVE  \A n \in Due(job) : n \in Held \/
              /\ request[r].page.more /\ second[n] > job.from /\ n \notin request[r].page.plays
              /\ \A m \in request[r].page.plays : second[m] <= second[n]
<1>1. /\ \A n \in Due(job) : second[n] < job.from \/ n \in job.edge => n \in Held
      /\ request[r].page.from = job.from /\ PageTrue(request[r].page) /\ Brought(r)
  BY DEF Going
<1>2. \A n \in Due(job) : second[n] \in Nat /\ n \in job.songs
  BY ElementOfSeq DEF TypeInv, Made, Known, PagesTrue, Due
<1>3. job.from \in Nat
  BY DEF TypeInv, Job
<1>4. ASSUME NEW n \in Due(job), n \notin Held
      PROVE  /\ request[r].page.more /\ second[n] > job.from /\ n \notin request[r].page.plays
             /\ \A m \in request[r].page.plays : second[m] <= second[n]
  <2>1. n \notin request[r].page.plays
    BY <1>1, <1>4 DEF Brought
  <2>2. second[n] >= job.from
    BY <1>1, <1>2, <1>3, <1>4
  <2> QED
    BY <1>1, <1>2, <1>4, <2>1, <2>2 DEF PageTrue
<1> QED
  BY <1>4

\* The next page begins where this one ended.
LEMMA NextPageWhole ==
    ASSUME WholeInv, IInv', NEW r \in Slots, PageAdded(r),
           request[r].page.of = job.id, request[r].page.more
    PROVE  WholeInv'
<1> DEFINE page == request[r].page
           seconds == {second[n] : n \in page.plays}
<1>1. /\ TypeInv /\ Known /\ Bounded /\ OneImport /\ Numbered /\ PagesTrue /\ Going
      /\ request \in [Slots -> Request] /\ asked \in Nat /\ job \in Job /\ page \in Page
      /\ plugin \in [plays : SUBSET Plays, pages : SUBSET Page, waits : BOOLEAN]
      /\ page.plays \subseteq Made
  BY DEF WholeInv, IInv, TypeInv, Known, Brings, Request
<1>2. /\ UNCHANGED <<history, second, navidrome, importing, asked, missed>>
      /\ plugin'.pages = plugin.pages /\ Rests(r) /\ At(r, "page", "added")
  <2>1. request[r].page.more \in BOOLEAN
    BY <1>1 DEF Page
  <2>2. /\ UNCHANGED <<history, second, navidrome, asked>>
        /\ plugin' = [plugin EXCEPT !.waits = FALSE] /\ Rests(r) /\ At(r, "page", "added")
    BY <2>1, PageEnds, Zenon
  <2>3. UNCHANGED <<importing, missed>>
    BY <2>1, PageEnds, Zenon
  <2> QED
    BY <1>1, <2>2, <2>3
<1>3. Bounded' /\ (\A m \in Made : second'[m] = second[m]) /\ Held' = Held
  BY <1>1, <1>2, SameSeconds DEF Held
<1>4. request'[r] = Resting /\ \A u \in Slots \ {r} : request'[u] = request[u]
  BY <1>1, <1>2 DEF Rests
<1>5. PICK last \in seconds \cup {0} :
          /\ \A s \in seconds : last >= s
          /\ job' = IF last > job.from
                    THEN [job EXCEPT !.from = NextFrom(last),
                                     !.edge = {n \in page.plays : second[n] = last}]
                    ELSE [job EXCEPT !.from = @ + 1, !.edge = {}]
  <2>1. request[r].page.more \in BOOLEAN
    BY <1>1 DEF Page
  <2> QED
    BY <2>1, PageEnds, Zenon
<1>6. /\ job.id > None /\ job # NoJob /\ OfJob(r) /\ request[r].at = "added"
  BY <1>1, <1>2 DEF Numbered, At, OfJob, NoJob, None
<1>7. /\ job'.id = job.id /\ job'.songs = job.songs /\ job'.upto = job.upto
      /\ job'.astray = job.astray
      /\ (last > job.from => job'.from = last /\ job'.edge = {n \in page.plays : second[n] = last})
      /\ (~(last > job.from) => job'.from = job.from + 1 /\ job'.edge = {})
  BY <1>1, <1>5 DEF Job, NextFrom
<1>8. /\ \A n \in Made : second[n] \in Nat
      /\ last \in Nat /\ job.from \in Nat
      /\ (last # 0 => \E m \in page.plays : last = second[m])
  <2>1. \A n \in Made : second[n] \in Nat
    BY <1>1, ElementOfSeq DEF TypeInv, Made
  <2> QED
    BY <1>1, <1>5, <2>1 DEF Job
<1> HIDE DEF page, seconds
<1>9. OneImport'
  <2>1. importing /\ \A u \in Slots : request[u].kind \notin {"open", "last"}
    BY <1>1, <1>6 DEF OneImport
  <2>2. \A u \in Slots : request'[u].kind \notin {"open", "last"}
    BY <1>4, <2>1 DEF Resting
  <2> QED
    BY <1>2, <1>6, <1>7, <2>1, <2>2 DEF OneImport
<1>10. Numbered'
  <2>1. \A u \in Slots : request[u].kind # "open"
    BY <1>1, <1>6 DEF OneImport
  <2>2. /\ \A u \in Slots : request'[u].kind # "open" /\ request'[u].page.of <= asked
        /\ \A u \in Slots : request'[u].kind = "page" => request'[u].page.of > None
    BY <1>1, <1>4, <2>1 DEF Numbered, Resting, NoPage, None
  <2> QED
    BY <1>1, <1>2, <1>7, <2>2 DEF Numbered
<1>11. PagesTrue'
  <2>1. ASSUME NEW p \in plugin.pages, p.of = job.id PROVE PageTrue(p)'
    BY <1>1, <1>3, <1>7, <2>1, PageStaysTrue DEF PagesTrue, Known
  <2> QED
    BY <1>1, <1>2, <1>7, <2>1 DEF PagesTrue
<1>12. Going'
  <2>1. SUFFICES ASSUME ~job'.astray
                 PROVE  /\ \A n \in Due(job)' : second'[n] < job'.from \/ n \in job'.edge => n \in Held'
                        /\ \A u \in Slots : ~OfJob(u)'
    BY DEF Going
  <2>2. \A u \in Slots : ~OfJob(u)'
    <3>1. \A u \in Slots \ {r} : ~OfJob(u)
      BY <1>1, <1>6, <1>7, <2>1 DEF Going
    <3> QED
      BY <1>4, <1>7, <3>1 DEF OfJob, Resting
  <2>3. ASSUME NEW n \in Due(job), n \notin Held
        PROVE  ~(second[n] < job'.from) /\ n \notin job'.edge
    <3>1. /\ second[n] > job.from /\ n \notin page.plays
          /\ \A m \in page.plays : second[m] <= second[n]
      BY <1>1, <1>6, <1>7, <2>1, <2>3, PageBrings DEF page
    <3>2. second[n] \in Nat
      BY <1>1, <1>8 DEF Due, PagesTrue, Known
    <3>3. CASE last > job.from
      <4>1. last <= second[n]
        BY <1>8, <3>1, <3>3
      <4> QED
        BY <1>7, <1>8, <3>1, <3>2, <3>3, <4>1
    <3>4. CASE ~(last > job.from)
      BY <1>7, <1>8, <3>1, <3>2, <3>4
    <3> QED
      BY <3>3, <3>4
  <2>4. Due(job)' = Due(job) /\ \A n \in Due(job) : second'[n] = second[n]
    BY <1>1, <1>3, <1>7 DEF Due, PagesTrue, Known
  <2> QED
    BY <1>3, <2>2, <2>3, <2>4
<1> QED
  BY <1>2, <1>3, <1>9, <1>10, <1>11, <1>12 DEF WholeInv, ImportWhole

\* The last page is added, or one whose import is over: nothing due is missing.
LEMMA PageAddedWhole ==
    ASSUME WholeInv, IInv', NEW r \in Slots, PageAdded(r)
    PROVE  WholeInv'
<1>1. /\ TypeInv /\ Known /\ Bounded /\ OneImport /\ Numbered /\ PagesTrue /\ Going
      /\ request \in [Slots -> Request] /\ asked \in Nat
      /\ plugin \in [plays : SUBSET Plays, pages : SUBSET Page, waits : BOOLEAN]
      /\ request[r].page.more \in BOOLEAN
  BY DEF WholeInv, IInv, TypeInv, Request, Page
<1>2. /\ UNCHANGED <<history, second, navidrome, asked>>
      /\ plugin'.pages = plugin.pages /\ Rests(r) /\ At(r, "page", "added")
  <2>1. request[r].page.more \in BOOLEAN
    BY <1>1 DEF Page
  <2>2. /\ UNCHANGED <<history, second, navidrome, asked>>
        /\ plugin' = [plugin EXCEPT !.waits = FALSE] /\ Rests(r) /\ At(r, "page", "added")
    BY <2>1, PageEnds, Zenon
  <2> QED
    BY <1>1, <2>2
<1>3. Bounded' /\ (\A m \in Made : second'[m] = second[m]) /\ Held' = Held
  BY <1>1, <1>2, SameSeconds DEF Held
<1>4. CASE request[r].page.of # job.id
  <2>1. UNCHANGED <<importing, job, missed>>
    BY <1>1, <1>4, PageEnds, Zenon
  <2>2. \A u \in Slots : request'[u] = request[u] \/ GoesOn(u)
    BY <1>1, <1>2, RequestGoesOn
  <2> QED
    BY <1>2, <1>3, <2>1, <2>2, QuietWhole
<1>5. CASE request[r].page.of = job.id /\ ~request[r].page.more
  <2>1. /\ job' = NoJob
        /\ missed' = IF job.astray THEN missed ELSE missed \cup {n \in Due(job) : history[n] = 0}
    <3>1. Finish
      BY <1>1, <1>5, PageEnds, Zenon
    <3>2. missed' = IF job.astray THEN missed ELSE missed \cup {n \in Due(job) : history[n] = 0}
      BY <1>1, <1>5, PageEnds, Zenon
    <3> QED
      BY <3>1, <3>2 DEF Finish
  <2>2. /\ job # NoJob /\ OfJob(r) /\ request[r].at = "added"
    BY <1>1, <1>2, <1>5 DEF Numbered, At, OfJob, NoJob, None
  <2>3. missed' = missed
    <3>1. CASE job.astray
      BY <2>1, <3>1
    <3>2. CASE ~job.astray
      <4>1. Due(job) \subseteq Held
        BY <1>1, <1>5, <2>2, <3>2, PageBrings
      <4>2. {n \in Due(job) : history[n] = 0} = {}
        BY <4>1 DEF Held
      <4> QED
        BY <2>1, <3>2, <4>2
    <3> QED
      BY <3>1, <3>2
  <2>4. request'[r] = Resting /\ \A u \in Slots \ {r} : request'[u] = request[u]
    BY <1>1, <1>2 DEF Rests
  <2>5. \A u \in Slots : request'[u].kind \notin {"open", "last"}
    BY <1>1, <2>2, <2>4 DEF OneImport, Resting
  <2>6. OneImport'
    BY <2>1, <2>5 DEF OneImport
  <2>7. Numbered'
    <3>1. /\ \A u \in Slots : request'[u].page.of <= asked
          /\ \A u \in Slots : request'[u].kind = "page" => request'[u].page.of > None
      BY <1>1, <2>4 DEF Numbered, Resting, NoPage, None
    <3>2. NoJob.id <= asked
      BY <1>1 DEF NoJob, None
    <3> QED
      BY <1>1, <1>2, <2>1, <2>5, <3>1, <3>2 DEF Numbered
  <2> QED
    BY <1>3, <2>1, <2>3, <2>6, <2>7, NoJobWhole
<1>6. CASE request[r].page.of = job.id /\ request[r].page.more
  BY <1>6, NextPageWhole
<1> QED
  BY <1>1, <1>4, <1>5, <1>6

\* Nothing is under way at first.
LEMMA InitWhole == Init => WholeInv
<1> SUFFICES ASSUME Init PROVE WholeInv
  OBVIOUS
<1>1. IInv /\ Len(second) = OldPlays
  BY InitInv, InitTypes
<1>2. Bounded
  <2>1. OldPlays \in Nat /\ second \in Seconds(OldPlays) /\ Made = 1..OldPlays
    BY <1>1, HistoryAssumption DEF Init, Made
  <2> QED
    BY <2>1, SecondsBounded DEF Bounded
<1>3. OneImport /\ Numbered
  BY DEF Init, OneImport, Numbered, Resting, NoJob, NoPage, None
<1>4. PagesTrue /\ Going
  BY DEF Init, PagesTrue, Going, NoJob
<1> QED
  BY <1>1, <1>2, <1>3, <1>4 DEF WholeInv, ImportWhole, Init

\* Every step keeps what an import needs.
LEMMA StepWhole == WholeInv /\ [Next]_vars => WholeInv'
<1> SUFFICES ASSUME WholeInv, [Next]_vars PROVE WholeInv'
  OBVIOUS
<1>1. IInv /\ IInv' /\ Bounded
  BY StepInv DEF WholeInv
<1>2. CASE UNCHANGED vars
  <2>1. /\ UNCHANGED <<history, second, navidrome, importing, job, asked, missed, request, plugin>>
    BY <1>2 DEF vars, server
  <2>2. Bounded' /\ (\A m \in Made : second'[m] = second[m]) /\ Held' = Held
    BY <1>1, <2>1, SameSeconds DEF Held
  <2> QED
    BY <1>1, <2>1, <2>2, QuietWhole
<1>3. CASE Playing
  BY <1>1, <1>3, PlayingWhole
<1>4. ASSUME NEW r \in Slots, Scrobbles(r) \/ Adds(r) \/ WorkFails(r)
      PROVE  WholeInv'
  BY <1>1, <1>4, ScrobblesWhole
<1>5. ASSUME NEW r \in Slots, Importing(r)
      PROVE  WholeInv'
  BY <1>1, <1>5, BeginsWhole, EndsWhole, OpensWhole, LacksWhole, LastReadWhole, TakesWhole, PageAddedWhole
     DEF Importing
<1>6. CASE SendPage \/ PollAgain \/ GivesUp \/ Clear \/ Restart
  BY <1>1, <1>6, PollWhole, StopsWhole
<1> QED
  BY <1>2, <1>3, <1>4, <1>5, <1>6 DEF Next

\* An import of the scrobble history that ends well has brought every play it was
\* asked for, though pages failed and plays went on, whatever the size of a page
\* and wherever in a second it ends (plugin.ts takeHistory); unless it took a page
\* sent again or late, or the history was cleared meanwhile.
THEOREM ImportsAreWhole == Spec => []ImportWhole
<1>1. WholeInv => ImportWhole
  BY DEF WholeInv
<1> QED
  BY <1>1, InitWhole, StepWhole, PTL DEF Spec
=============================================================================
