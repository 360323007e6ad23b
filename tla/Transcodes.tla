----------------------------- MODULE Transcodes -----------------------------
(***************************************************************************)
(* The transcodes held by the server (lib/server/transcodes.ts) and the    *)
(* requests answered from them (proxyTranscode).                           *)
(*                                                                         *)
(* The first request for a transcode has it read whole into memory; the    *)
(* requests after it share that read, stream from it as it arrives, or     *)
(* wait for it to be whole.  What is held is bounded: idle reads and then  *)
(* the least recently used whole ones are dropped, a read that passes the  *)
(* bounds is given up, and a request past them is relayed.                 *)
(*                                                                         *)
(* A read is an object: dropped from `held`, it goes on as long as its     *)
(* body arrives and its readers keep it.  Sizes count chunks.              *)
(***************************************************************************)
EXTENDS Integers, Sequences, FiniteSets, Functions

CONSTANTS
    Keys,                   \* transcodes: account, song, codec and bitrate
    AccountOf,              \* whose each is
    Whole,                  \* how long each comes out
    MaxTotal,               \* MAX_TOTAL_BYTES
    MaxEntry,               \* MAX_ENTRY_BYTES
    MaxReading,             \* MAX_READING
    MaxReadingPerAccount,   \* MAX_READING_PER_ACCOUNT
    \* Bounds of the model
    Requests,               \* requests
    MaxLapses               \* times a read idles or an account's sessions end

ASSUME TranscodesAssumption ==
    /\ DOMAIN AccountOf = Keys
    /\ Whole \in [Keys -> Nat \ {0}]
    /\ {MaxTotal, MaxEntry, MaxReading, MaxReadingPerAccount,
        MaxLapses} \subseteq Nat

VARIABLES
    store,      \* the reads, and which of them is held for a transcode
    requests,   \* what has become of each request
    lapses

vars == <<store, requests, lapses>>

-----------------------------------------------------------------------------
(* Types *)

None == 0       \* no read

\* `dropped`: taken out of `held`, by a sweep or with its account's sessions,
\* while it arrived.
Read == [key : Keys, size : Nat, oversize : BOOLEAN, dropped : BOOLEAN,
         state : {"opening", "running", "cancelling", "whole", "failed"}]

\* `used`: the reads held, least recently used first.  `idle`: not used for
\* IDLE_MS.
Store == [reads : Seq(Read), held : [Keys -> Nat], used : Seq(Nat), idle : SUBSET Nat]

\* From its top as it arrives; from its top once whole (`whole`, or a range
\* with an end); from further in.
Kinds == {"top", "whole", "later"}
\* "over": answered without the transcode (relayed, refused, told to ask again)
\* or broken off.
Request == [read : Nat, kind : Kinds, at : Nat, awake : BOOLEAN,
            phase : {"not made", "opening", "settling", "streaming", "ended", "over"}]
NotMade == [read |-> None, kind |-> "top", at |-> 0, awake |-> TRUE, phase |-> "not made"]
Over == [NotMade EXCEPT !.phase = "over"]

Arriving(s, r) == s.reads[r].state = "running"
Failed(s, r) == s.reads[r].state \in {"cancelling", "failed"}

-----------------------------------------------------------------------------
(* What is held *)

\* The reads of a list, but for some; those of it that are whole.
Without(used, gone) == SelectSeq(used, LAMBDA r : r \notin gone)
UsedWhole(s) == SelectSeq(s.used, LAMBDA r : s.reads[r].state = "whole")

HeldReads(s) == {s.held[k] : k \in Keys} \ {None}
Size(s, k) == IF s.held[k] = None THEN 0 ELSE s.reads[s.held[k]].size
Total(s) == FoldFunction(+, 0, [k \in Keys |-> Size(s, k)])

\* How many reads held are still arriving.
Reading(s, accounts) ==
    Cardinality({r \in HeldReads(s) : Arriving(s, r) /\ AccountOf[s.reads[r].key] \in accounts})

Drop(s, gone) ==
    [reads |-> [r \in DOMAIN s.reads |->
                   IF r \in gone /\ Arriving(s, r) THEN [s.reads[r] EXCEPT !.dropped = TRUE]
                   ELSE s.reads[r]],
     held |-> [k \in Keys |-> IF s.held[k] \in gone THEN None ELSE s.held[k]],
     used |-> Without(s.used, gone), idle |-> s.idle \ gone]

\* Drops idle reads, then the least recently used whole ones while over the cap.
Sweep(s) ==
    LET a == Drop(s, s.idle \cap HeldReads(s))
        whole == UsedWhole(a)
        After(n) == Drop(a, {whole[i] : i \in 1..n})
        Enough(n) == Total(After(n)) <= MaxTotal \/ n = Len(whole)
    IN After(CHOOSE n \in 0..Len(whole) : Enough(n) /\ \A m \in 0..(n - 1) : ~Enough(m))

Touch(s, r) ==
    [s EXCEPT !.idle = @ \ {r},
              !.used = IF r \in HeldReads(s)
                       THEN Append(Without(@, {r}), r) ELSE @]

\* Mutant of LetGo: whichever read is held now is let go of.
LetGoOfAny(s, r) ==
    [s EXCEPT !.held[s.reads[r].key] = None, !.used = Without(@, {r})]
\* A read that failed is let go of, unless another has taken its place.
LetGo(s, r) ==
    IF s.held[s.reads[r].key] # r THEN s
    ELSE [s EXCEPT !.held[s.reads[r].key] = None, !.idle = @ \ {r},
                   !.used = Without(@, {r})]

\* forgetTranscodes.
Forget(s, account) ==
    Drop(s, {r \in HeldReads(s) : AccountOf[s.reads[r].key] = account})

-----------------------------------------------------------------------------
(* Requests *)

\* proxyTranscode once it has the read: answered, or waiting for it to be whole.
\* `timedOut`: it has waited its 30 seconds.  One too large is relayed, one that
\* is not whole has no exact range.
Answer(s, q, timedOut) ==
    LET r == s.reads[q.read]
        over == r.state = "whole" \/ Failed(s, q.read) IN
    IF q.kind # "top" /\ ~over /\ ~timedOut THEN [q EXCEPT !.phase = "settling", !.awake = FALSE]
    ELSE IF r.oversize \/ (q.kind = "later" /\ r.state # "whole") THEN Over
    ELSE [q EXCEPT !.phase = "streaming", !.awake = TRUE,
                   !.at = IF q.kind = "later" THEN 1 ELSE 0]

In(i, phases) == requests[i].phase \in phases

\* Mutant of Woken: nothing is.
WokenNone(r) == requests
\* What waits for more of a read is woken.
Woken(r) ==
    [i \in Requests |->
        IF In(i, {"settling", "streaming"}) /\ requests[i].read = r
        THEN [requests[i] EXCEPT !.awake = TRUE] ELSE requests[i]]

-----------------------------------------------------------------------------
(* Actions *)

\* The read being opened for a transcode: `opening`.
OpeningOf(s, key) ==
    {r \in DOMAIN s.reads : s.reads[r].state = "opening" /\ s.reads[r].key = key}

\* Whether a new read would pass the limits.  Those opening are not counted.
Full(s, account) ==
    \/ Reading(s, {AccountOf[k] : k \in Keys}) >= MaxReading
    \/ Reading(s, {account}) >= MaxReadingPerAccount
    \/ Total(s) >= MaxTotal

\* Whether a read is held to answer from.
Found(s, key) == s.held[key] # None /\ ~Failed(s, s.held[key])

\* A request for a transcode: transcodeFor.
Ask(i, key, kind) ==
    LET s == Sweep(store)
        h == s.held[key]
        new == [key |-> key, size |-> 0, oversize |-> FALSE, dropped |-> FALSE,
                state |-> "opening"]
        q == [NotMade EXCEPT !.kind = kind, !.phase = "opening"]
        account == AccountOf[key]
    IN
    /\ requests[i] = NotMade
    /\ \/ /\ Found(s, key)
          /\ store' = Touch(s, h)
          /\ requests' = [requests EXCEPT ![i] = Answer(s, [q EXCEPT !.read = h], FALSE)]
       \/ /\ ~Found(s, key)
          /\ \E r \in OpeningOf(s, key) :
                requests' = [requests EXCEPT ![i] = [q EXCEPT !.read = r]]
          /\ store' = s
       \/ /\ ~Found(s, key)
          /\ OpeningOf(s, key) = {} /\ Full(s, account)
          /\ requests' = [requests EXCEPT ![i] = Over]
          /\ store' = s
       \/ /\ ~Found(s, key)
          /\ OpeningOf(s, key) = {} /\ ~Full(s, account)
          /\ store' = [s EXCEPT !.reads = Append(@, new)]
          /\ requests' = [requests EXCEPT ![i] = [q EXCEPT !.read = Len(s.reads) + 1]]
    /\ UNCHANGED lapses

\* The music server's answer begins: the read is held, and those that waited
\* for it go on.
Opens(r) ==
    LET key == store.reads[r].key
        s == [store EXCEPT !.reads[r].state = "running", !.held[key] = r, !.idle = @ \ {r},
                           !.used = Append(Without(@, {store.held[key]}), r)]
    IN
    /\ store.reads[r].state = "opening"
    /\ store' = s
    /\ requests' = [i \in Requests |->
                       IF In(i, {"opening"}) /\ requests[i].read = r
                       THEN Answer(s, requests[i], FALSE) ELSE requests[i]]
    /\ UNCHANGED lapses

\* It refuses, or sends no audio.  A refused credential ends the account's
\* sessions.
OpenFails(r) == \E credential \in BOOLEAN :
    LET s == [store EXCEPT !.reads[r].state = "failed"] IN
    /\ store.reads[r].state = "opening"
    /\ store' = IF credential THEN Forget(s, AccountOf[s.reads[r].key]) ELSE s
    /\ requests' = [i \in Requests |->
                       IF In(i, {"opening"}) /\ requests[i].read = r THEN Over
                       ELSE requests[i]]
    /\ UNCHANGED lapses

\* Whether a read has passed the bounds.
TooMuch(s, r) == s.reads[r].size > MaxEntry \/ Total(s) > MaxTotal

\* A chunk arrives.  Over the cap a sweep may make room; else the read is given
\* up, and let go of once its body is cancelled.
Arrives(r) ==
    LET a == [store EXCEPT !.reads[r].size = @ + 1]
        b == IF a.reads[r].size <= MaxEntry /\ TooMuch(a, r) THEN Sweep(a) ELSE a
    IN
    /\ Arriving(store, r) /\ store.reads[r].size < Whole[store.reads[r].key]
    /\ IF TooMuch(b, r)
       THEN /\ store' = [b EXCEPT !.reads[r].state = "cancelling", !.reads[r].oversize = TRUE]
            /\ UNCHANGED requests
       ELSE /\ store' = b
            /\ requests' = Woken(r)
    /\ UNCHANGED lapses

\* The read ends: whole, cancelled, or broken off.
Ends(r) ==
    LET state == store.reads[r].state
        whole == [store EXCEPT !.reads[r].state = "whole"]
        failed == [store EXCEPT !.reads[r].state = "failed"]
    IN
    /\ \/ /\ state = "running" /\ store.reads[r].size = Whole[store.reads[r].key]
          /\ store' = Sweep(whole)
       \/ /\ state \in {"running", "cancelling"}
          /\ store' = Sweep(LetGo(failed, r))
    /\ requests' = Woken(r)
    /\ UNCHANGED lapses

\* A request that waited goes on: the read is over, or 30 seconds are.
Settles(i) ==
    LET q == requests[i] IN
    /\ In(i, {"settling"})
    /\ \E timedOut \in {~q.awake, TRUE} :
          requests' = [requests EXCEPT ![i] = Answer(store, q, timedOut)]
    /\ UNCHANGED <<store, lapses>>

\* Mutant of AtEnd: a read that failed has an end as well.
AtEndAnyway(r) == r.state # "running"
\* Whether a read has an end for its readers to come to.
AtEnd(r) == r.state = "whole"

\* bytesOf: a reader takes what there is, ends with the read, or waits.
Pull(i) ==
    LET q == requests[i]
        r == store.reads[q.read] IN
    /\ In(i, {"streaming"}) /\ q.awake
    /\ requests' = [requests EXCEPT ![i] =
                       IF q.at < r.size THEN [q EXCEPT !.at = r.size]
                       ELSE IF AtEnd(r) THEN [q EXCEPT !.phase = "ended"]
                       ELSE IF Failed(store, q.read) THEN Over
                       ELSE [q EXCEPT !.awake = FALSE]]
    /\ store' = IF q.at < r.size THEN Touch(store, q.read) ELSE store
    /\ UNCHANGED lapses

\* 15 minutes pass without a use of a read.
Idles(r) ==
    /\ r \in HeldReads(store) /\ r \notin store.idle
    /\ lapses < MaxLapses /\ lapses' = lapses + 1
    /\ store' = [store EXCEPT !.idle = @ \cup {r}]
    /\ UNCHANGED requests

\* The account's sessions end elsewhere: destroyAllSessions.
SessionsEnd(account) ==
    /\ lapses < MaxLapses /\ lapses' = lapses + 1
    /\ store' = Forget(store, account)
    /\ UNCHANGED requests

-----------------------------------------------------------------------------
(* The specification *)

Reads == DOMAIN store.reads
Accounts == {AccountOf[k] : k \in Keys}

Init ==
    /\ store = [reads |-> <<>>, held |-> [k \in Keys |-> None], used |-> <<>>, idle |-> {}]
    /\ requests = [i \in Requests |-> NotMade]
    /\ lapses = 0

Next ==
    \/ \E i \in Requests, key \in Keys, kind \in Kinds : Ask(i, key, kind)
    \/ \E r \in Reads : Opens(r) \/ OpenFails(r) \/ Arrives(r) \/ Ends(r) \/ Idles(r)
    \/ \E i \in Requests : Settles(i) \/ Pull(i)
    \/ \E account \in Accounts : SessionsEnd(account)

Spec == Init /\ [][Next]_vars

-----------------------------------------------------------------------------
(* Properties *)

\* Requests for one transcode share one read: no second is under way unless the
\* first was dropped or has failed, and one under way is there to be found,
\* whatever became of the reads before it.
OneRead ==
    \A r \in Reads : store.reads[r].state \in {"opening", "running"} /\ ~store.reads[r].dropped =>
        /\ store.reads[r].state = "running" => store.held[store.reads[r].key] = r
        /\ \A u \in Reads \ {r} :
              /\ store.reads[u].key = store.reads[r].key
              /\ store.reads[u].state \in {"opening", "running"}
              => store.reads[u].dropped

\* A reader that comes to an end has the transcode whole, though the read was
\* dropped, replaced or broken off under it; one that cannot is broken off too.
WholeOrBroken ==
    \A i \in Requests :
        In(i, {"ended"}) => requests[i].at = Whole[store.reads[requests[i].read].key]

\* No request sleeps past what it waits for: one that waits has nothing to take
\* and a read that is not over, or the end of that read is still to wake it.
NoneLeftAsleep ==
    \A i \in Requests :
        LET q == requests[i] IN
        In(i, {"settling", "streaming"}) /\ ~q.awake =>
            \/ store.reads[q.read].state = "cancelling"
            \/ /\ store.reads[q.read].state = "running"
               /\ q.phase = "streaming" => q.at = store.reads[q.read].size
=============================================================================
