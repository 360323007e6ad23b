----------------------------- MODULE StreamProofs -----------------------------
(***************************************************************************)
(* What holds of the streams a listener plays: of the transcodes the       *)
(* server holds (Transcodes), whatever their number, the accounts and the  *)
(* requests, and whatever the limits; and of the player (Playback),        *)
(* whatever is pressed, how often, and whatever goes wrong meanwhile.  A   *)
(* handler of the player is what it calls, so there is a lemma for each    *)
(* operator it calls, on a page it may be called with.                     *)
(***************************************************************************)
EXTENDS Transcodes, Playback, SequenceTheorems, TLAPS

-----------------------------------------------------------------------------
(* PART ONE: held transcodes *)

-----------------------------------------------------------------------------
(* What is held *)

\* The parts of a store.
Shaped(s) == s \in [reads : {s.reads}, held : {s.held}, used : {s.used}, idle : {s.idle}]

StoreFits(s) == Shaped(s) /\ s.reads \in Seq(Read) /\ s.held \in [Keys -> Nat]

\* What is held for a transcode was opened.
HeldOpened(s) ==
    \A k \in Keys : s.held[k] # None =>
        s.held[k] \in DOMAIN s.reads /\ s.reads[s.held[k]].state # "opening"

UnderWay(s, r) == s.reads[r].state \in {"opening", "running"}

\* A read under way is held, being opened, or dropped; and there is one at most
\* for a transcode that is not dropped.
OneAtMost(s) == \A r \in DOMAIN s.reads :
    /\ s.reads[r].state = "opening" => ~s.reads[r].dropped
    /\ s.reads[r].state = "running" /\ ~s.reads[r].dropped => s.held[s.reads[r].key] = r
    /\ UnderWay(s, r) /\ ~s.reads[r].dropped =>
          \A u \in DOMAIN s.reads \ {r} :
              s.reads[u].key = s.reads[r].key /\ UnderWay(s, u) => s.reads[u].dropped

\* A read that is whole has all of its transcode.
WholeSized(s) == \A r \in DOMAIN s.reads :
    s.reads[r].state = "whole" => s.reads[r].size = Whole[s.reads[r].key]

StoreInv(s) == StoreFits(s) /\ HeldOpened(s) /\ OneAtMost(s) /\ WholeSized(s)

\* The reads are what they were, but for those dropped.
SameReads(s, t) ==
    /\ DOMAIN t.reads = DOMAIN s.reads
    /\ \A r \in DOMAIN s.reads :
          /\ t.reads[r].state = s.reads[r].state /\ t.reads[r].key = s.reads[r].key
          /\ t.reads[r].size = s.reads[r].size /\ t.reads[r].oversize = s.reads[r].oversize

\* A read is a record of a sequence.
LEMMA ReadsFit ==
    ASSUME NEW s, StoreFits(s)
    PROVE  /\ DOMAIN s.reads = 1..Len(s.reads) /\ Len(s.reads) \in Nat
           /\ None \notin DOMAIN s.reads
           /\ \A r \in DOMAIN s.reads : s.reads[r] \in Read
BY LenProperties DEF StoreFits, None

\* Reads as many as before are a sequence.
LEMMA SequenceAgain ==
    ASSUME NEW n \in Nat, NEW f \in [1..n -> Read]
    PROVE  f \in Seq(Read) /\ Len(f) = n
OBVIOUS

\* Reads that are dropped keep what is held as it should be.
LEMMA DropKeeps ==
    ASSUME NEW s, StoreInv(s), NEW gone
    PROVE  StoreInv(Drop(s, gone)) /\ SameReads(s, Drop(s, gone))
<1> DEFINE t == Drop(s, gone)
<1>1. /\ DOMAIN s.reads = 1..Len(s.reads) /\ Len(s.reads) \in Nat
      /\ None \notin DOMAIN s.reads
      /\ \A r \in DOMAIN s.reads : s.reads[r] \in Read
  BY ReadsFit DEF StoreInv
<1>2. /\ t.held = [k \in Keys |-> IF s.held[k] \in gone THEN None ELSE s.held[k]]
      /\ t.reads = [r \in DOMAIN s.reads |->
                       IF r \in gone /\ Arriving(s, r) THEN [s.reads[r] EXCEPT !.dropped = TRUE]
                       ELSE s.reads[r]]
      /\ t = [reads |-> t.reads, held |-> t.held, used |-> t.used, idle |-> t.idle]
  BY DEF Drop, StoreInv, StoreFits
<1> HIDE DEF t
<1>3. /\ DOMAIN t.reads = DOMAIN s.reads
      /\ \A r \in DOMAIN s.reads :
            /\ t.reads[r] \in Read
            /\ t.reads[r].state = s.reads[r].state /\ t.reads[r].key = s.reads[r].key
            /\ t.reads[r].size = s.reads[r].size /\ t.reads[r].oversize = s.reads[r].oversize
            /\ \/ r \in gone /\ Arriving(s, r) /\ t.reads[r].dropped
               \/ ~(r \in gone /\ Arriving(s, r)) /\ t.reads[r] = s.reads[r]
  <2>1. DOMAIN t.reads = DOMAIN s.reads
    BY <1>2
  <2>2. ASSUME NEW r \in DOMAIN s.reads, r \in gone, Arriving(s, r)
        PROVE  /\ t.reads[r] \in Read /\ t.reads[r].dropped
               /\ t.reads[r].state = s.reads[r].state /\ t.reads[r].key = s.reads[r].key
               /\ t.reads[r].size = s.reads[r].size /\ t.reads[r].oversize = s.reads[r].oversize
    <3>1. t.reads[r] = [s.reads[r] EXCEPT !.dropped = TRUE] /\ s.reads[r] \in Read
      BY <1>1, <1>2, <2>2
    <3> QED
      BY <3>1 DEF Read
  <2>3. ASSUME NEW r \in DOMAIN s.reads, ~(r \in gone /\ Arriving(s, r))
        PROVE  t.reads[r] = s.reads[r]
    BY <1>2, <2>3
  <2> QED
    BY <1>1, <2>1, <2>2, <2>3
<1>4. StoreFits(t)
  <2>1. t.reads \in [1..Len(s.reads) -> Read]
    BY <1>1, <1>2, <1>3
  <2>2. t.reads \in Seq(Read)
    BY <1>1, <2>1, SequenceAgain
  <2>3. t.held \in [Keys -> Nat]
    BY <1>2 DEF StoreInv, StoreFits, None
  <2> QED
    BY <1>2, <2>2, <2>3 DEF StoreFits, Shaped
<1>5. HeldOpened(t)
  BY <1>2, <1>3 DEF StoreInv, HeldOpened
<1>6. OneAtMost(t)
  <2>1. ASSUME NEW r \in DOMAIN t.reads, t.reads[r].state = "opening"
        PROVE  ~t.reads[r].dropped
    BY <1>3, <2>1 DEF StoreInv, OneAtMost, Arriving
  <2>2. ASSUME NEW r \in DOMAIN t.reads, t.reads[r].state = "running", ~t.reads[r].dropped
        PROVE  t.held[t.reads[r].key] = r
    <3>1. r \notin gone /\ t.reads[r] = s.reads[r] /\ r \in DOMAIN s.reads
      BY <1>3, <2>2 DEF Arriving
    <3>2. s.held[s.reads[r].key] = r /\ s.reads[r].key \in Keys
      BY <1>1, <2>2, <3>1 DEF StoreInv, OneAtMost, Read
    <3> QED
      BY <1>2, <3>1, <3>2, SMTT(30)
  <2>3. ASSUME NEW r \in DOMAIN t.reads, UnderWay(t, r), ~t.reads[r].dropped,
               NEW u \in DOMAIN t.reads \ {r}, t.reads[u].key = t.reads[r].key, UnderWay(t, u)
        PROVE  t.reads[u].dropped
    <3>1. r \in DOMAIN s.reads /\ t.reads[r] = s.reads[r] /\ u \in DOMAIN s.reads \ {r}
      BY <1>3, <2>3
    <3>2. s.reads[u].key = s.reads[r].key /\ UnderWay(s, u) /\ UnderWay(s, r)
      BY <1>3, <2>3, <3>1 DEF UnderWay
    <3>3. s.reads[u].dropped
      BY <2>3, <3>1, <3>2 DEF StoreInv, OneAtMost
    <3> QED
      BY <1>3, <3>1, <3>3
  <2> QED
    BY <2>1, <2>2, <2>3 DEF OneAtMost
<1>7. WholeSized(t)
  BY <1>3 DEF StoreInv, WholeSized
<1>8. SameReads(s, t)
  BY <1>3 DEF SameReads
<1> QED
  BY <1>4, <1>5, <1>6, <1>7, <1>8 DEF StoreInv, t

\* So does a sweep, which drops.
LEMMA SweepKeeps ==
    ASSUME NEW s, StoreInv(s)
    PROVE  StoreInv(Sweep(s)) /\ SameReads(s, Sweep(s))
<1> DEFINE a == Drop(s, s.idle \cap HeldReads(s))
<1>1. StoreInv(a) /\ SameReads(s, a)
  BY DropKeeps
<1>2. \E gone : Sweep(s) = Drop(a, gone)
  BY Zenon DEF Sweep
<1> HIDE DEF a
<1>3. StoreInv(Sweep(s)) /\ SameReads(a, Sweep(s))
  BY <1>1, <1>2, DropKeeps
<1> QED
  BY <1>1, <1>3 DEF SameReads

\* And a use of a read.
LEMMA TouchKeeps ==
    ASSUME NEW s, StoreInv(s), NEW r
    PROVE  StoreInv(Touch(s, r)) /\ SameReads(s, Touch(s, r))
<1> DEFINE t == Touch(s, r)
<1>1. t.reads = s.reads /\ t.held = s.held
  BY DEF Touch, StoreInv, StoreFits
<1>2. StoreFits(t)
  BY DEF Touch, StoreInv, StoreFits, Shaped
<1> HIDE DEF t
<1>3. StoreInv(t) /\ SameReads(s, t)
  BY <1>1, <1>2 DEF StoreInv, HeldOpened, OneAtMost, UnderWay, WholeSized, SameReads
<1> QED
  BY <1>3 DEF t

-----------------------------------------------------------------------------
(* Requests *)

\* Where a request waits, for what it waits; where it streams, how far it is.
RequestFits(s, q) ==
    /\ q.phase = "opening" => q.read \in DOMAIN s.reads /\ s.reads[q.read].state = "opening"
    /\ q.phase \in {"settling", "streaming"} =>
          q.read \in DOMAIN s.reads /\ s.reads[q.read].state # "opening"
    /\ q.phase = "streaming" => q.at <= s.reads[q.read].size
    /\ q.phase = "ended" =>
          q.read \in DOMAIN s.reads /\ q.at = Whole[s.reads[q.read].key]
    /\ q.phase \in {"settling", "streaming"} /\ ~q.awake =>
          \/ s.reads[q.read].state = "cancelling"
          \/ /\ s.reads[q.read].state = "running"
             /\ q.phase = "streaming" => q.at = s.reads[q.read].size

IInv ==
    /\ StoreInv(store)
    /\ requests \in [Requests -> Request]
    /\ \A i \in Requests : RequestFits(store, requests[i])

\* Requests see no difference in what is swept.
LEMMA SameFits ==
    ASSUME NEW s, NEW t, SameReads(s, t), NEW q, RequestFits(s, q)
    PROVE  RequestFits(t, q)
BY DEF SameReads, RequestFits

\* A request that has been answered without the transcode waits for nothing.
LEMMA OverFits == Over \in Request /\ \A s : RequestFits(s, Over)
BY DEF Over, NotMade, None, Request, Kinds, RequestFits

\* An answer starts within what has been read.
LEMMA AnswerFits ==
    ASSUME NEW s, StoreInv(s), NEW q \in Request, q.read \in DOMAIN s.reads,
           s.reads[q.read].state # "opening", NEW timedOut
    PROVE  Answer(s, q, timedOut) \in Request /\ RequestFits(s, Answer(s, q, timedOut))
<1> DEFINE r == s.reads[q.read]
           a == Answer(s, q, timedOut)
<1>1. r \in Read
  BY ReadsFit DEF StoreInv
<1>2. CASE a = [q EXCEPT !.phase = "settling", !.awake = FALSE] /\ r.state # "whole" /\ ~Failed(s, q.read)
  <2>1. /\ a \in Request /\ a.phase = "settling" /\ a.read = q.read
    BY <1>2 DEF Request
  <2>2. r.state = "running"
    BY <1>1, <1>2 DEF Read, Failed
  <2> HIDE DEF a
  <2> QED
    BY <2>1, <2>2 DEF RequestFits, a
<1>3. CASE a = Over
  BY <1>3, OverFits
<1>4. CASE /\ a = [q EXCEPT !.phase = "streaming", !.awake = TRUE,
                            !.at = IF q.kind = "later" THEN 1 ELSE 0]
           /\ q.kind = "later" => r.state = "whole"
  <2>1. /\ a \in Request /\ a.phase = "streaming" /\ a.read = q.read /\ a.awake
        /\ a.at = IF q.kind = "later" THEN 1 ELSE 0
    <3> DEFINE at == IF q.kind = "later" THEN 1 ELSE 0
    <3>1. at \in Nat
      OBVIOUS
    <3>2. a = [q EXCEPT !.phase = "streaming", !.awake = TRUE, !.at = at]
      BY <1>4
    <3> HIDE DEF at, a
    <3>3. /\ a \in Request /\ a.phase = "streaming" /\ a.read = q.read /\ a.awake
          /\ a.at = at
      BY <3>1, <3>2 DEF Request
    <3> QED
      BY <3>3 DEF at
  <2>2. r.state = "whole" => r.size \in Nat \ {0}
    BY <1>1, TranscodesAssumption DEF StoreInv, WholeSized, Read
  <2>3. a.at <= r.size
    BY <1>1, <1>4, <2>1, <2>2 DEF Read
  <2> HIDE DEF a
  <2> QED
    BY <2>1, <2>3 DEF RequestFits, a
<1> QED
  BY <1>2, <1>3, <1>4, Zenon DEF Answer

\* Nothing is held and nobody asks at first.
LEMMA InitInv == Init => IInv
<1> SUFFICES ASSUME Init PROVE IInv
  OBVIOUS
<1>1. store = [reads |-> <<>>, held |-> [k \in Keys |-> None], used |-> <<>>, idle |-> {}]
  BY DEF Init
<1>2. store.reads = <<>> /\ DOMAIN store.reads = {} /\ store.held = [k \in Keys |-> None]
  BY <1>1
<1>3. StoreFits(store)
  BY <1>1 DEF StoreFits, None, Shaped
<1>4. StoreInv(store)
  BY <1>2, <1>3 DEF StoreInv, HeldOpened, OneAtMost, WholeSized
<1>5. NotMade \in Request /\ RequestFits(store, NotMade)
  BY DEF NotMade, None, Request, Kinds, RequestFits
<1> QED
  BY <1>4, <1>5 DEF Init, IInv

\* Requests stay as they are, or wait for what is answered, while reads stay.
LEMMA StoreStep ==
    ASSUME IInv, StoreInv(store'), SameReads(store, store'), UNCHANGED requests
    PROVE  IInv'
BY SameFits DEF IInv

\* A request goes on while reads stay as they are.
LEMMA RequestStep ==
    ASSUME IInv, StoreInv(store'), SameReads(store, store'), NEW i \in Requests, NEW q,
           requests' = [requests EXCEPT ![i] = q], q \in Request, RequestFits(store', q)
    PROVE  IInv'
BY SameFits DEF IInv

\* A request for a transcode: it shares a read or begins the one read of it.
LEMMA AskStep ==
    ASSUME IInv, NEW i \in Requests, NEW key \in Keys, NEW kind \in Kinds, Ask(i, key, kind)
    PROVE  IInv'
<1> DEFINE s == Sweep(store)
           h == s.held[key]
           new == [key |-> key, size |-> 0, oversize |-> FALSE, dropped |-> FALSE,
                   state |-> "opening"]
           q == [NotMade EXCEPT !.kind = kind, !.phase = "opening"]
<1>1. StoreInv(s) /\ SameReads(store, s)
  BY SweepKeeps DEF IInv
<1>2. q \in Request /\ \A r \in Nat : /\ [q EXCEPT !.read = r] \in Request
                                      /\ [q EXCEPT !.read = r].read = r
                                      /\ [q EXCEPT !.read = r].phase = "opening"
  BY DEF NotMade, Request, None
<1>3. /\ DOMAIN s.reads = 1..Len(s.reads) /\ Len(s.reads) \in Nat
      /\ \A r \in DOMAIN s.reads : s.reads[r] \in Read
  BY <1>1, ReadsFit DEF StoreInv
<1> HIDE DEF s, q
<1>4. CASE /\ Found(s, key) /\ store' = Touch(s, h)
           /\ requests' = [requests EXCEPT ![i] = Answer(s, [q EXCEPT !.read = h], FALSE)]
  <2>1. h \in DOMAIN s.reads /\ s.reads[h].state # "opening"
    BY <1>1, <1>4 DEF Found, StoreInv, HeldOpened
  <2>2. /\ Answer(s, [q EXCEPT !.read = h], FALSE) \in Request
        /\ RequestFits(s, Answer(s, [q EXCEPT !.read = h], FALSE))
    <3>1. h \in Nat
      BY <1>3, <2>1
    <3> QED
      BY <1>1, <1>2, <2>1, <3>1, AnswerFits
  <2>3. StoreInv(store') /\ SameReads(s, store') /\ SameReads(store, store')
    BY <1>1, <1>4, TouchKeeps DEF SameReads
  <2>4. RequestFits(store', Answer(s, [q EXCEPT !.read = h], FALSE))
    BY <2>2, <2>3, SameFits, ZenonT(40)
  <2> QED
    BY <1>4, <2>2, <2>3, <2>4, RequestStep
<1>5. ASSUME NEW r \in OpeningOf(s, key), store' = s,
             requests' = [requests EXCEPT ![i] = [q EXCEPT !.read = r]]
      PROVE  IInv'
  <2>1. r \in DOMAIN s.reads /\ r \in Nat /\ s.reads[r].state = "opening"
    BY <1>3 DEF OpeningOf
  <2>2. RequestFits(s, [q EXCEPT !.read = r])
    BY <1>2, <2>1 DEF RequestFits
  <2> QED
    BY <1>1, <1>2, <1>5, <2>1, <2>2, RequestStep
<1>6. CASE store' = s /\ requests' = [requests EXCEPT ![i] = Over]
  BY <1>1, <1>6, OverFits, RequestStep
<1>7. CASE /\ ~Found(s, key) /\ OpeningOf(s, key) = {}
           /\ store' = [s EXCEPT !.reads = Append(s.reads, new)]
           /\ requests' = [requests EXCEPT ![i] = [q EXCEPT !.read = Len(s.reads) + 1]]
  <2> DEFINE n == Len(s.reads) + 1
  <2>1. new \in Read
    BY DEF Read
  <2>2. /\ store'.reads = Append(s.reads, new) /\ store'.held = s.held
        /\ Shaped(store') /\ store'.held \in [Keys -> Nat]
    BY <1>1, <1>7 DEF StoreInv, StoreFits, Shaped
  <2>3. /\ store'.reads \in Seq(Read) /\ Len(store'.reads) = n
        /\ \A r \in DOMAIN s.reads : store'.reads[r] = s.reads[r]
        /\ store'.reads[n] = new
    BY <1>1, <1>3, <2>1, <2>2, AppendProperties DEF StoreInv, StoreFits
  <2>4. StoreFits(store')
    BY <2>2, <2>3 DEF StoreFits
  <2>5. DOMAIN store'.reads = DOMAIN s.reads \cup {n} /\ n \notin DOMAIN s.reads /\ n \in Nat
    BY <1>3, <2>3, <2>4, ReadsFit
  <2> HIDE DEF new, n
  <2>6. /\ new.key = key /\ new.state = "opening" /\ ~new.dropped
    BY DEF new
  <2>7. HeldOpened(store')
    BY <1>1, <2>2, <2>3, <2>5 DEF StoreInv, HeldOpened
  <2>8. WholeSized(store')
    BY <1>1, <2>3, <2>5, <2>6 DEF StoreInv, WholeSized
  <2>9. \A u \in DOMAIN s.reads : s.reads[u].key = key /\ UnderWay(s, u) => s.reads[u].dropped
    BY <1>1, <1>3, <1>7 DEF StoreInv, OneAtMost, UnderWay, OpeningOf, Found, Failed, None
  <2>10. OneAtMost(store')
    BY <1>1, <2>2, <2>3, <2>5, <2>6, <2>9 DEF StoreInv, OneAtMost, UnderWay
  <2>11. StoreInv(store')
    BY <2>4, <2>7, <2>8, <2>10 DEF StoreInv
  <2>12. \A j \in Requests : RequestFits(store', requests[j])
    <3>1. \A j \in Requests : RequestFits(s, requests[j])
      BY <1>1, SameFits DEF IInv
    <3> QED
      BY <2>3, <2>5, <3>1 DEF RequestFits
  <2>13. RequestFits(store', [q EXCEPT !.read = n])
    BY <1>2, <2>3, <2>5, <2>6 DEF RequestFits
  <2>14. requests' = [requests EXCEPT ![i] = [q EXCEPT !.read = n]] /\ [q EXCEPT !.read = n] \in Request
    BY <1>2, <1>7, <2>5 DEF n
  <2> QED
    BY <2>11, <2>12, <2>13, <2>14 DEF IInv
<1> QED
  BY <1>4, <1>5, <1>6, <1>7 DEF Ask, s, q

\* What waits for a read is woken, and nothing else.
LEMMA WokenFits ==
    ASSUME IInv, NEW r \in DOMAIN store.reads, store.reads[r].state # "opening",
           NEW t, DOMAIN t.reads = DOMAIN store.reads,
           \A u \in DOMAIN store.reads \ {r} :
               /\ t.reads[u].state = store.reads[u].state /\ t.reads[u].key = store.reads[u].key
               /\ t.reads[u].size = store.reads[u].size,
           t.reads[r].key = store.reads[r].key, t.reads[r].state # "opening",
           t.reads[r].size >= store.reads[r].size,
           t.reads[r].size \in Nat
    PROVE  /\ Woken(r) \in [Requests -> Request]
           /\ \A i \in Requests : RequestFits(t, Woken(r)[i])
<1>1. ASSUME NEW i \in Requests
      PROVE  Woken(r)[i] \in Request /\ RequestFits(t, Woken(r)[i])
  <2>1. requests[i] \in Request /\ RequestFits(store, requests[i])
    BY DEF IInv
  <2>2. store.reads[r].size \in Nat
    BY ReadsFit DEF IInv, StoreInv, Read
  <2>3. CASE In(i, {"settling", "streaming"}) /\ requests[i].read = r
    <3>1. Woken(r)[i] = [requests[i] EXCEPT !.awake = TRUE]
      BY <2>3 DEF Woken
    <3>2. /\ Woken(r)[i] \in Request /\ Woken(r)[i].awake
          /\ Woken(r)[i].phase = requests[i].phase /\ Woken(r)[i].read = r
          /\ Woken(r)[i].at = requests[i].at /\ requests[i].at \in Nat
      BY <2>1, <2>3, <3>1 DEF Request
    <3> QED
      BY <2>1, <2>2, <2>3, <3>2 DEF RequestFits, In
  <2>4. CASE ~(In(i, {"settling", "streaming"}) /\ requests[i].read = r)
    <3>1. Woken(r)[i] = requests[i]
      BY <2>4 DEF Woken
    <3> QED
      BY <2>1, <2>4, <3>1 DEF RequestFits, In
  <2> QED
    BY <2>3, <2>4
<1>2. Woken(r) \in [Requests -> Request]
  <2>1. Woken(r) = [i \in Requests |-> Woken(r)[i]]
    BY DEF Woken
  <2> QED
    BY <1>1, <2>1
<1> QED
  BY <1>1, <1>2

\* A read opens: it is the one read of its transcode, and those that waited for
\* it go on.
LEMMA OpensStep ==
    ASSUME IInv, NEW r \in Reads, Opens(r)
    PROVE  IInv'
<1> DEFINE s == store'
           key == store.reads[r].key
<1>1. /\ r \in DOMAIN store.reads /\ r \in Nat /\ r # None
      /\ \A u \in DOMAIN store.reads : store.reads[u] \in Read
      /\ DOMAIN store.reads = 1..Len(store.reads) /\ Len(store.reads) \in Nat
  BY ReadsFit DEF IInv, StoreInv, Reads
<1>2. key \in Keys /\ store.reads[r].state = "opening" /\ ~store.reads[r].dropped
  BY <1>1, SMTT(30) DEF Opens, Read, IInv, StoreInv, OneAtMost
<1>3. /\ s.reads = [store.reads EXCEPT ![r] = [store.reads[r] EXCEPT !.state = "running"]]
      /\ s.held = [store.held EXCEPT ![key] = r]
      /\ Shaped(s)
  BY DEF Opens, IInv, StoreInv, StoreFits, Shaped
<1> HIDE DEF s
<1>4. /\ DOMAIN s.reads = DOMAIN store.reads
      /\ \A u \in DOMAIN store.reads \ {r} : s.reads[u] = store.reads[u]
      /\ s.reads[r] \in Read /\ s.reads[r].state = "running" /\ s.reads[r].key = key
      /\ s.reads[r].size = store.reads[r].size /\ ~s.reads[r].dropped
  BY <1>1, <1>2, <1>3 DEF Read
<1>5. s.held \in [Keys -> Nat] /\ s.held[key] = r /\ \A k \in Keys \ {key} : s.held[k] = store.held[k]
  BY <1>1, <1>2, <1>3 DEF IInv, StoreInv, StoreFits
<1>6. StoreInv(s)
  <2>1. s.reads \in [1..Len(store.reads) -> Read]
    BY <1>1, <1>3, <1>4
  <2>2. StoreFits(s)
    BY <1>1, <1>3, <1>5, <2>1, SequenceAgain DEF StoreFits
  <2>3. HeldOpened(s)
    BY <1>1, <1>4, <1>5 DEF IInv, StoreInv, HeldOpened
  <2>4. WholeSized(s)
    BY <1>4 DEF IInv, StoreInv, WholeSized
  <2>5. \A u \in DOMAIN store.reads \ {r} :
            store.reads[u].key = key /\ UnderWay(store, u) => store.reads[u].dropped
    BY <1>1, <1>2 DEF IInv, StoreInv, OneAtMost, UnderWay
  <2>6. OneAtMost(s)
    <3>1. /\ \A u \in DOMAIN s.reads \ {r} : UnderWay(s, u) <=> UnderWay(store, u)
          /\ \A u \in DOMAIN s.reads \ {r} :
                  /\ s.reads[u] = store.reads[u] /\ s.reads[u].key \in Keys
                  /\ s.reads[u].state = "opening" => ~s.reads[u].dropped
                  /\ s.reads[u].state = "running" /\ ~s.reads[u].dropped
                        => store.held[s.reads[u].key] = u
      BY <1>1, <1>4 DEF IInv, StoreInv, OneAtMost, UnderWay, Read
    <3>2. ASSUME NEW u \in DOMAIN s.reads \ {r}, UnderWay(s, u), ~s.reads[u].dropped
          PROVE  /\ s.reads[u].key # key
                 /\ \A v \in DOMAIN s.reads \ {r, u} :
                       s.reads[v].key = s.reads[u].key /\ UnderWay(s, v) => s.reads[v].dropped
      BY <1>4, <2>5, <3>1, <3>2 DEF IInv, StoreInv, OneAtMost
    <3>3. \A u \in DOMAIN s.reads \ {r} :
              s.reads[u].state = "running" /\ ~s.reads[u].dropped => s.held[s.reads[u].key] = u
      BY <1>5, <3>1, <3>2 DEF UnderWay
    <3>4. \A u \in DOMAIN s.reads \ {r} :
              s.reads[u].key = s.reads[r].key /\ UnderWay(s, u) => s.reads[u].dropped
      BY <1>4, <3>2
    <3>5. \A u \in DOMAIN s.reads \ {r} :
              UnderWay(s, u) /\ ~s.reads[u].dropped =>
                  \A v \in DOMAIN s.reads \ {u} :
                      s.reads[v].key = s.reads[u].key /\ UnderWay(s, v) => s.reads[v].dropped
      BY <1>4, <3>2
    <3> QED
      BY <1>1, <1>4, <1>5, <3>1, <3>3, <3>4, <3>5 DEF OneAtMost
  <2> QED
    BY <2>2, <2>3, <2>4, <2>6 DEF StoreInv
<1>7. requests' = [i \in Requests |->
                      IF In(i, {"opening"}) /\ requests[i].read = r
                      THEN Answer(s, requests[i], FALSE) ELSE requests[i]]
  BY DEF Opens, s
<1>8. ASSUME NEW i \in Requests
      PROVE  requests'[i] \in Request /\ RequestFits(s, requests'[i])
  <2>1. requests[i] \in Request /\ RequestFits(store, requests[i])
    BY DEF IInv
  <2>2. CASE In(i, {"opening"}) /\ requests[i].read = r
    BY <1>1, <1>4, <1>6, <1>7, <2>1, <2>2, AnswerFits
  <2>3. CASE ~(In(i, {"opening"}) /\ requests[i].read = r)
    <3>1. requests'[i] = requests[i]
      BY <1>7, <2>3
    <3> QED
      BY <1>2, <1>4, <2>1, <2>3, <3>1 DEF RequestFits, In
  <2> QED
    BY <2>2, <2>3
<1> QED
  BY <1>6, <1>7, <1>8 DEF IInv, s

\* A read does not open, and the account's reads may be dropped with its sessions.
LEMMA OpenFailsStep ==
    ASSUME IInv, NEW r \in Reads, OpenFails(r)
    PROVE  IInv'
<1> DEFINE s == [store EXCEPT !.reads[r].state = "failed"]
<1>1. /\ r \in DOMAIN store.reads
      /\ \A u \in DOMAIN store.reads : store.reads[u] \in Read
      /\ DOMAIN store.reads = 1..Len(store.reads) /\ Len(store.reads) \in Nat
  BY ReadsFit DEF IInv, StoreInv, Reads
<1>2. store.reads[r].state = "opening" /\ \A k \in Keys : store.held[k] # r
  BY <1>1, ReadsFit DEF OpenFails, IInv, StoreInv, HeldOpened
<1>3. /\ s.reads = [store.reads EXCEPT ![r] = [store.reads[r] EXCEPT !.state = "failed"]]
      /\ s.held = store.held
      /\ Shaped(s)
  BY DEF IInv, StoreInv, StoreFits, Shaped
<1>4. store' = s \/ \E gone : store' = Drop(s, gone)
  BY Zenon DEF OpenFails, Forget
<1>5. requests' = [i \in Requests |->
                      IF In(i, {"opening"}) /\ requests[i].read = r THEN Over ELSE requests[i]]
  BY DEF OpenFails
<1> HIDE DEF s
<1>6. /\ DOMAIN s.reads = DOMAIN store.reads
      /\ \A u \in DOMAIN store.reads \ {r} : s.reads[u] = store.reads[u]
      /\ s.reads[r] \in Read /\ s.reads[r].state = "failed"
  BY <1>1, <1>3 DEF Read
<1>7. StoreInv(s)
  <2>1. s.reads \in [1..Len(store.reads) -> Read]
    BY <1>1, <1>3, <1>6
  <2>2. StoreFits(s)
    BY <1>1, <1>3, <2>1, SequenceAgain DEF StoreFits, IInv, StoreInv
  <2>3. HeldOpened(s)
    BY <1>3, <1>6 DEF IInv, StoreInv, HeldOpened
  <2>4. WholeSized(s)
    BY <1>6 DEF IInv, StoreInv, WholeSized
  <2>5. OneAtMost(s)
    BY <1>3, <1>6 DEF IInv, StoreInv, OneAtMost, UnderWay
  <2> QED
    BY <2>2, <2>3, <2>4, <2>5 DEF StoreInv
<1>8. StoreInv(store') /\ SameReads(s, store')
  <2>1. SameReads(s, s)
    BY DEF SameReads
  <2> QED
    BY <1>4, <1>7, <2>1, DropKeeps
<1>9. ASSUME NEW i \in Requests
      PROVE  requests'[i] \in Request /\ RequestFits(store', requests'[i])
  <2>1. requests[i] \in Request /\ RequestFits(store, requests[i])
    BY DEF IInv
  <2>2. CASE In(i, {"opening"}) /\ requests[i].read = r
    BY <1>5, <2>2, OverFits
  <2>3. CASE ~(In(i, {"opening"}) /\ requests[i].read = r)
    <3>1. requests'[i] = requests[i]
      BY <1>5, <2>3
    <3>2. requests[i].phase = "ended" => requests[i].read # r \/ s.reads[r].key = store.reads[r].key
      BY <1>1, <1>3 DEF Read
    <3>3. RequestFits(s, requests[i])
      BY <1>2, <1>6, <2>1, <2>3, <3>2 DEF RequestFits, In
    <3> QED
      BY <1>8, <2>1, <3>1, <3>3, SameFits
  <2> QED
    BY <2>2, <2>3
<1> QED
  BY <1>5, <1>8, <1>9 DEF IInv

\* A read that has begun goes on or ends, and is let go of where it failed.
LEMMA ReadChanges ==
    ASSUME NEW s, StoreInv(s), NEW r \in DOMAIN s.reads, s.reads[r].state # "opening",
           NEW read \in Read, read.key = s.reads[r].key, read.dropped = s.reads[r].dropped,
           read.state # "opening",
           read.state = "running" => s.reads[r].state = "running",
           read.state = "whole" => read.size = Whole[read.key],
           NEW t, t.reads = [s.reads EXCEPT ![r] = read],
           Shaped(t),
           \/ t.held = s.held
           \/ /\ read.state # "running" /\ s.held[read.key] = r
              /\ t.held = [s.held EXCEPT ![read.key] = None]
    PROVE  StoreInv(t)
<1>1. /\ \A u \in DOMAIN s.reads : s.reads[u] \in Read
      /\ DOMAIN s.reads = 1..Len(s.reads) /\ Len(s.reads) \in Nat
      /\ s.reads \in [1..Len(s.reads) -> Read] /\ s.held \in [Keys -> Nat]
  BY ReadsFit DEF StoreInv, StoreFits
<1>2. /\ DOMAIN t.reads = DOMAIN s.reads /\ t.reads[r] = read
      /\ \A u \in DOMAIN s.reads \ {r} : t.reads[u] = s.reads[u]
  BY <1>1
<1>3. /\ t.held \in [Keys -> Nat]
      /\ \A k \in Keys : \/ t.held[k] = s.held[k]
                         \/ t.held[k] = None /\ read.state # "running" /\ s.held[k] = r
  <2>1. read.key \in Keys
    BY DEF Read
  <2>2. CASE t.held = s.held
    BY <1>1, <2>2
  <2>3. CASE /\ read.state # "running" /\ s.held[read.key] = r
             /\ t.held = [s.held EXCEPT ![read.key] = None]
    BY <1>1, <2>1, <2>3 DEF None
  <2> QED
    BY <2>2, <2>3
<1>4. StoreFits(t)
  <2>1. t.reads \in [1..Len(s.reads) -> Read]
    BY <1>1
  <2> QED
    BY <1>1, <1>3, <2>1, SequenceAgain DEF StoreFits
<1>5. HeldOpened(t)
  BY <1>2, <1>3 DEF StoreInv, HeldOpened
<1>6. WholeSized(t)
  BY <1>2 DEF StoreInv, WholeSized
<1>7. OneAtMost(t)
  <2>1. ASSUME NEW u \in DOMAIN t.reads, t.reads[u].state = "running", ~t.reads[u].dropped
        PROVE  t.held[t.reads[u].key] = u
    <3>1. s.held[s.reads[u].key] = u /\ s.reads[u].key = t.reads[u].key /\ s.reads[u].key \in Keys
      BY <1>1, <1>2, <2>1 DEF StoreInv, OneAtMost, Read
    <3> QED
      BY <1>2, <1>3, <2>1, <3>1
  <2>2. ASSUME NEW u \in DOMAIN t.reads
        PROVE  /\ UnderWay(t, u) => UnderWay(s, u)
               /\ t.reads[u].key = s.reads[u].key /\ t.reads[u].dropped = s.reads[u].dropped
               /\ t.reads[u].state = "opening" => s.reads[u].state = "opening"
    BY <1>2 DEF UnderWay
  <2> QED
    BY <1>2, <2>1, <2>2 DEF StoreInv, OneAtMost
<1> QED
  BY <1>4, <1>5, <1>6, <1>7 DEF StoreInv

\* A chunk arrives, or proves one too many.
LEMMA ArrivesStep ==
    ASSUME IInv, NEW r \in Reads, Arrives(r)
    PROVE  IInv'
<1> DEFINE read == [store.reads[r] EXCEPT !.size = @ + 1]
           a == [store EXCEPT !.reads[r].size = @ + 1]
           b == IF a.reads[r].size <= MaxEntry /\ TooMuch(a, r) THEN Sweep(a) ELSE a
<1>1. /\ r \in DOMAIN store.reads /\ store.reads[r] \in Read
      /\ store.reads[r].size \in Nat /\ store.reads[r].state = "running"
  BY ReadsFit DEF IInv, StoreInv, Reads, Arrives, Arriving, Read
<1>2. /\ read \in Read /\ read.key = store.reads[r].key /\ read.dropped = store.reads[r].dropped
      /\ read.state = "running" /\ read.size = store.reads[r].size + 1
  BY <1>1 DEF Read
<1>3. /\ a.reads = [store.reads EXCEPT ![r] = read] /\ a.held = store.held
      /\ Shaped(a)
  BY DEF IInv, StoreInv, StoreFits, Shaped
<1>4. \/ store' = b /\ requests' = Woken(r)
      \/ /\ store' = [b EXCEPT !.reads[r].state = "cancelling", !.reads[r].oversize = TRUE]
         /\ UNCHANGED requests
  BY DEF Arrives
<1> HIDE DEF a, read
<1>5. StoreInv(a)
  BY <1>1, <1>2, <1>3, ReadChanges, ZenonT(60) DEF IInv
<1>6. StoreInv(b) /\ SameReads(a, b)
  <2>1. SameReads(a, a)
    BY DEF SameReads
  <2> QED
    BY <1>5, <2>1, SweepKeeps
<1>7. /\ DOMAIN a.reads = DOMAIN store.reads /\ a.reads[r] = read
      /\ \A u \in DOMAIN store.reads \ {r} : a.reads[u] = store.reads[u]
  BY <1>1, <1>3
<1>8. /\ DOMAIN b.reads = DOMAIN store.reads /\ r \in DOMAIN b.reads
      /\ b.reads[r].key = store.reads[r].key /\ b.reads[r].state = "running"
      /\ b.reads[r].size = store.reads[r].size + 1
      /\ \A u \in DOMAIN store.reads \ {r} :
            /\ b.reads[u].state = store.reads[u].state /\ b.reads[u].key = store.reads[u].key
            /\ b.reads[u].size = store.reads[u].size
  BY <1>1, <1>2, <1>6, <1>7 DEF SameReads
<1> HIDE DEF b
<1>9. CASE store' = b /\ requests' = Woken(r)
  BY <1>1, <1>6, <1>8, <1>9, WokenFits DEF IInv
<1>10. CASE /\ store' = [b EXCEPT !.reads[r].state = "cancelling", !.reads[r].oversize = TRUE]
            /\ UNCHANGED requests
  <2> DEFINE last == [b.reads[r] EXCEPT !.state = "cancelling", !.oversize = TRUE]
  <2>1. b.reads[r] \in Read
    BY <1>6, <1>8, ReadsFit DEF StoreInv
  <2>2. /\ last \in Read /\ last.key = b.reads[r].key /\ last.dropped = b.reads[r].dropped
        /\ last.state = "cancelling" /\ last.size = b.reads[r].size
    BY <2>1 DEF Read
  <2>3. /\ store'.reads = [b.reads EXCEPT ![r] = last] /\ store'.held = b.held
        /\ Shaped(store')
    BY <1>6, <1>8, <1>10 DEF StoreInv, StoreFits, Shaped
  <2> HIDE DEF last
  <2>4. StoreInv(store')
    BY <1>6, <1>8, <2>2, <2>3, ReadChanges, ZenonT(40)
  <2>5. /\ DOMAIN store'.reads = DOMAIN store.reads
        /\ store'.reads[r].state = "cancelling" /\ store'.reads[r].key = store.reads[r].key
        /\ store'.reads[r].size = store.reads[r].size + 1
        /\ \A u \in DOMAIN store.reads \ {r} :
              /\ store'.reads[u].state = store.reads[u].state
              /\ store'.reads[u].key = store.reads[u].key
              /\ store'.reads[u].size = store.reads[u].size
    BY <1>8, <2>2, <2>3
  <2>6. ASSUME NEW i \in Requests
        PROVE  RequestFits(store', requests[i])
    <3>1. RequestFits(store, requests[i]) /\ requests[i].at \in Nat
      BY DEF IInv, Request
    <3> QED
      BY <1>1, <2>5, <3>1 DEF RequestFits
  <2> QED
    BY <1>10, <2>4, <2>6 DEF IInv
<1> QED
  BY <1>4, <1>9, <1>10

\* A read ends: whole, cancelled, or broken off.
LEMMA EndsStep ==
    ASSUME IInv, NEW r \in Reads, Ends(r)
    PROVE  IInv'
<1> DEFINE whole == [store EXCEPT !.reads[r].state = "whole"]
           failed == [store EXCEPT !.reads[r].state = "failed"]
           Ended(state) == [store.reads[r] EXCEPT !.state = state]
<1>1. /\ r \in DOMAIN store.reads /\ store.reads[r] \in Read /\ store.reads[r].key \in Keys
      /\ store.reads[r].size \in Nat /\ store.reads[r].state \in {"running", "cancelling"}
  BY ReadsFit DEF IInv, StoreInv, Reads, Ends, Read
<1>2. ASSUME NEW state \in {"whole", "failed"}
      PROVE  /\ Ended(state) \in Read /\ Ended(state).key = store.reads[r].key
             /\ Ended(state).dropped = store.reads[r].dropped
             /\ Ended(state).state = state /\ Ended(state).size = store.reads[r].size
  BY <1>1 DEF Read
<1>3. /\ whole.reads = [store.reads EXCEPT ![r] = Ended("whole")] /\ whole.held = store.held
      /\ Shaped(whole)
  BY DEF IInv, StoreInv, StoreFits, Shaped
<1>4. /\ failed.reads = [store.reads EXCEPT ![r] = Ended("failed")] /\ failed.held = store.held
      /\ Shaped(failed)
  BY DEF IInv, StoreInv, StoreFits, Shaped
<1>5. /\ requests' = Woken(r)
      /\ \/ store.reads[r].size = Whole[store.reads[r].key] /\ store' = Sweep(whole)
         \/ store' = Sweep(LetGo(failed, r))
  BY DEF Ends
<1> HIDE DEF whole, failed, Ended
<1>6. PICK state \in {"whole", "failed"} : \E t :
            /\ StoreInv(t) /\ store' = Sweep(t) /\ t.reads = [store.reads EXCEPT ![r] = Ended(state)]
  <2>1. CASE store.reads[r].size = Whole[store.reads[r].key] /\ store' = Sweep(whole)
    <3> DEFINE read == Ended("whole")
    <3>1. /\ read \in Read /\ read.key = store.reads[r].key /\ read.dropped = store.reads[r].dropped
          /\ read.state = "whole" /\ read.size = Whole[read.key]
      BY <1>2, <2>1
    <3>2. whole.reads = [store.reads EXCEPT ![r] = read]
      BY <1>3
    <3> HIDE DEF read
    <3>3. StoreInv(store) /\ store.reads[r].state # "opening"
      BY <1>1 DEF IInv
    <3>4. whole.held = store.held /\ Shaped(whole)
      BY <1>3
    <3>5. /\ read.state # "opening"
          /\ read.state = "running" => store.reads[r].state = "running"
      BY <3>1
    <3>6. StoreInv(whole)
      BY <1>1, <3>1, <3>2, <3>3, <3>4, <3>5, ReadChanges
    <3> QED
      BY <1>3, <2>1, <3>6
  <2>2. CASE store' = Sweep(LetGo(failed, r))
    <3> DEFINE t == LetGo(failed, r)
               read == Ended("failed")
    <3>1. failed.reads[r].key = store.reads[r].key
      BY <1>1, <1>2, <1>4
    <3>2. /\ t.reads = failed.reads
          /\ Shaped(t)
          /\ \/ t.held = failed.held
             \/ /\ failed.held[store.reads[r].key] = r
                /\ t.held = [failed.held EXCEPT ![store.reads[r].key] = None]
      BY <1>4, <3>1 DEF LetGo, Shaped
    <3>3. /\ read \in Read /\ read.key = store.reads[r].key /\ read.dropped = store.reads[r].dropped
          /\ read.state = "failed"
      BY <1>2
    <3>4. t.reads = [store.reads EXCEPT ![r] = read]
      BY <1>4, <3>2
    <3> HIDE DEF t, read
    <3>5. StoreInv(store) /\ store.reads[r].state # "opening"
      BY <1>1 DEF IInv
    <3>6. /\ Shaped(t) /\ read.state \notin {"opening", "running", "whole"}
          /\ \/ t.held = store.held
             \/ /\ store.held[read.key] = r
                /\ t.held = [store.held EXCEPT ![read.key] = None]
      BY <1>4, <3>2, <3>3
    <3>7. StoreInv(t)
      BY <1>1, <3>3, <3>4, <3>5, <3>6, ReadChanges, SMTT(30)
    <3> QED
      BY <1>4, <2>2, <3>2, <3>7 DEF t
  <2> QED
    BY <1>5, <2>1, <2>2
<1> PICK t : StoreInv(t) /\ store' = Sweep(t) /\ t.reads = [store.reads EXCEPT ![r] = Ended(state)]
  BY <1>6
<1>7. StoreInv(store') /\ SameReads(t, store')
  BY SweepKeeps
<1>8. /\ DOMAIN t.reads = DOMAIN store.reads /\ t.reads[r] = Ended(state)
      /\ \A u \in DOMAIN store.reads \ {r} : t.reads[u] = store.reads[u]
  BY <1>1
<1>9. /\ DOMAIN store'.reads = DOMAIN store.reads
      /\ store'.reads[r].key = store.reads[r].key /\ store'.reads[r].state # "opening"
      /\ store'.reads[r].size = store.reads[r].size
      /\ \A u \in DOMAIN store.reads \ {r} :
            /\ store'.reads[u].state = store.reads[u].state
            /\ store'.reads[u].key = store.reads[u].key
            /\ store'.reads[u].size = store.reads[u].size
  BY <1>1, <1>2, <1>7, <1>8 DEF SameReads
<1>10. /\ Woken(r) \in [Requests -> Request]
       /\ \A i \in Requests : RequestFits(store', Woken(r)[i])
  BY <1>1, <1>9, WokenFits
<1> QED
  BY <1>5, <1>7, <1>10 DEF IInv

\* A request that waited goes on, and a reader takes what there is.
LEMMA ReaderStep ==
    ASSUME IInv, NEW i \in Requests, Settles(i) \/ Pull(i)
    PROVE  IInv'
<1> DEFINE q == requests[i]
           r == store.reads[q.read]
<1>1. q \in Request /\ RequestFits(store, q) /\ SameReads(store, store)
  BY DEF IInv, SameReads
<1>2. q.read \in DOMAIN store.reads /\ r.state # "opening" /\ r \in Read
  BY <1>1, ReadsFit DEF Settles, Pull, In, RequestFits, IInv, StoreInv
<1>3. CASE Settles(i)
  <2>1. PICK timedOut \in {~q.awake, TRUE} :
            requests' = [requests EXCEPT ![i] = Answer(store, q, timedOut)]
    BY <1>3 DEF Settles
  <2>2. store' = store
    BY <1>3 DEF Settles
  <2>3. Answer(store, q, timedOut) \in Request /\ RequestFits(store, Answer(store, q, timedOut))
    BY <1>1, <1>2, AnswerFits DEF IInv
  <2> QED
    BY <1>1, <2>1, <2>2, <2>3, RequestStep DEF IInv
<1>4. CASE Pull(i)
  <2>1. q.phase = "streaming" /\ q.awake /\ q.at <= r.size /\ q.at \in Nat /\ r.size \in Nat
    BY <1>1, <1>2, <1>4 DEF Pull, In, RequestFits, Request, Read
  <2>2. StoreInv(store') /\ SameReads(store, store')
    BY <1>1, <1>4, TouchKeeps DEF Pull, IInv
  <2>3. ASSUME NEW p \in Request, RequestFits(store, p), requests' = [requests EXCEPT ![i] = p]
        PROVE  IInv'
    BY <2>2, <2>3, SameFits, RequestStep
  <2>4. CASE requests' = [requests EXCEPT ![i] = [q EXCEPT !.at = r.size]]
    <3> DEFINE p == [q EXCEPT !.at = r.size]
    <3>1. /\ p \in Request /\ p.phase = "streaming" /\ p.awake /\ p.read = q.read /\ p.at = r.size
      BY <1>1, <2>1 DEF Request
    <3> HIDE DEF p
    <3>2. RequestFits(store, p)
      BY <1>2, <2>1, <3>1 DEF RequestFits
    <3> QED
      BY <2>3, <2>4, <3>1, <3>2 DEF p
  <2>5. CASE /\ requests' = [requests EXCEPT ![i] = [q EXCEPT !.phase = "ended"]]
             /\ AtEnd(r) /\ ~(q.at < r.size)
    <3> DEFINE p == [q EXCEPT !.phase = "ended"]
    <3>1. /\ p \in Request /\ p.phase = "ended" /\ p.read = q.read /\ p.at = q.at
      BY <1>1 DEF Request
    <3>2. r.size = Whole[r.key] /\ q.at = r.size
      BY <1>2, <2>1, <2>5 DEF AtEnd, IInv, StoreInv, WholeSized
    <3> HIDE DEF p
    <3>3. RequestFits(store, p)
      BY <1>2, <3>1, <3>2 DEF RequestFits
    <3> QED
      BY <2>3, <2>5, <3>1, <3>3 DEF p
  <2>6. CASE requests' = [requests EXCEPT ![i] = Over]
    BY <2>3, <2>6, OverFits
  <2>7. CASE /\ requests' = [requests EXCEPT ![i] = [q EXCEPT !.awake = FALSE]]
             /\ ~(q.at < r.size) /\ ~AtEnd(r) /\ ~Failed(store, q.read)
    <3> DEFINE p == [q EXCEPT !.awake = FALSE]
    <3>1. /\ p \in Request /\ p.phase = "streaming" /\ p.read = q.read /\ p.at = q.at
      BY <1>1, <2>1 DEF Request
    <3>2. r.state = "running" /\ q.at = r.size
      BY <1>2, <2>1, <2>7 DEF AtEnd, Failed, Read
    <3> HIDE DEF p
    <3>3. RequestFits(store, p)
      BY <1>2, <2>1, <3>1, <3>2 DEF RequestFits
    <3> QED
      BY <2>3, <2>7, <3>1, <3>3 DEF p
  <2> QED
    BY <1>4, <2>4, <2>5, <2>6, <2>7, Zenon DEF Pull
<1> QED
  BY <1>3, <1>4

\* A read idles, and an account's sessions end.
LEMMA LapseStep ==
    ASSUME IInv, (\E r \in Reads : Idles(r)) \/ \E account \in Accounts : SessionsEnd(account)
    PROVE  IInv'
<1>1. ASSUME NEW r \in Reads, Idles(r)
      PROVE  IInv'
  <2>1. store'.reads = store.reads /\ store'.held = store.held /\ StoreFits(store')
    BY <1>1 DEF Idles, IInv, StoreInv, StoreFits, Shaped
  <2>2. StoreInv(store') /\ SameReads(store, store')
    BY <2>1 DEF IInv, StoreInv, HeldOpened, OneAtMost, UnderWay, WholeSized, SameReads
  <2> QED
    BY <1>1, <2>2, StoreStep DEF Idles
<1>2. ASSUME NEW account \in Accounts, SessionsEnd(account)
      PROVE  IInv'
  BY <1>2, DropKeeps, StoreStep DEF SessionsEnd, Forget, IInv
<1> QED
  BY <1>1, <1>2

\* Every step keeps the invariant.
LEMMA StepInv == IInv /\ [Next]_vars => IInv'
<1>1. IInv /\ UNCHANGED vars => IInv'
  BY DEF vars, IInv
<1> QED
  BY <1>1, AskStep, OpensStep, OpenFailsStep, ArrivesStep, EndsStep, ReaderStep, LapseStep
  DEF Next

-----------------------------------------------------------------------------
(* The theorems *)

\* Requests for one transcode share one read, however they and the music
\* server's answers interleave, and though reads fail and are dropped under way.
THEOREM ReadIsShared == Spec => []OneRead
<1>1. IInv => OneRead
  BY DEF IInv, StoreInv, OneAtMost, UnderWay, OneRead, Reads
<1> QED
  BY <1>1, InitInv, StepInv, PTL DEF Spec

\* A reader that comes to an end has the transcode whole.
THEOREM EndsWhole == Spec => []WholeOrBroken
<1>1. IInv => WholeOrBroken
  BY DEF IInv, RequestFits, WholeOrBroken, In
<1> QED
  BY <1>1, InitInv, StepInv, PTL DEF Spec

\* No request sleeps past the end of the read it waits for, or what has arrived.
THEOREM NobodySleepsOn == Spec => []NoneLeftAsleep
<1>1. IInv => NoneLeftAsleep
  BY DEF IInv, RequestFits, NoneLeftAsleep, In
<1> QED
  BY <1>1, InitInv, StepInv, PTL DEF Spec

-----------------------------------------------------------------------------
(* PART TWO: the player *)

-----------------------------------------------------------------------------
(* What a step leaves alone *)

Second(p) == p.el[Secondary(p)]

SameTrack(p, q) == q.queue = p.queue /\ q.index = p.index /\ q.repeat = p.repeat
SameTimes(p, q) == /\ q.time = p.time /\ q.pendingSeek = p.pendingSeek
                   /\ q.retry = p.retry /\ q.sought = p.sought
SameWill(p, q) == /\ q.engaged = p.engaged /\ q.error = p.error /\ q.stranded = p.stranded
                  /\ q.held = p.held /\ q.asking = p.asking
SameFades(p, q) == q.primary = p.primary /\ q.fades = p.fades
SameNext(p, q) == /\ q.preloadedFor = p.preloadedFor /\ q.astray = p.astray
                  /\ q.wrapped = p.wrapped /\ q.ramp = p.ramp
Same(p, q) == /\ SameTrack(p, q) /\ SameTimes(p, q) /\ SameWill(p, q) /\ SameFades(p, q)
              /\ SameNext(p, q) /\ q.el = p.el

-----------------------------------------------------------------------------
(* The inductive invariant, of a page *)

\* Fades in flight, and not in vain.
ChangePending(p) == \E i \in DOMAIN p.fades : p.fades[i].kind = "change" /\ ~p.fades[i].late
SeekPending(p) ==
    \E i \in DOMAIN p.fades : /\ p.fades[i].kind = "seek" /\ ~p.fades[i].late
                              /\ p.fades[i].element = p.primary
PausePending(p) ==
    \E i \in DOMAIN p.fades : p.fades[i].kind = "pause" /\ p.fades[i].element = p.primary

\* The place in the queue is one of its places.
InPlace(p) == p.queue # <<>> => p.index \in 1..Len(p.queue)

\* An element without a source is an empty one, and the end of a track is
\* reached by running out alone.
Sourced(x) == IF x.src = NoSong THEN x = Empty ELSE x.data # "none"
Inside(x) ==
    /\ ~x.paused => x.at <= Last
    /\ x.at = End => x.data \in {"ready", "failed"}
Sources(p) == /\ Sourced(Primary(p)) /\ Inside(Primary(p))
              /\ Sourced(Second(p)) /\ Inside(Second(p)) /\ Second(p).data # "stalled"

FadesInside(fades) ==
    \A i \in DOMAIN fades :
        fades[i].target <= Last /\ (fades[i].kind = "seek" => fades[i].target # Nowhere)
Within(p) == p.time <= Last /\ p.pendingSeek <= Last /\ FadesInside(p.fades)

\* A timer asks for a track.
Retries(p) ==
    p.retry # NoRetry => p.retry.song # NoSong /\ p.retry.at # Nowhere /\ p.retry.at <= Last

\* What is buffered is in the second element.
Preloaded(p) == p.preloadedFor # NoSong => Second(p).src = p.preloadedFor

\* The bar is where the track is, or is to be taken up.
Ground(p) ==
    ~p.sought =>
        /\ p.pendingSeek # Nowhere => Primary(p).data \in {"none", "opening", "failed"}
        /\ p.pendingSeek # Nowhere /\ Primary(p).data = "opening" => p.time = p.pendingSeek
        /\ p.pendingSeek = Nowhere /\ Primary(p).data \in {"opening", "ready", "stalled"}
               => p.time <= Primary(p).at \/ SeekPending(p)
        /\ p.retry # NoRetry => p.retry.at = p.time

Firm(p) == p \in Page /\ Sources(p) /\ Within(p) /\ Retries(p) /\ Preloaded(p)
Steady(p) == Firm(p) /\ Ground(p)

\* What is loaded, or asked for again, is the track of the queue.
OnTrack(p) ==
    /\ Primary(p).src \in {NoSong, Current(p)} \/ ChangePending(p)
    /\ p.retry # NoRetry => p.retry.song = Current(p) \/ ChangePending(p)
    /\ p.queue = <<>> => Primary(p).src = NoSong /\ p.retry = NoRetry /\ ~p.engaged
    /\ p.engaged => Primary(p).src # NoSong

\* Running, of an element.
Runs(x) == x.data \notin {"none", "failed"} /\ ~x.paused

\* The second element runs under an overlap alone, with the track that follows.
SecondHeld(p) ==
    Runs(Second(p)) /\ ~p.astray =>
        /\ p.engaged /\ p.ramp # "none" /\ p.preloadedFor # NoSong
        /\ p.wrapped \/ (p.index < Len(p.queue) /\ p.preloadedFor = p.queue[p.index + 1])

\* A paused player runs while its pause fades out.
FirstHeld(p) ==
    ~p.engaged /\ ~p.astray /\ Runs(Primary(p)) => PausePending(p)

\* A track that failed is changed, tried again, asked about or given up.
FailedWaits(p) ==
    Primary(p).data = "failed" =>
        \/ ChangePending(p)
        \/ p.retry # NoRetry /\ p.engaged
        \/ [element |-> p.primary, song |-> Current(p)] \in p.asking
        \/ p.error
        \/ p.stranded /\ ~p.engaged

\* A track that is there plays, was paused by the system or was given up.
ReadyWaits(p) ==
    p.engaged /\ Primary(p).data = "ready" => ~Primary(p).paused \/ p.held \/ p.error

\* The second element is silent, under an overlap, or out of hand.
Quiet(p) == Runs(Second(p)) => p.astray
Ramped(p) == Runs(Second(p)) /\ ~p.astray => p.ramp # "none"

Sound(p) ==
    /\ Steady(p) /\ InPlace(p) /\ OnTrack(p) /\ SecondHeld(p) /\ FirstHeld(p) /\ FailedWaits(p)

Good(p) == Sound(p) /\ ReadyWaits(p)

PlayerInv == Good(page) /\ graph \in BOOLEAN /\ presses \in Nat /\ faults \in Nat

-----------------------------------------------------------------------------
(* Types *)

LEMMA Bounds ==
    /\ Last \in Nat /\ Last >= 1 /\ End = Last + 1 /\ Nowhere = -1
    /\ Positions = 0..(Last + 1) /\ 0 \in Positions
BY PlaybackAssumption DEF End, Nowhere, Positions

LEMMA Two ==
    ASSUME NEW p \in Page
    PROVE  /\ p.primary \in Elements /\ Secondary(p) \in Elements /\ Secondary(p) # p.primary
           /\ Elements = {p.primary, Secondary(p)}
BY DEF Page, Secondary, Partner, Elements

LEMMA Parts ==
    ASSUME NEW p \in Page
    PROVE  /\ p.queue \in Seq(Songs) /\ p.index \in Nat /\ p.repeat \in {"off", "all", "one"}
           /\ p.engaged \in BOOLEAN /\ p.error \in BOOLEAN /\ p.stranded \in BOOLEAN
           /\ p.el \in [Elements -> Element] /\ p.preloadedFor \in Songs \cup {NoSong}
           /\ p.ramp \in {"none", "timer", "graph"} /\ p.time \in Positions
           /\ p.pendingSeek \in {Nowhere} \cup Positions /\ p.recoveredFrom \in Positions
           /\ p.recoveries \in Nat /\ p.skips \in Nat /\ p.retry \in Asked
           /\ p.asking \in SUBSET [element : Elements, song : Songs]
           /\ p.fades \in Seq(Fade) /\ p.astray \in BOOLEAN /\ p.held \in BOOLEAN
           /\ p.wrapped \in BOOLEAN /\ p.sought \in BOOLEAN /\ p.sleep \in BOOLEAN
           /\ p.playing \in BOOLEAN
BY DEF Page

LEMMA ElementParts ==
    ASSUME NEW p \in Page, NEW e \in Elements
    PROVE  /\ p.el[e] \in Element /\ p.el[e].src \in Songs \cup {NoSong}
           /\ p.el[e].paused \in BOOLEAN /\ p.el[e].at \in Positions
           /\ p.el[e].data \in {"none", "opening", "ready", "stalled", "failed"}
<1>1. p.el[e] \in Element
  BY Parts
<1> QED
  BY <1>1 DEF Element

\* An element changed, and what it is then.
LEMMA ElementTypes ==
    /\ Empty \in Element
    /\ \A song \in Songs : Opening(song) \in Element
    /\ \A x \in Element, paused \in BOOLEAN : [x EXCEPT !.paused = paused] \in Element
    /\ \A x \in Element, at \in Positions : [x EXCEPT !.at = at] \in Element
    /\ \A x \in Element, at \in Positions : [x EXCEPT !.paused = TRUE, !.at = at] \in Element
    /\ \A x \in Element, at \in Positions : [x EXCEPT !.paused = FALSE, !.at = at] \in Element
    /\ \A x \in Element, data \in {"none", "opening", "ready", "stalled", "failed"} :
           [x EXCEPT !.data = data] \in Element
<1>1. 0 \in Positions
  BY Bounds
<1>2. Empty \in Element /\ \A song \in Songs : Opening(song) \in Element
  BY <1>1 DEF Empty, Opening, Element
<1>3. \A x \in Element, at \in Positions : [x EXCEPT !.at = at] \in Element
  BY DEF Element
<1>4. \A x \in Element, paused \in BOOLEAN : [x EXCEPT !.paused = paused] \in Element
  BY DEF Element
<1>5. \A x \in Element, at \in Positions : [x EXCEPT !.paused = TRUE, !.at = at] \in Element
  BY DEF Element
<1>6. \A x \in Element, at \in Positions : [x EXCEPT !.paused = FALSE, !.at = at] \in Element
  BY DEF Element
<1>7. \A x \in Element, data \in {"none", "opening", "ready", "stalled", "failed"} :
          [x EXCEPT !.data = data] \in Element
  BY DEF Element
<1> QED
  BY <1>2, <1>3, <1>4, <1>5, <1>6, <1>7

\* The current track is one.
LEMMA CurrentIs ==
    ASSUME NEW p \in Page, InPlace(p)
    PROVE  /\ p.queue # <<>> => Current(p) \in Songs /\ Current(p) # NoSong
           /\ p.queue = <<>> => Current(p) = NoSong
<1>1. CASE p.queue # <<>>
  <2>1. p.queue \in Seq(Songs) /\ p.index \in 1..Len(p.queue)
    BY <1>1, Parts DEF InPlace
  <2>2. p.queue[p.index] \in Songs
    BY <2>1
  <2> QED
    BY <1>1, <2>2, PlaybackAssumption DEF Current
<1> QED
  BY <1>1 DEF Current

-----------------------------------------------------------------------------
(* What the handlers call: the parts they change *)

LEMMA AbandonIs ==
    ASSUME NEW p \in Page
    PROVE  LET q == AbandonCrossfade(p)
           IN /\ q \in Page /\ q.ramp = "none"
              /\ SameTrack(p, q) /\ SameTimes(p, q) /\ SameWill(p, q) /\ SameFades(p, q)
              /\ q.preloadedFor = p.preloadedFor /\ q.astray = p.astray /\ q.wrapped = p.wrapped
              /\ q.sleep = p.sleep /\ q.playing = p.playing /\ q.recoveries = p.recoveries
              /\ Primary(q) = Primary(p)
              /\ p.ramp = "none" => q = p
              /\ p.ramp # "none" => Second(q) = [Second(p) EXCEPT !.paused = TRUE, !.at = 0]
<1> DEFINE x == [Second(p) EXCEPT !.paused = TRUE, !.at = 0]
           f == [p.el EXCEPT ![Secondary(p)] = x]
<1>1. x \in Element
  BY Two, ElementParts, ElementTypes, Bounds DEF Second
<1>2. f \in [Elements -> Element] /\ f[Secondary(p)] = x /\ f[p.primary] = p.el[p.primary]
  BY <1>1, Two, Parts
<1>3. CASE p.ramp = "none"
  BY <1>3 DEF AbandonCrossfade, SameTrack, SameTimes, SameWill, SameFades
<1>4. CASE p.ramp # "none"
  <2>1. AbandonCrossfade(p) = [p EXCEPT !.ramp = "none", !.el = f]
    BY <1>4, Two, Parts, ElementParts, ZenonT(60) DEF AbandonCrossfade, Second, Element
  <2> HIDE DEF f
  <2> DEFINE q == [p EXCEPT !.ramp = "none", !.el = f]
  <2>2. q \in Page
    BY <1>2, ZenonT(60) DEF Page
  <2>3. /\ SameTrack(p, q) /\ SameTimes(p, q) /\ SameWill(p, q) /\ SameFades(p, q)
        /\ q.preloadedFor = p.preloadedFor /\ q.astray = p.astray /\ q.wrapped = p.wrapped
        /\ q.sleep = p.sleep /\ q.playing = p.playing /\ q.recoveries = p.recoveries
        /\ q.ramp = "none" /\ q.el = f
    BY DEF Page, SameTrack, SameTimes, SameWill, SameFades
  <2> HIDE DEF q
  <2>4. Primary(q) = Primary(p) /\ Second(q) = x
    BY <1>2, <2>3 DEF Primary, Second, Secondary, SameFades
  <2> QED
    BY <1>4, <2>1, <2>2, <2>3, <2>4 DEF q
<1> QED
  BY <1>3, <1>4

LEMMA InvalidateIs ==
    ASSUME NEW p \in Page
    PROVE  LET q == InvalidatePreload(p)
           IN /\ q \in Page /\ q.ramp = "none" /\ q.preloadedFor = NoSong
              /\ SameTrack(p, q) /\ SameTimes(p, q) /\ SameWill(p, q) /\ SameFades(p, q)
              /\ q.astray = p.astray /\ q.wrapped = p.wrapped
              /\ Primary(q) = Primary(p)
              /\ p.preloadedFor # NoSong => Second(q) = Empty
              /\ p.preloadedFor = NoSong /\ p.ramp = "none" => Second(q) = Second(p)
              /\ p.preloadedFor = NoSong /\ p.ramp # "none"
                     => Second(q) = [Second(p) EXCEPT !.paused = TRUE, !.at = 0]
<1> DEFINE a == AbandonCrossfade(p)
<1>1. /\ a \in Page /\ a.ramp = "none"
      /\ SameTrack(p, a) /\ SameTimes(p, a) /\ SameWill(p, a) /\ SameFades(p, a)
      /\ a.preloadedFor = p.preloadedFor /\ a.astray = p.astray /\ a.wrapped = p.wrapped
      /\ Primary(a) = Primary(p)
      /\ p.ramp = "none" => a = p
      /\ p.ramp # "none" => Second(a) = [Second(p) EXCEPT !.paused = TRUE, !.at = 0]
  BY AbandonIs
<1>2. InvalidatePreload(p) = IF a.preloadedFor = NoSong THEN a
                             ELSE [a EXCEPT !.preloadedFor = NoSong, !.el[Secondary(a)] = Empty]
  BY DEF InvalidatePreload
<1> HIDE DEF a
<1>3. CASE p.preloadedFor = NoSong
  BY <1>1, <1>2, <1>3
<1>4. CASE p.preloadedFor # NoSong
  <2> DEFINE f == [a.el EXCEPT ![Secondary(a)] = Empty]
             q == [a EXCEPT !.preloadedFor = NoSong, !.el = f]
  <2>1. f \in [Elements -> Element] /\ f[Secondary(a)] = Empty /\ f[a.primary] = a.el[a.primary]
    BY <1>1, Two, Parts, ElementTypes
  <2>2. InvalidatePreload(p) = q
    BY <1>1, <1>2, <1>4 DEF Page
  <2> HIDE DEF f
  <2>3. q \in Page
    BY <1>1, <2>1, ZenonT(60) DEF Page
  <2>4. /\ SameTrack(a, q) /\ SameTimes(a, q) /\ SameWill(a, q) /\ SameFades(a, q)
        /\ q.astray = a.astray /\ q.wrapped = a.wrapped /\ q.ramp = a.ramp
        /\ q.preloadedFor = NoSong /\ q.el = f
    BY <1>1 DEF Page, SameTrack, SameTimes, SameWill, SameFades
  <2> HIDE DEF q
  <2>5. Primary(q) = Primary(a) /\ Second(q) = Empty
    BY <2>1, <2>4 DEF Primary, Second, Secondary, SameFades
  <2> QED
    BY <1>1, <1>4, <2>2, <2>3, <2>4, <2>5 DEF SameTrack, SameTimes, SameWill, SameFades
<1> QED
  BY <1>3, <1>4

LEMMA CancelIs ==
    ASSUME NEW p \in Page
    PROVE  LET q == CancelRecovery(p)
           IN /\ q \in Page /\ q.retry = NoRetry
              /\ SameTrack(p, q) /\ SameWill(p, q) /\ SameFades(p, q) /\ SameNext(p, q)
              /\ q.time = p.time /\ q.pendingSeek = p.pendingSeek /\ q.sought = p.sought
              /\ q.el = p.el /\ q.recoveries = p.recoveries
BY ZenonT(60)
DEF CancelRecovery, Page, Asked, NoRetry, SameTrack, SameWill, SameFades, SameNext

LEMMA OpenIs ==
    ASSUME NEW p \in Page, NEW song \in Songs, NEW position \in Positions
    PROVE  LET q == OpenAt(p, song, position)
           IN /\ q \in Page /\ q.pendingSeek = position
              /\ SameTrack(p, q) /\ SameWill(p, q) /\ SameFades(p, q) /\ SameNext(p, q)
              /\ q.time = p.time /\ q.retry = p.retry /\ q.sought = p.sought
              /\ Primary(q) = Opening(song) /\ Second(q) = Second(p)
<1> DEFINE f == [p.el EXCEPT ![p.primary] = Opening(song)]
           q == [p EXCEPT !.pendingSeek = position, !.el = f]
<1>1. /\ f \in [Elements -> Element] /\ f[p.primary] = Opening(song)
      /\ f[Secondary(p)] = p.el[Secondary(p)]
  BY Two, Parts, ElementTypes
<1>2. OpenAt(p, song, position) = q
  BY Parts DEF OpenAt, Page
<1> HIDE DEF f
<1>3. q \in Page
  BY <1>1, ZenonT(60) DEF Page
<1>4. /\ q.pendingSeek = position /\ q.el = f
      /\ SameTrack(p, q) /\ SameWill(p, q) /\ SameFades(p, q) /\ SameNext(p, q)
      /\ q.time = p.time /\ q.retry = p.retry /\ q.sought = p.sought
  BY DEF Page, SameTrack, SameWill, SameFades, SameNext
<1> HIDE DEF q
<1>5. Primary(q) = Opening(song) /\ Second(q) = Second(p)
  BY <1>1, <1>4 DEF Primary, Second, Secondary, SameFades
<1> QED
  BY <1>2, <1>3, <1>4, <1>5

LEMMA PauseIs ==
    ASSUME NEW p \in Page
    PROVE  LET q == ElementPause(p)
           IN /\ q \in Page
              /\ SameTrack(p, q) /\ SameTimes(p, q) /\ SameWill(p, q) /\ SameFades(p, q)
              /\ SameNext(p, q) /\ q.sleep = p.sleep
              /\ Primary(q) = [Primary(p) EXCEPT !.paused = TRUE] /\ Second(q) = Second(p)
<1> DEFINE x == [Primary(p) EXCEPT !.paused = TRUE]
           f == [p.el EXCEPT ![p.primary] = x]
           q == [p EXCEPT !.el = f, !.playing = FALSE]
<1>1. x \in Element
  BY Two, ElementParts, ElementTypes DEF Primary
<1>2. f \in [Elements -> Element] /\ f[p.primary] = x /\ f[Secondary(p)] = p.el[Secondary(p)]
  BY <1>1, Two, Parts
<1>3. ElementPause(p) = q
  BY Two, Parts DEF ElementPause, Page, Primary
<1> HIDE DEF f
<1>4. q \in Page
  BY <1>2, ZenonT(60) DEF Page
<1>5. /\ q.el = f /\ q.sleep = p.sleep
      /\ SameTrack(p, q) /\ SameTimes(p, q) /\ SameWill(p, q) /\ SameFades(p, q)
      /\ SameNext(p, q)
  BY DEF Page, SameTrack, SameTimes, SameWill, SameFades, SameNext
<1> HIDE DEF q
<1>6. Primary(q) = x /\ Second(q) = Second(p)
  BY <1>2, <1>5 DEF Primary, Second, Secondary, SameFades
<1> QED
  BY <1>3, <1>4, <1>5, <1>6

\* A play() that begins.
Begun(x) == [x EXCEPT !.paused = FALSE, !.at = IF x.at = End THEN 0 ELSE x.at]

LEMMA PlayIs ==
    ASSUME NEW p \in Page
    PROVE  LET q == ElementPlay(p)
               x == Primary(p)
               begins == x.paused /\ x.data \notin {"none", "failed"}
           IN /\ q \in Page
              /\ ~begins => q = p
              /\ begins => /\ SameTrack(p, q) /\ SameFades(p, q) /\ SameNext(p, q)
                           /\ q.engaged = p.engaged /\ q.stranded = p.stranded
                           /\ q.asking = p.asking /\ q.pendingSeek = p.pendingSeek
                           /\ q.sought = p.sought /\ ~q.held
                           /\ q.time = (IF x.at = End THEN 0 ELSE p.time)
                           /\ Primary(q) = Begun(x) /\ Second(q) = Second(p)
                           /\ x.data = "ready" => q.retry = NoRetry /\ ~q.error
                           /\ x.data # "ready" => q.retry = p.retry /\ q.error = p.error
<1> DEFINE x == Primary(p)
           begins == x.paused /\ x.data \notin {"none", "failed"}
           f == [p.el EXCEPT ![p.primary] = Begun(x)]
           now == IF x.at = End THEN 0 ELSE p.time
           a == [p EXCEPT !.el = f, !.playing = TRUE, !.time = now, !.held = FALSE]
           ready == [CancelRecovery(a) EXCEPT !.loading = FALSE, !.error = FALSE, !.skips = 0]
           waits == [a EXCEPT !.loading = TRUE, !.stall = a.engaged]
<1>1. Begun(x) \in Element
  <2>1. x \in Element /\ (IF x.at = End THEN 0 ELSE x.at) \in Positions
    BY Two, ElementParts, Bounds DEF Primary
  <2> QED
    BY <2>1, ElementTypes DEF Begun
<1>2. f \in [Elements -> Element] /\ f[p.primary] = Begun(x) /\ f[Secondary(p)] = p.el[Secondary(p)]
  BY <1>1, Two, Parts, SMTT(30)
<1>3. CASE ~begins
  BY <1>3, Two, ElementParts DEF ElementPlay, Primary
<1>4. CASE begins
  <2>1. /\ p.el[p.primary] \in Element /\ p.el \in [Elements -> Element] /\ p.primary \in Elements
    BY Two, ElementParts, Parts
  <2> DEFINE g == [p.el EXCEPT ![p.primary] = [x EXCEPT !.paused = FALSE]]
  <2>2. g \in [Elements -> Element] /\ g[p.primary] = [x EXCEPT !.paused = FALSE]
    BY <2>1, ElementTypes DEF Primary
  <2>3. [g EXCEPT ![p.primary].at = IF x.at = End THEN 0 ELSE x.at]
          = [p.el EXCEPT ![p.primary] =
                 [[x EXCEPT !.paused = FALSE] EXCEPT !.at = IF x.at = End THEN 0 ELSE x.at]]
    BY <2>1, <2>2
  <2>4. [[x EXCEPT !.paused = FALSE] EXCEPT !.at = IF x.at = End THEN 0 ELSE x.at] = Begun(x)
    BY <2>1 DEF Begun, Element, Primary
  <2>5. a = [p EXCEPT !.el[p.primary].paused = FALSE, !.playing = TRUE,
                      !.el[p.primary].at = IF x.at = End THEN 0 ELSE x.at,
                      !.time = IF x.at = End THEN 0 ELSE @,
                      !.held = FALSE]
    <3>1. [p EXCEPT !.el[p.primary].paused = FALSE] = [p EXCEPT !.el = g]
      BY <2>1 DEF Primary, Page
    <3>2. [[p EXCEPT !.el = g] EXCEPT !.playing = TRUE,
                !.el[p.primary].at = IF x.at = End THEN 0 ELSE x.at]
            = [p EXCEPT !.el = f, !.playing = TRUE]
      BY <2>3, <2>4, ZenonT(60) DEF Page
    <3>3. [p EXCEPT !.el[p.primary].paused = FALSE, !.playing = TRUE,
                      !.el[p.primary].at = IF x.at = End THEN 0 ELSE x.at]
           = [p EXCEPT !.el = f, !.playing = TRUE]
      BY <3>1, <3>2
    <3> QED
      BY <3>3 DEF Page
  <2>6. ElementPlay(p) = IF x.data = "ready" THEN ready ELSE waits
    <3> HIDE DEF a, f
    <3> QED
      BY <1>4, <2>5 DEF ElementPlay
  <2> HIDE DEF f
  <2>7. now \in Positions
    BY Parts, Bounds
  <2> HIDE DEF now
  <2>8. a \in Page
    BY <1>2, <2>7, ZenonT(60) DEF Page
  <2>9. /\ a.el = f /\ a.time = now /\ ~a.held /\ a.error = p.error
        /\ SameTrack(p, a) /\ SameFades(p, a) /\ SameNext(p, a)
        /\ a.engaged = p.engaged /\ a.stranded = p.stranded
        /\ a.asking = p.asking /\ a.pendingSeek = p.pendingSeek
        /\ a.sought = p.sought /\ a.retry = p.retry
    BY DEF Page, SameTrack, SameFades, SameNext
  <2> HIDE DEF a
  <2>10. Primary(a) = Begun(x) /\ Second(a) = Second(p)
    BY <1>2, <2>9 DEF Primary, Second, Secondary, SameFades
  <2>11. CASE x.data = "ready"
    <3> DEFINE c == CancelRecovery(a)
    <3>1. /\ c \in Page /\ c.retry = NoRetry
          /\ SameTrack(a, c) /\ SameWill(a, c) /\ SameFades(a, c) /\ SameNext(a, c)
          /\ c.time = a.time /\ c.pendingSeek = a.pendingSeek /\ c.sought = a.sought
          /\ c.el = a.el
      BY <2>8, CancelIs
    <3>2. ElementPlay(p) = [c EXCEPT !.loading = FALSE, !.error = FALSE, !.skips = 0]
      BY <2>6, <2>11
    <3> HIDE DEF c
    <3> DEFINE q == [c EXCEPT !.loading = FALSE, !.error = FALSE, !.skips = 0]
    <3>3. q \in Page
      BY <3>1, ZenonT(60) DEF Page
    <3>4. /\ q.retry = NoRetry /\ ~q.error /\ q.el = c.el /\ q.time = c.time /\ q.held = c.held
          /\ SameTrack(c, q) /\ SameFades(c, q) /\ SameNext(c, q)
          /\ q.engaged = c.engaged /\ q.stranded = c.stranded
          /\ q.asking = c.asking /\ q.pendingSeek = c.pendingSeek /\ q.sought = c.sought
      BY <3>1 DEF Page, SameTrack, SameFades, SameNext
    <3> HIDE DEF q
    <3>5. Primary(q) = Begun(x) /\ Second(q) = Second(p)
      BY <2>10, <3>1, <3>4 DEF Primary, Second, Secondary, SameFades
    <3>6. /\ SameTrack(p, q) /\ SameFades(p, q) /\ SameNext(p, q)
          /\ q.engaged = p.engaged /\ q.stranded = p.stranded
          /\ q.asking = p.asking /\ q.pendingSeek = p.pendingSeek
          /\ q.sought = p.sought /\ ~q.held /\ q.time = now
      BY <2>9, <3>1, <3>4 DEF SameTrack, SameFades, SameNext, SameWill
    <3> QED
      BY <1>4, <2>11, <3>2, <3>3, <3>4, <3>5, <3>6 DEF q, now
  <2>12. CASE x.data # "ready"
    <3> DEFINE q == [a EXCEPT !.loading = TRUE, !.stall = a.engaged]
    <3>1. ElementPlay(p) = q
      BY <2>6, <2>12
    <3>2. q \in Page
      BY <2>8, ZenonT(60) DEF Page
    <3>3. /\ q.retry = a.retry /\ q.error = a.error /\ q.el = a.el /\ q.time = a.time
          /\ q.held = a.held
          /\ SameTrack(a, q) /\ SameFades(a, q) /\ SameNext(a, q)
          /\ q.engaged = a.engaged /\ q.stranded = a.stranded
          /\ q.asking = a.asking /\ q.pendingSeek = a.pendingSeek /\ q.sought = a.sought
      BY <2>8 DEF Page, SameTrack, SameFades, SameNext
    <3> HIDE DEF q
    <3>4. Primary(q) = Begun(x) /\ Second(q) = Second(p)
      BY <2>10, <3>3 DEF Primary, Second, Secondary, SameFades
    <3>5. /\ SameTrack(p, q) /\ SameFades(p, q) /\ SameNext(p, q)
          /\ q.engaged = p.engaged /\ q.stranded = p.stranded
          /\ q.asking = p.asking /\ q.pendingSeek = p.pendingSeek
          /\ q.sought = p.sought /\ ~q.held /\ q.time = now
      BY <2>9, <3>3 DEF SameTrack, SameFades, SameNext
    <3> QED
      BY <1>4, <2>9, <2>12, <3>1, <3>2, <3>3, <3>4, <3>5 DEF now
  <2> QED
    BY <2>11, <2>12
<1> QED
  BY <1>3, <1>4

-----------------------------------------------------------------------------
(* What a step keeps when it leaves the first element alone *)

LEMMA PendingsKept ==
    ASSUME NEW p, NEW q, SameFades(p, q)
    PROVE  /\ ChangePending(q) <=> ChangePending(p)
           /\ SeekPending(q) <=> SeekPending(p)
           /\ PausePending(q) <=> PausePending(p)
BY DEF SameFades, ChangePending, SeekPending, PausePending

LEMMA CurrentKept ==
    ASSUME NEW p, NEW q, SameTrack(p, q)
    PROVE  Current(q) = Current(p) /\ (InPlace(p) => InPlace(q))
BY DEF SameTrack, Current, InPlace

LEMMA FirstKept ==
    ASSUME NEW p \in Page, NEW q \in Page, SameTrack(p, q), SameTimes(p, q), SameWill(p, q),
           SameFades(p, q), Primary(q) = Primary(p)
    PROVE  /\ Current(q) = Current(p) /\ (InPlace(p) => InPlace(q))
           /\ Ground(p) => Ground(q)
           /\ Within(p) => Within(q)
           /\ Retries(p) => Retries(q)
           /\ OnTrack(p) => OnTrack(q)
           /\ FirstHeld(p) /\ q.astray = p.astray => FirstHeld(q)
           /\ FailedWaits(p) => FailedWaits(q)
           /\ ReadyWaits(p) => ReadyWaits(q)
<1>1. Current(q) = Current(p) /\ (InPlace(p) => InPlace(q))
  BY CurrentKept
<1>2. /\ ChangePending(q) <=> ChangePending(p)
      /\ SeekPending(q) <=> SeekPending(p)
      /\ PausePending(q) <=> PausePending(p)
  BY PendingsKept
<1>3. Ground(p) => Ground(q)
  BY <1>2 DEF Ground, SameTimes
<1>4. (Within(p) => Within(q)) /\ (Retries(p) => Retries(q))
  BY DEF Within, Retries, SameTimes, SameFades
<1>5. OnTrack(p) => OnTrack(q)
  BY <1>1, <1>2 DEF OnTrack, SameTimes, SameWill, SameTrack
<1>6. FirstHeld(p) /\ q.astray = p.astray => FirstHeld(q)
  BY <1>2 DEF FirstHeld, SameWill
<1>7. FailedWaits(p) => FailedWaits(q)
  BY <1>1, <1>2 DEF FailedWaits, SameTimes, SameWill, SameFades
<1>8. ReadyWaits(p) => ReadyWaits(q)
  BY DEF ReadyWaits, SameWill
<1> QED
  BY <1>1, <1>3, <1>4, <1>5, <1>6, <1>7, <1>8

\* An element stopped at its top.
LEMMA StoppedIs ==
    ASSUME NEW x \in Element, NEW y, y = [x EXCEPT !.paused = TRUE, !.at = 0]
    PROVE  /\ y.src = x.src /\ y.data = x.data /\ y.paused /\ y.at = 0 /\ ~Runs(y)
           /\ Sourced(x) => Sourced(y)
           /\ Inside(y)
<1>1. y.src = x.src /\ y.data = x.data /\ y.paused /\ y.at = 0
  BY DEF Element
<1>2. x = Empty => y = Empty
  <2>1. /\ Empty \in [src : {NoSong}, paused : {TRUE}, at : {0}, data : {"none"}]
        /\ [Empty EXCEPT !.paused = TRUE, !.at = 0]
               \in [src : {NoSong}, paused : {TRUE}, at : {0}, data : {"none"}]
    BY DEF Empty
  <2> QED
    BY <2>1
<1> QED
  BY <1>1, <1>2, Bounds DEF Sourced, Inside, Runs

LEMMA EmptyIs ==
    /\ Empty.src = NoSong /\ Empty.paused /\ Empty.at = 0 /\ Empty.data = "none"
    /\ Sourced(Empty) /\ Inside(Empty) /\ ~Runs(Empty)
    /\ [Empty EXCEPT !.paused = TRUE] = Empty
<1>1. /\ Empty \in [src : {NoSong}, paused : {TRUE}, at : {0}, data : {"none"}]
      /\ [Empty EXCEPT !.paused = TRUE]
             \in [src : {NoSong}, paused : {TRUE}, at : {0}, data : {"none"}]
  BY DEF Empty
<1>2. [Empty EXCEPT !.paused = TRUE] = Empty
  BY <1>1
<1>3. /\ Empty.src = NoSong /\ Empty.paused /\ Empty.at = 0 /\ Empty.data = "none"
  BY DEF Empty
<1> QED
  BY <1>2, <1>3, Bounds DEF Sourced, Inside, Runs

LEMMA OpeningIs ==
    ASSUME NEW song \in Songs
    PROVE  /\ Opening(song).src = song /\ Opening(song).paused /\ Opening(song).at = 0
           /\ Opening(song).data = "opening"
           /\ Sourced(Opening(song)) /\ Inside(Opening(song)) /\ ~Runs(Opening(song))
BY Bounds, PlaybackAssumption DEF Opening, Sourced, Inside, Runs

LEMMA AbandonKeeps ==
    ASSUME NEW p \in Page, Firm(p)
    PROVE  LET q == AbandonCrossfade(p)
           IN /\ Firm(q)
              /\ Ramped(p) => Quiet(q)
              /\ Runs(Second(q)) => Runs(Second(p))
<1> DEFINE q == AbandonCrossfade(p)
<1>1. /\ q \in Page /\ q.ramp = "none"
      /\ SameTrack(p, q) /\ SameTimes(p, q) /\ SameWill(p, q) /\ SameFades(p, q)
      /\ q.preloadedFor = p.preloadedFor /\ q.astray = p.astray
      /\ Primary(q) = Primary(p)
      /\ p.ramp = "none" => q = p
      /\ p.ramp # "none" => Second(q) = [Second(p) EXCEPT !.paused = TRUE, !.at = 0]
  BY AbandonIs
<1> HIDE DEF q
<1>2. CASE p.ramp = "none"
  <2>1. q = p
    BY <1>1, <1>2
  <2>2. Ramped(p) => Quiet(p)
    BY <1>2 DEF Ramped, Quiet
  <2> QED
    BY <2>1, <2>2 DEF q
<1>3. CASE p.ramp # "none"
  <2>1. Second(p) \in Element
    BY Two, ElementParts DEF Second
  <2>2. /\ Second(q).src = Second(p).src /\ Second(q).data = Second(p).data
        /\ ~Runs(Second(q)) /\ Inside(Second(q))
        /\ Sourced(Second(p)) => Sourced(Second(q))
    BY <1>1, <1>3, <2>1, StoppedIs
  <2>3. Sources(q) /\ Preloaded(q)
    BY <1>1, <2>2 DEF Firm, Sources, Preloaded
  <2>4. Within(q) /\ Retries(q)
    BY <1>1, FirstKept DEF Firm
  <2>5. Firm(q)
    BY <1>1, <2>3, <2>4 DEF Firm
  <2> QED
    BY <2>2, <2>5 DEF Quiet, q
<1> QED
  BY <1>2, <1>3

LEMMA InvalidateKeeps ==
    ASSUME NEW p \in Page, Sources(p), Within(p), Retries(p),
           Runs(Second(p)) /\ ~p.astray => p.preloadedFor # NoSong \/ p.ramp # "none"
    PROVE  LET q == InvalidatePreload(p) IN Firm(q) /\ Quiet(q)
<1> DEFINE q == InvalidatePreload(p)
<1>1. /\ q \in Page /\ q.ramp = "none" /\ q.preloadedFor = NoSong
      /\ SameTrack(p, q) /\ SameTimes(p, q) /\ SameWill(p, q) /\ SameFades(p, q)
      /\ q.astray = p.astray
      /\ Primary(q) = Primary(p)
      /\ p.preloadedFor # NoSong => Second(q) = Empty
      /\ p.preloadedFor = NoSong /\ p.ramp = "none" => Second(q) = Second(p)
      /\ p.preloadedFor = NoSong /\ p.ramp # "none"
             => Second(q) = [Second(p) EXCEPT !.paused = TRUE, !.at = 0]
  BY InvalidateIs
<1> HIDE DEF q
<1>2. Within(q) /\ Retries(q)
  BY <1>1, FirstKept
<1>3. Sources(q) /\ Quiet(q)
  <2>1. CASE p.preloadedFor # NoSong
    BY <1>1, <2>1, EmptyIs DEF Sources, Quiet
  <2>2. CASE p.preloadedFor = NoSong /\ p.ramp = "none"
    BY <1>1, <2>2 DEF Sources, Quiet
  <2>3. CASE p.preloadedFor = NoSong /\ p.ramp # "none"
    <3>1. Second(p) \in Element
      BY Two, ElementParts DEF Second
    <3>2. /\ Second(q).data = Second(p).data
          /\ ~Runs(Second(q)) /\ Inside(Second(q))
          /\ Sourced(Second(p)) => Sourced(Second(q))
      BY <1>1, <2>3, <3>1, StoppedIs
    <3> QED
      BY <1>1, <3>2 DEF Sources, Quiet
  <2> QED
    BY <2>1, <2>2, <2>3
<1>4. Preloaded(q)
  BY <1>1 DEF Preloaded
<1> QED
  BY <1>1, <1>2, <1>3, <1>4 DEF Firm, q

-----------------------------------------------------------------------------
(* A track is loaded *)

\* What loading forgets of the track before.
Forgotten(p) == CancelRecovery(EndCrossfade(p))
Reset(p, resume) ==
    LET a == [Forgotten(p) EXCEPT
                 !.pendingSeek = IF resume THEN @ ELSE Nowhere,
                 !.stranded = FALSE, !.recoveries = 0, !.error = FALSE,
                 !.held = FALSE, !.sought = FALSE]
    IN [a EXCEPT !.time = IF a.pendingSeek = Nowhere THEN 0 ELSE a.pendingSeek]

LEMMA ResetIs ==
    ASSUME NEW p \in Page, NEW resume \in BOOLEAN
    PROVE  LET b == Reset(p, resume)
           IN /\ b \in Page /\ SameTrack(p, b) /\ SameFades(p, b) /\ b.el = p.el
              /\ b.engaged = p.engaged /\ b.asking = p.asking
              /\ b.preloadedFor = p.preloadedFor /\ b.astray = p.astray
              /\ b.wrapped = p.wrapped /\ b.ramp = "none"
              /\ ~b.error /\ ~b.stranded /\ ~b.held /\ ~b.sought /\ b.retry = NoRetry
              /\ b.pendingSeek = (IF resume THEN p.pendingSeek ELSE Nowhere)
              /\ b.time = (IF b.pendingSeek = Nowhere THEN 0 ELSE b.pendingSeek)
<1> DEFINE e == EndCrossfade(p)
           c == CancelRecovery(e)
<1>1. /\ e \in Page /\ SameTrack(p, e) /\ SameWill(p, e) /\ SameFades(p, e)
      /\ e.el = p.el /\ e.preloadedFor = p.preloadedFor /\ e.astray = p.astray
      /\ e.wrapped = p.wrapped /\ e.ramp = "none" /\ e.pendingSeek = p.pendingSeek
  BY ZenonT(60) DEF EndCrossfade, Page, SameTrack, SameWill, SameFades
<1> HIDE DEF e
<1>2. /\ c \in Page /\ c.retry = NoRetry
      /\ SameTrack(e, c) /\ SameWill(e, c) /\ SameFades(e, c) /\ SameNext(e, c)
      /\ c.pendingSeek = e.pendingSeek /\ c.el = e.el
  BY <1>1, CancelIs
<1>3. Forgotten(p) = c
  BY DEF Forgotten, e, c
<1> HIDE DEF c
<1> DEFINE at == IF resume THEN c.pendingSeek ELSE Nowhere
           a == [c EXCEPT !.pendingSeek = at, !.stranded = FALSE, !.recoveries = 0,
                          !.error = FALSE, !.held = FALSE, !.sought = FALSE]
           now == IF a.pendingSeek = Nowhere THEN 0 ELSE a.pendingSeek
           b == [a EXCEPT !.time = now]
<1>4. Reset(p, resume) = b
  BY <1>3 DEF Reset
<1>5. at \in {Nowhere} \cup Positions
  BY <1>2, Parts
<1> HIDE DEF at
<1>6. a \in Page
  <2> DEFINE d == [c EXCEPT !.pendingSeek = at, !.stranded = FALSE, !.recoveries = 0]
  <2>1. d \in Page
    BY <1>2, <1>5, ZenonT(60) DEF Page
  <2>2. a = [d EXCEPT !.error = FALSE, !.held = FALSE, !.sought = FALSE]
    OBVIOUS
  <2> HIDE DEF d
  <2>3. [d EXCEPT !.error = FALSE, !.held = FALSE, !.sought = FALSE] \in Page
    BY <2>1, ZenonT(60) DEF Page
  <2> QED
    BY <2>2, <2>3
<1>7. /\ SameTrack(c, a) /\ SameFades(c, a) /\ SameNext(c, a) /\ a.el = c.el
      /\ a.engaged = c.engaged /\ a.asking = c.asking
      /\ ~a.error /\ ~a.stranded /\ ~a.held /\ ~a.sought /\ a.retry = c.retry
      /\ a.pendingSeek = at
  BY <1>2 DEF Page, SameTrack, SameFades, SameNext
<1> HIDE DEF a
<1>8. now \in Positions
  BY <1>6, Parts, Bounds
<1> HIDE DEF now
<1>9. /\ b \in Page /\ SameTrack(a, b) /\ SameFades(a, b) /\ SameNext(a, b) /\ b.el = a.el
      /\ b.engaged = a.engaged /\ b.asking = a.asking
      /\ ~b.error /\ ~b.stranded /\ ~b.held /\ ~b.sought /\ b.retry = a.retry
      /\ b.pendingSeek = a.pendingSeek /\ b.time = now
  BY <1>6, <1>7, <1>8, ZenonT(60) DEF Page, SameTrack, SameFades, SameNext
<1> HIDE DEF b
<1>10. b.pendingSeek = (IF resume THEN p.pendingSeek ELSE Nowhere)
  BY <1>1, <1>2, <1>7, <1>9 DEF at
<1>11. b.time = (IF b.pendingSeek = Nowhere THEN 0 ELSE b.pendingSeek)
  BY <1>9 DEF now
<1>12. /\ SameTrack(p, b) /\ SameFades(p, b) /\ b.el = p.el
       /\ b.engaged = p.engaged /\ b.asking = p.asking
       /\ b.preloadedFor = p.preloadedFor /\ b.astray = p.astray
       /\ b.wrapped = p.wrapped /\ b.ramp = "none" /\ b.retry = NoRetry
  BY <1>1, <1>2, <1>7, <1>9 DEF SameTrack, SameWill, SameFades, SameNext
<1> QED
  BY <1>4, <1>9, <1>10, <1>11, <1>12

LEMMA SwappedIs ==
    ASSUME NEW p \in Page
    PROVE  LET q == Swapped(p)
           IN /\ q \in Page /\ SameTrack(p, q) /\ SameWill(p, q) /\ SameNext(p, q)
              /\ q.fades = p.fades /\ q.time = p.time /\ q.pendingSeek = p.pendingSeek
              /\ q.retry = p.retry
              /\ q.sought = (p.pendingSeek # Nowhere /\ Second(p).data = "ready")
              /\ Primary(q) = Second(p) /\ Second(q) = Empty
<1> DEFINE f == [p.el EXCEPT ![p.primary] = Empty]
           passed == p.pendingSeek # Nowhere /\ Second(p).data = "ready"
           q == [p EXCEPT !.primary = Secondary(p), !.el = f, !.sought = passed]
<1>1. /\ f \in [Elements -> Element] /\ f[p.primary] = Empty
      /\ f[Secondary(p)] = p.el[Secondary(p)]
  BY Two, Parts, ElementTypes
<1>2. Swapped(p) = q
  BY DEF Swapped, Second
<1> HIDE DEF f
<1>3. passed \in BOOLEAN
  OBVIOUS
<1> HIDE DEF passed
<1>4. q \in Page
  BY <1>1, <1>3, Two, ZenonT(60) DEF Page
<1>5. /\ SameTrack(p, q) /\ SameWill(p, q) /\ SameNext(p, q)
      /\ q.fades = p.fades /\ q.time = p.time /\ q.pendingSeek = p.pendingSeek
      /\ q.retry = p.retry /\ q.sought = passed /\ q.el = f /\ q.primary = Secondary(p)
  BY DEF Page, SameTrack, SameWill, SameNext
<1> HIDE DEF q
<1>6. Secondary(q) = p.primary
  BY <1>5, Two DEF Secondary, Partner, Elements
<1>7. Primary(q) = Second(p) /\ Second(q) = Empty
  BY <1>1, <1>5, <1>6 DEF Primary, Second
<1> QED
  BY <1>2, <1>4, <1>5, <1>7 DEF passed

\* A request made.
Requested(p) == [p EXCEPT !.loading = TRUE, !.el[p.primary] = Opening(Current(p))]

LEMMA RequestedIs ==
    ASSUME NEW p \in Page, Current(p) \in Songs
    PROVE  LET q == Requested(p)
           IN /\ q \in Page /\ SameTrack(p, q) /\ SameTimes(p, q) /\ SameWill(p, q)
              /\ SameFades(p, q) /\ SameNext(p, q)
              /\ Primary(q) = Opening(Current(p)) /\ Second(q) = Second(p)
<1> DEFINE f == [p.el EXCEPT ![p.primary] = Opening(Current(p))]
           q == [p EXCEPT !.loading = TRUE, !.el = f]
<1>1. /\ f \in [Elements -> Element] /\ f[p.primary] = Opening(Current(p))
      /\ f[Secondary(p)] = p.el[Secondary(p)]
  BY Two, Parts, ElementTypes
<1>2. Requested(p) = q
  BY DEF Requested
<1> HIDE DEF f
<1>3. q \in Page
  BY <1>1, ZenonT(60) DEF Page
<1>4. /\ SameTrack(p, q) /\ SameTimes(p, q) /\ SameWill(p, q) /\ SameFades(p, q)
      /\ SameNext(p, q) /\ q.el = f
  BY DEF Page, SameTrack, SameTimes, SameWill, SameFades, SameNext
<1> HIDE DEF q
<1>5. Primary(q) = Opening(Current(p)) /\ Second(q) = Second(p)
  BY <1>1, <1>4 DEF Primary, Second, Secondary, SameFades
<1> QED
  BY <1>2, <1>3, <1>4, <1>5

\* A page a track may be loaded on: where the second element runs, it is
\* because it is the one that is buffered, and the player plays.
Loadable(p) ==
    /\ Firm(p) /\ InPlace(p) /\ p.queue # <<>>
    /\ Runs(Second(p)) /\ ~p.astray => p.engaged /\ p.preloadedFor # NoSong

\* What loading a track leaves.
Loaded(p, q) ==
    /\ SameTrack(p, q) /\ q.fades = p.fades /\ q.engaged = p.engaged /\ q.astray = p.astray
    /\ Primary(q).src = Current(p) /\ Primary(q).data \in {"opening", "ready"}
    /\ q.retry = NoRetry /\ ~q.stranded /\ Quiet(q)

LEMMA LoadIs ==
    ASSUME NEW p \in Page, Loadable(p), NEW resume \in BOOLEAN
    PROVE  LET q == Load(p, resume) IN Loaded(p, q) /\ Sound(q)
<1> DEFINE b == Reset(p, resume)
           r == IF Buffered(b) THEN Swapped(b) ELSE Requested(b)
           q == InvalidatePreload(r)
<1>1. Load(p, resume) = q
  BY DEF Load, Reset, Forgotten, Requested
<1>2. /\ b \in Page /\ SameTrack(p, b) /\ SameFades(p, b) /\ b.el = p.el
      /\ b.engaged = p.engaged /\ b.asking = p.asking
      /\ b.preloadedFor = p.preloadedFor /\ b.astray = p.astray /\ b.ramp = "none"
      /\ ~b.error /\ ~b.stranded /\ ~b.held /\ ~b.sought /\ b.retry = NoRetry
      /\ b.pendingSeek = (IF resume THEN p.pendingSeek ELSE Nowhere)
      /\ b.time = (IF b.pendingSeek = Nowhere THEN 0 ELSE b.pendingSeek)
  BY ResetIs
<1> HIDE DEF b
<1>3. Current(b) = Current(p) /\ Current(p) \in Songs /\ Current(p) # NoSong /\ InPlace(b)
  BY <1>2, CurrentKept, CurrentIs DEF Loadable
<1>4. Primary(b) = Primary(p) /\ Second(b) = Second(p)
  BY <1>2 DEF Primary, Second, Secondary, SameFades
<1>5. Within(b) /\ Sources(b)
  <2>1. b.time <= Last /\ b.pendingSeek <= Last
    BY <1>2, Bounds DEF Loadable, Firm, Within
  <2> QED
    BY <1>2, <1>4, <2>1 DEF Loadable, Firm, Within, Sources, SameFades
<1>6. /\ r \in Page /\ SameTrack(b, r) /\ SameWill(b, r) /\ SameNext(b, r)
      /\ r.fades = b.fades /\ r.time = b.time /\ r.pendingSeek = b.pendingSeek
      /\ r.retry = NoRetry
      /\ Primary(r).src = Current(p) /\ Primary(r).data \in {"opening", "ready"}
      /\ Sources(r) /\ Ground(r)
      /\ Runs(Second(r)) => (Runs(Second(p)) /\ r.preloadedFor # NoSong) \/ r.astray
      /\ Runs(Primary(r)) => Runs(Second(p))
  <2>1. CASE Buffered(b)
    <3>1. /\ r \in Page /\ SameTrack(b, r) /\ SameWill(b, r) /\ SameNext(b, r)
          /\ r.fades = b.fades /\ r.time = b.time /\ r.pendingSeek = b.pendingSeek
          /\ r.retry = b.retry
          /\ r.sought = (b.pendingSeek # Nowhere /\ Second(b).data = "ready")
          /\ Primary(r) = Second(b) /\ Second(r) = Empty
      BY <1>2, <2>1, SwappedIs
    <3>2. /\ Second(p).data \notin {"none", "failed"} /\ Second(p).data # "stalled"
          /\ Second(p).src = Current(p)
      BY <1>2, <1>3, <1>4, <2>1
      DEF Buffered, Second, Loadable, Firm, Sources, Preloaded
    <3>3. Second(p).data \in {"opening", "ready"} /\ Second(p).at \in Positions
      BY <3>2, Two, ElementParts DEF Second
    <3>4. Sources(r)
      BY <1>4, <1>5, <3>1, EmptyIs DEF Sources
    <3>5. Ground(r)
      BY <1>2, <1>4, <3>1, <3>3, Bounds DEF Ground
    <3> QED
      BY <1>2, <1>4, <3>1, <3>2, <3>3, <3>4, <3>5, EmptyIs
  <2>2. CASE ~Buffered(b)
    <3>1. /\ r \in Page /\ SameTrack(b, r) /\ SameTimes(b, r) /\ SameWill(b, r)
          /\ SameFades(b, r) /\ SameNext(b, r)
          /\ Primary(r) = Opening(Current(b)) /\ Second(r) = Second(b)
      BY <1>2, <1>3, <2>2, RequestedIs
    <3>2. /\ Primary(r).src = Current(p) /\ Primary(r).data = "opening"
          /\ Primary(r).at = 0 /\ Sourced(Primary(r)) /\ Inside(Primary(r))
          /\ ~Runs(Primary(r))
      BY <1>3, <3>1, OpeningIs
    <3>3. Sources(r)
      BY <1>5, <3>1, <3>2 DEF Sources
    <3>4. Ground(r)
      BY <1>2, <3>1, <3>2, Bounds DEF Ground, SameTimes
    <3>5. Runs(Second(r)) => (Runs(Second(p)) /\ r.preloadedFor # NoSong) \/ r.astray
      BY <1>2, <1>4, <3>1 DEF Loadable, SameNext
    <3> QED
      BY <1>2, <3>1, <3>2, <3>3, <3>4, <3>5 DEF SameTimes, SameFades
  <2> QED
    BY <2>1, <2>2
<1> HIDE DEF r
<1>7. Within(r) /\ Retries(r)
  BY <1>5, <1>6 DEF Within, Retries
<1>8. Firm(q) /\ Quiet(q)
  BY <1>6, <1>7, InvalidateKeeps
<1>9. /\ q \in Page
      /\ SameTrack(r, q) /\ SameTimes(r, q) /\ SameWill(r, q) /\ SameFades(r, q)
      /\ q.astray = r.astray /\ Primary(q) = Primary(r)
  BY <1>6, InvalidateIs
<1> HIDE DEF q
<1>10. Current(q) = Current(r) /\ (InPlace(r) => InPlace(q)) /\ (Ground(r) => Ground(q))
  BY <1>6, <1>9, FirstKept
<1>11. Current(r) = Current(p) /\ InPlace(r)
  BY <1>3, <1>6, CurrentKept
<1>12. Loaded(p, q)
  BY <1>2, <1>6, <1>8, <1>9
  DEF Loaded, SameTrack, SameFades, SameWill, SameTimes, SameNext
<1>13. q.queue # <<>>
  BY <1>12 DEF Loaded, Loadable, SameTrack
<1>14. Runs(Primary(q)) /\ ~q.astray => q.engaged
  BY <1>6, <1>9, <1>12 DEF Loaded, Loadable
<1>15. OnTrack(q) /\ SecondHeld(q) /\ FirstHeld(q) /\ FailedWaits(q)
  BY <1>3, <1>8, <1>10, <1>11, <1>12, <1>13, <1>14
  DEF OnTrack, SecondHeld, FirstHeld, FailedWaits, Quiet, Loaded
<1> QED
  BY <1>1, <1>6, <1>8, <1>10, <1>11, <1>12, <1>15 DEF Sound, Steady

-----------------------------------------------------------------------------
(* play() *)

LEMMA SoundParts ==
    ASSUME NEW p, Sound(p)
    PROVE  /\ p \in Page /\ Firm(p) /\ Sources(p) /\ Within(p) /\ Retries(p) /\ Preloaded(p)
           /\ Ground(p) /\ InPlace(p) /\ OnTrack(p) /\ SecondHeld(p) /\ FirstHeld(p)
           /\ FailedWaits(p)
BY DEF Sound, Steady, Firm

LEMMA BegunIs ==
    ASSUME NEW x \in Element
    PROVE  LET y == Begun(x)
           IN /\ y.src = x.src /\ y.data = x.data /\ ~y.paused
              /\ y.at = (IF x.at = End THEN 0 ELSE x.at) /\ y.at <= Last /\ y.at # End
              /\ x.data # "none" /\ Sourced(x) => Sourced(y)
<1>1. /\ Begun(x).src = x.src /\ Begun(x).data = x.data /\ ~Begun(x).paused
      /\ Begun(x).at = (IF x.at = End THEN 0 ELSE x.at)
  BY DEF Begun, Element
<1>2. x.at \in 0..(Last + 1)
  BY Bounds DEF Element
<1> QED
  BY <1>1, <1>2, Bounds DEF Sourced, Empty

LEMMA ElementPlayKeeps ==
    ASSUME NEW p, Sound(p), p.engaged
    PROVE  LET q == ElementPlay(p) IN Good(q) /\ q.engaged
<1> DEFINE q == ElementPlay(p)
           x == Primary(p)
           begins == x.paused /\ x.data \notin {"none", "failed"}
<1>1. /\ p \in Page /\ Firm(p) /\ Sources(p) /\ Within(p) /\ Retries(p) /\ Preloaded(p)
      /\ Ground(p) /\ InPlace(p) /\ OnTrack(p) /\ SecondHeld(p) /\ FirstHeld(p)
      /\ FailedWaits(p)
  BY SoundParts
<1>2. CASE ~begins
  <2>1. q = p
    BY <1>1, <1>2, PlayIs
  <2>2. ReadyWaits(p)
    BY <1>2 DEF ReadyWaits
  <2> QED
    BY <2>1, <2>2 DEF Good
<1>3. CASE begins
  <2>1. /\ q \in Page /\ SameTrack(p, q) /\ SameFades(p, q) /\ SameNext(p, q)
        /\ q.engaged = p.engaged /\ q.stranded = p.stranded
        /\ q.asking = p.asking /\ q.pendingSeek = p.pendingSeek
        /\ q.sought = p.sought /\ ~q.held
        /\ q.time = (IF x.at = End THEN 0 ELSE p.time)
        /\ Primary(q) = Begun(x) /\ Second(q) = Second(p)
        /\ x.data = "ready" => q.retry = NoRetry /\ ~q.error
        /\ x.data # "ready" => q.retry = p.retry /\ q.error = p.error
    BY <1>1, <1>3, PlayIs
  <2> HIDE DEF q
  <2>2. x \in Element
    BY <1>1, Two, ElementParts DEF Primary
  <2>3. /\ Begun(x).src = x.src /\ Begun(x).data = x.data /\ ~Begun(x).paused
        /\ Begun(x).at = (IF x.at = End THEN 0 ELSE x.at)
        /\ Begun(x).at <= Last /\ Begun(x).at # End
        /\ x.data # "none" /\ Sourced(x) => Sourced(Begun(x))
    BY <2>2, BegunIs
  <2>4. Current(q) = Current(p) /\ InPlace(q)
    BY <1>1, <2>1, CurrentKept
  <2>5. /\ ChangePending(q) <=> ChangePending(p)
        /\ SeekPending(q) <=> SeekPending(p)
        /\ PausePending(q) <=> PausePending(p)
    BY <2>1, PendingsKept
  <2>6. x.at = End => x.data = "ready"
    BY <1>1, <1>3 DEF Sources, Inside
  <2>7. Sources(q)
    BY <1>1, <1>3, <2>1, <2>3 DEF Sources, Inside
  <2>8. Within(q)
    BY <1>1, <2>1, Bounds DEF Within, SameFades
  <2>9. Retries(q) /\ Preloaded(q)
    BY <1>1, <2>1 DEF Retries, Preloaded, SameNext
  <2>10. Ground(q)
    <3>1. CASE x.data = "ready"
      BY <1>1, <2>1, <2>3, <2>5, <3>1, Bounds DEF Ground
    <3>2. CASE x.data # "ready"
      BY <1>1, <2>1, <2>3, <2>5, <2>6, <3>2 DEF Ground
    <3> QED
      BY <3>1, <3>2
  <2>11. OnTrack(q)
    BY <1>1, <2>1, <2>3, <2>4, <2>5 DEF OnTrack, SameTrack
  <2>12. SecondHeld(q)
    BY <1>1, <2>1 DEF SecondHeld, SameNext, SameTrack
  <2>13. FirstHeld(q) /\ FailedWaits(q) /\ ReadyWaits(q)
    BY <1>3, <2>1, <2>3 DEF FirstHeld, FailedWaits, ReadyWaits
  <2> QED
    BY <2>1, <2>4, <2>7, <2>8, <2>9, <2>10, <2>11, <2>12, <2>13
    DEF Good, Sound, Steady, Firm, q
<1> QED
  BY <1>2, <1>3

\* The press that starts it.
Engage(p) == [p EXCEPT !.engaged = TRUE]

LEMMA EngageIs ==
    ASSUME NEW p \in Page
    PROVE  LET q == Engage(p)
           IN /\ q \in Page /\ SameTrack(p, q) /\ SameTimes(p, q) /\ SameFades(p, q)
              /\ SameNext(p, q) /\ q.el = p.el /\ q.engaged /\ q.error = p.error
              /\ q.stranded = p.stranded /\ q.held = p.held /\ q.asking = p.asking
              /\ Primary(q) = Primary(p) /\ Second(q) = Second(p)
BY ZenonT(60)
DEF Engage, Page, SameTrack, SameTimes, SameFades, SameNext, Primary, Second, Secondary

\* Playing again what was given up on.
Unstrand(p) == [p EXCEPT !.stranded = FALSE, !.recoveries = 0, !.error = FALSE, !.loading = TRUE]

LEMMA UnstrandIs ==
    ASSUME NEW p \in Page
    PROVE  LET q == Unstrand(p)
           IN /\ q \in Page /\ SameTrack(p, q) /\ SameTimes(p, q) /\ SameFades(p, q)
              /\ SameNext(p, q) /\ q.el = p.el /\ q.engaged = p.engaged
BY ZenonT(60) DEF Unstrand, Page, SameTrack, SameTimes, SameFades, SameNext

\* A request for the current track, or one a change is on the way from.
LEMMA OpenKeeps ==
    ASSUME NEW p \in Page, NEW song \in Songs, NEW position \in Positions,
           Firm(p), InPlace(p), OnTrack(p), SecondHeld(p), p.queue # <<>>,
           position <= Last,
           song = Current(p) \/ ChangePending(p),
           ~p.sought => p.time = position /\ (p.retry # NoRetry => p.retry.at = p.time)
    PROVE  LET q == OpenAt(p, song, position) IN Sound(q) /\ q.engaged = p.engaged
<1> DEFINE q == OpenAt(p, song, position)
<1>1. /\ q \in Page /\ q.pendingSeek = position
      /\ SameTrack(p, q) /\ SameWill(p, q) /\ SameFades(p, q) /\ SameNext(p, q)
      /\ q.time = p.time /\ q.retry = p.retry /\ q.sought = p.sought
      /\ Primary(q) = Opening(song) /\ Second(q) = Second(p)
  BY OpenIs
<1> HIDE DEF q
<1>2. /\ Primary(q).src = song /\ Primary(q).at = 0 /\ Primary(q).data = "opening"
      /\ Sourced(Primary(q)) /\ Inside(Primary(q)) /\ ~Runs(Primary(q)) /\ song # NoSong
  BY <1>1, OpeningIs, PlaybackAssumption
<1>3. Current(q) = Current(p) /\ InPlace(q)
  BY <1>1, CurrentKept
<1>4. /\ ChangePending(q) <=> ChangePending(p)
      /\ SeekPending(q) <=> SeekPending(p)
  BY <1>1, PendingsKept
<1>5. Firm(q)
  BY <1>1, <1>2 DEF Firm, Sources, Within, Retries, Preloaded, SameFades, SameNext
<1>6. Ground(q)
  BY <1>1, <1>2, Bounds DEF Ground
<1>7. OnTrack(q)
  BY <1>1, <1>2, <1>3, <1>4 DEF OnTrack, SameTrack, SameWill
<1>8. SecondHeld(q)
  BY <1>1 DEF SecondHeld, SameNext, SameWill, SameTrack
<1>9. FirstHeld(q) /\ FailedWaits(q)
  BY <1>2 DEF FirstHeld, FailedWaits
<1> QED
  BY <1>1, <1>3, <1>5, <1>6, <1>7, <1>8, <1>9 DEF Sound, Steady, SameWill, q

LEMMA PlayKeeps ==
    ASSUME NEW p, Sound(p)
    PROVE  Good(Play(p))
<1> DEFINE a == Engage(p)
           b == IF Primary(a).src = NoSong THEN Load(a, TRUE)
                ELSE IF ~a.stranded THEN a
                ELSE OpenAt(Unstrand(a), Current(a), a.time)
<1>1. /\ p \in Page /\ Firm(p) /\ Sources(p) /\ Within(p) /\ Retries(p) /\ Preloaded(p)
      /\ Ground(p) /\ InPlace(p) /\ OnTrack(p) /\ SecondHeld(p) /\ FirstHeld(p)
      /\ FailedWaits(p)
  BY SoundParts
<1>2. Play(p) = IF Current(p) = NoSong THEN p ELSE ElementPlay(b)
  BY DEF Play, Engage, Unstrand
<1>3. CASE Current(p) = NoSong
  <2>1. p.queue = <<>>
    BY <1>1, <1>3, CurrentIs
  <2>2. ReadyWaits(p)
    BY <1>1, <2>1 DEF OnTrack, ReadyWaits
  <2> QED
    BY <1>2, <1>3, <2>2 DEF Good
<1>4. CASE Current(p) # NoSong
  <2>1. /\ a \in Page /\ SameTrack(p, a) /\ SameTimes(p, a) /\ SameFades(p, a)
        /\ SameNext(p, a) /\ a.engaged /\ a.error = p.error
        /\ a.stranded = p.stranded /\ a.held = p.held /\ a.asking = p.asking
        /\ Primary(a) = Primary(p) /\ Second(a) = Second(p)
    BY <1>1, EngageIs
  <2> HIDE DEF a
  <2>2. Current(a) = Current(p) /\ InPlace(a) /\ a.queue # <<>> /\ Current(a) \in Songs
    BY <1>1, <1>4, <2>1, CurrentKept, CurrentIs DEF SameTrack
  <2>3. /\ ChangePending(a) <=> ChangePending(p)
        /\ SeekPending(a) <=> SeekPending(p)
    BY <2>1, PendingsKept
  <2>4. Firm(a) /\ Ground(a)
    <3>1. Sources(a) /\ Preloaded(a)
      BY <1>1, <2>1 DEF Sources, Preloaded, SameNext
    <3>2. Within(a) /\ Retries(a)
      BY <1>1, <2>1 DEF Within, Retries, SameTimes, SameFades
    <3>3. Ground(a)
      BY <1>1, <2>1, <2>3 DEF Ground, SameTimes
    <3> QED
      BY <2>1, <3>1, <3>2, <3>3 DEF Firm
  <2>5. SecondHeld(a)
    BY <1>1, <2>1 DEF SecondHeld, SameNext, SameTrack
  <2>6. Sound(b) /\ b.engaged
    <3>1. CASE Primary(a).src = NoSong
      <4>1. Loadable(a)
        BY <2>1, <2>2, <2>4, <2>5 DEF Loadable, SecondHeld
      <4> QED
        BY <2>1, <3>1, <4>1, LoadIs DEF Loaded
    <3>2. CASE Primary(a).src # NoSong
      <4>1. OnTrack(a)
        BY <1>1, <2>1, <2>2, <2>3, <3>2 DEF OnTrack, SameTimes
      <4>2. CASE ~a.stranded
        <5>1. FirstHeld(a) /\ FailedWaits(a)
          BY <1>1, <2>1, <2>2, <2>3, <4>2 DEF FirstHeld, FailedWaits, SameTimes, SameFades
        <5>2. b = a
          BY <3>2, <4>2
        <5>3. Sound(a)
          BY <2>2, <2>4, <2>5, <4>1, <5>1 DEF Sound, Steady
        <5> QED
          BY <2>1, <5>2, <5>3
      <4>3. CASE a.stranded
        <5> DEFINE u == Unstrand(a)
        <5>1. /\ u \in Page /\ SameTrack(a, u) /\ SameTimes(a, u) /\ SameFades(a, u)
              /\ SameNext(a, u) /\ u.el = a.el /\ u.engaged = a.engaged
          BY <2>1, UnstrandIs
        <5>2. b = OpenAt(u, Current(a), a.time)
          BY <3>2, <4>3
        <5> HIDE DEF u
        <5>3. Primary(u) = Primary(a) /\ Second(u) = Second(a)
          BY <5>1 DEF Primary, Second, Secondary, SameFades
        <5>4. Current(u) = Current(a) /\ InPlace(u) /\ u.queue # <<>>
          BY <2>2, <5>1, CurrentKept DEF SameTrack
        <5>5. ChangePending(u) <=> ChangePending(a)
          BY <5>1, PendingsKept
        <5>6. Firm(u)
          BY <2>4, <5>1, <5>3
          DEF Firm, Sources, Within, Retries, Preloaded, SameTimes, SameFades, SameNext
        <5>7. OnTrack(u) /\ SecondHeld(u)
          BY <2>1, <2>5, <4>1, <5>1, <5>3, <5>4, <5>5
          DEF OnTrack, SecondHeld, SameTimes, SameNext, SameTrack
        <5>8. a.time \in Positions /\ a.time <= Last
          BY <2>1, <2>4, Parts DEF Firm, Within
        <5>9. ~u.sought => u.time = a.time /\ (u.retry # NoRetry => u.retry.at = u.time)
          BY <2>4, <5>1 DEF Ground, SameTimes
        <5>10. /\ Sound(OpenAt(u, Current(a), a.time))
               /\ OpenAt(u, Current(a), a.time).engaged = u.engaged
          <6> HIDE DEF b
          <6> QED
            BY <2>2, <5>1, <5>4, <5>6, <5>7, <5>8, <5>9, OpenKeeps
        <5> HIDE DEF b
        <5> QED
          BY <2>1, <5>1, <5>2, <5>10
      <4> QED
        BY <4>2, <4>3
    <3> QED
      BY <3>1, <3>2
  <2> HIDE DEF b
  <2> QED
    BY <1>2, <1>4, <2>6, ElementPlayKeeps
<1> QED
  BY <1>3, <1>4

LEMMA LoadCurrentKeeps ==
    ASSUME NEW p \in Page, Loadable(p), NEW autoplay \in BOOLEAN, autoplay \/ ~p.engaged
    PROVE  Good(LoadCurrent(p, autoplay))
<1>1. Loaded(p, Load(p, FALSE)) /\ Sound(Load(p, FALSE))
  BY LoadIs
<1>2. Current(p) # NoSong
  BY CurrentIs DEF Loadable
<1>3. CASE autoplay
  BY <1>1, <1>2, <1>3, PlayKeeps DEF LoadCurrent
<1>4. CASE ~autoplay
  BY <1>1, <1>2, <1>4 DEF LoadCurrent, Good, ReadyWaits, Loaded
<1> QED
  BY <1>3, <1>4

-----------------------------------------------------------------------------
(* A fade that begins *)

Aged(fades, kind) ==
    [i \in DOMAIN fades |->
        IF fades[i].kind = kind THEN [fades[i] EXCEPT !.late = TRUE] ELSE fades[i]]

LEMMA AgedIs ==
    ASSUME NEW fades \in Seq(Fade), NEW kind
    PROVE  /\ Aged(fades, kind) \in Seq(Fade) /\ Len(Aged(fades, kind)) = Len(fades)
           /\ \A i \in 1..Len(fades) :
                /\ Aged(fades, kind)[i].kind = fades[i].kind
                /\ Aged(fades, kind)[i].element = fades[i].element
                /\ Aged(fades, kind)[i].target = fades[i].target
                /\ fades[i].kind # kind => Aged(fades, kind)[i].late = fades[i].late
<1> DEFINE n == Len(fades)
           old(i) == [fades[i] EXCEPT !.late = TRUE]
           s == Aged(fades, kind)
<1>1. n \in Nat /\ DOMAIN fades = 1..n /\ \A i \in 1..n : fades[i] \in Fade
  BY LenProperties
<1>2. \A i \in 1..n : /\ old(i) \in Fade /\ old(i).kind = fades[i].kind
                      /\ old(i).element = fades[i].element /\ old(i).target = fades[i].target
  BY <1>1 DEF Fade
<1> HIDE DEF old
<1>3. s = [i \in 1..n |-> IF fades[i].kind = kind THEN old(i) ELSE fades[i]]
  BY <1>1 DEF Aged, old
<1> HIDE DEF s
<1>4. s \in [1..n -> Fade]
  BY <1>1, <1>2, <1>3
<1>5. s \in Seq(Fade) /\ Len(s) = n
  BY <1>1, <1>4, SeqDef
<1>6. \A i \in 1..n : s[i] = IF fades[i].kind = kind THEN old(i) ELSE fades[i]
  BY <1>3
<1> QED
  BY <1>2, <1>5, <1>6 DEF s

LEMMA FadingIs ==
    ASSUME NEW p \in Page, NEW kind \in {"pause", "seek", "change"},
           NEW target \in {Nowhere} \cup Positions
    PROVE  LET q == Fading(p, kind, target)
           IN /\ q \in Page
              /\ SameTrack(p, q) /\ SameTimes(p, q) /\ SameWill(p, q) /\ SameNext(p, q)
              /\ q.primary = p.primary
              /\ Primary(q) = Primary(p) /\ Second(q) = Second(p)
              /\ ChangePending(p) \/ kind = "change" => ChangePending(q)
              /\ SeekPending(p) \/ kind = "seek" => SeekPending(q)
              /\ PausePending(p) \/ kind = "pause" => PausePending(q)
              /\ FadesInside(p.fades) /\ target <= Last /\ (kind = "seek" => target # Nowhere)
                     => FadesInside(q.fades)
<1> DEFINE f == [kind |-> kind, element |-> p.primary, target |-> target, late |-> FALSE]
           aged == Aged(p.fades, kind)
           fades == Append(aged, f)
           q == [p EXCEPT !.fades = fades]
           n == Len(p.fades)
<1>1. p.fades \in Seq(Fade) /\ n \in Nat /\ DOMAIN p.fades = 1..n
  BY Parts
<1>2. f \in Fade
  BY Two DEF Fade
<1>3. /\ aged \in Seq(Fade) /\ Len(aged) = n
      /\ \A i \in 1..n : /\ aged[i].kind = p.fades[i].kind
                         /\ aged[i].element = p.fades[i].element
                         /\ aged[i].target = p.fades[i].target
                         /\ p.fades[i].kind # kind => aged[i].late = p.fades[i].late
  BY <1>1, AgedIs
<1>4. Fading(p, kind, target) = q
  BY DEF Fading, Aged
<1> HIDE DEF aged
<1>5. /\ fades \in Seq(Fade) /\ Len(fades) = n + 1 /\ fades[n + 1] = f
      /\ DOMAIN fades = 1..(n + 1)
      /\ \A i \in 1..n : fades[i] = aged[i]
  <2> HIDE DEF f
  <2> QED
    BY <1>1, <1>2, <1>3
<1> HIDE DEF fades
<1>6. q \in Page
  BY <1>5, ZenonT(60) DEF Page
<1>7. /\ q.fades = fades /\ q.primary = p.primary /\ q.el = p.el
      /\ SameTrack(p, q) /\ SameTimes(p, q) /\ SameWill(p, q) /\ SameNext(p, q)
  BY DEF Page, SameTrack, SameTimes, SameWill, SameNext
<1> HIDE DEF q
<1>8. Primary(q) = Primary(p) /\ Second(q) = Second(p)
  BY <1>7 DEF Primary, Second, Secondary
<1>9. /\ f.kind = kind /\ f.element = p.primary /\ f.target = target /\ ~f.late
  OBVIOUS
<1> HIDE DEF f
<1>10. /\ DOMAIN q.fades = 1..(n + 1) /\ n + 1 \in 1..(n + 1) /\ 1..n \subseteq 1..(n + 1)
       /\ q.fades[n + 1].kind = kind /\ q.fades[n + 1].element = q.primary
       /\ q.fades[n + 1].target = target /\ ~q.fades[n + 1].late
       /\ \A i \in 1..n : /\ q.fades[i].kind = p.fades[i].kind
                          /\ q.fades[i].element = p.fades[i].element
                          /\ q.fades[i].target = p.fades[i].target
                          /\ p.fades[i].kind # kind => q.fades[i].late = p.fades[i].late
  BY <1>1, <1>3, <1>5, <1>7, <1>9
<1> HIDE DEF n
<1>11. ChangePending(p) \/ kind = "change" => ChangePending(q)
  <2>1. CASE kind = "change"
    BY <1>10, <2>1 DEF ChangePending
  <2>2. CASE kind # "change"
    BY <1>1, <1>10, <2>2 DEF ChangePending
  <2> QED
    BY <2>1, <2>2
<1>12. SeekPending(p) \/ kind = "seek" => SeekPending(q)
  <2>1. CASE kind = "seek"
    BY <1>10, <2>1 DEF SeekPending
  <2>2. CASE kind # "seek"
    BY <1>1, <1>7, <1>10, <2>2 DEF SeekPending
  <2> QED
    BY <2>1, <2>2
<1>13. PausePending(p) \/ kind = "pause" => PausePending(q)
  <2>1. CASE kind = "pause"
    BY <1>10, <2>1 DEF PausePending
  <2>2. CASE kind # "pause"
    BY <1>1, <1>7, <1>10, <2>2 DEF PausePending
  <2> QED
    BY <2>1, <2>2
<1>14. FadesInside(p.fades) /\ target <= Last /\ (kind = "seek" => target # Nowhere)
           => FadesInside(q.fades)
  <2> SUFFICES ASSUME FadesInside(p.fades), target <= Last, kind = "seek" => target # Nowhere,
                      NEW i \in DOMAIN q.fades
               PROVE  /\ q.fades[i].target <= Last
                      /\ q.fades[i].kind = "seek" => q.fades[i].target # Nowhere
    BY DEF FadesInside
  <2>1. i = n + 1 \/ i \in 1..n
    BY <1>1, <1>10
  <2>2. CASE i = n + 1
    BY <1>10, <2>2
  <2>3. CASE i \in 1..n
    BY <1>1, <1>10, <2>3 DEF FadesInside
  <2> QED
    BY <2>1, <2>2, <2>3
<1> QED
  BY <1>4, <1>6, <1>7, <1>8, <1>11, <1>12, <1>13, <1>14 DEF q

LEMMA FadingKeeps ==
    ASSUME NEW p \in Page, NEW kind \in {"pause", "seek", "change"},
           NEW target \in {Nowhere} \cup Positions, target <= Last,
           kind = "seek" => target # Nowhere
    PROVE  LET q == Fading(p, kind, target)
           IN /\ Firm(p) => Firm(q)
              /\ Ground(p) => Ground(q)
              /\ InPlace(p) => InPlace(q)
              /\ OnTrack(p) => OnTrack(q)
              /\ SecondHeld(p) => SecondHeld(q)
              /\ Quiet(p) => Quiet(q)
              /\ FirstHeld(p) => FirstHeld(q)
              /\ FailedWaits(p) => FailedWaits(q)
              /\ ReadyWaits(p) => ReadyWaits(q)
<1> DEFINE q == Fading(p, kind, target)
<1>1. /\ q \in Page
      /\ SameTrack(p, q) /\ SameTimes(p, q) /\ SameWill(p, q) /\ SameNext(p, q)
      /\ q.primary = p.primary
      /\ Primary(q) = Primary(p) /\ Second(q) = Second(p)
      /\ ChangePending(p) => ChangePending(q)
      /\ SeekPending(p) => SeekPending(q)
      /\ PausePending(p) => PausePending(q)
      /\ FadesInside(p.fades) => FadesInside(q.fades)
  BY FadingIs
<1> HIDE DEF q
<1>2. Current(q) = Current(p) /\ (InPlace(p) => InPlace(q))
  BY <1>1, CurrentKept
<1>3. Firm(p) => Firm(q)
  BY <1>1 DEF Firm, Sources, Within, Retries, Preloaded, SameTimes, SameNext
<1>4. Ground(p) => Ground(q)
  BY <1>1 DEF Ground, SameTimes
<1>5. OnTrack(p) => OnTrack(q)
  BY <1>1, <1>2 DEF OnTrack, SameTimes, SameWill, SameTrack
<1>6. (SecondHeld(p) => SecondHeld(q)) /\ (Quiet(p) => Quiet(q))
  BY <1>1 DEF SecondHeld, Quiet, SameNext, SameWill, SameTrack
<1>7. (FirstHeld(p) => FirstHeld(q)) /\ (FailedWaits(p) => FailedWaits(q))
  BY <1>1, <1>2 DEF FirstHeld, FailedWaits, SameTimes, SameWill, SameNext
<1>8. ReadyWaits(p) => ReadyWaits(q)
  BY <1>1 DEF ReadyWaits, SameWill
<1> QED
  BY <1>2, <1>3, <1>4, <1>5, <1>6, <1>7, <1>8 DEF q

LEMMA ChangeTrackKeeps ==
    ASSUME NEW p, Steady(p), InPlace(p), p.queue # <<>>, Quiet(p)
    PROVE  Good(ChangeTrack(p))
<1>1. p \in Page /\ Firm(p) /\ Ground(p)
  BY DEF Steady, Firm
<1>2. CASE Fades(p)
  <2> DEFINE a == Engage(p)
             q == Fading(a, "change", Nowhere)
  <2>1. /\ a \in Page /\ SameTrack(p, a) /\ SameTimes(p, a) /\ SameFades(p, a)
        /\ SameNext(p, a) /\ Primary(a) = Primary(p) /\ Second(a) = Second(p)
    BY <1>1, EngageIs
  <2> HIDE DEF a
  <2>2. SeekPending(a) <=> SeekPending(p)
    BY <2>1, PendingsKept
  <2>3. Firm(a)
    BY <1>1, <2>1
    DEF Firm, Sources, Within, Retries, Preloaded, SameTimes, SameFades, SameNext
  <2>4. Ground(a)
    BY <1>1, <2>1, <2>2 DEF Ground, SameTimes
  <2>5. InPlace(a) /\ Quiet(a) /\ a.queue # <<>>
    BY <2>1, CurrentKept DEF Quiet, SameNext, SameTrack
  <2>6. Primary(a) \in Element /\ ~Primary(a).paused /\ Primary(a).src # NoSong
    <3>1. Primary(a) \in Element
      BY <2>1, Two, ElementParts DEF Primary
    <3> QED
      BY <1>1, <1>2, <2>1, <3>1, EmptyIs DEF Fades, Firm, Sources, Sourced
  <2>7. Nowhere \in {Nowhere} \cup Positions /\ Nowhere <= Last
    BY Bounds
  <2>8. Firm(q) /\ Ground(q) /\ InPlace(q) /\ Quiet(q)
    BY <2>1, <2>3, <2>4, <2>5, <2>7, FadingKeeps
  <2>9. /\ q \in Page /\ SameTrack(a, q) /\ Primary(q) = Primary(a) /\ ChangePending(q)
        /\ SameNext(a, q)
    BY <2>1, <2>7, FadingIs
  <2>10. q.queue # <<>> /\ q.engaged
    BY <2>1, <2>5, <2>7, <2>9, FadingIs, <1>1, EngageIs, ZenonT(60)
    DEF SameTrack, SameWill, a
  <2> HIDE DEF q
  <2>11. OnTrack(q) /\ SecondHeld(q) /\ FirstHeld(q) /\ FailedWaits(q) /\ ReadyWaits(q)
    BY <2>6, <2>8, <2>9, <2>10
    DEF OnTrack, SecondHeld, FirstHeld, FailedWaits, ReadyWaits, Quiet
  <2>12. ChangeTrack(p) = q
    BY <1>2 DEF ChangeTrack, Engage, a, q
  <2> QED
    BY <2>8, <2>11, <2>12 DEF Good, Sound, Steady
<1>3. CASE ~Fades(p)
  <2>1. Loadable(p)
    BY <1>1 DEF Loadable, Quiet
  <2>2. Good(LoadCurrent(p, TRUE))
    BY <1>1, <2>1, LoadCurrentKeeps
  <2> QED
    BY <1>3, <2>2 DEF ChangeTrack
<1> QED
  BY <1>2, <1>3

-----------------------------------------------------------------------------
(* A move within the track *)

Unsought(p) == ~p.sought => p.pendingSeek = Nowhere /\ p.retry = NoRetry

LEMMA PassedByIs ==
    ASSUME NEW p \in Page
    PROVE  LET q == PassedBy(p)
           IN /\ q \in Page /\ SameTrack(p, q) /\ SameWill(p, q) /\ SameFades(p, q)
              /\ SameNext(p, q) /\ q.time = p.time /\ q.pendingSeek = p.pendingSeek
              /\ q.retry = p.retry /\ q.el = p.el
              /\ Primary(q) = Primary(p) /\ Second(q) = Second(p)
              /\ Unsought(q)
<1> DEFINE passed == p.sought \/ Waiting(p)
           q == [p EXCEPT !.sought = passed]
<1>1. PassedBy(p) = q
  BY DEF PassedBy
<1>2. passed \in BOOLEAN /\ (~passed => p.pendingSeek = Nowhere /\ p.retry = NoRetry)
  BY Parts DEF Waiting
<1> HIDE DEF passed
<1>3. q \in Page /\ q.sought = passed
      /\ SameTrack(p, q) /\ SameWill(p, q) /\ SameFades(p, q)
      /\ SameNext(p, q) /\ q.time = p.time /\ q.pendingSeek = p.pendingSeek
      /\ q.retry = p.retry /\ q.el = p.el
  BY <1>2, SMTT(30) DEF Page, SameTrack, SameWill, SameFades, SameNext
<1> HIDE DEF q
<1>4. Primary(q) = Primary(p) /\ Second(q) = Second(p)
  BY <1>3 DEF Primary, Second, Secondary, SameFades
<1> QED
  BY <1>1, <1>2, <1>3, <1>4 DEF Unsought

LEMMA MoveToIs ==
    ASSUME NEW p \in Page, NEW target \in 0..Last
    PROVE  LET q == MoveTo(p, target)
           IN /\ q \in Page /\ SameTrack(p, q) /\ SameWill(p, q) /\ SameFades(p, q)
              /\ SameNext(p, q) /\ q.time = target /\ q.pendingSeek = p.pendingSeek
              /\ q.retry = p.retry /\ q.sought = p.sought /\ Second(q) = Second(p)
              /\ Primary(p).src = NoSong => Primary(q) = Primary(p)
              /\ Primary(p).src # NoSong => Primary(q) = [Primary(p) EXCEPT !.at = target]
<1> DEFINE at == IF Primary(p).src = NoSong THEN Primary(p).at ELSE target
           x == [Primary(p) EXCEPT !.at = at]
           f == [p.el EXCEPT ![p.primary] = x]
           q == [p EXCEPT !.time = target, !.el = f]
<1>1. target \in Positions /\ Primary(p) \in Element /\ at \in Positions
  BY Bounds, Two, ElementParts DEF Primary
<1>2. /\ x \in Element
      /\ Primary(p).src = NoSong => x = Primary(p)
      /\ Primary(p).src # NoSong => x = [Primary(p) EXCEPT !.at = target]
  <2>1. x \in Element
    BY <1>1, ElementTypes
  <2>2. [Primary(p) EXCEPT !.at = Primary(p).at] = Primary(p)
    BY <1>1 DEF Element
  <2> QED
    BY <2>1, <2>2
<1>3. f \in [Elements -> Element] /\ f[p.primary] = x /\ f[Secondary(p)] = p.el[Secondary(p)]
  BY <1>2, Two, Parts
<1>4. MoveTo(p, target) = q
  BY Two, Parts DEF MoveTo, Primary, Page
<1> HIDE DEF f
<1>5. q \in Page
  BY <1>1, <1>3, ZenonT(60) DEF Page
<1>6. /\ SameTrack(p, q) /\ SameWill(p, q) /\ SameFades(p, q)
      /\ SameNext(p, q) /\ q.time = target /\ q.pendingSeek = p.pendingSeek
      /\ q.retry = p.retry /\ q.sought = p.sought /\ q.el = f
  BY DEF Page, SameTrack, SameWill, SameFades, SameNext
<1> HIDE DEF q
<1>7. Primary(q) = x /\ Second(q) = Second(p)
  BY <1>3, <1>6 DEF Primary, Second, Secondary, SameFades
<1> HIDE DEF x
<1> QED
  BY <1>2, <1>4, <1>5, <1>6, <1>7

\* A page that may be moved on: all that holds of it but where the track is.
Movable(p) ==
    Firm(p) /\ InPlace(p) /\ OnTrack(p) /\ SecondHeld(p) /\ FirstHeld(p) /\ FailedWaits(p)

LEMMA MoveToKeeps ==
    ASSUME NEW p \in Page, Movable(p), Unsought(p), NEW target \in 0..Last
    PROVE  LET q == MoveTo(p, target)
           IN /\ Sound(q) /\ (ReadyWaits(p) => ReadyWaits(q))
              /\ q.engaged = p.engaged /\ q.ramp = p.ramp
              /\ Primary(q).data = Primary(p).data /\ Primary(q).paused = Primary(p).paused
<1> DEFINE q == MoveTo(p, target)
<1>1. /\ q \in Page /\ SameTrack(p, q) /\ SameWill(p, q) /\ SameFades(p, q)
      /\ SameNext(p, q) /\ q.time = target /\ q.pendingSeek = p.pendingSeek
      /\ q.retry = p.retry /\ q.sought = p.sought /\ Second(q) = Second(p)
      /\ Primary(p).src = NoSong => Primary(q) = Primary(p)
      /\ Primary(p).src # NoSong => Primary(q) = [Primary(p) EXCEPT !.at = target]
  BY MoveToIs
<1> HIDE DEF q
<1>2. Primary(p) \in Element /\ Sourced(Primary(p)) /\ Inside(Primary(p))
  BY Two, ElementParts DEF Primary, Movable, Firm, Sources
<1>3. target <= Last /\ target # End /\ target \in Int /\ target # Nowhere
  BY Bounds
<1>4. /\ Primary(q).src = Primary(p).src /\ Primary(q).data = Primary(p).data
      /\ Primary(q).paused = Primary(p).paused
      /\ Sourced(Primary(q)) /\ Inside(Primary(q))
      /\ Primary(q).src # NoSong => Primary(q).at = target
      /\ Primary(q).src = NoSong => Primary(q).data = "none"
  <2>1. CASE Primary(p).src = NoSong
    BY <1>1, <1>2, <2>1, EmptyIs DEF Sourced
  <2>2. CASE Primary(p).src # NoSong
    <3>1. /\ Primary(q).src = Primary(p).src /\ Primary(q).data = Primary(p).data
          /\ Primary(q).paused = Primary(p).paused /\ Primary(q).at = target
      BY <1>1, <1>2, <2>2 DEF Element
    <3> QED
      BY <1>2, <1>3, <2>2, <3>1 DEF Sourced, Inside
  <2> QED
    BY <2>1, <2>2
<1>5. Current(q) = Current(p) /\ InPlace(q)
  BY <1>1, CurrentKept DEF Movable
<1>6. /\ ChangePending(q) <=> ChangePending(p)
      /\ SeekPending(q) <=> SeekPending(p)
      /\ PausePending(q) <=> PausePending(p)
  BY <1>1, PendingsKept
<1>7. Firm(q)
  <2>1. Sources(q) /\ Preloaded(q)
    BY <1>1, <1>4 DEF Movable, Firm, Sources, Preloaded, SameNext
  <2>2. Within(q) /\ Retries(q)
    BY <1>1, <1>3 DEF Movable, Firm, Within, Retries, SameFades
  <2> QED
    BY <1>1, <2>1, <2>2 DEF Firm
<1>8. Ground(q)
  BY <1>1, <1>3, <1>4 DEF Ground, Unsought
<1>9. OnTrack(q)
  BY <1>1, <1>4, <1>5, <1>6 DEF Movable, OnTrack, SameTrack, SameWill
<1>10. SecondHeld(q)
  BY <1>1 DEF Movable, SecondHeld, SameNext, SameWill, SameTrack
<1>11. FirstHeld(q)
  BY <1>1, <1>4, <1>6 DEF Movable, FirstHeld, SameNext, SameWill, Runs
<1>12. FailedWaits(q)
  BY <1>1, <1>4, <1>5, <1>6 DEF Movable, FailedWaits, SameWill, SameFades
<1>13. ReadyWaits(p) => ReadyWaits(q)
  BY <1>1, <1>4 DEF ReadyWaits, SameWill
<1>14. q.engaged = p.engaged /\ q.ramp = p.ramp
  BY <1>1 DEF SameWill, SameNext
<1> QED
  BY <1>4, <1>5, <1>7, <1>8, <1>9, <1>10, <1>11, <1>12, <1>13, <1>14 DEF Sound, Steady, q

LEMMA PassedByKeeps ==
    ASSUME NEW p \in Page, Movable(p)
    PROVE  LET q == PassedBy(p)
           IN Movable(q) /\ (ReadyWaits(p) => ReadyWaits(q))
<1> DEFINE q == PassedBy(p)
<1>1. /\ q \in Page /\ SameTrack(p, q) /\ SameWill(p, q) /\ SameFades(p, q)
      /\ SameNext(p, q) /\ q.time = p.time /\ q.pendingSeek = p.pendingSeek
      /\ q.retry = p.retry /\ Primary(q) = Primary(p) /\ Second(q) = Second(p)
  BY PassedByIs
<1> HIDE DEF q
<1>2. Current(q) = Current(p) /\ (InPlace(p) => InPlace(q))
  BY <1>1, CurrentKept
<1>3. /\ ChangePending(q) <=> ChangePending(p)
      /\ PausePending(q) <=> PausePending(p)
  BY <1>1, PendingsKept
<1>4. Firm(q)
  BY <1>1 DEF Movable, Firm, Sources, Within, Retries, Preloaded, SameFades, SameNext
<1>5. OnTrack(q)
  BY <1>1, <1>2, <1>3 DEF Movable, OnTrack, SameTrack, SameWill
<1>6. SecondHeld(q)
  BY <1>1 DEF Movable, SecondHeld, SameNext, SameWill, SameTrack
<1>7. FirstHeld(q) /\ FailedWaits(q)
  BY <1>1, <1>2, <1>3 DEF Movable, FirstHeld, FailedWaits, SameNext, SameWill, SameFades
<1>8. ReadyWaits(p) => ReadyWaits(q)
  BY <1>1 DEF ReadyWaits, SameWill
<1> QED
  BY <1>2, <1>4, <1>5, <1>6, <1>7, <1>8 DEF Movable, q

LEMMA AbandonMovable ==
    ASSUME NEW p \in Page, Movable(p)
    PROVE  LET q == AbandonCrossfade(p)
           IN /\ Movable(q) /\ Quiet(q) /\ (ReadyWaits(p) => ReadyWaits(q))
              /\ Ground(p) => Ground(q)
              /\ q.engaged = p.engaged /\ Primary(q) = Primary(p)
<1> DEFINE q == AbandonCrossfade(p)
<1>1. /\ q \in Page /\ SameTrack(p, q) /\ SameTimes(p, q) /\ SameWill(p, q)
      /\ SameFades(p, q) /\ q.astray = p.astray /\ Primary(q) = Primary(p)
  BY AbandonIs
<1>2. Firm(q) /\ Quiet(q)
  BY AbandonKeeps DEF Movable, SecondHeld, Ramped
<1> HIDE DEF q
<1>3. /\ InPlace(q) /\ OnTrack(q) /\ FirstHeld(q) /\ FailedWaits(q)
      /\ (ReadyWaits(p) => ReadyWaits(q)) /\ (Ground(p) => Ground(q))
  BY <1>1, FirstKept DEF Movable
<1>4. SecondHeld(q)
  BY <1>2 DEF SecondHeld, Quiet
<1> QED
  BY <1>1, <1>2, <1>3, <1>4 DEF Movable, SameWill, q

LEMMA SeekKeeps ==
    ASSUME NEW p \in Page, Movable(p), NEW target \in 0..Last
    PROVE  LET q == Seek(p, target)
           IN /\ Sound(q) /\ (ReadyWaits(p) => ReadyWaits(q))
              /\ q.engaged = p.engaged
              /\ Primary(q).data = Primary(p).data /\ Primary(q).paused = Primary(p).paused
<1> DEFINE a == AbandonCrossfade(p)
           s == PassedBy(a)
<1>1. /\ a \in Page /\ Movable(a) /\ (ReadyWaits(p) => ReadyWaits(a))
      /\ a.engaged = p.engaged /\ Primary(a) = Primary(p)
  BY AbandonIs, AbandonMovable
<1> HIDE DEF a
<1>2. /\ s \in Page /\ Movable(s) /\ Unsought(s) /\ (ReadyWaits(p) => ReadyWaits(s))
      /\ s.engaged = p.engaged /\ Primary(s) = Primary(p)
  BY <1>1, PassedByIs, PassedByKeeps DEF SameWill
<1>3. Seek(p, target) = IF Fades(s) THEN Fading([s EXCEPT !.time = target], "seek", target)
                        ELSE MoveTo(s, target)
  BY DEF Seek, a
<1> HIDE DEF s
<1>4. CASE Fades(s)
  <2> DEFINE t == [s EXCEPT !.time = target]
             q == Fading(t, "seek", target)
  <2>1. target \in Positions /\ target <= Last /\ target # Nowhere
        /\ target \in {Nowhere} \cup Positions
    BY Bounds
  <2>2. /\ t \in Page /\ SameTrack(s, t) /\ SameWill(s, t) /\ SameFades(s, t)
        /\ SameNext(s, t) /\ t.time = target /\ t.pendingSeek = s.pendingSeek
        /\ t.retry = s.retry /\ t.sought = s.sought
        /\ Primary(t) = Primary(s) /\ Second(t) = Second(s)
    BY <1>2, <2>1, ZenonT(60)
    DEF Page, SameTrack, SameWill, SameFades, SameNext, Primary, Second, Secondary
  <2> HIDE DEF t
  <2>3. Current(t) = Current(s) /\ InPlace(t)
    BY <1>2, <2>2, CurrentKept DEF Movable
  <2>4. /\ ChangePending(t) <=> ChangePending(s)
        /\ PausePending(t) <=> PausePending(s)
    BY <2>2, PendingsKept
  <2>5. Firm(t)
    BY <1>2, <2>1, <2>2
    DEF Movable, Firm, Sources, Within, Retries, Preloaded, SameFades, SameNext
  <2>6. OnTrack(t)
    BY <1>2, <2>2, <2>3, <2>4 DEF Movable, OnTrack, SameTrack, SameWill
  <2>7. SecondHeld(t)
    BY <1>2, <2>2 DEF Movable, SecondHeld, SameNext, SameWill, SameTrack
  <2>8. FirstHeld(t) /\ FailedWaits(t) /\ (ReadyWaits(s) => ReadyWaits(t))
    BY <1>2, <2>2, <2>3, <2>4
    DEF Movable, FirstHeld, FailedWaits, ReadyWaits, SameNext, SameWill, SameFades
  <2>9. /\ Firm(q) /\ InPlace(q) /\ OnTrack(q) /\ SecondHeld(q) /\ FirstHeld(q)
        /\ FailedWaits(q) /\ (ReadyWaits(t) => ReadyWaits(q))
    BY <2>1, <2>2, <2>3, <2>5, <2>6, <2>7, <2>8, FadingKeeps
  <2>10. /\ SeekPending(q) /\ SameTimes(t, q) /\ SameWill(t, q) /\ Primary(q) = Primary(t)
    BY <2>1, <2>2, FadingIs
  <2> HIDE DEF q
  <2>11. Ground(q)
    BY <1>2, <2>2, <2>10 DEF Ground, Unsought, SameTimes
  <2> QED
    BY <1>2, <1>3, <1>4, <2>2, <2>8, <2>9, <2>10, <2>11 DEF Sound, Steady, SameWill, t, q
<1>5. CASE ~Fades(s)
  <2>1. /\ Sound(MoveTo(s, target)) /\ (ReadyWaits(s) => ReadyWaits(MoveTo(s, target)))
        /\ MoveTo(s, target).engaged = s.engaged
        /\ Primary(MoveTo(s, target)).data = Primary(s).data
        /\ Primary(MoveTo(s, target)).paused = Primary(s).paused
    BY <1>2, MoveToKeeps
  <2> QED
    BY <1>2, <1>3, <1>5, <2>1
<1> QED
  BY <1>4, <1>5

-----------------------------------------------------------------------------
(* Stopping and pausing *)

\* An empty first element, and a player at rest.
Rested(p) ==
    [p EXCEPT !.engaged = FALSE, !.stranded = FALSE, !.loading = FALSE, !.error = FALSE,
              !.el[p.primary] = Empty, !.playing = FALSE, !.time = 0]

LEMMA RestedIs ==
    ASSUME NEW p \in Page
    PROVE  LET q == Rested(p)
           IN /\ q \in Page /\ SameTrack(p, q) /\ SameFades(p, q) /\ SameNext(p, q)
              /\ ~q.engaged /\ q.time = 0 /\ q.pendingSeek = p.pendingSeek /\ q.retry = p.retry
              /\ q.sought = p.sought
              /\ Primary(q) = Empty /\ Second(q) = Second(p)
<1> DEFINE f == [p.el EXCEPT ![p.primary] = Empty]
           q == [p EXCEPT !.engaged = FALSE, !.stranded = FALSE, !.loading = FALSE,
                          !.error = FALSE, !.el = f, !.playing = FALSE, !.time = 0]
<1>1. f \in [Elements -> Element] /\ f[p.primary] = Empty /\ f[Secondary(p)] = p.el[Secondary(p)]
  BY Two, Parts, ElementTypes
<1>2. Rested(p) = q
  BY DEF Rested
<1> HIDE DEF f
<1>3. q \in Page
  <2> DEFINE d == [p EXCEPT !.engaged = FALSE, !.stranded = FALSE, !.loading = FALSE,
                            !.error = FALSE]
  <2>1. d \in Page
    BY ZenonT(60) DEF Page
  <2>2. q = [d EXCEPT !.el = f, !.playing = FALSE, !.time = 0]
    OBVIOUS
  <2> HIDE DEF d
  <2>3. 0 \in Positions
    BY Bounds
  <2>4. [d EXCEPT !.el = f, !.playing = FALSE, !.time = 0] \in Page
    BY <1>1, <2>1, <2>3, ZenonT(60) DEF Page
  <2> QED
    BY <2>2, <2>4
<1>4. /\ SameTrack(p, q) /\ SameFades(p, q) /\ SameNext(p, q)
      /\ ~q.engaged /\ q.time = 0 /\ q.pendingSeek = p.pendingSeek /\ q.retry = p.retry
      /\ q.sought = p.sought /\ q.el = f
  BY DEF Page, SameTrack, SameFades, SameNext
<1> HIDE DEF q
<1>5. Primary(q) = Empty /\ Second(q) = Second(p)
  BY <1>1, <1>4 DEF Primary, Second, Secondary, SameFades
<1> QED
  BY <1>2, <1>3, <1>4, <1>5

\* A stopped player holds nothing and waits for nothing, but for a position.
Stopped(p) ==
    /\ Steady(p) /\ Quiet(p) /\ ~p.engaged /\ p.retry = NoRetry /\ Primary(p) = Empty

LEMMA StopKeeps ==
    ASSUME NEW p \in Page, Firm(p), Ramped(p)
    PROVE  LET q == Stop(p) IN Stopped(q) /\ SameTrack(p, q)
<1> DEFINE c == CancelRecovery(p)
           a == AbandonCrossfade(c)
           q == Rested(a)
<1>1. /\ c \in Page /\ c.retry = NoRetry
      /\ SameTrack(p, c) /\ SameWill(p, c) /\ SameFades(p, c) /\ SameNext(p, c)
      /\ c.time = p.time /\ c.pendingSeek = p.pendingSeek /\ c.el = p.el
  BY CancelIs
<1> HIDE DEF c
<1>3. Primary(c) = Primary(p) /\ Second(c) = Second(p)
  BY <1>1 DEF Primary, Second, Secondary, SameFades
<1>4. Firm(c)
  BY <1>1, <1>3 DEF Firm, Sources, Within, Retries, Preloaded, SameFades, SameNext
<1>5. /\ a \in Page
      /\ SameTrack(c, a) /\ SameTimes(c, a) /\ SameWill(c, a) /\ SameFades(c, a)
  BY <1>1, AbandonIs
<1>6. Firm(a) /\ Quiet(a)
  BY <1>1, <1>3, <1>4, AbandonKeeps DEF Ramped, SameNext
<1> HIDE DEF a
<1>2. Stop(p) = q
  <2>1. a.primary = p.primary
    BY <1>1, <1>5 DEF SameFades
  <2> QED
    BY <2>1 DEF Stop, Rested, a, c
<1>8. /\ q \in Page /\ SameTrack(a, q) /\ SameFades(a, q) /\ SameNext(a, q)
      /\ ~q.engaged /\ q.time = 0 /\ q.pendingSeek = a.pendingSeek /\ q.retry = a.retry
      /\ q.sought = a.sought
      /\ Primary(q) = Empty /\ Second(q) = Second(a)
  BY <1>5, RestedIs
<1> HIDE DEF q
<1>9. Firm(q)
  <2>1. Sources(q) /\ Preloaded(q)
    BY <1>6, <1>8, EmptyIs DEF Firm, Sources, Preloaded, SameNext
  <2>2. Within(q) /\ Retries(q)
    BY <1>6, <1>8, Bounds DEF Firm, Within, Retries, SameFades
  <2> QED
    BY <1>8, <2>1, <2>2 DEF Firm
<1>10. q.retry = NoRetry
  BY <1>1, <1>5, <1>8 DEF SameTimes
<1>11. Ground(q)
  BY <1>8, <1>10, EmptyIs DEF Ground
<1>12. Quiet(q) /\ SameTrack(p, q)
  BY <1>1, <1>5, <1>6, <1>8 DEF Quiet, SameNext, SameTrack
<1> QED
  BY <1>2, <1>8, <1>9, <1>10, <1>11, <1>12 DEF Stopped, Steady

LEMMA ElementPauseKeeps ==
    ASSUME NEW p \in Page
    PROVE  LET q == ElementPause(p)
           IN /\ (Firm(p) => Firm(q)) /\ (Ground(p) => Ground(q)) /\ (InPlace(p) => InPlace(q))
              /\ OnTrack(p) => OnTrack(q)
              /\ SecondHeld(p) => SecondHeld(q)
              /\ Quiet(p) => Quiet(q)
              /\ FirstHeld(q)
              /\ FailedWaits(p) => FailedWaits(q)
              /\ q.engaged = p.engaged /\ q.error = p.error /\ q.sleep = p.sleep
              /\ Primary(q).data = Primary(p).data /\ Primary(q).src = Primary(p).src
              /\ Primary(q).at = Primary(p).at /\ Primary(q).paused
<1> DEFINE q == ElementPause(p)
<1>1. /\ q \in Page
      /\ SameTrack(p, q) /\ SameTimes(p, q) /\ SameWill(p, q) /\ SameFades(p, q)
      /\ SameNext(p, q) /\ q.sleep = p.sleep
      /\ Primary(q) = [Primary(p) EXCEPT !.paused = TRUE] /\ Second(q) = Second(p)
  BY PauseIs
<1> HIDE DEF q
<1>2. Primary(p) \in Element
  BY Two, ElementParts DEF Primary
<1>3. /\ Primary(q).data = Primary(p).data /\ Primary(q).src = Primary(p).src
      /\ Primary(q).at = Primary(p).at /\ Primary(q).paused
  BY <1>1, <1>2 DEF Element
<1>4. Sourced(Primary(p)) => Sourced(Primary(q))
  <2>1. Primary(p) = Empty => [Primary(p) EXCEPT !.paused = TRUE] = Empty
    BY EmptyIs
  <2> QED
    BY <1>1, <1>3, <2>1 DEF Sourced
<1>5. Inside(Primary(p)) => Inside(Primary(q))
  BY <1>3 DEF Inside
<1>6. Current(q) = Current(p) /\ (InPlace(p) => InPlace(q))
  BY <1>1, CurrentKept
<1>7. /\ ChangePending(q) <=> ChangePending(p)
      /\ SeekPending(q) <=> SeekPending(p)
  BY <1>1, PendingsKept
<1>8. Firm(p) => Firm(q)
  <2>1. Sources(p) /\ Preloaded(p) => Sources(q) /\ Preloaded(q)
    BY <1>1, <1>3, <1>4, <1>5 DEF Sources, Preloaded, SameNext
  <2>2. Within(p) /\ Retries(p) => Within(q) /\ Retries(q)
    BY <1>1 DEF Within, Retries, SameTimes, SameFades
  <2> QED
    BY <1>1, <2>1, <2>2 DEF Firm
<1>9. Ground(p) => Ground(q)
  BY <1>1, <1>3, <1>7 DEF Ground, SameTimes
<1>10. OnTrack(p) => OnTrack(q)
  BY <1>1, <1>3, <1>6, <1>7 DEF OnTrack, SameTimes, SameTrack, SameWill
<1>11. (SecondHeld(p) => SecondHeld(q)) /\ (Quiet(p) => Quiet(q))
  BY <1>1 DEF SecondHeld, Quiet, SameNext, SameWill, SameTrack
<1>12. FirstHeld(q)
  BY <1>3 DEF FirstHeld, Runs
<1>13. FailedWaits(p) => FailedWaits(q)
  BY <1>1, <1>3, <1>6, <1>7 DEF FailedWaits, SameTimes, SameWill, SameFades
<1> QED
  BY <1>1, <1>3, <1>6, <1>8, <1>9, <1>10, <1>11, <1>12, <1>13 DEF SameWill, q

\* What a pause lets go of.
Halted(p) == [CancelRecovery(p) EXCEPT
                 !.stranded = @ \/ p.retry # NoRetry, !.loading = FALSE, !.engaged = FALSE]

LEMMA HaltedIs ==
    ASSUME NEW p \in Page
    PROVE  LET q == Halted(p)
           IN /\ q \in Page /\ SameTrack(p, q) /\ SameFades(p, q) /\ SameNext(p, q)
              /\ ~q.engaged /\ q.retry = NoRetry /\ q.time = p.time
              /\ q.pendingSeek = p.pendingSeek /\ q.sought = p.sought
              /\ q.error = p.error /\ q.asking = p.asking
              /\ q.stranded = (p.stranded \/ p.retry # NoRetry)
              /\ Primary(q) = Primary(p) /\ Second(q) = Second(p)
<1> DEFINE c == CancelRecovery(p)
<1>1. /\ c \in Page /\ c.retry = NoRetry
      /\ SameTrack(p, c) /\ SameWill(p, c) /\ SameFades(p, c) /\ SameNext(p, c)
      /\ c.time = p.time /\ c.pendingSeek = p.pendingSeek /\ c.sought = p.sought
      /\ c.el = p.el
  BY CancelIs
<1> DEFINE left == c.stranded \/ p.retry # NoRetry
           q == [c EXCEPT !.stranded = left, !.loading = FALSE, !.engaged = FALSE]
<1>2. Halted(p) = q
  BY DEF Halted
<1> HIDE DEF c
<1>3. left \in BOOLEAN
  BY <1>1, Parts
<1>4. left = (p.stranded \/ p.retry # NoRetry)
  BY <1>1 DEF SameWill
<1> HIDE DEF left
<1>5. q \in Page
  BY <1>1, <1>3, ZenonT(60) DEF Page
<1>6. /\ ~q.engaged /\ q.retry = c.retry /\ q.time = c.time
      /\ q.pendingSeek = c.pendingSeek /\ q.sought = c.sought
      /\ q.error = c.error /\ q.asking = c.asking /\ q.stranded = left /\ q.el = c.el
  BY <1>1 DEF Page
<1>7. SameTrack(c, q) /\ SameFades(c, q) /\ SameNext(c, q)
  BY <1>1 DEF Page, SameTrack, SameFades, SameNext
<1>8. /\ q \in Page /\ SameTrack(c, q) /\ SameFades(c, q) /\ SameNext(c, q)
      /\ ~q.engaged /\ q.retry = c.retry /\ q.time = c.time
      /\ q.pendingSeek = c.pendingSeek /\ q.sought = c.sought
      /\ q.error = c.error /\ q.asking = c.asking /\ q.stranded = left /\ q.el = c.el
  BY <1>5, <1>6, <1>7
<1> HIDE DEF q
<1>9. /\ SameTrack(p, q) /\ SameFades(p, q) /\ SameNext(p, q)
      /\ ~q.engaged /\ q.retry = NoRetry /\ q.time = p.time
      /\ q.pendingSeek = p.pendingSeek /\ q.sought = p.sought
      /\ q.error = p.error /\ q.asking = p.asking /\ q.el = p.el
  BY <1>1, <1>8 DEF SameTrack, SameFades, SameNext, SameWill
<1>10. Primary(q) = Primary(p) /\ Second(q) = Second(p)
  BY <1>9 DEF Primary, Second, Secondary, SameFades
<1> QED
  BY <1>2, <1>4, <1>8, <1>9, <1>10

LEMMA PauseKeeps ==
    ASSUME NEW p, Good(p)
    PROVE  Good(Pause(p))
<1> DEFINE h == Halted(p)
           a == AbandonCrossfade(h)
<1>1. /\ p \in Page /\ Firm(p) /\ Sources(p) /\ Within(p) /\ Retries(p) /\ Preloaded(p)
      /\ Ground(p) /\ InPlace(p) /\ OnTrack(p) /\ SecondHeld(p) /\ FirstHeld(p)
      /\ FailedWaits(p)
  BY SoundParts DEF Good
<1>2. /\ h \in Page /\ SameTrack(p, h) /\ SameFades(p, h) /\ SameNext(p, h)
      /\ ~h.engaged /\ h.retry = NoRetry /\ h.time = p.time
      /\ h.pendingSeek = p.pendingSeek /\ h.sought = p.sought
      /\ h.error = p.error /\ h.asking = p.asking
      /\ h.stranded = (p.stranded \/ p.retry # NoRetry)
      /\ Primary(h) = Primary(p) /\ Second(h) = Second(p)
  BY <1>1, HaltedIs
<1>3. Pause(p) = IF Fades(a) THEN Fading(a, "pause", Nowhere) ELSE ElementPause(a)
  BY DEF Pause, Halted
<1> HIDE DEF h
<1>4. Current(h) = Current(p) /\ InPlace(h)
  BY <1>1, <1>2, CurrentKept
<1>5. /\ ChangePending(h) <=> ChangePending(p)
      /\ SeekPending(h) <=> SeekPending(p)
  BY <1>2, PendingsKept
<1>6. Firm(h)
  BY <1>1, <1>2 DEF Firm, Sources, Within, Retries, Preloaded, SameFades, SameNext
<1>7. Ground(h)
  BY <1>1, <1>2, <1>5 DEF Ground
<1>8. OnTrack(h)
  BY <1>1, <1>2, <1>4, <1>5 DEF OnTrack, SameTrack
<1>9. FailedWaits(h)
  BY <1>1, <1>2, <1>4, <1>5 DEF FailedWaits, SameFades
<1>10. Ramped(h)
  BY <1>1, <1>2 DEF SecondHeld, Ramped, SameNext
<1>11. /\ a \in Page /\ SameTrack(h, a) /\ SameTimes(h, a) /\ SameWill(h, a)
       /\ SameFades(h, a) /\ Primary(a) = Primary(h)
  BY <1>2, AbandonIs
<1>12. Firm(a) /\ Quiet(a)
  BY <1>2, <1>6, <1>10, AbandonKeeps
<1> HIDE DEF a
<1>13. Ground(a) /\ InPlace(a) /\ OnTrack(a) /\ FailedWaits(a) /\ ~a.engaged
  BY <1>2, <1>4, <1>7, <1>8, <1>9, <1>11, FirstKept DEF SameWill
<1>14. CASE Fades(a)
  <2> DEFINE q == Fading(a, "pause", Nowhere)
  <2>1. Nowhere \in {Nowhere} \cup Positions /\ Nowhere <= Last
    BY Bounds
  <2>2. Firm(q) /\ Ground(q) /\ InPlace(q) /\ OnTrack(q) /\ Quiet(q) /\ FailedWaits(q)
    BY <1>11, <1>12, <1>13, <2>1, FadingKeeps
  <2>3. PausePending(q) /\ SameWill(a, q)
    BY <1>11, <2>1, FadingIs
  <2> HIDE DEF q
  <2>4. SecondHeld(q) /\ FirstHeld(q) /\ ReadyWaits(q)
    BY <1>13, <2>2, <2>3 DEF SecondHeld, Quiet, FirstHeld, ReadyWaits, SameWill
  <2> QED
    BY <1>3, <1>14, <2>2, <2>4 DEF Good, Sound, Steady, q
<1>15. CASE ~Fades(a)
  <2> DEFINE q == ElementPause(a)
  <2>1. /\ Firm(q) /\ Ground(q) /\ InPlace(q) /\ OnTrack(q) /\ Quiet(q) /\ FirstHeld(q)
        /\ FailedWaits(q) /\ ~q.engaged
    BY <1>11, <1>12, <1>13, ElementPauseKeeps
  <2> HIDE DEF q
  <2>2. SecondHeld(q) /\ ReadyWaits(q)
    BY <2>1 DEF SecondHeld, Quiet, ReadyWaits
  <2> QED
    BY <1>3, <1>15, <2>1, <2>2 DEF Good, Sound, Steady, q
<1> QED
  BY <1>14, <1>15

-----------------------------------------------------------------------------
(* A stream that stops, and a track that will not play *)

\* A page whose track was given up on, before it is paused.
Stranded(p) ==
    [CancelRecovery(p) EXCEPT
        !.stranded = TRUE, !.loading = FALSE, !.error = TRUE,
        !.astray = @ \/ Running(p, Secondary(p))]

LEMMA StrandedIs ==
    ASSUME NEW p \in Page
    PROVE  LET q == Stranded(p)
           IN /\ q \in Page /\ SameTrack(p, q) /\ SameFades(p, q)
              /\ q.engaged = p.engaged /\ q.error /\ q.retry = NoRetry /\ q.time = p.time
              /\ q.pendingSeek = p.pendingSeek /\ q.sought = p.sought
              /\ q.preloadedFor = p.preloadedFor
              /\ Primary(q) = Primary(p) /\ Second(q) = Second(p) /\ Quiet(q)
<1> DEFINE c == CancelRecovery(p)
<1>1. /\ c \in Page /\ c.retry = NoRetry
      /\ SameTrack(p, c) /\ SameWill(p, c) /\ SameFades(p, c) /\ SameNext(p, c)
      /\ c.time = p.time /\ c.pendingSeek = p.pendingSeek /\ c.sought = p.sought
      /\ c.el = p.el
  BY CancelIs
<1> DEFINE lost == c.astray \/ Running(p, Secondary(p))
           q == [c EXCEPT !.stranded = TRUE, !.loading = FALSE, !.error = TRUE, !.astray = lost]
<1>2. Stranded(p) = q
  BY DEF Stranded
<1> HIDE DEF c
<1>3. lost \in BOOLEAN /\ (Runs(Second(p)) => lost)
  BY <1>1, Parts DEF Running, Runs, Second
<1> HIDE DEF lost
<1>4. q \in Page
  BY <1>1, <1>3, ZenonT(60) DEF Page
<1>5. /\ q.engaged = c.engaged /\ q.error /\ q.retry = c.retry /\ q.time = c.time
      /\ q.pendingSeek = c.pendingSeek /\ q.sought = c.sought
      /\ q.preloadedFor = c.preloadedFor /\ q.astray = lost /\ q.el = c.el
  BY <1>1 DEF Page
<1>6. /\ SameTrack(c, q) /\ SameFades(c, q)
  BY <1>1 DEF Page, SameTrack, SameFades
<1> HIDE DEF q
<1>7. /\ SameTrack(p, q) /\ SameFades(p, q)
      /\ q.engaged = p.engaged /\ q.retry = NoRetry /\ q.time = p.time
      /\ q.pendingSeek = p.pendingSeek /\ q.sought = p.sought
      /\ q.preloadedFor = p.preloadedFor /\ q.el = p.el
  BY <1>1, <1>5, <1>6 DEF SameTrack, SameFades, SameNext, SameWill
<1>8. Primary(q) = Primary(p) /\ Second(q) = Second(p)
  BY <1>7 DEF Primary, Second, Secondary, SameFades
<1> QED
  BY <1>2, <1>3, <1>4, <1>5, <1>7, <1>8 DEF Quiet

LEMMA GiveUpKeeps ==
    ASSUME NEW p \in Page, Steady(p), InPlace(p), OnTrack(p)
    PROVE  Good(GiveUp(p))
<1> DEFINE s == Stranded(p)
           q == ElementPause(s)
<1>1. /\ s \in Page /\ SameTrack(p, s) /\ SameFades(p, s)
      /\ s.engaged = p.engaged /\ s.error /\ s.retry = NoRetry /\ s.time = p.time
      /\ s.pendingSeek = p.pendingSeek /\ s.sought = p.sought
      /\ s.preloadedFor = p.preloadedFor
      /\ Primary(s) = Primary(p) /\ Second(s) = Second(p) /\ Quiet(s)
  BY StrandedIs
<1>2. GiveUp(p) = q
  BY DEF GiveUp, Stranded
<1> HIDE DEF s
<1>3. Current(s) = Current(p) /\ InPlace(s)
  BY <1>1, CurrentKept
<1>4. /\ ChangePending(s) <=> ChangePending(p)
      /\ SeekPending(s) <=> SeekPending(p)
  BY <1>1, PendingsKept
<1>5. Firm(s)
  BY <1>1 DEF Steady, Firm, Sources, Within, Retries, Preloaded, SameFades
<1>6. Ground(s)
  BY <1>1, <1>4 DEF Steady, Ground
<1>7. OnTrack(s)
  BY <1>1, <1>3, <1>4 DEF OnTrack, SameTrack
<1>8. FailedWaits(s)
  BY <1>1 DEF FailedWaits
<1>9. /\ Firm(q) /\ Ground(q) /\ InPlace(q) /\ OnTrack(q) /\ Quiet(q) /\ FirstHeld(q)
      /\ FailedWaits(q) /\ q.error
  BY <1>1, <1>3, <1>5, <1>6, <1>7, <1>8, ElementPauseKeeps
<1> HIDE DEF q
<1>10. SecondHeld(q) /\ ReadyWaits(q)
  BY <1>9 DEF SecondHeld, Quiet, ReadyWaits
<1> QED
  BY <1>2, <1>9, <1>10 DEF Good, Sound, Steady

\* A retry asked for.
Asking(p) == [song |-> Current(p), at |-> p.time]

LEMMA RecoverIs ==
    ASSUME NEW p \in Page, Current(p) \in Songs
    PROVE  LET q == Recover(p)
           IN /\ q \in Page /\ q.retry = Asking(p)
              /\ SameTrack(p, q) /\ SameWill(p, q) /\ SameFades(p, q) /\ SameNext(p, q)
              /\ q.time = p.time /\ q.pendingSeek = p.pendingSeek /\ q.sought = p.sought
              /\ Primary(q) = Primary(p) /\ Second(q) = Second(p)
<1> DEFINE c == CancelRecovery(p)
           tries == c.recoveries + 1
           q == [c EXCEPT !.recoveries = tries, !.recoveredFrom = p.time, !.loading = TRUE,
                          !.retry = Asking(p)]
<1>1. /\ c \in Page
      /\ SameTrack(p, c) /\ SameWill(p, c) /\ SameFades(p, c) /\ SameNext(p, c)
      /\ c.time = p.time /\ c.pendingSeek = p.pendingSeek /\ c.sought = p.sought
      /\ c.el = p.el
  BY CancelIs
<1>2. Recover(p) = q
  BY DEF Recover, Asking
<1> HIDE DEF c
<1>3. Asking(p) \in Asked /\ p.time \in Positions /\ tries \in Nat
  BY <1>1, Parts DEF Asking, Asked
<1> HIDE DEF tries
<1>4. q \in Page
  BY <1>1, <1>3, ZenonT(60) DEF Page
<1>5. /\ q.retry = Asking(p) /\ q.el = c.el
      /\ q.time = c.time /\ q.pendingSeek = c.pendingSeek /\ q.sought = c.sought
  BY <1>1 DEF Page
<1>6. SameTrack(c, q) /\ SameWill(c, q) /\ SameFades(c, q) /\ SameNext(c, q)
  BY <1>1 DEF Page, SameTrack, SameWill, SameFades, SameNext
<1> HIDE DEF q
<1>7. SameTrack(p, q) /\ SameWill(p, q) /\ SameFades(p, q) /\ SameNext(p, q)
  BY <1>1, <1>6 DEF SameTrack, SameWill, SameFades, SameNext
<1>8. Primary(q) = Primary(p) /\ Second(q) = Second(p)
  BY <1>1, <1>5, <1>7 DEF Primary, Second, Secondary, SameFades
<1> QED
  BY <1>1, <1>2, <1>4, <1>5, <1>7, <1>8

\* A page whose track may have failed.
Failing(p) ==
    Steady(p) /\ InPlace(p) /\ OnTrack(p) /\ SecondHeld(p) /\ FirstHeld(p) /\ ReadyWaits(p)

LEMMA RecoverKeeps ==
    ASSUME NEW p \in Page, Failing(p), p.engaged
    PROVE  Good(Recover(p))
<1> DEFINE q == Recover(p)
<1>1. p.queue # <<>> /\ Current(p) \in Songs /\ Current(p) # NoSong
  BY CurrentIs DEF Failing, OnTrack
<1>2. /\ q \in Page /\ q.retry = Asking(p)
      /\ SameTrack(p, q) /\ SameWill(p, q) /\ SameFades(p, q) /\ SameNext(p, q)
      /\ q.time = p.time /\ q.pendingSeek = p.pendingSeek /\ q.sought = p.sought
      /\ Primary(q) = Primary(p) /\ Second(q) = Second(p)
  BY <1>1, RecoverIs
<1> HIDE DEF q
<1>3. Current(q) = Current(p) /\ InPlace(q)
  BY <1>2, CurrentKept DEF Failing
<1>4. /\ ChangePending(q) <=> ChangePending(p)
      /\ SeekPending(q) <=> SeekPending(p)
      /\ PausePending(q) <=> PausePending(p)
  BY <1>2, PendingsKept
<1>5. q.retry.song = Current(p) /\ q.retry.at = p.time /\ q.retry # NoRetry
  BY <1>1, <1>2 DEF Asking, NoRetry
<1>6. Sources(q) /\ Preloaded(q)
  BY <1>2 DEF Failing, Steady, Firm, Sources, Preloaded, SameNext
<1>7. Within(q)
  BY <1>2 DEF Failing, Steady, Firm, Within, SameFades
<1>8. p.time \in Positions /\ p.time <= Last /\ p.time # Nowhere
  BY Parts, Bounds DEF Failing, Steady, Firm, Within
<1>9. Retries(q)
  BY <1>1, <1>5, <1>8 DEF Retries
<1>10. Ground(q)
  BY <1>2, <1>4, <1>5 DEF Failing, Steady, Ground
<1>11. OnTrack(q)
  BY <1>1, <1>2, <1>3, <1>4, <1>5 DEF Failing, OnTrack, SameTrack, SameWill
<1>12. SecondHeld(q)
  BY <1>2 DEF Failing, SecondHeld, SameNext, SameWill, SameTrack
<1>13. FirstHeld(q) /\ FailedWaits(q) /\ ReadyWaits(q)
  BY <1>2, <1>5 DEF Failing, FirstHeld, FailedWaits, ReadyWaits, SameWill
<1> QED
  BY <1>2, <1>3, <1>6, <1>7, <1>9, <1>10, <1>11, <1>12, <1>13
  DEF Good, Sound, Steady, Firm, q

LEMMA RecoverOrGiveUpKeeps ==
    ASSUME NEW p \in Page, Failing(p)
    PROVE  Good(RecoverOrGiveUp(p))
BY RecoverKeeps, GiveUpKeeps DEF RecoverOrGiveUp, Failing

-----------------------------------------------------------------------------
(* On to another track *)

Placed(p, i) == [p EXCEPT !.index = i]

LEMMA PlacedIs ==
    ASSUME NEW p \in Page, NEW i \in Nat
    PROVE  LET q == Placed(p, i)
           IN /\ q \in Page /\ q.index = i /\ q.queue = p.queue /\ q.repeat = p.repeat
              /\ SameTimes(p, q) /\ SameWill(p, q) /\ SameFades(p, q) /\ SameNext(p, q)
              /\ Primary(q) = Primary(p) /\ Second(q) = Second(p)
BY DEF Placed, Page, SameTimes, SameWill, SameFades, SameNext, Primary, Second, Secondary

LEMMA PlacedKeeps ==
    ASSUME NEW p \in Page, p.queue # <<>>, NEW i \in 1..Len(p.queue)
    PROVE  LET q == Placed(p, i)
           IN /\ InPlace(q) /\ q.queue # <<>> /\ q.engaged = p.engaged
              /\ Firm(p) => Firm(q)
              /\ Ground(p) => Ground(q)
              /\ Quiet(p) => Quiet(q)
              /\ Firm(p) /\ SecondHeld(p) => Loadable(q)
<1> DEFINE q == Placed(p, i)
<1>1. i \in Nat
  BY Parts
<1>2. /\ q \in Page /\ q.index = i /\ q.queue = p.queue
      /\ SameTimes(p, q) /\ SameWill(p, q) /\ SameFades(p, q) /\ SameNext(p, q)
      /\ Primary(q) = Primary(p) /\ Second(q) = Second(p)
  BY <1>1, PlacedIs
<1> HIDE DEF q
<1>3. SeekPending(q) <=> SeekPending(p)
  BY <1>2, PendingsKept
<1>4. InPlace(q) /\ q.queue # <<>> /\ q.engaged = p.engaged
  BY <1>2 DEF InPlace, SameWill
<1>5. Firm(p) => Firm(q)
  BY <1>2 DEF Firm, Sources, Within, Retries, Preloaded, SameTimes, SameFades, SameNext
<1>6. (Ground(p) => Ground(q)) /\ (Quiet(p) => Quiet(q))
  BY <1>2, <1>3 DEF Ground, SameTimes, Quiet, SameNext
<1>7. Firm(p) /\ SecondHeld(p) => Loadable(q)
  BY <1>2, <1>4, <1>5 DEF SecondHeld, Loadable, SameNext, SameWill
<1> QED
  BY <1>4, <1>5, <1>6, <1>7 DEF q

\* The place after this one, or the first.
NextPlace(p) == IF p.index = Len(p.queue) THEN 1 ELSE p.index + 1

LEMMA NextPlaceIs ==
    ASSUME NEW p \in Page, InPlace(p), p.queue # <<>>
    PROVE  NextPlace(p) \in 1..Len(p.queue)
<1>1. p.queue \in Seq(Songs) /\ p.index \in 1..Len(p.queue) /\ Len(p.queue) \in Nat
  BY Parts DEF InPlace
<1> QED
  BY <1>1 DEF NextPlace

LEMMA NextLoads ==
    ASSUME NEW p \in Page, Firm(p), InPlace(p), SecondHeld(p), p.queue # <<>>,
           p.repeat # "one", p.index # Len(p.queue) \/ p.repeat = "all"
    PROVE  Good(NextByItself(p))
<1> DEFINE q == Placed(p, NextPlace(p))
<1>1. NextPlace(p) \in 1..Len(p.queue) /\ NextPlace(p) \in Nat
  BY NextPlaceIs, Parts
<1>2. q \in Page /\ Loadable(q)
  BY <1>1, PlacedIs, PlacedKeeps
<1>3. NextByItself(p) = LoadCurrent(q, TRUE)
  BY DEF NextByItself, Placed, NextPlace
<1> HIDE DEF q
<1> QED
  BY <1>2, <1>3, LoadCurrentKeeps

\* What is left of a queue that ended, or was let go of at the end of a track.
Released(p, q) ==
    /\ SameTrack(p, q) /\ SameTimes(p, q) /\ SameFades(p, q) /\ q.el = p.el
    /\ ~q.engaged /\ q.preloadedFor = p.preloadedFor
    /\ q.astray = (p.astray \/ Running(p, Secondary(p)))

LEMMA ReleasedKeeps ==
    ASSUME NEW p \in Page, NEW q \in Page, Released(p, q), Steady(p), InPlace(p), OnTrack(p),
           Primary(p).paused, Primary(p).data = "ready"
    PROVE  Good(q) /\ Quiet(q)
<1>1. Primary(q) = Primary(p) /\ Second(q) = Second(p)
  BY DEF Released, Primary, Second, Secondary, SameFades
<1>2. Current(q) = Current(p) /\ InPlace(q)
  BY CurrentKept DEF Released
<1>3. /\ ChangePending(q) <=> ChangePending(p)
      /\ SeekPending(q) <=> SeekPending(p)
  BY PendingsKept DEF Released
<1>4. Firm(q)
  BY <1>1
  DEF Released, Steady, Firm, Sources, Within, Retries, Preloaded, SameTimes, SameFades
<1>5. Ground(q)
  BY <1>1, <1>3 DEF Released, Steady, Ground, SameTimes
<1>6. OnTrack(q)
  BY <1>1, <1>2, <1>3 DEF Released, OnTrack, SameTrack, SameTimes
<1>7. Quiet(q)
  BY <1>1 DEF Released, Quiet, Running, Runs, Second
<1>8. SecondHeld(q) /\ FirstHeld(q) /\ FailedWaits(q) /\ ReadyWaits(q)
  BY <1>1, <1>7 DEF Released, SecondHeld, Quiet, FirstHeld, Runs, FailedWaits, ReadyWaits
<1> QED
  BY <1>2, <1>4, <1>5, <1>6, <1>7, <1>8 DEF Good, Sound, Steady

LEMMA GoodIsMovable ==
    ASSUME NEW p, Good(p)
    PROVE  p \in Page /\ Movable(p) /\ Ground(p) /\ ReadyWaits(p) /\ Sound(p) /\ Steady(p)
BY SoundParts DEF Good, Movable, Sound

\* next() where the track ran out, or, with nothing left to play, will not.
LEMMA NextByItselfKeeps ==
    ASSUME NEW p \in Page, Sound(p), p.queue # <<>>,
           Primary(p).paused, Primary(p).data = "ready"
    PROVE  Good(NextByItself(p))
<1>1. Movable(p) /\ Steady(p) /\ 0 \in 0..Last
  BY SoundParts, Bounds DEF Movable, Sound
<1>2. CASE p.repeat = "one"
  <2>1. Sound(Seek(p, 0))
    BY <1>1, SeekKeeps
  <2>2. Good(Play(Seek(p, 0)))
    BY <2>1, PlayKeeps
  <2> QED
    BY <1>2, <2>2 DEF NextByItself
<1>3. CASE p.repeat # "one" /\ (p.index # Len(p.queue) \/ p.repeat = "all")
  BY <1>1, <1>3, NextLoads DEF Movable
<1>4. CASE p.repeat # "one" /\ p.index = Len(p.queue) /\ p.repeat # "all"
  <2> DEFINE lost == p.astray \/ Running(p, Secondary(p))
             q == [p EXCEPT !.engaged = FALSE, !.playing = FALSE, !.loading = FALSE,
                            !.astray = lost]
  <2>1. NextByItself(p) = q
    BY <1>4 DEF NextByItself
  <2>2. lost \in BOOLEAN
    BY Parts DEF Running
  <2> HIDE DEF lost
  <2>3. q \in Page
    BY <2>2, ZenonT(60) DEF Page
  <2>4. /\ SameTrack(p, q) /\ SameTimes(p, q) /\ SameFades(p, q) /\ q.el = p.el
        /\ ~q.engaged /\ q.preloadedFor = p.preloadedFor /\ q.astray = lost
    BY DEF Page, SameTrack, SameTimes, SameFades
  <2> HIDE DEF q
  <2>5. Released(p, q)
    BY <2>4 DEF Released, lost
  <2> QED
    BY <1>1, <2>1, <2>3, <2>5, ReleasedKeeps DEF Movable
<1> QED
  BY <1>2, <1>3, <1>4

LEMMA SleepKeeps ==
    ASSUME NEW p \in Page, Sound(p), p.queue # <<>>,
           Primary(p).paused, Primary(p).data = "ready"
    PROVE  Good(SleepAtTrackEnd(p))
<1> DEFINE lost == p.astray \/ Running(p, Secondary(p))
           q == [p EXCEPT !.sleep = FALSE, !.engaged = FALSE, !.playing = FALSE,
                          !.astray = lost]
           r == Placed(q, NextPlace(p))
<1>1. SleepAtTrackEnd(p) = IF p.repeat = "one" THEN Seek(q, 0)
                           ELSE IF p.index = Len(p.queue) /\ p.repeat # "all" THEN q
                           ELSE LoadCurrent(r, FALSE)
  BY DEF SleepAtTrackEnd, Placed, NextPlace
<1>2. lost \in BOOLEAN
  BY Parts DEF Running
<1> HIDE DEF lost
<1>3. q \in Page
  BY <1>2, ZenonT(60) DEF Page
<1>4. /\ SameTrack(p, q) /\ SameTimes(p, q) /\ SameFades(p, q) /\ q.el = p.el
      /\ ~q.engaged /\ q.preloadedFor = p.preloadedFor /\ q.astray = lost
  BY DEF Page, SameTrack, SameTimes, SameFades
<1> HIDE DEF q
<1>5. Movable(p) /\ Steady(p) /\ 0 \in 0..Last
  BY SoundParts, Bounds DEF Movable, Sound
<1>6. Released(p, q)
  BY <1>4 DEF Released, lost
<1>7. Good(q) /\ Quiet(q)
  BY <1>3, <1>5, <1>6, ReleasedKeeps DEF Movable
<1>8. Movable(q) /\ ReadyWaits(q)
  BY <1>7, GoodIsMovable
<1>9. CASE p.repeat = "one"
  <2>1. Sound(Seek(q, 0)) /\ ReadyWaits(Seek(q, 0))
    BY <1>3, <1>5, <1>8, SeekKeeps
  <2> QED
    BY <1>1, <1>9, <2>1 DEF Good
<1>10. CASE p.repeat # "one" /\ p.index = Len(p.queue) /\ p.repeat # "all"
  BY <1>1, <1>7, <1>10
<1>11. CASE p.repeat # "one" /\ ~(p.index = Len(p.queue) /\ p.repeat # "all")
  <2>1. NextPlace(p) \in 1..Len(p.queue) /\ NextPlace(p) \in Nat
    BY <1>5, NextPlaceIs, Parts DEF Movable
  <2>2. q.queue = p.queue
    BY <1>4 DEF SameTrack
  <2>3. r \in Page /\ Loadable(r) /\ r.engaged = q.engaged
    BY <1>3, <1>8, <2>1, <2>2, PlacedIs, PlacedKeeps DEF Movable
  <2> HIDE DEF r
  <2>4. Good(LoadCurrent(r, FALSE))
    BY <1>4, <2>3, LoadCurrentKeeps
  <2> QED
    BY <1>1, <1>11, <2>4
<1> QED
  BY <1>9, <1>10, <1>11

\* Past a track that will not play.
LEMMA SkipBrokenKeeps ==
    ASSUME NEW p \in Page, Failing(p), p.queue # <<>>
    PROVE  Good(SkipBroken(p))
<1> DEFINE skips == /\ p.engaged /\ p.repeat # "one" /\ p.skips < SkipLimit
                    /\ Following(p) \notin {NoSong, Current(p)}
           s == [p EXCEPT !.skips = @ + 1]
           g == [p EXCEPT !.engaged = FALSE]
<1>1. CASE skips
  <2>1. SkipBroken(p) = NextByItself(s)
    BY <1>1 DEF SkipBroken
  <2>2. p.skips + 1 \in Nat
    BY Parts
  <2>3. /\ s \in Page /\ SameTrack(p, s) /\ SameTimes(p, s) /\ SameWill(p, s)
        /\ SameFades(p, s) /\ SameNext(p, s) /\ s.el = p.el
    <3> DEFINE more == p.skips + 1
               t == [p EXCEPT !.skips = more]
    <3>1. s = t
      OBVIOUS
    <3> HIDE DEF more
    <3>2. /\ t \in Page /\ SameTrack(p, t) /\ SameTimes(p, t) /\ SameWill(p, t)
          /\ SameFades(p, t) /\ SameNext(p, t) /\ t.el = p.el
      BY <2>2, ZenonT(60)
      DEF Page, SameTrack, SameTimes, SameWill, SameFades, SameNext, more
    <3> QED
      BY <3>1, <3>2
  <2> HIDE DEF s
  <2>4. Primary(s) = Primary(p) /\ Second(s) = Second(p)
    BY <2>3 DEF Primary, Second, Secondary, SameFades
  <2>5. Firm(s)
    BY <2>3, <2>4
    DEF Failing, Steady, Firm, Sources, Within, Retries, Preloaded, SameTimes, SameFades, SameNext
  <2>6. InPlace(s) /\ SecondHeld(s)
    BY <2>3, <2>4, CurrentKept DEF Failing, SecondHeld, SameNext, SameWill, SameTrack
  <2>7. s.queue # <<>> /\ s.repeat # "one" /\ (s.index # Len(s.queue) \/ s.repeat = "all")
    <3>1. p.index \in Nat /\ Len(p.queue) \in Nat /\ p.index <= Len(p.queue)
      BY Parts DEF Failing, InPlace
    <3> QED
      BY <1>1, <2>3, <3>1 DEF SameTrack, Following
  <2> QED
    BY <2>1, <2>3, <2>5, <2>6, <2>7, NextLoads
<1>2. CASE ~skips
  <2>1. SkipBroken(p) = GiveUp(g)
    BY <1>2 DEF SkipBroken
  <2>2. /\ g \in Page /\ SameTrack(p, g) /\ SameTimes(p, g)
        /\ SameFades(p, g) /\ SameNext(p, g) /\ ~g.engaged
        /\ Primary(g) = Primary(p) /\ Second(g) = Second(p)
    BY ZenonT(60)
    DEF Page, SameTrack, SameTimes, SameFades, SameNext, Primary, Second, Secondary
  <2> HIDE DEF g
  <2>3. Current(g) = Current(p) /\ InPlace(g)
    BY <2>2, CurrentKept DEF Failing
  <2>4. /\ ChangePending(g) <=> ChangePending(p)
        /\ SeekPending(g) <=> SeekPending(p)
    BY <2>2, PendingsKept
  <2>5. Firm(g)
    BY <2>2
    DEF Failing, Steady, Firm, Sources, Within, Retries, Preloaded, SameTimes, SameFades, SameNext
  <2>6. Ground(g)
    BY <2>2, <2>4 DEF Failing, Steady, Ground, SameTimes
  <2>7. OnTrack(g)
    BY <2>2, <2>3, <2>4 DEF Failing, OnTrack, SameTrack, SameTimes
  <2> QED
    BY <2>1, <2>2, <2>3, <2>5, <2>6, <2>7, GiveUpKeeps DEF Steady
<1> QED
  BY <1>1, <1>2

-----------------------------------------------------------------------------
(* What the properties alone can tell *)

LEMMA SameKept ==
    ASSUME NEW p \in Page, NEW q \in Page, Same(p, q)
    PROVE  /\ Primary(q) = Primary(p) /\ Second(q) = Second(p) /\ Current(q) = Current(p)
           /\ Firm(p) => Firm(q)
           /\ Ground(p) => Ground(q)
           /\ Sound(p) => Sound(q)
           /\ Good(p) => Good(q)
           /\ Failing(p) => Failing(q)
<1>1. /\ SameTrack(p, q) /\ SameTimes(p, q) /\ SameWill(p, q) /\ SameFades(p, q)
      /\ SameNext(p, q) /\ q.el = p.el
  BY DEF Same
<1>2. Primary(q) = Primary(p) /\ Second(q) = Second(p)
  BY <1>1 DEF Primary, Second, Secondary, SameFades
<1>3. /\ Current(q) = Current(p) /\ (InPlace(p) => InPlace(q))
      /\ Ground(p) => Ground(q)
      /\ OnTrack(p) => OnTrack(q)
      /\ FirstHeld(p) => FirstHeld(q)
      /\ FailedWaits(p) => FailedWaits(q)
      /\ ReadyWaits(p) => ReadyWaits(q)
  BY <1>1, <1>2, FirstKept DEF SameNext
<1>4. Firm(p) => Firm(q)
  BY <1>1, <1>2
  DEF Firm, Sources, Within, Retries, Preloaded, SameTimes, SameFades, SameNext
<1>5. SecondHeld(p) => SecondHeld(q)
  BY <1>1, <1>2 DEF SecondHeld, SameNext, SameWill, SameTrack
<1> QED
  BY <1>2, <1>3, <1>4, <1>5 DEF Good, Sound, Failing, Steady

LEMMA SettledKeeps ==
    ASSUME NEW p, Good(p)
    PROVE  Good(Settled(p))
<1> DEFINE lost == p.astray /\ \/ Running(p, Secondary(p))
                               \/ (~p.engaged /\ Running(p, p.primary))
           q == [p EXCEPT !.astray = lost]
<1>1. /\ p \in Page /\ Firm(p) /\ Sources(p) /\ Within(p) /\ Retries(p) /\ Preloaded(p)
      /\ Ground(p) /\ InPlace(p) /\ OnTrack(p) /\ SecondHeld(p) /\ FirstHeld(p)
      /\ FailedWaits(p) /\ ReadyWaits(p)
  BY SoundParts DEF Good
<1>2. Settled(p) = q
  BY DEF Settled
<1>3. /\ lost \in BOOLEAN
      /\ ~lost => \/ ~p.astray
                  \/ ~Runs(Second(p)) /\ (p.engaged \/ ~Runs(Primary(p)))
  BY <1>1, Parts DEF Running, Runs, Second, Primary
<1> HIDE DEF lost
<1>4. /\ q \in Page /\ SameTrack(p, q) /\ SameTimes(p, q) /\ SameWill(p, q)
      /\ SameFades(p, q) /\ q.el = p.el /\ q.astray = lost
      /\ q.preloadedFor = p.preloadedFor /\ q.ramp = p.ramp /\ q.wrapped = p.wrapped
  BY <1>1, <1>3, SMTT(30) DEF Page, SameTrack, SameTimes, SameWill, SameFades
<1> HIDE DEF q
<1>5. Primary(q) = Primary(p) /\ Second(q) = Second(p)
  BY <1>4 DEF Primary, Second, Secondary, SameFades
<1>6. InPlace(q) /\ Ground(q) /\ OnTrack(q) /\ FailedWaits(q) /\ ReadyWaits(q)
  BY <1>1, <1>4, <1>5, FirstKept
<1>7. Firm(q)
  BY <1>1, <1>4, <1>5 DEF Firm, Sources, Within, Retries, Preloaded, SameTimes, SameFades
<1>8. SecondHeld(q)
  BY <1>1, <1>3, <1>4, <1>5 DEF SecondHeld, SameWill, SameTrack
<1>9. PausePending(q) <=> PausePending(p)
  BY <1>4, PendingsKept
<1>10. FirstHeld(q)
  BY <1>1, <1>3, <1>4, <1>5, <1>9 DEF FirstHeld, SameWill
<1> QED
  BY <1>2, <1>6, <1>7, <1>8, <1>10 DEF Good, Sound, Steady

-----------------------------------------------------------------------------
(* What arrives of the first element's track *)

DataSet(p, d) == [p EXCEPT !.el[p.primary].data = d]

LEMMA DataSetIs ==
    ASSUME NEW p \in Page, NEW d \in {"ready", "stalled", "failed"}
    PROVE  LET q == DataSet(p, d)
           IN /\ q \in Page /\ SameTrack(p, q) /\ SameTimes(p, q) /\ SameWill(p, q)
              /\ SameFades(p, q) /\ SameNext(p, q)
              /\ Primary(q).src = Primary(p).src /\ Primary(q).paused = Primary(p).paused
              /\ Primary(q).at = Primary(p).at /\ Primary(q).data = d
              /\ Second(q) = Second(p)
<1> DEFINE x == [Primary(p) EXCEPT !.data = d]
           f == [p.el EXCEPT ![p.primary] = x]
           q == [p EXCEPT !.el = f]
<1>1. Primary(p) \in Element
  BY Two, ElementParts DEF Primary
<1>2. x \in Element
  BY <1>1, ElementTypes
<1>3. f \in [Elements -> Element] /\ f[p.primary] = x /\ f[Secondary(p)] = p.el[Secondary(p)]
  BY <1>2, Two, Parts
<1>4. DataSet(p, d) = q
  BY Two, Parts DEF DataSet, Page, Primary
<1> HIDE DEF f
<1>5. q \in Page
  BY <1>3, ZenonT(60) DEF Page
<1>6. /\ q.el = f
      /\ SameTrack(p, q) /\ SameTimes(p, q) /\ SameWill(p, q) /\ SameFades(p, q)
      /\ SameNext(p, q)
  BY DEF Page, SameTrack, SameTimes, SameWill, SameFades, SameNext
<1> HIDE DEF q
<1>7. Primary(q) = x /\ Second(q) = Second(p)
  BY <1>3, <1>6 DEF Primary, Second, Secondary, SameFades
<1>8. x.src = Primary(p).src /\ x.paused = Primary(p).paused /\ x.at = Primary(p).at /\ x.data = d
  BY <1>1 DEF Element
<1> HIDE DEF x
<1> QED
  BY <1>4, <1>5, <1>6, <1>7, <1>8

LEMMA DataSetKeeps ==
    ASSUME NEW p \in Page, Firm(p), NEW d \in {"ready", "stalled", "failed"},
           Primary(p).data \in {"opening", "ready", "stalled"},
           d = "stalled" => Primary(p).at # End
    PROVE  LET q == DataSet(p, d)
           IN /\ Firm(q)
              /\ Ground(p) /\ (d = "failed" \/ Primary(p).data # "opening") => Ground(q)
              /\ InPlace(p) => InPlace(q)
              /\ OnTrack(p) => OnTrack(q)
              /\ SecondHeld(p) => SecondHeld(q)
              /\ FirstHeld(p) => FirstHeld(q)
<1> DEFINE q == DataSet(p, d)
<1>1. /\ q \in Page /\ SameTrack(p, q) /\ SameTimes(p, q) /\ SameWill(p, q)
      /\ SameFades(p, q) /\ SameNext(p, q)
      /\ Primary(q).src = Primary(p).src /\ Primary(q).paused = Primary(p).paused
      /\ Primary(q).at = Primary(p).at /\ Primary(q).data = d
      /\ Second(q) = Second(p)
  BY DataSetIs
<1> HIDE DEF q
<1>2. Current(q) = Current(p) /\ (InPlace(p) => InPlace(q))
  BY <1>1, CurrentKept
<1>3. /\ ChangePending(q) <=> ChangePending(p)
      /\ SeekPending(q) <=> SeekPending(p)
      /\ PausePending(q) <=> PausePending(p)
  BY <1>1, PendingsKept
<1>4. Sources(p) /\ Primary(p).src # NoSong
  BY EmptyIs DEF Firm, Sources, Sourced
<1>5. Sources(q)
  BY <1>1, <1>4 DEF Sources, Sourced, Inside
<1>6. Firm(q)
  BY <1>1, <1>5 DEF Firm, Within, Retries, Preloaded, SameTimes, SameFades, SameNext
<1>7. Ground(p) /\ (d = "failed" \/ Primary(p).data # "opening") => Ground(q)
  BY <1>1, <1>3 DEF Ground, SameTimes
<1>8. OnTrack(p) => OnTrack(q)
  BY <1>1, <1>2, <1>3 DEF OnTrack, SameTimes, SameWill, SameTrack
<1>9. SecondHeld(p) => SecondHeld(q)
  BY <1>1 DEF SecondHeld, SameNext, SameWill, SameTrack
<1>10. FirstHeld(p) => FirstHeld(q)
  BY <1>1, <1>3 DEF FirstHeld, Runs, SameNext, SameWill
<1> QED
  BY <1>2, <1>6, <1>7, <1>8, <1>9, <1>10 DEF q

LEMMA PlayingEventKeeps ==
    ASSUME NEW p \in Page, Sound(p), Primary(p).data = "ready", ~Primary(p).paused
    PROVE  Good(PlayingEvent(p))
<1> DEFINE c == CancelRecovery(p)
           q == [c EXCEPT !.loading = FALSE, !.skips = 0, !.error = FALSE]
<1>1. /\ p \in Page /\ Firm(p) /\ Sources(p) /\ Within(p) /\ Retries(p) /\ Preloaded(p)
      /\ Ground(p) /\ InPlace(p) /\ OnTrack(p) /\ SecondHeld(p) /\ FirstHeld(p)
  BY SoundParts
<1>2. /\ c \in Page /\ c.retry = NoRetry
      /\ SameTrack(p, c) /\ SameWill(p, c) /\ SameFades(p, c) /\ SameNext(p, c)
      /\ c.time = p.time /\ c.pendingSeek = p.pendingSeek /\ c.sought = p.sought
      /\ c.el = p.el
  BY CancelIs
<1>3. PlayingEvent(p) = q
  BY DEF PlayingEvent
<1> HIDE DEF c
<1>4. q \in Page
  BY <1>2, ZenonT(60) DEF Page
<1>5. /\ q.retry = c.retry /\ q.el = c.el /\ q.engaged = c.engaged
      /\ q.time = c.time /\ q.pendingSeek = c.pendingSeek /\ q.sought = c.sought
  BY <1>2 DEF Page
<1>6. /\ q \in Page /\ q.retry = c.retry /\ q.el = c.el /\ q.engaged = c.engaged
      /\ q.time = c.time /\ q.pendingSeek = c.pendingSeek /\ q.sought = c.sought
  BY <1>4, <1>5
<1>7. SameTrack(c, q) /\ SameFades(c, q) /\ SameNext(c, q)
  BY <1>2 DEF Page, SameTrack, SameFades, SameNext
<1> HIDE DEF q
<1>8. /\ SameTrack(p, q) /\ SameFades(p, q) /\ SameNext(p, q)
      /\ q.engaged = p.engaged /\ q.retry = NoRetry
  BY <1>2, <1>6, <1>7 DEF SameTrack, SameFades, SameNext, SameWill
<1>9. Primary(q) = Primary(p) /\ Second(q) = Second(p)
  BY <1>2, <1>6, <1>8 DEF Primary, Second, Secondary, SameFades
<1>10. Current(q) = Current(p) /\ InPlace(q)
  BY <1>1, <1>8, CurrentKept
<1>11. /\ ChangePending(q) <=> ChangePending(p)
       /\ SeekPending(q) <=> SeekPending(p)
       /\ PausePending(q) <=> PausePending(p)
  BY <1>8, PendingsKept
<1>12. Firm(q)
  BY <1>1, <1>2, <1>6, <1>8, <1>9
  DEF Firm, Sources, Within, Retries, Preloaded, SameFades, SameNext
<1>13. Ground(q)
  BY <1>1, <1>2, <1>6, <1>8, <1>9, <1>11 DEF Ground
<1>14. OnTrack(q)
  BY <1>1, <1>8, <1>9, <1>10, <1>11 DEF OnTrack, SameTrack
<1>15. SecondHeld(q) /\ FirstHeld(q)
  BY <1>1, <1>8, <1>9, <1>11 DEF SecondHeld, FirstHeld, SameNext, SameTrack
<1>16. FailedWaits(q) /\ ReadyWaits(q)
  BY <1>9 DEF FailedWaits, ReadyWaits
<1> QED
  BY <1>3, <1>10, <1>12, <1>13, <1>14, <1>15, <1>16 DEF Good, Sound, Steady

\* A position let go of: nothing is promised of the bar.
LEMMA LetGoKeeps ==
    ASSUME NEW p \in Page, Movable(p)
    PROVE  LET q == [p EXCEPT !.sought = TRUE]
           IN Sound(q) /\ Primary(q).data = Primary(p).data
<1> DEFINE q == [p EXCEPT !.sought = TRUE]
<1>1. /\ q \in Page /\ q.sought /\ SameTrack(p, q) /\ SameWill(p, q) /\ SameFades(p, q)
      /\ SameNext(p, q) /\ q.time = p.time /\ q.pendingSeek = p.pendingSeek
      /\ q.retry = p.retry /\ q.el = p.el
  BY ZenonT(60) DEF Page, SameTrack, SameWill, SameFades, SameNext
<1> HIDE DEF q
<1>2. Primary(q) = Primary(p) /\ Second(q) = Second(p)
  BY <1>1 DEF Primary, Second, Secondary, SameFades
<1>3. Current(q) = Current(p) /\ InPlace(q)
  BY <1>1, CurrentKept DEF Movable
<1>4. /\ ChangePending(q) <=> ChangePending(p)
      /\ SeekPending(q) <=> SeekPending(p)
      /\ PausePending(q) <=> PausePending(p)
  BY <1>1, PendingsKept
<1>5. Firm(q)
  BY <1>1, <1>2
  DEF Movable, Firm, Sources, Within, Retries, Preloaded, SameFades, SameNext
<1>6. OnTrack(q)
  BY <1>1, <1>2, <1>3, <1>4 DEF Movable, OnTrack, SameTrack, SameWill
<1>7. SecondHeld(q)
  BY <1>1, <1>2 DEF Movable, SecondHeld, SameNext, SameWill, SameTrack
<1>8. FirstHeld(q) /\ FailedWaits(q)
  BY <1>1, <1>2, <1>3, <1>4 DEF Movable, FirstHeld, FailedWaits, SameNext, SameWill, SameFades
<1>9. Ground(q)
  BY <1>1 DEF Ground
<1>10. Sound(q)
  BY <1>3, <1>5, <1>6, <1>7, <1>8, <1>9 DEF Sound, Steady
<1> QED
  BY <1>2, <1>10 DEF q

LEMMA LoadedEventKeeps ==
    ASSUME NEW p, Good(p), Primary(p).data = "opening", NEW within \in BOOLEAN
    PROVE  Good(LoadedEvent(p, within))
<1> DEFINE d == DataSet(p, "ready")
           a == [d EXCEPT !.loading = FALSE, !.pendingSeek = Nowhere]
           gone == [a EXCEPT !.sought = TRUE]
           b == IF p.pendingSeek \in {Nowhere, 0} THEN a
                ELSE IF within THEN Seek(a, p.pendingSeek) ELSE gone
<1>1. /\ p \in Page /\ Firm(p) /\ Sources(p) /\ Within(p) /\ Retries(p) /\ Preloaded(p)
      /\ Ground(p) /\ InPlace(p) /\ OnTrack(p) /\ SecondHeld(p) /\ FirstHeld(p)
  BY SoundParts DEF Good
<1>2. LoadedEvent(p, within) = IF ~Primary(b).paused THEN PlayingEvent(b)
                       ELSE IF b.engaged THEN ElementPlay(b) ELSE b
  BY DEF LoadedEvent, DataSet
<1>3. /\ d \in Page /\ SameTrack(p, d) /\ SameTimes(p, d) /\ SameWill(p, d)
      /\ SameFades(p, d) /\ SameNext(p, d)
      /\ Primary(d).at = Primary(p).at /\ Primary(d).data = "ready"
      /\ Second(d) = Second(p)
  BY <1>1, DataSetIs
<1>4. Firm(d) /\ InPlace(d) /\ OnTrack(d) /\ SecondHeld(d) /\ FirstHeld(d)
  BY <1>1, DataSetKeeps
<1> HIDE DEF d
<1>5. /\ a \in Page /\ SameTrack(d, a) /\ SameWill(d, a)
      /\ SameFades(d, a) /\ SameNext(d, a) /\ a.el = d.el
      /\ a.time = d.time /\ a.retry = d.retry /\ a.sought = d.sought
      /\ a.pendingSeek = Nowhere
  BY <1>3, ZenonT(60) DEF Page, SameTrack, SameWill, SameFades, SameNext
<1> HIDE DEF a
<1>6. Primary(a) = Primary(d) /\ Second(a) = Second(d)
  BY <1>5 DEF Primary, Second, Secondary, SameFades
<1>7. Current(a) = Current(d) /\ InPlace(a)
  BY <1>4, <1>5, CurrentKept
<1>8. /\ ChangePending(a) <=> ChangePending(d)
      /\ SeekPending(a) <=> SeekPending(d)
      /\ PausePending(a) <=> PausePending(d)
  BY <1>5, PendingsKept
<1>9. SeekPending(d) <=> SeekPending(p)
  BY <1>3, PendingsKept
<1>10. Firm(a)
  BY <1>4, <1>5, <1>6, Bounds
  DEF Firm, Sources, Within, Retries, Preloaded, SameFades, SameNext
<1>11. OnTrack(a)
  BY <1>4, <1>5, <1>6, <1>7, <1>8 DEF OnTrack, SameTrack, SameWill
<1>12. SecondHeld(a)
  BY <1>4, <1>5, <1>6 DEF SecondHeld, SameNext, SameWill, SameTrack
<1>13. FirstHeld(a) /\ FailedWaits(a)
  BY <1>3, <1>4, <1>5, <1>6, <1>8 DEF FirstHeld, FailedWaits, SameNext, SameWill
<1>14. Movable(a)
  BY <1>7, <1>10, <1>11, <1>12, <1>13 DEF Movable
<1>15. Sound(b) /\ Primary(b).data = "ready"
  <2>1. CASE p.pendingSeek \in {Nowhere, 0}
    <3>1. Primary(p).at \in Positions
      BY <1>1, Two, ElementParts DEF Primary
    <3>2. Ground(a)
      BY <1>1, <1>3, <1>5, <1>6, <1>8, <1>9, <2>1, <3>1, Bounds DEF Ground, SameTimes
    <3>3. b = a
      BY <2>1
    <3> QED
      BY <1>3, <1>6, <1>14, <3>2, <3>3 DEF Sound, Steady, Movable
  <2>2. CASE p.pendingSeek \notin {Nowhere, 0} /\ within
    <3>1. p.pendingSeek \in 0..Last
      BY <1>1, <2>2, Parts, Bounds DEF Within
    <3>2. b = Seek(a, p.pendingSeek)
      BY <2>2
    <3> HIDE DEF b
    <3>3. Sound(Seek(a, p.pendingSeek))
          /\ Primary(Seek(a, p.pendingSeek)).data = Primary(a).data
      BY <1>5, <1>14, <3>1, SeekKeeps
    <3> QED
      BY <1>3, <1>6, <3>2, <3>3
  <2>3. CASE p.pendingSeek \notin {Nowhere, 0} /\ ~within
    <3>1. b = gone
      BY <2>3
    <3>2. Sound(gone) /\ Primary(gone).data = Primary(a).data
      BY <1>5, <1>14, LetGoKeeps
    <3> QED
      BY <1>3, <1>6, <3>1, <3>2
  <2> QED
    BY <2>1, <2>2, <2>3
<1> HIDE DEF b
<1>16. CASE ~Primary(b).paused
  <2>1. b \in Page
    BY <1>15, SoundParts
  <2> QED
    BY <1>2, <1>15, <1>16, <2>1, PlayingEventKeeps
<1>17. CASE Primary(b).paused /\ b.engaged
  BY <1>2, <1>15, <1>17, ElementPlayKeeps
<1>18. CASE Primary(b).paused /\ ~b.engaged
  BY <1>2, <1>15, <1>18 DEF Good, ReadyWaits
<1> QED
  BY <1>16, <1>17, <1>18

LEMMA ResumesKeeps ==
    ASSUME NEW p, Good(p), Primary(p).data = "stalled"
    PROVE  LET q == DataSet(p, "ready")
           IN Good(IF ~Primary(q).paused THEN PlayingEvent(q)
                   ELSE IF q.engaged THEN ElementPlay(q) ELSE q)
<1> DEFINE q == DataSet(p, "ready")
<1>1. /\ p \in Page /\ Firm(p) /\ Ground(p) /\ InPlace(p) /\ OnTrack(p) /\ SecondHeld(p)
      /\ FirstHeld(p)
  BY SoundParts DEF Good
<1>2. q \in Page /\ Primary(q).data = "ready"
  BY <1>1, DataSetIs
<1>3. /\ Firm(q) /\ Ground(q) /\ InPlace(q) /\ OnTrack(q) /\ SecondHeld(q) /\ FirstHeld(q)
  BY <1>1, DataSetKeeps
<1> HIDE DEF q
<1>4. Sound(q)
  BY <1>2, <1>3 DEF Sound, Steady, FailedWaits
<1>5. CASE ~Primary(q).paused
  BY <1>2, <1>4, <1>5, PlayingEventKeeps DEF q
<1>6. CASE Primary(q).paused /\ q.engaged
  BY <1>4, <1>6, ElementPlayKeeps DEF q
<1>7. CASE Primary(q).paused /\ ~q.engaged
  BY <1>4, <1>7 DEF Good, ReadyWaits, q
<1> QED
  BY <1>5, <1>6, <1>7

LEMMA StallsKeeps ==
    ASSUME NEW p, Good(p), Sounding(p, p.primary)
    PROVE  LET d == DataSet(p, "stalled")
           IN Good([d EXCEPT !.loading = TRUE, !.stall = p.engaged])
<1> DEFINE d == DataSet(p, "stalled")
           q == [d EXCEPT !.loading = TRUE, !.stall = p.engaged]
<1>1. /\ p \in Page /\ Firm(p) /\ Ground(p) /\ InPlace(p) /\ OnTrack(p) /\ SecondHeld(p)
      /\ FirstHeld(p)
  BY SoundParts DEF Good
<1>2. Primary(p).data = "ready" /\ Primary(p).at # End
  BY <1>1, Two, ElementParts, Bounds DEF Sounding, Primary
<1>3. d \in Page /\ Primary(d).data = "stalled"
  BY <1>1, DataSetIs
<1>4. /\ Firm(d) /\ Ground(d) /\ InPlace(d) /\ OnTrack(d) /\ SecondHeld(d) /\ FirstHeld(d)
  BY <1>1, <1>2, DataSetKeeps
<1> HIDE DEF d
<1>5. Good(d)
  BY <1>3, <1>4 DEF Good, Sound, Steady, FailedWaits, ReadyWaits
<1>6. p.engaged \in BOOLEAN
  BY <1>1, Parts
<1>7. q \in Page /\ Same(d, q)
  BY <1>3, <1>6, ZenonT(60)
  DEF Page, Same, SameTrack, SameTimes, SameWill, SameFades, SameNext
<1> QED
  BY <1>3, <1>5, <1>7, SameKept DEF d

\* What fails is changed, asked for again, asked about, or given up.
LEMMA FailsKeeps ==
    ASSUME NEW p, Good(p), Primary(p).data \in {"opening", "ready", "stalled"}
    PROVE  LET q == DataSet(p, "failed")
           IN /\ Current(q) # NoSong
              /\ Good(SkipBroken(q))
              /\ Good(RecoverOrGiveUp(q))
              /\ Good([q EXCEPT !.asking =
                           @ \cup {[element |-> q.primary, song |-> Current(q)]}])
<1> DEFINE q == DataSet(p, "failed")
<1>1. /\ p \in Page /\ Firm(p) /\ Sources(p) /\ Ground(p) /\ InPlace(p) /\ OnTrack(p)
      /\ SecondHeld(p) /\ FirstHeld(p)
  BY SoundParts DEF Good
<1>2. q \in Page /\ Primary(q).data = "failed" /\ SameTrack(p, q)
  BY <1>1, DataSetIs
<1>3. /\ Firm(q) /\ Ground(q) /\ InPlace(q) /\ OnTrack(q) /\ SecondHeld(q) /\ FirstHeld(q)
  BY <1>1, DataSetKeeps
<1>4. Primary(p).src # NoSong
  BY <1>1, EmptyIs DEF Sources, Sourced
<1>5. q.queue # <<>>
  BY <1>1, <1>2, <1>4 DEF OnTrack, SameTrack
<1> HIDE DEF q
<1>6. Current(q) \in Songs /\ Current(q) # NoSong
  BY <1>2, <1>3, <1>5, CurrentIs
<1>7. Failing(q)
  BY <1>2, <1>3 DEF Failing, Steady, ReadyWaits
<1>8. Good(SkipBroken(q)) /\ Good(RecoverOrGiveUp(q))
  BY <1>2, <1>5, <1>7, SkipBrokenKeeps, RecoverOrGiveUpKeeps
<1> DEFINE asked == q.asking \cup {[element |-> q.primary, song |-> Current(q)]}
           r == [q EXCEPT !.asking = asked]
<1>9. asked \in SUBSET [element : Elements, song : Songs]
  BY <1>2, <1>6, Parts, Two
<1>10. [element |-> q.primary, song |-> Current(q)] \in asked
  OBVIOUS
<1> HIDE DEF asked
<1>11. /\ r \in Page /\ SameTrack(q, r) /\ SameTimes(q, r) /\ SameFades(q, r) /\ SameNext(q, r)
       /\ r.el = q.el /\ r.engaged = q.engaged /\ r.asking = asked
  BY <1>2, <1>9, ZenonT(60) DEF Page, SameTrack, SameTimes, SameFades, SameNext
<1> HIDE DEF r
<1>12. Primary(r) = Primary(q) /\ Second(r) = Second(q)
  BY <1>11 DEF Primary, Second, Secondary, SameFades
<1>13. Current(r) = Current(q) /\ InPlace(r)
  BY <1>3, <1>11, CurrentKept
<1>14. /\ ChangePending(r) <=> ChangePending(q)
       /\ SeekPending(r) <=> SeekPending(q)
       /\ PausePending(r) <=> PausePending(q)
  BY <1>11, PendingsKept
<1>15. Firm(r)
  BY <1>3, <1>11, <1>12
  DEF Firm, Sources, Within, Retries, Preloaded, SameTimes, SameFades, SameNext
<1>16. Ground(r)
  BY <1>3, <1>11, <1>12, <1>14 DEF Ground, SameTimes
<1>17. OnTrack(r)
  BY <1>3, <1>11, <1>12, <1>13, <1>14 DEF OnTrack, SameTrack, SameTimes
<1>18. SecondHeld(r) /\ FirstHeld(r)
  BY <1>3, <1>11, <1>12, <1>14 DEF SecondHeld, FirstHeld, SameNext, SameTrack
<1>19. FailedWaits(r) /\ ReadyWaits(r)
  BY <1>2, <1>10, <1>11, <1>12, <1>13 DEF FailedWaits, ReadyWaits, SameFades
<1>20. Good(r)
  BY <1>13, <1>15, <1>16, <1>17, <1>18, <1>19 DEF Good, Sound, Steady
<1> QED
  BY <1>6, <1>8, <1>20 DEF q, r, asked

-----------------------------------------------------------------------------
(* What the second element does *)

SecondSet(p, y) == [p EXCEPT !.el[Secondary(p)] = y]

LEMMA SecondSetIs ==
    ASSUME NEW p \in Page, NEW y \in Element
    PROVE  LET q == SecondSet(p, y)
           IN /\ q \in Page /\ SameTrack(p, q) /\ SameTimes(p, q) /\ SameWill(p, q)
              /\ SameFades(p, q) /\ SameNext(p, q)
              /\ Primary(q) = Primary(p) /\ Second(q) = y
<1> DEFINE f == [p.el EXCEPT ![Secondary(p)] = y]
           q == [p EXCEPT !.el = f]
<1>1. f \in [Elements -> Element] /\ f[Secondary(p)] = y /\ f[p.primary] = p.el[p.primary]
  BY Two, Parts
<1>2. SecondSet(p, y) = q
  BY DEF SecondSet
<1> HIDE DEF f
<1>3. q \in Page
  BY <1>1 DEF Page
<1>4. /\ q.el = f
      /\ SameTrack(p, q) /\ SameTimes(p, q) /\ SameWill(p, q) /\ SameFades(p, q)
      /\ SameNext(p, q)
  BY DEF Page, SameTrack, SameTimes, SameWill, SameFades, SameNext
<1> HIDE DEF q
<1>5. Primary(q) = Primary(p) /\ Second(q) = y
  BY <1>1, <1>4 DEF Primary, Second, Secondary, SameFades
<1> QED
  BY <1>2, <1>3, <1>4, <1>5

LEMMA SecondSetKeeps ==
    ASSUME NEW p, Good(p), NEW y \in Element, Sourced(y), Inside(y), y.data # "stalled",
           y.src = Second(p).src, Runs(y) => Runs(Second(p))
    PROVE  Good(SecondSet(p, y))
<1> DEFINE q == SecondSet(p, y)
<1>1. /\ p \in Page /\ Firm(p) /\ Sources(p) /\ Within(p) /\ Retries(p) /\ Preloaded(p)
      /\ Ground(p) /\ InPlace(p) /\ OnTrack(p) /\ SecondHeld(p) /\ FirstHeld(p)
      /\ FailedWaits(p) /\ ReadyWaits(p)
  BY SoundParts DEF Good
<1>2. /\ q \in Page /\ SameTrack(p, q) /\ SameTimes(p, q) /\ SameWill(p, q)
      /\ SameFades(p, q) /\ SameNext(p, q)
      /\ Primary(q) = Primary(p) /\ Second(q) = y
  BY <1>1, SecondSetIs
<1> HIDE DEF q
<1>3. /\ InPlace(q) /\ Ground(q) /\ Within(q) /\ Retries(q) /\ OnTrack(q) /\ FirstHeld(q)
      /\ FailedWaits(q) /\ ReadyWaits(q)
  BY <1>1, <1>2, FirstKept DEF SameNext
<1>4. Sources(q) /\ Preloaded(q)
  BY <1>1, <1>2 DEF Sources, Preloaded, SameNext
<1>5. SecondHeld(q)
  BY <1>1, <1>2 DEF SecondHeld, SameNext, SameWill, SameTrack
<1> QED
  BY <1>2, <1>3, <1>4, <1>5 DEF Good, Sound, Steady, Firm, q

LEMMA SecondIs ==
    ASSUME NEW p, Good(p)
    PROVE  /\ p \in Page /\ Second(p) \in Element /\ Sourced(Second(p)) /\ Inside(Second(p))
           /\ Second(p).data # "stalled"
           /\ Second(p).data # "none" => Second(p).src # NoSong
<1>1. p \in Page /\ Sources(p)
  BY SoundParts DEF Good
<1>2. Second(p) \in Element
  BY <1>1, Two, ElementParts DEF Second
<1> QED
  BY <1>1, <1>2, EmptyIs DEF Sources, Sourced

LEMMA BuffersKeeps ==
    ASSUME NEW p, Good(p), Second(p).data = "opening"
    PROVE  Good([p EXCEPT !.el[Secondary(p)].data = "ready"])
<1> DEFINE y == [Second(p) EXCEPT !.data = "ready"]
<1>1. /\ Second(p) \in Element /\ Inside(Second(p)) /\ Second(p).src # NoSong /\ p \in Page
  BY SecondIs
<1>2. y \in Element
  BY <1>1, ElementTypes
<1>3. /\ y.src = Second(p).src /\ y.paused = Second(p).paused /\ y.at = Second(p).at
      /\ y.data = "ready"
  BY <1>1 DEF Element
<1>4. Sourced(y) /\ Inside(y) /\ (Runs(y) => Runs(Second(p)))
  BY <1>1, <1>3 DEF Sourced, Inside, Runs
<1>5. [p EXCEPT !.el[Secondary(p)].data = "ready"] = SecondSet(p, y)
  BY <1>1, Two, Parts DEF SecondSet, Second, Page
<1> HIDE DEF y
<1> QED
  BY <1>2, <1>3, <1>4, <1>5, SecondSetKeeps

LEMMA SecondaryFailsKeeps ==
    ASSUME NEW p, Good(p), Second(p).data \in {"opening", "ready"}
    PROVE  Good([p EXCEPT !.el[Secondary(p)].data = "failed"])
<1> DEFINE y == [Second(p) EXCEPT !.data = "failed"]
<1>1. /\ Second(p) \in Element /\ Inside(Second(p)) /\ Second(p).src # NoSong /\ p \in Page
  BY SecondIs
<1>2. y \in Element
  BY <1>1, ElementTypes
<1>3. /\ y.src = Second(p).src /\ y.paused = Second(p).paused /\ y.at = Second(p).at
      /\ y.data = "failed"
  BY <1>1 DEF Element
<1>4. Sourced(y) /\ Inside(y) /\ (Runs(y) => Runs(Second(p)))
  BY <1>1, <1>3 DEF Sourced, Inside, Runs
<1>5. [p EXCEPT !.el[Secondary(p)].data = "failed"] = SecondSet(p, y)
  BY <1>1, Two, Parts DEF SecondSet, Second, Page
<1> HIDE DEF y
<1> QED
  BY <1>2, <1>3, <1>4, <1>5, SecondSetKeeps

LEMMA SecondStopsKeeps ==
    ASSUME NEW p, Good(p)
    PROVE  Good([p EXCEPT !.el[Secondary(p)].paused = TRUE])
<1> DEFINE y == [Second(p) EXCEPT !.paused = TRUE]
<1>1. /\ Second(p) \in Element /\ Inside(Second(p)) /\ Sourced(Second(p)) /\ p \in Page
      /\ Second(p).data # "stalled"
  BY SecondIs
<1>2. y \in Element
  BY <1>1, ElementTypes
<1>3. /\ y.src = Second(p).src /\ y.paused /\ y.at = Second(p).at
      /\ y.data = Second(p).data
  BY <1>1 DEF Element
<1>4. Second(p) = Empty => y = Empty
  BY EmptyIs
<1>5. [p EXCEPT !.el[Secondary(p)].paused = TRUE] = SecondSet(p, y)
  BY <1>1, Two, Parts DEF SecondSet, Second, Page
<1> HIDE DEF y
<1>6. Sourced(y) /\ Inside(y) /\ (Runs(y) => Runs(Second(p)))
  BY <1>1, <1>3, <1>4 DEF Sourced, Inside, Runs
<1>7. Good(SecondSet(p, y))
  BY <1>1, <1>2, <1>3, <1>6, SecondSetKeeps
<1> QED
  BY <1>5, <1>7

LEMMA SecondaryAdvancesKeeps ==
    ASSUME NEW p, Good(p), NEW e, e = Secondary(p), Sounding(p, e)
    PROVE  Good([p EXCEPT !.el[e].at = @ + 1, !.el[e].paused = p.el[e].at + 1 = End])
<1> DEFINE at == Second(p).at + 1
           stops == at = End
           g == [Second(p) EXCEPT !.at = at]
           y == [g EXCEPT !.paused = stops]
<1>1. /\ Second(p) \in Element /\ Inside(Second(p)) /\ Second(p).src # NoSong /\ p \in Page
      /\ Second(p).data = "ready" /\ ~Second(p).paused /\ Second(p).at < End
  BY SecondIs DEF Sounding, Second
<1>2. at \in Positions /\ (~stops => at <= Last)
  <2>1. Second(p).at \in Positions
    BY <1>1 DEF Element
  <2> QED
    BY <1>1, <2>1, Bounds
<1>3. stops \in BOOLEAN /\ (stops <=> at = End)
  OBVIOUS
<1> DEFINE f == [p.el EXCEPT ![e] = g]
<1>4. [p EXCEPT !.el[e].at = @ + 1, !.el[e].paused = p.el[e].at + 1 = End] = SecondSet(p, y)
  <2>1. p.el \in [Elements -> Element] /\ e \in Elements /\ Second(p) = p.el[e]
    BY <1>1, Two, Parts DEF Second
  <2>2. [p EXCEPT !.el[e].at = @ + 1] = [p EXCEPT !.el = f]
    BY <2>1 DEF Page
  <2>3. e \in DOMAIN f /\ f[e] = g
    BY <2>1
  <2>4. [f EXCEPT ![e].paused = stops] = [p.el EXCEPT ![e] = y]
    BY <2>1, <2>3
  <2>5. [[p EXCEPT !.el = f] EXCEPT !.el[e].paused = stops] = [p EXCEPT !.el = [p.el EXCEPT ![e] = y]]
    BY <1>1, <2>4, ZenonT(60) DEF Page
  <2> QED
    BY <2>1, <2>2, <2>5 DEF SecondSet
<1> HIDE DEF at, stops
<1>5. g \in Element /\ g.src = Second(p).src /\ g.at = at /\ g.data = "ready"
  BY <1>1, <1>2 DEF Element
<1> HIDE DEF g
<1>6. y \in Element /\ y.src = Second(p).src /\ y.at = at /\ y.data = "ready" /\ y.paused = stops
  BY <1>3, <1>5 DEF Element
<1> HIDE DEF y
<1>7. Sourced(y) /\ Inside(y) /\ (Runs(y) => Runs(Second(p)))
  BY <1>1, <1>2, <1>3, <1>6 DEF Sourced, Inside, Runs
<1> QED
  BY <1>4, <1>6, <1>7, SecondSetKeeps

-----------------------------------------------------------------------------
(* What the first element does *)

LEMMA FirstAtIs ==
    ASSUME NEW p \in Page, NEW at \in Positions
    PROVE  LET q == FirstAt(p, at)
           IN /\ q \in Page /\ SameTrack(p, q) /\ SameTimes(p, q) /\ SameWill(p, q)
              /\ SameFades(p, q) /\ SameNext(p, q) /\ q.sleep = p.sleep
              /\ q.playing = p.playing /\ q.recoveredFrom = p.recoveredFrom
              /\ Primary(q).src = Primary(p).src /\ Primary(q).paused = Primary(p).paused
              /\ Primary(q).at = at /\ Primary(q).data = Primary(p).data
              /\ Second(q) = Second(p)
<1> DEFINE x == [Primary(p) EXCEPT !.at = at]
           f == [p.el EXCEPT ![p.primary] = x]
           q == [p EXCEPT !.el = f]
<1>1. Primary(p) \in Element
  BY Two, ElementParts DEF Primary
<1>2. x \in Element
  BY <1>1, ElementTypes
<1>3. f \in [Elements -> Element] /\ f[p.primary] = x /\ f[Secondary(p)] = p.el[Secondary(p)]
  BY <1>2, Two, Parts
<1>4. FirstAt(p, at) = q
  BY Two, Parts DEF FirstAt, Page, Primary
<1> HIDE DEF f
<1>5. q \in Page
  BY <1>3, ZenonT(60) DEF Page
<1>6. /\ q.el = f /\ q.sleep = p.sleep /\ q.playing = p.playing
      /\ q.recoveredFrom = p.recoveredFrom
      /\ SameTrack(p, q) /\ SameTimes(p, q) /\ SameWill(p, q) /\ SameFades(p, q)
      /\ SameNext(p, q)
  BY DEF Page, SameTrack, SameTimes, SameWill, SameFades, SameNext
<1> HIDE DEF q
<1>7. Primary(q) = x /\ Second(q) = Second(p)
  BY <1>3, <1>6 DEF Primary, Second, Secondary, SameFades
<1>8. x.src = Primary(p).src /\ x.paused = Primary(p).paused /\ x.at = at /\ x.data = Primary(p).data
  BY <1>1 DEF Element
<1> HIDE DEF x
<1> QED
  BY <1>4, <1>5, <1>6, <1>7, <1>8

LEMMA FirstAtKeeps ==
    ASSUME NEW p, Sound(p), NEW at \in Positions, Primary(p).data = "ready",
           Primary(p).at <= at, ~Primary(p).paused => at <= Last
    PROVE  LET q == FirstAt(p, at) IN Sound(q) /\ (ReadyWaits(p) => ReadyWaits(q))
<1> DEFINE q == FirstAt(p, at)
<1>1. /\ p \in Page /\ Firm(p) /\ Sources(p) /\ Within(p) /\ Retries(p) /\ Preloaded(p)
      /\ Ground(p) /\ InPlace(p) /\ OnTrack(p) /\ SecondHeld(p) /\ FirstHeld(p)
      /\ FailedWaits(p)
  BY SoundParts
<1>2. /\ q \in Page /\ SameTrack(p, q) /\ SameTimes(p, q) /\ SameWill(p, q)
      /\ SameFades(p, q) /\ SameNext(p, q)
      /\ Primary(q).src = Primary(p).src /\ Primary(q).paused = Primary(p).paused
      /\ Primary(q).at = at /\ Primary(q).data = Primary(p).data
      /\ Second(q) = Second(p)
  BY <1>1, FirstAtIs
<1> HIDE DEF q
<1>3. Current(q) = Current(p) /\ InPlace(q)
  BY <1>1, <1>2, CurrentKept
<1>4. /\ ChangePending(q) <=> ChangePending(p)
      /\ SeekPending(q) <=> SeekPending(p)
      /\ PausePending(q) <=> PausePending(p)
  BY <1>2, PendingsKept
<1>5. Primary(p).src # NoSong
  BY <1>1, EmptyIs DEF Sources, Sourced
<1>6. Sources(q)
  BY <1>1, <1>2, <1>5 DEF Sources, Sourced, Inside
<1>7. Firm(q)
  BY <1>1, <1>2, <1>6
  DEF Firm, Within, Retries, Preloaded, SameTimes, SameFades, SameNext
<1>8. p.time \in Positions /\ Primary(p).at \in Positions /\ at \in Positions
  BY <1>1, Parts, Two, ElementParts DEF Primary
<1>9. Ground(q)
  BY <1>1, <1>2, <1>4, <1>8, Bounds DEF Ground, SameTimes
<1>10. OnTrack(q)
  BY <1>1, <1>2, <1>3, <1>4 DEF OnTrack, SameTimes, SameWill, SameTrack
<1>11. SecondHeld(q)
  BY <1>1, <1>2 DEF SecondHeld, SameNext, SameWill, SameTrack
<1>12. FirstHeld(q) /\ FailedWaits(q)
  BY <1>1, <1>2, <1>4 DEF FirstHeld, FailedWaits, Runs, SameNext, SameWill
<1>13. ReadyWaits(p) => ReadyWaits(q)
  BY <1>2 DEF ReadyWaits, SameWill
<1> QED
  BY <1>3, <1>7, <1>9, <1>10, <1>11, <1>12, <1>13 DEF Sound, Steady, q

LEMMA FollowingIs ==
    ASSUME NEW p \in Page, InPlace(p)
    PROVE  /\ Following(p) \in Songs \cup {NoSong}
           /\ Following(p) # NoSong =>
                  \/ p.index = Len(p.queue)
                  \/ p.index < Len(p.queue) /\ Following(p) = p.queue[p.index + 1]
<1>1. p.queue \in Seq(Songs) /\ p.index \in Nat /\ Len(p.queue) \in Nat
  BY Parts
<1>2. CASE p.queue = <<>>
  BY <1>1, <1>2 DEF Following
<1>3. CASE p.queue # <<>>
  <2>1. p.index \in 1..Len(p.queue)
    BY <1>3 DEF InPlace
  <2>2. p.queue[1] \in Songs /\ (p.index < Len(p.queue) => p.queue[p.index + 1] \in Songs)
    BY <1>1, <2>1
  <2> QED
    BY <1>1, <2>1, <2>2 DEF Following
<1> QED
  BY <1>2, <1>3

LEMMA PreloadKeeps ==
    ASSUME NEW p, Good(p)
    PROVE  LET q == MaybePreloadNext(p)
           IN Good(q) /\ SameWill(p, q) /\ SameFades(p, q) /\ Primary(q) = Primary(p)
<1> DEFINE next == Following(p)
           f == [p.el EXCEPT ![Secondary(p)] = Opening(next)]
           q == [p EXCEPT !.preloadedFor = next, !.el = f]
           stays == next = NoSong \/ p.preloadedFor = next \/ p.time < Last
<1>1. /\ p \in Page /\ Firm(p) /\ Sources(p) /\ Within(p) /\ Retries(p) /\ Preloaded(p)
      /\ Ground(p) /\ InPlace(p) /\ OnTrack(p) /\ SecondHeld(p) /\ FirstHeld(p)
      /\ FailedWaits(p) /\ ReadyWaits(p)
  BY SoundParts DEF Good
<1>2. MaybePreloadNext(p) = IF stays THEN p ELSE q
  BY DEF MaybePreloadNext
<1>3. CASE stays
  BY <1>2, <1>3 DEF SameWill, SameFades
<1>4. CASE ~stays
  <2>1. next \in Songs
    BY <1>1, <1>4, FollowingIs
  <2> HIDE DEF next
  <2>2. f \in [Elements -> Element] /\ f[Secondary(p)] = Opening(next)
        /\ f[p.primary] = p.el[p.primary]
    BY <1>1, <2>1, Two, Parts, ElementTypes
  <2> HIDE DEF f
  <2>3. q \in Page
    BY <1>1, <2>1, <2>2, ZenonT(60) DEF Page
  <2>4. /\ q.el = f /\ q.preloadedFor = next
        /\ SameTrack(p, q) /\ SameTimes(p, q) /\ SameWill(p, q) /\ SameFades(p, q)
        /\ q.astray = p.astray
    BY <1>1 DEF Page, SameTrack, SameTimes, SameWill, SameFades
  <2> HIDE DEF q
  <2>5. Primary(q) = Primary(p) /\ Second(q) = Opening(next)
    BY <2>2, <2>4 DEF Primary, Second, Secondary, SameFades
  <2>6. /\ Second(q).src = next /\ Second(q).data = "opening"
        /\ Sourced(Second(q)) /\ Inside(Second(q)) /\ ~Runs(Second(q))
    BY <2>1, <2>5, OpeningIs
  <2>7. /\ InPlace(q) /\ Ground(q) /\ Within(q) /\ Retries(q) /\ OnTrack(q) /\ FirstHeld(q)
        /\ FailedWaits(q) /\ ReadyWaits(q)
    BY <1>1, <2>3, <2>4, <2>5, FirstKept
  <2>8. Sources(q) /\ Preloaded(q) /\ SecondHeld(q)
    BY <1>1, <2>4, <2>5, <2>6 DEF Sources, Preloaded, SecondHeld
  <2> QED
    BY <1>2, <1>4, <2>3, <2>4, <2>5, <2>7, <2>8 DEF Good, Sound, Steady, Firm, q
<1> QED
  BY <1>3, <1>4

LEMMA CrossfadeKeeps ==
    ASSUME NEW p, Good(p), MayCrossfade(p), p.fades = <<>>, Runs(Primary(p))
    PROVE  Good(Crossfade(p))
<1> DEFINE y == [Second(p) EXCEPT !.paused = FALSE, !.at = 0]
           f == [p.el EXCEPT ![Secondary(p)] = y]
           ramp == IF graph THEN "graph" ELSE "timer"
           wrapped == p.index = Len(p.queue)
           q == [p EXCEPT !.ramp = ramp, !.el = f, !.wrapped = wrapped]
<1>1. /\ p \in Page /\ Firm(p) /\ Sources(p) /\ Within(p) /\ Retries(p) /\ Preloaded(p)
      /\ Ground(p) /\ InPlace(p) /\ OnTrack(p) /\ SecondHeld(p) /\ FirstHeld(p)
      /\ FailedWaits(p) /\ ReadyWaits(p)
  BY SoundParts DEF Good
<1>2. Second(p) \in Element /\ Second(p).src # NoSong /\ Second(p).data = "ready"
      /\ Second(p) = p.el[Secondary(p)]
  BY SecondIs DEF MayCrossfade, Second
<1>3. /\ y \in Element /\ y.src = Second(p).src /\ y.data = "ready" /\ ~y.paused /\ y.at = 0
  BY <1>2, Bounds DEF Element
<1>4. f \in [Elements -> Element] /\ f[Secondary(p)] = y /\ f[p.primary] = p.el[p.primary]
  BY <1>1, <1>3, Two, Parts
<1>5. Crossfade(p) = q
  <2> DEFINE g == [Second(p) EXCEPT !.at = 0]
             h == [p.el EXCEPT ![Secondary(p)] = g]
  <2>1. p.el \in [Elements -> Element] /\ Secondary(p) \in Elements
    BY <1>1, Two, Parts
  <2>2. g \in Element /\ y = [g EXCEPT !.paused = FALSE]
    BY <1>2, Bounds DEF Element
  <2>3. h \in [Elements -> Element] /\ h[Secondary(p)] = g
    BY <2>1, <2>2
  <2>5. [p EXCEPT !.ramp = ramp, !.el[Secondary(p)].at = 0] = [p EXCEPT !.ramp = ramp, !.el = h]
    BY <1>1, <1>2 DEF Page
  <2>6. [h EXCEPT ![Secondary(p)].paused = FALSE] = f
    BY <2>1, <2>2, <2>3
  <2>7. [p EXCEPT !.ramp = ramp, !.el[Secondary(p)].at = 0, !.el[Secondary(p)].paused = FALSE]
          = [p EXCEPT !.ramp = ramp, !.el = f]
    BY <1>1, <2>5, <2>6, ZenonT(60) DEF Page
  <2> HIDE DEF f, h, g, y
  <2>8. [p EXCEPT !.ramp = ramp, !.el[Secondary(p)].at = 0, !.el[Secondary(p)].paused = FALSE,
                  !.wrapped = wrapped]
          = q
    BY <2>7
  <2> QED
    BY <2>8 DEF Crossfade
<1> HIDE DEF f, y
<1>6. ramp \in {"timer", "graph"} /\ wrapped \in BOOLEAN
  OBVIOUS
<1> HIDE DEF ramp
<1>7. wrapped = (p.index = Len(p.queue))
  OBVIOUS
<1> HIDE DEF wrapped
<1>8. q \in Page
  BY <1>1, <1>4, <1>6, ZenonT(60) DEF Page
<1>9. /\ q.el = f /\ q.ramp = ramp /\ q.wrapped = wrapped
      /\ SameTrack(p, q) /\ SameTimes(p, q) /\ SameWill(p, q) /\ SameFades(p, q)
      /\ q.astray = p.astray /\ q.preloadedFor = p.preloadedFor
  BY <1>1 DEF Page, SameTrack, SameTimes, SameWill, SameFades
<1> HIDE DEF q
<1>10. Primary(q) = Primary(p) /\ Second(q) = y
  BY <1>4, <1>9 DEF Primary, Second, Secondary, SameFades
<1>11. /\ InPlace(q) /\ Ground(q) /\ Within(q) /\ Retries(q) /\ OnTrack(q) /\ FirstHeld(q)
       /\ FailedWaits(q) /\ ReadyWaits(q)
  BY <1>1, <1>8, <1>9, <1>10, FirstKept
<1>12. Sources(q) /\ Preloaded(q)
  BY <1>1, <1>2, <1>3, <1>9, <1>10, Bounds DEF Sources, Sourced, Inside, Preloaded
<1>13. SecondHeld(q)
  <2>1. p.engaged \/ p.astray
    BY <1>1 DEF FirstHeld, PausePending
  <2>2. /\ p.preloadedFor = Following(p) /\ Following(p) # NoSong
        /\ p.index = Len(p.queue) \/ (p.index < Len(p.queue)
                                       /\ Following(p) = p.queue[p.index + 1])
    BY <1>1, FollowingIs DEF MayCrossfade
  <2> QED
    BY <1>6, <1>7, <1>9, <2>1, <2>2 DEF SecondHeld, SameWill, SameTrack
<1> QED
  BY <1>5, <1>8, <1>11, <1>12, <1>13 DEF Good, Sound, Steady, Firm

LEMMA TickedIs ==
    ASSUME NEW p \in Page, NEW at \in Positions
    PROVE  LET q == Ticked(p, at)
           IN /\ q \in Page
              /\ SameTrack(p, q) /\ SameWill(p, q) /\ SameFades(p, q) /\ SameNext(p, q)
              /\ q.time = at /\ q.pendingSeek = p.pendingSeek /\ q.retry = p.retry
              /\ ~q.sought => q.retry = NoRetry
              /\ Primary(q) = Primary(p) /\ Second(q) = Second(p)
<1> DEFINE asks == p.retry # NoRetry
           tries == IF at > p.recoveredFrom THEN 0 ELSE p.recoveries
           q == [p EXCEPT !.time = at, !.sought = asks, !.recoveries = tries]
<1>1. Ticked(p, at) = q
  BY DEF Ticked
<1>2. asks \in BOOLEAN /\ tries \in Nat
  BY Parts
<1>3. ~asks => p.retry = NoRetry
  OBVIOUS
<1> HIDE DEF asks, tries
<1>4. q \in Page
  BY <1>2, ZenonT(60) DEF Page
<1>5. /\ q.time = at /\ q.sought = asks /\ q.pendingSeek = p.pendingSeek /\ q.retry = p.retry
      /\ q.el = p.el
  BY DEF Page
<1>6. SameTrack(p, q) /\ SameWill(p, q) /\ SameFades(p, q) /\ SameNext(p, q)
  BY DEF Page, SameTrack, SameWill, SameFades, SameNext
<1> HIDE DEF q
<1>7. Primary(q) = Primary(p) /\ Second(q) = Second(p)
  BY <1>5, <1>6 DEF Primary, Second, Secondary, SameFades
<1> QED
  BY <1>1, <1>2, <1>3, <1>4, <1>5, <1>6, <1>7

LEMMA TickedKeeps ==
    ASSUME NEW p, Good(p), NEW at \in Positions, at <= Last, p.pendingSeek = Nowhere,
           Primary(p).data = "ready", Primary(p).at = at
    PROVE  LET q == Ticked(p, at)
           IN Good(q) /\ SameFades(p, q) /\ Primary(q) = Primary(p)
<1> DEFINE q == Ticked(p, at)
<1>1. /\ p \in Page /\ Firm(p) /\ Sources(p) /\ Within(p) /\ Retries(p) /\ Preloaded(p)
      /\ Ground(p) /\ InPlace(p) /\ OnTrack(p) /\ SecondHeld(p) /\ FirstHeld(p)
      /\ FailedWaits(p) /\ ReadyWaits(p)
  BY SoundParts DEF Good
<1>2. /\ q \in Page
      /\ SameTrack(p, q) /\ SameWill(p, q) /\ SameFades(p, q) /\ SameNext(p, q)
      /\ q.time = at /\ q.pendingSeek = p.pendingSeek /\ q.retry = p.retry
      /\ ~q.sought => q.retry = NoRetry
      /\ Primary(q) = Primary(p) /\ Second(q) = Second(p)
  BY <1>1, TickedIs
<1> HIDE DEF q
<1>3. Current(q) = Current(p) /\ InPlace(q)
  BY <1>1, <1>2, CurrentKept
<1>4. /\ ChangePending(q) <=> ChangePending(p)
      /\ PausePending(q) <=> PausePending(p)
  BY <1>2, PendingsKept
<1>5. Firm(q)
  BY <1>1, <1>2
  DEF Firm, Sources, Within, Retries, Preloaded, SameFades, SameNext
<1>6. Ground(q)
  <2>1. q.pendingSeek = Nowhere /\ q.time <= Primary(q).at
    BY <1>2, Bounds
  <2> QED
    BY <1>2, <2>1 DEF Ground
<1>7. OnTrack(q)
  BY <1>1, <1>2, <1>3, <1>4 DEF OnTrack, SameTrack, SameWill
<1>8. SecondHeld(q)
  BY <1>1, <1>2 DEF SecondHeld, SameNext, SameWill, SameTrack
<1>9. FirstHeld(q) /\ FailedWaits(q) /\ ReadyWaits(q)
  BY <1>1, <1>2, <1>4 DEF FirstHeld, FailedWaits, ReadyWaits, SameNext, SameWill
<1> QED
  BY <1>2, <1>3, <1>5, <1>6, <1>7, <1>8, <1>9 DEF Good, Sound, Steady, q

LEMMA TimeUpdateKeeps ==
    ASSUME NEW p, Good(p), NEW step \in {0, 1}, NEW overlap \in BOOLEAN,
           Sounding(p, p.primary), Primary(p).at + step < End
    PROVE  LET at == Primary(p).at + step
               a == FirstAt(p, at)
               c == MaybePreloadNext(Ticked(a, at))
           IN (overlap => MayCrossfade(c)) =>
              Good(IF a.fades # <<>> \/ a.pendingSeek # Nowhere THEN a
                   ELSE IF overlap THEN Crossfade(c) ELSE c)
<1> DEFINE at == Primary(p).at + step
           a == FirstAt(p, at)
           b == Ticked(a, at)
           c == MaybePreloadNext(b)
<1>1. p \in Page /\ Primary(p) \in Element
  BY SoundParts, Two, ElementParts DEF Good, Primary
<1>2. Primary(p).data = "ready" /\ ~Primary(p).paused /\ Primary(p).at \in 0..End
  BY <1>1 DEF Sounding, Primary, Element, Positions
<1>3. at \in Positions /\ at <= Last /\ Primary(p).at <= at
  BY <1>2, Bounds
<1> HIDE DEF at
<1>4. Good(a)
  BY <1>2, <1>3, FirstAtKeeps, Bounds DEF Good
<1>5. Primary(a).data = "ready" /\ ~Primary(a).paused /\ Primary(a).at = at
  BY <1>1, <1>2, <1>3, FirstAtIs
<1> HIDE DEF a
<1>6. CASE a.fades # <<>> \/ a.pendingSeek # Nowhere
  BY <1>4, <1>6 DEF a, at
<1>7. CASE ~(a.fades # <<>> \/ a.pendingSeek # Nowhere)
  <2>1. Good(b) /\ SameFades(a, b) /\ Primary(b) = Primary(a)
    BY <1>3, <1>4, <1>5, <1>7, TickedKeeps
  <2> HIDE DEF b
  <2>2. Good(c) /\ SameFades(b, c) /\ Primary(c) = Primary(b)
    BY <2>1, PreloadKeeps
  <2> HIDE DEF c
  <2>3. c.fades = <<>> /\ Runs(Primary(c))
    BY <1>5, <1>7, <2>1, <2>2 DEF SameFades, Runs
  <2>4. MayCrossfade(c) => Good(Crossfade(c))
    BY <2>2, <2>3, CrossfadeKeeps
  <2> QED
    BY <1>7, <2>2, <2>4 DEF a, at, b, c
<1> QED
  BY <1>6, <1>7

LEMMA RunsOutKeeps ==
    ASSUME NEW p, Good(p), Sounding(p, p.primary)
    PROVE  LET a == FirstAt(ElementPause(p), End)
           IN Good(IF a.fades # <<>> THEN [a EXCEPT !.held = TRUE]
                   ELSE IF a.sleep THEN SleepAtTrackEnd(a) ELSE NextByItself(a))
<1> DEFINE e == ElementPause(p)
           a == FirstAt(e, End)
           h == [a EXCEPT !.held = TRUE]
<1>1. /\ p \in Page /\ Firm(p) /\ Sources(p) /\ Ground(p) /\ InPlace(p) /\ OnTrack(p)
      /\ SecondHeld(p) /\ FirstHeld(p) /\ FailedWaits(p)
  BY SoundParts DEF Good
<1>2. Primary(p).data = "ready" /\ Primary(p) \in Element
  BY <1>1, Two, ElementParts DEF Sounding, Primary
<1>3. /\ e \in Page /\ Firm(e) /\ Ground(e) /\ InPlace(e) /\ OnTrack(e) /\ SecondHeld(e)
      /\ FirstHeld(e) /\ FailedWaits(e)
      /\ Primary(e).data = "ready" /\ Primary(e).paused
  BY <1>1, <1>2, PauseIs, ElementPauseKeeps
<1> HIDE DEF e
<1>4. Sound(e)
  BY <1>3 DEF Sound, Steady
<1>5. End \in Positions /\ \A x \in Positions : x <= End
  BY Bounds
<1>6. Primary(e).at \in Positions
  BY <1>3, Two, ElementParts DEF Primary
<1>7. Sound(a)
  BY <1>3, <1>4, <1>5, <1>6, FirstAtKeeps
<1>8. /\ a \in Page /\ Primary(a).data = "ready" /\ Primary(a).paused
  BY <1>3, <1>5, FirstAtIs
<1> HIDE DEF a
<1>9. a.queue # <<>>
  <2>1. Sources(a) /\ OnTrack(a)
    BY <1>7, SoundParts
  <2>2. Primary(a).src # NoSong
    BY <1>8, <2>1, EmptyIs DEF Sources, Sourced
  <2> QED
    BY <2>1, <2>2 DEF OnTrack
<1>10. Good(h)
  <2>1. /\ h \in Page /\ SameTrack(a, h) /\ SameTimes(a, h) /\ SameFades(a, h)
        /\ SameNext(a, h) /\ h.el = a.el /\ h.engaged = a.engaged /\ h.held
    BY <1>8, ZenonT(60) DEF Page, SameTrack, SameTimes, SameFades, SameNext
  <2> HIDE DEF h
  <2>2. Primary(h) = Primary(a) /\ Second(h) = Second(a)
    BY <2>1 DEF Primary, Second, Secondary, SameFades
  <2>3. /\ Firm(a) /\ Ground(a) /\ InPlace(a) /\ OnTrack(a) /\ SecondHeld(a) /\ FirstHeld(a)
    BY <1>7, SoundParts
  <2>4. Current(h) = Current(a) /\ InPlace(h)
    BY <2>1, <2>3, CurrentKept
  <2>5. /\ ChangePending(h) <=> ChangePending(a)
        /\ SeekPending(h) <=> SeekPending(a)
        /\ PausePending(h) <=> PausePending(a)
    BY <2>1, PendingsKept
  <2>6. Firm(h)
    BY <2>1, <2>2, <2>3
    DEF Firm, Sources, Within, Retries, Preloaded, SameTimes, SameFades, SameNext
  <2>7. Ground(h)
    BY <2>1, <2>2, <2>3, <2>5 DEF Ground, SameTimes
  <2>8. OnTrack(h)
    BY <2>1, <2>2, <2>3, <2>4, <2>5 DEF OnTrack, SameTimes, SameTrack
  <2>9. SecondHeld(h) /\ FirstHeld(h)
    BY <2>1, <2>2, <2>3, <2>5 DEF SecondHeld, FirstHeld, SameNext, SameTrack
  <2>10. FailedWaits(h) /\ ReadyWaits(h)
    BY <1>8, <2>1, <2>2 DEF FailedWaits, ReadyWaits
  <2> QED
    BY <2>4, <2>6, <2>7, <2>8, <2>9, <2>10 DEF Good, Sound, Steady
<1>11. Good(SleepAtTrackEnd(a)) /\ Good(NextByItself(a))
  BY <1>7, <1>8, <1>9, SleepKeeps, NextByItselfKeeps
<1> QED
  BY <1>10, <1>11 DEF h, a, e

-----------------------------------------------------------------------------
(* What the timers and the answers do *)

LEMMA RetryKeeps ==
    ASSUME NEW p, Good(p), p.retry # NoRetry
    PROVE  LET q == [p EXCEPT !.retry = NoRetry]
           IN Good(IF q.engaged THEN ElementPlay(OpenAt(q, p.retry.song, p.retry.at)) ELSE q)
<1> DEFINE q == [p EXCEPT !.retry = NoRetry]
           song == p.retry.song
           at == p.retry.at
<1>1. /\ p \in Page /\ Firm(p) /\ Sources(p) /\ Within(p) /\ Retries(p) /\ Preloaded(p)
      /\ Ground(p) /\ InPlace(p) /\ OnTrack(p) /\ SecondHeld(p) /\ FirstHeld(p)
      /\ FailedWaits(p)
  BY SoundParts DEF Good
<1>2. /\ q \in Page /\ q.retry = NoRetry
      /\ SameTrack(p, q) /\ SameWill(p, q) /\ SameFades(p, q) /\ SameNext(p, q)
      /\ q.time = p.time /\ q.pendingSeek = p.pendingSeek /\ q.sought = p.sought
      /\ Primary(q) = Primary(p) /\ Second(q) = Second(p)
  BY <1>1, ZenonT(60) DEF Page, Asked, NoRetry, SameTrack, SameWill, SameFades, SameNext,
              Primary, Second, Secondary
<1>3. /\ song \in Songs /\ at \in Positions /\ at <= Last
      /\ song = Current(p) \/ ChangePending(p)
  <2>1. p.retry.song \in Songs \cup {NoSong} /\ p.retry.at \in {Nowhere} \cup Positions
    BY <1>1, Parts DEF Asked
  <2> QED
    BY <1>1, <2>1 DEF Retries, OnTrack
<1>4. ~p.sought => p.time = at
  BY <1>1 DEF Ground
<1> HIDE DEF q, song, at
<1>5. Current(q) = Current(p) /\ InPlace(q)
  BY <1>1, <1>2, CurrentKept
<1>6. /\ ChangePending(q) <=> ChangePending(p)
      /\ SeekPending(q) <=> SeekPending(p)
      /\ PausePending(q) <=> PausePending(p)
  BY <1>2, PendingsKept
<1>7. Firm(q)
  BY <1>1, <1>2 DEF Firm, Sources, Within, Retries, Preloaded, SameFades, SameNext
<1>8. OnTrack(q)
  BY <1>1, <1>2, <1>5, <1>6 DEF OnTrack, SameTrack, SameWill
<1>9. SecondHeld(q) /\ FirstHeld(q)
  BY <1>1, <1>2, <1>6 DEF SecondHeld, FirstHeld, SameNext, SameWill, SameTrack
<1>10. CASE q.engaged
  <2>1. q.queue # <<>>
    BY <1>8, <1>10 DEF OnTrack
  <2>2. song = Current(q) \/ ChangePending(q)
    BY <1>3, <1>5, <1>6
  <2>3. ~q.sought => q.time = at /\ (q.retry # NoRetry => q.retry.at = q.time)
    BY <1>2, <1>4
  <2>4. LET r == OpenAt(q, song, at) IN Sound(r) /\ r.engaged = q.engaged
    BY <1>2, <1>3, <1>5, <1>7, <1>8, <1>9, <2>1, <2>2, <2>3, OpenKeeps
  <2>5. Good(ElementPlay(OpenAt(q, song, at)))
    BY <1>10, <2>4, ElementPlayKeeps
  <2> QED
    BY <1>10, <2>5 DEF q, song, at
<1>11. CASE ~q.engaged
  <2>1. Ground(q)
    BY <1>1, <1>2, <1>6 DEF Ground
  <2>2. FailedWaits(q)
    BY <1>1, <1>2, <1>5, <1>6, <1>11 DEF FailedWaits, SameWill, SameFades
  <2>3. ReadyWaits(q)
    BY <1>11 DEF ReadyWaits
  <2>4. Good(q)
    BY <1>5, <1>7, <1>8, <1>9, <2>1, <2>2, <2>3 DEF Good, Sound, Steady
  <2> QED
    BY <1>11, <2>4 DEF q
<1> QED
  BY <1>10, <1>11

LEMMA StallTimeoutKeeps ==
    ASSUME NEW p, Good(p)
    PROVE  LET q == [p EXCEPT !.stall = FALSE] IN Good(q) /\ Good(RecoverOrGiveUp(q))
<1> DEFINE q == [p EXCEPT !.stall = FALSE]
<1>1. p \in Page
  BY SoundParts DEF Good
<1>2. q \in Page /\ Same(p, q)
  BY <1>1, ZenonT(60) DEF Page, Same, SameTrack, SameTimes, SameWill, SameFades, SameNext
<1> HIDE DEF q
<1>3. Good(q)
  BY <1>1, <1>2, SameKept
<1>4. Failing(q)
  BY <1>3, SoundParts DEF Good, Sound, Failing
<1> QED
  BY <1>2, <1>3, <1>4, RecoverOrGiveUpKeeps DEF q

LEMMA HeadAnswersKeeps ==
    ASSUME NEW p, Good(p), NEW ask \in p.asking
    PROVE  LET q == [p EXCEPT !.asking = @ \ {ask}]
           IN /\ ask.element # q.primary \/ ask.song # Current(q) => Good(q)
              /\ ask.song = Current(q) => Good(SkipBroken(q))
              /\ Good(GiveUp([q EXCEPT !.engaged = FALSE]))
              /\ Good(RecoverOrGiveUp(q))
<1> DEFINE left == p.asking \ {ask}
           q == [p EXCEPT !.asking = left]
           g == [q EXCEPT !.engaged = FALSE]
<1>1. /\ p \in Page /\ Firm(p) /\ Sources(p) /\ Within(p) /\ Retries(p) /\ Preloaded(p)
      /\ Ground(p) /\ InPlace(p) /\ OnTrack(p) /\ SecondHeld(p) /\ FirstHeld(p)
      /\ FailedWaits(p) /\ ReadyWaits(p)
  BY SoundParts DEF Good
<1>2. left \in SUBSET [element : Elements, song : Songs] /\ ask.song # NoSong
      /\ \A x \in p.asking : x = ask \/ x \in left
  BY <1>1, Parts, PlaybackAssumption
<1> HIDE DEF left
<1>3. /\ q \in Page /\ q.asking = left
      /\ SameTrack(p, q) /\ SameTimes(p, q) /\ SameFades(p, q) /\ SameNext(p, q)
      /\ q.engaged = p.engaged /\ q.error = p.error /\ q.stranded = p.stranded
      /\ q.held = p.held /\ Primary(q) = Primary(p) /\ Second(q) = Second(p)
  <2>1. q \in Page /\ q.asking = left /\ q.el = p.el
        /\ q.engaged = p.engaged /\ q.error = p.error /\ q.stranded = p.stranded
        /\ q.held = p.held
    BY <1>1, <1>2, ZenonT(60) DEF Page
  <2>2. SameTrack(p, q) /\ SameTimes(p, q) /\ SameFades(p, q) /\ SameNext(p, q)
    BY <1>1 DEF Page, SameTrack, SameTimes, SameFades, SameNext
  <2> HIDE DEF q
  <2> QED
    BY <2>1, <2>2 DEF Primary, Second, Secondary, SameFades
<1>4. q = [p EXCEPT !.asking = @ \ {ask}]
  BY DEF left
<1> HIDE DEF q
<1>5. Current(q) = Current(p) /\ InPlace(q)
  BY <1>1, <1>3, CurrentKept
<1>6. /\ ChangePending(q) <=> ChangePending(p)
      /\ SeekPending(q) <=> SeekPending(p)
      /\ PausePending(q) <=> PausePending(p)
  BY <1>3, PendingsKept
<1>7. Firm(q)
  BY <1>1, <1>3
  DEF Firm, Sources, Within, Retries, Preloaded, SameTimes, SameFades, SameNext
<1>8. Ground(q)
  BY <1>1, <1>3, <1>6 DEF Ground, SameTimes
<1>9. OnTrack(q)
  BY <1>1, <1>3, <1>5, <1>6 DEF OnTrack, SameTrack, SameTimes
<1>10. SecondHeld(q) /\ FirstHeld(q) /\ ReadyWaits(q)
  BY <1>1, <1>3, <1>6 DEF SecondHeld, FirstHeld, ReadyWaits, SameNext, SameTrack
<1>11. Failing(q)
  BY <1>5, <1>7, <1>8, <1>9, <1>10 DEF Failing, Steady
<1>12. ask.element # q.primary \/ ask.song # Current(q) => Good(q)
  <2>1. ask.element # q.primary \/ ask.song # Current(q) => FailedWaits(q)
    BY <1>1, <1>2, <1>3, <1>5, <1>6 DEF FailedWaits, SameTimes, SameFades
  <2> QED
    BY <1>11, <2>1 DEF Failing, Good, Sound
<1>13. ask.song = Current(q) => Good(SkipBroken(q))
  <2>1. ask.song = Current(q) => q.queue # <<>>
    BY <1>2 DEF Current
  <2> QED
    BY <1>3, <1>11, <2>1, SkipBrokenKeeps
<1>14. Good(RecoverOrGiveUp(q))
  BY <1>3, <1>11, RecoverOrGiveUpKeeps
<1>15. Good(GiveUp(g))
  <2>1. /\ g \in Page /\ SameTrack(q, g) /\ SameTimes(q, g)
        /\ SameFades(q, g) /\ SameNext(q, g) /\ ~g.engaged
        /\ Primary(g) = Primary(q) /\ Second(g) = Second(q)
    BY <1>3, ZenonT(60)
    DEF Page, SameTrack, SameTimes, SameFades, SameNext, Primary, Second, Secondary
  <2> HIDE DEF g
  <2>2. Current(g) = Current(q) /\ InPlace(g)
    BY <1>5, <2>1, CurrentKept
  <2>3. /\ ChangePending(g) <=> ChangePending(q)
        /\ SeekPending(g) <=> SeekPending(q)
    BY <2>1, PendingsKept
  <2>4. Firm(g)
    BY <1>7, <2>1
    DEF Firm, Sources, Within, Retries, Preloaded, SameTimes, SameFades, SameNext
  <2>5. Ground(g)
    BY <1>8, <2>1, <2>3 DEF Ground, SameTimes
  <2>6. OnTrack(g)
    BY <1>9, <2>1, <2>2, <2>3 DEF OnTrack, SameTrack, SameTimes
  <2> QED
    BY <2>1, <2>2, <2>4, <2>5, <2>6, GiveUpKeeps DEF Steady
<1> QED
  BY <1>4, <1>12, <1>13, <1>14, <1>15

LEMMA RampDoneKeeps ==
    ASSUME NEW p, Good(p)
    PROVE  Good([p EXCEPT !.ramp = "none", !.astray = TRUE])
<1> DEFINE q == [p EXCEPT !.ramp = "none", !.astray = TRUE]
<1>1. /\ p \in Page /\ Firm(p) /\ Sources(p) /\ Within(p) /\ Retries(p) /\ Preloaded(p)
      /\ Ground(p) /\ InPlace(p) /\ OnTrack(p) /\ FailedWaits(p) /\ ReadyWaits(p)
  BY SoundParts DEF Good
<1>2. /\ q \in Page /\ SameTrack(p, q) /\ SameTimes(p, q) /\ SameWill(p, q)
      /\ SameFades(p, q) /\ q.el = p.el /\ q.astray /\ q.preloadedFor = p.preloadedFor
  BY <1>1, ZenonT(60) DEF Page, SameTrack, SameTimes, SameWill, SameFades
<1> HIDE DEF q
<1>3. Primary(q) = Primary(p) /\ Second(q) = Second(p)
  BY <1>2 DEF Primary, Second, Secondary, SameFades
<1>4. /\ InPlace(q) /\ Ground(q) /\ Within(q) /\ Retries(q) /\ OnTrack(q)
      /\ FailedWaits(q) /\ ReadyWaits(q)
  BY <1>1, <1>2, <1>3, FirstKept
<1>5. Sources(q) /\ Preloaded(q) /\ SecondHeld(q) /\ FirstHeld(q)
  BY <1>1, <1>2, <1>3 DEF Sources, Preloaded, SecondHeld, FirstHeld
<1> QED
  BY <1>2, <1>4, <1>5 DEF Good, Sound, Steady, Firm, q

LEMMA InterruptedKeeps ==
    ASSUME NEW p, Good(p), p.engaged
    PROVE  Good([ElementPause(p) EXCEPT !.held = TRUE])
<1> DEFINE e == ElementPause(p)
           q == [e EXCEPT !.held = TRUE]
<1>1. /\ p \in Page /\ Firm(p) /\ Ground(p) /\ InPlace(p) /\ OnTrack(p)
      /\ SecondHeld(p) /\ FailedWaits(p)
  BY SoundParts DEF Good
<1>2. e \in Page /\ Firm(e) /\ Ground(e) /\ InPlace(e) /\ OnTrack(e) /\ SecondHeld(e)
      /\ FailedWaits(e) /\ e.engaged = p.engaged
  BY <1>1, PauseIs, ElementPauseKeeps
<1> HIDE DEF e
<1>3. /\ q \in Page /\ SameTrack(e, q) /\ SameTimes(e, q) /\ SameFades(e, q) /\ SameNext(e, q)
      /\ q.engaged = e.engaged /\ q.error = e.error /\ q.stranded = e.stranded
      /\ q.asking = e.asking /\ q.held
      /\ Primary(q) = Primary(e) /\ Second(q) = Second(e)
  BY <1>2, ZenonT(60)
  DEF Page, SameTrack, SameTimes, SameFades, SameNext, Primary, Second, Secondary
<1> HIDE DEF q
<1>4. Current(q) = Current(e) /\ InPlace(q)
  BY <1>2, <1>3, CurrentKept
<1>5. /\ ChangePending(q) <=> ChangePending(e)
      /\ SeekPending(q) <=> SeekPending(e)
  BY <1>3, PendingsKept
<1>6. Firm(q)
  BY <1>2, <1>3
  DEF Firm, Sources, Within, Retries, Preloaded, SameTimes, SameFades, SameNext
<1>7. Ground(q)
  BY <1>2, <1>3, <1>5 DEF Ground, SameTimes
<1>8. OnTrack(q)
  BY <1>2, <1>3, <1>4, <1>5 DEF OnTrack, SameTrack, SameTimes
<1>9. SecondHeld(q) /\ FirstHeld(q) /\ ReadyWaits(q)
  BY <1>2, <1>3 DEF SecondHeld, FirstHeld, ReadyWaits, SameNext, SameTrack
<1>10. FailedWaits(q)
  BY <1>2, <1>3, <1>4, <1>5 DEF FailedWaits, SameTimes, SameFades
<1> QED
  BY <1>4, <1>6, <1>7, <1>8, <1>9, <1>10 DEF Good, Sound, Steady, q, e

-----------------------------------------------------------------------------
(* A fade that has ended *)

Faded(p) == [p EXCEPT !.fades = Tail(@)]

LEMMA FadedIs ==
    ASSUME NEW p \in Page, p.fades # <<>>
    PROVE  LET q == Faded(p)
               f == Head(p.fades)
           IN /\ q \in Page /\ f \in Fade
              /\ SameTrack(p, q) /\ SameTimes(p, q) /\ SameWill(p, q) /\ SameNext(p, q)
              /\ q.primary = p.primary
              /\ Primary(q) = Primary(p) /\ Second(q) = Second(p)
              /\ FadesInside(p.fades)
                     => /\ FadesInside(q.fades) /\ f.target <= Last
                        /\ f.kind = "seek" => f.target # Nowhere
              /\ f.kind # "change" \/ f.late => (ChangePending(p) => ChangePending(q))
              /\ f.kind # "seek" \/ f.late \/ f.element # p.primary
                     => (SeekPending(p) => SeekPending(q))
              /\ f.kind # "pause" \/ f.element # p.primary
                     => (PausePending(p) => PausePending(q))
<1> DEFINE t == Tail(p.fades)
           f == Head(p.fades)
           q == [p EXCEPT !.fades = t]
<1>1. p.fades \in Seq(Fade)
  BY Parts
<1>2. /\ f \in Fade /\ t \in Seq(Fade) /\ Len(t) = Len(p.fades) - 1
      /\ \A i \in 1..Len(t) : t[i] = p.fades[i + 1]
  BY <1>1, HeadTailProperties
<1>3. DOMAIN p.fades = 1..Len(p.fades) /\ DOMAIN t = 1..Len(t) /\ Len(p.fades) \in Nat
      /\ Len(t) \in Nat /\ Len(p.fades) >= 1 /\ f = p.fades[1]
  <2>1. Len(p.fades) \in Nat /\ Len(p.fades) # 0
    BY <1>1, EmptySeq
  <2> QED
    BY <1>1, <1>2, <2>1
<1> HIDE DEF t, f
<1>4. \A i \in DOMAIN p.fades : p.fades[i] = f \/ (i - 1 \in DOMAIN t /\ t[i - 1] = p.fades[i])
  <2> TAKE i \in DOMAIN p.fades
  <2>1. CASE i = 1
    BY <1>3, <2>1
  <2>2. CASE i # 1
    BY <1>2, <1>3, <2>2
  <2> QED
    BY <2>1, <2>2
<1>5. \A i \in DOMAIN t : i + 1 \in DOMAIN p.fades /\ t[i] = p.fades[i + 1]
  BY <1>2, <1>3
<1>6. /\ q \in Page /\ q.fades = t /\ q.el = p.el /\ q.primary = p.primary
      /\ SameTrack(p, q) /\ SameTimes(p, q) /\ SameWill(p, q) /\ SameNext(p, q)
  BY <1>2, SMTT(30) DEF Page, SameTrack, SameTimes, SameWill, SameNext
<1>7. q = Faded(p)
  BY DEF Faded, t
<1> HIDE DEF q
<1>8. Primary(q) = Primary(p) /\ Second(q) = Second(p)
  BY <1>6 DEF Primary, Second, Secondary
<1>9. FadesInside(p.fades)
          => /\ FadesInside(q.fades) /\ f.target <= Last
             /\ f.kind = "seek" => f.target # Nowhere
  <2>1. FadesInside(p.fades) => FadesInside(t)
    BY <1>5 DEF FadesInside
  <2>2. 1 \in DOMAIN p.fades
    BY <1>3
  <2>3. FadesInside(p.fades) => f.target <= Last /\ (f.kind = "seek" => f.target # Nowhere)
    BY <1>3, <2>2 DEF FadesInside
  <2> QED
    BY <1>6, <2>1, <2>3
<1>10. f.kind # "change" \/ f.late => (ChangePending(p) => ChangePending(q))
  BY <1>4, <1>6 DEF ChangePending
<1>11. f.kind # "seek" \/ f.late \/ f.element # p.primary
           => (SeekPending(p) => SeekPending(q))
  BY <1>4, <1>6 DEF SeekPending
<1>12. f.kind # "pause" \/ f.element # p.primary => (PausePending(p) => PausePending(q))
  BY <1>4, <1>6 DEF PausePending
<1> QED
  BY <1>2, <1>6, <1>7, <1>8, <1>9, <1>10, <1>11, <1>12 DEF f

\* What a fade that has ended leaves, whatever it was for.
LEMMA FadedKeeps ==
    ASSUME NEW p, Good(p), p.fades # <<>>
    PROVE  LET q == Faded(p)
               f == Head(p.fades)
           IN /\ Firm(q) /\ InPlace(q) /\ SecondHeld(q) /\ ReadyWaits(q)
              /\ f.kind # "change" \/ f.late => OnTrack(q) /\ FailedWaits(q)
              /\ f.kind # "seek" \/ f.late \/ f.element # p.primary => Ground(q)
              /\ f.kind # "pause" \/ f.element # p.primary \/ q.engaged => FirstHeld(q)
<1> DEFINE q == Faded(p)
           f == Head(p.fades)
<1>1. /\ p \in Page /\ Firm(p) /\ Sources(p) /\ Within(p) /\ Retries(p) /\ Preloaded(p)
      /\ Ground(p) /\ InPlace(p) /\ OnTrack(p) /\ SecondHeld(p) /\ FirstHeld(p)
      /\ FailedWaits(p) /\ ReadyWaits(p)
  BY SoundParts DEF Good
<1>2. /\ q \in Page
      /\ SameTrack(p, q) /\ SameTimes(p, q) /\ SameWill(p, q) /\ SameNext(p, q)
      /\ q.primary = p.primary
      /\ Primary(q) = Primary(p) /\ Second(q) = Second(p)
      /\ FadesInside(p.fades) => FadesInside(q.fades)
      /\ f.kind # "change" \/ f.late => (ChangePending(p) => ChangePending(q))
      /\ f.kind # "seek" \/ f.late \/ f.element # p.primary
             => (SeekPending(p) => SeekPending(q))
      /\ f.kind # "pause" \/ f.element # p.primary => (PausePending(p) => PausePending(q))
  BY <1>1, FadedIs
<1> HIDE DEF q, f
<1>3. Current(q) = Current(p) /\ InPlace(q)
  BY <1>1, <1>2, CurrentKept
<1>4. Firm(q)
  BY <1>1, <1>2
  DEF Firm, Sources, Within, Retries, Preloaded, SameTimes, SameNext
<1>5. SecondHeld(q) /\ ReadyWaits(q)
  BY <1>1, <1>2 DEF SecondHeld, ReadyWaits, SameNext, SameTrack, SameWill
<1>6. f.kind # "change" \/ f.late => OnTrack(q)
  BY <1>1, <1>2, <1>3 DEF OnTrack, SameTrack, SameTimes, SameWill
<1>7. f.kind # "change" \/ f.late => FailedWaits(q)
  BY <1>1, <1>2, <1>3 DEF FailedWaits, SameTimes, SameWill
<1>8. f.kind # "seek" \/ f.late \/ f.element # p.primary => Ground(q)
  BY <1>1, <1>2 DEF Ground, SameTimes
<1>9. f.kind # "pause" \/ f.element # p.primary \/ q.engaged => FirstHeld(q)
  BY <1>1, <1>2 DEF FirstHeld, SameNext, SameWill
<1> QED
  BY <1>3, <1>4, <1>5, <1>6, <1>7, <1>8, <1>9 DEF q, f

LEMMA PauseFadeKeeps ==
    ASSUME NEW p, Good(p), p.fades # <<>>, Head(p.fades).kind = "pause"
    PROVE  LET q == Faded(p)
               f == Head(p.fades)
           IN Good(IF q.engaged THEN q
                   ELSE IF f.element = q.primary THEN ElementPause(q)
                   ELSE [q EXCEPT !.el[f.element].paused = TRUE])
<1> DEFINE q == Faded(p)
           f == Head(p.fades)
<1>1. q \in Page /\ f \in Fade /\ q.primary = p.primary
  BY FadedIs, SoundParts DEF Good
<1>2. /\ Firm(q) /\ InPlace(q) /\ SecondHeld(q) /\ ReadyWaits(q)
      /\ OnTrack(q) /\ FailedWaits(q) /\ Ground(q)
      /\ f.element # q.primary \/ q.engaged => FirstHeld(q)
  BY <1>1, FadedKeeps
<1> HIDE DEF q, f
<1>3. CASE q.engaged
  <2>1. Good(q)
    BY <1>2, <1>3 DEF Good, Sound, Steady
  <2> QED
    BY <1>3, <2>1 DEF q, f
<1>4. CASE ~q.engaged /\ f.element = q.primary
  <2> DEFINE e == ElementPause(q)
  <2>1. /\ Firm(e) /\ Ground(e) /\ InPlace(e) /\ OnTrack(e) /\ SecondHeld(e)
        /\ FirstHeld(e) /\ FailedWaits(e) /\ e.engaged = q.engaged
    BY <1>1, <1>2, ElementPauseKeeps
  <2>2. Good(e)
    BY <1>4, <2>1 DEF Good, Sound, Steady, ReadyWaits
  <2> QED
    BY <1>4, <2>2 DEF q, f
<1>5. CASE ~q.engaged /\ f.element # q.primary
  <2>1. Good(q)
    BY <1>2, <1>5 DEF Good, Sound, Steady
  <2>2. f.element = Secondary(q)
    BY <1>1, <1>5, Two DEF Fade
  <2>3. Good([q EXCEPT !.el[f.element].paused = TRUE])
    BY <2>1, <2>2, SecondStopsKeeps
  <2> QED
    BY <1>5, <2>3 DEF q, f
<1> QED
  BY <1>3, <1>4, <1>5

LEMMA SeekFadeKeeps ==
    ASSUME NEW p, Good(p), p.fades # <<>>, Head(p.fades).kind = "seek"
    PROVE  LET q == Faded(p)
               f == Head(p.fades)
               moved == MoveTo(PassedBy(q), f.target)
           IN Good(IF f.late \/ f.element # q.primary THEN q
                   ELSE IF q.engaged THEN ElementPlay(moved) ELSE moved)
<1> DEFINE q == Faded(p)
           f == Head(p.fades)
           g == PassedBy(q)
           moved == MoveTo(g, f.target)
<1>1. /\ q \in Page /\ f \in Fade /\ q.primary = p.primary
      /\ f.target <= Last /\ f.target # Nowhere
  <2>1. p \in Page /\ FadesInside(p.fades)
    BY SoundParts DEF Good, Within
  <2> QED
    BY <2>1, FadedIs
<1>2. /\ Firm(q) /\ InPlace(q) /\ SecondHeld(q) /\ ReadyWaits(q)
      /\ OnTrack(q) /\ FailedWaits(q) /\ FirstHeld(q)
      /\ f.late \/ f.element # q.primary => Ground(q)
  BY <1>1, FadedKeeps
<1>3. f.target \in 0..Last
  BY <1>1, Bounds DEF Fade
<1>4. CASE f.late \/ f.element # q.primary
  <2>1. Good(q)
    BY <1>2, <1>4 DEF Good, Sound, Steady
  <2> QED
    BY <1>4, <2>1
<1>5. CASE ~(f.late \/ f.element # q.primary)
  <2>1. Movable(q)
    BY <1>2 DEF Movable
  <2>2. g \in Page /\ Unsought(g) /\ SameWill(q, g)
    BY <1>1, PassedByIs
  <2>3. Movable(g) /\ ReadyWaits(g)
    BY <1>1, <1>2, <2>1, PassedByKeeps
  <2> HIDE DEF g
  <2>4. Sound(moved) /\ ReadyWaits(moved) /\ moved.engaged = g.engaged
    BY <1>3, <2>2, <2>3, MoveToKeeps
  <2> HIDE DEF moved
  <2>5. moved.engaged = q.engaged /\ Good(moved)
    BY <2>2, <2>4 DEF SameWill, Good
  <2>6. moved.engaged => Good(ElementPlay(moved))
    BY <2>4, ElementPlayKeeps
  <2>7. Good(IF q.engaged THEN ElementPlay(moved) ELSE moved)
    BY <2>5, <2>6
  <2> QED
    BY <1>5, <2>7 DEF moved, g
<1> QED
  BY <1>4, <1>5

LEMMA ChangeFadeKeeps ==
    ASSUME NEW p, Good(p), p.fades # <<>>, Head(p.fades).kind = "change"
    PROVE  LET q == Faded(p)
               f == Head(p.fades)
           IN Good(IF f.late THEN q ELSE LoadCurrent(q, q.engaged))
<1> DEFINE q == Faded(p)
           f == Head(p.fades)
<1>1. p \in Page /\ OnTrack(p) /\ FailedWaits(p)
  BY SoundParts DEF Good
<1>2. /\ q \in Page /\ SameTrack(p, q) /\ SameTimes(p, q) /\ SameWill(p, q)
      /\ Primary(q) = Primary(p)
  BY <1>1, FadedIs
<1>3. /\ Firm(q) /\ InPlace(q) /\ SecondHeld(q) /\ ReadyWaits(q)
      /\ f.late => OnTrack(q) /\ FailedWaits(q)
      /\ Ground(q) /\ FirstHeld(q)
  BY FadedKeeps
<1> HIDE DEF q, f
<1>4. CASE f.late
  <2>1. Good(q)
    BY <1>3, <1>4 DEF Good, Sound, Steady
  <2> QED
    BY <1>4, <2>1 DEF q, f
<1>5. CASE ~f.late /\ q.queue = <<>>
  <2>1. Current(q) = NoSong
    BY <1>5 DEF Current
  <2>2. Primary(q).src = NoSong /\ q.retry = NoRetry /\ ~q.engaged
    BY <1>1, <1>2, <1>5 DEF OnTrack, SameTrack, SameTimes, SameWill
  <2>3. Primary(q).data = "none"
    BY <1>3, <2>2, EmptyIs DEF Firm, Sources, Sourced
  <2>4. OnTrack(q) /\ FailedWaits(q)
    BY <2>2, <2>3 DEF OnTrack, FailedWaits
  <2>5. Good(q)
    BY <1>3, <2>4 DEF Good, Sound, Steady
  <2>6. LoadCurrent(q, q.engaged) = q
    BY <2>1 DEF LoadCurrent
  <2> QED
    BY <1>5, <2>5, <2>6 DEF q, f
<1>6. CASE ~f.late /\ q.queue # <<>>
  <2>1. Loadable(q)
    BY <1>3, <1>6 DEF Loadable, SecondHeld
  <2>2. q.engaged \in BOOLEAN
    BY <1>2, Parts
  <2>3. Good(LoadCurrent(q, q.engaged))
    BY <1>2, <2>1, <2>2, LoadCurrentKeeps
  <2> QED
    BY <1>6, <2>3 DEF q, f
<1> QED
  BY <1>4, <1>5, <1>6

-----------------------------------------------------------------------------
(* What the listener presses *)

\* Another queue in place of this one.
Replaced(p, songs) ==
    [p EXCEPT !.queue = songs, !.index = 1, !.preloadedFor = NoSong,
              !.astray = @ \/ Running(p, Secondary(p))]

LEMMA PlayNowKeeps ==
    ASSUME NEW p, Steady(p), NEW songs \in Seq(Songs), songs # <<>>
    PROVE  Good(PlayNow(p, songs))
<1> DEFINE lost == p.astray \/ Runs(Second(p))
           d == [p EXCEPT !.queue = songs, !.index = 1]
           q == [d EXCEPT !.preloadedFor = NoSong, !.astray = lost]
<1>1. p \in Page /\ Sources(p) /\ Within(p) /\ Retries(p) /\ Ground(p)
  BY DEF Steady, Firm
<1>2. lost \in BOOLEAN /\ lost = (p.astray \/ Running(p, Secondary(p)))
  BY <1>1, Parts DEF Runs, Running, Second
<1>3. q = Replaced(p, songs)
  BY <1>1, <1>2 DEF Replaced, Page
<1> HIDE DEF lost
<1>4. /\ d \in Page /\ d.queue = songs /\ d.index = 1
      /\ SameTimes(p, d) /\ SameWill(p, d) /\ SameFades(p, d) /\ d.el = p.el
  BY <1>1, ZenonT(60) DEF Page, SameTimes, SameWill, SameFades
<1> HIDE DEF d
<1>5. q \in Page
  <2>1. lost \in BOOLEAN /\ d \in Page /\ NoSong \in Songs \cup {NoSong}
    BY <1>2, <1>4
  <2> QED
    BY <2>1, ZenonT(60) DEF Page
<1>6. /\ q.queue = songs /\ q.index = 1 /\ q.preloadedFor = NoSong /\ q.astray = lost
      /\ SameTimes(p, q) /\ SameWill(p, q) /\ SameFades(p, q) /\ q.el = p.el
  BY <1>4 DEF Page, SameTimes, SameWill, SameFades
<1> HIDE DEF q
<1>7. Primary(q) = Primary(p) /\ Second(q) = Second(p)
  BY <1>6 DEF Primary, Second, Secondary, SameFades
<1>8. Firm(q)
  BY <1>1, <1>5, <1>6, <1>7
  DEF Firm, Sources, Within, Retries, Preloaded, SameTimes, SameFades
<1>9. Ground(q)
  <2>1. SeekPending(q) <=> SeekPending(p)
    BY <1>6, PendingsKept
  <2> QED
    BY <1>1, <1>6, <1>7, <2>1 DEF Ground, SameTimes
<1>10. Quiet(q)
  BY <1>6, <1>7 DEF Quiet, lost
<1>11. InPlace(q) /\ q.queue # <<>>
  <2>1. Len(songs) \in Nat /\ Len(songs) # 0
    BY EmptySeq
  <2> QED
    BY <1>6, <2>1 DEF InPlace
<1>12. Good(ChangeTrack(q))
  BY <1>8, <1>9, <1>10, <1>11, ChangeTrackKeeps DEF Steady
<1> QED
  BY <1>3, <1>12 DEF PlayNow, Replaced

LEMMA ToggleKeeps ==
    ASSUME NEW p, Good(p)
    PROVE  Good(Toggle(p))
BY PauseKeeps, PlayKeeps DEF Toggle, Good

LEMMA ChangeToKeeps ==
    ASSUME NEW p, Steady(p), Quiet(p), p.queue # <<>>, NEW i \in 1..Len(p.queue)
    PROVE  Good(ChangeTrack([p EXCEPT !.index = i]))
<1> DEFINE q == Placed(p, i)
<1>1. p \in Page
  BY DEF Steady, Firm
<1>2. InPlace(q) /\ q.queue # <<>> /\ Firm(q) /\ Ground(q) /\ Quiet(q)
  BY <1>1, PlacedKeeps DEF Steady
<1> HIDE DEF q
<1>3. Good(ChangeTrack(q))
  BY <1>2, ChangeTrackKeeps DEF Steady
<1> QED
  BY <1>3 DEF q, Placed

\* A press that stops an overlap first.
LEMMA AbandonGood ==
    ASSUME NEW p, Good(p)
    PROVE  LET q == AbandonCrossfade(p)
           IN Good(q) /\ Quiet(q) /\ Steady(q) /\ q \in Page /\ SameTrack(p, q)
<1> DEFINE q == AbandonCrossfade(p)
<1>1. p \in Page /\ Movable(p) /\ Ground(p) /\ ReadyWaits(p)
  BY GoodIsMovable
<1>2. Movable(q) /\ Quiet(q) /\ ReadyWaits(q) /\ Ground(q)
  BY <1>1, AbandonMovable
<1>3. q \in Page /\ SameTrack(p, q)
  <2>1. p \in Page
    BY <1>1
  <2> QED
    BY <2>1, AbandonIs
<1> QED
  BY <1>2, <1>3 DEF Movable, Good, Sound, Steady

LEMMA NextPressedKeeps ==
    ASSUME NEW p, Good(p), p.queue # <<>>
    PROVE  Good(NextPressed(p))
<1> DEFINE q == AbandonCrossfade(p)
<1>1. Good(q) /\ Quiet(q) /\ Steady(q) /\ q \in Page /\ q.queue # <<>> /\ InPlace(q)
  BY AbandonGood, SoundParts DEF Good, SameTrack
<1> HIDE DEF q
<1>2. q.index \in 1..Len(q.queue) /\ Len(q.queue) \in Nat
  BY <1>1, Parts DEF InPlace
<1>3. CASE q.index < Len(q.queue)
  <2>1. q.index + 1 \in 1..Len(q.queue)
    BY <1>2, <1>3
  <2>2. Good(ChangeTrack([q EXCEPT !.index = q.index + 1]))
    BY <1>1, <2>1, ChangeToKeeps
  <2>3. [q EXCEPT !.index = q.index + 1] = [q EXCEPT !.index = @ + 1]
    OBVIOUS
  <2> QED
    BY <1>3, <2>2, <2>3 DEF NextPressed, q
<1>4. CASE ~(q.index < Len(q.queue)) /\ q.repeat = "all"
  <2>1. 1 \in 1..Len(q.queue)
    BY <1>2
  <2>2. Good(ChangeTrack([q EXCEPT !.index = 1]))
    BY <1>1, <2>1, ChangeToKeeps
  <2> QED
    BY <1>4, <2>2 DEF NextPressed, q
<1>5. CASE ~(q.index < Len(q.queue)) /\ q.repeat # "all"
  BY <1>1, <1>5 DEF NextPressed, q
<1> QED
  BY <1>3, <1>4, <1>5

LEMMA SeekGood ==
    ASSUME NEW p, Good(p), NEW target \in 0..Last
    PROVE  Good(Seek(p, target))
<1>1. p \in Page /\ Movable(p) /\ ReadyWaits(p)
  BY GoodIsMovable
<1>2. LET q == Seek(p, target) IN Sound(q) /\ ReadyWaits(q)
  BY <1>1, SeekKeeps
<1> QED
  BY <1>2 DEF Good

LEMMA PreviousKeeps ==
    ASSUME NEW p, Good(p), p.queue # <<>>
    PROVE  Good(Previous(p))
<1> DEFINE q == AbandonCrossfade(p)
<1>1. Good(q) /\ Quiet(q) /\ Steady(q) /\ q \in Page /\ q.queue # <<>> /\ InPlace(q)
  BY AbandonGood, SoundParts DEF Good, SameTrack
<1> HIDE DEF q
<1>2. q.index \in 1..Len(q.queue) /\ Len(q.queue) \in Nat
  BY <1>1, Parts DEF InPlace
<1>3. CASE q.time > 0 \/ (q.index = 1 /\ q.repeat # "all")
  <2>1. 0 \in 0..Last
    BY Bounds
  <2>2. Good(Seek(q, 0))
    BY <1>1, <2>1, SeekGood
  <2> QED
    BY <1>3, <2>2 DEF Previous, q
<1>4. CASE ~(q.time > 0 \/ (q.index = 1 /\ q.repeat # "all"))
  <2> DEFINE i == IF q.index = 1 THEN Len(q.queue) ELSE q.index - 1
  <2>1. i \in 1..Len(q.queue)
    BY <1>2
  <2>2. [q EXCEPT !.index = i] = [q EXCEPT !.index = IF @ = 1 THEN Len(q.queue) ELSE @ - 1]
    OBVIOUS
  <2> HIDE DEF i
  <2>3. Good(ChangeTrack([q EXCEPT !.index = i]))
    BY <1>1, <2>1, ChangeToKeeps
  <2> QED
    BY <1>4, <2>2, <2>3 DEF Previous, q
<1> QED
  BY <1>3, <1>4

LEMMA TakenOutIs ==
    ASSUME NEW s \in Seq(Songs), NEW i \in 1..Len(s)
    PROVE  LET r == TakenOut(s, i)
           IN /\ r \in Seq(Songs) /\ Len(r) = Len(s) - 1
              /\ \A j \in 1..(Len(s) - 1) : r[j] = IF j < i THEN s[j] ELSE s[j + 1]
<1> DEFINE u == SubSeq(s, 1, i - 1)
           v == SubSeq(s, i + 1, Len(s))
<1>1. Len(s) \in Nat /\ i \in Int /\ \A j \in 1..Len(s) : s[j] \in Songs
  OBVIOUS
<1>2. /\ u \in Seq(Songs) /\ Len(u) = i - 1
      /\ \A j \in 1..(i - 1) : u[j] = s[j]
  <2>1. 1 \in Int /\ i - 1 \in Int /\ \A j \in 1..(i - 1) : s[j] \in Songs
    BY <1>1
  <2>2. /\ u \in Seq(Songs) /\ Len(u) = (IF 1 <= i - 1 THEN i - 1 - 1 + 1 ELSE 0)
        /\ \A j \in 1..(i - 1 - 1 + 1) : u[j] = s[1 + j - 1]
    BY <2>1, SubSeqProperties
  <2> HIDE DEF u
  <2> QED
    BY <1>1, <2>2
<1>3. /\ v \in Seq(Songs) /\ Len(v) = Len(s) - i
      /\ \A j \in 1..(Len(s) - i) : v[j] = s[i + j]
  <2>1. i + 1 \in Int /\ Len(s) \in Int /\ \A j \in (i + 1)..Len(s) : s[j] \in Songs
    BY <1>1
  <2>2. /\ v \in Seq(Songs)
        /\ Len(v) = (IF i + 1 <= Len(s) THEN Len(s) - (i + 1) + 1 ELSE 0)
        /\ \A j \in 1..(Len(s) - (i + 1) + 1) : v[j] = s[i + 1 + j - 1]
    BY <2>1, SubSeqProperties
  <2> HIDE DEF v
  <2>3. Len(v) = Len(s) - i
    BY <1>1, <2>2
  <2>4. \A j \in 1..(Len(s) - i) : v[j] = s[i + j]
    <3> TAKE j \in 1..(Len(s) - i)
    <3>1. j \in 1..(Len(s) - (i + 1) + 1) /\ i + 1 + j - 1 = i + j
      BY <1>1
    <3> QED
      BY <2>2, <3>1
  <2> QED
    BY <2>2, <2>3, <2>4
<1> HIDE DEF u, v
<1>4. /\ u \o v \in Seq(Songs) /\ Len(u \o v) = Len(u) + Len(v)
      /\ \A j \in 1..(Len(u) + Len(v)) :
             (u \o v)[j] = IF j <= Len(u) THEN u[j] ELSE v[j - Len(u)]
  BY <1>2, <1>3, ConcatProperties
<1>5. ASSUME NEW j \in 1..(Len(s) - 1)
      PROVE  (u \o v)[j] = IF j < i THEN s[j] ELSE s[j + 1]
  <2>1. (u \o v)[j] = IF j <= i - 1 THEN u[j] ELSE v[j - (i - 1)]
    BY <1>1, <1>2, <1>3, <1>4
  <2>2. CASE j < i
    BY <1>1, <1>2, <2>1, <2>2
  <2>3. CASE ~(j < i)
    <3>1. j - (i - 1) \in 1..(Len(s) - i) /\ i + (j - (i - 1)) = j + 1 /\ ~(j <= i - 1)
      BY <1>1, <2>3
    <3> QED
      BY <1>3, <2>1, <2>3, <3>1
  <2> QED
    BY <2>2, <2>3
<1>6. Len(u \o v) = Len(s) - 1
  BY <1>1, <1>2, <1>3, <1>4
<1> QED
  BY <1>4, <1>5, <1>6 DEF TakenOut, u, v

LEMMA PutInIs ==
    ASSUME NEW s \in Seq(Songs), NEW i \in 1..(Len(s) + 1), NEW x \in Songs
    PROVE  LET r == PutIn(s, i, x)
           IN /\ r \in Seq(Songs) /\ Len(r) = Len(s) + 1
              /\ \A j \in 1..(Len(s) + 1) :
                     r[j] = IF j < i THEN s[j] ELSE IF j = i THEN x ELSE s[j - 1]
<1> DEFINE u == SubSeq(s, 1, i - 1)
           m == <<x>>
           v == SubSeq(s, i, Len(s))
           w == u \o m
<1>1. Len(s) \in Nat /\ i \in Int /\ \A j \in 1..Len(s) : s[j] \in Songs
  OBVIOUS
<1>2. /\ u \in Seq(Songs) /\ Len(u) = i - 1
      /\ \A j \in 1..(i - 1) : u[j] = s[j]
  <2>1. 1 \in Int /\ i - 1 \in Int /\ \A j \in 1..(i - 1) : s[j] \in Songs
    BY <1>1
  <2>2. /\ u \in Seq(Songs) /\ Len(u) = (IF 1 <= i - 1 THEN i - 1 - 1 + 1 ELSE 0)
        /\ \A j \in 1..(i - 1 - 1 + 1) : u[j] = s[1 + j - 1]
    BY <2>1, SubSeqProperties
  <2> HIDE DEF u
  <2> QED
    BY <1>1, <2>2
<1>3. m \in Seq(Songs) /\ Len(m) = 1 /\ m[1] = x
  OBVIOUS
<1>4. /\ v \in Seq(Songs) /\ Len(v) = Len(s) - i + 1
      /\ \A j \in 1..(Len(s) - i + 1) : v[j] = s[i + j - 1]
  <2>1. i \in Int /\ Len(s) \in Int /\ \A j \in i..Len(s) : s[j] \in Songs
    BY <1>1
  <2>2. /\ v \in Seq(Songs) /\ Len(v) = (IF i <= Len(s) THEN Len(s) - i + 1 ELSE 0)
        /\ \A j \in 1..(Len(s) - i + 1) : v[j] = s[i + j - 1]
    BY <2>1, SubSeqProperties
  <2> HIDE DEF v
  <2> QED
    BY <1>1, <2>2
<1> HIDE DEF u, v, m
<1>5. /\ w \in Seq(Songs) /\ Len(w) = Len(u) + Len(m)
      /\ \A j \in 1..(Len(u) + Len(m)) :
             w[j] = IF j <= Len(u) THEN u[j] ELSE m[j - Len(u)]
  BY <1>2, <1>3, ConcatProperties
<1> HIDE DEF w
<1>6. /\ w \o v \in Seq(Songs) /\ Len(w \o v) = Len(w) + Len(v)
      /\ \A j \in 1..(Len(w) + Len(v)) :
             (w \o v)[j] = IF j <= Len(w) THEN w[j] ELSE v[j - Len(w)]
  <2>1. w \in Seq(Songs) /\ v \in Seq(Songs)
    BY <1>4, <1>5
  <2> QED
    BY <2>1, ConcatProperties
<1>7. Len(w) = i /\ Len(w \o v) = Len(s) + 1
  BY <1>1, <1>2, <1>3, <1>4, <1>5, <1>6
<1>8. ASSUME NEW j \in 1..(Len(s) + 1)
      PROVE  (w \o v)[j] = IF j < i THEN s[j] ELSE IF j = i THEN x ELSE s[j - 1]
  <2>1. (w \o v)[j] = IF j <= i THEN w[j] ELSE v[j - i]
    BY <1>1, <1>4, <1>6, <1>7
  <2>2. CASE j < i
    <3>1. w[j] = u[j]
      BY <1>1, <1>2, <1>3, <1>5, <2>2
    <3> QED
      BY <1>1, <1>2, <2>1, <2>2, <3>1
  <2>3. CASE j = i
    <3>1. w[i] = m[1]
      BY <1>1, <1>2, <1>3, <1>5
    <3> QED
      BY <1>1, <1>3, <2>1, <2>3, <3>1
  <2>4. CASE ~(j < i) /\ j # i
    <3>1. j - i \in 1..(Len(s) - i + 1) /\ i + (j - i) - 1 = j - 1
      BY <1>1, <2>4
    <3>2. v[j - i] = s[j - 1]
      BY <1>4, <3>1
    <3> QED
      BY <1>1, <2>1, <2>4, <3>2
  <2> QED
    BY <2>2, <2>3, <2>4
<1> QED
  BY <1>6, <1>7, <1>8 DEF PutIn, u, v, m, w

\* All that holds of a page but which track the second element may run.
Loose(p) ==
    /\ Steady(p) /\ InPlace(p) /\ OnTrack(p) /\ FirstHeld(p) /\ FailedWaits(p) /\ ReadyWaits(p)
    /\ Runs(Second(p)) /\ ~p.astray => p.engaged /\ p.ramp # "none" /\ p.preloadedFor # NoSong

LEMMA GoodIsLoose ==
    ASSUME NEW p, Good(p)
    PROVE  Loose(p)
BY DEF Good, Sound, Loose, SecondHeld

LEMMA InvalidateGood ==
    ASSUME NEW p, Loose(p)
    PROVE  LET q == InvalidatePreload(p)
           IN Good(q) /\ Quiet(q) /\ q \in Page /\ SameTrack(p, q)
<1> DEFINE q == InvalidatePreload(p)
<1>1. p \in Page /\ Sources(p) /\ Within(p) /\ Retries(p)
  BY DEF Loose, Steady, Firm
<1>2. /\ q \in Page
      /\ SameTrack(p, q) /\ SameTimes(p, q) /\ SameWill(p, q) /\ SameFades(p, q)
      /\ q.astray = p.astray /\ Primary(q) = Primary(p)
  BY <1>1, InvalidateIs
<1>3. Firm(q) /\ Quiet(q)
  <2>1. Runs(Second(p)) /\ ~p.astray => p.preloadedFor # NoSong \/ p.ramp # "none"
    BY DEF Loose
  <2> QED
    BY <1>1, <2>1, InvalidateKeeps
<1> HIDE DEF q
<1>4. /\ InPlace(q) /\ Ground(q) /\ OnTrack(q) /\ FirstHeld(q) /\ FailedWaits(q)
      /\ ReadyWaits(q)
  BY <1>1, <1>2, FirstKept DEF Loose, Steady
<1>5. SecondHeld(q)
  BY <1>3 DEF SecondHeld, Quiet
<1> QED
  BY <1>2, <1>3, <1>4, <1>5 DEF Good, Sound, Steady, q

\* Another place in another queue.
Requeued(p, songs, i) == [p EXCEPT !.queue = songs, !.index = i]

LEMMA RequeuedIs ==
    ASSUME NEW p \in Page, NEW songs \in Seq(Songs), NEW i \in Nat
    PROVE  LET q == Requeued(p, songs, i)
           IN /\ q \in Page /\ q.queue = songs /\ q.index = i
              /\ SameTimes(p, q) /\ SameWill(p, q) /\ SameFades(p, q) /\ SameNext(p, q)
              /\ Primary(q) = Primary(p) /\ Second(q) = Second(p)
<1> DEFINE q == Requeued(p, songs, i)
<1>1. q \in Page
  BY ZenonT(60) DEF Requeued, Page
<1>2. /\ q.queue = songs /\ q.index = i /\ q.el = p.el
      /\ SameTimes(p, q) /\ SameWill(p, q) /\ SameFades(p, q) /\ SameNext(p, q)
  BY DEF Requeued, Page, SameTimes, SameWill, SameFades, SameNext
<1> HIDE DEF q
<1>3. Primary(q) = Primary(p) /\ Second(q) = Second(p)
  BY <1>2 DEF Primary, Second, Secondary, SameFades
<1> QED
  BY <1>1, <1>2, <1>3 DEF q

\* A queue changed around the track that plays.
LEMMA RequeuedKeeps ==
    ASSUME NEW p, Good(p), p.queue # <<>>, NEW songs \in Seq(Songs), NEW i \in 1..Len(songs),
           songs[i] = Current(p)
    PROVE  LET q == Requeued(p, songs, i)
           IN /\ q \in Page /\ Loose(q) /\ q.queue # <<>> /\ q.preloadedFor = p.preloadedFor
              /\ (p.index < Len(p.queue) => i < Len(songs) /\ songs[i + 1] = p.queue[p.index + 1])
                     => Good(q)
<1> DEFINE q == Requeued(p, songs, i)
<1>1. /\ p \in Page /\ Firm(p) /\ Sources(p) /\ Within(p) /\ Retries(p) /\ Preloaded(p)
      /\ Ground(p) /\ InPlace(p) /\ OnTrack(p) /\ SecondHeld(p) /\ FirstHeld(p)
      /\ FailedWaits(p) /\ ReadyWaits(p)
  BY SoundParts DEF Good
<1>2. i \in Nat /\ songs # <<>>
  <2>1. Len(songs) \in Nat /\ 1 <= Len(songs)
    OBVIOUS
  <2> QED
    BY <2>1, EmptySeq
<1>3. /\ q \in Page /\ q.queue = songs /\ q.index = i
      /\ SameTimes(p, q) /\ SameWill(p, q) /\ SameFades(p, q) /\ SameNext(p, q)
      /\ Primary(q) = Primary(p) /\ Second(q) = Second(p)
  BY <1>1, <1>2, RequeuedIs
<1> HIDE DEF q
<1>4. Current(q) = Current(p) /\ InPlace(q)
  BY <1>2, <1>3 DEF Current, InPlace
<1>5. /\ ChangePending(q) <=> ChangePending(p)
      /\ SeekPending(q) <=> SeekPending(p)
      /\ PausePending(q) <=> PausePending(p)
  BY <1>3, PendingsKept
<1>6. Firm(q)
  BY <1>1, <1>3
  DEF Firm, Sources, Within, Retries, Preloaded, SameTimes, SameFades, SameNext
<1>7. Ground(q)
  BY <1>1, <1>3, <1>5 DEF Ground, SameTimes
<1>8. OnTrack(q)
  BY <1>1, <1>2, <1>3, <1>4, <1>5 DEF OnTrack, SameTimes, SameWill
<1>9. FirstHeld(q) /\ FailedWaits(q) /\ ReadyWaits(q)
  BY <1>1, <1>3, <1>4, <1>5
  DEF FirstHeld, FailedWaits, ReadyWaits, SameNext, SameWill, SameTimes, SameFades
<1>10. Loose(q)
  <2>1. Runs(Second(q)) /\ ~q.astray
            => q.engaged /\ q.ramp # "none" /\ q.preloadedFor # NoSong
    BY <1>1, <1>3 DEF SecondHeld, SameNext, SameWill
  <2> QED
    BY <1>4, <1>6, <1>7, <1>8, <1>9, <2>1 DEF Loose, Steady
<1>11. (p.index < Len(p.queue) => i < Len(songs) /\ songs[i + 1] = p.queue[p.index + 1])
           => Good(q)
  <2>1. (p.index < Len(p.queue) => i < Len(songs) /\ songs[i + 1] = p.queue[p.index + 1])
            => SecondHeld(q)
    BY <1>1, <1>3 DEF SecondHeld, SameNext, SameWill
  <2> QED
    BY <1>10, <2>1 DEF Loose, Good, Sound
<1> QED
  BY <1>2, <1>3, <1>10, <1>11 DEF q, SameNext

\* A queue emptied, of a player that was stopped.
LEMMA EmptiedKeeps ==
    ASSUME NEW p \in Page, Stopped(p), NEW i \in Nat
    PROVE  Good(Requeued(p, <<>>, i))
<1> DEFINE q == Requeued(p, <<>>, i)
<1>1. <<>> \in Seq(Songs)
  BY EmptySeq
<1>2. /\ q \in Page /\ q.queue = <<>>
      /\ SameTimes(p, q) /\ SameWill(p, q) /\ SameFades(p, q) /\ SameNext(p, q)
      /\ Primary(q) = Primary(p) /\ Second(q) = Second(p)
  BY <1>1, RequeuedIs, ZenonT(60)
<1> HIDE DEF q
<1>3. SeekPending(q) <=> SeekPending(p)
  BY <1>2, PendingsKept
<1>4. Firm(q) /\ Ground(q)
  BY <1>2, <1>3
  DEF Stopped, Steady, Firm, Sources, Within, Retries, Preloaded, Ground,
      SameTimes, SameFades, SameNext
<1>5. InPlace(q)
  BY <1>2 DEF InPlace
<1>6. /\ OnTrack(q) /\ SecondHeld(q) /\ FirstHeld(q) /\ FailedWaits(q) /\ ReadyWaits(q)
  BY <1>2, EmptyIs
  DEF Stopped, Quiet, OnTrack, SecondHeld, FirstHeld, FailedWaits, ReadyWaits, Runs,
      SameTimes, SameWill, SameNext
<1> QED
  BY <1>4, <1>5, <1>6 DEF Good, Sound, Steady, q

LEMMA JumpToKeeps ==
    ASSUME NEW p, Good(p), p.queue # <<>>, NEW i \in 1..Len(p.queue)
    PROVE  Good(JumpTo(p, i))
<1> DEFINE d == Placed(p, i)
           q == InvalidatePreload(d)
<1>1. /\ p \in Page /\ Firm(p) /\ Ground(p) /\ SecondHeld(p)
  BY SoundParts DEF Good
<1>2. InPlace(d) /\ d.queue # <<>> /\ Firm(d) /\ Ground(d) /\ Loadable(d)
  BY <1>1, PlacedKeeps
<1> HIDE DEF d
<1>3. /\ d \in Page /\ Sources(d) /\ Within(d) /\ Retries(d)
      /\ Runs(Second(d)) /\ ~d.astray => d.preloadedFor # NoSong \/ d.ramp # "none"
  BY <1>2 DEF Loadable, Firm
<1>4. /\ q \in Page
      /\ SameTrack(d, q) /\ SameTimes(d, q) /\ SameWill(d, q) /\ SameFades(d, q)
      /\ Primary(q) = Primary(d)
  BY <1>3, InvalidateIs
<1>5. Firm(q) /\ Quiet(q)
  BY <1>3, InvalidateKeeps
<1> HIDE DEF q
<1>6. InPlace(q) /\ Ground(q) /\ q.queue # <<>>
  BY <1>2, <1>3, <1>4, FirstKept DEF SameTrack
<1>7. Good(ChangeTrack(q))
  BY <1>5, <1>6, ChangeTrackKeeps DEF Steady
<1> QED
  BY <1>7 DEF JumpTo, Placed, q, d

LEMMA RemoveAtKeeps ==
    ASSUME NEW p, Good(p), p.queue # <<>>, NEW i \in 1..Len(p.queue)
    PROVE  Good(RemoveAt(p, i))
<1> DEFINE kept == TakenOut(p.queue, i)
           d == [p EXCEPT !.queue = kept]
<1>1. /\ p \in Page /\ Firm(p) /\ Ground(p) /\ InPlace(p) /\ SecondHeld(p)
  BY SoundParts DEF Good
<1>2. /\ p.queue \in Seq(Songs) /\ Len(p.queue) \in Nat /\ p.index \in 1..Len(p.queue)
      /\ Current(p) = p.queue[p.index]
  BY <1>1, Parts DEF InPlace, Current
<1>3. /\ kept \in Seq(Songs) /\ Len(kept) = Len(p.queue) - 1
      /\ \A j \in 1..(Len(p.queue) - 1) :
             kept[j] = IF j < i THEN p.queue[j] ELSE p.queue[j + 1]
  BY <1>2, TakenOutIs
<1> HIDE DEF kept
<1>4. \A n \in Nat : [d EXCEPT !.index = n] = Requeued(p, kept, n)
  BY <1>1 DEF Requeued, Page
<1>5. d = Requeued(p, kept, p.index) /\ d.index = p.index
  BY <1>1, <1>3 DEF Requeued, Page
<1>6. RemoveAt(p, i) =
        IF kept = <<>> THEN Stop(d)
        ELSE InvalidatePreload(
               IF i < p.index THEN [d EXCEPT !.index = @ - 1]
               ELSE IF i > p.index THEN d
               ELSE LoadCurrent([d EXCEPT !.index = IF @ > Len(kept) THEN Len(kept) ELSE @],
                                p.engaged))
  BY DEF RemoveAt, kept
<1> HIDE DEF d
<1>7. CASE kept = <<>>
  <2>1. /\ d \in Page /\ d.queue = <<>>
        /\ SameTimes(p, d) /\ SameWill(p, d) /\ SameFades(p, d) /\ SameNext(p, d)
        /\ Primary(d) = Primary(p) /\ Second(d) = Second(p)
    <3>1. p \in Page /\ p.index \in Nat /\ kept \in Seq(Songs)
      BY <1>1, <1>3, Parts
    <3> DEFINE r == Requeued(p, kept, p.index)
    <3>2. /\ r \in Page /\ r.queue = kept
          /\ SameTimes(p, r) /\ SameWill(p, r) /\ SameFades(p, r) /\ SameNext(p, r)
          /\ Primary(r) = Primary(p) /\ Second(r) = Second(p)
      BY <3>1, RequeuedIs, ZenonT(60)
    <3>3. d = r
      BY <1>5
    <3> HIDE DEF r
    <3> QED
      BY <1>7, <3>2, <3>3
  <2>2. Firm(d)
    BY <1>1, <2>1
    DEF Firm, Sources, Within, Retries, Preloaded, SameTimes, SameFades, SameNext
  <2>3. Ramped(d)
    BY <1>1, <2>1 DEF SecondHeld, Ramped, SameNext
  <2> DEFINE s == Stop(d)
  <2>4. Stopped(s) /\ SameTrack(d, s)
    BY <2>1, <2>2, <2>3, StopKeeps
  <2> HIDE DEF s
  <2>5. s \in Page /\ s.queue = <<>> /\ s.index \in Nat
    BY <2>1, <2>4, Parts DEF Stopped, Steady, Firm, SameTrack
  <2>6. Requeued(s, <<>>, s.index) = s
    BY <2>5 DEF Requeued, Page
  <2>7. Good(s)
    BY <2>4, <2>5, <2>6, EmptiedKeeps
  <2> QED
    BY <1>6, <1>7, <2>7 DEF s
<1>8. CASE kept # <<>> /\ i < p.index
  <2>1. /\ p.index - 1 \in 1..Len(kept) /\ p.index - 1 \in Nat
        /\ kept[p.index - 1] = p.queue[p.index]
    BY <1>2, <1>3, <1>8
  <2>2. Loose(Requeued(p, kept, p.index - 1))
    BY <1>2, <1>3, <2>1, RequeuedKeeps
  <2>3. [d EXCEPT !.index = @ - 1] = Requeued(p, kept, p.index - 1)
    BY <1>4, <1>5, <2>1
  <2> QED
    BY <1>6, <1>8, <2>2, <2>3, InvalidateGood
<1>9. CASE kept # <<>> /\ i > p.index
  <2>1. p.index \in 1..Len(kept) /\ kept[p.index] = p.queue[p.index]
    BY <1>2, <1>3, <1>9
  <2>2. Loose(Requeued(p, kept, p.index))
    BY <1>2, <1>3, <2>1, RequeuedKeeps
  <2> QED
    BY <1>2, <1>5, <1>6, <1>9, <2>2, InvalidateGood
<1>10. CASE kept # <<>> /\ i = p.index
  <2> DEFINE n == IF p.index > Len(kept) THEN Len(kept) ELSE p.index
             q == Requeued(p, kept, n)
  <2>1. n \in 1..Len(kept) /\ n \in Nat
    <3>1. Len(kept) \in Nat /\ Len(kept) # 0
      BY <1>3, <1>10, EmptySeq
    <3> QED
      BY <1>2, <3>1
  <2>2. [d EXCEPT !.index = IF @ > Len(kept) THEN Len(kept) ELSE @] = q
    BY <1>4, <1>5, <2>1
  <2> HIDE DEF n
  <2>3. /\ q \in Page /\ q.queue = kept /\ q.index = n
        /\ SameTimes(p, q) /\ SameWill(p, q) /\ SameFades(p, q) /\ SameNext(p, q)
        /\ Primary(q) = Primary(p) /\ Second(q) = Second(p)
    BY <1>1, <1>3, <2>1, RequeuedIs
  <2> HIDE DEF q
  <2>4. Firm(q)
    BY <1>1, <2>3
    DEF Firm, Sources, Within, Retries, Preloaded, SameTimes, SameFades, SameNext
  <2>5. Loadable(q)
    BY <1>1, <1>10, <2>1, <2>3, <2>4
    DEF Loadable, InPlace, SecondHeld, SameNext, SameWill
  <2>6. p.engaged \in BOOLEAN /\ q.engaged = p.engaged
    BY <1>1, <2>3, Parts DEF SameWill
  <2>7. Good(LoadCurrent(q, p.engaged))
    BY <2>3, <2>5, <2>6, LoadCurrentKeeps
  <2>8. Good(InvalidatePreload(LoadCurrent(q, p.engaged)))
    BY <2>7, GoodIsLoose, InvalidateGood
  <2> QED
    BY <1>2, <1>6, <1>10, <2>2, <2>8
<1> QED
  BY <1>2, <1>7, <1>8, <1>9, <1>10

LEMMA MoveKeeps ==
    ASSUME NEW p, Good(p), p.queue # <<>>, NEW from \in 1..Len(p.queue),
           NEW to \in 1..Len(p.queue)
    PROVE  Good(Move(p, from, to))
<1> DEFINE s == p.queue
           x == s[from]
           out == TakenOut(s, from)
           songs == PutIn(out, to, x)
           n == IF from = p.index THEN to
                ELSE IF from < p.index /\ to >= p.index THEN p.index - 1
                ELSE IF from > p.index /\ to <= p.index THEN p.index + 1 ELSE p.index
           q == Requeued(p, songs, n)
<1>1. p \in Page /\ InPlace(p) /\ SecondHeld(p) /\ Preloaded(p)
  BY SoundParts DEF Good
<1>2. /\ s \in Seq(Songs) /\ Len(s) \in Nat /\ p.index \in 1..Len(s) /\ x \in Songs
      /\ Current(p) = s[p.index]
  BY <1>1, Parts DEF InPlace, Current
<1>3. /\ out \in Seq(Songs) /\ Len(out) = Len(s) - 1
      /\ \A j \in 1..(Len(s) - 1) : out[j] = IF j < from THEN s[j] ELSE s[j + 1]
  BY <1>2, TakenOutIs
<1>4. /\ songs \in Seq(Songs) /\ Len(songs) = Len(s)
      /\ \A j \in 1..Len(s) :
             songs[j] = IF j < to THEN out[j] ELSE IF j = to THEN x ELSE out[j - 1]
  <2>1. to \in 1..(Len(out) + 1)
    BY <1>2, <1>3
  <2> HIDE DEF out, x
  <2>2. /\ songs \in Seq(Songs) /\ Len(songs) = Len(out) + 1
        /\ \A j \in 1..(Len(out) + 1) :
               songs[j] = IF j < to THEN out[j] ELSE IF j = to THEN x ELSE out[j - 1]
    <3>1. out \in Seq(Songs) /\ x \in Songs
      BY <1>2, <1>3
    <3> QED
      BY <2>1, <3>1, PutInIs
  <2> HIDE DEF songs
  <2>3. Len(out) + 1 = Len(s)
    BY <1>2, <1>3
  <2> QED
    BY <2>2, <2>3
<1>5. Move(p, from, to) =
        LET r == [p EXCEPT !.queue = PutIn(TakenOut(@, from), to, p.queue[from]),
                           !.index = IF from = @ THEN to
                                     ELSE IF from < @ /\ to >= @ THEN @ - 1
                                     ELSE IF from > @ /\ to <= @ THEN @ + 1 ELSE @]
        IN IF UpNext(r) # UpNext(p) THEN InvalidatePreload(r) ELSE r
  BY DEF Move
<1>6. [p EXCEPT !.queue = PutIn(TakenOut(@, from), to, p.queue[from]),
                !.index = IF from = @ THEN to
                          ELSE IF from < @ /\ to >= @ THEN @ - 1
                          ELSE IF from > @ /\ to <= @ THEN @ + 1 ELSE @] = q
  BY <1>1 DEF Page, Requeued
<1> HIDE DEF songs, out, x
<1>7. n \in 1..Len(songs) /\ n \in Nat
  BY <1>2, <1>4
<1>8. songs[n] = s[p.index]
  <2>1. CASE from = p.index
    BY <1>2, <1>4, <2>1 DEF x
  <2>2. CASE from < p.index /\ to >= p.index
    <3>1. n = p.index - 1 /\ n \in 1..(Len(s) - 1) /\ n < to /\ ~(n < from) /\ n \in 1..Len(s)
      BY <1>2, <2>2
    <3>2. songs[n] = out[n] /\ out[n] = s[n + 1]
      BY <1>3, <1>4, <3>1
    <3> QED
      BY <1>2, <3>1, <3>2
  <2>3. CASE from > p.index /\ to <= p.index
    <3>1. /\ n = p.index + 1 /\ n \in 1..Len(s) /\ ~(n < to) /\ n # to
          /\ p.index \in 1..(Len(s) - 1) /\ n - 1 = p.index
      BY <1>2, <2>3
    <3>2. songs[n] = out[p.index] /\ out[p.index] = s[p.index]
      BY <1>3, <1>4, <2>3, <3>1
    <3> QED
      BY <3>2
  <2>4. CASE from < p.index /\ to < p.index
    <3>1. /\ n = p.index /\ n \in 1..Len(s) /\ ~(n < to) /\ n # to
          /\ n - 1 \in 1..(Len(s) - 1) /\ ~(n - 1 < from)
      BY <1>2, <2>4
    <3>2. songs[n] = out[n - 1] /\ out[n - 1] = s[n - 1 + 1]
      BY <1>3, <1>4, <3>1
    <3> QED
      BY <1>2, <3>1, <3>2
  <2>5. CASE from > p.index /\ to > p.index
    <3>1. n = p.index /\ n \in 1..Len(s) /\ n < to /\ n < from /\ n \in 1..(Len(s) - 1)
      BY <1>2, <2>5
    <3>2. songs[n] = out[n] /\ out[n] = s[n]
      BY <1>3, <1>4, <3>1
    <3> QED
      BY <3>1, <3>2
  <2> QED
    BY <1>2, <2>1, <2>2, <2>3, <2>4, <2>5
<1> HIDE DEF n
<1>9. q \in Page /\ q.queue = songs /\ q.index = n /\ q.preloadedFor = p.preloadedFor
      /\ SameWill(p, q) /\ SameNext(p, q) /\ Second(q) = Second(p)
  <2>1. songs \in Seq(Songs)
    BY <1>4
  <2> QED
    BY <1>1, <1>7, <2>1, RequeuedIs DEF SameNext
<1>10. Loose(q)
  <2>1. songs \in Seq(Songs) /\ songs[n] = Current(p)
    BY <1>2, <1>4, <1>8
  <2> QED
    BY <1>7, <2>1, RequeuedKeeps
<1> HIDE DEF q
<1>11. UpNext(q) = UpNext(p) => Good(q)
  <2>1. ASSUME UpNext(q) = UpNext(p), p.index < Len(s)
        PROVE  n < Len(songs) /\ songs[n + 1] = s[p.index + 1]
    <3>1. UpNext(p) = s[p.index + 1]
      BY <2>1 DEF UpNext
    <3>2. s[p.index + 1] \in Songs
      BY <1>2, <2>1
    <3>3. UpNext(p) # NoSong
      BY <3>1, <3>2, PlaybackAssumption
    <3> QED
      BY <1>9, <2>1, <3>1, <3>3 DEF UpNext
  <2>2. UpNext(q) = UpNext(p) => SecondHeld(q)
    BY <1>1, <1>9, <2>1 DEF SecondHeld, SameNext, SameWill
  <2> QED
    BY <1>10, <2>2 DEF Loose, Good, Sound
<1>12. Good(InvalidatePreload(q))
  BY <1>10, InvalidateGood
<1> QED
  BY <1>5, <1>6, <1>11, <1>12

LEMMA SingleIs ==
    ASSUME NEW song \in Songs
    PROVE  <<song>> \in Seq(Songs) /\ <<song>> # <<>> /\ Len(<<song>>) = 1 /\ <<song>>[1] = song
OBVIOUS

LEMMA AddToQueueKeeps ==
    ASSUME NEW p, Good(p), NEW song \in Songs
    PROVE  Good(AddToQueue(p, song))
<1>1. p \in Page /\ InPlace(p) /\ Steady(p)
  BY SoundParts DEF Good, Sound
<1>2. CASE p.queue = <<>>
  <2>1. Good(PlayNow(p, <<song>>))
    BY <1>1, SingleIs, PlayNowKeeps
  <2> QED
    BY <1>2, <2>1 DEF AddToQueue
<1>3. CASE p.queue # <<>>
  <2> DEFINE s == p.queue
             songs == Append(s, song)
  <2>1. /\ s \in Seq(Songs) /\ Len(s) \in Nat /\ p.index \in 1..Len(s)
        /\ Current(p) = s[p.index]
    BY <1>1, <1>3, Parts DEF InPlace, Current
  <2>2. /\ songs \in Seq(Songs) /\ Len(songs) = Len(s) + 1
        /\ \A j \in 1..Len(s) : songs[j] = s[j]
    BY <2>1, AppendProperties
  <2>3. AddToQueue(p, song) = Requeued(p, songs, p.index)
    BY <1>1, <1>3 DEF AddToQueue, Requeued, Page
  <2> HIDE DEF songs
  <2>4. p.index \in 1..Len(songs) /\ songs[p.index] = Current(p)
    BY <2>1, <2>2
  <2>5. p.index < Len(s) => p.index < Len(songs) /\ songs[p.index + 1] = s[p.index + 1]
    BY <2>1, <2>2
  <2>6. songs \in Seq(Songs)
    BY <2>2
  <2>7. Good(Requeued(p, songs, p.index))
    BY <1>3, <2>4, <2>5, <2>6, RequeuedKeeps
  <2> QED
    BY <2>3, <2>7
<1> QED
  BY <1>2, <1>3

LEMMA PlayNextKeeps ==
    ASSUME NEW p, Good(p), NEW song \in Songs
    PROVE  Good(PlayNext(p, song))
<1>1. p \in Page /\ InPlace(p) /\ Steady(p)
  BY SoundParts DEF Good, Sound
<1>2. CASE p.queue = <<>>
  <2>1. Good(PlayNow(p, <<song>>))
    BY <1>1, SingleIs, PlayNowKeeps
  <2> QED
    BY <1>2, <2>1 DEF PlayNext
<1>3. CASE p.queue # <<>>
  <2> DEFINE s == p.queue
             n == p.index + 1
             songs == PutIn(s, n, song)
  <2>1. /\ s \in Seq(Songs) /\ Len(s) \in Nat /\ p.index \in 1..Len(s)
        /\ Current(p) = s[p.index] /\ n \in 1..(Len(s) + 1) /\ n = p.index + 1
    BY <1>1, <1>3, Parts DEF InPlace, Current
  <2>2. /\ songs \in Seq(Songs) /\ Len(songs) = Len(s) + 1
        /\ \A j \in 1..(Len(s) + 1) :
               songs[j] = IF j < n THEN s[j] ELSE IF j = n THEN song ELSE s[j - 1]
    <3>1. s \in Seq(Songs) /\ n \in 1..(Len(s) + 1)
      BY <2>1
    <3> HIDE DEF n, s
    <3> QED
      BY <3>1, PutInIs
  <2>3. PlayNext(p, song) = InvalidatePreload(Requeued(p, songs, p.index))
    <3>1. [p EXCEPT !.queue = PutIn(@, p.index + 1, song)] = Requeued(p, songs, p.index)
      BY <1>1 DEF Requeued, Page
    <3> QED
      BY <1>3, <3>1 DEF PlayNext
  <2> HIDE DEF songs
  <2>4. p.index \in 1..Len(songs) /\ songs[p.index] = Current(p) /\ songs \in Seq(Songs)
    BY <2>1, <2>2
  <2>5. Loose(Requeued(p, songs, p.index))
    BY <1>3, <2>4, RequeuedKeeps
  <2> QED
    BY <2>3, <2>5, InvalidateGood
<1> QED
  BY <1>2, <1>3

\* A queue that was empty, filled without sound.
LEMMA FilledKeeps ==
    ASSUME NEW p, Good(p), p.queue = <<>>, NEW song \in Songs
    PROVE  Good(Requeued(p, <<song>>, 1))
<1> DEFINE songs == <<song>>
           q == Requeued(p, songs, 1)
<1>1. /\ p \in Page /\ Firm(p) /\ Sources(p) /\ Within(p) /\ Retries(p) /\ Preloaded(p)
      /\ Ground(p) /\ OnTrack(p) /\ SecondHeld(p) /\ FirstHeld(p)
      /\ FailedWaits(p) /\ ReadyWaits(p)
  BY SoundParts DEF Good
<1>2. songs \in Seq(Songs) /\ Len(songs) = 1 /\ songs # <<>>
  BY SingleIs
<1> HIDE DEF songs
<1>3. /\ q \in Page /\ q.queue = songs /\ q.index = 1
      /\ SameTimes(p, q) /\ SameWill(p, q) /\ SameFades(p, q) /\ SameNext(p, q)
      /\ Primary(q) = Primary(p) /\ Second(q) = Second(p)
  BY <1>1, <1>2, RequeuedIs
<1> HIDE DEF q
<1>4. Primary(p).src = NoSong /\ p.retry = NoRetry /\ ~p.engaged
  BY <1>1 DEF OnTrack
<1>5. Primary(p).data = "none"
  BY <1>1, <1>4, EmptyIs DEF Sources, Sourced
<1>6. SeekPending(q) <=> SeekPending(p)
  BY <1>3, PendingsKept
<1>7. Firm(q)
  BY <1>1, <1>3
  DEF Firm, Sources, Within, Retries, Preloaded, SameTimes, SameFades, SameNext
<1>8. Ground(q)
  BY <1>1, <1>3, <1>6 DEF Ground, SameTimes
<1>9. InPlace(q)
  BY <1>2, <1>3 DEF InPlace
<1>10. OnTrack(q) /\ q.queue # <<>>
  BY <1>2, <1>3, <1>4 DEF OnTrack, SameTimes, SameWill
<1>11. SecondHeld(q)
  BY <1>1, <1>3, <1>4 DEF SecondHeld, SameNext, SameWill
<1>12. FirstHeld(q) /\ FailedWaits(q) /\ ReadyWaits(q)
  BY <1>3, <1>5 DEF FirstHeld, FailedWaits, ReadyWaits, Runs
<1> QED
  BY <1>7, <1>8, <1>9, <1>10, <1>11, <1>12 DEF Good, Sound, Steady, q, songs

LEMMA QueueAdditionKeeps ==
    ASSUME NEW p, Good(p), NEW song \in Songs
    PROVE  Good(QueueAddition(p, song))
<1>1. CASE p.queue = <<>>
  <2>1. Good(Requeued(p, <<song>>, 1))
    BY <1>1, FilledKeeps
  <2> QED
    BY <1>1, <2>1 DEF QueueAddition, Requeued
<1>2. CASE p.queue # <<>>
  BY <1>2, PlayNextKeeps DEF QueueAddition
<1> QED
  BY <1>1, <1>2

LEMMA CycleRepeatKeeps ==
    ASSUME NEW p, Good(p)
    PROVE  Good(CycleRepeat(p))
<1> DEFINE mode == CASE p.repeat = "off" -> "all" [] p.repeat = "all" -> "one" [] OTHER -> "off"
           q == [p EXCEPT !.repeat = mode]
<1>1. /\ p \in Page /\ Firm(p) /\ Sources(p) /\ Within(p) /\ Retries(p) /\ Preloaded(p)
      /\ Ground(p) /\ InPlace(p) /\ OnTrack(p) /\ SecondHeld(p) /\ FirstHeld(p)
      /\ FailedWaits(p) /\ ReadyWaits(p)
  BY SoundParts DEF Good
<1>2. mode \in {"off", "all", "one"}
  BY <1>1, Parts
<1>3. q = CycleRepeat(p)
  BY DEF CycleRepeat
<1> HIDE DEF mode
<1>4. q \in Page
  BY <1>1, <1>2 DEF Page
<1>5. /\ q.queue = p.queue /\ q.index = p.index /\ q.el = p.el
      /\ SameTimes(p, q) /\ SameWill(p, q) /\ SameFades(p, q) /\ SameNext(p, q)
  BY <1>1 DEF Page, SameTimes, SameWill, SameFades, SameNext
<1> HIDE DEF q
<1>6. Primary(q) = Primary(p) /\ Second(q) = Second(p) /\ Current(q) = Current(p)
  BY <1>5 DEF Primary, Second, Secondary, SameFades, Current
<1>7. /\ ChangePending(q) <=> ChangePending(p)
      /\ SeekPending(q) <=> SeekPending(p)
      /\ PausePending(q) <=> PausePending(p)
  BY <1>5, PendingsKept
<1>8. Firm(q)
  BY <1>1, <1>4, <1>5, <1>6
  DEF Firm, Sources, Within, Retries, Preloaded, SameTimes, SameFades, SameNext
<1>9. Ground(q) /\ InPlace(q)
  BY <1>1, <1>5, <1>6, <1>7 DEF Ground, InPlace, SameTimes
<1>10. OnTrack(q)
  BY <1>1, <1>5, <1>6, <1>7 DEF OnTrack, SameTimes, SameWill
<1>11. SecondHeld(q) /\ FirstHeld(q) /\ ReadyWaits(q)
  BY <1>1, <1>5, <1>6, <1>7 DEF SecondHeld, FirstHeld, ReadyWaits, SameNext, SameWill
<1>12. FailedWaits(q)
  BY <1>1, <1>5, <1>6, <1>7 DEF FailedWaits, SameWill, SameTimes, SameFades
<1> QED
  BY <1>3, <1>8, <1>9, <1>10, <1>11, <1>12 DEF Good, Sound, Steady

LEMMA SleepToggleKeeps ==
    ASSUME NEW p, Good(p)
    PROVE  Good([p EXCEPT !.sleep = ~@])
<1> DEFINE on == ~p.sleep
           q == [p EXCEPT !.sleep = on]
<1>1. p \in Page /\ on \in BOOLEAN
  BY SoundParts DEF Good
<1> HIDE DEF on
<1>2. q \in Page
  BY <1>1, ZenonT(60) DEF Page
<1>3. Same(p, q)
  BY <1>1 DEF Page, Same, SameTrack, SameTimes, SameWill, SameFades, SameNext
<1> HIDE DEF q
<1>4. Good(q)
  BY <1>1, <1>2, <1>3, SameKept
<1> QED
  BY <1>4 DEF q, on

LEMMA ClearQueueKeeps ==
    ASSUME NEW p, Good(p)
    PROVE  Good(ClearQueue(p))
<1> DEFINE s == Stop(p)
<1>1. p \in Page /\ Firm(p) /\ Ramped(p)
  BY SoundParts DEF Good, SecondHeld, Ramped
<1>2. Stopped(s)
  BY <1>1, StopKeeps
<1> HIDE DEF s
<1>3. s \in Page
  BY <1>2 DEF Stopped, Steady, Firm
<1>4. Good(Requeued(s, <<>>, 1))
  BY <1>2, <1>3, EmptiedKeeps
<1> QED
  BY <1>4 DEF ClearQueue, Requeued, s

-----------------------------------------------------------------------------
(* The invariant *)

LEMMA FreshIsGood == Good(Fresh)
<1> DEFINE p == Fresh
<1>1. p \in Page
  <2>1. 1 \in Positions /\ 0 \in Positions
    BY Bounds
  <2>2. [e \in Elements |-> Empty] \in [Elements -> Element] /\ NoRetry \in Asked
    BY ElementTypes DEF NoRetry, Asked
  <2>3. <<>> \in Seq(Fade)
    BY EmptySeq
  <2>4. "a" \in Elements /\ Restored \in Seq(Songs)
    BY PlaybackAssumption DEF Elements
  <2> QED
    BY <2>1, <2>2, <2>3, <2>4 DEF Fresh, Page
<1>2. /\ p.queue = Restored /\ p.index = 1 /\ p.time = 1 /\ p.pendingSeek = 1
      /\ p.el = [e \in Elements |-> Empty] /\ p.retry = NoRetry /\ ~p.engaged
      /\ p.preloadedFor = NoSong /\ p.fades = <<>>
  BY DEF Fresh
<1> HIDE DEF p
<1>3. Primary(p) = Empty /\ Second(p) = Empty
  BY <1>1, <1>2, Two DEF Primary, Second
<1>4. InPlace(p) /\ p.queue # <<>>
  <2>1. Len(Restored) \in Nat /\ Len(Restored) # 0
    BY PlaybackAssumption, EmptySeq
  <2> QED
    BY <1>2, <2>1, PlaybackAssumption DEF InPlace
<1>5. Firm(p)
  <2>1. FadesInside(p.fades)
    BY <1>2 DEF FadesInside
  <2>2. Within(p)
    BY <1>2, <2>1, Bounds DEF Within
  <2>3. Sources(p) /\ Retries(p) /\ Preloaded(p)
    BY <1>2, <1>3, EmptyIs DEF Sources, Retries, Preloaded
  <2> QED
    BY <1>1, <2>2, <2>3 DEF Firm
<1>6. Ground(p)
  BY <1>2, <1>3, EmptyIs, Bounds DEF Ground
<1>7. /\ OnTrack(p) /\ SecondHeld(p) /\ FirstHeld(p) /\ FailedWaits(p) /\ ReadyWaits(p)
  BY <1>2, <1>3, <1>4, EmptyIs
  DEF OnTrack, SecondHeld, FirstHeld, FailedWaits, ReadyWaits, Runs
<1> QED
  BY <1>4, <1>5, <1>6, <1>7 DEF Good, Sound, Steady, p

LEMMA PlayerInvInit == PlayerInit => PlayerInv
<1>1. Good(Fresh) /\ Good(Play(Fresh))
  BY FreshIsGood, PlayKeeps DEF Good
<1> QED
  BY <1>1 DEF PlayerInit, PlayerInv

LEMMA ByItselfKeeps ==
    ASSUME Good(page), ByItself
    PROVE  Good(page')
<1>1. \A p : Good(p) /\ Becomes(p) => Good(page')
  BY SettledKeeps DEF Becomes
<1>2. CASE Loads
  <2>1. Primary(page).data = "opening"
    BY <1>2 DEF Loads
  <2>2. PICK within \in BOOLEAN : Becomes(LoadedEvent(page, within))
    BY <1>2 DEF Loads
  <2> QED
    BY <1>1, <2>1, <2>2, LoadedEventKeeps
<1>3. CASE Buffers
  <2>1. Second(page).data = "opening"
    BY <1>3 DEF Buffers, Second
  <2> QED
    BY <1>1, <1>3, <2>1, BuffersKeeps DEF Buffers
<1>4. CASE TimeUpdate
  <2>1. PICK step \in {0, 1}, overlap \in BOOLEAN :
          LET at == Primary(page).at + step
              a == FirstAt(page, at)
              c == MaybePreloadNext(Ticked(a, at))
          IN /\ Sounding(page, page.primary) /\ at < End
             /\ overlap => MayCrossfade(c)
             /\ Becomes(IF a.fades # <<>> \/ a.pendingSeek # Nowhere THEN a
                        ELSE IF overlap THEN Crossfade(c) ELSE c)
    BY <1>4 DEF TimeUpdate
  <2> QED
    BY <1>1, <2>1, TimeUpdateKeeps
<1>5. CASE RunsOut
  BY <1>1, <1>5, RunsOutKeeps DEF RunsOut
<1>6. CASE SecondaryAdvances
  BY <1>1, <1>6, SecondaryAdvancesKeeps DEF SecondaryAdvances
<1>7. CASE RampDone
  BY <1>1, <1>7, RampDoneKeeps DEF RampDone
<1>8. CASE FadeDone
  <2> DEFINE f == Head(page.fades)
             p == Faded(page)
             moved == MoveTo(PassedBy(p), f.target)
  <2>1. page.fades # <<>>
    BY <1>8 DEF FadeDone
  <2>2. CASE /\ f.kind = "pause"
             /\ Becomes(IF p.engaged THEN p
                        ELSE IF f.element = p.primary THEN ElementPause(p)
                        ELSE [p EXCEPT !.el[f.element].paused = TRUE])
    BY <1>1, <2>1, <2>2, PauseFadeKeeps
  <2>3. CASE /\ f.kind = "seek"
             /\ Becomes(IF f.late \/ f.element # p.primary THEN p
                        ELSE IF p.engaged THEN ElementPlay(moved) ELSE moved)
    BY <1>1, <2>1, <2>3, SeekFadeKeeps
  <2>4. CASE /\ f.kind = "change"
             /\ Becomes(IF f.late THEN p ELSE LoadCurrent(p, p.engaged))
    BY <1>1, <2>1, <2>4, ChangeFadeKeeps
  <2> QED
    BY <1>8, <2>2, <2>3, <2>4 DEF FadeDone, Faded
<1>9. CASE Retry
  BY <1>1, <1>9, RetryKeeps DEF Retry
<1>10. CASE StallTimeout
  BY <1>1, <1>10, StallTimeoutKeeps DEF StallTimeout
<1>11. CASE Resumes
  BY <1>1, <1>11, ResumesKeeps DEF Resumes, DataSet
<1>12. CASE HeadAnswers
  <2>1. PICK ask \in page.asking, status \in {"unplayable", "refused", "down"} :
          LET p == [page EXCEPT !.asking = @ \ {ask}]
          IN Becomes(IF ask.element # p.primary \/ ask.song # Current(p) THEN p
                     ELSE IF status = "unplayable" THEN SkipBroken(p)
                     ELSE IF status = "refused" THEN GiveUp([p EXCEPT !.engaged = FALSE])
                     ELSE RecoverOrGiveUp(p))
    BY <1>12 DEF HeadAnswers
  <2> DEFINE p == [page EXCEPT !.asking = @ \ {ask}]
  <2>2. /\ ask.element # p.primary \/ ask.song # Current(p) => Good(p)
        /\ ask.song = Current(p) => Good(SkipBroken(p))
        /\ Good(GiveUp([p EXCEPT !.engaged = FALSE]))
        /\ Good(RecoverOrGiveUp(p))
    BY HeadAnswersKeeps
  <2> QED
    BY <1>1, <2>1, <2>2
<1>13. CASE Returns
  <2>1. Good(Play(page))
    BY PlayKeeps DEF Good
  <2>2. page.engaged => Good(ElementPlay(page))
    BY ElementPlayKeeps DEF Good
  <2> QED
    BY <1>1, <1>13, <2>1, <2>2 DEF Returns
<1> QED
  BY <1>2, <1>3, <1>4, <1>5, <1>6, <1>7, <1>8, <1>9, <1>10, <1>11, <1>12, <1>13 DEF ByItself

LEMMA FaultsKeep ==
    ASSUME Good(page), Faults
    PROVE  Good(page')
<1>1. \A p : Good(p) /\ Becomes(p) => Good(page')
  BY SettledKeeps DEF Becomes
<1>2. CASE Stalls
  BY <1>1, <1>2, StallsKeeps DEF Stalls, DataSet
<1>3. CASE Fails
  <2>1. PICK code \in {"network", "decode", "unsupported"} :
          LET p == DataSet(page, "failed")
          IN /\ Primary(page).data \in {"opening", "ready", "stalled"}
             /\ Becomes(IF Current(p) = NoSong THEN p
                        ELSE IF code = "decode" THEN SkipBroken(p)
                        ELSE IF code = "network" THEN RecoverOrGiveUp(p)
                        ELSE [p EXCEPT !.asking =
                                  @ \cup {[element |-> p.primary, song |-> Current(p)]}])
    BY <1>3 DEF Fails, DataSet
  <2> DEFINE p == DataSet(page, "failed")
  <2>2. /\ Current(p) # NoSong
        /\ Good(SkipBroken(p))
        /\ Good(RecoverOrGiveUp(p))
        /\ Good([p EXCEPT !.asking = @ \cup {[element |-> p.primary, song |-> Current(p)]}])
    BY <2>1, FailsKeeps
  <2> QED
    BY <1>1, <2>1, <2>2
<1>4. CASE SecondaryFails
  <2>1. Second(page).data \in {"opening", "ready"}
    BY <1>4 DEF SecondaryFails, Second
  <2> QED
    BY <1>1, <1>4, <2>1, SecondaryFailsKeeps DEF SecondaryFails
<1>5. CASE Interrupted
  BY <1>1, <1>5, InterruptedKeeps DEF Interrupted
<1>6. CASE IncomingRefused
  BY <1>1, <1>6, AbandonGood DEF IncomingRefused
<1> QED
  BY <1>2, <1>3, <1>4, <1>5, <1>6 DEF Faults

LEMMA PresenceKeeps ==
    ASSUME Good(page), Presence
    PROVE  Good(page')
<1>1. \A press, p : Good(p) /\ Pressed(press, p) => Good(page')
  BY SettledKeeps DEF Pressed
<1>2. page \in Page /\ Steady(page) /\ page.queue \in Seq(Songs)
  BY SoundParts, Parts DEF Good, Sound
<1>3. /\ Places = 1..Len(page.queue)
      /\ \A i \in Places : page.queue # <<>>
      /\ Places # {} => page.queue # <<>>
  BY <1>2 DEF Places
<1>4. Absent \subseteq Songs
  BY DEF Absent
<1>5. CASE PressAlbum
  <2>1. Other \in Seq(Songs) /\ Other # <<>>
    BY PlaybackAssumption
  <2>2. Good(PlayNow(page, Other))
    BY <1>2, <2>1, PlayNowKeeps
  <2> QED
    BY <1>1, <1>5, <2>2 DEF PressAlbum
<1>6. CASE PressToggle
  BY <1>1, <1>6, ToggleKeeps DEF PressToggle
<1>7. CASE PressPause
  BY <1>1, <1>7, PauseKeeps DEF PressPause
<1>8. CASE PressNext
  BY <1>1, <1>3, <1>8, NextPressedKeeps DEF PressNext
<1>9. CASE PressPrevious
  BY <1>1, <1>3, <1>9, PreviousKeeps DEF PressPrevious
<1>10. CASE PressSeek
  BY <1>1, <1>10, SeekGood DEF PressSeek
<1>11. CASE PressJump
  BY <1>1, <1>3, <1>11, JumpToKeeps DEF PressJump
<1>12. CASE PressRemove
  BY <1>1, <1>3, <1>12, RemoveAtKeeps DEF PressRemove
<1>13. CASE PressMove
  BY <1>1, <1>3, <1>13, MoveKeeps DEF PressMove
<1>14. CASE PressAdd
  BY <1>1, <1>4, <1>14, AddToQueueKeeps DEF PressAdd
<1>15. CASE PressPlayNext
  BY <1>1, <1>4, <1>15, PlayNextKeeps DEF PressPlayNext
<1>16. CASE PressRepeat
  BY <1>1, <1>16, CycleRepeatKeeps DEF PressRepeat
<1>17. CASE PressSleep
  BY <1>1, <1>17, SleepToggleKeeps DEF PressSleep
<1>18. CASE PressClear
  BY <1>1, <1>18, ClearQueueKeeps DEF PressClear
<1>19. CASE Addition
  BY <1>1, <1>4, <1>19, QueueAdditionKeeps DEF Addition
<1> QED
  BY <1>5, <1>6, <1>7, <1>8, <1>9, <1>10, <1>11, <1>12, <1>13, <1>14, <1>15, <1>16, <1>17,
     <1>18, <1>19 DEF Presence

LEMMA PlayerInvStep == PlayerInv /\ [PlayerNext]_playerVars => PlayerInv'
<1> SUFFICES ASSUME PlayerInv, [PlayerNext]_playerVars
             PROVE  PlayerInv'
  OBVIOUS
<1>1. Good(page) /\ graph \in BOOLEAN /\ presses \in Nat /\ faults \in Nat
  BY DEF PlayerInv
<1>2. CASE UNCHANGED playerVars
  BY <1>1, <1>2 DEF playerVars, PlayerInv
<1>3. CASE Presence
  <2>1. Good(page')
    BY <1>1, <1>3, PresenceKeeps
  <2>2. graph' = graph /\ presses' = presses + 1 /\ faults' = faults
    BY <1>3 DEF Presence, PressAlbum, PressToggle, PressPause, PressNext, PressPrevious,
                PressSeek, PressJump, PressRemove, PressMove, PressAdd, PressPlayNext,
                PressRepeat, PressSleep, PressClear, Addition, Pressed
  <2> QED
    BY <1>1, <2>1, <2>2 DEF PlayerInv
<1>4. CASE ByItself
  <2>1. Good(page')
    BY <1>1, <1>4, ByItselfKeeps
  <2>2. graph' = graph /\ presses' = presses /\ faults' = faults
    BY <1>4 DEF ByItself, Loads, Buffers, TimeUpdate, RunsOut, SecondaryAdvances, RampDone,
                FadeDone, Retry, StallTimeout, Resumes, HeadAnswers, Returns, Becomes, NoFault
  <2> QED
    BY <1>1, <2>1, <2>2 DEF PlayerInv
<1>5. CASE Faults
  <2>1. Good(page')
    BY <1>1, <1>5, FaultsKeep
  <2>2. graph' = graph /\ presses' = presses /\ faults' = faults + 1
    BY <1>5 DEF Faults, Stalls, Fails, SecondaryFails, Interrupted, IncomingRefused,
                Becomes, Fault
  <2> QED
    BY <1>1, <2>1, <2>2 DEF PlayerInv
<1> QED
  BY <1>2, <1>3, <1>4, <1>5 DEF PlayerNext

-----------------------------------------------------------------------------
(* What the player promises *)

LEMMA PlayerInvHolds == PlayerSpec => []PlayerInv
BY PlayerInvInit, PlayerInvStep, PTL DEF PlayerSpec

\* What the properties ask of a page.
LEMMA PlayerInvParts ==
    ASSUME PlayerInv
    PROVE  /\ page \in Page /\ Sources(page) /\ Preloaded(page) /\ Ground(page)
           /\ OnTrack(page) /\ SecondHeld(page) /\ FirstHeld(page) /\ FailedWaits(page)
           /\ ReadyWaits(page)
           /\ page.el[page.primary] = Primary(page)
           /\ page.el[Secondary(page)] = Second(page)
           /\ Elements = {page.primary, Secondary(page)}
BY SoundParts, Two DEF PlayerInv, Good, Primary, Second

\* The player is always one the code can be in: a queue of tracks, two
\* elements, positions within a track, and fades, retries and questions that
\* are about a track.
THEOREM PlayerTypeCorrect == PlayerSpec => [](page \in Page /\ graph \in BOOLEAN)
<1>1. PlayerInv => page \in Page /\ graph \in BOOLEAN
  BY PlayerInvParts DEF PlayerInv
<1> QED
  BY <1>1, PlayerInvHolds, PTL

\* What is heard is the track the player shows, whatever was pressed while it
\* loaded, failed or was tried again, unless a skip is fading out what it left.
THEOREM HeardIsShownHolds == PlayerSpec => []HeardIsShown
<1>1. PlayerInv => HeardIsShown
  <2> SUFFICES ASSUME PlayerInv, Sounding(page, page.primary)
               PROVE  \/ Primary(page).src = Current(page)
                      \/ \E i \in DOMAIN page.fades : page.fades[i].kind = "change"
    BY DEF HeardIsShown
  <2>1. Primary(page).data = "ready"
    BY PlayerInvParts DEF Sounding
  <2>2. Primary(page).src # NoSong
    BY <2>1, PlayerInvParts, EmptyIs DEF Sources, Sourced
  <2>3. Primary(page).src \in {NoSong, Current(page)} \/ ChangePending(page)
    BY PlayerInvParts DEF OnTrack
  <2> QED
    BY <2>2, <2>3 DEF ChangePending
<1> QED
  BY <1>1, PlayerInvHolds, PTL

\* A player that was paused stays silent once the pause has faded out, but for
\* an overlap that the code let go of without stopping it.
THEOREM PauseHoldsHolds == PlayerSpec => []PauseHolds
<1>1. PlayerInv => PauseHolds
  <2> SUFFICES ASSUME PlayerInv, ~page.engaged, ~page.astray,
                      NEW e \in Elements, Sounding(page, e)
               PROVE  \E i \in DOMAIN page.fades : page.fades[i].kind = "pause"
    BY DEF PauseHolds
  <2>1. ~Runs(Second(page))
    BY PlayerInvParts DEF SecondHeld
  <2>2. e = page.primary /\ Runs(Primary(page))
    BY <2>1, PlayerInvParts DEF Sounding, Runs
  <2>3. PausePending(page)
    BY <2>2, PlayerInvParts DEF FirstHeld
  <2> QED
    BY <2>3 DEF PausePending
<1> QED
  BY <1>1, PlayerInvHolds, PTL

\* A second track is heard only under an overlap that the player still has
\* hold of, and it is the one that follows, whatever was done to the queue.
THEOREM OneTrackHeardHolds == PlayerSpec => []OneTrackHeard
<1>1. PlayerInv => OneTrackHeard
  <2> SUFFICES ASSUME PlayerInv, Sounding(page, Secondary(page)), ~page.astray
               PROVE  /\ page.ramp # "none"
                      /\ \/ page.el[Secondary(page)].src = Following(page)
                         \/ page.wrapped
    BY DEF OneTrackHeard
  <2>1. Runs(Second(page))
    BY PlayerInvParts DEF Sounding, Runs
  <2>2. /\ page.ramp # "none" /\ page.preloadedFor # NoSong
        /\ page.wrapped \/ (page.index < Len(page.queue)
                                /\ page.preloadedFor = page.queue[page.index + 1])
    BY <2>1, PlayerInvParts DEF SecondHeld
  <2>3. page.el[Secondary(page)].src = page.preloadedFor
    BY <2>2, PlayerInvParts DEF Preloaded
  <2> QED
    BY <2>2, <2>3 DEF Following
<1> QED
  BY <1>1, PlayerInvHolds, PTL

\* The bar is never ahead of what is heard: a track picked up again after a
\* drop, a stall or a failure goes on from where it had got to.
THEOREM NoGroundLostHolds == PlayerSpec => []NoGroundLost
<1>1. PlayerInv => NoGroundLost
  <2> SUFFICES ASSUME PlayerInv, Sounding(page, page.primary), page.fades = <<>>, ~page.sought
               PROVE  page.time <= Primary(page).at
    BY DEF NoGroundLost
  <2>1. Primary(page).data = "ready"
    BY PlayerInvParts DEF Sounding
  <2>2. page.time <= Primary(page).at \/ SeekPending(page)
    BY <2>1, PlayerInvParts DEF Ground
  <2>3. ~SeekPending(page)
    BY DEF SeekPending
  <2> QED
    BY <2>2, <2>3
<1> QED
  BY <1>1, PlayerInvHolds, PTL

\* A player meant to play is heard, or an event or a timer is still to come, or
\* it says why not: no failure, refusal or late answer leaves it waiting.
THEOREM NothingLeftWaitingHolds == PlayerSpec => []NothingLeftWaiting
<1>1. PlayerInv => NothingLeftWaiting
  <2> SUFFICES ASSUME PlayerInv, page.engaged, page.queue # <<>>
               PROVE  \/ Sounding(page, page.primary)
                      \/ Primary(page).data \in {"opening", "stalled"}
                      \/ page.retry # NoRetry \/ page.asking # {} \/ page.fades # <<>>
                      \/ page.error \/ page.held
    BY DEF NothingLeftWaiting
  <2>1. Primary(page) \in Element /\ Inside(Primary(page))
    BY PlayerInvParts, Two, ElementParts DEF Sources
  <2>2. Primary(page).data # "none"
    BY PlayerInvParts DEF OnTrack, Sources, Sourced
  <2>3. CASE Primary(page).data = "failed"
    <3>1. ChangePending(page) => page.fades # <<>>
      BY DEF ChangePending
    <3> QED
      BY <2>3, <3>1, PlayerInvParts DEF FailedWaits
  <2>4. CASE Primary(page).data = "ready"
    <3>1. ~Primary(page).paused \/ page.held \/ page.error
      BY <2>4, PlayerInvParts DEF ReadyWaits
    <3>2. ~Primary(page).paused => Primary(page).at < End
      BY <2>1, Bounds DEF Inside, Element
    <3> QED
      BY <2>4, <3>1, <3>2, PlayerInvParts DEF Sounding
  <2>5. Primary(page).data \in {"opening", "ready", "stalled", "failed"}
    BY <2>1, <2>2 DEF Element
  <2> QED
    BY <2>3, <2>4, <2>5
<1> QED
  BY <1>1, PlayerInvHolds, PTL
=============================================================================
