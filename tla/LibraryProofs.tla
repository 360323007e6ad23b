---------------------------- MODULE LibraryProofs ----------------------------
(***************************************************************************)
(* Whose library of the music servers is read, and until when: a read      *)
(* remembered (Memos) that follows a write is answered with what was       *)
(* written, by the account's own user, and the counts are of what is held; *)
(* a shared link (Shares) that is dead sends nothing more, and one that    *)
(* lives reads its maker's library, but for the cases the properties name. *)
(* Whatever the number of accounts, users, keys, links, requests and reads.*)
(***************************************************************************)
EXTENDS Memos, Shares, FiniteSetTheorems, WellFoundedInduction, TLAPS

-----------------------------------------------------------------------------
(* The inductive invariant *)

Waits(r) == At(r, "waits")
Answered(p) == reads[p].at \in {"answered", "done"}

\* An entry, and a request that waits, has a read of its own account, upstream
\* user and key.
OwnReads ==
    /\ \A e \in Held : e.read \in DOMAIN reads /\ SameKey(reads[e.read], e)
    /\ \A r \in Slots : Waits(r) =>
           request[r].read \in DOMAIN reads /\ SameKey(reads[request[r].read], request[r])

\* A read has one entry.
OneEach == \A e, f \in Held : e.read = f.read => e = f

\* What has been written is what there is, or was.
WrittenWas == \A a \in Accounts, k \in Keys : written[a][k] <= version[a][k]

\* Nothing held is older than what has been written.
HeldIsSeen ==
    \A e \in Held : e.account \notin unheard /\ Answered(e.read)
        => reads[e.read].version >= written[e.account][e.key]

\* What had been written when a request asked still is.
SinceWas ==
    \A r \in Slots : Waits(r) => request[r].since <= written[request[r].account][request[r].key]

\* The entries can be counted.
Counted == IsFiniteSet(Held) /\ CountsTrue

IInv ==
    /\ TypeOK /\ OwnReads /\ OneEach /\ Counted
    /\ WrittenWas /\ HeldIsSeen /\ SinceWas /\ WrittenIsSeen

-----------------------------------------------------------------------------
(* The entries *)

\* A set of naturals has a least.
LEMMA Least ==
    ASSUME NEW N \in SUBSET Nat, N # {}
    PROVE  \E n \in N : \A m \in N : n <= m
<1> DEFINE Below == {0..n : n \in N}
<1>1. Below \subseteq FiniteSubsetsOf(Nat) /\ Below # {}
  <2>1. ASSUME NEW n \in N
        PROVE  IsFiniteSet(0..n) /\ 0..n \subseteq Nat
    BY FS_Interval
  <2> QED
    BY <2>1 DEF FiniteSubsetsOf
<1>2. PICK X \in Below : \A Y \in Below : ~(<<Y, X>> \in StrictSubsetOrdering(Nat))
  BY <1>1, FS_StrictSubsetOrderingWellFounded, WFMin
<1>3. PICK n \in N : X = 0..n
  BY <1>2
<1>4. ASSUME NEW m \in N, m < n
      PROVE  FALSE
  <2>1. 0..m \in Below /\ 0..m \subseteq X /\ 0..m # X /\ 0..m \subseteq Nat /\ X \subseteq Nat
    BY <1>3, <1>4
  <2> QED
    BY <1>2, <2>1 DEF StrictSubsetOrdering
<1> QED
  BY <1>4

\* A set of entries has an oldest.
LEMMA OldestIs ==
    ASSUME NEW S \in SUBSET Entry, S # {}
    PROVE  Oldest(S) \in S
<1> DEFINE N == {e.read : e \in S}
<1>1. N \subseteq Nat /\ N # {}
  BY DEF Entry
<1>2. PICK n \in N : \A m \in N : n <= m
  BY <1>1, Least
<1>3. \E e \in S : \A f \in S : e.read <= f.read
  BY <1>2
<1> QED
  BY <1>3 DEF Oldest

\* Fewer entries, and fewer of an account.
LEMMA Fewer ==
    ASSUME NEW S, IsFiniteSet(S), NEW gone
    PROVE  /\ IsFiniteSet(S \ gone) /\ Cardinality(S \ gone) <= Cardinality(S)
           /\ Cardinality(S \ gone) \in Nat /\ Cardinality(S) \in Nat
BY FS_Subset, FS_CardinalityType

LEMMA FewerOf ==
    ASSUME NEW S, IsFiniteSet(S), NEW gone, NEW a
    PROVE  /\ Cardinality(OfAccount(S \ gone, a))
                = Cardinality(OfAccount(S, a)) - Cardinality(OfAccount(S \cap gone, a))
           /\ Cardinality(OfAccount(S \ gone, a)) \in Nat
           /\ Cardinality(OfAccount(S \cap gone, a)) \in Nat
<1>1. IsFiniteSet(OfAccount(S, a)) /\ IsFiniteSet(S \ gone)
  BY FS_Subset DEF OfAccount
<1>2. /\ OfAccount(S \ gone, a) = OfAccount(S, a) \ gone
      /\ OfAccount(S \cap gone, a) = OfAccount(S, a) \cap gone
  BY DEF OfAccount
<1>3. /\ IsFiniteSet(OfAccount(S, a) \ gone)
      /\ Cardinality(OfAccount(S, a) \ gone)
           = Cardinality(OfAccount(S, a)) - Cardinality(OfAccount(S, a) \cap gone)
      /\ IsFiniteSet(OfAccount(S, a) \cap gone)
  BY <1>1, FS_Difference, FS_Intersection
<1> QED
  BY <1>1, <1>2, <1>3, FS_CardinalityType

-----------------------------------------------------------------------------
(* The operations on what is held *)

\* What is held and counted.
Sound(m) ==
    /\ m \in [entries : SUBSET Entry, perAccount : [Accounts -> Int]]
    /\ IsFiniteSet(m.entries)
    /\ \A a \in Accounts : m.perAccount[a] = Cardinality(OfAccount(m.entries, a))

\* Within the bounds.
Within(m) ==
    /\ Cardinality(m.entries) <= MaxEntries
    /\ \A a \in Accounts : m.perAccount[a] <= MaxPerAccount

LEMMA SoundParts ==
    ASSUME NEW m, Sound(m)
    PROVE  /\ m.entries \subseteq Entry /\ IsFiniteSet(m.entries) /\ Cardinality(m.entries) \in Nat
           /\ \A a \in Accounts : /\ m.perAccount[a] \in Int
                                  /\ m.perAccount[a] = Cardinality(OfAccount(m.entries, a))
                                  /\ IsFiniteSet(OfAccount(m.entries, a))
<1>1. \A a \in Accounts : IsFiniteSet(OfAccount(m.entries, a))
  BY FS_Subset DEF Sound, OfAccount
<1> QED
  BY <1>1, FS_CardinalityType DEF Sound

\* #delete keeps the counts true, and takes nothing over a bound.
LEMMA DeletedCounts ==
    ASSUME NEW m, Sound(m), NEW gone
    PROVE  /\ Sound(Deleted(m, gone))
           /\ Deleted(m, gone).entries = m.entries \ gone
           /\ Within(m) => Within(Deleted(m, gone))
           /\ \A a \in Accounts : Deleted(m, gone).perAccount[a] <= m.perAccount[a]
<1> DEFINE d == Deleted(m, gone)
<1>1. d.entries = m.entries \ gone /\ d.entries \subseteq Entry
  BY SoundParts DEF Deleted
<1>2. ASSUME NEW a \in Accounts
      PROVE  /\ d.perAccount[a] = Cardinality(OfAccount(d.entries, a))
             /\ d.perAccount[a] \in Int /\ d.perAccount[a] <= m.perAccount[a]
  <2>1. d.perAccount[a] = m.perAccount[a] - Cardinality(OfAccount(m.entries \cap gone, a))
    BY DEF Deleted
  <2>2. /\ Cardinality(OfAccount(m.entries \ gone, a))
             = Cardinality(OfAccount(m.entries, a)) - Cardinality(OfAccount(m.entries \cap gone, a))
        /\ Cardinality(OfAccount(m.entries \ gone, a)) \in Nat
        /\ Cardinality(OfAccount(m.entries \cap gone, a)) \in Nat
    BY SoundParts, FewerOf
  <2> QED
    BY <1>1, <2>1, <2>2, SoundParts
<1>3. d.perAccount \in [Accounts -> Int]
  <2>1. d.perAccount = [a \in Accounts |-> d.perAccount[a]]
    BY DEF Deleted
  <2> QED
    BY <2>1, <1>2
<1>4. /\ IsFiniteSet(d.entries) /\ Cardinality(d.entries) <= Cardinality(m.entries)
      /\ Cardinality(d.entries) \in Nat /\ Cardinality(m.entries) \in Nat
  <2>1. IsFiniteSet(m.entries)
    BY SoundParts
  <2>2. /\ IsFiniteSet(m.entries \ gone) /\ Cardinality(m.entries \ gone) <= Cardinality(m.entries)
        /\ Cardinality(m.entries \ gone) \in Nat /\ Cardinality(m.entries) \in Nat
    BY <2>1, Fewer
  <2> QED
    BY <1>1, <2>2
<1>5. d \in [entries : SUBSET Entry, perAccount : [Accounts -> Int]]
  BY <1>1, <1>3 DEF Deleted
<1>6. Within(m) => Within(d)
  <2>1. \A a \in Accounts : d.perAccount[a] \in Int /\ m.perAccount[a] \in Int
    BY <1>3, SoundParts
  <2> QED
    BY <1>2, <1>4, <2>1, MemosAssumption DEF Within
<1> QED
  BY <1>1, <1>2, <1>4, <1>5, <1>6 DEF Sound

\* An entry put in is counted once.
LEMMA WithCounts ==
    ASSUME NEW m, Sound(m), NEW new \in Entry, new \notin m.entries
    PROVE  /\ Sound(With(m, new)) /\ With(m, new).entries = m.entries \cup {new}
           /\ Cardinality(With(m, new).entries) = Cardinality(m.entries) + 1
           /\ \A a \in Accounts : With(m, new).perAccount[a]
                = IF a = new.account THEN m.perAccount[a] + 1 ELSE m.perAccount[a]
<1> DEFINE w == With(m, new)
<1>1. new.account \in Accounts
  BY DEF Entry
<1>2. w.entries = m.entries \cup {new} /\ w.entries \subseteq Entry
  BY SoundParts DEF With
<1>3. IsFiniteSet(w.entries) /\ Cardinality(w.entries) = Cardinality(m.entries) + 1
  BY <1>2, FS_AddElement, SoundParts
<1>4. ASSUME NEW a \in Accounts
      PROVE  /\ w.perAccount[a] = IF a = new.account THEN m.perAccount[a] + 1 ELSE m.perAccount[a]
             /\ w.perAccount[a] = Cardinality(OfAccount(w.entries, a))
  <2>1. w.perAccount[a] = IF a = new.account THEN m.perAccount[a] + 1 ELSE m.perAccount[a]
    BY <1>1 DEF With, Sound
  <2>2. IsFiniteSet(OfAccount(m.entries, a)) /\ new \notin OfAccount(m.entries, a)
    BY SoundParts DEF OfAccount
  <2>3. CASE a = new.account
    <3>1. OfAccount(w.entries, a) = OfAccount(m.entries, a) \cup {new}
      BY <1>2, <2>3 DEF OfAccount
    <3>2. Cardinality(OfAccount(w.entries, a)) = Cardinality(OfAccount(m.entries, a)) + 1
      BY <2>2, <3>1, FS_AddElement
    <3> QED
      BY <2>1, <2>3, <3>2, SoundParts
  <2>4. CASE a # new.account
    <3>1. OfAccount(w.entries, a) = OfAccount(m.entries, a)
      BY <1>2, <2>4 DEF OfAccount
    <3> QED
      BY <2>1, <2>4, <3>1, SoundParts
  <2> QED
    BY <2>1, <2>3, <2>4
<1>5. w \in [entries : SUBSET Entry, perAccount : [Accounts -> Int]]
  BY <1>1, <1>2 DEF With, Sound
<1> QED
  BY <1>2, <1>3, <1>4, <1>5 DEF Sound

\* One over a bound, of the account `who` and of them all.
Over(m, who) ==
    /\ Cardinality(m.entries) <= MaxEntries + 1
    /\ \A a \in Accounts :
          m.perAccount[a] <= IF a = who THEN MaxPerAccount + 1 ELSE MaxPerAccount

\* #evictOldest brings its account back within its bound.
LEMMA TrimmedForCounts ==
    ASSUME NEW m, Sound(m), NEW who \in Accounts, Over(m, who)
    PROVE  /\ Sound(TrimmedFor(m, who)) /\ TrimmedFor(m, who).entries \subseteq m.entries
           /\ Cardinality(TrimmedFor(m, who).entries) <= MaxEntries + 1
           /\ \A a \in Accounts : TrimmedFor(m, who).perAccount[a] <= MaxPerAccount
<1>1. CASE m.perAccount[who] <= MaxPerAccount
  BY <1>1 DEF TrimmedFor, Over
<1>2. CASE ~(m.perAccount[who] <= MaxPerAccount)
  <2>1. PICK t : t = TrimmedFor(m, who)
    OBVIOUS
  <2>2. PICK mine : mine = OfAccount(m.entries, who)
    OBVIOUS
  <2>3. PICK old : old = Oldest(mine)
    OBVIOUS
  <2>4. mine # {} /\ mine \subseteq Entry
    <3>1. Cardinality(mine) # 0
      BY <1>2, <2>2, SoundParts, MemosAssumption
    <3> QED
      BY <2>2, <3>1, FS_EmptySet, SoundParts DEF OfAccount
  <2>5. old \in mine /\ IsFiniteSet(mine)
    BY <2>2, <2>3, <2>4, OldestIs, SoundParts
  <2>6. t = Deleted(m, {old})
    BY <1>2, <2>1, <2>2, <2>3 DEF TrimmedFor
  <2>7. /\ Sound(t) /\ t.entries = m.entries \ {old}
        /\ \A a \in Accounts : t.perAccount[a] <= m.perAccount[a]
    BY <2>6, DeletedCounts
  <2>8. OfAccount(t.entries, who) = mine \ {old}
    BY <2>2, <2>7 DEF OfAccount
  <2>9. t.perAccount[who] = m.perAccount[who] - 1
    <3>1. Cardinality(mine \ {old}) = Cardinality(mine) - 1
      BY <2>5, FS_RemoveElement
    <3> QED
      BY <2>2, <2>7, <2>8, <3>1, SoundParts
  <2>10. Cardinality(t.entries) <= MaxEntries + 1
    <3>1. Cardinality(t.entries) <= Cardinality(m.entries) /\ Cardinality(t.entries) \in Nat
      BY <2>7, Fewer, SoundParts
    <3> QED
      BY <3>1, SoundParts, MemosAssumption DEF Over
  <2>11. ASSUME NEW a \in Accounts
         PROVE  t.perAccount[a] <= MaxPerAccount
    <3>1. t.perAccount[a] \in Int /\ m.perAccount[a] \in Int
      BY <2>7, SoundParts
    <3> QED
      BY <2>7, <2>9, <3>1, MemosAssumption DEF Over
  <2> QED
    BY <2>1, <2>7, <2>10, <2>11
<1> QED
  BY <1>1, <1>2

\* So does the bound on all of them.
LEMMA TrimmedCounts ==
    ASSUME NEW m, Sound(m), Cardinality(m.entries) <= MaxEntries + 1,
           \A a \in Accounts : m.perAccount[a] <= MaxPerAccount
    PROVE  Sound(Trimmed(m)) /\ Within(Trimmed(m)) /\ Trimmed(m).entries \subseteq m.entries
<1>1. CASE Cardinality(m.entries) <= MaxEntries
  BY <1>1 DEF Trimmed, Within
<1>2. CASE ~(Cardinality(m.entries) <= MaxEntries)
  <2>1. PICK t : t = Trimmed(m)
    OBVIOUS
  <2>2. PICK old : old = Oldest(m.entries)
    OBVIOUS
  <2>3. m.entries # {} /\ m.entries \subseteq Entry
    <3>1. Cardinality(m.entries) # 0
      BY <1>2, SoundParts, MemosAssumption
    <3> QED
      BY <3>1, FS_EmptySet, SoundParts
  <2>4. old \in m.entries
    BY <2>2, <2>3, OldestIs
  <2>5. t = Deleted(m, {old})
    BY <1>2, <2>1, <2>2 DEF Trimmed
  <2>6. /\ Sound(t) /\ t.entries = m.entries \ {old}
        /\ \A a \in Accounts : t.perAccount[a] <= m.perAccount[a]
    BY <2>5, DeletedCounts
  <2>7. Cardinality(t.entries) = Cardinality(m.entries) - 1
    BY <2>4, <2>6, FS_RemoveElement, SoundParts, ZenonT(40)
  <2>8. Cardinality(t.entries) <= MaxEntries
    BY <2>7, SoundParts, MemosAssumption
  <2>9. ASSUME NEW a \in Accounts
        PROVE  t.perAccount[a] <= MaxPerAccount
    <3>1. t.perAccount[a] \in Int /\ m.perAccount[a] \in Int
      BY <2>6, SoundParts
    <3> QED
      BY <2>6, <3>1, MemosAssumption
  <2> QED
    BY <2>1, <2>6, <2>8, <2>9 DEF Within
<1> QED
  BY <1>1, <1>2

\* What get holds once the music server has been asked.
AfterMiss(m, due, new) == Trimmed(TrimmedFor(Placed(Swept(m, due), new), new.account))

\* get keeps the counts true and the bounds, and holds nothing else that is new.
LEMMA MissCounts ==
    ASSUME NEW m, Sound(m), Within(m), NEW due \in BOOLEAN, NEW new \in Entry, new \notin m.entries
    PROVE  /\ Sound(AfterMiss(m, due, new)) /\ Within(AfterMiss(m, due, new))
           /\ AfterMiss(m, due, new).entries \subseteq m.entries \cup {new}
<1>1. PICK s : s = Swept(m, due)
  OBVIOUS
<1>2. Sound(s) /\ Within(s) /\ s.entries \subseteq m.entries
  BY <1>1, DeletedCounts DEF Swept
<1>3. PICK d : d = Deleted(s, {e \in s.entries : SameKey(e, new)})
  OBVIOUS
<1>4. Sound(d) /\ Within(d) /\ d.entries \subseteq m.entries
  BY <1>2, <1>3, DeletedCounts
<1>5. PICK p : p = With(d, new)
  OBVIOUS
<1>6. /\ Sound(p) /\ p.entries = d.entries \cup {new}
      /\ Cardinality(p.entries) = Cardinality(d.entries) + 1
      /\ \A a \in Accounts : p.perAccount[a]
            = IF a = new.account THEN d.perAccount[a] + 1 ELSE d.perAccount[a]
  BY <1>4, <1>5, WithCounts
<1>7. Over(p, new.account)
  <2>1. Cardinality(d.entries) \in Nat /\ \A a \in Accounts : d.perAccount[a] \in Int
    BY <1>4, SoundParts
  <2> QED
    BY <1>4, <1>6, <2>1, MemosAssumption DEF Within, Over
<1>8. PICK t : t = TrimmedFor(p, new.account)
  OBVIOUS
<1>9. /\ Sound(t) /\ t.entries \subseteq p.entries
      /\ Cardinality(t.entries) <= MaxEntries + 1
      /\ \A a \in Accounts : t.perAccount[a] <= MaxPerAccount
  <2>1. new.account \in Accounts
    BY DEF Entry
  <2> QED
    BY <1>6, <1>7, <1>8, <2>1, TrimmedForCounts
<1>10. Sound(Trimmed(t)) /\ Within(Trimmed(t)) /\ Trimmed(t).entries \subseteq t.entries
  BY <1>9, TrimmedCounts
<1>11. AfterMiss(m, due, new) = Trimmed(t)
  BY <1>1, <1>3, <1>5, <1>8 DEF AfterMiss, Placed
<1> QED
  BY <1>4, <1>6, <1>9, <1>10, <1>11

-----------------------------------------------------------------------------
(* The counts *)

\* What the counts say of what is held.
LEMMA CountsOf ==
    /\ TypeOK /\ Counted => Sound(memo) /\ Within(memo)
    /\ Sound(memo') /\ Within(memo') => Counted'
<1>1. TypeOK /\ Counted => Sound(memo) /\ Within(memo)
  BY DEF TypeOK, Counted, CountsTrue, Sound, Within, Held
<1>2. Sound(memo') /\ Within(memo') => Counted'
  BY DEF Counted, CountsTrue, Sound, Within, Held
<1> QED
  BY <1>1, <1>2

\* What is dropped leaves the counts true.
LEMMA DropsCounted ==
    ASSUME TypeOK, Counted, NEW gone, memo' = Deleted(memo, gone)
    PROVE  /\ Counted' /\ memo'.entries = memo.entries \ gone
           /\ memo' \in [entries : SUBSET Entry, perAccount : [Accounts -> Int]]
<1>1. Sound(memo) /\ Within(memo)
  BY CountsOf
<1>2. Sound(memo') /\ Within(memo') /\ memo'.entries = memo.entries \ gone
  BY <1>1, DeletedCounts
<1> QED
  BY <1>2, CountsOf DEF Sound

\* An entry whose lifetime changes leaves them true.
LEMMA RelitCounted ==
    ASSUME TypeOK, Counted, NEW e \in Held, NEW f \in Entry, f.account = e.account,
           f \notin Held \ {e}, memo' = [memo EXCEPT !.entries = (@ \ {e}) \cup {f}]
    PROVE  Counted'
<1>1. Sound(memo) /\ Within(memo)
  BY CountsOf
<1>2. /\ memo'.entries = (Held \ {e}) \cup {f} /\ memo'.perAccount = memo.perAccount
      /\ memo' \in [entries : SUBSET Entry, perAccount : [Accounts -> Int]]
  BY <1>1 DEF Held, Sound
<1>3. ASSUME NEW S, IsFiniteSet(S), e \in S, f \notin S \ {e}
      PROVE  IsFiniteSet((S \ {e}) \cup {f}) /\ Cardinality((S \ {e}) \cup {f}) = Cardinality(S)
  <2>1. IsFiniteSet(S \ {e}) /\ Cardinality(S \ {e}) = Cardinality(S) - 1
    BY <1>3, FS_RemoveElement
  <2>2. /\ IsFiniteSet((S \ {e}) \cup {f})
        /\ Cardinality((S \ {e}) \cup {f}) = Cardinality(S \ {e}) + 1
    BY <1>3, <2>1, FS_AddElement
  <2> QED
    BY <1>3, <2>1, <2>2, FS_CardinalityType
<1>4. IsFiniteSet(memo'.entries) /\ Cardinality(memo'.entries) = Cardinality(memo.entries)
  BY <1>1, <1>2, <1>3, SoundParts DEF Held
<1>5. ASSUME NEW a \in Accounts
      PROVE  Cardinality(OfAccount(memo'.entries, a)) = Cardinality(OfAccount(memo.entries, a))
  <2>1. CASE a = e.account
    <3>1. OfAccount(memo'.entries, a) = (OfAccount(Held, a) \ {e}) \cup {f}
      BY <1>2, <2>1 DEF OfAccount
    <3>2. e \in OfAccount(Held, a) /\ f \notin OfAccount(Held, a) \ {e} /\ IsFiniteSet(OfAccount(Held, a))
      BY <1>1, <2>1, SoundParts DEF OfAccount, Held
    <3> QED
      BY <1>3, <3>1, <3>2 DEF Held
  <2>2. CASE a # e.account
    BY <1>2, <2>2 DEF OfAccount, Held
  <2> QED
    BY <2>1, <2>2
<1>6. Sound(memo') /\ Within(memo')
  BY <1>1, <1>2, <1>4, <1>5 DEF Sound, Within
<1> QED
  BY <1>6, CountsOf

\* What is held only loses entries.
LEMMA Thinned ==
    ASSUME IInv, Held' \subseteq Held, UNCHANGED <<version, reads, request, written>>,
           unheard \subseteq unheard'
    PROVE  OwnReads' /\ OneEach' /\ WrittenWas' /\ HeldIsSeen' /\ SinceWas' /\ WrittenIsSeen'
BY DEF IInv, OwnReads, OneEach, WrittenWas, HeldIsSeen, SinceWas, WrittenIsSeen, Waits, At, Answered

-----------------------------------------------------------------------------
(* Requests *)

\* What a request becomes changes no other.
LEMMA Moves ==
    ASSUME TypeOK, NEW r \in Slots, NEW new, Becomes(r, new)
    PROVE  request'[r] = new /\ \A q \in Slots \ {r} : request'[q] = request[q]
BY DEF TypeOK, Becomes

\* A request that is typed has the parts its stage has.
LEMMA Parts ==
    ASSUME TypeOK, NEW r \in Slots
    PROVE  /\ At(r, "resolved") =>
                 request[r].account \in Accounts /\ request[r].viewer \in Viewers /\ request[r].key \in Keys
           /\ Waits(r) =>
                 /\ request[r].account \in Accounts /\ request[r].viewer \in Viewers /\ request[r].key \in Keys
                 /\ request[r].read \in 1..MaxReads /\ request[r].since \in Versions
           /\ At(r, "writing") \/ At(r, "changed") =>
                 /\ request[r].account \in Accounts /\ request[r].keys \in SUBSET Keys
                 /\ [request[r] EXCEPT !.at = "changed"] \in Request
           /\ At(r, "replacing") => request[r].account \in Accounts
BY DEF TypeOK, Request, At, Waits

\* A request that waits for nothing matters to no other part.
LEMMA Elsewhere ==
    ASSUME IInv, NEW r \in Slots, NEW new, new.at # "waits", Becomes(r, new),
           UNCHANGED <<version, memo, reads, written, unheard>>
    PROVE  OwnReads' /\ OneEach' /\ Counted' /\ WrittenWas' /\ HeldIsSeen' /\ SinceWas' /\ WrittenIsSeen'
<1>1. request'[r] = new /\ \A q \in Slots \ {r} : request'[q] = request[q]
  BY Moves DEF IInv
<1>2. OneEach' /\ Counted' /\ WrittenWas' /\ HeldIsSeen'
  BY DEF IInv, OneEach, Counted, CountsTrue, WrittenWas, HeldIsSeen, Held, Answered
<1>3. OwnReads' /\ SinceWas' /\ WrittenIsSeen'
  BY <1>1 DEF IInv, OwnReads, SinceWas, WrittenIsSeen, Waits, At, Held
<1> QED
  BY <1>2, <1>3

\* What each action but TypeOK keeps.
Kept == OwnReads /\ OneEach /\ Counted /\ WrittenWas /\ HeldIsSeen /\ SinceWas /\ WrittenIsSeen

\* A request that is given a read.
LEMMA AskingKeeps ==
    ASSUME IInv, NEW r \in Slots, At(r, "resolved"), NEW p, Asking(r, p), UNCHANGED written
    PROVE  /\ request'[r].at = "waits" /\ request'[r].read = p
           /\ request'[r].account = request[r].account /\ request'[r].viewer = request[r].viewer
           /\ request'[r].key = request[r].key
           /\ request'[r].since = written[request[r].account][request[r].key]
           /\ \A q \in Slots \ {r} : request'[q] = request[q]
BY Moves DEF IInv, Asking

\* A read from memory was held when all that has been written was.
LEMMA HitKeeps ==
    ASSUME IInv, NEW r \in Slots, Hit(r)
    PROVE  Kept'
<1>1. PICK e \in Held : SameKey(e, request[r]) /\ Asking(r, e.read)
  BY DEF Hit
<1>2. At(r, "resolved") /\ UNCHANGED <<version, viewer, memo, reads, written, unheard, faults>>
  BY DEF Hit
<1>3. /\ request'[r].at = "waits" /\ request'[r].read = e.read
      /\ request'[r].account = request[r].account /\ request'[r].viewer = request[r].viewer
      /\ request'[r].key = request[r].key
      /\ request'[r].since = written[request[r].account][request[r].key]
      /\ \A q \in Slots \ {r} : request'[q] = request[q]
  BY <1>1, <1>2, AskingKeeps
<1>4. request[r].account \in Accounts /\ request[r].key \in Keys
  BY <1>2, Parts DEF IInv
<1>5. written[request[r].account][request[r].key] \in Int
  BY <1>4 DEF IInv, TypeOK, Versions
<1>6. OneEach' /\ Counted' /\ WrittenWas' /\ HeldIsSeen'
  BY <1>2 DEF IInv, OneEach, Counted, CountsTrue, WrittenWas, HeldIsSeen, Held, Answered
<1>7. OwnReads'
  BY <1>1, <1>2, <1>3 DEF IInv, OwnReads, Waits, At, Held, SameKey
<1>8. SinceWas'
  BY <1>2, <1>3, <1>5 DEF IInv, SinceWas, Waits, At
<1>9. WrittenIsSeen'
  <2>1. ASSUME request[r].account \notin unheard, Answered(e.read)
        PROVE  reads[e.read].version >= written[request[r].account][request[r].key]
    BY <1>1, <2>1 DEF IInv, HeldIsSeen, SameKey
  <2> QED
    BY <1>2, <1>3, <2>1 DEF IInv, WrittenIsSeen, At, Answered
<1> QED
  BY <1>6, <1>7, <1>8, <1>9 DEF Kept

\* A new read is its request's own, and has no answer yet.
LEMMA MissKeeps ==
    ASSUME IInv, NEW r \in Slots, NEW due \in BOOLEAN, Miss(r, due)
    PROVE  /\ Kept' /\ reads' \in Seq(Read) /\ Len(reads') <= MaxReads
           /\ memo' \in [entries : SUBSET Entry, perAccount : [Accounts -> Int]]
           /\ request' \in [Slots -> Request]
<1> DEFINE n == Len(reads) + 1
           new == [account |-> request[r].account, viewer |-> request[r].viewer,
                   key |-> request[r].key, read |-> n, fresh |-> TRUE]
           asked == [account |-> new.account, viewer |-> new.viewer, key |-> new.key,
                     at |-> "asked", version |-> 0, nothing |-> FALSE]
<1>1. /\ At(r, "resolved") /\ Len(reads) < MaxReads
      /\ reads' = Append(reads, asked) /\ memo' = AfterMiss(memo, due, new)
      /\ Asking(r, n) /\ UNCHANGED <<version, viewer, written, unheard, faults>>
  BY DEF Miss, AfterMiss
<1>2. /\ request[r].account \in Accounts /\ request[r].viewer \in Viewers /\ request[r].key \in Keys
      /\ reads \in Seq(Read) /\ n \in 1..MaxReads
  <2>1. reads \in Seq(Read) /\ Len(reads) \in Nat
    BY DEF IInv, TypeOK
  <2>2. n \in 1..MaxReads
    BY <1>1, <2>1, MemosAssumption
  <2>3. request[r].account \in Accounts /\ request[r].viewer \in Viewers /\ request[r].key \in Keys
    BY <1>1, Parts DEF IInv
  <2> QED
    BY <2>1, <2>2, <2>3
<1>3. /\ asked \in Read /\ new \in Entry
      /\ new.read = n /\ asked.at = "asked" /\ SameKey(asked, new) /\ SameKey(asked, request[r])
  BY <1>2, MemosAssumption DEF Read, Entry, Versions, SameKey
<1> HIDE DEF new, asked
<1>4. /\ reads' \in Seq(Read) /\ Len(reads') = n /\ reads'[n] = asked
      /\ \A p \in DOMAIN reads : p \in DOMAIN reads' /\ reads'[p] = reads[p]
      /\ n \in DOMAIN reads' /\ n \notin DOMAIN reads
  BY <1>1, <1>2, <1>3
<1>5. /\ request'[r].at = "waits" /\ request'[r].read = n
      /\ request'[r].account = request[r].account /\ request'[r].viewer = request[r].viewer
      /\ request'[r].key = request[r].key
      /\ request'[r].since = written[request[r].account][request[r].key]
      /\ \A q \in Slots \ {r} : request'[q] = request[q]
  BY <1>1, AskingKeeps
<1>6. \A e \in Held : e.read \in DOMAIN reads
  BY DEF IInv, OwnReads
<1>7. /\ Sound(memo') /\ Within(memo') /\ Held' \subseteq Held \cup {new}
  <2>1. new \notin memo.entries
    BY <1>3, <1>4, <1>6 DEF Held
  <2>2. Sound(memo) /\ Within(memo)
    BY CountsOf DEF IInv
  <2> QED
    BY <1>1, <1>3, <2>1, <2>2, MissCounts DEF Held
<1>8. written[request[r].account][request[r].key] \in Versions
  BY <1>2 DEF IInv, TypeOK
<1>9. Counted' /\ WrittenWas'
  BY <1>1, <1>7, CountsOf DEF IInv, WrittenWas
<1>10. OneEach'
  <2>1. ASSUME NEW e \in Held', NEW f \in Held', e.read = f.read
        PROVE  e = f
    <3>1. CASE e \in Held /\ f \in Held
      BY <2>1, <3>1 DEF IInv, OneEach
    <3>2. CASE e = new \/ f = new
      BY <1>3, <1>4, <1>6, <1>7, <2>1, <3>2
    <3> QED
      BY <1>7, <3>1, <3>2
  <2> QED
    BY <2>1 DEF OneEach
<1>11. OwnReads'
  <2>1. ASSUME NEW e \in Held'
        PROVE  e.read \in DOMAIN reads' /\ SameKey(reads'[e.read], e)
    <3>1. CASE e = new
      BY <1>3, <1>4, <3>1
    <3>2. CASE e \in Held
      BY <1>4, <3>2 DEF IInv, OwnReads
    <3> QED
      BY <1>7, <3>1, <3>2
  <2>2. ASSUME NEW q \in Slots, Waits(q)'
        PROVE  request'[q].read \in DOMAIN reads' /\ SameKey(reads'[request'[q].read], request'[q])
    <3>1. CASE q = r
      BY <1>3, <1>4, <1>5, <3>1 DEF SameKey
    <3>2. CASE q # r
      BY <1>4, <1>5, <2>2, <3>2 DEF IInv, OwnReads, Waits, At
    <3> QED
      BY <3>1, <3>2
  <2> QED
    BY <2>1, <2>2 DEF OwnReads
<1>12. HeldIsSeen'
  <2>1. ASSUME NEW e \in Held', e.account \notin unheard, Answered(e.read)'
        PROVE  reads'[e.read].version >= written[e.account][e.key]
    <3>1. e # new
      BY <1>3, <1>4, <2>1 DEF Answered
    <3>2. e \in Held /\ reads'[e.read] = reads[e.read]
      BY <1>4, <1>6, <1>7, <3>1
    <3> QED
      BY <2>1, <3>2 DEF IInv, HeldIsSeen, Answered
  <2> QED
    BY <1>1, <2>1 DEF HeldIsSeen
<1>13. SinceWas'
  BY <1>1, <1>5, <1>8 DEF IInv, SinceWas, Waits, At, Versions
<1>14. WrittenIsSeen'
  <2>1. ASSUME NEW q \in Slots, At(q, "waits")', request'[q].account \notin unheard,
               reads'[request'[q].read].at \in {"answered", "done"}
        PROVE  reads'[request'[q].read].version >= request'[q].since
    <3>1. q # r
      BY <1>3, <1>4, <1>5, <2>1
    <3>2. Waits(q) /\ request'[q] = request[q]
      BY <1>5, <2>1, <3>1 DEF At, Waits
    <3>3. reads'[request[q].read] = reads[request[q].read]
      BY <1>4, <3>2 DEF IInv, OwnReads
    <3> QED
      BY <2>1, <3>2, <3>3 DEF IInv, WrittenIsSeen, Waits
  <2> QED
    BY <1>1, <2>1 DEF WrittenIsSeen
<1>15. request' \in [Slots -> Request]
  <2>1. [at |-> "waits", account |-> request[r].account, viewer |-> request[r].viewer,
         key |-> request[r].key, read |-> n,
         since |-> written[request[r].account][request[r].key]] \in Request
    BY <1>2, <1>8 DEF Request
  <2> QED
    BY <1>1, <2>1 DEF Asking, Becomes, IInv, TypeOK
<1>16. memo' \in [entries : SUBSET Entry, perAccount : [Accounts -> Int]]
  BY <1>7 DEF Sound
<1>17. Len(reads') <= MaxReads
  BY <1>2, <1>4
<1> QED
  BY <1>4, <1>9, <1>10, <1>11, <1>12, <1>13, <1>14, <1>15, <1>16, <1>17 DEF Kept

-----------------------------------------------------------------------------
(* The music server *)

\* A read that gets on keeps its account, viewer and key.
LEMMA ReadGoesOn ==
    ASSUME IInv, NEW p \in DOMAIN reads, NEW x \in Read, reads' = [reads EXCEPT ![p] = x],
           SameKey(x, reads[p])
    PROVE  /\ reads' \in Seq(Read) /\ Len(reads') = Len(reads) /\ DOMAIN reads' = DOMAIN reads
           /\ reads'[p] = x /\ \A q \in DOMAIN reads : q # p => reads'[q] = reads[q]
           /\ \A q \in DOMAIN reads : SameKey(reads'[q], reads[q])
BY DEF IInv, TypeOK, SameKey

\* An answer is of now: nothing that has been written is newer.
LEMMA AnswersKeep ==
    ASSUME IInv, NEW p \in DOMAIN reads, NEW nothing \in BOOLEAN, Answers(p, nothing)
    PROVE  Kept' /\ reads' \in Seq(Read) /\ Len(reads') <= MaxReads
<1> DEFINE a == reads[p].account
           k == reads[p].key
           x == [reads[p] EXCEPT !.at = "answered", !.nothing = nothing, !.version = version[a][k]]
<1>1. /\ reads[p] \in Read /\ version[a][k] \in Versions /\ written[a][k] \in Versions
      /\ a \in Accounts /\ k \in Keys
  <2>1. reads[p] \in Read
    BY DEF IInv, TypeOK
  <2>2. a \in Accounts /\ k \in Keys
    BY <2>1 DEF Read
  <2> QED
    BY <2>1, <2>2 DEF IInv, TypeOK
<1>2. x \in Read /\ SameKey(x, reads[p]) /\ x.at = "answered" /\ x.version = version[a][k]
  BY <1>1 DEF Read, SameKey
<1>3. reads' = [reads EXCEPT ![p] = x] /\ UNCHANGED <<version, viewer, memo, request, written, unheard, faults>>
  BY DEF Answers
<1>4. /\ reads' \in Seq(Read) /\ Len(reads') = Len(reads) /\ DOMAIN reads' = DOMAIN reads
      /\ reads'[p] = x /\ \A q \in DOMAIN reads : q # p => reads'[q] = reads[q]
      /\ \A q \in DOMAIN reads : SameKey(reads'[q], reads[q])
  BY <1>2, <1>3, ReadGoesOn
<1>5. OneEach' /\ Counted' /\ WrittenWas' /\ SinceWas'
  BY <1>3 DEF IInv, OneEach, Counted, CountsTrue, WrittenWas, SinceWas, Held, Waits, At
<1>6. OwnReads'
  BY <1>3, <1>4 DEF IInv, OwnReads, Held, Waits, At, SameKey
<1>7. written[a][k] <= version[a][k]
  BY <1>1 DEF IInv, WrittenWas
<1>8. HeldIsSeen'
  <2>1. ASSUME NEW e \in Held, e.account \notin unheard, Answered(e.read)'
        PROVE  reads'[e.read].version >= written[e.account][e.key]
    <3>1. e.read \in DOMAIN reads /\ SameKey(reads[e.read], e)
      BY DEF IInv, OwnReads
    <3>2. CASE e.read = p
      BY <1>1, <1>2, <1>4, <1>7, <3>1, <3>2 DEF SameKey, Versions
    <3>3. CASE e.read # p
      BY <1>4, <2>1, <3>1, <3>3 DEF IInv, HeldIsSeen, Answered
    <3> QED
      BY <3>2, <3>3
  <2> QED
    BY <1>3, <2>1 DEF HeldIsSeen, Held
<1>9. WrittenIsSeen'
  <2>1. ASSUME NEW q \in Slots, At(q, "waits"), request[q].account \notin unheard,
               reads'[request[q].read].at \in {"answered", "done"}
        PROVE  reads'[request[q].read].version >= request[q].since
    <3>1. /\ request[q].read \in DOMAIN reads /\ SameKey(reads[request[q].read], request[q])
          /\ request[q].since <= written[request[q].account][request[q].key]
          /\ request[q].since \in Versions
      BY <2>1, Parts DEF IInv, OwnReads, SinceWas, Waits
    <3>2. CASE request[q].read = p
      <4>1. request[q].since <= written[a][k] /\ reads'[request[q].read].version = version[a][k]
        BY <1>2, <1>4, <3>1, <3>2 DEF SameKey
      <4> QED
        BY <1>1, <1>7, <3>1, <4>1 DEF Versions
    <3>3. CASE request[q].read # p
      BY <1>4, <2>1, <3>1, <3>3 DEF IInv, WrittenIsSeen
    <3> QED
      BY <3>2, <3>3
  <2> QED
    BY <1>3, <2>1 DEF WrittenIsSeen, At
<1> QED
  BY <1>4, <1>5, <1>6, <1>8, <1>9 DEF Kept, IInv, TypeOK

\* An entry as it is, or with another lifetime.
Same(e, f) ==
    e.account = f.account /\ e.viewer = f.viewer /\ e.key = f.key /\ e.read = f.read

\* A read that settles or fails has the answer it had.
LEMMA SameAnswer ==
    ASSUME IInv, NEW p \in DOMAIN reads, NEW at \in {"done", "failed"},
           reads' = [reads EXCEPT ![p].at = at], at = "done" => reads[p].at = "answered",
           UNCHANGED <<version, request, written, unheard>>, Counted',
           \A e \in Held' : \E f \in Held : Same(e, f),
           \A e \in Held', f \in Held' : e.read = f.read => e = f
    PROVE  Kept' /\ reads' \in Seq(Read) /\ Len(reads') <= MaxReads
<1> DEFINE x == [reads[p] EXCEPT !.at = at]
<1>1. reads[p] \in Read
  BY DEF IInv, TypeOK
<1>2. x \in Read /\ SameKey(x, reads[p]) /\ x.at = at /\ x.version = reads[p].version
  BY <1>1 DEF Read, SameKey
<1>3. reads' = [reads EXCEPT ![p] = x]
  OBVIOUS
<1>4. /\ reads' \in Seq(Read) /\ Len(reads') = Len(reads) /\ DOMAIN reads' = DOMAIN reads
      /\ reads'[p] = x /\ \A q \in DOMAIN reads : q # p => reads'[q] = reads[q]
      /\ \A q \in DOMAIN reads : SameKey(reads'[q], reads[q])
  BY <1>2, <1>3, ReadGoesOn
<1>5. \A q \in DOMAIN reads : Answered(q)' => Answered(q) /\ reads'[q].version = reads[q].version
  BY <1>2, <1>4 DEF Answered
<1>6. OneEach' /\ WrittenWas' /\ SinceWas'
  BY DEF IInv, OneEach, WrittenWas, SinceWas, Waits, At
<1>7. OwnReads'
  BY <1>4 DEF IInv, OwnReads, Waits, At, SameKey, Same
<1>8. HeldIsSeen'
  <2>1. ASSUME NEW e \in Held', e.account \notin unheard, Answered(e.read)'
        PROVE  reads'[e.read].version >= written[e.account][e.key]
    <3>1. PICK f \in Held : Same(e, f)
      OBVIOUS
    <3>2. f.read \in DOMAIN reads
      BY DEF IInv, OwnReads
    <3> QED
      BY <1>5, <2>1, <3>1, <3>2 DEF IInv, HeldIsSeen, Same
  <2> QED
    BY <2>1 DEF HeldIsSeen
<1>9. WrittenIsSeen'
  <2>1. ASSUME NEW q \in Slots, At(q, "waits"), request[q].account \notin unheard,
               Answered(request[q].read)'
        PROVE  reads'[request[q].read].version >= request[q].since
    <3>1. request[q].read \in DOMAIN reads
      BY <2>1 DEF IInv, OwnReads, Waits
    <3> QED
      BY <1>5, <2>1, <3>1 DEF IInv, WrittenIsSeen, Answered
  <2> QED
    BY <2>1 DEF WrittenIsSeen, At, Answered
<1> QED
  BY <1>4, <1>6, <1>7, <1>8, <1>9 DEF Kept, IInv, TypeOK

\* A read that settles sets the lifetime of its entry, if it still has one.
LEMMA SettlesKeep ==
    ASSUME IInv, NEW p \in DOMAIN reads, Settles(p)
    PROVE  /\ Kept' /\ reads' \in Seq(Read) /\ Len(reads') <= MaxReads
           /\ memo' \in [entries : SUBSET Entry, perAccount : [Accounts -> Int]]
<1> DEFINE lit(e) == IF e.read = p THEN [e EXCEPT !.fresh = ~reads[p].nothing] ELSE e
<1>1. /\ reads[p].at = "answered" /\ reads' = [reads EXCEPT ![p].at = "done"]
      /\ UNCHANGED <<version, viewer, request, written, unheard, faults>>
      /\ memo' = memo \/ memo' = [memo EXCEPT !.entries = {lit(e) : e \in @}]
  BY DEF Settles
<1>2. reads[p].nothing \in BOOLEAN
  <2>1. reads[p] \in Read
    BY DEF IInv, TypeOK
  <2> QED
    BY <2>1 DEF Read
<1>3. /\ memo \in [entries : SUBSET Entry, perAccount : [Accounts -> Int]]
      /\ \A e \in Held : e \in Entry
  BY DEF IInv, TypeOK, Held
<1>4. \A e \in Held : Same(lit(e), e) /\ lit(e) \in Entry /\ (e.read # p => lit(e) = e)
  BY <1>2, <1>3 DEF Entry, Same
<1>5. \A e, f \in Held : e.read = f.read => e = f
  BY DEF IInv, OneEach
<1>6. /\ Counted' /\ memo' \in [entries : SUBSET Entry, perAccount : [Accounts -> Int]]
      /\ Held' = Held \/ Held' = {lit(e) : e \in Held}
  <2>1. CASE memo' = memo
    BY <2>1, <1>3 DEF IInv, Counted, CountsTrue, Held
  <2>2. CASE memo' = [memo EXCEPT !.entries = {lit(e) : e \in @}]
    <3>1. Held' = {lit(e) : e \in Held} /\ memo'.perAccount = memo.perAccount
      BY <1>3, <2>2 DEF Held
    <3>2. memo' \in [entries : SUBSET Entry, perAccount : [Accounts -> Int]]
      <4>1. {lit(e) : e \in memo.entries} \subseteq Entry
        BY <1>4 DEF Held
      <4> QED
        BY <1>3, <2>2, <4>1
    <3>3. CASE \A e \in Held : e.read # p
      <4>1. Held' = Held
        BY <1>4, <3>1, <3>3
      <4> QED
        BY <3>1, <3>2, <4>1 DEF IInv, Counted, CountsTrue
    <3>4. ASSUME NEW e \in Held, e.read = p
          PROVE  Counted'
      <4>1. PICK f : f = lit(e)
        OBVIOUS
      <4>2. f \in Entry /\ Same(f, e)
        BY <1>4, <4>1
      <4>3. \A g \in Held \ {e} : g.read # p /\ lit(g) = g
        BY <1>4, <1>5, <3>4
      <4>4. f \notin Held \ {e}
        BY <3>4, <4>2, <4>3 DEF Same
      <4>5. {lit(g) : g \in Held} = (Held \ {e}) \cup {f}
        BY <4>1, <4>3
      <4>6. memo' = [memo EXCEPT !.entries = (@ \ {e}) \cup {f}]
        BY <2>2, <4>5 DEF Held
      <4> QED
        BY <4>2, <4>4, <4>6, RelitCounted DEF IInv, Same
    <3> QED
      BY <3>1, <3>2, <3>3, <3>4
  <2> QED
    BY <1>1, <2>1, <2>2
<1>7. \A e \in Held' : \E f \in Held : Same(e, f)
  <2>1. CASE Held' = Held
    BY <2>1 DEF Same
  <2>2. CASE Held' = {lit(e) : e \in Held}
    BY <1>4, <2>2
  <2> QED
    BY <1>6, <2>1, <2>2
<1>8. \A e \in Held', f \in Held' : e.read = f.read => e = f
  <2>1. CASE Held' = Held
    BY <1>5, <2>1
  <2>2. CASE Held' = {lit(e) : e \in Held}
    <3>1. ASSUME NEW e \in Held', NEW f \in Held', e.read = f.read
          PROVE  e = f
      <4>1. PICK g \in Held, h \in Held : e = lit(g) /\ f = lit(h)
        BY <2>2
      <4>2. g.read = h.read
        BY <1>4, <3>1, <4>1 DEF Same
      <4> QED
        BY <1>5, <4>1, <4>2
    <3> QED
      BY <3>1
  <2> QED
    BY <1>6, <2>1, <2>2
<1>9. Kept' /\ reads' \in Seq(Read) /\ Len(reads') <= MaxReads
  BY <1>1, <1>6, <1>7, <1>8, SameAnswer
<1> QED
  BY <1>6, <1>9

\* A read that fails leaves nothing held.
LEMMA FailsKeep ==
    ASSUME IInv, NEW p \in DOMAIN reads, Fails(p)
    PROVE  /\ Kept' /\ reads' \in Seq(Read) /\ Len(reads') <= MaxReads
           /\ memo' \in [entries : SUBSET Entry, perAccount : [Accounts -> Int]]
<1>1. /\ reads' = [reads EXCEPT ![p].at = "failed"] /\ memo' = Deleted(memo, DropsFailed(p))
      /\ UNCHANGED <<version, viewer, request, written, unheard>>
  BY DEF Fails
<1>2. /\ Counted' /\ Held' = Held \ DropsFailed(p)
      /\ memo' \in [entries : SUBSET Entry, perAccount : [Accounts -> Int]]
  BY <1>1, DropsCounted DEF IInv, Held
<1>3. \A e \in Held' : \E f \in Held : Same(e, f)
  BY <1>2 DEF Same
<1>4. \A e \in Held', f \in Held' : e.read = f.read => e = f
  BY <1>2 DEF IInv, OneEach
<1> QED
  BY <1>1, <1>2, <1>3, <1>4, SameAnswer

\* An entry that expires is held on.
LEMMA ExpiresKeeps ==
    ASSUME IInv, NEW e \in Held, Expires(e)
    PROVE  Kept' /\ memo' \in [entries : SUBSET Entry, perAccount : [Accounts -> Int]]
<1> DEFINE f == [e EXCEPT !.fresh = FALSE]
<1>1. /\ e.fresh /\ memo' = [memo EXCEPT !.entries = (@ \ {e}) \cup {f}]
      /\ UNCHANGED <<version, viewer, reads, request, written, unheard, faults>>
  BY DEF Expires
<1>2. /\ memo \in [entries : SUBSET Entry, perAccount : [Accounts -> Int]] /\ e \in Entry
  BY DEF IInv, TypeOK, Held
<1>3. f \in Entry /\ Same(f, e) /\ f # e
  BY <1>1, <1>2 DEF Entry, Same
<1> HIDE DEF f
<1>4. f \notin Held \ {e}
  BY <1>3 DEF IInv, OneEach, Same
<1>5. Held' = (Held \ {e}) \cup {f} /\ memo' \in [entries : SUBSET Entry, perAccount : [Accounts -> Int]]
  BY <1>1, <1>2, <1>3 DEF Held
<1>6. Counted'
  BY <1>1, <1>3, <1>4, RelitCounted DEF IInv, Same
<1>7. OneEach'
  BY <1>3, <1>5 DEF IInv, OneEach, Same
<1>8. OwnReads'
  BY <1>1, <1>3, <1>5 DEF IInv, OwnReads, Same, SameKey, Waits, At
<1>9. HeldIsSeen'
  BY <1>1, <1>3, <1>5 DEF IInv, HeldIsSeen, Same, Answered
<1>10. WrittenWas' /\ SinceWas' /\ WrittenIsSeen'
  BY <1>1 DEF IInv, WrittenWas, SinceWas, WrittenIsSeen, Waits, At
<1> QED
  BY <1>5, <1>6, <1>7, <1>8, <1>9, <1>10 DEF Kept

-----------------------------------------------------------------------------
(* Writes and sign-ins *)

\* What changes there leaves what has been written behind.
LEMMA ChangesKeep ==
    ASSUME IInv, NEW r \in Slots, Changes(r)
    PROVE  Kept' /\ version' \in [Accounts -> [Keys -> Versions]] /\ request' \in [Slots -> Request]
<1> DEFINE a == request[r].account
           new == [request[r] EXCEPT !.at = "changed"]
<1>1. /\ At(r, "writing") /\ \A k \in request[r].keys : version[a][k] < MaxVersion
      /\ version' = [version EXCEPT ![a] =
             [k \in Keys |-> IF k \in request[r].keys THEN @[k] + 1 ELSE @[k]]]
      /\ Becomes(r, new) /\ UNCHANGED <<viewer, memo, reads, written, unheard, faults>>
  BY DEF Changes
<1>2. a \in Accounts /\ request[r].keys \in SUBSET Keys /\ new \in Request
  BY <1>1, Parts DEF IInv
<1>3. version \in [Accounts -> [Keys -> Versions]] /\ written \in [Accounts -> [Keys -> Versions]]
  BY DEF IInv, TypeOK
<1>4. /\ version' \in [Accounts -> [Keys -> Versions]]
      /\ \A b \in Accounts, k \in Keys : version'[b][k] >= version[b][k]
  <2>1. ASSUME NEW k \in Keys
        PROVE  /\ (IF k \in request[r].keys THEN version[a][k] + 1 ELSE version[a][k]) \in Versions
               /\ (IF k \in request[r].keys THEN version[a][k] + 1 ELSE version[a][k]) >= version[a][k]
    BY <1>1, <1>2, <1>3, MemosAssumption DEF Versions
  <2>2. [k \in Keys |-> IF k \in request[r].keys THEN version[a][k] + 1 ELSE version[a][k]]
           \in [Keys -> Versions]
    BY <2>1
  <2>3. version' \in [Accounts -> [Keys -> Versions]]
    BY <1>1, <1>2, <1>3, <2>2
  <2>4. ASSUME NEW b \in Accounts, NEW k \in Keys
        PROVE  version'[b][k] >= version[b][k]
    <3>1. CASE b = a
      BY <1>1, <1>2, <1>3, <2>1, <3>1
    <3>2. CASE b # a
      <4>1. version'[b] = version[b] /\ version[b][k] \in Int
        BY <1>1, <1>2, <1>3, <3>2 DEF Versions
      <4> QED
        BY <4>1
    <3> QED
      BY <3>1, <3>2
  <2> QED
    BY <2>3, <2>4
<1>5. request'[r] = new /\ new.at = "changed" /\ \A q \in Slots \ {r} : request'[q] = request[q]
  <2>1. new.at = "changed"
    BY <1>1 DEF IInv, TypeOK, Request, At
  <2> QED
    BY <1>1, <2>1, Moves DEF IInv
<1>6. WrittenWas'
  <2>1. ASSUME NEW b \in Accounts, NEW k \in Keys
        PROVE  written[b][k] <= version'[b][k]
    <3>1. written[b][k] <= version[b][k]
      BY DEF IInv, WrittenWas
    <3>2. written[b][k] \in Int /\ version[b][k] \in Int /\ version'[b][k] \in Int
      BY <1>3, <1>4 DEF Versions
    <3> QED
      BY <1>4, <3>1, <3>2
  <2> QED
    BY <1>1, <2>1 DEF WrittenWas
<1>7. OneEach' /\ Counted' /\ HeldIsSeen'
  BY <1>1 DEF IInv, OneEach, Counted, CountsTrue, HeldIsSeen, Held, Answered
<1>8. OwnReads' /\ SinceWas' /\ WrittenIsSeen'
  BY <1>1, <1>5 DEF IInv, OwnReads, SinceWas, WrittenIsSeen, Waits, At, Held
<1>9. request' \in [Slots -> Request]
  BY <1>1, <1>2 DEF Becomes, IInv, TypeOK
<1> QED
  BY <1>4, <1>6, <1>7, <1>8, <1>9 DEF Kept

\* What a write that ends has written.
LEMMA EndsWrites ==
    ASSUME IInv, NEW r \in Slots, At(r, "changed"), Ends(r)
    PROVE  /\ request[r].account \in Accounts /\ request[r].keys \in SUBSET Keys
           /\ written' \in [Accounts -> [Keys -> Versions]]
           /\ \A a \in Accounts, k \in Keys :
                 /\ written[a][k] <= written'[a][k] /\ written'[a][k] <= version[a][k]
                 /\ (a = request[r].account /\ k \in request[r].keys) \/ written'[a][k] = written[a][k]
           /\ request'[r] = Resting /\ \A q \in Slots \ {r} : request'[q] = request[q]
           /\ request' \in [Slots -> Request]
<1> DEFINE b == request[r].account
<1>1. b \in Accounts /\ request[r].keys \in SUBSET Keys
  BY Parts DEF IInv
<1>2. version \in [Accounts -> [Keys -> Versions]] /\ written \in [Accounts -> [Keys -> Versions]]
  BY DEF IInv, TypeOK
<1>3. /\ written' = [written EXCEPT ![b] =
             [k \in Keys |-> IF k \in request[r].keys THEN version[b][k] ELSE @[k]]]
      /\ Becomes(r, Resting)
  BY DEF Ends
<1>4. \A a \in Accounts, k \in Keys :
         /\ written[a][k] <= version[a][k] /\ written[a][k] \in Int /\ version[a][k] \in Int
  BY <1>2 DEF IInv, WrittenWas, Versions
<1>5. written' \in [Accounts -> [Keys -> Versions]]
  BY <1>1, <1>2, <1>3
<1>6. ASSUME NEW a \in Accounts, NEW k \in Keys
      PROVE  /\ written[a][k] <= written'[a][k] /\ written'[a][k] <= version[a][k]
             /\ (a = b /\ k \in request[r].keys) \/ written'[a][k] = written[a][k]
  <2>1. CASE a = b /\ k \in request[r].keys
    <3>1. written'[a][k] = version[a][k]
      BY <1>1, <1>2, <1>3, <2>1
    <3> QED
      BY <1>4, <2>1, <3>1
  <2>2. CASE ~(a = b /\ k \in request[r].keys)
    <3>1. written'[a][k] = written[a][k]
      BY <1>1, <1>2, <1>3, <2>2
    <3> QED
      BY <1>4, <3>1
  <2> QED
    BY <2>1, <2>2
<1>7. request'[r] = Resting /\ \A q \in Slots \ {r} : request'[q] = request[q]
  BY <1>3, Moves DEF IInv
<1>8. request' \in [Slots -> Request]
  BY <1>3 DEF Becomes, IInv, TypeOK, Request, Resting
<1> QED
  BY <1>1, <1>5, <1>6, <1>7, <1>8

\* What a write drops, or the account that is excepted, leaves nothing older.
LEMMA EndedKeeps ==
    ASSUME IInv, NEW r \in Slots, At(r, "changed"), Ends(r), UNCHANGED <<version, reads>>,
           Counted', Held' \subseteq Held, unheard \subseteq unheard',
           \A e \in Held' : \/ e.account \in unheard'
                            \/ ~(e.account = request[r].account /\ e.key \in request[r].keys)
    PROVE  Kept'
<1>1. /\ \A a \in Accounts, k \in Keys :
            /\ written[a][k] <= written'[a][k] /\ written'[a][k] <= version[a][k]
            /\ (a = request[r].account /\ k \in request[r].keys) \/ written'[a][k] = written[a][k]
      /\ written' \in [Accounts -> [Keys -> Versions]]
      /\ request'[r] = Resting /\ \A q \in Slots \ {r} : request'[q] = request[q]
  BY EndsWrites
<1>2. Resting.at = "idle"
  BY DEF Resting
<1>3. OneEach' /\ WrittenWas'
  BY <1>1 DEF IInv, OneEach, WrittenWas
<1>4. OwnReads'
  BY <1>1, <1>2 DEF IInv, OwnReads, Waits, At
<1>5. WrittenIsSeen'
  BY <1>1, <1>2 DEF IInv, WrittenIsSeen, At
<1>6. HeldIsSeen'
  <2>1. ASSUME NEW e \in Held', e.account \notin unheard', Answered(e.read)
        PROVE  reads[e.read].version >= written'[e.account][e.key]
    <3>1. e \in Held /\ e.account \notin unheard /\ e.account \in Accounts /\ e.key \in Keys
      BY <2>1 DEF IInv, TypeOK, Held, Entry
    <3>2. written'[e.account][e.key] = written[e.account][e.key]
      BY <1>1, <2>1, <3>1
    <3> QED
      BY <2>1, <3>1, <3>2 DEF IInv, HeldIsSeen
  <2> QED
    BY <2>1 DEF HeldIsSeen, Answered
<1>7. SinceWas'
  <2>1. ASSUME NEW q \in Slots, Waits(q)'
        PROVE  request'[q].since <= written'[request'[q].account][request'[q].key]
    <3>1. q # r /\ Waits(q) /\ request'[q] = request[q]
      BY <1>1, <1>2, <2>1 DEF Waits, At
    <3>2. request[q].account \in Accounts /\ request[q].key \in Keys /\ request[q].since \in Int
      <4>1. /\ request[q].account \in Accounts /\ request[q].key \in Keys
            /\ request[q].since \in Versions
        BY <3>1, Parts DEF IInv
      <4> QED
        BY <4>1 DEF Versions
    <3>3. /\ request[q].since <= written[request[q].account][request[q].key]
          /\ written[request[q].account][request[q].key] \in Int
          /\ written'[request[q].account][request[q].key] \in Int
      BY <1>1, <3>1, <3>2 DEF IInv, SinceWas, TypeOK, Versions
    <3> QED
      BY <1>1, <3>1, <3>2, <3>3
  <2> QED
    BY <2>1 DEF SinceWas
<1> QED
  BY <1>3, <1>4, <1>5, <1>6, <1>7 DEF Kept

-----------------------------------------------------------------------------
(* The theorems *)

\* It holds at first.
LEMMA InitHolds == Init => IInv
<1> SUFFICES ASSUME Init
             PROVE  IInv
  OBVIOUS
<1> USE DEF Init
<1>1. TypeOK
  <2>1. 0 \in Versions /\ 0 \in 0..MaxFaults /\ Resting \in Request
    BY MemosAssumption DEF Versions, Request, Resting
  <2>2. Len(reads) <= MaxReads /\ reads \in Seq(Read)
    BY MemosAssumption
  <2>3. memo \in [entries : SUBSET Entry, perAccount : [Accounts -> Int]]
    OBVIOUS
  <2> QED
    BY <2>1, <2>2, <2>3 DEF TypeOK
<1>2. \A r \in Slots : ~At(r, "waits")
  BY DEF At, Resting
<1>3. Held = {}
  BY DEF Held
<1>4. Counted
  <2>1. \A a \in Accounts : OfAccount(Held, a) = {}
    BY <1>3 DEF OfAccount
  <2>2. IsFiniteSet(Held) /\ Cardinality(Held) = 0
    BY <1>3, FS_EmptySet
  <2>3. \A a \in Accounts : memo.perAccount[a] = 0 /\ Cardinality(OfAccount(Held, a)) = 0
    BY <2>1, FS_EmptySet
  <2> QED
    BY <2>2, <2>3, MemosAssumption DEF Counted, CountsTrue
<1>5. WrittenWas
  BY DEF WrittenWas
<1> QED
  BY <1>1, <1>2, <1>3, <1>4, <1>5
  DEF IInv, OwnReads, OneEach, HeldIsSeen, SinceWas, WrittenIsSeen, Waits

\* Each step keeps it.  A step that a request takes:
LEMMA RequestStep ==
    ASSUME IInv, NEW r \in Slots, Reading(r) \/ Writing(r) \/ SigningIn(r)
    PROVE  IInv'
<1> USE DEF IInv
<1>1. ASSUME NEW new \in Request, new.at # "waits", Becomes(r, new),
             UNCHANGED <<version, memo, reads, written, unheard>>,
             viewer' \in [Accounts -> Viewers], faults' \in 0..MaxFaults
      PROVE  IInv'
  <2>1. OwnReads' /\ OneEach' /\ Counted' /\ WrittenWas' /\ HeldIsSeen' /\ SinceWas' /\ WrittenIsSeen'
    BY <1>1, Elsewhere
  <2>2. TypeOK'
    BY <1>1 DEF TypeOK, Becomes
  <2> QED
    BY <2>1, <2>2
<1>2. viewer \in [Accounts -> Viewers] /\ faults \in 0..MaxFaults
  BY DEF TypeOK
<1>3. Resting \in Request /\ Resting.at = "idle"
  BY DEF Resting, Request
<1>4. ASSUME NEW a \in Accounts, NEW k \in Keys, Resolve(r, a, k)
      PROVE  IInv'
  <2>1. PICK new : new = [at |-> "resolved", account |-> a, viewer |-> viewer[a], key |-> k]
    OBVIOUS
  <2>2. new \in Request /\ new.at # "waits"
    BY <1>2, <2>1 DEF Request
  <2> QED
    BY <1>1, <1>2, <1>4, <2>1, <2>2 DEF Resolve
<1>5. ASSUME Hit(r)
      PROVE  IInv'
  <2>1. Kept'
    BY <1>5, HitKeeps
  <2>2. request' \in [Slots -> Request]
    <3>1. PICK e \in Held : Asking(r, e.read) /\ At(r, "resolved") /\ UNCHANGED written
      BY <1>5 DEF Hit
    <3>2. e.read \in 1..MaxReads
      BY DEF TypeOK, Held, Entry
    <3>3. request[r].account \in Accounts /\ request[r].viewer \in Viewers /\ request[r].key \in Keys
      BY <3>1, Parts
    <3>4. [at |-> "waits", account |-> request[r].account, viewer |-> request[r].viewer,
           key |-> request[r].key, read |-> e.read,
           since |-> written[request[r].account][request[r].key]] \in Request
      BY <3>2, <3>3 DEF Request, TypeOK
    <3> QED
      BY <3>1, <3>4 DEF Asking, Becomes, TypeOK
  <2>3. TypeOK'
    BY <1>5, <2>2 DEF Hit, TypeOK
  <2> QED
    BY <2>1, <2>3 DEF Kept
<1>6. ASSUME Served(r)
      PROVE  IInv'
  BY <1>1, <1>2, <1>3, <1>6 DEF Served
<1>7. ASSUME NEW due \in BOOLEAN, Miss(r, due)
      PROVE  IInv'
  <2>1. /\ Kept' /\ reads' \in Seq(Read) /\ Len(reads') <= MaxReads
        /\ memo' \in [entries : SUBSET Entry, perAccount : [Accounts -> Int]]
        /\ request' \in [Slots -> Request]
    BY <1>7, MissKeeps
  <2>2. TypeOK'
    BY <1>7, <2>1 DEF Miss, TypeOK
  <2> QED
    BY <2>1, <2>2 DEF Kept
<1>8. ASSUME NEW a \in Accounts, NEW keys \in Writes, Write(r, a, keys)
      PROVE  IInv'
  <2>1. PICK new : new = [at |-> "writing", account |-> a, keys |-> keys]
    OBVIOUS
  <2>2. new \in Request /\ new.at # "waits"
    BY <2>1, MemosAssumption DEF Request
  <2> QED
    BY <1>1, <1>2, <1>8, <2>1, <2>2 DEF Write
<1>9. ASSUME Changes(r)
      PROVE  IInv'
  <2>1. Kept' /\ version' \in [Accounts -> [Keys -> Versions]] /\ request' \in [Slots -> Request]
    BY <1>9, ChangesKeep
  <2>2. TypeOK'
    BY <1>9, <2>1 DEF Changes, TypeOK
  <2> QED
    BY <2>1, <2>2 DEF Kept
<1>10. ASSUME Refused(r)
       PROVE  IInv'
  BY <1>1, <1>2, <1>3, <1>10 DEF Refused
<1>11. ASSUME Written(r)
       PROVE  IInv'
  <2>1. /\ At(r, "changed") /\ Ends(r)
        /\ memo' = Deleted(memo, Forgotten(request[r].account, request[r].keys))
        /\ UNCHANGED <<version, viewer, reads, unheard, faults>>
    BY <1>11 DEF Written
  <2>2. /\ Counted' /\ Held' = Held \ Forgotten(request[r].account, request[r].keys)
        /\ memo' \in [entries : SUBSET Entry, perAccount : [Accounts -> Int]]
    BY <2>1, DropsCounted DEF Held
  <2>3. \A e \in Held' : ~(e.account = request[r].account /\ e.key \in request[r].keys)
    BY <2>2 DEF Forgotten
  <2>4. Kept'
    BY <2>1, <2>2, <2>3, EndedKeeps
  <2>5. TypeOK'
    BY <2>1, <2>2, EndsWrites DEF TypeOK
  <2> QED
    BY <2>4, <2>5 DEF Kept
<1>12. ASSUME WriteFails(r)
       PROVE  IInv'
  <2>1. /\ At(r, "changed") /\ Ends(r) /\ faults < MaxFaults
        /\ unheard' = unheard \cup {request[r].account} /\ faults' = faults + 1
        /\ UNCHANGED <<version, viewer, memo, reads>>
    BY <1>12 DEF WriteFails
  <2>2. Counted' /\ Held' = Held
    BY <2>1 DEF Counted, CountsTrue, Held
  <2>3. Kept'
    BY <2>1, <2>2, EndedKeeps
  <2>4. request[r].account \in Accounts /\ faults' \in 0..MaxFaults
    BY <1>2, <2>1, EndsWrites, MemosAssumption
  <2>5. TypeOK'
    BY <2>1, <2>4, EndsWrites DEF TypeOK
  <2> QED
    BY <2>3, <2>5 DEF Kept
<1>13. ASSUME NEW a \in Accounts, TakesOver(r, a)
       PROVE  IInv'
  <2>1. PICK new : new = [at |-> "replacing", account |-> a]
    OBVIOUS
  <2>2. new \in Request /\ new.at # "waits"
    BY <2>1 DEF Request
  <2>3. /\ memo' = Deleted(memo, Forgotten(a, Keys)) /\ Becomes(r, new) /\ faults < MaxFaults
        /\ faults' = faults + 1 /\ UNCHANGED <<version, viewer, reads, written, unheard>>
    BY <1>13, <2>1 DEF TakesOver
  <2>4. /\ Counted' /\ Held' \subseteq Held
        /\ memo' \in [entries : SUBSET Entry, perAccount : [Accounts -> Int]]
    BY <2>3, DropsCounted DEF Held
  <2>5. request'[r] = new /\ \A q \in Slots \ {r} : request'[q] = request[q]
    BY <2>3, Moves
  <2>6. OneEach' /\ WrittenWas' /\ HeldIsSeen'
    BY <2>3, <2>4 DEF OneEach, WrittenWas, HeldIsSeen, Answered
  <2>7. OwnReads' /\ SinceWas' /\ WrittenIsSeen'
    BY <2>2, <2>3, <2>4, <2>5 DEF OwnReads, SinceWas, WrittenIsSeen, Waits, At
  <2>8. faults' \in 0..MaxFaults
    BY <1>2, <2>3, MemosAssumption
  <2>9. TypeOK'
    BY <2>2, <2>3, <2>4, <2>8 DEF TypeOK, Becomes
  <2> QED
    BY <2>4, <2>6, <2>7, <2>9
<1>14. ASSUME NEW v \in Viewers, Replaced(r, v)
       PROVE  IInv'
  <2>1. viewer' \in [Accounts -> Viewers]
    BY <1>2, <1>14 DEF Replaced
  <2> QED
    BY <1>1, <1>2, <1>3, <1>14, <2>1 DEF Replaced
<1> QED
  BY <1>4, <1>5, <1>6, <1>7, <1>8, <1>9, <1>10, <1>11, <1>12, <1>13, <1>14
  DEF Reading, Writing, SigningIn

\* A step of the music server, or of time:
LEMMA OtherStep ==
    ASSUME IInv, Upstream \/ (\E e \in Held : Expires(e))
    PROVE  IInv'
<1>1. ASSUME NEW p \in DOMAIN reads, NEW nothing \in BOOLEAN, Answers(p, nothing)
      PROVE  IInv'
  <2>1. Kept' /\ reads' \in Seq(Read) /\ Len(reads') <= MaxReads
    BY <1>1, AnswersKeep
  <2>2. TypeOK'
    BY <1>1, <2>1 DEF Answers, IInv, TypeOK
  <2> QED
    BY <2>1, <2>2 DEF Kept, IInv
<1>2. ASSUME NEW p \in DOMAIN reads, Settles(p)
      PROVE  IInv'
  <2>1. /\ Kept' /\ reads' \in Seq(Read) /\ Len(reads') <= MaxReads
        /\ memo' \in [entries : SUBSET Entry, perAccount : [Accounts -> Int]]
    BY <1>2, SettlesKeep
  <2>2. TypeOK'
    BY <1>2, <2>1 DEF Settles, IInv, TypeOK
  <2> QED
    BY <2>1, <2>2 DEF Kept, IInv
<1>3. ASSUME NEW p \in DOMAIN reads, Fails(p)
      PROVE  IInv'
  <2>1. /\ Kept' /\ reads' \in Seq(Read) /\ Len(reads') <= MaxReads
        /\ memo' \in [entries : SUBSET Entry, perAccount : [Accounts -> Int]]
    BY <1>3, FailsKeep
  <2>2. faults' \in 0..MaxFaults
    BY <1>3, MemosAssumption DEF Fails, IInv, TypeOK
  <2>3. TypeOK'
    BY <1>3, <2>1, <2>2 DEF Fails, IInv, TypeOK
  <2> QED
    BY <2>1, <2>3 DEF Kept, IInv
<1>4. ASSUME NEW e \in Held, Expires(e)
      PROVE  IInv'
  <2>1. Kept' /\ memo' \in [entries : SUBSET Entry, perAccount : [Accounts -> Int]]
    BY <1>4, ExpiresKeeps
  <2>2. TypeOK'
    BY <1>4, <2>1 DEF Expires, IInv, TypeOK
  <2> QED
    BY <2>1, <2>2 DEF Kept, IInv
<1> QED
  BY <1>1, <1>2, <1>3, <1>4 DEF Upstream

\* The invariant is inductive.
LEMMA Inductive == IInv /\ [Next]_vars => IInv'
<1> SUFFICES ASSUME IInv, [Next]_vars
             PROVE  IInv'
  OBVIOUS
<1>1. CASE UNCHANGED vars
  BY <1>1 DEF vars, IInv, TypeOK, OwnReads, OneEach, Counted, CountsTrue, WrittenWas, HeldIsSeen,
              SinceWas, WrittenIsSeen, Held, Waits, At, Answered
<1>2. CASE Next
  BY <1>2, RequestStep, OtherStep DEF Next
<1> QED
  BY <1>1, <1>2

\* Every state has the inductive invariant, the types among it.
THEOREM Invariant == Spec => []IInv
BY InitHolds, Inductive, PTL DEF Spec

\* What is held, read and asked for stays of its type, reads under way within
\* the bound of the model.
THEOREM TypeCorrect == Spec => []TypeOK
<1>1. IInv => TypeOK
  BY DEF IInv
<1> QED
  BY <1>1, Invariant, PTL

\* A read asked for once a write has ended shows it, in memory or under way as
\* the write dropped what was held (memo.ts forget, forgetAccount).
THEOREM ReadsFollowWrites == Spec => []WrittenIsSeen
<1>1. IInv => WrittenIsSeen
  BY DEF IInv
<1> QED
  BY <1>1, Invariant, PTL

\* No one is answered with what another account or upstream user read, however
\* names change hands (memo.ts get, viewerOf).
THEOREM AnswersAreOwn == Spec => []OwnAnswer
<1>1. IInv => OwnAnswer
  BY DEF IInv, OwnReads, OwnAnswer, Waits, SameKey
<1> QED
  BY <1>1, Invariant, PTL

\* The count per account is of its entries, and both bounds hold (memo.ts
\* #delete, #evictOldest).
THEOREM CountsHold == Spec => []CountsTrue
<1>1. IInv => CountsTrue
  BY DEF IInv, Counted
<1> QED
  BY <1>1, Invariant, PTL

-----------------------------------------------------------------------------
(* Shared links: the inductive invariant *)

HasLink(r) == CallAt(r, "resolved") \/ Registered(r)

\* Links a request or a row stands for have been made.
MadeFirst == rows \subseteq Made /\ \A r \in Calls : HasLink(r) => call[r].link \in Made

\* A stream that can be withdrawn is registered.
StreamsHeld ==
    \A r \in Calls : Registered(r) /\ ~call[r].aborted => r \in openStreams[call[r].link]

\* Where the row of a request's link has gone.
GoneKnown(r) ==
    LET l == call[r].link
    IN l \in rows \/ l \in expired \/ l \in missed \/ BeingCut(l) \/ call[r].late

Gone ==
    \A r \in Calls : CallAt(r, "resolved") \/ (Registered(r) /\ ~call[r].aborted) => GoneKnown(r)

\* The stored credential is its maker's, for a link that has its row.
MakersOwn == \A l \in rows \ (stray \cup kept) : user[madeBy[l].account] = madeBy[l].user

\* A sign-in under way that has withdrawn an account's links has left none.
TakingOver(r) ==
    /\ call[r].at \in {"cutting", "replacing"} /\ call[r].then # "nothing"
    /\ call[r].account \notin ByNameAlone
NoneLeft ==
    \A r \in Calls : TakingOver(r) =>
        \A l \in rows \ stray : madeBy[l].account # call[r].account

\* What a stream reads is its maker's.
ViewerKnown(r) ==
    LET l == call[r].link
    IN call[r].viewer = madeBy[l].user \/ l \in stray \cup kept \/ (l \notin rows /\ GoneKnown(r))
ViewersKnown ==
    \A r \in Calls : Registered(r) /\ ~call[r].aborted => ViewerKnown(r)

SharesInv ==
    ShareTypeOK /\ MadeFirst /\ StreamsHeld /\ Gone /\ MakersOwn /\ NoneLeft /\ ViewersKnown

-----------------------------------------------------------------------------
(* Types *)

\* A request that is typed has the parts its stage has.
LEMMA CallParts ==
    ASSUME ShareTypeOK, NEW r \in Calls
    PROVE  /\ CallAt(r, "resolved") => call[r].link \in Links /\ call[r].late \in BOOLEAN
           /\ Registered(r) => /\ call[r].link \in Links /\ call[r].late \in BOOLEAN
                               /\ call[r].aborted \in BOOLEAN /\ call[r].viewer \in Users
                               /\ [call[r] EXCEPT !.at = "opening"] \in Call
                               /\ [call[r] EXCEPT !.at = "streaming"] \in Call
           /\ CallAt(r, "asked") \/ CallAt(r, "counted") =>
                 /\ call[r].account \in Sharers /\ call[r].user \in Users
                 /\ [call[r] EXCEPT !.at = "counted"] \in Call
           /\ CallAt(r, "listed") \/ CallAt(r, "cutting") =>
                 /\ call[r].account \in Sharers /\ call[r].links \subseteq Links
                 /\ call[r].then \in Users \cup {"nothing"}
                 /\ [call[r] EXCEPT !.at = "cutting"] \in Call
           /\ CallAt(r, "replacing") => call[r].account \in Sharers /\ call[r].then \in Users
BY DEF ShareTypeOK, Call, CallAt, Registered

\* A link that has been made has its maker.
LEMMA Makers ==
    ASSUME ShareTypeOK, NEW l \in Made
    PROVE  l \in Links /\ madeBy[l] \in Maker /\ madeBy[l].account \in Sharers /\ madeBy[l].user \in Users
BY DEF ShareTypeOK, Made, Maker

\* What a request becomes changes no other.
LEMMA Becoming ==
    ASSUME ShareTypeOK, NEW r \in Calls, NEW new, CallBecomes(r, new)
    PROVE  call'[r] = new /\ \A q \in Calls \ {r} : call'[q] = call[q]
BY DEF ShareTypeOK, CallBecomes

\* Types hold at first, and every step keeps them.
LEMMA ShareTypesKept ==
    ASSUME ShareTypeOK, MadeFirst, [ShareNext]_shareVars
    PROVE  ShareTypeOK'
<1> USE DEF ShareTypeOK
<1>1. ASSUME NEW r \in Calls, Visiting(r)
      PROVE  ShareTypeOK'
  <2>1. ASSUME NEW l \in Links, ResolveShare(r, l)
        PROVE  ShareTypeOK'
    <3>1. [at |-> "resolved", link |-> l, late |-> FALSE] \in Call
      BY DEF Call
    <3>2. call' \in [Calls -> Call] /\ rows' \subseteq Links
      BY <2>1, <3>1 DEF ResolveShare, CallBecomes
    <3> QED
      BY <2>1, <3>2 DEF ResolveShare
  <2>2. ASSUME Unopened(r)
        PROVE  ShareTypeOK'
    BY <2>2 DEF Unopened, CallBecomes, Call, NoCall
  <2>3. ASSUME Hold(r)
        PROVE  ShareTypeOK'
    <3>1. call[r].link \in Made /\ call[r].late \in BOOLEAN
      BY <2>3, CallParts DEF Hold, MadeFirst, HasLink
    <3>2. user[madeBy[call[r].link].account] \in Users
      BY <3>1, Makers
    <3> QED
      BY <2>3, <3>1, <3>2, Makers DEF Hold, CallBecomes, Call, Registers
  <2>4. ASSUME CallEnds(r)
        PROVE  ShareTypeOK'
    BY <2>4 DEF CallEnds, CallBecomes, Call, NoCall
  <2>5. ASSUME Goes(r, "looking", "opening") \/ Goes(r, "opening", "streaming")
        PROVE  ShareTypeOK'
    BY <2>5, CallParts DEF Goes, CallBecomes, Registered, CallAt
  <2>6. ASSUME Breaks(r)
        PROVE  ShareTypeOK'
    <3>1. [call[r] EXCEPT !.at = "broken", !.aborted = @ \/ call[r].link \in expired] \in Call
      BY <2>6, ZenonT(40) DEF Breaks, CallAt, Call
    <3> QED
      BY <2>6, <3>1 DEF Breaks, CallBecomes
  <2> QED
    BY <1>1, <2>1, <2>2, <2>3, <2>4, <2>5, <2>6 DEF Visiting
<1>2. ASSUME NEW r \in Calls, Sharing(r)
      PROVE  ShareTypeOK'
  <2>1. ASSUME NEW a \in Sharers, Ask(r, a)
        PROVE  ShareTypeOK'
    BY <2>1 DEF Ask, CallBecomes, Call
  <2>2. ASSUME NEW due \in BOOLEAN, Count(r, due)
        PROVE  ShareTypeOK'
    <3>1. [call[r] EXCEPT !.at = "counted"] \in Call /\ NoCall \in Call
      BY <2>2, CallParts DEF Count, Call, NoCall
    <3> QED
      BY <2>2, <3>1 DEF Count, CallBecomes
  <2>3. ASSUME NEW l \in Links, Insert(r, l)
        PROVE  ShareTypeOK'
    <3>1. NoCall \in Call /\ [account |-> call[r].account, user |-> call[r].user] \in Maker
      BY <2>3, CallParts, ZenonT(40) DEF Insert, Call, NoCall, Maker
    <3> QED
      BY <2>3, <3>1 DEF Insert, CallBecomes
  <2>4. ASSUME NEW l \in Links, Revoke(r, l)
        PROVE  ShareTypeOK'
    <3>1. madeBy[l].account \in Sharers
      BY <2>4, Makers DEF Revoke, MadeFirst
    <3> QED
      BY <2>4, <3>1 DEF Revoke, CallBecomes, Call
  <2> QED
    BY <1>2, <2>1, <2>2, <2>3, <2>4 DEF Sharing
<1>3. ASSUME NEW r \in Calls, WithdrawingAll(r)
      PROVE  ShareTypeOK'
  <2>1. ASSUME NEW a \in Sharers, NEW then \in Users \cup {"nothing"}, List(r, a, then)
        PROVE  ShareTypeOK'
    BY <2>1 DEF List, CallBecomes, Call, LinksOf, Made
  <2>2. ASSUME Delete(r)
        PROVE  ShareTypeOK'
    BY <2>2, CallParts DEF Delete, CallBecomes, Withdrawn
  <2>3. ASSUME Cut(r)
        PROVE  ShareTypeOK'
    <3>1. ASSUME NEW q \in Calls
          PROVE  call'[q] \in Call
      <4>1. CASE q = r
        <5>1. /\ call[r].account \in Sharers
              /\ call[r].then = "nothing" \/ call[r].then \in Users
          BY <2>3, CallParts DEF Cut
        <5>2. NoCall \in Call
          BY DEF NoCall, Call
        <5>3. call[r].then \in Users =>
                 [at |-> "replacing", account |-> call[r].account, then |-> call[r].then] \in Call
          BY <5>1 DEF Call
        <5>4. call'[q] = IF call[r].then = "nothing" THEN NoCall
                         ELSE [at |-> "replacing", account |-> call[r].account,
                               then |-> call[r].then]
          BY <2>3, <4>1 DEF Cut
        <5> QED
          BY <5>1, <5>2, <5>3, <5>4
      <4>2. CASE q # r
        <5>1. CallAt(q, "resolved") => [call[q] EXCEPT !.late = TRUE] \in Call
          BY DEF CallAt, Call
        <5>2. Registered(q) => [call[q] EXCEPT !.aborted = TRUE] \in Call
          BY ZenonT(40) DEF Registered, Call
        <5> QED
          BY <2>3, <4>2, <5>1, <5>2 DEF Cut
      <4> QED
        BY <4>1, <4>2
    <3>2. call' \in [Calls -> Call]
      BY <2>3, <3>1 DEF Cut
    <3> QED
      BY <2>3, <3>2 DEF Cut
  <2>4. ASSUME Replace(r)
        PROVE  ShareTypeOK'
    BY <2>4, CallParts DEF Replace, CallBecomes, Call, NoCall, LinksOf, Made
  <2>5. ASSUME NEW a \in Sharers, NEW then \in Users, TakeOver(r, a, then)
        PROVE  ShareTypeOK'
    BY <2>5 DEF TakeOver, CallBecomes, Call
  <2> QED
    BY <1>3, <2>1, <2>2, <2>3, <2>4, <2>5 DEF WithdrawingAll
<1>4. ASSUME NEW l \in Links, Expire(l)
      PROVE  ShareTypeOK'
  BY <1>4 DEF Expire
<1> QED
  BY <1>1, <1>2, <1>3, <1>4 DEF ShareNext, shareVars

-----------------------------------------------------------------------------
(* What a step keeps *)

\* A link a request was cutting is still being cut, unless it is cut now.
LEMMA CutsGoOn ==
    ASSUME NEW r \in Calls, ~CallAt(r, "cutting"),
           \A q \in Calls \ {r} : call'[q] = call[q], NEW l, BeingCut(l)
    PROVE  BeingCut(l)'
BY DEF BeingCut, CallAt

\* Rows go when their links have expired, or are missed or being cut; rows that
\* come are of links not made before.
RowsMove ==
    /\ \A l \in rows : l \in rows' \/ l \in expired \/ l \in missed' \/ BeingCut(l)'
    /\ \A l \in rows' : l \in rows \/ l \notin Made
    /\ expired \subseteq expired' /\ missed \subseteq missed'
    /\ stray \subseteq stray' /\ kept \subseteq kept'
    /\ \A l \in Made : madeBy'[l] = madeBy[l]

\* Where a link has gone is still known, of a request the step leaves alone.
LEMMA StillKnown ==
    ASSUME SharesInv, RowsMove, NEW r \in Calls, ~CallAt(r, "cutting"),
           \A q \in Calls \ {r} : call'[q] = call[q],
           NEW q \in Calls \ {r}
    PROVE  /\ GoneKnown(q) => GoneKnown(q)'
           /\ Registered(q) /\ ViewerKnown(q) => ViewerKnown(q)'
<1>1. call'[q] = call[q]
  OBVIOUS
<1>2. GoneKnown(q) => GoneKnown(q)'
  BY <1>1, CutsGoOn DEF GoneKnown, RowsMove
<1>3. ASSUME Registered(q), ViewerKnown(q)
      PROVE  ViewerKnown(q)'
  <2>1. call[q].link \in Made
    BY <1>3 DEF SharesInv, MadeFirst, HasLink
  <2>2. madeBy'[call[q].link] = madeBy[call[q].link]
    BY <2>1 DEF RowsMove
  <2>3. call[q].link \notin rows => call[q].link \notin rows'
    BY <2>1 DEF RowsMove
  <2> QED
    BY <1>1, <1>2, <1>3, <2>2, <2>3 DEF ViewerKnown, RowsMove
<1> QED
  BY <1>2, <1>3

\* A step that moves one request keeps what concerns the others.
LEMMA OthersKept ==
    ASSUME SharesInv, RowsMove, NEW r \in Calls, ~CallAt(r, "cutting"),
           \A q \in Calls \ {r} : call'[q] = call[q],
           \A l \in Links : openStreams[l] \ {r} \subseteq openStreams'[l],
           rows' \subseteq Made', Made \subseteq Made',
           HasLink(r)' => /\ call'[r].link \in Made'
                          /\ CallAt(r, "resolved")' \/ ~call'[r].aborted => GoneKnown(r)',
           Registered(r)' /\ ~call'[r].aborted =>
               r \in openStreams'[call'[r].link] /\ ViewerKnown(r)'
    PROVE  MadeFirst' /\ StreamsHeld' /\ Gone' /\ ViewersKnown'
<1>1. \A q \in Calls \ {r} :
        /\ CallAt(q, "resolved")' = CallAt(q, "resolved") /\ Registered(q)' = Registered(q)
        /\ HasLink(q)' = HasLink(q)
  BY DEF CallAt, Registered, HasLink
<1>2. MadeFirst'
  BY <1>1 DEF SharesInv, MadeFirst
<1>3. StreamsHeld'
  <2>1. ASSUME NEW q \in Calls \ {r}, Registered(q)', ~call'[q].aborted
        PROVE  q \in openStreams'[call'[q].link]
    <3>1. call[q].link \in Links /\ q \in openStreams[call[q].link]
      BY <1>1, <2>1, CallParts DEF SharesInv, StreamsHeld
    <3> QED
      BY <3>1
  <2> QED
    BY <2>1 DEF StreamsHeld
<1>4. Gone'
  <2>1. ASSUME NEW q \in Calls \ {r}, CallAt(q, "resolved")' \/ (Registered(q)' /\ ~call'[q].aborted)
        PROVE  GoneKnown(q)'
    BY <1>1, <2>1, StillKnown DEF SharesInv, Gone
  <2> QED
    BY <2>1 DEF Gone, HasLink
<1>5. ViewersKnown'
  <2>1. ASSUME NEW q \in Calls \ {r}, Registered(q)', ~call'[q].aborted
        PROVE  ViewerKnown(q)'
    BY <1>1, <2>1, StillKnown DEF SharesInv, ViewersKnown
  <2> QED
    BY <2>1 DEF ViewersKnown
<1> QED
  BY <1>2, <1>3, <1>4, <1>5

\* A step that gives no account another user, adds no row but of a link that is
\* stray or its maker's, and takes no name over, keeps whose the rows are.
LEMMA MakersKept ==
    ASSUME SharesInv, RowsMove, user' = user, NEW r \in Calls,
           \A q \in Calls \ {r} : call'[q] = call[q],
           TakingOver(r)' => TakingOver(r) /\ call'[r].account = call[r].account,
           \A l \in rows' \ stray' : l \in rows /\ madeBy'[l] = madeBy[l]
    PROVE  MakersOwn' /\ NoneLeft'
<1>1. MakersOwn'
  BY DEF SharesInv, MakersOwn, RowsMove
<1>2. NoneLeft'
  <2>1. ASSUME NEW q \in Calls, TakingOver(q)', NEW l \in rows' \ stray'
        PROVE  madeBy'[l].account # call'[q].account
    <3>1. TakingOver(q) /\ call'[q].account = call[q].account
      BY <2>1 DEF TakingOver
    <3>2. l \in rows \ stray /\ madeBy'[l] = madeBy[l]
      BY <2>1 DEF RowsMove
    <3> QED
      BY <3>1, <3>2 DEF SharesInv, NoneLeft
  <2> QED
    BY <2>1 DEF NoneLeft
<1> QED
  BY <1>1, <1>2

-----------------------------------------------------------------------------
(* The invariant, step by step *)

LinkParts == MadeFirst /\ StreamsHeld /\ Gone /\ ViewersKnown
MakerParts == MakersOwn /\ NoneLeft

\* Steps of a visitor's request (share-media.ts).
LEMMA VisitorsKeep ==
    ASSUME SharesInv, NEW r \in Calls, Visiting(r)
    PROVE  LinkParts' /\ MakerParts'
<1> USE DEF LinkParts, MakerParts
<1>0. ShareTypeOK /\ ShareTypeOK'
  BY ShareTypesKept DEF SharesInv, ShareNext
<1>1. ASSUME NEW l \in Links, ResolveShare(r, l)
      PROVE  LinkParts' /\ MakerParts'
  <2>1. /\ ~CallAt(r, "cutting") /\ \A q \in Calls \ {r} : call'[q] = call[q]
        /\ Made' = Made /\ rows' \subseteq rows /\ ~TakingOver(r)'
    BY <1>0, <1>1, Becoming DEF ResolveShare, CallAt, Made, TakingOver, CallBecomes, ShareTypeOK
  <2>2. RowsMove
    BY <1>1 DEF ResolveShare, RowsMove
  <2>3. /\ rows' \subseteq Made'
        /\ HasLink(r)' => /\ call'[r].link \in Made' /\ GoneKnown(r)'
                          /\ ~Registered(r)'
    <3>1. CASE l \in expired
      BY <1>1, <2>1, <3>1 DEF ResolveShare, HasLink, Registered, CallAt, SharesInv, MadeFirst
    <3>2. CASE l \notin expired
      <4>1. call'[r] = [at |-> "resolved", link |-> l, late |-> FALSE] /\ rows' = rows
        BY <1>0, <1>1, <3>2, Becoming DEF ResolveShare
      <4> QED
        BY <1>1, <2>1, <4>1 DEF ResolveShare, HasLink, Registered, CallAt, GoneKnown,
                                SharesInv, MadeFirst
    <3> QED
      BY <3>1, <3>2
  <2>4. openStreams' = openStreams /\ user' = user /\ stray' = stray /\ madeBy' = madeBy
    BY <1>1 DEF ResolveShare
  <2>5. Registered(r)' => HasLink(r)'
    BY DEF HasLink
  <2>6. LinkParts'
    BY <2>1, <2>2, <2>3, <2>4, <2>5, OthersKept
  <2>7. MakerParts'
    BY <2>1, <2>2, <2>4, MakersKept
  <2> QED
    BY <2>6, <2>7
<1>2. ASSUME Unopened(r) \/ CallEnds(r)
      PROVE  LinkParts' /\ MakerParts'
  <2>1. /\ ~CallAt(r, "cutting") /\ \A q \in Calls \ {r} : call'[q] = call[q]
        /\ call'[r] = NoCall
    BY <1>0, <1>2, Becoming DEF Unopened, CallEnds, CallAt, Registered
  <2>2. Made' = Made /\ rows' = rows /\ user' = user /\ stray' = stray /\ RowsMove
    BY <1>2 DEF Unopened, CallEnds, Made, RowsMove
  <2>3. ~HasLink(r)' /\ ~Registered(r)' /\ ~TakingOver(r)'
    BY <2>1 DEF HasLink, CallAt, Registered, TakingOver, NoCall
  <2>4. \A l \in Links : openStreams[l] \ {r} \subseteq openStreams'[l]
    BY <1>0, <1>2 DEF Unopened, CallEnds, ShareTypeOK
  <2>5. LinkParts'
    BY <2>1, <2>2, <2>3, <2>4, OthersKept DEF SharesInv, MadeFirst
  <2>6. MakerParts'
    <3>1. madeBy' = madeBy
      BY <1>2 DEF Unopened, CallEnds
    <3> QED
      BY <2>1, <2>2, <2>3, <3>1, MakersKept
  <2> QED
    BY <2>5, <2>6
<1>3. ASSUME Hold(r)
      PROVE  LinkParts' /\ MakerParts'
  <2> DEFINE l == call[r].link
  <2>1. /\ ~CallAt(r, "cutting") /\ \A q \in Calls \ {r} : call'[q] = call[q]
        /\ call'[r] = [at |-> "looking", link |-> l, late |-> call[r].late,
                          viewer |-> user[madeBy[l].account], aborted |-> FALSE]
    BY <1>0, <1>3, Becoming DEF Hold, CallAt
  <2>2. Made' = Made /\ rows' = rows /\ user' = user /\ stray' = stray /\ RowsMove /\ madeBy' = madeBy
    BY <1>3 DEF Hold, Made, RowsMove
  <2>3. CallAt(r, "resolved") /\ l \in Made /\ l \in Links /\ GoneKnown(r)
    BY <1>0, <1>3, CallParts DEF Hold, SharesInv, MadeFirst, HasLink, Gone
  <2>4. GoneKnown(r)'
    BY <2>1, <2>2, <2>3, CutsGoOn DEF GoneKnown, RowsMove
  <2>5. ViewerKnown(r)'
    BY <2>1, <2>2, <2>3, <2>4 DEF ViewerKnown, SharesInv, MakersOwn, RowsMove
  <2>6. r \in openStreams'[l] /\ \A k \in Links : openStreams[k] \ {r} \subseteq openStreams'[k]
    BY <1>0, <1>3, <2>3 DEF Hold, Registers, ShareTypeOK
  <2>7. LinkParts'
    BY <2>1, <2>2, <2>3, <2>4, <2>5, <2>6, OthersKept DEF SharesInv, MadeFirst
  <2>8. MakerParts'
    BY <2>1, <2>2, MakersKept DEF TakingOver
  <2> QED
    BY <2>7, <2>8
<1>4. ASSUME Goes(r, "looking", "opening") \/ Goes(r, "opening", "streaming") \/ Breaks(r)
      PROVE  LinkParts' /\ MakerParts'
  <2>1. /\ Registered(r) /\ ~CallAt(r, "cutting") /\ \A q \in Calls \ {r} : call'[q] = call[q]
    BY <1>0, <1>4, Becoming DEF Goes, Breaks, CallAt, Registered
  <2>2. /\ call'[r].link = call[r].link /\ call'[r].late = call[r].late
        /\ call'[r].viewer = call[r].viewer
        /\ call'[r].at \in {"opening", "streaming", "broken"}
        /\ ~call'[r].aborted => ~call[r].aborted
    <3>1. CASE Goes(r, "looking", "opening") \/ Goes(r, "opening", "streaming")
      <4>1. PICK to \in {"opening", "streaming"} : call'[r] = [call[r] EXCEPT !.at = to]
        BY <1>0, <3>1, Becoming DEF Goes
      <4> QED
        BY <1>0, <2>1, <4>1 DEF ShareTypeOK, Call, Registered
    <3>2. CASE Breaks(r)
      <4>1. call'[r] = [call[r] EXCEPT !.at = "broken",
                                       !.aborted = @ \/ call[r].link \in expired]
        BY <1>0, <3>2, Becoming DEF Breaks
      <4> QED
        BY <1>0, <2>1, <4>1 DEF ShareTypeOK, Call, Registered
    <3> QED
      BY <1>4, <3>1, <3>2
  <2>3. /\ Made' = Made /\ rows' = rows /\ user' = user /\ stray' = stray /\ RowsMove
        /\ madeBy' = madeBy /\ openStreams' = openStreams
    BY <1>4 DEF Goes, Breaks, Made, RowsMove
  <2>4. call[r].link \in Made
    BY <2>1 DEF SharesInv, MadeFirst, HasLink
  <2>5. GoneKnown(r) => GoneKnown(r)'
    BY <2>1, <2>2, <2>3, CutsGoOn DEF GoneKnown, RowsMove
  <2>6. ViewerKnown(r) => ViewerKnown(r)'
    BY <2>2, <2>3, <2>5 DEF ViewerKnown, RowsMove
  <2>7. ~call'[r].aborted =>
            GoneKnown(r)' /\ ViewerKnown(r)' /\ r \in openStreams'[call'[r].link]
    BY <2>1, <2>2, <2>3, <2>5, <2>6 DEF SharesInv, Gone, ViewersKnown, StreamsHeld
  <2>8. ~CallAt(r, "resolved")'
    BY <2>2 DEF CallAt
  <2>9. LinkParts'
    BY <2>1, <2>2, <2>3, <2>4, <2>7, <2>8, OthersKept DEF SharesInv, MadeFirst
  <2>10. MakerParts'
    BY <2>1, <2>2, <2>3, MakersKept DEF TakingOver
  <2> QED
    BY <2>9, <2>10
<1> QED
  BY <1>1, <1>2, <1>3, <1>4 DEF Visiting

\* A request that comes to have no link keeps what concerns the others.
LEMMA LinklessKeep ==
    ASSUME SharesInv, RowsMove, NEW r \in Calls, ~CallAt(r, "cutting"), ~HasLink(r),
           \A q \in Calls \ {r} : call'[q] = call[q], ~HasLink(r)',
           openStreams' = openStreams, rows' \subseteq Made', Made \subseteq Made'
    PROVE  LinkParts'
<1>1. ~Registered(r)'
  BY DEF HasLink
<1> QED
  BY <1>1, OthersKept DEF LinkParts

\* Steps of a request that makes a link or withdraws one (shares.ts).
LEMMA SharersKeep ==
    ASSUME SharesInv, NEW r \in Calls, Sharing(r)
    PROVE  LinkParts' /\ MakerParts'
<1>0. ShareTypeOK /\ ShareTypeOK'
  BY ShareTypesKept DEF SharesInv, ShareNext
<1>1. ASSUME NEW a \in Sharers, Ask(r, a)
      PROVE  LinkParts' /\ MakerParts'
  <2>1. /\ ~CallAt(r, "cutting") /\ \A q \in Calls \ {r} : call'[q] = call[q]
        /\ call'[r] = [at |-> "asked", account |-> a, user |-> user[a]] /\ ~HasLink(r)
    BY <1>0, <1>1, Becoming DEF Ask, CallAt, HasLink, Registered
  <2>2. /\ Made' = Made /\ rows' = rows /\ user' = user /\ stray' = stray /\ RowsMove
        /\ madeBy' = madeBy /\ openStreams' = openStreams
    BY <1>1 DEF Ask, Made, RowsMove
  <2>3. ~HasLink(r)' /\ ~TakingOver(r)'
    BY <2>1 DEF HasLink, CallAt, Registered, TakingOver
  <2>4. LinkParts'
    <3>1. rows' \subseteq Made' /\ Made \subseteq Made'
      BY <2>1, <2>2, <2>3 DEF SharesInv, MadeFirst
    <3> QED
      BY <2>1, <2>2, <2>3, <3>1, LinklessKeep
  <2> QED
    BY <2>1, <2>2, <2>3, <2>4, MakersKept DEF MakerParts
<1>2. ASSUME NEW due \in BOOLEAN, Count(r, due)
      PROVE  LinkParts' /\ MakerParts'
  <2>1. /\ ~CallAt(r, "cutting") /\ ~HasLink(r) /\ \A q \in Calls \ {r} : call'[q] = call[q]
    BY <1>0, <1>2, Becoming DEF Count, CallAt, HasLink, Registered
  <2>2. call'[r].at \in {"counted", "idle"}
    <3>1. call'[r] = [call[r] EXCEPT !.at = "counted"] \/ call'[r] = NoCall
      BY <1>0, <1>2, Becoming DEF Count
    <3> QED
      BY <1>0, <1>2, <3>1 DEF ShareTypeOK, Call, Count, CallAt, NoCall
  <2>3. /\ Made' = Made /\ rows' \subseteq rows /\ user' = user /\ stray' = stray /\ RowsMove
        /\ madeBy' = madeBy /\ openStreams' = openStreams
    BY <1>2 DEF Count, Made, RowsMove
  <2>4. ~HasLink(r)' /\ ~TakingOver(r)'
    BY <2>2 DEF HasLink, CallAt, Registered, TakingOver
  <2>5. LinkParts'
    <3>1. rows' \subseteq Made' /\ Made \subseteq Made'
      BY <2>1, <2>3, <2>4 DEF SharesInv, MadeFirst
    <3> QED
      BY <2>1, <2>3, <2>4, <3>1, LinklessKeep
  <2> QED
    BY <2>1, <2>3, <2>4, <2>5, MakersKept DEF MakerParts
<1>3. ASSUME NEW l \in Links, Insert(r, l)
      PROVE  LinkParts' /\ MakerParts'
  <2> DEFINE a == call[r].account
             u == call[r].user
  <2>1. /\ ~CallAt(r, "cutting") /\ \A q \in Calls \ {r} : call'[q] = call[q]
        /\ call'[r] = NoCall /\ ~HasLink(r) /\ a \in Sharers /\ u \in Users
    BY <1>0, <1>3, Becoming, CallParts DEF Insert, CallAt, HasLink, Registered
  <2>2. madeBy'[l] = [account |-> a, user |-> u] /\ \A k \in Links \ {l} : madeBy'[k] = madeBy[k]
    BY <1>0, <1>3 DEF Insert, ShareTypeOK
  <2>3. /\ l \notin Made /\ Made' = Made \cup {l} /\ rows' = rows \cup {l} /\ user' = user
        /\ openStreams' = openStreams /\ stray \subseteq stray' /\ kept' = kept
        /\ l \in stray' \/ ~Replaces(a, u)
    <3>1. [account |-> a, user |-> u] # NotMade
      BY <2>1, SharesAssumption
    <3> QED
      BY <1>3, <2>2, <3>1 DEF Insert, Made
  <2>4. RowsMove
    BY <1>3, <2>2, <2>3 DEF Insert, RowsMove, Made
  <2>5. ~HasLink(r)' /\ ~TakingOver(r)'
    BY <2>1 DEF HasLink, CallAt, Registered, TakingOver, NoCall
  <2>6. LinkParts'
    <3>1. rows' \subseteq Made' /\ Made \subseteq Made'
      BY <2>1, <2>3, <2>4, <2>5 DEF SharesInv, MadeFirst
    <3> QED
      BY <2>1, <2>3, <2>4, <2>5, <3>1, LinklessKeep
  <2>7. MakersOwn'
    <3>1. ASSUME NEW k \in rows' \ (stray' \cup kept')
          PROVE  user'[madeBy'[k].account] = madeBy'[k].user
      <4>1. CASE k = l
        BY <2>2, <2>3, <3>1, <4>1 DEF Replaces
      <4>2. CASE k # l
        <5>1. k \in rows \ (stray \cup kept) /\ k \in Links
          BY <1>0, <2>3, <3>1, <4>2 DEF ShareTypeOK
        <5> QED
          BY <2>2, <2>3, <4>2, <5>1 DEF SharesInv, MakersOwn
      <4> QED
        BY <4>1, <4>2
    <3> QED
      BY <3>1 DEF MakersOwn
  <2>8. NoneLeft'
    <3>1. ASSUME NEW q \in Calls, TakingOver(q)', NEW k \in rows' \ stray'
          PROVE  madeBy'[k].account # call'[q].account
      <4>1. q # r /\ call'[q] = call[q] /\ TakingOver(q)
        BY <2>1, <2>5, <3>1 DEF TakingOver
      <4>2. CASE k = l
        BY <2>2, <2>3, <3>1, <4>1, <4>2 DEF Replaces, TakingOver
      <4>3. CASE k # l
        <5>1. k \in rows \ stray /\ k \in Links
          BY <1>0, <2>3, <3>1, <4>3 DEF ShareTypeOK
        <5> QED
          BY <2>2, <4>1, <4>3, <5>1 DEF SharesInv, NoneLeft
      <4> QED
        BY <4>2, <4>3
    <3> QED
      BY <3>1 DEF NoneLeft
  <2> QED
    BY <2>6, <2>7, <2>8 DEF MakerParts
<1>4. ASSUME NEW l \in Links, Revoke(r, l)
      PROVE  LinkParts' /\ MakerParts'
  <2>1. /\ ~CallAt(r, "cutting") /\ ~HasLink(r) /\ \A q \in Calls \ {r} : call'[q] = call[q]
        /\ call'[r] = [at |-> "cutting", account |-> madeBy[l].account, links |-> {l},
                          then |-> "nothing"]
    BY <1>0, <1>4, Becoming DEF Revoke, CallAt, HasLink, Registered
  <2>2. /\ Made' = Made /\ rows' = rows \ {l} /\ user' = user /\ stray' = stray
        /\ madeBy' = madeBy /\ openStreams' = openStreams /\ expired' = expired /\ missed' = missed
        /\ kept' = kept
    BY <1>4 DEF Revoke, Made
  <2>3. BeingCut(l)'
    BY <2>1 DEF BeingCut, CallAt
  <2>4. RowsMove
    BY <2>2, <2>3 DEF RowsMove
  <2>5. ~HasLink(r)' /\ ~TakingOver(r)'
    BY <2>1 DEF HasLink, CallAt, Registered, TakingOver
  <2>6. LinkParts'
    <3>1. rows' \subseteq Made' /\ Made \subseteq Made'
      BY <2>1, <2>2, <2>4, <2>5 DEF SharesInv, MadeFirst
    <3> QED
      BY <2>1, <2>2, <2>4, <2>5, <3>1, LinklessKeep
  <2> QED
    BY <2>1, <2>2, <2>4, <2>5, <2>6, MakersKept DEF MakerParts
<1> QED
  BY <1>1, <1>2, <1>3, <1>4 DEF Sharing

\* Steps of a withdrawal of all, by the sharer or by another's sign-in
\* (shares.ts, auth.ts).
LEMMA WithdrawersKeep ==
    ASSUME SharesInv, NEW r \in Calls, WithdrawingAll(r)
    PROVE  LinkParts' /\ MakerParts'
<1>0. ShareTypeOK /\ ShareTypeOK'
  BY ShareTypesKept DEF SharesInv, ShareNext
<1>1. ASSUME NEW a \in Sharers, NEW then \in Users \cup {"nothing"}, List(r, a, then)
      PROVE  LinkParts' /\ MakerParts'
  <2>1. /\ ~CallAt(r, "cutting") /\ ~HasLink(r) /\ \A q \in Calls \ {r} : call'[q] = call[q]
        /\ call'[r].at = "listed"
    BY <1>0, <1>1, Becoming DEF List, CallAt, HasLink, Registered
  <2>2. /\ Made' = Made /\ rows' = rows /\ user' = user /\ stray' = stray /\ RowsMove
        /\ madeBy' = madeBy /\ openStreams' = openStreams
    BY <1>1 DEF List, Made, RowsMove
  <2>3. ~HasLink(r)' /\ ~TakingOver(r)'
    BY <2>1 DEF HasLink, CallAt, Registered, TakingOver
  <2>4. LinkParts'
    <3>1. rows' \subseteq Made' /\ Made \subseteq Made'
      BY <2>1, <2>2, <2>3 DEF SharesInv, MadeFirst
    <3> QED
      BY <2>1, <2>2, <2>3, <3>1, LinklessKeep
  <2> QED
    BY <2>1, <2>2, <2>3, <2>4, MakersKept DEF MakerParts
<1>2. ASSUME Delete(r)
      PROVE  LinkParts' /\ MakerParts'
  <2> DEFINE a == call[r].account
  <2>1. /\ ~CallAt(r, "cutting") /\ ~HasLink(r) /\ \A q \in Calls \ {r} : call'[q] = call[q]
        /\ call'[r] = [call[r] EXCEPT !.at = "cutting"] /\ CallAt(r, "listed")
    BY <1>0, <1>2, Becoming DEF Delete, CallAt, HasLink, Registered
  <2>2. /\ call'[r].at = "cutting" /\ call'[r].links = call[r].links
        /\ call'[r].account = a /\ call'[r].then = call[r].then
    BY <1>0, <2>1 DEF ShareTypeOK, Call, CallAt
  <2>3. /\ Made' = Made /\ rows' = rows \ Withdrawn(a) /\ user' = user /\ stray' = stray
        /\ madeBy' = madeBy /\ openStreams' = openStreams /\ expired' = expired
        /\ missed' = missed \cup (Withdrawn(a) \ call[r].links) /\ kept' = kept
    BY <1>2 DEF Delete, Made
  <2>4. \A l \in call[r].links : BeingCut(l)'
    BY <2>2 DEF BeingCut, CallAt
  <2>5. RowsMove
    BY <2>3, <2>4 DEF RowsMove
  <2>6. ~HasLink(r)'
    BY <2>2 DEF HasLink, CallAt, Registered
  <2>7. LinkParts'
    <3>1. rows' \subseteq Made' /\ Made \subseteq Made'
      BY <2>1, <2>3, <2>5, <2>6 DEF SharesInv, MadeFirst
    <3> QED
      BY <2>1, <2>3, <2>5, <2>6, <3>1, LinklessKeep
  <2>8. MakersOwn'
    BY <2>3 DEF SharesInv, MakersOwn
  <2>9. NoneLeft'
    <3>1. ASSUME NEW q \in Calls, TakingOver(q)', NEW l \in rows' \ stray'
          PROVE  madeBy'[l].account # call'[q].account
      <4>1. CASE q = r
        BY <2>2, <2>3, <3>1, <4>1 DEF Withdrawn, LinksOf, SharesInv, MadeFirst
      <4>2. CASE q # r
        <5>1. TakingOver(q) /\ call'[q] = call[q] /\ l \in rows \ stray
          BY <2>1, <2>3, <3>1, <4>2 DEF TakingOver
        <5> QED
          BY <2>3, <5>1 DEF SharesInv, NoneLeft
      <4> QED
        BY <4>1, <4>2
    <3> QED
      BY <3>1 DEF NoneLeft
  <2> QED
    BY <2>7, <2>8, <2>9 DEF MakerParts
<1>3. ASSUME Cut(r)
      PROVE  LinkParts' /\ MakerParts'
  <2> DEFINE links == call[r].links
  <2>1. /\ CallAt(r, "cutting") /\ rows' = rows /\ user' = user /\ expired' = expired /\ madeBy' = madeBy
        /\ missed' = missed /\ stray' = stray /\ kept' = kept /\ Made' = Made
        /\ \A l \in Links \ links : openStreams'[l] = openStreams[l]
    BY <1>3 DEF Cut, Made
  <2>2. ~HasLink(r)' /\ (TakingOver(r)' => TakingOver(r) /\ call'[r].account = call[r].account)
    <3>1. call'[r] = IF call[r].then = "nothing" THEN NoCall
                     ELSE [at |-> "replacing", account |-> call[r].account,
                           then |-> call[r].then]
      BY <1>3 DEF Cut
    <3>2. CASE call[r].then = "nothing"
      BY <3>1, <3>2 DEF HasLink, CallAt, Registered, TakingOver, NoCall
    <3>3. CASE call[r].then # "nothing"
      BY <2>1, <3>1, <3>3 DEF HasLink, CallAt, Registered, TakingOver
    <3> QED
      BY <3>2, <3>3
  <2>3. ASSUME NEW q \in Calls \ {r}
        PROVE  /\ CallAt(q, "resolved")' = CallAt(q, "resolved") /\ Registered(q)' = Registered(q)
               /\ HasLink(q) => call'[q].link = call[q].link
               /\ HasLink(q) /\ call[q].late => call'[q].late
               /\ CallAt(q, "resolved") /\ call[q].link \in links => call'[q].late
               /\ Registered(q) => call'[q].viewer = call[q].viewer
               /\ Registered(q) /\ ~call'[q].aborted =>
                     ~call[q].aborted /\ (call[q].link \notin links
                                                \/ q \notin openStreams[call[q].link])
               /\ TakingOver(q)' => TakingOver(q) /\ call'[q].account = call[q].account
    <3>0. call[q] \in Call /\ q # r
      BY <1>0 DEF ShareTypeOK
    <3>1. CASE CallAt(q, "resolved") /\ call[q].link \in links
      <4>1. call'[q] = [call[q] EXCEPT !.late = TRUE]
        BY <1>3, <3>0, <3>1 DEF Cut
      <4> QED
        BY <3>0, <3>1, <4>1 DEF Call, CallAt, HasLink, Registered, TakingOver
    <3>2. CASE Registered(q) /\ call[q].link \in links /\ q \in openStreams[call[q].link]
      <4>1. call'[q] = [call[q] EXCEPT !.aborted = TRUE]
        BY <1>3, <3>0, <3>2 DEF Cut, CallAt, Registered
      <4> QED
        BY <3>0, <3>2, <4>1 DEF Call, CallAt, HasLink, Registered, TakingOver
    <3>3. CASE /\ ~(CallAt(q, "resolved") /\ call[q].link \in links)
               /\ ~(Registered(q) /\ call[q].link \in links /\ q \in openStreams[call[q].link])
      <4>1. call'[q] = call[q]
        BY <1>3, <3>0, <3>3 DEF Cut
      <4> QED
        BY <3>3, <4>1 DEF CallAt, HasLink, Registered, TakingOver
    <3> QED
      BY <3>1, <3>2, <3>3
  <2>4. ASSUME NEW l \in Links \ links, BeingCut(l)
        PROVE  BeingCut(l)'
    <3>1. PICK q \in Calls : CallAt(q, "cutting") /\ l \in call[q].links
      BY <2>4 DEF BeingCut
    <3>2. q # r
      BY <2>4, <3>1
    <3>3. call'[q] = call[q]
      BY <1>3, <3>1, <3>2 DEF Cut, CallAt, Registered
    <3> QED
      BY <3>1, <3>3 DEF BeingCut, CallAt
  <2>5. ASSUME NEW q \in Calls \ {r}, HasLink(q), CallAt(q, "resolved") \/ call[q].link \notin links
        PROVE  GoneKnown(q) => GoneKnown(q)'
    <3>1. call[q].link \in Links
      BY <1>0, <2>5, CallParts DEF HasLink
    <3> QED
      BY <2>1, <2>3, <2>4, <2>5, <3>1 DEF GoneKnown, HasLink
  <2>6. ASSUME NEW q \in Calls \ {r}, Registered(q), ~call'[q].aborted
        PROVE  ~call[q].aborted /\ call[q].link \notin links /\ call[q].link \in Links
    BY <1>0, <2>3, <2>6, CallParts DEF SharesInv, StreamsHeld
  <2>7. MadeFirst'
    BY <2>1, <2>2, <2>3 DEF SharesInv, MadeFirst, HasLink
  <2>8. StreamsHeld'
    <3>1. ASSUME NEW q \in Calls, Registered(q)', ~call'[q].aborted
          PROVE  q \in openStreams'[call'[q].link]
      <4>1. q \in Calls \ {r} /\ Registered(q)
        BY <2>2, <2>3, <3>1 DEF HasLink
      <4> QED
        BY <2>1, <2>3, <2>6, <3>1, <4>1 DEF SharesInv, StreamsHeld, HasLink
    <3> QED
      BY <3>1 DEF StreamsHeld
  <2>9. Gone'
    <3>1. ASSUME NEW q \in Calls, CallAt(q, "resolved")' \/ (Registered(q)' /\ ~call'[q].aborted)
          PROVE  GoneKnown(q)'
      <4>1. q \in Calls \ {r} /\ HasLink(q) /\ (CallAt(q, "resolved") \/ Registered(q))
        BY <2>2, <2>3, <3>1 DEF HasLink
      <4>2. CallAt(q, "resolved") \/ (Registered(q) /\ ~call[q].aborted /\ call[q].link \notin links)
        BY <2>3, <2>6, <3>1, <4>1
      <4> QED
        BY <2>5, <4>1, <4>2 DEF SharesInv, Gone
    <3> QED
      BY <3>1 DEF Gone
  <2>10. ViewersKnown'
    <3>1. ASSUME NEW q \in Calls, Registered(q)', ~call'[q].aborted
          PROVE  ViewerKnown(q)'
      <4>1. q \in Calls \ {r} /\ HasLink(q) /\ Registered(q)
        BY <2>2, <2>3, <3>1 DEF HasLink
      <4>2. ~call[q].aborted /\ call[q].link \notin links
        BY <2>6, <3>1, <4>1
      <4>3. ViewerKnown(q) /\ (GoneKnown(q) => GoneKnown(q)')
        BY <2>5, <4>1, <4>2 DEF SharesInv, ViewersKnown
      <4> QED
        BY <2>1, <2>3, <4>1, <4>3 DEF ViewerKnown
    <3> QED
      BY <3>1 DEF ViewersKnown
  <2>11. MakersOwn' /\ NoneLeft'
    <3>1. MakersOwn'
      BY <2>1 DEF SharesInv, MakersOwn
    <3>2. ASSUME NEW q \in Calls, TakingOver(q)'
          PROVE  TakingOver(q) /\ call'[q].account = call[q].account
      BY <2>2, <2>3, <3>2
    <3> QED
      BY <2>1, <3>1, <3>2 DEF SharesInv, NoneLeft
  <2> QED
    BY <2>7, <2>8, <2>9, <2>10, <2>11 DEF LinkParts, MakerParts
<1>4. ASSUME Replace(r)
      PROVE  LinkParts' /\ MakerParts'
  <2>1. /\ ~CallAt(r, "cutting") /\ ~HasLink(r) /\ \A q \in Calls \ {r} : call'[q] = call[q]
        /\ call'[r] = NoCall /\ CallAt(r, "replacing") /\ call[r].then \in Users
    BY <1>0, <1>4, Becoming, CallParts DEF Replace, CallAt, HasLink, Registered
  <2>2. /\ Made' = Made /\ rows' = rows /\ stray' = stray /\ kept \subseteq kept' /\ RowsMove
        /\ madeBy' = madeBy /\ openStreams' = openStreams
        /\ \A a \in Sharers \ {call[r].account} : user'[a] = user[a]
    BY <1>0, <1>4 DEF Replace, Made, RowsMove, ShareTypeOK
  <2>3. ~HasLink(r)' /\ ~TakingOver(r)'
    BY <2>1 DEF HasLink, CallAt, Registered, TakingOver, NoCall
  <2>4. LinkParts'
    <3>1. rows' \subseteq Made' /\ Made \subseteq Made'
      BY <2>1, <2>2, <2>3 DEF SharesInv, MadeFirst
    <3> QED
      BY <2>1, <2>2, <2>3, <3>1, LinklessKeep
  <2>5. MakersOwn'
    <3>1. ASSUME NEW l \in rows \ (stray \cup kept')
          PROVE  user'[madeBy[l].account] = madeBy[l].user
      <4>1. call[r].account \notin ByNameAlone => madeBy[l].account # call[r].account
        <5>1. call[r].account \notin ByNameAlone => TakingOver(r)
          BY <2>1, SharesAssumption DEF TakingOver, CallAt
        <5> QED
          BY <3>1, <5>1 DEF SharesInv, NoneLeft
      <4>2. madeBy[l].account # call[r].account
        BY <1>4, <3>1, <4>1 DEF Replace, LinksOf, SharesInv, MadeFirst
      <4>3. madeBy[l].account \in Sharers
        BY <1>0, <3>1, Makers DEF SharesInv, MadeFirst
      <4> QED
        BY <2>2, <3>1, <4>2, <4>3 DEF SharesInv, MakersOwn
    <3> QED
      BY <2>2, <3>1 DEF MakersOwn
  <2>6. NoneLeft'
    BY <2>1, <2>2, <2>3 DEF SharesInv, NoneLeft, TakingOver
  <2> QED
    BY <2>4, <2>5, <2>6 DEF MakerParts
<1>5. ASSUME NEW a \in Sharers, NEW then \in Users, TakeOver(r, a, then)
      PROVE  LinkParts' /\ MakerParts'
  <2>1. /\ ~CallAt(r, "cutting") /\ ~HasLink(r) /\ \A q \in Calls \ {r} : call'[q] = call[q]
        /\ call'[r] = [at |-> "replacing", account |-> a, then |-> then] /\ a \in ByNameAlone
    BY <1>0, <1>5, Becoming DEF TakeOver, CallAt, HasLink, Registered
  <2>2. /\ Made' = Made /\ rows' = rows /\ user' = user /\ stray' = stray /\ RowsMove
        /\ madeBy' = madeBy /\ openStreams' = openStreams
    BY <1>5 DEF TakeOver, Made, RowsMove
  <2>3. ~HasLink(r)' /\ ~TakingOver(r)'
    BY <2>1 DEF HasLink, CallAt, Registered, TakingOver
  <2>4. LinkParts'
    <3>1. rows' \subseteq Made' /\ Made \subseteq Made'
      BY <2>1, <2>2, <2>3 DEF SharesInv, MadeFirst
    <3> QED
      BY <2>1, <2>2, <2>3, <3>1, LinklessKeep
  <2> QED
    BY <2>1, <2>2, <2>3, <2>4, MakersKept DEF MakerParts
<1> QED
  BY <1>1, <1>2, <1>3, <1>4, <1>5 DEF WithdrawingAll

\* The invariant holds at first.
LEMMA SharesInit ==
    ASSUME ShareInit
    PROVE  SharesInv
<1>1. ShareTypeOK
  BY DEF ShareInit, ShareTypeOK, Call, NoCall
<1>2. \A r \in Calls : ~HasLink(r) /\ ~Registered(r) /\ ~TakingOver(r) /\ ~CallAt(r, "resolved")
  BY DEF ShareInit, NoCall, HasLink, Registered, TakingOver, CallAt
<1>3. rows = {}
  BY DEF ShareInit
<1> QED
  BY <1>1, <1>2, <1>3 DEF SharesInv, MadeFirst, StreamsHeld, Gone, MakersOwn, NoneLeft, ViewersKnown

\* Every step keeps it.
LEMMA SharesStep ==
    ASSUME SharesInv, [ShareNext]_shareVars
    PROVE  SharesInv'
<1>1. ShareTypeOK'
  BY ShareTypesKept DEF SharesInv
<1>2. ASSUME NEW l \in Links, Expire(l)
      PROVE  LinkParts' /\ MakerParts'
  <2>1. /\ rows' = rows /\ user' = user /\ openStreams' = openStreams /\ call' = call
        /\ madeBy' = madeBy /\ missed' = missed /\ stray' = stray /\ kept' = kept
        /\ expired \subseteq expired'
    BY <1>2 DEF Expire
  <2>2. /\ \A q \in Calls : GoneKnown(q) => GoneKnown(q)'
        /\ \A q \in Calls : ViewerKnown(q) => ViewerKnown(q)'
    BY <2>1 DEF GoneKnown, ViewerKnown, BeingCut, CallAt
  <2>3. MadeFirst' /\ StreamsHeld'
    BY <2>1 DEF SharesInv, MadeFirst, StreamsHeld, Made, HasLink, Registered, CallAt
  <2>4. Gone' /\ ViewersKnown'
    BY <2>1, <2>2 DEF SharesInv, Gone, ViewersKnown, Registered, CallAt
  <2>5. MakersOwn' /\ NoneLeft'
    BY <2>1 DEF SharesInv, MakersOwn, NoneLeft, TakingOver
  <2> QED
    BY <2>3, <2>4, <2>5 DEF LinkParts, MakerParts
<1>3. CASE UNCHANGED shareVars
  <2>1. /\ MadeFirst' /\ StreamsHeld' /\ MakersOwn' /\ NoneLeft'
    BY <1>3 DEF shareVars, SharesInv, MadeFirst, StreamsHeld, MakersOwn, NoneLeft, Made,
                HasLink, Registered, CallAt, TakingOver
  <2>2. Gone' /\ ViewersKnown'
    BY <1>3 DEF shareVars, SharesInv, Gone, ViewersKnown, GoneKnown, ViewerKnown, BeingCut,
                Registered, CallAt
  <2> QED
    BY <1>1, <2>1, <2>2 DEF SharesInv
<1>4. CASE ShareNext
  <2>1. LinkParts' /\ MakerParts'
    BY <1>2, <1>4, VisitorsKeep, SharersKeep, WithdrawersKeep DEF ShareNext
  <2> QED
    BY <1>1, <2>1 DEF SharesInv, LinkParts, MakerParts
<1> QED
  BY <1>3, <1>4

\* Every state is of its type (shares.ts, share-media.ts).
THEOREM SharesTypeCorrect == ShareSpec => []ShareTypeOK
<1>1. ShareInit => SharesInv
  BY SharesInit
<1>2. SharesInv /\ [ShareNext]_shareVars => SharesInv'
  BY SharesStep
<1>3. SharesInv => ShareTypeOK
  BY DEF SharesInv
<1> QED
  BY <1>1, <1>2, <1>3, PTL DEF ShareSpec

\* Nothing more passes through a link that has no row, of however many requests
\* and withdrawals, but for the cases DeadLinksSilent names (share-media.ts:46).
THEOREM DeadLinksStaySilent == ShareSpec => []DeadLinksSilent
<1>1. ShareInit => SharesInv
  BY SharesInit
<1>2. SharesInv /\ [ShareNext]_shareVars => SharesInv'
  BY SharesStep
<1>3. SharesInv => DeadLinksSilent
  BY DEF SharesInv, Gone, GoneKnown, DeadLinksSilent, Passes, Registered, CallAt
<1> QED
  BY <1>1, <1>2, <1>3, PTL DEF ShareSpec

\* A link reads the library of the user who made it, whoever takes the account's
\* name over and when, but for the cases OwnersLibrary names (auth.ts:228).
THEOREM LibrariesAreOwners == ShareSpec => []OwnersLibrary
<1>1. ShareInit => SharesInv
  BY SharesInit
<1>2. SharesInv /\ [ShareNext]_shareVars => SharesInv'
  BY SharesStep
<1>3. SharesInv => OwnersLibrary
  BY DEF SharesInv, ViewersKnown, ViewerKnown, GoneKnown, OwnersLibrary, Passes,
         Registered, CallAt
<1> QED
  BY <1>1, <1>2, <1>3, PTL DEF ShareSpec
=============================================================================
