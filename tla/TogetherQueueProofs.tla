------------------------- MODULE TogetherQueueProofs -------------------------
(***************************************************************************)
(* The queue of a party, whatever the number of members, songs, additions, *)
(* events and faults: it keeps its types, loses no addition, keeps what    *)
(* Additions promises, has each addition once, marks and takes out its own *)
(* additions alone, and keeps them in the order made.  First, what the     *)
(* operators of TogetherQueue that build the player's queue and the        *)
(* server's answers return.                                                *)
(***************************************************************************)
EXTENDS TogetherQueue, FiniteSetTheorems, SequenceTheorems, TLAPS

(***************************************************************************)
(* Positions counted without the ones gone: taking positions out of 1..n   *)
(* leaves n minus as many, and a position that stays moves down by the     *)
(* ones gone before it.                                                    *)
(***************************************************************************)

\* Positions of a queue are finitely many, and no more than it is long.
LEMMA GoneFinite ==
    ASSUME NEW n \in Nat, NEW gone \in SUBSET (1..n)
    PROVE  /\ IsFiniteSet(gone)
           /\ Cardinality(gone) \in 0..n
<1>1. IsFiniteSet(1..n) /\ Cardinality(1..n) = n
  BY FS_Interval
<1>2. IsFiniteSet(gone) /\ Cardinality(gone) <= n
  BY <1>1, FS_Subset
<1>3. Cardinality(gone) \in Nat
  BY <1>2, FS_CardinalityType
<1> QED
  BY <1>2, <1>3

\* A set of whole numbers within a..b has at most b - a + 1 of them.
LEMMA WithinInterval ==
    ASSUME NEW a \in Int, NEW b \in Int, a <= b + 1, NEW T \in SUBSET (a..b)
    PROVE  /\ IsFiniteSet(T)
           /\ Cardinality(T) \in Nat
           /\ Cardinality(T) <= b - a + 1
<1>1. IsFiniteSet(a..b) /\ Cardinality(a..b) = b - a + 1
  BY FS_Interval
<1>2. IsFiniteSet(T) /\ Cardinality(T) <= b - a + 1
  BY <1>1, FS_Subset
<1> QED
  BY <1>2, FS_CardinalityType

\* Two disjoint finite sets together.
LEMMA Disjoint ==
    ASSUME NEW S, NEW T, IsFiniteSet(S), IsFiniteSet(T), S \cap T = {}
    PROVE  Cardinality(S \cup T) = Cardinality(S) + Cardinality(T)
<1>1. Cardinality(S \cup T) = Cardinality(S) + Cardinality(T) - Cardinality({})
  BY FS_Union
<1>2. Cardinality({}) = 0 /\ Cardinality(S) \in Nat /\ Cardinality(T) \in Nat
  BY FS_EmptySet, FS_CardinalityType
<1> QED
  BY <1>1, <1>2

\* The positions gone before i and before a later j differ by those between.
LEMMA GoneBetween ==
    ASSUME NEW n \in Nat, NEW gone \in SUBSET (1..n),
           NEW i \in 1..n, NEW j \in 1..n, i < j
    PROVE  LET before(k) == Cardinality({g \in gone : g < k})
           IN  /\ before(i) \in Nat /\ before(j) \in Nat
               /\ before(i) <= before(j)
               /\ before(j) - before(i) <= j - i
               /\ i \notin gone => before(j) - before(i) <= j - i - 1
<1> DEFINE at(k) == {g \in gone : g < k}
           mid == {g \in gone : i <= g /\ g < j}
<1>1. /\ \A g \in at(j) : g \in at(i) \/ g \in mid
      /\ \A g \in at(i) : g \in at(j) /\ g \notin mid
      /\ \A g \in mid : g \in at(j) /\ g \in i..(j - 1)
  OBVIOUS
<1>2. at(j) = at(i) \cup mid /\ at(i) \cap mid = {} /\ mid \in SUBSET (i..(j - 1))
  <2> HIDE DEF at, mid
  <2> QED
    BY <1>1
<1>3. at(i) \in SUBSET (1..n) /\ at(j) \in SUBSET (1..n)
  OBVIOUS
<1>4. IsFiniteSet(at(i)) /\ Cardinality(at(i)) \in Nat /\ Cardinality(at(j)) \in Nat
  BY <1>3, GoneFinite
<1> HIDE DEF at, mid
<1>5. IsFiniteSet(mid) /\ Cardinality(mid) \in Nat /\ Cardinality(mid) <= j - i
  <2>1. i \in Int /\ j - 1 \in Int /\ i <= (j - 1) + 1
    OBVIOUS
  <2>2. IsFiniteSet(mid) /\ Cardinality(mid) \in Nat /\ Cardinality(mid) <= (j - 1) - i + 1
    BY <1>2, <2>1, WithinInterval
  <2> QED
    BY <2>2
<1>6. Cardinality(at(j)) = Cardinality(at(i)) + Cardinality(mid)
  BY <1>2, <1>4, <1>5, GoneFinite, <1>3, Disjoint
<1>7. ASSUME i \notin gone PROVE Cardinality(mid) <= j - i - 1
  <2>1. \A g \in mid : g \in (i + 1)..(j - 1)
    BY <1>7 DEF mid
  <2>2. mid \in SUBSET ((i + 1)..(j - 1))
    BY <2>1
  <2>3. i + 1 \in Int /\ j - 1 \in Int /\ i + 1 <= (j - 1) + 1
    OBVIOUS
  <2>4. Cardinality(mid) <= (j - 1) - (i + 1) + 1
    BY <2>2, <2>3, WithinInterval
  <2> QED
    BY <2>4, <1>5
<1>8. /\ Cardinality(at(i)) <= Cardinality(at(j))
      /\ Cardinality(at(j)) - Cardinality(at(i)) <= j - i
      /\ i \notin gone => Cardinality(at(j)) - Cardinality(at(i)) <= j - i - 1
  BY <1>4, <1>5, <1>6, <1>7
<1> QED
  BY <1>4, <1>8 DEF at

-----------------------------------------------------------------------------
(* Without: what is left of a queue *)

\* What is left of a queue is a queue, shorter by what was taken out.
LEMMA WithoutType ==
    ASSUME NEW S, NEW q \in Seq(S), NEW gone \in SUBSET (1..Len(q))
    PROVE  /\ Without(q, gone) \in Seq(S)
           /\ Len(Without(q, gone)) = Len(q) - Cardinality(gone)
           /\ Cardinality(gone) \in 0..Len(q)
<1> DEFINE size == Len(q) - Cardinality(gone)
           now(i) == i - Cardinality({j \in gone : j < i})
           past(n) == Cardinality({i \in gone : now(i) <= n})
<1>1. IsFiniteSet(gone) /\ Cardinality(gone) \in 0..Len(q) /\ size \in Nat
  BY GoneFinite
<1>2. ASSUME NEW n \in 1..size PROVE q[n + past(n)] \in S
  <2>1. {i \in gone : now(i) <= n} \in SUBSET gone
    OBVIOUS
  <2>2. past(n) \in Nat /\ past(n) <= Cardinality(gone)
    BY <1>1, <2>1, FS_Subset, FS_CardinalityType
  <2> HIDE DEF past
  <2>3. n + past(n) \in 1..Len(q)
    BY <1>1, <2>2
  <2> QED
    BY <2>3, ElementOfSeq
<1>3. Without(q, gone) = [n \in 1..size |-> q[n + past(n)]]
  BY DEF Without
<1> HIDE DEF past, size
<1> QED
  BY <1>1, <1>2, <1>3 DEF size

\* A position that stays moves to one that is found in it again.
LEMMA Moved ==
    ASSUME NEW n \in Nat, NEW gone \in SUBSET (1..n), NEW j \in 1..n, j \notin gone
    PROVE  LET before(k) == Cardinality({g \in gone : g < k})
               now(i) == i - before(i)
               past(l) == Cardinality({i \in gone : now(i) <= l})
           IN  /\ now(j) \in 1..(n - Cardinality(gone))
               /\ now(j) + past(now(j)) = j
<1> DEFINE before(k) == Cardinality({g \in gone : g < k})
           now(i) == i - before(i)
           past(l) == Cardinality({i \in gone : now(i) <= l})
           size == n - Cardinality(gone)
           first == {g \in gone : g < j}
           last == {g \in gone : j < g}
<1>2. n \in Nat /\ j \in Int
  OBVIOUS
<1>3. ASSUME NEW i \in gone PROVE now(i) <= now(j) <=> i < j
  <2> HIDE DEF before
  <2>0. i \in 1..n /\ i # j /\ before(j) \in Nat
    <3>1. {g \in gone : g < j} \in SUBSET (1..n)
      OBVIOUS
    <3> QED
      BY <1>2, <3>1, GoneFinite DEF before
  <2>1. CASE i < j
    <3>1. before(i) \in Nat /\ before(j) - before(i) <= j - i
      BY <1>2, <2>0, <2>1, GoneBetween DEF before
    <3> QED
      BY <2>0, <2>1, <3>1
  <2>2. CASE j < i
    <3>1. before(i) \in Nat /\ before(i) - before(j) <= i - j - 1
      BY <1>2, <2>0, <2>2, GoneBetween DEF before
    <3> QED
      BY <2>0, <2>2, <3>1
  <2> QED
    BY <2>0, <2>1, <2>2
<1>4. past(now(j)) = before(j)
  <2>1. \A i \in gone : now(i) <= now(j) <=> i < j
    BY <1>3
  <2> HIDE DEF now
  <2>2. {i \in gone : now(i) <= now(j)} = {g \in gone : g < j}
    BY <2>1
  <2> QED
    BY <2>2
<1>5. before(j) \in 0..(j - 1)
  <2>1. \A g \in first : g \in 1..(j - 1)
    OBVIOUS
  <2>2. first \in SUBSET (1..(j - 1))
    <3> HIDE DEF first
    <3> QED
      BY <2>1
  <2>3. 1 \in Int /\ j - 1 \in Int /\ 1 <= (j - 1) + 1
    OBVIOUS
  <2>4. Cardinality(first) \in Nat /\ Cardinality(first) <= (j - 1) - 1 + 1
    <3> HIDE DEF first
    <3> QED
      BY <2>2, <2>3, WithinInterval
  <2> QED
    BY <1>2, <2>4
<1>6. before(j) + Cardinality(last) = Cardinality(gone) /\ Cardinality(last) \in 0..(n - j)
  <2>1. /\ \A g \in gone : g \in first \/ g \in last
        /\ \A g \in first : g \in gone /\ g \notin last
        /\ \A g \in last : g \in gone /\ g \in (j + 1)..n
    OBVIOUS
  <2>2. gone = first \cup last /\ first \cap last = {} /\ last \in SUBSET ((j + 1)..n)
    <3> HIDE DEF first, last
    <3> QED
      BY <2>1
  <2>3. first \in SUBSET (1..n)
    BY <2>1
  <2>4. IsFiniteSet(last) /\ Cardinality(last) \in Nat /\ Cardinality(last) <= n - (j + 1) + 1
    <3>1. j + 1 \in Int /\ n \in Int /\ j + 1 <= n + 1
      OBVIOUS
    <3> HIDE DEF last
    <3> QED
      BY <3>1, <2>2, WithinInterval
  <2>5. IsFiniteSet(first)
    BY <1>2, <2>3, GoneFinite
  <2>6. Cardinality(gone) = Cardinality(first) + Cardinality(last)
    <3> HIDE DEF first, last
    <3> QED
      BY <2>2, <2>4, <2>5, Disjoint
  <2> QED
    BY <1>2, <2>4, <2>6
<1>7. now(j) \in 1..size /\ now(j) + past(now(j)) = j
  <2> HIDE DEF before, past
  <2> QED
    BY <1>2, <1>4, <1>5, <1>6
<1> QED
  BY <1>7

\* What is left of a queue is where `at` says: in the order it was, every track
\* not taken out among it, those before the first taken out in their place.
LEMMA WithoutAt ==
    ASSUME NEW S, NEW q \in Seq(S), NEW gone \in SUBSET (1..Len(q))
    PROVE  \E at \in [1..(Len(q) - Cardinality(gone)) -> 1..Len(q)] :
               /\ Without(q, gone) = [n \in DOMAIN at |-> q[at[n]]]
               /\ \A m, n \in DOMAIN at : m < n => at[m] < at[n]
               /\ \A j \in 1..Len(q) : j \in gone \/ \E n \in DOMAIN at : at[n] = j
               /\ \A j \in 1..Len(q) : (\A g \in gone : j < g) => j \in DOMAIN at /\ at[j] = j
<1> DEFINE size == Len(q) - Cardinality(gone)
           before(k) == Cardinality({g \in gone : g < k})
           now(i) == i - before(i)
           past(n) == Cardinality({i \in gone : now(i) <= n})
           at == [n \in 1..size |-> n + past(n)]
<1>1. IsFiniteSet(gone) /\ Cardinality(gone) \in 0..Len(q) /\ size \in Nat
  BY GoneFinite
<1>2. ASSUME NEW n \in 1..size PROVE past(n) \in Nat /\ n + past(n) \in 1..Len(q)
  <2>1. {i \in gone : now(i) <= n} \in SUBSET gone
    OBVIOUS
  <2>2. past(n) \in Nat /\ past(n) <= Cardinality(gone)
    BY <1>1, <2>1, FS_Subset, FS_CardinalityType
  <2> HIDE DEF past
  <2> QED
    BY <1>1, <2>2
<1>3. Without(q, gone) = [n \in 1..size |-> q[n + past(n)]]
  BY DEF Without
<1>4. ASSUME NEW m \in 1..size, NEW n \in 1..size, m < n PROVE past(m) <= past(n)
  <2>1. {i \in gone : now(i) <= n} \in SUBSET gone
    OBVIOUS
  <2>2. IsFiniteSet({i \in gone : now(i) <= n})
    BY <1>1, <2>1, FS_Subset
  <2>3. ASSUME NEW i \in gone, now(i) <= m PROVE now(i) <= n
    <3>1. {g \in gone : g < i} \in SUBSET (1..Len(q))
      OBVIOUS
    <3>2. before(i) \in Nat
      BY <3>1, GoneFinite
    <3>3. i \in Int
      OBVIOUS
    <3> HIDE DEF before
    <3> QED
      BY <1>1, <1>4, <2>3, <3>2, <3>3
  <2> HIDE DEF now
  <2>4. {i \in gone : now(i) <= m} \in SUBSET {i \in gone : now(i) <= n}
    BY <2>3
  <2> QED
    BY <2>2, <2>4, FS_Subset
<1>5. ASSUME NEW j \in 1..Len(q), j \notin gone PROVE \E n \in 1..size : n + past(n) = j
  <2>0. Len(q) \in Nat
    OBVIOUS
  <2>1. now(j) \in 1..size /\ now(j) + past(now(j)) = j
    BY <1>5, <2>0, Moved, ZenonT(30)
  <2> HIDE DEF now, past, size
  <2> QED
    BY <2>1
<1>6. ASSUME NEW j \in 1..Len(q), \A g \in gone : j < g PROVE j \in 1..size /\ past(j) = 0
  <2>0. Len(q) \in Nat /\ j \notin gone /\ \A g \in gone : ~(g < j)
    BY <1>6
  <2>1. now(j) \in 1..size /\ now(j) + past(now(j)) = j
    BY <2>0, Moved, ZenonT(30)
  <2>2. {g \in gone : g < j} = {}
    BY <2>0
  <2>3. before(j) = 0
    BY <2>2, FS_EmptySet
  <2>4. now(j) = j
    BY <2>3
  <2>5. past(j) \in Nat
    BY <1>2, <2>1, <2>4
  <2> HIDE DEF now, past, size
  <2> QED
    BY <2>1, <2>4, <2>5
<1> HIDE DEF past, size
<1>7. at \in [1..size -> 1..Len(q)] /\ DOMAIN at = 1..size
  BY <1>2
<1>8. Without(q, gone) = [n \in DOMAIN at |-> q[at[n]]]
  BY <1>3
<1>9. ASSUME NEW m \in 1..size, NEW n \in 1..size, m < n PROVE at[m] < at[n]
  <2>1. at[m] = m + past(m) /\ at[n] = n + past(n)
    OBVIOUS
  <2>2. past(m) <= past(n) /\ past(m) \in Nat /\ past(n) \in Nat /\ m \in Int /\ n \in Int
    BY <1>1, <1>2, <1>4, <1>9
  <2> HIDE DEF at
  <2> QED
    BY <1>9, <2>1, <2>2
<1>10. \A j \in 1..Len(q) : j \in gone \/ \E n \in 1..size : at[n] = j
  BY <1>5
<1>11. \A j \in 1..Len(q) : (\A g \in gone : j < g) => j \in 1..size /\ at[j] = j
  BY <1>6
<1> HIDE DEF at
<1> QED
  BY <1>7, <1>8, <1>9, <1>10, <1>11 DEF size

\* Every track that is not taken out is still there.
LEMMA WithoutKeeps ==
    ASSUME NEW S, NEW q \in Seq(S), NEW gone \in SUBSET (1..Len(q)),
           NEW j \in 1..Len(q), j \notin gone
    PROVE  \E n \in 1..Len(Without(q, gone)) : Without(q, gone)[n] = q[j]
<1>1. PICK at \in [1..(Len(q) - Cardinality(gone)) -> 1..Len(q)] :
          /\ Without(q, gone) = [n \in DOMAIN at |-> q[at[n]]]
          /\ \A k \in 1..Len(q) : k \in gone \/ \E n \in DOMAIN at : at[n] = k
  BY WithoutAt
<1>2. PICK n \in DOMAIN at : at[n] = j
  BY <1>1
<1>3. Without(q, gone)[n] = q[j] /\ n \in 1..(Len(q) - Cardinality(gone))
  BY <1>1, <1>2
<1>4. Len(Without(q, gone)) = Len(q) - Cardinality(gone)
  BY WithoutType
<1> QED
  BY <1>3, <1>4

\* A track's addition is still in the queue unless it was taken out.
LEMMA WithoutSrcs ==
    ASSUME NEW q \in Seq(Track), NEW gone \in SUBSET (1..Len(q))
    PROVE  SrcsOf(q) \subseteq SrcsOf(Without(q, gone)) \cup {q[i].src : i \in gone}
<1>1. SUFFICES ASSUME NEW j \in 1..Len(q), j \notin gone
               PROVE  q[j].src \in SrcsOf(Without(q, gone))
  BY DEF SrcsOf
<1>2. PICK n \in 1..Len(Without(q, gone)) : Without(q, gone)[n] = q[j]
  BY <1>1, WithoutKeeps
<1>3. Without(q, gone) \in Seq(Track)
  BY WithoutType
<1> QED
  BY <1>2, <1>3 DEF SrcsOf

-----------------------------------------------------------------------------
(* QueueAdditions: where additions go *)

\* The additions behind the current track end within the queue.
LEMMA RunEndType ==
    ASSUME NEW q \in Seq(Track), index \in 1..Len(q)
    PROVE  RunEnd(q) \in index..Len(q)
<1> DEFINE run == {n \in (index + 1)..Len(q) : \A i \in (index + 1)..n : q[i].by # 0}
<1>1. \A n \in run : n \in (index + 1)..Len(q)
  OBVIOUS
<1>2. index + 1 \in Int /\ Len(q) \in Int /\ index + 1 <= Len(q) + 1
  OBVIOUS
<1>3. RunEnd(q) = index + Cardinality(run)
  BY DEF RunEnd
<1> HIDE DEF run
<1>4. Cardinality(run) \in Nat /\ Cardinality(run) <= Len(q) - (index + 1) + 1
  <2>1. run \in SUBSET ((index + 1)..Len(q))
    BY <1>1
  <2> QED
    BY <2>1, <1>2, WithinInterval
<1> QED
  BY <1>2, <1>3, <1>4

\* The new tracks are in one piece, behind a track the queue has, and the ones
\* it had are in their order around them.
LEMMA QueueAdditionsAt ==
    ASSUME NEW q \in Seq(Track), NEW tracks \in Seq(Track),
           index \in 1..Max2(1, Len(q))
    PROVE  /\ QueueAdditions(q, tracks) \in Seq(Track)
           /\ Len(QueueAdditions(q, tracks)) = Len(q) + Len(tracks)
           /\ \E e \in 0..Len(q) :
                /\ e = IF q = <<>> THEN 0 ELSE RunEnd(q)
                /\ q # <<>> => index <= e
                /\ \A i \in 1..(Len(q) + Len(tracks)) :
                    QueueAdditions(q, tracks)[i] =
                        IF i <= e THEN q[i]
                        ELSE IF i <= e + Len(tracks) THEN tracks[i - e]
                        ELSE q[i - Len(tracks)]
<1>1. CASE q = <<>>
  <2>1. QueueAdditions(q, tracks) = tracks /\ Len(q) = 0 /\ Len(tracks) \in Nat
    BY <1>1 DEF QueueAdditions
  <2>2. \A i \in 1..Len(tracks) : i - 0 = i /\ ~(i <= 0) /\ i <= 0 + Len(tracks)
    BY <2>1
  <2>3. 0 \in 0..Len(q)
    BY <2>1
  <2> QED
    BY <1>1, <2>1, <2>2, <2>3
<1>2. CASE q # <<>>
  <2> DEFINE e == RunEnd(q)
             front == SubSeq(q, 1, e)
             back == SubSeq(q, e + 1, Len(q))
             begin == front \o tracks
             all == begin \o back
  <2>1. index \in 1..Len(q) /\ Len(q) \in Nat
    BY <1>2 DEF Max2
  <2>2. e \in 1..Len(q) /\ index <= e
    <3>1. e \in index..Len(q)
      BY <1>2, <2>1, RunEndType
    <3> QED
      BY <2>1, <3>1
  <2>3. QueueAdditions(q, tracks) = all
    BY <1>2 DEF QueueAdditions
  <2> HIDE DEF e
  <2>4. /\ front \in Seq(Track) /\ Len(front) = e
        /\ \A i \in 1..e : front[i] = q[i]
    BY <2>1, <2>2, SubSeqProperties
  <2>5. /\ back \in Seq(Track) /\ Len(back) = Len(q) - e
        /\ \A i \in 1..(Len(q) - e) : back[i] = q[e + i]
    BY <2>1, <2>2
  <2> HIDE DEF front, back
  <2>6. /\ begin \in Seq(Track) /\ Len(begin) = e + Len(tracks)
        /\ \A i \in 1..(e + Len(tracks)) :
                begin[i] = IF i <= e THEN q[i] ELSE tracks[i - e]
    <3>1. /\ begin \in Seq(Track)
          /\ Len(begin) = Len(front) + Len(tracks)
          /\ \A i \in 1..(Len(front) + Len(tracks)) :
                begin[i] = IF i <= Len(front) THEN front[i] ELSE tracks[i - Len(front)]
      BY <2>4, ConcatProperties, Zenon
    <3> HIDE DEF begin
    <3> QED
      BY <2>1, <2>2, <2>4, <3>1
  <2> HIDE DEF begin
  <2>7. /\ all \in Seq(Track) /\ Len(all) = Len(q) + Len(tracks)
        /\ \A i \in 1..Len(all) :
                all[i] = IF i <= e + Len(tracks) THEN begin[i] ELSE back[i - (e + Len(tracks))]
    <3>1. /\ all \in Seq(Track)
          /\ Len(all) = Len(begin) + Len(back)
          /\ \A i \in 1..(Len(begin) + Len(back)) :
                all[i] = IF i <= Len(begin) THEN begin[i] ELSE back[i - Len(begin)]
      BY <2>5, <2>6, ConcatProperties, Zenon
    <3> HIDE DEF all
    <3>2. Len(begin) + Len(back) = Len(q) + Len(tracks)
      BY <2>1, <2>2, <2>5, <2>6
    <3> QED
      BY <2>6, <3>1, <3>2
  <2>8. Len(tracks) \in Nat
    OBVIOUS
  <2> HIDE DEF all
  <2>9. ASSUME NEW i \in 1..(Len(q) + Len(tracks))
        PROVE  all[i] = IF i <= e THEN q[i]
                        ELSE IF i <= e + Len(tracks) THEN tracks[i - e] ELSE q[i - Len(tracks)]
    <3>1. CASE i <= e
      BY <2>1, <2>2, <2>6, <2>7, <2>8, <3>1
    <3>2. CASE e < i /\ i <= e + Len(tracks)
      BY <2>1, <2>2, <2>6, <2>7, <2>8, <3>2
    <3>3. CASE e + Len(tracks) < i
      <4>1. i - (e + Len(tracks)) \in 1..(Len(q) - e)
        BY <2>1, <2>2, <2>8, <3>3
      <4>2. all[i] = back[i - (e + Len(tracks))]
        BY <2>1, <2>2, <2>7, <2>8, <3>3
      <4>3. back[i - (e + Len(tracks))] = q[e + (i - (e + Len(tracks)))]
        BY <2>5, <4>1
      <4>4. e + (i - (e + Len(tracks))) = i - Len(tracks)
        BY <2>1, <2>2, <2>8
      <4> QED
        BY <2>1, <2>2, <2>8, <3>3, <4>2, <4>3, <4>4
    <3> QED
      BY <2>2, <2>8, <3>1, <3>2, <3>3
  <2>10. e \in 0..Len(q)
    BY <2>1, <2>2
  <2>11. e = IF q = <<>> THEN 0 ELSE RunEnd(q)
    BY <1>2 DEF e
  <2> QED
    BY <2>2, <2>3, <2>7, <2>9, <2>10, <2>11
<1> QED
  BY <1>1, <1>2

\* Each of the player's tracks is one it had or a new one.
LEMMA QueueAdditionsFrom ==
    ASSUME NEW q \in Seq(Track), NEW tracks \in Seq(Track), index \in 1..Max2(1, Len(q))
    PROVE  \A i \in 1..Len(QueueAdditions(q, tracks)) :
                \/ \E p \in 1..Len(q) : QueueAdditions(q, tracks)[i] = q[p]
                \/ \E p \in 1..Len(tracks) : QueueAdditions(q, tracks)[i] = tracks[p]
<1> DEFINE all == QueueAdditions(q, tracks)
<1>0. PICK e \in 0..Len(q) :
        \A i \in 1..(Len(q) + Len(tracks)) :
            all[i] = IF i <= e THEN q[i]
                     ELSE IF i <= e + Len(tracks) THEN tracks[i - e] ELSE q[i - Len(tracks)]
  BY QueueAdditionsAt
<1>1. /\ e \in 0..Len(q)
      /\ all \in Seq(Track)
      /\ Len(all) = Len(q) + Len(tracks)
      /\ \A i \in 1..(Len(q) + Len(tracks)) :
            all[i] = IF i <= e THEN q[i]
                     ELSE IF i <= e + Len(tracks) THEN tracks[i - e] ELSE q[i - Len(tracks)]
  BY <1>0, QueueAdditionsAt
<1>2. Len(q) \in Nat /\ Len(tracks) \in Nat /\ DOMAIN q = 1..Len(q) /\ DOMAIN tracks = 1..Len(tracks)
      /\ DOMAIN all = 1..Len(all)
  BY <1>1
<1> HIDE DEF all
<1>3. ASSUME NEW i \in 1..Len(all)
      PROVE  (\E p \in 1..Len(q) : all[i] = q[p]) \/ (\E p \in 1..Len(tracks) : all[i] = tracks[p])
  <2>1. CASE i <= e
    <3>1. i \in 1..Len(q) /\ all[i] = q[i]
      BY <1>1, <1>2, <2>1
    <3> QED
      BY <3>1
  <2>2. CASE e < i /\ i <= e + Len(tracks)
    <3>1. i - e \in 1..Len(tracks) /\ all[i] = tracks[i - e]
      BY <1>1, <1>2, <2>2
    <3> QED
      BY <3>1
  <2>3. CASE e + Len(tracks) < i
    <3>1. i - Len(tracks) \in 1..Len(q) /\ all[i] = q[i - Len(tracks)]
      BY <1>1, <1>2, <2>3
    <3> QED
      BY <3>1
  <2> QED
    BY <1>1, <1>2, <2>1, <2>2, <2>3
<1> QED
  BY <1>3 DEF all

\* The player has the tracks it had and the new ones, and no fewer before them.
LEMMA QueueAdditionsKeeps ==
    ASSUME NEW q \in Seq(Track), NEW tracks \in Seq(Track),
           index \in 1..Max2(1, Len(q))
    PROVE  /\ QueueAdditions(q, tracks) \in Seq(Track)
           /\ Len(QueueAdditions(q, tracks)) = Len(q) + Len(tracks)
           /\ SrcsOf(QueueAdditions(q, tracks)) = SrcsOf(q) \cup SrcsOf(tracks)
<1> DEFINE all == QueueAdditions(q, tracks)
<1>0. PICK e \in 0..Len(q) :
        \A i \in 1..(Len(q) + Len(tracks)) :
            all[i] = IF i <= e THEN q[i]
                     ELSE IF i <= e + Len(tracks) THEN tracks[i - e] ELSE q[i - Len(tracks)]
  BY QueueAdditionsAt
<1>1. /\ e \in 0..Len(q)
      /\ all \in Seq(Track)
      /\ Len(all) = Len(q) + Len(tracks)
      /\ \A i \in 1..(Len(q) + Len(tracks)) :
            all[i] = IF i <= e THEN q[i]
                     ELSE IF i <= e + Len(tracks) THEN tracks[i - e] ELSE q[i - Len(tracks)]
  BY <1>0, QueueAdditionsAt
<1>2. Len(q) \in Nat /\ Len(tracks) \in Nat /\ DOMAIN q = 1..Len(q) /\ DOMAIN tracks = 1..Len(tracks)
      /\ DOMAIN all = 1..Len(all)
  BY <1>1
<1> HIDE DEF all
<1>3. \A i \in 1..Len(all) : \/ \E p \in 1..Len(q) : all[i] = q[p]
                            \/ \E p \in 1..Len(tracks) : all[i] = tracks[p]
  BY QueueAdditionsFrom DEF all
<1>4. ASSUME NEW p \in 1..Len(q) PROVE \E i \in 1..Len(all) : all[i] = q[p]
  <2>1. CASE p <= e
    <3>1. p \in 1..Len(all) /\ all[p] = q[p]
      BY <1>1, <1>2, <2>1
    <3> QED
      BY <3>1
  <2>2. CASE e < p
    <3>1. p + Len(tracks) \in 1..Len(all)
      BY <1>1, <1>2, <2>2
    <3>2. /\ ~(p + Len(tracks) <= e) /\ ~(p + Len(tracks) <= e + Len(tracks))
          /\ (p + Len(tracks)) - Len(tracks) = p
      BY <1>1, <1>2, <2>2
    <3>3. all[p + Len(tracks)] = q[p]
      BY <1>1, <3>1, <3>2
    <3> QED
      BY <3>1, <3>3
  <2> QED
    BY <1>1, <1>2, <2>1, <2>2
<1>5. ASSUME NEW p \in 1..Len(tracks) PROVE \E i \in 1..Len(all) : all[i] = tracks[p]
  <2>1. e + p \in 1..Len(all) /\ ~(e + p <= e) /\ e + p <= e + Len(tracks) /\ (e + p) - e = p
    BY <1>1, <1>2
  <2>2. all[e + p] = tracks[p]
    BY <1>1, <2>1
  <2> QED
    BY <2>1, <2>2
<1>6. SrcsOf(all) = SrcsOf(q) \cup SrcsOf(tracks)
  <2>1. ASSUME NEW x \in SrcsOf(all) PROVE x \in SrcsOf(q) \cup SrcsOf(tracks)
    <3>1. PICK i \in 1..Len(all) : x = all[i].src
      BY <1>2 DEF SrcsOf
    <3> QED
      BY <1>2, <1>3, <3>1 DEF SrcsOf
  <2>2. ASSUME NEW x \in SrcsOf(q) PROVE x \in SrcsOf(all)
    <3>1. PICK p \in 1..Len(q) : x = q[p].src
      BY <1>2 DEF SrcsOf
    <3>2. PICK i \in 1..Len(all) : all[i] = q[p]
      BY <1>4
    <3> QED
      BY <1>2, <3>1, <3>2 DEF SrcsOf
  <2>3. ASSUME NEW x \in SrcsOf(tracks) PROVE x \in SrcsOf(all)
    <3>1. PICK p \in 1..Len(tracks) : x = tracks[p].src
      BY <1>2 DEF SrcsOf
    <3>2. PICK i \in 1..Len(all) : all[i] = tracks[p]
      BY <1>5
    <3> QED
      BY <1>2, <3>1, <3>2 DEF SrcsOf
  <2> QED
    BY <2>1, <2>2, <2>3
<1> QED
  BY <1>1, <1>6 DEF all

-----------------------------------------------------------------------------
(* The server's answers, and the marks they leave *)

\* An answer has one number per reported track (reportQueue).
LEMMA FoundType ==
    ASSUME NEW songs \in Seq(Songs), NEW from \in SUBSET Nat
    PROVE  Found(songs, from) \in Seq(Nat) /\ Len(Found(songs, from)) = Len(songs)
<1> DEFINE same(i) == {k \in from : made[k].song = songs[i]}
           nth(i) == Cardinality({j \in 1..i : songs[j] = songs[i]})
           its(i, k) == Cardinality({l \in same(i) : l <= k}) = nth(i)
           value(i) == IF \E k \in same(i) : its(i, k)
                       THEN CHOOSE k \in same(i) : its(i, k) ELSE 0
<1>1. Found(songs, from) = [i \in DOMAIN songs |-> value(i)]
  BY DEF Found
<1>2. ASSUME NEW i \in 1..Len(songs) PROVE value(i) \in Nat
  <2>1. same(i) \subseteq Nat
    OBVIOUS
  <2> HIDE DEF same, its
  <2> QED
    BY <2>1
<1> HIDE DEF value
<1> QED
  BY <1>1, <1>2

\* Naming tracks changes no track's addition, nor how many there are.
LEMMA MarkedKeeps ==
    ASSUME NEW q \in Seq(Track), post \in Post, Len(post.answer) = Len(post.tracks)
    PROVE  /\ Marked(q) \in Seq(Track)
           /\ Len(Marked(q)) = Len(q)
           /\ \A i \in 1..Len(q) : Marked(q)[i].src = q[i].src
           /\ SrcsOf(Marked(q)) = SrcsOf(q)
<1> DEFINE at(i) == {j \in DOMAIN post.tracks : /\ post.tracks[j].src = q[i].src
                                                /\ post.tracks[j].page = q[i].page}
           track(i) == IF at(i) = {} THEN q[i]
                       ELSE [q[i] EXCEPT !.by = post.answer[CHOOSE j \in at(i) : TRUE]]
<1>1. Marked(q) = [i \in DOMAIN q |-> track(i)]
  BY DEF Marked
<1>2. post.tracks \in Seq(Track) /\ post.answer \in Seq(Nat)
  BY DEF Post
<1>3. ASSUME NEW i \in 1..Len(q) PROVE track(i) \in Track /\ track(i).src = q[i].src
  <2>1. q[i] \in Track
    OBVIOUS
  <2>2. CASE at(i) = {}
    BY <2>1, <2>2
  <2>3. CASE at(i) # {}
    <3>1. at(i) \subseteq 1..Len(post.answer)
      BY <1>2
    <3> DEFINE j == CHOOSE j \in at(i) : TRUE
    <3>2. j \in at(i)
      BY <2>3
    <3>3. track(i) = [q[i] EXCEPT !.by = post.answer[j]]
      BY <2>3
    <3> HIDE DEF j, at, track
    <3>4. post.answer[j] \in Nat
      BY <1>2, <3>1, <3>2
    <3> QED
      BY <2>1, <3>3, <3>4 DEF Track
  <2> QED
    BY <2>2, <2>3
<1> HIDE DEF track
<1>4. Marked(q) \in Seq(Track) /\ Len(Marked(q)) = Len(q)
  BY <1>1, <1>3
<1>5. \A i \in 1..Len(q) : Marked(q)[i].src = q[i].src
  BY <1>1, <1>3
<1> HIDE DEF at
<1>6. SrcsOf(Marked(q)) = SrcsOf(q)
  <2>1. \A x \in SrcsOf(Marked(q)) : x \in SrcsOf(q)
    BY <1>4, <1>5 DEF SrcsOf
  <2>2. \A x \in SrcsOf(q) : x \in SrcsOf(Marked(q))
    BY <1>4, <1>5 DEF SrcsOf
  <2> QED
    BY <2>1, <2>2
<1> QED
  BY <1>4, <1>5, <1>6

\* Oldest first, the last is the newest.
LEMMA OldestFirstOrdered ==
    ASSUME NEW S \in SUBSET Nat, IsFiniteSet(S), NEW f \in OldestFirst(S)
    PROVE  /\ f \in Seq(S)
           /\ \A i, j \in 1..Len(f) : i < j => f[i] < f[j]
           /\ \A k \in S : \E i \in 1..Len(f) : f[i] = k
           /\ f # <<>> => f[Len(f)] \in S /\ \A k \in S : k <= f[Len(f)]
<1> DEFINE n == Cardinality(S)
<1>1. n \in Nat
  BY FS_CardinalityType
<1>2. /\ f \in [1..n -> S]
      /\ S = {f[i] : i \in DOMAIN f}
      /\ \A i, j \in DOMAIN f : i < j => f[i] < f[j]
  BY DEF OldestFirst
<1> HIDE DEF n
<1>3. f \in Seq(S) /\ Len(f) = n /\ DOMAIN f = 1..n
  BY <1>1, <1>2
<1>4. \A k \in S : \E i \in 1..n : f[i] = k
  BY <1>2, <1>3
<1>5. ASSUME f # <<>> PROVE f[n] \in S /\ \A k \in S : k <= f[n]
  <2>1. n \in 1..n
    BY <1>1, <1>3, <1>5
  <2>2. ASSUME NEW i \in 1..n PROVE f[i] <= f[n]
    <3>1. f[i] \in S /\ f[n] \in S
      BY <1>2, <2>1
    <3>2. i < n \/ i = n
      BY <1>1
    <3>3. i < n => f[i] < f[n]
      BY <1>2, <1>3, <2>1
    <3>4. f[i] \in Nat /\ f[n] \in Nat
      BY <3>1
    <3> QED
      BY <3>2, <3>3, <3>4
  <2> QED
    BY <1>3, <1>4, <2>1, <2>2
<1> QED
  BY <1>2, <1>3, <1>4, <1>5

-----------------------------------------------------------------------------
(* A report, and a step of #work *)

\* A report leaves a request under way, with what it reports, or none.
LEMMA ReportKeeps ==
    ASSUME NEW q \in Seq(Track), index \in Nat, NEW upTo \in Nat,
           NEW last \in Signature \cup {NotReported},
           NEW always \in BOOLEAN, NEW step \in {"naming", "closing"},
           Report(q, upTo, last, always, step)
    PROVE  /\ post' \in Post
           /\ post'.state \in {"none", "sent"} /\ post'.applied \in {0, upTo}
           /\ reported' \in Signature \cup {NotReported}
           /\ doing' \in {"idle", step}
           /\ doing' = "idle" <=> post'.state = "none"
           /\ always => doing' = step
<1> DEFINE rest == Upcoming(q)
<1>1. rest \in Seq(Track)
  <2>1. \A i \in (index + 1)..Len(q) : q[i] \in Track
    OBVIOUS
  <2> QED
    BY <2>1, SubSeqProperties DEF Upcoming
<1> HIDE DEF rest
<1>2. SongsOf(rest) \in Seq(Songs)
  <2>1. \A i \in 1..Len(rest) : rest[i].song \in Songs
    <3>1. \A i \in 1..Len(rest) : rest[i] \in Track
      BY <1>1
    <3> QED
      BY <3>1 DEF Track
  <2> QED
    BY <1>1, <2>1 DEF SongsOf
<1> DEFINE signature == [applied |-> upTo, songs |-> SongsOf(rest)]
<1>3. signature \in Signature
  BY <1>2 DEF Signature
<1>4. \/ /\ ~always /\ post' = NoPost /\ reported' = last /\ doing' = "idle"
      \/ /\ post' = [state |-> "sent", applied |-> upTo, tracks |-> rest, answer |-> <<>>]
         /\ reported' = signature
         /\ doing' = step
  BY DEF Report, rest
<1> HIDE DEF signature
<1>5. CASE /\ ~always /\ post' = NoPost /\ reported' = last /\ doing' = "idle"
  <2>1. NoPost \in Post /\ NoPost.state = "none" /\ NoPost.applied = 0
    BY DEF NoPost, Post
  <2> QED
    BY <1>5, <2>1
<1>6. CASE /\ post' = [state |-> "sent", applied |-> upTo, tracks |-> rest, answer |-> <<>>]
           /\ reported' = signature
           /\ doing' = step
  <2>1. post' \in Post
    BY <1>1, <1>6 DEF Post
  <2> QED
    BY <1>3, <1>6, <2>1
<1> QED
  BY <1>4, <1>5, <1>6

\* What #drop takes out is still to play, so the player stays where it is.
LEMMA DropsKept ==
    ASSUME NEW q \in Seq(Track), index \in 1..Max2(1, Len(q)), NEW entries
    PROVE  LET gone == DropsAt(q, entries)
               kept == Without(q, gone)
           IN  /\ gone \in SUBSET (1..Len(q))
               /\ kept \in Seq(Track) /\ index \in 1..Max2(1, Len(kept))
<1> DEFINE gone == DropsAt(q, entries)
           kept == Without(q, gone)
<1>1. gone \in SUBSET ((index + 1)..Len(q)) /\ gone \in SUBSET (1..Len(q))
  <2>1. \A i \in gone : i \in (index + 1)..Len(q) /\ i \in 1..Len(q)
    BY DEF DropsAt
  <2> HIDE DEF gone
  <2> QED
    BY <2>1
<1> HIDE DEF gone
<1>2. kept \in Seq(Track) /\ Len(kept) = Len(q) - Cardinality(gone)
      /\ Cardinality(gone) \in 0..Len(q)
  BY <1>1, WithoutType
<1>3. CASE q = <<>>
  <2> HIDE DEF kept
  <2>1. Len(kept) = 0 /\ index \in 1..1
    BY <1>2, <1>3 DEF Max2
  <2>2. index \in 1..Max2(1, Len(kept))
    BY <2>1 DEF Max2
  <2> QED
    BY <1>1, <1>2, <2>2 DEF gone, kept
<1>4. CASE q # <<>>
  <2>1. index \in 1..Len(q) /\ Len(q) \in Nat
    BY <1>4 DEF Max2
  <2>2. index + 1 \in Int /\ Len(q) \in Int /\ index + 1 <= Len(q) + 1
    BY <2>1
  <2>3. Cardinality(gone) <= Len(q) - (index + 1) + 1
    BY <1>1, <2>2, WithinInterval
  <2> HIDE DEF kept
  <2>4. index <= Len(kept) /\ Len(kept) \in Nat
    BY <1>2, <2>1, <2>3
  <2>5. index \in 1..Max2(1, Len(kept))
    BY <2>1, <2>4 DEF Max2
  <2> QED
    BY <1>1, <1>2, <2>5 DEF gone, kept
<1> QED
  BY <1>3, <1>4 DEF gone

\* What is taken of an event: additions made and not taken yet, oldest first.
LEMMA TakesInTurn ==
    ASSUME made \in Seq([song : Songs, member : Members]), taken \in 0..seq, loads \in Nat,
           NEW event \in Event, event.waiting \subseteq 1..seq,
           NEW new \in OldestFirst(NotTaken(event))
    PROVE  LET tracks == [n \in DOMAIN new |-> Addition(new[n])]
           IN  /\ NotTaken(event) \in SUBSET (1..seq)
               /\ \A k \in event.waiting : k <= taken \/ k \in NotTaken(event)
               /\ new \in Seq(NotTaken(event))
               /\ \A i, j \in 1..Len(new) : i < j => new[i] < new[j]
               /\ \A k \in NotTaken(event) : \E i \in 1..Len(new) : new[i] = k
               /\ new # <<>> => /\ new[Len(new)] \in NotTaken(event)
                                /\ \A k \in NotTaken(event) : k <= new[Len(new)]
               /\ tracks \in Seq(Track) /\ Len(tracks) = Len(new)
               /\ \A i \in 1..Len(new) : /\ tracks[i] = Addition(new[i])
                                         /\ tracks[i].src = new[i]
<1> DEFINE tracks == [n \in DOMAIN new |-> Addition(new[n])]
<1>1. /\ NotTaken(event) \in SUBSET (1..seq)
      /\ \A k \in NotTaken(event) : k \in event.waiting /\ taken < k
      /\ \A k \in event.waiting : k <= taken \/ k \in NotTaken(event)
  BY DEF NotTaken, Event
<1>2. seq \in Nat /\ IsFiniteSet(NotTaken(event)) /\ NotTaken(event) \in SUBSET Nat
  BY <1>1, GoneFinite DEF seq
<1>3. /\ new \in Seq(NotTaken(event))
      /\ \A k \in NotTaken(event) : \E i \in 1..Len(new) : new[i] = k
      /\ new # <<>> => /\ new[Len(new)] \in NotTaken(event)
                       /\ \A k \in NotTaken(event) : k <= new[Len(new)]
  BY <1>2, OldestFirstOrdered
<1>4. \A i, j \in 1..Len(new) : i < j => new[i] < new[j]
  BY <1>2, OldestFirstOrdered
<1>5. \A k \in NotTaken(event) : Addition(k) \in Track /\ Addition(k).src = k
  <2>1. ASSUME NEW k \in 1..seq PROVE made[k].song \in Songs
    <3>1. made[k] \in [song : Songs, member : Members]
      BY ElementOfSeq DEF seq
    <3> QED
      BY <3>1
  <2> QED
    BY <1>1, <1>2, <2>1 DEF Addition, Track
<1>6. /\ tracks \in Seq(Track) /\ Len(tracks) = Len(new)
      /\ \A i \in 1..Len(new) : tracks[i] = Addition(new[i]) /\ tracks[i].src = new[i]
  <2>1. DOMAIN new = 1..Len(new) /\ Len(new) \in Nat
    BY <1>3
  <2>2. \A i \in 1..Len(new) : new[i] \in NotTaken(event)
    BY <1>3
  <2>3. \A i \in 1..Len(new) : Addition(new[i]) \in Track /\ Addition(new[i]).src = new[i]
    BY <1>5, <2>2
  <2>4. tracks = [i \in 1..Len(new) |-> Addition(new[i])]
    BY <2>1
  <2> HIDE DEF tracks
  <2>5. tracks \in Seq(Track) /\ Len(tracks) = Len(new)
    BY <2>1, <2>3, <2>4
  <2>6. \A i \in 1..Len(new) : tracks[i] = Addition(new[i])
    BY <2>4
  <2> QED
    BY <2>3, <2>5, <2>6
<1> HIDE DEF tracks
<1>7. /\ NotTaken(event) \in SUBSET (1..seq)
      /\ \A k \in event.waiting : k <= taken \/ k \in NotTaken(event)
  BY <1>1
<1> QED
  BY <1>3, <1>4, <1>6, <1>7 DEF tracks

\* A step takes what it is offered and has not taken before, and takes out
\* what it is told to: nothing else leaves the queue.
LEMMA HandleKeeps ==
    ASSUME NEW q \in Seq(Track), index \in 1..Max2(1, Len(q)),
           made \in Seq([song : Songs, member : Members]),
           taken \in 0..seq, loads \in Nat,
           struck \subseteq Nat \X Int,
           NEW event \in Event, event.waiting \subseteq 1..seq,
           NEW last \in Signature \cup {NotReported},
           Handle(q, event, last)
    PROVE  /\ queue' \in Seq(Track) /\ index \in 1..Max2(1, Len(queue'))
           /\ taken' \in 0..seq /\ taken <= taken'
           /\ taken' = taken \/ taken' \in event.waiting
           /\ \A k \in event.waiting : k <= taken \/ (k <= taken' /\ k \in SrcsOf(queue'))
           /\ SrcsOf(q) \subseteq SrcsOf(queue') \cup TakenBack'
           /\ TakenBack \subseteq TakenBack'
           /\ skipped \subseteq skipped' \cup SrcsOf(queue') /\ skipped' \subseteq skipped
           /\ struck' \subseteq Nat \X Int
           /\ post' \in Post
           /\ post'.state \in {"none", "sent"} /\ post'.applied \in {0, taken'}
           /\ reported' \in Signature \cup {NotReported}
           /\ doing' \in {"idle", "closing"}
           /\ doing' = "idle" <=> post'.state = "none"
<1> DEFINE gone == DropsAt(q, event.withdrawn)
           kept == Without(q, gone)
           tracks(new) == [n \in DOMAIN new |-> Addition(new[n])]
<1>1. PICK new \in OldestFirst(NotTaken(event)) :
          /\ queue' = QueueAdditions(kept, tracks(new))
          /\ taken' = IF new = <<>> THEN taken ELSE new[Len(new)]
          /\ Report(queue', taken', last, FALSE, "closing")
          /\ struck' = struck \cup {<<q[i].by, q[i].src>> : i \in gone}
          /\ skipped' = skipped \ NotTaken(event)
  BY DEF Handle
<1>2. gone \in SUBSET (1..Len(q)) /\ kept \in Seq(Track) /\ index \in 1..Max2(1, Len(kept))
  BY DropsKept
<1>3. SrcsOf(q) \subseteq SrcsOf(kept) \cup {q[i].src : i \in gone}
  BY <1>2, WithoutSrcs
<1> HIDE DEF gone
<1>4. seq \in Nat
  BY DEF seq
<1>5. /\ NotTaken(event) \in SUBSET (1..seq)
      /\ \A k \in event.waiting : k <= taken \/ k \in NotTaken(event)
      /\ new \in Seq(NotTaken(event))
      /\ \A k \in NotTaken(event) : \E i \in 1..Len(new) : new[i] = k
      /\ new # <<>> => /\ new[Len(new)] \in NotTaken(event)
                       /\ \A k \in NotTaken(event) : k <= new[Len(new)]
      /\ tracks(new) \in Seq(Track) /\ Len(tracks(new)) = Len(new)
      /\ \A i \in 1..Len(new) : tracks(new)[i].src = new[i]
  BY TakesInTurn
<1>6. \A k \in NotTaken(event) : k \in event.waiting /\ taken < k
  BY <1>4, <1>5 DEF NotTaken
<1> HIDE DEF kept, tracks
<1>7. /\ queue' \in Seq(Track)
       /\ Len(queue') = Len(kept) + Len(tracks(new))
       /\ SrcsOf(queue') = SrcsOf(kept) \cup SrcsOf(tracks(new))
  BY <1>1, <1>2, <1>5, QueueAdditionsKeeps
<1>8. index \in 1..Max2(1, Len(queue'))
  BY <1>2, <1>5, <1>7 DEF Max2
<1>9. NotTaken(event) \subseteq SrcsOf(queue')
  <2>1. ASSUME NEW k \in NotTaken(event) PROVE k \in SrcsOf(tracks(new))
    <3>1. PICK i \in 1..Len(new) : new[i] = k
      BY <1>5
    <3>2. DOMAIN tracks(new) = 1..Len(new)
      BY <1>5
    <3>3. i \in DOMAIN tracks(new) /\ tracks(new)[i].src = k
      BY <1>5, <3>1, <3>2
    <3> QED
      BY <3>3 DEF SrcsOf
  <2> QED
    BY <2>1, <1>7
<1>10. /\ taken' \in 0..seq /\ taken <= taken'
       /\ taken' = taken \/ taken' \in event.waiting
       /\ \A k \in NotTaken(event) : k <= taken'
  <2>1. CASE new = <<>>
    <3>1. taken' = taken /\ NotTaken(event) = {}
      BY <1>1, <1>5, <2>1
    <3> QED
      BY <3>1
  <2>2. CASE new # <<>>
    <3>1. taken' \in NotTaken(event) /\ \A k \in NotTaken(event) : k <= taken'
      BY <1>1, <1>5, <2>2
    <3> QED
      BY <1>4, <1>5, <1>6, <3>1
  <2> QED
    BY <2>1, <2>2
<1>11. \A i \in gone : q[i].src \in Int /\ q[i].by \in Nat
  <2>1. \A i \in gone : q[i] \in Track
    BY <1>2
  <2> QED
    BY <2>1 DEF Track
<1>12. struck' \subseteq Nat \X Int
  <2>1. \A x \in {<<q[i].by, q[i].src>> : i \in gone} : x \in Nat \X Int
    BY <1>11
  <2> QED
    BY <1>1, <2>1
<1>13. SrcsOf(q) \subseteq SrcsOf(queue') \cup TakenBack' /\ TakenBack \subseteq TakenBack'
  <2>1. \A i \in gone : q[i].src \in TakenBack'
    <3>1. ASSUME NEW i \in gone PROVE q[i].src \in TakenBack'
      <4>1. <<q[i].by, q[i].src>> \in struck' /\ <<q[i].by, q[i].src>>[2] = q[i].src
        BY <1>1
      <4> QED
        BY <4>1 DEF TakenBack
    <3> QED
      BY <3>1
  <2>2. TakenBack \subseteq TakenBack'
    BY <1>1 DEF TakenBack
  <2>3. ASSUME NEW k \in SrcsOf(q) PROVE k \in SrcsOf(queue') \cup TakenBack'
    BY <1>3, <1>7, <2>1
  <2> QED
    BY <2>2, <2>3
<1>14. index \in Nat /\ taken' \in Nat
  BY <1>4, <1>10 DEF Max2
<1>15. /\ post' \in Post
       /\ post'.state \in {"none", "sent"} /\ post'.applied \in {0, taken'}
       /\ reported' \in Signature \cup {NotReported}
       /\ doing' \in {"idle", "closing"}
       /\ doing' = "idle" <=> post'.state = "none"
  BY <1>1, <1>7, <1>14, ReportKeeps
<1>16. \A k \in event.waiting : k <= taken \/ (k <= taken' /\ k \in SrcsOf(queue'))
  BY <1>5, <1>9, <1>10
<1>17. skipped \subseteq skipped' \cup SrcsOf(queue') /\ skipped' \subseteq skipped
  BY <1>1, <1>9
<1> QED
  BY <1>7, <1>8, <1>10, <1>12, <1>13, <1>15, <1>16, <1>17

-----------------------------------------------------------------------------
(* Types.  TypeOK is not inductive: an event or an answer on its way has   *)
(* to fit what it will be used for, and the saved queue what is restored.  *)

\* Events name additions that were made.
EventsMade == \A i \in DOMAIN pipe : /\ pipe[i].applied <= seq
                                     /\ pipe[i].waiting \subseteq 1..seq

\* A step awaits an answer, for every track it sent; the one of a `host`
\* event leaves that event first in the pipe; and no step runs, and nothing
\* is in the queue, before the saved queue is back.
StepFits == /\ doing = "idle" <=> post.state = "none"
            /\ doing = "naming" => pipe # <<>>
            /\ post.state = "answered" => Len(post.answer) = Len(post.tracks)
            /\ ~here => doing = "idle" /\ queue = <<>>

SavedFits == saved.index \in 1..Max2(1, Len(saved.queue))

\* Only what was reported taken is marked as taken back.
WithdrawnTaken == \A k \in withdrawn : k <= applied

TypeInv == TypeOK /\ EventsMade /\ StepFits /\ SavedFits /\ WithdrawnTaken

\* TypeInv by where the state is kept.
ServerType ==
    /\ made \in Seq([song : Songs, member : Members]) /\ seq <= MaxSeq
    /\ additions \subseteq 1..seq /\ withdrawn \subseteq additions
    /\ applied \in 0..seq /\ upcoming \in Seq(Row) /\ removed \subseteq Members
    /\ WithdrawnTaken
NetworkType ==
    /\ open \in BOOLEAN /\ pipe \in Seq(Event) /\ EventsMade
    /\ post \in Post /\ late \subseteq Signature
BrowserType ==
    /\ follows \in {"asking", "yes", "refused", "no"}
    /\ here \in BOOLEAN /\ queue \in Seq(Track) /\ index \in 1..Max2(1, Len(queue))
    /\ taken \in 0..seq /\ reported \in Signature \cup {NotReported}
    /\ doing \in {"idle", "naming", "closing"}
    /\ saved \in [queue : Seq(Track), index : Nat] /\ SavedFits
HistoryType ==
    /\ dropped \subseteq Nat /\ left \subseteq Int /\ lost \subseteq Int
    /\ resent \subseteq Int
    /\ struck \subseteq Nat \X Int /\ unnamed \in BOOLEAN
    /\ skipped \subseteq Nat /\ unread \in BOOLEAN
    /\ turns \in Nat /\ loads \in Nat

\* TypeInv is the conjunction of its parts.
LEMMA TypeInvParts ==
    TypeInv <=> ServerType /\ NetworkType /\ BrowserType /\ HistoryType /\ StepFits
BY DEF TypeInv, TypeOK, ServerType, NetworkType, BrowserType, HistoryType

LEMMA TypeInvPartsNext ==
    ServerType' /\ NetworkType' /\ BrowserType' /\ HistoryType' /\ StepFits' => TypeInv'
BY DEF TypeInv, TypeOK, ServerType, NetworkType, BrowserType, HistoryType

\* The counts of the server are numbers.
LEMMA SeqType == ServerType => seq \in Nat /\ applied \in Nat
BY DEF ServerType, seq

\* What leaves the server alone leaves its type, and the additions made, so.
LEMMA ServerSame ==
    ASSUME ServerType, UNCHANGED server
    PROVE  ServerType' /\ seq' = seq
BY DEF ServerType, WithdrawnTaken, server, seq

\* No report under way is a Post too.
LEMMA NoPostType == NoPost \in Post /\ NoPost.state = "none"
BY DEF NoPost, Post

\* The play state is a list of the queue's ids, with its place in it.
LEMMA PlayStateType ==
    ASSUME queue \in Seq(Track), index \in 1..Max2(1, Len(queue))
    PROVE  /\ PlayState \in [queue : Seq(Track), index : Nat]
           /\ PlayState.index \in 1..Max2(1, Len(PlayState.queue))
           /\ SrcsOf(PlayState.queue) = SrcsOf(queue)
           /\ PlayState.queue = [i \in 1..Len(queue) |-> [queue[i] EXCEPT !.by = 0]]
<1> DEFINE unmarked == Unmarked(queue)
           track(i) == [queue[i] EXCEPT !.by = 0]
<1>1. queue \in Seq(Track) /\ index \in 1..Max2(1, Len(queue))
  OBVIOUS
<1>2. ASSUME NEW i \in 1..Len(queue)
      PROVE  track(i) \in Track /\ track(i).src = queue[i].src
  <2>1. queue[i] \in Track
    BY <1>1
  <2> QED
    BY <2>1 DEF Track
<1>3. unmarked = [i \in 1..Len(queue) |-> track(i)]
  BY <1>1 DEF Unmarked
<1> HIDE DEF unmarked, track
<1>4. /\ unmarked \in Seq(Track) /\ Len(unmarked) = Len(queue)
      /\ \A i \in 1..Len(queue) : unmarked[i].src = queue[i].src
  BY <1>1, <1>2, <1>3
<1>5. SrcsOf(unmarked) = SrcsOf(queue)
  <2>1. \A x \in SrcsOf(unmarked) : x \in SrcsOf(queue)
    BY <1>1, <1>4 DEF SrcsOf
  <2>2. \A x \in SrcsOf(queue) : x \in SrcsOf(unmarked)
    BY <1>1, <1>4 DEF SrcsOf
  <2> QED
    BY <2>1, <2>2
<1>6. PlayState = [queue |-> unmarked, index |-> index] /\ index \in Nat
  BY <1>1 DEF PlayState, unmarked, Max2
<1>7. unmarked = [i \in 1..Len(queue) |-> [queue[i] EXCEPT !.by = 0]]
  BY <1>3 DEF track
<1> QED
  BY <1>1, <1>4, <1>5, <1>6, <1>7

\* A party just started has its types.
LEMMA InitType == Init => TypeInv
<1> SUFFICES ASSUME Init PROVE TypeInv
  OBVIOUS
<1>1. OwnTracks \in Seq(Track) /\ index = 1
  <2>1. Own \in Seq(Songs)
    BY ConstantsAssumption
  <2>2. \A i \in 1..Len(Own) : [song |-> Own[i], src |-> -i, page |-> 0, by |-> 0] \in Track
    BY <2>1 DEF Track
  <2>3. OwnTracks = [i \in 1..Len(Own) |-> [song |-> Own[i], src |-> -i, page |-> 0, by |-> 0]]
    BY <2>1 DEF OwnTracks
  <2>4. OwnTracks \in Seq(Track)
    BY <2>1, <2>2, <2>3
  <2> QED
    BY <2>4 DEF Init
<1>2. ServerType
  BY ConstantsAssumption DEF Init, ServerType, WithdrawnTaken, seq
<1>3. NetworkType /\ StepFits
  <2>1. /\ open = FALSE /\ pipe = <<>> /\ post = NoPost /\ late = {}
        /\ doing = "idle" /\ here = TRUE
    BY DEF Init
  <2>2. NetworkType
    <3>1. pipe \in Seq(Event) /\ DOMAIN pipe = {}
      BY <2>1
    <3>2. EventsMade
      BY <3>1 DEF EventsMade
    <3> QED
      BY <2>1, <3>1, <3>2, NoPostType DEF NetworkType
  <2>3. StepFits
    BY <2>1, NoPostType DEF StepFits
  <2> QED
    BY <2>2, <2>3
<1>4. saved = PlayState /\ queue = OwnTracks /\ taken = 0 /\ doing = "idle" /\ here = TRUE
      /\ reported = NotReported /\ follows = "yes"
  BY DEF Init
<1>5. BrowserType
  <2>1. queue \in Seq(Track) /\ index \in 1..Max2(1, Len(queue))
    BY <1>1, <1>4 DEF Max2
  <2>2. saved \in [queue : Seq(Track), index : Nat] /\ SavedFits
    BY <2>1, <1>4, PlayStateType DEF SavedFits
  <2> QED
    BY <1>2, <1>4, <2>1, <2>2, SeqType DEF BrowserType
<1>6. HistoryType
  BY DEF Init, HistoryType
<1> QED
  BY <1>2, <1>3, <1>5, <1>6, TypeInvParts

-----------------------------------------------------------------------------
(* The members' and the host's actions keep the types *)

\* An event of the right type keeps the events on their way so.
LEMMA ToHostType ==
    ASSUME pipe \in Seq(Event), open \in BOOLEAN, NEW event \in Event, ToHost(event)
    PROVE  /\ pipe' \in Seq(Event)
           /\ Len(pipe) <= Len(pipe')
           /\ \A i \in 1..Len(pipe) : pipe'[i] = pipe[i]
           /\ \A i \in 1..Len(pipe') : i \in 1..Len(pipe) \/ pipe'[i] = event
           /\ open => Len(pipe') = Len(pipe) + 1 /\ pipe'[Len(pipe')] = event
<1>1. CASE open
  <2>1. pipe' = Append(pipe, event)
    BY <1>1 DEF ToHost
  <2> QED
    BY <1>1, <2>1, AppendProperties
<1>2. CASE ~open
  BY <1>2 DEF ToHost
<1> QED
  BY <1>1, <1>2

\* An addition takes the next number.
LEMMA EnqueueType ==
    ASSUME TypeInv, NEW m \in Members, NEW s \in Songs, Enqueue(m, s)
    PROVE  TypeInv'
<1>1. ServerType /\ NetworkType /\ BrowserType /\ HistoryType /\ StepFits /\ seq \in Nat
  BY TypeInvParts, SeqType
<1>2. made' = Append(made, [song |-> s, member |-> m])
  BY DEF Enqueue
<1>3. made' \in Seq([song : Songs, member : Members]) /\ seq' = seq + 1
  BY <1>1, <1>2 DEF ServerType, seq
<1>4. ServerType'
  <2>1. /\ seq < MaxSeq /\ MaxSeq \in Nat /\ additions' = additions \cup {seq + 1}
        /\ UNCHANGED <<withdrawn, applied, upcoming, removed>>
    BY ConstantsAssumption DEF Enqueue
  <2>2. /\ additions \subseteq 1..seq /\ withdrawn \subseteq additions
        /\ applied \in 0..seq /\ upcoming \in Seq(Row) /\ removed \subseteq Members
    BY <1>1 DEF ServerType
  <2>3. additions' \subseteq 1..seq' /\ withdrawn' \subseteq additions' /\ applied' \in 0..seq'
        /\ seq' <= MaxSeq
    BY <1>1, <1>3, <2>1, <2>2
  <2> QED
    BY <1>1, <1>3, <2>1, <2>2, <2>3 DEF ServerType, WithdrawnTaken
<1>5. AddEvent(seq + 1) \in Event
  BY <1>1 DEF AddEvent, Event
<1>6. /\ pipe' \in Seq(Event)
      /\ \A i \in 1..Len(pipe') : \/ i \in 1..Len(pipe) /\ pipe'[i] = pipe[i]
                                  \/ pipe'[i] = AddEvent(seq + 1)
      /\ pipe # <<>> => pipe' # <<>>
  <2>1. ToHost(AddEvent(seq + 1)) /\ pipe \in Seq(Event) /\ open \in BOOLEAN
    BY <1>1 DEF Enqueue, NetworkType
  <2> QED
    BY <1>5, <2>1, ToHostType
<1>7. EventsMade'
  <2>1. ASSUME NEW i \in 1..Len(pipe')
        PROVE  pipe'[i].applied <= seq' /\ pipe'[i].waiting \subseteq 1..seq'
    <3>1. CASE i \in 1..Len(pipe) /\ pipe'[i] = pipe[i]
      <4>1. pipe[i].applied <= seq /\ pipe[i].waiting \subseteq 1..seq /\ pipe[i].applied \in Nat
        <5>1. pipe[i] \in Event /\ i \in DOMAIN pipe
          BY <1>1, <3>1 DEF NetworkType
        <5> QED
          BY <1>1, <5>1 DEF NetworkType, EventsMade, Event
      <4> QED
        BY <1>1, <1>3, <3>1, <4>1
    <3>2. CASE pipe'[i] = AddEvent(seq + 1)
      BY <1>1, <1>3, <3>2 DEF AddEvent
    <3> QED
      BY <1>6, <3>1, <3>2
  <2> QED
    BY <1>6, <2>1 DEF EventsMade
<1>8. NetworkType'
  BY <1>1, <1>6, <1>7 DEF Enqueue, NetworkType
<1>9. BrowserType' /\ HistoryType' /\ StepFits'
  BY <1>1, <1>3, <1>6 DEF Enqueue, browser, history, BrowserType, HistoryType, StepFits, SavedFits
<1> QED
  BY <1>4, <1>8, <1>9, TypeInvPartsNext

\* What is taken back was the server's to let go or to mark.
LEMMA WithdrawType ==
    ASSUME TypeInv, NEW m \in Members, NEW k \in Seqs, Withdraw(m, k)
    PROVE  TypeInv'
<1>1. ServerType /\ NetworkType /\ BrowserType /\ HistoryType /\ StepFits /\ seq \in Nat
  BY TypeInvParts, SeqType
<1>2. seq' = seq /\ k \in 1..seq
  BY <1>1 DEF Withdraw, ServerType, seq
<1>3. ServerType' /\ dropped' \subseteq Nat
  <2>1. CASE k > applied /\ additions' = additions \ {k} /\ dropped' = dropped \cup {k}
                /\ UNCHANGED withdrawn
    BY <1>1, <1>2, <2>1 DEF Withdraw, ServerType, WithdrawnTaken, HistoryType, seq
  <2>2. CASE k <= applied /\ withdrawn' = withdrawn \cup {k} /\ UNCHANGED <<additions, dropped>>
    BY <1>1, <1>2, <2>2 DEF Withdraw, ServerType, WithdrawnTaken, HistoryType, seq
  <2> QED
    BY <2>1, <2>2 DEF Withdraw
<1>4. RemoveEvent(k) \in Event /\ RemoveEvent(k).waiting = {} /\ RemoveEvent(k).applied = 0
  BY <1>1, <1>2 DEF RemoveEvent, Event
<1>5. pipe' = pipe \/ ToHost(RemoveEvent(k))
  BY DEF Withdraw
<1>6. /\ pipe' \in Seq(Event)
      /\ \A i \in 1..Len(pipe') : \/ i \in 1..Len(pipe) /\ pipe'[i] = pipe[i]
                                  \/ pipe'[i] = RemoveEvent(k)
      /\ pipe # <<>> => pipe' # <<>>
  BY <1>1, <1>4, <1>5, ToHostType DEF NetworkType
<1>7. EventsMade'
  BY <1>1, <1>2, <1>4, <1>6 DEF NetworkType, EventsMade
<1>8. NetworkType'
  BY <1>1, <1>6, <1>7 DEF Withdraw, NetworkType
<1>9. BrowserType' /\ HistoryType' /\ StepFits'
  BY <1>1, <1>2, <1>3, <1>6
     DEF Withdraw, browser, BrowserType, HistoryType, StepFits, SavedFits
<1> QED
  BY <1>3, <1>8, <1>9, TypeInvPartsNext

\* What goes with a member was waiting: nothing marked goes.
LEMMA RemoveMemberType ==
    ASSUME TypeInv, NEW m \in Members, RemoveMember(m)
    PROVE  TypeInv'
<1>1. ServerType /\ NetworkType /\ BrowserType /\ HistoryType /\ StepFits /\ seq \in Nat
  BY TypeInvParts, SeqType
<1>2. PICK gone \in SUBSET Waiting : additions' = additions \ gone /\ dropped' = dropped \cup gone
  BY DEF RemoveMember
<1>3. seq' = seq /\ gone \subseteq 1..seq
  BY <1>1, <1>2 DEF RemoveMember, ServerType, Waiting, seq
<1>4. dropped' \subseteq Nat
  BY <1>1, <1>2, <1>3 DEF HistoryType
<1>5. ServerType'
  <2>1. withdrawn \cap gone = {}
    BY <1>1, <1>2 DEF ServerType, WithdrawnTaken, Waiting
  <2> QED
    BY <1>1, <1>2, <1>3, <2>1 DEF RemoveMember, ServerType, WithdrawnTaken
<1>6. NetworkType' /\ BrowserType' /\ StepFits' /\ HistoryType'
  BY <1>1, <1>3, <1>4 DEF RemoveMember, network, browser, NetworkType, EventsMade, BrowserType,
                          HistoryType, StepFits, SavedFits
<1> QED
  BY <1>5, <1>6, TypeInvPartsNext

-----------------------------------------------------------------------------
(* The stream, and the player, keep the types *)

\* A stream that opens is told of additions made.
LEMMA StreamOpensType ==
    ASSUME TypeInv, StreamOpens
    PROVE  TypeInv'
<1>1. ServerType /\ NetworkType /\ BrowserType /\ HistoryType /\ StepFits /\ seq \in Nat
      /\ applied \in Nat
  BY TypeInvParts, SeqType
<1>2. ServerType' /\ seq' = seq
  BY <1>1, ServerSame DEF StreamOpens
<1>3. HostEvent \in Event /\ HostEvent.waiting \subseteq 1..seq /\ HostEvent.applied <= seq
  <2>1. Waiting \subseteq 1..seq /\ withdrawn \subseteq 1..seq /\ applied <= seq
    <3>1. \A k \in Waiting : k \in additions
      BY DEF Waiting
    <3>2. additions \subseteq 1..seq /\ withdrawn \subseteq additions /\ applied \in 0..seq
      BY <1>1 DEF ServerType
    <3>3. Waiting \subseteq 1..seq
      BY <3>1, <3>2
    <3>4. applied <= seq
      BY <1>1, <3>2
    <3> QED
      BY <3>2, <3>3, <3>4
  <2>2. Waiting \in SUBSET Nat /\ withdrawn \in SUBSET Nat
    BY <1>1, <2>1
  <2> QED
    BY <1>1, <2>1, <2>2 DEF HostEvent, Event
<1>4. pipe' = Append(pipe, HostEvent) /\ open' = TRUE /\ pipe \in Seq(Event)
  BY <1>1 DEF StreamOpens, NetworkType
<1>5. /\ pipe' \in Seq(Event) /\ pipe' # <<>>
      /\ \A i \in 1..Len(pipe') : \/ i \in 1..Len(pipe) /\ pipe'[i] = pipe[i]
                                  \/ pipe'[i] = HostEvent
  BY <1>3, <1>4, AppendProperties
<1>6. EventsMade'
  BY <1>1, <1>2, <1>3, <1>5 DEF NetworkType, EventsMade
<1>7. NetworkType'
  BY <1>1, <1>4, <1>5, <1>6 DEF StreamOpens, NetworkType
<1>8. BrowserType' /\ HistoryType' /\ StepFits'
  BY <1>1, <1>2, <1>5 DEF StreamOpens, browser, history, BrowserType, HistoryType, StepFits, SavedFits
<1> QED
  BY <1>2, <1>7, <1>8, TypeInvPartsNext

\* The events received are a prefix of those sent, and keep the one handled.
LEMMA StreamDropsPrefix ==
    ASSUME pipe \in Seq(Event), StreamDrops
    PROVE  /\ pipe' \in Seq(Event) /\ Len(pipe') \in 0..Len(pipe)
           /\ \A i \in 1..Len(pipe') : pipe'[i] = pipe[i]
           /\ doing = "naming" => pipe' # <<>>
<1>1. PICK n \in 0..Len(pipe) : (doing = "naming" => n > 0) /\ pipe' = SubSeq(pipe, 1, n)
  BY DEF StreamDrops
<1>2. /\ pipe' \in Seq(Event) /\ Len(pipe') = n
      /\ \A i \in 1..n : pipe'[i] = pipe[i]
  BY <1>1, SubSeqProperties
<1> QED
  BY <1>1, <1>2

\* A stream that drops leaves a prefix of its events.
LEMMA StreamDropsType ==
    ASSUME TypeInv, StreamDrops
    PROVE  TypeInv'
<1>1. ServerType /\ NetworkType /\ BrowserType /\ HistoryType /\ StepFits /\ seq \in Nat
  BY TypeInvParts, SeqType
<1>2. ServerType' /\ seq' = seq
  BY <1>1, ServerSame DEF StreamDrops
<1>3. /\ pipe' \in Seq(Event) /\ Len(pipe') \in 0..Len(pipe)
      /\ \A i \in 1..Len(pipe') : pipe'[i] = pipe[i]
      /\ doing = "naming" => pipe' # <<>>
  BY <1>1, StreamDropsPrefix DEF NetworkType
<1>4. EventsMade'
  BY <1>1, <1>2, <1>3 DEF NetworkType, EventsMade
<1>5. NetworkType'
  BY <1>1, <1>3, <1>4 DEF StreamDrops, NetworkType
<1>6. /\ UNCHANGED <<follows, here, queue, index, taken, reported, doing, saved, post>>
      /\ UNCHANGED <<dropped, left, lost, resent, struck, unnamed, skipped, unread, loads>>
  BY DEF StreamDrops, browser, history
<1>7. turns' = turns + 1
  BY DEF StreamDrops, Fault, Turn, Turns
<1>8. BrowserType'
  BY <1>1, <1>2, <1>6 DEF BrowserType, SavedFits
<1>9. HistoryType'
  BY <1>1, <1>6, <1>7 DEF HistoryType
<1>10. StepFits'
  BY <1>1, <1>3, <1>6 DEF StepFits
<1> QED
  BY <1>2, <1>5, <1>8, <1>9, <1>10, TypeInvPartsNext

\* What leaves the additions made and the network alone keeps its type.
LEMMA NetworkSame ==
    ASSUME NetworkType, seq' = seq, UNCHANGED network
    PROVE  NetworkType'
BY DEF NetworkType, EventsMade, network

\* The host's move stays in the queue.
LEMMA SkipType ==
    ASSUME TypeInv, NEW by \in {1, -1}, Skip(by)
    PROVE  TypeInv'
<1>1. ServerType /\ NetworkType /\ BrowserType /\ HistoryType /\ StepFits /\ seq \in Nat
  BY TypeInvParts, SeqType
<1>2. ServerType' /\ seq' = seq /\ NetworkType'
  BY <1>1, ServerSame, NetworkSame DEF Skip
<1>3. index' \in 1..Max2(1, Len(queue))
  BY <1>1 DEF Skip, BrowserType, Max2
<1>4. BrowserType' /\ HistoryType' /\ StepFits'
  BY <1>1, <1>2, <1>3 DEF Skip, Turn, Turns, network, history, BrowserType, HistoryType, StepFits, SavedFits
<1> QED
  BY <1>2, <1>4, TypeInvPartsNext

\* A track taken out leaves the index in the queue.
LEMMA RemoveAtType ==
    ASSUME TypeInv, NEW i \in DOMAIN queue, RemoveAt(i)
    PROVE  TypeInv'
<1>1. ServerType /\ NetworkType /\ BrowserType /\ HistoryType /\ StepFits /\ seq \in Nat
  BY TypeInvParts, SeqType
<1>2. ServerType' /\ seq' = seq /\ NetworkType'
  BY <1>1, ServerSame, NetworkSame DEF RemoveAt
<1>3. queue \in Seq(Track) /\ i \in 1..Len(queue) /\ index \in 1..Max2(1, Len(queue))
  BY <1>1 DEF BrowserType
<1>4. queue' \in Seq(Track) /\ Len(queue') = Len(queue) - 1
  <2>1. {i} \in SUBSET (1..Len(queue)) /\ Cardinality({i}) = 1
    BY <1>3, FS_Singleton
  <2>2. queue' = Without(queue, {i})
    BY DEF RemoveAt
  <2> QED
    BY <1>3, <2>1, <2>2, WithoutType
<1>5. index' \in 1..Max2(1, Len(queue'))
  <2>1. index' = IF i < index THEN index - 1
                 ELSE IF i = index THEN Max2(1, Min2(index, Len(queue) - 1))
                 ELSE index
    BY DEF RemoveAt
  <2> QED
    BY <1>3, <1>4, <2>1 DEF Max2, Min2
<1>6. left' \subseteq Int
  <2>1. queue[i] \in Track
    BY <1>3
  <2> QED
    BY <1>1, <2>1 DEF RemoveAt, HistoryType, Track
<1>7. BrowserType' /\ HistoryType' /\ StepFits'
  BY <1>1, <1>2, <1>4, <1>5, <1>6
     DEF RemoveAt, Turn, Turns, network, BrowserType, HistoryType, StepFits, SavedFits
<1> QED
  BY <1>2, <1>7, TypeInvPartsNext

\* Saving and restoring the queue keep its index in it.
LEMMA SavingType ==
    ASSUME TypeInv, Persist \/ Restore
    PROVE  TypeInv'
<1>1. ServerType /\ NetworkType /\ BrowserType /\ HistoryType /\ StepFits /\ seq \in Nat
  BY TypeInvParts, SeqType
<1>2. CASE Persist
  <2>1. ServerType' /\ seq' = seq /\ NetworkType'
    BY <1>1, <1>2, ServerSame, NetworkSame DEF Persist
  <2>2. saved' \in [queue : Seq(Track), index : Nat] /\ SavedFits'
    BY <1>1, <1>2, PlayStateType DEF Persist, BrowserType, SavedFits
  <2>3. BrowserType' /\ HistoryType' /\ StepFits'
    BY <1>1, <1>2, <2>1, <2>2
       DEF Persist, network, browser, history, BrowserType, HistoryType, StepFits
  <2> QED
    BY <2>1, <2>3, TypeInvPartsNext
<1>3. CASE Restore
  <2>1. ServerType' /\ seq' = seq /\ NetworkType'
    BY <1>1, <1>3, ServerSame, NetworkSame DEF Restore
  <2>2. queue' \in Seq(Track) /\ index' \in 1..Max2(1, Len(queue'))
    BY <1>1, <1>3 DEF Restore, BrowserType, SavedFits
  <2>3. BrowserType' /\ HistoryType' /\ StepFits'
    BY <1>1, <1>3, <2>1, <2>2
       DEF Restore, network, history, BrowserType, HistoryType, StepFits, SavedFits
  <2> QED
    BY <2>1, <2>3, TypeInvPartsNext
<1> QED
  BY <1>2, <1>3

\* The additions tracks come from are numbers.
LEMMA SrcsOfType ==
    ASSUME NEW q \in Seq(Track)
    PROVE  SrcsOf(q) \subseteq Int
<1>1. \A i \in DOMAIN q : q[i].src \in Int
  <2>1. \A i \in DOMAIN q : q[i] \in Track
    OBVIOUS
  <2> QED
    BY <2>1 DEF Track
<1>2. \A x \in SrcsOf(q) : x \in Int
  BY <1>1 DEF SrcsOf
<1> QED
  BY <1>2

\* A queue not restored is empty.
LEMMA RestoreFailsType ==
    ASSUME TypeInv, RestoreFails
    PROVE  TypeInv'
<1>1. ServerType /\ NetworkType /\ BrowserType /\ HistoryType /\ StepFits /\ seq \in Nat
  BY TypeInvParts, SeqType
<1>2. ServerType' /\ seq' = seq /\ NetworkType'
  BY <1>1, ServerSame, NetworkSame DEF RestoreFails
<1>3. lost' \subseteq Int
  <2>1. SrcsOf(saved.queue) \subseteq Int
    BY <1>1, SrcsOfType DEF BrowserType
  <2> QED
    BY <1>1, <2>1 DEF RestoreFails, HistoryType
<1>4. BrowserType' /\ HistoryType' /\ StepFits'
  BY <1>1, <1>2, <1>3 DEF RestoreFails, Fault, Turn, Turns, network, BrowserType, HistoryType,
                          StepFits, SavedFits
<1> QED
  BY <1>2, <1>4, TypeInvPartsNext

-----------------------------------------------------------------------------
(* Reports, and the browser's steps, keep the types *)

\* What a report does to the server, whichever it is and whenever it arrives:
\* `applied` does not go back, and only additions up to it are let go.
LEMMA ReportQueueKeeps ==
    ASSUME ServerType, NEW upTo \in Nat, NEW songs \in Seq(Songs), ReportQueue(upTo, songs)
    PROVE  /\ ServerType' /\ made' = made /\ seq' = seq
           /\ applied <= applied' /\ (applied' = applied \/ applied' <= upTo)
           /\ \A k \in additions : k \in additions' \/ k <= applied'
           /\ Answer(upTo, songs) \in Seq(Nat) /\ Len(Answer(upTo, songs)) = Len(songs)
<1> DEFINE found == Answer(upTo, songs)
           row(i) == [song |-> songs[i], by |-> found[i]]
<1>1. seq \in Nat /\ applied \in Nat /\ additions \subseteq 1..seq /\ applied <= seq
  BY SeqType DEF ServerType
<1>2. found \in Seq(Nat) /\ Len(found) = Len(songs)
  <2> DEFINE from == {k \in additions : k <= Max2(applied, Min2(upTo, seq))}
  <2>1. \A k \in from : k \in Nat
    BY <1>1
  <2>2. found = Found(songs, from)
    BY DEF Answer
  <2> HIDE DEF from, found
  <2> QED
    BY <2>1, <2>2, FoundType
<1>3. /\ applied' = Max2(applied, Min2(upTo, seq))
      /\ additions' = {k \in additions : k > applied' \/ \E i \in DOMAIN found : found[i] = k}
      /\ withdrawn' = withdrawn \cap additions'
      /\ upcoming' = [i \in DOMAIN songs |-> row(i)]
      /\ UNCHANGED <<made, removed>>
  BY DEF ReportQueue, StillWithdrawn
<1> HIDE DEF found
<1>4. /\ applied' \in 0..seq /\ applied <= applied'
      /\ applied' = applied \/ applied' <= upTo
  BY <1>1, <1>3 DEF Max2, Min2
<1>5. \A i \in 1..Len(songs) : row(i) \in Row
  BY <1>2 DEF Row
<1> HIDE DEF row
<1>6. upcoming' \in Seq(Row)
  BY <1>3, <1>5
<1>7. /\ \A k \in additions' : k \in additions
      /\ \A k \in additions : k \in additions' \/ k <= applied'
  <2>1. applied' \in Int /\ \A k \in additions : k \in Int
    BY <1>1, <1>4
  <2> QED
    BY <1>3, <2>1
<1>8. seq' = seq
  BY <1>3 DEF seq
<1>9. additions' \subseteq 1..seq /\ withdrawn' \subseteq additions' /\ withdrawn' \subseteq withdrawn
  BY <1>1, <1>3, <1>7
<1>10. ServerType'
  <2>1. \A k \in withdrawn' : k <= applied'
    <3>1. ASSUME NEW k \in withdrawn' PROVE k <= applied'
      <4>1. k \in Nat /\ k <= applied
        BY <1>1, <1>9 DEF ServerType, WithdrawnTaken
      <4> QED
        BY <1>1, <1>4, <4>1
    <3> QED
      BY <3>1
  <2> QED
    BY <1>3, <1>4, <1>6, <1>8, <1>9, <2>1 DEF ServerType, WithdrawnTaken
<1> QED
  BY <1>2, <1>3, <1>4, <1>7, <1>8, <1>10 DEF found

\* The answer awaited is as long as the report.
LEMMA ReceiveType ==
    ASSUME TypeInv, Receive
    PROVE  /\ TypeInv' /\ made' = made /\ seq' = seq
           /\ applied <= applied' /\ (applied' = applied \/ applied' <= post.applied)
           /\ \A k \in additions : k \in additions' \/ k <= applied'
           /\ post'.applied = post.applied
<1>1. ServerType /\ NetworkType /\ BrowserType /\ HistoryType /\ StepFits /\ seq \in Nat
  BY TypeInvParts, SeqType
<1> DEFINE songs == SongsOf(post.tracks)
<1>2. post \in Post /\ post.state = "sent" /\ post.applied \in Nat /\ post.tracks \in Seq(Track)
  BY <1>1 DEF Receive, NetworkType, Post
<1>3. songs \in Seq(Songs) /\ Len(songs) = Len(post.tracks)
  <2>1. \A i \in 1..Len(post.tracks) : post.tracks[i].song \in Songs
    <3>1. \A i \in 1..Len(post.tracks) : post.tracks[i] \in Track
      BY <1>2
    <3> QED
      BY <3>1 DEF Track
  <2> QED
    BY <1>2, <2>1 DEF SongsOf
<1>4. /\ ReportQueue(post.applied, songs)
      /\ post' = [post EXCEPT !.state = "answered", !.answer = Answer(post.applied, songs)]
      /\ UNCHANGED <<open, pipe, late, browser, saved, history, loads, turns>>
  BY DEF Receive
<1> HIDE DEF songs
<1>5. /\ ServerType' /\ made' = made /\ seq' = seq
      /\ applied <= applied' /\ (applied' = applied \/ applied' <= post.applied)
      /\ \A k \in additions : k \in additions' \/ k <= applied'
      /\ Answer(post.applied, songs) \in Seq(Nat)
      /\ Len(Answer(post.applied, songs)) = Len(post.tracks)
  BY <1>1, <1>2, <1>3, <1>4, ReportQueueKeeps
<1>6. /\ post' \in Post /\ post'.state = "answered" /\ post'.applied = post.applied
      /\ Len(post'.answer) = Len(post'.tracks)
  BY <1>2, <1>4, <1>5 DEF Post
<1>7. NetworkType'
  BY <1>1, <1>4, <1>5, <1>6 DEF NetworkType, EventsMade
<1>8. BrowserType' /\ HistoryType' /\ StepFits'
  BY <1>1, <1>2, <1>4, <1>5, <1>6 DEF browser, history, BrowserType, HistoryType, StepFits, SavedFits
<1> QED
  BY <1>5, <1>6, <1>7, <1>8, TypeInvPartsNext

\* A late report is handled as any other.
LEMMA ReceiveLateType ==
    ASSUME TypeInv, ReceiveLate
    PROVE  TypeInv'
<1>1. ServerType /\ NetworkType /\ BrowserType /\ HistoryType /\ StepFits /\ seq \in Nat
  BY TypeInvParts, SeqType
<1>2. PICK request \in late :
          /\ late' = late \ {request}
          /\ ReportQueue(request.applied, request.songs)
          /\ UNCHANGED <<open, pipe, post, browser, saved, history, loads, turns>>
  BY DEF ReceiveLate
<1>3. request.applied \in Nat /\ request.songs \in Seq(Songs) /\ late' \subseteq Signature
  BY <1>1, <1>2 DEF NetworkType, Signature
<1>4. ServerType' /\ seq' = seq
  BY <1>1, <1>2, <1>3, ReportQueueKeeps
<1>5. NetworkType' /\ BrowserType' /\ HistoryType' /\ StepFits'
  BY <1>1, <1>2, <1>3, <1>4 DEF NetworkType, EventsMade, browser, history, BrowserType, HistoryType,
                               StepFits, SavedFits
<1> QED
  BY <1>4, <1>5, TypeInvPartsNext

\* A step that ends here leaves the server and the saved queue to themselves.
LEMMA BeginHostType ==
    ASSUME TypeInv, BeginHost
    PROVE  /\ TypeInv'
           /\ post'.applied = taken' /\ taken' = Max2(taken, Head(pipe).applied)
<1>1. ServerType /\ NetworkType /\ BrowserType /\ HistoryType /\ StepFits /\ seq \in Nat
  BY TypeInvParts, SeqType
<1>2. ServerType' /\ seq' = seq
  BY <1>1, ServerSame DEF BeginHost
<1>3. /\ here /\ pipe # <<>> /\ taken' = Max2(taken, Head(pipe).applied)
      /\ Report(queue, taken', reported, TRUE, "naming")
      /\ UNCHANGED <<server, open, pipe, late, follows, here, queue, index, saved, history, loads,
                     turns>>
  BY DEF BeginHost
<1>4. taken' \in 0..seq
  <2>1. Head(pipe) = pipe[1] /\ 1 \in DOMAIN pipe /\ pipe[1] \in Event
    BY <1>1, <1>3 DEF NetworkType
  <2>2. Head(pipe).applied \in Nat /\ Head(pipe).applied <= seq
    BY <1>1, <2>1 DEF NetworkType, EventsMade, Event
  <2> QED
    BY <1>1, <1>3, <2>2 DEF BrowserType, Max2
<1>5. /\ post' \in Post /\ post'.state = "sent" /\ post'.applied = taken'
      /\ reported' \in Signature \cup {NotReported} /\ doing' = "naming"
  <2>1. queue \in Seq(Track) /\ index \in Nat /\ reported \in Signature \cup {NotReported}
    BY <1>1 DEF BrowserType, Max2
  <2>2. taken' \in Nat
    BY <1>1, <1>4
  <2>3. post' = [state |-> "sent", applied |-> taken', tracks |-> Upcoming(queue), answer |-> <<>>]
    BY <1>3 DEF Report
  <2> QED
    BY <1>3, <2>1, <2>2, <2>3, ReportKeeps
<1>6. NetworkType'
  BY <1>1, <1>2, <1>3, <1>5 DEF NetworkType, EventsMade
<1>7. BrowserType' /\ HistoryType' /\ StepFits'
  BY <1>1, <1>2, <1>3, <1>4, <1>5 DEF history, BrowserType, HistoryType, StepFits, SavedFits
<1> QED
  BY <1>2, <1>3, <1>5, <1>6, <1>7, TypeInvPartsNext

\* The check of every second.
LEMMA CheckType ==
    ASSUME TypeInv, Check
    PROVE  /\ TypeInv'
           /\ post'.applied \in {0, taken}
<1>1. ServerType /\ NetworkType /\ BrowserType /\ HistoryType /\ StepFits /\ seq \in Nat
  BY TypeInvParts, SeqType
<1>2. ServerType' /\ seq' = seq
  BY <1>1, ServerSame DEF Check
<1>3. /\ here /\ Report(queue, taken, reported, FALSE, "closing")
      /\ UNCHANGED <<server, open, pipe, late, follows, here, queue, index, taken, saved, history,
                     loads, turns>>
  BY DEF Check
<1>4. /\ post' \in Post /\ post'.state \in {"none", "sent"} /\ post'.applied \in {0, taken}
      /\ reported' \in Signature \cup {NotReported} /\ doing' \in {"idle", "closing"}
      /\ doing' = "idle" <=> post'.state = "none"
  <2>1. /\ queue \in Seq(Track) /\ index \in Nat /\ reported \in Signature \cup {NotReported}
        /\ taken \in Nat
    BY <1>1 DEF BrowserType, Max2
  <2> QED
    BY <1>3, <2>1, ReportKeeps
<1>5. NetworkType'
  BY <1>1, <1>2, <1>3, <1>4 DEF NetworkType, EventsMade
<1>6. BrowserType' /\ HistoryType' /\ StepFits'
  BY <1>1, <1>2, <1>3, <1>4 DEF history, BrowserType, HistoryType, StepFits, SavedFits
<1> QED
  BY <1>2, <1>4, <1>5, <1>6, TypeInvPartsNext

\* Handling the first event leaves the others.
LEMMA HeadOfPipe ==
    ASSUME NetworkType, pipe # <<>>
    PROVE  /\ Head(pipe) = pipe[1] /\ 1 \in DOMAIN pipe
           /\ Head(pipe) \in Event /\ Head(pipe).waiting \subseteq 1..seq
           /\ Tail(pipe) \in Seq(Event) /\ Len(Tail(pipe)) = Len(pipe) - 1
           /\ \A i \in 1..Len(Tail(pipe)) : i + 1 \in 1..Len(pipe) /\ Tail(pipe)[i] = pipe[i + 1]
<1>1. pipe \in Seq(Event) /\ Len(pipe) \in Nat \ {0}
  BY DEF NetworkType
<1>2. Head(pipe) = pipe[1] /\ 1 \in DOMAIN pipe /\ pipe[1] \in Event
  BY <1>1
<1>3. /\ Tail(pipe) \in Seq(Event) /\ Len(Tail(pipe)) = Len(pipe) - 1
      /\ \A i \in 1..Len(Tail(pipe)) : Tail(pipe)[i] = pipe[i + 1]
  BY <1>1, HeadTailProperties
<1> QED
  BY <1>1, <1>2, <1>3 DEF NetworkType, EventsMade

\* What a step, run to its next report or to its end, does to the browser.
StepKeeps(q) ==
    /\ queue' \in Seq(Track)
    /\ NetworkType' /\ BrowserType' /\ StepFits'
    /\ struck' \subseteq Nat \X Int
    /\ skipped \subseteq skipped' \cup SrcsOf(queue') /\ skipped' \subseteq skipped
    /\ taken <= taken' /\ post'.applied \in {0, taken'}
    /\ SrcsOf(q) \subseteq SrcsOf(queue') \cup TakenBack' /\ TakenBack \subseteq TakenBack'

\* Dropping and taking keep the queue's type.
LEMMA HandleType ==
    ASSUME TypeInv, here, pipe # <<>>,
           NEW q \in Seq(Track), index \in 1..Max2(1, Len(q)),
           NEW last \in Signature \cup {NotReported},
           Handle(q, Head(pipe), last), pipe' = Tail(pipe),
           UNCHANGED <<made, open, follows, here, index, saved>>, late' \subseteq Signature
    PROVE  /\ StepKeeps(q)
           /\ taken' = taken \/ taken' \in Head(pipe).waiting
           /\ \A k \in Head(pipe).waiting : k <= taken \/ (k <= taken' /\ k \in SrcsOf(queue'))
<1>1. ServerType /\ NetworkType /\ BrowserType /\ HistoryType /\ StepFits /\ seq \in Nat
  BY TypeInvParts, SeqType
<1>2. seq' = seq
  BY DEF seq
<1>3. /\ Head(pipe) \in Event /\ Head(pipe).waiting \subseteq 1..seq
      /\ pipe' \in Seq(Event)
      /\ \A i \in 1..Len(pipe') : i + 1 \in 1..Len(pipe) /\ pipe'[i] = pipe[i + 1]
  BY <1>1, HeadOfPipe
<1>4. /\ queue' \in Seq(Track) /\ index \in 1..Max2(1, Len(queue'))
      /\ taken' \in 0..seq /\ taken <= taken'
      /\ taken' = taken \/ taken' \in Head(pipe).waiting
      /\ \A k \in Head(pipe).waiting : k <= taken \/ (k <= taken' /\ k \in SrcsOf(queue'))
      /\ SrcsOf(q) \subseteq SrcsOf(queue') \cup TakenBack' /\ TakenBack \subseteq TakenBack'
      /\ skipped \subseteq skipped' \cup SrcsOf(queue') /\ skipped' \subseteq skipped
      /\ struck' \subseteq Nat \X Int
      /\ post' \in Post
      /\ post'.state \in {"none", "sent"} /\ post'.applied \in {0, taken'}
      /\ reported' \in Signature \cup {NotReported}
      /\ doing' \in {"idle", "closing"}
      /\ doing' = "idle" <=> post'.state = "none"
  <2>1. /\ made \in Seq([song : Songs, member : Members])
        /\ taken \in 0..seq /\ loads \in Nat
        /\ struck \subseteq Nat \X Int
    BY <1>1 DEF ServerType, BrowserType, HistoryType
  <2> QED
    BY <1>3, <2>1, HandleKeeps
<1>5. EventsMade'
  <2>1. ASSUME NEW i \in 1..Len(pipe')
        PROVE  pipe'[i].applied <= seq' /\ pipe'[i].waiting \subseteq 1..seq'
    BY <1>1, <1>2, <1>3 DEF NetworkType, EventsMade
  <2> QED
    BY <1>3, <2>1 DEF EventsMade
<1>6. NetworkType'
  BY <1>1, <1>3, <1>4, <1>5 DEF NetworkType
<1>7. BrowserType' /\ StepFits'
  BY <1>1, <1>2, <1>4 DEF BrowserType, StepFits, SavedFits
<1> QED
  BY <1>4, <1>6, <1>7 DEF StepKeeps

\* A step that goes on or ends keeps the browser's types.
LEMMA ResumeType ==
    ASSUME TypeInv, post.state # "none",
           NEW q \in Seq(Track), index \in 1..Max2(1, Len(q)),
           NEW last \in Signature \cup {NotReported},
           Resume(q, last),
           UNCHANGED <<made, open, follows, here, index, saved>>, late' \subseteq Signature
    PROVE  StepKeeps(q)
<1>1. ServerType /\ NetworkType /\ BrowserType /\ HistoryType /\ StepFits /\ seq \in Nat
  BY TypeInvParts, SeqType
<1>2. CASE /\ doing = "closing" /\ doing' = "idle" /\ post' = NoPost
           /\ queue' = q /\ reported' = last
           /\ UNCHANGED <<pipe, taken, struck, skipped>>
  <2>1. seq' = seq /\ here
    BY <1>1, <1>2 DEF seq, StepFits
  <2>2. NetworkType'
    BY <1>1, <1>2, <2>1, NoPostType DEF NetworkType, EventsMade
  <2>3. BrowserType' /\ StepFits'
    BY <1>1, <1>2, <2>1, NoPostType DEF BrowserType, StepFits, SavedFits
  <2>4. taken <= taken' /\ post'.applied = 0
    BY <1>1, <1>2 DEF BrowserType, NoPost
  <2> QED
    BY <1>1, <1>2, <2>2, <2>3, <2>4 DEF StepKeeps, HistoryType, TakenBack
<1>3. CASE doing = "naming" /\ Handle(q, Head(pipe), last) /\ pipe' = Tail(pipe)
  <2>1. here /\ pipe # <<>>
    BY <1>1, <1>3 DEF StepFits
  <2> QED
    BY <1>3, <2>1, HandleType
<1> QED
  BY <1>2, <1>3 DEF Resume

\* The steps for `add` and `remove`.
LEMMA BeginType ==
    ASSUME TypeInv, Begin
    PROVE  TypeInv' /\ StepKeeps(queue)
<1>1. ServerType /\ NetworkType /\ BrowserType /\ HistoryType /\ StepFits
  BY TypeInvParts
<1>2. /\ here /\ pipe # <<>> /\ Handle(queue, Head(pipe), reported) /\ pipe' = Tail(pipe)
      /\ UNCHANGED <<server, open, late, follows, here, index, saved,
                     dropped, left, lost, resent, unnamed, unread, loads, turns>>
  BY DEF Begin
<1>3. ServerType'
  BY <1>1, <1>2, ServerSame
<1>4. StepKeeps(queue)
  <2>1. /\ queue \in Seq(Track) /\ index \in 1..Max2(1, Len(queue))
        /\ reported \in Signature \cup {NotReported} /\ late' \subseteq Signature
        /\ UNCHANGED made
    BY <1>1, <1>2 DEF BrowserType, NetworkType, server
  <2> QED
    BY <1>2, <2>1, HandleType
<1>5. HistoryType'
  BY <1>1, <1>2, <1>4 DEF HistoryType, StepKeeps
<1> QED
  BY <1>3, <1>4, <1>5, TypeInvPartsNext DEF StepKeeps

\* The answer of the report awaited.
LEMMA AnsweredType ==
    ASSUME TypeInv, Answered
    PROVE  TypeInv' /\ StepKeeps(queue)
<1>1. ServerType /\ NetworkType /\ BrowserType /\ HistoryType /\ StepFits
  BY TypeInvParts
<1>2. /\ post.state = "answered" /\ Resume(Marked(queue), reported)
      /\ unread' = FALSE
      /\ UNCHANGED <<server, open, late, follows, here, index, saved,
                     dropped, left, lost, resent, unnamed, loads, turns>>
  BY DEF Answered
<1>3. ServerType'
  BY <1>1, <1>2, ServerSame
<1>4. /\ Marked(queue) \in Seq(Track) /\ Len(Marked(queue)) = Len(queue)
      /\ SrcsOf(Marked(queue)) = SrcsOf(queue)
  <2>1. queue \in Seq(Track) /\ post \in Post /\ Len(post.answer) = Len(post.tracks)
    BY <1>1, <1>2 DEF BrowserType, NetworkType, StepFits
  <2> QED
    BY <2>1, MarkedKeeps
<1>5. StepKeeps(Marked(queue))
  <2>1. /\ index \in 1..Max2(1, Len(Marked(queue)))
        /\ reported \in Signature \cup {NotReported} /\ late' \subseteq Signature
        /\ UNCHANGED made
    BY <1>1, <1>2, <1>4 DEF BrowserType, NetworkType, server
  <2> QED
    BY <1>2, <1>4, <2>1, ResumeType
<1>6. HistoryType'
  BY <1>1, <1>2, <1>5 DEF HistoryType, StepKeeps
<1> QED
  BY <1>3, <1>4, <1>5, <1>6, TypeInvPartsNext DEF StepKeeps

\* A report given up on is one that was sent.
LEMMA AbandonType ==
    ASSUME NetworkType, turns \in Nat, Abandon
    PROVE  /\ late' \subseteq Signature /\ turns' \in Nat
           /\ \A r \in late' : r \in late \/ (post.state = "sent" /\ r.applied = post.applied)
<1>0. turns' \in Nat
  BY DEF Abandon, Turn, Turns
<1>1. CASE UNCHANGED late
  BY <1>0, <1>1 DEF NetworkType
<1>2. CASE /\ post.state = "sent"
           /\ late' = late \cup {[applied |-> post.applied, songs |-> SongsOf(post.tracks)]}
  <2>1. post.applied \in Nat /\ post.tracks \in Seq(Track)
    BY DEF NetworkType, Post
  <2>2. SongsOf(post.tracks) \in Seq(Songs)
    <3>1. \A i \in 1..Len(post.tracks) : post.tracks[i].song \in Songs
      <4>1. \A i \in 1..Len(post.tracks) : post.tracks[i] \in Track
        BY <2>1
      <4> QED
        BY <4>1 DEF Track
    <3> QED
      BY <2>1, <3>1 DEF SongsOf
  <2>3. [applied |-> post.applied, songs |-> SongsOf(post.tracks)] \in Signature
    BY <2>1, <2>2 DEF Signature
  <2> QED
    BY <1>0, <1>2, <2>3 DEF NetworkType
<1> QED
  BY <1>1, <1>2 DEF Abandon

\* A report that failed.
LEMMA FailsType ==
    ASSUME TypeInv, Fails
    PROVE  TypeInv' /\ StepKeeps(queue)
<1>1. ServerType /\ NetworkType /\ BrowserType /\ HistoryType /\ StepFits
  BY TypeInvParts
<1>2. /\ post.state # "none" /\ Abandon /\ Resume(queue, AfterFailure)
      /\ unnamed' = (unnamed \/ doing = "naming") /\ unread' = FALSE
      /\ UNCHANGED <<server, open, follows, here, index, saved, dropped, left, lost, resent, loads>>
  BY DEF Fails
<1>3. ServerType'
  BY <1>1, <1>2, ServerSame
<1>4. late' \subseteq Signature /\ turns' \in Nat
  BY <1>1, <1>2, AbandonType DEF HistoryType
<1>5. StepKeeps(queue)
  <2>1. /\ queue \in Seq(Track) /\ index \in 1..Max2(1, Len(queue))
        /\ AfterFailure \in Signature \cup {NotReported}
        /\ UNCHANGED made
    BY <1>1, <1>2 DEF BrowserType, AfterFailure, server
  <2> QED
    BY <1>2, <1>4, <2>1, ResumeType
<1>6. HistoryType'
  BY <1>1, <1>2, <1>4, <1>5 DEF HistoryType, StepKeeps
<1> QED
  BY <1>3, <1>5, <1>6, TypeInvPartsNext DEF StepKeeps

\* A step that ends without its answer's body: whatever it was to do with its
\* event, it leaves the queue, the counts and the server alone.
LEMMA BodyLostLeaves ==
    ASSUME TypeInv, BodyLost
    PROVE  /\ post.state = "answered" /\ here /\ doing' = "idle" /\ post' = NoPost
           /\ UNCHANGED <<server, open, late, follows, here, queue, index, taken, reported, saved,
                          dropped, left, lost, resent, struck, loads>>
           /\ skipped \subseteq skipped' /\ turns' \in Nat /\ unread' \in BOOLEAN
           /\ \/ UNCHANGED <<pipe, skipped, unnamed>>
              \/ /\ doing = "naming" /\ pipe # <<>> /\ pipe' = Tail(pipe) /\ unnamed'
                 /\ skipped' = skipped \cup NotTaken(Head(pipe))
<1>1. StepFits /\ HistoryType
  BY TypeInvParts
<1> QED
  BY <1>1 DEF BodyLost, StepFits, HistoryType, Fault, Turn, Turns

\* Ending a step that way keeps the types.
LEMMA BodyLostType ==
    ASSUME TypeInv, BodyLost
    PROVE  TypeInv'
<1>1. ServerType /\ NetworkType /\ BrowserType /\ HistoryType /\ StepFits /\ seq \in Nat
  BY TypeInvParts, SeqType
<1>2. /\ here /\ doing' = "idle" /\ post' = NoPost
      /\ UNCHANGED <<server, open, late, follows, here, queue, index, taken, reported, saved,
                     dropped, left, lost, resent, struck, loads>>
      /\ turns' \in Nat /\ unread' \in BOOLEAN
  BY BodyLostLeaves
<1>3. ServerType' /\ seq' = seq
  BY <1>1, <1>2, ServerSame
<1>4. BrowserType' /\ StepFits'
  BY <1>1, <1>2, <1>3, NoPostType DEF BrowserType, StepFits, SavedFits
<1>5. CASE UNCHANGED <<pipe, skipped, unnamed>>
  <2>1. NetworkType' /\ HistoryType'
    BY <1>1, <1>2, <1>3, <1>5, NoPostType DEF NetworkType, EventsMade, HistoryType
  <2> QED
    BY <1>3, <1>4, <2>1, TypeInvPartsNext
<1>6. CASE /\ pipe # <<>> /\ pipe' = Tail(pipe) /\ unnamed'
           /\ skipped' = skipped \cup NotTaken(Head(pipe))
  <2>1. /\ Head(pipe).waiting \subseteq 1..seq
        /\ pipe' \in Seq(Event)
        /\ \A i \in 1..Len(pipe') : i + 1 \in 1..Len(pipe) /\ pipe'[i] = pipe[i + 1]
    BY <1>1, <1>6, HeadOfPipe
  <2>2. EventsMade'
    <3>1. ASSUME NEW i \in 1..Len(pipe')
          PROVE  pipe'[i].applied <= seq' /\ pipe'[i].waiting \subseteq 1..seq'
      BY <1>1, <1>3, <2>1 DEF NetworkType, EventsMade
    <3> QED
      BY <2>1, <3>1 DEF EventsMade
  <2>3. NetworkType'
    BY <1>1, <1>2, <2>1, <2>2, NoPostType DEF NetworkType
  <2>4. NotTaken(Head(pipe)) \subseteq Nat
    BY <1>1, <2>1 DEF NotTaken
  <2>5. HistoryType'
    BY <1>1, <1>2, <1>6, <2>4 DEF HistoryType
  <2> QED
    BY <1>3, <1>4, <2>3, <2>5, TypeInvPartsNext
<1> QED
  BY <1>5, <1>6, BodyLostLeaves

\* What the page knows of its party changes: nothing else does, but the turns.
Attaching == Attach \/ AttachFails \/ StreamRefused \/ StartAgain

LEMMA AttachingLeaves ==
    ASSUME Attaching, turns \in Nat
    PROVE  /\ UNCHANGED <<server, network, here, queue, index, taken, reported, doing, saved, history,
                          loads>>
           /\ follows' \in {"asking", "yes", "refused", "no"} /\ turns' \in Nat
BY DEF Attaching, Attach, AttachFails, StreamRefused, StartAgain, Follows, Fault, Turn, Turns

LEMMA AttachingType ==
    ASSUME TypeInv, Attaching
    PROVE  TypeInv'
<1>1. ServerType /\ NetworkType /\ BrowserType /\ HistoryType /\ StepFits
  BY TypeInvParts
<1>2. /\ UNCHANGED <<server, network, here, queue, index, taken, reported, doing, saved, history,
                     loads>>
      /\ follows' \in {"asking", "yes", "refused", "no"} /\ turns' \in Nat
  BY <1>1, AttachingLeaves DEF HistoryType
<1>3. ServerType' /\ seq' = seq /\ NetworkType'
  BY <1>1, <1>2, ServerSame, NetworkSame
<1>4. BrowserType' /\ HistoryType' /\ StepFits'
  BY <1>1, <1>2, <1>3 DEF network, history, BrowserType, HistoryType, StepFits, SavedFits
<1> QED
  BY <1>3, <1>4, TypeInvPartsNext

\* A page that goes finds the queue as saved, now or before.
LEMMA PageGoesType ==
    ASSUME TypeInv, NEW s \in [queue : Seq(Track), index : Nat],
           s.index \in 1..Max2(1, Len(s.queue)),
           PageGoes(s), lost' \subseteq Int
    PROVE  TypeInv'
<1>1. ServerType /\ NetworkType /\ BrowserType /\ HistoryType /\ StepFits
  BY TypeInvParts
<1>2. /\ loads' = loads + 1 /\ Abandon
      /\ open' = FALSE /\ pipe' = <<>> /\ post' = NoPost
      /\ follows' = "asking" /\ here' = FALSE /\ queue' = <<>> /\ index' = 1
      /\ taken' = 0 /\ reported' = NotReported /\ doing' = "idle"
      /\ saved' = s
      /\ resent' = resent \cup {k \in SrcsOf(s.queue) : k > applied}
      /\ unread' = FALSE
      /\ UNCHANGED <<server, dropped, left, struck, unnamed, skipped>>
  BY DEF PageGoes
<1>3. ServerType' /\ seq' \in Nat
  BY <1>1, <1>2, ServerSame, SeqType
<1>4. NetworkType'
  <2>1. pipe' \in Seq(Event) /\ DOMAIN pipe' = {}
    BY <1>2
  <2>2. EventsMade'
    BY <2>1 DEF EventsMade
  <2> QED
    BY <1>1, <1>2, <2>1, <2>2, AbandonType, NoPostType DEF NetworkType, HistoryType
<1>5. BrowserType'
  <2>1. queue' \in Seq(Track) /\ Len(queue') = 0
    BY <1>2
  <2>2. index' \in 1..Max2(1, Len(queue')) /\ taken' \in 0..seq'
    BY <1>2, <1>3, <2>1 DEF Max2
  <2> QED
    BY <1>2, <2>1, <2>2 DEF BrowserType, SavedFits
<1>6. StepFits'
  BY <1>2, NoPostType DEF StepFits
<1>7. HistoryType'
  <2>1. SrcsOf(s.queue) \subseteq Int
    BY SrcsOfType
  <2> DEFINE again == {k \in SrcsOf(s.queue) : k > applied}
  <2>2. \A k \in again : k \in SrcsOf(s.queue)
    OBVIOUS
  <2>3. resent' = resent \cup again
    BY <1>2
  <2> HIDE DEF again
  <2>4. resent' \subseteq Int
    BY <1>1, <2>1, <2>2, <2>3 DEF HistoryType
  <2>5. turns' \in Nat /\ loads' \in Nat
    BY <1>1, <1>2, AbandonType DEF HistoryType
  <2>6. UNCHANGED <<dropped, left, struck, unnamed, skipped>> /\ unread' = FALSE
    BY <1>2
  <2> QED
    BY <1>1, <2>4, <2>5, <2>6 DEF HistoryType
<1> QED
  BY <1>3, <1>4, <1>5, <1>6, <1>7, TypeInvPartsNext

\* A reload saves what there is.
LEMMA ReloadType ==
    ASSUME TypeInv, Reload
    PROVE  TypeInv'
<1>1. BrowserType /\ HistoryType
  BY TypeInvParts
<1> DEFINE s == IF here /\ queue # <<>> THEN PlayState ELSE saved
<1>2. s \in [queue : Seq(Track), index : Nat] /\ s.index \in 1..Max2(1, Len(s.queue))
  BY <1>1, PlayStateType DEF BrowserType, SavedFits
<1>3. PageGoes(s) /\ lost' \subseteq Int
  BY <1>1 DEF Reload, HistoryType
<1> HIDE DEF s
<1> QED
  BY <1>2, <1>3, PageGoesType

\* A crash saves nothing, and what it loses is accounted for.
LEMMA CrashType ==
    ASSUME TypeInv, Crash
    PROVE  TypeInv'
<1>1. BrowserType /\ HistoryType
  BY TypeInvParts
<1>2. saved \in [queue : Seq(Track), index : Nat] /\ saved.index \in 1..Max2(1, Len(saved.queue))
  BY <1>1 DEF BrowserType, SavedFits
<1>3. PageGoes(saved) /\ lost' \subseteq Int
  <2>1. SrcsOf(queue) \subseteq Int
    BY <1>1, SrcsOfType DEF BrowserType
  <2> QED
    BY <1>1, <2>1 DEF Crash, HistoryType
<1> QED
  BY <1>2, <1>3, PageGoesType

\* Nothing happens.
LEMMA StutterType ==
    ASSUME TypeInv, UNCHANGED vars
    PROVE  TypeInv'
<1>1. ServerType /\ NetworkType /\ BrowserType /\ HistoryType /\ StepFits
  BY TypeInvParts
<1>2. ServerType' /\ seq' = seq
  BY <1>1, ServerSame DEF vars
<1>3. NetworkType'
  BY <1>1, <1>2, NetworkSame DEF vars
<1>4. BrowserType' /\ HistoryType' /\ StepFits'
  BY <1>1, <1>2 DEF vars, network, browser, history, BrowserType, HistoryType, StepFits, SavedFits
<1> QED
  BY <1>2, <1>3, <1>4, TypeInvPartsNext

\* Every step keeps the types.
LEMMA TypeInvStep == TypeInv /\ [Next]_vars => TypeInv'
<1> SUFFICES ASSUME TypeInv, [Next]_vars PROVE TypeInv'
  OBVIOUS
<1>1. CASE Member
  BY <1>1, EnqueueType, WithdrawType DEF Member
<1>2. CASE Host
  <2>1. ASSUME Skip(1) \/ Skip(-1) PROVE TypeInv'
    BY <2>1, SkipType
  <2> QED
    BY <1>2, <2>1, RemoveMemberType, RemoveAtType, AttachingType DEF Host, Attaching
<1>3. CASE Work
  BY <1>3, BeginHostType, BeginType, CheckType, AnsweredType DEF Work
<1>4. CASE Receive \/ ReceiveLate
  BY <1>4, ReceiveType, ReceiveLateType
<1>5. CASE Attach \/ StreamOpens \/ Restore \/ Persist
  BY <1>5, AttachingType, StreamOpensType, SavingType DEF Attaching
<1>6. CASE Trouble
  BY <1>6, StreamDropsType, AttachingType, FailsType, BodyLostType, RestoreFailsType, ReloadType,
     CrashType DEF Trouble, Attaching
<1>7. CASE UNCHANGED vars
  BY <1>7, StutterType
<1> QED
  BY <1>1, <1>2, <1>3, <1>4, <1>5, <1>6, <1>7 DEF Next

\* The types hold in every state: among the rest, `applied` never passes the
\* last addition made, only held additions are marked as taken back, and the
\* player's `index` stays in its queue, through every interleaving of
\* together.ts reportQueue with drops, late reports, reloads and crashes.
THEOREM TypeCorrect == Spec => []TypeOK
<1>1. TypeInv => TypeOK
  BY DEF TypeInv
<1> QED
  BY <1>1, InitType, TypeInvStep, PTL DEF Spec

-----------------------------------------------------------------------------
(* No addition is lost.  The server counts every addition up to `applied`  *)
(* as taken, on the word of reports that say how far the browser has come. *)
(* That is sound because every count on its way, the browser's own, the    *)
(* report awaited, the reports given up on and the events not handled yet, *)
(* covers only additions that are settled; and because events offer        *)
(* additions in turn, so that taking one leaves none before it behind.     *)

\* The addition reached the queue, or its absence from it is accounted for.
Settled(k) == \/ k \in dropped \/ k \in SrcsOf(queue)
              \/ ~here /\ k \in SrcsOf(saved.queue)
              \/ k \in left \/ k \in TakenBack \/ k \in lost \/ k \in skipped

\* One of the first n events on their way offers it.
Offered(k, n) == \E i \in 1..n : k \in pipe[i].waiting

\* Some count of what was taken covers it.
Counted(k) == \/ k <= applied \/ k <= taken \/ k <= post.applied
              \/ \E r \in late : k <= r.applied
              \/ \E i \in 1..Len(pipe) : k <= pipe[i].applied

NoneForgotten == \A k \in 1..seq : k \in additions \/ k <= applied \/ k \in dropped

CountedSettled == \A k \in Nat \ {0} : Counted(k) => k \in 1..seq /\ Settled(k)

OfferedInTurn ==
    \A i \in 1..Len(pipe) : \A w \in pipe[i].waiting :
        \A k \in 1..seq : k < w => Settled(k) \/ Offered(k, i)

AllOffered == open => \A k \in 1..seq : Settled(k) \/ Offered(k, Len(pipe))

NoneLostInv == TypeInv /\ NoneForgotten /\ CountedSettled /\ OfferedInTurn /\ AllOffered

\* The inductive invariant says that nothing is lost.
LEMMA NoneLostInvImplies == NoneLostInv => NoneLost
<1> SUFFICES ASSUME NoneLostInv, NEW k \in 1..seq
             PROVE  \/ k \in Waiting \/ k \in dropped
                    \/ k \in SrcsOf(queue) \/ (~here /\ k \in SrcsOf(saved.queue))
                    \/ k \in left \/ k \in TakenBack \/ k \in lost \/ k \in skipped
  BY DEF NoneLost
<1>1. seq \in Nat /\ applied \in Nat
  BY TypeInvParts, SeqType DEF NoneLostInv
<1>2. k \in additions \/ k <= applied \/ k \in dropped
  BY DEF NoneLostInv, NoneForgotten
<1>3. k <= applied => Settled(k)
  BY <1>1 DEF NoneLostInv, CountedSettled, Counted
<1>4. k \in additions /\ ~(k <= applied) => k \in Waiting
  BY <1>1 DEF Waiting
<1> QED
  BY <1>2, <1>3, <1>4 DEF Settled

\* Nothing is made, counted or offered at first.
LEMMA InitNoneLost == Init => NoneLostInv
<1> SUFFICES ASSUME Init PROVE NoneLostInv
  OBVIOUS
<1>1. TypeInv
  BY InitType
<1>2. made = <<>> /\ applied = 0 /\ taken = 0 /\ post = NoPost /\ late = {} /\ pipe = <<>> /\ open = FALSE
  BY DEF Init
<1>3. seq = 0 /\ Len(pipe) = 0 /\ post.applied = 0
  BY <1>2 DEF seq, NoPost
<1>4. NoneForgotten /\ OfferedInTurn /\ AllOffered
  BY <1>2, <1>3 DEF NoneForgotten, OfferedInTurn, AllOffered
<1>5. CountedSettled
  BY <1>2, <1>3 DEF CountedSettled, Counted
<1> QED
  BY <1>1, <1>4, <1>5 DEF NoneLostInv

(***************************************************************************)
(* What a step has to keep of the events on their way: it hands on the     *)
(* first of them, adds one, or loses some from the end.                    *)
(***************************************************************************)

\* What was settled stays settled.
SettledStays == \A k \in 1..seq : Settled(k) => Settled(k)'

EventsKept == OfferedInTurn' /\ AllOffered'

\* Events lost from the end leave the others in turn, the stream closed.
LEMMA EventsCut ==
    ASSUME NoneLostInv, seq' \in Nat, seq <= seq', SettledStays,
           Len(pipe') \in 0..Len(pipe), \A i \in 1..Len(pipe') : pipe'[i] = pipe[i],
           open' => open /\ Len(pipe') = Len(pipe) /\ seq' = seq
    PROVE  EventsKept
<1>1. Len(pipe) \in Nat /\ DOMAIN pipe = 1..Len(pipe) /\ seq \in Nat /\ EventsMade
  BY TypeInvParts, SeqType DEF NoneLostInv, NetworkType
<1>2. ASSUME NEW k, NEW i \in 1..Len(pipe'), Offered(k, i) PROVE Offered(k, i)'
  BY <1>1, <1>2 DEF Offered
<1>3. OfferedInTurn'
  <2>1. SUFFICES ASSUME NEW i \in 1..Len(pipe'), NEW w \in pipe'[i].waiting,
                        NEW k \in 1..seq', k < w
                 PROVE  Settled(k)' \/ Offered(k, i)'
    BY DEF OfferedInTurn
  <2>2. i \in 1..Len(pipe) /\ w \in pipe[i].waiting
    BY <1>1
  <2>3. w \in 1..seq
    BY <1>1, <2>2 DEF EventsMade
  <2>4. k \in 1..seq
    BY <1>1, <2>1, <2>3
  <2>5. Settled(k) \/ Offered(k, i)
    BY <2>1, <2>2, <2>4 DEF NoneLostInv, OfferedInTurn
  <2> QED
    BY <1>2, <2>4, <2>5 DEF SettledStays
<1>4. AllOffered'
  <2>1. SUFFICES ASSUME open', NEW k \in 1..seq'
                 PROVE  Settled(k)' \/ Offered(k, Len(pipe))'
    BY DEF AllOffered
  <2>2. Settled(k) \/ Offered(k, Len(pipe))
    BY <2>1 DEF NoneLostInv, AllOffered
  <2>3. Offered(k, Len(pipe)) => Offered(k, Len(pipe))'
    BY <1>1, <2>1 DEF Offered
  <2> QED
    BY <2>1, <2>2, <2>3 DEF SettledStays
<1> QED
  BY <1>3, <1>4 DEF EventsKept

\* An event added in turn offers all that is neither settled nor offered.
LEMMA EventsAdded ==
    ASSUME NoneLostInv, seq' \in Nat, seq <= seq', SettledStays,
           Len(pipe') = Len(pipe) + 1, \A i \in 1..Len(pipe) : pipe'[i] = pipe[i],
           \A k \in 1..seq' : \/ k \in 1..seq /\ (Settled(k) \/ Offered(k, Len(pipe)))
                              \/ k \in pipe'[Len(pipe')].waiting
    PROVE  EventsKept
<1>1. Len(pipe) \in Nat /\ DOMAIN pipe = 1..Len(pipe) /\ seq \in Nat /\ EventsMade
  BY TypeInvParts, SeqType DEF NoneLostInv, NetworkType
<1>2. ASSUME NEW k, NEW i \in 1..Len(pipe), Offered(k, i) PROVE Offered(k, i)'
  BY <1>1, <1>2 DEF Offered
<1>3. ASSUME NEW k \in 1..seq' PROVE Settled(k)' \/ Offered(k, Len(pipe))'
  <2>1. CASE k \in 1..seq /\ Settled(k)
    BY <2>1 DEF SettledStays
  <2>2. CASE Offered(k, Len(pipe))
    <3>1. PICK i \in 1..Len(pipe) : k \in pipe[i].waiting
      BY <2>2 DEF Offered
    <3>2. i \in 1..Len(pipe') /\ k \in pipe'[i].waiting
      BY <1>1, <3>1
    <3> QED
      BY <3>2 DEF Offered
  <2>3. CASE k \in pipe'[Len(pipe')].waiting
    BY <1>1, <2>3 DEF Offered
  <2> QED
    BY <2>1, <2>2, <2>3
<1>4. OfferedInTurn'
  <2>1. SUFFICES ASSUME NEW i \in 1..Len(pipe'), NEW w \in pipe'[i].waiting,
                        NEW k \in 1..seq', k < w
                 PROVE  Settled(k)' \/ Offered(k, i)'
    BY DEF OfferedInTurn
  <2>2. CASE i = Len(pipe')
    BY <1>3, <2>2 DEF Offered
  <2>3. CASE i \in 1..Len(pipe)
    <3>1. w \in pipe[i].waiting /\ w \in 1..seq
      BY <1>1, <2>3 DEF EventsMade
    <3>2. k \in 1..seq
      BY <1>1, <2>1, <3>1
    <3>3. Settled(k) \/ Offered(k, i)
      BY <2>1, <2>3, <3>1, <3>2 DEF NoneLostInv, OfferedInTurn
    <3> QED
      BY <1>2, <2>3, <3>2, <3>3 DEF SettledStays
  <2> QED
    BY <1>1, <2>2, <2>3
<1>5. AllOffered'
  BY <1>3 DEF AllOffered
<1> QED
  BY <1>4, <1>5 DEF EventsKept

\* An event handled leaves the others in turn, what it offered settled.
LEMMA EventsHandled ==
    ASSUME NoneLostInv, seq' = seq, SettledStays, pipe # <<>>, pipe' = Tail(pipe), open' = open,
           \A k \in Head(pipe).waiting : Settled(k)'
    PROVE  EventsKept
<1>1. /\ Len(pipe) \in Nat \ {0} /\ Head(pipe) = pipe[1] /\ Len(pipe') = Len(pipe) - 1
      /\ \A i \in 1..Len(pipe') : i + 1 \in 1..Len(pipe) /\ pipe'[i] = pipe[i + 1]
  <2>1. NetworkType /\ pipe \in Seq(Event)
    BY TypeInvParts DEF NoneLostInv, NetworkType
  <2> QED
    BY <2>1, HeadOfPipe
<1>2. ASSUME NEW k, NEW i \in 0..Len(pipe'), Offered(k, i + 1)
      PROVE  Settled(k)' \/ Offered(k, i)'
  <2>1. PICK j \in 1..(i + 1) : k \in pipe[j].waiting
    BY <1>2 DEF Offered
  <2>2. CASE j = 1
    BY <1>1, <2>1, <2>2
  <2>3. CASE j > 1
    <3>1. j - 1 \in 1..i /\ j - 1 \in 1..Len(pipe') /\ (j - 1) + 1 = j
      BY <1>1, <2>1, <2>3
    <3>2. k \in pipe'[j - 1].waiting
      BY <1>1, <2>1, <3>1
    <3> QED
      BY <3>1, <3>2 DEF Offered
  <2> QED
    BY <2>1, <2>2, <2>3
<1>3. OfferedInTurn'
  <2>1. SUFFICES ASSUME NEW i \in 1..Len(pipe'), NEW w \in pipe'[i].waiting,
                        NEW k \in 1..seq, k < w
                 PROVE  Settled(k)' \/ Offered(k, i)'
    BY DEF OfferedInTurn
  <2>2. i + 1 \in 1..Len(pipe) /\ w \in pipe[i + 1].waiting /\ i \in 0..Len(pipe')
    BY <1>1
  <2>3. Settled(k) \/ Offered(k, i + 1)
    BY <2>1, <2>2 DEF NoneLostInv, OfferedInTurn
  <2> QED
    BY <1>2, <2>2, <2>3 DEF SettledStays
<1>4. AllOffered'
  <2>1. SUFFICES ASSUME open, NEW k \in 1..seq
                 PROVE  Settled(k)' \/ Offered(k, Len(pipe))'
    BY DEF AllOffered
  <2>2. Settled(k) \/ Offered(k, Len(pipe))
    BY <2>1 DEF NoneLostInv, AllOffered
  <2>3. Len(pipe') \in 0..Len(pipe') /\ Len(pipe) = Len(pipe') + 1
    BY <1>1
  <2>4. Offered(k, Len(pipe)) => Settled(k)' \/ Offered(k, Len(pipe))'
    BY <1>2, <2>3 DEF Offered
  <2> QED
    BY <2>2, <2>4 DEF SettledStays
<1> QED
  BY <1>3, <1>4 DEF EventsKept

\* A count covers only what is settled, if what it grew by is.
LEMMA CountedNext ==
    ASSUME NoneLostInv, seq' \in Nat, seq <= seq', SettledStays,
           \A k \in Nat \ {0} : Counted(k)' => Counted(k) \/ (k \in 1..seq' /\ Settled(k)')
    PROVE  CountedSettled'
<1>1. seq \in Nat
  BY TypeInvParts, SeqType DEF NoneLostInv
<1>2. ASSUME NEW k \in Nat \ {0}, Counted(k)' PROVE k \in 1..seq' /\ Settled(k)'
  <2>1. CASE Counted(k)
    <3>1. k \in 1..seq /\ Settled(k)
      BY <2>1 DEF NoneLostInv, CountedSettled
    <3> QED
      BY <1>1, <3>1 DEF SettledStays
  <2> QED
    BY <1>2, <2>1
<1> QED
  BY <1>2 DEF CountedSettled

\* What is settled stays so while nothing leaves a queue.
LEMMA SettledSame ==
    ASSUME UNCHANGED <<dropped, here, queue, saved, left, struck, lost, skipped>>
    PROVE  SettledStays
BY DEF SettledStays, Settled, SrcsOf, TakenBack

\* A step that leaves counts, additions and events alone.
LEMMA QuietStep ==
    ASSUME NoneLostInv, TypeInv', SettledStays,
           UNCHANGED <<made, additions, applied, taken, post, late, open, pipe>>,
           dropped \subseteq dropped'
    PROVE  NoneLostInv'
<1>1. seq' = seq /\ seq \in Nat /\ Len(pipe) \in Nat
  BY TypeInvParts, SeqType DEF NoneLostInv, NetworkType, seq
<1>2. NoneForgotten'
  BY <1>1 DEF NoneLostInv, NoneForgotten
<1>3. CountedSettled'
  <2>1. \A k \in Nat \ {0} : Counted(k)' => Counted(k)
    BY DEF Counted
  <2> QED
    BY <1>1, <2>1, CountedNext
<1>4. EventsKept
  BY <1>1, EventsCut
<1> QED
  BY <1>2, <1>3, <1>4 DEF NoneLostInv, EventsKept

-----------------------------------------------------------------------------
(* The actions of the members and of the server *)

\* An addition waits, and is offered last.
LEMMA EnqueueKeeps ==
    ASSUME NoneLostInv, NEW m \in Members, NEW s \in Songs, Enqueue(m, s)
    PROVE  NoneLostInv'
<1>1. TypeInv' /\ ServerType /\ NetworkType /\ BrowserType /\ seq \in Nat
  BY EnqueueType, TypeInvParts, SeqType DEF NoneLostInv
<1>2. /\ made' = Append(made, [song |-> s, member |-> m])
      /\ additions' = additions \cup {seq + 1}
      /\ ToHost(AddEvent(seq + 1))
      /\ UNCHANGED <<applied, open, post, late, taken>>
      /\ UNCHANGED <<dropped, here, queue, saved, left, struck, lost, skipped>>
  BY DEF Enqueue, browser, history
<1>3. seq' = seq + 1
  BY <1>1, <1>2 DEF ServerType, seq
<1>4. SettledStays
  BY <1>2, SettledSame
<1>5. NoneForgotten'
  BY <1>1, <1>2, <1>3 DEF NoneLostInv, NoneForgotten
<1>6. /\ AddEvent(seq + 1) \in Event /\ AddEvent(seq + 1).waiting = {seq + 1}
      /\ AddEvent(seq + 1).applied = 0
      /\ pipe \in Seq(Event) /\ open \in BOOLEAN /\ Len(pipe) \in Nat
  BY <1>1 DEF AddEvent, Event, NetworkType
<1>7. /\ pipe' \in Seq(Event)
      /\ \A i \in 1..Len(pipe) : pipe'[i] = pipe[i]
      /\ \A i \in 1..Len(pipe') : i \in 1..Len(pipe) \/ pipe'[i] = AddEvent(seq + 1)
      /\ open => Len(pipe') = Len(pipe) + 1 /\ pipe'[Len(pipe')] = AddEvent(seq + 1)
  BY <1>2, <1>6, ToHostType
<1>8. CountedSettled'
  <2>1. \A k \in Nat \ {0} : Counted(k)' => Counted(k)
    BY <1>2, <1>6, <1>7 DEF Counted
  <2> QED
    BY <1>1, <1>3, <1>4, <2>1, CountedNext
<1>9. EventsKept
  <2>1. CASE open
    <3>1. ASSUME NEW k \in 1..seq'
          PROVE  \/ k \in 1..seq /\ (Settled(k) \/ Offered(k, Len(pipe)))
                 \/ k \in pipe'[Len(pipe')].waiting
      <4>1. k \in 1..seq \/ k = seq + 1
        BY <1>1, <1>3
      <4> QED
        BY <1>6, <1>7, <2>1, <4>1 DEF NoneLostInv, AllOffered
    <3> QED
      BY <1>1, <1>3, <1>4, <1>6, <1>7, <2>1, <3>1, EventsAdded
  <2>2. CASE ~open
    <3>1. pipe' = pipe /\ ~open'
      BY <1>2, <2>2 DEF ToHost
    <3> QED
      BY <1>1, <1>3, <1>4, <1>6, <3>1, EventsCut
  <2> QED
    BY <2>1, <2>2
<1> QED
  BY <1>1, <1>5, <1>8, <1>9 DEF NoneLostInv, EventsKept

\* An addition dropped is settled by that.
LEMMA WithdrawKeeps ==
    ASSUME NoneLostInv, NEW m \in Members, NEW k \in Seqs, Withdraw(m, k)
    PROVE  NoneLostInv'
<1>1. TypeInv' /\ ServerType /\ NetworkType /\ seq \in Nat
  BY WithdrawType, TypeInvParts, SeqType DEF NoneLostInv
<1>2. /\ UNCHANGED <<made, applied, taken, post, late, open>>
      /\ UNCHANGED <<here, queue, saved, left, struck, lost, skipped>>
      /\ \/ additions' = additions \ {k} /\ dropped' = dropped \cup {k} /\ pipe' = pipe
         \/ ToHost(RemoveEvent(k)) /\ UNCHANGED <<additions, dropped>>
  BY DEF Withdraw, browser
<1>3. seq' = seq /\ dropped \subseteq dropped'
  BY <1>2 DEF seq
<1>4. SettledStays
  BY <1>2, <1>3 DEF SettledStays, Settled, SrcsOf, TakenBack
<1>5. NoneForgotten'
  BY <1>2, <1>3 DEF NoneLostInv, NoneForgotten
<1>6. pipe \in Seq(Event) /\ open \in BOOLEAN /\ Len(pipe) \in Nat
  BY <1>1 DEF NetworkType
<1>7. CASE pipe' = pipe
  <2>1. CountedSettled'
    <3>1. \A n \in Nat \ {0} : Counted(n)' => Counted(n)
      BY <1>2, <1>7 DEF Counted
    <3> QED
      BY <1>1, <1>3, <1>4, <3>1, CountedNext
  <2>2. EventsKept
    BY <1>1, <1>2, <1>3, <1>4, <1>6, <1>7, EventsCut
  <2> QED
    BY <1>1, <1>5, <2>1, <2>2 DEF NoneLostInv, EventsKept
<1>8. CASE open /\ ToHost(RemoveEvent(k))
  <2>1. RemoveEvent(k) \in Event /\ RemoveEvent(k).applied = 0
    <3>1. k \in Nat
      BY DEF Seqs
    <3> QED
      BY <3>1 DEF RemoveEvent, Event
  <2>2. /\ pipe' \in Seq(Event)
        /\ \A i \in 1..Len(pipe) : pipe'[i] = pipe[i]
        /\ \A i \in 1..Len(pipe') : i \in 1..Len(pipe) \/ pipe'[i] = RemoveEvent(k)
        /\ Len(pipe') = Len(pipe) + 1
    BY <1>6, <1>8, <2>1, ToHostType
  <2>3. CountedSettled'
    <3>1. \A n \in Nat \ {0} : Counted(n)' => Counted(n)
      BY <1>2, <2>1, <2>2 DEF Counted
    <3> QED
      BY <1>1, <1>3, <1>4, <3>1, CountedNext
  <2>4. EventsKept
    <3>1. \A n \in 1..seq' : n \in 1..seq /\ (Settled(n) \/ Offered(n, Len(pipe)))
      BY <1>3, <1>8 DEF NoneLostInv, AllOffered
    <3> QED
      BY <1>1, <1>3, <1>4, <2>2, <3>1, EventsAdded
  <2> QED
    BY <1>1, <1>5, <2>3, <2>4 DEF NoneLostInv, EventsKept
<1> QED
  BY <1>2, <1>7, <1>8 DEF ToHost

\* What goes with its member is settled by that.
LEMMA RemoveMemberKeeps ==
    ASSUME NoneLostInv, NEW m \in Members, RemoveMember(m)
    PROVE  NoneLostInv'
<1>1. TypeInv' /\ NetworkType /\ seq \in Nat
  BY RemoveMemberType, TypeInvParts, SeqType DEF NoneLostInv
<1>2. PICK gone \in SUBSET Waiting : additions' = additions \ gone /\ dropped' = dropped \cup gone
  BY DEF RemoveMember
<1>3. /\ UNCHANGED <<made, applied, taken, post, late, open, pipe>>
      /\ UNCHANGED <<here, queue, saved, left, struck, lost, skipped>>
  BY DEF RemoveMember, network, browser
<1>4. seq' = seq
  BY <1>3 DEF seq
<1>5. SettledStays
  BY <1>2, <1>3 DEF SettledStays, Settled, SrcsOf, TakenBack
<1>6. NoneForgotten'
  BY <1>2, <1>3, <1>4 DEF NoneLostInv, NoneForgotten
<1>7. CountedSettled'
  <2>1. \A k \in Nat \ {0} : Counted(k)' => Counted(k)
    BY <1>3 DEF Counted
  <2> QED
    BY <1>1, <1>4, <1>5, <2>1, CountedNext
<1>8. EventsKept
  <2>1. Len(pipe) \in Nat
    BY <1>1 DEF NetworkType
  <2> QED
    BY <1>1, <1>3, <1>4, <1>5, <2>1, EventsCut
<1> QED
  BY <1>1, <1>6, <1>7, <1>8 DEF NoneLostInv, EventsKept

\* `applied` grows to what the browser said it had taken.
LEMMA ReceiveKeeps ==
    ASSUME NoneLostInv, Receive
    PROVE  NoneLostInv'
<1>1. /\ TypeInv' /\ seq' = seq /\ post'.applied = post.applied
      /\ applied <= applied' /\ (applied' = applied \/ applied' <= post.applied)
      /\ \A k \in additions : k \in additions' \/ k <= applied'
  BY ReceiveType DEF NoneLostInv
<1>2. NetworkType /\ seq \in Nat /\ applied \in Nat /\ applied' \in Nat /\ post.applied \in Nat
      /\ Len(pipe) \in Nat
  <2>1. ServerType' /\ seq' \in Nat
    BY <1>1 DEF TypeInv, TypeOK, ServerType, seq
  <2>2. applied' \in Nat
    BY <2>1 DEF ServerType
  <2> QED
    BY <2>2, TypeInvParts, SeqType DEF NoneLostInv, NetworkType, Post
<1>3. UNCHANGED <<open, pipe, late, taken>> /\ UNCHANGED <<dropped, here, queue, saved, left, struck, lost, skipped>>
  BY DEF Receive, browser, history
<1>4. SettledStays
  BY <1>3, SettledSame
<1>5. NoneForgotten'
  BY <1>1, <1>2, <1>3 DEF NoneLostInv, NoneForgotten
<1>6. CountedSettled'
  <2>1. \A k \in Nat \ {0} : Counted(k)' => Counted(k)
    BY <1>1, <1>2, <1>3 DEF Counted
  <2> QED
    BY <1>1, <1>2, <1>4, <2>1, CountedNext
<1>7. EventsKept
  BY <1>1, <1>2, <1>3, <1>4, EventsCut
<1> QED
  BY <1>1, <1>5, <1>6, <1>7 DEF NoneLostInv, EventsKept

\* Or to what it said before.
LEMMA ReceiveLateKeeps ==
    ASSUME NoneLostInv, ReceiveLate
    PROVE  NoneLostInv'
<1>1. TypeInv' /\ ServerType /\ NetworkType /\ seq \in Nat /\ applied \in Nat /\ Len(pipe) \in Nat
  BY ReceiveLateType, TypeInvParts, SeqType DEF NoneLostInv, NetworkType
<1>2. PICK request \in late :
          /\ late' = late \ {request}
          /\ ReportQueue(request.applied, request.songs)
          /\ UNCHANGED <<open, pipe, post, browser, saved, history, loads, turns>>
  BY DEF ReceiveLate
<1>3. request.applied \in Nat /\ request.songs \in Seq(Songs)
  BY <1>1, <1>2 DEF NetworkType, Signature
<1>4. /\ ServerType' /\ seq' = seq
      /\ applied <= applied' /\ (applied' = applied \/ applied' <= request.applied)
      /\ \A k \in additions : k \in additions' \/ k <= applied'
  BY <1>1, <1>2, <1>3, ReportQueueKeeps
<1>5. applied' \in Nat
  BY <1>1, <1>4 DEF ServerType
<1>6. UNCHANGED <<open, pipe, post, taken>> /\ UNCHANGED <<dropped, here, queue, saved, left, struck, lost, skipped>>
  BY <1>2 DEF browser, history
<1>7. SettledStays
  BY <1>6, SettledSame
<1>8. NoneForgotten'
  BY <1>1, <1>4, <1>5, <1>6 DEF NoneLostInv, NoneForgotten
<1>9. CountedSettled'
  <2>1. \A k \in Nat \ {0} : Counted(k)' => Counted(k)
    BY <1>1, <1>2, <1>3, <1>4, <1>5, <1>6 DEF Counted
  <2> QED
    BY <1>1, <1>4, <1>7, <2>1, CountedNext
<1>10. EventsKept
  BY <1>1, <1>4, <1>6, <1>7, EventsCut
<1> QED
  BY <1>1, <1>8, <1>9, <1>10 DEF NoneLostInv, EventsKept

-----------------------------------------------------------------------------
(* The stream *)

\* A stream that opens is offered all that is not settled.
LEMMA StreamOpensKeeps ==
    ASSUME NoneLostInv, StreamOpens
    PROVE  NoneLostInv'
<1>1. TypeInv' /\ ServerType /\ NetworkType /\ seq \in Nat /\ applied \in Nat
      /\ pipe \in Seq(Event) /\ Len(pipe) \in Nat
  BY StreamOpensType, TypeInvParts, SeqType DEF NoneLostInv, NetworkType
<1>2. /\ pipe' = Append(pipe, HostEvent)
      /\ UNCHANGED <<made, additions, applied, post, late, taken>>
      /\ UNCHANGED <<dropped, here, queue, saved, left, struck, lost, skipped>>
  BY DEF StreamOpens, server, browser, history
<1>3. seq' = seq
  BY <1>2 DEF seq
<1>4. /\ Len(pipe') = Len(pipe) + 1 /\ \A i \in 1..Len(pipe) : pipe'[i] = pipe[i]
      /\ pipe'[Len(pipe')] = HostEvent
  BY <1>1, <1>2
<1>5. SettledStays
  BY <1>2, SettledSame
<1>6. NoneForgotten'
  BY <1>2, <1>3 DEF NoneLostInv, NoneForgotten
<1>7. CountedSettled'
  <2>1. \A k \in Nat \ {0} : Counted(k)' => Counted(k)
    <3>1. ASSUME NEW k \in Nat \ {0}, NEW i \in 1..Len(pipe'), k <= pipe'[i].applied
          PROVE  Counted(k)
      <4>1. CASE i \in 1..Len(pipe)
        BY <1>4, <3>1, <4>1 DEF Counted
      <4>2. CASE i = Len(pipe')
        BY <1>4, <3>1, <4>2 DEF HostEvent, Counted
      <4> QED
        BY <1>1, <1>4, <4>1, <4>2
    <3> QED
      BY <1>2, <3>1 DEF Counted
  <2> QED
    BY <1>1, <1>3, <1>5, <2>1, CountedNext
<1>8. EventsKept
  <2>1. ASSUME NEW k \in 1..seq'
        PROVE  \/ k \in 1..seq /\ (Settled(k) \/ Offered(k, Len(pipe)))
               \/ k \in pipe'[Len(pipe')].waiting
    <3>1. k \in additions \/ k <= applied \/ k \in dropped
      BY <1>3 DEF NoneLostInv, NoneForgotten
    <3>2. k <= applied => Settled(k)
      BY <1>1, <1>3 DEF NoneLostInv, CountedSettled, Counted
    <3>3. k \in additions /\ ~(k <= applied) => k \in Waiting
      BY <1>1, <1>3 DEF Waiting
    <3> QED
      BY <1>3, <1>4, <3>1, <3>2, <3>3 DEF Settled, HostEvent
  <2> QED
    BY <1>1, <1>3, <1>4, <1>5, <2>1, EventsAdded
<1> QED
  BY <1>1, <1>6, <1>7, <1>8 DEF NoneLostInv, EventsKept

\* A stream that drops owes nothing, until it opens again.
LEMMA StreamDropsKeeps ==
    ASSUME NoneLostInv, StreamDrops
    PROVE  NoneLostInv'
<1>1. TypeInv' /\ seq \in Nat /\ pipe \in Seq(Event) /\ Len(pipe) \in Nat
  BY StreamDropsType, TypeInvParts, SeqType DEF NoneLostInv, NetworkType
<1>2. Len(pipe') \in 0..Len(pipe) /\ \A i \in 1..Len(pipe') : pipe'[i] = pipe[i]
  BY <1>1, StreamDropsPrefix
<1>3. /\ UNCHANGED <<made, additions, applied, post, late, taken>> /\ open' = FALSE
      /\ UNCHANGED <<dropped, here, queue, saved, left, struck, lost, skipped>>
  BY DEF StreamDrops, server, browser, history
<1>4. seq' = seq
  BY <1>3 DEF seq
<1>5. SettledStays
  BY <1>3, SettledSame
<1>6. NoneForgotten'
  BY <1>3, <1>4 DEF NoneLostInv, NoneForgotten
<1>7. CountedSettled'
  <2>1. \A k \in Nat \ {0} : Counted(k)' => Counted(k)
    BY <1>1, <1>2, <1>3 DEF Counted
  <2> QED
    BY <1>1, <1>4, <1>5, <2>1, CountedNext
<1>8. EventsKept
  BY <1>1, <1>2, <1>3, <1>4, <1>5, EventsCut
<1> QED
  BY <1>1, <1>6, <1>7, <1>8 DEF NoneLostInv, EventsKept

-----------------------------------------------------------------------------
(* The player *)

\* A move takes no track out.
LEMMA SkipKeeps ==
    ASSUME NoneLostInv, NEW by \in {1, -1}, Skip(by)
    PROVE  NoneLostInv'
<1>1. /\ UNCHANGED <<made, additions, applied, taken, post, late, open, pipe>>
      /\ UNCHANGED <<dropped, here, queue, saved, left, struck, lost, skipped>>
  BY DEF Skip, server, network, history
<1> QED
  BY <1>1, SkipType, SettledSame, QuietStep DEF NoneLostInv

\* What the host takes out is settled by that.
LEMMA RemoveAtKeeps ==
    ASSUME NoneLostInv, NEW i \in DOMAIN queue, RemoveAt(i)
    PROVE  NoneLostInv'
<1>1. /\ UNCHANGED <<made, additions, applied, taken, post, late, open, pipe>>
      /\ UNCHANGED <<dropped, here, saved, struck, lost, skipped>>
      /\ queue' = Without(queue, {i}) /\ left' = left \cup {queue[i].src}
  BY DEF RemoveAt, server, network
<1>2. SrcsOf(queue) \subseteq SrcsOf(queue') \cup {queue[i].src}
  <2>1. queue \in Seq(Track)
    BY TypeInvParts DEF NoneLostInv, BrowserType
  <2>2. {i} \in SUBSET (1..Len(queue)) /\ {queue[j].src : j \in {i}} = {queue[i].src}
    BY <2>1
  <2> QED
    BY <1>1, <2>1, <2>2, WithoutSrcs
<1>3. SettledStays
  BY <1>1, <1>2 DEF SettledStays, Settled, TakenBack
<1> QED
  BY <1>1, <1>3, RemoveAtType, QuietStep DEF NoneLostInv

\* A queue saved or restored leaves settled what was in it.
LEMMA SavingKeeps ==
    ASSUME NoneLostInv, Persist \/ Restore
    PROVE  NoneLostInv'
<1>1. TypeInv' /\ StepFits
  BY SavingType, TypeInvParts DEF NoneLostInv
<1>2. CASE Persist
  <2>1. /\ UNCHANGED <<made, additions, applied, taken, post, late, open, pipe>>
        /\ UNCHANGED <<dropped, here, queue, left, struck, lost, skipped>> /\ here
    BY <1>2 DEF Persist, server, network, browser, history
  <2>2. SettledStays
    BY <2>1 DEF SettledStays, Settled, SrcsOf, TakenBack
  <2> QED
    BY <1>1, <2>1, <2>2, QuietStep
<1>3. CASE Restore
  <2>1. /\ UNCHANGED <<made, additions, applied, taken, post, late, open, pipe>>
        /\ UNCHANGED <<dropped, saved, left, struck, lost, skipped>> /\ queue' = saved.queue /\ here'
        /\ queue = <<>>
    BY <1>1, <1>3 DEF Restore, server, network, history, StepFits
  <2>2. SettledStays
    BY <2>1 DEF SettledStays, Settled, SrcsOf, TakenBack
  <2> QED
    BY <1>1, <2>1, <2>2, QuietStep
<1> QED
  BY <1>2, <1>3

\* What was not restored is settled by that.
LEMMA RestoreFailsKeeps ==
    ASSUME NoneLostInv, RestoreFails
    PROVE  NoneLostInv'
<1>1. /\ UNCHANGED <<made, additions, applied, taken, post, late, open, pipe>>
      /\ UNCHANGED <<dropped, queue, saved, left, struck, skipped>> /\ lost' = lost \cup SrcsOf(saved.queue)
  BY DEF RestoreFails, server, network
<1>2. SettledStays
  BY <1>1 DEF SettledStays, Settled, SrcsOf, TakenBack
<1> QED
  BY <1>1, <1>2, RestoreFailsType, QuietStep DEF NoneLostInv

-----------------------------------------------------------------------------
(* The browser's steps *)

\* The counts of a step: what it says it has taken was counted before, or is
\* settled now.
LEMMA BrowserCounts ==
    ASSUME NoneLostInv, TypeInv', SettledStays, UNCHANGED <<made, applied>>,
           \A k \in Nat \ {0} : k <= taken' => Counted(k) \/ (k \in 1..seq /\ Settled(k)'),
           post'.applied \in {0, taken', post.applied},
           \A r \in late' : r \in late \/ r.applied = post.applied,
           \A i \in 1..Len(pipe') : \E j \in 1..Len(pipe) : pipe'[i] = pipe[j]
    PROVE  CountedSettled'
<1>1. seq' = seq /\ seq \in Nat
  BY TypeInvParts, SeqType DEF NoneLostInv, seq
<1>2. \A k \in Nat \ {0} : Counted(k)' => Counted(k) \/ (k \in 1..seq' /\ Settled(k)')
  BY <1>1 DEF Counted
<1> QED
  BY <1>1, <1>2, CountedNext

\* The step for `host` counts what the server said was taken.
LEMMA BeginHostKeeps ==
    ASSUME NoneLostInv, BeginHost
    PROVE  NoneLostInv'
<1>1. /\ TypeInv' /\ NetworkType /\ seq \in Nat /\ Len(pipe) \in Nat /\ taken \in Nat
      /\ post'.applied = taken' /\ taken' = Max2(taken, Head(pipe).applied)
  BY BeginHostType, TypeInvParts, SeqType DEF NoneLostInv, NetworkType, BrowserType
<1>2. /\ UNCHANGED <<made, additions, applied, late, open, pipe>> /\ pipe # <<>>
      /\ UNCHANGED <<dropped, here, queue, saved, left, struck, lost, skipped>>
  BY DEF BeginHost, server, history
<1>3. seq' = seq
  BY <1>2 DEF seq
<1>4. SettledStays
  BY <1>2, SettledSame
<1>5. NoneForgotten'
  BY <1>2, <1>3 DEF NoneLostInv, NoneForgotten
<1>6. CountedSettled'
  <2>1. Head(pipe) = pipe[1] /\ 1 \in 1..Len(pipe) /\ Head(pipe) \in Event
    BY <1>1, <1>2, HeadOfPipe DEF NetworkType
  <2>2. Head(pipe).applied \in Nat
    BY <2>1 DEF Event
  <2>3. \A k \in Nat \ {0} : k <= taken' => Counted(k)
    BY <1>1, <2>1, <2>2 DEF Max2, Counted
  <2> QED
    BY <1>1, <1>2, <1>4, <2>3, BrowserCounts
<1>7. EventsKept
  BY <1>1, <1>2, <1>3, <1>4, EventsCut
<1> QED
  BY <1>1, <1>5, <1>6, <1>7 DEF NoneLostInv, EventsKept

\* A check reports what is taken.
LEMMA CheckKeeps ==
    ASSUME NoneLostInv, Check
    PROVE  NoneLostInv'
<1>1. /\ TypeInv' /\ seq \in Nat /\ Len(pipe) \in Nat /\ post'.applied \in {0, taken}
  BY CheckType, TypeInvParts, SeqType DEF NoneLostInv, NetworkType
<1>2. /\ UNCHANGED <<made, additions, applied, taken, late, open, pipe>>
      /\ UNCHANGED <<dropped, here, queue, saved, left, struck, lost, skipped>>
  BY DEF Check, server, history
<1>3. seq' = seq
  BY <1>2 DEF seq
<1>4. SettledStays
  BY <1>2, SettledSame
<1>5. NoneForgotten'
  BY <1>2, <1>3 DEF NoneLostInv, NoneForgotten
<1>6. CountedSettled'
  BY <1>1, <1>2, <1>4, BrowserCounts DEF Counted
<1>7. EventsKept
  BY <1>1, <1>2, <1>3, <1>4, EventsCut
<1> QED
  BY <1>1, <1>5, <1>6, <1>7 DEF NoneLostInv, EventsKept

\* A step that handles the first event: it takes what that event offers, and
\* comes no further than what was offered before it was.
LEMMA HandlingKeeps ==
    ASSUME NoneLostInv, TypeInv', here, here', pipe # <<>>,
           NEW q \in Seq(Track), index \in 1..Max2(1, Len(q)), SrcsOf(q) = SrcsOf(queue),
           NEW last \in Signature \cup {NotReported},
           Handle(q, Head(pipe), last), pipe' = Tail(pipe),
           UNCHANGED <<made, additions, applied, open, follows, here, index, saved, dropped, left,
                       lost>>,
           \A r \in late' : r \in late \/ r.applied = post.applied
    PROVE  NoneLostInv'
<1>1. TypeInv /\ NetworkType /\ seq \in Nat /\ seq' = seq /\ late' \subseteq Signature
  BY TypeInvParts, SeqType DEF NoneLostInv, TypeInv, TypeOK, seq
<1>2. /\ StepKeeps(q)
      /\ taken' = taken \/ taken' \in Head(pipe).waiting
      /\ \A k \in Head(pipe).waiting : k <= taken \/ (k <= taken' /\ k \in SrcsOf(queue'))
  BY <1>1, HandleType
<1>3. /\ Head(pipe) = pipe[1] /\ 1 \in 1..Len(pipe)
      /\ Head(pipe).waiting \subseteq 1..seq
      /\ \A i \in 1..Len(pipe') : i + 1 \in 1..Len(pipe) /\ pipe'[i] = pipe[i + 1]
  BY <1>1, HeadOfPipe DEF NetworkType
<1>4. SettledStays
  BY <1>2 DEF SettledStays, Settled, StepKeeps
<1>5. ASSUME NEW k \in Head(pipe).waiting PROVE Settled(k)'
  <2>1. k \in 1..seq /\ (k <= taken \/ k \in SrcsOf(queue'))
    BY <1>2, <1>3
  <2>2. k <= taken => Settled(k)
    BY <1>1, <2>1 DEF NoneLostInv, CountedSettled, Counted
  <2>3. k \in SrcsOf(queue') => Settled(k)'
    BY DEF Settled, SrcsOf
  <2> QED
    BY <2>1, <2>2, <2>3, <1>4 DEF SettledStays
<1>6. NoneForgotten'
  BY <1>1 DEF NoneLostInv, NoneForgotten
<1>7. CountedSettled'
  <2>1. ASSUME NEW k \in Nat \ {0}, k <= taken'
        PROVE  Counted(k) \/ (k \in 1..seq /\ Settled(k)')
    <3>1. CASE taken' = taken
      BY <2>1, <3>1 DEF Counted
    <3>2. CASE taken' \in Head(pipe).waiting
      <4>1. k \in 1..seq
        BY <1>1, <1>3, <2>1, <3>2
      <4>2. CASE k = taken'
        BY <1>5, <3>2, <4>1, <4>2
      <4>3. CASE k < taken'
        <5>1. Settled(k) \/ Offered(k, 1)
          BY <1>3, <3>2, <4>1, <4>3 DEF NoneLostInv, OfferedInTurn
        <5>2. Offered(k, 1) => k \in Head(pipe).waiting
          BY <1>3 DEF Offered
        <5> QED
          BY <1>4, <1>5, <4>1, <5>1, <5>2 DEF SettledStays
      <4>4. taken' \in Nat
        BY <1>1, <1>3, <3>2
      <4> QED
        BY <2>1, <4>2, <4>3, <4>4
    <3> QED
      BY <1>2, <3>1, <3>2
  <2>2. post'.applied \in {0, taken'}
    BY <1>2 DEF StepKeeps
  <2> QED
    BY <1>3, <1>4, <2>1, <2>2, BrowserCounts
<1>8. EventsKept
  BY <1>1, <1>4, <1>5, EventsHandled
<1> QED
  BY <1>6, <1>7, <1>8 DEF NoneLostInv, EventsKept

\* A step that ends with the answer it awaited, or goes on to its event.
LEMMA ResumingKeeps ==
    ASSUME NoneLostInv, TypeInv', post.state # "none",
           NEW q \in Seq(Track), index \in 1..Max2(1, Len(q)), SrcsOf(q) = SrcsOf(queue),
           NEW last \in Signature \cup {NotReported},
           Resume(q, last),
           UNCHANGED <<made, additions, applied, open, follows, here, index, saved, dropped, left,
                       lost>>,
           \A r \in late' : r \in late \/ r.applied = post.applied
    PROVE  NoneLostInv'
<1>1. /\ StepFits /\ seq \in Nat /\ seq' = seq /\ Len(pipe) \in Nat
      /\ pipe \in Seq(Event)
  BY TypeInvParts, SeqType DEF NoneLostInv, NetworkType, seq
<1>2. CASE /\ doing = "closing" /\ post' = NoPost /\ queue' = q
           /\ UNCHANGED <<pipe, taken, struck, skipped>>
  <2>1. SettledStays
    BY <1>2 DEF SettledStays, Settled, TakenBack
  <2>2. NoneForgotten'
    BY <1>1 DEF NoneLostInv, NoneForgotten
  <2>3. CountedSettled'
    <3>1. post'.applied = 0
      BY <1>2 DEF NoPost
    <3>2. \A k \in Nat \ {0} : k <= taken' => Counted(k)
      BY <1>2 DEF Counted
    <3> QED
      BY <1>2, <2>1, <3>1, <3>2, BrowserCounts
  <2>4. EventsKept
    BY <1>1, <1>2, <2>1, EventsCut
  <2> QED
    BY <2>2, <2>3, <2>4 DEF NoneLostInv, EventsKept
<1>3. CASE doing = "naming" /\ Handle(q, Head(pipe), last) /\ pipe' = Tail(pipe)
  <2>1. here /\ here' /\ pipe # <<>>
    BY <1>1, <1>3 DEF StepFits
  <2> QED
    BY <1>3, <2>1, HandlingKeeps
<1> QED
  BY <1>2, <1>3 DEF Resume

\* The steps for `add` and `remove`.
LEMMA BeginKeeps ==
    ASSUME NoneLostInv, Begin
    PROVE  NoneLostInv'
<1>1. TypeInv' /\ BrowserType
  BY BeginType, TypeInvParts DEF NoneLostInv
<1>2. /\ here /\ here' /\ pipe # <<>> /\ Handle(queue, Head(pipe), reported) /\ pipe' = Tail(pipe)
      /\ UNCHANGED <<made, additions, applied, open, late, follows, here, index, saved, dropped,
                     left, lost>>
  BY DEF Begin, server
<1>3. /\ queue \in Seq(Track) /\ index \in 1..Max2(1, Len(queue))
      /\ reported \in Signature \cup {NotReported}
  BY <1>1 DEF BrowserType
<1> QED
  BY <1>1, <1>2, <1>3, HandlingKeeps

\* The step that got its answer.
LEMMA AnsweredKeeps ==
    ASSUME NoneLostInv, Answered
    PROVE  NoneLostInv'
<1>1. TypeInv' /\ BrowserType /\ NetworkType /\ StepFits
  BY AnsweredType, TypeInvParts DEF NoneLostInv
<1>2. /\ post.state = "answered" /\ Resume(Marked(queue), reported)
      /\ UNCHANGED <<made, additions, applied, open, late, follows, here, index, saved, dropped,
                     left, lost>>
  BY DEF Answered, server
<1>3. /\ Marked(queue) \in Seq(Track) /\ index \in 1..Max2(1, Len(Marked(queue)))
      /\ SrcsOf(Marked(queue)) = SrcsOf(queue)
      /\ reported \in Signature \cup {NotReported}
  <2>1. queue \in Seq(Track) /\ post \in Post /\ Len(post.answer) = Len(post.tracks)
    BY <1>1, <1>2 DEF BrowserType, NetworkType, StepFits
  <2> QED
    BY <1>1, <2>1, MarkedKeeps DEF BrowserType
<1> QED
  BY <1>1, <1>2, <1>3, ResumingKeeps

\* The step that got none.
LEMMA FailsKeeps ==
    ASSUME NoneLostInv, Fails
    PROVE  NoneLostInv'
<1>1. TypeInv' /\ BrowserType /\ NetworkType /\ HistoryType
  BY FailsType, TypeInvParts DEF NoneLostInv
<1>2. /\ post.state # "none" /\ Abandon /\ Resume(queue, AfterFailure)
      /\ UNCHANGED <<made, additions, applied, open, follows, here, index, saved, dropped, left,
                     lost>>
  BY DEF Fails, server
<1>3. \A r \in late' : r \in late \/ r.applied = post.applied
  BY <1>1, <1>2, AbandonType DEF HistoryType
<1>4. /\ queue \in Seq(Track) /\ index \in 1..Max2(1, Len(queue))
      /\ AfterFailure \in Signature \cup {NotReported}
  BY <1>1 DEF BrowserType, AfterFailure
<1> QED
  BY <1>1, <1>2, <1>3, <1>4, ResumingKeeps

\* The step abandoned: what it was offered and leaves untaken is `skipped`.
LEMMA BodyLostKeeps ==
    ASSUME NoneLostInv, BodyLost
    PROVE  NoneLostInv'
<1>1. TypeInv /\ TypeInv' /\ NetworkType /\ seq \in Nat /\ Len(pipe) \in Nat
  BY BodyLostType, TypeInvParts, SeqType DEF NoneLostInv, NetworkType
<1>2. /\ UNCHANGED <<made, additions, applied, taken, late, open>> /\ post' = NoPost
      /\ UNCHANGED <<dropped, here, queue, saved, left, struck, lost>> /\ skipped \subseteq skipped'
  BY <1>1, BodyLostLeaves DEF server
<1>3. seq' = seq /\ post'.applied = 0
  BY <1>2 DEF seq, NoPost
<1>4. SettledStays
  BY <1>2 DEF SettledStays, Settled, SrcsOf, TakenBack
<1>5. NoneForgotten'
  BY <1>2, <1>3 DEF NoneLostInv, NoneForgotten
<1>6. \A k \in Nat \ {0} : k <= taken' => Counted(k)
  BY <1>2 DEF Counted
<1>7. CASE pipe' = pipe
  <2>1. CountedSettled'
    BY <1>1, <1>2, <1>3, <1>4, <1>6, <1>7, BrowserCounts
  <2>2. EventsKept
    BY <1>1, <1>2, <1>3, <1>4, <1>7, EventsCut
  <2> QED
    BY <1>1, <1>5, <2>1, <2>2 DEF NoneLostInv, EventsKept
<1>8. CASE /\ pipe # <<>> /\ pipe' = Tail(pipe)
           /\ skipped' = skipped \cup NotTaken(Head(pipe))
  <2>1. /\ Head(pipe).waiting \subseteq 1..seq
        /\ \A i \in 1..Len(pipe') : i + 1 \in 1..Len(pipe) /\ pipe'[i] = pipe[i + 1]
    BY <1>1, <1>8, HeadOfPipe
  <2>2. CountedSettled'
    <3>1. \A i \in 1..Len(pipe') : \E j \in 1..Len(pipe) : pipe'[i] = pipe[j]
      BY <2>1
    <3> QED
      BY <1>1, <1>2, <1>3, <1>4, <1>6, <3>1, BrowserCounts
  <2>3. ASSUME NEW k \in Head(pipe).waiting PROVE Settled(k)'
    <3>1. k \in 1..seq /\ taken \in Nat
      BY <1>1, <2>1, TypeInvParts DEF BrowserType
    <3>2. CASE k <= taken
      <4>1. Settled(k)
        BY <3>1, <3>2 DEF NoneLostInv, CountedSettled, Counted
      <4> QED
        BY <1>4, <3>1, <4>1 DEF SettledStays
    <3>3. CASE k > taken
      BY <1>8, <3>3 DEF NotTaken, Settled
    <3> QED
      BY <3>1, <3>2, <3>3
  <2>4. EventsKept
    BY <1>2, <1>3, <1>4, <1>8, <2>3, EventsHandled
  <2> QED
    BY <1>1, <1>5, <2>2, <2>4 DEF NoneLostInv, EventsKept
<1> QED
  BY <1>1, <1>7, <1>8, BodyLostLeaves

\* What the page knows of its party is no count.
LEMMA AttachingKeeps ==
    ASSUME NoneLostInv, Attaching
    PROVE  NoneLostInv'
<1>1. TypeInv' /\ turns \in Nat
  BY AttachingType, TypeInvParts DEF NoneLostInv, HistoryType
<1>2. /\ UNCHANGED <<made, additions, applied, taken, post, late, open, pipe>>
      /\ UNCHANGED <<dropped, here, queue, saved, left, struck, lost, skipped>>
  BY <1>1, AttachingLeaves DEF server, network, history
<1> QED
  BY <1>1, <1>2, SettledSame, QuietStep

\* A page that goes leaves in the saved queue what was in its own, or what is
\* lost.
LEMMA PageGoesKeeps ==
    ASSUME NoneLostInv, TypeInv', NEW s, PageGoes(s), lost \subseteq lost',
           ~here => s = saved,
           SrcsOf(queue) \subseteq SrcsOf(s.queue) \cup lost'
    PROVE  NoneLostInv'
<1>1. StepFits /\ NetworkType /\ HistoryType /\ seq \in Nat /\ Len(pipe) \in Nat
  BY TypeInvParts, SeqType DEF NoneLostInv, NetworkType
<1>2. /\ UNCHANGED <<made, additions, applied, dropped, left, struck, skipped>> /\ Abandon
      /\ ~open' /\ pipe' = <<>> /\ post' = NoPost /\ ~here' /\ queue' = <<>> /\ taken' = 0
      /\ saved' = s
  BY DEF PageGoes, server
<1>3. seq' = seq
  BY <1>2 DEF seq
<1>4. SettledStays
  <2>1. SrcsOf(saved.queue)' = SrcsOf(s.queue)
    BY <1>2 DEF SrcsOf
  <2> QED
    BY <1>2, <2>1 DEF SettledStays, Settled, TakenBack
<1>5. NoneForgotten'
  BY <1>2, <1>3 DEF NoneLostInv, NoneForgotten
<1>6. CountedSettled'
  <2>1. post'.applied = 0 /\ Len(pipe') = 0 /\ \A k \in Nat \ {0} : ~(k <= taken')
    BY <1>2 DEF NoPost
  <2>2. \A r \in late' : r \in late \/ r.applied = post.applied
    BY <1>1, <1>2, AbandonType DEF HistoryType
  <2> QED
    BY <1>2, <1>4, <2>1, <2>2, BrowserCounts
<1>7. EventsKept
  <2>1. Len(pipe') = 0
    BY <1>2
  <2> QED
    BY <1>1, <1>2, <1>3, <1>4, <2>1, EventsCut
<1> QED
  BY <1>5, <1>6, <1>7 DEF NoneLostInv, EventsKept

\* A reload keeps the queue, saved.
LEMMA ReloadKeeps ==
    ASSUME NoneLostInv, Reload
    PROVE  NoneLostInv'
<1> DEFINE s == IF here /\ queue # <<>> THEN PlayState ELSE saved
<1>1. TypeInv' /\ BrowserType /\ StepFits
  BY ReloadType, TypeInvParts DEF NoneLostInv
<1>2. PageGoes(s) /\ lost' = lost
  BY DEF Reload
<1>3. SrcsOf(queue) \subseteq SrcsOf(s.queue)
  <2>1. CASE here /\ queue # <<>>
    BY <1>1, <2>1, PlayStateType DEF BrowserType
  <2>2. CASE queue = <<>>
    BY <2>2 DEF SrcsOf
  <2> QED
    BY <1>1, <2>1, <2>2 DEF StepFits
<1>4. ~here => s = saved
  OBVIOUS
<1> HIDE DEF s
<1> QED
  BY <1>1, <1>2, <1>3, <1>4, PageGoesKeeps

\* A crash loses what was not saved, by name.
LEMMA CrashKeeps ==
    ASSUME NoneLostInv, Crash
    PROVE  NoneLostInv'
<1>1. TypeInv'
  BY CrashType DEF NoneLostInv
<1>2. PageGoes(saved) /\ lost' = lost \cup (SrcsOf(queue) \ SrcsOf(saved.queue))
  BY DEF Crash
<1> QED
  BY <1>1, <1>2, PageGoesKeeps

\* Every step keeps the invariant.
LEMMA NoneLostStep == NoneLostInv /\ [Next]_vars => NoneLostInv'
<1> SUFFICES ASSUME NoneLostInv, [Next]_vars PROVE NoneLostInv'
  OBVIOUS
<1>1. CASE Member
  BY <1>1, EnqueueKeeps, WithdrawKeeps DEF Member
<1>2. CASE Host
  <2>1. ASSUME Skip(1) \/ Skip(-1) PROVE NoneLostInv'
    BY <2>1, SkipKeeps
  <2> QED
    BY <1>2, <2>1, RemoveMemberKeeps, RemoveAtKeeps, AttachingKeeps DEF Host, Attaching
<1>3. CASE Work
  BY <1>3, BeginHostKeeps, BeginKeeps, CheckKeeps, AnsweredKeeps DEF Work
<1>4. CASE Receive \/ ReceiveLate
  BY <1>4, ReceiveKeeps, ReceiveLateKeeps
<1>5. CASE Attach \/ StreamOpens \/ Restore \/ Persist
  BY <1>5, AttachingKeeps, StreamOpensKeeps, SavingKeeps DEF Attaching
<1>6. CASE Trouble
  BY <1>6, StreamDropsKeeps, AttachingKeeps, FailsKeeps, BodyLostKeeps, RestoreFailsKeeps,
     ReloadKeeps, CrashKeeps DEF Trouble, Attaching
<1>7. CASE UNCHANGED vars
  <2>1. /\ UNCHANGED <<made, additions, applied, taken, post, late, open, pipe>>
        /\ UNCHANGED <<dropped, here, queue, saved, left, struck, lost, skipped>>
    BY <1>7 DEF vars, server, network, browser, history
  <2> QED
    BY <1>7, <2>1, StutterType, SettledSame, QuietStep DEF NoneLostInv
<1> QED
  BY <1>1, <1>2, <1>3, <1>4, <1>5, <1>6, <1>7 DEF Next

\* No addition is lost between the server and the player, whatever the stream
\* drops, the requests lose or delay, and the page does: the promise that
\* together.ts makes by keeping an addition until it is reported taken.
THEOREM NothingLost == Spec => []NoneLost
BY InitNoneLost, NoneLostStep, NoneLostInvImplies, PTL DEF Spec

-----------------------------------------------------------------------------
(* The refinement: every step of the party is a step of Additions, or       *)
(* leaves its variables alone.                                              *)

\* What Additions is shown of the server's memory, element by element.
LEMMA Split ==
    ASSUME ServerType
    PROVE  /\ \A k : k \in Waiting <=> k \in additions /\ k > applied
           /\ \A k : k \in additions \ Waiting <=> k \in additions /\ k <= applied
           /\ withdrawn \subseteq additions \ Waiting
           /\ Waiting \cup (additions \ Waiting) = additions
           /\ seq \in Nat /\ applied \in 0..seq /\ additions \subseteq 1..seq
<1>1. seq \in Nat /\ applied \in 0..seq /\ additions \subseteq 1..seq
      /\ withdrawn \subseteq additions /\ \A k \in withdrawn : k <= applied
  BY SeqType DEF ServerType, WithdrawnTaken
<1>2. \A k \in additions : k \in Int /\ applied \in Int
  BY <1>1
<1>3. \A k : k \in Waiting <=> k \in additions /\ k > applied
  BY DEF Waiting
<1>4. \A k : k \in additions \ Waiting <=> k \in additions /\ k <= applied
  BY <1>2, <1>3
<1> QED
  BY <1>1, <1>3, <1>4

\* The same of the next state.
LEMMA SplitNext ==
    ASSUME ServerType'
    PROVE  /\ \A k : k \in Waiting' <=> k \in additions' /\ k > applied'
           /\ \A k : k \in (additions \ Waiting)' <=> k \in additions' /\ k <= applied'
           /\ applied' \in Int /\ additions' \subseteq Int
<1>1. applied' \in Int /\ \A k \in additions' : k \in Int
  <2>1. additions' \subseteq 1..seq' /\ applied' \in 0..seq'
    BY DEF ServerType
  <2> QED
    BY <2>1
<1>2. \A k : k \in Waiting' <=> k \in additions' /\ k > applied'
  BY DEF Waiting
<1>3. ASSUME NEW k PROVE k \in (additions \ Waiting)' <=> k \in additions' /\ k <= applied'
  <2>1. k \in (additions \ Waiting)' <=> k \in additions' /\ ~(k > applied')
    BY <1>2
  <2>2. k \in additions' => (k <= applied' <=> ~(k > applied'))
    BY <1>1
  <2> QED
    BY <2>1, <2>2
<1> QED
  BY <1>1, <1>2, <1>3

\* A party just started has nothing to show.
LEMMA PromiseInit == Init => Promise!Init
BY DEF Init, Promise!Init, seq, Waiting

\* A member's track is an addition that waits, kept while there is room.
LEMMA EnqueueAdds ==
    ASSUME ServerType, ServerType', NEW m \in Members, NEW s \in Songs, Enqueue(m, s)
    PROVE  Promise!Add
<1>1. /\ Cardinality(additions) < MaxAdded /\ seq' = seq + 1
      /\ additions' = additions \cup {seq + 1} /\ UNCHANGED <<withdrawn, applied>>
  BY DEF Enqueue, HasRoom, ServerType, seq
<1>2. /\ \A k : k \in Waiting' <=> k \in additions' /\ k > applied'
      /\ \A k : k \in (additions \ Waiting)' <=> k \in additions' /\ k <= applied'
  BY SplitNext
<1>3. seq + 1 > applied /\ seq + 1 \in Int /\ applied \in Int /\ ~(seq + 1 <= applied)
  BY Split
<1>4. Waiting' = Waiting \cup {seq'}
  <2>1. \A k : k \in Waiting' <=> k \in Waiting \cup {seq'}
    BY <1>1, <1>2, <1>3, Split
  <2> QED
    BY <2>1
<1>5. (additions \ Waiting)' = additions \ Waiting
  <2>1. \A k : k \in (additions \ Waiting)' <=> k \in additions \ Waiting
    BY <1>1, <1>2, <1>3, Split
  <2> QED
    BY <2>1
<1>6. Promise!Cardinality(Waiting \cup (additions \ Waiting)) < MaxAdded
  <2>1. Waiting \cup (additions \ Waiting) = additions
    BY Split
  <2>2. Promise!Cardinality(additions) = Cardinality(additions)
    BY DEF Promise!Cardinality, Cardinality
  <2> QED
    BY <1>1, <2>1, <2>2
<1> QED
  BY <1>1, <1>4, <1>5, <1>6 DEF Promise!Add

\* The server lets go of additions that wait.
LEMMA LetGoOf ==
    ASSUME ServerType, ServerType', NEW gone \in SUBSET Waiting,
           additions' = additions \ gone, seq' = seq, UNCHANGED <<withdrawn, applied>>
    PROVE  Promise!LetGo
<1>1. /\ \A k : k \in Waiting' <=> k \in additions' /\ k > applied'
  BY DEF Waiting
<1>2. Waiting' = Waiting \ gone
  <2>1. \A k : k \in Waiting' <=> k \in Waiting \ gone
    BY <1>1, Split
  <2> QED
    BY <2>1
<1>3. (additions \ Waiting)' = additions \ Waiting
  BY <1>2
<1> QED
  BY <1>2, <1>3 DEF Promise!LetGo

\* A member takes back a track that waits, or one that plays.
LEMMA WithdrawKeepsPromise ==
    ASSUME ServerType, ServerType', NEW m \in Members, NEW k \in Seqs, Withdraw(m, k)
    PROVE  Promise!LetGo \/ Promise!TakeBack
<1>1. k \in additions /\ seq' = seq /\ applied' = applied
  BY DEF Withdraw, seq
<1>2. CASE k > applied /\ additions' = additions \ {k} /\ UNCHANGED withdrawn
  <2>1. {k} \in SUBSET Waiting
    BY <1>1, <1>2, Split
  <2> QED
    BY <1>1, <1>2, <2>1, LetGoOf
<1>3. CASE k <= applied /\ withdrawn' = withdrawn \cup {k} /\ UNCHANGED additions
  <2>1. k \in additions \ Waiting
    BY <1>1, <1>3, Split
  <2>2. Waiting' = Waiting
    BY <1>1, <1>3 DEF Waiting
  <2> QED
    BY <1>1, <1>3, <2>1, <2>2 DEF Promise!TakeBack
<1> QED
  BY <1>2, <1>3 DEF Withdraw

\* What goes with a member waits.
LEMMA RemoveMemberLetsGo ==
    ASSUME ServerType, ServerType', NEW m \in Members, RemoveMember(m)
    PROVE  Promise!LetGo
<1>1. PICK gone \in SUBSET Waiting : additions' = additions \ gone
  BY DEF RemoveMember
<1>2. seq' = seq /\ UNCHANGED <<withdrawn, applied>>
  BY DEF RemoveMember, seq
<1> QED
  BY <1>1, <1>2, LetGoOf

\* A report, whichever it is and whenever it is handled, takes the additions up
\* to a number not below the last, and keeps no other.
LEMMA ReportTakes ==
    ASSUME ServerType, ServerType',
           NEW upTo \in Nat, NEW songs \in Seq(Songs), ReportQueue(upTo, songs)
    PROVE  Promise!Take
<1>1. /\ seq' = seq /\ applied <= applied'
      /\ \A k \in additions : k \in additions' \/ k <= applied'
  BY ReportQueueKeeps
<1>2. withdrawn' = withdrawn \cap additions' /\ additions' \subseteq additions
  BY DEF ReportQueue, StillWithdrawn
<1>3. /\ applied \in Int /\ applied' \in 0..seq
      /\ additions \subseteq Int /\ additions' \subseteq Int
  BY <1>1, Split DEF ServerType
<1>4. /\ \A k : k \in Waiting' <=> k \in additions' /\ k > applied'
      /\ \A k : k \in (additions \ Waiting)' <=> k \in additions' /\ k <= applied'
  BY SplitNext
<1>5. Waiting' = {k \in Waiting : k > applied'}
  <2>1. ASSUME NEW k PROVE k \in Waiting' <=> k \in Waiting /\ k > applied'
    <3>1. k \in Waiting' => k \in Waiting /\ k > applied'
      <4>1. k \in Waiting' => k \in additions /\ k > applied' /\ k \in Int
        BY <1>2, <1>3, <1>4
      <4> QED
        BY <1>1, <1>3, <4>1, Split
    <3>2. k \in Waiting /\ k > applied' => k \in additions'
      <4>1. k \in Waiting => k \in additions /\ k \in Int
        BY <1>3, Split
      <4> QED
        BY <1>1, <1>3, <4>1
    <3> QED
      BY <1>4, <3>1, <3>2
  <2> HIDE DEF Waiting
  <2> QED
    BY <2>1
<1>6. (additions \ Waiting)' \subseteq (additions \ Waiting) \cup (Waiting \ Waiting')
  BY <1>2
<1>7. withdrawn' = withdrawn \cap (additions \ Waiting)'
  <2>1. \A k \in withdrawn : k \in Int /\ k <= applied
    BY <1>3 DEF ServerType, WithdrawnTaken
  <2>2. \A k \in withdrawn : k \in additions' <=> k \in (additions \ Waiting)'
    BY <1>1, <1>3, <1>4, <2>1
  <2> QED
    BY <1>2, <2>2
<1> QED
  BY <1>1, <1>3, <1>5, <1>6, <1>7 DEF Promise!Take

\* The report awaited, or one given up on, is handled.
LEMMA ReceiveTakes ==
    ASSUME TypeInv, TypeInv', Receive \/ ReceiveLate
    PROVE  Promise!Take
<1>1. ServerType /\ ServerType' /\ NetworkType
  BY TypeInvParts DEF TypeInv, TypeOK, ServerType
<1>2. CASE Receive
  <2> DEFINE songs == SongsOf(post.tracks)
  <2>1. post \in Post /\ post.applied \in Nat /\ post.tracks \in Seq(Track)
    BY <1>1 DEF NetworkType, Post
  <2>2. \A i \in 1..Len(post.tracks) : post.tracks[i].song \in Songs
    <3>1. \A i \in 1..Len(post.tracks) : post.tracks[i] \in Track
      BY <2>1
    <3> QED
      BY <3>1 DEF Track
  <2>3. songs \in Seq(Songs)
    BY <2>1, <2>2 DEF SongsOf
  <2>4. ReportQueue(post.applied, songs)
    BY <1>2 DEF Receive
  <2> HIDE DEF songs
  <2> QED
    BY <1>1, <2>1, <2>3, <2>4, ReportTakes
<1>3. CASE ReceiveLate
  <2>1. PICK request \in late : ReportQueue(request.applied, request.songs)
    BY <1>3 DEF ReceiveLate
  <2>2. request.applied \in Nat /\ request.songs \in Seq(Songs)
    BY <1>1, <2>1 DEF NetworkType, Signature
  <2> QED
    BY <1>1, <2>1, <2>2, ReportTakes
<1> QED
  BY <1>2, <1>3

\* What leaves the server's memory alone shows nothing.
LEMMA ServerShowsNothing == UNCHANGED server => UNCHANGED Promise!vars
BY DEF server, Promise!vars, seq, Waiting

\* Every step of the party is one of Additions, or shows nothing.
LEMMA PromiseStep == TypeInv /\ TypeInv' /\ [Next]_vars => [Promise!Next]_(Promise!vars)
<1> SUFFICES ASSUME TypeInv, TypeInv', [Next]_vars PROVE [Promise!Next]_(Promise!vars)
  OBVIOUS
<1>1. ServerType /\ ServerType'
  BY TypeInvParts DEF TypeInv, TypeOK, ServerType
<1>2. CASE Member
  BY <1>1, <1>2, EnqueueAdds, WithdrawKeepsPromise DEF Member, Promise!Next
<1>3. CASE \E m \in Members : RemoveMember(m)
  BY <1>1, <1>3, RemoveMemberLetsGo DEF Promise!Next
<1>4. CASE Receive \/ ReceiveLate
  BY <1>4, ReceiveTakes DEF Promise!Next
<1>5. CASE Skip(1) \/ Skip(-1) \/ (\E i \in DOMAIN queue : RemoveAt(i)) \/ StartAgain
  <2>1. UNCHANGED server
    BY <1>5 DEF Skip, RemoveAt, StartAgain, Follows
  <2> QED
    BY <2>1, ServerShowsNothing
<1>6. CASE Work
  <2>1. UNCHANGED server
    BY <1>6 DEF Work, BeginHost, Begin, Check, Answered
  <2> QED
    BY <2>1, ServerShowsNothing
<1>7. CASE Attach \/ StreamOpens \/ Restore \/ Persist
  <2>1. UNCHANGED server
    BY <1>7 DEF Attach, Follows, StreamOpens, Restore, Persist
  <2> QED
    BY <2>1, ServerShowsNothing
<1>8. CASE Trouble
  <2>1. UNCHANGED server
    BY <1>8 DEF Trouble, StreamDrops, StreamRefused, AttachFails, Follows, Fails, BodyLost,
                RestoreFails, Reload, Crash, PageGoes
  <2> QED
    BY <2>1, ServerShowsNothing
<1>9. CASE UNCHANGED vars
  BY <1>9, ServerShowsNothing DEF vars
<1> QED
  BY <1>2, <1>3, <1>4, <1>5, <1>6, <1>7, <1>8, <1>9 DEF Next, Host

\* The party keeps its promise (together.ts reportQueue, withdraw, dropAdditions):
\* an addition waits until it is taken in its turn or let go, what is let go
\* never comes back, and no more are kept than MAX_ADDED, however many members,
\* additions, reports and faults there are.
THEOREM PromiseKept == Spec => Promised
BY PromiseInit, InitType, TypeInvStep, PromiseStep, PTL DEF Spec, Promised, Promise!Spec
-----------------------------------------------------------------------------
(* An addition is taken once.  What is in the queue was counted by this    *)
(* page, or before it by the server, and then no event on its way offers   *)
(* it; or it was in the queue a page was loaded with, unreported.          *)

\* No addition is in q twice, but one that a reload may have brought again.
NoneTwice(q) == \A i, j \in DOMAIN q : i # j /\ q[i].src = q[j].src => q[i].src \in resent

\* The queue there is, or will be once the saved one is back.
Held(k) == k \in SrcsOf(queue) \/ (~here /\ k \in SrcsOf(saved.queue))

\* The browser will not take it again, unless by a reload.
Known(k) == k \in resent \/ k <= taken \/ (k <= applied /\ ~Offered(k, Len(pipe)))

OnceInv == /\ TypeInv
           /\ NoneTwice(queue) /\ NoneTwice(saved.queue)
           /\ \A k \in Nat \ {0} : Held(k) => Known(k)

\* A queue whose tracks are those of another, wherever their names went.
SameTracks(p, q) == Len(p) = Len(q) /\ \A i \in 1..Len(q) : p[i].src = q[i].src

\* Two places of the player's queue hold tracks of two places in the queue
\* before, or of two new ones, or an old and a new one.
LEMMA QueueAdditionsApart ==
    ASSUME NEW q \in Seq(Track), NEW tracks \in Seq(Track), index \in 1..Max2(1, Len(q))
    PROVE  \A i, j \in 1..Len(QueueAdditions(q, tracks)) :
             LET all == QueueAdditions(q, tracks)
             IN  i < j =>
                   \/ \E p, r \in 1..Len(q) : p < r /\ all[i] = q[p] /\ all[j] = q[r]
                   \/ \E p, r \in 1..Len(tracks) : p < r /\ all[i] = tracks[p] /\ all[j] = tracks[r]
                   \/ \E p \in 1..Len(q), r \in 1..Len(tracks) :
                        \/ all[i] = q[p] /\ all[j] = tracks[r]
                        \/ all[i] = tracks[r] /\ all[j] = q[p]
<1> DEFINE all == QueueAdditions(q, tracks)
           n == Len(tracks)
           l == Len(q)
<1>0. PICK e \in 0..Len(q) :
        \A i \in 1..(Len(q) + Len(tracks)) :
            all[i] = IF i <= e THEN q[i]
                     ELSE IF i <= e + Len(tracks) THEN tracks[i - e] ELSE q[i - Len(tracks)]
  BY QueueAdditionsAt, SMTT(20)
<1>1. l \in Nat /\ n \in Nat /\ e \in Nat /\ e <= l /\ Len(all) = l + n
  <2>1. Len(all) = l + n
    BY QueueAdditionsAt
  <2>2. l \in Nat /\ n \in Nat
    OBVIOUS
  <2> HIDE DEF all, n
  <2> QED
    BY <2>1, <2>2
<1>2. \A k \in 1..(l + n) :
            all[k] = IF k <= e THEN q[k] ELSE IF k <= e + n THEN tracks[k - e] ELSE q[k - n]
  BY <1>0
<1> SUFFICES ASSUME NEW i \in 1..Len(all), NEW j \in 1..Len(all), i < j
             PROVE  \/ \E p, r \in 1..l : p < r /\ all[i] = q[p] /\ all[j] = q[r]
                    \/ \E p, r \in 1..n : p < r /\ all[i] = tracks[p] /\ all[j] = tracks[r]
                    \/ \E p \in 1..l, r \in 1..n : \/ all[i] = q[p] /\ all[j] = tracks[r]
                                                   \/ all[i] = tracks[r] /\ all[j] = q[p]
  BY Zenon
<1> HIDE DEF n, l, all
<1>8. i \in 1..(l + n) /\ j \in 1..(l + n)
  BY <1>1
<1>3. ASSUME NEW k \in 1..(l + n)
      PROVE  \/ k <= e /\ k \in 1..l /\ all[k] = q[k]
             \/ e < k /\ k - e \in 1..n /\ all[k] = tracks[k - e]
             \/ e + n < k /\ k - n \in 1..l /\ all[k] = q[k - n]
  <2>1. \/ k <= e /\ k \in 1..l
        \/ e < k /\ ~(k <= e) /\ k <= e + n /\ k - e \in 1..n
        \/ e + n < k /\ ~(k <= e) /\ ~(k <= e + n) /\ k - n \in 1..l
    BY <1>1
  <2> QED
    BY <1>2, <2>1, Zenon
<1>4. CASE i <= e /\ i \in 1..l /\ all[i] = q[i]
  <2>1. CASE j <= e /\ j \in 1..l /\ all[j] = q[j]
    BY <1>4, <2>1
  <2>2. CASE j - e \in 1..n /\ all[j] = tracks[j - e]
    BY <1>4, <2>2
  <2>3. CASE e + n < j /\ j - n \in 1..l /\ all[j] = q[j - n]
    <3>1. i < j - n
      <4>1. i <= e /\ e + n < j /\ i \in Int /\ j \in Int /\ n \in Nat /\ e \in Nat
        BY <1>1, <1>4, <1>8, <2>3
      <4> QED
        BY <4>1
    <3> QED
      BY <1>4, <2>3, <3>1
  <2> QED
    BY <1>3, <1>8, <2>1, <2>2, <2>3
<1>5. CASE e < i /\ i - e \in 1..n /\ all[i] = tracks[i - e]
  <2>1. CASE j - e \in 1..n /\ all[j] = tracks[j - e]
    <3>1. i - e < j - e
      BY <1>1, <1>8
    <3> QED
      BY <1>5, <2>1, <3>1
  <2>2. CASE j - n \in 1..l /\ all[j] = q[j - n]
    BY <1>5, <2>2
  <2>3. ~(j <= e)
    BY <1>1, <1>5, <1>8
  <2> QED
    BY <1>3, <1>8, <2>1, <2>2, <2>3
<1>6. CASE e + n < i /\ i - n \in 1..l /\ all[i] = q[i - n]
  <2>0. e + n < i /\ e \in Nat /\ n \in Nat /\ i \in Int /\ j \in Int
    BY <1>1, <1>6, <1>8
  <2>1. e + n < j /\ ~(j <= e) /\ i - n < j - n
    BY <2>0
  <2>3. ~(j - e \in 1..n)
    BY <2>0, <2>1
  <2>2. j - n \in 1..l /\ all[j] = q[j - n]
    BY <1>3, <1>8, <2>1, <2>3
  <2> QED
    BY <1>6, <2>1, <2>2
<1> QED
  BY <1>3, <1>4, <1>5, <1>6, <1>8

\* What stays stays in turn.
LEMMA WithoutInTurn ==
    ASSUME NEW q \in Seq(Track), NEW gone \in SUBSET (1..Len(q))
    PROVE  \E at \in [1..Len(Without(q, gone)) -> 1..Len(q)] :
               /\ \A m \in 1..Len(Without(q, gone)) : Without(q, gone)[m] = q[at[m]]
               /\ \A m, n \in 1..Len(Without(q, gone)) : m < n => at[m] < at[n]
<1>1. PICK at \in [1..(Len(q) - Cardinality(gone)) -> 1..Len(q)] :
          /\ Without(q, gone) = [n \in DOMAIN at |-> q[at[n]]]
          /\ \A m, n \in DOMAIN at : m < n => at[m] < at[n]
  BY WithoutAt
<1>2. Without(q, gone) \in Seq(Track)
  BY WithoutType
<1> DEFINE kept == Without(q, gone)
<1> HIDE DEF kept
<1>3. kept = [n \in DOMAIN at |-> q[at[n]]] /\ kept \in Seq(Track)
  BY <1>1, <1>2 DEF kept
<1>4. DOMAIN kept = 1..Len(kept) /\ DOMAIN kept = DOMAIN at
  <2>1. kept \in Seq(Track)
    BY <1>3
  <2>2. DOMAIN kept = 1..Len(kept)
    BY <2>1
  <2>3. DOMAIN kept = DOMAIN at
    BY <1>3, Zenon
  <2> QED
    BY <2>2, <2>3
<1>5. at \in [1..Len(kept) -> 1..Len(q)]
  BY <1>4
<1>6. \A m \in 1..Len(kept) : kept[m] = q[at[m]]
  BY <1>3, <1>4
<1>7. \A m, n \in 1..Len(kept) : m < n => at[m] < at[n]
  BY <1>1, <1>4
<1> QED
  BY <1>5, <1>6, <1>7 DEF kept

\* What a step leaves in the queue was in it or is taken now, and two places
\* hold two tracks that were in it, two taken now, or one of each.
LEMMA HandleTracks ==
    ASSUME NEW q \in Seq(Track), index \in 1..Max2(1, Len(q)),
           made \in Seq([song : Songs, member : Members]), taken \in 0..seq, loads \in Nat,
           NEW event \in Event, event.waiting \subseteq 1..seq,
           NEW last, Handle(q, event, last)
    PROVE  /\ \A i \in 1..Len(queue') : \/ \E p \in 1..Len(q) : queue'[i] = q[p]
                                        \/ \E k \in NotTaken(event) : queue'[i] = Addition(k)
           /\ \A i, j \in 1..Len(queue') : i < j =>
                \/ \E p, r \in 1..Len(q) : p < r /\ queue'[i] = q[p] /\ queue'[j] = q[r]
                \/ \E k, h \in NotTaken(event) :
                        k < h /\ queue'[i] = Addition(k) /\ queue'[j] = Addition(h)
                \/ \E p \in 1..Len(q), k \in NotTaken(event) :
                        \/ queue'[i] = q[p] /\ queue'[j] = Addition(k)
                        \/ queue'[i] = Addition(k) /\ queue'[j] = q[p]
<1> DEFINE gone == DropsAt(q, event.withdrawn)
           kept == Without(q, gone)
           tracks(new) == [n \in DOMAIN new |-> Addition(new[n])]
<1>1. PICK new \in OldestFirst(NotTaken(event)) : queue' = QueueAdditions(kept, tracks(new))
  BY DEF Handle
<1>2. gone \in SUBSET (1..Len(q)) /\ kept \in Seq(Track) /\ index \in 1..Max2(1, Len(kept))
  BY DropsKept
<1>3. PICK at \in [1..Len(kept) -> 1..Len(q)] :
          /\ \A m \in 1..Len(kept) : kept[m] = q[at[m]]
          /\ \A m, n \in 1..Len(kept) : m < n => at[m] < at[n]
  <2> HIDE DEF gone
  <2> QED
    BY <1>2, WithoutInTurn
<1>4. \A m \in 1..Len(kept) : at[m] \in 1..Len(q) /\ kept[m] = q[at[m]] /\ m \in DOMAIN at
  <2> HIDE DEF kept
  <2> QED
    BY <1>3
<1>5. /\ new \in Seq(NotTaken(event))
      /\ \A i, j \in 1..Len(new) : i < j => new[i] < new[j]
      /\ tracks(new) \in Seq(Track) /\ Len(tracks(new)) = Len(new)
      /\ \A i \in 1..Len(new) : tracks(new)[i] = Addition(new[i])
  BY TakesInTurn
<1>6. \A i \in 1..Len(new) : new[i] \in NotTaken(event)
  BY <1>5
<1> HIDE DEF gone, kept, tracks
<1>7. Len(queue') \in Nat /\ queue' \in Seq(Track)
  BY <1>1, <1>2, <1>5, QueueAdditionsKeeps, SMTT(30)
<1>8. ASSUME NEW i \in 1..Len(queue'), NEW j \in 1..Len(queue'), i < j
      PROVE  \/ \E p, r \in 1..Len(q) : p < r /\ queue'[i] = q[p] /\ queue'[j] = q[r]
             \/ \E k, h \in NotTaken(event) :
                    k < h /\ queue'[i] = Addition(k) /\ queue'[j] = Addition(h)
             \/ \E p \in 1..Len(q), k \in NotTaken(event) :
                    \/ queue'[i] = q[p] /\ queue'[j] = Addition(k)
                    \/ queue'[i] = Addition(k) /\ queue'[j] = q[p]
  <2>1. \/ \E p, r \in 1..Len(kept) : p < r /\ queue'[i] = kept[p] /\ queue'[j] = kept[r]
        \/ \E p, r \in 1..Len(tracks(new)) :
              p < r /\ queue'[i] = tracks(new)[p] /\ queue'[j] = tracks(new)[r]
        \/ \E p \in 1..Len(kept), r \in 1..Len(tracks(new)) :
              \/ queue'[i] = kept[p] /\ queue'[j] = tracks(new)[r]
              \/ queue'[i] = tracks(new)[r] /\ queue'[j] = kept[p]
    <3> DEFINE all == QueueAdditions(kept, tracks(new))
    <3>1. \A x, y \in 1..Len(all) : x < y =>
            \/ \E p, r \in 1..Len(kept) : p < r /\ all[x] = kept[p] /\ all[y] = kept[r]
            \/ \E p, r \in 1..Len(tracks(new)) :
                  p < r /\ all[x] = tracks(new)[p] /\ all[y] = tracks(new)[r]
            \/ \E p \in 1..Len(kept), r \in 1..Len(tracks(new)) :
                  \/ all[x] = kept[p] /\ all[y] = tracks(new)[r]
                  \/ all[x] = tracks(new)[r] /\ all[y] = kept[p]
      BY <1>2, <1>5, QueueAdditionsApart
    <3>2. all = queue'
      BY <1>1
    <3> HIDE DEF all
    <3>3. i \in 1..Len(all) /\ j \in 1..Len(all)
      BY <3>2
    <3>4. \/ \E p, r \in 1..Len(kept) : p < r /\ all[i] = kept[p] /\ all[j] = kept[r]
          \/ \E p, r \in 1..Len(tracks(new)) :
                p < r /\ all[i] = tracks(new)[p] /\ all[j] = tracks(new)[r]
          \/ \E p \in 1..Len(kept), r \in 1..Len(tracks(new)) :
                \/ all[i] = kept[p] /\ all[j] = tracks(new)[r]
                \/ all[i] = tracks(new)[r] /\ all[j] = kept[p]
      BY <1>8, <3>1, <3>3, Zenon
    <3> QED
      BY <3>2, <3>4, Zenon
  <2>2. ASSUME NEW p \in 1..Len(kept), NEW r \in 1..Len(kept), p < r,
               queue'[i] = kept[p], queue'[j] = kept[r]
        PROVE  \E x, y \in 1..Len(q) : x < y /\ queue'[i] = q[x] /\ queue'[j] = q[y]
    <3>1. at[p] \in 1..Len(q) /\ at[r] \in 1..Len(q) /\ at[p] < at[r]
          /\ queue'[i] = q[at[p]] /\ queue'[j] = q[at[r]]
      BY <1>3, <1>4, <2>2
    <3> QED
      BY <3>1
  <2>3. ASSUME NEW p \in 1..Len(new), NEW r \in 1..Len(new), p < r,
               queue'[i] = tracks(new)[p], queue'[j] = tracks(new)[r]
        PROVE  \E k, h \in NotTaken(event) :
                    k < h /\ queue'[i] = Addition(k) /\ queue'[j] = Addition(h)
    <3>1. new[p] \in NotTaken(event) /\ new[r] \in NotTaken(event) /\ new[p] < new[r]
      BY <1>5, <1>6, <2>3
    <3>2. queue'[i] = Addition(new[p]) /\ queue'[j] = Addition(new[r])
      BY <1>5, <2>3
    <3> QED
      BY <3>1, <3>2
  <2>4. ASSUME NEW p \in 1..Len(kept), NEW r \in 1..Len(new)
        PROVE  /\ at[p] \in 1..Len(q) /\ kept[p] = q[at[p]]
               /\ new[r] \in NotTaken(event) /\ tracks(new)[r] = Addition(new[r])
    BY <1>4, <1>5, <1>6
  <2>5. Len(tracks(new)) = Len(new)
    BY <1>5
  <2>6. CASE \E p, r \in 1..Len(kept) : p < r /\ queue'[i] = kept[p] /\ queue'[j] = kept[r]
    BY <2>2, <2>6
  <2>7. CASE \E p, r \in 1..Len(new) :
              p < r /\ queue'[i] = tracks(new)[p] /\ queue'[j] = tracks(new)[r]
    BY <2>3, <2>7
  <2>8. CASE \E p \in 1..Len(kept), r \in 1..Len(new) :
              \/ queue'[i] = kept[p] /\ queue'[j] = tracks(new)[r]
              \/ queue'[i] = tracks(new)[r] /\ queue'[j] = kept[p]
    <3>1. PICK p \in 1..Len(kept), r \in 1..Len(new) :
              \/ queue'[i] = kept[p] /\ queue'[j] = tracks(new)[r]
              \/ queue'[i] = tracks(new)[r] /\ queue'[j] = kept[p]
      BY <2>8
    <3>2. /\ at[p] \in 1..Len(q) /\ kept[p] = q[at[p]]
          /\ new[r] \in NotTaken(event) /\ tracks(new)[r] = Addition(new[r])
      BY <2>4
    <3>3. \/ queue'[i] = q[at[p]] /\ queue'[j] = Addition(new[r])
          \/ queue'[i] = Addition(new[r]) /\ queue'[j] = q[at[p]]
      BY <3>1, <3>2
    <3> QED
      BY <3>2, <3>3
  <2> QED
    BY <2>1, <2>5, <2>6, <2>7, <2>8
<1>9. ASSUME NEW i \in 1..Len(queue')
      PROVE  \/ \E p \in 1..Len(q) : queue'[i] = q[p]
             \/ \E k \in NotTaken(event) : queue'[i] = Addition(k)
  <2>1. \/ \E p \in 1..Len(kept) : queue'[i] = kept[p]
        \/ \E r \in 1..Len(tracks(new)) : queue'[i] = tracks(new)[r]
    BY <1>1, <1>2, <1>5, QueueAdditionsFrom
  <2> QED
    BY <1>4, <1>5, <1>6, <2>1
<1> QED
  BY <1>8, <1>9

\* A queue of the same tracks has each as often.
LEMMA SameTracksOnce ==
    ASSUME NEW p \in Seq(Track), NEW q \in Seq(Track), SameTracks(p, q)
    PROVE  (NoneTwice(q) => NoneTwice(p)) /\ SrcsOf(p) = SrcsOf(q)
<1>1. /\ DOMAIN p = DOMAIN q /\ DOMAIN q = 1..Len(q)
      /\ \A i \in DOMAIN q : p[i].src = q[i].src
  BY DEF SameTracks
<1>2. SrcsOf(p) = SrcsOf(q)
  <2>1. \A x \in SrcsOf(p) : x \in SrcsOf(q)
    BY <1>1 DEF SrcsOf
  <2>2. \A x \in SrcsOf(q) : x \in SrcsOf(p)
    BY <1>1 DEF SrcsOf
  <2> QED
    BY <2>1, <2>2
<1>3. NoneTwice(q) => NoneTwice(p)
  BY <1>1 DEF NoneTwice
<1> QED
  BY <1>2, <1>3

\* So has one with tracks taken out, or fewer.
LEMMA WithoutOnce ==
    ASSUME NEW q \in Seq(Track), NEW gone \in SUBSET (1..Len(q)), NoneTwice(q)
    PROVE  NoneTwice(Without(q, gone)) /\ SrcsOf(Without(q, gone)) \subseteq SrcsOf(q)
<1> DEFINE kept == Without(q, gone)
<1>1. PICK at \in [1..(Len(q) - Cardinality(gone)) -> 1..Len(q)] :
          /\ kept = [n \in DOMAIN at |-> q[at[n]]]
          /\ \A m, n \in DOMAIN at : m < n => at[m] < at[n]
  BY WithoutAt
<1> HIDE DEF kept
<1>2. /\ DOMAIN kept = DOMAIN at
      /\ \A n \in DOMAIN at : kept[n] = q[at[n]] /\ at[n] \in 1..Len(q) /\ n \in Int
  BY <1>1
<1>3. NoneTwice(kept)
  <2>1. SUFFICES ASSUME NEW i \in DOMAIN at, NEW j \in DOMAIN at, i # j, kept[i].src = kept[j].src
                 PROVE  kept[i].src \in resent
    BY <1>2 DEF NoneTwice
  <2>2. at[i] \in Int /\ at[j] \in Int /\ i \in Int /\ j \in Int
    BY <1>2
  <2>3. at[i] # at[j]
    BY <1>1, <2>1, <2>2
  <2>4. at[i] \in DOMAIN q /\ at[j] \in DOMAIN q /\ kept[i] = q[at[i]] /\ kept[j] = q[at[j]]
    BY <1>2
  <2> QED
    BY <2>1, <2>3, <2>4 DEF NoneTwice
<1>4. SrcsOf(kept) \subseteq SrcsOf(q)
  <2>1. \A x \in SrcsOf(kept) : x \in SrcsOf(q)
    BY <1>2 DEF SrcsOf
  <2> QED
    BY <2>1
<1> QED
  BY <1>3, <1>4 DEF kept

\* A step that takes nothing it has leaves nothing twice.
LEMMA HandleOnce ==
    ASSUME NEW q \in Seq(Track), index \in 1..Max2(1, Len(q)),
           made \in Seq([song : Songs, member : Members]), taken \in 0..seq, loads \in Nat,
           NEW event \in Event, event.waiting \subseteq 1..seq,
           NEW last, Handle(q, event, last), queue' \in Seq(Track), resent' = resent,
           NoneTwice(q), \A k \in NotTaken(event) : k \in SrcsOf(q) => k \in resent
    PROVE  /\ NoneTwice(queue)'
           /\ \A k \in SrcsOf(queue') : k \in SrcsOf(q) \/ k \in NotTaken(event)
<1>1. /\ \A i \in 1..Len(queue') : \/ \E p \in 1..Len(q) : queue'[i] = q[p]
                                   \/ \E k \in NotTaken(event) : queue'[i] = Addition(k)
      /\ \A i, j \in 1..Len(queue') : i < j =>
                \/ \E p, r \in 1..Len(q) : p < r /\ queue'[i] = q[p] /\ queue'[j] = q[r]
                \/ \E k, h \in NotTaken(event) :
                        k < h /\ queue'[i] = Addition(k) /\ queue'[j] = Addition(h)
                \/ \E p \in 1..Len(q), k \in NotTaken(event) :
                        \/ queue'[i] = q[p] /\ queue'[j] = Addition(k)
                        \/ queue'[i] = Addition(k) /\ queue'[j] = q[p]
  BY HandleTracks
<1>2. \A k \in NotTaken(event) : Addition(k).src = k /\ k \in Int
  <2>1. event.waiting \subseteq Nat
    BY DEF Event
  <2> QED
    BY <2>1 DEF Addition, NotTaken
<1>3. DOMAIN queue' = 1..Len(queue') /\ Len(queue') \in Nat /\ DOMAIN q = 1..Len(q)
  OBVIOUS
<1>4. ASSUME NEW i \in 1..Len(queue'), NEW j \in 1..Len(queue'), i < j,
             queue'[i].src = queue'[j].src
      PROVE  queue'[i].src \in resent
  <2>1. ASSUME NEW p \in 1..Len(q), NEW r \in 1..Len(q), p < r,
               queue'[i] = q[p], queue'[j] = q[r]
        PROVE  queue'[i].src \in resent
    <3>1. p \in DOMAIN q /\ r \in DOMAIN q /\ p # r
      BY <1>3, <2>1
    <3>2. q[p].src = q[r].src /\ queue'[i].src = q[p].src
      BY <1>4, <2>1
    <3> QED
      BY <3>1, <3>2 DEF NoneTwice
  <2>2. ASSUME NEW k \in NotTaken(event), NEW h \in NotTaken(event), k < h,
               queue'[i] = Addition(k), queue'[j] = Addition(h)
        PROVE  FALSE
    BY <1>2, <1>4, <2>2
  <2>3. ASSUME NEW p \in 1..Len(q), NEW k \in NotTaken(event),
               \/ queue'[i] = q[p] /\ queue'[j] = Addition(k)
               \/ queue'[i] = Addition(k) /\ queue'[j] = q[p]
        PROVE  queue'[i].src \in resent
    <3>1. queue'[i].src = k /\ q[p].src = k
      BY <1>2, <1>4, <2>3
    <3>2. k \in SrcsOf(q)
      BY <1>3, <3>1 DEF SrcsOf
    <3> QED
      BY <3>1, <3>2
  <2>4. \/ \E p, r \in 1..Len(q) : p < r /\ queue'[i] = q[p] /\ queue'[j] = q[r]
        \/ \E k, h \in NotTaken(event) :
                k < h /\ queue'[i] = Addition(k) /\ queue'[j] = Addition(h)
        \/ \E p \in 1..Len(q), k \in NotTaken(event) :
                \/ queue'[i] = q[p] /\ queue'[j] = Addition(k)
                \/ queue'[i] = Addition(k) /\ queue'[j] = q[p]
    BY <1>1, <1>4, Zenon
  <2> QED
    BY <2>1, <2>2, <2>3, <2>4, Zenon
<1>5. NoneTwice(queue)'
  <2>1. ASSUME NEW i \in 1..Len(queue'), NEW j \in 1..Len(queue'), i # j,
               queue'[i].src = queue'[j].src
        PROVE  queue'[i].src \in resent
    <3>1. i < j \/ j < i
      BY <2>1
    <3> QED
      BY <1>4, <2>1, <3>1
  <2> QED
    BY <1>3, <2>1 DEF NoneTwice
<1>6. \A k \in SrcsOf(queue') : k \in SrcsOf(q) \/ k \in NotTaken(event)
  <2>1. SUFFICES ASSUME NEW i \in 1..Len(queue')
                 PROVE  queue'[i].src \in SrcsOf(q) \/ queue'[i].src \in NotTaken(event)
    BY <1>3 DEF SrcsOf
  <2> QED
    BY <1>1, <1>2, <1>3 DEF SrcsOf
<1> QED
  BY <1>5, <1>6

\* Which steps leave what is known known: those that let no count go back, and
\* offer nothing again that was counted.
LEMMA KnownStays ==
    ASSUME OnceInv, TypeInv', resent \subseteq resent', applied <= applied', taken <= taken',
           \A k \in Nat : k <= applied /\ Offered(k, Len(pipe))' => Offered(k, Len(pipe)),
           NoneTwice(queue)', NoneTwice(saved.queue)',
           \A k \in Nat \ {0} : Held(k)' => Held(k) \/ k <= taken' \/ k \in resent'
    PROVE  OnceInv'
<1>1. applied \in Nat /\ applied' \in Nat /\ taken \in Nat /\ taken' \in Nat
  BY DEF OnceInv, TypeInv, TypeOK, seq
<1>2. ASSUME NEW k \in Nat \ {0}, Held(k)' PROVE Known(k)'
  <2>1. CASE Held(k)
    <3>1. k \in resent \/ k <= taken \/ (k <= applied /\ ~Offered(k, Len(pipe)))
      BY <2>1 DEF OnceInv, Known
    <3>2. k <= taken => k <= taken'
      BY <1>1
    <3>3. k <= applied => k <= applied'
      BY <1>1
    <3> QED
      BY <3>1, <3>2, <3>3 DEF Known
  <2> QED
    BY <1>2, <2>1 DEF Known
<1> QED
  BY <1>2 DEF OnceInv

\* Events that offer nothing again: what is sent besides offers what comes
\* after all that was counted.
LEMMA NotOffered ==
    ASSUME NetworkType, NetworkType', NEW event,
           \A i \in 1..Len(pipe') : (i \in 1..Len(pipe) /\ pipe'[i] = pipe[i]) \/ pipe'[i] = event,
           \A k \in event.waiting : k > applied, applied \in Nat
    PROVE  \A k \in Nat : k <= applied /\ Offered(k, Len(pipe))' => Offered(k, Len(pipe))
<1>1. SUFFICES ASSUME NEW k \in Nat, k <= applied, NEW i \in 1..Len(pipe'), k \in pipe'[i].waiting
               PROVE  Offered(k, Len(pipe))
  BY DEF Offered
<1>2. ~(k > applied)
  BY <1>1
<1>3. i \in 1..Len(pipe) /\ k \in pipe[i].waiting
  BY <1>1, <1>2
<1> QED
  BY <1>3 DEF Offered

\* A step that leaves queue and page alone.
LEMMA QueueSame ==
    ASSUME OnceInv, TypeInv', UNCHANGED <<here, queue, saved, resent>>,
           applied <= applied', taken <= taken',
           \A k \in Nat : k <= applied /\ Offered(k, Len(pipe))' => Offered(k, Len(pipe))
    PROVE  OnceInv'
<1>1. NoneTwice(queue)' /\ NoneTwice(saved.queue)' /\ \A k \in Nat \ {0} : Held(k)' => Held(k)
  BY DEF OnceInv, NoneTwice, Held, SrcsOf
<1> QED
  BY <1>1, KnownStays

\* The play state has the queue's tracks.
LEMMA PlayStateSame ==
    ASSUME queue \in Seq(Track), index \in 1..Max2(1, Len(queue))
    PROVE  PlayState.queue \in Seq(Track) /\ SameTracks(PlayState.queue, queue)
<1>1. PlayState.queue = [i \in 1..Len(queue) |-> [queue[i] EXCEPT !.by = 0]]
  BY PlayStateType
<1>2. \A i \in 1..Len(queue) : queue[i] \in Track
  OBVIOUS
<1>3. \A i \in 1..Len(queue) : /\ [queue[i] EXCEPT !.by = 0] \in Track
                               /\ [queue[i] EXCEPT !.by = 0].src = queue[i].src
  BY <1>2 DEF Track
<1>4. Len(queue) \in Nat
  OBVIOUS
<1>5. /\ PlayState.queue \in Seq(Track) /\ Len(PlayState.queue) = Len(queue)
      /\ \A i \in 1..Len(queue) : PlayState.queue[i].src = queue[i].src
  <2> DEFINE track(i) == [queue[i] EXCEPT !.by = 0]
             tracks == [i \in 1..Len(queue) |-> track(i)]
  <2>1. PlayState.queue = tracks
    BY <1>1
  <2>2. \A i \in 1..Len(queue) : track(i) \in Track /\ track(i).src = queue[i].src
    BY <1>3
  <2> HIDE DEF track
  <2>3. tracks \in Seq(Track) /\ Len(tracks) = Len(queue)
    BY <1>4, <2>2
  <2>4. \A i \in 1..Len(queue) : tracks[i].src = queue[i].src
    BY <2>2
  <2> QED
    BY <2>1, <2>3, <2>4
<1> QED
  BY <1>5 DEF SameTracks

\* Nothing is held twice at first: the host's tracks are one each.
LEMMA InitOnce == Init => OnceInv
<1> SUFFICES ASSUME Init PROVE OnceInv
  OBVIOUS
<1>1. TypeInv /\ queue = OwnTracks /\ saved = PlayState
  BY InitType DEF Init
<1>2. queue \in Seq(Track) /\ index \in 1..Max2(1, Len(queue))
  BY <1>1 DEF TypeInv, TypeOK
<1>3. /\ DOMAIN queue = 1..Len(queue) /\ Len(queue) \in Nat
      /\ \A i \in 1..Len(queue) : queue[i].src = -i
  <2>1. \A i \in DOMAIN Own : OwnTracks[i].src = -i
    BY DEF OwnTracks
  <2>2. DOMAIN queue = DOMAIN Own
    BY <1>1 DEF OwnTracks
  <2> QED
    BY <1>1, <1>2, <2>1, <2>2
<1>4. NoneTwice(queue)
  <2>1. \A i, j \in 1..Len(queue) : i # j => -i # -j
    OBVIOUS
  <2> QED
    BY <1>3, <2>1 DEF NoneTwice
<1>5. SrcsOf(saved.queue) = SrcsOf(queue) /\ NoneTwice(saved.queue)
  BY <1>1, <1>2, <1>4, PlayStateSame, SameTracksOnce
<1>6. ASSUME NEW k \in Nat \ {0} PROVE ~Held(k)
  <2>1. \A i \in 1..Len(queue) : queue[i].src # k
    BY <1>3
  <2>2. k \notin SrcsOf(queue)
    BY <1>3, <2>1 DEF SrcsOf
  <2> QED
    BY <1>5, <2>2 DEF Held
<1> QED
  BY <1>1, <1>4, <1>5, <1>6 DEF OnceInv

\* The members: what is added was not counted, what is withdrawn is not
\* offered.
LEMMA MemberOnce ==
    ASSUME OnceInv, Member
    PROVE  OnceInv'
<1>1. /\ TypeInv /\ NetworkType /\ ServerType /\ pipe \in Seq(Event) /\ open \in BOOLEAN
      /\ seq \in Nat /\ applied \in Nat /\ applied <= seq /\ taken \in Nat
  BY TypeInvParts, SeqType DEF OnceInv, NetworkType, ServerType, BrowserType
<1>2. ASSUME NEW m \in Members, NEW s \in Songs, Enqueue(m, s) PROVE OnceInv'
  <2>1. TypeInv' /\ NetworkType'
    BY <1>1, <1>2, EnqueueType DEF TypeInv, TypeOK, NetworkType
  <2>2. /\ ToHost(AddEvent(seq + 1)) /\ UNCHANGED <<here, queue, saved, resent, applied, taken>>
    BY <1>2 DEF Enqueue, browser, history
  <2>3. AddEvent(seq + 1) \in Event /\ \A k \in AddEvent(seq + 1).waiting : k > applied
    BY <1>1 DEF AddEvent, Event
  <2>4. \A i \in 1..Len(pipe') : \/ i \in 1..Len(pipe) /\ pipe'[i] = pipe[i]
                                 \/ pipe'[i] = AddEvent(seq + 1)
    BY <1>1, <2>2, <2>3, ToHostType
  <2>5. \A k \in Nat : k <= applied /\ Offered(k, Len(pipe))' => Offered(k, Len(pipe))
    BY <1>1, <2>1, <2>3, <2>4, NotOffered
  <2>6. applied <= applied' /\ taken <= taken'
    BY <1>1, <2>2
  <2> QED
    BY <2>1, <2>2, <2>5, <2>6, QueueSame
<1>3. ASSUME NEW m \in Members, NEW n \in Seqs, Withdraw(m, n) PROVE OnceInv'
  <2>1. TypeInv' /\ NetworkType'
    BY <1>1, <1>3, WithdrawType DEF TypeInv, TypeOK, NetworkType
  <2>2. /\ UNCHANGED <<here, queue, saved, resent, applied, taken>>
        /\ pipe' = pipe \/ ToHost(RemoveEvent(n))
    BY <1>3 DEF Withdraw, browser
  <2>3. RemoveEvent(n) \in Event /\ \A k \in RemoveEvent(n).waiting : k > applied
    <3>1. n \in Nat
      BY DEF Seqs
    <3> QED
      BY <3>1 DEF RemoveEvent, Event
  <2>4. \A i \in 1..Len(pipe') : \/ i \in 1..Len(pipe) /\ pipe'[i] = pipe[i]
                                 \/ pipe'[i] = RemoveEvent(n)
    BY <1>1, <2>2, <2>3, ToHostType
  <2>5. \A k \in Nat : k <= applied /\ Offered(k, Len(pipe))' => Offered(k, Len(pipe))
    BY <1>1, <2>1, <2>3, <2>4, NotOffered
  <2>6. applied <= applied' /\ taken <= taken'
    BY <1>1, <2>2
  <2> QED
    BY <2>1, <2>2, <2>5, <2>6, QueueSame
<1> QED
  BY <1>2, <1>3 DEF Member

\* The server: a count that grows is of what is not offered any more, or was
\* known before it was counted.
LEMMA ServerOnce ==
    ASSUME OnceInv, Receive \/ ReceiveLate \/ StreamOpens \/ StreamDrops
    PROVE  OnceInv'
<1>1. /\ TypeInv /\ NetworkType /\ ServerType /\ pipe \in Seq(Event) /\ Len(pipe) \in Nat
      /\ seq \in Nat /\ applied \in Nat /\ taken \in Nat
  BY TypeInvParts, SeqType DEF OnceInv, NetworkType, BrowserType
<1>2. UNCHANGED <<here, queue, saved, resent, taken>> /\ taken <= taken'
  <2>1. UNCHANGED <<here, queue, saved, resent, taken>>
    BY DEF Receive, ReceiveLate, StreamOpens, StreamDrops, browser, history
  <2> QED
    BY <1>1, <2>1
<1>3. CASE Receive
  <2>1. TypeInv' /\ applied <= applied'
    BY <1>1, <1>3, ReceiveType
  <2>2. pipe' = pipe
    BY <1>3 DEF Receive
  <2>3. \A k \in Nat : k <= applied /\ Offered(k, Len(pipe))' => Offered(k, Len(pipe))
    BY <2>2 DEF Offered
  <2> QED
    BY <1>2, <2>1, <2>3, QueueSame
<1>4. CASE ReceiveLate
  <2>1. PICK request \in late : ReportQueue(request.applied, request.songs)
    BY <1>4 DEF ReceiveLate
  <2>2. request.applied \in Nat /\ request.songs \in Seq(Songs)
    BY <1>1, <2>1 DEF NetworkType, Signature
  <2>3. TypeInv' /\ applied <= applied'
    BY <1>1, <1>4, <2>1, <2>2, ReceiveLateType, ReportQueueKeeps
  <2>4. pipe' = pipe
    BY <1>4 DEF ReceiveLate
  <2>5. \A k \in Nat : k <= applied /\ Offered(k, Len(pipe))' => Offered(k, Len(pipe))
    BY <2>4 DEF Offered
  <2> QED
    BY <1>2, <2>3, <2>5, QueueSame
<1>5. CASE StreamOpens
  <2>1. TypeInv' /\ NetworkType'
    BY <1>1, <1>5, StreamOpensType DEF TypeInv, TypeOK, NetworkType
  <2>2. pipe' = Append(pipe, HostEvent) /\ applied' = applied /\ applied <= applied'
    BY <1>1, <1>5 DEF StreamOpens, server
  <2>3. \A i \in 1..Len(pipe') : \/ i \in 1..Len(pipe) /\ pipe'[i] = pipe[i]
                                 \/ pipe'[i] = HostEvent
    BY <1>1, <2>2
  <2>4. \A k \in HostEvent.waiting : k > applied
    BY DEF HostEvent, Waiting
  <2>5. \A k \in Nat : k <= applied /\ Offered(k, Len(pipe))' => Offered(k, Len(pipe))
    BY <1>1, <2>1, <2>3, <2>4, NotOffered
  <2> QED
    BY <1>2, <2>1, <2>2, <2>5, QueueSame
<1>6. CASE StreamDrops
  <2>1. TypeInv' /\ applied' = applied /\ applied <= applied'
    <3>1. applied' = applied
      BY <1>6 DEF StreamDrops, server
    <3> QED
      BY <1>1, <1>6, <3>1, StreamDropsType
  <2>2. /\ pipe' \in Seq(Event) /\ Len(pipe') \in 0..Len(pipe)
        /\ \A i \in 1..Len(pipe') : pipe'[i] = pipe[i]
    BY <1>1, <1>6, StreamDropsPrefix
  <2>3. \A k \in Nat : k <= applied /\ Offered(k, Len(pipe))' => Offered(k, Len(pipe))
    BY <1>1, <2>2 DEF Offered
  <2> QED
    BY <1>2, <2>1, <2>3, QueueSame
<1> QED
  BY <1>3, <1>4, <1>5, <1>6

\* What the host does with members and queue, and the page with the saved one.
PlayerMoves ==
    \/ \E m \in Members : RemoveMember(m)
    \/ Skip(1) \/ Skip(-1)
    \/ \E i \in DOMAIN queue : RemoveAt(i)
    \/ Persist \/ Restore \/ RestoreFails

\* The host's player: what it takes out, saves and restores is held before.
LEMMA PlayerOnce ==
    ASSUME OnceInv, PlayerMoves
    PROVE  OnceInv'
<1>1. TypeInv /\ StepFits /\ BrowserType /\ applied \in Nat /\ taken \in Nat
  BY TypeInvParts, SeqType DEF OnceInv, BrowserType
<1>2. /\ TypeInv' /\ UNCHANGED <<applied, taken, resent, pipe>>
      /\ applied <= applied' /\ taken <= taken'
  <2>1. TypeInv'
    <3>1. ASSUME Skip(1) \/ Skip(-1) PROVE TypeInv'
      BY <1>1, <3>1, SkipType
    <3> QED
      BY <1>1, <3>1, RemoveMemberType, RemoveAtType, SavingType, RestoreFailsType DEF PlayerMoves
  <2>2. UNCHANGED <<applied, taken, resent, pipe>>
    BY DEF PlayerMoves, RemoveMember, Skip, RemoveAt, Persist, Restore, RestoreFails,
           server, network, browser, history
  <2> QED
    BY <1>1, <2>1, <2>2
<1>3. \A k \in Nat : k <= applied /\ Offered(k, Len(pipe))' => Offered(k, Len(pipe))
  BY <1>2 DEF Offered
<1>4. ASSUME NEW m \in Members, RemoveMember(m) PROVE OnceInv'
  <2>1. UNCHANGED <<here, queue, saved, resent>>
    BY <1>4 DEF RemoveMember, browser
  <2> QED
    BY <1>2, <1>3, <2>1, QueueSame
<1>5. CASE Skip(1) \/ Skip(-1)
  <2>1. UNCHANGED <<here, queue, saved, resent>>
    BY <1>5 DEF Skip, history
  <2> QED
    BY <1>2, <1>3, <2>1, QueueSame
<1>6. ASSUME NEW i \in DOMAIN queue, RemoveAt(i) PROVE OnceInv'
  <2>1. queue' = Without(queue, {i}) /\ UNCHANGED <<here, saved, resent>>
    BY <1>6 DEF RemoveAt
  <2>2. queue \in Seq(Track) /\ {i} \in SUBSET (1..Len(queue)) /\ NoneTwice(queue)
    BY <1>1 DEF BrowserType, OnceInv
  <2>3. NoneTwice(Without(queue, {i})) /\ SrcsOf(Without(queue, {i})) \subseteq SrcsOf(queue)
    BY <2>2, WithoutOnce
  <2>4. NoneTwice(queue)' /\ NoneTwice(saved.queue)'
    BY <2>1, <2>3 DEF NoneTwice, OnceInv
  <2>5. \A k \in Nat \ {0} : Held(k)' => Held(k)
    BY <2>1, <2>3 DEF Held, SrcsOf
  <2> QED
    BY <1>2, <1>3, <2>4, <2>5, KnownStays
<1>7. CASE Persist
  <2>1. here /\ here' /\ queue' = queue /\ saved' = PlayState /\ resent' = resent
    BY <1>7 DEF Persist, browser, history
  <2>2. queue \in Seq(Track) /\ index \in 1..Max2(1, Len(queue))
    BY <1>1 DEF BrowserType
  <2>3. SameTracks(PlayState.queue, queue) /\ PlayState.queue \in Seq(Track)
    BY <2>2, PlayStateSame
  <2>4. NoneTwice(PlayState.queue)
    BY <2>2, <2>3, SameTracksOnce DEF OnceInv
  <2>5. NoneTwice(queue)' /\ NoneTwice(saved.queue)'
    <3>1. NoneTwice(queue)'
      BY <2>1 DEF NoneTwice, OnceInv
    <3>2. saved'.queue = PlayState.queue
      BY <2>1
    <3> HIDE DEF PlayState
    <3> QED
      BY <2>1, <2>4, <3>1, <3>2 DEF NoneTwice
  <2>6. \A k \in Nat \ {0} : Held(k)' => Held(k)
    BY <2>1 DEF Held, SrcsOf
  <2> QED
    BY <1>2, <1>3, <2>5, <2>6, KnownStays
<1>8. CASE Restore
  <2>1. ~here /\ here' /\ queue' = saved.queue /\ saved' = saved /\ resent' = resent
    BY <1>8 DEF Restore, history
  <2>2. NoneTwice(queue)' /\ NoneTwice(saved.queue)'
    BY <2>1 DEF NoneTwice, OnceInv
  <2>3. \A k \in Nat \ {0} : Held(k)' => Held(k)
    BY <2>1 DEF Held, SrcsOf
  <2> QED
    BY <1>2, <1>3, <2>2, <2>3, KnownStays
<1>9. CASE RestoreFails
  <2>1. here' /\ UNCHANGED <<queue, saved, resent>>
    BY <1>9 DEF RestoreFails
  <2>2. NoneTwice(queue)' /\ NoneTwice(saved.queue)'
    BY <2>1 DEF NoneTwice, OnceInv
  <2>3. \A k \in Nat \ {0} : Held(k)' => Held(k)
    BY <2>1 DEF Held, SrcsOf
  <2> QED
    BY <1>2, <1>3, <2>2, <2>3, KnownStays
<1> QED
  BY <1>4, <1>5, <1>6, <1>7, <1>8, <1>9 DEF PlayerMoves

\* A step abandoned, and what the page knows of its party, leave the queue and
\* its counts alone.
LEMMA QuietOnce ==
    ASSUME OnceInv, BodyLost \/ Attaching
    PROVE  OnceInv'
<1>1. TypeInv /\ NetworkType /\ HistoryType /\ applied \in Nat /\ taken \in Nat
      /\ pipe \in Seq(Event) /\ Len(pipe) \in Nat
  BY TypeInvParts, SeqType DEF OnceInv, BrowserType, NetworkType
<1>2. TypeInv'
  BY <1>1, BodyLostType, AttachingType
<1>3. CASE BodyLost
  <2>1. /\ UNCHANGED <<here, queue, saved, resent, applied, taken>>
        /\ applied <= applied' /\ taken <= taken'
    BY <1>1, <1>3, BodyLostLeaves DEF server
  <2>2. pipe' = pipe \/ (pipe # <<>> /\ pipe' = Tail(pipe))
    BY <1>1, <1>3, BodyLostLeaves
  <2>3. ASSUME NEW k, Offered(k, Len(pipe))' PROVE Offered(k, Len(pipe))
    <3>1. CASE pipe' = pipe
      BY <2>3, <3>1 DEF Offered
    <3>2. CASE pipe # <<>> /\ pipe' = Tail(pipe)
      <4>1. \A i \in 1..Len(pipe') : i + 1 \in 1..Len(pipe) /\ pipe'[i] = pipe[i + 1]
        BY <1>1, <3>2, HeadOfPipe
      <4> QED
        BY <2>3, <4>1 DEF Offered
    <3> QED
      BY <2>2, <3>1, <3>2
  <2> QED
    BY <1>2, <2>1, <2>3, QueueSame
<1>4. CASE Attaching
  <2>1. /\ UNCHANGED <<here, queue, saved, resent, applied, taken, pipe>>
        /\ applied <= applied' /\ taken <= taken'
    BY <1>1, <1>4, AttachingLeaves DEF server, network, history, HistoryType
  <2>2. \A k \in Nat : k <= applied /\ Offered(k, Len(pipe))' => Offered(k, Len(pipe))
    BY <2>1 DEF Offered
  <2> QED
    BY <1>2, <2>1, <2>2, QueueSame
<1> QED
  BY <1>3, <1>4

\* The step that handles an event: what it offers and the page does not count
\* is not in the queue, but where a reload brought it.
LEMMA HandlingOnce ==
    ASSUME OnceInv, TypeInv', here, here', pipe # <<>>,
           NEW q \in Seq(Track), index \in 1..Max2(1, Len(q)), SameTracks(q, queue),
           NEW last, Handle(q, Head(pipe), last), pipe' = Tail(pipe), taken <= taken',
           \A k \in Head(pipe).waiting : k <= taken \/ k <= taken',
           UNCHANGED <<applied, saved, resent>>
    PROVE  OnceInv'
<1>1. /\ TypeInv /\ NetworkType /\ ServerType /\ BrowserType /\ HistoryType
      /\ seq \in Nat /\ applied \in Nat /\ Len(pipe) \in Nat /\ queue \in Seq(Track)
  BY TypeInvParts, SeqType DEF OnceInv, NetworkType, BrowserType
<1>2. /\ made \in Seq([song : Songs, member : Members]) /\ taken \in 0..seq /\ loads \in Nat
      /\ taken \in Nat /\ queue' \in Seq(Track)
  BY <1>1 DEF ServerType, BrowserType, HistoryType, TypeInv, TypeOK
<1>3. /\ Head(pipe) = pipe[1] /\ 1 \in 1..Len(pipe) /\ Head(pipe) \in Event
      /\ Head(pipe).waiting \subseteq 1..seq
      /\ Tail(pipe) \in Seq(Event)
      /\ \A i \in 1..Len(Tail(pipe)) : i + 1 \in 1..Len(pipe) /\ Tail(pipe)[i] = pipe[i + 1]
  BY <1>1, HeadOfPipe DEF NetworkType
<1>4. NoneTwice(q) /\ SrcsOf(q) = SrcsOf(queue)
  BY <1>1, SameTracksOnce DEF OnceInv
<1>5. ASSUME NEW k \in NotTaken(Head(pipe)), k \in SrcsOf(q) PROVE k \in resent
  <2>1. k \in Head(pipe).waiting /\ k > taken /\ k \in Nat \ {0}
    BY <1>1, <1>3, <1>5 DEF NotTaken
  <2>2. Offered(k, Len(pipe))
    BY <1>3, <2>1 DEF Offered
  <2>3. Known(k)
    BY <1>4, <1>5, <2>1 DEF OnceInv, Held
  <2>4. ~(k <= taken)
    BY <1>2, <2>1
  <2> QED
    BY <2>2, <2>3, <2>4 DEF Known
<1>6. /\ NoneTwice(queue)'
      /\ \A k \in SrcsOf(queue') : k \in SrcsOf(q) \/ k \in NotTaken(Head(pipe))
  BY <1>2, <1>3, <1>4, <1>5, HandleOnce
<1>7. NoneTwice(saved.queue)'
  BY DEF NoneTwice, OnceInv
<1>8. ASSUME NEW k \in Nat \ {0}, Held(k)' PROVE Held(k) \/ k <= taken' \/ k \in resent'
  <2>1. k \in SrcsOf(queue')
    BY <1>8 DEF Held, SrcsOf
  <2>2. CASE k \in SrcsOf(q)
    BY <1>4, <2>2 DEF Held
  <2>3. CASE k \in NotTaken(Head(pipe))
    <3>1. k \in Head(pipe).waiting /\ k > taken
      BY <2>3 DEF NotTaken
    <3>2. ~(k <= taken)
      BY <1>2, <3>1
    <3> QED
      BY <3>1, <3>2
  <2> QED
    BY <1>6, <2>1, <2>2, <2>3
<1>9. \A k \in Nat : k <= applied /\ Offered(k, Len(pipe))' => Offered(k, Len(pipe))
  BY <1>3 DEF Offered
<1>10. applied <= applied' /\ resent \subseteq resent'
  BY <1>1
<1> QED
  BY <1>6, <1>7, <1>8, <1>9, <1>10, KnownStays

\* A step that goes on or ends.
LEMMA ResumeOnce ==
    ASSUME OnceInv, TypeInv', post.state # "none",
           NEW q \in Seq(Track), index \in 1..Max2(1, Len(q)), SameTracks(q, queue),
           NEW last \in Signature \cup {NotReported}, Resume(q, last), late' \subseteq Signature,
           UNCHANGED <<made, open, follows, here, index, saved, applied, resent>>
    PROVE  OnceInv'
<1>1. /\ TypeInv /\ StepFits /\ BrowserType /\ applied \in Nat /\ taken \in Nat /\ seq \in Nat
      /\ queue \in Seq(Track)
  BY TypeInvParts, SeqType DEF OnceInv, BrowserType
<1>2. CASE doing = "closing" /\ queue' = q /\ UNCHANGED <<pipe, taken>>
  <2>1. NoneTwice(q) /\ SrcsOf(q) = SrcsOf(queue)
    BY <1>1, SameTracksOnce DEF OnceInv
  <2>2. NoneTwice(queue)' /\ NoneTwice(saved.queue)'
    BY <1>2, <2>1 DEF NoneTwice, OnceInv
  <2>3. \A k \in Nat \ {0} : Held(k)' => Held(k)
    BY <1>2, <2>1 DEF Held, SrcsOf
  <2>4. \A k \in Nat : k <= applied /\ Offered(k, Len(pipe))' => Offered(k, Len(pipe))
    BY <1>2 DEF Offered
  <2>5. applied <= applied' /\ taken <= taken'
    BY <1>1, <1>2
  <2> QED
    BY <2>2, <2>3, <2>4, <2>5, KnownStays
<1>3. CASE doing = "naming" /\ Handle(q, Head(pipe), last) /\ pipe' = Tail(pipe)
  <2>1. here /\ here' /\ pipe # <<>>
    BY <1>1, <1>3 DEF StepFits
  <2>2. /\ StepKeeps(q)
        /\ \A k \in Head(pipe).waiting : k <= taken \/ (k <= taken' /\ k \in SrcsOf(queue'))
    BY <1>1, <1>3, <2>1, HandleType
  <2> QED
    BY <1>3, <2>1, <2>2, HandlingOnce DEF StepKeeps
<1> QED
  BY <1>2, <1>3 DEF Resume

\* The browser's steps.
LEMMA WorkOnce ==
    ASSUME OnceInv, Work \/ Fails
    PROVE  OnceInv'
<1>1. /\ TypeInv /\ NetworkType /\ StepFits /\ BrowserType /\ applied \in Nat /\ taken \in Nat
      /\ queue \in Seq(Track) /\ index \in 1..Max2(1, Len(queue))
      /\ reported \in Signature \cup {NotReported} /\ turns \in Nat
  BY TypeInvParts, SeqType DEF OnceInv, BrowserType, HistoryType
<1>2. SameTracks(queue, queue)
  BY DEF SameTracks
<1>3. CASE BeginHost
  <2>1. TypeInv' /\ UNCHANGED <<here, queue, saved, resent, applied, pipe>>
    BY <1>1, <1>3, BeginHostType DEF BeginHost, server, history
  <2>2. applied <= applied' /\ taken <= taken'
    <3>1. taken' = Max2(taken, Head(pipe).applied) /\ Head(pipe) \in Event
      BY <1>1, <1>3, HeadOfPipe DEF BeginHost
    <3>2. Head(pipe).applied \in Nat
      BY <3>1 DEF Event
    <3> QED
      BY <1>1, <2>1, <3>1, <3>2 DEF Max2
  <2>3. \A k \in Nat : k <= applied /\ Offered(k, Len(pipe))' => Offered(k, Len(pipe))
    BY <2>1 DEF Offered
  <2> QED
    BY <2>1, <2>2, <2>3, QueueSame
<1>4. CASE Begin
  <2>1. TypeInv'
    BY <1>1, <1>4, BeginType
  <2>2. /\ here /\ here' /\ pipe # <<>> /\ Handle(queue, Head(pipe), reported) /\ pipe' = Tail(pipe)
        /\ UNCHANGED <<made, open, follows, here, index, saved, applied, resent, late>>
    BY <1>4 DEF Begin, server
  <2>3. late' \subseteq Signature
    BY <1>1, <2>2 DEF NetworkType
  <2>4. /\ StepKeeps(queue)
        /\ \A k \in Head(pipe).waiting : k <= taken \/ (k <= taken' /\ k \in SrcsOf(queue'))
    BY <1>1, <2>2, <2>3, HandleType
  <2> QED
    BY <1>1, <1>2, <2>1, <2>2, <2>4, HandlingOnce DEF StepKeeps
<1>5. CASE Check
  <2>1. TypeInv' /\ UNCHANGED <<here, queue, saved, resent, applied, pipe, taken>>
    BY <1>1, <1>5, CheckType DEF Check, server, history
  <2>2. applied <= applied' /\ taken <= taken'
    BY <1>1, <2>1
  <2>3. \A k \in Nat : k <= applied /\ Offered(k, Len(pipe))' => Offered(k, Len(pipe))
    BY <2>1 DEF Offered
  <2> QED
    BY <2>1, <2>2, <2>3, QueueSame
<1>6. CASE Answered
  <2>1. /\ post.state = "answered" /\ Resume(Marked(queue), reported)
        /\ UNCHANGED <<made, open, follows, here, index, saved, applied, resent, late>>
    BY <1>6 DEF Answered, server
  <2>2. TypeInv' /\ late' \subseteq Signature
    BY <1>1, <1>6, <2>1, AnsweredType DEF NetworkType
  <2>3. /\ Marked(queue) \in Seq(Track) /\ Len(Marked(queue)) = Len(queue)
        /\ \A i \in 1..Len(queue) : Marked(queue)[i].src = queue[i].src
    <3>1. post \in Post /\ Len(post.answer) = Len(post.tracks)
      BY <1>1, <2>1 DEF NetworkType, StepFits
    <3> QED
      BY <1>1, <3>1, MarkedKeeps
  <2>4. SameTracks(Marked(queue), queue) /\ index \in 1..Max2(1, Len(Marked(queue)))
    BY <1>1, <2>3 DEF SameTracks
  <2> QED
    BY <1>1, <2>1, <2>2, <2>3, <2>4, ResumeOnce
<1>7. CASE Fails
  <2>1. /\ post.state # "none" /\ Resume(queue, AfterFailure) /\ Abandon
        /\ UNCHANGED <<made, open, follows, here, index, saved, applied, resent>>
    BY <1>7 DEF Fails, server
  <2>2. TypeInv' /\ late' \subseteq Signature /\ AfterFailure \in Signature \cup {NotReported}
    BY <1>1, <1>7, <2>1, FailsType, AbandonType DEF AfterFailure
  <2> QED
    BY <1>1, <1>2, <2>1, <2>2, ResumeOnce
<1> QED
  BY <1>3, <1>4, <1>5, <1>6, <1>7 DEF Work

\* A page loaded again knows what was counted by the server, and no event
\* offers that; the rest of what it will find is `resent`.
LEMMA PageGoesOnce ==
    ASSUME OnceInv, TypeInv', NEW s, PageGoes(s), s.queue \in Seq(Track), NoneTwice(s.queue)
    PROVE  OnceInv'
<1>1. /\ UNCHANGED applied /\ pipe' = <<>> /\ ~here' /\ queue' = <<>> /\ taken' = 0 /\ saved' = s
      /\ resent' = resent \cup {k \in SrcsOf(s.queue) : k > applied}
  BY DEF PageGoes, server
<1>2. applied \in Nat
  BY TypeInvParts, SeqType DEF OnceInv
<1>3. NoneTwice(queue)'
  BY <1>1 DEF NoneTwice
<1>4. NoneTwice(saved.queue)'
  BY <1>1 DEF NoneTwice
<1>5. ASSUME NEW k \in Nat \ {0}, Held(k)' PROVE Known(k)'
  <2>1. k \in SrcsOf(s.queue)
    BY <1>1, <1>5 DEF Held, SrcsOf
  <2>2. CASE k > applied
    BY <1>1, <2>1, <2>2 DEF Known
  <2>3. CASE k <= applied
    BY <1>1, <2>3 DEF Known, Offered
  <2> QED
    BY <1>2, <2>2, <2>3
<1> QED
  BY <1>3, <1>4, <1>5 DEF OnceInv

\* A reload, and a crash.
LEMMA PageOnce ==
    ASSUME OnceInv, Reload \/ Crash
    PROVE  OnceInv'
<1>1. TypeInv /\ BrowserType /\ queue \in Seq(Track) /\ index \in 1..Max2(1, Len(queue))
      /\ saved.queue \in Seq(Track)
  BY TypeInvParts DEF OnceInv, BrowserType
<1>2. PlayState.queue \in Seq(Track) /\ NoneTwice(PlayState.queue)
  BY <1>1, PlayStateSame, SameTracksOnce DEF OnceInv
<1>3. TypeInv'
  BY <1>1, ReloadType, CrashType
<1>4. PageGoes(PlayState) \/ PageGoes(saved)
  BY DEF Reload, Crash
<1> HIDE DEF PlayState
<1> QED
  BY <1>1, <1>2, <1>3, <1>4, PageGoesOnce DEF OnceInv

\* Every step keeps the invariant.
LEMMA OnceStep == OnceInv /\ [Next]_vars => OnceInv'
<1> SUFFICES ASSUME OnceInv, [Next]_vars PROVE OnceInv'
  OBVIOUS
<1>1. CASE UNCHANGED vars
  <2>1. TypeInv'
    BY <1>1, StutterType DEF OnceInv
  <2>2. UNCHANGED <<here, queue, saved, resent, applied, taken, pipe>>
    BY <1>1 DEF vars, server, network, browser, history
  <2>3. applied <= applied' /\ taken <= taken'
    BY <2>2, TypeInvParts, SeqType DEF OnceInv, BrowserType
  <2>4. \A k \in Nat : k <= applied /\ Offered(k, Len(pipe))' => Offered(k, Len(pipe))
    BY <2>2 DEF Offered
  <2> QED
    BY <2>1, <2>2, <2>3, <2>4, QueueSame
<1> QED
  BY <1>1, MemberOnce, ServerOnce, PlayerOnce, QuietOnce, WorkOnce, PageOnce
     DEF Next, Trouble, Host, Attaching, PlayerMoves

\* An addition is in the player's queue once, however often the stream opens
\* again and offers it: #take and #applied, and for a page loaded again the
\* server's count, leave out what was taken, but for what a reload found in
\* the saved queue and no report had counted yet.
THEOREM TakenOnce == Spec => []OnceEach
<1>1. OnceInv => OnceEach
  BY DEF OnceInv, NoneTwice, OnceEach
<1> QED
  BY <1>1, InitOnce, OnceStep, PTL DEF Spec

-----------------------------------------------------------------------------
(* Names are true.  The server tells additions apart by their songs, and   *)
(* the browser finds the tracks of an answer as the objects they are; so a *)
(* track carries the number of an addition of its song or none, and what   *)
(* #drop takes out is a track of the song that was taken back.  Where no   *)
(* other in the party is of that song, there is one such addition.         *)

\* A track of this song may come from `src`, of the additions in m or the host's.
ComesFrom(src, song, m) == \/ src \in 1..Len(m) /\ m[src].song = song
                           \/ src \in Int /\ src <= 0 /\ -src \in DOMAIN Own /\ Own[-src] = song

\* One of this song may be named after the addition `by` of m.
NameOf(by, song, m) == by # 0 => by \in 1..Len(m) /\ m[by].song = song

\* A track is of the song it came with, and named after an addition of it.
TrueTrack(t, m) == ComesFrom(t.src, t.song, m) /\ NameOf(t.by, t.song, m)
AllTrue(q, m) == \A i \in DOMAIN q : TrueTrack(q[i], m)

\* What was taken out was of the song of what was taken back.
StruckTrue(m) == \A x \in struck : x[1] \in 1..Len(m) /\ ComesFrom(x[2], m[x[1]].song, m)

\* An answer names the tracks it was asked about after additions of their songs.
AnswerTrue == post.state = "answered" =>
                  \A j \in DOMAIN post.tracks : NameOf(post.answer[j], post.tracks[j].song, made)

\* No event takes back the addition 0, which stands for none.
NothingForNone == \A i \in DOMAIN pipe : 0 \notin pipe[i].withdrawn

Named == /\ AllTrue(queue, made) /\ AllTrue(saved.queue, made) /\ AllTrue(post.tracks, made)
         /\ AnswerTrue /\ StruckTrue(made)

NamedInv == TypeInv /\ NothingForNone /\ Named

\* Where a song is that of one addition and of none of the host's, a track of it
\* came from the addition that may give it its name.
LEMMA OneOfSong ==
    ASSUME NEW by, NEW src, NEW song, by # 0, NameOf(by, song, made), ComesFrom(src, song, made),
           OnlyOnce(song)
    PROVE  by = src
<1>1. by \in 1..seq /\ made[by].song = song
  BY DEF NameOf, seq
<1>2. CASE src \in 1..Len(made) /\ made[src].song = song
  BY <1>1, <1>2 DEF OnlyOnce, seq
<1>3. CASE -src \in DOMAIN Own /\ Own[-src] = song
  BY <1>1, <1>3 DEF OnlyOnce
<1> QED
  BY <1>2, <1>3 DEF ComesFrom

\* More additions leave a true track true.
Grown(m, n) == /\ Len(m) \in Nat /\ Len(n) \in Nat /\ Len(m) <= Len(n)
               /\ \A k \in 1..Len(m) : n[k] = m[k]

LEMMA SongStays ==
    ASSUME NEW m, NEW n, Grown(m, n), NEW k, NEW song
    PROVE  /\ ComesFrom(k, song, m) => ComesFrom(k, song, n)
           /\ NameOf(k, song, m) => NameOf(k, song, n)
<1>1. k \in 1..Len(m) => k \in 1..Len(n) /\ n[k] = m[k]
  BY DEF Grown
<1> QED
  BY <1>1 DEF ComesFrom, NameOf

LEMMA TrueStays ==
    ASSUME NEW m, NEW n, Grown(m, n), NEW q, AllTrue(q, m)
    PROVE  AllTrue(q, n)
BY SongStays DEF AllTrue, TrueTrack

\* A queue made of true tracks.
LEMMA TrueOf ==
    ASSUME NEW m, NEW q, NEW p, AllTrue(q, m),
           \A i \in DOMAIN p : \E j \in DOMAIN q : p[i] = q[j]
    PROVE  AllTrue(p, m)
BY DEF AllTrue

\* An answer is true: it names a track after one of the additions of its song.
LEMMA FoundTrue ==
    ASSUME seq \in Nat, NEW tracks \in Seq(Track), NEW from \in SUBSET (1..seq)
    PROVE  \A i \in 1..Len(tracks) : NameOf(Found(SongsOf(tracks), from)[i], tracks[i].song, made)
<1> DEFINE songs == SongsOf(tracks)
           same(i) == {k \in from : made[k].song = songs[i]}
           nth(i) == Cardinality({j \in 1..i : songs[j] = songs[i]})
           its(i, k) == Cardinality({l \in same(i) : l <= k}) = nth(i)
           value(i) == IF \E k \in same(i) : its(i, k)
                       THEN CHOOSE k \in same(i) : its(i, k) ELSE 0
<1>1. DOMAIN songs = 1..Len(tracks) /\ \A i \in 1..Len(tracks) : songs[i] = tracks[i].song
  BY DEF SongsOf
<1>2. Found(songs, from) = [i \in DOMAIN songs |-> value(i)]
  BY DEF Found
<1>3. ASSUME NEW i \in 1..Len(tracks), NEW k \in same(i) PROVE NameOf(k, tracks[i].song, made)
  BY <1>1 DEF NameOf, seq
<1>4. ASSUME NEW i \in 1..Len(tracks) PROVE value(i) = 0 \/ value(i) \in same(i)
  <2> HIDE DEF same, its
  <2> QED
    OBVIOUS
<1>5. ASSUME NEW i \in 1..Len(tracks) PROVE NameOf(value(i), tracks[i].song, made)
  <2>1. NameOf(0, tracks[i].song, made)
    BY DEF NameOf
  <2> HIDE DEF value, same
  <2> QED
    BY <1>3, <1>4, <2>1
<1> HIDE DEF value, songs
<1> QED
  BY <1>1, <1>2, <1>5 DEF songs

\* Naming tracks by a true answer leaves them true.
LEMMA MarkedTrue ==
    ASSUME NEW q \in Seq(Track), post \in Post, Len(post.answer) = Len(post.tracks),
           AllTrue(q, made), AllTrue(post.tracks, made),
           \A j \in DOMAIN post.tracks : NameOf(post.answer[j], post.tracks[j].song, made)
    PROVE  AllTrue(Marked(q), made)
<1> DEFINE at(i) == {j \in DOMAIN post.tracks : /\ post.tracks[j].src = q[i].src
                                                /\ post.tracks[j].page = q[i].page}
           track(i) == IF at(i) = {} THEN q[i]
                       ELSE [q[i] EXCEPT !.by = post.answer[CHOOSE j \in at(i) : TRUE]]
<1>1. Marked(q) = [i \in DOMAIN q |-> track(i)]
  BY DEF Marked
<1>2. ASSUME NEW i \in DOMAIN q PROVE TrueTrack(track(i), made)
  <2>1. TrueTrack(q[i], made) /\ q[i] \in Track
    BY DEF AllTrue
  <2>2. CASE at(i) = {}
    BY <2>1, <2>2
  <2>3. CASE at(i) # {}
    <3>1. PICK j \in DOMAIN post.tracks :
              /\ post.tracks[j].src = q[i].src
              /\ track(i) = [q[i] EXCEPT !.by = post.answer[j]]
      <4> DEFINE j == CHOOSE j \in at(i) : TRUE
      <4>1. j \in at(i)
        BY <2>3
      <4>2. track(i) = [q[i] EXCEPT !.by = post.answer[j]]
        BY <2>3
      <4>3. j \in DOMAIN post.tracks /\ post.tracks[j].src = q[i].src
        BY <4>1
      <4> HIDE DEF j, track
      <4> QED
        BY <4>2, <4>3
    <3> HIDE DEF track, at
    <3>2. post.tracks[j].song = q[i].song
      <4>1. ComesFrom(q[i].src, q[i].song, made) /\ ComesFrom(q[i].src, post.tracks[j].song, made)
        BY <2>1, <3>1 DEF AllTrue, TrueTrack
      <4> QED
        BY <4>1 DEF ComesFrom
    <3>3. track(i).by = post.answer[j] /\ track(i).src = q[i].src /\ track(i).song = q[i].song
      BY <2>1, <3>1 DEF Track
    <3>4. NameOf(post.answer[j], q[i].song, made)
      BY <3>1, <3>2
    <3> QED
      BY <2>1, <3>3, <3>4 DEF TrueTrack
  <2> QED
    BY <2>2, <2>3
<1> HIDE DEF track
<1> QED
  BY <1>1, <1>2 DEF AllTrue

\* A step that handles an event: what it takes carries its own number, and what
\* it takes out carried the number it was told.
LEMMA HandleTrue ==
    ASSUME NEW q \in Seq(Track), index \in 1..Max2(1, Len(q)),
           made \in Seq([song : Songs, member : Members]), taken \in 0..seq, loads \in Nat,
           NEW event \in Event, event.waiting \subseteq 1..seq, 0 \notin event.withdrawn,
           NEW last, Handle(q, event, last), queue' \in Seq(Track),
           AllTrue(q, made), StruckTrue(made), made' = made
    PROVE  AllTrue(queue', made) /\ StruckTrue(made)'
<1>1. \A i \in 1..Len(queue') : \/ \E p \in 1..Len(q) : queue'[i] = q[p]
                                \/ \E k \in NotTaken(event) : queue'[i] = Addition(k)
  BY HandleTracks
<1>2. ASSUME NEW k \in NotTaken(event) PROVE TrueTrack(Addition(k), made)
  <2>1. k \in 1..Len(made)
    BY DEF NotTaken, seq
  <2> QED
    BY <2>1 DEF Addition, TrueTrack, ComesFrom, NameOf
<1>3. AllTrue(queue', made)
  <2>1. ASSUME NEW i \in DOMAIN queue' PROVE TrueTrack(queue'[i], made)
    <3>1. i \in 1..Len(queue') /\ DOMAIN q = 1..Len(q)
      OBVIOUS
    <3> QED
      BY <1>1, <1>2, <3>1 DEF AllTrue
  <2> QED
    BY <2>1 DEF AllTrue
<1> DEFINE gone == DropsAt(q, event.withdrawn)
<1>4. struck' = struck \cup {<<q[i].by, q[i].src>> : i \in gone}
  BY DEF Handle
<1>5. ASSUME NEW i \in gone
      PROVE  q[i].by \in 1..Len(made) /\ ComesFrom(q[i].src, made[q[i].by].song, made)
  <2>1. q[i].by # 0
    BY DEF DropsAt
  <2>2. i \in DOMAIN q
    BY DropsKept
  <2>3. TrueTrack(q[i], made)
    BY <2>2 DEF AllTrue
  <2> QED
    BY <2>1, <2>3 DEF TrueTrack, NameOf
<1> HIDE DEF gone
<1>6. \A x \in struck' : x[1] \in 1..Len(made) /\ ComesFrom(x[2], made[x[1]].song, made)
  <2>1. \A x \in struck : x[1] \in 1..Len(made) /\ ComesFrom(x[2], made[x[1]].song, made)
    BY DEF StruckTrue
  <2>2. ASSUME NEW x \in {<<q[i].by, q[i].src>> : i \in gone}
        PROVE  x[1] \in 1..Len(made) /\ ComesFrom(x[2], made[x[1]].song, made)
    <3>1. PICK i \in gone : x = <<q[i].by, q[i].src>>
      OBVIOUS
    <3>2. x[1] = q[i].by /\ x[2] = q[i].src
      BY <3>1
    <3> QED
      BY <1>5, <3>2
  <2> QED
    BY <1>4, <2>1, <2>2
<1>7. StruckTrue(made)'
  BY <1>6 DEF StruckTrue
<1> QED
  BY <1>3, <1>7

\* What a report sends is what is up next, or nothing, unanswered.
LEMMA ReportTrue ==
    ASSUME NEW q \in Seq(Track), index \in Nat, NEW m, AllTrue(q, m),
           NEW upTo, NEW last, NEW always, NEW step, Report(q, upTo, last, always, step)
    PROVE  AllTrue(post'.tracks, m) /\ post'.state \in {"none", "sent"}
<1>1. post' = NoPost \/ (post'.tracks = Upcoming(q) /\ post'.state = "sent")
  BY DEF Report
<1>2. CASE post' = NoPost
  BY <1>2 DEF NoPost, AllTrue
<1>3. CASE post'.tracks = Upcoming(q) /\ post'.state = "sent"
  <2> DEFINE rest == Upcoming(q)
  <2>1. \A i \in 1..Len(rest) : index + i \in 1..Len(q) /\ rest[i] = q[index + i]
    BY SubSeqProperties DEF Upcoming
  <2>2. DOMAIN rest = 1..Len(rest)
    <3>1. \A i \in (index + 1)..Len(q) : q[i] \in Track
      OBVIOUS
    <3>2. rest \in Seq(Track)
      BY <3>1, SubSeqProperties DEF Upcoming
    <3> HIDE DEF rest
    <3> QED
      BY <3>2
  <2> HIDE DEF rest
  <2>3. \A i \in DOMAIN rest : \E j \in DOMAIN q : rest[i] = q[j]
    BY <2>1, <2>2
  <2>4. AllTrue(rest, m)
    BY <2>3, TrueOf
  <2> QED
    BY <1>3, <2>4 DEF rest
<1> QED
  BY <1>1, <1>2, <1>3

\* What stays of a queue is true.
LEMMA WithoutTrue ==
    ASSUME NEW q \in Seq(Track), NEW gone \in SUBSET (1..Len(q)), NEW m, AllTrue(q, m)
    PROVE  AllTrue(Without(q, gone), m)
<1>1. PICK at \in [1..(Len(q) - Cardinality(gone)) -> 1..Len(q)] :
          Without(q, gone) = [n \in DOMAIN at |-> q[at[n]]]
  BY WithoutAt
<1>2. DOMAIN Without(q, gone) = DOMAIN at
      /\ \A n \in DOMAIN at : Without(q, gone)[n] = q[at[n]] /\ at[n] \in DOMAIN q
  BY <1>1
<1>3. \A i \in DOMAIN Without(q, gone) : \E j \in DOMAIN q : Without(q, gone)[i] = q[j]
  BY <1>2
<1> QED
  BY <1>3, TrueOf

\* The play state has the queue's tracks, without names.
LEMMA PlayStateTrue ==
    ASSUME queue \in Seq(Track), index \in 1..Max2(1, Len(queue)), NEW m, AllTrue(queue, m)
    PROVE  AllTrue(PlayState.queue, m)
<1>1. PlayState.queue = [i \in 1..Len(queue) |-> [queue[i] EXCEPT !.by = 0]]
  BY PlayStateType
<1>2. ASSUME NEW i \in 1..Len(queue) PROVE TrueTrack([queue[i] EXCEPT !.by = 0], m)
  <2>1. queue[i] \in Track /\ TrueTrack(queue[i], m)
    BY DEF AllTrue
  <2>2. PICK t : t = [queue[i] EXCEPT !.by = 0]
    OBVIOUS
  <2>3. t.by = 0 /\ t.src = queue[i].src /\ t.song = queue[i].song
    BY <2>1, <2>2 DEF Track
  <2>4. TrueTrack(t, m)
    BY <2>1, <2>3 DEF TrueTrack, NameOf
  <2> QED
    BY <2>2, <2>4
<1> HIDE DEF PlayState
<1> QED
  BY <1>1, <1>2 DEF AllTrue

\* The additions made stay, and no step but Enqueue makes one.
LEMMA MadeStays ==
    ASSUME TypeInv, [Next]_vars
    PROVE  /\ made' \in Seq([song : Songs, member : Members]) /\ Grown(made, made')
           /\ seq \in Nat /\ Len(made) \in Nat
           /\ \/ made' = made
              \/ \E m \in Members, s \in Songs : Enqueue(m, s)
<1>1. /\ made \in Seq([song : Songs, member : Members]) /\ Len(made) \in Nat /\ seq \in Nat
      /\ made' \in Seq([song : Songs, member : Members])
  <2>1. TypeInv'
    BY TypeInvStep
  <2> QED
    BY <2>1 DEF TypeInv, TypeOK, seq
<1>2. ASSUME NEW m \in Members, NEW s \in Songs, Enqueue(m, s) PROVE Grown(made, made')
  <2>1. made' = Append(made, [song |-> s, member |-> m]) /\ [song |-> s, member |-> m] \in [song : Songs, member : Members]
    BY <1>2 DEF Enqueue
  <2> QED
    BY <1>1, <2>1 DEF Grown
<1>3. CASE made' = made
  BY <1>1, <1>3 DEF Grown
<1>4. \/ made' = made
      \/ \E m \in Members, s \in Songs : Enqueue(m, s)
  <2>1. CASE Member
    BY <2>1 DEF Member, Withdraw
  <2>2. CASE Host
    BY <2>2 DEF Host, RemoveMember, Skip, RemoveAt, StartAgain, Follows, server
  <2>3. CASE Work
    BY <2>3 DEF Work, BeginHost, Begin, Check, Answered, server
  <2>4. CASE Receive \/ ReceiveLate
    BY <2>4 DEF Receive, ReceiveLate, ReportQueue
  <2>5. CASE Attach \/ StreamOpens \/ Restore \/ Persist
    BY <2>5 DEF Attach, Follows, StreamOpens, Restore, Persist, server
  <2>6. CASE Trouble
    BY <2>6 DEF Trouble, StreamDrops, StreamRefused, AttachFails, Follows, Fails, BodyLost,
                RestoreFails, Reload, Crash, PageGoes, server
  <2>7. CASE UNCHANGED vars
    BY <2>7 DEF vars, server
  <2> QED
    BY <2>1, <2>2, <2>3, <2>4, <2>5, <2>6, <2>7 DEF Next
<1> QED
  BY <1>1, <1>2, <1>3, <1>4

\* An addition taken back is one that was made, so not 0.
LEMMA NothingStep ==
    ASSUME TypeInv, NothingForNone, [Next]_vars
    PROVE  NothingForNone'
<1>1. /\ ServerType /\ NetworkType /\ pipe \in Seq(Event) /\ Len(pipe) \in Nat /\ open \in BOOLEAN
      /\ seq \in Nat /\ DOMAIN pipe = 1..Len(pipe)
  BY TypeInvParts, SeqType DEF NetworkType
<1>2. ASSUME NEW event \in Event, 0 \notin event.withdrawn, ToHost(event) PROVE NothingForNone'
  <2>1. pipe' \in Seq(Event) /\ \A i \in 1..Len(pipe') : \/ i \in 1..Len(pipe) /\ pipe'[i] = pipe[i]
                                                         \/ pipe'[i] = event
    BY <1>1, <1>2, ToHostType
  <2> QED
    BY <1>1, <1>2, <2>1 DEF NothingForNone
<1>3. ASSUME pipe' \in Seq(Event), Len(pipe') <= Len(pipe), NEW n \in {0, 1},
             \A i \in 1..Len(pipe') : i + n \in 1..Len(pipe) /\ pipe'[i] = pipe[i + n]
      PROVE  NothingForNone'
  <2>1. DOMAIN pipe' = 1..Len(pipe')
    BY <1>3
  <2>2. ASSUME NEW i \in 1..Len(pipe') PROVE 0 \notin pipe'[i].withdrawn
    <3>1. i + n \in DOMAIN pipe /\ pipe'[i] = pipe[i + n]
      BY <1>1, <1>3
    <3> QED
      BY <3>1 DEF NothingForNone
  <2> QED
    BY <2>1, <2>2 DEF NothingForNone
<1>4. CASE UNCHANGED pipe
  BY <1>4 DEF NothingForNone
<1>5. ASSUME NEW m \in Members, NEW s \in Songs, Enqueue(m, s) PROVE NothingForNone'
  <2>1. AddEvent(seq + 1) \in Event /\ 0 \notin AddEvent(seq + 1).withdrawn
    BY <1>1 DEF AddEvent, Event
  <2> QED
    BY <1>2, <1>5, <2>1 DEF Enqueue
<1>6. ASSUME NEW m \in Members, NEW k \in Seqs, Withdraw(m, k) PROVE NothingForNone'
  <2>1. RemoveEvent(k) \in Event /\ 0 \notin RemoveEvent(k).withdrawn
    BY DEF RemoveEvent, Event, Seqs
  <2> QED
    BY <1>2, <1>4, <1>6, <2>1 DEF Withdraw
<1>7. CASE StreamOpens
  <2>1. 0 \notin HostEvent.withdrawn
    BY <1>1 DEF HostEvent, ServerType
  <2>2. pipe' = Append(pipe, HostEvent)
    BY <1>7 DEF StreamOpens
  <2>3. pipe' \in Seq(Event)
    BY <1>7, StreamOpensType DEF TypeInv, TypeOK
  <2>4. Len(pipe') = Len(pipe) + 1
        /\ \A i \in 1..Len(pipe') : (i \in 1..Len(pipe) /\ pipe'[i] = pipe[i]) \/ pipe'[i] = HostEvent
    BY <1>1, <2>2
  <2> HIDE DEF HostEvent
  <2> QED
    BY <1>1, <2>1, <2>3, <2>4 DEF NothingForNone
<1>8. CASE StreamDrops
  <2>1. /\ pipe' \in Seq(Event) /\ Len(pipe') \in 0..Len(pipe)
        /\ \A i \in 1..Len(pipe') : pipe'[i] = pipe[i]
    BY <1>1, <1>8, StreamDropsPrefix
  <2>2. Len(pipe') <= Len(pipe) /\ \A i \in 1..Len(pipe') : i + 0 \in 1..Len(pipe) /\ pipe'[i] = pipe[i + 0]
    BY <1>1, <2>1
  <2> QED
    BY <1>3, <2>1, <2>2
<1>9. CASE pipe # <<>> /\ pipe' = Tail(pipe)
  <2>1. /\ Tail(pipe) \in Seq(Event) /\ Len(Tail(pipe)) = Len(pipe) - 1
        /\ \A i \in 1..Len(Tail(pipe)) : i + 1 \in 1..Len(pipe) /\ Tail(pipe)[i] = pipe[i + 1]
    BY <1>1, <1>9, HeadOfPipe
  <2>2. Len(pipe') <= Len(pipe)
    BY <1>1, <1>9, <2>1
  <2> QED
    BY <1>3, <1>9, <2>1, <2>2
<1>10. ASSUME NEW q, NEW last, Resume(q, last) PROVE NothingForNone'
  BY <1>4, <1>9, <1>10, TypeInvParts DEF Resume, StepFits
<1>11. CASE PageGoes(PlayState) \/ PageGoes(saved)
  <2>1. pipe' = <<>>
    BY <1>11 DEF PageGoes
  <2> QED
    BY <2>1 DEF NothingForNone
<1>12. CASE Member
  BY <1>5, <1>6, <1>12 DEF Member
<1>13. CASE Host
  BY <1>4, <1>13 DEF Host, RemoveMember, Skip, RemoveAt, StartAgain, Follows, network
<1>14. CASE Work
  BY <1>4, <1>9, <1>10, <1>14 DEF Work, BeginHost, Begin, Check, Answered
<1>15. CASE Receive \/ ReceiveLate \/ Attach \/ Restore \/ Persist
  BY <1>4, <1>15 DEF Receive, ReceiveLate, Attach, Follows, Restore, Persist, network
<1>16. CASE Trouble
  <2>1. ASSUME Fails PROVE NothingForNone'
    BY <1>10, <2>1 DEF Fails
  <2>2. ASSUME RestoreFails PROVE NothingForNone'
    BY <1>4, <2>2 DEF RestoreFails, network
  <2>3. ASSUME Reload \/ Crash PROVE NothingForNone'
    BY <1>11, <2>3 DEF Reload, Crash
  <2>4. ASSUME BodyLost PROVE NothingForNone'
    BY <1>4, <1>9, <2>4, BodyLostLeaves
  <2>5. ASSUME StreamRefused \/ AttachFails PROVE NothingForNone'
    BY <1>4, <2>5 DEF StreamRefused, AttachFails, Follows, network
  <2> QED
    BY <1>8, <1>16, <2>1, <2>2, <2>3, <2>4, <2>5 DEF Trouble
<1>17. CASE UNCHANGED vars
  BY <1>4, <1>17 DEF vars, network
<1> QED
  BY <1>7, <1>12, <1>13, <1>14, <1>15, <1>16, <1>17 DEF Next

\* A step that leaves tracks and answers alone.
LEMMA NamedSame ==
    ASSUME Named, Grown(made, made'), UNCHANGED <<queue, saved, post, struck>>
    PROVE  Named'
<1>1. AllTrue(queue, made') /\ AllTrue(saved.queue, made') /\ AllTrue(post.tracks, made')
  BY TrueStays DEF Named
<1>2. AnswerTrue'
  BY SongStays DEF Named, AnswerTrue
<1>3. StruckTrue(made')
  <2>1. ASSUME NEW x \in struck
        PROVE  x[1] \in 1..Len(made') /\ ComesFrom(x[2], made'[x[1]].song, made')
    <3>1. x[1] \in 1..Len(made) /\ ComesFrom(x[2], made[x[1]].song, made)
      BY DEF Named, StruckTrue
    <3>2. x[1] \in 1..Len(made') /\ made'[x[1]] = made[x[1]]
      BY <3>1 DEF Grown
    <3> QED
      BY <3>1, <3>2, SongStays
  <2> QED
    BY <2>1 DEF StruckTrue
<1>4. AllTrue(queue, made)' /\ AllTrue(saved.queue, made)' /\ AllTrue(post.tracks, made)'
  BY <1>1 DEF AllTrue
<1>5. StruckTrue(made)'
  BY <1>3 DEF StruckTrue
<1> QED
  BY <1>2, <1>4, <1>5 DEF Named

\* At first there are the host's tracks, with no name.
LEMMA InitNamed == Init => NamedInv
<1> SUFFICES ASSUME Init PROVE NamedInv
  OBVIOUS
<1>1. /\ TypeInv /\ queue = OwnTracks /\ saved = PlayState /\ post = NoPost /\ made = <<>>
      /\ pipe = <<>> /\ struck = {} /\ Own \in Seq(Songs)
  BY InitType, ConstantsAssumption DEF Init
<1>2. AllTrue(queue, made)
  <2>1. ASSUME NEW i \in DOMAIN Own PROVE TrueTrack(OwnTracks[i], made)
    <3>1. OwnTracks[i] = [song |-> Own[i], src |-> -i, page |-> 0, by |-> 0] /\ i \in Nat \ {0}
      BY <1>1 DEF OwnTracks
    <3>2. -(-i) = i /\ -i <= 0 /\ -i \in Int
      BY <3>1
    <3>3. ComesFrom(-i, Own[i], made)
      BY <3>2 DEF ComesFrom
    <3>4. NameOf(0, Own[i], made)
      BY DEF NameOf
    <3> QED
      BY <3>1, <3>3, <3>4 DEF TrueTrack
  <2>2. DOMAIN OwnTracks = DOMAIN Own
    BY DEF OwnTracks
  <2> QED
    BY <1>1, <2>1, <2>2 DEF AllTrue
<1>3. AllTrue(PlayState.queue, made)
  BY <1>1, <1>2, PlayStateTrue DEF TypeInv, TypeOK
<1>4. AllTrue(post.tracks, made) /\ AnswerTrue
  BY <1>1 DEF NoPost, AllTrue, AnswerTrue
<1>5. NothingForNone /\ StruckTrue(made)
  BY <1>1 DEF NothingForNone, StruckTrue
<1> HIDE DEF PlayState
<1> QED
  BY <1>1, <1>2, <1>3, <1>4, <1>5 DEF NamedInv, Named

\* The host's player.
LEMMA PlayerNamed ==
    ASSUME TypeInv, Named, PlayerMoves
    PROVE  Named'
<1>1. /\ BrowserType /\ queue \in Seq(Track) /\ index \in 1..Max2(1, Len(queue))
      /\ Len(made) \in Nat /\ AllTrue(queue, made) /\ AllTrue(saved.queue, made)
  BY TypeInvParts DEF BrowserType, ServerType, Named
<1>2. made' = made /\ post' = post /\ struck' = struck
  BY DEF PlayerMoves, RemoveMember, Skip, RemoveAt, Persist, Restore, RestoreFails,
         server, network, history
<1>3. ASSUME AllTrue(queue', made), AllTrue(saved'.queue, made) PROVE Named'
  BY <1>2, <1>3 DEF Named, AnswerTrue, StruckTrue, AllTrue
<1>4. CASE UNCHANGED <<queue, saved>>
  BY <1>1, <1>3, <1>4
<1>5. ASSUME NEW i \in DOMAIN queue, RemoveAt(i) PROVE Named'
  <2>1. queue' = Without(queue, {i}) /\ saved' = saved
    BY <1>5 DEF RemoveAt
  <2>2. {i} \in SUBSET (1..Len(queue))
    BY <1>1
  <2>3. AllTrue(Without(queue, {i}), made)
    BY <1>1, <2>2, WithoutTrue
  <2> QED
    BY <1>1, <1>3, <2>1, <2>3
<1>6. CASE Persist
  <2>1. queue' = queue /\ saved' = PlayState
    BY <1>6 DEF Persist, browser
  <2>2. AllTrue(PlayState.queue, made)
    BY <1>1, PlayStateTrue
  <2> HIDE DEF PlayState
  <2> QED
    BY <1>1, <1>3, <2>1, <2>2
<1>7. CASE Restore
  <2>1. queue' = saved.queue /\ saved' = saved
    BY <1>7 DEF Restore
  <2> QED
    BY <1>1, <1>3, <2>1
<1>8. CASE Skip(1) \/ Skip(-1) \/ RestoreFails \/ \E m \in Members : RemoveMember(m)
  BY <1>4, <1>8 DEF Skip, RestoreFails, RemoveMember, browser
<1> QED
  BY <1>5, <1>6, <1>7, <1>8 DEF PlayerMoves

\* The step ended without the body of its answer, and what the page knows of the
\* party.
LEMMA QuietNamed ==
    ASSUME TypeInv, Named, BodyLost \/ Attaching
    PROVE  Named'
<1>1. UNCHANGED <<made, queue, saved, struck>>
  <2>1. turns \in Nat
    BY TypeInvParts DEF HistoryType
  <2> QED
    BY <2>1, BodyLostLeaves, AttachingLeaves DEF server, history
<1>2. post' = NoPost \/ post' = post
  BY TypeInvParts, BodyLostLeaves, AttachingLeaves DEF HistoryType, network
<1>3. AllTrue(post'.tracks, made) /\ AnswerTrue'
  BY <1>1, <1>2 DEF Named, NoPost, AllTrue, AnswerTrue
<1> QED
  BY <1>1, <1>3 DEF Named, StruckTrue, AllTrue

\* The server's answer names what it was asked about.
LEMMA ReceiveNamed ==
    ASSUME TypeInv, Named, Receive
    PROVE  Named'
<1>1. /\ ServerType /\ seq \in Nat /\ applied \in Nat /\ additions \subseteq 1..seq /\ post \in Post
      /\ post.tracks \in Seq(Track) /\ AllTrue(post.tracks, made)
  BY TypeInvParts, SeqType DEF ServerType, NetworkType, Post, Named
<1>2. /\ UNCHANGED <<made, queue, saved, struck>>
      /\ post' = [post EXCEPT !.state = "answered",
                              !.answer = Answer(post.applied, SongsOf(post.tracks))]
  BY DEF Receive, ReportQueue, browser, history
<1> DEFINE from == {k \in additions : k <= Max2(applied, Min2(post.applied, seq))}
<1>3. Answer(post.applied, SongsOf(post.tracks)) = Found(SongsOf(post.tracks), from)
  BY DEF Answer
<1>4. from \in SUBSET (1..seq)
  BY <1>1
<1> HIDE DEF from
<1>5. \A i \in 1..Len(post.tracks) :
          NameOf(Found(SongsOf(post.tracks), from)[i], post.tracks[i].song, made)
  BY <1>1, <1>4, FoundTrue
<1>6. post'.tracks = post.tracks /\ post'.answer = Found(SongsOf(post.tracks), from)
  BY <1>1, <1>2, <1>3 DEF Post
<1>7. AnswerTrue'
  <2>1. DOMAIN post'.tracks = 1..Len(post.tracks)
    BY <1>1, <1>6
  <2> QED
    BY <1>2, <1>5, <1>6, <2>1 DEF AnswerTrue
<1> QED
  BY <1>1, <1>2, <1>6, <1>7 DEF Named, StruckTrue, AllTrue

\* A step that handles an event, or ends.
LEMMA HandlingNamed ==
    ASSUME TypeInv, NothingForNone, Named, TypeInv', pipe # <<>>,
           NEW q \in Seq(Track), index \in 1..Max2(1, Len(q)), AllTrue(q, made),
           NEW last, Handle(q, Head(pipe), last), UNCHANGED <<made, saved>>
    PROVE  Named'
<1>1. /\ made \in Seq([song : Songs, member : Members]) /\ taken \in 0..seq /\ loads \in Nat
      /\ NetworkType /\ queue' \in Seq(Track) /\ index \in Nat
  <2>1. NetworkType /\ ServerType /\ BrowserType /\ HistoryType /\ BrowserType'
    BY TypeInvParts DEF TypeInv, TypeOK, BrowserType
  <2>2. index \in Nat
    BY <2>1
  <2> QED
    BY <2>1, <2>2 DEF ServerType, BrowserType, HistoryType
<1>2. Head(pipe) \in Event /\ Head(pipe).waiting \subseteq 1..seq /\ 0 \notin Head(pipe).withdrawn
  BY <1>1, HeadOfPipe DEF NothingForNone
<1>3. AllTrue(queue', made) /\ StruckTrue(made)'
  BY <1>1, <1>2, HandleTrue DEF Named
<1>4. Report(queue', taken', last, FALSE, "closing")
  BY DEF Handle
<1>5. AllTrue(post'.tracks, made) /\ post'.state \in {"none", "sent"}
  BY <1>1, <1>3, <1>4, ReportTrue
<1> QED
  BY <1>3, <1>5 DEF Named, AnswerTrue, AllTrue

LEMMA ResumeNamed ==
    ASSUME TypeInv, NothingForNone, Named, TypeInv', post.state # "none",
           NEW q \in Seq(Track), index \in 1..Max2(1, Len(q)), AllTrue(q, made),
           NEW last, Resume(q, last), UNCHANGED <<made, saved>>
    PROVE  Named'
<1>1. CASE queue' = q /\ post' = NoPost /\ struck' = struck
  <2>1. AllTrue(post'.tracks, made) /\ AnswerTrue'
    BY <1>1 DEF NoPost, AllTrue, AnswerTrue
  <2> QED
    BY <1>1, <2>1 DEF Named, StruckTrue, AllTrue
<1>2. CASE doing = "naming" /\ Handle(q, Head(pipe), last)
  <2>1. pipe # <<>>
    BY <1>2, TypeInvParts DEF StepFits
  <2> QED
    BY <1>2, <2>1, HandlingNamed
<1> QED
  BY <1>1, <1>2 DEF Resume

\* The browser's steps.
LEMMA WorkNamed ==
    ASSUME TypeInv, NothingForNone, Named, Work \/ Fails
    PROVE  Named'
<1>1. /\ StepFits /\ post \in Post /\ queue \in Seq(Track) /\ index \in 1..Max2(1, Len(queue))
      /\ index \in Nat /\ AllTrue(queue, made)
  BY TypeInvParts DEF NetworkType, BrowserType, Max2, Named
<1>2. TypeInv' /\ UNCHANGED <<made, saved>>
  <2>1. TypeInv'
    BY TypeInvStep DEF Next, Trouble
  <2> QED
    BY <2>1 DEF Work, BeginHost, Begin, Check, Answered, Fails, server
<1>3. CASE BeginHost \/ Check
  <2>1. /\ UNCHANGED <<queue, struck>>
        /\ \E always \in BOOLEAN, step \in {"naming", "closing"} :
               Report(queue, taken', reported, always, step)
    BY <1>3 DEF BeginHost, Check, history
  <2>2. AllTrue(post'.tracks, made) /\ post'.state \in {"none", "sent"}
    BY <1>1, <2>1, ReportTrue
  <2> QED
    BY <1>1, <1>2, <2>1, <2>2 DEF Named, AnswerTrue, StruckTrue, AllTrue
<1>4. CASE Begin
  <2>1. pipe # <<>> /\ Handle(queue, Head(pipe), reported)
    BY <1>4 DEF Begin
  <2> QED
    BY <1>1, <1>2, <2>1, HandlingNamed
<1>5. CASE Answered
  <2>1. post.state = "answered" /\ Resume(Marked(queue), reported)
    BY <1>5 DEF Answered
  <2>2. Len(post.answer) = Len(post.tracks)
        /\ AllTrue(post.tracks, made)
        /\ \A j \in DOMAIN post.tracks : NameOf(post.answer[j], post.tracks[j].song, made)
    BY <1>1, <2>1 DEF StepFits, Named, AnswerTrue
  <2>3. Marked(queue) \in Seq(Track) /\ Len(Marked(queue)) = Len(queue)
    BY <1>1, <2>2, MarkedKeeps
  <2>4. AllTrue(Marked(queue), made)
    BY <1>1, <2>2, MarkedTrue
  <2> QED
    BY <1>1, <1>2, <2>1, <2>3, <2>4, ResumeNamed
<1>6. CASE Fails
  <2>1. post.state # "none" /\ Resume(queue, AfterFailure)
    BY <1>6 DEF Fails
  <2> QED
    BY <1>1, <1>2, <2>1, ResumeNamed
<1> QED
  BY <1>3, <1>4, <1>5, <1>6 DEF Work

\* The page goes: what was saved has no names.
LEMMA PageNamed ==
    ASSUME TypeInv, Named, Reload \/ Crash
    PROVE  Named'
<1>1. queue \in Seq(Track) /\ index \in 1..Max2(1, Len(queue)) /\ AllTrue(queue, made)
  BY TypeInvParts DEF BrowserType, Named
<1>2. AllTrue(PlayState.queue, made) /\ AllTrue(saved.queue, made)
  BY <1>1, PlayStateTrue DEF Named
<1>3. /\ saved' = PlayState \/ saved' = saved
      /\ queue' = <<>> /\ post' = NoPost /\ UNCHANGED <<made, struck>>
  BY DEF Reload, Crash, PageGoes, server
<1>4. AllTrue(saved'.queue, made)
  <2> HIDE DEF PlayState
  <2> QED
    BY <1>2, <1>3
<1>5. AllTrue(queue', made) /\ AllTrue(post'.tracks, made) /\ AnswerTrue'
  BY <1>3 DEF NoPost, AllTrue, AnswerTrue
<1> QED
  BY <1>3, <1>4, <1>5 DEF Named, StruckTrue, AllTrue

\* Every step keeps the invariant.
LEMMA NamedStep == NamedInv /\ [Next]_vars => NamedInv'
<1> SUFFICES ASSUME NamedInv, [Next]_vars PROVE NamedInv'
  OBVIOUS
<1>1. TypeInv /\ NothingForNone /\ TypeInv' /\ NothingForNone' /\ Grown(made, made') /\ Named
  BY TypeInvStep, NothingStep, MadeStays DEF NamedInv
<1>2. ASSUME Member \/ ReceiveLate \/ StreamOpens \/ StreamDrops \/ UNCHANGED vars PROVE Named'
  <2>1. UNCHANGED <<queue, saved, post, struck>>
    BY <1>2 DEF Member, Enqueue, Withdraw, ReceiveLate, StreamOpens, StreamDrops,
                browser, history, vars, network
  <2> QED
    BY <1>1, <2>1, NamedSame
<1>3. Named'
  BY <1>1, <1>2, PlayerNamed, QuietNamed, ReceiveNamed, WorkNamed, PageNamed
     DEF Next, Trouble, Host, Attaching, PlayerMoves
<1> QED
  BY <1>1, <1>3 DEF NamedInv

\* A track of the host's queue carries no name, or that of a member who added
\* its song, and where no other in the party is of that song, of the one who
\* added it (#reportQueue, marking by the server's answer): through answers that
\* arrive when the queue has moved on, and queues restored from their ids.
THEOREM MarkedTruly == Spec => []MarksTrue
<1>1. NamedInv => MarksTrue
  <2> SUFFICES ASSUME NamedInv PROVE MarksTrue
    OBVIOUS
  <2>1. SUFFICES ASSUME NEW i \in DOMAIN queue, queue[i].by # 0
                 PROVE  /\ queue[i].by \in 1..seq /\ made[queue[i].by].song = queue[i].song
                        /\ OnlyOnce(queue[i].song) => queue[i].by = queue[i].src
    BY DEF MarksTrue
  <2>2. ComesFrom(queue[i].src, queue[i].song, made) /\ NameOf(queue[i].by, queue[i].song, made)
    BY DEF NamedInv, Named, AllTrue, TrueTrack
  <2> QED
    BY <2>1, <2>2, OneOfSong DEF NameOf, seq
<1> QED
  BY <1>1, InitNamed, NamedStep, PTL DEF Spec

\* #drop takes out a track of the song of the addition taken back, and where no
\* other in the party is of that song, the very track of it, neither another
\* member's nor the host's.
THEOREM TakenOutRightly == Spec => []OnlyTakenBack
<1>1. NamedInv => OnlyTakenBack
  <2> SUFFICES ASSUME NamedInv PROVE OnlyTakenBack
    OBVIOUS
  <2>1. SUFFICES ASSUME NEW x \in struck
                 PROVE  /\ x[1] \in 1..seq /\ made[x[1]].song = SongOf(x[2])
                        /\ OnlyOnce(made[x[1]].song) => x[1] = x[2]
    BY DEF OnlyTakenBack
  <2>2. x[1] \in 1..seq /\ ComesFrom(x[2], made[x[1]].song, made) /\ seq \in Nat
    BY TypeInvParts, SeqType DEF NamedInv, Named, StruckTrue, seq
  <2>3. made[x[1]].song = SongOf(x[2])
    BY <2>2 DEF ComesFrom, SongOf, seq
  <2>4. x[1] # 0 /\ NameOf(x[1], made[x[1]].song, made)
    BY <2>2 DEF NameOf, seq
  <2> QED
    BY <2>2, <2>3, <2>4, OneOfSong
<1> QED
  BY <1>1, InitNamed, NamedStep, PTL DEF Spec

-----------------------------------------------------------------------------
(* Additions in order.  New ones go behind those that lead what is up      *)
(* next, which the player knows by their names; so a track without a name  *)
(* has to be one that will not get it any more.  That is so once a page    *)
(* has had its first `host` event, whose step names what was restored; and *)
(* until then it takes nothing.                                            *)

\* No song is in the party twice: of each there is one addition, and none of the
\* host's.
LEMMA SongsApart ==
    ASSUME SongsOnce
    PROVE  /\ \A j, k \in 1..seq : made[j].song = made[k].song => j = k
           /\ \A k \in 1..seq : \A i \in DOMAIN Own : made[k].song # Own[i]
BY DEF SongsOnce, OnlyOnce

\* So there was none before, as additions made stay.
LEMMA SongsOnceBefore ==
    ASSUME Grown(made, made'), SongsOnce'
    PROVE  SongsOnce
<1>1. \A k \in 1..seq : k \in 1..seq' /\ made'[k] = made[k]
  BY DEF Grown, seq
<1>2. /\ \A j, k \in 1..seq' : made'[j].song = made'[k].song => j = k
      /\ \A k \in 1..seq' : \A i \in DOMAIN Own : made'[k].song # Own[i]
  BY DEF SongsOnce, OnlyOnce
<1> QED
  BY <1>1, <1>2 DEF SongsOnce, OnlyOnce

\* And a track has the name of its own addition, or none.
LEMMA OwnName ==
    ASSUME SongsOnce, NEW by, NEW src, NEW song,
           NameOf(by, song, made), ComesFrom(src, song, made)
    PROVE  by \in {0, src}
<1>1. by # 0 => OnlyOnce(song)
  BY DEF NameOf, SongsOnce, seq
<1> QED
  BY <1>1, OneOfSong

\* A track that has a name, or may still get the one of its addition, in S.
Counting(t, S) == t.by # 0 \/ t.src \in S

\* Of such tracks with nothing else between them, the later was made later.
InRuns(q, S) ==
    \A i, j \in DOMAIN q : i < j /\ (\A n \in i..j : Counting(q[n], S)) => q[i].src < q[j].src

\* The same tracks, of which no more count.
LEMMA RunsFewer ==
    ASSUME NEW q \in Seq(Track), NEW p \in Seq(Track), NEW S, NEW T, InRuns(q, S),
           Len(p) = Len(q),
           \A i \in 1..Len(q) : p[i].src = q[i].src /\ (Counting(p[i], T) => Counting(q[i], S))
    PROVE  InRuns(p, T)
<1>1. DOMAIN p = 1..Len(q) /\ DOMAIN q = 1..Len(q) /\ Len(q) \in Nat
  OBVIOUS
<1>2. ASSUME NEW i \in 1..Len(q), NEW j \in 1..Len(q), i < j, \A n \in i..j : Counting(p[n], T)
      PROVE  p[i].src < p[j].src
  <2>1. \A n \in i..j : n \in 1..Len(q)
    BY <1>1
  <2>2. \A n \in i..j : Counting(q[n], S)
    BY <1>2, <2>1
  <2>3. q[i].src < q[j].src
    BY <1>1, <1>2, <2>2 DEF InRuns
  <2> QED
    BY <2>3
<1> QED
  BY <1>1, <1>2 DEF InRuns

\* Tracks that count leave those around them in order.
LEMMA RunsWithout ==
    ASSUME NEW q \in Seq(Track), NEW S, InRuns(q, S), NEW gone \in SUBSET (1..Len(q)),
           \A g \in gone : Counting(q[g], S)
    PROVE  InRuns(Without(q, gone), S)
<1> DEFINE kept == Without(q, gone)
<1>1. PICK at \in [1..(Len(q) - Cardinality(gone)) -> 1..Len(q)] :
          /\ kept = [n \in DOMAIN at |-> q[at[n]]]
          /\ \A m, n \in DOMAIN at : m < n => at[m] < at[n]
          /\ \A j \in 1..Len(q) : j \in gone \/ \E n \in DOMAIN at : at[n] = j
  BY WithoutAt
<1>2. DOMAIN kept = DOMAIN at /\ DOMAIN at \subseteq Int
      /\ \A n \in DOMAIN at : kept[n] = q[at[n]] /\ at[n] \in 1..Len(q)
  BY <1>1
<1> HIDE DEF kept
<1>3. ASSUME NEW i \in DOMAIN at, NEW j \in DOMAIN at, i < j, \A n \in i..j : Counting(kept[n], S)
      PROVE  kept[i].src < kept[j].src
  <2>1. at[i] < at[j] /\ at[i] \in 1..Len(q) /\ at[j] \in 1..Len(q)
    BY <1>1, <1>2, <1>3
  <2>2. ASSUME NEW k \in at[i]..at[j], k \notin gone PROVE Counting(q[k], S)
    <3>1. k \in 1..Len(q)
      BY <2>1
    <3>2. PICK n \in DOMAIN at : at[n] = k
      BY <1>1, <2>2, <3>1
    <3>3. n \in Int /\ i \in Int /\ j \in Int /\ at[n] \in Int /\ at[i] \in Int /\ at[j] \in Int
      BY <1>2
    <3>4. ~(n < i) /\ ~(j < n)
      <4>1. n < i => at[n] < at[i]
        BY <1>1
      <4>2. j < n => at[j] < at[n]
        BY <1>1
      <4> QED
        BY <2>1, <3>2, <3>3, <4>1, <4>2
    <3>5. n \in i..j
      BY <3>3, <3>4
    <3> QED
      BY <1>2, <1>3, <3>2, <3>5
  <2>3. \A k \in at[i]..at[j] : Counting(q[k], S)
    BY <2>2
  <2>4. q[at[i]].src < q[at[j]].src
    BY <2>1, <2>3 DEF InRuns
  <2> QED
    BY <1>2, <2>4
<1> QED
  BY <1>2, <1>3 DEF InRuns, kept

\* The track behind those that lead has no name.
LEMMA RunEndBare ==
    ASSUME NEW q \in Seq(Track), index \in 1..Len(q), RunEnd(q) < Len(q)
    PROVE  q[RunEnd(q) + 1].by = 0
<1> DEFINE run == {n \in (index + 1)..Len(q) : \A i \in (index + 1)..n : q[i].by # 0}
           size == Cardinality(run)
           e == index + size
<1>1. /\ index \in Nat /\ Len(q) \in Nat /\ RunEnd(q) = e
      /\ e \in index..Len(q) /\ e + 1 \in (index + 1)..Len(q)
  <2>1. index \in Nat /\ Len(q) \in Nat /\ RunEnd(q) = e
    BY DEF RunEnd
  <2>2. RunEnd(q) \in index..Len(q)
    BY RunEndType
  <2> HIDE DEF e
  <2> QED
    BY <2>1, <2>2
<1>2. SUFFICES ASSUME q[e + 1].by # 0 PROVE FALSE
  BY <1>1
<1>3. \A n \in run : \A m \in (index + 1)..n : m \in run
  BY <1>1
<1>4. run \subseteq (index + 1)..Len(q)
  OBVIOUS
<1>5. IsFiniteSet(run) /\ size \in Nat
  <2>1. IsFiniteSet((index + 1)..Len(q))
    BY <1>1, FS_Interval
  <2>2. IsFiniteSet(run)
    BY <1>4, <2>1, FS_Subset
  <2> QED
    BY <2>2, FS_CardinalityType
<1>6. e + 1 \notin run
  <2>1. ASSUME e + 1 \in run PROVE FALSE
    <3>1. (index + 1)..(e + 1) \subseteq run
      BY <1>3, <2>1
    <3>2. Cardinality((index + 1)..(e + 1)) = size + 1
      <4>1. index + 1 \in Int /\ e + 1 \in Int /\ index + 1 <= e + 1
        BY <1>1, <1>5
      <4>2. Cardinality((index + 1)..(e + 1)) = (e + 1) - (index + 1) + 1
        BY <4>1, FS_Interval
      <4> HIDE DEF size
      <4> QED
        BY <1>1, <1>5, <4>2
    <3>3. Cardinality((index + 1)..(e + 1)) <= size
      BY <1>5, <3>1, FS_Subset
    <3> HIDE DEF size
    <3> QED
      BY <1>5, <3>2, <3>3
  <2> QED
    BY <2>1
<1>7. PICK m \in (index + 1)..(e + 1) : q[m].by = 0
  BY <1>1, <1>6
<1>8. m # e + 1 /\ m \in (index + 1)..e
  BY <1>1, <1>2, <1>7
<1>9. run \subseteq (index + 1)..(m - 1)
  <2>1. ASSUME NEW n \in run PROVE n \in (index + 1)..(m - 1)
    <3>1. n \in (index + 1)..Len(q) /\ \A i \in (index + 1)..n : q[i].by # 0
      OBVIOUS
    <3>2. ~(m <= n)
      BY <1>1, <1>7, <1>8, <3>1
    <3> HIDE DEF run
    <3> QED
      BY <1>1, <1>8, <3>1, <3>2
  <2> QED
    BY <2>1
<1>10. size <= m - 1 - index
  <2>1. index + 1 \in Int /\ m - 1 \in Int /\ index + 1 <= (m - 1) + 1
    BY <1>1, <1>8
  <2>2. size <= (m - 1) - (index + 1) + 1
    <3> HIDE DEF run
    <3>1. run \in SUBSET ((index + 1)..(m - 1))
      BY <1>9
    <3>2. Cardinality(run) <= (m - 1) - (index + 1) + 1
      BY <2>1, <3>1, WithinInterval
    <3> QED
      BY <3>2
  <2> HIDE DEF size
  <2> QED
    BY <1>1, <1>5, <1>8, <2>2
<1> HIDE DEF size
<1> QED
  BY <1>1, <1>5, <1>8, <1>10

\* New additions, made after all the tracks there are, go in where the tracks
\* that count end.
LEMMA RunsAdded ==
    ASSUME NEW q \in Seq(Track), NEW tracks \in Seq(Track), index \in 1..Max2(1, Len(q)),
           NEW S, InRuns(q, S), \A i \in 1..Len(q) : q[i].src \in S => q[i].by # 0,
           \A i, j \in 1..Len(tracks) : i < j => tracks[i].src < tracks[j].src,
           \A i \in 1..Len(q), j \in 1..Len(tracks) : q[i].src < tracks[j].src
    PROVE  InRuns(QueueAdditions(q, tracks), S)
<1> DEFINE all == QueueAdditions(q, tracks)
           n == Len(tracks)
           l == Len(q)
<1>1. PICK e \in 0..Len(q) :
        /\ e = IF q = <<>> THEN 0 ELSE RunEnd(q)
        /\ \A i \in 1..(Len(q) + Len(tracks)) :
            all[i] = IF i <= e THEN q[i]
                     ELSE IF i <= e + Len(tracks) THEN tracks[i - e] ELSE q[i - Len(tracks)]
  BY QueueAdditionsAt, SMTT(20)
<1>2. /\ l \in Nat /\ n \in Nat /\ e \in Nat /\ e <= l /\ DOMAIN all = 1..(l + n)
      /\ DOMAIN q = 1..l
  <2>1. Len(all) = l + n /\ all \in Seq(Track)
    BY QueueAdditionsAt
  <2>2. l \in Nat /\ n \in Nat /\ DOMAIN q = 1..l
    OBVIOUS
  <2> HIDE DEF all, n
  <2> QED
    BY <2>1, <2>2
<1>3. e < l => ~Counting(q[e + 1], S)
  <2>1. SUFFICES ASSUME e < l PROVE ~Counting(q[e + 1], S)
    OBVIOUS
  <2>2. q # <<>> /\ e = RunEnd(q) /\ index \in 1..Len(q)
    BY <1>1, <1>2, <2>1 DEF Max2
  <2>3. q[e + 1].by = 0 /\ e + 1 \in 1..Len(q)
    BY <1>2, <2>1, <2>2, RunEndBare
  <2> QED
    BY <2>3 DEF Counting
<1>4. \A k \in 1..(l + n) :
            all[k] = IF k <= e THEN q[k] ELSE IF k <= e + n THEN tracks[k - e] ELSE q[k - n]
  BY <1>1
<1>5. /\ \A i, j \in 1..n : i < j => tracks[i].src < tracks[j].src
      /\ \A i \in 1..l, j \in 1..n : q[i].src < tracks[j].src
  OBVIOUS
<1> HIDE DEF n, l, all
<1>6. ASSUME NEW k \in 1..(l + n)
      PROVE  \/ k <= e /\ k \in 1..l /\ all[k] = q[k]
             \/ e < k /\ k <= e + n /\ k - e \in 1..n /\ all[k] = tracks[k - e]
             \/ e + n < k /\ k - n \in 1..l /\ all[k] = q[k - n]
  <2>1. \/ k <= e /\ k \in 1..l
        \/ e < k /\ ~(k <= e) /\ k <= e + n /\ k - e \in 1..n
        \/ e + n < k /\ ~(k <= e) /\ ~(k <= e + n) /\ k - n \in 1..l
    BY <1>2
  <2> QED
    BY <1>4, <2>1, Zenon
<1>7. ASSUME NEW i \in 1..(l + n), NEW j \in 1..(l + n), i < j, \A m \in i..j : Counting(all[m], S)
      PROVE  all[i].src < all[j].src
  <2>1. ~(i <= e + n /\ e + n < j)
    <3>1. SUFFICES ASSUME i <= e + n, e + n < j PROVE FALSE
      OBVIOUS
    <3>2. e + n + 1 \in i..j /\ e + n + 1 \in 1..(l + n) /\ e < l
      BY <1>2, <3>1
    <3>3. all[e + n + 1] = q[e + 1]
      <4>1. /\ ~(e + n + 1 <= e) /\ ~(e + n + 1 <= e + n) /\ (e + n + 1) - n = e + 1
        BY <1>2
      <4> QED
        BY <1>4, <3>2, <4>1
    <3> QED
      BY <1>3, <1>7, <3>2, <3>3
  <2>2. CASE j <= e
    <3>1. /\ i \in 1..l /\ all[i] = q[i] /\ j \in 1..l /\ all[j] = q[j]
      BY <1>2, <1>6, <1>7, <2>2
    <3>2. ASSUME NEW m \in i..j PROVE Counting(q[m], S)
      <4>1. m \in 1..(l + n) /\ m <= e
        BY <1>2, <2>2
      <4> QED
        BY <1>4, <1>7, <4>1
    <3> QED
      BY <1>2, <1>7, <3>1, <3>2 DEF InRuns
  <2>3. CASE e < j /\ j <= e + n
    <3>1. j - e \in 1..n /\ all[j] = tracks[j - e]
      BY <1>2, <1>6, <2>3
    <3>2. CASE i <= e
      <4>1. i \in 1..l /\ all[i] = q[i]
        BY <1>2, <1>6, <3>2
      <4> QED
        BY <1>5, <3>1, <4>1
    <3>3. CASE e < i
      <4>1. i - e \in 1..n /\ all[i] = tracks[i - e] /\ i - e < j - e
        BY <1>2, <1>6, <1>7, <2>3, <3>3
      <4> QED
        BY <1>5, <3>1, <4>1
    <3> QED
      BY <1>2, <3>2, <3>3
  <2>4. CASE e + n < i /\ e + n < j
    <3>1. /\ i - n \in 1..l /\ all[i] = q[i - n] /\ j - n \in 1..l /\ all[j] = q[j - n]
          /\ i - n < j - n
      BY <1>2, <1>6, <1>7, <2>4
    <3>2. ASSUME NEW m \in (i - n)..(j - n) PROVE Counting(q[m], S)
      <4>1. m + n \in i..j /\ m + n \in 1..(l + n) /\ ~(m + n <= e) /\ ~(m + n <= e + n)
            /\ (m + n) - n = m
        BY <1>2, <2>4
      <4>2. all[m + n] = q[m]
        BY <1>4, <4>1
      <4> QED
        BY <1>7, <4>1, <4>2
    <3> QED
      BY <1>2, <3>1, <3>2 DEF InRuns
  <2> QED
    BY <1>2, <2>1, <2>2, <2>3, <2>4
<1> QED
  BY <1>2, <1>7 DEF InRuns, all

\* A step that handles an event leaves the additions in order, where all there
\* are have been counted as taken, and those that may be named are.
LEMMA HandleInRuns ==
    ASSUME NEW q \in Seq(Track), index \in 1..Max2(1, Len(q)),
           made \in Seq([song : Songs, member : Members]), taken \in 0..seq, loads \in Nat,
           NEW event \in Event, event.waiting \subseteq 1..seq, 0 \notin event.withdrawn,
           NEW last, Handle(q, event, last), NEW S, InRuns(q, S),
           \A i \in 1..Len(q) : q[i].src <= taken /\ (q[i].src \in S => q[i].by # 0)
    PROVE  /\ InRuns(queue', S) /\ queue' \in Seq(Track)
           /\ \A i \in 1..Len(queue') : /\ queue'[i].src <= taken'
                                        /\ queue'[i].src \in S => queue'[i].by # 0
<1> DEFINE gone == DropsAt(q, event.withdrawn)
           kept == Without(q, gone)
           tracks(new) == [n \in DOMAIN new |-> Addition(new[n])]
<1>1. PICK new \in OldestFirst(NotTaken(event)) :
          /\ queue' = QueueAdditions(kept, tracks(new))
          /\ taken' = IF new = <<>> THEN taken ELSE new[Len(new)]
  BY DEF Handle
<1>2. gone \in SUBSET (1..Len(q)) /\ kept \in Seq(Track) /\ index \in 1..Max2(1, Len(kept))
  BY DropsKept
<1>3. \A g \in gone : Counting(q[g], S)
  BY DEF DropsAt, Counting
<1>4. InRuns(kept, S)
  BY <1>2, <1>3, RunsWithout
<1>5. \A i \in 1..Len(kept) : \E p \in 1..Len(q) : kept[i] = q[p]
  <2> HIDE DEF gone
  <2>1. PICK at \in [1..(Len(q) - Cardinality(gone)) -> 1..Len(q)] :
            kept = [n \in DOMAIN at |-> q[at[n]]]
    BY <1>2, WithoutAt
  <2>2. DOMAIN kept = DOMAIN at /\ \A n \in DOMAIN at : kept[n] = q[at[n]] /\ at[n] \in 1..Len(q)
    BY <2>1
  <2>3. DOMAIN kept = 1..Len(kept)
    <3> HIDE DEF kept
    <3> QED
      BY <1>2
  <2> HIDE DEF kept
  <2> QED
    BY <2>2, <2>3
<1> HIDE DEF gone, kept
<1>6. \A i \in 1..Len(kept) : kept[i].src <= taken /\ (kept[i].src \in S => kept[i].by # 0)
  BY <1>5
<1>7. /\ NotTaken(event) \in SUBSET (1..seq) /\ seq \in Nat /\ taken \in Nat
      /\ \A k \in NotTaken(event) : taken < k
      /\ new \in Seq(NotTaken(event))
      /\ \A i, j \in 1..Len(new) : i < j => new[i] < new[j]
      /\ new # <<>> => /\ new[Len(new)] \in NotTaken(event)
                       /\ \A k \in NotTaken(event) : k <= new[Len(new)]
      /\ tracks(new) \in Seq(Track) /\ Len(tracks(new)) = Len(new)
      /\ \A i \in 1..Len(new) : /\ tracks(new)[i] = Addition(new[i])
                                /\ tracks(new)[i].src = new[i]
  <2>1. seq \in Nat /\ taken \in Nat
    BY DEF seq
  <2>2. \A k \in NotTaken(event) : taken < k
    BY <2>1 DEF NotTaken
  <2> QED
    BY <2>1, <2>2, TakesInTurn
<1>8. \A i \in 1..Len(new) : new[i] \in NotTaken(event) /\ new[i] \in Nat
  <2>1. \A i \in 1..Len(new) : new[i] \in NotTaken(event)
    BY <1>7
  <2> QED
    BY <1>7, <2>1
<1> HIDE DEF tracks
<1>9. \A i, j \in 1..Len(tracks(new)) : i < j => tracks(new)[i].src < tracks(new)[j].src
  BY <1>7
<1>10. \A i \in 1..Len(kept) : kept[i].src \in Int
  <2>1. \A i \in 1..Len(kept) : kept[i] \in Track
    BY <1>2
  <2> QED
    BY <2>1 DEF Track
<1>11. \A i \in 1..Len(kept), j \in 1..Len(tracks(new)) : kept[i].src < tracks(new)[j].src
  <2>1. ASSUME NEW i \in 1..Len(kept), NEW j \in 1..Len(new) PROVE kept[i].src < tracks(new)[j].src
    <3>1. kept[i].src <= taken /\ kept[i].src \in Int
      BY <1>6, <1>10
    <3>2. tracks(new)[j].src = new[j] /\ taken < new[j] /\ new[j] \in Nat
      BY <1>7, <1>8
    <3> QED
      BY <1>7, <3>1, <3>2
  <2> QED
    BY <1>7, <2>1
<1>12. InRuns(queue', S)
  BY <1>1, <1>2, <1>4, <1>6, <1>7, <1>9, <1>11, RunsAdded
<1>13. taken' \in Nat /\ taken <= taken' /\ \A i \in 1..Len(new) : new[i] <= taken'
  <2>1. CASE new = <<>>
    BY <1>1, <1>7, <2>1
  <2>2. CASE new # <<>>
    <3>1. taken' \in NotTaken(event) /\ \A k \in NotTaken(event) : k <= taken'
      BY <1>1, <1>7, <2>2
    <3>2. taken' \in Nat /\ taken < taken'
      BY <1>7, <3>1
    <3> QED
      BY <1>7, <1>8, <3>1, <3>2
  <2> QED
    BY <2>1, <2>2
<1>14. queue' \in Seq(Track)
       /\ \A i \in 1..Len(queue') : \/ \E p \in 1..Len(kept) : queue'[i] = kept[p]
                                    \/ \E p \in 1..Len(tracks(new)) : queue'[i] = tracks(new)[p]
  <2> DEFINE all == QueueAdditions(kept, tracks(new))
  <2>1. all \in Seq(Track)
    BY <1>2, <1>7, QueueAdditionsKeeps
  <2>2. \A i \in 1..Len(all) : \/ \E p \in 1..Len(kept) : all[i] = kept[p]
                              \/ \E p \in 1..Len(tracks(new)) : all[i] = tracks(new)[p]
    BY <1>2, <1>7, QueueAdditionsFrom
  <2>3. queue' = all
    BY <1>1
  <2> HIDE DEF all
  <2> QED
    BY <2>1, <2>2, <2>3
<1>15. ASSUME NEW i \in 1..Len(queue')
       PROVE  queue'[i].src <= taken' /\ (queue'[i].src \in S => queue'[i].by # 0)
  <2>1. ASSUME NEW p \in 1..Len(kept), queue'[i] = kept[p]
        PROVE  queue'[i].src <= taken' /\ (queue'[i].src \in S => queue'[i].by # 0)
    <3>1. kept[p].src <= taken /\ kept[p].src \in Int /\ (kept[p].src \in S => kept[p].by # 0)
      BY <1>6, <1>10
    <3> QED
      BY <1>7, <1>13, <2>1, <3>1
  <2>2. ASSUME NEW p \in 1..Len(new), queue'[i] = tracks(new)[p]
        PROVE  queue'[i].src <= taken' /\ (queue'[i].src \in S => queue'[i].by # 0)
    <3>1. tracks(new)[p].src = new[p] /\ new[p] <= taken' /\ tracks(new)[p].by = new[p]
      <4>1. tracks(new)[p] = Addition(new[p]) /\ tracks(new)[p].src = new[p]
        BY <1>7
      <4>2. Addition(new[p]).by = new[p]
        BY DEF Addition
      <4> QED
        BY <1>13, <4>1, <4>2
    <3>2. new[p] # 0
      BY <1>7, <1>8
    <3> QED
      BY <2>2, <3>1, <3>2
  <2> QED
    BY <1>7, <1>14, <2>1, <2>2
<1> QED
  BY <1>12, <1>14, <1>15

\* An answer names each addition it is given to look for, where no song and no
\* track is there twice.
LEMMA FoundAll ==
    ASSUME SongsOnce, seq \in Nat, NEW tracks \in Seq(Track), AllTrue(tracks, made),
           \A i, j \in 1..Len(tracks) : tracks[i].src = tracks[j].src => i = j,
           NEW from \in SUBSET (1..seq)
    PROVE  \A i \in 1..Len(tracks) :
               /\ Found(SongsOf(tracks), from)[i] \in from \cup {0}
               /\ tracks[i].src \in from => Found(SongsOf(tracks), from)[i] = tracks[i].src
<1> DEFINE songs == SongsOf(tracks)
           same(i) == {k \in from : made[k].song = songs[i]}
           nth(i) == Cardinality({j \in 1..i : songs[j] = songs[i]})
           its(i, k) == Cardinality({l \in same(i) : l <= k}) = nth(i)
           value(i) == IF \E k \in same(i) : its(i, k)
                       THEN CHOOSE k \in same(i) : its(i, k) ELSE 0
<1>1. DOMAIN songs = 1..Len(tracks) /\ \A i \in 1..Len(tracks) : songs[i] = tracks[i].song
  BY DEF SongsOf
<1>2. Found(songs, from) = [i \in DOMAIN songs |-> value(i)]
  BY DEF Found
<1>3. ASSUME NEW i \in 1..Len(tracks) PROVE value(i) = 0 \/ value(i) \in from
  <2>1. value(i) = 0 \/ value(i) \in same(i)
    <3> HIDE DEF same, its
    <3> QED
      OBVIOUS
  <2> QED
    BY <2>1
<1>4. ASSUME NEW i \in 1..Len(tracks), tracks[i].src \in from PROVE value(i) = tracks[i].src
  <2> DEFINE k == tracks[i].src
  <2>1. k \in 1..seq /\ k \in from /\ made[k].song = tracks[i].song
    <3>1. k \in 1..seq /\ seq = Len(made)
      BY <1>4 DEF seq
    <3>2. TrueTrack(tracks[i], made)
      BY DEF AllTrue
    <3>3. ~(k <= 0)
      BY <3>1
    <3> QED
      BY <1>4, <3>1, <3>2, <3>3 DEF TrueTrack, ComesFrom
  <2>2. ASSUME NEW j \in 1..Len(tracks), tracks[j].song = tracks[i].song PROVE j = i
    <3>1. TrueTrack(tracks[j], made)
      BY DEF AllTrue
    <3>2. CASE tracks[j].src \in 1..Len(made) /\ tracks[j].song = made[tracks[j].src].song
      <4>1. tracks[j].src = tracks[i].src
        BY <2>1, <2>2, <3>2, SongsApart DEF seq
      <4> QED
        BY <4>1
    <3>3. CASE \E n \in DOMAIN Own : tracks[j].song = Own[n]
      BY <2>1, <2>2, <3>3, SongsApart
    <3> QED
      BY <3>1, <3>2, <3>3 DEF TrueTrack, ComesFrom
  <2> HIDE DEF k
  <2>3. same(i) = {k}
    <3>1. \A l \in same(i) : l = k
      BY <1>1, <2>1, SongsApart
    <3>2. k \in same(i)
      BY <1>1, <2>1
    <3> QED
      BY <3>1, <3>2
  <2>4. {l \in same(i) : l <= k} = {k}
    BY <2>1, <2>3
  <2>5. {j \in 1..i : songs[j] = songs[i]} = {i}
    <3>1. \A j \in 1..i : j \in 1..Len(tracks)
      OBVIOUS
    <3>2. \A j \in 1..i : songs[j] = songs[i] => j = i
      BY <1>1, <2>2, <3>1
    <3>3. i \in 1..i
      OBVIOUS
    <3> HIDE DEF songs
    <3> QED
      BY <3>2, <3>3
  <2>6. its(i, k)
    <3>1. Cardinality({k}) = 1 /\ Cardinality({i}) = 1
      BY FS_Singleton
    <3> QED
      BY <2>4, <2>5, <3>1
  <2> HIDE DEF its, same
  <2>7. value(i) = k
    BY <2>3, <2>6
  <2> QED
    BY <2>7 DEF k
<1> HIDE DEF value, same, songs
<1>5. ASSUME NEW i \in 1..Len(tracks)
      PROVE  /\ Found(songs, from)[i] \in from \cup {0}
             /\ tracks[i].src \in from => Found(songs, from)[i] = tracks[i].src
  <2>1. Found(songs, from)[i] = value(i)
    BY <1>1, <1>2
  <2> QED
    BY <1>3, <1>4, <2>1
<1> QED
  BY <1>5 DEF songs

\* A track's name after an answer: the one the answer gives, if it was asked
\* about, or the one it had.
LEMMA MarkedBy ==
    ASSUME NEW q \in Seq(Track), post \in Post, Len(post.answer) = Len(post.tracks)
    PROVE  \A i \in 1..Len(q) :
             \/ Marked(q)[i].by = q[i].by
                /\ \A j \in 1..Len(post.tracks) : ~( /\ post.tracks[j].src = q[i].src
                                                     /\ post.tracks[j].page = q[i].page)
             \/ \E j \in 1..Len(post.tracks) : /\ post.tracks[j].src = q[i].src
                                               /\ Marked(q)[i].by = post.answer[j]
<1> DEFINE at(i) == {j \in DOMAIN post.tracks : /\ post.tracks[j].src = q[i].src
                                                /\ post.tracks[j].page = q[i].page}
           track(i) == IF at(i) = {} THEN q[i]
                       ELSE [q[i] EXCEPT !.by = post.answer[CHOOSE j \in at(i) : TRUE]]
<1>1. Marked(q) = [i \in DOMAIN q |-> track(i)]
  BY DEF Marked
<1>2. DOMAIN post.tracks = 1..Len(post.tracks) /\ DOMAIN q = 1..Len(q)
  BY DEF Post
<1> HIDE DEF track
<1>3. \A i \in 1..Len(q) : Marked(q)[i] = track(i)
  BY <1>1, <1>2
<1>4. ASSUME NEW i \in 1..Len(q)
      PROVE  \/ track(i).by = q[i].by
                /\ \A j \in 1..Len(post.tracks) : ~( /\ post.tracks[j].src = q[i].src
                                                     /\ post.tracks[j].page = q[i].page)
             \/ \E j \in 1..Len(post.tracks) : /\ post.tracks[j].src = q[i].src
                                               /\ track(i).by = post.answer[j]
  <2>1. CASE at(i) = {}
    BY <1>2, <2>1 DEF track
  <2>2. CASE at(i) # {}
    <3>1. PICK j \in at(i) : track(i) = [q[i] EXCEPT !.by = post.answer[j]]
      <4> DEFINE its == CHOOSE j \in at(i) : TRUE
      <4>1. its \in at(i)
        BY <2>2
      <4>2. track(i) = [q[i] EXCEPT !.by = post.answer[its]]
        BY <2>2 DEF track
      <4> HIDE DEF its, at
      <4> QED
        BY <4>1, <4>2
    <3>2. track(i) = [q[i] EXCEPT !.by = post.answer[j]]
      BY <3>1
    <3>3. j \in 1..Len(post.tracks) /\ post.tracks[j].src = q[i].src
      <4>1. j \in DOMAIN post.tracks /\ post.tracks[j].src = q[i].src
        OBVIOUS
      <4> QED
        BY <1>2, <4>1
    <3>4. q[i] \in Track
      OBVIOUS
    <3>5. track(i).by = post.answer[j]
      BY <3>2, <3>4 DEF Track
    <3> QED
      BY <3>3, <3>5
  <2> QED
    BY <2>1, <2>2
<1> QED
  BY <1>3, <1>4

\* The additions whose tracks may have a name yet: those the server holds, and
\* those an answer names that was not handled.
Countable == additions \cup ({post.answer[j] : j \in DOMAIN post.answer} \ {0})

\* What InOrder excepts has not come about.
Undisturbed == resent = {} /\ ~unnamed /\ left = {}

\* The page has had its first `host` event: all it has was taken, and what
\* the server holds of that is named.
Briefed == here /\ \A i \in 1..Len(queue) : /\ queue[i].src <= taken
                                            /\ queue[i].src \in additions => queue[i].by # 0

\* It is still to come, and what the page has is what was counted by then.
Unbriefed == /\ \A k \in Nat \ {0} : Held(k) => k <= applied
             /\ open => pipe # <<>>
             /\ pipe # <<>> => /\ pipe[1].kind = "host"
                               /\ \A k \in Nat \ {0} : Held(k) => k <= pipe[1].applied

\* The answer a `host` event waits for will name all there is to name.
NamingFits ==
    doing = "naming" =>
        \A i \in 1..Len(queue) :
            /\ queue[i].src <= taken /\ queue[i].src <= post.applied
            /\ post.state = "answered" /\ queue[i].src \in additions =>
                 \E j \in 1..Len(post.tracks) : /\ post.tracks[j].src = queue[i].src
                                                /\ post.tracks[j].page = queue[i].page

\* What is asked about was counted, each track once and as it is in the queue;
\* and the answer names what the server holds of it.
AskedFits ==
    /\ post.state = "sent" =>
         \A j \in 1..Len(post.tracks) : \/ post.tracks[j].src <= post.applied
                                        \/ post.tracks[j].src <= applied
    /\ \A i, j \in 1..Len(post.tracks) : post.tracks[i].src = post.tracks[j].src => i = j
    /\ post.state # "none" =>
         \A j \in 1..Len(post.tracks), i \in 1..Len(queue) :
             post.tracks[j].src = queue[i].src => post.tracks[j].page = queue[i].page
    /\ post.state = "answered" =>
         \A j \in 1..Len(post.tracks) :
             post.tracks[j].src \in additions => post.answer[j] = post.tracks[j].src

Ordered == /\ InRuns(queue, Countable) /\ InRuns(saved.queue, Countable)
           /\ Briefed \/ Unbriefed
           /\ NamingFits /\ AskedFits

OrderInv == /\ OnceInv /\ NamedInv
            /\ post.state # "answered" => post.answer = <<>>
            /\ Undisturbed /\ SongsOnce => Ordered

\* The types that follow.
LEMMA OrderTypes ==
    ASSUME TypeInv
    PROVE  /\ ServerType /\ NetworkType /\ BrowserType /\ HistoryType /\ StepFits
           /\ seq \in Nat /\ applied \in Nat /\ taken \in Nat /\ applied <= seq
           /\ index \in Nat /\ index \in 1..Max2(1, Len(queue))
           /\ queue \in Seq(Track) /\ saved.queue \in Seq(Track)
           /\ post \in Post /\ post.tracks \in Seq(Track)
           /\ pipe \in Seq(Event) /\ Len(pipe) \in Nat
           /\ additions \subseteq 1..seq
<1>1. ServerType /\ NetworkType /\ BrowserType /\ HistoryType /\ StepFits
      /\ seq \in Nat /\ applied \in Nat
  BY TypeInvParts, SeqType
<1>2. index \in Nat /\ taken \in Nat /\ applied <= seq
  BY <1>1 DEF BrowserType, ServerType
<1>3. saved.queue \in Seq(Track)
  BY <1>1 DEF BrowserType
<1>4. post \in Post /\ post.tracks \in Seq(Track)
  BY <1>1 DEF NetworkType, Post
<1>5. pipe \in Seq(Event) /\ Len(pipe) \in Nat
  BY <1>1 DEF NetworkType
<1> QED
  BY <1>1, <1>2, <1>3, <1>4, <1>5 DEF BrowserType, ServerType

LEMMA TypesAfter ==
    ASSUME TypeInv'
    PROVE  /\ seq' \in Nat /\ applied' \in Nat /\ taken' \in Nat /\ applied' <= seq'
           /\ queue' \in Seq(Track) /\ saved'.queue \in Seq(Track)
           /\ post' \in Post /\ post'.tracks \in Seq(Track)
           /\ additions' \subseteq 1..seq'
<1>1. TypeOK'
  BY DEF TypeInv
<1>2. seq' \in Nat /\ applied' \in 0..seq' /\ taken' \in 0..seq' /\ additions' \subseteq 1..seq'
  BY <1>1 DEF TypeOK, seq
<1>3. queue' \in Seq(Track) /\ saved' \in [queue : Seq(Track), index : Nat] /\ post' \in Post
  BY <1>1 DEF TypeOK
<1>4. post'.tracks \in Seq(Track)
  BY <1>3 DEF Post
<1> QED
  BY <1>2, <1>3, <1>4

\* True tracks are of additions made.
LEMMA TrueSrcs ==
    ASSUME NEW q \in Seq(Track), AllTrue(q, made), seq \in Nat
    PROVE  \A i \in 1..Len(q) : q[i].src \in Int /\ q[i].src <= seq
<1> SUFFICES ASSUME NEW i \in 1..Len(q) PROVE q[i].src \in Int /\ q[i].src <= seq
  OBVIOUS
<1>1. q[i] \in Track /\ TrueTrack(q[i], made)
  BY DEF AllTrue
<1>2. q[i].src \in Int
  BY <1>1 DEF Track
<1>3. q[i].src \in 1..Len(made) \/ q[i].src <= 0
  BY <1>1 DEF TrueTrack, ComesFrom
<1> QED
  BY <1>2, <1>3 DEF seq

\* The queue of a page still to be told, as the server counts on and events
\* follow the first.
LEMMA UnbriefedStays ==
    ASSUME Unbriefed, UNCHANGED <<here, queue, saved>>, applied \in Nat, applied' \in Nat,
           applied <= applied', open' => pipe' # <<>>,
           pipe' # <<>> => \/ pipe # <<>> /\ pipe'[1] = pipe[1]
                           \/ pipe'[1].kind = "host" /\ pipe'[1].applied = applied
    PROVE  Unbriefed'
<1>1. \A k : Held(k)' <=> Held(k)
  BY DEF Held, SrcsOf
<1>2. \A k \in Nat \ {0} : Held(k) => k <= applied /\ k <= applied'
  BY DEF Unbriefed
<1> QED
  BY <1>1, <1>2 DEF Unbriefed

\* What the server and the stream do, and what moves the player, leaves the
\* tracks and the answers as they are.
LEMMA OrderSame ==
    ASSUME TypeInv, Named, Ordered, TypeInv', Unbriefed => Unbriefed',
           UNCHANGED <<here, queue, saved, taken, post, doing>>, applied <= applied',
           \A k \in additions' : k \in additions \/ k > seq
    PROVE  Ordered'
<1>1. /\ queue \in Seq(Track) /\ saved.queue \in Seq(Track) /\ seq \in Nat /\ applied \in Nat
      /\ post.tracks \in Seq(Track) /\ applied' \in Nat
      /\ AllTrue(queue, made) /\ AllTrue(saved.queue, made) /\ AllTrue(post.tracks, made)
  <2>1. applied' \in Nat
    BY TypesAfter
  <2> QED
    BY <2>1, OrderTypes DEF Named
<1>2. ASSUME NEW q \in Seq(Track), AllTrue(q, made), NEW i \in 1..Len(q)
      PROVE  /\ q[i].src \in additions' => q[i].src \in additions
             /\ q[i].src \in Countable' => q[i].src \in Countable
  <2>1. q[i].src \in Int /\ q[i].src <= seq
    BY <1>1, <1>2, TrueSrcs
  <2>2. q[i].src \in additions' => q[i].src \in additions
    BY <1>1, <2>1
  <2> QED
    BY <2>2 DEF Countable
<1>3. ASSUME NEW q \in Seq(Track), AllTrue(q, made), InRuns(q, Countable)
      PROVE  InRuns(q, Countable')
  <2>1. \A i \in 1..Len(q) : Counting(q[i], Countable') => Counting(q[i], Countable)
    BY <1>2, <1>3 DEF Counting
  <2> QED
    BY <1>3, <2>1, RunsFewer
<1>4. InRuns(queue', Countable') /\ InRuns(saved'.queue, Countable')
  BY <1>1, <1>3 DEF Ordered
<1>5. Briefed => Briefed'
  BY <1>1, <1>2 DEF Briefed
<1>6. NamingFits'
  BY <1>1, <1>2 DEF NamingFits, Ordered
<1>7. AskedFits'
  <2>1. ASSUME NEW j \in 1..Len(post.tracks)
        PROVE  /\ post.tracks[j].src <= applied => post.tracks[j].src <= applied'
               /\ post.tracks[j].src \in additions' => post.tracks[j].src \in additions
    <3>1. post.tracks[j].src \in Int
      BY <1>1, TrueSrcs
    <3> QED
      BY <1>1, <1>2, <3>1
  <2> QED
    BY <2>1 DEF AskedFits, Ordered
<1> QED
  BY <1>4, <1>5, <1>6, <1>7 DEF Ordered

\* A report just sent: the tracks it sends were counted, as they are Known.
LEMMA ReportFresh ==
    ASSUME OnceInv', resent' = {}, here', NEW q \in Seq(Track), queue' = q, index \in Nat,
           NEW upTo, taken' = upTo, NEW last, NEW always, NEW step,
           Report(q, upTo, last, always, step)
    PROVE  /\ AskedFits' /\ post'.answer = <<>> /\ post'.state \in {"none", "sent"}
           /\ always => post'.state = "sent" /\ post'.applied = taken'
<1>1. post' = NoPost \/ post' = [state |-> "sent", applied |-> upTo, tracks |-> Upcoming(q), answer |-> <<>>]
  BY DEF Report
<1>2. CASE post' = NoPost
  <2>1. ~always
    BY <1>2 DEF Report, NoPost
  <2> QED
    BY <1>2, <2>1 DEF NoPost, AskedFits
<1>3. CASE post' = [state |-> "sent", applied |-> upTo, tracks |-> Upcoming(q), answer |-> <<>>]
  <2> DEFINE rest == Upcoming(q)
  <2>1. /\ rest \in Seq(Track)
        /\ \A j \in 1..Len(rest) : index + j \in 1..Len(q) /\ rest[j] = q[index + j]
    <3>1. \A j \in (index + 1)..Len(q) : q[j] \in Track
      OBVIOUS
    <3> QED
      BY <3>1, SubSeqProperties DEF Upcoming
  <2>2. /\ post'.state = "sent" /\ post'.applied = taken' /\ post'.tracks = rest
        /\ post'.answer = <<>>
    BY <1>3
  <2> HIDE DEF rest
  <2>3. applied' \in Nat /\ taken' \in Nat
    BY TypesAfter DEF OnceInv
  <2>4. ASSUME NEW j \in 1..Len(rest) PROVE rest[j].src <= taken' \/ rest[j].src <= applied'
    <3>1. PICK k \in Int : k = rest[j].src
      <4>1. rest[j] \in Track
        BY <2>1
      <4> QED
        BY <4>1 DEF Track
    <3>2. CASE k \in Nat \ {0}
      <4>1. index + j \in DOMAIN queue' /\ queue'[index + j].src = k
        BY <2>1, <3>1
      <4>2. Held(k)'
        BY <4>1 DEF Held, SrcsOf
      <4>3. Known(k)'
        BY <3>2, <4>2 DEF OnceInv
      <4> QED
        BY <3>1, <4>3 DEF Known
    <3> QED
      BY <2>3, <3>1, <3>2
  <2>5. ASSUME NEW i \in 1..Len(q), NEW j \in 1..Len(q), q[i].src = q[j].src PROVE i = j
    BY <2>5 DEF OnceInv, NoneTwice
  <2>6. \A i, j \in 1..Len(rest) : rest[i].src = rest[j].src => i = j
    <3>1. ASSUME NEW i \in 1..Len(rest), NEW j \in 1..Len(rest), rest[i].src = rest[j].src PROVE i = j
      <4>1. /\ index + i \in 1..Len(q) /\ index + j \in 1..Len(q)
            /\ q[index + i].src = q[index + j].src
        BY <2>1, <3>1
      <4>2. index + i = index + j
        BY <2>5, <4>1
      <4> QED
        BY <4>2
    <3> QED
      BY <3>1
  <2>7. \A j \in 1..Len(rest), i \in 1..Len(q) : rest[j].src = q[i].src => rest[j].page = q[i].page
    BY <2>1, <2>5
  <2> QED
    BY <2>2, <2>4, <2>6, <2>7 DEF AskedFits
<1> QED
  BY <1>1, <1>2, <1>3

\* What InOrder excepts does not go away.
LEMMA DisturbedStays ==
    ASSUME TypeInv, [Next]_vars, Undisturbed'
    PROVE  /\ Undisturbed
           /\ ~\E i \in DOMAIN queue : RemoveAt(i)
<1>1. resent \subseteq resent' /\ (unnamed => unnamed') /\ left \subseteq left'
  <2>1. CASE Member
    <3>1. UNCHANGED <<left, resent, unnamed>>
      BY <2>1 DEF Member, Enqueue, Withdraw, history
    <3> QED
      BY <3>1
  <2>2. CASE Host
    <3>1. UNCHANGED <<resent, unnamed>> /\ left \subseteq left'
      BY <2>2 DEF Host, RemoveMember, Skip, RemoveAt, StartAgain, Follows, history
    <3> QED
      BY <3>1
  <2>3. CASE Work
    <3>1. UNCHANGED <<left, resent, unnamed>>
      BY <2>3 DEF Work, BeginHost, Begin, Check, Answered, history
    <3> QED
      BY <3>1
  <2>4. CASE Receive \/ ReceiveLate
    BY <2>4 DEF Receive, ReceiveLate, ReportQueue, history
  <2>5. CASE Attach \/ StreamOpens \/ Restore \/ Persist
    BY <2>5 DEF Attach, Follows, StreamOpens, Restore, Persist, history
  <2>6. CASE Trouble
    <3>1. CASE Fails
      BY <3>1 DEF Fails
    <3>2. CASE BodyLost
      BY <3>2, BodyLostLeaves
    <3> QED
      BY <2>6, <3>1, <3>2 DEF Trouble, StreamDrops, StreamRefused, AttachFails, Follows, RestoreFails,
                              Reload, Crash, PageGoes, history
  <2>7. CASE UNCHANGED vars
    BY <2>7 DEF vars, history
  <2> QED
    BY <2>1, <2>2, <2>3, <2>4, <2>5, <2>6, <2>7 DEF Next
<1>2. Undisturbed
  BY <1>1 DEF Undisturbed
<1>3. ASSUME NEW i \in DOMAIN queue, RemoveAt(i) PROVE FALSE
  <2>1. queue[i].src \in left'
    BY <1>3 DEF RemoveAt
  <2> QED
    BY <2>1 DEF Undisturbed
<1> QED
  BY <1>2, <1>3

\* What is saved is in order as the queue is.
LEMMA PlayStateInRuns ==
    ASSUME queue \in Seq(Track), index \in 1..Max2(1, Len(queue)), NEW S, InRuns(queue, S)
    PROVE  InRuns(PlayState.queue, S)
<1>1. PlayState.queue \in Seq(Track) /\ Len(PlayState.queue) = Len(queue)
      /\ \A i \in 1..Len(queue) : PlayState.queue[i].src = queue[i].src
  BY PlayStateSame DEF SameTracks
<1>2. \A i \in 1..Len(queue) : PlayState.queue[i].by = 0
  <2>1. PlayState.queue = [i \in 1..Len(queue) |-> [queue[i] EXCEPT !.by = 0]]
    BY PlayStateType
  <2>2. \A i \in 1..Len(queue) : queue[i] \in Track
    OBVIOUS
  <2>3. \A i \in 1..Len(queue) : [queue[i] EXCEPT !.by = 0].by = 0
    BY <2>2 DEF Track
  <2> HIDE DEF PlayState
  <2> QED
    BY <2>1, <2>3
<1> HIDE DEF PlayState
<1>3. \A i \in 1..Len(queue) : Counting(PlayState.queue[i], S) => Counting(queue[i], S)
  BY <1>1, <1>2 DEF Counting
<1> QED
  BY <1>1, <1>3, RunsFewer

\* At first the queue is the host's own.
LEMMA InitOrder == Init => OrderInv
<1> SUFFICES ASSUME Init PROVE OrderInv
  OBVIOUS
<1>1. /\ OnceInv /\ NamedInv /\ TypeInv
      /\ queue = OwnTracks /\ saved = PlayState /\ post = NoPost /\ pipe = <<>> /\ additions = {}
      /\ here /\ ~open /\ doing = "idle" /\ taken = 0 /\ applied = 0 /\ Own \in Seq(Songs)
  BY InitOnce, InitNamed, ConstantsAssumption DEF Init, OnceInv
<1>2. queue \in Seq(Track) /\ index \in 1..Max2(1, Len(queue))
  BY <1>1, OrderTypes
<1>3. Countable = {}
  BY <1>1 DEF Countable, NoPost
<1>4. \A i \in 1..Len(queue) : queue[i].src <= 0 /\ queue[i].src \notin Nat \ {0} /\ queue[i].by = 0
  <2>1. \A i \in DOMAIN Own : OwnTracks[i] = [song |-> Own[i], src |-> -i, page |-> 0, by |-> 0] /\ i \in Nat
    BY <1>1 DEF OwnTracks
  <2>2. DOMAIN queue = DOMAIN Own
    BY <1>1 DEF OwnTracks
  <2>3. DOMAIN queue = 1..Len(queue)
    BY <1>2
  <2> QED
    BY <1>1, <2>1, <2>2, <2>3
<1>5. InRuns(queue, Countable)
  <2>1. DOMAIN queue = 1..Len(queue) /\ Len(queue) \in Nat
    BY <1>2
  <2>2. ASSUME NEW i \in 1..Len(queue), NEW j \in 1..Len(queue), i < j,
               \A n \in i..j : Counting(queue[n], Countable)
        PROVE  FALSE
    <3>1. Counting(queue[i], Countable)
      BY <2>2
    <3> QED
      BY <1>3, <1>4, <3>1 DEF Counting
  <2> QED
    BY <2>1, <2>2 DEF InRuns
<1>6. InRuns(saved.queue, Countable)
  BY <1>1, <1>2, <1>5, PlayStateInRuns
<1>7. Briefed
  BY <1>1, <1>4 DEF Briefed
<1>8. NamingFits /\ AskedFits /\ post.answer = <<>>
  BY <1>1 DEF NamingFits, AskedFits, NoPost
<1> QED
  BY <1>1, <1>5, <1>6, <1>7, <1>8 DEF OrderInv, Ordered

\* The members, the server and the stream, and the host's moves.
LEMMA ServerOrdered ==
    ASSUME TypeInv, Named, Ordered, TypeInv',
           \/ Member \/ Skip(1) \/ Skip(-1) \/ ReceiveLate \/ StreamOpens \/ StreamDrops
           \/ \E m \in Members : RemoveMember(m)
           \/ Attaching \/ UNCHANGED vars
    PROVE  Ordered'
<1>1. /\ ServerType /\ NetworkType /\ seq \in Nat /\ applied \in Nat /\ additions \subseteq 1..seq
      /\ pipe \in Seq(Event) /\ Len(pipe) \in Nat /\ open \in BOOLEAN /\ applied' \in Nat
  BY OrderTypes, TypesAfter DEF NetworkType
<1>2. UNCHANGED <<here, queue, saved, taken, post, doing>>
  BY DEF Member, Enqueue, Withdraw, RemoveMember, Skip, ReceiveLate, StreamOpens, StreamDrops,
         Attaching, Attach, AttachFails, StreamRefused, StartAgain, Follows,
         network, browser, history, vars
<1>3. ASSUME applied <= applied', \A k \in additions' : k \in additions \/ k > seq,
             open' => open \/ pipe' # <<>>,
             pipe # <<>> /\ open' => pipe' # <<>>,
             pipe' # <<>> => \/ pipe # <<>> /\ pipe'[1] = pipe[1]
                             \/ pipe = <<>> /\ open
                             \/ pipe'[1].kind = "host" /\ pipe'[1].applied = applied
      PROVE  Ordered'
  <2>1. ASSUME Unbriefed PROVE Unbriefed'
    <3>1. open => pipe # <<>>
      BY <2>1 DEF Unbriefed
    <3>2. open' => pipe' # <<>>
      BY <1>3, <3>1
    <3>3. pipe' # <<>> => \/ pipe # <<>> /\ pipe'[1] = pipe[1]
                          \/ pipe'[1].kind = "host" /\ pipe'[1].applied = applied
      BY <1>3, <3>1
    <3> QED
      BY <1>1, <1>2, <1>3, <2>1, <3>2, <3>3, UnbriefedStays
  <2> QED
    BY <1>2, <1>3, <2>1, OrderSame
<1>4. ASSUME applied <= applied', \A k \in additions' : k \in additions, UNCHANGED <<open, pipe>>
      PROVE  Ordered'
  BY <1>3, <1>4
<1>5. ASSUME NEW event \in Event, ToHost(event), open' = open, applied' = applied,
             \A k \in additions' : k \in additions \/ k > seq
      PROVE  Ordered'
  <2>1. /\ pipe' \in Seq(Event) /\ Len(pipe) <= Len(pipe')
        /\ \A i \in 1..Len(pipe) : pipe'[i] = pipe[i]
    BY <1>1, <1>5, ToHostType
  <2>2. pipe # <<>> => pipe' # <<>> /\ pipe'[1] = pipe[1]
    BY <1>1, <2>1
  <2>3. pipe' # <<>> => pipe # <<>> \/ open
    BY <1>5 DEF ToHost
  <2>4. applied <= applied'
    BY <1>1, <1>5
  <2> QED
    BY <1>3, <1>5, <2>2, <2>3, <2>4
<1>6. ASSUME NEW m \in Members, NEW s \in Songs, Enqueue(m, s) PROVE Ordered'
  <2>1. /\ ToHost(AddEvent(seq + 1)) /\ open' = open /\ applied' = applied
        /\ additions' = additions \cup {seq + 1}
    BY <1>6 DEF Enqueue
  <2>2. AddEvent(seq + 1) \in Event
    BY <1>1 DEF AddEvent, Event
  <2>3. \A k \in additions' : k \in additions \/ k > seq
    BY <1>1, <2>1
  <2> QED
    BY <1>5, <2>1, <2>2, <2>3
<1>7. ASSUME NEW m \in Members, NEW k \in Seqs, Withdraw(m, k) PROVE Ordered'
  <2>1. open' = open /\ applied' = applied /\ (pipe' = pipe \/ ToHost(RemoveEvent(k)))
        /\ \A l \in additions' : l \in additions
    BY <1>7 DEF Withdraw
  <2>2. RemoveEvent(k) \in Event
    BY DEF RemoveEvent, Event, Seqs
  <2>3. applied <= applied'
    BY <1>1, <2>1
  <2>4. CASE pipe' = pipe
    BY <1>4, <2>1, <2>3, <2>4
  <2>5. CASE ToHost(RemoveEvent(k))
    BY <1>5, <2>1, <2>2, <2>5
  <2> QED
    BY <2>1, <2>4, <2>5
<1>8. ASSUME NEW m \in Members, RemoveMember(m) PROVE Ordered'
  <2>1. UNCHANGED <<open, pipe, applied>> /\ \A k \in additions' : k \in additions
    BY <1>8 DEF RemoveMember, network
  <2> QED
    BY <1>1, <1>4, <2>1
<1>9. CASE ReceiveLate
  <2>1. PICK request \in late : ReportQueue(request.applied, request.songs)
    BY <1>9 DEF ReceiveLate
  <2>2. request.applied \in Nat /\ request.songs \in Seq(Songs)
    BY <1>1, <2>1 DEF NetworkType, Signature
  <2>3. applied <= applied'
    BY <1>1, <2>1, <2>2, ReportQueueKeeps
  <2>4. \A k \in additions' : k \in additions
    BY <2>1 DEF ReportQueue
  <2>5. UNCHANGED <<open, pipe>>
    BY <1>9 DEF ReceiveLate
  <2> QED
    BY <1>4, <2>3, <2>4, <2>5
<1>10. CASE StreamOpens
  <2>1. pipe' = Append(pipe, HostEvent) /\ UNCHANGED <<applied, additions>>
    BY <1>10 DEF StreamOpens, server
  <2>2. pipe' # <<>> /\ (pipe # <<>> => pipe'[1] = pipe[1]) /\ (pipe = <<>> => pipe'[1] = HostEvent)
    BY <1>1, <2>1, AppendProperties
  <2>3. HostEvent.kind = "host" /\ HostEvent.applied = applied
    BY DEF HostEvent
  <2> HIDE DEF HostEvent
  <2>4. applied <= applied' /\ \A k \in additions' : k \in additions \/ k > seq
    BY <1>1, <2>1
  <2> QED
    BY <1>3, <2>2, <2>3, <2>4
<1>11. CASE StreamDrops
  <2>1. ~open' /\ UNCHANGED <<applied, additions>>
    BY <1>11 DEF StreamDrops, server
  <2>2. /\ pipe' \in Seq(Event) /\ Len(pipe') \in 0..Len(pipe)
        /\ \A i \in 1..Len(pipe') : pipe'[i] = pipe[i]
    BY <1>1, <1>11, StreamDropsPrefix
  <2>3. pipe' # <<>> => pipe # <<>> /\ pipe'[1] = pipe[1]
    BY <1>1, <2>2
  <2>4. applied <= applied' /\ \A k \in additions' : k \in additions \/ k > seq
    BY <1>1, <2>1
  <2> QED
    BY <1>3, <2>1, <2>3, <2>4
<1>12. CASE Skip(1) \/ Skip(-1) \/ Attaching \/ UNCHANGED vars
  <2>1. UNCHANGED <<open, pipe, applied, additions>>
    BY <1>12 DEF Skip, Attaching, Attach, AttachFails, StreamRefused, StartAgain, Follows,
                 vars, server, network
  <2> QED
    BY <1>1, <1>4, <2>1
<1> QED
  BY <1>6, <1>7, <1>8, <1>9, <1>10, <1>11, <1>12 DEF Member

\* The player saves its queue, and has it back after a reload.
LEMMA PlayerOrdered ==
    ASSUME TypeInv, Ordered, post.state # "answered" => post.answer = <<>>,
           Persist \/ Restore \/ RestoreFails
    PROVE  Ordered'
<1>1. /\ BrowserType /\ StepFits /\ queue \in Seq(Track) /\ saved.queue \in Seq(Track)
      /\ index \in 1..Max2(1, Len(queue)) /\ DOMAIN queue = 1..Len(queue)
      /\ DOMAIN saved.queue = 1..Len(saved.queue)
  BY OrderTypes
<1>2. UNCHANGED <<post, additions, applied, taken, doing, open, pipe>>
  BY DEF Persist, Restore, RestoreFails, server, network, browser
<1>3. Countable' = Countable
  BY <1>2 DEF Countable
<1>4. CASE Persist
  <2>1. here /\ here' = here /\ queue' = queue /\ saved' = PlayState
    BY <1>4 DEF Persist, browser
  <2>2. InRuns(queue, Countable)
    BY DEF Ordered
  <2>3. InRuns(PlayState.queue, Countable)
    BY <1>1, <2>2, PlayStateInRuns
  <2> HIDE DEF PlayState
  <2>7. InRuns(queue', Countable') /\ InRuns(saved'.queue, Countable')
    BY <1>3, <2>1, <2>2, <2>3
  <2>8. Briefed' \/ Unbriefed'
    <3>1. ASSUME Briefed PROVE Briefed'
      BY <1>2, <2>1, <3>1 DEF Briefed
    <3>2. ASSUME Unbriefed PROVE Unbriefed'
      <4>1. \A k \in Nat \ {0} : Held(k)' => Held(k)
        BY <2>1 DEF Held, SrcsOf
      <4> QED
        BY <1>2, <3>2, <4>1 DEF Unbriefed
    <3> QED
      BY <3>1, <3>2 DEF Ordered
  <2>9. NamingFits' /\ AskedFits'
    BY <1>2, <2>1 DEF Ordered, NamingFits, AskedFits
  <2> QED
    BY <2>7, <2>8, <2>9 DEF Ordered
<1>5. CASE Restore \/ RestoreFails
  <2>1. ~here /\ here' /\ saved' = saved /\ (queue' = saved.queue \/ queue' = queue)
    BY <1>5 DEF Restore, RestoreFails
  <2>2. InRuns(queue', Countable') /\ InRuns(saved'.queue, Countable')
    BY <1>3, <2>1 DEF Ordered
  <2>3. Unbriefed
    BY <2>1 DEF Ordered, Briefed
  <2>4. \A k \in Nat \ {0} : Held(k)' => Held(k)
    BY <2>1 DEF Held, SrcsOf
  <2>5. Unbriefed'
    BY <1>2, <2>3, <2>4 DEF Unbriefed
  <2>6. doing = "idle" /\ post.state = "none"
    BY <1>1, <2>1 DEF StepFits
  <2>7. NamingFits' /\ AskedFits'
    BY <1>2, <2>6 DEF Ordered, NamingFits, AskedFits
  <2> QED
    BY <2>2, <2>5, <2>7 DEF Ordered
<1> QED
  BY <1>4, <1>5

\* The server's answer: it names, of the tracks it was asked about, each it
\* still holds and no more than it held.
LEMMA ReceiveOrdered ==
    ASSUME TypeInv, TypeInv', SongsOnce, Named, Ordered, Receive
    PROVE  Ordered'
<1> DEFINE tracks == post.tracks
           from == {k \in additions : k <= Max2(applied, Min2(post.applied, seq))}
           found == Found(SongsOf(tracks), from)
<1>1. /\ ServerType /\ seq \in Nat /\ applied \in Nat /\ applied <= seq
      /\ additions \subseteq 1..seq /\ post \in Post /\ post.applied \in Nat
      /\ tracks \in Seq(Track) /\ DOMAIN tracks = 1..Len(tracks) /\ AllTrue(tracks, made)
      /\ queue \in Seq(Track) /\ saved.queue \in Seq(Track)
      /\ AllTrue(queue, made) /\ applied' \in Nat
  BY OrderTypes, TypesAfter DEF Named, Post
<1>2. /\ UNCHANGED <<here, queue, saved, taken, doing, open, pipe>> /\ post.state = "sent"
      /\ ReportQueue(post.applied, SongsOf(tracks))
      /\ post' = [post EXCEPT !.state = "answered", !.answer = Answer(post.applied, SongsOf(tracks))]
  BY DEF Receive, browser
<1>3. Answer(post.applied, SongsOf(tracks)) = found
  BY DEF Answer
<1>4. /\ post'.state = "answered" /\ post'.tracks = tracks /\ post'.applied = post.applied
      /\ post'.answer = found
  BY <1>1, <1>2, <1>3 DEF Post
<1>5. /\ applied' = Max2(applied, Min2(post.applied, seq))
      /\ additions' = {k \in additions : k > applied' \/ \E i \in DOMAIN found : found[i] = k}
  BY <1>2, <1>3 DEF ReportQueue
<1>6. from \in SUBSET (1..seq) /\ \A k \in additions : k <= applied' => k \in from
  BY <1>1, <1>5
<1>7. from \subseteq additions
  OBVIOUS
<1> HIDE DEF from
<1>8. DOMAIN found = 1..Len(tracks)
  BY <1>1 DEF Found, SongsOf
<1>9. \A i \in 1..Len(tracks) : /\ found[i] \in from \cup {0}
                                /\ tracks[i].src \in from => found[i] = tracks[i].src
                                /\ found[i] \in {0, tracks[i].src}
  <2>1. \A i, j \in 1..Len(tracks) : tracks[i].src = tracks[j].src => i = j
    BY DEF Ordered, AskedFits
  <2>2. \A i \in 1..Len(tracks) : /\ found[i] \in from \cup {0}
                                  /\ tracks[i].src \in from => found[i] = tracks[i].src
    BY <1>1, <1>6, <2>1, FoundAll
  <2>3. \A i \in 1..Len(tracks) : found[i] \in {0, tracks[i].src}
    <3>1. ASSUME NEW i \in 1..Len(tracks) PROVE found[i] \in {0, tracks[i].src}
      <4>1. NameOf(found[i], tracks[i].song, made)
        BY <1>1, <1>6, FoundTrue
      <4>2. ComesFrom(tracks[i].src, tracks[i].song, made)
        BY <1>1 DEF AllTrue, TrueTrack
      <4> HIDE DEF found, tracks
      <4> QED
        BY <4>1, <4>2, OwnName
    <3> QED
      BY <3>1
  <2> QED
    BY <2>2, <2>3
<1> HIDE DEF found, tracks
<1>10. additions' \subseteq additions /\ Countable' \subseteq Countable /\ applied <= applied'
  <2>1. additions' \subseteq additions
    BY <1>5
  <2>2. \A j \in DOMAIN found : found[j] \in additions \cup {0}
    BY <1>7, <1>8, <1>9
  <2>3. Countable' \subseteq additions
    BY <1>4, <2>1, <2>2 DEF Countable
  <2>4. applied <= applied'
    BY <1>1, <1>5 DEF Max2
  <2> QED
    BY <2>1, <2>3, <2>4 DEF Countable
<1>11. ASSUME NEW q \in Seq(Track), InRuns(q, Countable) PROVE InRuns(q, Countable')
  <2>1. \A i \in 1..Len(q) : Counting(q[i], Countable') => Counting(q[i], Countable)
    BY <1>10 DEF Counting
  <2> QED
    BY <1>11, <2>1, RunsFewer
<1>12. InRuns(queue', Countable') /\ InRuns(saved'.queue, Countable')
  BY <1>1, <1>2, <1>11 DEF Ordered
<1>13. Briefed' \/ Unbriefed'
  <2>1. ASSUME Briefed PROVE Briefed'
    BY <1>2, <1>10, <2>1 DEF Briefed
  <2>2. ASSUME Unbriefed PROVE Unbriefed'
    <3>1. open' => pipe' # <<>>
      BY <1>2, <2>2 DEF Unbriefed
    <3> QED
      BY <1>1, <1>2, <1>10, <2>2, <3>1, UnbriefedStays
  <2> QED
    BY <2>1, <2>2 DEF Ordered
<1>14. NamingFits'
  <2>1. SUFFICES ASSUME doing = "naming", NEW i \in 1..Len(queue)
                 PROVE  /\ queue[i].src <= taken /\ queue[i].src <= post.applied
                        /\ queue[i].src \in additions' =>
                             \E j \in 1..Len(tracks) : /\ tracks[j].src = queue[i].src
                                                       /\ tracks[j].page = queue[i].page
    BY <1>2, <1>4 DEF NamingFits
  <2>2. queue[i].src <= taken /\ queue[i].src <= post.applied
    BY <2>1 DEF Ordered, NamingFits
  <2>3. ASSUME queue[i].src \in additions'
        PROVE  \E j \in 1..Len(tracks) : /\ tracks[j].src = queue[i].src
                                         /\ tracks[j].page = queue[i].page
    <3>1. PICK k \in 1..seq : k = queue[i].src
      BY <1>1, <1>10, <2>3
    <3>2. ~(k > applied') /\ k # 0
      BY <1>1, <1>5, <2>2, <3>1 DEF Max2, Min2
    <3>3. PICK j \in 1..Len(tracks) : found[j] = k
      BY <1>5, <1>8, <2>3, <3>1, <3>2
    <3>4. tracks[j].src = k
      BY <1>9, <3>2, <3>3
    <3>5. tracks[j].page = queue[i].page
      BY <1>2, <3>1, <3>4 DEF Ordered, AskedFits, tracks
    <3> QED
      BY <3>1, <3>4, <3>5
  <2> QED
    BY <2>2, <2>3
<1>15. AskedFits'
  <2>1. /\ \A i, j \in 1..Len(tracks) : tracks[i].src = tracks[j].src => i = j
        /\ \A j \in 1..Len(tracks), i \in 1..Len(queue) :
               tracks[j].src = queue[i].src => tracks[j].page = queue[i].page
        /\ \A j \in 1..Len(tracks) : tracks[j].src <= post.applied \/ tracks[j].src <= applied
    BY <1>2 DEF Ordered, AskedFits, tracks
  <2>2. ASSUME NEW j \in 1..Len(tracks), tracks[j].src \in additions' PROVE found[j] = tracks[j].src
    <3>1. PICK k \in 1..seq : k = tracks[j].src
      BY <1>1, <1>10, <2>2
    <3>2. k <= post.applied \/ k <= applied
      BY <2>1, <3>1
    <3>3. k <= applied'
      BY <1>1, <1>5, <3>2 DEF Max2, Min2
    <3>4. k \in from
      BY <1>6, <1>10, <2>2, <3>1, <3>3
    <3> QED
      BY <1>9, <3>1, <3>4
  <2> QED
    BY <1>2, <1>4, <2>1, <2>2 DEF AskedFits
<1> QED
  BY <1>12, <1>13, <1>14, <1>15 DEF Ordered

\* With no answer to come, only what the server holds may still be named.
LEMMA Unanswered ==
    /\ post.answer = <<>> => Countable = additions
    /\ post'.answer = <<>> => Countable' = additions'
BY DEF Countable

\* A step that handles an event, once what the page has is named.
LEMMA HandlingOrdered ==
    ASSUME TypeInv, NothingForNone, OnceInv', resent' = {}, here', pipe # <<>>,
           NEW q \in Seq(Track), index \in 1..Max2(1, Len(q)),
           InRuns(q, additions), InRuns(saved.queue, additions),
           \A i \in 1..Len(q) : q[i].src <= taken /\ (q[i].src \in additions => q[i].by # 0),
           NEW last, Handle(q, Head(pipe), last), UNCHANGED <<additions, saved>>
    PROVE  Ordered'
<1>1. /\ made \in Seq([song : Songs, member : Members]) /\ taken \in 0..seq /\ loads \in Nat
      /\ NetworkType /\ index \in Nat
  BY OrderTypes DEF ServerType, BrowserType, HistoryType
<1>2. Head(pipe) \in Event /\ Head(pipe).waiting \subseteq 1..seq /\ 0 \notin Head(pipe).withdrawn
  BY <1>1, HeadOfPipe DEF NothingForNone
<1>3. /\ InRuns(queue', additions) /\ queue' \in Seq(Track)
      /\ \A i \in 1..Len(queue') : /\ queue'[i].src <= taken'
                                   /\ queue'[i].src \in additions => queue'[i].by # 0
  BY <1>1, <1>2, HandleInRuns
<1>4. Report(queue', taken', last, FALSE, "closing")
  BY DEF Handle
<1>5. AskedFits' /\ post'.answer = <<>>
  BY <1>1, <1>3, <1>4, ReportFresh
<1>6. doing' # "naming"
  BY <1>4 DEF Report
<1>7. Countable' = additions
  BY <1>5, Unanswered
<1>8. Briefed'
  BY <1>3 DEF Briefed
<1> QED
  BY <1>3, <1>5, <1>6, <1>7, <1>8 DEF Ordered, NamingFits

\* A step that ends, with the same tracks, named or not.
LEMMA EndOrdered ==
    ASSUME TypeInv, Briefed \/ Unbriefed, NEW q \in Seq(Track), SameTracks(q, queue),
           InRuns(q, additions), InRuns(saved.queue, additions),
           \A i \in 1..Len(queue) : queue[i].src \in additions /\ queue[i].by # 0 => q[i].by # 0,
           queue' = q, post' = NoPost, doing' = "idle",
           UNCHANGED <<here, additions, saved, applied, taken, open, pipe>>
    PROVE  Ordered'
<1>1. queue \in Seq(Track) /\ Len(q) = Len(queue) /\ \A i \in 1..Len(queue) : q[i].src = queue[i].src
  BY OrderTypes DEF SameTracks
<1>2. Countable' = additions
  BY Unanswered DEF NoPost
<1>3. ASSUME Briefed PROVE Briefed'
  BY <1>1, <1>3 DEF Briefed
<1>4. ASSUME Unbriefed PROVE Unbriefed'
  <2>1. \A k \in Nat \ {0} : Held(k)' => Held(k)
    BY <1>1 DEF Held, SrcsOf
  <2> QED
    BY <1>4, <2>1 DEF Unbriefed
<1>5. NamingFits' /\ AskedFits'
  BY DEF NamingFits, AskedFits, NoPost
<1> QED
  BY <1>2, <1>3, <1>4, <1>5 DEF Ordered

\* Fewer may be named, or have been, once an answer was handled or is lost.
LEMMA RunsHeld ==
    ASSUME TypeInv, NEW q \in Seq(Track), InRuns(q, Countable)
    PROVE  InRuns(q, additions)
<1>1. \A i \in 1..Len(q) : Counting(q[i], additions) => Counting(q[i], Countable)
  BY DEF Counting, Countable
<1> QED
  BY <1>1, RunsFewer

\* The answer of a report names what counts, and all the server holds of it.
LEMMA MarkedInRuns ==
    ASSUME TypeInv, SongsOnce, Named, Ordered, post.state = "answered"
    PROVE  /\ Marked(queue) \in Seq(Track) /\ SameTracks(Marked(queue), queue)
           /\ InRuns(Marked(queue), additions)
           /\ \A i \in 1..Len(queue) : 
                  /\ queue[i].src \in additions /\ queue[i].by # 0 => Marked(queue)[i].by # 0
                  /\ doing = "naming" /\ queue[i].src \in additions => Marked(queue)[i].by # 0
<1> DEFINE marked == Marked(queue)
<1>1. /\ queue \in Seq(Track) /\ post \in Post /\ Len(post.answer) = Len(post.tracks)
      /\ DOMAIN post.tracks = 1..Len(post.tracks) /\ DOMAIN post.answer = 1..Len(post.tracks)
      /\ additions \subseteq 1..seq /\ seq \in Nat
  <2>1. /\ queue \in Seq(Track) /\ post \in Post /\ Len(post.answer) = Len(post.tracks)
        /\ additions \subseteq 1..seq /\ seq \in Nat /\ post.tracks \in Seq(Track)
    BY OrderTypes DEF StepFits
  <2>2. post.answer \in Seq(Nat)
    BY <2>1 DEF Post
  <2> QED
    BY <2>1, <2>2
<1>2. /\ marked \in Seq(Track) /\ Len(marked) = Len(queue)
      /\ \A i \in 1..Len(queue) : marked[i].src = queue[i].src
  BY <1>1, MarkedKeeps
<1>3. \A i \in 1..Len(queue) :
          \/ marked[i].by = queue[i].by
             /\ \A j \in 1..Len(post.tracks) : ~( /\ post.tracks[j].src = queue[i].src
                                                  /\ post.tracks[j].page = queue[i].page)
          \/ \E j \in 1..Len(post.tracks) : /\ post.tracks[j].src = queue[i].src
                                            /\ marked[i].by = post.answer[j]
  BY <1>1, MarkedBy
<1> HIDE DEF marked
<1>4. \A j \in 1..Len(post.tracks) :
          /\ post.answer[j] \in {0, post.tracks[j].src}
          /\ post.tracks[j].src \in additions => post.answer[j] = post.tracks[j].src
          /\ post.answer[j] # 0 => post.answer[j] \in Countable
  <2>1. ASSUME NEW j \in 1..Len(post.tracks) PROVE post.answer[j] \in {0, post.tracks[j].src}
    <3>1. NameOf(post.answer[j], post.tracks[j].song, made)
      BY <1>1 DEF Named, AnswerTrue
    <3>2. ComesFrom(post.tracks[j].src, post.tracks[j].song, made)
      BY <1>1 DEF Named, AllTrue, TrueTrack
    <3> QED
      BY <3>1, <3>2, OwnName
  <2>2. \A j \in 1..Len(post.tracks) : post.tracks[j].src \in additions => post.answer[j] = post.tracks[j].src
    BY DEF Ordered, AskedFits
  <2>3. \A j \in 1..Len(post.tracks) : post.answer[j] # 0 => post.answer[j] \in Countable
    BY <1>1 DEF Countable
  <2> QED
    BY <2>1, <2>2, <2>3
<1>5. ASSUME NEW i \in 1..Len(queue), Counting(marked[i], additions) PROVE Counting(queue[i], Countable)
  <2>1. CASE marked[i].by = queue[i].by
    BY <1>2, <1>5, <2>1 DEF Counting, Countable
  <2>2. ASSUME NEW j \in 1..Len(post.tracks), post.tracks[j].src = queue[i].src,
               marked[i].by = post.answer[j]
        PROVE  Counting(queue[i], Countable)
    BY <1>2, <1>4, <1>5, <2>2 DEF Counting, Countable
  <2> QED
    BY <1>3, <2>1, <2>2
<1>6. InRuns(marked, additions)
  BY <1>1, <1>2, <1>5, RunsFewer DEF Ordered
<1>7. ASSUME NEW i \in 1..Len(queue), queue[i].src \in additions,
             queue[i].by # 0 \/ doing = "naming"
      PROVE  marked[i].by # 0
  <2>1. queue[i].src # 0
    BY <1>1, <1>7
  <2>2. ASSUME NEW j \in 1..Len(post.tracks), post.tracks[j].src = queue[i].src,
               marked[i].by = post.answer[j]
        PROVE  marked[i].by # 0
    BY <1>4, <1>7, <2>1, <2>2
  <2>3. CASE queue[i].by # 0
    BY <1>3, <2>2, <2>3
  <2>4. CASE doing = "naming"
    <3>1. \E j \in 1..Len(post.tracks) : /\ post.tracks[j].src = queue[i].src
                                         /\ post.tracks[j].page = queue[i].page
      BY <1>7, <2>4 DEF Ordered, NamingFits
    <3> QED
      BY <1>3, <2>2, <3>1
  <2> QED
    BY <1>7, <2>3, <2>4
<1>8. SameTracks(marked, queue)
  BY <1>2 DEF SameTracks
<1>9. \A i \in 1..Len(queue) : queue[i].src \in additions /\ (queue[i].by # 0 \/ doing = "naming")
                                   => marked[i].by # 0
  BY <1>7
<1> QED
  BY <1>2, <1>6, <1>8, <1>9 DEF marked

\* The browser's steps.
LEMMA WorkOrdered ==
    ASSUME TypeInv, NothingForNone, SongsOnce, Named, Ordered, TypeInv', OnceInv', Undisturbed',
           post.state # "answered" => post.answer = <<>>, Work \/ Fails
    PROVE  Ordered'
<1>1. /\ NetworkType /\ StepFits /\ queue \in Seq(Track) /\ saved.queue \in Seq(Track)
      /\ index \in 1..Max2(1, Len(queue)) /\ index \in Nat /\ seq \in Nat
      /\ taken \in Nat /\ applied \in Nat /\ additions \subseteq 1..seq
      /\ pipe \in Seq(Event) /\ resent' = {}
      /\ \A i \in 1..Len(queue) : queue[i].src \in Int
  <2>1. AllTrue(queue, made)
    BY DEF Named
  <2> QED
    BY <2>1, OrderTypes, TrueSrcs DEF Undisturbed
<1>2. InRuns(queue, additions) /\ InRuns(saved.queue, additions)
  BY <1>1, RunsHeld DEF Ordered
<1>3. SameTracks(queue, queue)
  BY DEF SameTracks
<1>4. ASSUME UNCHANGED <<queue, saved, here, additions, applied, open, pipe>>, here, taken <= taken',
             NEW always, NEW step, Report(queue, taken', reported, always, step), taken' \in Nat,
             doing' = "naming" => /\ always
                                  /\ \A i \in 1..Len(queue) : queue[i].src <= taken'
      PROVE  Ordered'
  <2>1. AskedFits' /\ post'.answer = <<>> /\ post'.state \in {"none", "sent"}
        /\ (always => post'.state = "sent" /\ post'.applied = taken')
    BY <1>1, <1>4, ReportFresh
  <2>2. Countable' = additions
    BY <1>4, <2>1, Unanswered
  <2>3. NamingFits'
    BY <1>4, <2>1 DEF NamingFits
  <2>4. ASSUME Briefed PROVE Briefed'
    <3>1. ASSUME NEW i \in 1..Len(queue) PROVE queue[i].src <= taken'
      <4>1. queue[i].src <= taken
        BY <2>4 DEF Briefed
      <4> QED
        BY <1>1, <1>4, <4>1
    <3> QED
      BY <1>4, <2>4, <3>1 DEF Briefed
  <2>5. ASSUME Unbriefed PROVE Unbriefed'
    BY <1>4, <2>5 DEF Unbriefed, Held, SrcsOf
  <2> QED
    BY <1>2, <1>4, <2>1, <2>2, <2>3, <2>4, <2>5 DEF Ordered
<1>5. CASE BeginHost
  <2>1. /\ here /\ pipe # <<>> /\ taken' = Max2(taken, Head(pipe).applied)
        /\ Report(queue, taken', reported, TRUE, "naming")
        /\ UNCHANGED <<queue, saved, here, additions, applied, open, pipe>>
    BY <1>5 DEF BeginHost, server
  <2>2. Head(pipe) = pipe[1] /\ pipe[1].applied \in Nat
    <3>1. Head(pipe) = pipe[1] /\ Head(pipe) \in Event
      BY <1>1, <2>1, HeadOfPipe
    <3> QED
      BY <3>1 DEF Event
  <2>3. taken' \in Nat /\ taken <= taken' /\ pipe[1].applied <= taken'
    BY <1>1, <2>1, <2>2 DEF Max2
  <2>4. ASSUME NEW i \in 1..Len(queue) PROVE queue[i].src <= taken'
    <3>1. CASE Briefed
      <4>1. queue[i].src <= taken
        BY <3>1 DEF Briefed
      <4> QED
        BY <1>1, <2>3, <4>1
    <3>2. CASE Unbriefed
      <4>1. CASE queue[i].src \in Nat \ {0}
        <5>1. Held(queue[i].src)
          BY <1>1 DEF Held, SrcsOf
        <5>2. queue[i].src <= pipe[1].applied
          BY <2>1, <3>2, <4>1, <5>1 DEF Unbriefed
        <5> QED
          BY <1>1, <2>2, <2>3, <5>2
      <4> QED
        BY <1>1, <2>3, <4>1
    <3> QED
      BY <3>1, <3>2 DEF Ordered
  <2> QED
    BY <1>4, <2>1, <2>3, <2>4
<1>6. CASE Check
  <2>1. /\ here /\ taken' = taken /\ Report(queue, taken, reported, FALSE, "closing")
        /\ UNCHANGED <<queue, saved, here, additions, applied, open, pipe>>
    BY <1>6 DEF Check, server
  <2>2. doing' # "naming"
    BY <2>1 DEF Report
  <2>3. Report(queue, taken', reported, FALSE, "closing")
    BY <2>1 DEF Report
  <2>4. taken' \in Nat /\ taken <= taken'
    BY <1>1, <2>1
  <2> QED
    BY <1>4, <2>1, <2>2, <2>3, <2>4
<1>7. CASE Begin
  <2>1. /\ here /\ here' /\ doing = "idle" /\ pipe # <<>> /\ Head(pipe).kind # "host"
        /\ Handle(queue, Head(pipe), reported) /\ UNCHANGED <<additions, saved>>
    BY <1>7 DEF Begin, server
  <2>2. ~Unbriefed
    BY <1>1, <2>1, HeadOfPipe DEF Unbriefed
  <2>3. \A i \in 1..Len(queue) : queue[i].src <= taken /\ (queue[i].src \in additions => queue[i].by # 0)
    BY <2>2 DEF Ordered, Briefed
  <2> QED
    BY <1>1, <1>2, <2>1, <2>3, HandlingOrdered
<1>8. CASE Answered
  <2>1. /\ post.state = "answered" /\ Resume(Marked(queue), reported)
        /\ UNCHANGED <<here, additions, saved, applied, open>>
    BY <1>8 DEF Answered, server
  <2> DEFINE marked == Marked(queue)
  <2>2. /\ marked \in Seq(Track) /\ SameTracks(marked, queue) /\ InRuns(marked, additions)
        /\ \A i \in 1..Len(queue) :
               /\ queue[i].src \in additions /\ queue[i].by # 0 => marked[i].by # 0
               /\ doing = "naming" /\ queue[i].src \in additions => marked[i].by # 0
    BY <2>1, MarkedInRuns
  <2>3. /\ \/ /\ doing = "closing" /\ doing' = "idle" /\ post' = NoPost /\ queue' = marked
              /\ UNCHANGED <<pipe, taken>>
           \/ /\ doing = "naming" /\ Handle(marked, Head(pipe), reported)
    BY <2>1 DEF Resume
  <2> HIDE DEF marked
  <2>4. CASE /\ doing = "closing" /\ doing' = "idle" /\ post' = NoPost /\ queue' = marked
             /\ UNCHANGED <<pipe, taken>>
    BY <1>2, <2>1, <2>2, <2>4, EndOrdered DEF Ordered
  <2>5. CASE doing = "naming" /\ Handle(marked, Head(pipe), reported)
    <3>1. here' /\ pipe # <<>>
      BY <1>1, <2>1, <2>5 DEF StepFits
    <3>2. index \in 1..Max2(1, Len(marked))
      BY <1>1, <2>2 DEF SameTracks
    <3>3. \A i \in 1..Len(marked) : /\ marked[i].src <= taken
                                    /\ marked[i].src \in additions => marked[i].by # 0
      BY <2>2, <2>5 DEF SameTracks, Ordered, NamingFits
    <3> QED
      BY <1>1, <1>2, <2>1, <2>2, <2>5, <3>1, <3>2, <3>3, HandlingOrdered
  <2> QED
    BY <2>3, <2>4, <2>5
<1>9. CASE Fails
  <2>1. /\ Resume(queue, AfterFailure) /\ unnamed' = (unnamed \/ doing = "naming")
        /\ UNCHANGED <<here, additions, saved, applied, open>>
    BY <1>9 DEF Fails, server
  <2>2. doing # "naming"
    BY <2>1 DEF Undisturbed
  <2>3. doing' = "idle" /\ post' = NoPost /\ queue' = queue /\ UNCHANGED <<pipe, taken>>
    BY <2>1, <2>2 DEF Resume
  <2> QED
    BY <1>1, <1>2, <1>3, <2>1, <2>3, EndOrdered DEF Ordered
<1> QED
  BY <1>5, <1>6, <1>7, <1>8, <1>9 DEF Work

\* A step ended without the body of its answer: its additions were named.
LEMMA BodyLostOrdered ==
    ASSUME TypeInv, Ordered, Undisturbed', BodyLost
    PROVE  Ordered'
<1>1. /\ doing' = "idle" /\ post' = NoPost
      /\ UNCHANGED <<here, queue, additions, saved, applied, taken, open, pipe>>
  BY BodyLostLeaves DEF Undisturbed, server
<1>2. queue \in Seq(Track) /\ InRuns(queue, additions) /\ InRuns(saved.queue, additions)
  BY OrderTypes, RunsHeld DEF Ordered
<1>3. SameTracks(queue, queue)
  BY <1>2 DEF SameTracks
<1> QED
  BY <1>1, <1>2, <1>3, EndOrdered DEF Ordered

\* The page goes: nothing it will find is still to be counted.
LEMMA PageOrdered ==
    ASSUME TypeInv, Ordered, Undisturbed', Reload \/ Crash
    PROVE  Ordered'
<1>1. /\ queue \in Seq(Track) /\ index \in 1..Max2(1, Len(queue)) /\ saved.queue \in Seq(Track)
      /\ applied \in Nat
  BY OrderTypes
<1>2. InRuns(saved.queue, additions) /\ InRuns(PlayState.queue, additions)
      /\ PlayState.queue \in Seq(Track)
  BY <1>1, RunsHeld, PlayStateInRuns, PlayStateSame DEF Ordered
<1>3. PageGoes(PlayState) \/ PageGoes(saved)
  BY DEF Reload, Crash
<1> HIDE DEF PlayState
<1>4. ASSUME NEW s, PageGoes(s), InRuns(s.queue, additions) PROVE Ordered'
  <2>1. /\ ~open' /\ pipe' = <<>> /\ post' = NoPost /\ ~here' /\ queue' = <<>> /\ doing' = "idle"
        /\ saved' = s /\ UNCHANGED <<additions, applied>>
        /\ resent' = resent \cup {k \in SrcsOf(s.queue) : k > applied}
    BY <1>4 DEF PageGoes, server
  <2>2. Countable' = additions
    BY <2>1, Unanswered DEF NoPost
  <2>3. InRuns(queue', Countable') /\ InRuns(saved'.queue, Countable')
    <3>1. InRuns(queue', Countable')
      BY <2>1 DEF InRuns
    <3> QED
      BY <1>4, <2>1, <2>2, <3>1
  <2>4. ASSUME NEW k \in Nat \ {0}, Held(k)' PROVE k <= applied
    <3>1. k \in SrcsOf(s.queue)
      BY <2>1, <2>4 DEF Held, SrcsOf
    <3>2. ~(k > applied)
      BY <2>1, <3>1 DEF Undisturbed
    <3> QED
      BY <1>1, <3>2
  <2>5. Unbriefed'
    BY <2>1, <2>4 DEF Unbriefed
  <2>6. NamingFits' /\ AskedFits'
    BY <2>1 DEF NamingFits, AskedFits, NoPost
  <2> QED
    BY <2>3, <2>5, <2>6 DEF Ordered
<1> QED
  BY <1>2, <1>3, <1>4

\* Only the server answers.
LEMMA AnswerStep ==
    ASSUME TypeInv, post.state # "answered" => post.answer = <<>>, [Next]_vars
    PROVE  post'.state # "answered" => post'.answer = <<>>
<1>1. ASSUME NEW q, NEW upTo, NEW last, NEW always, NEW step, Report(q, upTo, last, always, step)
      PROVE  post'.answer = <<>>
  BY <1>1 DEF Report, NoPost
<1>2. ASSUME NEW q, NEW last, Resume(q, last) PROVE post'.answer = <<>>
  <2>1. CASE post' = NoPost
    BY <2>1 DEF NoPost
  <2>2. CASE Handle(q, Head(pipe), last)
    BY <1>1, <2>2 DEF Handle
  <2> QED
    BY <1>2, <2>1, <2>2 DEF Resume
<1>3. CASE Work \/ Fails
  <2>1. CASE BeginHost
    BY <1>1, <2>1 DEF BeginHost
  <2>2. CASE Begin
    BY <1>1, <2>2 DEF Begin, Handle
  <2>3. CASE Check
    BY <1>1, <2>3 DEF Check
  <2>4. CASE Answered \/ Fails
    BY <1>2, <2>4 DEF Answered, Fails
  <2> QED
    BY <1>3, <2>1, <2>2, <2>3, <2>4 DEF Work
<1>4. CASE Receive
  <2>1. post \in Post
    BY OrderTypes
  <2> QED
    BY <1>4, <2>1 DEF Receive, Post
<1>5. CASE BodyLost \/ Reload \/ Crash
  BY <1>5 DEF BodyLost, Reload, Crash, PageGoes, NoPost
<1>6. CASE Member \/ Host \/ ReceiveLate \/ StreamOpens \/ StreamDrops \/ Persist \/ Restore
           \/ RestoreFails \/ Attaching \/ UNCHANGED vars
  <2>1. post' = post
    BY <1>6 DEF Member, Enqueue, Withdraw, Host, RemoveMember, Skip, RemoveAt, ReceiveLate,
                StreamOpens, StreamDrops, Persist, Restore, RestoreFails, Attaching, Attach,
                AttachFails, StreamRefused, StartAgain, Follows, network, vars
  <2> QED
    BY <2>1
<1> QED
  BY <1>3, <1>4, <1>5, <1>6 DEF Next, Trouble, Attaching

\* Every step keeps the invariant.
LEMMA OrderStep == OrderInv /\ [Next]_vars => OrderInv'
<1> SUFFICES ASSUME OrderInv, [Next]_vars PROVE OrderInv'
  OBVIOUS
<1>1. /\ OnceInv' /\ NamedInv' /\ TypeInv /\ TypeInv' /\ NothingForNone
      /\ (post'.state # "answered" => post'.answer = <<>>) /\ Grown(made, made')
  <2>1. OnceInv' /\ NamedInv'
    BY OnceStep, NamedStep DEF OrderInv
  <2>2. TypeInv /\ TypeInv' /\ NothingForNone
    BY <2>1 DEF OrderInv, OnceInv, NamedInv
  <2>3. post'.state # "answered" => post'.answer = <<>>
    BY <2>2, AnswerStep DEF OrderInv
  <2>4. Grown(made, made')
    BY <2>2, MadeStays
  <2> QED
    BY <2>1, <2>2, <2>3, <2>4
<1>2. ASSUME Undisturbed', SongsOnce' PROVE Ordered'
  <2>1. /\ SongsOnce /\ Named /\ Ordered /\ ~\E i \in DOMAIN queue : RemoveAt(i)
    BY <1>1, <1>2, SongsOnceBefore, DisturbedStays DEF OrderInv, NamedInv
  <2>2. ASSUME Work \/ Fails PROVE Ordered'
    BY <1>1, <1>2, <2>1, <2>2, WorkOrdered DEF OrderInv, NamedInv
  <2>3. ASSUME Persist \/ Restore \/ RestoreFails PROVE Ordered'
    BY <1>1, <2>1, <2>3, PlayerOrdered DEF OrderInv
  <2>4. ASSUME Reload \/ Crash PROVE Ordered'
    BY <1>1, <1>2, <2>1, <2>4, PageOrdered
  <2>5. ASSUME Receive PROVE Ordered'
    BY <1>1, <2>1, <2>5, ReceiveOrdered
  <2>6. ASSUME BodyLost PROVE Ordered'
    BY <1>1, <1>2, <2>1, <2>6, BodyLostOrdered
  <2> QED
    BY <1>1, <2>1, <2>2, <2>3, <2>4, <2>5, <2>6, ServerOrdered DEF Next, Host, Trouble, Attaching
<1> QED
  BY <1>1, <1>2 DEF OrderInv

\* Tracks that have names follow each other as they were made.
LEMMA OrderInvImplies == OrderInv => InOrder
<1> SUFFICES ASSUME OrderInv, SongsOnce, Undisturbed,
                    NEW i \in (index + 1)..Len(queue), NEW j \in (index + 1)..Len(queue),
                    i < j, \A n \in i..j : queue[n].by # 0
             PROVE  queue[i].by < queue[j].by
  BY DEF InOrder, Undisturbed
<1>1. queue \in Seq(Track) /\ index \in Nat /\ Ordered /\ Named
  BY OrderTypes DEF OrderInv, OnceInv, NamedInv
<1>2. i \in DOMAIN queue /\ j \in DOMAIN queue
  BY <1>1
<1>3. queue[i].src < queue[j].src
  BY <1>1, <1>2 DEF Ordered, InRuns, Counting
<1>4. ASSUME NEW n \in {i, j} PROVE queue[n].by = queue[n].src
  <2>1. n \in DOMAIN queue /\ queue[n].by # 0
    BY <1>1, <1>2
  <2>2. TrueTrack(queue[n], made)
    BY <1>1, <2>1 DEF Named, AllTrue
  <2> QED
    BY <2>1, <2>2, OwnName DEF TrueTrack
<1> QED
  BY <1>3, <1>4

\* As long as no song is in the party twice, additions that follow each other
\* in the host's queue are in the order made (together.svelte.ts #take,
\* player.svelte.ts queueAddition), whatever was dropped, reloaded, failed or
\* late, and wherever the queue stood when they came; unless the host took a
\* track out, one came twice, or a page went on without its additions named.
THEOREM PlayedInOrder == Spec => []InOrder
<1> QED
  BY OrderInvImplies, InitOrder, OrderStep, PTL DEF Spec

=============================================================================
