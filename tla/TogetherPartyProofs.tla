------------------------ MODULE TogetherPartyProofs ------------------------
(***************************************************************************)
(* The properties of TogetherParty hold whatever the number of accounts,   *)
(* sessions, parties, streams and requests, and whatever the caps.         *)
(***************************************************************************)
EXTENDS TogetherParty, FiniteSetTheorems, TLAPS

-----------------------------------------------------------------------------
(* Types *)

\* A request whose track is looked up brings a session, and knows its party.
RequestFits(r) ==
    request[r].at \in {"admitted", "found"} =>
        request[r].session \in Sessions /\ request[r].party \in Parties

TypeInv == TypeOK /\ \A r \in Requests : RequestFits(r)

\* The records a party, a stream and a request start from and come back to.
LEMMA RestingFits ==
    /\ NoParty \in Party /\ Over \in Party
    /\ Closed \in Stream /\ Idle \in Request
    /\ Over.status = "over" /\ Closed.party = None
BY PartyAssumption DEF NoParty, Over, Party, Closed, Stream, Idle, Request, Viewer

\* Ending parties keeps the types.
LEMMA EndingTypes ==
    ASSUME TypeOK, NEW ps
    PROVE  Ended(ps) \in [Parties -> Party] /\ ClosedOf(ps) \in [Streams -> Stream]
BY RestingFits DEF TypeOK, Ended, ClosedOf

\* A request that is answered, or has moved on.
LEMMA AnsweredTypes ==
    ASSUME TypeInv, NEW r \in Requests, Answered(r)
    PROVE  request' \in [Requests -> Request] /\ \A q \in Requests : RequestFits(q)'
BY RestingFits DEF TypeInv, TypeOK, RequestFits, Answered, Idle

\* The sessions' sets stay what they are when a session is served late.
LEMMA LateTypes ==
    ASSUME TypeInv, NEW s \in Sessions, ServedLate(s), UNCHANGED <<alive, uncut, capped>>
    PROVE  /\ alive' \subseteq Sessions /\ uncut' \subseteq Sessions \ alive'
           /\ capped' \subseteq Sessions \ alive' /\ late' \subseteq Sessions \ alive'
BY DEF TypeInv, TypeOK, ServedLate

\* Nothing is there at first.
LEMMA InitTypes == Init => TypeInv
BY RestingFits DEF Init, TypeInv, TypeOK, RequestFits, Idle

\* What the host's requests do keeps the types.
LEMMA HostingTypes ==
    ASSUME TypeInv, NEW r \in Requests, NEW s \in Viewer, NEW p \in Parties,
           \/ Start(r, s, p) \/ EndParty(r, s) \/ ReportQueue(r, s, p) \/ FindsExpired(r, p)
           \/ \E a \in Accounts : RemoveMember(r, s, p, a)
    PROVE  TypeInv'
<1> USE DEF TypeInv
<1>1. party[p] \in Party
  BY DEF TypeOK
<1>2. CASE Start(r, s, p)
  <2>1. s \in Sessions
    BY <1>2 DEF Start, Viewer
  <2>2. [NoParty EXCEPT !.status = "on", !.host = s] \in Party
    BY <2>1 DEF NoParty, Party, Viewer
  <2>3. party' \in [Parties -> Party] /\ stream' \in [Streams -> Stream]
    BY <1>2, <2>2, EndingTypes DEF Start
  <2> QED
    BY <1>2, <2>1, <2>3, AnsweredTypes, LateTypes DEF Start, TypeOK
<1>3. CASE EndParty(r, s)
  BY <1>3, EndingTypes, AnsweredTypes DEF EndParty, TypeOK
<1>4. CASE FindsExpired(r, p)
  BY <1>4, EndingTypes, AnsweredTypes DEF FindsExpired, TypeOK
<1>5. CASE ReportQueue(r, s, p)
  <2>1. PICK waiting \in [Accounts -> 0..MaxAddedPerMember],
             taken \in [Accounts -> 0..MaxAddedPerMember] :
            party' = [party EXCEPT ![p].waiting = waiting, ![p].taken = taken]
    BY <1>5 DEF ReportQueue
  <2>2. waiting \in [Accounts -> Nat] /\ taken \in [Accounts -> Nat]
    BY PartyAssumption
  <2>3. [party[p] EXCEPT !.waiting = waiting, !.taken = taken] \in Party
    BY <1>1, <2>2 DEF Party
  <2>4. party' \in [Parties -> Party]
    BY <2>1, <2>3 DEF TypeOK
  <2> QED
    BY <1>5, <2>4, AnsweredTypes DEF ReportQueue, TypeOK
<1>6. ASSUME NEW a \in Accounts, RemoveMember(r, s, p, a)
      PROVE  TypeInv'
  <2>1. [party[p] EXCEPT !.members = @ \ {a}, !.removed = @ \cup {a}, !.waiting[a] = 0] \in Party
    BY <1>1 DEF Party
  <2>2. party' \in [Parties -> Party]
    BY <1>6, <2>1 DEF RemoveMember, TypeOK
  <2>3. stream' \in [Streams -> Stream]
    BY <1>6, RestingFits DEF RemoveMember, TypeOK
  <2> QED
    BY <1>6, <2>2, <2>3, AnsweredTypes DEF RemoveMember, TypeOK
<1> QED
  BY <1>2, <1>3, <1>4, <1>5, <1>6

\* What the listeners' requests do keeps the types.
LEMMA ListeningTypes ==
    ASSUME TypeInv, NEW r \in Requests, NEW s \in Viewer, NEW p \in Parties,
           \/ \E g \in Streams : \/ \E address \in Addresses : Listen(r, s, p, g, address)
                                 \/ Join(r, s, p, g)
           \/ Admit(r, s, p) \/ Withdraw(r, s, p)
    PROVE  TypeInv'
<1> USE DEF TypeInv
<1>1. party[p] \in Party /\ request[r] \in Request
  BY DEF TypeOK
<1>2. s # None => s \in Sessions /\ Account[s] \in Accounts
  BY PartyAssumption DEF Viewer
<1>3. ASSUME NEW g \in Streams, NEW address \in Addresses, Listen(r, s, p, g, address)
      PROVE  TypeInv'
  <2>1. Source(p, s, address) \in Accounts \cup Public \cup {None}
    BY <1>2 DEF Source
  <2>2. stream' \in [Streams -> Stream]
    BY <1>2, <1>3, <2>1 DEF Listen, TypeOK, Stream, Viewer
  <2> QED
    BY <1>3, <2>2, AnsweredTypes DEF Listen, TypeOK
<1>4. ASSUME NEW g \in Streams, Join(r, s, p, g)
      PROVE  TypeInv'
  <2>1. s \in Sessions /\ Account[s] \in Accounts
    BY <1>2, <1>4 DEF Join, Opened
  <2>2. [party[p] EXCEPT !.members = @ \cup {Account[s]}] \in Party
    BY <1>1, <2>1 DEF Party
  <2>3. party' \in [Parties -> Party]
    BY <1>4, <2>2 DEF Join, TypeOK
  <2>4. \A st \in Stream : [st EXCEPT !.member = Account[s], !.session = s] \in Stream
    BY <2>1 DEF Stream, Viewer
  <2>5. stream' = [stream EXCEPT ![g] = [stream[g] EXCEPT !.member = Account[s], !.session = s]]
    BY <1>4 DEF Join, TypeOK
  <2>6. stream' \in [Streams -> Stream]
    BY <2>4, <2>5 DEF TypeOK
  <2> QED
    BY <1>4, <2>1, <2>3, <2>6, AnsweredTypes, LateTypes DEF Join, TypeOK
<1>5. CASE Admit(r, s, p)
  <2>1. s \in Sessions /\ Account[s] \in Accounts
    BY <1>2, <1>5 DEF Admit, Member, Standing
  <2>2. party' \in [Parties -> Party]
    BY <1>1, <1>5, <2>1 DEF Admit, TypeOK, Party
  <2>3. request' \in [Requests -> Request] /\ \A q \in Requests : RequestFits(q)'
    <3>1. CASE Answered(r)
      BY <3>1, AnsweredTypes
    <3>2. CASE request' = [request EXCEPT ![r].at = "admitted", ![r].party = p]
      BY <1>1, <1>5, <2>1, <3>2 DEF Admit, Served, TypeOK, RequestFits, Request
    <3> QED
      BY <1>5, <3>1, <3>2 DEF Admit
  <2> QED
    BY <1>5, <2>2, <2>3 DEF Admit, TypeOK
<1>6. CASE Withdraw(r, s, p)
  <2>1. Account[s] \in Accounts
    BY <1>2, <1>6 DEF Withdraw
  <2>2. party[p].waiting[Account[s]] - 1 \in Nat
    BY <1>1, <1>6, <2>1 DEF Withdraw, Waits, Party
  <2>3. party' \in [Parties -> Party]
    BY <1>1, <1>6, <2>1, <2>2 DEF Withdraw, TypeOK, Party
  <2> QED
    BY <1>6, <2>3, AnsweredTypes DEF Withdraw, TypeOK
<1> QED
  BY <1>3, <1>4, <1>5, <1>6

\* A request that arrives, is looked up, or adds its track keeps the types.
LEMMA AddingTypes ==
    ASSUME TypeInv, NEW r \in Requests,
           (\E s \in Viewer : Arrive(r, s)) \/ FindHost(r) \/ Enqueue(r) \/ Refused(r)
    PROVE  TypeInv'
<1> USE DEF TypeInv
<1>1. request[r] \in Request
  BY DEF TypeOK
<1>2. ASSUME NEW s \in Viewer, Arrive(r, s)
      PROVE  TypeInv'
  BY <1>2 DEF Arrive, TypeOK, Request, RequestFits
<1>3. CASE FindHost(r)
  BY <1>1, <1>3 DEF FindHost, TypeOK, Request, RequestFits
<1>4. CASE Enqueue(r)
  <2> DEFINE p == request[r].party
             a == Account[request[r].session]
  <2>1. p \in Parties /\ a \in Accounts
    BY <1>4, PartyAssumption DEF Enqueue, RequestFits
  <2>2. party[p] \in Party
    BY <2>1 DEF TypeOK
  <2>3. party' = [party EXCEPT ![p].waiting[a] = @ + 1]
    BY <1>4 DEF Enqueue
  <2>4. [party[p] EXCEPT !.waiting[a] = @ + 1] \in Party
    <3> DEFINE waiting == party[p].waiting
    <3>1. waiting \in [Accounts -> Nat]
      BY <2>2 DEF Party
    <3>2. [waiting EXCEPT ![a] = @ + 1] \in [Accounts -> Nat]
      <4> HIDE DEF waiting, a
      <4> QED
        BY <2>1, <3>1
    <3> QED
      BY <2>2, <3>2 DEF Party
  <2>5. party' \in [Parties -> Party]
    BY <2>1, <2>3, <2>4 DEF TypeOK
  <2> QED
    BY <1>4, <2>5, AnsweredTypes DEF Enqueue, TypeOK
<1>5. CASE Refused(r)
  BY <1>5, AnsweredTypes DEF Refused, TypeOK
<1> QED
  BY <1>2, <1>3, <1>4, <1>5

\* Streams that close, time, and sessions that end keep the types.
LEMMA EndingSessionsTypes ==
    ASSUME TypeInv,
           \/ \E g \in Streams : Leave(g)
           \/ \E p \in Parties : Expire(p) \/ \E a \in Accounts : Cool(p, a)
           \/ \E s \in Sessions : EndSession(s) \/ Cut(s) \/ CapSession(s)
    PROVE  TypeInv'
<1> USE DEF TypeInv
<1>1. ASSUME NEW g \in Streams, Leave(g)
      PROVE  TypeInv'
  BY <1>1, RestingFits DEF Leave, TypeOK, RequestFits
<1>2. ASSUME NEW p \in Parties, Expire(p) \/ \E a \in Accounts : Cool(p, a)
      PROVE  TypeInv'
  <2>1. party[p] \in Party
    BY DEF TypeOK
  <2>2. [party[p] EXCEPT !.expired = TRUE] \in Party
    BY <2>1 DEF Party
  <2>3. \A a \in Accounts : [party[p] EXCEPT !.cooling = @ \ {a}] \in Party
    BY <2>1 DEF Party
  <2>4. party' \in [Parties -> Party]
    BY <1>2, <2>2, <2>3 DEF Expire, Cool, TypeOK
  <2> QED
    BY <1>2, <2>4 DEF Expire, Cool, TypeOK, RequestFits
<1>3. ASSUME NEW s \in Sessions, EndSession(s) \/ CapSession(s)
      PROVE  TypeInv'
  BY <1>3 DEF EndSession, CapSession, MayEnd, TypeOK, RequestFits
<1>4. ASSUME NEW s \in Sessions, Cut(s)
      PROVE  TypeInv'
  <2>1. \A st \in Stream : Nameless(st, s) \in Stream
    BY DEF Nameless, Stream, Viewer
  <2>2. party' \in [Parties -> Party] /\ stream' \in [Streams -> Stream]
    BY <1>4, <2>1, EndingTypes DEF Cut
  <2> QED
    BY <1>4, <2>2 DEF Cut, TypeOK, RequestFits
<1> QED
  BY <1>1, <1>2, <1>3, <1>4

\* Every step keeps the types.
LEMMA StepTypes == TypeInv /\ [Next]_vars => TypeInv'
<1> SUFFICES ASSUME TypeInv, [Next]_vars PROVE TypeInv'
  OBVIOUS
<1>1. CASE UNCHANGED vars
  BY <1>1 DEF vars, TypeInv, TypeOK, RequestFits
<1>2. CASE Next
  <2>1. ASSUME NEW r \in Requests, NEW p \in Parties, FindsExpired(r, p)
        PROVE  TypeInv'
    <3>1. None \in Viewer
      BY DEF Viewer
    <3> QED
      BY <2>1, <3>1, HostingTypes
  <2>2. ASSUME NEW r \in Requests, NEW s \in Viewer, EndParty(r, s)
        PROVE  TypeInv'
    <3>1. PICK p \in Parties : p \in Hosted(s)
      BY <2>2 DEF EndParty, Hosted, Held
    <3> QED
      BY <2>2, HostingTypes
  <2>3. ASSUME NEW r \in Requests, Hosting(r)
        PROVE  TypeInv'
    BY <2>3, HostingTypes DEF Hosting
  <2>4. ASSUME NEW r \in Requests, Listening(r)
        PROVE  TypeInv'
    BY <2>4, ListeningTypes DEF Listening
  <2> QED
    BY <1>2, <2>1, <2>2, <2>3, <2>4, AddingTypes, EndingSessionsTypes DEF Next
<1> QED
  BY <1>1, <1>2

\* The parties, streams and requests are what the code takes them for: no
\* addition counts below zero, and a party's members are accounts.
THEOREM TypeCorrect == Spec => []TypeOK
<1>1. TypeInv => TypeOK
  BY DEF TypeInv
<1> QED
  BY <1>1, InitTypes, StepTypes, PTL DEF Spec
-----------------------------------------------------------------------------
(* The inductive invariant *)

\* A stream listens to a party in memory.
StreamsHeld == \A g \in Streams : stream[g].party # None => stream[g].party \in Held

\* A stream that counts for an account was opened by it.
SourcesTrue == \A g \in Streams : stream[g].source \in Accounts =>
                                     stream[g].account = stream[g].source


\* Time changes neither who is in a party nor what it holds.
LEMMA ClockChanges ==
    ASSUME TypeInv, NEW p \in Parties, Expire(p) \/ \E a \in Accounts : Cool(p, a)
    PROVE  /\ stream' = stream
           /\ \A q \in Parties : /\ party'[q].status = party[q].status
                                 /\ party'[q].host = party[q].host
                                 /\ party'[q].members = party[q].members
                                 /\ party'[q].removed = party[q].removed
                                 /\ party'[q].waiting = party[q].waiting
<1>1. party \in [Parties -> Party]
  BY DEF TypeInv, TypeOK
<1>2. CASE Expire(p)
  BY <1>1, <1>2 DEF Expire, Party
<1>3. ASSUME NEW a \in Accounts, Cool(p, a)
      PROVE  /\ stream' = stream
             /\ party' = [party EXCEPT ![p].cooling = @ \ {a}]
  BY <1>3 DEF Cool
<1>4. ASSUME NEW a \in Accounts, Cool(p, a)
      PROVE  \A q \in Parties : /\ party'[q].status = party[q].status
                                 /\ party'[q].host = party[q].host
                                 /\ party'[q].members = party[q].members
                                 /\ party'[q].removed = party[q].removed
                                 /\ party'[q].waiting = party[q].waiting
  <2>1. party' = [party EXCEPT ![p].cooling = @ \ {a}]
    BY <1>3, <1>4
  <2>2. \A q \in Parties \ {p} : party'[q] = party[q]
    BY <1>1, <2>1
  <2>3. party[p] \in Party /\ party'[p] = [party[p] EXCEPT !.cooling = @ \ {a}]
    BY <1>1, <2>1
  <2> QED
    BY <2>2, <2>3 DEF Party
<1> QED
  BY <1>2, <1>3, <1>4

\* What a cut leaves of a stream: nothing, or all but the names of the session.
LEMMA CutLeaves ==
    ASSUME TypeInv, NEW s \in Sessions, Cut(s), NEW g \in Streams
    PROVE  \/ stream'[g] = Closed
           \/ /\ stream[g].party \notin EndedBy(s)
              /\ stream'[g].party = stream[g].party /\ stream'[g].host = stream[g].host
              /\ stream'[g].source = stream[g].source /\ stream'[g].account = stream[g].account
              /\ stream'[g].member \in {stream[g].member, None}
              /\ stream'[g].session # s /\ stream'[g].session \in {stream[g].session, None}
<1>1. stream[g] \in Stream /\ s # None
  BY PartyAssumption DEF TypeInv, TypeOK
<1>2. stream'[g] = Nameless(ClosedOf(EndedBy(s))[g], s)
  BY DEF Cut
<1>3. Nameless(Closed, s) = Closed
  BY <1>1 DEF Nameless, Closed
<1>4. CASE stream[g].party \in EndedBy(s)
  BY <1>2, <1>3, <1>4 DEF ClosedOf
<1>5. CASE stream[g].party \notin EndedBy(s)
  <2>1. stream'[g] = Nameless(stream[g], s)
    BY <1>2, <1>5 DEF ClosedOf
  <2> QED
    BY <1>1, <1>5, <2>1 DEF Nameless, Stream
<1> QED
  BY <1>4, <1>5

\* Sessions that were there, or are accounted for.
Accounted == alive \cup uncut \cup capped \cup late

\* A session is forgotten in one way: by being cut.
LEMMA AccountedFor ==
    ASSUME TypeInv, [Next]_vars
    PROVE  \A s \in Accounted : s \in Accounted' \/ Cut(s)
<1>1. CASE UNCHANGED <<alive, uncut, capped, late>>
  BY <1>1 DEF Accounted
<1>2. ASSUME NEW s \in Sessions, EndSession(s) \/ CapSession(s) \/ Cut(s)
      PROVE  \A q \in Accounted : q \in Accounted' \/ Cut(q)
  BY <1>2 DEF Accounted, EndSession, CapSession, Cut
<1>3. ASSUME NEW s \in Viewer, ServedLate(s), UNCHANGED <<alive, uncut, capped>>
      PROVE  Accounted \subseteq Accounted'
  BY <1>3 DEF ServedLate, Accounted
<1>4. ASSUME NEW r \in Requests, NEW s \in Viewer, NEW p \in Parties,
             Start(r, s, p) \/ \E g \in Streams : Join(r, s, p, g)
      PROVE  \A q \in Accounted : q \in Accounted' \/ Cut(q)
  BY <1>3, <1>4 DEF Start, Join
<1>5. ASSUME NEW r \in Requests, NEW s \in Viewer, NEW p \in Parties,
             \/ ReportQueue(r, s, p) \/ \E a \in Accounts : RemoveMember(r, s, p, a)
             \/ \E g \in Streams, address \in Addresses : Listen(r, s, p, g, address)
             \/ Admit(r, s, p) \/ Withdraw(r, s, p)
      PROVE  UNCHANGED <<alive, uncut, capped, late>>
  BY <1>5 DEF ReportQueue, RemoveMember, Listen, Admit, Withdraw
<1>6. CASE UNCHANGED vars
  BY <1>1, <1>6 DEF vars
<1>7. ASSUME NEW r \in Requests,
             \/ \E s \in Viewer : Arrive(r, s) \/ EndParty(r, s)
             \/ FindHost(r) \/ Enqueue(r) \/ Refused(r)
             \/ \E p \in Parties : FindsExpired(r, p)
      PROVE  \A q \in Accounted : q \in Accounted' \/ Cut(q)
  BY <1>1, <1>7 DEF Arrive, EndParty, FindHost, Enqueue, Refused, FindsExpired
<1>8. ASSUME \/ \E g \in Streams : Leave(g)
             \/ \E p \in Parties : Expire(p) \/ \E a \in Accounts : Cool(p, a)
      PROVE  \A q \in Accounted : q \in Accounted' \/ Cut(q)
  BY <1>1, <1>8 DEF Leave, Expire, Cool
<1> QED
  BY <1>1, <1>2, <1>4, <1>5, <1>6, <1>7, <1>8 DEF Next, Hosting, Listening


\* A party that goes takes its streams with it, and a stream opens to one in memory.
LEMMA StreamsHeldStep ==
    ASSUME TypeInv, StreamsHeld, [Next]_vars
    PROVE  StreamsHeld'
<1>1. ASSUME NEW r \in Requests, NEW s \in Viewer, NEW p \in Parties, Start(r, s, p)
      PROVE  StreamsHeld'
  BY <1>1, RestingFits DEF Start, StreamsHeld, Held, Hosted, TypeInv, TypeOK, Ended, ClosedOf
<1>2. ASSUME NEW r \in Requests, NEW s \in Viewer, NEW p \in Parties, ReportQueue(r, s, p)
      PROVE  StreamsHeld'
  BY <1>2 DEF ReportQueue, StreamsHeld, Held, TypeInv, TypeOK, Ended, ClosedOf, Closed
<1>3. ASSUME NEW r \in Requests, NEW s \in Viewer, NEW p \in Parties, NEW a \in Accounts, RemoveMember(r, s, p, a)
      PROVE  StreamsHeld'
  BY <1>3 DEF RemoveMember, StreamsHeld, Held, TypeInv, TypeOK, Ended, ClosedOf, Closed
<1>4. ASSUME NEW r \in Requests, NEW s \in Viewer, EndParty(r, s)
      PROVE  StreamsHeld'
  BY <1>4, RestingFits DEF EndParty, StreamsHeld, Held, Hosted, TypeInv, TypeOK, Ended, ClosedOf
<1>5. ASSUME NEW r \in Requests, NEW p \in Parties, FindsExpired(r, p)
      PROVE  StreamsHeld'
  BY <1>5, RestingFits DEF FindsExpired, StreamsHeld, Held, TypeInv, TypeOK, Ended, ClosedOf
<1>6. ASSUME NEW r \in Requests, NEW s \in Viewer, NEW p \in Parties, NEW g \in Streams, NEW address \in Addresses,
             Listen(r, s, p, g, address)
      PROVE  StreamsHeld'
  BY <1>6 DEF Listen, StreamsHeld, Held, Live, TypeInv, TypeOK
<1>7. ASSUME NEW r \in Requests, NEW s \in Viewer, NEW p \in Parties, NEW g \in Streams, Join(r, s, p, g)
      PROVE  StreamsHeld'
  BY <1>7 DEF Join, StreamsHeld, Held, TypeInv, TypeOK, Ended, ClosedOf, Closed
<1>8. ASSUME NEW r \in Requests, NEW s \in Viewer, NEW p \in Parties, Admit(r, s, p)
      PROVE  StreamsHeld'
  BY <1>8 DEF Admit, StreamsHeld, Held, TypeInv, TypeOK, Ended, ClosedOf, Closed
<1>9. ASSUME NEW r \in Requests, NEW s \in Viewer, NEW p \in Parties, Withdraw(r, s, p)
      PROVE  StreamsHeld'
  BY <1>9 DEF Withdraw, StreamsHeld, Held, TypeInv, TypeOK, Ended, ClosedOf, Closed
<1>10. ASSUME NEW r \in Requests, Enqueue(r)
      PROVE  StreamsHeld'
  BY <1>10 DEF Enqueue, StreamsHeld, Held, TypeInv, TypeOK, Ended, ClosedOf, Closed
<1>11. ASSUME NEW g \in Streams, Leave(g)
      PROVE  StreamsHeld'
  BY <1>11 DEF Leave, StreamsHeld, Held, TypeInv, TypeOK, Ended, ClosedOf, Closed
<1>12. ASSUME NEW p \in Parties, Expire(p) \/ \E a \in Accounts : Cool(p, a)
      PROVE  StreamsHeld'
  BY <1>12, ClockChanges DEF StreamsHeld, Held
<1>13. ASSUME NEW s \in Sessions, Cut(s)
      PROVE  StreamsHeld'
  BY <1>13, RestingFits DEF Cut, EndedBy, StreamsHeld, Held, Hosted, TypeInv, TypeOK, Ended,
     ClosedOf, Nameless, Stream
<1>14. ASSUME UNCHANGED <<party, stream>>
      PROVE  StreamsHeld'
  BY <1>14 DEF StreamsHeld, Held, TypeInv, TypeOK, Ended, ClosedOf, Closed
<1>15. CASE UNCHANGED vars
  BY <1>15, <1>14 DEF vars
<1> QED
  BY <1>1, <1>2, <1>3, <1>4, <1>5, <1>6, <1>7, <1>8, <1>9, <1>10, <1>11, <1>12, <1>13, <1>14,
     <1>15 DEF Next, Hosting, Listening, Arrive, FindHost, Refused, EndSession, CapSession

\* Only opening a stream says whom it counts for.
LEMMA SourcesTrueStep ==
    ASSUME TypeInv, SourcesTrue, [Next]_vars
    PROVE  SourcesTrue'
<1>1. ASSUME NEW r \in Requests, NEW s \in Viewer, NEW p \in Parties, Start(r, s, p)
      PROVE  SourcesTrue'
  BY <1>1, PartyAssumption DEF Start, SourcesTrue, TypeInv, TypeOK, ClosedOf, Closed
<1>2. ASSUME NEW r \in Requests, NEW s \in Viewer, NEW p \in Parties, ReportQueue(r, s, p)
      PROVE  SourcesTrue'
  BY <1>2, PartyAssumption DEF ReportQueue, SourcesTrue, TypeInv, TypeOK, ClosedOf, Closed
<1>3. ASSUME NEW r \in Requests, NEW s \in Viewer, NEW p \in Parties, NEW a \in Accounts, RemoveMember(r, s, p, a)
      PROVE  SourcesTrue'
  BY <1>3, PartyAssumption DEF RemoveMember, SourcesTrue, TypeInv, TypeOK, ClosedOf, Closed
<1>4. ASSUME NEW r \in Requests, NEW s \in Viewer, EndParty(r, s)
      PROVE  SourcesTrue'
  BY <1>4, PartyAssumption DEF EndParty, SourcesTrue, TypeInv, TypeOK, ClosedOf, Closed
<1>5. ASSUME NEW r \in Requests, NEW p \in Parties, FindsExpired(r, p)
      PROVE  SourcesTrue'
  BY <1>5, PartyAssumption DEF FindsExpired, SourcesTrue, TypeInv, TypeOK, ClosedOf, Closed
<1>6. ASSUME NEW r \in Requests, NEW s \in Viewer, NEW p \in Parties, NEW g \in Streams, NEW address \in Addresses,
             Listen(r, s, p, g, address)
      PROVE  SourcesTrue'
  BY <1>6, PartyAssumption DEF Listen, SourcesTrue, Source, Addresses, TypeInv, TypeOK
<1>7. ASSUME NEW r \in Requests, NEW s \in Viewer, NEW p \in Parties, NEW g \in Streams, Join(r, s, p, g)
      PROVE  SourcesTrue'
  BY <1>7, PartyAssumption DEF Join, SourcesTrue, TypeInv, TypeOK, ClosedOf, Closed
<1>8. ASSUME NEW r \in Requests, NEW s \in Viewer, NEW p \in Parties, Admit(r, s, p)
      PROVE  SourcesTrue'
  BY <1>8, PartyAssumption DEF Admit, SourcesTrue, TypeInv, TypeOK, ClosedOf, Closed
<1>9. ASSUME NEW r \in Requests, NEW s \in Viewer, NEW p \in Parties, Withdraw(r, s, p)
      PROVE  SourcesTrue'
  BY <1>9, PartyAssumption DEF Withdraw, SourcesTrue, TypeInv, TypeOK, ClosedOf, Closed
<1>10. ASSUME NEW r \in Requests, Enqueue(r)
      PROVE  SourcesTrue'
  BY <1>10, PartyAssumption DEF Enqueue, SourcesTrue, TypeInv, TypeOK, ClosedOf, Closed
<1>11. ASSUME NEW g \in Streams, Leave(g)
      PROVE  SourcesTrue'
  BY <1>11, PartyAssumption DEF Leave, SourcesTrue, TypeInv, TypeOK, ClosedOf, Closed
<1>12. ASSUME NEW p \in Parties, Expire(p) \/ \E a \in Accounts : Cool(p, a)
      PROVE  SourcesTrue'
  BY <1>12, PartyAssumption DEF Expire, Cool, SourcesTrue, TypeInv, TypeOK, ClosedOf, Closed
<1>13. ASSUME NEW s \in Sessions, Cut(s)
      PROVE  SourcesTrue'
  BY <1>13, CutLeaves, PartyAssumption DEF SourcesTrue, Closed
<1>14. ASSUME UNCHANGED <<party, stream>>
      PROVE  SourcesTrue'
  BY <1>14, PartyAssumption DEF SourcesTrue, TypeInv, TypeOK, ClosedOf, Closed
<1>15. CASE UNCHANGED vars
  BY <1>15, <1>14 DEF vars
<1> QED
  BY <1>1, <1>2, <1>3, <1>4, <1>5, <1>6, <1>7, <1>8, <1>9, <1>10, <1>11, <1>12, <1>13, <1>14,
     <1>15 DEF Next, Hosting, Listening, Arrive, FindHost, Refused, EndSession, CapSession

\* A removed account stays out: what a request waited for is looked at again.
LEMMA RemovedStep ==
    ASSUME TypeInv, RemovedStaysOut, [Next]_vars
    PROVE  RemovedStaysOut'
<1>1. ASSUME NEW r \in Requests, NEW s \in Viewer, NEW p \in Parties, Start(r, s, p)
      PROVE  RemovedStaysOut'
  BY <1>1, PartyAssumption DEF Start, RemovedStaysOut, Held, ListenersOf, TypeInv, TypeOK,
     Ended, ClosedOf, Over, NoParty, Closed
<1>2. ASSUME NEW r \in Requests, NEW s \in Viewer, NEW p \in Parties, ReportQueue(r, s, p)
      PROVE  RemovedStaysOut'
  BY <1>2, PartyAssumption DEF ReportQueue, RemovedStaysOut, Held, ListenersOf, TypeInv,
     TypeOK, Party
<1>3. ASSUME NEW r \in Requests, NEW s \in Viewer, NEW p \in Parties, NEW a \in Accounts, RemoveMember(r, s, p, a)
      PROVE  RemovedStaysOut'
  BY <1>3, PartyAssumption DEF RemoveMember, StreamsRemoved, RemovedStaysOut, Held,
     ListenersOf, TypeInv, TypeOK, Party, Closed
<1>4. ASSUME NEW r \in Requests, NEW s \in Viewer, EndParty(r, s)
      PROVE  RemovedStaysOut'
  BY <1>4, PartyAssumption DEF EndParty, RemovedStaysOut, Held, ListenersOf, TypeInv, TypeOK,
     Ended, ClosedOf, Over, NoParty, Closed
<1>5. ASSUME NEW r \in Requests, NEW p \in Parties, FindsExpired(r, p)
      PROVE  RemovedStaysOut'
  BY <1>5, PartyAssumption DEF FindsExpired, RemovedStaysOut, Held, ListenersOf, TypeInv,
     TypeOK, Ended, ClosedOf, Over, NoParty, Closed
<1>6. ASSUME NEW r \in Requests, NEW s \in Viewer, NEW p \in Parties, NEW g \in Streams, NEW address \in Addresses,
             Listen(r, s, p, g, address)
      PROVE  RemovedStaysOut'
  <2>1. party' = party /\ stream[g] = Closed /\ p \in Parties
        /\ \A h \in Streams : h # g => stream'[h] = stream[h]
    BY <1>6 DEF Listen, TypeInv, TypeOK
  <2>2. stream'[g].party = p /\ stream'[g].account = (IF s = None THEN None ELSE Account[s])
        /\ stream'[g].host = (Standing(p, s) = "host")
    BY <1>6 DEF Listen, TypeInv, TypeOK
  <2>3. \A a \in party[p].removed : a # None
    BY PartyAssumption DEF TypeInv, TypeOK, Party
  <2>4. s # None /\ Account[s] \in party[p].removed => Standing(p, s) = "host"
    BY <1>6 DEF Listen, Standing
  <2>5. ASSUME NEW q \in Held, NEW a \in party[q].removed, NEW h \in Streams,
               stream'[h].party = q, stream'[h].account = a
        PROVE  stream'[h].host
    BY <2>1, <2>2, <2>3, <2>4, <2>5, ZenonT(40) DEF RemovedStaysOut, Held, ListenersOf
  <2> QED
    BY <2>1, <2>5 DEF RemovedStaysOut, Held, ListenersOf
<1>7. ASSUME NEW r \in Requests, NEW s \in Viewer, NEW p \in Parties, NEW g \in Streams, Join(r, s, p, g)
      PROVE  RemovedStaysOut'
  BY <1>7, PartyAssumption DEF Join, Opened, Standing, RemovedStaysOut, Held, Live,
     ListenersOf, TypeInv, TypeOK, Party, Stream
<1>8. ASSUME NEW r \in Requests, NEW s \in Viewer, NEW p \in Parties, Admit(r, s, p)
      PROVE  RemovedStaysOut'
  BY <1>8 DEF Admit, RemovedStaysOut, Held, ListenersOf, TypeInv, TypeOK
<1>9. ASSUME NEW r \in Requests, NEW s \in Viewer, NEW p \in Parties, Withdraw(r, s, p)
      PROVE  RemovedStaysOut'
  BY <1>9, PartyAssumption DEF Withdraw, Standing, RemovedStaysOut, Held, Live, ListenersOf,
     TypeInv, TypeOK, Party
<1>10. ASSUME NEW r \in Requests, Enqueue(r)
      PROVE  RemovedStaysOut'
  BY <1>10, PartyAssumption, SMTT(30) DEF Enqueue, Member, Standing, RemovedStaysOut, Held, Live,
     ListenersOf, TypeInv, TypeOK, Party, RequestFits
<1>11. ASSUME NEW g \in Streams, Leave(g)
      PROVE  RemovedStaysOut'
  BY <1>11, PartyAssumption DEF Leave, RemovedStaysOut, Held, ListenersOf, TypeInv, TypeOK,
     Closed
<1>12. ASSUME NEW p \in Parties, Expire(p) \/ \E a \in Accounts : Cool(p, a)
      PROVE  RemovedStaysOut'
  BY <1>12, ClockChanges DEF RemovedStaysOut, Held, ListenersOf
<1>13. ASSUME NEW s \in Sessions, Cut(s)
      PROVE  RemovedStaysOut'
  <2>1. \A p \in Held' : p \in Held /\ party'[p] = party[p]
    BY <1>13 DEF Cut, Held, Ended, Over
  <2>2. \A p \in Held', g \in Streams : stream'[g].party = p =>
            /\ stream[g].party = p /\ stream'[g].account = stream[g].account
            /\ stream'[g].host = stream[g].host
    BY <1>13, CutLeaves, PartyAssumption DEF Closed, Held
  <2> QED
    BY <2>1, <2>2 DEF RemovedStaysOut, ListenersOf
<1>14. ASSUME UNCHANGED <<party, stream>>
      PROVE  RemovedStaysOut'
  BY <1>14 DEF RemovedStaysOut, Held, ListenersOf, TypeInv, TypeOK
<1>15. CASE UNCHANGED vars
  BY <1>15, <1>14 DEF vars
<1> QED
  BY <1>1, <1>2, <1>3, <1>4, <1>5, <1>6, <1>7, <1>8, <1>9, <1>10, <1>11, <1>12, <1>13, <1>14,
     <1>15 DEF Next, Hosting, Listening, Arrive, FindHost, Refused, EndSession, CapSession

\* A stream is named by its own account, while that is a member.
LEMMA NamesStep ==
    ASSUME TypeInv, StreamsHeld, NamesAreTheirs, [Next]_vars
    PROVE  NamesAreTheirs'
<1>1. ASSUME NEW r \in Requests, NEW s \in Viewer, NEW p \in Parties, Start(r, s, p)
      PROVE  NamesAreTheirs'
  BY <1>1, PartyAssumption DEF Start, StreamsHeld, NamesAreTheirs, Held, ListenersOf, TypeInv,
     TypeOK, Ended, ClosedOf, Over, NoParty, Closed
<1>2. ASSUME NEW r \in Requests, NEW s \in Viewer, NEW p \in Parties, ReportQueue(r, s, p)
      PROVE  NamesAreTheirs'
  BY <1>2 DEF ReportQueue, NamesAreTheirs, Held, ListenersOf, TypeInv, TypeOK
<1>3. ASSUME NEW r \in Requests, NEW s \in Viewer, NEW p \in Parties, NEW a \in Accounts, RemoveMember(r, s, p, a)
      PROVE  NamesAreTheirs'
  BY <1>3, PartyAssumption DEF RemoveMember, StreamsRemoved, NamesAreTheirs, Held, ListenersOf,
     TypeInv, TypeOK, Party, Closed
<1>4. ASSUME NEW r \in Requests, NEW s \in Viewer, EndParty(r, s)
      PROVE  NamesAreTheirs'
  BY <1>4, PartyAssumption DEF EndParty, NamesAreTheirs, Held, ListenersOf, TypeInv, TypeOK,
     Ended, ClosedOf, Over, NoParty, Closed
<1>5. ASSUME NEW r \in Requests, NEW p \in Parties, FindsExpired(r, p)
      PROVE  NamesAreTheirs'
  BY <1>5, PartyAssumption DEF FindsExpired, NamesAreTheirs, Held, ListenersOf, TypeInv,
     TypeOK, Ended, ClosedOf, Over, NoParty, Closed
<1>6. ASSUME NEW r \in Requests, NEW s \in Viewer, NEW p \in Parties, NEW g \in Streams, NEW address \in Addresses,
             Listen(r, s, p, g, address)
      PROVE  NamesAreTheirs'
  BY <1>6 DEF Listen, NamesAreTheirs, Held, ListenersOf, TypeInv, TypeOK
<1>7. ASSUME NEW r \in Requests, NEW s \in Viewer, NEW p \in Parties, NEW g \in Streams, Join(r, s, p, g)
      PROVE  NamesAreTheirs'
  BY <1>7, PartyAssumption DEF Join, Opened, NamesAreTheirs, Held, Live, ListenersOf, TypeInv,
     TypeOK, Party, Stream
<1>8. ASSUME NEW r \in Requests, NEW s \in Viewer, NEW p \in Parties, Admit(r, s, p)
      PROVE  NamesAreTheirs'
  BY <1>8 DEF Admit, NamesAreTheirs, Held, ListenersOf, TypeInv, TypeOK
<1>9. ASSUME NEW r \in Requests, NEW s \in Viewer, NEW p \in Parties, Withdraw(r, s, p)
      PROVE  NamesAreTheirs'
  BY <1>9 DEF Withdraw, NamesAreTheirs, Held, ListenersOf, TypeInv, TypeOK
<1>10. ASSUME NEW r \in Requests, Enqueue(r)
      PROVE  NamesAreTheirs'
  BY <1>10 DEF Enqueue, NamesAreTheirs, Held, ListenersOf, TypeInv, TypeOK
<1>11. ASSUME NEW g \in Streams, Leave(g)
      PROVE  NamesAreTheirs'
  BY <1>11, PartyAssumption DEF Leave, NamesAreTheirs, Held, ListenersOf, TypeInv, TypeOK,
     Closed
<1>12. ASSUME NEW p \in Parties, Expire(p) \/ \E a \in Accounts : Cool(p, a)
      PROVE  NamesAreTheirs'
  BY <1>12, ClockChanges DEF NamesAreTheirs, Held, ListenersOf
<1>13. ASSUME NEW s \in Sessions, Cut(s)
      PROVE  NamesAreTheirs'
  BY <1>13, PartyAssumption, ZenonT(40) DEF Cut, NamesAreTheirs, Held, ListenersOf, TypeInv, TypeOK, Ended,
     ClosedOf, Over, NoParty, Closed, Nameless, Stream
<1>14. ASSUME UNCHANGED <<party, stream>>
      PROVE  NamesAreTheirs'
  BY <1>14 DEF NamesAreTheirs, Held, ListenersOf, TypeInv, TypeOK
<1>15. CASE UNCHANGED vars
  BY <1>15, <1>14 DEF vars
<1> QED
  BY <1>1, <1>2, <1>3, <1>4, <1>5, <1>6, <1>7, <1>8, <1>9, <1>10, <1>11, <1>12, <1>13, <1>14,
     <1>15 DEF Next, Hosting, Listening, Arrive, FindHost, Refused, EndSession, CapSession

\* A name goes with its session.
LEMMA NamesLeaveStep ==
    ASSUME TypeInv, NamesLeave, [Next]_vars
    PROVE  NamesLeave'
<1>1. \A g \in Streams : stream'[g].session # None => stream'[g].session \in Accounted'
  <2> SUFFICES ASSUME NEW g \in Streams, stream'[g].session # None
               PROVE  stream'[g].session \in Accounted'
    OBVIOUS
  <2>1. CASE stream'[g].session = stream[g].session
    <3> DEFINE s == stream[g].session
    <3>1. s \in Accounted /\ s \in Sessions
      BY <2>1 DEF NamesLeave, Accounted, TypeInv, TypeOK, Stream, Viewer
    <3>2. CASE Cut(s)
      BY <2>1, <3>1, <3>2, CutLeaves DEF Closed
    <3> QED
      BY <2>1, <3>1, <3>2, AccountedFor
  <2>2. CASE stream'[g].session # stream[g].session
    <3> DEFINE Joins == \E r \in Requests, s \in Viewer, p \in Parties : Join(r, s, p, g)
    <3>1. ASSUME NEW s \in Sessions, Cut(s)
          PROVE  FALSE
      BY <2>2, <3>1, CutLeaves DEF Closed
    <3>2. ASSUME NEW ps, stream' = ClosedOf(ps)
          PROVE  FALSE
      BY <2>2, <3>2 DEF ClosedOf, Closed
    <3>3. ASSUME NEW r \in Requests, NEW s \in Viewer, NEW p \in Parties,
                 \/ Start(r, s, p) \/ ReportQueue(r, s, p)
                 \/ \E a \in Accounts : RemoveMember(r, s, p, a)
          PROVE  FALSE
      <4>1. CASE Start(r, s, p)
        BY <3>2, <4>1 DEF Start
      <4>2. CASE ReportQueue(r, s, p)
        BY <2>2, <4>2 DEF ReportQueue
      <4>3. CASE \E a \in Accounts : RemoveMember(r, s, p, a)
        BY <2>2, <4>3 DEF RemoveMember, Closed
      <4> QED
        BY <3>3, <4>1, <4>2, <4>3
    <3>4. ASSUME NEW r \in Requests, NEW s \in Viewer, NEW p \in Parties,
                 \/ \E h \in Streams, address \in Addresses : Listen(r, s, p, h, address)
                 \/ Admit(r, s, p) \/ Withdraw(r, s, p)
          PROVE  FALSE
      BY <2>2, <3>4 DEF Listen, Admit, Withdraw, TypeInv, TypeOK
    <3>5. ASSUME NEW r \in Requests, NEW s \in Viewer, NEW p \in Parties, NEW h \in Streams, Join(r, s, p, h)
          PROVE  Joins
      BY <2>2, <3>5 DEF Join, TypeInv, TypeOK
    <3>6. ASSUME NEW r \in Requests,
                 \/ \E s \in Viewer : Arrive(r, s) \/ EndParty(r, s)
                 \/ FindHost(r) \/ Enqueue(r) \/ Refused(r)
                 \/ \E p \in Parties : FindsExpired(r, p)
          PROVE  FALSE
      BY <2>2, <3>2, <3>6 DEF Arrive, EndParty, FindHost, Enqueue, Refused, FindsExpired
    <3>7. ASSUME \/ \E h \in Streams : Leave(h)
                 \/ \E p \in Parties : Expire(p) \/ \E a \in Accounts : Cool(p, a)
                 \/ \E s \in Sessions : EndSession(s) \/ CapSession(s)
          PROVE  FALSE
      BY <2>2, <3>7 DEF Leave, Expire, Cool, EndSession, CapSession, Closed, TypeInv, TypeOK
    <3>8. ~UNCHANGED vars
      BY <2>2 DEF vars
    <3>9. PICK r \in Requests, s \in Viewer, p \in Parties : Join(r, s, p, g)
      BY <3>1, <3>3, <3>4, <3>5, <3>6, <3>7, <3>8 DEF Next, Hosting, Listening
    <3> QED
      BY <2>2, <3>9 DEF Join, ServedLate, Accounted, TypeInv, TypeOK
  <2> QED
    BY <2>1, <2>2
<1> QED
  BY <1>1 DEF NamesLeave, Accounted

\* Only starting a party gives it a host.
LEMMA HostsStay ==
    ASSUME TypeInv, [Next]_vars
    PROVE  \A p \in Held' : \/ p \in Held /\ party'[p].host = party[p].host
                            \/ \E r \in Requests, s \in Viewer : Start(r, s, p)
<1> DEFINE Good(p) == \/ p \in Held /\ party'[p].host = party[p].host
                      \/ \E r \in Requests, s \in Viewer : Start(r, s, p)
<1> SUFFICES ASSUME NEW p \in Parties, p \in Held'
             PROVE  Good(p)
  BY DEF Held
<1>1. ASSUME party' = party
      PROVE  Good(p)
  BY <1>1 DEF Held
<1>2. ASSUME NEW ps, party' = Ended(ps)
      PROVE  Good(p)
  BY <1>2 DEF Held, Ended, Over
<1>3. ASSUME NEW r \in Requests, NEW s \in Viewer, NEW q \in Parties, Start(r, s, q)
      PROVE  Good(p)
  <2>1. CASE p = q
    BY <1>3, <2>1
  <2>2. CASE p # q
    <3>1. party'[p] = Ended(Hosted(s))[p]
      BY <1>3, <2>2 DEF Start, Ended
    <3> QED
      BY <3>1, RestingFits DEF Held, Ended
  <2> QED
    BY <2>1, <2>2
<1>4. ASSUME NEW r \in Requests, NEW s \in Viewer, NEW q \in Parties,
             ReportQueue(r, s, q) \/ \E a \in Accounts : RemoveMember(r, s, q, a)
      PROVE  Good(p)
  <2>1. party[q] \in Party
    BY DEF TypeInv, TypeOK
  <2>2. CASE ReportQueue(r, s, q)
    BY <2>1, <2>2 DEF ReportQueue, Held, TypeInv, TypeOK, Party
  <2>3. ASSUME NEW a \in Accounts, RemoveMember(r, s, q, a)
        PROVE  Good(p)
    BY <2>1, <2>3 DEF RemoveMember, Held, TypeInv, TypeOK, Party
  <2> QED
    BY <1>4, <2>2, <2>3
<1>5. ASSUME NEW r \in Requests, NEW s \in Viewer, NEW q \in Parties,
             \/ \E g \in Streams : \/ \E address \in Addresses : Listen(r, s, q, g, address)
                                   \/ Join(r, s, q, g)
             \/ Admit(r, s, q) \/ Withdraw(r, s, q)
      PROVE  Good(p)
  <2>1. party[q] \in Party
    BY DEF TypeInv, TypeOK
  <2>2. CASE \E g \in Streams, address \in Addresses : Listen(r, s, q, g, address)
    BY <1>1, <2>2 DEF Listen
  <2>3. CASE \E g \in Streams : Join(r, s, q, g)
    BY <2>1, <2>3 DEF Join, Held, TypeInv, TypeOK, Party
  <2>4. CASE Admit(r, s, q)
    BY <2>1, <2>4 DEF Admit, Held, TypeInv, TypeOK, Party
  <2>5. CASE Withdraw(r, s, q)
    BY <2>1, <2>5 DEF Withdraw, Held, TypeInv, TypeOK, Party
  <2> QED
    BY <1>5, <2>2, <2>3, <2>4, <2>5
<1>6. ASSUME NEW r \in Requests, Enqueue(r)
      PROVE  Good(p)
  BY <1>6 DEF Enqueue, Held, Live, TypeInv, TypeOK, Party
<1>7. ASSUME NEW q \in Parties, Expire(q) \/ \E a \in Accounts : Cool(q, a)
      PROVE  Good(p)
  BY <1>7, ClockChanges DEF Held
<1>8. ASSUME NEW r \in Requests,
             \/ \E s \in Viewer : Arrive(r, s) \/ EndParty(r, s)
             \/ FindHost(r) \/ Refused(r) \/ \E q \in Parties : FindsExpired(r, q)
      PROVE  Good(p)
  BY <1>1, <1>2, <1>8 DEF Arrive, EndParty, FindHost, Refused, FindsExpired
<1>9. ASSUME \/ \E g \in Streams : Leave(g)
             \/ \E s \in Sessions : EndSession(s) \/ Cut(s) \/ CapSession(s)
      PROVE  Good(p)
  BY <1>1, <1>2, <1>9 DEF Leave, EndSession, Cut, CapSession
<1>10. CASE UNCHANGED vars
  BY <1>1, <1>10 DEF vars
<1>11. ASSUME NEW r \in Requests, Hosting(r)
       PROVE  Good(p)
  BY <1>3, <1>4, <1>11 DEF Hosting
<1> HIDE DEF Good
<1> QED
  BY <1>5, <1>6, <1>7, <1>8, <1>9, <1>10, <1>11 DEF Next, Listening

\* A party goes with its host.
LEMMA EndsStep ==
    ASSUME TypeInv, EndsWhenSignedOut, [Next]_vars
    PROVE  EndsWhenSignedOut'
<1> SUFFICES ASSUME NEW p \in Held' PROVE party'[p].host \in Accounted'
  BY DEF EndsWhenSignedOut, Accounted
<1>1. CASE p \in Held /\ party'[p].host = party[p].host
  <2>1. party[p].host \in Accounted
    BY <1>1 DEF EndsWhenSignedOut, Accounted
  <2>2. ~Cut(party[p].host)
    <3> SUFFICES ASSUME Cut(party[p].host) PROVE FALSE
      OBVIOUS
    <3>1. p \in Parties /\ p \in EndedBy(party[p].host)
      BY <1>1 DEF EndedBy, Hosted, Held
    <3>2. party'[p].status = "over"
      BY <3>1, RestingFits DEF Cut, Ended
    <3> QED
      BY <3>2 DEF Held
  <2> QED
    BY <1>1, <2>1, <2>2, AccountedFor
<1>2. ASSUME NEW r \in Requests, NEW s \in Viewer, Start(r, s, p)
      PROVE  party'[p].host \in Accounted'
  <2>1. party'[p].host = s
    <3>1. p \in Parties /\ party'[p] = [NoParty EXCEPT !.status = "on", !.host = s]
      BY <1>2 DEF Start, Held, Ended
    <3> QED
      BY <3>1 DEF NoParty
  <2>2. s \in Accounted'
    BY <1>2 DEF Start, ServedLate, Accounted
  <2> QED
    BY <2>1, <2>2
<1> QED
  BY <1>1, <1>2, HostsStay

-----------------------------------------------------------------------------
(* The theorems *)

IInv == TypeInv /\ StreamsHeld /\ SourcesTrue /\ RemovedStaysOut /\ NamesAreTheirs
          /\ NamesLeave /\ EndsWhenSignedOut

\* Nobody has started a party at first.
LEMMA InitInv == Init => IInv
BY InitTypes, PartyAssumption DEF Init, IInv, StreamsHeld, SourcesTrue, RemovedStaysOut,
   NamesAreTheirs,
   NamesLeave, EndsWhenSignedOut, Held, ListenersOf, NoParty, Closed

\* What every step keeps, and so every behaviour.
LEMMA Invariance == Spec => []IInv
<1>1. IInv /\ [Next]_vars => IInv'
  BY StepTypes, StreamsHeldStep, SourcesTrueStep, RemovedStep, NamesStep, NamesLeaveStep,
     EndsStep
     DEF IInv
<1> QED
  BY <1>1, InitInv, PTL DEF Spec

\* An account the host removed is out for the rest of the party, whatever it had
\* in flight (removeMember, and what enqueue, listen and join look at again).
THEOREM RemovedAreOut == Spec => []RemovedStaysOut
<1>1. IInv => RemovedStaysOut
  BY DEF IInv
<1> QED
  BY <1>1, Invariance, PTL

\* A stream shows no name but that of the account that opened it (join).
THEOREM NamedByThemselves == Spec => []NamesAreTheirs
<1>1. IInv => NamesAreTheirs
  BY DEF IInv
<1> QED
  BY <1>1, Invariance, PTL

\* The name of a member goes with its session (endPartiesOf).
THEOREM NamesGoWithSessions == Spec => []NamesLeave
<1>1. IInv => NamesLeave
  BY DEF IInv
<1> QED
  BY <1>1, Invariance, PTL

\* A party goes with the session of its host (endPartiesOf).
THEOREM PartiesGoWithSessions == Spec => []EndsWhenSignedOut
<1>1. IInv => EndsWhenSignedOut
  BY DEF IInv
<1> QED
  BY <1>1, Invariance, PTL

\* Others' streams shut no account out (admission): what counts for an account
\* was opened by it.
THEOREM NobodyShutOut == Spec => []OnlyOwnStreamsShutOut
<1>1. IInv => OnlyOwnStreamsShutOut
  <2> SUFFICES ASSUME IInv, NEW p \in Live, NEW s \in Sessions, NEW address \in Addresses,
                      Cardinality({g \in ListenersOf(p) : stream[g].account = Account[s]}) < MaxStreams,
                      Standing(p, s) # "host"
               PROVE  Admitted(p, s, address)
    BY DEF OnlyOwnStreamsShutOut, Admitted
  <2> DEFINE own == {g \in ListenersOf(p) : stream[g].account = Account[s]}
             held == Holding(p, Account[s])
  <2>1. Account[s] \in Accounts /\ s # None
    BY PartyAssumption
  <2>2. held \subseteq own
    BY <2>1 DEF IInv, SourcesTrue, Holding, ListenersOf
  <2>3. IsFiniteSet(own)
    <3>1. own \subseteq Streams
      BY DEF ListenersOf
    <3> QED
      BY <3>1, PartyAssumption, FS_Subset
  <2>4. Cardinality(held) <= Cardinality(own) /\ Cardinality(own) \in Nat /\ Cardinality(held) \in Nat
    BY <2>2, <2>3, FS_Subset, FS_CardinalityType
  <2>5. Source(p, s, address) = Account[s]
    BY <2>1 DEF Source
  <2>6. Cardinality(held) < MaxStreams
    BY <2>4, PartyAssumption
  <2> QED
    BY <2>1, <2>5, <2>6 DEF Admitted
<1> QED
  BY <1>1, Invariance, PTL
=============================================================================
