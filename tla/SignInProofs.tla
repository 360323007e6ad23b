----------------------------- MODULE SignInProofs -----------------------------
(***************************************************************************)
(* Signing in keeps its types, takes every code, held sign-in and secret   *)
(* once, lets no more be guessed than the limits, and keeps the factor:    *)
(* whatever the number of requests at once, the limits, and the bounds.    *)
(***************************************************************************)
EXTENDS SignIn, FiniteSetTheorems, TLAPS

-----------------------------------------------------------------------------
(* The inductive invariant *)

\* Requests are numbered as they come, and no two under way have one number.
Numbered ==
    /\ \A r \in Slots : /\ request[r].n <= made.requests
                        /\ request[r].n = 0 <=> request[r].at = "idle"
    /\ \A r, s \in Slots : request[r].n = request[s].n /\ request[r].n # 0 => r = s

\* What a request is for, where it tells the paths apart.
KindFits(q) ==
    /\ q.at = "idle" => q.kind = "none"
    /\ q.at \in {"reserve", "ask", "refund", "clear", "look", "take"} =>
          q.kind \in {"password", "code", "start", "remove", "renew"}
    /\ q.at \in {"poll", "connect"} => q.kind = "quick"
    /\ q.at \in {"begin", "drop", "hold", "trim"} => q.kind \in {"password", "quick"}
    /\ q.at = "issue" => q.kind \in {"password", "quick", "code"}
    /\ q.at \in {"count", "finish"} => q.kind = "code"
    /\ q.at = "prove" => q.kind = "renew"
KindsFit == \A r \in Slots : KindFits(request[r])

\* The keys a password counts against, of a sequence of them.
KeysOf(keys) == {keys[i] : i \in DOMAIN keys}

\* What is reserved, and what is still to be, are the keys of one attempt.
Reserves(q) ==
    /\ q.at = "reserve" =>
          \/ q.mine = {} /\ q.keys \in LoginKeys \cup {<<"2fa">>}
          \/ q.mine = {"user"} /\ q.keys = <<"addr">> /\ <<"user", "addr">> \in LoginKeys
    /\ q.at = "ask" => \E keys \in LoginKeys : q.mine = KeysOf(keys)
    /\ q.at \in {"look", "take"} => q.mine = {"2fa"}
    /\ q.at = "clear" => q.mine = {"2fa"} \/ \E keys \in LoginKeys : q.mine = KeysOf(keys)
    /\ q.at = "refund" => \/ q.keys \in LoginKeys /\ q.mine = KeysOf(q.keys)
                          \/ q.keys = <<"addr">> /\ q.mine = {"addr"}
    /\ q.at \in {"ask", "look", "take", "clear"} => ~q.refused
    /\ q.at \notin {"reserve", "ask", "look", "take", "clear", "refund"} => q.mine = {}
Reserving == \A r \in Slots : Reserves(request[r])

\* The reservations of a key in the count of it there is now, and those of
\* requests no other key has refused.
Reserved(key) == {r \in Slots : key \in request[r].mine \ request[r].stale}
Hopeful(key) == {r \in Reserved(key) : ~request[r].refused}

\* A row that is not there counts none.
Value(count) == IF count = NoRow THEN 0 ELSE count

\* Every wrong attempt and every reservation is in the count, or was handed
\* back to a later one, and the count let each of them through.
CountHolds ==
    \A key \in Keys :
        judged[key].wrong + Cardinality(Reserved(key)) <= Value(failures[key]) + judged[key].carried
LetThrough ==
    \A key \in Keys :
        judged[key].wrong + Cardinality(Hopeful(key)) <= Limit[key] + judged[key].carried

\* An app that is on is one, and one that was made.
AppFits == app.id <= made.apps /\ (app.on => app.id # None)

\* A code taken of the app there is now is no later than the last, and none of
\* it was before it was on; a recovery code taken is gone.
CodesGone ==
    /\ \A n \in codes : n <= made.codes
    /\ \A a \in accepted :
          IF a.code.app = None THEN a.code.number \notin codes /\ a.code.number <= made.codes
          ELSE /\ a.code.app <= made.apps
               /\ a.code.app = app.id => app.on /\ a.code.number <= app.last
CodesOnce == \A a, b \in accepted : a.code = b.code => a = b

\* A sign-in that may yet be held.
MayHold(q) == q.kind \in {"password", "quick"} /\ q.at # "trim"

\* Held sign-ins, codes for them and sessions name requests that came, and none
\* that may yet be held.
HeldFits ==
    /\ \A s \in steps : s.n # None /\ s.n <= made.requests
    /\ \A a \in sessions : a.step <= made.requests /\ a.n <= made.requests /\ a.n # 0
    /\ \A r \in Slots : request[r].kind = "code" => request[r].from # None /\ request[r].from <= made.requests
    /\ \A r \in Slots : MayHold(request[r]) =>
          /\ \A s \in steps : s.n # request[r].n
          /\ \A a \in sessions : a.step # request[r].n
          /\ \A s \in Slots : request[s].kind = "code" => request[s].from # request[r].n

\* A code at its session has its held sign-in, which is gone, to itself.
Finishing(q) == q.kind = "code" /\ q.at = "issue"
StepsOnce ==
    /\ \A s \in steps, a \in sessions : a.step # s.n
    /\ \A r \in Slots : Finishing(request[r]) =>
          /\ \A s \in steps : s.n # request[r].from
          /\ \A a \in sessions : a.step # request[r].from
          /\ \A s \in Slots : Finishing(request[s]) /\ request[s].from = request[r].from => s = r
    /\ \A a, b \in sessions : a.step = b.step /\ a.step # None => a = b

\* A session's request is over.
SessionsOver == \A a \in sessions, r \in Slots : a.n # request[r].n

\* One request at most is between the claim and the answer, and then none is
\* signed in yet.
SecretOnce ==
    /\ \A r \in Slots : request[r].at = "connect" => claimed /\ connected = {}
    /\ \A r, s \in Slots : request[r].at = "connect" /\ request[s].at = "connect" => r = s
    /\ connected # {} => claimed
    /\ \A a, b \in connected : a = b

\* What was read of the factor is so, but where a change overtook it.
SawTrue == \A r \in Slots : request[r].at = "remember" /\ ~request[r].late => request[r].saw = app.on

\* While there is a factor, a sign-in on its way to a session gave one, or was
\* overtaken; the change's own request has its session; and when it ends the
\* others, it ends every one that gave none.
Given(a) == a.factor \/ a.late \/ a.n = settled.own
OnTheWay == app.on => \A r \in Slots : request[r].at = "issue" /\ request[r].kind # "code" => request[r].late
ChangeOwn ==
    /\ settled.by <= made.requests
    /\ \A r \in Slots : request[r].n = settled.by /\ request[r].n # 0 => request[r].from = settled.own
EndsAll ==
    app.on => \A r \in Slots : request[r].at = "end" /\ request[r].n = settled.by
                               /\ request[r].kind # "reset" =>
        \A a \in sessions : a.n \in live /\ a.n \notin request[r].ends => Given(a)

IInv ==
    /\ TypeOK /\ KindsFit /\ Numbered
    /\ Reserving /\ CountHolds /\ LetThrough
    /\ AppFits /\ SawTrue /\ FactorRemembered
    /\ CodesGone /\ CodesOnce
    /\ HeldFits /\ StepsOnce /\ SessionsOver
    /\ SecretOnce
    /\ OnTheWay /\ ChangeOwn /\ EndsAll /\ FactorGiven

-----------------------------------------------------------------------------
(* What a step does to the requests: one goes on, rests or comes, and of    *)
(* the others only what overtook them changes.                              *)

\* A number that is counted up from none is never below it.
LEMMA NatNonNegative == \A n \in Nat : 0 <= n
OBVIOUS

\* What of a request stays while it is under way; and what a step of another's leaves.
Same(p, q) == p.n = q.n /\ p.kind = q.kind /\ p.from = q.from
Alike(p, q) ==
    /\ Same(p, q) /\ p.at = q.at /\ p.keys = q.keys /\ p.mine = q.mine /\ p.refused = q.refused
    /\ p.code = q.code /\ p.saw = q.saw /\ p.left = q.left /\ p.ends = q.ends
    /\ q.late => p.late
    /\ q.stale \subseteq p.stale

Rested(r) == request'[r] = Resting /\ made'.requests = made.requests
WentOn(r) ==
    /\ Same(request'[r], request[r]) /\ request[r].n # 0 /\ request'[r].at # "idle"
    /\ made'.requests = made.requests
Came(r) ==
    /\ request[r].n = 0 /\ request'[r].n = made.requests + 1 /\ request'[r].at # "idle"
    /\ made'.requests = made.requests + 1

Turns(r) ==
    /\ \A s \in Slots \ {r} : Alike(request'[s], request[s])
    /\ Rested(r) \/ WentOn(r) \/ Came(r)

\* A request at rest is one.
LEMMA RestingType ==
    /\ Resting \in Request
    /\ Resting.n = 0 /\ Resting.at = "idle" /\ Resting.kind = "none" /\ Resting.mine = {}
    /\ Resting.from = 0
BY DEF Resting, Request, Kinds, Places, KeyLists, Keys, Code, Unread, None

\* A request that comes has its number, and is one.
LEMMA ComesRequest ==
    ASSUME TypeOK, NEW r \in Slots, NEW new \in Request, Comes(r, new)
    PROVE  /\ request' \in [Slots -> Request]
           /\ request'[r] = [new EXCEPT !.n = made.requests + 1]
           /\ request[r] = Resting
           /\ \A s \in Slots \ {r} : request'[s] = request[s]
           /\ made' \in [requests : Nat, apps : Nat, codes : Nat]
           /\ made'.requests = made.requests + 1
           /\ made'.apps = made.apps /\ made'.codes = made.codes /\ lapses' = lapses
<1>1. request \in [Slots -> Request] /\ made \in [requests : Nat, apps : Nat, codes : Nat]
  BY DEF TypeOK
<1>2. [new EXCEPT !.n = made.requests + 1] \in Request
  BY <1>1 DEF Request
<1> QED
  BY <1>1, <1>2 DEF Comes

\* A request that comes takes the next number.
LEMMA ComesTurns ==
    ASSUME TypeOK, NEW r \in Slots, NEW new \in Request, Comes(r, new), new.at # "idle"
    PROVE  Turns(r) /\ Came(r) /\ Same(request'[r], [new EXCEPT !.n = made.requests + 1])
           /\ request'[r].at = new.at
<1>1. new.at = [new EXCEPT !.n = made.requests + 1].at
      /\ [new EXCEPT !.n = made.requests + 1].n = made.requests + 1
  BY DEF Request
<1>2. Came(r)
  BY <1>1, ComesRequest, RestingType DEF Came
<1> QED
  BY <1>1, <1>2, ComesRequest DEF Turns, Alike, Same

\* A request that goes on to another place.
LEMMA GoesTurns ==
    ASSUME TypeOK, Numbered, NEW r \in Slots, NEW at \in Places \ {"idle"}, request[r].at # "idle",
           Goes(r, at), made'.requests = made.requests
    PROVE  /\ request' \in [Slots -> Request]
           /\ Turns(r)
           /\ request'[r] = [request[r] EXCEPT !.at = at]
           /\ request'[r].mine = request[r].mine /\ request'[r].keys = request[r].keys
           /\ request'[r].at = at /\ request'[r].kind = request[r].kind
<1>1. request \in [Slots -> Request] /\ request[r] \in Request
  BY DEF TypeOK
<1>2. request[r].n # 0
  BY DEF Numbered
<1>3. [request[r] EXCEPT !.at = at] \in Request
  BY <1>1 DEF Request
<1>4. request' \in [Slots -> Request] /\ request'[r] = [request[r] EXCEPT !.at = at]
      /\ \A s \in Slots \ {r} : request'[s] = request[s]
  BY <1>1, <1>3 DEF Goes
<1>5. Same(request'[r], request[r]) /\ request'[r].at = at /\ request'[r].mine = request[r].mine
      /\ request'[r].keys = request[r].keys
  BY <1>1, <1>4 DEF Same, Request
<1> QED
  BY <1>2, <1>4, <1>5 DEF Turns, WentOn, Alike, Same

\* A request that ends.
LEMMA RestsTurns ==
    ASSUME TypeOK, NEW r \in Slots, Rests(r), made'.requests = made.requests
    PROVE  /\ request' \in [Slots -> Request]
           /\ Turns(r)
           /\ request'[r] = Resting
<1>1. request \in [Slots -> Request]
  BY DEF TypeOK
<1>2. request' \in [Slots -> Request] /\ request'[r] = Resting
      /\ \A s \in Slots \ {r} : request'[s] = request[s]
  BY <1>1, RestingType DEF Rests
<1> QED
  BY <1>2 DEF Turns, Rested, Alike, Same

-----------------------------------------------------------------------------
(* What leaves each part of the invariant alone *)

\* Nothing is counted, and a request comes to no reservation it had not.
StillThrottle(r) ==
    /\ UNCHANGED <<failures, judged>>
    /\ \A s \in Slots \ {r} : request'[s].stale = request[s].stale
    /\ request'[r].mine = {}
    /\ request'[r].at \notin {"ask", "refund", "clear", "look", "take"}
    /\ request'[r].at = "reserve" => request'[r].keys \in LoginKeys \cup {<<"2fa">>}
\* The factor is as it was, and what is remembered of it, or nothing is.
StillFactor(r) ==
    /\ app'.on = app.on /\ app'.id <= made'.apps /\ (app'.on => app'.id # None)
    /\ held'.is = "nothing" \/ (held' = held /\ settled'.held = settled.held)
    /\ request'[r].at = "remember" => request'[r].saw = app.on
\* No code is taken or made, and none of an app that is on can be again.
StillCodes ==
    /\ UNCHANGED accepted
    /\ codes' \subseteq codes /\ made'.codes = made.codes
    /\ made.apps <= made'.apps
    /\ \/ UNCHANGED app
       \/ app'.id = None \/ app'.id = made.apps + 1
       \/ app'.id = app.id /\ ~app.on
\* No sign-in is held, and none ended in a session.
StillSteps(r) ==
    /\ \A s \in steps' : \E t \in steps : s.n = t.n
    /\ UNCHANGED sessions
    /\ ~Finishing(request'[r])
    /\ request'[r].kind = "code" => \/ Same(request'[r], request[r])
                                    \/ \E s \in steps : request'[r].from = s.n
    /\ MayHold(request'[r]) => MayHold(request[r]) \/ Came(r)
StillSecret(r) == UNCHANGED <<claimed, connected>> /\ request'[r].at # "connect"
\* No change of the factor, and no session without one.
StillGiven(r) ==
    /\ app'.on = app.on
    /\ UNCHANGED sessions
    /\ live' \subseteq live
    /\ settled'.by = settled.by /\ settled'.own = settled.own /\ settled'.sessions = settled.sessions
    /\ request'[r].at # "end"
    /\ request'[r].at = "issue" => request'[r].kind = "code" \/ ~app.on

\* Every step numbers the requests as they come.
LEMMA KeepsNumbered ==
    ASSUME IInv, TypeOK', NEW r \in Slots, Turns(r)
    PROVE  Numbered'
<1>1. /\ made.requests \in Nat /\ made'.requests \in Nat
      /\ \A s \in Slots : request[s].n \in Nat /\ request'[s].n \in Nat
  BY DEF IInv, TypeOK, Request
<1>2. \A s \in Slots : /\ request[s].n <= made.requests
                       /\ request[s].n = 0 <=> request[s].at = "idle"
  BY DEF IInv, Numbered
<1>3. \A s, t \in Slots : request[s].n = request[t].n /\ request[s].n # 0 => s = t
  BY DEF IInv, Numbered
<1>4. \A s \in Slots \ {r} : request'[s].n = request[s].n /\ request'[s].at = request[s].at
  BY DEF Turns, Alike, Same
<1>5. /\ made.requests <= made'.requests
      /\ request'[r].n = 0 <=> request'[r].at = "idle"
      /\ request'[r].n \in {0, request[r].n, made.requests + 1}
      /\ request'[r].n <= made'.requests
      /\ request'[r].n = made.requests + 1 => made'.requests = made.requests + 1
  BY <1>1, <1>2, RestingType DEF Turns, Rested, WentOn, Came, Same
<1>6. \A s \in Slots : request'[s].n <= made'.requests /\ (request'[s].n = 0 <=> request'[s].at = "idle")
  BY <1>1, <1>2, <1>4, <1>5
<1>7. \A s \in Slots \ {r} : request'[s].n = request'[r].n => request'[r].n = 0
  BY <1>1, <1>2, <1>3, <1>4, <1>5
<1>8. \A s, t \in Slots : request'[s].n = request'[t].n /\ request'[s].n # 0 => s = t
  BY <1>3, <1>4, <1>7
<1> QED
  BY <1>6, <1>8 DEF Numbered

\* Reservations are finitely many.
LEMMA ReservedFinite ==
    \A key : /\ IsFiniteSet(Reserved(key)) /\ IsFiniteSet(Hopeful(key))
             /\ Cardinality(Reserved(key)) \in Nat /\ Cardinality(Hopeful(key)) \in Nat
<1> SUFFICES ASSUME NEW key
             PROVE  /\ IsFiniteSet(Reserved(key)) /\ IsFiniteSet(Hopeful(key))
                    /\ Cardinality(Reserved(key)) \in Nat /\ Cardinality(Hopeful(key)) \in Nat
  OBVIOUS
<1>1. IsFiniteSet(Slots) /\ Reserved(key) \subseteq Slots /\ Hopeful(key) \subseteq Reserved(key)
  BY SignInAssumption DEF Reserved, Hopeful
<1>2. IsFiniteSet(Reserved(key))
  BY <1>1, FS_Subset
<1>3. IsFiniteSet(Hopeful(key))
  BY <1>1, <1>2, FS_Subset
<1> QED
  BY <1>2, <1>3, FS_CardinalityType

\* So are those there are after a step.
LEMMA ReservedNextFinite ==
    \A key : /\ IsFiniteSet(Reserved(key)') /\ IsFiniteSet(Hopeful(key)')
             /\ Cardinality(Reserved(key)') \in Nat /\ Cardinality(Hopeful(key)') \in Nat
<1> SUFFICES ASSUME NEW key
             PROVE  /\ IsFiniteSet(Reserved(key)') /\ IsFiniteSet(Hopeful(key)')
                    /\ Cardinality(Reserved(key)') \in Nat /\ Cardinality(Hopeful(key)') \in Nat
  OBVIOUS
<1>1. IsFiniteSet(Slots) /\ Reserved(key)' \subseteq Slots /\ Hopeful(key)' \subseteq Reserved(key)'
  BY SignInAssumption DEF Reserved, Hopeful
<1>2. IsFiniteSet(Reserved(key)')
  BY <1>1, FS_Subset
<1>3. IsFiniteSet(Hopeful(key)')
  BY <1>1, <1>2, FS_Subset
<1> QED
  BY <1>2, <1>3, FS_CardinalityType

\* Fewer reservations are no more.
LEMMA Fewer ==
    ASSUME NEW key, Reserved(key)' \subseteq Reserved(key), Hopeful(key)' \subseteq Hopeful(key)
    PROVE  /\ Cardinality(Reserved(key)') <= Cardinality(Reserved(key))
           /\ Cardinality(Hopeful(key)') <= Cardinality(Hopeful(key))
BY ReservedFinite, FS_Subset

\* A key whose count is as it was, and which no request reserved.
LEMMA KeyStill ==
    ASSUME IInv, NEW key \in Keys, failures'[key] = failures[key], judged'[key] = judged[key],
           Reserved(key)' \subseteq Reserved(key), Hopeful(key)' \subseteq Hopeful(key)
    PROVE  /\ judged'[key].wrong + Cardinality(Reserved(key)') <= Value(failures'[key]) + judged'[key].carried
           /\ judged'[key].wrong + Cardinality(Hopeful(key)') <= Limit[key] + judged'[key].carried
<1>1. judged[key].wrong \in Nat /\ judged[key].carried \in Nat
      /\ Value(failures[key]) \in Nat /\ Limit[key] \in Nat
  BY SignInAssumption DEF IInv, TypeOK, Value, NoRow
<1>2. /\ Cardinality(Reserved(key)') \in Nat /\ Cardinality(Hopeful(key)') \in Nat
      /\ Cardinality(Reserved(key)) \in Nat /\ Cardinality(Hopeful(key)) \in Nat
  BY ReservedFinite, ReservedNextFinite
<1>3. /\ judged[key].wrong + Cardinality(Reserved(key)) <= Value(failures[key]) + judged[key].carried
      /\ judged[key].wrong + Cardinality(Hopeful(key)) <= Limit[key] + judged[key].carried
  BY DEF IInv, CountHolds, LetThrough
<1> QED
  BY <1>1, <1>2, <1>3, Fewer

\* What a step leaves to the other requests.
LEMMA OthersFit ==
    ASSUME IInv, NEW r \in Slots, Turns(r)
    PROVE  \A s \in Slots \ {r} : KindFits(request'[s]) /\ Reserves(request'[s])
<1>1. \A s \in Slots \ {r} : /\ request'[s].at = request[s].at /\ request'[s].keys = request[s].keys
                             /\ request'[s].mine = request[s].mine /\ request'[s].refused = request[s].refused
                             /\ request'[s].kind = request[s].kind
  BY DEF Turns, Alike, Same
<1> QED
  BY <1>1 DEF IInv, KindsFit, KindFits, Reserving, Reserves

\* A step keeps the paths apart when its own request fits.
LEMMA KeepsKinds ==
    ASSUME IInv, NEW r \in Slots, Turns(r), KindFits(request'[r])
    PROVE  KindsFit'
BY OthersFit DEF KindsFit

\* A step that leaves the counts and reserves nothing keeps them.
LEMMA KeepsThrottle ==
    ASSUME IInv, TypeOK', NEW r \in Slots, Turns(r), StillThrottle(r)
    PROVE  (Reserving /\ CountHolds /\ LetThrough)'
<1>1. \A key : Reserved(key)' \subseteq Reserved(key) /\ Hopeful(key)' \subseteq Hopeful(key)
  BY DEF Turns, Alike, StillThrottle, Reserved, Hopeful
<1>2. CountHolds' /\ LetThrough'
  BY <1>1, KeyStill DEF StillThrottle, CountHolds, LetThrough
<1>3. Reserving'
  BY OthersFit DEF StillThrottle, Reserving, Reserves
<1> QED
  BY <1>2, <1>3

\* A step that leaves the factor, and what is remembered of it or nothing, keeps both true.
LEMMA KeepsFactor ==
    ASSUME IInv, TypeOK', NEW r \in Slots, Turns(r), StillFactor(r)
    PROVE  (AppFits /\ SawTrue /\ FactorRemembered)'
<1>1. \A s \in Slots \ {r} : /\ request'[s].at = request[s].at /\ request'[s].saw = request[s].saw
                             /\ request[s].late => request'[s].late
  BY DEF Turns, Alike
<1>2. AppFits' /\ FactorRemembered'
  BY DEF IInv, AppFits, FactorRemembered, StillFactor
<1>3. SawTrue'
  BY <1>1 DEF IInv, SawTrue, StillFactor
<1> QED
  BY <1>2, <1>3

\* A step that takes no code keeps them taken once.
LEMMA KeepsCodes ==
    ASSUME IInv, TypeOK', StillCodes
    PROVE  (CodesGone /\ CodesOnce)'
<1>1. /\ app.id \in Nat /\ app'.id \in Nat /\ made.apps \in Nat /\ made'.apps \in Nat
      /\ \A a \in accepted : a.code.app \in Nat /\ a.code.number \in Nat
  BY DEF IInv, TypeOK, Code
<1> QED
  BY <1>1 DEF IInv, CodesGone, CodesOnce, StillCodes, None

\* A step that leaves the secret keeps it claimed once.
LEMMA KeepsSecret ==
    ASSUME IInv, NEW r \in Slots, Turns(r), StillSecret(r)
    PROVE  SecretOnce'
<1>1. \A s \in Slots \ {r} : request'[s].at = request[s].at
  BY DEF Turns, Alike
<1> QED
  BY <1>1 DEF IInv, SecretOnce, StillSecret

\* A step that adds no session keeps the sessions' requests over.
LEMMA KeepsSessionsOver ==
    ASSUME IInv, TypeOK', NEW r \in Slots, Turns(r), UNCHANGED sessions
    PROVE  SessionsOver'
<1>1. \A a \in sessions : a.n \in Nat /\ a.n # 0 /\ a.n <= made.requests /\ made.requests \in Nat
  BY DEF IInv, TypeOK, HeldFits, Session
<1>2. \A s \in Slots \ {r} : request'[s].n = request[s].n
  BY DEF Turns, Alike, Same
<1>3. request'[r].n \in {0, request[r].n, made.requests + 1}
  BY RestingType DEF Turns, Rested, WentOn, Came, Same
<1> QED
  BY <1>1, <1>2, <1>3 DEF IInv, SessionsOver

\* A step that holds no sign-in and finishes none keeps each finished once.
LEMMA KeepsSteps ==
    ASSUME IInv, TypeOK', NEW r \in Slots, Turns(r), StillSteps(r)
    PROVE  (HeldFits /\ StepsOnce)'
<1>1. /\ \A s \in Slots \ {r} : Same(request'[s], request[s]) /\ request'[s].at = request[s].at
      /\ made.requests \in Nat /\ made'.requests \in Nat /\ made.requests <= made'.requests
      /\ request'[r].n \in {request[r].n, made.requests + 1} \/ ~MayHold(request'[r])
  BY RestingType DEF IInv, TypeOK, Turns, Alike, Rested, WentOn, Came, Same, MayHold
<1>2. /\ \A s \in steps : s.n \in Nat /\ s.n # 0 /\ s.n <= made.requests
      /\ \A a \in sessions : a.n \in Nat /\ a.step \in Nat /\ a.step <= made.requests /\ a.n <= made.requests /\ a.n # 0
      /\ \A s \in Slots : request[s].n \in Nat /\ request[s].from \in Nat
      /\ \A s \in Slots : request[s].kind = "code" => request[s].from # 0 /\ request[s].from <= made.requests
  BY DEF IInv, TypeOK, Held, Session, Request, HeldFits, None
<1>3. \A s \in Slots : request'[s].kind = "code" =>
         \/ request[s].kind = "code" /\ request'[s].from = request[s].from
         \/ \E t \in steps : request'[s].from = t.n
  BY <1>1 DEF StillSteps, Same
<1>4. \A s \in Slots : MayHold(request'[s]) =>
         (MayHold(request[s]) /\ request'[s].n = request[s].n) \/ request'[s].n = made.requests + 1
  BY <1>1, RestingType DEF StillSteps, Turns, Rested, WentOn, Came, Same, MayHold
<1>5. \A s \in Slots : Finishing(request'[s]) => Finishing(request[s]) /\ s # r
  BY <1>1 DEF StillSteps, Finishing, Same
<1>6. /\ \A s \in steps' : s.n # None /\ s.n <= made'.requests
      /\ \A a \in sessions' : a.step <= made'.requests /\ a.n <= made'.requests /\ a.n # 0
      /\ \A s \in Slots : request'[s].kind = "code" => request'[s].from # None /\ request'[s].from <= made'.requests
  BY <1>1, <1>2, <1>3 DEF StillSteps, None
<1>7. \A s \in Slots : MayHold(request'[s]) =>
         /\ \A t \in steps' : t.n # request'[s].n
         /\ \A a \in sessions' : a.step # request'[s].n
         /\ \A t \in Slots : request'[t].kind = "code" => request'[t].from # request'[s].n
  <2> SUFFICES ASSUME NEW s \in Slots, MayHold(request'[s])
               PROVE  /\ \A t \in steps' : t.n # request'[s].n
                      /\ \A a \in sessions' : a.step # request'[s].n
                      /\ \A t \in Slots : request'[t].kind = "code" => request'[t].from # request'[s].n
    OBVIOUS
  <2>1. CASE MayHold(request[s]) /\ request'[s].n = request[s].n
    BY <2>1, <1>3 DEF StillSteps, IInv, HeldFits
  <2>2. CASE request'[s].n = made.requests + 1
    <3>1. \A t \in steps' : t.n \in Nat /\ t.n <= made.requests
      BY <1>2 DEF StillSteps
    <3>2. \A a \in sessions' : a.step \in Nat /\ a.step <= made.requests
      BY <1>2 DEF StillSteps
    <3> QED
      BY <2>2, <3>1, <3>2, <1>1, <1>2, <1>3
  <2> QED
    BY <2>1, <2>2, <1>4
<1>8. HeldFits'
  BY <1>6, <1>7 DEF HeldFits
<1>9. \A s \in Slots : Finishing(request'[s]) =>
         /\ \A t \in steps' : t.n # request'[s].from
         /\ \A a \in sessions' : a.step # request'[s].from
         /\ \A t \in Slots : Finishing(request'[t]) /\ request'[t].from = request'[s].from => t = s
  BY <1>1, <1>5 DEF StillSteps, IInv, StepsOnce, Same
<1>10. StepsOnce'
  BY <1>9 DEF StillSteps, IInv, StepsOnce
<1> QED
  BY <1>8, <1>10

\* A step that adds no session and changes no factor keeps it given.
LEMMA KeepsGiven ==
    ASSUME IInv, TypeOK', NEW r \in Slots, Turns(r), StillGiven(r)
    PROVE  (OnTheWay /\ ChangeOwn /\ EndsAll /\ FactorGiven)'
<1>1. \A s \in Slots \ {r} : /\ Same(request'[s], request[s]) /\ request'[s].at = request[s].at
                             /\ request'[s].ends = request[s].ends
                             /\ request[s].late => request'[s].late
  BY DEF Turns, Alike
<1>2. \A a : Given(a)' <=> Given(a)
  BY DEF Given, StillGiven
<1>3. OnTheWay'
  BY <1>1 DEF StillGiven, IInv, OnTheWay, Same
<1>4. FactorGiven'
  BY DEF StillGiven, IInv, FactorGiven
<1>5. /\ settled.by \in Nat /\ settled.by <= made.requests /\ made.requests \in Nat
      /\ request'[r].n \in {0, made.requests + 1} \/ Same(request'[r], request[r])
      /\ made'.requests \in {made.requests, made.requests + 1}
  BY RestingType DEF IInv, TypeOK, ChangeOwn, Turns, Rested, WentOn, Came
<1>6. ChangeOwn'
  BY <1>1, <1>5 DEF StillGiven, IInv, ChangeOwn, Same
<1>7. EndsAll'
  BY <1>1, <1>2 DEF StillGiven, IInv, EndsAll, Same
<1> QED
  BY <1>3, <1>4, <1>6, <1>7

-----------------------------------------------------------------------------
(* What each action leaves alone *)

\* A step that leaves all of it alone, and is its own request's.
Still(r) ==
    /\ TypeOK' /\ Turns(r) /\ KindFits(request'[r])
    /\ StillThrottle(r) /\ StillFactor(r) /\ StillCodes
    /\ StillSteps(r) /\ StillSecret(r) /\ StillGiven(r)

\* Types of the parts, for the provers.
LEMMA Parts ==
    ASSUME IInv, NEW r \in Slots
    PROVE  /\ TypeOK
           /\ request \in [Slots -> Request] /\ request[r] \in Request
           /\ request[r].n \in Nat
           /\ KindFits(request[r]) /\ Reserves(request[r])
           /\ request[r].n = 0 <=> request[r].at = "idle"
           /\ Numbered
           /\ app.on => app.id # None
           /\ app.id <= made.apps
BY DEF IInv, TypeOK, KindsFit, Numbered, Reserving, AppFits, Request

\* A request that comes, and nothing else.
LEMMA StillComes ==
    ASSUME IInv, NEW r \in Slots, NEW new \in Request, Comes(r, new),
           UNCHANGED <<database, process, ghosts>>,
           KindFits(new), new.mine = {},
           new.at \notin {"idle", "ask", "refund", "clear", "look", "take", "remember", "issue", "end", "connect"},
           new.at = "reserve" => new.keys \in LoginKeys \cup {<<"2fa">>},
           new.kind = "code" => \E s \in steps : new.from = s.n
    PROVE  Still(r)
<1>1. /\ request' \in [Slots -> Request] /\ made' \in [requests : Nat, apps : Nat, codes : Nat]
      /\ made'.apps = made.apps /\ made'.codes = made.codes /\ lapses' = lapses
      /\ request'[r] = [new EXCEPT !.n = made.requests + 1]
      /\ \A s \in Slots \ {r} : request'[s] = request[s]
  BY ComesRequest, Parts
<1>2. Turns(r) /\ Came(r)
  BY ComesTurns, Parts
<1>3. TypeOK'
  BY <1>1, Parts DEF TypeOK, database, process, ghosts
<1>4. /\ request'[r].at = new.at /\ request'[r].kind = new.kind /\ request'[r].mine = {}
      /\ request'[r].keys = new.keys /\ request'[r].from = new.from
  BY <1>1 DEF Request
<1>5. KindFits(request'[r])
  BY <1>4 DEF KindFits
<1>6. made.apps \in Nat /\ made.apps <= made'.apps
  BY <1>1, Parts DEF TypeOK
<1> QED
  BY <1>1, <1>2, <1>3, <1>4, <1>5, <1>6, Parts
  DEF Still, StillThrottle, StillFactor, StillCodes, StillSteps, StillSecret, StillGiven,
      Finishing, MayHold, database, process, ghosts

\* A request as it comes is one.
LEMMA AskedType ==
    ASSUME NEW kind \in Kinds, NEW at \in Places
    PROVE  /\ A(kind, at) \in Request
           /\ A(kind, at).at = at /\ A(kind, at).kind = kind /\ A(kind, at).mine = {}
<1>1. A(kind, at) = [Resting EXCEPT !.kind = kind, !.at = at] /\ Resting \in Request /\ Resting.mine = {}
  BY RestingType DEF A
<1> QED
  BY <1>1 DEF Request

\* A password comes.
LEMMA StillPassword ==
    ASSUME IInv, NEW r \in Slots, Password(r)
    PROVE  Still(r)
<1>1. PICK keys \in LoginKeys : Comes(r, [A("password", "reserve") EXCEPT !.keys = keys])
  BY DEF Password
<1>2. PICK new : new = [A("password", "reserve") EXCEPT !.keys = keys]
  OBVIOUS
<1>3. keys \in KeyLists
  BY SignInAssumption DEF KeyLists
<1>4. new \in Request /\ new.at = "reserve" /\ new.kind = "password" /\ new.mine = {} /\ new.keys = keys
  BY <1>2, <1>3, RestingType DEF A, Request, Places, Kinds, Resting
<1>5. KindFits(new)
  BY <1>4 DEF KindFits
<1> QED
  BY <1>1, <1>2, <1>4, <1>5, StillComes DEF Password

\* A poll, a reset or a gate comes.
LEMMA StillPoll ==
    ASSUME IInv, NEW r \in Slots, Poll(r) \/ Reset(r) \/ Gate(r)
    PROVE  Still(r)
<1>0. "quick" \in Kinds /\ "reset" \in Kinds /\ "gate" \in Kinds
      /\ "poll" \in Places /\ "remove" \in Places /\ "read" \in Places
  BY DEF Kinds, Places
<1>1. /\ A("quick", "poll") \in Request /\ A("quick", "poll").at = "poll"
      /\ A("quick", "poll").kind = "quick" /\ A("quick", "poll").mine = {}
      /\ A("reset", "remove") \in Request /\ A("reset", "remove").at = "remove"
      /\ A("reset", "remove").kind = "reset" /\ A("reset", "remove").mine = {}
      /\ A("gate", "read") \in Request /\ A("gate", "read").at = "read"
      /\ A("gate", "read").kind = "gate" /\ A("gate", "read").mine = {}
  BY <1>0, AskedType
<1>2. KindFits(A("quick", "poll")) /\ KindFits(A("reset", "remove")) /\ KindFits(A("gate", "read"))
  BY <1>1 DEF KindFits
<1>3. CASE Poll(r)
  BY <1>1, <1>2, <1>3, StillComes DEF Poll
<1>4. CASE Reset(r)
  BY <1>1, <1>2, <1>4, StillComes DEF Reset
<1>5. CASE Gate(r)
  BY <1>1, <1>2, <1>5, StillComes DEF Gate
<1> QED
  BY <1>3, <1>4, <1>5

\* What is sent from a session, or for a held sign-in.
LEMMA StillSent ==
    ASSUME IInv, NEW r \in Slots, SendCode(r) \/ AskRenew(r)
    PROVE  Still(r)
<1>1. live \subseteq Nat /\ \A s \in steps : s.n \in Nat
  BY Parts DEF TypeOK, Held
<1>2. CASE SendCode(r)
  <2>1. PICK s \in steps : Comes(r, [A("code", "count") EXCEPT !.from = s.n])
    BY <1>2 DEF SendCode
  <2>2. PICK new : new = [A("code", "count") EXCEPT !.from = s.n]
    OBVIOUS
  <2>3. new \in Request /\ new.at = "count" /\ new.kind = "code" /\ new.mine = {} /\ new.from = s.n
    BY <1>1, <2>2, RestingType DEF A, Request, Places, Kinds, Resting
  <2>4. KindFits(new)
    BY <2>3 DEF KindFits
  <2> QED
    BY <1>2, <2>1, <2>2, <2>3, <2>4, StillComes DEF SendCode
<1>3. CASE AskRenew(r)
  <2>1. PICK s \in live : Comes(r, [A("renew", "prove") EXCEPT !.from = s])
    BY <1>3 DEF AskRenew
  <2>2. PICK new : new = [A("renew", "prove") EXCEPT !.from = s]
    OBVIOUS
  <2>3. new \in Request /\ new.at = "prove" /\ new.kind = "renew" /\ new.mine = {}
    BY <1>1, <2>2, RestingType DEF A, Request, Places, Kinds, Resting
  <2>4. KindFits(new)
    BY <2>3 DEF KindFits
  <2> QED
    BY <1>3, <2>1, <2>2, <2>3, <2>4, StillComes DEF AskRenew
<1> QED
  BY <1>2, <1>3

\* What proves a change: a request at its reservations.
LEMMA ProofReserves ==
    ASSUME TypeOK, NEW q \in Request, NEW p \in ProofOf(q), q.kind \in {"start", "remove", "renew"}
    PROVE  /\ p \in Request /\ p.at = "reserve" /\ p.mine = q.mine /\ Same(p, q)
           /\ p.keys \in LoginKeys \cup {<<"2fa">>}
           /\ KindFits(p)
<1>1. LoginKeys \subseteq KeyLists /\ <<"2fa">> \in KeyLists
  BY SignInAssumption DEF KeyLists
<1>2. PICK keys \in LoginKeys \cup {<<"2fa">>} : p = [q EXCEPT !.at = "reserve", !.keys = keys]
  BY DEF ProofOf
<1>3. p \in Request /\ p.at = "reserve" /\ p.mine = q.mine /\ Same(p, q) /\ p.keys = keys
  BY <1>1, <1>2 DEF Request, Same, Places
<1> QED
  BY <1>3 DEF KindFits, Same

\* A change comes with its proof to reserve.
LEMMA StillChange ==
    ASSUME IInv, NEW r \in Slots, NEW kind \in {"start", "remove"}, Change(r, kind)
    PROVE  Still(r)
<1>1. PICK s \in live : \E q \in ProofOf([A(kind, "prove") EXCEPT !.from = s]) : Comes(r, q)
  BY DEF Change
<1>2. PICK q : q = [A(kind, "prove") EXCEPT !.from = s]
  OBVIOUS
<1>3. q \in Request /\ q.kind = kind /\ q.mine = {}
  <2>1. A(kind, "prove") \in Request /\ A(kind, "prove").kind = kind /\ A(kind, "prove").mine = {}
    <3>1. kind \in Kinds /\ "prove" \in Places
      BY DEF Kinds, Places
    <3> QED
      BY <3>1, AskedType
  <2>2. s \in Nat
    BY Parts DEF TypeOK
  <2> QED
    BY <1>2, <2>1, <2>2 DEF Request
<1>4. PICK p \in ProofOf(q) : Comes(r, p)
  BY <1>1, <1>2
<1>5. p \in Request /\ p.at = "reserve" /\ p.mine = {} /\ p.kind = kind /\ KindFits(p)
      /\ p.keys \in LoginKeys \cup {<<"2fa">>}
  BY <1>3, Parts, ProofReserves DEF Same
<1> QED
  BY <1>4, <1>5, StillComes DEF Change

\* The first code of an app comes.
LEMMA StillSendFirst ==
    ASSUME IInv, NEW r \in Slots, SendFirst(r)
    PROVE  Still(r)
<1>1. PICK s \in live, code \in Shown(app.id) :
         Comes(r, [A("confirm", "confirm") EXCEPT !.from = s, !.code = code])
  BY DEF SendFirst
<1>2. PICK new : new = [A("confirm", "confirm") EXCEPT !.from = s, !.code = code]
  OBVIOUS
<1>3. code \in Code /\ s \in Nat
  BY SignInAssumption, Parts DEF TypeOK, Shown, Code
<1>4. new \in Request /\ new.at = "confirm" /\ new.kind = "confirm" /\ new.mine = {}
  BY <1>2, <1>3, RestingType DEF A, Request, Places, Kinds, Resting
<1>5. KindFits(new)
  BY <1>4 DEF KindFits
<1> QED
  BY <1>1, <1>2, <1>4, <1>5, StillComes DEF SendFirst

\* A request that goes on, or rests, with nothing reserved.
Calm(r) ==
    /\ request' \in [Slots -> Request] /\ Turns(r) /\ KindFits(request'[r])
    /\ made'.requests = made.requests
    /\ \A s \in Slots \ {r} : request'[s].stale = request[s].stale
    /\ request'[r].mine = {}
    /\ request'[r].at \notin {"ask", "refund", "clear", "look", "take", "end", "connect"}
    /\ request'[r].at = "reserve" => request'[r].keys \in LoginKeys \cup {<<"2fa">>}
    /\ request'[r].at = "remember" => request'[r].saw = app.on
    /\ request'[r].at = "issue" => request'[r].kind # "code" /\ ~app.on
    /\ MayHold(request'[r]) => MayHold(request[r])

\* Where nothing is reserved.
Unreserved == Places \ {"reserve", "ask", "look", "take", "clear", "refund"}

\* A request that ends is calm.
LEMMA CalmRests ==
    ASSUME IInv, NEW r \in Slots, Rests(r), made'.requests = made.requests
    PROVE  Calm(r)
<1>1. request' \in [Slots -> Request] /\ Turns(r) /\ request'[r] = Resting
  BY RestsTurns, Parts
<1>2. \A s \in Slots \ {r} : request'[s] = request[s]
  BY Parts DEF Rests
<1>3. KindFits(Resting) /\ ~MayHold(Resting)
  BY RestingType DEF KindFits, MayHold
<1> QED
  BY <1>1, <1>2, <1>3, RestingType DEF Calm

\* Going on, with some of the other fields changed: `p` is what it becomes.
LEMMA CalmTurns ==
    ASSUME IInv, NEW r \in Slots, NEW p \in Request, request' = [request EXCEPT ![r] = p],
           made'.requests = made.requests,
           request[r].at \in Unreserved \ {"idle", "trim"},
           Same(p, request[r]), KindFits(p), p.mine = request[r].mine,
           p.at \notin {"idle", "ask", "refund", "clear", "look", "take", "end", "connect"},
           p.at = "reserve" => p.keys \in LoginKeys \cup {<<"2fa">>},
           p.at = "remember" => p.saw = app.on,
           p.at = "issue" => p.kind # "code" /\ ~app.on
    PROVE  Calm(r)
<1>1. request' \in [Slots -> Request] /\ request'[r] = p /\ \A s \in Slots \ {r} : request'[s] = request[s]
  BY Parts
<1>2. Turns(r)
  BY <1>1, Parts DEF Turns, WentOn, Alike, Same
<1>3. p.mine = {}
  BY Parts DEF Reserves, Unreserved
<1>4. MayHold(p) => MayHold(request[r])
  BY DEF MayHold, Same, Unreserved
<1> QED
  BY <1>1, <1>2, <1>3, <1>4 DEF Calm

\* So is one that goes on with nothing reserved.
LEMMA CalmGoes ==
    ASSUME IInv, NEW r \in Slots, NEW at \in Unreserved \ {"idle", "end", "connect", "remember"}, Goes(r, at),
           made'.requests = made.requests,
           request[r].at \in Unreserved \ {"idle", "trim"},
           KindFits([request[r] EXCEPT !.at = at]),
           at = "issue" => request[r].kind # "code" /\ ~app.on
    PROVE  Calm(r)
<1>1. PICK p : p = [request[r] EXCEPT !.at = at]
  OBVIOUS
<1>2. p \in Request /\ Same(p, request[r]) /\ p.mine = request[r].mine /\ p.at = at
  BY <1>1, Parts DEF Request, Unreserved, Same
<1>3. request' = [request EXCEPT ![r] = p]
  BY <1>1 DEF Goes
<1> QED
  BY <1>1, <1>2, <1>3, CalmTurns DEF Unreserved, Same

\* Where nothing else changes but held sign-ins and recovery codes, and those
\* only go or are counted, it leaves all else alone.
LEMMA StillCalm ==
    ASSUME IInv, NEW r \in Slots, Calm(r),
           UNCHANGED <<app, failures, live, process, made, lapses, ghosts>>,
           codes' \subseteq codes,
           steps' \subseteq Held, \A s \in steps' : \E t \in steps : s.n = t.n
    PROVE  Still(r)
<1>1. TypeOK'
  BY Parts DEF Calm, TypeOK, process, ghosts
<1>2. made.apps <= made.apps /\ app.id <= made.apps /\ (app.on => app.id # None)
  BY Parts DEF TypeOK
<1>3. ~Finishing(request'[r])
  BY DEF Calm, Finishing
<1>4. request'[r].kind = "code" => Same(request'[r], request[r])
  BY RestingType, Parts DEF Calm, Turns, Rested, WentOn, Came, TypeOK
<1> QED
  BY <1>1, <1>2, <1>3, <1>4
  DEF Still, StillThrottle, StillFactor, StillCodes, StillSteps, StillSecret, StillGiven,
      Calm, process, ghosts

\* A poll of a secret that is not approved ends.
LEMMA StillNotApproved ==
    ASSUME IInv, NEW r \in Slots, NotApproved(r)
    PROVE  Still(r)
<1>1. UNCHANGED <<database, process, world, ghosts>> /\ Calm(r)
  BY CalmRests DEF NotApproved, world
<1> QED
  BY <1>1, Parts, StillCalm DEF database, world, TypeOK

\* beginStep reads the factor.
LEMMA StillBegin ==
    ASSUME IInv, NEW r \in Slots, Begin(r)
    PROVE  Still(r)
<1>1. UNCHANGED <<database, process, world, ghosts>> /\ request[r].at = "begin"
  BY DEF Begin, At
<1>2. KindFits([request[r] EXCEPT !.at = "drop"]) /\ KindFits([request[r] EXCEPT !.at = "issue"])
      /\ request[r].kind # "code"
  BY <1>1, Parts DEF KindFits, Request
<1>3. Calm(r)
  BY <1>1, <1>2, CalmGoes DEF Begin, world, Unreserved, Places
<1> QED
  BY <1>1, <1>3, Parts, StillCalm DEF database, world, TypeOK

\* The browser's own held sign-in and the expired ones go.
LEMMA StillDropOwn ==
    ASSUME IInv, NEW r \in Slots, DropOwn(r)
    PROVE  Still(r)
<1>1. UNCHANGED <<app, codes, failures, live, process, world, ghosts>> /\ request[r].at = "drop"
      /\ steps' \subseteq steps
  BY DEF DropOwn, At
<1>2. KindFits([request[r] EXCEPT !.at = "hold"])
  BY <1>1, Parts DEF KindFits, Request
<1>3. Calm(r)
  BY <1>1, <1>2, CalmGoes DEF DropOwn, world, Unreserved, Places
<1> QED
  BY <1>1, <1>3, Parts, StillCalm DEF world, TypeOK

\* The oldest held sign-ins go, or one with too many attempts.
LEMMA StillTrim ==
    ASSUME IInv, NEW r \in Slots, Trim(r) \/ GiveUp(r)
    PROVE  Still(r)
<1>1. UNCHANGED <<app, codes, failures, live, process, world, ghosts>> /\ steps' \subseteq steps
  BY DEF Trim, GiveUp, Dropped
<1>2. Calm(r)
  BY CalmRests, <1>1 DEF Trim, GiveUp, world
<1> QED
  BY <1>1, <1>2, Parts, StillCalm DEF world, TypeOK

\* An attempt counted: the held sign-in keeps its number.
LEMMA CountSteps ==
    ASSUME IInv, NEW r \in Slots, Count(r)
    PROVE  steps' \subseteq Held /\ \A s \in steps' : \E t \in steps : s.n = t.n
<1>1. steps \subseteq Held
  BY Parts DEF TypeOK
<1>2. \A s \in steps' : s \in steps \/ \E t \in steps : s = [t EXCEPT !.attempts = @ + 1]
  BY DEF Count
<1>3. \A t \in steps : [t EXCEPT !.attempts = @ + 1] \in Held /\ [t EXCEPT !.attempts = @ + 1].n = t.n
  BY <1>1 DEF Held
<1> QED
  BY <1>1, <1>2, <1>3

\* An attempt is counted against its held sign-in.
LEMMA StillCount ==
    ASSUME IInv, NEW r \in Slots, Count(r)
    PROVE  Still(r)
<1>1. UNCHANGED <<app, codes, failures, live, process, world, ghosts>> /\ request[r].at = "count"
  BY DEF Count, At
<1>2. PICK at \in {"reserve", "give up"} :
         request' = [request EXCEPT ![r].keys = <<"2fa">>, ![r].at = at]
  BY DEF Count
<1>3. PICK p : p = [request[r] EXCEPT !.keys = <<"2fa">>, !.at = at]
  OBVIOUS
<1>4. at \in Places /\ <<"2fa">> \in KeyLists
  BY DEF Places, KeyLists
<1>5. p \in Request /\ Same(p, request[r]) /\ p.mine = request[r].mine /\ p.at = at /\ p.keys = <<"2fa">>
  BY <1>3, <1>4, Parts DEF Request, Same
<1>6. request' = [request EXCEPT ![r] = p]
  BY <1>2, <1>3, Parts
<1>7. KindFits(p)
  BY <1>1, <1>5, Parts DEF KindFits, Same
<1>8. Calm(r)
  BY <1>1, <1>5, <1>6, <1>7, CalmTurns DEF world, Unreserved, Places
<1> QED
  BY <1>1, <1>8, CountSteps, Parts, StillCalm DEF world, TypeOK

\* New recovery codes ask for a proof.
LEMMA StillProve ==
    ASSUME IInv, NEW r \in Slots, Prove(r)
    PROVE  Still(r)
<1>1. UNCHANGED <<database, process, world, ghosts>> /\ request[r].at = "prove"
  BY DEF Prove, At
<1>2. PICK p \in ProofOf(request[r]) : request' = [request EXCEPT ![r] = p]
  BY DEF Prove
<1>3. request[r].kind = "renew"
  BY <1>1, Parts DEF KindFits
<1>4. p \in Request /\ p.at = "reserve" /\ p.mine = request[r].mine /\ Same(p, request[r])
      /\ p.keys \in LoginKeys \cup {<<"2fa">>} /\ KindFits(p)
  BY <1>3, Parts, ProofReserves
<1>5. Calm(r)
  BY <1>1, <1>2, <1>4, CalmTurns DEF world, Unreserved, Places
<1> QED
  BY <1>1, <1>5, Parts, StillCalm DEF database, world, TypeOK

\* What a change reads leaves all alone.
LEMMA StillStart ==
    ASSUME IInv, NEW r \in Slots, Start(r) \/ HasCodes(r) \/ Bare(r)
    PROVE  Still(r)
<1>1. UNCHANGED <<database, process, world, ghosts>> /\ request[r].at \in {"start", "codes", "bare"}
  BY DEF Start, HasCodes, Bare, At
<1>2. \A at \in {"replace", "others", "renew", "changed", "drop codes"} : KindFits([request[r] EXCEPT !.at = at])
  BY Parts DEF KindFits, Request
<1>3. \/ Rests(r)
      \/ \E at \in {"replace", "others", "renew", "changed", "drop codes"} : Goes(r, at)
  BY DEF Start, HasCodes, Bare
<1>4. Calm(r)
  BY <1>1, <1>2, <1>3, CalmGoes, CalmRests DEF world, Unreserved, Places
<1> QED
  BY <1>1, <1>4, Parts, StillCalm DEF database, world, TypeOK

\* The recovery codes there were go.
LEMMA StillWipe ==
    ASSUME IInv, NEW r \in Slots, Wipe(r)
    PROVE  Still(r)
<1>1. UNCHANGED <<app, steps, failures, live, process, world, ghosts>> /\ request[r].at = "renew" /\ codes' = {}
  BY DEF Wipe, At
<1>2. PICK p : p = [request[r] EXCEPT !.at = "fill", !.left = RecoveryCount]
  OBVIOUS
<1>3. p \in Request /\ Same(p, request[r]) /\ p.mine = request[r].mine /\ p.at = "fill"
  <2>1. RecoveryCount \in Nat /\ "fill" \in Places
    BY SignInAssumption DEF Places
  <2> QED
    BY <1>2, <2>1, Parts DEF Request, Same
<1>4. request' = [request EXCEPT ![r] = p]
  BY <1>2, Parts DEF Wipe
<1>5. KindFits(p)
  BY <1>3 DEF KindFits
<1>6. Calm(r)
  BY <1>1, <1>3, <1>4, <1>5, CalmTurns DEF world, Unreserved, Places
<1> QED
  BY <1>1, <1>6, Parts, StillCalm DEF world, TypeOK

\* The recovery codes go with the factor, and after a reset the held sign-ins.
LEMMA StillDrops ==
    ASSUME IInv, NEW r \in Slots, DropCodes(r) \/ DropSteps(r)
    PROVE  Still(r)
<1>1. UNCHANGED <<app, failures, live, process, world, ghosts>> /\ request[r].at \in {"drop codes", "drop steps"}
      /\ codes' \subseteq codes /\ steps' \subseteq steps
  BY DEF DropCodes, DropSteps, At
<1>2. \A at \in {"drop steps", "changed"} : KindFits([request[r] EXCEPT !.at = at])
  BY Parts DEF KindFits, Request
<1>3. \E at \in {"drop steps", "changed"} : Goes(r, at)
  BY DEF DropCodes, DropSteps
<1>4. Calm(r)
  BY <1>1, <1>2, <1>3, CalmGoes DEF world, Unreserved, Places
<1> QED
  BY <1>1, <1>4, Parts, StillCalm DEF world, TypeOK

\* The factor is read, to be remembered.
LEMMA StillReadFactor ==
    ASSUME IInv, NEW r \in Slots, ReadFactor(r)
    PROVE  Still(r)
<1>1. UNCHANGED <<database, process, world, ghosts>> /\ request[r].at = "read"
  BY DEF ReadFactor, At
<1>2. PICK p : p = [request[r] EXCEPT !.at = "remember", !.saw = app.on]
  OBVIOUS
<1>3. app.on \in BOOLEAN /\ "remember" \in Places
  BY Parts DEF TypeOK, Places
<1>4. p \in Request /\ Same(p, request[r]) /\ p.mine = request[r].mine /\ p.at = "remember" /\ p.saw = app.on
  BY <1>2, <1>3, Parts DEF Request, Same
<1>5. request' = [request EXCEPT ![r] = p]
  BY <1>2, Parts DEF ReadFactor
<1>6. KindFits(p)
  BY <1>4 DEF KindFits
<1>7. Calm(r)
  BY <1>1, <1>4, <1>5, <1>6, CalmTurns DEF world, Unreserved, Places
<1> QED
  BY <1>1, <1>7, Parts, StillCalm DEF database, world, TypeOK

\* The app that is set up, or what was being set up gone.
LEMMA StillSetUp ==
    ASSUME IInv, NEW r \in Slots, Replace(r) \/ SetUp(r)
    PROVE  Still(r)
<1>1. UNCHANGED <<codes, steps, failures, live, process, lapses, ghosts>> /\ request[r].at \in {"replace", "set up"}
      /\ made'.requests = made.requests
  BY Parts DEF Replace, SetUp, At, world, TypeOK
<1>2. KindFits([request[r] EXCEPT !.at = "set up"])
  BY Parts DEF KindFits, Request
<1>3. Rests(r) \/ Goes(r, "set up")
  BY DEF Replace, SetUp
<1>4. Calm(r)
  BY <1>1, <1>2, <1>3, CalmGoes, CalmRests DEF Unreserved, Places
<1>5. app \in [id : Nat, on : BOOLEAN, last : Nat] /\ made \in [requests : Nat, apps : Nat, codes : Nat]
      /\ (app.on => app.id # None) /\ app.id <= made.apps
  BY Parts DEF TypeOK
<1>6. /\ app' \in [id : Nat, on : BOOLEAN, last : Nat] /\ made' \in [requests : Nat, apps : Nat, codes : Nat]
      /\ app'.on = app.on /\ app'.id <= made'.apps /\ (app'.on => app'.id # None)
      /\ made.apps <= made'.apps /\ made'.codes = made.codes
      /\ UNCHANGED app \/ app'.id = None \/ app'.id = made.apps + 1
  <2>1. \/ app' = app /\ made' = made
        \/ ~app.on /\ app' = [app EXCEPT !.id = 0] /\ made' = made
        \/ ~app.on /\ app' = [id |-> made.apps + 1, on |-> FALSE, last |-> 0]
                   /\ made' = [made EXCEPT !.apps = @ + 1]
    BY <1>5 DEF Replace, SetUp, world, None
  <2>2. CASE app' = app /\ made' = made
    <3>1. made.apps <= made.apps
      BY <1>5
    <3> QED
      BY <1>5, <2>2, <3>1
  <2>3. CASE ~app.on /\ app' = [app EXCEPT !.id = 0] /\ made' = made
    <3>1. app' \in [id : Nat, on : BOOLEAN, last : Nat] /\ app'.id = 0 /\ app'.on = app.on
      BY <1>5, <2>3
    <3>2. made.apps <= made.apps /\ 0 <= made.apps
      BY <1>5
    <3> QED
      BY <1>5, <2>3, <3>1, <3>2 DEF None
  <2>4. CASE /\ ~app.on /\ app' = [id |-> made.apps + 1, on |-> FALSE, last |-> 0]
             /\ made' = [made EXCEPT !.apps = @ + 1]
    <3>1. made.apps \in Nat /\ app.on \in BOOLEAN
      BY <1>5
    <3>2. made' \in [requests : Nat, apps : Nat, codes : Nat] /\ made'.apps = made.apps + 1
          /\ made'.codes = made.codes
      BY <1>5, <2>4
    <3>3. app' \in [id : Nat, on : BOOLEAN, last : Nat]
      BY <3>1, <2>4
    <3>4. app'.on = FALSE /\ app'.id = made.apps + 1
      BY <2>4
    <3>5. app'.on = app.on
      BY <3>1, <3>4, <2>4
    <3>6. app'.id <= made'.apps /\ made.apps <= made'.apps /\ (app'.on => app'.id # None)
      BY <3>1, <3>2, <3>4
    <3> QED
      BY <3>2, <3>3, <3>4, <3>5, <3>6
  <2> QED
    BY <2>1, <2>2, <2>3, <2>4
<1>7. TypeOK'
  BY <1>1, <1>4, <1>6, Parts DEF Calm, TypeOK, process, ghosts
<1>8. ~Finishing(request'[r]) /\ (request'[r].kind = "code" => Same(request'[r], request[r]))
  BY <1>4, <1>5, RestingType DEF Calm, Finishing, Turns, Rested, WentOn, Came
<1> QED
  BY <1>1, <1>4, <1>6, <1>7, <1>8
  DEF Still, StillThrottle, StillFactor, StillCodes, StillSteps, StillSecret, StillGiven,
      Calm, process, ghosts

\* What is remembered is dropped.
LEMMA StillChanged ==
    ASSUME IInv, NEW r \in Slots, Confirmed(r) \/ Removed(r)
    PROVE  Still(r)
<1>1. UNCHANGED <<database, claimed, world, judged, accepted, sessions, connected>>
      /\ request[r].at \in {"confirmed", "changed"}
      /\ held' = Nothing /\ settled' = [settled EXCEPT !.held = TRUE]
  BY DEF Confirmed, Removed, Changed, Forgotten, At
<1>2. \A at \in {"codes", "others"} : KindFits([request[r] EXCEPT !.at = at])
  BY Parts DEF KindFits, Request
<1>3. Goes(r, "codes") \/ Goes(r, "others")
  BY DEF Confirmed, Removed, Changed
<1>4. Calm(r)
  BY <1>1, <1>2, <1>3, CalmGoes DEF Unreserved, Places, world
<1>5. settled \in [by : Nat, own : Nat, sessions : BOOLEAN, held : BOOLEAN]
      /\ (app.on => app.id # None) /\ app.id <= made.apps
      /\ made \in [requests : Nat, apps : Nat, codes : Nat] /\ made' = made
  BY <1>1, Parts DEF TypeOK, world
<1>6. /\ settled' \in [by : Nat, own : Nat, sessions : BOOLEAN, held : BOOLEAN]
      /\ settled'.by = settled.by /\ settled'.own = settled.own /\ settled'.sessions = settled.sessions
      /\ held' \in [is : {"nothing", "on", "off"}, late : BOOLEAN] /\ held'.is = "nothing"
      /\ made.apps <= made'.apps
  <2>1. held' = [is |-> "nothing", late |-> FALSE]
    BY <1>1 DEF Nothing
  <2>2. settled' \in [by : Nat, own : Nat, sessions : BOOLEAN, held : BOOLEAN]
        /\ settled'.by = settled.by /\ settled'.own = settled.own /\ settled'.sessions = settled.sessions
    BY <1>1, <1>5
  <2> QED
    BY <1>5, <2>1, <2>2
<1>7. TypeOK'
  BY <1>1, <1>4, <1>6, Parts DEF Calm, TypeOK, database, world
<1>8. ~Finishing(request'[r]) /\ (request'[r].kind = "code" => Same(request'[r], request[r]))
  BY <1>4, <1>5, RestingType DEF Calm, Finishing, Turns, Rested, WentOn, Came
<1> QED
  BY <1>1, <1>4, <1>5, <1>6, <1>7, <1>8
  DEF Still, StillThrottle, StillFactor, StillCodes, StillSteps, StillSecret, StillGiven,
      Calm, database, world

\* Such a step keeps the whole invariant.
LEMMA KeepsStill ==
    ASSUME IInv, NEW r \in Slots, Still(r)
    PROVE  IInv'
<1>1. Numbered' /\ KindsFit'
  BY KeepsNumbered, KeepsKinds DEF Still
<1>2. (Reserving /\ CountHolds /\ LetThrough)'
  BY KeepsThrottle DEF Still
<1>3. (AppFits /\ SawTrue /\ FactorRemembered)'
  BY KeepsFactor DEF Still
<1>4. (CodesGone /\ CodesOnce)'
  BY KeepsCodes DEF Still
<1>5. (HeldFits /\ StepsOnce)' /\ SessionsOver' /\ SecretOnce'
  BY KeepsSteps, KeepsSessionsOver, KeepsSecret DEF Still, StillSteps
<1>6. (OnTheWay /\ ChangeOwn /\ EndsAll /\ FactorGiven)'
  BY KeepsGiven DEF Still
<1> QED
  BY <1>1, <1>2, <1>3, <1>4, <1>5, <1>6 DEF IInv, Still

-----------------------------------------------------------------------------
(* The throttle *)

\* What counting a key, and taking a code, leaves alone.
LEMMA StillRest ==
    ASSUME IInv, NEW r \in Slots, Turns(r), app'.on = app.on, app'.id = app.id,
           UNCHANGED <<steps, live, process, made, sessions, connected, settled>>,
           Same(request'[r], request[r]) \/ request'[r] = Resting,
           request'[r].at \notin {"remember", "end", "connect", "issue"},
           request[r].at # "trim"
    PROVE  StillFactor(r) /\ StillSteps(r) /\ StillSecret(r) /\ StillGiven(r)
<1>1. app.id <= made.apps /\ (app.on => app.id # None)
  BY Parts
<1>2. ~Finishing(request'[r]) /\ (request'[r].kind = "code" => Same(request'[r], request[r]))
  BY RestingType DEF Finishing
<1>3. MayHold(request'[r]) => MayHold(request[r])
  BY RestingType DEF MayHold, Same
<1> QED
  BY <1>1, <1>2, <1>3 DEF StillFactor, StillSteps, StillSecret, StillGiven, process

\* A step of the counts alone leaves the codes, too.
LEMMA StillElse ==
    ASSUME IInv, NEW r \in Slots, Turns(r),
           UNCHANGED <<app, codes, steps, live, process, made, accepted, sessions, connected, settled>>,
           Same(request'[r], request[r]) \/ request'[r] = Resting,
           request'[r].at \notin {"remember", "end", "connect", "issue"},
           request[r].at # "trim"
    PROVE  StillFactor(r) /\ StillCodes /\ StillSteps(r) /\ StillSecret(r) /\ StillGiven(r)
<1>1. made.apps \in Nat /\ made.apps <= made.apps
  BY Parts DEF TypeOK
<1>2. StillCodes
  BY <1>1 DEF StillCodes
<1> QED
  BY <1>2, StillRest

\* Such a step keeps the invariant, if it does its part of it.
LEMMA KeepsTaking ==
    ASSUME IInv, NEW r \in Slots, Turns(r), TypeOK', KindFits(request'[r]), Reserves(request'[r]),
           CountHolds', LetThrough', CodesGone', CodesOnce',
           StillFactor(r), StillSteps(r), StillSecret(r), StillGiven(r)
    PROVE  IInv'
<1>1. Numbered' /\ KindsFit'
  BY KeepsNumbered, KeepsKinds
<1>2. Reserving'
  BY OthersFit DEF Reserving
<1>3. (AppFits /\ SawTrue /\ FactorRemembered)'
  BY KeepsFactor
<1>4. (HeldFits /\ StepsOnce)' /\ SessionsOver' /\ SecretOnce'
  BY KeepsSteps, KeepsSessionsOver, KeepsSecret DEF StillSteps
<1>5. (OnTheWay /\ ChangeOwn /\ EndsAll /\ FactorGiven)'
  BY KeepsGiven
<1> QED
  BY <1>1, <1>2, <1>3, <1>4, <1>5 DEF IInv

\* A step that moves a reservation and leaves the rest keeps the invariant.
LEMMA KeepsThrottling ==
    ASSUME IInv, NEW r \in Slots, Turns(r), TypeOK', KindFits(request'[r]), Reserves(request'[r]),
           CountHolds', LetThrough',
           StillFactor(r), StillCodes, StillSteps(r), StillSecret(r), StillGiven(r)
    PROVE  IInv'
<1>1. (CodesGone /\ CodesOnce)'
  BY KeepsCodes
<1> QED
  BY <1>1, KeepsTaking

\* One reservation more, and one fewer.
LEMMA OneMore ==
    ASSUME NEW T, IsFiniteSet(T), NEW S, NEW r, S \subseteq T \cup {r}
    PROVE  Cardinality(S) <= Cardinality(T) + 1
<1>1. IsFiniteSet(T \cup {r}) /\ Cardinality(T) \in Nat
      /\ Cardinality(T \cup {r}) \in {Cardinality(T), Cardinality(T) + 1}
  BY FS_AddElement, FS_CardinalityType
<1>2. Cardinality(S) <= Cardinality(T \cup {r}) /\ IsFiniteSet(S)
  BY <1>1, FS_Subset
<1>3. Cardinality(S) \in Nat
  BY <1>2, FS_CardinalityType
<1> QED
  BY <1>1, <1>2, <1>3

\* A subset without one of the members has one fewer at least.
LEMMA OneFewer ==
    ASSUME NEW T, IsFiniteSet(T), NEW S, NEW r \in T, S \subseteq T \ {r}
    PROVE  Cardinality(S) + 1 <= Cardinality(T)
<1>1. IsFiniteSet(T \ {r}) /\ Cardinality(T) \in Nat /\ Cardinality(T \ {r}) = Cardinality(T) - 1
  BY FS_RemoveElement, FS_CardinalityType
<1>2. Cardinality(S) <= Cardinality(T \ {r}) /\ IsFiniteSet(S)
  BY <1>1, FS_Subset
<1>3. Cardinality(S) \in Nat
  BY <1>2, FS_CardinalityType
<1> QED
  BY <1>1, <1>2, <1>3

\* The numbers of a key.
LEMMA KeyNumbers ==
    ASSUME IInv, NEW key \in Keys
    PROVE  /\ judged[key] \in [wrong : Nat, carried : Nat]
           /\ judged[key].wrong \in Nat /\ judged[key].carried \in Nat
           /\ failures[key] \in Nat \cup {NoRow}
           /\ Limit[key] \in Nat
           /\ judged[key].wrong + Cardinality(Reserved(key)) <= Value(failures[key]) + judged[key].carried
           /\ judged[key].wrong + Cardinality(Hopeful(key)) <= Limit[key] + judged[key].carried
BY SignInAssumption DEF IInv, TypeOK, CountHolds, LetThrough

\* The sequences of keys there are, and what is left of them.
LEMMA KeyTails ==
    /\ Head(<<"user", "addr">>) = "user" /\ Tail(<<"user", "addr">>) = <<"addr">>
    /\ <<"addr">> # <<>>
    /\ \A key : Head(<<key>>) = key /\ Tail(<<key>>) = <<>>
<1>1. Tail(<<"user", "addr">>) = <<"addr">>
  OBVIOUS
<1>2. \A key : Tail(<<key>>) = <<>>
  OBVIOUS
<1>3. \A key : Head(<<key>>) = key
  OBVIOUS
<1>4. <<"addr">> # <<>>
  OBVIOUS
<1>5. Head(<<"user", "addr">>) = "user"
  OBVIOUS
<1> QED
  BY <1>1, <1>2, <1>3, <1>4, <1>5

\* What a reservation makes of the request: `t`.
LEMMA ReserveNext ==
    ASSUME IInv, NEW r \in Slots, NEW over \in BOOLEAN, Reserve(r, over)
    PROVE  LET q == request[r]
               key == Head(q.keys)
               anew == over \/ failures[key] = NoRow
               count == IF anew THEN 1 ELSE failures[key] + 1 IN
           /\ key \in Keys /\ key \notin q.mine
           /\ \E t \in Request :
                 /\ request' = [(IF anew THEN Again(key) ELSE request) EXCEPT ![r] = t]
                 /\ KindFits(t) /\ Reserves(t)
                 /\ t.at \in {"idle", "reserve", "ask", "look"}
                 /\ \/ t = Resting
                    \/ /\ Same(t, q) /\ t.at # "idle" /\ t.mine = q.mine \cup {key} /\ t.stale = q.stale
                       /\ ~t.refused => ~q.refused /\ Allowed(key, count)
<1> DEFINE q == request[r]
           key == Head(q.keys)
           anew == over \/ failures[key] = NoRow
           count == IF anew THEN 1 ELSE failures[key] + 1
           p == [q EXCEPT !.keys = Tail(@), !.mine = @ \cup {key}, !.refused = @ \/ ~Allowed(key, count)]
           t == IF p.keys # <<>> THEN p ELSE IF p.refused THEN Resting ELSE [p EXCEPT !.at = Permitted(p)]
<1>1. q \in Request /\ q.at = "reserve" /\ KindFits(q) /\ Reserves(q)
  BY Parts DEF Reserve, At
<1>2. LoginKeys \subseteq {<<"user", "addr">>, <<"user">>, <<"device">>}
  BY SignInAssumption
<1>3. \/ q.keys = <<"user", "addr">> /\ q.mine = {} /\ <<"user", "addr">> \in LoginKeys
      \/ q.keys = <<"user">> /\ q.mine = {} /\ <<"user">> \in LoginKeys
      \/ q.keys = <<"device">> /\ q.mine = {} /\ <<"device">> \in LoginKeys
      \/ q.keys = <<"2fa">> /\ q.mine = {}
      \/ q.keys = <<"addr">> /\ q.mine = {"user"} /\ <<"user", "addr">> \in LoginKeys
  BY <1>1, <1>2 DEF Reserves
<1>4. \/ /\ q.keys = <<"user", "addr">> /\ q.mine = {} /\ <<"user", "addr">> \in LoginKeys
         /\ key = "user" /\ Tail(q.keys) = <<"addr">>
      \/ /\ q.mine = {} /\ <<key>> \in LoginKeys /\ key \in {"user", "device"} /\ Tail(q.keys) = <<>>
      \/ /\ q.mine = {} /\ key = "2fa" /\ Tail(q.keys) = <<>>
      \/ /\ q.mine = {"user"} /\ <<"user", "addr">> \in LoginKeys /\ key = "addr" /\ Tail(q.keys) = <<>>
  <2>1. CASE q.keys = <<"user", "addr">>
    BY <1>3, <2>1, KeyTails
  <2>2. CASE q.keys # <<"user", "addr">>
    <3>1. PICK k \in Keys : q.keys = <<k>> /\ (k = "addr" => q.mine = {"user"} /\ <<"user", "addr">> \in LoginKeys)
                            /\ (k # "addr" => q.mine = {}) /\ (k \in {"user", "device"} => <<k>> \in LoginKeys)
      BY <1>3, <2>2 DEF Keys
    <3>2. key = k /\ Tail(q.keys) = <<>>
      BY <3>1, KeyTails
    <3> QED
      BY <3>1, <3>2 DEF Keys
  <2> QED
    BY <2>1, <2>2
<1>5. key \in Keys /\ key \notin q.mine /\ Tail(q.keys) \in KeyLists
  BY <1>4 DEF Keys, KeyLists
<1>6. request' = [(IF anew THEN Again(key) ELSE request) EXCEPT ![r] = t]
  BY DEF Reserve
<1>7. q.refused \in BOOLEAN /\ Allowed(key, count) \in BOOLEAN
  BY <1>1 DEF Request, Allowed
<1> HIDE DEF count, anew, key, q
<1>8. p \in Request
  BY <1>1, <1>5, <1>7 DEF Request
<1>9. /\ p.keys = Tail(q.keys) /\ p.mine = q.mine \cup {key} /\ p.at = "reserve" /\ Same(p, q)
      /\ p.stale = q.stale /\ (p.refused <=> q.refused \/ ~Allowed(key, count))
  BY <1>1, <1>7 DEF Request, Same
<1>10. PICK pp : pp = p
  OBVIOUS
<1>11. /\ pp \in Request /\ pp.keys = Tail(q.keys) /\ pp.mine = q.mine \cup {key} /\ pp.at = "reserve"
       /\ Same(pp, q) /\ pp.stale = q.stale /\ (pp.refused <=> q.refused \/ ~Allowed(key, count))
  BY <1>8, <1>9, <1>10
<1>12. t = IF pp.keys # <<>> THEN pp ELSE IF pp.refused THEN Resting ELSE [pp EXCEPT !.at = Permitted(pp)]
  BY <1>10
<1> HIDE DEF p, t
<1>13. CASE pp.keys # <<>>
  <2>1. Tail(q.keys) = <<"addr">> /\ q.mine = {} /\ key = "user" /\ <<"user", "addr">> \in LoginKeys
    BY <1>4, <1>11, <1>13
  <2>2. Reserves(pp)
    BY <1>11, <2>1 DEF Reserves
  <2>3. KindFits(pp)
    BY <1>1, <1>11 DEF KindFits, Same
  <2>4. t = pp
    BY <1>12, <1>13
  <2> QED
    BY <1>5, <1>6, <1>11, <2>2, <2>3, <2>4 DEF q, key, anew, count
<1>14. CASE pp.keys = <<>> /\ pp.refused
  <2>1. t = Resting
    BY <1>12, <1>14
  <2>2. Reserves(Resting) /\ KindFits(Resting)
    BY RestingType DEF Reserves, KindFits
  <2> QED
    BY <1>5, <1>6, <2>1, <2>2, RestingType DEF q, key, anew, count
<1>15. CASE pp.keys = <<>> /\ ~pp.refused
  <2>1. t = [pp EXCEPT !.at = Permitted(pp)]
    BY <1>12, <1>15
  <2>2. Permitted(pp) = (IF "2fa" \in pp.mine THEN "look" ELSE "ask") /\ Permitted(pp) \in {"look", "ask"}
    BY DEF Permitted
  <2>3. /\ t \in Request /\ t.at = Permitted(pp) /\ Same(t, q) /\ t.mine = q.mine \cup {key}
        /\ t.stale = q.stale /\ t.refused = pp.refused
    BY <1>11, <2>1, <2>2 DEF Request, Same, Places
  <2>4. \/ /\ q.mine = {} /\ <<key>> \in LoginKeys /\ key \in {"user", "device"}
        \/ /\ q.mine = {} /\ key = "2fa"
        \/ /\ q.mine = {"user"} /\ <<"user", "addr">> \in LoginKeys /\ key = "addr"
    BY <1>4, <1>11, <1>15, KeyTails
  <2>5. KeysOf(<<key>>) = {key} /\ KeysOf(<<"user", "addr">>) = {"user", "addr"}
    BY DEF KeysOf
  <2>6. \/ t.at = "ask" /\ \E keys \in LoginKeys : t.mine = KeysOf(keys)
        \/ t.at = "look" /\ t.mine = {"2fa"}
    BY <1>11, <2>2, <2>3, <2>4, <2>5
  <2>7. Reserves(t)
    BY <2>3, <2>6, <1>15 DEF Reserves
  <2>8. KindFits(t)
    BY <1>1, <2>2, <2>3 DEF KindFits, Same
  <2>9. ~q.refused /\ Allowed(key, count)
    BY <1>7, <1>11, <1>15
  <2> QED
    BY <1>5, <1>6, <2>2, <2>3, <2>7, <2>8, <2>9 DEF q, key, anew, count
<1> QED
  BY <1>13, <1>14, <1>15

\* A count that begins again leaves the reservations before it, stale.
LEMMA AgainFacts ==
    ASSUME IInv, NEW key \in Keys
    PROVE  /\ Again(key) \in [Slots -> Request]
           /\ \A s \in Slots : /\ Alike(Again(key)[s], request[s])
                               /\ Again(key)[s].stale = IF key \in request[s].mine THEN request[s].stale \cup {key}
                                                        ELSE request[s].stale
<1>1. request \in [Slots -> Request]
  BY DEF IInv, TypeOK
<1>2. \A s \in Slots : /\ [request[s] EXCEPT !.stale = @ \cup {key}] \in Request
                       /\ Alike([request[s] EXCEPT !.stale = @ \cup {key}], request[s])
                       /\ [request[s] EXCEPT !.stale = @ \cup {key}].stale = request[s].stale \cup {key}
  BY <1>1 DEF Request, Alike, Same
<1>3. \A s \in Slots : Alike(request[s], request[s])
  BY DEF Alike, Same
<1> QED
  BY <1>1, <1>2, <1>3 DEF Again

\* A reservation is in its count, and one that goes on was let through.
LEMMA KeepsReserve ==
    ASSUME IInv, NEW r \in Slots, NEW over \in BOOLEAN, Reserve(r, over)
    PROVE  IInv'
<1> DEFINE q0 == request[r]
           key0 == Head(q0.keys)
           anew0 == over \/ failures[key0] = NoRow
           count0 == IF anew0 THEN 1 ELSE failures[key0] + 1
<1>0. /\ key0 \in Keys
      /\ \E t \in Request :
            /\ request' = [(IF anew0 THEN Again(key0) ELSE request) EXCEPT ![r] = t]
            /\ KindFits(t) /\ Reserves(t)
            /\ t.at \in {"idle", "reserve", "ask", "look"}
            /\ \/ t = Resting
               \/ /\ Same(t, q0) /\ t.at # "idle" /\ t.mine = q0.mine \cup {key0} /\ t.stale = q0.stale
                  /\ ~t.refused => ~q0.refused /\ Allowed(key0, count0)
  BY ReserveNext
<1>1. PICK key \in Keys, anew \in BOOLEAN, count \in Nat, t \in Request :
         /\ key = Head(request[r].keys)
         /\ anew <=> (over \/ failures[key] = NoRow)
         /\ count = IF anew THEN 1 ELSE failures[key] + 1
         /\ request' = [(IF anew THEN Again(key) ELSE request) EXCEPT ![r] = t]
         /\ KindFits(t) /\ Reserves(t)
         /\ t.at \in {"idle", "reserve", "ask", "look"}
         /\ \/ t = Resting
            \/ /\ Same(t, request[r]) /\ t.at # "idle" /\ t.stale = request[r].stale
               /\ t.mine = request[r].mine \cup {key}
               /\ ~t.refused => ~request[r].refused /\ Allowed(key, count)
  <2>1. anew0 \in BOOLEAN
    OBVIOUS
  <2> HIDE DEF anew0, count0
  <2>2. count0 = IF anew0 THEN 1 ELSE failures[key0] + 1
    BY DEF count0
  <2>3. anew0 <=> (over \/ failures[key0] = NoRow)
    BY DEF anew0
  <2>4. PICK t \in Request :
           /\ request' = [(IF anew0 THEN Again(key0) ELSE request) EXCEPT ![r] = t]
           /\ KindFits(t) /\ Reserves(t)
           /\ t.at \in {"idle", "reserve", "ask", "look"}
           /\ \/ t = Resting
              \/ /\ Same(t, q0) /\ t.at # "idle" /\ t.mine = q0.mine \cup {key0} /\ t.stale = q0.stale
                 /\ ~t.refused => ~q0.refused /\ Allowed(key0, count0)
    BY <1>0 DEF anew0, count0
  <2>5. key0 \in Keys /\ q0 = request[r] /\ key0 = Head(request[r].keys)
    BY <1>0
  <2>6. count0 \in Nat
    BY <1>0, <2>2, <2>3, KeyNumbers DEF NoRow
  <2> HIDE DEF q0, key0
  <2> USE <2>1, <2>4, <2>5, <2>6
  <2> WITNESS key0 \in Keys, anew0 \in BOOLEAN, count0 \in Nat, t \in Request
  <2> QED
    BY <2>2, <2>3
<1> HIDE DEF q0, key0, anew0, count0
<1>2. request \in [Slots -> Request] /\ request[r].n # 0 /\ (~anew => failures[key] # NoRow)
  BY <1>1, Parts DEF Reserve, At
<1>3. /\ UNCHANGED <<app, codes, steps, live, process, made, accepted, sessions, connected, settled>>
      /\ failures' = [failures EXCEPT ![key] = count]
      /\ judged' = IF anew THEN [judged EXCEPT ![key] = Fresh] ELSE judged
      /\ lapses' = lapses \/ lapses' = lapses + 1
      /\ request[r].at = "reserve"
  BY <1>1 DEF Reserve, Passes, At
<1>6. Again(key) \in [Slots -> Request]
      /\ \A s \in Slots : /\ Alike(Again(key)[s], request[s])
                          /\ Again(key)[s].stale = IF key \in request[s].mine THEN request[s].stale \cup {key}
                                                   ELSE request[s].stale
  BY AgainFacts
<1>7. /\ request' \in [Slots -> Request] /\ request'[r] = t
      /\ \A s \in Slots \ {r} : request'[s] = IF anew THEN Again(key)[s] ELSE request[s]
  BY <1>1, <1>2, <1>6
<1>8. \A s \in Slots \ {r} :
         /\ Alike(request'[s], request[s])
         /\ anew /\ key \in request[s].mine => key \in request'[s].stale
  <2>1. \A s \in Slots : Alike(request[s], request[s])
    BY DEF Alike, Same
  <2> QED
    BY <1>1, <1>6, <1>7, <2>1
<1>81. \A s \in Slots \ {r} :
          /\ request'[s].mine = request[s].mine /\ request[s].stale \subseteq request'[s].stale
          /\ request'[s].refused = request[s].refused
          /\ anew /\ key \in request[s].mine => key \in request'[s].stale
  BY <1>8 DEF Alike
<1>9. Turns(r)
  <2>1. Rested(r) \/ WentOn(r)
    BY <1>1, <1>2, <1>3, <1>7 DEF Rested, WentOn
  <2> QED
    BY <1>8, <2>1 DEF Turns
<1>11. TypeOK'
  <2>1. failures' \in [Keys -> Nat \cup {NoRow}]
    BY <1>1, <1>3, Parts DEF TypeOK
  <2>2. judged' \in [Keys -> [wrong : Nat, carried : Nat]]
    BY <1>3, Parts DEF TypeOK, Fresh
  <2>3. lapses' \in Nat
    BY <1>3, Parts DEF TypeOK
  <2> QED
    BY <1>3, <1>7, <2>1, <2>2, <2>3, Parts DEF TypeOK, process
<1>12. \A k \in Keys \ {key} : /\ Reserved(k)' \subseteq Reserved(k) /\ Hopeful(k)' \subseteq Hopeful(k)
  <2>1. t = Resting \/ (t.stale = request[r].stale /\ t.mine = request[r].mine \cup {key}
                         /\ (~t.refused => ~request[r].refused))
    BY <1>1
  <2> QED
    BY <1>7, <1>81, <2>1, RestingType DEF Reserved, Hopeful
<1>13. \A k \in Keys \ {key} : failures'[k] = failures[k] /\ judged'[k] = judged[k]
  BY <1>1, <1>3, Parts DEF TypeOK
<1>14. \A k \in Keys \ {key} :
          /\ judged'[k].wrong + Cardinality(Reserved(k)') <= Value(failures'[k]) + judged'[k].carried
          /\ judged'[k].wrong + Cardinality(Hopeful(k)') <= Limit[k] + judged'[k].carried
  BY <1>12, <1>13, KeyStill
<1>15. failures'[key] = count /\ judged'[key] = (IF anew THEN Fresh ELSE judged[key])
  BY <1>1, <1>3, Parts DEF TypeOK
<1>16. /\ Cardinality(Reserved(key)) \in Nat /\ Cardinality(Hopeful(key)) \in Nat
       /\ Cardinality(Reserved(key)') \in Nat /\ Cardinality(Hopeful(key)') \in Nat
       /\ IsFiniteSet(Reserved(key)) /\ IsFiniteSet(Reserved(key)')
  BY ReservedFinite, ReservedNextFinite
<1>17. Hopeful(key)' \subseteq Reserved(key)'
  BY DEF Hopeful
<1>18. Cardinality(Hopeful(key)') <= Cardinality(Reserved(key)')
  BY <1>16, <1>17, FS_Subset
<1>19. judged'[key].wrong + Cardinality(Reserved(key)') <= Value(failures'[key]) + judged'[key].carried
  <2>1. CASE anew
    <3>1. Reserved(key)' \subseteq {} \cup {r}
      BY <1>81, <2>1 DEF Reserved
    <3>2. Cardinality(Reserved(key)') <= 1
      BY <3>1, OneMore, FS_EmptySet
    <3> QED
      BY <1>1, <1>15, <1>16, <2>1, <3>2 DEF Fresh, Value, NoRow
  <2>2. CASE ~anew
    <3>1. Reserved(key)' \subseteq Reserved(key) \cup {r}
      BY <1>81 DEF Reserved
    <3>2. Cardinality(Reserved(key)') <= Cardinality(Reserved(key)) + 1
      BY <1>16, <3>1, OneMore
    <3>3. Value(failures[key]) = failures[key] /\ Value(failures'[key]) = failures[key] + 1
          /\ failures[key] \in Nat
      BY <1>1, <1>2, <1>15, <2>2, KeyNumbers DEF Value, NoRow
    <3> QED
      BY <1>1, <1>15, <1>16, <2>2, <3>2, <3>3, KeyNumbers
  <2> QED
    BY <2>1, <2>2
<1>20. judged'[key].wrong + Cardinality(Hopeful(key)') <= Limit[key] + judged'[key].carried
  <2>1. judged'[key].wrong \in Nat /\ judged'[key].carried \in Nat /\ Limit[key] \in Nat
    BY <1>1, <1>15, KeyNumbers DEF Fresh
  <2>2. CASE r \in Hopeful(key)'
    <3>1. Allowed(key, count)
      BY <1>1, <1>7, <2>2, RestingType DEF Hopeful, Reserved
    <3>2. Value(failures'[key]) <= Limit[key]
      BY <1>1, <1>15, <3>1 DEF Allowed, Value, NoRow
    <3>3. Value(failures'[key]) \in Nat
      BY <1>1, <1>15 DEF Value
    <3> QED
      BY <1>16, <1>18, <1>19, <2>1, <3>2, <3>3
  <2>3. CASE r \notin Hopeful(key)' /\ anew
    <3>1. Hopeful(key)' = {}
      BY <1>81, <2>3 DEF Hopeful, Reserved
    <3>2. Cardinality(Hopeful(key)') = 0
      BY <3>1, FS_EmptySet
    <3> QED
      BY <1>15, <2>1, <2>3, <3>2 DEF Fresh
  <2>4. CASE r \notin Hopeful(key)' /\ ~anew
    <3>1. Hopeful(key)' \subseteq Hopeful(key)
      BY <1>81, <2>4 DEF Hopeful, Reserved
    <3>2. Cardinality(Hopeful(key)') <= Cardinality(Hopeful(key))
      BY <3>1, ReservedFinite, FS_Subset
    <3> QED
      BY <1>1, <1>15, <1>16, <2>4, <3>2, KeyNumbers
  <2> QED
    BY <2>2, <2>3, <2>4
<1>21. CountHolds' /\ LetThrough'
  <2> SUFFICES ASSUME NEW k \in Keys
               PROVE  /\ judged'[k].wrong + Cardinality(Reserved(k)') <= Value(failures'[k]) + judged'[k].carried
                      /\ judged'[k].wrong + Cardinality(Hopeful(k)') <= Limit[k] + judged'[k].carried
    BY DEF CountHolds, LetThrough
  <2>1. CASE k = key
    BY <1>19, <1>20, <2>1
  <2> QED
    BY <1>14, <2>1
<1>22. StillFactor(r) /\ StillCodes /\ StillSteps(r) /\ StillSecret(r) /\ StillGiven(r)
  <2>1. request'[r].at \notin {"remember", "end", "connect", "issue"} /\ request[r].at # "trim"
        /\ (Same(request'[r], request[r]) \/ request'[r] = Resting)
    BY <1>1, <1>3, <1>7
  <2> QED
    BY <1>3, <1>9, <2>1, StillElse
<1> QED
  BY <1>1, <1>7, <1>9, <1>11, <1>21, <1>22, KeepsThrottling

\* A request whose password or code was wrong ends: what was reserved is now wrong.
LEMMA WrongCounted ==
    ASSUME IInv, NEW r \in Slots, request[r].at \in {"ask", "look", "take"}, Rests(r),
           judged' = Judged(request[r]), UNCHANGED failures
    PROVE  CountHolds' /\ LetThrough' /\ judged' \in [Keys -> [wrong : Nat, carried : Nat]]
<1>1. request'[r] = Resting /\ \A s \in Slots \ {r} : request'[s] = request[s]
  BY Parts DEF Rests
<1>2. ~request[r].refused
  BY Parts DEF Reserves
<1>3. \A k \in Keys : judged[k] \in [wrong : Nat, carried : Nat]
  BY KeyNumbers
<1>4. judged' \in [Keys -> [wrong : Nat, carried : Nat]]
  BY <1>3 DEF Judged
<1>5. ASSUME NEW k \in Keys
      PROVE  /\ judged'[k].wrong + Cardinality(Reserved(k)') <= Value(failures'[k]) + judged'[k].carried
             /\ judged'[k].wrong + Cardinality(Hopeful(k)') <= Limit[k] + judged'[k].carried
  <2>1. CASE k \in request[r].mine \ request[r].stale
    <3>1. judged'[k].wrong = judged[k].wrong + 1 /\ judged'[k].carried = judged[k].carried
      BY <1>3, <2>1 DEF Judged
    <3>2. /\ r \in Reserved(k) /\ Reserved(k)' \subseteq Reserved(k) \ {r}
          /\ r \in Hopeful(k) /\ Hopeful(k)' \subseteq Hopeful(k) \ {r}
      BY <1>1, <1>2, <2>1, RestingType DEF Reserved, Hopeful
    <3>3. /\ Cardinality(Reserved(k)') + 1 <= Cardinality(Reserved(k))
          /\ Cardinality(Hopeful(k)') + 1 <= Cardinality(Hopeful(k))
      BY <3>2, ReservedFinite, OneFewer
    <3>4. Value(failures[k]) \in Int
      BY KeyNumbers DEF Value, NoRow
    <3> QED
      BY <3>1, <3>3, <3>4, KeyNumbers, ReservedFinite, ReservedNextFinite
  <2>2. CASE k \notin request[r].mine \ request[r].stale
    <3>1. judged'[k] = judged[k]
      BY <2>2 DEF Judged
    <3>2. Reserved(k)' \subseteq Reserved(k) /\ Hopeful(k)' \subseteq Hopeful(k)
      BY <1>1, RestingType DEF Reserved, Hopeful
    <3> QED
      BY <3>1, <3>2, KeyStill
  <2> QED
    BY <2>1, <2>2
<1> QED
  BY <1>4, <1>5 DEF CountHolds, LetThrough

\* A request goes on with what it reserved: the counts are as they were.
LEMMA StillCounted ==
    ASSUME IInv, NEW r \in Slots, NEW p, request' = [request EXCEPT ![r] = p],
           p.mine = request[r].mine, p.stale = request[r].stale, p.refused = request[r].refused,
           UNCHANGED <<failures, judged>>
    PROVE  CountHolds' /\ LetThrough'
<1>1. \A s \in Slots : /\ request'[s].mine = request[s].mine /\ request'[s].stale = request[s].stale
                       /\ request'[s].refused = request[s].refused
  BY Parts
<1>2. \A k : Reserved(k)' \subseteq Reserved(k) /\ Hopeful(k)' \subseteq Hopeful(k)
  BY <1>1 DEF Reserved, Hopeful
<1> QED
  BY <1>2, KeyStill DEF CountHolds, LetThrough

\* A request that goes on.
LEMMA OnTurns ==
    ASSUME IInv, NEW r \in Slots, NEW p \in Request, request' = [request EXCEPT ![r] = p],
           request[r].at # "idle", p.at # "idle", Same(p, request[r]), made'.requests = made.requests
    PROVE  /\ request' \in [Slots -> Request] /\ request'[r] = p /\ Turns(r)
           /\ \A s \in Slots \ {r} : request'[s] = request[s]
<1>1. request' \in [Slots -> Request] /\ request'[r] = p /\ \A s \in Slots \ {r} : request'[s] = request[s]
  BY Parts
<1> QED
  BY <1>1, Parts DEF Turns, WentOn, Alike, Same

\* The password is right, wrong, or not answered for.
LEMMA KeepsAsk ==
    ASSUME IInv, NEW r \in Slots, Ask(r)
    PROVE  IInv'
<1> DEFINE handed == CHOOSE keys \in LoginKeys : {keys[i] : i \in DOMAIN keys} = request[r].mine
<1>1. UNCHANGED <<database, process, world, accepted, sessions, connected, settled>> /\ request[r].at = "ask"
  BY DEF Ask, At
<1>2. /\ \E keys \in LoginKeys : {keys[i] : i \in DOMAIN keys} = request[r].mine
      /\ ~request[r].refused /\ request[r].kind \in {"password", "code", "start", "remove", "renew"}
  BY <1>1, Parts DEF Reserves, KindFits, KeysOf
<1>3. handed \in LoginKeys /\ request[r].mine = KeysOf(handed)
  BY <1>2 DEF KeysOf
<1>4. handed \in KeyLists
  BY <1>3, SignInAssumption DEF KeyLists
<1>5. PICK keys : keys = handed
  OBVIOUS
<1>6. \/ Goes(r, "clear") /\ UNCHANGED judged
      \/ Rests(r) /\ judged' = Judged(request[r])
      \/ request' = [request EXCEPT ![r].at = "refund", ![r].keys = keys] /\ UNCHANGED judged
  BY <1>5 DEF Ask
<1> HIDE DEF handed
<1>7. made'.requests = made.requests
  BY <1>1 DEF world
<1>8. CASE Rests(r) /\ judged' = Judged(request[r])
  <2>1. CountHolds' /\ LetThrough' /\ judged' \in [Keys -> [wrong : Nat, carried : Nat]]
    BY <1>1, <1>8, WrongCounted DEF database
  <2>2. request' \in [Slots -> Request] /\ Turns(r) /\ request'[r] = Resting
    BY <1>7, <1>8, RestsTurns, Parts
  <2>3. TypeOK'
    BY <1>1, <2>1, <2>2, Parts DEF TypeOK, database, process, world
  <2>4. KindFits(Resting) /\ Reserves(Resting)
    BY RestingType DEF KindFits, Reserves
  <2>5. StillFactor(r) /\ StillCodes /\ StillSteps(r) /\ StillSecret(r) /\ StillGiven(r)
    BY <1>1, <2>2, StillElse, RestingType DEF database, world
  <2> QED
    BY <2>1, <2>2, <2>3, <2>4, <2>5, KeepsThrottling
<1>9. CASE /\ UNCHANGED judged
           /\ \/ Goes(r, "clear")
              \/ request' = [request EXCEPT ![r].at = "refund", ![r].keys = keys]
  <2>1. PICK p : /\ p \in {[request[r] EXCEPT !.at = "clear"], [request[r] EXCEPT !.at = "refund", !.keys = keys]}
                 /\ request' = [request EXCEPT ![r] = p]
    BY <1>9, Parts DEF Goes
  <2>2. /\ p \in Request /\ Same(p, request[r]) /\ p.mine = request[r].mine /\ p.stale = request[r].stale
        /\ p.refused = request[r].refused
        /\ p.at = "clear" \/ (p.at = "refund" /\ p.keys = keys)
    <3>1. "clear" \in Places /\ "refund" \in Places /\ keys \in KeyLists
      BY <1>4, <1>5 DEF Places
    <3>2. CASE p = [request[r] EXCEPT !.at = "clear"]
      BY <3>1, <3>2, Parts DEF Request, Same
    <3>3. CASE p = [request[r] EXCEPT !.at = "refund", !.keys = keys]
      BY <3>1, <3>3, Parts DEF Request, Same
    <3> QED
      BY <2>1, <3>2, <3>3
  <2>3. request' \in [Slots -> Request] /\ request'[r] = p /\ Turns(r)
    BY <1>1, <1>7, <2>1, <2>2, OnTurns
  <2>4. CountHolds' /\ LetThrough'
    BY <1>1, <1>9, <2>1, <2>2, StillCounted DEF database
  <2>5. TypeOK'
    BY <1>1, <1>9, <2>3, Parts DEF TypeOK, database, process, world
  <2>6. KindFits(p) /\ Reserves(p)
    BY <1>2, <1>3, <1>5, <2>2 DEF KindFits, Reserves, Same
  <2>7. StillFactor(r) /\ StillCodes /\ StillSteps(r) /\ StillSecret(r) /\ StillGiven(r)
    BY <1>1, <2>2, <2>3, StillElse DEF database, world
  <2> QED
    BY <2>3, <2>4, <2>5, <2>6, <2>7, KeepsThrottling
<1> QED
  BY <1>6, <1>8, <1>9

\* An attempt handed back leaves its count, or lets one more through a later one.
LEMMA KeepsRefund ==
    ASSUME IInv, NEW r \in Slots, Refund(r)
    PROVE  IInv'
<1>1. PICK key : key = Head(request[r].keys)
  OBVIOUS
<1>2. /\ UNCHANGED <<app, codes, steps, live, process, world, accepted, sessions, connected, settled>>
      /\ request[r].at = "refund"
      /\ failures' = [failures EXCEPT ![key] = HandedBack(@)]
      /\ judged' = IF key \in request[r].stale /\ failures[key] > 0
                   THEN [judged EXCEPT ![key].carried = @ + 1] ELSE judged
      /\ request' = [request EXCEPT ![r] = IF Len(request[r].keys) = 1 THEN Resting
                                           ELSE [request[r] EXCEPT !.keys = Tail(@), !.mine = @ \ {key}]]
  BY <1>1 DEF Refund, At
<1>3. LoginKeys \subseteq {<<"user", "addr">>, <<"user">>, <<"device">>}
  BY SignInAssumption
<1>4. \/ request[r].keys = <<"user", "addr">> /\ request[r].mine = {"user", "addr"}
      \/ \E k \in {"user", "device", "addr"} : request[r].keys = <<k>> /\ request[r].mine = {k}
  <2>1. KeysOf(<<"user", "addr">>) = {"user", "addr"} /\ \A k : KeysOf(<<k>>) = {k}
    BY DEF KeysOf
  <2> QED
    BY <1>2, <1>3, <2>1, Parts DEF Reserves
<1>5. /\ key \in Keys /\ key \in request[r].mine
      /\ \/ Len(request[r].keys) = 1
         \/ /\ Len(request[r].keys) # 1 /\ Tail(request[r].keys) = <<"addr">>
            /\ request[r].mine \ {key} = {"addr"}
  <2>1. CASE request[r].keys = <<"user", "addr">> /\ request[r].mine = {"user", "addr"}
    BY <1>1, <2>1, KeyTails DEF Keys
  <2>2. CASE \E k \in {"user", "device", "addr"} : request[r].keys = <<k>> /\ request[r].mine = {k}
    <3>1. PICK k \in {"user", "device", "addr"} : request[r].keys = <<k>> /\ request[r].mine = {k}
      BY <2>2
    <3>2. Head(<<k>>) = k /\ Len(<<k>>) = 1
      OBVIOUS
    <3> QED
      BY <1>1, <3>1, <3>2 DEF Keys
  <2> QED
    BY <1>4, <2>1, <2>2
<1>6. PICK p : /\ request' = [request EXCEPT ![r] = p]
               /\ \/ p = Resting
                  \/ /\ p = [request[r] EXCEPT !.keys = Tail(@), !.mine = @ \ {key}]
                     /\ Tail(request[r].keys) = <<"addr">> /\ request[r].mine \ {key} = {"addr"}
  BY <1>2, <1>5
<1>7. /\ p \in Request
      /\ \/ p = Resting
         \/ /\ Same(p, request[r]) /\ p.mine = request[r].mine \ {key} /\ p.stale = request[r].stale
            /\ p.refused = request[r].refused /\ p.at = "refund" /\ p.keys = <<"addr">> /\ p.mine = {"addr"}
  <2>1. CASE p = Resting
    BY <2>1, RestingType
  <2>2. CASE /\ p = [request[r] EXCEPT !.keys = Tail(@), !.mine = @ \ {key}]
             /\ Tail(request[r].keys) = <<"addr">> /\ request[r].mine \ {key} = {"addr"}
    <3>1. <<"addr">> \in KeyLists /\ {"addr"} \subseteq Keys
      BY DEF KeyLists, Keys
    <3> QED
      BY <1>2, <2>2, <3>1, Parts, ZenonT(40) DEF Request, Same
  <2> QED
    BY <1>6, <2>1, <2>2
<1>8. /\ request' \in [Slots -> Request] /\ request'[r] = p
      /\ \A s \in Slots \ {r} : request'[s] = request[s]
  BY <1>6, <1>7, Parts
<1>9. Turns(r)
  <2>1. Rested(r) \/ WentOn(r)
    BY <1>2, <1>7, <1>8, Parts DEF Rested, WentOn, world
  <2> QED
    BY <1>8, <2>1 DEF Turns, Alike, Same
<1>10. /\ failures[key] \in Nat \cup {NoRow} /\ judged[key] \in [wrong : Nat, carried : Nat]
       /\ failures'[key] = HandedBack(failures[key])
       /\ \A k \in Keys \ {key} : failures'[k] = failures[k] /\ judged'[k] = judged[k]
  BY <1>2, <1>5, Parts DEF TypeOK
<1>11. HandedBack(failures[key]) \in Nat \cup {NoRow}
  BY <1>10 DEF HandedBack, NoRow
<1>12. TypeOK'
  <2>1. failures' \in [Keys -> Nat \cup {NoRow}]
    BY <1>2, <1>11, Parts DEF TypeOK
  <2>2. judged' \in [Keys -> [wrong : Nat, carried : Nat]]
    <3>1. judged \in [Keys -> [wrong : Nat, carried : Nat]] /\ judged[key].carried + 1 \in Nat
      BY <1>5, <1>10, Parts DEF TypeOK
    <3>2. [judged[key] EXCEPT !.carried = @ + 1] \in [wrong : Nat, carried : Nat]
      BY <1>10
    <3>3. judged' = judged \/ judged' = [judged EXCEPT ![key] = [judged[key] EXCEPT !.carried = @ + 1]]
      BY <1>2, <1>5, <3>1
    <3> QED
      BY <1>5, <3>1, <3>2, <3>3
  <2> QED
    BY <1>2, <1>8, <2>1, <2>2, Parts DEF TypeOK, process, world
<1>13. \A k : Reserved(k)' \subseteq Reserved(k) /\ Hopeful(k)' \subseteq Hopeful(k)
  BY <1>7, <1>8, RestingType DEF Reserved, Hopeful
<1>14. r \notin Reserved(key)'
  BY <1>7, <1>8, RestingType DEF Reserved
<1>15. judged'[key].wrong + Cardinality(Reserved(key)') <= Value(failures'[key]) + judged'[key].carried
  <2>1. Cardinality(Reserved(key)') <= Cardinality(Reserved(key))
        /\ Cardinality(Reserved(key)) \in Nat /\ Cardinality(Reserved(key)') \in Nat
    BY <1>13, Fewer, ReservedFinite, ReservedNextFinite
  <2>2. CASE ~(failures[key] > 0)
    <3>1. Value(failures'[key]) = Value(failures[key]) /\ judged'[key] = judged[key]
          /\ Value(failures[key]) \in Nat
      BY <1>2, <1>10, <2>2 DEF HandedBack, Value, NoRow
    <3> QED
      BY <1>5, <2>1, <3>1, KeyNumbers
  <2>3. CASE failures[key] > 0 /\ key \in request[r].stale
    <3>1. /\ Value(failures[key]) = failures[key] /\ Value(failures'[key]) = failures[key] - 1
          /\ failures[key] \in Nat
      BY <1>10, <2>3 DEF HandedBack, Value, NoRow
    <3>2. judged'[key].wrong = judged[key].wrong /\ judged'[key].carried = judged[key].carried + 1
      BY <1>2, <1>5, <1>10, <2>3, Parts DEF TypeOK
    <3> QED
      BY <1>5, <2>1, <3>1, <3>2, KeyNumbers
  <2>4. CASE failures[key] > 0 /\ key \notin request[r].stale
    <3>1. /\ Value(failures[key]) = failures[key] /\ Value(failures'[key]) = failures[key] - 1
          /\ failures[key] \in Nat /\ judged'[key] = judged[key]
      BY <1>2, <1>10, <2>4 DEF HandedBack, Value, NoRow
    <3>2. r \in Reserved(key) /\ Reserved(key)' \subseteq Reserved(key) \ {r}
      BY <1>5, <1>13, <1>14, <2>4 DEF Reserved
    <3>3. Cardinality(Reserved(key)') + 1 <= Cardinality(Reserved(key))
      BY <3>2, ReservedFinite, OneFewer
    <3> QED
      BY <1>5, <2>1, <3>1, <3>3, KeyNumbers
  <2> QED
    BY <2>2, <2>3, <2>4
<1>16. judged'[key].wrong + Cardinality(Hopeful(key)') <= Limit[key] + judged'[key].carried
  <2>1. Cardinality(Hopeful(key)') <= Cardinality(Hopeful(key))
        /\ Cardinality(Hopeful(key)) \in Nat /\ Cardinality(Hopeful(key)') \in Nat
    BY <1>13, Fewer, ReservedFinite, ReservedNextFinite
  <2>2. judged'[key].wrong = judged[key].wrong /\ judged'[key].carried \in Nat
        /\ judged'[key].carried >= judged[key].carried
    BY <1>2, <1>5, <1>10, Parts DEF TypeOK
  <2> QED
    BY <1>5, <2>1, <2>2, KeyNumbers
<1>17. CountHolds' /\ LetThrough'
  <2> SUFFICES ASSUME NEW k \in Keys
               PROVE  /\ judged'[k].wrong + Cardinality(Reserved(k)') <= Value(failures'[k]) + judged'[k].carried
                      /\ judged'[k].wrong + Cardinality(Hopeful(k)') <= Limit[k] + judged'[k].carried
    BY DEF CountHolds, LetThrough
  <2>1. CASE k = key
    BY <1>15, <1>16, <2>1
  <2>2. CASE k # key
    BY <1>10, <1>13, <2>2, KeyStill
  <2> QED
    BY <2>1, <2>2
<1>18. KindFits(p) /\ Reserves(p)
  BY <1>2, <1>7, Parts, RestingType DEF KindFits, Reserves, Same
<1>19. StillFactor(r) /\ StillCodes /\ StillSteps(r) /\ StillSecret(r) /\ StillGiven(r)
  BY <1>2, <1>7, <1>8, <1>9, StillElse, RestingType DEF world
<1> QED
  BY <1>8, <1>9, <1>12, <1>17, <1>18, <1>19, KeepsThrottling

\* The count of a key that is cleared begins again.
LEMMA KeepsClear ==
    ASSUME IInv, NEW r \in Slots, Clear(r)
    PROVE  IInv'
<1>1. PICK key : key = CHOOSE k \in request[r].mine : k # "addr"
  OBVIOUS
<1>2. PICK p : p = [request[r] EXCEPT !.at = Proven(request[r].kind), !.mine = {}, !.stale = {}]
  OBVIOUS
<1>3. /\ UNCHANGED <<app, codes, steps, live, process, world, accepted, sessions, connected, settled>>
      /\ request[r].at = "clear"
      /\ failures' = [failures EXCEPT ![key] = NoRow]
      /\ judged' = [judged EXCEPT ![key] = Fresh]
      /\ request' = [Again(key) EXCEPT ![r] = p]
  BY <1>1, <1>2 DEF Clear, At
<1>4. \E k \in request[r].mine : k # "addr"
  <2>1. LoginKeys \subseteq {<<"user", "addr">>, <<"user">>, <<"device">>}
    BY SignInAssumption
  <2>2. KeysOf(<<"user", "addr">>) = {"user", "addr"} /\ \A k : KeysOf(<<k>>) = {k}
    BY DEF KeysOf
  <2>3. request[r].mine = {"2fa"} \/ \E keys \in LoginKeys : request[r].mine = KeysOf(keys)
    BY <1>3, Parts DEF Reserves
  <2>4. request[r].mine \in {{"2fa"}, {"user", "addr"}, {"user"}, {"device"}}
    BY <2>1, <2>2, <2>3
  <2> QED
    BY <2>4
<1>5. key \in Keys /\ request[r].n # 0
  BY <1>1, <1>3, <1>4, Parts DEF Request
<1>6. request[r].kind \in {"password", "code", "start", "remove", "renew"}
  BY <1>3, Parts DEF KindFits
<1>7. Proven(request[r].kind) \in {"begin", "finish", "start", "remove", "renew"}
      /\ (Proven(request[r].kind) = "begin" => request[r].kind = "password")
      /\ (Proven(request[r].kind) = "finish" => request[r].kind = "code")
  BY <1>6 DEF Proven
<1>8. /\ p \in Request /\ Same(p, request[r]) /\ p.mine = {} /\ p.stale = {} /\ p.at = Proven(request[r].kind)
  <2>1. Proven(request[r].kind) \in Places
    BY <1>7 DEF Places
  <2> QED
    BY <1>2, <2>1, Parts DEF Request, Same
<1>9. /\ Again(key) \in [Slots -> Request]
      /\ \A s \in Slots : /\ Alike(Again(key)[s], request[s])
                          /\ Again(key)[s].stale = IF key \in request[s].mine THEN request[s].stale \cup {key}
                                                   ELSE request[s].stale
  BY <1>5, AgainFacts
<1>10. /\ request' \in [Slots -> Request] /\ request'[r] = p
       /\ \A s \in Slots \ {r} : request'[s] = Again(key)[s]
  BY <1>3, <1>8, <1>9
<1>101. \A s \in Slots \ {r} : Alike(request'[s], request[s])
                              /\ (key \in request[s].mine => key \in request'[s].stale)
  BY <1>9, <1>10
<1>11. \A s \in Slots \ {r} :
          /\ request'[s].mine = request[s].mine /\ request[s].stale \subseteq request'[s].stale
          /\ request'[s].refused = request[s].refused
          /\ key \in request[s].mine => key \in request'[s].stale
  BY <1>101 DEF Alike
<1>12. Turns(r)
  <2>1. WentOn(r)
    BY <1>3, <1>5, <1>7, <1>8, <1>10 DEF WentOn, world
  <2> QED
    BY <1>9, <1>10, <2>1 DEF Turns
<1>13. TypeOK'
  <2>1. failures' \in [Keys -> Nat \cup {NoRow}]
    BY <1>3, Parts DEF TypeOK
  <2>2. judged' \in [Keys -> [wrong : Nat, carried : Nat]]
    BY <1>3, Parts DEF TypeOK, Fresh
  <2> QED
    BY <1>3, <1>10, <2>1, <2>2, Parts DEF TypeOK, process, world
<1>14. \A k \in Keys : /\ Reserved(k)' \subseteq Reserved(k) /\ Hopeful(k)' \subseteq Hopeful(k)
                       /\ k = key => Reserved(k)' = {} /\ Hopeful(k)' = {}
  BY <1>8, <1>10, <1>11 DEF Reserved, Hopeful
<1>15. CountHolds' /\ LetThrough'
  <2> SUFFICES ASSUME NEW k \in Keys
               PROVE  /\ judged'[k].wrong + Cardinality(Reserved(k)') <= Value(failures'[k]) + judged'[k].carried
                      /\ judged'[k].wrong + Cardinality(Hopeful(k)') <= Limit[k] + judged'[k].carried
    BY DEF CountHolds, LetThrough
  <2>1. CASE k = key
    <3>1. judged'[k] = Fresh /\ failures'[k] = NoRow
      BY <1>3, <2>1, Parts DEF TypeOK
    <3>2. Cardinality(Reserved(k)') = 0 /\ Cardinality(Hopeful(k)') = 0
      BY <1>14, <2>1, FS_EmptySet
    <3> QED
      BY <3>1, <3>2, KeyNumbers DEF Fresh, Value
  <2>2. CASE k # key
    <3>1. judged'[k] = judged[k] /\ failures'[k] = failures[k]
      BY <1>3, <2>2, Parts DEF TypeOK
    <3> QED
      BY <1>14, <3>1, KeyStill
  <2> QED
    BY <2>1, <2>2
<1>16. KindFits(p) /\ Reserves(p)
  BY <1>6, <1>7, <1>8 DEF KindFits, Reserves, Same
<1>17. StillFactor(r) /\ StillCodes /\ StillSteps(r) /\ StillSecret(r) /\ StillGiven(r)
  BY <1>3, <1>7, <1>8, <1>10, <1>12, StillElse DEF world
<1> QED
  BY <1>10, <1>12, <1>13, <1>15, <1>16, <1>17, KeepsThrottling

-----------------------------------------------------------------------------
(* Codes *)

\* A code that is wrong.
LEMMA KeepsWrong ==
    ASSUME IInv, NEW r \in Slots, request[r].at \in {"look", "take"}, Rests(r),
           judged' = Judged(request[r]),
           UNCHANGED <<app, codes, steps, failures, live, process, world, accepted, sessions, connected, settled>>
    PROVE  IInv'
<1>1. CountHolds' /\ LetThrough' /\ judged' \in [Keys -> [wrong : Nat, carried : Nat]]
  BY WrongCounted
<1>2. request' \in [Slots -> Request] /\ Turns(r) /\ request'[r] = Resting
  BY RestsTurns, Parts DEF world
<1>3. TypeOK'
  BY <1>1, <1>2, Parts DEF TypeOK, process, world
<1>4. KindFits(Resting) /\ Reserves(Resting)
  BY RestingType DEF KindFits, Reserves
<1>5. StillFactor(r) /\ StillCodes /\ StillSteps(r) /\ StillSecret(r) /\ StillGiven(r)
  BY <1>2, StillElse, RestingType DEF world
<1> QED
  BY <1>1, <1>2, <1>3, <1>4, <1>5, KeepsThrottling

\* A request that goes on with its reservation, and a code taken or to take.
LEMMA KeepsRight ==
    ASSUME IInv, NEW r \in Slots, NEW p \in Request, request' = [request EXCEPT ![r] = p],
           request[r].at \in {"look", "take"}, p.at \in {"take", "clear"}, Same(p, request[r]),
           p.mine = request[r].mine, p.stale = request[r].stale, p.refused = request[r].refused,
           app' \in [id : Nat, on : BOOLEAN, last : Nat], app'.id = app.id, app'.on = app.on,
           codes' \subseteq codes, accepted' \subseteq [code : Code, by : Nat], CodesGone', CodesOnce',
           UNCHANGED <<steps, failures, live, process, world, judged, sessions, connected, settled>>
    PROVE  IInv'
<1>1. request' \in [Slots -> Request] /\ request'[r] = p /\ Turns(r)
  BY OnTurns DEF world
<1>2. CountHolds' /\ LetThrough'
  BY StillCounted
<1>3. TypeOK'
  BY <1>1, Parts DEF TypeOK, process, world
<1>4. KindFits(p) /\ Reserves(p)
  BY Parts DEF KindFits, Reserves, Same
<1>5. StillFactor(r) /\ StillSteps(r) /\ StillSecret(r) /\ StillGiven(r)
  BY <1>1, StillRest DEF world
<1> QED
  BY <1>1, <1>2, <1>3, <1>4, <1>5, KeepsTaking

\* Types of what the codes are.
LEMMA CodeTypes ==
    ASSUME IInv
    PROVE  /\ app \in [id : Nat, on : BOOLEAN, last : Nat] /\ made \in [requests : Nat, apps : Nat, codes : Nat]
           /\ \A a \in accepted : a.code \in Code /\ a.code.app \in Nat /\ a.code.number \in Nat
           /\ codes \subseteq Nat /\ accepted \subseteq [code : Code, by : Nat]
BY DEF IInv, TypeOK, Code

\* A code is looked up: a recovery code is taken by its delete.
LEMMA KeepsLook ==
    ASSUME IInv, NEW r \in Slots, Look(r)
    PROVE  IInv'
<1>1. request[r].at = "look"
      /\ UNCHANGED <<app, steps, failures, live, process, world, sessions, connected, settled>>
  BY DEF Look, At
<1>2. CASE \E code \in Shown(app.id) : /\ request' = [request EXCEPT ![r].at = "take", ![r].code = code]
                                       /\ UNCHANGED <<codes, judged, accepted>>
  <2>1. PICK code \in Shown(app.id) : request' = [request EXCEPT ![r].at = "take", ![r].code = code]
    BY <1>2
  <2>2. code \in Code
    BY CodeTypes, SignInAssumption DEF Shown, Code
  <2>3. PICK p : p = [request[r] EXCEPT !.at = "take", !.code = code]
    OBVIOUS
  <2>4. p \in Request /\ p.at = "take" /\ Same(p, request[r]) /\ p.mine = request[r].mine
        /\ p.stale = request[r].stale /\ p.refused = request[r].refused
    <3>1. "take" \in Places
      BY DEF Places
    <3> QED
      BY <2>2, <2>3, <3>1, Parts DEF Request, Same
  <2>5. request' = [request EXCEPT ![r] = p]
    BY <2>1, <2>3, Parts
  <2>6. CodesGone' /\ CodesOnce'
    BY <1>1, <1>2 DEF IInv, CodesGone, CodesOnce, world
  <2> QED
    BY <1>1, <1>2, <2>4, <2>5, <2>6, CodeTypes, KeepsRight
<1>3. CASE /\ \E n \in codes : codes' = codes \ {n} /\ Accept(r, [app |-> None, number |-> n])
           /\ Goes(r, "clear")
           /\ UNCHANGED judged
  <2>1. PICK n \in codes : codes' = codes \ {n} /\ Accept(r, [app |-> None, number |-> n])
    BY <1>3
  <2>2. PICK taken : taken = [code |-> [app |-> None, number |-> n], by |-> request[r].n]
    OBVIOUS
  <2>3. accepted' = accepted \cup {taken} /\ taken.code.app = None /\ taken.code.number = n
        /\ taken.code \in Code /\ taken \in [code : Code, by : Nat]
    BY <2>1, <2>2, CodeTypes, Parts DEF Accept, Code, None
  <2>4. \A a \in accepted : a.code # taken.code
    BY <2>1, <2>3 DEF IInv, CodesGone
  <2>5. CodesOnce'
    BY <2>3, <2>4 DEF IInv, CodesOnce
  <2>6. CodesGone'
    BY <1>1, <2>1, <2>3, CodeTypes DEF IInv, CodesGone, world
  <2>7. PICK p : p = [request[r] EXCEPT !.at = "clear"]
    OBVIOUS
  <2>8. p \in Request /\ p.at = "clear" /\ Same(p, request[r]) /\ p.mine = request[r].mine
        /\ p.stale = request[r].stale /\ p.refused = request[r].refused
    <3>1. "clear" \in Places
      BY DEF Places
    <3> QED
      BY <2>7, <3>1, Parts DEF Request, Same
  <2>9. request' = [request EXCEPT ![r] = p]
    BY <1>3, <2>7 DEF Goes
  <2>10. accepted' \subseteq [code : Code, by : Nat] /\ codes' \subseteq codes
    BY <2>1, <2>3, CodeTypes
  <2> QED
    BY <1>1, <1>3, <2>5, <2>6, <2>8, <2>9, <2>10, CodeTypes, KeepsRight
<1>4. CASE Rests(r) /\ judged' = Judged(request[r]) /\ UNCHANGED <<codes, accepted>>
  BY <1>1, <1>4, KeepsWrong
<1> QED
  BY <1>2, <1>3, <1>4 DEF Look

\* A code of the app is later than the last, and is the last then.
LEMMA KeepsTake ==
    ASSUME IInv, NEW r \in Slots, Take(r)
    PROVE  IInv'
<1>1. request[r].at = "take"
      /\ UNCHANGED <<codes, steps, failures, live, process, world, sessions, connected, settled>>
  BY DEF Take, At
<1>2. CASE app.on /\ NotTaken(request[r].code)
  <2>1. /\ app' = [app EXCEPT !.last = request[r].code.number]
        /\ Accept(r, [request[r].code EXCEPT !.app = app.id])
        /\ request' = [request EXCEPT ![r].at = "clear", ![r].code = Unread]
        /\ UNCHANGED judged
    BY <1>2 DEF Take
  <2>2. request[r].code \in Code /\ request[r].code.number \in Nat /\ app.last < request[r].code.number
    BY <1>2, Parts DEF Request, Code, NotTaken
  <2>3. PICK taken : taken = [code |-> [request[r].code EXCEPT !.app = app.id], by |-> request[r].n]
    OBVIOUS
  <2>4. accepted' = accepted \cup {taken} /\ taken.code.app = app.id
        /\ taken.code.number = request[r].code.number
        /\ taken.code \in Code /\ taken \in [code : Code, by : Nat]
    BY <2>1, <2>2, <2>3, CodeTypes, Parts DEF Accept, Code
  <2>5. app.id # None /\ app.id <= made.apps
    BY <1>2, Parts
  <2>6. app' \in [id : Nat, on : BOOLEAN, last : Nat] /\ app'.id = app.id /\ app'.on = app.on
        /\ app'.last = request[r].code.number
    BY <2>1, <2>2, CodeTypes
  <2>7. \A a \in accepted : a.code # taken.code
    <3> SUFFICES ASSUME NEW a \in accepted, a.code = taken.code
                 PROVE  FALSE
      OBVIOUS
    <3>1. a.code.number <= app.last
      BY <2>4, <2>5 DEF IInv, CodesGone
    <3> QED
      BY <2>2, <2>4, <3>1, CodeTypes
  <2>8. CodesOnce'
    BY <2>4, <2>7 DEF IInv, CodesOnce
  <2>9. CodesGone'
    <3>1. \A n \in codes' : n <= made'.codes
      BY <1>1 DEF IInv, CodesGone, world
    <3>2. \A a \in accepted : a.code.app = app.id /\ a.code.app # None => a.code.number <= app'.last
      BY <2>2, <2>6, CodeTypes DEF IInv, CodesGone
    <3>3. \A a \in accepted' :
             IF a.code.app = None THEN a.code.number \notin codes' /\ a.code.number <= made'.codes
             ELSE /\ a.code.app <= made'.apps
                  /\ a.code.app = app'.id => app'.on /\ a.code.number <= app'.last
      BY <1>1, <1>2, <2>2, <2>4, <2>5, <2>6, <3>2 DEF IInv, CodesGone, world
    <3> QED
      BY <3>1, <3>3 DEF CodesGone
  <2>10. PICK p : p = [request[r] EXCEPT !.at = "clear", !.code = Unread]
    OBVIOUS
  <2>11. p \in Request /\ p.at = "clear" /\ Same(p, request[r]) /\ p.mine = request[r].mine
         /\ p.stale = request[r].stale /\ p.refused = request[r].refused
    <3>1. Unread \in Code /\ "clear" \in Places
      BY DEF Unread, Code, None, Places
    <3> QED
      BY <2>10, <3>1, Parts DEF Request, Same
  <2>12. request' = [request EXCEPT ![r] = p]
    BY <2>1, <2>10, Parts
  <2>13. accepted' \subseteq [code : Code, by : Nat]
    BY <2>4, CodeTypes
  <2> QED
    BY <1>1, <2>1, <2>6, <2>8, <2>9, <2>11, <2>12, <2>13, KeepsRight
<1>3. CASE ~(app.on /\ NotTaken(request[r].code))
  BY <1>1, <1>3, KeepsWrong DEF Take
<1> QED
  BY <1>2, <1>3

-----------------------------------------------------------------------------
(* Sessions *)

\* A step that reserves nothing, and does its part of the invariant.
LEMMA KeepsParts ==
    ASSUME IInv, NEW r \in Slots, Turns(r), TypeOK', KindFits(request'[r]), StillThrottle(r),
           (AppFits /\ SawTrue /\ FactorRemembered)', (CodesGone /\ CodesOnce)',
           (HeldFits /\ StepsOnce /\ SessionsOver)', SecretOnce',
           (OnTheWay /\ ChangeOwn /\ EndsAll /\ FactorGiven)'
    PROVE  IInv'
<1>1. Numbered' /\ KindsFit'
  BY KeepsNumbered, KeepsKinds
<1>2. (Reserving /\ CountHolds /\ LetThrough)'
  BY KeepsThrottle
<1> QED
  BY <1>1, <1>2 DEF IInv

\* A request that goes on or rests from where nothing is reserved.
LEMMA GoesOn ==
    ASSUME IInv, NEW r \in Slots, NEW p \in Request, request' = [request EXCEPT ![r] = p],
           request[r].at \in Unreserved \ {"idle"},
           p = Resting \/ (Same(p, request[r]) /\ p.mine = request[r].mine /\ p.at \in Unreserved \ {"idle"}),
           made'.requests = made.requests, UNCHANGED <<failures, judged>>
    PROVE  /\ request' \in [Slots -> Request] /\ request'[r] = p /\ Turns(r) /\ StillThrottle(r)
           /\ \A s \in Slots \ {r} : request'[s] = request[s]
           /\ p.kind = "code" => Same(p, request[r])
<1>1. request' \in [Slots -> Request] /\ request'[r] = p /\ \A s \in Slots \ {r} : request'[s] = request[s]
  BY Parts
<1>2. request[r].n # 0 /\ request[r].mine = {}
  BY Parts DEF Unreserved, Reserves
<1>3. Rested(r) \/ WentOn(r)
  BY <1>1, <1>2, RestingType DEF Rested, WentOn, Unreserved
<1>4. Turns(r)
  BY <1>1, <1>3 DEF Turns, Alike, Same
<1>5. StillThrottle(r)
  BY <1>1, <1>2, RestingType DEF StillThrottle, Unreserved
<1> QED
  BY <1>1, <1>4, <1>5, RestingType

\* Of the parts a step leaves alone, where the factor and its codes are as they were.
LEMMA StillSame ==
    ASSUME IInv, NEW r \in Slots, Turns(r), UNCHANGED <<app, codes, accepted, held, settled, made>>,
           request'[r].at # "remember"
    PROVE  StillFactor(r) /\ StillCodes
<1>1. made.apps \in Nat /\ made.apps <= made.apps /\ app.id <= made.apps /\ (app.on => app.id # None)
  BY Parts DEF TypeOK
<1> QED
  BY <1>1 DEF StillFactor, StillCodes

\* An approved secret is claimed by one poll.
LEMMA KeepsApproved ==
    ASSUME IInv, NEW r \in Slots, Approved(r)
    PROVE  IInv'
<1>1. UNCHANGED <<database, held, world, ghosts>> /\ request[r].at = "poll"
  BY DEF Approved, At
<1>2. PICK p : /\ request' = [request EXCEPT ![r] = p]
               /\ \/ p = [request[r] EXCEPT !.at = "connect"] /\ ~claimed /\ claimed'
                  \/ p = Resting /\ UNCHANGED claimed
  BY DEF Approved, Goes, Rests
<1>3. /\ p \in Request
      /\ \/ /\ p.at = "connect" /\ p.kind = "quick" /\ Same(p, request[r]) /\ p.mine = request[r].mine
            /\ ~claimed /\ claimed'
         \/ p = Resting /\ UNCHANGED claimed
  <2>1. "connect" \in Places /\ request[r].kind = "quick"
    BY <1>1, Parts DEF Places, KindFits
  <2> QED
    BY <1>2, <2>1, RestingType, Parts DEF Request, Same
<1>4. /\ request' \in [Slots -> Request] /\ request'[r] = p /\ Turns(r) /\ StillThrottle(r)
      /\ \A s \in Slots \ {r} : request'[s] = request[s]
      /\ p.kind = "code" => Same(p, request[r])
  BY <1>1, <1>2, <1>3, GoesOn DEF Unreserved, Places, database, world, ghosts
<1>5. TypeOK' /\ claimed' \in BOOLEAN
  <2>1. claimed' \in BOOLEAN
    BY Parts DEF Approved, TypeOK
  <2> QED
    BY <1>1, <1>4, <2>1, Parts DEF TypeOK, database, world, ghosts
<1>6. KindFits(p)
  BY <1>3, RestingType DEF KindFits
<1>7. SecretOnce'
  BY <1>1, <1>3, <1>4, RestingType DEF SecretOnce, IInv, ghosts
<1>8. StillFactor(r) /\ StillCodes
  BY <1>1, <1>3, <1>4, RestingType, StillSame DEF database, world, ghosts
<1>9. StillSteps(r)
  BY <1>1, <1>3, <1>4, RestingType DEF StillSteps, Finishing, MayHold, Same, database, ghosts
<1>10. StillGiven(r)
  BY <1>1, <1>3, <1>4, RestingType DEF StillGiven, database, ghosts
<1> QED
  BY <1>4, <1>5, <1>6, <1>7, <1>8, <1>9, <1>10, KeepsParts, KeepsFactor, KeepsCodes, KeepsSteps,
     KeepsSessionsOver, KeepsGiven DEF StillSteps

\* Signed in, handed back or refused.
LEMMA KeepsConnect ==
    ASSUME IInv, NEW r \in Slots, Connect(r)
    PROVE  IInv'
<1>1. /\ UNCHANGED <<database, held, world, judged, accepted, sessions, settled>> /\ request[r].at = "connect"
      /\ request[r].kind = "quick"
  BY Parts DEF Connect, At, KindFits
<1>2. PICK p : /\ request' = [request EXCEPT ![r] = p]
               /\ \/ /\ p = [request[r] EXCEPT !.at = "begin"]
                     /\ connected' = connected \cup {request[r].n} /\ UNCHANGED claimed
                  \/ p = Resting /\ claimed' \in BOOLEAN /\ UNCHANGED connected
  BY DEF Connect, Goes, Rests
<1>3. /\ p \in Request
      /\ \/ /\ p.at = "begin" /\ p.kind = "quick" /\ Same(p, request[r]) /\ p.mine = request[r].mine
            /\ connected' = connected \cup {request[r].n} /\ UNCHANGED claimed
         \/ p = Resting /\ claimed' \in BOOLEAN /\ UNCHANGED connected
  <2>1. "begin" \in Places
    BY DEF Places
  <2> QED
    BY <1>1, <1>2, <2>1, RestingType, Parts DEF Request, Same
<1>4. /\ request' \in [Slots -> Request] /\ request'[r] = p /\ Turns(r) /\ StillThrottle(r)
      /\ \A s \in Slots \ {r} : request'[s] = request[s]
  BY <1>1, <1>2, <1>3, GoesOn DEF Unreserved, Places, database, world
<1>5. TypeOK'
  <2>1. claimed' \in BOOLEAN
    BY <1>3, Parts DEF TypeOK
  <2>2. connected' \subseteq Nat
    BY <1>3, Parts DEF TypeOK
  <2> QED
    BY <1>1, <1>4, <2>1, <2>2, Parts DEF TypeOK, database, world
<1>6. KindFits(p)
  BY <1>3, RestingType DEF KindFits
<1>7. SecretOnce'
  <2>1. claimed /\ connected = {} /\ \A s \in Slots : request[s].at = "connect" => s = r
    BY <1>1 DEF IInv, SecretOnce
  <2>2. \A s \in Slots : request'[s].at # "connect"
    BY <1>3, <1>4, <2>1, RestingType
  <2>3. connected' = {} \/ (connected' = {request[r].n} /\ claimed')
    BY <1>3, <2>1
  <2> QED
    BY <2>2, <2>3 DEF SecretOnce
<1>8. StillFactor(r) /\ StillCodes
  BY <1>1, <1>3, <1>4, RestingType, StillSame DEF database, world
<1>9. StillSteps(r)
  BY <1>1, <1>3, <1>4, RestingType DEF StillSteps, Finishing, MayHold, Same, database
<1>10. StillGiven(r)
  BY <1>1, <1>3, <1>4, RestingType DEF StillGiven, database
<1> QED
  BY <1>4, <1>5, <1>6, <1>7, <1>8, <1>9, <1>10, KeepsParts, KeepsFactor, KeepsCodes, KeepsSteps,
     KeepsSessionsOver, KeepsGiven DEF StillSteps

\* Numbers of the sign-in's parts.
LEMMA SignInTypes ==
    ASSUME IInv
    PROVE  /\ made.requests \in Nat
           /\ \A s \in steps : s.n \in Nat /\ s.n # 0 /\ s.n <= made.requests
           /\ \A a \in sessions : /\ a.n \in Nat /\ a.step \in Nat /\ a.factor \in BOOLEAN /\ a.late \in BOOLEAN
                                  /\ a.step <= made.requests /\ a.n <= made.requests /\ a.n # 0
           /\ \A s \in Slots : request[s].n \in Nat /\ request[s].from \in Nat /\ request[s].n <= made.requests
           /\ \A s \in Slots : request[s].kind = "code" => request[s].from # 0 /\ request[s].from <= made.requests
BY DEF IInv, TypeOK, Held, Session, Request, HeldFits, Numbered, None

\* A sign-in is held until its code.
LEMMA KeepsHold ==
    ASSUME IInv, NEW r \in Slots, Hold(r)
    PROVE  IInv'
<1>1. /\ UNCHANGED <<app, codes, failures, live, process, world, ghosts>> /\ request[r].at = "hold"
      /\ request[r].kind \in {"password", "quick"}
      /\ steps' = steps \cup {[n |-> request[r].n, attempts |-> 0, old |-> FALSE]}
  BY Parts DEF Hold, At, KindFits
<1>2. PICK p : p = [request[r] EXCEPT !.at = "trim"]
  OBVIOUS
<1>3. p \in Request /\ p.at = "trim" /\ Same(p, request[r]) /\ p.mine = request[r].mine
  <2>1. "trim" \in Places
    BY DEF Places
  <2> QED
    BY <1>2, <2>1, Parts DEF Request, Same
<1>4. /\ request' \in [Slots -> Request] /\ request'[r] = p /\ Turns(r) /\ StillThrottle(r)
      /\ \A s \in Slots \ {r} : request'[s] = request[s]
  <2>1. request' = [request EXCEPT ![r] = p]
    BY <1>2 DEF Hold, Goes
  <2> QED
    BY <1>1, <1>3, <2>1, GoesOn DEF Unreserved, Places, world, ghosts
<1>5. request[r].n # 0 /\ MayHold(request[r])
  BY <1>1, Parts DEF MayHold
<1>6. PICK held0 : held0 = [n |-> request[r].n, attempts |-> 0, old |-> FALSE]
  OBVIOUS
<1>7. steps' = steps \cup {held0} /\ held0 \in Held /\ held0.n = request[r].n
  BY <1>1, <1>6, Parts DEF Held
<1>8. TypeOK'
  BY <1>1, <1>4, <1>7, Parts DEF TypeOK, process, world, ghosts
<1>9. KindFits(p)
  BY <1>1, <1>3 DEF KindFits, Same
<1>10. \A s \in Slots : /\ Same(request'[s], request[s])
                        /\ MayHold(request'[s]) => MayHold(request[s]) /\ request[s].n # request[r].n
                        /\ Finishing(request'[s]) => Finishing(request[s])
  BY <1>1, <1>3, <1>4, <1>5 DEF Same, MayHold, Finishing, IInv, Numbered
<1>11. HeldFits'
  BY <1>1, <1>5, <1>7, <1>10, SignInTypes DEF HeldFits, IInv, Same, None, world, ghosts
<1>12. \A s \in Slots : request[s].kind = "code" => request[s].from # request[r].n
  BY <1>5 DEF HeldFits, IInv
<1>13. StepsOnce'
  <2>1. \A a \in sessions : a.step # held0.n
    BY <1>5, <1>7 DEF HeldFits, IInv
  <2>2. \A s \in steps', a \in sessions' : a.step # s.n
    BY <1>1, <1>7, <2>1 DEF StepsOnce, IInv, ghosts
  <2>3. \A s \in Slots : Finishing(request'[s]) =>
          /\ \A t \in steps' : t.n # request'[s].from
          /\ \A a \in sessions' : a.step # request'[s].from
          /\ \A t \in Slots : Finishing(request'[t]) /\ request'[t].from = request'[s].from => t = s
    BY <1>1, <1>7, <1>10, <1>12 DEF StepsOnce, IInv, Same, Finishing, ghosts
  <2> QED
    BY <1>1, <2>2, <2>3 DEF StepsOnce, IInv, ghosts
<1>14. SessionsOver' /\ SecretOnce'
  <2>1. StillSecret(r)
    BY <1>1, <1>3, <1>4 DEF StillSecret, process, ghosts
  <2> QED
    BY <1>1, <1>4, <1>8, <2>1, KeepsSecret, KeepsSessionsOver DEF ghosts
<1>15. StillFactor(r) /\ StillCodes
  BY <1>1, <1>3, <1>4, StillSame DEF process, world, ghosts
<1>16. StillGiven(r)
  BY <1>1, <1>3, <1>4 DEF StillGiven, ghosts
<1> QED
  BY <1>4, <1>8, <1>9, <1>11, <1>13, <1>14, <1>15, <1>16, KeepsParts, KeepsFactor, KeepsCodes, KeepsGiven

\* A session comes of a request that is over with it.
LEMMA KeepsIssue ==
    ASSUME IInv, NEW r \in Slots, Issue(r)
    PROVE  IInv'
<1>1. PICK new : new = [n |-> request[r].n, step |-> IF request[r].kind = "code" THEN request[r].from ELSE None,
                        factor |-> request[r].kind = "code", late |-> request[r].late]
  OBVIOUS
<1>2. /\ UNCHANGED <<app, codes, steps, failures, process, world, judged, accepted, connected, settled>>
      /\ request[r].at = "issue" /\ Rests(r)
      /\ sessions' = sessions \cup {new}
      /\ live' \subseteq live \cup {new.n}
  BY <1>1 DEF Issue, At
<1>3. /\ new \in Session /\ new.n = request[r].n /\ new.n # 0 /\ (new.factor <=> request[r].kind = "code")
      /\ (new.late <=> request[r].late)
      /\ new.step = IF request[r].kind = "code" THEN request[r].from ELSE 0
  <2>1. request[r].n # 0 /\ request[r].late \in BOOLEAN /\ request[r].n \in Nat /\ request[r].from \in Nat
    BY <1>2, Parts DEF Request
  <2> QED
    BY <1>1, <2>1 DEF Session, None
<1>4. /\ request' \in [Slots -> Request] /\ request'[r] = Resting /\ Turns(r) /\ StillThrottle(r)
      /\ \A s \in Slots \ {r} : request'[s] = request[s]
  <2>1. request' = [request EXCEPT ![r] = Resting] /\ request[r].at \in Unreserved \ {"idle"}
        /\ made'.requests = made.requests /\ UNCHANGED <<failures, judged>>
    BY <1>2 DEF Rests, Unreserved, Places, world
  <2> QED
    BY <2>1, GoesOn, RestingType
<1>5. TypeOK'
  BY <1>2, <1>3, <1>4, Parts DEF TypeOK, process, world, Session
<1>6. KindFits(Resting)
  BY RestingType DEF KindFits
<1>7. /\ \A s \in Slots : Finishing(request'[s]) => Finishing(request[s]) /\ request'[s] = request[s] /\ s # r
      /\ \A s \in Slots : MayHold(request'[s]) => MayHold(request[s]) /\ request'[s] = request[s] /\ s # r
      /\ \A s \in Slots : request'[s].kind = "code" => request[s].kind = "code" /\ request'[s] = request[s]
  BY <1>4, RestingType DEF Finishing, MayHold
<1>8. \A s \in Slots : MayHold(request[s]) => request[s].n # 0
  BY Parts DEF MayHold, KindFits
<1>9. \A s \in Slots : MayHold(request'[s]) => \A a \in sessions' : a.step # request'[s].n
  <2> SUFFICES ASSUME NEW s \in Slots, MayHold(request'[s])
               PROVE  \A a \in sessions' : a.step # request'[s].n
    OBVIOUS
  <2>1. MayHold(request[s]) /\ request'[s] = request[s] /\ request[s].n # 0
    BY <1>7, <1>8
  <2>2. \A a \in sessions : a.step # request[s].n
    BY <2>1 DEF IInv, HeldFits
  <2>3. new.step # request[s].n
    BY <1>3, <2>1 DEF IInv, HeldFits
  <2> QED
    BY <1>2, <2>1, <2>2, <2>3
<1>10. HeldFits'
  <2>1. \A a \in sessions' : a.step <= made'.requests /\ a.n <= made'.requests /\ a.n # 0
    BY <1>2, <1>3, SignInTypes DEF world
  <2>2. \A s \in steps' : s.n # None /\ s.n <= made'.requests
    BY <1>2, SignInTypes DEF None, world
  <2>3. \A s \in Slots : request'[s].kind = "code" => request'[s].from # None /\ request'[s].from <= made'.requests
    BY <1>2, <1>7, SignInTypes DEF None, world
  <2>4. \A s \in Slots : MayHold(request'[s]) =>
           /\ \A t \in steps' : t.n # request'[s].n
           /\ \A t \in Slots : request'[t].kind = "code" => request'[t].from # request'[s].n
    BY <1>2, <1>7 DEF IInv, HeldFits
  <2> QED
    BY <1>9, <2>1, <2>2, <2>3, <2>4 DEF HeldFits
<1>11. ASSUME request[r].kind = "code"
       PROVE  StepsOnce'
  <2>1. Finishing(request[r]) /\ new.step = request[r].from /\ new.step # 0
    BY <1>2, <1>3, <1>11, SignInTypes DEF Finishing
  <2>2. /\ \A t \in steps : t.n # new.step
        /\ \A a \in sessions : a.step # new.step
        /\ \A s \in Slots : Finishing(request[s]) /\ request[s].from = new.step => s = r
    BY <2>1 DEF IInv, StepsOnce
  <2>3. \A s \in steps', a \in sessions' : a.step # s.n
    BY <1>2, <2>2 DEF IInv, StepsOnce
  <2>4. \A s \in Slots : Finishing(request'[s]) =>
           /\ \A t \in steps' : t.n # request'[s].from
           /\ \A a \in sessions' : a.step # request'[s].from
           /\ \A t \in Slots : Finishing(request'[t]) /\ request'[t].from = request'[s].from => t = s
    BY <1>2, <1>7, <2>2 DEF IInv, StepsOnce
  <2>5. \A a, b \in sessions' : a.step = b.step /\ a.step # None => a = b
    BY <1>2, <2>2 DEF IInv, StepsOnce
  <2> QED
    BY <2>3, <2>4, <2>5 DEF StepsOnce
<1>12. ASSUME request[r].kind # "code"
       PROVE  StepsOnce'
  <2>1. new.step = 0
    BY <1>3, <1>12
  <2>2. \A s \in steps', a \in sessions' : a.step # s.n
    BY <1>2, <2>1, SignInTypes DEF IInv, StepsOnce
  <2>3. \A s \in Slots : Finishing(request'[s]) =>
           /\ \A t \in steps' : t.n # request'[s].from
           /\ \A a \in sessions' : a.step # request'[s].from
           /\ \A t \in Slots : Finishing(request'[t]) /\ request'[t].from = request'[s].from => t = s
    <3>1. \A s \in Slots : Finishing(request[s]) => request[s].from # 0
      BY SignInTypes DEF Finishing
    <3> QED
      BY <1>2, <1>7, <2>1, <3>1 DEF IInv, StepsOnce
  <2>4. \A a, b \in sessions' : a.step = b.step /\ a.step # None => a = b
    BY <1>2, <2>1 DEF IInv, StepsOnce, None
  <2> QED
    BY <2>2, <2>3, <2>4 DEF StepsOnce
<1>13. SessionsOver'
  <2>1. \A s \in Slots \ {r} : request[s].n # request[r].n
    BY <1>3, Parts DEF Numbered
  <2> QED
    BY <1>2, <1>3, <1>4, <2>1, RestingType, SignInTypes DEF IInv, SessionsOver
<1>14. StillFactor(r) /\ StillCodes /\ StillSecret(r)
  BY <1>2, <1>4, RestingType, StillSame DEF process, world, StillSecret
<1>15. \A s \in Slots \ {r} : request'[s] = request[s]
  BY <1>4
<1>16. OnTheWay' /\ ChangeOwn'
  BY <1>2, <1>4, RestingType DEF IInv, OnTheWay, ChangeOwn, world
<1>17. app.on => Given(new)
  BY <1>2, <1>3 DEF IInv, OnTheWay, Given
<1>18. \A a \in sessions : a.n \in live' => a.n \in live
  <2>1. \A a \in sessions : a.n # new.n
    BY <1>3 DEF IInv, SessionsOver
  <2> QED
    BY <1>2, <2>1
<1>19. \A a : Given(a)' <=> Given(a)
  BY <1>2 DEF Given
<1>20. FactorGiven'
  <2>1. \A a \in sessions : app.on /\ settled.sessions /\ a.n \in live => Given(a)
    BY DEF IInv, FactorGiven, Given
  <2>2. app'.on /\ settled'.sessions => \A a \in sessions' : a.n \in live' => Given(a)
    BY <1>2, <1>17, <1>18, <2>1
  <2> QED
    BY <1>19, <2>2 DEF FactorGiven, Given
<1>21. EndsAll'
  <2>1. \A s \in Slots : request'[s].at = "end" => request'[s] = request[s]
    BY <1>4, RestingType
  <2> QED
    BY <1>2, <1>17, <1>18, <1>19, <2>1 DEF IInv, EndsAll
<1> QED
  BY <1>4, <1>5, <1>6, <1>10, <1>11, <1>12, <1>13, <1>14, <1>16, <1>20, <1>21, KeepsParts, KeepsFactor,
     KeepsCodes, KeepsSecret

\* A held sign-in is finished by whoever deletes it.
LEMMA KeepsFinish ==
    ASSUME IInv, NEW r \in Slots, Finish(r)
    PROVE  IInv'
<1>1. PICK n : n = request[r].from
  OBVIOUS
<1>2. /\ UNCHANGED <<app, codes, failures, live, process, world, ghosts>> /\ request[r].at = "finish"
      /\ request[r].kind = "code"
      /\ steps' = {s \in steps : s.n # n}
  BY <1>1, Parts DEF Finish, Dropped, At, KindFits
<1>3. PICK p : /\ request' = [request EXCEPT ![r] = p]
               /\ \/ p = [request[r] EXCEPT !.at = "issue"] /\ \E s \in steps : s.n = n
                  \/ p = Resting
  BY <1>1 DEF Finish, Goes, Rests
<1>4. /\ p \in Request
      /\ \/ /\ p.at = "issue" /\ p.kind = "code" /\ Same(p, request[r]) /\ p.mine = request[r].mine
            /\ \E s \in steps : s.n = n
         \/ p = Resting
  <2>1. "issue" \in Places
    BY DEF Places
  <2> QED
    BY <1>2, <1>3, <2>1, RestingType, Parts DEF Request, Same
<1>5. /\ request' \in [Slots -> Request] /\ request'[r] = p /\ Turns(r) /\ StillThrottle(r)
      /\ \A s \in Slots \ {r} : request'[s] = request[s]
      /\ p.kind = "code" => Same(p, request[r])
  BY <1>2, <1>3, <1>4, GoesOn DEF Unreserved, Places, world, ghosts
<1>6. TypeOK'
  BY <1>2, <1>5, Parts DEF TypeOK, process, world, ghosts
<1>7. KindFits(p)
  BY <1>4, RestingType DEF KindFits
<1>8. /\ \A s \in Slots : MayHold(request'[s]) => MayHold(request[s]) /\ request'[s].n = request[s].n
      /\ \A s \in Slots : request'[s].kind = "code" => request[s].kind = "code" /\ request'[s].from = request[s].from
  BY <1>2, <1>4, <1>5, RestingType DEF MayHold, Same
<1>9. HeldFits'
  BY <1>2, <1>8, SignInTypes DEF IInv, HeldFits, None, world, ghosts
<1>10. StepsOnce'
  <2>1. \A s \in Slots : Finishing(request'[s]) =>
           \/ s # r /\ Finishing(request[s]) /\ request'[s] = request[s]
           \/ s = r /\ request'[s].from = n /\ \E t \in steps : t.n = n
    BY <1>1, <1>4, <1>5, RestingType DEF Finishing, Same
  <2>2. \A s \in Slots : Finishing(request[s]) =>
           /\ \A t \in steps : t.n # request[s].from
           /\ \A a \in sessions : a.step # request[s].from
           /\ \A t \in Slots : Finishing(request[t]) /\ request[t].from = request[s].from => t = s
    BY DEF IInv, StepsOnce
  <2>3. \A s \in steps, a \in sessions : a.step # s.n
    BY DEF IInv, StepsOnce
  <2>4. \A s \in Slots : Finishing(request'[s]) =>
           /\ \A t \in steps' : t.n # request'[s].from
           /\ \A a \in sessions' : a.step # request'[s].from
    BY <1>2, <2>1, <2>2, <2>3 DEF ghosts
  <2>5. \A s, t \in Slots : Finishing(request'[s]) /\ Finishing(request'[t]) /\ request'[t].from = request'[s].from => t = s
    BY <2>1, <2>2
  <2> QED
    BY <1>2, <2>3, <2>4, <2>5 DEF IInv, StepsOnce, ghosts
<1>11. SessionsOver' /\ SecretOnce'
  <2>1. StillSecret(r)
    BY <1>2, <1>4, <1>5, RestingType DEF StillSecret, process, ghosts
  <2> QED
    BY <1>2, <1>5, <1>6, <2>1, KeepsSecret, KeepsSessionsOver DEF ghosts
<1>12. StillFactor(r) /\ StillCodes
  BY <1>2, <1>4, <1>5, RestingType, StillSame DEF process, world, ghosts
<1>13. StillGiven(r)
  BY <1>2, <1>4, <1>5, RestingType DEF StillGiven, ghosts
<1> QED
  BY <1>5, <1>6, <1>7, <1>9, <1>10, <1>11, <1>12, <1>13, KeepsParts, KeepsFactor, KeepsCodes, KeepsGiven

-----------------------------------------------------------------------------
(* Changes of the factor *)

\* A change overtakes what was read before it.
LEMMA OvertakenFacts ==
    ASSUME IInv, NEW r \in Slots, NEW p \in Request, request' = [Overtaken EXCEPT ![r] = p],
           request[r].at \in Unreserved \ {"idle"},
           Same(p, request[r]), p.mine = request[r].mine, p.at \in Unreserved \ {"idle"},
           made'.requests = made.requests, UNCHANGED <<failures, judged>>
    PROVE  /\ request' \in [Slots -> Request] /\ request'[r] = p /\ Turns(r) /\ StillThrottle(r)
           /\ \A s \in Slots \ {r} :
                 /\ Same(request'[s], request[s]) /\ request'[s].at = request[s].at
                 /\ request'[s].at = "remember" => request'[s].late
                 /\ request'[s].at = "issue" /\ request'[s].kind # "code" => request'[s].late
<1>1. \A s \in Slots : request[s] \in Request
  BY Parts
<1>2. \A s \in Slots : /\ [request[s] EXCEPT !.late = TRUE] \in Request
                       /\ Alike([request[s] EXCEPT !.late = TRUE], request[s])
                       /\ [request[s] EXCEPT !.late = TRUE].stale = request[s].stale
                       /\ [request[s] EXCEPT !.late = TRUE].late
  BY <1>1 DEF Request, Alike, Same
<1>3. \A s \in Slots : Alike(request[s], request[s])
  BY DEF Alike, Same
<1>4. /\ Overtaken \in [Slots -> Request]
      /\ \A s \in Slots : /\ Alike(Overtaken[s], request[s]) /\ Overtaken[s].stale = request[s].stale
                          /\ At(s, "remember") => Overtaken[s].late
                          /\ At(s, "issue") /\ request[s].kind # "code" => Overtaken[s].late
  BY <1>1, <1>2, <1>3 DEF Overtaken
<1>5. /\ request' \in [Slots -> Request] /\ request'[r] = p
      /\ \A s \in Slots \ {r} : request'[s] = Overtaken[s]
  BY <1>4
<1>6. request[r].n # 0 /\ request[r].mine = {}
  BY Parts DEF Unreserved, Reserves
<1>7. \A s \in Slots \ {r} :
         /\ Alike(request'[s], request[s]) /\ request'[s].stale = request[s].stale
         /\ At(s, "remember") => request'[s].late
         /\ At(s, "issue") /\ request[s].kind # "code" => request'[s].late
  BY <1>4, <1>5
<1>8. WentOn(r)
  BY <1>5, <1>6 DEF WentOn, Unreserved
<1>9. Turns(r)
  BY <1>7, <1>8 DEF Turns
<1>10. StillThrottle(r)
  BY <1>5, <1>6, <1>7 DEF StillThrottle, Unreserved
<1>11. \A s \in Slots \ {r} : Same(request'[s], request[s]) /\ request'[s].at = request[s].at
  BY <1>7 DEF Alike
<1> QED
  BY <1>5, <1>7, <1>9, <1>10, <1>11 DEF At, Same

\* A change of the factor: what was read of it is late, what was remembered may
\* be wrong until it is dropped, and the sessions are still to end.
LEMMA KeepsChange ==
    ASSUME IInv, NEW r \in Slots, NEW p \in Request, request' = [Overtaken EXCEPT ![r] = p],
           request[r].at \in Unreserved \ {"idle", "trim", "issue"},
           Same(p, request[r]), p.mine = request[r].mine, KindFits(p),
           p.at \in Unreserved \ {"idle", "remember", "issue", "end", "connect"},
           settled' = Began(r),
           app' \in [id : Nat, on : BOOLEAN, last : Nat], app'.id <= made.apps, app'.on => app'.id # None,
           app'.id = None \/ (app'.id = app.id /\ ~app.on),
           UNCHANGED <<codes, steps, failures, live, process, world, judged, accepted, sessions, connected>>
    PROVE  IInv'
<1>1. /\ request' \in [Slots -> Request] /\ request'[r] = p /\ Turns(r) /\ StillThrottle(r)
      /\ \A s \in Slots \ {r} :
            /\ Same(request'[s], request[s]) /\ request'[s].at = request[s].at
            /\ request'[s].at = "remember" => request'[s].late
            /\ request'[s].at = "issue" /\ request'[s].kind # "code" => request'[s].late
  <2>1. made'.requests = made.requests /\ request[r].at \in Unreserved \ {"idle"} /\ p.at \in Unreserved \ {"idle"}
    BY DEF world
  <2> QED
    BY <2>1, OvertakenFacts
<1>2. /\ settled'.by = request[r].n /\ settled'.own = request[r].from
      /\ settled'.sessions = FALSE /\ settled'.held = FALSE
      /\ settled' \in [by : Nat, own : Nat, sessions : BOOLEAN, held : BOOLEAN]
  BY SignInTypes DEF Began
<1>3. TypeOK'
  BY <1>1, <1>2, Parts DEF TypeOK, process, world
<1>4. AppFits' /\ FactorRemembered'
  BY <1>2 DEF AppFits, FactorRemembered, world
<1>5. SawTrue'
  BY <1>1 DEF SawTrue
<1>6. StillCodes
  <2>1. made.apps \in Nat /\ made.apps <= made.apps
    BY Parts DEF TypeOK
  <2> QED
    BY <2>1 DEF StillCodes, world
<1>7. StillSteps(r)
  <2>1. MayHold(p) => MayHold(request[r])
    BY DEF MayHold, Same
  <2> QED
    BY <1>1, <2>1 DEF StillSteps, Finishing
<1>8. StillSecret(r)
  BY <1>1 DEF StillSecret, process
<1>9. OnTheWay' /\ FactorGiven'
  BY <1>1, <1>2 DEF OnTheWay, FactorGiven
<1>10. \A s \in Slots : request'[s].n = request[r].n => s = r
  BY <1>1, Parts DEF Numbered, Same, Unreserved
<1>11. ChangeOwn'
  BY <1>1, <1>2, <1>10, SignInTypes DEF ChangeOwn, Same, world
<1>12. EndsAll'
  BY <1>1, <1>2, <1>10 DEF EndsAll
<1> QED
  BY <1>1, <1>3, <1>4, <1>5, <1>6, <1>7, <1>8, <1>9, <1>11, <1>12, KeepsParts, KeepsCodes, KeepsSteps,
     KeepsSecret, KeepsSessionsOver DEF StillSteps

\* The app is on, and what was read of it before is late.
LEMMA KeepsConfirm ==
    ASSUME IInv, NEW r \in Slots, Confirm(r)
    PROVE  IInv'
<1>1. /\ UNCHANGED <<codes, steps, failures, live, process, world, judged, accepted, sessions, connected>>
      /\ request[r].at = "confirm"
  BY DEF Confirm, At
<1>2. CASE Rests(r) /\ UNCHANGED <<app, settled>>
  <2>1. Calm(r)
    BY <1>1, <1>2, CalmRests DEF world
  <2>2. Still(r)
    BY <1>1, <1>2, <2>1, Parts, StillCalm DEF TypeOK, world, ghosts
  <2> QED
    BY <2>2, KeepsStill
<1>3. CASE ~(app.id = None \/ app.on)
  <2>1. /\ app' = [app EXCEPT !.on = TRUE, !.last = request[r].code.number]
        /\ request' = [Overtaken EXCEPT ![r].at = "confirmed", ![r].code = Unread]
        /\ settled' = Began(r)
    BY <1>3 DEF Confirm
  <2>2. request[r].code.number \in Nat
    BY Parts DEF Request, Code
  <2>3. app' \in [id : Nat, on : BOOLEAN, last : Nat] /\ app'.id = app.id
    BY <2>1, <2>2, CodeTypes
  <2>4. PICK p : p = [request[r] EXCEPT !.at = "confirmed", !.code = Unread]
    OBVIOUS
  <2>5. Unread \in Code /\ "confirmed" \in Places
    BY DEF Unread, Code, None, Places
  <2>6. p \in Request /\ Same(p, request[r]) /\ p.mine = request[r].mine /\ p.at = "confirmed"
    BY <2>4, <2>5, Parts DEF Request, Same
  <2>7. Overtaken[r] = request[r] /\ DOMAIN Overtaken = Slots
    BY <1>1 DEF Overtaken, At
  <2>8. request' = [Overtaken EXCEPT ![r] = p]
    BY <2>1, <2>4, <2>7
  <2>9. KindFits(p)
    BY <2>6 DEF KindFits
  <2>10. app.id <= made.apps
    BY Parts
  <2> QED
    BY <1>1, <1>3, <2>1, <2>3, <2>6, <2>8, <2>9, <2>10, KeepsChange DEF Unreserved, Places
<1> QED
  BY <1>2, <1>3 DEF Confirm

\* The app goes, and what was read of it before is late.
LEMMA KeepsRemove ==
    ASSUME IInv, NEW r \in Slots, Remove(r)
    PROVE  IInv'
<1>1. /\ UNCHANGED <<codes, steps, failures, live, process, world, judged, accepted, sessions, connected>>
      /\ request[r].at = "remove" /\ app' = NoApp /\ settled' = Began(r)
  BY DEF Remove, At
<1>2. PICK at \in {"drop codes", "bare"} : request' = [Overtaken EXCEPT ![r].at = at]
  BY DEF Remove
<1>3. PICK p : p = [request[r] EXCEPT !.at = at]
  OBVIOUS
<1>4. p \in Request /\ Same(p, request[r]) /\ p.mine = request[r].mine /\ p.at = at
  <2>1. at \in Places
    BY DEF Places
  <2> QED
    BY <1>3, <2>1, Parts DEF Request, Same
<1>5. Overtaken[r] = request[r] /\ DOMAIN Overtaken = Slots
  BY <1>1 DEF Overtaken, At
<1>6. request' = [Overtaken EXCEPT ![r] = p]
  BY <1>2, <1>3, <1>5
<1>7. KindFits(p)
  BY <1>4 DEF KindFits
<1>8. app' \in [id : Nat, on : BOOLEAN, last : Nat] /\ app'.id = None /\ ~app'.on /\ app'.id <= made.apps
  <2>1. made.apps \in Nat
    BY CodeTypes
  <2> QED
    <3>1. app' = [id |-> 0, on |-> FALSE, last |-> 0]
      BY <1>1 DEF NoApp, None
    <3>2. 0 <= made.apps
      BY <2>1, NatNonNegative
    <3> QED
      BY <3>1, <3>2 DEF None
<1> QED
  BY <1>1, <1>4, <1>6, <1>7, <1>8, KeepsChange DEF Unreserved, Places

\* What was read is remembered, and late if a change overtook it.
LEMMA KeepsRemember ==
    ASSUME IInv, NEW r \in Slots, Remember(r)
    PROVE  IInv'
<1>1. /\ UNCHANGED <<database, claimed, world, ghosts>> /\ request[r].at = "remember" /\ Rests(r)
      /\ held' = [is |-> IF request[r].saw THEN "on" ELSE "off", late |-> request[r].late]
  BY DEF Remember, At
<1>2. /\ request' \in [Slots -> Request] /\ request'[r] = Resting /\ Turns(r) /\ StillThrottle(r)
      /\ \A s \in Slots \ {r} : request'[s] = request[s]
  <2>1. request' = [request EXCEPT ![r] = Resting] /\ request[r].at \in Unreserved \ {"idle"}
        /\ made'.requests = made.requests /\ UNCHANGED <<failures, judged>>
    BY <1>1 DEF Rests, Unreserved, Places, world, database, ghosts
  <2> QED
    BY <2>1, GoesOn, RestingType
<1>3. request[r].late \in BOOLEAN /\ request[r].saw \in BOOLEAN /\ app.on \in BOOLEAN
  BY Parts, CodeTypes DEF Request
<1>4. TypeOK'
  <2>1. held' \in [is : {"nothing", "on", "off"}, late : BOOLEAN]
    BY <1>1, <1>3
  <2> QED
    BY <1>1, <1>2, <2>1, Parts DEF TypeOK, database, world, ghosts
<1>5. KindFits(Resting)
  BY RestingType DEF KindFits
<1>6. FactorRemembered'
  <2>1. ~request[r].late => request[r].saw = app.on
    BY <1>1 DEF IInv, SawTrue
  <2>2. ~held'.late => (held'.is = "on") = app'.on
    BY <1>1, <1>3, <2>1 DEF database
  <2> QED
    BY <2>2 DEF FactorRemembered
<1>7. AppFits' /\ SawTrue'
  BY <1>1, <1>2, RestingType DEF IInv, AppFits, SawTrue, database, world
<1>8. StillCodes
  <2>1. made.apps \in Nat /\ made.apps <= made.apps
    BY CodeTypes
  <2> QED
    BY <1>1, <2>1 DEF StillCodes, database, world, ghosts
<1>9. StillSteps(r) /\ StillSecret(r) /\ StillGiven(r)
  BY <1>1, <1>2, RestingType DEF StillSteps, StillSecret, StillGiven, Finishing, MayHold, database, ghosts
<1> QED
  BY <1>2, <1>4, <1>5, <1>6, <1>7, <1>8, <1>9, KeepsParts, KeepsCodes, KeepsSteps, KeepsSecret,
     KeepsSessionsOver, KeepsGiven DEF StillSteps

\* A recovery code that is made is new.
LEMMA KeepsFill ==
    ASSUME IInv, NEW r \in Slots, Fill(r)
    PROVE  IInv'
<1>1. /\ UNCHANGED <<app, steps, failures, live, process, lapses, ghosts>> /\ request[r].at = "fill"
      /\ made'.requests = made.requests /\ made'.apps = made.apps
      /\ made' \in [requests : Nat, apps : Nat, codes : Nat]
      /\ \/ codes' = codes /\ made'.codes = made.codes
         \/ codes' = codes \cup {made.codes + 1} /\ made'.codes = made.codes + 1
  BY CodeTypes DEF Fill, At
<1>2. PICK p : /\ request' = [request EXCEPT ![r] = p]
               /\ p \in {[request[r] EXCEPT !.left = @ - 1], [request[r] EXCEPT !.at = "others"], Resting}
               /\ p = [request[r] EXCEPT !.left = @ - 1] => request[r].left > 0
  <2>1. CASE request[r].left > 0
    BY <2>1, Parts DEF Fill
  <2>2. CASE ~(request[r].left > 0)
    <3>1. Goes(r, "others") \/ Rests(r)
      BY <2>2 DEF Fill
    <3>2. [request[r] EXCEPT !.at = "others"] # [request[r] EXCEPT !.left = @ - 1]
          /\ Resting # [request[r] EXCEPT !.left = @ - 1]
      <4>1. [request[r] EXCEPT !.left = @ - 1].at = "fill" /\ [request[r] EXCEPT !.at = "others"].at = "others"
        BY <1>1, Parts DEF Request
      <4> QED
        BY <4>1, RestingType
    <3> QED
      BY <3>1, <3>2 DEF Goes, Rests
  <2> QED
    BY <2>1, <2>2
<1>3. /\ p \in Request
      /\ \/ Same(p, request[r]) /\ p.mine = request[r].mine /\ p.at \in {"fill", "others"}
         \/ p = Resting
  <2>1. CASE p = [request[r] EXCEPT !.left = @ - 1]
    <3>1. request[r].left - 1 \in Nat
      BY <1>2, <2>1, Parts DEF Request
    <3> QED
      BY <1>1, <2>1, <3>1, Parts DEF Request, Same
  <2>2. CASE p = [request[r] EXCEPT !.at = "others"]
    <3>1. "others" \in Places
      BY DEF Places
    <3> QED
      BY <2>2, <3>1, Parts DEF Request, Same
  <2> QED
    BY <1>2, <2>1, <2>2, RestingType
<1>4. /\ request' \in [Slots -> Request] /\ request'[r] = p /\ Turns(r) /\ StillThrottle(r)
      /\ p.kind = "code" => Same(p, request[r])
  BY <1>1, <1>2, <1>3, GoesOn DEF Unreserved, Places, ghosts
<1>5. codes' \subseteq Nat
  BY <1>1, CodeTypes
<1>6. TypeOK'
  BY <1>1, <1>4, <1>5, Parts DEF TypeOK, process, ghosts
<1>7. KindFits(p)
  BY <1>3, RestingType DEF KindFits
<1>8. CodesOnce'
  BY <1>1 DEF IInv, CodesOnce, ghosts
<1>9. CodesGone'
  <2>1. made.codes \in Nat /\ made'.codes \in Nat
    BY <1>1, CodeTypes
  <2>2. \A n \in codes' : n <= made'.codes
    BY <1>1, <2>1, CodeTypes DEF IInv, CodesGone
  <2>3. \A a \in accepted : a.code.app = None => a.code.number \notin codes' /\ a.code.number <= made'.codes
    BY <1>1, <2>1, CodeTypes DEF IInv, CodesGone
  <2> QED
    BY <1>1, <2>2, <2>3 DEF IInv, CodesGone, ghosts
<1>10. StillFactor(r) /\ StillSteps(r) /\ StillSecret(r) /\ StillGiven(r)
  <2>1. app.id <= made.apps /\ (app.on => app.id # None)
    BY Parts
  <2>2. MayHold(p) => MayHold(request[r])
    BY <1>1, <1>3, RestingType DEF MayHold, Same
  <2>3. request'[r].at \notin {"remember", "connect", "end", "issue"} /\ ~Finishing(request'[r])
    BY <1>3, <1>4, RestingType DEF Finishing
  <2> QED
    BY <1>1, <1>4, <2>1, <2>2, <2>3 DEF StillFactor, StillSteps, StillSecret, StillGiven, process, ghosts
<1> QED
  BY <1>4, <1>6, <1>7, <1>8, <1>9, <1>10, KeepsParts, KeepsFactor, KeepsSteps, KeepsSecret,
     KeepsSessionsOver, KeepsGiven DEF StillSteps

\* Ending the others leaves none that gave no factor.
LEMMA KeepsPickOthers ==
    ASSUME IInv, NEW r \in Slots, PickOthers(r)
    PROVE  IInv'
<1>1. UNCHANGED <<database, process, world, ghosts>> /\ request[r].at = "others"
  BY DEF PickOthers, At
<1>2. PICK p : p = [request[r] EXCEPT !.at = "end", !.ends = Others(request[r].from)]
  OBVIOUS
<1>3. /\ p \in Request /\ Same(p, request[r]) /\ p.mine = request[r].mine /\ p.at = "end"
      /\ p.ends = live \ {request[r].from}
  <2>1. "end" \in Places /\ live \subseteq Nat
    BY Parts DEF Places, TypeOK
  <2> QED
    BY <1>2, <2>1, Parts DEF Request, Same, Others
<1>4. /\ request' \in [Slots -> Request] /\ request'[r] = p /\ Turns(r) /\ StillThrottle(r)
      /\ \A s \in Slots \ {r} : request'[s] = request[s]
  <2>1. request' = [request EXCEPT ![r] = p]
    BY <1>2, Parts DEF PickOthers
  <2> QED
    BY <1>1, <1>3, <2>1, GoesOn DEF Unreserved, Places, database, world, ghosts
<1>5. TypeOK'
  BY <1>1, <1>4, Parts DEF TypeOK, database, process, world, ghosts
<1>6. KindFits(p)
  BY <1>3 DEF KindFits
<1>7. StillFactor(r) /\ StillCodes
  BY <1>1, <1>3, <1>4, StillSame DEF database, process, world, ghosts
<1>8. StillSteps(r) /\ StillSecret(r)
  BY <1>1, <1>3, <1>4 DEF StillSteps, StillSecret, Finishing, MayHold, Same, database, process, ghosts
<1>9. OnTheWay' /\ ChangeOwn' /\ FactorGiven'
  <2>1. \A s \in Slots : Same(request'[s], request[s]) /\ (request'[s].at = "issue" => request'[s] = request[s])
    BY <1>3, <1>4 DEF Same
  <2> QED
    BY <1>1, <2>1 DEF IInv, OnTheWay, ChangeOwn, FactorGiven, Same, database, world, ghosts
<1>10. EndsAll'
  <2>1. \A a : Given(a)' <=> Given(a)
    BY <1>1 DEF Given, ghosts
  <2>2. request[r].n = settled.by => request[r].from = settled.own
    BY <1>1, Parts DEF IInv, ChangeOwn
  <2>3. request'[r].n = settled.by => \A a \in sessions : a.n \in live /\ a.n \notin request'[r].ends => Given(a)
    BY <1>3, <1>4, <2>2 DEF Given, Same
  <2> QED
    BY <1>1, <1>4, <2>1, <2>3 DEF IInv, EndsAll, database, ghosts
<1> QED
  BY <1>4, <1>5, <1>6, <1>7, <1>8, <1>9, <1>10, KeepsParts, KeepsFactor, KeepsCodes, KeepsSteps,
     KeepsSecret, KeepsSessionsOver DEF StillSteps

\* The account's other sessions end, and every one that gave no factor among them.
LEMMA KeepsEndOthers ==
    ASSUME IInv, NEW r \in Slots, EndOthers(r)
    PROVE  IInv'
<1>1. /\ UNCHANGED <<app, codes, steps, failures, process, world, judged, accepted, sessions, connected>>
      /\ request[r].at = "end" /\ Rests(r)
      /\ live' = (IF request[r].kind = "reset" THEN {} ELSE live \ request[r].ends)
      /\ settled' = [settled EXCEPT !.sessions = @ \/ settled.by = request[r].n]
  BY DEF EndOthers, At
<1>2. /\ request' \in [Slots -> Request] /\ request'[r] = Resting /\ Turns(r) /\ StillThrottle(r)
      /\ \A s \in Slots \ {r} : request'[s] = request[s]
  <2>1. request' = [request EXCEPT ![r] = Resting] /\ request[r].at \in Unreserved \ {"idle"}
        /\ made'.requests = made.requests /\ UNCHANGED <<failures, judged>>
    BY <1>1 DEF Rests, Unreserved, Places, world
  <2> QED
    BY <2>1, GoesOn, RestingType
<1>3. settled \in [by : Nat, own : Nat, sessions : BOOLEAN, held : BOOLEAN]
  BY Parts DEF TypeOK
<1>5. /\ settled'.by = settled.by /\ settled'.own = settled.own /\ settled'.held = settled.held
      /\ settled' \in [by : Nat, own : Nat, sessions : BOOLEAN, held : BOOLEAN]
      /\ settled'.sessions => settled.sessions \/ settled.by = request[r].n
  BY <1>1, <1>3
<1>6. live' \subseteq live
  BY <1>1
<1>7. TypeOK'
  BY <1>1, <1>2, <1>5, <1>6, Parts DEF TypeOK, process, world
<1>8. KindFits(Resting)
  BY RestingType DEF KindFits
<1>9. (AppFits /\ SawTrue /\ FactorRemembered)'
  <2>1. made.apps \in Nat /\ app.id <= made.apps /\ (app.on => app.id # None)
    BY CodeTypes, Parts
  <2>2. StillFactor(r)
    BY <1>1, <1>2, <1>5, <2>1, RestingType DEF StillFactor, process, world
  <2> QED
    BY <1>2, <1>7, <2>2, KeepsFactor
<1>10. StillCodes
  <2>1. made.apps \in Nat /\ made.apps <= made.apps
    BY CodeTypes
  <2> QED
    BY <1>1, <2>1 DEF StillCodes, world
<1>11. StillSteps(r) /\ StillSecret(r)
  BY <1>1, <1>2, RestingType DEF StillSteps, StillSecret, Finishing, MayHold, process
<1>12. \A a : Given(a)' <=> Given(a)
  BY <1>5 DEF Given
<1>13. OnTheWay' /\ ChangeOwn'
  BY <1>1, <1>2, <1>5, RestingType DEF IInv, OnTheWay, ChangeOwn, world
<1>14. EndsAll'
  <2>1. \A s \in Slots : request'[s].at = "end" => request'[s] = request[s]
    BY <1>2, RestingType
  <2> QED
    BY <1>1, <1>5, <1>6, <1>12, <2>1 DEF IInv, EndsAll
<1>15. FactorGiven'
  <2>1. app.on /\ settled.sessions => \A a \in sessions : a.n \in live => Given(a)
    BY DEF IInv, FactorGiven, Given
  <2>2. app.on /\ settled.by = request[r].n => \A a \in sessions : a.n \in live' => Given(a)
    BY <1>1 DEF IInv, EndsAll
  <2>3. app'.on /\ settled'.sessions => \A a \in sessions' : a.n \in live' => Given(a)
    BY <1>1, <1>5, <1>6, <2>1, <2>2
  <2> QED
    BY <1>12, <2>3 DEF FactorGiven, Given
<1> QED
  BY <1>2, <1>7, <1>8, <1>9, <1>10, <1>11, <1>13, <1>14, <1>15, KeepsParts, KeepsCodes, KeepsSteps,
     KeepsSecret, KeepsSessionsOver DEF StillSteps

-----------------------------------------------------------------------------
(* Time, and restarts *)

\* Held sign-ins that go or grow old, and what is remembered that does.
LEMMA KeepsTime ==
    ASSUME IInv, UNCHANGED <<app, codes, failures, live, claimed, request, made, ghosts>>,
           lapses' \in Nat, held' = held \/ held' = Nothing,
           steps' \subseteq Held, \A s \in steps' : \E t \in steps : s.n = t.n
    PROVE  IInv'
<1>1. TypeOK'
  <2>1. held' \in [is : {"nothing", "on", "off"}, late : BOOLEAN]
    <3>1. CASE held' = held
      BY <3>1 DEF IInv, TypeOK
    <3>2. CASE held' = Nothing
      BY <3>2 DEF Nothing
    <3> QED
      BY <3>1, <3>2
  <2> QED
    BY <2>1 DEF IInv, TypeOK, ghosts
<1>2. KindsFit' /\ Numbered' /\ Reserving'
  BY DEF IInv, KindsFit, Numbered, Reserving
<1>3. \A k : Reserved(k)' = Reserved(k) /\ Hopeful(k)' = Hopeful(k)
  BY DEF Reserved, Hopeful
<1>4. CountHolds' /\ LetThrough'
  BY <1>3, KeyStill DEF CountHolds, LetThrough, ghosts
<1>5. AppFits' /\ SawTrue'
  BY DEF IInv, AppFits, SawTrue
<1>6. FactorRemembered'
  <2>1. CASE held' = held
    BY <2>1 DEF IInv, FactorRemembered, ghosts
  <2>2. CASE held' = Nothing
    BY <2>2 DEF Nothing, FactorRemembered
  <2> QED
    BY <2>1, <2>2
<1>7. CodesGone' /\ CodesOnce'
  BY DEF IInv, CodesGone, CodesOnce, ghosts
<1>8. HeldFits'
  BY DEF IInv, HeldFits, ghosts
<1>9. StepsOnce' /\ SessionsOver'
  BY DEF IInv, StepsOnce, SessionsOver, ghosts
<1>10. SecretOnce'
  BY DEF IInv, SecretOnce, ghosts
<1>11. OnTheWay' /\ ChangeOwn' /\ EndsAll' /\ FactorGiven'
  BY DEF IInv, OnTheWay, ChangeOwn, EndsAll, FactorGiven, Given, ghosts
<1> QED
  BY <1>1, <1>2, <1>4, <1>5, <1>6, <1>7, <1>8, <1>9, <1>10, <1>11 DEF IInv

\* The browser cancels a held sign-in.
LEMMA KeepsCancel ==
    ASSUME IInv, Cancel
    PROVE  IInv'
<1>1. steps' \subseteq steps /\ UNCHANGED <<app, codes, failures, live, process, request, world, ghosts>>
  BY DEF Cancel, Dropped
<1>2. steps \subseteq Held /\ lapses \in Nat
  BY DEF IInv, TypeOK
<1> QED
  BY <1>1, <1>2, KeepsTime DEF process, world

\* A held sign-in expires.
LEMMA KeepsExpires ==
    ASSUME IInv, NEW s \in steps, Expires(s)
    PROVE  IInv'
<1>1. steps \subseteq Held /\ lapses \in Nat
  BY DEF IInv, TypeOK
<1>2. [s EXCEPT !.old = TRUE] \in Held /\ [s EXCEPT !.old = TRUE].n = s.n
  BY <1>1 DEF Held
<1>3. steps' = (steps \ {s}) \cup {[s EXCEPT !.old = TRUE]} /\ lapses' = lapses + 1
      /\ UNCHANGED <<app, codes, failures, live, process, request, made, ghosts>>
  BY DEF Expires, Passes
<1>4. steps' \subseteq Held /\ \A t \in steps' : \E u \in steps : t.n = u.n
  BY <1>1, <1>2, <1>3
<1>5. lapses' \in Nat
  BY <1>1, <1>3
<1> QED
  BY <1>3, <1>4, <1>5, KeepsTime DEF process

\* What was remembered lapses.
LEMMA KeepsLapse ==
    ASSUME IInv, Lapse
    PROVE  IInv'
<1>1. steps \subseteq Held /\ lapses \in Nat
  BY DEF IInv, TypeOK
<1> QED
  BY <1>1, KeepsTime DEF Lapse, database, world

\* With every request over, nothing is under way.
LEMMA KeepsRestart ==
    ASSUME IInv, Restart
    PROVE  IInv'
<1>1. /\ request' = [r \in Slots |-> Resting]
      /\ held' = Nothing /\ claimed' = FALSE /\ connected' = {}
      /\ settled' = [settled EXCEPT !.held = TRUE]
      /\ lapses' = lapses + 1
      /\ UNCHANGED <<database, made, judged, accepted, sessions>>
  BY DEF Restart, Passes
<1>2. request' \in [Slots -> Request] /\ \A s \in Slots : request'[s] = Resting
  BY <1>1, RestingType
<1>3. /\ settled' \in [by : Nat, own : Nat, sessions : BOOLEAN, held : BOOLEAN]
      /\ settled'.by = settled.by /\ settled'.own = settled.own /\ settled'.sessions = settled.sessions
  <2>1. settled \in [by : Nat, own : Nat, sessions : BOOLEAN, held : BOOLEAN]
    BY DEF IInv, TypeOK
  <2> QED
    BY <1>1, <2>1
<1>4. TypeOK'
  <2>1. held' \in [is : {"nothing", "on", "off"}, late : BOOLEAN] /\ held'.is = "nothing"
    BY <1>1 DEF Nothing
  <2>2. lapses' \in Nat
    BY <1>1 DEF IInv, TypeOK
  <2> QED
    BY <1>1, <1>2, <1>3, <2>1, <2>2 DEF IInv, TypeOK, database
<1>5. KindsFit' /\ Reserving'
  BY <1>2, RestingType DEF KindsFit, KindFits, Reserving, Reserves
<1>6. Numbered'
  BY <1>1, <1>2, RestingType, SignInTypes DEF Numbered
<1>7. \A k : Reserved(k)' \subseteq Reserved(k) /\ Hopeful(k)' \subseteq Hopeful(k)
  BY <1>2, RestingType DEF Reserved, Hopeful
<1>8. CountHolds' /\ LetThrough'
  BY <1>1, <1>7, KeyStill DEF CountHolds, LetThrough, database
<1>9. AppFits' /\ SawTrue'
  BY <1>1, <1>2, RestingType DEF IInv, AppFits, SawTrue, database
<1>10. FactorRemembered'
  BY <1>1 DEF Nothing, FactorRemembered
<1>11. CodesGone' /\ CodesOnce'
  BY <1>1 DEF IInv, CodesGone, CodesOnce, database
<1>12. HeldFits'
  BY <1>1, <1>2, RestingType DEF IInv, HeldFits, MayHold, database
<1>13. StepsOnce'
  BY <1>1, <1>2, RestingType DEF IInv, StepsOnce, Finishing, database
<1>14. SessionsOver'
  BY <1>1, <1>2, RestingType, SignInTypes DEF SessionsOver
<1>15. SecretOnce'
  BY <1>1, <1>2, RestingType DEF SecretOnce
<1>16. OnTheWay' /\ EndsAll'
  BY <1>2, RestingType DEF OnTheWay, EndsAll
<1>17. ChangeOwn'
  BY <1>1, <1>2, <1>3, RestingType DEF IInv, ChangeOwn
<1>18. FactorGiven'
  BY <1>1, <1>3 DEF IInv, FactorGiven, database
<1> QED
  BY <1>4, <1>5, <1>6, <1>8, <1>9, <1>10, <1>11, <1>12, <1>13, <1>14, <1>15, <1>16, <1>17, <1>18 DEF IInv

-----------------------------------------------------------------------------
(* The invariant, and what it gives *)

\* The account at the start, with a factor or none.
LEMMA Initially == Init => IInv
<1> SUFFICES ASSUME Init
             PROVE  IInv
  OBVIOUS
<1>1. PICK on \in BOOLEAN :
         /\ app = [id |-> 1, on |-> on, last |-> 0]
         /\ codes = IF on THEN {1} ELSE {}
         /\ made = [requests |-> 1, apps |-> 1, codes |-> IF on THEN 1 ELSE 0]
         /\ sessions = {[n |-> 1, step |-> None, factor |-> on, late |-> FALSE]}
  BY DEF Init
<1>2. /\ steps = {} /\ live = {1}
      /\ failures = [key \in Keys |-> NoRow] /\ judged = [key \in Keys |-> Fresh]
      /\ held = Nothing /\ claimed = FALSE
      /\ request = [r \in Slots |-> Resting]
      /\ lapses = 0
      /\ accepted = {} /\ connected = {}
      /\ settled = [by |-> None, own |-> None, sessions |-> TRUE, held |-> TRUE]
  BY DEF Init
<1>3. request \in [Slots -> Request] /\ \A s \in Slots : request[s] = Resting
  BY <1>2, RestingType
<1>4. TypeOK
  <2>1. app \in [id : Nat, on : BOOLEAN, last : Nat]
    BY <1>1
  <2>2. codes \subseteq Nat /\ made \in [requests : Nat, apps : Nat, codes : Nat] /\ sessions \subseteq Session
    BY <1>1 DEF Session, None
  <2>3. /\ failures \in [Keys -> Nat \cup {NoRow}] /\ judged \in [Keys -> [wrong : Nat, carried : Nat]]
        /\ held \in [is : {"nothing", "on", "off"}, late : BOOLEAN]
        /\ settled \in [by : Nat, own : Nat, sessions : BOOLEAN, held : BOOLEAN]
    BY <1>2 DEF Nothing, Fresh, None
  <2>4. steps = {} /\ live \subseteq Nat /\ claimed = FALSE /\ lapses = 0
    BY <1>2
  <2>5. accepted = {} /\ connected = {}
    BY <1>2
  <2> QED
    BY <1>3, <2>1, <2>2, <2>3, <2>4, <2>5 DEF TypeOK
<1>5. KindsFit /\ Reserving
  BY <1>3, RestingType DEF KindsFit, KindFits, Reserving, Reserves
<1>6. made.requests = 1 /\ made.apps = 1 /\ app.id = 1 /\ app.on = on
  BY <1>1
<1>7. Numbered
  BY <1>3, <1>6, RestingType DEF Numbered
<1>8. CountHolds /\ LetThrough
  <2> SUFFICES ASSUME NEW k \in Keys
               PROVE  /\ judged[k].wrong + Cardinality(Reserved(k)) <= Value(failures[k]) + judged[k].carried
                      /\ judged[k].wrong + Cardinality(Hopeful(k)) <= Limit[k] + judged[k].carried
    BY DEF CountHolds, LetThrough
  <2>1. Reserved(k) = {} /\ Hopeful(k) = {}
    BY <1>3, RestingType DEF Reserved, Hopeful
  <2>2. judged[k] = Fresh /\ failures[k] = NoRow /\ Limit[k] \in Nat
    BY <1>2, SignInAssumption
  <2> QED
    BY <2>1, <2>2, FS_EmptySet DEF Fresh, Value
<1>9. AppFits /\ SawTrue
  BY <1>3, <1>6, RestingType DEF AppFits, SawTrue, None
<1>10. FactorRemembered
  BY <1>2 DEF Nothing, FactorRemembered
<1>11. CodesGone /\ CodesOnce
  BY <1>1, <1>2 DEF CodesGone, CodesOnce
<1>12. PICK first : first = [n |-> 1, step |-> None, factor |-> on, late |-> FALSE]
  OBVIOUS
<1>13. sessions = {first} /\ first.n = 1 /\ first.step = 0 /\ first.factor = on
  BY <1>1, <1>12 DEF None
<1>14. HeldFits
  BY <1>2, <1>3, <1>6, <1>13, RestingType DEF HeldFits, MayHold
<1>15. StepsOnce /\ SessionsOver
  BY <1>2, <1>3, <1>13, RestingType DEF StepsOnce, Finishing, SessionsOver
<1>16. SecretOnce
  BY <1>2, <1>3, RestingType DEF SecretOnce
<1>17. OnTheWay /\ EndsAll
  BY <1>3, RestingType DEF OnTheWay, EndsAll
<1>18. ChangeOwn
  BY <1>2, <1>3, <1>6, RestingType DEF ChangeOwn, None
<1>19. FactorGiven
  BY <1>6, <1>13 DEF FactorGiven
<1> QED
  BY <1>4, <1>5, <1>7, <1>8, <1>9, <1>10, <1>11, <1>14, <1>15, <1>16, <1>17, <1>18, <1>19 DEF IInv

\* A step of a request keeps the invariant.
LEMMA RequestStep ==
    ASSUME IInv, NEW r \in Slots,
           Throttle(r) \/ Entering(r) \/ Stepping(r) \/ Changing(r) \/ Gating(r)
    PROVE  IInv'
<1>1. CASE Throttle(r)
  BY <1>1, KeepsReserve, KeepsAsk, KeepsRefund, KeepsClear DEF Throttle
<1>2. CASE Entering(r)
  <2>1. CASE Password(r) \/ Poll(r) \/ NotApproved(r) \/ Begin(r) \/ DropOwn(r) \/ Trim(r)
    BY <2>1, StillPassword, StillPoll, StillNotApproved, StillBegin, StillDropOwn, StillTrim, KeepsStill
  <2>2. CASE Approved(r) \/ Connect(r) \/ Hold(r) \/ Issue(r)
    BY <2>2, KeepsApproved, KeepsConnect, KeepsHold, KeepsIssue
  <2> QED
    BY <1>2, <2>1, <2>2 DEF Entering
<1>3. CASE Stepping(r)
  <2>1. CASE SendCode(r) \/ Count(r) \/ GiveUp(r)
    BY <2>1, StillSent, StillCount, StillTrim, KeepsStill
  <2>2. CASE Look(r) \/ Take(r) \/ Finish(r)
    BY <2>2, KeepsLook, KeepsTake, KeepsFinish
  <2> QED
    BY <1>3, <2>1, <2>2 DEF Stepping
<1>4. CASE Changing(r)
  <2>1. CASE \E kind \in {"start", "remove"} : Change(r, kind)
    BY <2>1, StillChange, KeepsStill
  <2>2. CASE AskRenew(r) \/ Prove(r) \/ Start(r) \/ Replace(r) \/ SetUp(r) \/ SendFirst(r) \/ Reset(r)
    BY <2>2, StillSent, StillProve, StillStart, StillSetUp, StillSendFirst, StillPoll, KeepsStill
  <2>3. CASE Confirmed(r) \/ HasCodes(r) \/ Wipe(r) \/ Bare(r) \/ DropCodes(r) \/ DropSteps(r) \/ Removed(r)
    BY <2>3, StillChanged, StillStart, StillWipe, StillDrops, KeepsStill
  <2>4. CASE Confirm(r) \/ Fill(r) \/ Remove(r) \/ PickOthers(r) \/ EndOthers(r)
    BY <2>4, KeepsConfirm, KeepsFill, KeepsRemove, KeepsPickOthers, KeepsEndOthers
  <2> QED
    BY <1>4, <2>1, <2>2, <2>3, <2>4 DEF Changing
<1>5. CASE Gating(r)
  <2>1. CASE Gate(r) \/ ReadFactor(r)
    BY <2>1, StillPoll, StillReadFactor, KeepsStill
  <2>2. CASE Remember(r)
    BY <2>2, KeepsRemember
  <2> QED
    BY <1>5, <2>1, <2>2 DEF Gating
<1> QED
  BY <1>1, <1>2, <1>3, <1>4, <1>5

\* Every step keeps the invariant.
LEMMA Inductive == IInv /\ [Next]_vars => IInv'
<1> SUFFICES ASSUME IInv, [Next]_vars
             PROVE  IInv'
  OBVIOUS
<1>1. ASSUME NEW r \in Slots, Throttle(r) \/ Entering(r) \/ Stepping(r) \/ Changing(r) \/ Gating(r)
      PROVE  IInv'
  BY <1>1, RequestStep
<1>2. CASE Cancel
  BY <1>2, KeepsCancel
<1>3. ASSUME NEW s \in steps, Expires(s)
      PROVE  IInv'
  BY <1>3, KeepsExpires
<1>4. CASE Lapse
  BY <1>4, KeepsLapse
<1>5. CASE Restart
  BY <1>5, KeepsRestart
<1>6. CASE UNCHANGED vars
  <2>1. steps \subseteq Held /\ lapses \in Nat
    BY DEF IInv, TypeOK
  <2> QED
    BY <1>6, <2>1, KeepsTime DEF vars, database, process, world
<1> QED
  BY <1>1, <1>2, <1>3, <1>4, <1>5, <1>6 DEF Next

\* The invariant holds, of any number of requests, limits and codes.
THEOREM Invariant == Spec => []IInv
BY Initially, Inductive, PTL DEF Spec

\* Every variable of signing in keeps its type (twofactor.ts, ratelimit.ts,
\* quickconnect.ts), for any number of requests at once.
THEOREM TypeCorrect == Spec => []TypeOK
<1>1. IInv => TypeOK
  BY DEF IInv
<1> QED
  BY <1>1, Invariant, PTL

\* A code, a held sign-in and a Quick Connect secret sign in once (takeTotp,
\* takeRecoveryCode and finishStep of twofactor.ts; quickconnect.ts).
THEOREM SignsInOnce == Spec => []OnceEach
<1>1. IInv => OnceEach
  <2> SUFFICES ASSUME IInv
               PROVE  OnceEach
    OBVIOUS
  <2>1. \A a, b \in connected : a = b
    BY DEF IInv, SecretOnce
  <2>2. connected = {} \/ \E a : connected = {a}
    BY <2>1
  <2>3. Cardinality(connected) <= 1
    BY <2>2, FS_EmptySet, FS_Singleton
  <2> QED
    BY <2>3 DEF IInv, OnceEach, CodesOnce, StepsOnce
<1> QED
  BY <1>1, Invariant, PTL

\* No more is guessed than the limits let (reserveLoginAttempt and
\* refundLoginAttempt of ratelimit.ts), by any number of requests at once.
THEOREM GuessesStayBounded == Spec => []GuessesBounded
<1>1. IInv => GuessesBounded
  <2> SUFFICES ASSUME IInv, NEW key \in Keys
               PROVE  judged[key].wrong
                        + Cardinality({r \in Slots : /\ request[r].at \in {"ask", "look", "take"}
                                                     /\ key \in request[r].mine \ request[r].stale})
                        <= Limit[key] + judged[key].carried
    BY DEF GuessesBounded
  <2> DEFINE Guessing == {r \in Slots : /\ request[r].at \in {"ask", "look", "take"}
                                        /\ key \in request[r].mine \ request[r].stale}
  <2>1. Guessing \subseteq Hopeful(key)
    BY DEF IInv, Reserving, Reserves, Hopeful, Reserved
  <2>2. /\ Cardinality(Guessing) <= Cardinality(Hopeful(key)) /\ Cardinality(Hopeful(key)) \in Nat
        /\ IsFiniteSet(Guessing)
    BY <2>1, ReservedFinite, FS_Subset
  <2>3. Cardinality(Guessing) \in Nat
    BY <2>2, FS_CardinalityType
  <2> HIDE DEF Guessing
  <2>4. judged[key].wrong + Cardinality(Guessing) <= Limit[key] + judged[key].carried
    BY <2>2, <2>3, KeyNumbers
  <2> QED
    BY <2>4 DEF Guessing
<1> QED
  BY <1>1, Invariant, PTL

\* While there is a factor every session gave one, but those named
\* (afterFactorChange and endSessions, beginStep of twofactor.ts).
THEOREM FactorIsGiven == Spec => []FactorGiven
<1>1. IInv => FactorGiven
  BY DEF IInv
<1> QED
  BY <1>1, Invariant, PTL

\* What hasSecondFactor of twofactor.ts remembers is so, once a change is done.
THEOREM FactorIsRemembered == Spec => []FactorRemembered
<1>1. IInv => FactorRemembered
  BY DEF IInv
<1> QED
  BY <1>1, Invariant, PTL
=============================================================================
