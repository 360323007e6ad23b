---------------------------- MODULE SessionsProofs ----------------------------
(***************************************************************************)
(* The properties of Sessions hold whatever the number of sessions,        *)
(* requests and operations.                                                *)
(***************************************************************************)
EXTENDS Sessions, FiniteSetTheorems, TLAPS

-----------------------------------------------------------------------------
(* Types, and what each operation holds at each of its steps.              *)

\* What an operation has picked to end was issued; what it deleted has no row
\* and is cut by it, or never; and it has cut what it picked when it goes on.
OpFits(o) ==
    /\ op[o].ends \subseteq Created /\ op[o].last \subseteq Created /\ op[o].left \subseteq op[o].ends
    /\ op[o].at \notin {"ending", "ended"} => op[o].left = {}
    /\ op[o].at = "signedOut" => op[o].last = op[o].ends
    /\ op[o].at \in {"signedOut", "ending", "ended"} =>
          (op[o].ends \ op[o].left) \cap rows = {} /\ op[o].last \subseteq op[o].ends
    /\ op[o].at = "deleted" => op[o].last \subseteq op[o].ends \cup uncut
    /\ op[o].at = "capped" => op[o].last \subseteq uncut
    /\ op[o].at \in {"idle", "select", "update", "updated", "insert", "cap", "capped"} =>
          op[o].ends = {}
    /\ op[o].at \in {"update", "updated", "insert", "cap", "capped"} => op[o].signsIn

\* A request under way brings a session that was issued.
RequestFits(r) == request[r].at # "idle" => request[r].token \in Created

TypeInv == TypeOK /\ (\A o \in Ops : OpFits(o)) /\ (\A r \in Requests : RequestFits(r))

\* Nothing remembered is no password.
LEMMA NoneApart == None \notin Passwords /\ 0 \in Passwords
BY SessionsAssumption DEF Passwords

\* At rest, nothing is picked.
LEMMA RestingFits == Resting \in Op /\ Idle \in Request
BY NoneApart DEF Resting, Op, Idle, Request

\* No session is issued twice, and issued sessions stay so.
LEMMA CreatedSame == UNCHANGED created => Created' = Created
BY DEF Created

\* No session is there at first.
LEMMA InitTypes == Init => TypeInv
<1> SUFFICES ASSUME Init PROVE TypeInv
  OBVIOUS
<1>1. Cardinality(Tokens) \in Nat
  BY SessionsAssumption, FS_CardinalityType
<1>2. TypeOK
  <2>1. /\ password = 0 /\ rows = {} /\ credential = 0
        /\ cache = [s \in Tokens |-> None] /\ fresh = {}
        /\ request = [r \in Requests |-> Idle]
        /\ op = [o \in Ops |-> Resting]
        /\ created = [s \in Tokens |-> 0] /\ born = [s \in Tokens |-> 0]
        /\ passed = {} /\ uncut = {} /\ alone = TRUE
    BY DEF Init
  <2>2. created \in [Tokens -> 0..Cardinality(Tokens)] /\ born \in [Tokens -> Passwords]
    BY <1>1, <2>1, NoneApart
  <2> QED
    BY <2>1, <2>2, NoneApart, RestingFits DEF TypeOK
<1>3. \A o \in Ops : OpFits(o)
  BY DEF Init, OpFits, Resting
<1>4. \A r \in Requests : RequestFits(r)
  BY DEF Init, RequestFits, Idle
<1> QED
  BY <1>2, <1>3, <1>4 DEF TypeInv

-----------------------------------------------------------------------------
(* A request's steps keep the types *)

\* What a request does leaves the operations alone.
LEMMA OpsSame ==
    ASSUME TypeInv, UNCHANGED <<op, rows, uncut, created>>
    PROVE  \A o \in Ops : OpFits(o)'
BY CreatedSame DEF TypeInv, OpFits

\* Serving a request keeps the types.
LEMMA ServingTypes ==
    ASSUME TypeInv, NEW r \in Requests, Serving(r)
    PROVE  TypeInv'
<1>1. UNCHANGED <<password, database, op, issued, uncut, alone>>
  BY DEF Serving, Resolve, ReadRow, ReadAccount, Resolved, OpenStream, Done, process
<1>2. TypeOK
  BY DEF TypeInv
<1>3. Created' = Created
  BY <1>1, CreatedSame DEF issued
<1>4. request[r] \in Request /\ credential \in Passwords
  BY <1>2 DEF TypeOK
<1>5. /\ request' \in [Requests -> Request]
      /\ \A q \in Requests : request'[q].at # "idle" => request'[q].token \in Created
      /\ cache' \in [Tokens -> Passwords \cup {None}]
      /\ fresh' \subseteq Requests /\ passed' \subseteq Requests
  <2>1. \A q \in Requests : request[q].at # "idle" => request[q].token \in Created
    BY DEF TypeInv, RequestFits
  <2>2. CASE \E s \in Tokens : Resolve(r, s)
    <3>1. PICK s \in Tokens : Resolve(r, s)
      BY <2>2
    <3>2. cache[s] \in Passwords \cup {None}
      BY <1>2 DEF TypeOK
    <3>3. CASE request' = [request EXCEPT ![r] = [at |-> "resolved", token |-> s, credential |-> cache[s]]]
               /\ UNCHANGED <<fresh, cache>>
      <4>1. [at |-> "resolved", token |-> s, credential |-> cache[s]] \in Request
        BY <3>2 DEF Request
      <4> QED
        BY <1>2, <2>1, <3>1, <3>3, <4>1 DEF TypeOK, Resolve
    <3>4. CASE request' = [request EXCEPT ![r] = [at |-> "reading", token |-> s, credential |-> None]]
               /\ fresh' = fresh \cup {r} /\ UNCHANGED cache
      <4>1. [at |-> "reading", token |-> s, credential |-> None] \in Request
        BY <3>2 DEF Request
      <4> QED
        BY <1>2, <2>1, <3>1, <3>4, <4>1 DEF TypeOK, Resolve
    <3> QED
      BY <3>1, <3>3, <3>4 DEF Resolve
  <2>3. CASE ReadRow(r)
    BY <1>2, <1>4, <2>1, <2>3, RestingFits, SMTT(30) DEF TypeOK, ReadRow, Step, process, Request, Idle
  <2>4. CASE ReadAccount(r)
    BY <1>2, <1>4, <2>1, <2>4 DEF TypeOK, ReadAccount, process, Request
  <2>5. CASE Resolved(r)
    <3>1. cache' \in [Tokens -> Passwords \cup {None}]
      <4>1. request[r].credential \in Passwords \cup {None}
        BY <1>4 DEF Request
      <4> QED
        BY <1>2, <2>5, <4>1 DEF TypeOK, Resolved
    <3> QED
      BY <1>2, <1>4, <2>1, <2>5, <3>1 DEF TypeOK, Resolved, Step, Request
  <2>6. CASE OpenStream(r)
    BY <1>2, <1>4, <2>1, <2>6 DEF TypeOK, OpenStream, Step, process, Request
  <2>7. CASE Done(r)
    BY <1>2, <1>4, <2>1, <2>7, RestingFits DEF TypeOK, Done, process, Request, Idle
  <2> QED
    BY <2>2, <2>3, <2>4, <2>5, <2>6, <2>7 DEF Serving
<1>6. TypeOK'
  BY <1>1, <1>2, <1>3, <1>5 DEF TypeOK, database, issued
<1>7. \A o \in Ops : OpFits(o)'
  BY <1>1, OpsSame DEF database, issued
<1>8. \A q \in Requests : RequestFits(q)'
  BY <1>3, <1>5 DEF RequestFits
<1> QED
  BY <1>6, <1>7, <1>8 DEF TypeInv

\* So do a lapse and a change of the password.
LEMMA OutsideTypes ==
    ASSUME TypeInv, (\E s \in Tokens : Lapse(s)) \/ ChangePassword \/ UNCHANGED vars
    PROVE  TypeInv'
<1>1. UNCHANGED <<database, request, op, issued, passed, uncut, alone>>
  BY DEF Lapse, ChangePassword, vars
<1>2. Created' = Created
  BY <1>1, CreatedSame DEF issued
<1>3. TypeOK'
  <2>1. TypeOK
    BY DEF TypeInv
  <2>2. password' \in Passwords
    BY <2>1, SessionsAssumption DEF TypeOK, Lapse, ChangePassword, vars, Passwords
  <2>3. cache' \in [Tokens -> Passwords \cup {None}] /\ fresh' \subseteq Requests
    BY <2>1 DEF TypeOK, Lapse, ChangePassword, vars, process
  <2> QED
    BY <1>1, <1>2, <2>1, <2>2, <2>3 DEF TypeOK, database, issued
<1> QED
  BY <1>1, <1>2, <1>3, OpsSame DEF TypeInv, RequestFits, database, issued

-----------------------------------------------------------------------------
(* The steps that end sessions keep the types *)

\* An operation's step takes rows away and adds to what is never cut: what the
\* others hold still fits.
LEMMA OthersFit ==
    ASSUME TypeInv, NEW o \in Ops, NEW new, op' = [op EXCEPT ![o] = new],
           rows' \subseteq rows, uncut \subseteq uncut', UNCHANGED created
    PROVE  \A p \in Ops \ {o} : OpFits(p)'
<1>1. TypeInv /\ Created' = Created /\ op \in [Ops -> Op]
  BY CreatedSame DEF TypeInv, TypeOK
<1>2. \A p \in Ops \ {o} : op'[p] = op[p]
  BY <1>1
<1> QED
  BY <1>1, <1>2 DEF TypeInv, OpFits

\* Cutting a request's stream leaves it idle.
LEMMA CutTypes ==
    ASSUME TypeInv, NEW ends, Cut(ends), UNCHANGED created
    PROVE  /\ request' \in [Requests -> Request] /\ passed' \subseteq Requests
           /\ \A r \in Requests : RequestFits(r)'
<1>1. request \in [Requests -> Request] /\ passed \subseteq Requests /\ Created' = Created
  BY CreatedSame DEF TypeInv, TypeOK
<1> QED
  BY <1>1, RestingFits DEF Cut, TypeInv, RequestFits, Idle

\* Requests left alone still fit.
LEMMA RequestsSame ==
    ASSUME TypeInv, UNCHANGED <<request, created>>
    PROVE  \A r \in Requests : RequestFits(r)'
BY CreatedSame DEF TypeInv, RequestFits

\* Forgetting leaves a cache.
LEMMA ForgetTypes ==
    ASSUME TypeInv, NEW without, Forget(without)
    PROVE  cache' \in [Tokens -> Passwords \cup {None}] /\ fresh' \subseteq Requests
BY DEF TypeInv, TypeOK, Forget, Cached

\* A step of an operation that issues no session.
LEMMA TypesFrom ==
    ASSUME TypeInv, NEW o \in Ops, NEW new \in Op,
           op' = [op EXCEPT ![o] = new], OpFits(o)',
           UNCHANGED <<password, issued>>, credential' \in Passwords, alone' \in BOOLEAN,
           rows' \subseteq rows, uncut \subseteq uncut', uncut' \subseteq Created \ rows',
           cache' \in [Tokens -> Passwords \cup {None}], fresh' \subseteq Requests,
           request' \in [Requests -> Request], passed' \subseteq Requests,
           \A r \in Requests : RequestFits(r)'
    PROVE  TypeInv'
<1>1. TypeOK /\ Created' = Created
  BY CreatedSame DEF TypeInv, issued
<1>2. TypeOK'
  BY <1>1 DEF TypeOK, issued
<1>3. \A p \in Ops : OpFits(p)'
  BY OthersFit DEF issued
<1> QED
  BY <1>2, <1>3 DEF TypeInv

\* A sign-out keeps the types.
LEMMA SignOutTypes ==
    ASSUME TypeInv, NEW o \in Ops,
           (\E s \in Tokens : SignOut(o, s)) \/ SignedOut(o)
    PROVE  TypeInv'
<1>1. TypeOK /\ OpFits(o) /\ op[o] \in Op
  BY DEF TypeInv, TypeOK
<1>2. CASE \E s \in Tokens : SignOut(o, s)
  <2>1. PICK s \in Tokens : SignOut(o, s)
    BY <1>2
  <2> DEFINE new == [Resting EXCEPT !.at = "signedOut", !.ends = {s}, !.last = {s}]
  <2>2. /\ new \in Op /\ new.at = "signedOut" /\ new.ends = {s} /\ new.last = {s} /\ new.left = {}
    BY NoneApart DEF Resting, Op
  <2>3. op' = [op EXCEPT ![o] = new] /\ s \in rows /\ rows' = rows \ {s}
        /\ UNCHANGED <<password, credential, process, request, issued, passed, uncut, alone>>
    BY <2>1 DEF SignOut
  <2> HIDE DEF new
  <2>4. OpFits(o)'
    <3>1. op'[o] = new /\ s \in Created /\ Created' = Created
      BY <1>1, <2>3, CreatedSame DEF TypeOK, issued
    <3> QED
      BY <2>2, <2>3, <3>1 DEF OpFits
  <2>5. \A r \in Requests : RequestFits(r)'
    BY <2>3, RequestsSame DEF issued
  <2> QED
    BY <1>1, <2>2, <2>3, <2>4, <2>5, TypesFrom DEF TypeOK, process
<1>3. CASE SignedOut(o)
  <2>1. /\ op' = [op EXCEPT ![o] = Resting] /\ Forget(op[o].last) /\ Cut(op[o].ends)
        /\ UNCHANGED <<password, database, issued, uncut, alone>>
    BY <1>3 DEF SignedOut, Rests
  <2>2. OpFits(o)'
    BY <1>1, <2>1 DEF TypeOK, OpFits, Resting
  <2> QED
    BY <1>1, <2>1, <2>2, RestingFits, CutTypes, ForgetTypes, TypesFrom DEF TypeOK, database, issued
<1> QED
  BY <1>2, <1>3

\* Ending some of an account's sessions keeps the types.
LEMMA EndTypes ==
    ASSUME TypeInv, NEW o \in Ops,
           \/ \E s \in Tokens, newer \in BOOLEAN : EndOthers(o, s, newer)
           \/ \E s \in Tokens : EndOne(o, s)
           \/ EndedOne(o)
    PROVE  TypeInv'
<1>1. TypeOK /\ OpFits(o) /\ op[o] \in Op
  BY DEF TypeInv, TypeOK
<1>2. CASE \E s \in Tokens, newer \in BOOLEAN : EndOthers(o, s, newer)
  <2>1. PICK ends \in SUBSET rows :
            /\ op' = [op EXCEPT ![o] = [Resting EXCEPT !.at = "ending", !.ends = ends, !.left = ends]]
            /\ UNCHANGED <<password, database, process, request, issued, passed, uncut, alone>>
    BY <1>2 DEF EndOthers
  <2> DEFINE new == [Resting EXCEPT !.at = "ending", !.ends = ends, !.left = ends]
  <2>2. ends \subseteq Created /\ ends \subseteq Tokens
    BY <1>1 DEF TypeOK, Created
  <2>3. /\ new \in Op /\ new.at = "ending" /\ new.ends = ends /\ new.last = {} /\ new.left = ends
    BY <2>2, NoneApart DEF Resting, Op
  <2>4. op' = [op EXCEPT ![o] = new]
    BY <2>1
  <2> HIDE DEF new
  <2>5. OpFits(o)'
    <3>1. op'[o] = new /\ Created' = Created
      BY <1>1, <2>1, <2>4, CreatedSame DEF TypeOK, issued
    <3> QED
      BY <2>2, <2>3, <3>1 DEF OpFits
  <2>6. \A r \in Requests : RequestFits(r)'
    BY <2>1, RequestsSame DEF issued
  <2> QED
    BY <1>1, <2>1, <2>3, <2>4, <2>5, <2>6, TypesFrom DEF TypeOK, process, database
<1>3. CASE \E s \in Tokens : EndOne(o, s)
  <2>1. PICK s \in Tokens : EndOne(o, s)
    BY <1>3
  <2> DEFINE new == [op[o] EXCEPT !.at = "ended", !.left = @ \ {s}, !.last = {s}]
  <2>2. /\ op[o].at = "ending" /\ s \in op[o].left
        /\ rows' = rows \ {s} /\ op' = [op EXCEPT ![o] = new]
        /\ UNCHANGED <<password, credential, process, request, issued, passed, uncut, alone>>
    BY <1>1, <2>1 DEF EndOne, TypeOK
  <2>3. /\ new \in Op /\ new.at = "ended" /\ new.ends = op[o].ends /\ new.last = {s}
        /\ new.left = op[o].left \ {s}
    BY <1>1 DEF Op
  <2> HIDE DEF new
  <2>4. OpFits(o)'
    <3>1. op'[o] = new /\ Created' = Created
      BY <1>1, <2>2, CreatedSame DEF TypeOK, issued
    <3> QED
      BY <1>1, <2>2, <2>3, <3>1 DEF OpFits
  <2>5. \A r \in Requests : RequestFits(r)'
    BY <2>2, RequestsSame DEF issued
  <2> QED
    BY <1>1, <2>2, <2>3, <2>4, <2>5, TypesFrom DEF TypeOK, process
<1>4. CASE EndedOne(o)
  <2>1. CASE op[o].left # {}
    <3> DEFINE new == [op[o] EXCEPT !.at = "ending"]
    <3>1. /\ op[o].at = "ended" /\ op' = [op EXCEPT ![o] = new] /\ Forget(op[o].last)
          /\ UNCHANGED <<password, database, request, issued, passed, uncut, alone>>
      BY <1>1, <1>4, <2>1 DEF EndedOne, Goes, TypeOK
    <3>2. /\ new \in Op /\ new.at = "ending" /\ new.ends = op[o].ends /\ new.last = op[o].last
          /\ new.left = op[o].left
      BY <1>1 DEF Op
    <3> HIDE DEF new
    <3>3. OpFits(o)'
      <4>1. op'[o] = new /\ Created' = Created
        BY <1>1, <3>1, CreatedSame DEF TypeOK, issued
      <4> QED
        BY <1>1, <3>1, <3>2, <4>1 DEF OpFits, database
    <3>4. \A r \in Requests : RequestFits(r)'
      BY <3>1, RequestsSame DEF issued
    <3> QED
      BY <1>1, <3>1, <3>2, <3>3, <3>4, ForgetTypes, TypesFrom DEF TypeOK, database
  <2>2. CASE op[o].left = {}
    <3>1. /\ op' = [op EXCEPT ![o] = Resting] /\ Forget(op[o].last) /\ Cut(op[o].ends)
          /\ UNCHANGED <<password, database, issued, uncut, alone>>
      BY <1>4, <2>2 DEF EndedOne, Rests
    <3>2. OpFits(o)'
      BY <1>1, <3>1 DEF TypeOK, OpFits, Resting
    <3> QED
      BY <1>1, <3>1, <3>2, RestingFits, CutTypes, ForgetTypes, TypesFrom DEF TypeOK, database, issued
  <2> QED
    BY <2>1, <2>2
<1> QED
  BY <1>2, <1>3, <1>4

\* Ending all of an account's sessions keeps the types.
LEMMA EndAllTypes ==
    ASSUME TypeInv, NEW o \in Ops,
           \/ \E r \in Requests : Refuse(o, r)
           \/ SelectAll(o) \/ DeleteAll(o) \/ ForgetAll(o)
    PROVE  TypeInv'
<1>1. TypeOK /\ OpFits(o) /\ op[o] \in Op
  BY DEF TypeInv, TypeOK
<1>2. CASE \E r \in Requests : Refuse(o, r)
  <2>1. PICK r \in Requests : Refuse(o, r)
    BY <1>2
  <2> DEFINE new == [Resting EXCEPT !.at = "select"]
  <2>2. /\ new \in Op /\ new.at = "select" /\ new.ends = {} /\ new.last = {} /\ new.left = {}
    BY NoneApart DEF Resting, Op
  <2>3. op' = [op EXCEPT ![o] = new] /\ request' = [request EXCEPT ![r] = Idle]
        /\ UNCHANGED <<password, database, process, issued, passed, uncut, alone>>
    BY <2>1 DEF Refuse
  <2> HIDE DEF new
  <2>4. OpFits(o)'
    BY <1>1, <2>2, <2>3 DEF TypeOK, OpFits
  <2>5. request' \in [Requests -> Request] /\ \A q \in Requests : RequestFits(q)'
    BY <1>1, <2>3, RestingFits, CreatedSame DEF TypeOK, TypeInv, RequestFits, Idle, issued
  <2> QED
    BY <1>1, <2>2, <2>3, <2>4, <2>5, TypesFrom DEF TypeOK, process, database
<1>3. CASE SelectAll(o)
  <2> DEFINE new == [op[o] EXCEPT !.at = "deleting", !.ends = rows]
  <2>1. op[o].at = "select" /\ op' = [op EXCEPT ![o] = new]
        /\ UNCHANGED <<password, database, process, request, issued, passed, uncut, alone>>
    BY <1>1, <1>3 DEF SelectAll, TypeOK
  <2>2. rows \subseteq Created /\ rows \subseteq Tokens
    BY <1>1 DEF TypeOK, Created
  <2>3. new \in Op /\ new.at = "deleting" /\ new.ends = rows /\ new.last = op[o].last
        /\ new.left = op[o].left
    BY <1>1, <2>2 DEF Op
  <2> HIDE DEF new
  <2>4. OpFits(o)'
    <3>1. op'[o] = new /\ Created' = Created
      BY <1>1, <2>1, CreatedSame DEF TypeOK, issued
    <3>2. op[o].left = {}
      BY <1>1, <2>1 DEF OpFits
    <3> QED
      BY <1>1, <2>1, <2>2, <2>3, <3>1, <3>2 DEF OpFits
  <2>5. \A r \in Requests : RequestFits(r)'
    BY <2>1, RequestsSame DEF issued
  <2> QED
    BY <1>1, <2>1, <2>3, <2>4, <2>5, TypesFrom DEF TypeOK, process, database
<1>4. CASE DeleteAll(o)
  <2> DEFINE new == [op[o] EXCEPT !.at = "deleted", !.last = op[o].ends \cup rows]
  <2>1. op[o].at = "deleting" /\ op' = [op EXCEPT ![o] = new] /\ rows' = {}
        /\ uncut' = uncut \cup (rows \ op[o].ends)
        /\ UNCHANGED <<password, credential, process, request, issued, passed, alone>>
    BY <1>1, <1>4 DEF DeleteAll, TypeOK
  <2>2. rows \subseteq Created /\ rows \subseteq Tokens /\ op[o].ends \subseteq Tokens
    BY <1>1 DEF TypeOK, Created, Op
  <2>3. new \in Op /\ new.at = "deleted" /\ new.ends = op[o].ends
        /\ new.last = op[o].ends \cup rows /\ new.left = op[o].left
    BY <1>1, <2>2 DEF Op
  <2> HIDE DEF new
  <2>4. OpFits(o)'
    <3>1. op'[o] = new /\ Created' = Created
      BY <1>1, <2>1, CreatedSame DEF TypeOK, issued
    <3> QED
      BY <1>1, <2>1, <2>2, <2>3, <3>1 DEF OpFits
  <2>5. \A r \in Requests : RequestFits(r)'
    BY <2>1, RequestsSame DEF issued
  <2> QED
    BY <1>1, <2>1, <2>2, <2>3, <2>4, <2>5, TypesFrom DEF TypeOK, process
<1>5. CASE ForgetAll(o)
  <2>1. Forget(Tokens) /\ Cut(op[o].ends) /\ UNCHANGED <<password, database, issued, uncut, alone>>
        /\ op[o].at = "deleted"
    BY <1>5 DEF ForgetAll
  <2>2. CASE op[o].signsIn
    <3> DEFINE new == [op[o] EXCEPT !.at = "update", !.ends = {}, !.last = {}]
    <3>1. op' = [op EXCEPT ![o] = new]
      BY <1>1, <1>5, <2>2 DEF ForgetAll, TypeOK
    <3>2. new \in Op /\ new.at = "update" /\ new.ends = {} /\ new.last = {} /\ new.signsIn = op[o].signsIn
          /\ new.left = op[o].left
      BY <1>1 DEF Op
    <3> HIDE DEF new
    <3>3. OpFits(o)'
      <4>1. op'[o] = new
        BY <1>1, <3>1 DEF TypeOK
      <4>2. op[o].left = {}
        BY <1>1, <2>1 DEF OpFits
      <4> QED
        BY <1>1, <2>1, <2>2, <3>2, <4>1, <4>2 DEF OpFits
    <3> QED
      BY <1>1, <2>1, <3>1, <3>2, <3>3, CutTypes, ForgetTypes, TypesFrom DEF TypeOK, database, issued
  <2>3. CASE ~op[o].signsIn
    <3>1. op' = [op EXCEPT ![o] = Resting]
      BY <1>5, <2>3 DEF ForgetAll, Rests
    <3>2. OpFits(o)'
      BY <1>1, <3>1 DEF TypeOK, OpFits, Resting
    <3> QED
      BY <1>1, <2>1, <3>1, <3>2, RestingFits, CutTypes, ForgetTypes, TypesFrom DEF TypeOK, database, issued
  <2> QED
    BY <2>2, <2>3
<1> QED
  BY <1>2, <1>3, <1>4, <1>5

-----------------------------------------------------------------------------
(* So do the steps of a sign-in *)

\* A session that is issued was not before, and is counted among those that may be.
LEMMA InsertTypes ==
    ASSUME TypeInv, NEW o \in Ops, NEW s \in Tokens, Insert(o, s)
    PROVE  TypeInv' /\ Created' = Created \cup {s} /\ created'[s] = Cardinality(Created) + 1
<1>1. TypeOK /\ OpFits(o) /\ op[o] \in Op /\ s \notin Created
  BY DEF TypeInv, TypeOK, Insert
<1> DEFINE new == [op[o] EXCEPT !.at = "cap"]
<1>2. /\ op[o].at = "insert" /\ op' = [op EXCEPT ![o] = new]
      /\ rows' = rows \cup {s}
      /\ created' = [created EXCEPT ![s] = Cardinality(Created) + 1]
      /\ born' = [born EXCEPT ![s] = op[o].credential]
      /\ UNCHANGED <<password, credential, process, request, passed, uncut, alone>>
  BY <1>1 DEF Insert, Goes, TypeOK
<1>3. /\ new \in Op /\ new.at = "cap" /\ new.ends = op[o].ends /\ new.last = op[o].last
      /\ new.left = op[o].left /\ new.signsIn = op[o].signsIn
  BY <1>1 DEF Op
<1> HIDE DEF new
<1>4. Cardinality(Created) \in Nat /\ Cardinality(Created) + 1 \in 0..Cardinality(Tokens)
  <2>1. Created \in SUBSET Tokens /\ IsFiniteSet(Tokens)
    BY SessionsAssumption DEF Created
  <2>2. IsFiniteSet(Created) /\ Cardinality(Created) <= Cardinality(Tokens)
        /\ (Cardinality(Tokens) = Cardinality(Created) => Tokens = Created)
    BY <2>1, FS_Subset
  <2>3. Cardinality(Created) \in Nat /\ Cardinality(Tokens) \in Nat
    BY <2>1, <2>2, FS_CardinalityType
  <2> QED
    BY <1>1, <2>2, <2>3
<1>5. Created' = Created \cup {s} /\ created'[s] = Cardinality(Created) + 1
      /\ created' \in [Tokens -> 0..Cardinality(Tokens)]
  <2> DEFINE n == Cardinality(Created) + 1
  <2>1. n # 0 /\ n \in 0..Cardinality(Tokens) /\ created' = [created EXCEPT ![s] = n]
    BY <1>2, <1>4
  <2> HIDE DEF n
  <2>2. created' \in [Tokens -> 0..Cardinality(Tokens)] /\ created'[s] = n
        /\ \A t \in Tokens \ {s} : created'[t] = created[t]
    BY <1>1, <2>1 DEF TypeOK
  <2>3. Created' = Created \cup {s}
    BY <2>1, <2>2 DEF Created
  <2> QED
    BY <2>2, <2>3 DEF n
<1>6. born' \in [Tokens -> Passwords]
  <2>1. op[o].credential \in Passwords
    BY <1>1 DEF Op
  <2> QED
    BY <1>1, <1>2, <2>1 DEF TypeOK
<1>7. op' \in [Ops -> Op] /\ rows' \subseteq Created' /\ uncut' \subseteq Created' \ rows'
  BY <1>1, <1>2, <1>3, <1>5 DEF TypeOK
<1>8. TypeOK'
  BY <1>1, <1>2, <1>5, <1>6, <1>7 DEF TypeOK, process
<1>9. OpFits(o)'
  <2>1. op'[o] = new
    BY <1>1, <1>2 DEF TypeOK
  <2> QED
    BY <1>1, <1>2, <1>3, <1>5, <2>1 DEF OpFits
<1>10. ASSUME NEW p \in Ops \ {o} PROVE OpFits(p)'
  <2>1. op'[p] = op[p] /\ OpFits(p)
    BY <1>1, <1>2 DEF TypeOK, TypeInv
  <2> QED
    BY <1>1, <1>2, <1>5, <2>1 DEF OpFits
<1>11. \A r \in Requests : RequestFits(r)'
  BY <1>2, <1>5 DEF TypeInv, RequestFits
<1> QED
  BY <1>5, <1>8, <1>9, <1>10, <1>11 DEF TypeInv

\* The other steps of a sign-in keep the types.
LEMMA EnterTypes ==
    ASSUME TypeInv, NEW o \in Ops,
           SignIn(o) \/ Update(o) \/ Updated(o) \/ Cap(o) \/ Capped(o)
    PROVE  TypeInv'
<1>1. TypeOK /\ OpFits(o) /\ op[o] \in Op
  BY DEF TypeInv, TypeOK
<1>2. CASE SignIn(o)
  <2> DEFINE at == IF PasswordChanged(password) THEN "select" ELSE "update"
             new == [Resting EXCEPT !.at = at, !.signsIn = TRUE, !.credential = password]
  <2>1. op' = [op EXCEPT ![o] = new] /\ alone' = (alone /\ SigningIn = {})
        /\ UNCHANGED <<password, database, process, request, issued, passed, uncut>>
    BY <1>2 DEF SignIn
  <2>2. /\ new \in Op /\ new.at \in {"select", "update"} /\ new.ends = {} /\ new.last = {}
        /\ new.left = {} /\ new.signsIn = TRUE
    BY <1>1 DEF Resting, Op, TypeOK
  <2> HIDE DEF new
  <2>3. OpFits(o)'
    BY <1>1, <2>1, <2>2 DEF TypeOK, OpFits
  <2>4. \A r \in Requests : RequestFits(r)'
    BY <2>1, RequestsSame DEF issued
  <2> QED
    BY <1>1, <2>1, <2>2, <2>3, <2>4, TypesFrom DEF TypeOK, process, database
<1>3. CASE Update(o)
  <2> DEFINE new == [op[o] EXCEPT !.at = "updated"]
  <2>1. op[o].at = "update" /\ op' = [op EXCEPT ![o] = new] /\ credential' = op[o].credential
        /\ UNCHANGED <<password, rows, process, request, issued, passed, uncut, alone>>
    BY <1>1, <1>3 DEF Update, Goes, TypeOK
  <2>2. /\ new \in Op /\ new.at = "updated" /\ new.ends = op[o].ends /\ new.last = op[o].last
        /\ new.left = op[o].left /\ new.signsIn = op[o].signsIn /\ op[o].credential \in Passwords
    BY <1>1 DEF Op
  <2> HIDE DEF new
  <2>3. OpFits(o)'
    <3>1. op'[o] = new /\ Created' = Created
      BY <1>1, <2>1, CreatedSame DEF TypeOK, issued
    <3> QED
      BY <1>1, <2>1, <2>2, <3>1 DEF OpFits
  <2>4. \A r \in Requests : RequestFits(r)'
    BY <2>1, RequestsSame DEF issued
  <2> QED
    BY <1>1, <2>1, <2>2, <2>3, <2>4, TypesFrom DEF TypeOK, process
<1>4. CASE Updated(o)
  <2> DEFINE new == [op[o] EXCEPT !.at = "insert"]
  <2>1. op[o].at = "updated" /\ op' = [op EXCEPT ![o] = new] /\ Forget(Tokens)
        /\ UNCHANGED <<password, database, request, issued, passed, uncut, alone>>
    BY <1>1, <1>4 DEF Updated, Goes, TypeOK
  <2>2. /\ new \in Op /\ new.at = "insert" /\ new.ends = op[o].ends /\ new.last = op[o].last
        /\ new.left = op[o].left /\ new.signsIn = op[o].signsIn
    BY <1>1 DEF Op
  <2> HIDE DEF new
  <2>3. OpFits(o)'
    <3>1. op'[o] = new /\ Created' = Created
      BY <1>1, <2>1, CreatedSame DEF TypeOK, issued
    <3> QED
      BY <1>1, <2>1, <2>2, <3>1 DEF OpFits
  <2>4. \A r \in Requests : RequestFits(r)'
    BY <2>1, RequestsSame DEF issued
  <2> QED
    BY <1>1, <2>1, <2>2, <2>3, <2>4, ForgetTypes, TypesFrom DEF TypeOK, database
<1>5. CASE Cap(o)
  <2>1. op[o].at = "cap" /\ rows' = rows \ Oldest /\ uncut' = uncut \cup Oldest
        /\ UNCHANGED <<password, credential, process, request, issued, passed, alone>>
    BY <1>5 DEF Cap
  <2>2. Oldest \subseteq rows /\ rows \subseteq Created /\ rows \subseteq Tokens
    BY <1>1 DEF TypeOK, Oldest, Created
  <2>3. \A r \in Requests : RequestFits(r)'
    BY <2>1, RequestsSame DEF issued
  <2>4. CASE Oldest = {}
    <3>1. op' = [op EXCEPT ![o] = Resting]
      BY <1>5, <2>4 DEF Cap, Rests
    <3>2. OpFits(o)'
      BY <1>1, <3>1 DEF TypeOK, OpFits, Resting
    <3> QED
      BY <1>1, <2>1, <2>2, <2>3, <3>1, <3>2, RestingFits, TypesFrom DEF TypeOK, process
  <2>5. CASE Oldest # {}
    <3> DEFINE new == [op[o] EXCEPT !.at = "capped", !.last = Oldest]
    <3>1. op' = [op EXCEPT ![o] = new]
      BY <1>1, <1>5, <2>5 DEF Cap, TypeOK
    <3>2. /\ new \in Op /\ new.at = "capped" /\ new.ends = op[o].ends /\ new.last = Oldest
          /\ new.left = op[o].left /\ new.signsIn = op[o].signsIn
      BY <1>1, <2>2 DEF Op
    <3> HIDE DEF new
    <3>3. OpFits(o)'
      <4>1. op'[o] = new /\ Created' = Created
        BY <1>1, <2>1, <3>1, CreatedSame DEF TypeOK, issued
      <4> QED
        BY <1>1, <2>1, <2>2, <3>2, <4>1 DEF OpFits
    <3> QED
      BY <1>1, <2>1, <2>2, <2>3, <3>1, <3>2, <3>3, TypesFrom DEF TypeOK, process
  <2> QED
    BY <2>4, <2>5
<1>6. CASE Capped(o)
  <2>1. op' = [op EXCEPT ![o] = Resting] /\ Forget(Tokens)
        /\ UNCHANGED <<password, database, request, issued, passed, uncut, alone>>
    BY <1>6 DEF Capped, Rests
  <2>2. OpFits(o)'
    BY <1>1, <2>1 DEF TypeOK, OpFits, Resting
  <2>3. \A r \in Requests : RequestFits(r)'
    BY <2>1, RequestsSame DEF issued
  <2> QED
    BY <1>1, <2>1, <2>2, <2>3, RestingFits, ForgetTypes, TypesFrom DEF TypeOK, database
<1> QED
  BY <1>2, <1>3, <1>4, <1>5, <1>6

\* Every step keeps the types.
LEMMA TypeInvStep == TypeInv /\ [Next]_vars => TypeInv'
<1> SUFFICES ASSUME TypeInv, [Next]_vars PROVE TypeInv'
  OBVIOUS
<1>1. CASE \E r \in Requests : Serving(r)
  BY <1>1, ServingTypes
<1>2. CASE (\E s \in Tokens : Lapse(s)) \/ ChangePassword \/ UNCHANGED vars
  BY <1>2, OutsideTypes
<1>3. ASSUME NEW o \in Ops, Ending(o) PROVE TypeInv'
  BY <1>3, SignOutTypes, EndTypes, EndAllTypes DEF Ending
<1>4. ASSUME NEW o \in Ops, Entering(o) PROVE TypeInv'
  BY <1>4, EnterTypes, InsertTypes DEF Entering
<1> QED
  BY <1>1, <1>2, <1>3, <1>4 DEF Next

\* Rows, memory, requests and operations are what the code takes them for: only
\* sessions that were issued have rows, are remembered, brought or ended.
THEOREM TypeCorrect == Spec => []TypeOK
<1>1. TypeInv => TypeOK
  BY DEF TypeInv
<1> QED
  BY <1>1, InitTypes, TypeInvStep, PTL DEF Spec

-----------------------------------------------------------------------------
(* A session that goes is known to be going until it is forgotten, and to  *)
(* be cut until it is.                                                     *)

\* An operation has deleted it and is about to forget it.
Forgets(o, s) == op[o].at \in {"signedOut", "ended", "deleted", "capped"} /\ s \in op[o].last
Known(s) == s \in rows \/ \E o \in Ops : Forgets(o, s)

\* An operation is about to cut it, or none ever does.
Away(s) == s \in uncut \/ \E o \in Ops : s \in op[o].ends
Reached(s) == s \in rows \/ Away(s)

LEMMA KnownForgetting == \A s : Known(s) <=> s \in rows \cup Forgetting
BY DEF Known, Forgets, Forgetting

LEMMA ReachedCutting == \A s : Reached(s) <=> s \in rows \cup Cutting \cup uncut
BY DEF Reached, Away, Cutting

\* What is about to be forgotten is about to be cut, or never is.
LEMMA KnownReached == TypeInv => \A s : Known(s) => Reached(s)
<1> SUFFICES ASSUME TypeInv, NEW s, Known(s) PROVE Reached(s)
  OBVIOUS
<1>1. CASE s \in rows
  BY <1>1 DEF Reached
<1>2. CASE \E o \in Ops : Forgets(o, s)
  <2>1. PICK o \in Ops : Forgets(o, s)
    BY <1>2
  <2> QED
    BY <2>1 DEF TypeInv, OpFits, Forgets, Reached, Away
<1> QED
  BY <1>1, <1>2 DEF Known

\* The same of the next state.
LEMMA KnownReachedNext ==
    ASSUME TypeInv'
    PROVE  \A s : (Known(s) => Reached(s))'
<1> SUFFICES ASSUME NEW s, Known(s)' PROVE Reached(s)'
  OBVIOUS
<1>1. CASE s \in rows'
  BY <1>1 DEF Reached
<1>2. CASE \E o \in Ops : Forgets(o, s)'
  <2>1. PICK o \in Ops : Forgets(o, s)'
    BY <1>2
  <2> QED
    BY <2>1 DEF TypeInv, OpFits, Forgets, Reached, Away
<1> QED
  BY <1>1, <1>2 DEF Known

\* A step of an operation that was not about to forget anything, and that is
\* about to forget what it deletes, keeps all that is known.
LEMMA KnownGoes ==
    ASSUME TypeInv, NEW o \in Ops, NEW new, op' = [op EXCEPT ![o] = new],
           op[o].at \notin {"signedOut", "ended", "deleted", "capped"},
           \A s \in rows \ rows' :
              new.at \in {"signedOut", "ended", "deleted", "capped"} /\ s \in new.last
    PROVE  \A s : Known(s) => Known(s)'
<1> SUFFICES ASSUME NEW s, Known(s) PROVE Known(s)'
  OBVIOUS
<1>1. op'[o] = new /\ \A p \in Ops \ {o} : op'[p] = op[p]
  BY DEF TypeInv, TypeOK
<1>2. CASE s \in rows
  <2>1. s \in rows' \/ Forgets(o, s)'
    BY <1>1, <1>2 DEF Forgets
  <2> QED
    BY <2>1 DEF Known
<1>3. CASE \E p \in Ops : Forgets(p, s)
  <2>1. PICK p \in Ops : Forgets(p, s)
    BY <1>3
  <2>2. p # o
    BY <2>1 DEF Forgets
  <2>3. Forgets(p, s)'
    BY <1>1, <2>1, <2>2 DEF Forgets
  <2> QED
    BY <2>3 DEF Known
<1> QED
  BY <1>2, <1>3 DEF Known

\* A step of an operation that keeps what it has picked, and has picked what it
\* deletes or never cuts it, keeps all that is to be cut.
LEMMA ReachedGoes ==
    ASSUME TypeInv, NEW o \in Ops, NEW new, op' = [op EXCEPT ![o] = new],
           uncut \subseteq uncut', op[o].ends \subseteq new.ends,
           \A s \in rows \ rows' : s \in uncut' \/ s \in new.ends
    PROVE  \A s : (Reached(s) => Reached(s)') /\ (Away(s) => Away(s)')
<1>1. op'[o] = new /\ \A p \in Ops \ {o} : op'[p] = op[p]
  BY DEF TypeInv, TypeOK
<1>2. ASSUME NEW s, Away(s) PROVE Away(s)'
  <2>1. CASE \E p \in Ops : s \in op[p].ends
    <3>1. PICK p \in Ops : s \in op[p].ends
      BY <2>1
    <3>2. s \in op'[p].ends
      BY <1>1, <3>1
    <3> QED
      BY <3>2 DEF Away
  <2> QED
    BY <1>2, <2>1 DEF Away
<1>3. ASSUME NEW s \in rows PROVE Reached(s)'
  BY <1>1 DEF Reached, Away
<1> QED
  BY <1>2, <1>3 DEF Reached

\* The steps of an operation that forget nothing.
Quiet(o) ==
    \/ \E s \in Tokens : SignOut(o, s) \/ EndOne(o, s) \/ Insert(o, s)
    \/ \E s \in Tokens, newer \in BOOLEAN : EndOthers(o, s, newer)
    \/ \E r \in Requests : Refuse(o, r)
    \/ SelectAll(o) \/ DeleteAll(o) \/ SignIn(o) \/ Update(o) \/ Cap(o)

\* They are steps of one operation.
LEMMA QuietMoves ==
    ASSUME NEW o \in Ops, Quiet(o)
    PROVE  \E new : op' = [op EXCEPT ![o] = new]
BY DEF Quiet, SignOut, EndOne, Insert, EndOthers, Refuse, SelectAll, DeleteAll, SignIn, Update,
       Cap, Goes, Rests

\* They leave the cache alone, keep what is known and what is to be cut, and
\* may only end a request.
LEMMA QuietKeeps ==
    ASSUME TypeInv, NEW o \in Ops, Quiet(o)
    PROVE  /\ UNCHANGED <<process, passed>> /\ uncut \subseteq uncut'
           /\ \A s : Known(s) => Known(s)'
           /\ \A s : (Reached(s) => Reached(s)') /\ (Away(s) => Away(s)')
           /\ \A r \in Requests : request'[r] = request[r] \/ request'[r] = Idle
<1>1. TypeOK /\ OpFits(o) /\ op[o] \in Op
  BY DEF TypeInv, TypeOK
<1>2. /\ UNCHANGED <<process, passed>> /\ uncut \subseteq uncut'
      /\ \A r \in Requests : request'[r] = request[r] \/ request'[r] = Idle
  BY <1>1 DEF Quiet, SignOut, EndOne, EndOthers, Refuse, SelectAll, DeleteAll, SignIn, Update,
              Insert, Cap, TypeOK, process
<1>3. ASSUME NEW new, op' = [op EXCEPT ![o] = new],
             op[o].at \notin {"signedOut", "ended", "deleted", "capped"},
             op[o].ends \subseteq new.ends,
             \A s \in rows \ rows' :
                /\ new.at \in {"signedOut", "ended", "deleted", "capped"} /\ s \in new.last
                /\ s \in uncut' \/ s \in new.ends
      PROVE  /\ \A s : Known(s) => Known(s)'
             /\ \A s : (Reached(s) => Reached(s)') /\ (Away(s) => Away(s)')
  <2>1. \A s : Known(s) => Known(s)'
    BY <1>3, KnownGoes
  <2>2. \A s : (Reached(s) => Reached(s)') /\ (Away(s) => Away(s)')
    BY <1>2, <1>3, ReachedGoes
  <2> QED
    BY <2>1, <2>2
<1>4. ASSUME op[o] = Resting PROVE op[o].at = "idle" /\ op[o].ends = {}
  BY <1>4 DEF Resting
<1>5. CASE \E s \in Tokens : SignOut(o, s)
  <2>1. PICK s \in Tokens : SignOut(o, s)
    BY <1>5
  <2> DEFINE new == [Resting EXCEPT !.at = "signedOut", !.ends = {s}, !.last = {s}]
  <2>2. new.at = "signedOut" /\ new.ends = {s} /\ new.last = {s}
    BY DEF Resting
  <2>3. op' = [op EXCEPT ![o] = new] /\ rows' = rows \ {s} /\ op[o] = Resting
    BY <2>1 DEF SignOut
  <2> HIDE DEF new
  <2> QED
    BY <1>2, <1>3, <1>4, <2>2, <2>3
<1>6. CASE \E s \in Tokens : EndOne(o, s)
  <2>1. PICK s \in Tokens : EndOne(o, s)
    BY <1>6
  <2> DEFINE new == [op[o] EXCEPT !.at = "ended", !.left = @ \ {s}, !.last = {s}]
  <2>2. new.at = "ended" /\ new.ends = op[o].ends /\ new.last = {s}
    BY <1>1 DEF Op
  <2>3. op' = [op EXCEPT ![o] = new] /\ rows' = rows \ {s} /\ op[o].at = "ending"
        /\ s \in op[o].ends
    BY <1>1, <2>1 DEF EndOne, TypeOK, OpFits
  <2> HIDE DEF new
  <2> QED
    BY <1>2, <1>3, <2>2, <2>3
<1>7. CASE \E s \in Tokens : Insert(o, s)
  <2> DEFINE new == [op[o] EXCEPT !.at = "cap"]
  <2>1. new.ends = op[o].ends
    BY <1>1 DEF Op
  <2>2. op' = [op EXCEPT ![o] = new] /\ rows \subseteq rows' /\ op[o].at = "insert"
    BY <1>1, <1>7 DEF Insert, Goes, TypeOK
  <2> HIDE DEF new
  <2> QED
    BY <1>2, <1>3, <2>1, <2>2
<1>8. CASE \E s \in Tokens, newer \in BOOLEAN : EndOthers(o, s, newer)
  <2>1. PICK new : op' = [op EXCEPT ![o] = new] /\ rows' = rows /\ op[o] = Resting
    BY <1>8 DEF EndOthers, database
  <2> QED
    BY <1>2, <1>3, <1>4, <2>1
<1>9. CASE \E r \in Requests : Refuse(o, r)
  <2>1. PICK new : op' = [op EXCEPT ![o] = new] /\ rows' = rows /\ op[o] = Resting
    BY <1>9 DEF Refuse, database
  <2> QED
    BY <1>2, <1>3, <1>4, <2>1
<1>10. CASE SelectAll(o)
  <2> DEFINE new == [op[o] EXCEPT !.at = "deleting", !.ends = rows]
  <2>1. op' = [op EXCEPT ![o] = new] /\ rows' = rows /\ op[o].at = "select" /\ op[o].ends = {}
    BY <1>1, <1>10 DEF SelectAll, database, TypeOK, OpFits
  <2> HIDE DEF new
  <2> QED
    BY <1>2, <1>3, <2>1
<1>11. CASE DeleteAll(o)
  <2> DEFINE new == [op[o] EXCEPT !.at = "deleted", !.last = op[o].ends \cup rows]
  <2>1. new.at = "deleted" /\ new.ends = op[o].ends /\ new.last = op[o].ends \cup rows
    BY <1>1 DEF Op
  <2>2. op' = [op EXCEPT ![o] = new] /\ rows' = {} /\ op[o].at = "deleting"
        /\ uncut' = uncut \cup (rows \ op[o].ends)
    BY <1>1, <1>11 DEF DeleteAll, TypeOK
  <2> HIDE DEF new
  <2> QED
    BY <1>2, <1>3, <2>1, <2>2
<1>12. CASE SignIn(o)
  <2>1. PICK new : op' = [op EXCEPT ![o] = new] /\ rows' = rows /\ op[o] = Resting
    BY <1>12 DEF SignIn, database
  <2> QED
    BY <1>2, <1>3, <1>4, <2>1
<1>13. CASE Update(o)
  <2> DEFINE new == [op[o] EXCEPT !.at = "updated"]
  <2>1. new.ends = op[o].ends
    BY <1>1 DEF Op
  <2>2. op' = [op EXCEPT ![o] = new] /\ rows' = rows /\ op[o].at = "update"
    BY <1>1, <1>13 DEF Update, Goes, TypeOK
  <2> HIDE DEF new
  <2> QED
    BY <1>2, <1>3, <2>1, <2>2
<1>14. CASE Cap(o)
  <2>1. op[o].at = "cap" /\ op[o].ends = {} /\ rows' = rows \ Oldest /\ uncut' = uncut \cup Oldest
    BY <1>1, <1>14 DEF Cap, OpFits
  <2>2. CASE Oldest = {}
    <3>1. op' = [op EXCEPT ![o] = Resting]
      BY <1>14, <2>2 DEF Cap, Rests
    <3> QED
      BY <1>2, <1>3, <2>1, <2>2, <3>1
  <2>3. CASE Oldest # {}
    <3> DEFINE new == [op[o] EXCEPT !.at = "capped", !.last = Oldest]
    <3>1. new.at = "capped" /\ new.last = Oldest /\ new.ends = op[o].ends
      BY <1>1 DEF Op
    <3>2. op' = [op EXCEPT ![o] = new]
      BY <1>1, <1>14, <2>3 DEF Cap, TypeOK
    <3> HIDE DEF new
    <3> QED
      BY <1>2, <1>3, <2>1, <3>1, <3>2
  <2> QED
    BY <2>2, <2>3
<1> QED
  BY <1>2, <1>5, <1>6, <1>7, <1>8, <1>9, <1>10, <1>11, <1>12, <1>13, <1>14 DEF Quiet

\* The steps of an operation that forget, and may cut.
Forgetful(o) == SignedOut(o) \/ EndedOne(o) \/ ForgetAll(o) \/ Updated(o) \/ Capped(o)

\* What such a step forgets and cuts is all that it stops keeping.
LEMMA ForgetfulKeeps ==
    ASSUME TypeInv, NEW o \in Ops, Forgetful(o)
    PROVE  \E without, ends \in SUBSET Tokens :
              /\ Forget(without) /\ UNCHANGED <<rows, uncut>> /\ passed \subseteq passed'
              /\ \A s : Known(s) /\ s \notin without => Known(s)'
              /\ \A s : Away(s) /\ s \notin ends => Away(s)'
              /\ \A s \in ends \ without : s \notin rows
              /\ \A r \in Requests :
                    /\ request'[r] = request[r] \/ request'[r] = Idle
                    /\ request[r].at # "idle" /\ request[r].token \in ends =>
                          request'[r] = Idle \/ r \in passed'
<1>1. TypeOK /\ OpFits(o) /\ op[o] \in Op /\ Tokens \in SUBSET Tokens
  BY DEF TypeInv, TypeOK
<1>2. op[o].last \in SUBSET Tokens /\ op[o].ends \in SUBSET Tokens
  BY <1>1 DEF Op
<1>3. ASSUME NEW ends, Cut(ends)
      PROVE  /\ passed \subseteq passed'
             /\ \A r \in Requests :
                    /\ request'[r] = request[r] \/ request'[r] = Idle
                    /\ request[r].at # "idle" /\ request[r].token \in ends =>
                          request'[r] = Idle \/ r \in passed'
  BY <1>3 DEF Cut, CutBy
<1>4. UNCHANGED <<rows, uncut>>
  BY DEF Forgetful, SignedOut, EndedOne, ForgetAll, Updated, Capped, database
<1>5. PICK new : op' = [op EXCEPT ![o] = new]
  BY DEF Forgetful, SignedOut, EndedOne, ForgetAll, Updated, Capped, Goes, Rests
<1>6. op'[o] = new /\ \A p \in Ops \ {o} : op'[p] = op[p]
  BY <1>1, <1>5 DEF TypeOK
<1>7. ASSUME NEW s, Known(s), ~Forgets(o, s) PROVE Known(s)'
  <2>1. CASE s \in rows
    BY <1>4, <2>1 DEF Known
  <2>2. CASE \E p \in Ops : Forgets(p, s)
    <3>1. PICK p \in Ops \ {o} : Forgets(p, s)
      BY <1>7, <2>2
    <3>2. Forgets(p, s)'
      BY <1>6, <3>1 DEF Forgets
    <3> QED
      BY <3>2 DEF Known
  <2> QED
    BY <1>7, <2>1, <2>2 DEF Known
<1>8. ASSUME NEW s, Away(s), s \notin op[o].ends \/ s \in new.ends PROVE Away(s)'
  <2>1. CASE \E p \in Ops : s \in op[p].ends
    <3>1. PICK p \in Ops : s \in op[p].ends
      BY <2>1
    <3>2. s \in op'[p].ends
      BY <1>6, <1>8, <3>1
    <3> QED
      BY <3>2 DEF Away
  <2> QED
    BY <1>4, <1>8, <2>1 DEF Away
<1>9. CASE SignedOut(o) \/ (EndedOne(o) /\ op[o].left = {})
  <2>1. /\ Forget(op[o].last) /\ Cut(op[o].ends)
        /\ (op[o].ends \ op[o].left) \cap rows = {} /\ op[o].left = {}
    BY <1>1, <1>9 DEF SignedOut, EndedOne, OpFits
  <2>2. \A s : Known(s) /\ s \notin op[o].last => Known(s)'
    BY <1>7 DEF Forgets
  <2> QED
    BY <1>2, <1>3, <1>4, <1>8, <2>1, <2>2
<1>10. CASE EndedOne(o) /\ op[o].left # {}
  <2>1. /\ Forget(op[o].last) /\ UNCHANGED <<request, passed>> /\ op'[o].ends = op[o].ends
    BY <1>1, <1>10 DEF EndedOne, Goes, TypeOK, Op
  <2>2. \A s : Known(s) /\ s \notin op[o].last => Known(s)'
    BY <1>7 DEF Forgets
  <2>3. \A s : Away(s) /\ s \notin {} => Away(s)'
    BY <1>6, <1>8, <2>1
  <2> DEFINE without == op[o].last
             ends == {}
  <2>4. without \in SUBSET Tokens /\ ends \in SUBSET Tokens /\ \A s \in ends : FALSE
    BY <1>2
  <2>5. Forget(without) /\ \A s : Known(s) /\ s \notin without => Known(s)'
    BY <2>1, <2>2
  <2>6. \A s : Away(s) /\ s \notin ends => Away(s)'
    BY <2>3
  <2> HIDE DEF without, ends
  <2> QED
    BY <1>4, <2>1, <2>4, <2>5, <2>6
<1>11. CASE ForgetAll(o)
  <2>1. Forget(Tokens) /\ Cut(op[o].ends)
    BY <1>11 DEF ForgetAll
  <2>2. \A s : Known(s) /\ s \notin Tokens => Known(s)'
    <3>1. op[o].last \subseteq Tokens
      BY <1>2
    <3> QED
      BY <1>7, <3>1 DEF Forgets
  <2> QED
    BY <1>1, <1>2, <1>3, <1>4, <1>8, <2>1, <2>2
<1>12. CASE Updated(o) \/ Capped(o)
  <2>1. Forget(Tokens) /\ UNCHANGED <<request, passed>> /\ op[o].ends = {}
    BY <1>1, <1>12 DEF Updated, Capped, OpFits
  <2>2. \A s : Known(s) /\ s \notin Tokens => Known(s)'
    <3>1. op[o].last \subseteq Tokens
      BY <1>2
    <3> QED
      BY <1>7, <3>1 DEF Forgets
  <2>3. \A s : Away(s) /\ s \notin {} => Away(s)'
    BY <1>8, <2>1
  <2> QED
    BY <1>1, <1>4, <2>1, <2>2, <2>3
<1> QED
  BY <1>9, <1>10, <1>11, <1>12 DEF Forgetful

\* An operation's step is one or the other.
LEMMA OperationSteps ==
    \A o \in Ops : Ending(o) \/ Entering(o) => Quiet(o) \/ Forgetful(o)
BY DEF Ending, Entering, Quiet, Forgetful

-----------------------------------------------------------------------------
(* A session that ended is not remembered.  The read that would remember   *)
(* it may have begun before: it counts while it is fresh, and what is read *)
(* fresh is known.                                                         *)

ForgottenInv ==
    /\ \A s \in Tokens : cache[s] # None => Known(s)
    /\ \A r \in fresh : request[r].at \in {"row", "read"} => Known(request[r].token)

\* Serving a request remembers what is known.
LEMMA ForgottenServing ==
    ASSUME TypeInv, ForgottenInv, NEW r \in Requests, Serving(r)
    PROVE  ForgottenInv'
<1>1. TypeOK /\ request[r] \in Request /\ request \in [Requests -> Request] /\ fresh \subseteq Requests
      /\ cache \in [Tokens -> Passwords \cup {None}]
  BY DEF TypeInv, TypeOK
<1>2. \A s : Known(s)' <=> Known(s)
  BY DEF Serving, Resolve, ReadRow, ReadAccount, Resolved, OpenStream, Done, database,
         Known, Forgets
<1>3. CASE \E s \in Tokens : Resolve(r, s)
  BY <1>1, <1>2, <1>3 DEF Resolve, ForgottenInv
<1>4. CASE ReadRow(r)
  <2>1. request[r].token \in rows => Known(request[r].token)
    BY DEF Known
  <2> QED
    BY <1>1, <1>2, <1>4, <2>1 DEF ReadRow, Step, process, ForgottenInv, Idle, Request
<1>5. CASE ReadAccount(r)
  BY <1>1, <1>2, <1>5 DEF ReadAccount, process, ForgottenInv, Request
<1>6. CASE Resolved(r)
  BY <1>1, <1>2, <1>6 DEF Resolved, StillFresh, Step, ForgottenInv, Request
<1>7. CASE OpenStream(r) \/ Done(r)
  BY <1>1, <1>2, <1>7 DEF OpenStream, Done, Step, process, ForgottenInv, Idle, Request
<1> QED
  BY <1>3, <1>4, <1>5, <1>6, <1>7 DEF Serving

\* Every step keeps it so.
LEMMA ForgottenStep == TypeInv /\ ForgottenInv /\ [Next]_vars => ForgottenInv'
<1> SUFFICES ASSUME TypeInv, ForgottenInv, [Next]_vars PROVE ForgottenInv'
  OBVIOUS
<1>1. TypeOK /\ request \in [Requests -> Request] /\ fresh \subseteq Requests
      /\ cache \in [Tokens -> Passwords \cup {None}]
  BY DEF TypeInv, TypeOK
<1>2. CASE \E r \in Requests : Serving(r)
  BY <1>2, ForgottenServing
<1>3. CASE \E s \in Tokens : Lapse(s)
  BY <1>1, <1>3 DEF Lapse, database, ForgottenInv, Known, Forgets
<1>4. CASE ChangePassword \/ UNCHANGED vars
  BY <1>4 DEF ChangePassword, vars, process, database, ForgottenInv, Known, Forgets
<1>5. ASSUME NEW o \in Ops, Quiet(o) PROVE ForgottenInv'
  <2>1. /\ UNCHANGED <<cache, fresh>> /\ \A s : Known(s) => Known(s)'
        /\ \A r \in Requests : request'[r] = request[r] \/ request'[r] = Idle
    BY <1>5, QuietKeeps DEF process
  <2> QED
    BY <1>1, <2>1 DEF ForgottenInv, Idle
<1>6. ASSUME NEW o \in Ops, Forgetful(o) PROVE ForgottenInv'
  <2>1. PICK without \in SUBSET Tokens :
            Forget(without) /\ \A s : Known(s) /\ s \notin without => Known(s)'
    BY <1>6, ForgetfulKeeps
  <2> QED
    BY <1>1, <2>1 DEF Forget, Cached, ForgottenInv
<1> QED
  BY <1>2, <1>3, <1>4, <1>5, <1>6, OperationSteps DEF Next

\* No session is remembered at first.
LEMMA InitForgotten == Init => ForgottenInv
BY DEF Init, ForgottenInv

\* A session that ended is not remembered once what ended it is done (auth.ts
\* resolveSession, sessionEpoch), whatever the sessions, requests and operations.
THEOREM EndedAreForgotten == Spec => []EndedForgotten
<1>1. TypeInv /\ ForgottenInv => EndedForgotten
  BY KnownForgetting DEF ForgottenInv, EndedForgotten
<1> QED
  BY <1>1, InitTypes, InitForgotten, TypeInvStep, ForgottenStep, PTL DEF Spec

-----------------------------------------------------------------------------
(* What is remembered of the account is its row as it is.                  *)

CurrentInv ==
    \/ \E o \in Ops : op[o].at = "updated"
    \/ /\ \A s \in Tokens : cache[s] \in {None, credential}
       /\ \A r \in fresh : request[r].at = "read" => request[r].credential = credential

\* An operation about to forget goes on to do so, and only a sign-in changes the
\* account, which it is about to forget then.
LEMMA CurrentQuiet ==
    ASSUME TypeInv, CurrentInv, NEW o \in Ops, Quiet(o)
    PROVE  CurrentInv'
<1>1. TypeOK /\ op[o] \in Op
  BY DEF TypeInv, TypeOK
<1>2. /\ UNCHANGED <<cache, fresh>> /\ fresh \subseteq Requests
      /\ \A r \in Requests : request'[r] = request[r] \/ request'[r] = Idle
  BY <1>1, QuietKeeps DEF process, TypeOK
<1>3. CASE Update(o)
  <2>1. op'[o].at = "updated"
    BY <1>1, <1>3 DEF Update, Goes, TypeOK, Op
  <2> QED
    BY <2>1 DEF CurrentInv
<1>4. CASE ~Update(o)
  <2>1. UNCHANGED credential /\ op[o].at # "updated"
    <3>1. Resting.at = "idle"
      BY DEF Resting
    <3>2. CASE \E s \in Tokens : SignOut(o, s) \/ EndOne(o, s) \/ Insert(o, s)
      BY <3>1, <3>2 DEF SignOut, EndOne, Insert
    <3>3. CASE \E s \in Tokens, newer \in BOOLEAN : EndOthers(o, s, newer)
      BY <3>1, <3>3 DEF EndOthers, database
    <3>4. CASE \E r \in Requests : Refuse(o, r)
      BY <3>1, <3>4 DEF Refuse, database
    <3>5. CASE SelectAll(o) \/ DeleteAll(o) \/ SignIn(o) \/ Cap(o)
      BY <3>1, <3>5 DEF SelectAll, DeleteAll, SignIn, Cap, database
    <3> QED
      BY <1>4, <3>2, <3>3, <3>4, <3>5 DEF Quiet
  <2>2. PICK new : op' = [op EXCEPT ![o] = new]
    BY QuietMoves
  <2>3. \A p \in Ops \ {o} : op'[p] = op[p]
    BY <1>1, <2>2 DEF TypeOK
  <2> QED
    BY <1>2, <2>1, <2>3 DEF CurrentInv, Idle
<1> QED
  BY <1>3, <1>4

\* Every step keeps it so.
LEMMA CurrentStep == TypeInv /\ CurrentInv /\ [Next]_vars => CurrentInv'
<1> SUFFICES ASSUME TypeInv, CurrentInv, [Next]_vars PROVE CurrentInv'
  OBVIOUS
<1>1. TypeOK /\ request \in [Requests -> Request] /\ fresh \subseteq Requests
      /\ cache \in [Tokens -> Passwords \cup {None}]
  BY DEF TypeInv, TypeOK
<1>2. ASSUME NEW r \in Requests, Serving(r) PROVE CurrentInv'
  <2>1. UNCHANGED <<op, credential>> /\ request[r] \in Request
    BY <1>1, <1>2 DEF Serving, Resolve, ReadRow, ReadAccount, Resolved, OpenStream, Done, database
  <2>2. CASE \E s \in Tokens : Resolve(r, s)
    BY <1>1, <2>1, <2>2 DEF Resolve, CurrentInv
  <2>3. CASE ReadRow(r) \/ ReadAccount(r)
    BY <1>1, <2>1, <2>3 DEF ReadRow, ReadAccount, Step, process, CurrentInv, Idle, Request
  <2>4. CASE Resolved(r)
    BY <1>1, <2>1, <2>4 DEF Resolved, StillFresh, Step, CurrentInv, Request
  <2>5. CASE OpenStream(r) \/ Done(r)
    BY <1>1, <2>1, <2>5 DEF OpenStream, Done, Step, process, CurrentInv, Idle, Request
  <2> QED
    BY <1>2, <2>2, <2>3, <2>4, <2>5 DEF Serving
<1>3. CASE \E s \in Tokens : Lapse(s)
  BY <1>1, <1>3 DEF Lapse, database, CurrentInv
<1>4. CASE ChangePassword \/ UNCHANGED vars
  BY <1>4 DEF ChangePassword, vars, process, database, CurrentInv
<1>5. ASSUME NEW o \in Ops, Forgetful(o) PROVE CurrentInv'
  <2>1. PICK without \in SUBSET Tokens : Forget(without)
    BY <1>5, ForgetfulKeeps
  <2>2. UNCHANGED credential /\ \A p \in Ops \ {o} : op'[p] = op[p]
    BY <1>1, <1>5 DEF Forgetful, SignedOut, EndedOne, ForgetAll, Updated, Capped, Goes, Rests,
                      TypeOK, database
  <2>3. CASE op[o].at = "updated"
    <3>1. Forget(Tokens)
      BY <1>5, <2>3 DEF Forgetful, SignedOut, EndedOne, ForgetAll, Updated, Capped
    <3> QED
      BY <3>1 DEF Forget, Cached, CurrentInv
  <2>4. CASE op[o].at # "updated"
    BY <1>1, <2>1, <2>2, <2>4 DEF Forget, Cached, CurrentInv
  <2> QED
    BY <2>3, <2>4
<1> QED
  BY <1>2, <1>3, <1>4, <1>5, CurrentQuiet, OperationSteps DEF Next

\* Nothing is remembered at first.
LEMMA InitCurrent == Init => CurrentInv
BY DEF Init, CurrentInv

\* What is remembered of the account is its row as it is, but while a sign-in is
\* about to forget it (auth.ts resolveSession, storeAccount).
THEOREM RememberedIsCurrent == Spec => []CacheCurrent
<1>1. CurrentInv => CacheCurrent
  BY DEF CurrentInv, CacheCurrent
<1> QED
  BY <1>1, InitTypes, InitCurrent, TypeInvStep, CurrentStep, PTL DEF Spec

-----------------------------------------------------------------------------
(* Streams are cut.  A request that has found its session's row, or had it *)
(* remembered, brings one that is there, is going to be cut, or is never.  *)

StreamsInv ==
    \A r \in Requests : request[r].at \in {"row", "read", "resolved", "streaming"} =>
        Reached(request[r].token) \/ r \in passed

\* Serving a request keeps it so.
LEMMA StreamsServing ==
    ASSUME TypeInv, ForgottenInv, StreamsInv, NEW r \in Requests, Serving(r)
    PROVE  StreamsInv'
<1>1. TypeOK /\ request[r] \in Request /\ request \in [Requests -> Request]
  BY DEF TypeInv, TypeOK
<1>2. \A s : Reached(s)' <=> Reached(s)
  BY DEF Serving, Resolve, ReadRow, ReadAccount, Resolved, OpenStream, Done, database,
         Reached, Away
<1>3. CASE \E s \in Tokens : Resolve(r, s)
  <2>1. \A s \in Tokens : cache[s] # None => Reached(s)
    BY KnownReached DEF ForgottenInv
  <2> QED
    BY <1>1, <1>2, <1>3, <2>1 DEF Resolve, StreamsInv
<1>4. CASE ReadRow(r)
  BY <1>1, <1>2, <1>4 DEF ReadRow, Step, Reached, StreamsInv, Idle, Request
<1>5. CASE ReadAccount(r) \/ Resolved(r) \/ OpenStream(r) \/ Done(r)
  BY <1>1, <1>2, <1>5 DEF ReadAccount, Resolved, OpenStream, Done, Step, StreamsInv, Idle, Request
<1> QED
  BY <1>3, <1>4, <1>5 DEF Serving

\* Every step keeps it so.
LEMMA StreamsStep == TypeInv /\ ForgottenInv /\ StreamsInv /\ [Next]_vars => StreamsInv'
<1> SUFFICES ASSUME TypeInv, ForgottenInv, StreamsInv, [Next]_vars PROVE StreamsInv'
  OBVIOUS
<1>1. TypeOK /\ request \in [Requests -> Request]
  BY DEF TypeInv, TypeOK
<1>2. CASE \E r \in Requests : Serving(r)
  BY <1>2, StreamsServing
<1>3. CASE (\E s \in Tokens : Lapse(s)) \/ ChangePassword \/ UNCHANGED vars
  BY <1>3 DEF Lapse, ChangePassword, vars, database, StreamsInv, Reached, Away
<1>4. ASSUME NEW o \in Ops, Quiet(o) PROVE StreamsInv'
  <2>1. /\ passed' = passed /\ \A s : Reached(s) => Reached(s)'
        /\ \A r \in Requests : request'[r] = request[r] \/ request'[r] = Idle
    BY <1>4, QuietKeeps
  <2> QED
    BY <2>1 DEF StreamsInv, Idle
<1>5. ASSUME NEW o \in Ops, Forgetful(o) PROVE StreamsInv'
  <2>1. PICK ends \in SUBSET Tokens :
            /\ UNCHANGED rows /\ passed \subseteq passed'
            /\ \A s : Away(s) /\ s \notin ends => Away(s)'
            /\ \A r \in Requests :
                  /\ request'[r] = request[r] \/ request'[r] = Idle
                  /\ request[r].at # "idle" /\ request[r].token \in ends =>
                        request'[r] = Idle \/ r \in passed'
    BY <1>5, ForgetfulKeeps
  <2>2. \A s : Reached(s) /\ s \notin ends => Reached(s)'
    BY <2>1 DEF Reached
  <2> QED
    BY <2>1, <2>2 DEF StreamsInv, Idle
<1> QED
  BY <1>2, <1>3, <1>4, <1>5, OperationSteps DEF Next

\* No request is under way at first.
LEMMA InitStreams == Init => StreamsInv
BY DEF Init, StreamsInv, Idle

\* No stream goes on under a session that was ended (auth.ts cutSessionStreams),
\* but those excepted by name: opened by a request that was under way when its
\* session was cut, or under a session that nothing cuts.
THEOREM StreamsAreCut == Spec => []StreamsCut
<1>1. TypeInv /\ StreamsInv => StreamsCut
  BY ReachedCutting DEF StreamsInv, StreamsCut
<1> QED
  BY <1>1, InitTypes, InitForgotten, InitStreams, TypeInvStep, ForgottenStep, StreamsStep, PTL
     DEF Spec

-----------------------------------------------------------------------------
(* No session outlives its password, while sign-ins come one at a time: a  *)
(* sign-in with another password has deleted every session by the time it  *)
(* stores that password, and none is issued in between.                    *)

Once == \A o, p \in Ops : op[o].signsIn /\ op[p].signsIn => o = p

\* What a sign-in has done by each of its steps.
SignsWell(o) ==
    op[o].signsIn =>
        /\ op[o].at = "deleted" => rows = {}
        /\ op[o].at = "update" => op[o].credential = credential \/ rows = {}
        /\ op[o].at \in {"updated", "insert"} => op[o].credential = credential

BornInv == alone => /\ Once
                    /\ \A s \in rows : born[s] = credential
                    /\ \A o \in Ops : SignsWell(o)

\* A step of an operation that stores and issues nothing.
LEMMA BornFrom ==
    ASSUME TypeInv, BornInv, NEW o \in Ops, NEW new, op' = [op EXCEPT ![o] = new],
           rows' \subseteq rows, UNCHANGED <<credential, born, alone>>,
           new.signsIn => op[o].signsIn, SignsWell(o)'
    PROVE  BornInv'
<1>1. op'[o] = new /\ \A p \in Ops \ {o} : op'[p] = op[p]
  BY DEF TypeInv, TypeOK
<1> SUFFICES ASSUME alone' PROVE Once' /\ (\A s \in rows' : born'[s] = credential')
                                 /\ \A p \in Ops : SignsWell(p)'
  BY DEF BornInv
<1>2. Once /\ (\A s \in rows : born[s] = credential) /\ \A p \in Ops : SignsWell(p)
  BY DEF BornInv
<1>3. Once'
  BY <1>1, <1>2 DEF Once
<1>4. ASSUME NEW p \in Ops \ {o} PROVE SignsWell(p)'
  BY <1>1, <1>2 DEF SignsWell
<1> QED
  BY <1>2, <1>3, <1>4

\* The steps that end sessions store and issue nothing.
LEMMA BornEnding ==
    ASSUME TypeInv, BornInv, NEW o \in Ops, Ending(o)
    PROVE  BornInv'
<1>1. TypeOK /\ op[o] \in Op /\ Resting.signsIn = FALSE
  BY DEF TypeInv, TypeOK, Resting
<1>2. rows' \subseteq rows /\ UNCHANGED <<credential, born, alone>>
  BY DEF Ending, SignOut, EndOne, EndOthers, Refuse, SignedOut, EndedOne, SelectAll, DeleteAll,
         ForgetAll, database, issued
<1>3. ASSUME NEW new, op' = [op EXCEPT ![o] = new], new.signsIn = FALSE PROVE BornInv'
  <2>1. SignsWell(o)'
    BY <1>1, <1>3 DEF TypeOK, SignsWell
  <2> QED
    BY <1>2, <1>3, <2>1, BornFrom
<1>4. ASSUME NEW new, op' = [op EXCEPT ![o] = new], new.signsIn = op[o].signsIn,
             \/ new.at \in {"ended", "ending", "deleting"}
             \/ new.at = "deleted" /\ rows' = {}
      PROVE  BornInv'
  <2>1. SignsWell(o)'
    BY <1>1, <1>4 DEF TypeOK, SignsWell
  <2> QED
    BY <1>2, <1>4, <2>1, BornFrom
<1>5. CASE \E s \in Tokens : SignOut(o, s)
  <2>1. PICK s \in Tokens : SignOut(o, s)
    BY <1>5
  <2>2. [Resting EXCEPT !.at = "signedOut", !.ends = {s}, !.last = {s}].signsIn = FALSE
    BY DEF Resting
  <2> QED
    BY <1>3, <2>1, <2>2 DEF SignOut
<1>6. CASE \E s \in Tokens, newer \in BOOLEAN : EndOthers(o, s, newer)
  <2>1. PICK ends : op' = [op EXCEPT ![o] = [Resting EXCEPT !.at = "ending", !.ends = ends, !.left = ends]]
    BY <1>6 DEF EndOthers
  <2>2. [Resting EXCEPT !.at = "ending", !.ends = ends, !.left = ends].signsIn = FALSE
    BY DEF Resting
  <2> QED
    BY <1>3, <2>1, <2>2
<1>7. CASE \E s \in Tokens : EndOne(o, s)
  <2>1. PICK s \in Tokens : EndOne(o, s)
    BY <1>7
  <2> DEFINE new == [op[o] EXCEPT !.at = "ended", !.left = @ \ {s}, !.last = {s}]
  <2>2. new.signsIn = op[o].signsIn /\ new.at = "ended"
    BY <1>1 DEF Op
  <2>3. op' = [op EXCEPT ![o] = new]
    BY <1>1, <2>1 DEF EndOne, TypeOK
  <2> HIDE DEF new
  <2> QED
    BY <1>4, <2>2, <2>3
<1>8. CASE \E r \in Requests : Refuse(o, r)
  <2>1. op' = [op EXCEPT ![o] = [Resting EXCEPT !.at = "select"]]
    BY <1>8 DEF Refuse
  <2>2. [Resting EXCEPT !.at = "select"].signsIn = FALSE
    BY DEF Resting
  <2> QED
    BY <1>3, <2>1, <2>2
<1>9. CASE SignedOut(o)
  BY <1>1, <1>3, <1>9 DEF SignedOut, Rests
<1>10. CASE EndedOne(o)
  <2>1. CASE op[o].left = {}
    BY <1>1, <1>3, <1>10, <2>1 DEF EndedOne, Rests
  <2>2. CASE op[o].left # {}
    <3> DEFINE new == [op[o] EXCEPT !.at = "ending"]
    <3>1. new.signsIn = op[o].signsIn /\ new.at = "ending"
      BY <1>1 DEF Op
    <3>2. op' = [op EXCEPT ![o] = new]
      BY <1>1, <1>10, <2>2 DEF EndedOne, Goes, TypeOK
    <3> HIDE DEF new
    <3> QED
      BY <1>4, <3>1, <3>2
  <2> QED
    BY <2>1, <2>2
<1>11. CASE SelectAll(o)
  <2> DEFINE new == [op[o] EXCEPT !.at = "deleting", !.ends = rows]
  <2>1. new.signsIn = op[o].signsIn /\ new.at = "deleting"
    BY <1>1 DEF Op
  <2>2. op' = [op EXCEPT ![o] = new]
    BY <1>1, <1>11 DEF SelectAll, TypeOK
  <2> HIDE DEF new
  <2> QED
    BY <1>4, <2>1, <2>2
<1>12. CASE DeleteAll(o)
  <2> DEFINE new == [op[o] EXCEPT !.at = "deleted", !.last = op[o].ends \cup rows]
  <2>1. new.signsIn = op[o].signsIn /\ new.at = "deleted"
    BY <1>1 DEF Op
  <2>2. op' = [op EXCEPT ![o] = new] /\ rows' = {}
    BY <1>1, <1>12 DEF DeleteAll, TypeOK
  <2> HIDE DEF new
  <2> QED
    BY <1>4, <2>1, <2>2
<1>13. CASE ForgetAll(o)
  <2>1. CASE ~op[o].signsIn
    BY <1>1, <1>3, <1>13, <2>1 DEF ForgetAll, Rests
  <2>2. CASE op[o].signsIn
    <3> DEFINE new == [op[o] EXCEPT !.at = "update", !.ends = {}, !.last = {}]
    <3>1. new.signsIn = op[o].signsIn /\ new.at = "update"
      BY <1>1 DEF Op
    <3>2. op' = [op EXCEPT ![o] = new] /\ op[o].at = "deleted" /\ rows' = rows
      BY <1>1, <1>13, <2>2 DEF ForgetAll, TypeOK, database
    <3> HIDE DEF new
    <3>3. CASE alone
      <4>1. rows' = {}
        BY <2>2, <3>2, <3>3 DEF BornInv, SignsWell
      <4>2. SignsWell(o)'
        BY <1>1, <3>1, <3>2, <4>1 DEF TypeOK, SignsWell
      <4> QED
        BY <1>2, <3>1, <3>2, <4>2, BornFrom
    <3> QED
      BY <1>2, <3>3 DEF BornInv
  <2> QED
    BY <2>1, <2>2
<1> QED
  BY <1>5, <1>6, <1>7, <1>8, <1>9, <1>10, <1>11, <1>12, <1>13 DEF Ending

\* The steps of a sign-in come in their order, and alone.
LEMMA BornEntering ==
    ASSUME TypeInv, BornInv, NEW o \in Ops, Entering(o)
    PROVE  BornInv'
<1>1. TypeOK /\ op[o] \in Op /\ OpFits(o) /\ Resting.signsIn = FALSE /\ op \in [Ops -> Op]
  BY DEF TypeInv, TypeOK, Resting
<1> SUFFICES ASSUME alone' PROVE BornInv'
  BY DEF BornInv
<1>2. alone
  BY DEF Entering, SignIn, Update, Updated, Cap, Capped, Insert
<1>3. Once /\ (\A s \in rows : born[s] = credential) /\ \A p \in Ops : SignsWell(p)
  BY <1>2 DEF BornInv
<1>4. CASE SignIn(o)
  <2> DEFINE at == IF PasswordChanged(password) THEN "select" ELSE "update"
             new == [Resting EXCEPT !.at = at, !.signsIn = TRUE, !.credential = password]
  <2>1. op' = [op EXCEPT ![o] = new] /\ SigningIn = {} /\ UNCHANGED <<rows, credential, born>>
    BY <1>4 DEF SignIn, database, issued
  <2>2. new.at = at /\ new.credential = password /\ (at = "update" => password = credential)
        /\ at \in {"select", "update"}
    BY DEF Resting, PasswordChanged
  <2> HIDE DEF new, at
  <2>3. op'[o] = new /\ \A p \in Ops \ {o} : op'[p] = op[p] /\ op[p].signsIn = FALSE
    <3>1. \A p \in Ops : op[p].signsIn \in BOOLEAN
      BY <1>1 DEF Op
    <3> QED
      BY <1>1, <2>1, <3>1 DEF SigningIn
  <2>4. Once'
    BY <2>3 DEF Once
  <2>5. \A p \in Ops : SignsWell(p)'
    BY <2>1, <2>2, <2>3 DEF SignsWell
  <2> QED
    BY <1>3, <2>1, <2>4, <2>5 DEF BornInv
<1>5. CASE Update(o)
  <2> DEFINE new == [op[o] EXCEPT !.at = "updated"]
  <2>1. new.at = "updated" /\ new.credential = op[o].credential /\ new.signsIn = op[o].signsIn
    BY <1>1 DEF Op
  <2>2. op' = [op EXCEPT ![o] = new] /\ op[o].at = "update" /\ op[o].signsIn
        /\ credential' = op[o].credential /\ UNCHANGED <<rows, born>>
    BY <1>1, <1>5 DEF Update, Goes, OpFits, issued
  <2> HIDE DEF new
  <2>3. op'[o] = new /\ \A p \in Ops \ {o} : op'[p] = op[p] /\ ~op[p].signsIn
    BY <1>1, <1>3, <2>2 DEF Once
  <2>4. Once' /\ \A p \in Ops : SignsWell(p)'
    BY <2>1, <2>2, <2>3 DEF Once, SignsWell
  <2>5. \A s \in rows' : born'[s] = credential'
    BY <1>3, <2>2 DEF SignsWell
  <2> QED
    BY <2>4, <2>5 DEF BornInv
<1>6. CASE Updated(o)
  <2> DEFINE new == [op[o] EXCEPT !.at = "insert"]
  <2>1. new.at = "insert" /\ new.credential = op[o].credential /\ new.signsIn = op[o].signsIn
    BY <1>1 DEF Op
  <2>2. op' = [op EXCEPT ![o] = new] /\ op[o].at = "updated" /\ UNCHANGED <<rows, born, credential, alone>>
    BY <1>1, <1>6 DEF Updated, Goes, database, issued
  <2> HIDE DEF new
  <2>3. SignsWell(o)'
    BY <1>1, <1>3, <2>1, <2>2 DEF SignsWell
  <2> QED
    BY <2>1, <2>2, <2>3, BornFrom
<1>7. CASE \E s \in Tokens : Insert(o, s)
  <2>1. PICK s \in Tokens : Insert(o, s)
    BY <1>7
  <2> DEFINE new == [op[o] EXCEPT !.at = "cap"]
  <2>2. new.at = "cap" /\ new.signsIn = op[o].signsIn
    BY <1>1 DEF Op
  <2>3. op' = [op EXCEPT ![o] = new] /\ op[o].at = "insert" /\ op[o].signsIn
        /\ rows' = rows \cup {s} /\ born' = [born EXCEPT ![s] = op[o].credential]
        /\ UNCHANGED credential
    BY <1>1, <2>1 DEF Insert, Goes, OpFits
  <2> HIDE DEF new
  <2>4. op'[o] = new /\ \A p \in Ops \ {o} : op'[p] = op[p] /\ ~op[p].signsIn
    BY <1>1, <1>3, <2>3 DEF Once
  <2>5. Once' /\ \A p \in Ops : SignsWell(p)'
    BY <2>2, <2>3, <2>4 DEF Once, SignsWell
  <2>6. \A t \in rows' : born'[t] = credential'
    <3>1. op[o].credential = credential /\ born \in [Tokens -> Passwords] /\ rows \subseteq Tokens
      BY <1>1, <1>3, <2>3 DEF SignsWell, TypeOK, Created
    <3> QED
      BY <1>3, <2>3, <3>1
  <2> QED
    BY <2>5, <2>6 DEF BornInv
<1>8. CASE Cap(o)
  <2>1. rows' \subseteq rows /\ UNCHANGED <<born, credential, alone>>
    BY <1>8 DEF Cap, issued
  <2>2. CASE Oldest = {}
    <3>1. op' = [op EXCEPT ![o] = Resting]
      BY <1>8, <2>2 DEF Cap, Rests
    <3>2. SignsWell(o)'
      BY <1>1, <3>1 DEF SignsWell
    <3> QED
      BY <1>1, <2>1, <3>1, <3>2, BornFrom
  <2>3. CASE Oldest # {}
    <3> DEFINE new == [op[o] EXCEPT !.at = "capped", !.last = Oldest]
    <3>1. new.at = "capped" /\ new.signsIn = op[o].signsIn
      BY <1>1 DEF Op
    <3>2. op' = [op EXCEPT ![o] = new]
      BY <1>1, <1>8, <2>3 DEF Cap
    <3> HIDE DEF new
    <3>3. SignsWell(o)'
      BY <1>1, <3>1, <3>2 DEF SignsWell
    <3> QED
      BY <2>1, <3>1, <3>2, <3>3, BornFrom
  <2> QED
    BY <2>2, <2>3
<1>9. CASE Capped(o)
  <2>1. op' = [op EXCEPT ![o] = Resting] /\ UNCHANGED <<rows, born, credential, alone>>
    BY <1>9 DEF Capped, Rests, database, issued
  <2>2. SignsWell(o)'
    BY <1>1, <2>1 DEF SignsWell
  <2> QED
    BY <1>1, <2>1, <2>2, BornFrom
<1> QED
  BY <1>4, <1>5, <1>6, <1>7, <1>8, <1>9 DEF Entering

\* Every step keeps it so.
LEMMA BornStep == TypeInv /\ BornInv /\ [Next]_vars => BornInv'
<1> SUFFICES ASSUME TypeInv, BornInv, [Next]_vars PROVE BornInv'
  OBVIOUS
<1>1. CASE \E r \in Requests : Serving(r)
  <2>1. UNCHANGED <<op, database, issued, alone>>
    BY <1>1 DEF Serving, Resolve, ReadRow, ReadAccount, Resolved, OpenStream, Done
  <2> QED
    BY <2>1 DEF database, issued, BornInv, Once, SignsWell
<1>2. CASE (\E s \in Tokens : Lapse(s)) \/ ChangePassword \/ UNCHANGED vars
  <2>1. UNCHANGED <<op, database, issued, alone>>
    BY <1>2 DEF Lapse, ChangePassword, vars
  <2> QED
    BY <2>1 DEF database, issued, BornInv, Once, SignsWell
<1> QED
  BY <1>1, <1>2, BornEnding, BornEntering DEF Next

\* Nobody is signed in at first.
LEMMA InitBorn == Init => BornInv
BY DEF Init, BornInv, Once, SignsWell, Resting

\* Every session that has a row was signed in with the password stored (auth.ts
\* storeAccount), while sign-ins come one at a time.
THEOREM RowsAreOfTheCredential == Spec => []BornUnderCredential
<1>1. BornInv => BornUnderCredential
  BY DEF BornInv, BornUnderCredential
<1> QED
  BY <1>1, InitTypes, InitBorn, TypeInvStep, BornStep, PTL DEF Spec

-----------------------------------------------------------------------------
(* No request pairs a session with a credential it was not issued under,   *)
(* but one that is cut: the reads that would remember such a pair began    *)
(* before the cut, and are not fresh any more.                             *)

\* A credential is the one the session was issued under, or the session goes.
Pairs(s, c) == c = born[s] \/ Away(s)

PairInv ==
    /\ fresh \cap passed = {}
    /\ \A s \in Tokens : cache[s] # None => s \in Created
    /\ \A r \in Requests : request[r].credential # None => request[r].at # "idle"
    /\ alone =>
          /\ \A s \in Tokens : cache[s] # None => Pairs(s, cache[s])
          /\ \A r \in Requests : request[r].credential # None =>
                Pairs(request[r].token, request[r].credential) \/ r \in passed

\* Serving a request keeps it so.
LEMMA PairServing ==
    ASSUME TypeInv, StreamsInv, BornInv, PairInv, NEW r \in Requests, Serving(r)
    PROVE  PairInv'
<1>1. TypeOK /\ request[r] \in Request /\ request \in [Requests -> Request]
      /\ cache \in [Tokens -> Passwords \cup {None}] /\ RequestFits(r)
  BY DEF TypeInv, TypeOK
<1>2. UNCHANGED <<op, rows, credential, uncut, created, born, alone>> /\ Created' = Created
  BY CreatedSame DEF Serving, Resolve, ReadRow, ReadAccount, Resolved, OpenStream, Done, database, issued
<1>3. \A s, c : Pairs(s, c)' <=> Pairs(s, c)
  BY <1>2 DEF Pairs, Away
<1>4. CASE \E s \in Tokens : Resolve(r, s)
  BY <1>1, <1>2, <1>3, <1>4 DEF Resolve, PairInv
<1>5. CASE ReadRow(r)
  BY <1>1, <1>2, <1>3, <1>5 DEF ReadRow, Step, process, PairInv, Idle, Request
<1>6. CASE ReadAccount(r)
  <2>1. alone => Pairs(request[r].token, credential) \/ r \in passed
    <3>1. request[r].at = "row"
      BY <1>6 DEF ReadAccount
    <3>2. alone /\ request[r].token \in rows => born[request[r].token] = credential
      BY DEF BornInv
    <3> QED
      BY <3>1, <3>2 DEF StreamsInv, Reached, Pairs
  <2> QED
    BY <1>1, <1>2, <1>3, <1>6, <2>1 DEF ReadAccount, process, PairInv, Request
<1>7. CASE Resolved(r)
  <2>1. request[r].at = "read" /\ request[r].token \in Created /\ request' = [request EXCEPT ![r].at = "resolved"]
        /\ UNCHANGED <<fresh, passed>>
    BY <1>1, <1>7 DEF Resolved, Step, RequestFits
  <2>2. CASE r \notin fresh
    BY <1>1, <1>2, <1>3, <1>7, <2>1, <2>2 DEF Resolved, StillFresh, PairInv, Request
  <2>3. CASE r \in fresh
    <3>1. r \notin passed
      BY <2>3 DEF PairInv
    <3>2. cache' = [cache EXCEPT ![request[r].token] = request[r].credential]
      BY <1>7, <2>3 DEF Resolved, StillFresh
    <3> QED
      BY <1>1, <1>2, <1>3, <2>1, <3>1, <3>2 DEF PairInv, Request
  <2> QED
    BY <2>2, <2>3
<1>8. CASE OpenStream(r) \/ Done(r)
  BY <1>1, <1>2, <1>3, <1>8 DEF OpenStream, Done, Step, process, PairInv, Idle, Request
<1> QED
  BY <1>4, <1>5, <1>6, <1>7, <1>8 DEF Serving

\* Steps of operations that forget nothing keep it so: what is issued was not
\* remembered, and no request brings it.
LEMMA PairQuiet ==
    ASSUME TypeInv, PairInv, NEW o \in Ops, Quiet(o)
    PROVE  PairInv'
<1>1. TypeOK /\ OpFits(o) /\ \A r \in Requests : RequestFits(r)
  BY DEF TypeInv, TypeOK
<1>2. /\ UNCHANGED <<cache, fresh, passed>>
      /\ \A s : Away(s) => Away(s)'
      /\ \A r \in Requests : request'[r] = request[r] \/ request'[r] = Idle
  BY QuietKeeps DEF process
<1>3. alone' => alone
  BY DEF Quiet, SignOut, EndOne, Insert, EndOthers, Refuse, SelectAll, DeleteAll, SignIn, Update, Cap
<1>4. Created \subseteq Created' /\ \A s \in Created : born'[s] = born[s]
  <2>1. CASE \E s \in Tokens : Insert(o, s)
    <3>1. PICK s \in Tokens : Insert(o, s)
      BY <2>1
    <3>2. Created' = Created \cup {s}
      BY <3>1, InsertTypes
    <3>3. s \notin Created /\ born' = [born EXCEPT ![s] = op[o].credential]
      BY <3>1 DEF Insert
    <3> QED
      BY <1>1, <3>2, <3>3 DEF TypeOK, Created
  <2>2. CASE ~\E s \in Tokens : Insert(o, s)
    <3>1. UNCHANGED issued
      BY <2>2 DEF Quiet, SignOut, EndOne, EndOthers, Refuse, SelectAll, DeleteAll, SignIn, Update, Cap
    <3> QED
      BY <3>1, CreatedSame DEF issued
  <2> QED
    BY <2>1, <2>2
<1>5. \A s \in Created : \A c : Pairs(s, c) => Pairs(s, c)'
  BY <1>2, <1>4 DEF Pairs
<1>6. /\ fresh' \cap passed' = {}
      /\ \A s \in Tokens : cache'[s] # None => s \in Created'
      /\ \A r \in Requests : request'[r].credential # None => request'[r].at # "idle"
  BY <1>2, <1>4 DEF PairInv, Idle
<1>7. ASSUME alone', NEW s \in Tokens, cache'[s] # None PROVE Pairs(s, cache[s])'
  BY <1>2, <1>3, <1>5, <1>7 DEF PairInv
<1>8. ASSUME alone', NEW r \in Requests, request'[r].credential # None
      PROVE  Pairs(request[r].token, request[r].credential)' \/ r \in passed'
  <2>1. request'[r] = request[r]
    BY <1>2, <1>8 DEF Idle
  <2>2. request[r].token \in Created
    BY <1>1, <1>8, <2>1 DEF PairInv, RequestFits
  <2>3. Pairs(request[r].token, request[r].credential) \/ r \in passed
    BY <1>3, <1>8, <2>1 DEF PairInv
  <2> QED
    BY <1>2, <1>5, <2>1, <2>2, <2>3 DEF Pairs
<1> QED
  BY <1>6, <1>7, <1>8 DEF PairInv

\* So do those that forget: what they cut has no row, so that what is still
\* remembered of it another operation is about to forget, and to cut.
LEMMA PairForgetful ==
    ASSUME TypeInv, TypeInv', ForgottenInv, PairInv, NEW o \in Ops, Forgetful(o)
    PROVE  PairInv'
<1>1. TypeOK /\ cache \in [Tokens -> Passwords \cup {None}]
  BY DEF TypeInv, TypeOK
<1>2. UNCHANGED <<born, created, alone>> /\ Created' = Created
  BY CreatedSame DEF Forgetful, SignedOut, EndedOne, ForgetAll, Updated, Capped, issued
<1>3. PICK without, ends \in SUBSET Tokens :
          /\ Forget(without) /\ UNCHANGED <<rows, uncut>> /\ passed \subseteq passed'
          /\ \A s : Known(s) /\ s \notin without => Known(s)'
          /\ \A s : Away(s) /\ s \notin ends => Away(s)'
          /\ \A s \in ends \ without : s \notin rows
          /\ \A r \in Requests :
                /\ request'[r] = request[r] \/ request'[r] = Idle
                /\ request[r].at # "idle" /\ request[r].token \in ends =>
                      request'[r] = Idle \/ r \in passed'
  BY ForgetfulKeeps
<1>4. fresh' = {} /\ \A s \in Tokens : cache'[s] = IF s \in without THEN None ELSE cache[s]
  BY <1>3 DEF Forget, Cached
<1>5. ASSUME NEW s \in Tokens, cache'[s] # None
      PROVE  cache'[s] = cache[s] /\ s \in Created /\ (s \in ends => Away(s)')
  <2>1. cache'[s] = cache[s] /\ s \notin without
    BY <1>4, <1>5
  <2>2. Known(s)'
    BY <1>3, <1>5, <2>1 DEF ForgottenInv
  <2>3. (Known(s) => Reached(s))'
    BY <1>1, KnownReachedNext
  <2> QED
    BY <1>3, <1>5, <2>1, <2>2, <2>3 DEF PairInv, Reached
<1>6. ASSUME alone', NEW s \in Tokens, cache'[s] # None PROVE Pairs(s, cache[s])'
  <2>1. Pairs(s, cache[s])
    BY <1>2, <1>5, <1>6 DEF PairInv
  <2>2. cache'[s] = cache[s] /\ (s \in ends => Away(s)')
    BY <1>5, <1>6
  <2> QED
    BY <1>2, <1>3, <2>1, <2>2 DEF Pairs
<1>7. ASSUME alone', NEW r \in Requests, request'[r].credential # None
      PROVE  Pairs(request[r].token, request[r].credential)' \/ r \in passed'
  <2>1. request'[r] = request[r] /\ request'[r] # Idle
    BY <1>3, <1>7 DEF Idle
  <2>2. request[r].at # "idle" /\ (Pairs(request[r].token, request[r].credential) \/ r \in passed)
    BY <1>2, <1>7, <2>1 DEF PairInv
  <2>3. CASE request[r].token \in ends
    BY <1>3, <2>1, <2>2, <2>3
  <2>4. CASE request[r].token \notin ends
    BY <1>2, <1>3, <2>1, <2>2, <2>4 DEF Pairs
  <2> QED
    BY <2>3, <2>4
<1>8. \A r \in Requests : request'[r].credential # None => request'[r].at # "idle"
  BY <1>3 DEF PairInv, Idle
<1> QED
  BY <1>2, <1>4, <1>5, <1>6, <1>7, <1>8 DEF PairInv

\* Every step keeps it so.
LEMMA PairStep ==
    TypeInv /\ TypeInv' /\ ForgottenInv /\ StreamsInv /\ BornInv /\ PairInv /\ [Next]_vars => PairInv'
<1> SUFFICES ASSUME TypeInv, TypeInv', ForgottenInv, StreamsInv, BornInv, PairInv, [Next]_vars
             PROVE  PairInv'
  OBVIOUS
<1>1. CASE \E r \in Requests : Serving(r)
  BY <1>1, PairServing
<1>2. CASE \E s \in Tokens : Lapse(s)
  <2>1. cache \in [Tokens -> Passwords \cup {None}]
    BY DEF TypeInv, TypeOK
  <2> QED
    BY <1>2, <2>1, CreatedSame DEF Lapse, issued, PairInv, Pairs, Away
<1>3. CASE ChangePassword \/ UNCHANGED vars
  BY <1>3, CreatedSame DEF ChangePassword, vars, process, issued, PairInv, Pairs, Away
<1> QED
  BY <1>1, <1>2, <1>3, PairQuiet, PairForgetful, OperationSteps DEF Next

\* Nothing is paired at first.
LEMMA InitPair == Init => PairInv
BY DEF Init, PairInv, Idle

\* No request pairs an old session with the new credential (auth.ts
\* storeAccount), but one under way before its session is cut, while sign-ins
\* come one at a time.
THEOREM NothingIsPaired == Spec => []NoPairing
<1>1. PairInv => NoPairing
  <2>1. \A s : Away(s) <=> s \in uncut \cup Cutting
    BY DEF Away, Cutting
  <2> QED
    BY <2>1 DEF PairInv, NoPairing, Pairs
<1> QED
  BY <1>1, InitTypes, InitForgotten, InitStreams, InitBorn, InitPair,
     TypeInvStep, ForgottenStep, StreamsStep, BornStep, PairStep, PTL DEF Spec
=============================================================================
