-------------------------------- MODULE SignIn --------------------------------
(***************************************************************************)
(* Signing in to one account: the throttle (lib/server/ratelimit.ts), the  *)
(* second factor (lib/server/twofactor.ts) with the settings that change   *)
(* it (routes/api/two-factor), and a Quick Connect secret                  *)
(* (lib/server/quickconnect.ts).                                           *)
(*                                                                         *)
(* The factor is an app and its recovery codes; passkeys are left out.     *)
(* Requests run at once, and each statement of theirs is one step of the   *)
(* database.  Requests are numbered as they come, and a held sign-in or a  *)
(* session has the number of the request it came from.                     *)
(***************************************************************************)
EXTENDS Integers, Sequences, FiniteSets

CONSTANTS
    Slots,            \* requests under way at once
    LoginKeys,        \* the keys a password may count against: a known browser's, or not
    Limit,            \* the attempts allowed of each key in a window
    StepMaxAttempts,  \* STEP_MAX_ATTEMPTS
    MaxSteps,         \* MAX_STEPS_PER_ACCOUNT
    RecoveryCount,    \* RECOVERY_CODE_COUNT
    Near,             \* the time steps whose codes an app shows and may be taken
    \* Bounds of the model
    MaxMade,          \* requests in all
    MaxLapses         \* passages of time and restarts

\* What attempts are counted by: the name, the address, a known browser, and
\* the account's wrong factors.
Keys == {"user", "addr", "device", "2fa"}

ASSUME SignInAssumption ==
    /\ LoginKeys \subseteq {<<"user", "addr">>, <<"user">>, <<"device">>}
    /\ Limit \in [Keys -> Nat]
    /\ Near \subseteq Nat \ {0}
    /\ {StepMaxAttempts, MaxSteps, RecoveryCount, MaxMade, MaxLapses} \subseteq Nat
    /\ IsFiniteSet(Slots)

VARIABLES
    \* The database
    app,        \* the app (totp): which, whether it is confirmed, the last code taken
    codes,      \* recovery_codes
    steps,      \* sign_in_steps
    failures,   \* login_attempts
    live,       \* the account's sessions
    \* This process
    held,       \* what hasSecondFactor remembers
    claimed,    \* whether the Quick Connect secret is claimed
    request,    \* what each request is at
    \* The world
    made,       \* requests, apps and recovery codes made
    lapses,
    \* Bookkeeping, read by the properties alone
    judged,     \* by key: what was wrong, and what was handed back to a later count
    accepted,   \* the codes taken, and by which request
    sessions,   \* every session issued
    connected,  \* requests the secret signed in, since the last restart
    settled     \* how far the last change of the factor got, and by whom

database == <<app, codes, steps, failures, live>>
process  == <<held, claimed>>
world    == <<made, lapses>>
ghosts   == <<judged, accepted, sessions, connected, settled>>
vars == <<database, process, request, world, ghosts>>

-----------------------------------------------------------------------------
(* Types *)

None == 0

\* No count of a key is held.
NoRow == -1

\* A code of an app at a time step, or a recovery code (of no app).
Code == [app : Nat, number : Nat]
Unread == [app |-> None, number |-> 0]

\* `old`: past its five minutes.
Held == [n : Nat, attempts : Nat, old : BOOLEAN]

\* `step`: the held sign-in it finished.  `factor`: a factor was given for it.
\* `late`: the sign-in had found no factor when one was added.
Session == [n : Nat, step : Nat, factor : BOOLEAN, late : BOOLEAN]

\* `keys` are those still to do of the statements it is at, `mine` those it
\* reserved and `stale` those of them that began again since; `from` is the
\* session or held sign-in it brings, `saw` what it read, `left` the codes to
\* make, `ends` the sessions to end.
Resting ==
    [n |-> 0, kind |-> "none", at |-> "idle", keys |-> <<>>, mine |-> {}, stale |-> {},
     refused |-> FALSE, from |-> None, code |-> Unread, saw |-> FALSE, left |-> 0,
     late |-> FALSE, ends |-> {}]

\* What a request is for, and what it is at.
Kinds == {"none", "password", "quick", "code", "start", "remove", "renew", "confirm", "reset", "gate"}
Places ==
    {"idle", "reserve", "ask", "refund", "clear", "poll", "connect", "begin", "drop", "hold",
     "trim", "issue", "count", "give up", "look", "take", "finish", "prove", "start", "replace",
     "set up", "confirm", "confirmed", "codes", "renew", "fill", "remove", "bare", "drop codes",
     "drop steps", "changed", "others", "end", "read", "remember"}
KeyLists == {<<>>, <<"user", "addr">>, <<"user">>, <<"device">>, <<"addr">>, <<"2fa">>}
Request ==
    [n : Nat, kind : Kinds, at : Places, keys : KeyLists, mine : SUBSET Keys,
     stale : SUBSET Keys, refused : BOOLEAN, from : Nat, code : Code, saw : BOOLEAN,
     left : Nat, late : BOOLEAN, ends : SUBSET Nat]

\* Every variable has its type: the rows, what is remembered, the requests.
TypeOK ==
    /\ app \in [id : Nat, on : BOOLEAN, last : Nat]
    /\ codes \subseteq Nat
    /\ steps \subseteq Held
    /\ failures \in [Keys -> Nat \cup {NoRow}]
    /\ live \subseteq Nat
    /\ held \in [is : {"nothing", "on", "off"}, late : BOOLEAN]
    /\ claimed \in BOOLEAN
    /\ request \in [Slots -> Request]
    /\ made \in [requests : Nat, apps : Nat, codes : Nat]
    /\ lapses \in Nat
    /\ judged \in [Keys -> [wrong : Nat, carried : Nat]]
    /\ accepted \subseteq [code : Code, by : Nat]
    /\ sessions \subseteq Session
    /\ connected \subseteq Nat
    /\ settled \in [by : Nat, own : Nat, sessions : BOOLEAN, held : BOOLEAN]

At(r, at) == request[r].at = at
Goes(r, at) == request' = [request EXCEPT ![r].at = at]
Rests(r) == request' = [request EXCEPT ![r] = Resting]

\* A request comes.
Comes(r, new) ==
    /\ request[r] = Resting /\ made.requests < MaxMade
    /\ made' = [made EXCEPT !.requests = @ + 1]
    /\ request' = [request EXCEPT ![r] = [new EXCEPT !.n = made.requests + 1]]
    /\ UNCHANGED lapses

\* hasSecondFactor remembers nothing; else `late`: an answer read before a change.
Nothing == [is |-> "nothing", late |-> FALSE]

NoApp == [id |-> None, on |-> FALSE, last |-> 0]

A(kind, at) == [Resting EXCEPT !.kind = kind, !.at = at]

-----------------------------------------------------------------------------
(* The throttle *)

\* The count of a key begins again: reservations before belong to no count.
Again(key) ==
    [s \in Slots |-> IF key \in request[s].mine
                     THEN [request[s] EXCEPT !.stale = @ \cup {key}] ELSE request[s]]
Fresh == [wrong |-> 0, carried |-> 0]

\* Mutant of Allowed: the attempt itself is not counted.
AllowedOneMore(key, count) == count <= Limit[key] + 1
Allowed(key, count) == count <= Limit[key]

\* Where a request goes once it may.
Permitted(q) == IF "2fa" \in q.mine THEN "look" ELSE "ask"

Passes == lapses < MaxLapses /\ lapses' = lapses + 1

\* reserveLoginAttempt: one upsert for each key, all of them counted though one
\* has refused.  The window of the count may be `over`.
Reserve(r, over) ==
    LET q == request[r]
        key == Head(q.keys)
        anew == over \/ failures[key] = NoRow
        count == IF anew THEN 1 ELSE failures[key] + 1
        p == [q EXCEPT !.keys = Tail(@), !.mine = @ \cup {key},
                       !.refused = @ \/ ~Allowed(key, count)]
    IN
    /\ At(r, "reserve")
    /\ IF over THEN failures[key] # NoRow /\ Passes ELSE UNCHANGED lapses
    /\ failures' = [failures EXCEPT ![key] = count]
    /\ judged' = IF anew THEN [judged EXCEPT ![key] = Fresh] ELSE judged
    /\ request' = [(IF anew THEN Again(key) ELSE request) EXCEPT ![r] =
                      IF p.keys # <<>> THEN p
                      ELSE IF p.refused THEN Resting
                      ELSE [p EXCEPT !.at = Permitted(p)]]
    /\ UNCHANGED <<app, codes, steps, live, process, made,
                   accepted, sessions, connected, settled>>

\* A wrong password or code, against the counts it was reserved in.
Judged(q) ==
    [key \in Keys |-> IF key \in q.mine \ q.stale THEN [judged[key] EXCEPT !.wrong = @ + 1]
                      ELSE judged[key]]

\* Mutant of HandedBack: the count is cleared.
HandedBackAll(count) == IF count > 0 THEN 0 ELSE count
HandedBack(count) == IF count > 0 THEN count - 1 ELSE count

\* refundLoginAttempt.
Refund(r) ==
    LET q == request[r]
        key == Head(q.keys) IN
    /\ At(r, "refund")
    /\ failures' = [failures EXCEPT ![key] = HandedBack(@)]
    /\ judged' = IF key \in q.stale /\ failures[key] > 0
                 THEN [judged EXCEPT ![key].carried = @ + 1] ELSE judged
    /\ request' = [request EXCEPT ![r] = IF Len(q.keys) = 1 THEN Resting
                                         ELSE [q EXCEPT !.keys = Tail(@), !.mine = @ \ {key}]]
    /\ UNCHANGED <<app, codes, steps, live, process, world,
                   accepted, sessions, connected, settled>>

\* Where a request goes once its password or code was right.
Proven(kind) ==
    CASE kind = "password" -> "begin" [] kind = "code" -> "finish" [] OTHER -> kind

\* clearLoginFailures, clearSecondFactorFailures: the address keeps its count.
Clear(r) ==
    LET q == request[r]
        key == CHOOSE k \in q.mine : k # "addr" IN
    /\ At(r, "clear")
    /\ failures' = [failures EXCEPT ![key] = NoRow]
    /\ judged' = [judged EXCEPT ![key] = Fresh]
    /\ request' = [Again(key) EXCEPT ![r] =
                      [q EXCEPT !.at = Proven(q.kind), !.mine = {}, !.stale = {}]]
    /\ UNCHANGED <<app, codes, steps, live, process, world,
                   accepted, sessions, connected, settled>>

-----------------------------------------------------------------------------
(* Signing in with a password, or a Quick Connect secret *)

\* A password is sent: the name's attempts, and the address's, or the browser's.
Password(r) ==
    /\ \E keys \in LoginKeys : Comes(r, [A("password", "reserve") EXCEPT !.keys = keys])
    /\ UNCHANGED <<database, process, ghosts>>

\* checkSignIn, or checkProof's own login: the music server takes the password,
\* refuses it, or gives no answer.
Ask(r) ==
    LET q == request[r]
        handed == CHOOSE keys \in LoginKeys : {keys[i] : i \in DOMAIN keys} = q.mine IN
    /\ At(r, "ask")
    /\ \/ Goes(r, "clear") /\ UNCHANGED judged
       \/ Rests(r) /\ judged' = Judged(q)
       \/ /\ request' = [request EXCEPT ![r].at = "refund", ![r].keys = handed]
          /\ UNCHANGED judged
    /\ UNCHANGED <<database, process, world, accepted, sessions, connected, settled>>

\* A poll of the secret the browser shows: the music server is asked.
Poll(r) ==
    /\ ~claimed
    /\ Comes(r, A("quick", "poll"))
    /\ UNCHANGED <<database, process, ghosts>>

\* It is approved, and claimed for this poll alone; else there is nothing to do.
Approved(r) ==
    /\ At(r, "poll")
    /\ IF ~claimed THEN claimed' = TRUE /\ Goes(r, "connect")
       ELSE Rests(r) /\ UNCHANGED claimed
    /\ UNCHANGED <<database, held, world, ghosts>>
NotApproved(r) == At(r, "poll") /\ Rests(r) /\ UNCHANGED <<database, process, world, ghosts>>

\* checkQuickConnect: signed in, handed back after a fault, or refused.
Connect(r) ==
    /\ At(r, "connect")
    /\ \/ /\ Goes(r, "begin")
          /\ connected' = connected \cup {request[r].n}
          /\ UNCHANGED claimed
       \/ /\ Rests(r)
          /\ claimed' \in BOOLEAN
          /\ UNCHANGED connected
    /\ UNCHANGED <<database, held, world, judged, accepted, sessions, settled>>

\* beginStep reads the factors.
Begin(r) ==
    /\ At(r, "begin")
    /\ Goes(r, IF app.on THEN "drop" ELSE "issue")
    /\ UNCHANGED <<database, process, world, ghosts>>

\* With one, the sign-in the browser held is dropped, and expired ones are,
DropOwn(r) ==
    /\ At(r, "drop")
    /\ \E own \in {None} \cup {s.n : s \in steps} :
          steps' = {s \in steps : ~s.old /\ s.n # own}
    /\ Goes(r, "hold")
    /\ UNCHANGED <<app, codes, failures, live, process, world, ghosts>>

\* this one is held,
Hold(r) ==
    /\ At(r, "hold")
    /\ steps' = steps \cup {[n |-> request[r].n, attempts |-> 0, old |-> FALSE]}
    /\ Goes(r, "trim")
    /\ UNCHANGED <<app, codes, failures, live, process, world, ghosts>>

\* and the account's oldest go.
Trim(r) ==
    /\ At(r, "trim")
    /\ steps' = {s \in steps : Cardinality({t \in steps : t.n > s.n}) < MaxSteps}
    /\ Rests(r)
    /\ UNCHANGED <<app, codes, failures, live, process, world, ghosts>>

\* storeAccount and createSession.  A poll ends its browser's session first.
Issue(r) ==
    LET q == request[r]
        s == [n |-> q.n, step |-> IF q.kind = "code" THEN q.from ELSE None,
              factor |-> q.kind = "code", late |-> q.late] IN
    /\ At(r, "issue")
    /\ \E own \in IF q.kind = "quick" THEN {None} \cup live ELSE {None} :
          live' = (live \ {own}) \cup {s.n}
    /\ sessions' = sessions \cup {s}
    /\ Rests(r)
    /\ UNCHANGED <<app, codes, steps, failures, process, world,
                   judged, accepted, connected, settled>>

-----------------------------------------------------------------------------
(* The second step of a sign-in *)

\* A code is sent for a held sign-in: currentStep.
SendCode(r) ==
    /\ \E s \in steps : ~s.old /\ Comes(r, [A("code", "count") EXCEPT !.from = s.n])
    /\ UNCHANGED <<database, process, ghosts>>

\* countStepAttempt.
Count(r) ==
    LET mine == {s \in steps : s.n = request[r].from}
        tried == {[s EXCEPT !.attempts = @ + 1] : s \in mine} IN
    /\ At(r, "count")
    /\ steps' = (steps \ mine) \cup tried
    /\ request' = [request EXCEPT ![r].keys = <<"2fa">>,
                      ![r].at = IF \E s \in tried : s.attempts <= StepMaxAttempts
                                THEN "reserve" ELSE "give up"]
    /\ UNCHANGED <<app, codes, failures, live, process, world, ghosts>>

\* dropStep: after too many, or the browser cancels it.
Dropped(n) == steps' = {s \in steps : s.n # n} /\ UNCHANGED <<app, codes, failures, live>>
GiveUp(r) ==
    /\ At(r, "give up")
    /\ Dropped(request[r].from) /\ Rests(r)
    /\ UNCHANGED <<process, world, ghosts>>
Cancel ==
    /\ \E s \in steps : Dropped(s.n)
    /\ UNCHANGED <<process, request, world, ghosts>>

\* The codes of an app near its time, which passes among them.
Shown(a) == [app : {a}, number : Near]

Accept(r, code) == accepted' = accepted \cup {[code |-> code, by |-> request[r].n]}

\* takeCode: what was typed is a code of the app, whose secret is read; or a
\* recovery code, and its delete is the check; or wrong.
Look(r) ==
    /\ At(r, "look")
    /\ \/ /\ app.on
          /\ \E code \in Shown(app.id) :
                request' = [request EXCEPT ![r].at = "take", ![r].code = code]
          /\ UNCHANGED <<codes, judged, accepted>>
       \/ /\ \E n \in codes : codes' = codes \ {n} /\ Accept(r, [app |-> None, number |-> n])
          /\ Goes(r, "clear")
          /\ UNCHANGED judged
       \/ /\ Rests(r) /\ judged' = Judged(request[r])
          /\ UNCHANGED <<codes, accepted>>
    /\ UNCHANGED <<app, steps, failures, live, process, world, sessions, connected, settled>>

\* Mutant of NotTaken: whether it was taken was read with the secret.
NotTakenAtAll(code) == TRUE
NotTaken(code) == app.last < code.number

\* takeTotp's update.  It is of whichever app is on now.
Take(r) ==
    LET q == request[r] IN
    /\ At(r, "take")
    /\ IF app.on /\ NotTaken(q.code)
       THEN /\ app' = [app EXCEPT !.last = q.code.number]
            /\ Accept(r, [q.code EXCEPT !.app = app.id])
            /\ request' = [request EXCEPT ![r].at = "clear", ![r].code = Unread]
            /\ UNCHANGED judged
       ELSE Rests(r) /\ judged' = Judged(q) /\ UNCHANGED <<app, accepted>>
    /\ UNCHANGED <<codes, steps, failures, live, process, world, sessions, connected, settled>>

\* finishStep: the delete is the check.
Finish(r) ==
    LET n == request[r].from IN
    /\ At(r, "finish")
    /\ Dropped(n)
    /\ IF n \in {s.n : s \in steps} THEN Goes(r, "issue") ELSE Rests(r)
    /\ UNCHANGED <<process, world, ghosts>>

-----------------------------------------------------------------------------
(* Changing the factor *)

\* A change has begun: of what is remembered, and the sessions to end.
Began(r) == [by |-> request[r].n, own |-> request[r].from, sessions |-> FALSE, held |-> FALSE]

\* The factor is another than it was when these requests read it.
Overtaken ==
    [r \in Slots |-> IF At(r, "remember") \/ (At(r, "issue") /\ request[r].kind # "code")
                     THEN [request[r] EXCEPT !.late = TRUE] ELSE request[r]]

\* checkProof: a code where there is a factor, the password where there is none.
ProofOf(q) ==
    IF app.on THEN {[q EXCEPT !.at = "reserve", !.keys = <<"2fa">>]}
    ELSE {[q EXCEPT !.at = "reserve", !.keys = keys] : keys \in LoginKeys}

\* A change is asked for, from a session.
Change(r, kind) ==
    /\ \E s \in live : \E q \in ProofOf([A(kind, "prove") EXCEPT !.from = s]) : Comes(r, q)
    /\ UNCHANGED <<database, process, ghosts>>

\* New recovery codes are asked for, where there is a factor.
AskRenew(r) ==
    /\ app.on /\ \E s \in live : Comes(r, [A("renew", "prove") EXCEPT !.from = s])
    /\ UNCHANGED <<database, process, ghosts>>
Prove(r) ==
    /\ At(r, "prove")
    /\ \E q \in ProofOf(request[r]) : request' = [request EXCEPT ![r] = q]
    /\ UNCHANGED <<database, process, world, ghosts>>

\* startTotp: not where an app is on.
Start(r) ==
    /\ At(r, "start")
    /\ IF app.on THEN Rests(r) ELSE Goes(r, "replace")
    /\ UNCHANGED <<database, process, world, ghosts>>

\* What was being set up goes, and what is set up now comes, if nothing else is.
Replace(r) ==
    /\ At(r, "replace")
    /\ app' = IF app.on THEN app ELSE [app EXCEPT !.id = None]
    /\ Goes(r, "set up")
    /\ UNCHANGED <<codes, steps, failures, live, process, world, ghosts>>
SetUp(r) ==
    /\ At(r, "set up")
    /\ IF app.id # None THEN UNCHANGED <<app, made>>
       ELSE /\ app' = [id |-> made.apps + 1, on |-> FALSE, last |-> 0]
            /\ made' = [made EXCEPT !.apps = @ + 1]
    /\ Rests(r)
    /\ UNCHANGED <<codes, steps, failures, live, process, lapses, ghosts>>

\* confirmTotp: the first code of what is being set up.
SendFirst(r) ==
    /\ app.id # None /\ ~app.on
    /\ \E s \in live, code \in Shown(app.id) :
          Comes(r, [A("confirm", "confirm") EXCEPT !.from = s, !.code = code])
    /\ UNCHANGED <<database, process, ghosts>>

\* What is being set up now is on.
Confirm(r) ==
    /\ At(r, "confirm")
    /\ IF app.id = None \/ app.on THEN Rests(r) /\ UNCHANGED <<app, settled>>
       ELSE /\ app' = [app EXCEPT !.on = TRUE, !.last = request[r].code.number]
            /\ request' = [Overtaken EXCEPT ![r].at = "confirmed", ![r].code = Unread]
            /\ settled' = Began(r)
    /\ UNCHANGED <<codes, steps, failures, live, process, world, judged, accepted, sessions, connected>>

\* Mutant of Forgotten: a factor taken away is remembered.
ForgottenOff == IF held.is = "on" THEN held ELSE Nothing
\* changed: what is remembered is dropped.
Forgotten == Nothing
Changed(r, at) ==
    /\ held' = Forgotten
    /\ settled' = [settled EXCEPT !.held = TRUE]
    /\ Goes(r, at)
    /\ UNCHANGED <<database, claimed, world, judged, accepted, sessions, connected>>

Confirmed(r) == At(r, "confirmed") /\ Changed(r, "codes")

\* Recovery codes are made where there are none: makeRecoveryCodes.
HasCodes(r) ==
    /\ At(r, "codes")
    /\ Goes(r, IF codes # {} THEN "others" ELSE "renew")
    /\ UNCHANGED <<database, process, world, ghosts>>
Wipe(r) ==
    /\ At(r, "renew")
    /\ codes' = {}
    /\ request' = [request EXCEPT ![r].at = "fill", ![r].left = RecoveryCount]
    /\ UNCHANGED <<app, steps, failures, live, process, world, ghosts>>
Fill(r) ==
    LET q == request[r] IN
    /\ At(r, "fill")
    /\ IF q.left > 0
       THEN /\ codes' = codes \cup {made.codes + 1}
            /\ made' = [made EXCEPT !.codes = @ + 1]
            /\ request' = [request EXCEPT ![r].left = @ - 1]
       ELSE /\ IF q.kind = "confirm" THEN Goes(r, "others") ELSE Rests(r)
            /\ UNCHANGED <<codes, made>>
    /\ UNCHANGED <<app, steps, failures, live, process, lapses, ghosts>>

\* clearSecondFactors, for an administrator: as removeTotp, and the held sign-ins.
Reset(r) ==
    /\ Comes(r, A("reset", "remove"))
    /\ UNCHANGED <<database, process, ghosts>>

\* removeTotp: the app goes,
Remove(r) ==
    /\ At(r, "remove")
    /\ app' = NoApp
    /\ request' = [Overtaken EXCEPT ![r].at = IF request[r].kind = "reset" THEN "drop codes" ELSE "bare"]
    /\ settled' = Began(r)
    /\ UNCHANGED <<codes, steps, failures, live, process, world, judged, accepted, sessions, connected>>

\* the recovery codes with it, if no factor is left,
Bare(r) ==
    /\ At(r, "bare")
    /\ Goes(r, IF app.on THEN "changed" ELSE "drop codes")
    /\ UNCHANGED <<database, process, world, ghosts>>
DropCodes(r) ==
    /\ At(r, "drop codes")
    /\ codes' = {}
    /\ Goes(r, IF request[r].kind = "reset" THEN "drop steps" ELSE "changed")
    /\ UNCHANGED <<app, steps, failures, live, process, world, ghosts>>
DropSteps(r) ==
    /\ At(r, "drop steps")
    /\ steps' = {}
    /\ Goes(r, "changed")
    /\ UNCHANGED <<app, codes, failures, live, process, world, ghosts>>
Removed(r) == At(r, "changed") /\ Changed(r, "others")

\* Mutant of Others: newer sessions are left to their own browsers.
OthersOlder(s) == {t \in live : t < s}
\* afterFactorChange: the account's other sessions, newer ones too.
Others(s) == live \ {s}

\* endSessions: they are read, then deleted.  A reset ends every one.
PickOthers(r) ==
    /\ At(r, "others")
    /\ request' = [request EXCEPT ![r].at = "end", ![r].ends = Others(request[r].from)]
    /\ UNCHANGED <<database, process, world, ghosts>>
EndOthers(r) ==
    /\ At(r, "end")
    /\ live' = IF request[r].kind = "reset" THEN {} ELSE live \ request[r].ends
    /\ settled' = [settled EXCEPT !.sessions = @ \/ settled.by = request[r].n]
    /\ Rests(r)
    /\ UNCHANGED <<app, codes, steps, failures, process, world, judged, accepted, sessions, connected>>

-----------------------------------------------------------------------------
(* Whether there is one, remembered *)

\* hasSecondFactor, for a request from a session: read, and remembered.
Gate(r) ==
    /\ held.is = "nothing" /\ live # {}
    /\ Comes(r, A("gate", "read"))
    /\ UNCHANGED <<database, process, ghosts>>
ReadFactor(r) ==
    /\ At(r, "read")
    /\ request' = [request EXCEPT ![r].at = "remember", ![r].saw = app.on]
    /\ UNCHANGED <<database, process, world, ghosts>>
Remember(r) ==
    /\ At(r, "remember")
    /\ held' = [is |-> IF request[r].saw THEN "on" ELSE "off", late |-> request[r].late]
    /\ Rests(r)
    /\ UNCHANGED <<database, claimed, world, ghosts>>

-----------------------------------------------------------------------------
(* Time, and restarts *)

\* A held sign-in expires.
Expires(s) ==
    /\ ~s.old /\ Passes
    /\ steps' = (steps \ {s}) \cup {[s EXCEPT !.old = TRUE]}
    /\ UNCHANGED <<app, codes, failures, live, process, request, made, ghosts>>

\* Five seconds pass.
Lapse ==
    /\ held.is # "nothing" /\ held' = Nothing
    /\ UNCHANGED <<database, claimed, request, world, ghosts>>

\* The process ends with the requests under way, and another starts.  (With none,
\* and nothing remembered, there is nothing to lose.)
Restart ==
    /\ claimed \/ held # Nothing \/ \E r \in Slots : request[r] # Resting
    /\ Passes
    /\ request' = [r \in Slots |-> Resting]
    /\ held' = Nothing /\ claimed' = FALSE
    /\ connected' = {} /\ settled' = [settled EXCEPT !.held = TRUE]
    /\ UNCHANGED <<database, made, judged, accepted, sessions>>

-----------------------------------------------------------------------------
(* The specification *)

\* A browser is signed in, to an account that sets an app up, or has one on.
Init ==
    /\ \E on \in BOOLEAN :
          /\ app = [id |-> 1, on |-> on, last |-> 0]
          /\ codes = IF on THEN {1} ELSE {}
          /\ made = [requests |-> 1, apps |-> 1, codes |-> IF on THEN 1 ELSE 0]
          /\ sessions = {[n |-> 1, step |-> None, factor |-> on, late |-> FALSE]}
    /\ steps = {} /\ live = {1}
    /\ failures = [key \in Keys |-> NoRow] /\ judged = [key \in Keys |-> Fresh]
    /\ held = Nothing /\ claimed = FALSE
    /\ request = [r \in Slots |-> Resting]
    /\ lapses = 0
    /\ accepted = {} /\ connected = {}
    /\ settled = [by |-> None, own |-> None, sessions |-> TRUE, held |-> TRUE]

Throttle(r) == (\E over \in BOOLEAN : Reserve(r, over)) \/ Ask(r) \/ Refund(r) \/ Clear(r)

Entering(r) ==
    \/ Password(r) \/ Poll(r) \/ Approved(r) \/ NotApproved(r) \/ Connect(r)
    \/ Begin(r) \/ DropOwn(r) \/ Hold(r) \/ Trim(r) \/ Issue(r)

Stepping(r) == SendCode(r) \/ Count(r) \/ GiveUp(r) \/ Look(r) \/ Take(r) \/ Finish(r)

Changing(r) ==
    \/ \E kind \in {"start", "remove"} : Change(r, kind)
    \/ AskRenew(r) \/ Prove(r) \/ Start(r) \/ Replace(r) \/ SetUp(r) \/ SendFirst(r) \/ Confirm(r) \/ Confirmed(r)
    \/ HasCodes(r) \/ Wipe(r) \/ Fill(r) \/ Reset(r) \/ Remove(r) \/ Bare(r)
    \/ DropCodes(r) \/ DropSteps(r) \/ Removed(r) \/ PickOthers(r) \/ EndOthers(r)

Gating(r) == Gate(r) \/ ReadFactor(r) \/ Remember(r)

Next ==
    \/ \E r \in Slots : Throttle(r) \/ Entering(r) \/ Stepping(r) \/ Changing(r) \/ Gating(r)
    \/ Cancel
    \/ \E s \in steps : Expires(s)
    \/ Lapse \/ Restart

Spec == Init /\ [][Next]_vars

-----------------------------------------------------------------------------
(* Properties *)

\* Nothing signs in twice, though two requests bring it at once: a code of an
\* app is taken once, and a recovery code; a held sign-in ends in one session;
\* a Quick Connect secret signs in once, unless the server restarted.
OnceEach ==
    /\ \A a, b \in accepted : a.code = b.code => a = b
    /\ \A a, b \in sessions : a.step = b.step /\ a.step # None => a = b
    /\ Cardinality(connected) <= 1

\* No more is guessed in a window than its limit, by requests at once either,
\* nor when some are handed back: but those handed back after the count they
\* were in had begun again each let one more through.
GuessesBounded ==
    \A key \in Keys :
        judged[key].wrong
            + Cardinality({r \in Slots : /\ request[r].at \in {"ask", "look", "take"}
                                         /\ key \in request[r].mine \ request[r].stale})
            <= Limit[key] + judged[key].carried

\* While the account has a factor every session gave one, but the session it
\* was added from, those whose sign-in had found none before, and where the
\* change was cut short: adding one "ends the account's other sessions".
FactorGiven ==
    app.on /\ settled.sessions =>
        \A s \in sessions : s.n \in live => s.factor \/ s.late \/ s.n = settled.own

\* What is remembered of the factor is so, once a change of it is done, but for
\* an answer read before the change and handled after: "everything here that
\* changes an account's factors drops its entry".
FactorRemembered ==
    held.is # "nothing" /\ ~held.late /\ settled.held => (held.is = "on") = app.on
=============================================================================
