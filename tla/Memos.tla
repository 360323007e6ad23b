------------------------------- MODULE Memos -------------------------------
(***************************************************************************)
(* Reads of the music server remembered per account (lib/server/memo.ts),  *)
(* as listings.ts, details.ts, suggestions.ts and shares.ts use it.  What  *)
(* is held is the pending read, so that requests share it; a write through *)
(* Heddohon drops what it changes once the music server has answered, and  *)
(* an upstream user replaced by another under one name leaves requests     *)
(* that still bring the credential of the first.                           *)
(***************************************************************************)
EXTENDS Integers, Sequences, FiniteSets

CONSTANTS
    Accounts, Viewers, \* accounts here, and who they are on the music server
    Keys,              \* what can be read
    Writes,            \* the keys a write changes: one of them, or all
    Slots,             \* requests under way at once
    MaxEntries,        \* Memo.#max
    MaxPerAccount,     \* Memo.#maxPerAccount
    HasTtlFor,         \* whether the lifetime follows from what was read
    MaxReads, MaxVersion, MaxFaults  \* bounds of the model

ASSUME MemosAssumption ==
    /\ IsFiniteSet(Accounts) /\ IsFiniteSet(Slots)
    /\ Writes \subseteq SUBSET Keys
    /\ \A keys \in Writes : keys = Keys \/ Cardinality(keys) = 1
    /\ MaxEntries \in Nat \ {0} /\ MaxPerAccount \in Nat \ {0}
    /\ HasTtlFor \in BOOLEAN
    /\ MaxReads \in Nat /\ MaxVersion \in Nat /\ MaxFaults \in Nat

VARIABLES
    \* The music server
    version,    \* of what each account has under each key: how often it changed
    \* The database
    viewer,     \* who the stored credential of each account signs in as
    \* This process
    memo,       \* #entries, and #perAccount
    reads,      \* the promises made, settled or not
    request,    \* what each request is at
    \* Bookkeeping, read by the properties
    written,    \* the versions, as of the last write that ended
    unheard,    \* accounts with a write that failed after it changed something
    faults

vars == <<version, viewer, memo, reads, request, written, unheard, faults>>

-----------------------------------------------------------------------------
(* Types *)

Versions == 0..MaxVersion

\* `nothing`: an answer with nothing in it.
Read == [account : Accounts, viewer : Viewers, key : Keys,
         at : {"asked", "answered", "done", "failed"}, version : Versions, nothing : BOOLEAN]

\* The number of its read stands for the promise, and for the entry's place in
\* the Map: one is put in, at the end, as its read is made.
Entry == [account : Accounts, viewer : Viewers, key : Keys, read : 1..MaxReads, fresh : BOOLEAN]

\* `since` is what had been written when it asked.  `keys` are what it writes.
Request ==
    [at : {"idle"}]
    \cup [at : {"resolved"}, account : Accounts, viewer : Viewers, key : Keys]
    \cup [at : {"waits"}, account : Accounts, viewer : Viewers, key : Keys,
          read : 1..MaxReads, since : Versions]
    \cup [at : {"writing", "changed"}, account : Accounts, keys : SUBSET Keys]
    \cup [at : {"replacing"}, account : Accounts]

Resting == [at |-> "idle"]
At(r, at) == request[r].at = at
Becomes(r, new) == request' = [request EXCEPT ![r] = new]

-----------------------------------------------------------------------------
(* What is held *)

Held == memo.entries
OfAccount(entries, a) == {e \in entries : e.account = a}
Oldest(entries) == CHOOSE e \in entries : \A f \in entries : e.read <= f.read

\* Mutant of SameKey: an entry is its account's, whoever it signed in as.
SameAccount(e, f) == e.account = f.account /\ e.key = f.key
\* Whether two are of one account, read as one upstream user, for one key.
SameKey(e, f) == e.account = f.account /\ e.viewer = f.viewer /\ e.key = f.key

\* #delete, of these entries.
Deleted(m, gone) ==
    [entries |-> m.entries \ gone,
     perAccount |-> [a \in Accounts |->
         m.perAccount[a] - Cardinality(OfAccount(m.entries \cap gone, a))]]

\* #sweep, when one is due.
Swept(m, due) == IF due THEN Deleted(m, {e \in m.entries : ~e.fresh}) ELSE m

\* A new entry is put in, and counted.
With(m, new) ==
    [entries |-> m.entries \cup {new}, perAccount |-> [m.perAccount EXCEPT ![new.account] = @ + 1]]

\* Mutant of Placed: an entry that is replaced stays counted.
PlacedTwice(m, new) == With([m EXCEPT !.entries = {e \in @ : ~SameKey(e, new)}], new)
\* It is, for any of its key.
Placed(m, new) == With(Deleted(m, {e \in m.entries : SameKey(e, new)}), new)

\* #evictOldest, of an account that holds too many.
TrimmedFor(m, account) ==
    IF m.perAccount[account] <= MaxPerAccount THEN m
    ELSE Deleted(m, {Oldest(OfAccount(m.entries, account))})

\* The oldest of all goes, past #max.
Trimmed(m) ==
    IF Cardinality(m.entries) <= MaxEntries THEN m ELSE Deleted(m, {Oldest(m.entries)})

\* Mutant of Forgotten: reads under way are left.
ForgottenDone(account, keys) ==
    {e \in Held : e.account = account /\ e.key \in keys /\ reads[e.read].at \in {"done", "failed"}}
\* forget, forgetAccount: reads under way included, whoever they are read as.
Forgotten(account, keys) == {e \in Held : e.account = account /\ e.key \in keys}

-----------------------------------------------------------------------------
(* Requests that read *)

\* A request resolves its session, and with it the credential it brings.
Resolve(r, account, key) ==
    /\ At(r, "idle")
    /\ Becomes(r, [at |-> "resolved", account |-> account, viewer |-> viewer[account], key |-> key])
    /\ UNCHANGED <<version, viewer, memo, reads, written, unheard, faults>>

\* It is given a read, which may be under way.
Asking(r, read) ==
    Becomes(r, [at |-> "waits", account |-> request[r].account, viewer |-> request[r].viewer,
                key |-> request[r].key, read |-> read,
                since |-> written[request[r].account][request[r].key]])

\* get: from memory.
Hit(r) ==
    /\ At(r, "resolved")
    /\ \E e \in Held : SameKey(e, request[r]) /\ e.fresh /\ Asking(r, e.read)
    /\ UNCHANGED <<version, viewer, memo, reads, written, unheard, faults>>

\* get: the music server is asked, and the pending read is held.
Miss(r, due) ==
    LET new == [account |-> request[r].account, viewer |-> request[r].viewer,
                key |-> request[r].key, read |-> Len(reads) + 1, fresh |-> TRUE]
    IN
    /\ At(r, "resolved") /\ Len(reads) < MaxReads
    /\ ~\E e \in Held : SameKey(e, request[r]) /\ e.fresh
    /\ reads' = Append(reads, [account |-> new.account, viewer |-> new.viewer, key |-> new.key,
                               at |-> "asked", version |-> 0, nothing |-> FALSE])
    /\ memo' = Trimmed(TrimmedFor(Placed(Swept(memo, due), new), new.account))
    /\ Asking(r, new.read)
    /\ UNCHANGED <<version, viewer, written, unheard, faults>>

\* The music server answers, with what the account has at that moment.
Answers(p, nothing) ==
    /\ reads[p].at = "asked"
    /\ reads' = [reads EXCEPT ![p].at = "answered", ![p].nothing = nothing,
                              ![p].version = version[reads[p].account][reads[p].key]]
    /\ UNCHANGED <<version, viewer, memo, request, written, unheard, faults>>

\* The promise is kept.  ttlFor counts the lifetime anew, and gives none to
\* nothing.
Settles(p) ==
    /\ reads[p].at = "answered"
    /\ reads' = [reads EXCEPT ![p].at = "done"]
    /\ memo' = IF HasTtlFor
               THEN [memo EXCEPT !.entries =
                        {IF e.read = p THEN [e EXCEPT !.fresh = ~reads[p].nothing] ELSE e : e \in @}]
               ELSE memo
    /\ UNCHANGED <<version, viewer, request, written, unheard, faults>>

\* The entry of a read that fails, unless another has its place.
DropsFailed(p) == {e \in Held : e.read = p}

Fails(p) ==
    /\ reads[p].at \in {"asked", "answered"} /\ faults < MaxFaults
    /\ reads' = [reads EXCEPT ![p].at = "failed"]
    /\ memo' = Deleted(memo, DropsFailed(p))
    /\ faults' = faults + 1
    /\ UNCHANGED <<version, viewer, request, written, unheard>>

\* The request has its answer.
Served(r) ==
    /\ At(r, "waits") /\ reads[request[r].read].at \in {"done", "failed"}
    /\ Becomes(r, Resting)
    /\ UNCHANGED <<version, viewer, memo, reads, written, unheard, faults>>

\* The lifetime of an entry ends.
Expires(e) ==
    /\ e.fresh
    /\ memo' = [memo EXCEPT !.entries = (@ \ {e}) \cup {[e EXCEPT !.fresh = FALSE]}]
    /\ UNCHANGED <<version, viewer, reads, request, written, unheard, faults>>

-----------------------------------------------------------------------------
(* Requests that write, and sign-ins *)

\* POST /api/star, an edit of a playlist: the music server is asked first.
Write(r, account, keys) ==
    /\ At(r, "idle") /\ \A k \in keys : version[account][k] < MaxVersion
    /\ Becomes(r, [at |-> "writing", account |-> account, keys |-> keys])
    /\ UNCHANGED <<version, viewer, memo, reads, written, unheard, faults>>

\* It changes there.
Changes(r) ==
    /\ At(r, "writing")
    /\ \A k \in request[r].keys : version[request[r].account][k] < MaxVersion
    /\ version' = [version EXCEPT ![request[r].account] =
           [k \in Keys |-> IF k \in request[r].keys THEN @[k] + 1 ELSE @[k]]]
    /\ Becomes(r, [request[r] EXCEPT !.at = "changed"])
    /\ UNCHANGED <<viewer, memo, reads, written, unheard, faults>>

\* It does not, and says so.
Refused(r) ==
    /\ At(r, "writing") /\ Becomes(r, Resting)
    /\ UNCHANGED <<version, viewer, memo, reads, written, unheard, faults>>

\* What has been written when a write ends.
Ends(r) ==
    /\ written' = [written EXCEPT ![request[r].account] =
           [k \in Keys |-> IF k \in request[r].keys THEN version[request[r].account][k] ELSE @[k]]]
    /\ Becomes(r, Resting)

\* The music server has answered: what it changed is dropped.
Written(r) ==
    /\ At(r, "changed") /\ Ends(r)
    /\ memo' = Deleted(memo, Forgotten(request[r].account, request[r].keys))
    /\ UNCHANGED <<version, viewer, reads, unheard, faults>>

\* The answer is lost, or comes in two halves of which the second fails (a
\* playlist renamed, and not made public): nothing is dropped.
WriteFails(r) ==
    /\ At(r, "changed") /\ Ends(r) /\ faults < MaxFaults
    /\ unheard' = unheard \cup {request[r].account} /\ faults' = faults + 1
    /\ UNCHANGED <<version, viewer, memo, reads>>

\* storeAccount: another upstream user has taken the name.  All that is held for
\* the account goes, before the credential changes.
TakesOver(r, account) ==
    /\ At(r, "idle") /\ faults < MaxFaults
    /\ memo' = Deleted(memo, Forgotten(account, Keys))
    /\ Becomes(r, [at |-> "replacing", account |-> account]) /\ faults' = faults + 1
    /\ UNCHANGED <<version, viewer, reads, written, unheard>>

Replaced(r, v) ==
    /\ At(r, "replacing") /\ Becomes(r, Resting)
    /\ viewer' = [viewer EXCEPT ![request[r].account] = v]
    /\ UNCHANGED <<version, memo, reads, written, unheard, faults>>

-----------------------------------------------------------------------------
(* Specification *)

Init ==
    /\ version = [a \in Accounts |-> [k \in Keys |-> 0]] /\ written = version
    /\ viewer \in [Accounts -> Viewers]
    /\ memo = [entries |-> {}, perAccount |-> [a \in Accounts |-> 0]] /\ reads = <<>>
    /\ request = [r \in Slots |-> Resting]
    /\ unheard = {} /\ faults = 0

Reading(r) ==
    \/ \E a \in Accounts, k \in Keys : Resolve(r, a, k)
    \/ Hit(r) \/ Served(r)
    \/ \E due \in BOOLEAN : Miss(r, due)

Upstream ==
    \E p \in DOMAIN reads :
        \/ \E nothing \in BOOLEAN : Answers(p, nothing)
        \/ Settles(p) \/ Fails(p)

Writing(r) ==
    \/ \E a \in Accounts, keys \in Writes : Write(r, a, keys)
    \/ Changes(r) \/ Refused(r) \/ Written(r) \/ WriteFails(r)

SigningIn(r) ==
    \/ \E a \in Accounts : TakesOver(r, a)
    \/ \E v \in Viewers : Replaced(r, v)

Next ==
    \/ \E r \in Slots : Reading(r) \/ Writing(r) \/ SigningIn(r)
    \/ Upstream
    \/ \E e \in Held : Expires(e)

Spec == Init /\ [][Next]_vars

-----------------------------------------------------------------------------
(* Properties *)

\* The type invariant.
TypeOK ==
    /\ version \in [Accounts -> [Keys -> Versions]] /\ written \in [Accounts -> [Keys -> Versions]]
    /\ viewer \in [Accounts -> Viewers]
    /\ memo \in [entries : SUBSET Entry, perAccount : [Accounts -> Int]]
    /\ reads \in Seq(Read) /\ Len(reads) <= MaxReads
    /\ request \in [Slots -> Request]
    /\ unheard \subseteq Accounts
    /\ faults \in 0..MaxFaults

\* A request that asks once a write has ended is never answered with what was
\* there before it: not from memory, and not by a read that was under way when
\* the entry was dropped (memo.ts:101).  Accounts are excepted once a write of
\* theirs has failed after it had changed something.
WrittenIsSeen ==
    \A r \in Slots :
        At(r, "waits") /\ request[r].account \notin unheard =>
            LET read == reads[request[r].read]
            IN read.at \in {"answered", "done"} => read.version >= request[r].since

\* A request is answered with what its own account and upstream user read, of
\* what it asked for, whoever took the name over meanwhile (memo.ts:14).
OwnAnswer ==
    \A r \in Slots :
        At(r, "waits") =>
            LET read == reads[request[r].read]
            IN /\ read.account = request[r].account /\ read.viewer = request[r].viewer
               /\ read.key = request[r].key

\* The count kept per account is of its entries, and both bounds hold, whatever
\* replaced, dropped, swept and failed: a count that drifts would have an
\* account's entries evicted as soon as they are put in.
CountsTrue ==
    /\ Cardinality(Held) <= MaxEntries
    /\ \A a \in Accounts :
        /\ memo.perAccount[a] = Cardinality(OfAccount(Held, a))
        /\ memo.perAccount[a] <= MaxPerAccount

=============================================================================
