------------------------------ MODULE AuthChallenge ------------------------------
(***************************************************************************)
(* Wallet authentication: AuthService.createChallenge and login, the       *)
(* auth_challenge table they share, and the hourly purge.                  *)
(*                                                                         *)
(* Every await is a step boundary.  Both handlers read the clock for each  *)
(* date of a query, one after the other, before the database runs it: a    *)
(* step takes each of them from the instants between the previous reading  *)
(* and now.                                                                *)
(* Requests with an invalid key, a malformed or a wrong signature change   *)
(* nothing but the audit log; they are RequestFails steps.                 *)
(***************************************************************************)
EXTENDS Integers

CONSTANTS
    Keys,         \* Stellar public keys
    Challenges,   \* values of randomBytes(32), never drawn twice
    Requests,     \* requests the server can have in flight
    Lifetime,     \* getChallengeExpirationSeconds()
    Retention,    \* retentionHours of purgeExpiredChallenges
    MaxTime       \* bound on the clock

ASSUME LifetimeAssumption == Lifetime \in Nat \ {0}
ASSUME RetentionAssumption == Retention \in Nat
ASSUME MaxTimeAssumption == MaxTime \in Nat

VARIABLES
    now,        \* the clock
    rows,       \* the auth_challenge table
    drawn,      \* drawn[c]: when challenge c was drawn, Never if it was not
    req,        \* req[r]: where an in-flight request stands
    users,      \* public keys that have an app_user row
    tokens      \* tokens[c]: JWTs issued on the strength of challenge c

vars == <<now, rows, drawn, req, users, tokens>>

\* The clock starts at 1; 0 is the usedAt of a challenge that was not used, and the
\* date of one that was not drawn.
Time == Nat \ {0}
Unused == 0
Never == 0

Row == [key: Keys, challenge: Challenges, expiresAt: Time, usedAt: Time \cup {Unused}]

Idle == [pc |-> "idle"]

Request ==
    [pc: {"upsert", "verify"}, key: Keys, challenge: Challenges, expiresAt: Time]
        \cup [pc: {"consume"}, key: Keys, challenge: Challenges, checked: Time]
        \cup [pc: {"issue"}, key: Keys, challenge: Challenges, compared: Time]

\* Every variable holds a value of its type, and the table keeps the unique constraint
\* on publicKey.
TypeOK ==
    /\ now \in Time
    /\ rows \in SUBSET Row
    /\ drawn \in [Challenges -> Time \cup {Never}]
    /\ req \in [Requests -> Request \cup {Idle}]
    /\ users \in SUBSET Keys
    /\ tokens \in [Challenges -> Nat]
    /\ \A x, y \in rows : x.key = y.key => x = y

---------------------------------------------------------------------------------

Suspend(r, state) == req' = [req EXCEPT ![r] = state]
Finish(r) == req' = [req EXCEPT ![r] = Idle]
At(r, pc) == req[r] # Idle /\ req[r].pc = pc

Tick ==
    /\ now < MaxTime
    /\ now' = now + 1
    /\ UNCHANGED <<rows, drawn, req, users, tokens>>

\* A check or a database call throws; the client gets an error.
RequestFails(r) ==
    /\ req[r] # Idle
    /\ Finish(r)
    /\ UNCHANGED <<now, rows, drawn, users, tokens>>

\* The process dies with its requests; the table stays.
Crash ==
    /\ req' = [r \in Requests |-> Idle]
    /\ UNCHANGED <<now, rows, drawn, users, tokens>>

---------------------------------------------------------------------------------
(* createChallenge: draw, delete expired rows of every key, upsert *)

\* The step is the deleteMany.  The challenge and its expiry were computed at an earlier
\* instant, the date of the deletion after it.
CreateChallenge(r, k, c, at, before) ==
    /\ req[r] = Idle
    /\ drawn[c] = Never
    /\ at <= before
    /\ drawn' = [drawn EXCEPT ![c] = at]
    /\ rows' = {x \in rows : ~(x.expiresAt < before)}
    /\ Suspend(r, [pc |-> "upsert", key |-> k, challenge |-> c, expiresAt |-> at + Lifetime])
    /\ UNCHANGED <<now, users, tokens>>

\* An upsert that inserts beside the row the key already has.
UpsertInserts(r) ==
    LET q == req[r] IN
    /\ At(r, "upsert")
    /\ rows' = rows \cup {[key |-> q.key, challenge |-> q.challenge,
                           expiresAt |-> q.expiresAt, usedAt |-> Unused]}
    /\ Finish(r)
    /\ UNCHANGED <<now, drawn, users, tokens>>

Upsert(r) ==
    LET q == req[r] IN
    /\ At(r, "upsert")
    /\ rows' = {x \in rows : x.key # q.key} \cup
                 {[key |-> q.key, challenge |-> q.challenge,
                   expiresAt |-> q.expiresAt, usedAt |-> Unused]}
    /\ Finish(r)
    /\ UNCHANGED <<now, drawn, users, tokens>>

---------------------------------------------------------------------------------
(* login: read, check and verify, consume, issue *)

\* findUnique; what the check needs of the row is whether it is unused and current,
\* and when it expires.
LoginRead(r, k, c) ==
    /\ req[r] = Idle
    /\ \E x \in rows :
          /\ x.key = k /\ x.challenge = c /\ x.usedAt = Unused
          /\ Suspend(r, [pc |-> "verify", key |-> k, challenge |-> c,
                         expiresAt |-> x.expiresAt])
    /\ UNCHANGED <<now, rows, drawn, users, tokens>>

\* The handler resumes: expiry, then the signature, whose verification takes time.
LoginVerify(r) ==
    /\ At(r, "verify")
    /\ req[r].expiresAt > now
    /\ Suspend(r, [pc |-> "consume", key |-> req[r].key, challenge |-> req[r].challenge,
                   checked |-> now])
    /\ UNCHANGED <<now, rows, drawn, users, tokens>>

\* A match that trusts the earlier read for usedAt.
ConsumableAgain(q, compared) ==
    {x \in rows : x.key = q.key /\ x.challenge = q.challenge /\ x.expiresAt > compared}

\* A match that trusts the earlier check for expiresAt.
ConsumableExpired(q, compared) ==
    {x \in rows : x.key = q.key /\ x.challenge = q.challenge /\ x.usedAt = Unused}

\* The rows the update of request q matches, with the date its condition compares.
Consumable(q, compared) ==
    {x \in rows : /\ x.key = q.key /\ x.challenge = q.challenge
                  /\ x.usedAt = Unused
                  /\ x.expiresAt > compared}

\* updateMany is one conditional write: the winner goes on, and a request whose count
\* is 0 fails.  The date compared was read after the check, the stamp after that date,
\* both before the database gets to the write.
LoginConsume(r) ==
    LET q == req[r] IN
    /\ At(r, "consume")
    /\ \E compared \in q.checked..now : \E stamp \in compared..now :
          LET hit == Consumable(q, compared) IN
          /\ hit # {}
          /\ rows' = (rows \ hit) \cup {[x EXCEPT !.usedAt = stamp] : x \in hit}
          /\ Suspend(r, [pc |-> "issue", key |-> q.key, challenge |-> q.challenge,
                         compared |-> compared])
    /\ UNCHANGED <<now, drawn, users, tokens>>

\* appUser.upsert, then the signed token; the success audit cannot fail the request.
LoginIssue(r) ==
    LET q == req[r] IN
    /\ At(r, "issue")
    /\ users' = users \cup {q.key}
    /\ tokens' = [tokens EXCEPT ![q.challenge] = @ + 1]
    /\ Finish(r)
    /\ UNCHANGED <<now, rows, drawn>>

---------------------------------------------------------------------------------
(* AuthChallengeCron and purgeExpiredChallenges *)

\* A purge that takes any row older than the retention for stale.
PurgeIgnoresUse(at) ==
    LET stale == {x \in rows : x.expiresAt < at \/ x.usedAt < at - Retention} IN
    /\ stale # {}
    /\ rows' = rows \ stale
    /\ UNCHANGED <<now, drawn, req, users, tokens>>

\* One deleteMany, with dates computed from an earlier reading of the clock.
Purge(at) ==
    LET stale == {x \in rows : \/ x.expiresAt < at
                               \/ x.usedAt # Unused /\ x.usedAt < at - Retention}
    IN
    /\ stale # {}
    /\ rows' = rows \ stale
    /\ UNCHANGED <<now, drawn, req, users, tokens>>

---------------------------------------------------------------------------------

Init ==
    /\ now = 1
    /\ rows = {}
    /\ drawn = [c \in Challenges |-> Never]
    /\ req = [r \in Requests |-> Idle]
    /\ users = {}
    /\ tokens = [c \in Challenges |-> 0]

Next ==
    \/ \E r \in Requests, k \in Keys, c \in Challenges :
          \/ \E at, before \in 1..now : CreateChallenge(r, k, c, at, before)
          \/ LoginRead(r, k, c)
    \/ \E r \in Requests :
          \/ Upsert(r)
          \/ LoginVerify(r)
          \/ LoginConsume(r)
          \/ LoginIssue(r)
          \/ RequestFails(r)
    \/ \E at \in 1..now : Purge(at)
    \/ Tick
    \/ Crash

Spec == Init /\ [][Next]_vars

---------------------------------------------------------------------------------
(* Properties *)

\* A challenge is good for one login: however many login requests race on it, are
\* retried after a lost answer, or find the row renewed or purged in between, at most
\* one of them gets a token.
SingleUse == \A c \in Challenges : tokens[c] <= 1

\* A challenge lives as long as the code says, counted from its drawing: a login that
\* consumed it compared, for the update, a date within its lifetime, whatever was stored,
\* replaced, renewed or checked earlier meanwhile.  It is the date the request read; the
\* database may apply the update, and the row may be stamped, later than that.
RedeemedInTime ==
    \A r \in Requests : At(r, "issue") =>
        req[r].compared < drawn[req[r].challenge] + Lifetime

\* A login that is about to be answered holds a challenge nobody can consume any more:
\* no row offers it, and no createChallenge under way will store it.
ConsumedStaysConsumed ==
    \A r \in Requests : At(r, "issue") =>
        /\ \A x \in rows : x.challenge = req[r].challenge => x.usedAt # Unused
        /\ \A s \in Requests : At(s, "upsert") => req[s].challenge # req[r].challenge

\* An unused, unexpired row is still there after the step, used or not, unless the same
\* wallet stores another challenge.
KeepsValid ==
    \A x \in rows :
        x.usedAt = Unused /\ x.expiresAt > now =>
            \/ \E y \in rows' : y.key = x.key /\ y.challenge = x.challenge
            \/ \E r \in Requests : Upsert(r) /\ req[r].key = x.key

\* A client that holds a stored challenge keeps it until it is used, expires, or the
\* same wallet asks for another: neither createChallenge of another wallet nor the
\* purge takes it away.
ValidChallengeKept == [][KeepsValid]_vars

=================================================================================
