------------------------------- MODULE AuthProofs --------------------------------
(***************************************************************************)
(* Proofs about authentication: the challenges, and the guard in front of  *)
(* the routes that create and redeem them.                                 *)
(*                                                                         *)
(* A challenge buys one login, for any number of wallets, challenges and   *)
(* concurrent requests.  The count of tokens is not inductive: what        *)
(* carries it is where a challenge can be.  It is drawn by one request,    *)
(* stored in one row, and once consumed it is neither in an unused row nor *)
(* in a request that will store it.                                        *)
(***************************************************************************)
EXTENDS AuthChallenge, AuthRateLimit, TLAPS

\* A challenge that createChallenge has yet to store is known to that request alone.
PendingFresh ==
    \A r \in Requests : At(r, "upsert") =>
        /\ drawn[req[r].challenge] # Never
        /\ \A x \in rows : x.challenge # req[r].challenge
        /\ \A s \in Requests :
              At(s, "upsert") /\ req[s].challenge = req[r].challenge => s = r

\* A challenge is stored in at most one row, and only after it was drawn.
StoredOnce ==
    /\ \A x \in rows : drawn[x.challenge] # Never
    /\ \A x, y \in rows : x.challenge = y.challenge => x = y

\* Nobody can consume the challenge, now or later.
Spent(c) ==
    /\ drawn[c] # Never
    /\ \A x \in rows : x.challenge = c => x.usedAt # Unused
    /\ \A s \in Requests : At(s, "upsert") => req[s].challenge # c

\* A request that consumed a challenge is alone with it.
IssuersAlone ==
    \A r \in Requests : At(r, "issue") =>
        /\ Spent(req[r].challenge)
        /\ tokens[req[r].challenge] = 0
        /\ \A s \in Requests :
              At(s, "issue") /\ req[s].challenge = req[r].challenge => s = r

\* Every expiry in the table and on its way there is the drawing plus the lifetime.
ExpiryFromDrawing ==
    /\ \A x \in rows : x.expiresAt = drawn[x.challenge] + Lifetime
    /\ \A r \in Requests : At(r, "upsert") =>
          req[r].expiresAt = drawn[req[r].challenge] + Lifetime

TokensSpent == \A c \in Challenges : tokens[c] # 0 => tokens[c] = 1 /\ Spent(c)

IInv ==
    /\ TypeOK
    /\ PendingFresh
    /\ StoredOnce
    /\ IssuersAlone
    /\ TokensSpent
    /\ ExpiryFromDrawing
    /\ RedeemedInTime

\* The strengthened invariant holds of an empty table.
LEMMA InitInv == Init => IInv
BY DEF Init, IInv, TypeOK, Time, PendingFresh, StoredOnce, IssuersAlone, TokensSpent,
       ExpiryFromDrawing, RedeemedInTime, At

\* The type invariant is inductive on its own.
LEMMA TypeStep == TypeOK /\ [Next]_vars => TypeOK'
<1> SUFFICES ASSUME TypeOK, [Next]_vars PROVE TypeOK'
    OBVIOUS
<1> USE DEF TypeOK, Time, Unused, Never, Row, Request, Suspend, Finish, At
<1>1. ASSUME NEW r \in Requests, NEW k \in Keys, NEW c \in Challenges, NEW at \in 1..now,
             NEW before \in 1..now, CreateChallenge(r, k, c, at, before)
      PROVE  TypeOK'
    BY <1>1, LifetimeAssumption DEF CreateChallenge
<1>2. ASSUME NEW r \in Requests, NEW k \in Keys, NEW c \in Challenges, LoginRead(r, k, c)
      PROVE  TypeOK'
    BY <1>2 DEF LoginRead
<1>3. ASSUME NEW r \in Requests, Upsert(r) PROVE TypeOK'
    BY <1>3 DEF Upsert
<1>4. ASSUME NEW r \in Requests, LoginVerify(r) PROVE TypeOK'
    BY <1>4 DEF LoginVerify
<1>5. ASSUME NEW r \in Requests, LoginConsume(r) PROVE TypeOK'
    BY <1>5 DEF LoginConsume, Consumable
<1>6. ASSUME NEW r \in Requests, LoginIssue(r) PROVE TypeOK'
    BY <1>6 DEF LoginIssue
<1>7. ASSUME NEW r \in Requests, RequestFails(r) PROVE TypeOK'
    BY <1>7 DEF RequestFails
<1>8. ASSUME NEW at \in 1..now, Purge(at) PROVE TypeOK'
    BY <1>8 DEF Purge
<1>9. CASE Tick
    BY <1>9 DEF Tick
<1>10. CASE Crash
    BY <1>10 DEF Crash
<1>11. CASE UNCHANGED vars
    BY <1>11 DEF vars
<1> HIDE DEF TypeOK
<1>12. QED
    BY <1>1, <1>2, <1>3, <1>4, <1>5, <1>6, <1>7, <1>8, <1>9, <1>10, <1>11 DEF Next

\* Every step keeps the strengthened invariant.
LEMMA StepInv == IInv /\ [Next]_vars => IInv'
<1> SUFFICES ASSUME IInv, [Next]_vars PROVE IInv'
    OBVIOUS
<1>0. TypeOK /\ TypeOK'
    BY TypeStep DEF IInv
<1> USE <1>0 DEF IInv, TypeOK, Row, Request, Time, At, Suspend, Finish, Idle
<1>1. ASSUME NEW r \in Requests, NEW k \in Keys, NEW c \in Challenges, NEW at \in 1..now,
             NEW before \in 1..now, CreateChallenge(r, k, c, at, before)
      PROVE  IInv'
    <2> DEFINE q == [pc |-> "upsert", key |-> k, challenge |-> c,
                     expiresAt |-> at + Lifetime]
    <2>a. /\ drawn[c] = Never /\ drawn' = [drawn EXCEPT ![c] = at] /\ at # Never
          /\ rows' \subseteq rows
          /\ req' = [req EXCEPT ![r] = q] /\ req[r] = Idle
        BY <1>1 DEF CreateChallenge, Never
    <2>1. PendingFresh'
        <3> SUFFICES ASSUME NEW s \in Requests, At(s, "upsert")'
                     PROVE  /\ (drawn[req[s].challenge] # Never)'
                            /\ \A x \in rows' : x.challenge # req'[s].challenge
                            /\ \A t \in Requests :
                                  At(t, "upsert")' /\ req'[t].challenge = req'[s].challenge
                                      => t = s
            BY DEF PendingFresh
        <3>1. req'[r] = q /\ \A t \in Requests \ {r} : req'[t] = req[t]
            BY <2>a
        <3>2. \A t \in Requests \ {r} : At(t, "upsert")' =>
                  /\ drawn[req'[t].challenge] # Never
                  /\ req'[t].challenge # c /\ req'[t].challenge \in Challenges
            BY <2>a, <3>1 DEF PendingFresh
        <3>3. CASE s = r
            BY <2>a, <3>1, <3>2, <3>3 DEF StoredOnce
        <3>4. CASE s # r
            BY <2>a, <3>1, <3>2, <3>4 DEF PendingFresh
        <3>5. QED
            BY <3>3, <3>4
    <2>2. StoredOnce'
        BY <1>1 DEF CreateChallenge, StoredOnce
    <2>3. IssuersAlone'
        BY <1>1 DEF CreateChallenge, IssuersAlone, Spent
    <2>4. TokensSpent'
        BY <1>1 DEF CreateChallenge, TokensSpent, Spent
    <2>5. ExpiryFromDrawing'
        BY <1>1 DEF CreateChallenge, ExpiryFromDrawing, PendingFresh, StoredOnce
    <2>6. RedeemedInTime'
        BY <1>1 DEF CreateChallenge, RedeemedInTime, ExpiryFromDrawing, IssuersAlone, Spent
    <2>7. QED
        BY <2>1, <2>2, <2>3, <2>4, <2>5, <2>6
<1>2. ASSUME NEW r \in Requests, NEW k \in Keys, NEW c \in Challenges, LoginRead(r, k, c)
      PROVE  IInv'
    BY <1>2 DEF LoginRead, PendingFresh, StoredOnce, IssuersAlone, TokensSpent, Spent,
       ExpiryFromDrawing, RedeemedInTime
<1>3. ASSUME NEW r \in Requests, Upsert(r) PROVE IInv'
    <2>1. PendingFresh'
        BY <1>3 DEF Upsert, PendingFresh
    <2>2. StoredOnce'
        BY <1>3 DEF Upsert, StoredOnce, PendingFresh
    <2>3. IssuersAlone'
        BY <1>3 DEF Upsert, IssuersAlone, Spent, PendingFresh
    <2>4. TokensSpent'
        BY <1>3 DEF Upsert, TokensSpent, Spent, PendingFresh
    <2>5. ExpiryFromDrawing'
        BY <1>3 DEF Upsert, ExpiryFromDrawing, PendingFresh, StoredOnce, Unused
    <2>6. RedeemedInTime'
        BY <1>3 DEF Upsert, RedeemedInTime, ExpiryFromDrawing, IssuersAlone, Spent, Unused
    <2>7. QED
        BY <2>1, <2>2, <2>3, <2>4, <2>5, <2>6
<1>4. ASSUME NEW r \in Requests, LoginVerify(r) PROVE IInv'
    BY <1>4 DEF LoginVerify, PendingFresh, StoredOnce, IssuersAlone, TokensSpent, Spent,
       ExpiryFromDrawing, RedeemedInTime
<1>5. ASSUME NEW r \in Requests, LoginConsume(r) PROVE IInv'
    <2>1. PendingFresh'
        BY <1>5 DEF LoginConsume, PendingFresh, Consumable
    <2>2. StoredOnce'
        BY <1>5 DEF LoginConsume, StoredOnce, Consumable
    <2>3. IssuersAlone'
        BY <1>5 DEF LoginConsume, IssuersAlone, Spent, Consumable, StoredOnce, PendingFresh,
                    TokensSpent, Unused
    <2>4. TokensSpent'
        BY <1>5 DEF LoginConsume, TokensSpent, Spent, Consumable, Unused
    <2>5. ExpiryFromDrawing'
        BY <1>5 DEF LoginConsume, ExpiryFromDrawing, PendingFresh, StoredOnce, Consumable
    <2>6. RedeemedInTime'
        BY <1>5 DEF LoginConsume, RedeemedInTime, ExpiryFromDrawing, IssuersAlone, Spent, Consumable
    <2>7. QED
        BY <2>1, <2>2, <2>3, <2>4, <2>5, <2>6
<1>6. ASSUME NEW r \in Requests, LoginIssue(r) PROVE IInv'
    <2>1. PendingFresh'
        BY <1>6 DEF LoginIssue, PendingFresh
    <2>2. StoredOnce'
        BY <1>6 DEF LoginIssue, StoredOnce
    <2>3. IssuersAlone'
        BY <1>6 DEF LoginIssue, IssuersAlone, Spent
    <2>4. TokensSpent'
        BY <1>6 DEF LoginIssue, TokensSpent, Spent, IssuersAlone
    <2>5. ExpiryFromDrawing'
        BY <1>6 DEF LoginIssue, ExpiryFromDrawing, PendingFresh, StoredOnce
    <2>6. RedeemedInTime'
        BY <1>6 DEF LoginIssue, RedeemedInTime, ExpiryFromDrawing, IssuersAlone, Spent
    <2>7. QED
        BY <2>1, <2>2, <2>3, <2>4, <2>5, <2>6
<1>7. ASSUME NEW r \in Requests, RequestFails(r) PROVE IInv'
    BY <1>7 DEF RequestFails, PendingFresh, StoredOnce, IssuersAlone, TokensSpent, Spent,
       ExpiryFromDrawing, RedeemedInTime
<1>8. ASSUME NEW at \in 1..now, Purge(at) PROVE IInv'
    BY <1>8 DEF Purge, PendingFresh, StoredOnce, IssuersAlone, TokensSpent, Spent,
       ExpiryFromDrawing, RedeemedInTime
<1>9. CASE Tick
    BY <1>9 DEF Tick, PendingFresh, StoredOnce, IssuersAlone, TokensSpent, Spent,
       ExpiryFromDrawing, RedeemedInTime
<1>10. CASE Crash
    BY <1>10 DEF Crash, PendingFresh, StoredOnce, IssuersAlone, TokensSpent, Spent,
       ExpiryFromDrawing, RedeemedInTime
<1>11. CASE UNCHANGED vars
    BY <1>11 DEF vars, PendingFresh, StoredOnce, IssuersAlone, TokensSpent, Spent,
       ExpiryFromDrawing, RedeemedInTime
<1> HIDE DEF IInv
<1>12. QED
    BY <1>1, <1>2, <1>3, <1>4, <1>5, <1>6, <1>7, <1>8, <1>9, <1>10, <1>11 DEF Next

\* The strengthened invariant holds in every reachable state.
THEOREM Invariance == Spec => []IInv
<1>1. QED
    BY InitInv, StepInv, PTL DEF Spec

\* Every variable keeps its type and publicKey stays unique in the table.
THEOREM TypeCorrect == Spec => []TypeOK
<1>1. IInv => TypeOK
    BY DEF IInv
<1>2. QED
    BY <1>1, Invariance, PTL

\* However many logins race on a challenge, at most one of them gets a token: the
\* conditional updateMany of AuthService.login is enough without any lock.
THEOREM OneTokenPerChallenge == Spec => []SingleUse
<1>1. IInv => SingleUse
    BY DEF IInv, TypeOK, TokensSpent, SingleUse
<1>2. QED
    BY <1>1, Invariance, PTL

\* A login consumes a challenge only if the date its update compared is within the
\* challenge's lifetime, counted from the drawing and not from any row or earlier check.
THEOREM NoLateUse == Spec => []RedeemedInTime
<1>1. IInv => RedeemedInTime
    BY DEF IInv
<1>2. QED
    BY <1>1, Invariance, PTL

\* What a login has consumed stays consumed while its answer is prepared.
THEOREM NoReuse == Spec => []ConsumedStaysConsumed
<1>1. IInv => ConsumedStaysConsumed
    BY DEF IInv, IssuersAlone, Spent, ConsumedStaysConsumed
<1>2. QED
    BY <1>1, Invariance, PTL

\* No step of another wallet, and no purge, takes a valid challenge away.
THEOREM ValidKept == Spec => ValidChallengeKept
<1>1. IInv /\ [Next]_vars => [KeepsValid]_vars
    <2> SUFFICES ASSUME IInv, Next PROVE KeepsValid
        BY DEF KeepsValid, vars
    <2> SUFFICES ASSUME NEW x \in rows, x.usedAt = Unused, x.expiresAt > now
                 PROVE  \/ \E y \in rows' : y.key = x.key /\ y.challenge = x.challenge
                        \/ \E r \in Requests : Upsert(r) /\ req[r].key = x.key
        BY DEF KeepsValid
    <2> USE DEF IInv, TypeOK, Row, Time
    <2>1. ASSUME NEW r \in Requests, NEW k \in Keys, NEW c \in Challenges, NEW at \in 1..now,
                 NEW before \in 1..now, CreateChallenge(r, k, c, at, before)
          PROVE  x \in rows'
        BY <2>1 DEF CreateChallenge
    <2>2. ASSUME NEW r \in Requests, NEW k \in Keys, NEW c \in Challenges, LoginRead(r, k, c)
          PROVE  x \in rows'
        BY <2>2 DEF LoginRead
    <2>3. ASSUME NEW r \in Requests, Upsert(r), req[r].key # x.key
          PROVE  x \in rows'
        BY <2>3 DEF Upsert
    <2>4. ASSUME NEW r \in Requests, LoginConsume(r)
          PROVE  \E y \in rows' : y.key = x.key /\ y.challenge = x.challenge
        <3>1. PICK compared \in req[r].checked..now : \E stamp \in compared..now :
                 rows' = (rows \ Consumable(req[r], compared)) \cup
                             {[y EXCEPT !.usedAt = stamp] : y \in Consumable(req[r], compared)}
            BY <2>4 DEF LoginConsume
        <3>2. PICK stamp \in compared..now :
                 rows' = (rows \ Consumable(req[r], compared)) \cup
                             {[y EXCEPT !.usedAt = stamp] : y \in Consumable(req[r], compared)}
            BY <3>1
        <3>3. CASE x \in Consumable(req[r], compared)
            <4>1. [x EXCEPT !.usedAt = stamp] \in rows'
                BY <3>2, <3>3
            <4>2. QED
                BY <4>1
        <3>4. CASE x \notin Consumable(req[r], compared)
            BY <3>2, <3>4
        <3>5. QED
            BY <3>3, <3>4
    <2>5. ASSUME NEW r \in Requests, LoginVerify(r) \/ LoginIssue(r) \/ RequestFails(r)
          PROVE  x \in rows'
        BY <2>5 DEF LoginVerify, LoginIssue, RequestFails
    <2>6. ASSUME NEW at \in 1..now, Purge(at) PROVE x \in rows'
        BY <2>6, RetentionAssumption DEF Purge
    <2>7. CASE Tick \/ Crash
        BY <2>7 DEF Tick, Crash
    <2> HIDE DEF IInv
    <2>8. QED
        BY <2>1, <2>2, <2>3, <2>4, <2>5, <2>6, <2>7 DEF Next
<1>2. QED
    BY <1>1, Invariance, PTL DEF Spec, ValidChallengeKept

---------------------------------------------------------------------------------
(***************************************************************************)
(* The guard of the two routes.  That 2 * MAX_ATTEMPTS bounds any stretch  *)
(* as long as a window is not inductive: it rests on how long before the   *)
(* start of the present window the attempts of earlier ones lie, and a     *)
(* window that was cleaned up must not be missed.                          *)
(***************************************************************************)

\* The attempts of a window w that went through.
Counted(w) == IF w.count < MAX_ATTEMPTS THEN w.count ELSE MAX_ATTEMPTS

\* What went through went through at a time that has come.
AttemptsPast(q, t) == \A i \in DOMAIN q : q[i] <= t

\* Attempts of earlier windows lie before the present one, and all but the MAX_ATTEMPTS last
\* of them a whole window before it.
EarlierWindows(w, q) ==
    \A i \in DOMAIN q :
        /\ i <= Len(q) - Counted(w) => q[i] <= w.windowStart
        /\ i <= Len(q) - Counted(w) - MAX_ATTEMPTS => w.windowStart - q[i] >= WINDOW_MS

\* At most the MAX_ATTEMPTS last attempts are younger than a window.
FewRecent(q, t) ==
    \A i \in DOMAIN q : i <= Len(q) - MAX_ATTEMPTS => t - q[i] >= WINDOW_MS

\* SlidingBound for the attempts of one key.
Sliding(q) ==
    \A i, j \in DOMAIN q : j - i >= 2 * MAX_ATTEMPTS => q[j] - q[i] >= WINDOW_MS

\* What holds of a key with window w and attempts q at time t.
KeyInv(w, q, t) ==
    /\ AttemptsPast(q, t)
    /\ Sliding(q)
    /\ w = NoWindow => FewRecent(q, t)
    /\ w # NoWindow => w.windowStart <= t /\ EarlierWindows(w, q)

GInv == GuardTypeOK /\ \A k \in Callers : KeyInv(windows[k], admitted[k], clock)

\* The assumptions on the constants of the guard.
LEMMA GuardConstants ==
    /\ WINDOW_MS \in Nat \ {0} /\ MAX_ATTEMPTS \in Nat \ {0}
    /\ MaxClock \in Nat /\ MaxCount \in Nat \ {0}
  BY WindowAssumption, AttemptsAssumption, BoundsAssumption

LEMMA SeqFacts ==
    ASSUME NEW S, NEW q \in Seq(S)
    PROVE  Len(q) \in Nat /\ DOMAIN q = 1..Len(q) /\ \A i \in 1..Len(q) : q[i] \in S
  OBVIOUS

\* Times are numbers.
LEMMA TimesFacts ==
    ASSUME NEW q \in Seq(0..MaxClock)
    PROVE  /\ Len(q) \in Nat /\ DOMAIN q = 1..Len(q)
           /\ \A i \in 1..Len(q) : q[i] \in Nat
  <1>1. Len(q) \in Nat /\ DOMAIN q = 1..Len(q) /\ \A i \in 1..Len(q) : q[i] \in 0..MaxClock
    BY SeqFacts
  <1>2. 0..MaxClock \subseteq Nat
    BY GuardConstants
  <1>3. QED
    BY <1>1, <1>2

LEMMA AppendFacts ==
    ASSUME NEW S, NEW q \in Seq(S), NEW t \in S
    PROVE  /\ Append(q, t) \in Seq(S)
           /\ Len(Append(q, t)) = Len(q) + 1
           /\ DOMAIN Append(q, t) = 1..(Len(q) + 1)
           /\ \A i \in 1..Len(q) : Append(q, t)[i] = q[i]
           /\ Append(q, t)[Len(q) + 1] = t
  OBVIOUS

\* Where the attempts lie that are 2 * MAX_ATTEMPTS or more before the one that follows
\* the first n, c of them in its window.
LEMMA FarBefore ==
    ASSUME NEW i \in Nat \ {0}, NEW n \in Nat, NEW c \in Nat, NEW m \in Nat \ {0}
    PROVE  /\ (n + 1) - i >= 2 * m => i \in 1..n /\ i <= n - m
           /\ (n + 1) - i >= 2 * m /\ c + 1 <= m => i <= n - c - m
           /\ i <= (n + 1) - (c + 1) => i \in 1..n /\ i <= n - c
           /\ i <= (n + 1) - (c + 1) - m => i \in 1..n /\ i <= n - c - m
           /\ \A j \in 1..n : j - i >= 2 * m => i \in 1..n
  OBVIOUS

LEMMA WindowFacts ==
    ASSUME NEW w \in Window
    PROVE  /\ w # NoWindow /\ w.windowStart \in Nat /\ w.count \in Nat
           /\ Counted(w) \in 1..MAX_ATTEMPTS
  BY GuardConstants DEF Window, NoWindow, Counted

\* A key whose window has expired, or was cleaned up, may start one.
LEMMA ExpiredFewRecent ==
    ASSUME NEW w \in Window \cup {NoWindow},
           NEW q \in Seq(0..MaxClock), NEW t \in 0..MaxClock, KeyInv(w, q, t),
           w # NoWindow => t - w.windowStart >= WINDOW_MS
    PROVE  FewRecent(q, t)
  <1>1. CASE w = NoWindow
    BY <1>1 DEF KeyInv
  <1>2. CASE w \in Window
    <2>1. Counted(w) \in 1..MAX_ATTEMPTS /\ w # NoWindow /\ w.windowStart \in Nat
      BY <1>2, WindowFacts
    <2>2. SUFFICES ASSUME NEW i \in DOMAIN q, i <= Len(q) - MAX_ATTEMPTS
                   PROVE  t - q[i] >= WINDOW_MS
      BY DEF FewRecent
    <2>3. i \in Nat /\ Len(q) \in Nat /\ q[i] \in Nat
      BY TimesFacts
    <2>4. q[i] <= w.windowStart
      BY <2>1, <2>2, <2>3, GuardConstants DEF KeyInv, EarlierWindows
    <2>5. QED
      BY <2>1, <2>3, <2>4, GuardConstants
  <1>3. QED
    BY <1>1, <1>2

LEMMA StartKeeps ==
    ASSUME NEW q \in Seq(0..MaxClock), NEW t \in 0..MaxClock,
           AttemptsPast(q, t), Sliding(q), FewRecent(q, t)
    PROVE  KeyInv([count |-> 1, windowStart |-> t], Append(q, t), t)
  <1> DEFINE w == [count |-> 1, windowStart |-> t]
             r == Append(q, t)
  <1>1. w.count = 1 /\ w.windowStart = t /\ w # NoWindow
    BY DEF NoWindow
  <1>2. Counted(w) = 1
    BY <1>1, GuardConstants DEF Counted
  <1>3. /\ Len(q) \in Nat /\ Len(r) = Len(q) + 1 /\ DOMAIN q = 1..Len(q)
        /\ DOMAIN r = 1..(Len(q) + 1) /\ \A i \in 1..Len(q) : r[i] = q[i]
        /\ r[Len(q) + 1] = t /\ t \in Nat /\ \A i \in 1..Len(q) : q[i] \in Nat
    <2>1. t \in Nat
      BY GuardConstants
    <2>2. QED
      BY <2>1, AppendFacts, TimesFacts
  <1> HIDE DEF w, r
  <1>4. AttemptsPast(r, t)
    BY <1>3 DEF AttemptsPast
  <1>5. Sliding(r)
    <2>1. SUFFICES ASSUME NEW i \in DOMAIN r, NEW j \in DOMAIN r, j - i >= 2 * MAX_ATTEMPTS
                   PROVE  r[j] - r[i] >= WINDOW_MS
      BY DEF Sliding
    <2>2. i \in Nat \ {0} /\ MAX_ATTEMPTS \in Nat \ {0}
      BY <1>3, GuardConstants
    <2>3. CASE j \in 1..Len(q)
      <3>1. i \in 1..Len(q)
        BY <1>3, <2>1, <2>2, <2>3, FarBefore
      <3>2. QED
        BY <1>3, <2>1, <2>3, <3>1 DEF Sliding
    <2>4. CASE j = Len(q) + 1
      <3>1. i \in 1..Len(q) /\ i <= Len(q) - MAX_ATTEMPTS
        BY <1>3, <2>1, <2>2, <2>4, FarBefore
      <3>2. QED
        BY <1>3, <2>4, <3>1 DEF FewRecent
    <2>5. QED
      BY <1>3, <2>3, <2>4
  <1>6. EarlierWindows(w, r)
    BY <1>1, <1>2, <1>3, GuardConstants DEF EarlierWindows, AttemptsPast, FewRecent
  <1>7. KeyInv(w, r, t)
    BY <1>1, <1>3, <1>4, <1>5, <1>6 DEF KeyInv
  <1>8. QED
    BY <1>7 DEF w, r

\* An attempt in a window that is not full goes through.
LEMMA CountKeeps ==
    ASSUME NEW w \in Window, NEW v \in Window,
           NEW q \in Seq(0..MaxClock), NEW t \in 0..MaxClock, KeyInv(w, q, t),
           v.count = w.count + 1, v.windowStart = w.windowStart, v.count <= MAX_ATTEMPTS
    PROVE  KeyInv(v, Append(q, t), t)
  <1> DEFINE r == Append(q, t)
  <1>1. /\ w # NoWindow /\ v # NoWindow /\ w.windowStart \in Nat
        /\ w.count \in Nat /\ Counted(w) = w.count /\ Counted(v) = w.count + 1
    BY WindowFacts, GuardConstants DEF Counted
  <1>2. /\ Len(q) \in Nat /\ Len(r) = Len(q) + 1 /\ DOMAIN q = 1..Len(q)
        /\ DOMAIN r = 1..(Len(q) + 1) /\ \A i \in 1..Len(q) : r[i] = q[i]
        /\ r[Len(q) + 1] = t /\ t \in Nat /\ \A i \in 1..Len(q) : q[i] \in Nat
    <2>1. t \in Nat
      BY GuardConstants
    <2>2. QED
      BY <2>1, AppendFacts, TimesFacts
  <1> HIDE DEF r
  <1>3. AttemptsPast(r, t)
    BY <1>2 DEF AttemptsPast, KeyInv
  <1>4. Sliding(r)
    <2>1. SUFFICES ASSUME NEW i \in DOMAIN r, NEW j \in DOMAIN r, j - i >= 2 * MAX_ATTEMPTS
                   PROVE  r[j] - r[i] >= WINDOW_MS
      BY DEF Sliding
    <2>2. i \in Nat \ {0} /\ MAX_ATTEMPTS \in Nat \ {0} /\ WINDOW_MS \in Nat
      BY <1>2, GuardConstants
    <2>3. CASE j \in 1..Len(q)
      <3>1. i \in 1..Len(q)
        BY <1>2, <2>1, <2>2, <2>3, FarBefore
      <3>2. QED
        BY <1>2, <2>1, <2>3, <3>1 DEF Sliding, KeyInv
    <2>4. CASE j = Len(q) + 1
      <3>1. i \in 1..Len(q) /\ i <= Len(q) - Counted(w) - MAX_ATTEMPTS
        BY <1>1, <1>2, <2>1, <2>2, <2>4, FarBefore
      <3>2. w.windowStart - q[i] >= WINDOW_MS /\ w.windowStart <= t
        BY <1>1, <1>2, <3>1 DEF KeyInv, EarlierWindows
      <3>3. r[i] = q[i] /\ q[i] \in Nat /\ r[j] = t
        BY <1>2, <2>4, <3>1
      <3>4. QED
        BY <1>1, <1>2, <2>2, <3>2, <3>3
    <2>5. QED
      BY <1>2, <2>3, <2>4
  <1>5. EarlierWindows(v, r)
    <2>1. SUFFICES ASSUME NEW i \in DOMAIN r
                   PROVE  /\ i <= Len(r) - Counted(v) => r[i] <= v.windowStart
                          /\ i <= Len(r) - Counted(v) - MAX_ATTEMPTS =>
                                v.windowStart - r[i] >= WINDOW_MS
      BY DEF EarlierWindows
    <2>2. i \in Nat \ {0} /\ MAX_ATTEMPTS \in Nat \ {0}
      BY <1>2, GuardConstants
    <2>3. i <= Len(r) - Counted(v) => i \in 1..Len(q) /\ i <= Len(q) - Counted(w)
      BY <1>1, <1>2, <2>2, FarBefore
    <2>4. i <= Len(r) - Counted(v) - MAX_ATTEMPTS =>
              i \in 1..Len(q) /\ i <= Len(q) - Counted(w) - MAX_ATTEMPTS
      BY <1>1, <1>2, <2>2, FarBefore
    <2>5. QED
      BY <1>1, <1>2, <2>3, <2>4 DEF KeyInv, EarlierWindows
  <1>6. KeyInv(v, r, t)
    BY <1>1, <1>3, <1>4, <1>5 DEF KeyInv
  <1>7. QED
    BY <1>6 DEF r

\* An attempt in a full window is counted and rejected.
LEMMA RejectKeeps ==
    ASSUME NEW w \in Window, NEW v \in Window,
           NEW q, NEW t, KeyInv(w, q, t),
           v.count = w.count + 1, v.windowStart = w.windowStart, v.count > MAX_ATTEMPTS
    PROVE  KeyInv(v, q, t)
  <1>1. w # NoWindow /\ v # NoWindow /\ Counted(v) = Counted(w)
    BY WindowFacts, GuardConstants DEF Counted
  <1>2. QED
    BY <1>1 DEF KeyInv, EarlierWindows

LEMMA TickKeeps ==
    ASSUME NEW w \in Window \cup {NoWindow},
           NEW q \in Seq(0..MaxClock), NEW t \in 0..MaxClock, KeyInv(w, q, t)
    PROVE  KeyInv(w, q, t + 1)
  <1>1. (\A i \in DOMAIN q : q[i] \in Nat) /\ t \in Nat
    BY TimesFacts, GuardConstants
  <1>2. w # NoWindow => w.windowStart \in Nat
    BY WindowFacts
  <1>3. AttemptsPast(q, t + 1)
    BY <1>1 DEF KeyInv, AttemptsPast
  <1>4. FewRecent(q, t) => FewRecent(q, t + 1)
    BY <1>1, GuardConstants DEF FewRecent
  <1>5. QED
    BY <1>2, <1>3, <1>4 DEF KeyInv

LEMMA GuardStepInv == GInv /\ [GuardNext]_guardVars => GInv'
  <1> SUFFICES ASSUME GInv, [GuardNext]_guardVars PROVE GInv'
    OBVIOUS
  <1>1. /\ clock \in 0..MaxClock
        /\ windows \in [Callers -> Window \cup {NoWindow}]
        /\ admitted \in [Callers -> Seq(0..MaxClock)]
        /\ \A k \in Callers : KeyInv(windows[k], admitted[k], clock)
    BY DEF GInv, GuardTypeOK
  <1>2. ASSUME NEW k \in Callers, StartWindow(k) PROVE GInv'
    <2> DEFINE w == [count |-> 1, windowStart |-> clock]
    <2>1. /\ windows'[k] = w
          /\ \A x \in Callers \ {k} :
                windows'[x] = IF Expired(x) THEN NoWindow ELSE windows[x]
          /\ windows' \in [Callers -> Window \cup {NoWindow}]
      <3>1. w \in Window
        BY <1>1, GuardConstants DEF Window
      <3>2. QED
        BY <1>1, <1>2, <3>1 DEF StartWindow, PruneExpired
    <2>2. /\ admitted'[k] = Append(admitted[k], clock)
          /\ \A x \in Callers \ {k} : admitted'[x] = admitted[x]
          /\ admitted' \in [Callers -> Seq(0..MaxClock)]
          /\ clock' = clock
      BY <1>1, <1>2, AppendFacts DEF StartWindow, Admit
    <2>3. KeyInv(windows'[k], admitted'[k], clock')
      <3>1. FewRecent(admitted[k], clock)
        BY <1>1, <1>2, ExpiredFewRecent DEF StartWindow, Expired
      <3>2. QED
        BY <1>1, <2>1, <2>2, <3>1, StartKeeps DEF KeyInv
    <2>4. ASSUME NEW x \in Callers \ {k} PROVE KeyInv(windows'[x], admitted'[x], clock')
      <3>1. CASE Expired(x)
        <4>1. FewRecent(admitted[x], clock)
          BY <1>1, <3>1, ExpiredFewRecent DEF Expired
        <4>2. QED
          BY <1>1, <2>1, <2>2, <3>1, <4>1 DEF KeyInv
      <3>2. CASE ~Expired(x)
        BY <1>1, <2>1, <2>2, <3>2
      <3>3. QED
        BY <3>1, <3>2
    <2>5. QED
      BY <1>1, <2>1, <2>2, <2>3, <2>4 DEF GInv, GuardTypeOK
  <1>3. ASSUME NEW k \in Callers, CountAttempt(k) PROVE GInv'
    <2> DEFINE v == [windows[k] EXCEPT !.count = @ + 1]
    <2>1. windows[k] \in Window /\ windows[k].count < MaxCount /\ clock' = clock
      BY <1>1, <1>3 DEF CountAttempt
    <2>2. /\ v \in Window /\ v.count = windows[k].count + 1
          /\ v.windowStart = windows[k].windowStart
      BY <2>1, GuardConstants DEF Window
    <2>3. windows' = [windows EXCEPT ![k] = v]
      BY <1>3 DEF CountAttempt
    <2> HIDE DEF v
    <2>4. /\ windows'[k] = v /\ \A x \in Callers \ {k} : windows'[x] = windows[x]
          /\ windows' \in [Callers -> Window \cup {NoWindow}]
      BY <1>1, <2>2, <2>3
    <2>5. CASE v.count > MAX_ATTEMPTS
      <3>1. admitted' = admitted
        BY <1>3, <2>2, <2>5 DEF CountAttempt
      <3>2. KeyInv(v, admitted[k], clock)
        BY <1>1, <2>1, <2>2, <2>5, RejectKeeps
      <3>3. QED
        BY <1>1, <2>1, <2>4, <3>1, <3>2 DEF GInv, GuardTypeOK
    <2>6. CASE ~(v.count > MAX_ATTEMPTS)
      <3>1. admitted' = [admitted EXCEPT ![k] = Append(admitted[k], clock)]
        BY <1>3, <2>2, <2>6 DEF CountAttempt, Admit
      <3>2. /\ admitted'[k] = Append(admitted[k], clock)
            /\ \A x \in Callers \ {k} : admitted'[x] = admitted[x]
            /\ admitted' \in [Callers -> Seq(0..MaxClock)]
        BY <1>1, <3>1, AppendFacts
      <3>3. v.count <= MAX_ATTEMPTS
        BY <2>2, <2>6, WindowFacts, GuardConstants
      <3>4. KeyInv(v, Append(admitted[k], clock), clock)
        BY <1>1, <2>1, <2>2, <3>3, CountKeeps
      <3>5. QED
        BY <1>1, <2>1, <2>4, <3>2, <3>4 DEF GInv, GuardTypeOK
    <2>7. QED
      BY <2>5, <2>6
  <1>4. CASE ClockTick
    <2>1. clock' = clock + 1 /\ clock' \in 0..MaxClock /\ UNCHANGED <<windows, admitted>>
      BY <1>1, <1>4, GuardConstants DEF ClockTick
    <2>2. QED
      BY <1>1, <2>1, TickKeeps DEF GInv, GuardTypeOK
  <1>5. CASE Restart
    <2>1. /\ \A k \in Callers : windows'[k] = NoWindow /\ admitted'[k] = << >>
          /\ windows' \in [Callers -> Window \cup {NoWindow}]
          /\ admitted' \in [Callers -> Seq(0..MaxClock)] /\ clock' = clock
      BY <1>5 DEF Restart
    <2>2. \A t : KeyInv(NoWindow, << >>, t)
      BY DEF KeyInv, AttemptsPast, Sliding, FewRecent
    <2>3. QED
      BY <1>1, <2>1, <2>2 DEF GInv, GuardTypeOK
  <1>6. CASE UNCHANGED guardVars
    BY <1>1, <1>6 DEF GInv, GuardTypeOK, guardVars
  <1>7. QED
    BY <1>2, <1>3, <1>4, <1>5, <1>6 DEF GuardNext

LEMMA GuardInitInv == GuardInit => GInv
  <1>1. \A t : KeyInv(NoWindow, << >>, t)
    BY DEF KeyInv, AttemptsPast, Sliding, FewRecent
  <1>2. QED
    BY <1>1, GuardConstants DEF GuardInit, GInv, GuardTypeOK

\* The strengthened invariant of the guard holds in every reachable state.
THEOREM GuardInvariance == GuardSpec => []GInv
  <1>1. QED
    BY GuardInitInv, GuardStepInv, PTL DEF GuardSpec

\* Counts, starts of windows and histories of the guard keep their types: a window that
\* canActivate stored always counts the attempt that started it.
THEOREM GuardTypeCorrect == GuardSpec => []GuardTypeOK
  <1>1. GInv => GuardTypeOK
    BY DEF GInv
  <1>2. QED
    BY <1>1, GuardInvariance, PTL

\* canActivate lets at most 2 * MAX_ATTEMPTS attempts of one key through in any stretch of
\* time as long as a window, for any number of keys, any window and any limit, although it
\* counts in fixed windows and pruneExpired removes those of other keys.
THEOREM GuardBound == GuardSpec => []SlidingBound
  <1>1. GInv => SlidingBound
    BY DEF GInv, KeyInv, Sliding, SlidingBound
  <1>2. QED
    BY <1>1, GuardInvariance, PTL

=================================================================================
