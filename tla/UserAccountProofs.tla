----------------------------- MODULE UserAccountProofs -----------------------------
(***************************************************************************)
(* Accounts: TypeOK, with the uniqueness of keys and aliases, and          *)
(* MethodsMatch for any number of users, providers, identifiers and        *)
(* requests in flight.  MethodsMatch needs to know of the requests that    *)
(* are about to write a payment method: the pair they hold has been        *)
(* validated.                                                              *)
(*                                                                         *)
(* The payment-method validator: what its rules accept, for every          *)
(* identifier.  The loops of the code are recursive functions; induction   *)
(* over one is about the set of the steps after which a fact holds (UpTo). *)
(* Last, both together: what the accounts store has passed the rules.      *)
(***************************************************************************)
EXTENDS UserAccount, PaymentMethodValidator, FiniteSetTheorems, WellFoundedInduction, TLAPS

\* A request past its validation holds an identifier that is valid for the provider, and
\* a request about to write a profile is about an account that exists.
PendingSound ==
    \A r \in Requests :
        /\ At(r, "add") \/ At(r, "rewrite") => Validated(r)
        /\ At(r, "alias") \/ At(r, "profile") => Exists(req[r].user)

IInv == TypeOK /\ MethodsMatch /\ PendingSound

\* No step removes an account.
AccountsStay == \A u \in Users : Exists(u) => Exists(u)'

\* The parts of TypeOK, for steps that disturb one of them.
UsersTyped == users \in [Users -> User \cup {Absent}]
MethodsTyped == methods \in [Methods -> Method \cup {Absent, Removed}]
RequestsTyped == req \in [Requests -> Request \cup {Idle}]
RestTyped ==
    /\ kept \in SUBSET (Users \X Kinds)
    /\ audit \in SUBSET [key: Keys, user: Users \cup {None}, address: Addresses]
    /\ waitlist \in SUBSET Emails
Unique ==
    \A u, v \in Users : Exists(u) /\ Exists(v) /\ u # v =>
        users[u].key # users[v].key /\ AliasFree(u, users[u].alias)

\* The invariant without the history of users who came back.
Core ==
    /\ UsersTyped /\ MethodsTyped /\ RequestsTyped /\ RestTyped /\ Unique
    /\ MethodsMatch /\ PendingSound

\* The invariant is the conjunction of its parts.
LEMMA Parts == IInv <=> Core /\ back \in SUBSET Users
  BY DEF IInv, Core, TypeOK, UsersTyped, MethodsTyped, RequestsTyped, RestTyped, Unique

\* Rows are not mistaken for their absence.
LEMMA UsersExist == \A x \in User : x # Absent
  <1>1. \A x \in User : DOMAIN x = {"key", "alias", "email", "deleted"}
    BY DEF User
  <1>2. DOMAIN Absent = {"row"}
    BY DEF Absent
  <1>3. QED
    BY <1>1, <1>2

\* The same for payment methods, present or removed.
LEMMA MethodsExist == \A x \in Method : x # Absent /\ x # Removed
  <1>1. \A x \in Method : DOMAIN x = {"user", "provider", "identifier"}
    BY DEF Method
  <1>2. DOMAIN Absent = {"row"} /\ DOMAIN Removed = {"row"}
    BY DEF Absent, Removed
  <1>3. QED
    BY <1>1, <1>2

------------------------------------------------------------------------------------
(* Requests that move on without touching rows *)

\* A step of one request keeps the invariant when its new state is typed and, if it is
\* about to write a payment method, valid.
LEMMA RequestFrame ==
    ASSUME IInv, NEW r \in Requests, NEW x \in Request \cup {Idle},
           req' = [req EXCEPT ![r] = x],
           x # Idle /\ x.pc \in {"add", "rewrite"} => x.identifier \in Accepted[x.provider],
           x # Idle /\ x.pc \in {"alias", "profile"} => Exists(x.user),
           AccountsStay
    PROVE  RequestsTyped' /\ PendingSound'
  <1>1. RequestsTyped'
    BY DEF IInv, TypeOK, RequestsTyped
  <1>2. req'[r] = x /\ \A q \in Requests \ {r} : req'[q] = req[q]
    BY DEF IInv, TypeOK
  <1>3. \A y \in Request : y.pc \in {"alias", "profile"} => y.user \in Users
    BY DEF Request
  <1>4. ASSUME NEW q \in Requests, At(q, "add")' \/ At(q, "rewrite")' PROVE Validated(q)'
    BY <1>2, <1>4 DEF IInv, PendingSound, At, Validated
  <1>5. ASSUME NEW q \in Requests, At(q, "alias")' \/ At(q, "profile")' PROVE Exists(req[q].user)'
    <2>1. req'[q].user \in Users /\ Exists(req'[q].user)
      BY <1>1, <1>2, <1>3, <1>5 DEF RequestsTyped, IInv, PendingSound, At
    <2>2. QED
      BY <2>1 DEF AccountsStay, Exists
  <1>6. QED
    BY <1>1, <1>4, <1>5 DEF PendingSound

\* Steps that leave every row alone.
LEMMA RowsFrame ==
    ASSUME IInv, UNCHANGED <<users, methods, kept, audit, waitlist>>,
           RequestsTyped', PendingSound'
    PROVE  Core'
  <1>1. UsersTyped' /\ MethodsTyped' /\ RestTyped' /\ Unique' /\ MethodsMatch'
    BY Parts DEF Core, UsersTyped, MethodsTyped, RestTyped, Unique, MethodsMatch, Exists,
                 AliasFree, Stored
  <1>2. QED
    BY <1>1 DEF Core

\* A sign-up finds no account with its key.
LEMMA FindKeyStep ==
    ASSUME IInv, NEW r \in Requests, NEW k \in Keys, NEW a \in Aliases \cup {None},
           FindKey(r, k, a)
    PROVE  Core'
  <1> DEFINE x == [pc |-> "insert", key |-> k, alias |-> a]
  <1>1. UNCHANGED <<users, methods, kept, audit, waitlist>> /\ AccountsStay
    BY DEF FindKey, AccountsStay, Exists
  <1>2. x \in Request /\ x.pc = "insert" /\ req' = [req EXCEPT ![r] = x]
    BY DEF FindKey, Suspend, Request
  <1>3. QED
    BY <1>1, <1>2, RequestFrame, RowsFrame

\* A profile update reads the account.
LEMMA UpdateReadStep ==
    ASSUME IInv, NEW r \in Requests, NEW u \in Users, NEW a \in Aliases \cup {None},
           NEW e \in Emails \cup {None}, UpdateRead(r, u, a, e)
    PROVE  Core'
  <1>1. UNCHANGED <<users, methods, kept, audit, waitlist>> /\ AccountsStay
    BY DEF UpdateRead, AccountsStay, Exists
  <1>2. PICK pc \in {"alias", "profile"} :
            req' = [req EXCEPT ![r] = [pc |-> pc, user |-> u, alias |-> a, email |-> e]]
    BY DEF UpdateRead, Suspend
  <1> DEFINE x == [pc |-> pc, user |-> u, alias |-> a, email |-> e]
  <1>3. x \in Request /\ x.pc \notin {"add", "rewrite"} /\ Exists(x.user)
    BY DEF Request, UpdateRead, Starts
  <1>4. QED
    BY <1>1, <1>2, <1>3, RequestFrame, RowsFrame

\* An upload finds the account, a message passes its access check.
LEMMA KeepReadStep ==
    ASSUME IInv, NEW r \in Requests, NEW u \in Users, NEW kind \in Kinds,
           KeepRead(r, u, kind)
    PROVE  Core'
  <1> DEFINE x == [pc |-> "keep", user |-> u, kind |-> kind]
  <1>1. UNCHANGED <<users, methods, kept, audit, waitlist>> /\ AccountsStay
    BY DEF KeepRead, AccountsStay, Exists
  <1>2. x \in Request /\ x.pc = "keep" /\ req' = [req EXCEPT ![r] = x]
    BY DEF KeepRead, Suspend, Request
  <1>3. QED
    BY <1>1, <1>2, RequestFrame, RowsFrame

\* The creation of a payment method starts.
LEMMA CreateMethodStep ==
    ASSUME IInv, NEW r \in Requests, NEW u \in Users, NEW p \in Providers, NEW i \in Identifiers,
           CreateMethod(r, u, p, i)
    PROVE  Core'
  <1> DEFINE x == [pc |-> "provider", user |-> u, provider |-> p, identifier |-> i]
  <1>1. UNCHANGED <<users, methods, kept, audit, waitlist>> /\ AccountsStay
    BY DEF CreateMethod, AccountsStay, Exists
  <1>2. x \in Request /\ x.pc = "provider" /\ req' = [req EXCEPT ![r] = x]
    BY DEF CreateMethod, Suspend, Request
  <1>3. QED
    BY <1>1, <1>2, RequestFrame, RowsFrame

\* A request is rejected or fails.
LEMMA FailStep ==
    ASSUME IInv, NEW r \in Requests, RequestFails(r)
    PROVE  Core'
  BY RequestFrame, RowsFrame DEF RequestFails, Finish, AccountsStay, Exists

\* Requests that pass a check: the next state differs in pc only, and the two checks of
\* payment methods establish what PendingSound says.
LEMMA CheckStep ==
    ASSUME IInv, NEW r \in Requests,
           UpdateCheckAlias(r) \/ CheckProvider(r) \/ UpdateMethodCheck(r)
    PROVE  Core'
  <1>1. UNCHANGED <<users, methods, kept, audit, waitlist>> /\ AccountsStay
    BY DEF UpdateCheckAlias, CheckProvider, UpdateMethodCheck, AccountsStay, Exists
  <1>2. CASE UpdateCheckAlias(r)
    <2> DEFINE x == [req[r] EXCEPT !.pc = "profile"]
    <2>1. req' = [req EXCEPT ![r] = x]
      BY <1>2 DEF UpdateCheckAlias, Proceed, IInv, TypeOK
    <2>2. req[r] \in [pc: {"alias", "profile"}, user: Users, alias: Aliases \cup {None},
                      email: Emails \cup {None}]
      BY <1>2 DEF UpdateCheckAlias, At, IInv, TypeOK, Request
    <2>3. x \in Request /\ x.pc = "profile" /\ Exists(x.user)
      BY <1>2, <2>2 DEF Request, UpdateCheckAlias, IInv, PendingSound
    <2>4. QED
      BY <1>1, <2>1, <2>3, RequestFrame, RowsFrame
  <1>3. CASE CheckProvider(r)
    <2> DEFINE x == [req[r] EXCEPT !.pc = "add"]
    <2>1. req' = [req EXCEPT ![r] = x]
      BY <1>3 DEF CheckProvider, Proceed, IInv, TypeOK
    <2>2. req[r] \in [pc: {"provider", "add"}, user: Users, provider: Providers,
                      identifier: Identifiers]
      BY <1>3 DEF CheckProvider, At, IInv, TypeOK, Request
    <2>3. x \in Request /\ x.pc = "add" /\ x.identifier \in Accepted[x.provider]
      BY <1>3, <2>2 DEF Request, CheckProvider, Validated
    <2>4. QED
      BY <1>1, <2>1, <2>3, RequestFrame, RowsFrame
  <1>4. CASE UpdateMethodCheck(r)
    <2> DEFINE x == [req[r] EXCEPT !.pc = "rewrite"]
    <2>1. req' = [req EXCEPT ![r] = x]
      BY <1>4 DEF UpdateMethodCheck, Proceed, IInv, TypeOK
    <2>2. req[r] \in [pc: {"merge", "rewrite"}, method: Methods, provider: Providers,
                      identifier: Identifiers]
      BY <1>4 DEF UpdateMethodCheck, At, IInv, TypeOK, Request
    <2>3. x \in Request /\ x.pc = "rewrite" /\ x.identifier \in Accepted[x.provider]
      BY <1>4, <2>2 DEF Request, UpdateMethodCheck, Validated
    <2>4. QED
      BY <1>1, <2>1, <2>3, RequestFrame, RowsFrame
  <1>5. QED
    BY <1>2, <1>3, <1>4

\* A partial update merges the dto with the row it has read.
LEMMA MergeStep ==
    ASSUME IInv, NEW r \in Requests, NEW m \in Methods, NEW p \in Providers \cup {None},
           NEW i \in Identifiers \cup {None}, UpdateMethodRead(r, m, p, i)
    PROVE  Core'
  <1> DEFINE p2 == IF p = None THEN methods[m].provider ELSE p
             i2 == IF i = None THEN methods[m].identifier ELSE i
             x == [pc |-> "merge", method |-> m, provider |-> p2, identifier |-> i2]
  <1>1. methods[m] \in Method
    BY DEF UpdateMethodRead, Stored, IInv, TypeOK
  <1>2. p2 \in Providers /\ i2 \in Identifiers
    BY <1>1 DEF Method
  <1>3. /\ req' = [req EXCEPT ![r] = x]
        /\ UNCHANGED <<users, methods, kept, audit, waitlist>> /\ AccountsStay
    BY DEF UpdateMethodRead, Suspend, AccountsStay, Exists
  <1>4. x \in Request /\ x.pc = "merge"
    BY <1>2 DEF Request
  <1> HIDE DEF x
  <1>5. QED
    BY <1>3, <1>4, RequestFrame, RowsFrame

------------------------------------------------------------------------------------
(* Steps that write rows *)

\* A write of one app_user row keeps keys and aliases unique when its own are free.
LEMMA UserWrite ==
    ASSUME IInv, NEW u \in Users, NEW x \in User, users' = [users EXCEPT ![u] = x],
           \A v \in Users \ {u} : Exists(v) => users[v].key # x.key,
           AliasFree(u, x.alias)
    PROVE  UsersTyped' /\ Unique' /\ AccountsStay
  <1>1. UsersTyped'
    BY DEF IInv, TypeOK, UsersTyped
  <1>2. users'[u] = x /\ \A v \in Users \ {u} : users'[v] = users[v]
    BY DEF IInv, TypeOK
  <1>3. x # Absent
    BY UsersExist
  <1>4. \A v \in Users : users[v] # Absent => users[v] \in User
    BY DEF IInv, TypeOK
  <1>5. ASSUME NEW v \in Users, NEW w \in Users, Exists(v)', Exists(w)', v # w
        PROVE  /\ users'[v].key # users'[w].key
               /\ users'[v].alias = None \/ users'[w].alias # users'[v].alias
    <2>1. CASE v = u
      BY <1>2, <1>5, <2>1 DEF Exists, AliasFree
    <2>2. CASE w = u
      BY <1>2, <1>5, <2>2 DEF Exists, AliasFree
    <2>3. CASE v # u /\ w # u
      BY <1>2, <1>5, <2>3 DEF IInv, TypeOK, Exists, AliasFree
    <2>4. QED
      BY <2>1, <2>2, <2>3
  <1>6. Unique'
    BY <1>5 DEF Unique, Exists, AliasFree
  <1>7. AccountsStay
    BY <1>2, <1>3 DEF AccountsStay, Exists
  <1>8. QED
    BY <1>1, <1>6, <1>7

\* The invariant from its parts, when payment methods stay as they are.
LEMMA MethodsFrame ==
    ASSUME IInv, UNCHANGED methods, UsersTyped', RequestsTyped', RestTyped', Unique', PendingSound'
    PROVE  Core'
  BY Parts DEF Core, MethodsTyped, MethodsMatch, Stored

\* An account is inserted by a request that found none, or by a login.
LEMMA InsertStep ==
    ASSUME IInv, NEW r \in Requests, NEW u \in Users, InsertUser(r, u)
    PROVE  Core'
  <1> DEFINE x == NewUser(req[r].key, req[r].alias)
  <1>1. req[r] \in [pc: {"insert"}, key: Keys, alias: Aliases \cup {None}]
    BY DEF InsertUser, At, IInv, TypeOK, Request
  <1>2. x \in User /\ x.key = req[r].key /\ x.alias = req[r].alias
    BY <1>1 DEF NewUser, User
  <1>3. UsersTyped' /\ Unique' /\ AccountsStay
    BY <1>2, UserWrite DEF InsertUser, KeyFree
  <1>4. RequestsTyped' /\ PendingSound'
    BY <1>3, RequestFrame DEF InsertUser, Finish
  <1>5. RestTyped'
    BY DEF InsertUser, IInv, TypeOK, RestTyped
  <1>6. QED
    BY <1>3, <1>4, <1>5, MethodsFrame DEF InsertUser

\* A login finds or makes the account and leaves an audit row.
LEMMA LogInStep ==
    ASSUME IInv, NEW u \in Users, NEW k \in Keys, NEW ip \in Addresses \cup {None},
           LogIn(u, k, ip)
    PROVE  Core'
  <1>1. RestTyped'
    BY DEF LogIn, IInv, TypeOK, RestTyped
  <1>2. RequestsTyped' /\ (AccountsStay => PendingSound')
    BY DEF LogIn, IInv, TypeOK, RequestsTyped, PendingSound, At, Validated, AccountsStay, Request
  <1>3. CASE users' = users
    <2>1. UsersTyped' /\ Unique' /\ AccountsStay
      BY <1>3 DEF IInv, TypeOK, UsersTyped, Unique, Exists, AliasFree, AccountsStay
    <2>2. QED
      BY <1>1, <1>2, <2>1, MethodsFrame DEF LogIn
  <1>4. CASE KeyFree(k) /\ users' = [users EXCEPT ![u] = NewUser(k, None)]
    <2> DEFINE x == NewUser(k, None)
    <2>1. x \in User /\ x.key = k /\ x.alias = None
      BY DEF NewUser, User
    <2>2. UsersTyped' /\ Unique' /\ AccountsStay
      BY <1>4, <2>1, UserWrite, ZenonT(60) DEF KeyFree, AliasFree
    <2>3. QED
      BY <1>1, <1>2, <2>2, MethodsFrame DEF LogIn
  <1>5. QED
    BY <1>3, <1>4 DEF LogIn

\* What is given replaces what is stored, in set-up and update alike.
LEMMA ProfileWrite ==
    ASSUME IInv, NEW u \in Users, Exists(u), NEW a \in Aliases \cup {None},
           NEW e \in Emails \cup {None}, SetProfile(u, a, e)
    PROVE  UsersTyped' /\ Unique' /\ AccountsStay
  <1> DEFINE x == [users[u] EXCEPT !.alias = IF a = None THEN @ ELSE a,
                                   !.email = IF e = None THEN @ ELSE e]
  <1>1. users[u] \in User
    BY DEF Exists, IInv, TypeOK
  <1>2. x \in User /\ x.key = users[u].key
          /\ x.alias = IF a = None THEN users[u].alias ELSE a
    BY <1>1 DEF User
  <1>3. users' = [users EXCEPT ![u] = x]
    BY <1>1 DEF SetProfile, IInv, TypeOK, User
  <1>4. \A v \in Users \ {u} : Exists(v) => users[v].key # x.key
    BY <1>2 DEF IInv, TypeOK
  <1>5. AliasFree(u, users[u].alias)
    BY DEF IInv, TypeOK, AliasFree
  <1>6. AliasFree(u, x.alias)
    BY <1>2, <1>5 DEF SetProfile, AliasFree
  <1> HIDE DEF x
  <1>7. QED
    BY <1>2, <1>3, <1>4, <1>6, UserWrite

\* Set-up writes the profile first and may go on with a payment method.
LEMMA SetupStep ==
    ASSUME IInv, NEW r \in Requests, NEW u \in Users, NEW a \in Aliases \cup {None},
           NEW e \in Emails \cup {None}, NEW p \in Providers, NEW i \in Identifiers,
           SetupProfile(r, u, a, e, p, i)
    PROVE  Core'
  <1>1. UsersTyped' /\ Unique' /\ AccountsStay
    BY ProfileWrite DEF SetupProfile, Starts
  <1>2. RestTyped'
    BY DEF SetupProfile, IInv, TypeOK, RestTyped
  <1> DEFINE x == [pc |-> "provider", user |-> u, provider |-> p, identifier |-> i]
  <1>3. x \in Request /\ x.pc = "provider"
    BY DEF Request
  <1>4. req[r] = Idle
    BY DEF SetupProfile, Starts
  <1>5. req' = [req EXCEPT ![r] = x] \/ req' = [req EXCEPT ![r] = Idle]
    BY <1>4 DEF SetupProfile, Suspend, IInv, TypeOK
  <1> HIDE DEF x
  <1>6. RequestsTyped' /\ PendingSound'
    BY <1>1, <1>3, <1>5, RequestFrame
  <1>7. QED
    BY <1>1, <1>2, <1>6, MethodsFrame DEF SetupProfile

\* An update writes the profile with a free alias.
LEMMA UpdateStep ==
    ASSUME IInv, NEW r \in Requests, UpdateWrite(r)
    PROVE  Core'
  <1>1. req[r] \in [pc: {"alias", "profile"}, user: Users, alias: Aliases \cup {None},
                    email: Emails \cup {None}]
    BY DEF UpdateWrite, At, IInv, TypeOK, Request
  <1>2. Exists(req[r].user)
    BY DEF UpdateWrite, IInv, PendingSound
  <1>3. UsersTyped' /\ Unique' /\ AccountsStay
    BY <1>1, <1>2, ProfileWrite DEF UpdateWrite
  <1>4. RequestsTyped' /\ PendingSound'
    BY <1>3, RequestFrame DEF UpdateWrite, Finish
  <1>5. RestTyped'
    BY DEF UpdateWrite, IInv, TypeOK, RestTyped
  <1>6. QED
    BY <1>3, <1>4, <1>5, MethodsFrame DEF UpdateWrite

\* Accounts that are not written stay typed and unique.
LEMMA SameUsers ==
    ASSUME IInv, UNCHANGED users
    PROVE  UsersTyped' /\ Unique' /\ AccountsStay
  BY DEF IInv, TypeOK, UsersTyped, Unique, Exists, AliasFree, AccountsStay

\* A message or a picture is stored.
LEMMA KeepWriteStep ==
    ASSUME IInv, NEW r \in Requests, KeepWrite(r)
    PROVE  Core'
  <1>1. UsersTyped' /\ Unique' /\ AccountsStay
    BY SameUsers DEF KeepWrite
  <1>2. req[r] \in [pc: {"keep"}, user: Users, kind: Kinds]
    BY DEF KeepWrite, At, IInv, TypeOK, Request
  <1>3. RestTyped'
    BY <1>2 DEF KeepWrite, IInv, TypeOK, RestTyped
  <1>4. RequestsTyped' /\ PendingSound'
    BY <1>1, RequestFrame DEF KeepWrite, Finish
  <1>5. QED
    BY <1>1, <1>3, <1>4, MethodsFrame DEF KeepWrite

\* An address joins the waitlist.
LEMMA EarlyRegisterStep ==
    ASSUME IInv, NEW e \in Emails, EarlyRegister(e)
    PROVE  Core'
  <1>1. UsersTyped' /\ Unique'
    BY SameUsers DEF EarlyRegister
  <1>2. RestTyped'
    BY DEF EarlyRegister, IInv, TypeOK, RestTyped
  <1>3. RequestsTyped' /\ PendingSound'
    BY DEF EarlyRegister, IInv, TypeOK, RequestsTyped, PendingSound, At, Validated, Exists
  <1>4. QED
    BY <1>1, <1>2, <1>3, MethodsFrame DEF EarlyRegister

\* The process ends: every request is gone, every row stays.
LEMMA CrashStep ==
    ASSUME IInv, Crash
    PROVE  Core'
  <1>1. RequestsTyped' /\ PendingSound'
    BY DEF Crash, RequestsTyped, PendingSound, At
  <1>2. QED
    BY <1>1, RowsFrame DEF Crash

------------------------------------------------------------------------------------
(* Steps that write payment methods *)

\* The invariant from its parts, when accounts stay as they are.
LEMMA UsersFrame ==
    ASSUME IInv, UNCHANGED <<users, kept, audit, waitlist>>, MethodsTyped', MethodsMatch',
           RequestsTyped', PendingSound'
    PROVE  Core'
  BY Parts DEF Core, UsersTyped, RestTyped, Unique, Exists, AliasFree

\* A write of one payment method with a validated pair.
LEMMA MethodWrite ==
    ASSUME IInv, NEW m \in Methods, NEW x \in Method, methods' = [methods EXCEPT ![m] = x],
           x.identifier \in Accepted[x.provider]
    PROVE  MethodsTyped' /\ MethodsMatch'
  BY DEF IInv, TypeOK, MethodsTyped, MethodsMatch, Stored

\* A validated payment method is inserted.
LEMMA AddStep ==
    ASSUME IInv, NEW r \in Requests, NEW m \in Methods, AddMethod(r, m)
    PROVE  Core'
  <1> DEFINE x == [user |-> req[r].user, provider |-> req[r].provider,
                   identifier |-> req[r].identifier]
  <1>1. req[r] \in [pc: {"provider", "add"}, user: Users, provider: Providers,
                    identifier: Identifiers]
    BY DEF AddMethod, At, IInv, TypeOK, Request
  <1>2. x \in Method /\ x.identifier \in Accepted[x.provider]
    BY <1>1 DEF AddMethod, Method, IInv, PendingSound, Validated
  <1>3. methods' = [methods EXCEPT ![m] = x]
    BY DEF AddMethod
  <1> HIDE DEF x
  <1>4. MethodsTyped' /\ MethodsMatch'
    BY <1>2, <1>3, MethodWrite
  <1>5. RequestsTyped' /\ PendingSound'
    BY RequestFrame DEF AddMethod, Finish, AccountsStay, Exists
  <1>6. QED
    BY <1>4, <1>5, UsersFrame DEF AddMethod

\* An update writes both columns of a validated pair, whatever was stored meanwhile.
LEMMA RewriteStep ==
    ASSUME IInv, NEW r \in Requests, UpdateMethodWrite(r)
    PROVE  Core'
  <1> DEFINE m == req[r].method
             x == [methods[m] EXCEPT !.provider = req[r].provider,
                                     !.identifier = req[r].identifier]
  <1>1. req[r] \in [pc: {"merge", "rewrite"}, method: Methods, provider: Providers,
                    identifier: Identifiers]
    BY DEF UpdateMethodWrite, At, IInv, TypeOK, Request
  <1>2. methods[m] \in Method
    BY <1>1 DEF UpdateMethodWrite, Stored, IInv, TypeOK
  <1>3. x \in Method /\ x.identifier \in Accepted[x.provider]
    BY <1>1, <1>2 DEF UpdateMethodWrite, Method, IInv, PendingSound, Validated
  <1>4. methods' = [methods EXCEPT ![m] = x]
    BY <1>1, <1>2 DEF UpdateMethodWrite, IInv, TypeOK, Method
  <1>5. m \in Methods
    BY <1>1
  <1> HIDE DEF m, x
  <1>6. MethodsTyped' /\ MethodsMatch'
    BY <1>3, <1>4, <1>5, MethodWrite
  <1>7. RequestsTyped' /\ PendingSound'
    BY RequestFrame DEF UpdateMethodWrite, Finish, AccountsStay, Exists
  <1>8. QED
    BY <1>6, <1>7, UsersFrame DEF UpdateMethodWrite

\* A payment method is removed.
LEMMA RemoveStep ==
    ASSUME IInv, NEW m \in Methods, RemoveMethod(m)
    PROVE  Core'
  <1>1. MethodsTyped' /\ MethodsMatch'
    BY DEF RemoveMethod, IInv, TypeOK, MethodsTyped, MethodsMatch, Stored
  <1>2. RequestsTyped' /\ PendingSound'
    BY DEF RemoveMethod, IInv, TypeOK, RequestsTyped, PendingSound, At, Validated, Exists
  <1>3. QED
    BY <1>1, <1>2, UsersFrame DEF RemoveMethod

\* The erasure of an account frees its alias and removes its payment methods.
LEMMA EraseStep ==
    ASSUME IInv, NEW r \in Requests, NEW u \in Users, Erase(r, u)
    PROVE  Core'
  <1> DEFINE x == [users[u] EXCEPT !.alias = None, !.email = None, !.deleted = TRUE]
  <1>1. users[u] \in User
    BY DEF Erase, Starts, Exists, IInv, TypeOK
  <1>2. x \in User /\ x.key = users[u].key /\ x.alias = None
    BY <1>1 DEF User
  <1>3. users' = [users EXCEPT ![u] = x]
    BY <1>1 DEF Erase, IInv, TypeOK, User
  <1>4. \A v \in Users \ {u} : Exists(v) => users[v].key # x.key
    BY <1>2 DEF Erase, Starts, IInv, TypeOK
  <1>5. AliasFree(u, x.alias)
    BY <1>2 DEF AliasFree
  <1> HIDE DEF x
  <1>6. UsersTyped' /\ Unique' /\ AccountsStay
    BY <1>2, <1>3, <1>4, <1>5, UserWrite
  <1>7. MethodsTyped' /\ MethodsMatch'
    BY DEF Erase, IInv, TypeOK, MethodsTyped, MethodsMatch, Stored
  <1>8. RestTyped'
    BY DEF Erase, IInv, TypeOK, RestTyped
  <1>9. req[r] = Idle /\ UNCHANGED req
    BY DEF Erase, Starts
  <1>10. req' = [req EXCEPT ![r] = Idle]
    BY <1>9 DEF IInv, TypeOK
  <1>11. RequestsTyped' /\ PendingSound'
    BY <1>6, <1>10, RequestFrame
  <1>12. QED
    BY <1>6, <1>7, <1>8, <1>11 DEF Core

------------------------------------------------------------------------------------

\* The initial state satisfies the inductive invariant.
LEMMA InitIInv == Init => IInv
  BY DEF Init, IInv, TypeOK, MethodsMatch, PendingSound, Exists, Stored, At

\* Only users come back.
LEMMA BackStep == IInv /\ [Next]_vars => (back \in SUBSET Users)'
  <1> SUFFICES ASSUME IInv, [Next]_vars PROVE back' \in SUBSET Users
    OBVIOUS
  <1>1. back \in SUBSET Users
    BY DEF IInv, TypeOK
  <1>2. \A u \in Users : \A c : ComesBack(u, c) => back' \in SUBSET Users
    BY <1>1 DEF ComesBack
  <1>3. ASSUME NEW r \in Requests, RequestStep(r) PROVE back' \in SUBSET Users
    <2>1. ASSUME NEW u \in Users, Starts(r, u) PROVE back' \in SUBSET Users
      BY <1>2, <2>1 DEF Starts
    <2>2. \A m \in Methods : Stored(m) => methods[m].user \in Users
      BY DEF Stored, IInv, TypeOK, Method
    <2>3. CASE UNCHANGED back
      BY <1>1, <2>3
    <2>4. ASSUME NEW u \in Users, Erase(r, u) PROVE back' \in SUBSET Users
      BY <1>2, <2>4 DEF Erase
    <2>5. QED
      BY <1>3, <2>1, <2>2, <2>3, <2>4
         DEF RequestStep, FindKey, InsertUser, KeepRead, UpdateRead, SetupProfile, CreateMethod,
             AddMethod, UpdateMethodRead, UpdateCheckAlias, UpdateWrite, KeepWrite, CheckProvider,
             UpdateMethodCheck, UpdateMethodWrite, RequestFails, Finish, Proceed
  <1>4. QED
    BY <1>1, <1>2, <1>3 DEF Next, LogIn, EarlyRegister, RemoveMethod, Crash, vars

\* Every step keeps it.
LEMMA NextIInv == IInv /\ [Next]_vars => IInv'
  <1> SUFFICES ASSUME IInv, [Next]_vars PROVE Core'
    BY BackStep DEF IInv, Core, TypeOK, UsersTyped, MethodsTyped, RequestsTyped, RestTyped, Unique
  <1>1. ASSUME NEW r \in Requests, RequestStep(r) PROVE Core'
    <2>1. ASSUME NEW u \in Users,
                 \/ InsertUser(r, u)
                 \/ Erase(r, u)
                 \/ \E kind \in Kinds : KeepRead(r, u, kind)
                 \/ \E a \in Aliases \cup {None}, e \in Emails \cup {None} :
                       \/ UpdateRead(r, u, a, e)
                       \/ \E p \in Providers, i \in Identifiers : SetupProfile(r, u, a, e, p, i)
                 \/ \E p \in Providers, i \in Identifiers : CreateMethod(r, u, p, i)
          PROVE  Core'
      BY <2>1, InsertStep, EraseStep, KeepReadStep, UpdateReadStep, SetupStep, CreateMethodStep
    <2>2. ASSUME NEW m \in Methods,
                 \/ AddMethod(r, m)
                 \/ \E p \in Providers \cup {None}, i \in Identifiers \cup {None} :
                       UpdateMethodRead(r, m, p, i)
          PROVE  Core'
      BY <2>2, AddStep, MergeStep
    <2>3. CASE \/ UpdateCheckAlias(r) \/ UpdateWrite(r) \/ KeepWrite(r) \/ CheckProvider(r)
               \/ UpdateMethodCheck(r) \/ UpdateMethodWrite(r) \/ RequestFails(r)
      BY <2>3, CheckStep, UpdateStep, KeepWriteStep, RewriteStep, FailStep
    <2>4. QED
      BY <1>1, <2>1, <2>2, <2>3, FindKeyStep DEF RequestStep
  <1>2. CASE UNCHANGED vars
    BY <1>2, RowsFrame DEF vars, IInv, TypeOK, RequestsTyped, PendingSound, At, Validated, Exists
  <1>3. QED
    BY <1>1, <1>2, LogInStep, EarlyRegisterStep, RemoveStep, CrashStep DEF Next

\* The inductive invariant holds in every reachable state.
THEOREM Invariance == Spec => []IInv
  BY InitIInv, NextIInv, PTL DEF Spec

\* Rows and requests keep their types, and no two accounts share a public key or an
\* alias, for any number of sign-ups, profile updates and erasures in flight.
THEOREM TypeCorrect == Spec => []TypeOK
  <1>1. IInv => TypeOK
    BY DEF IInv
  <1>2. QED
    BY <1>1, Invariance, PTL

\* Every stored payment method has an identifier its provider accepts, for any number of
\* concurrent partial updates: the pair that was validated is the pair that is written.
THEOREM MethodsMatchHolds == Spec => []MethodsMatch
  <1>1. IInv => MethodsMatch
    BY DEF IInv
  <1>2. QED
    BY <1>1, Invariance, PTL

------------------------------------------------------------------------------------
(* Erased accounts stay clean *)

\* What ErasedClean needs: about the user of a clean account nothing is under way.
Gone ==
    \A u \in Users : Exists(u) /\ users[u].deleted /\ u \notin back => Clean(u) /\ ~UnderWay(u)

\* A step that adds nothing about the user, to the rows or to the requests.
Undisturbed(u) ==
    /\ users'[u] = users[u]
    /\ \A m \in Methods : Stored(m)' /\ methods'[m].user = u => Stored(m) /\ methods[m].user = u
    /\ \A kind \in Kinds : <<u, kind>> \in kept' => <<u, kind>> \in kept
    /\ UnderWay(u)' => UnderWay(u)

\* Such a step leaves a clean account clean.
LEMMA GoneFrame ==
    ASSUME Gone, NEW u \in Users, Undisturbed(u), back \subseteq back',
           Exists(u)', users'[u].deleted, u \notin back'
    PROVE  Clean(u)' /\ ~UnderWay(u)'
  <1>1. Exists(u) /\ users[u].deleted /\ u \notin back
    BY DEF Undisturbed, Exists
  <1>2. Clean(u) /\ ~UnderWay(u)
    BY <1>1 DEF Gone
  <1>3. QED
    BY <1>2 DEF Undisturbed, Clean

\* Nobody who came back is forgotten.
LEMMA BackGrows == [Next]_vars => back \subseteq back'
  <1> SUFFICES ASSUME [Next]_vars PROVE back \subseteq back'
    OBVIOUS
  <1>1. \A u, c : ComesBack(u, c) => back \subseteq back'
    BY DEF ComesBack
  <1>2. \A r, u : Starts(r, u) => back \subseteq back'
    BY <1>1 DEF Starts
  <1>3. ASSUME NEW r \in Requests, RequestStep(r) PROVE back \subseteq back'
    BY <1>1, <1>2, <1>3
       DEF RequestStep, FindKey, InsertUser, KeepRead, UpdateRead, SetupProfile, CreateMethod,
           AddMethod, UpdateMethodRead, UpdateCheckAlias, UpdateWrite, KeepWrite, CheckProvider,
           UpdateMethodCheck, UpdateMethodWrite, RequestFails, Finish, Proceed, Erase
  <1>4. QED
    BY <1>1, <1>3 DEF Next, LogIn, EarlyRegister, RemoveMethod, Crash, vars

\* A request that moves on changes what is under way only for the user it is about.
LEMMA UnderWayFrame ==
    ASSUME IInv, NEW r \in Requests, NEW x, NEW u \in Users, req' = [req EXCEPT ![r] = x],
           x.pc \in {"alias", "profile", "provider", "add", "keep"} => x.user # u
    PROVE  UnderWay(u)' => UnderWay(u)
  <1>1. req'[r] = x /\ \A q \in Requests \ {r} : req'[q] = req[q]
    BY DEF IInv, TypeOK
  <1>2. QED
    BY <1>1 DEF UnderWay

\* A request that begins to store something is about another account than one that stays
\* out of back.
LEMMA StartsOther ==
    ASSUME NEW r, NEW v, Starts(r, v), NEW u \in Users, users[u].deleted, u \notin back'
    PROVE  v # u
  BY DEF Starts, ComesBack

\* Requests that begin: they are about another user, or store nothing new.
LEMMA BeginUndisturbed ==
    ASSUME IInv, NEW r \in Requests, NEW u \in Users, users'[u].deleted, u \notin back',
           \/ \E k \in Keys, a \in Aliases \cup {None} : FindKey(r, k, a)
           \/ \E v \in Users, kind \in Kinds : KeepRead(r, v, kind)
           \/ \E v \in Users, a \in Aliases \cup {None}, e \in Emails \cup {None} :
                 UpdateRead(r, v, a, e)
           \/ \E v \in Users, p \in Providers, i \in Identifiers : CreateMethod(r, v, p, i)
           \/ \E m \in Methods, p \in Providers \cup {None}, i \in Identifiers \cup {None} :
                 UpdateMethodRead(r, m, p, i)
    PROVE  Undisturbed(u)
  <1>1. UNCHANGED <<users, methods, kept>>
    BY DEF FindKey, KeepRead, UpdateRead, CreateMethod, UpdateMethodRead
  <1>2. ASSUME NEW x, req' = [req EXCEPT ![r] = x],
               x.pc \in {"alias", "profile", "provider", "add", "keep"} => x.user # u
        PROVE  Undisturbed(u)
    BY <1>1, <1>2, UnderWayFrame DEF Undisturbed, Stored
  <1>3. ASSUME NEW k \in Keys, NEW a \in Aliases \cup {None}, FindKey(r, k, a)
        PROVE  Undisturbed(u)
    BY <1>2, <1>3 DEF FindKey, Suspend
  <1>4. ASSUME NEW v \in Users, NEW kind \in Kinds, KeepRead(r, v, kind)
        PROVE  Undisturbed(u)
    BY <1>1, <1>2, <1>4, StartsOther DEF KeepRead, Suspend
  <1>5. ASSUME NEW v \in Users, NEW a \in Aliases \cup {None}, NEW e \in Emails \cup {None},
               UpdateRead(r, v, a, e)
        PROVE  Undisturbed(u)
    <2>1. PICK pc \in {"alias", "profile"} :
              req' = [req EXCEPT ![r] = [pc |-> pc, user |-> v, alias |-> a, email |-> e]]
      BY <1>5 DEF UpdateRead, Suspend
    <2>2. v # u
      BY <1>1, <1>5, StartsOther DEF UpdateRead
    <2>3. QED
      BY <1>2, <2>1, <2>2
  <1>6. ASSUME NEW v \in Users, NEW p \in Providers, NEW i \in Identifiers,
               CreateMethod(r, v, p, i)
        PROVE  Undisturbed(u)
    BY <1>1, <1>2, <1>6, StartsOther DEF CreateMethod, Suspend
  <1>7. ASSUME NEW m \in Methods, NEW p \in Providers \cup {None},
               NEW i \in Identifiers \cup {None}, UpdateMethodRead(r, m, p, i)
        PROVE  Undisturbed(u)
    <2> DEFINE x == [pc |-> "merge", method |-> m,
                     provider   |-> IF p = None THEN methods[m].provider ELSE p,
                     identifier |-> IF i = None THEN methods[m].identifier ELSE i]
    <2>1. req' = [req EXCEPT ![r] = x]
      BY <1>7 DEF UpdateMethodRead, Suspend
    <2>2. x.pc = "merge"
      OBVIOUS
    <2> HIDE DEF x
    <2>3. QED
      BY <1>2, <2>1, <2>2
  <1>8. QED
    BY <1>3, <1>4, <1>5, <1>6, <1>7

\* A request under way that will still write is about another user.
LEMMA UnderWayOther ==
    ASSUME Gone, NEW r \in Requests, NEW u \in Users, Exists(u), users[u].deleted,
           u \notin back,
           At(r, "alias") \/ At(r, "profile") \/ At(r, "provider") \/ At(r, "add") \/ At(r, "keep")
    PROVE  req[r].user # u
  BY DEF Gone, UnderWay, At

\* Checks, the write of a validated update, and failures.
LEMMA MoveUndisturbed ==
    ASSUME IInv, Gone, NEW r \in Requests, NEW u \in Users, Exists(u)', users'[u].deleted,
           u \notin back',
           \/ UpdateCheckAlias(r) \/ CheckProvider(r) \/ UpdateMethodCheck(r)
           \/ UpdateMethodWrite(r) \/ RequestFails(r)
    PROVE  Undisturbed(u)
  <1>1. UNCHANGED <<users, kept, back>> /\ Exists(u) /\ users[u].deleted /\ u \notin back
    BY DEF UpdateCheckAlias, CheckProvider, UpdateMethodCheck, UpdateMethodWrite, RequestFails,
           Finish, Proceed, Exists
  <1>2. ASSUME NEW x, req' = [req EXCEPT ![r] = x], UNCHANGED methods,
               x.pc \in {"alias", "profile", "provider", "add", "keep"} => x.user # u
        PROVE  Undisturbed(u)
    BY <1>1, <1>2, UnderWayFrame DEF Undisturbed, Stored
  <1>3. CASE UpdateCheckAlias(r)
    <2>1. req[r] \in [pc: {"alias", "profile"}, user: Users, alias: Aliases \cup {None},
                      email: Emails \cup {None}]
      BY <1>3 DEF UpdateCheckAlias, At, IInv, TypeOK, Request
    <2>2. req' = [req EXCEPT ![r] = [req[r] EXCEPT !.pc = "profile"]] /\ UNCHANGED methods
      BY <1>3 DEF UpdateCheckAlias, Proceed, IInv, TypeOK
    <2>3. req[r].user # u
      BY <1>1, <1>3, UnderWayOther DEF UpdateCheckAlias
    <2>4. QED
      BY <1>2, <2>1, <2>2, <2>3
  <1>4. CASE CheckProvider(r)
    <2>1. req[r] \in [pc: {"provider", "add"}, user: Users, provider: Providers,
                      identifier: Identifiers]
      BY <1>4 DEF CheckProvider, At, IInv, TypeOK, Request
    <2>2. req' = [req EXCEPT ![r] = [req[r] EXCEPT !.pc = "add"]] /\ UNCHANGED methods
      BY <1>4 DEF CheckProvider, Proceed, IInv, TypeOK
    <2>3. req[r].user # u
      BY <1>1, <1>4, UnderWayOther DEF CheckProvider
    <2>4. QED
      BY <1>2, <2>1, <2>2, <2>3
  <1>5. CASE UpdateMethodCheck(r)
    <2>1. req[r] \in [pc: {"merge", "rewrite"}, method: Methods, provider: Providers,
                      identifier: Identifiers]
      BY <1>5 DEF UpdateMethodCheck, At, IInv, TypeOK, Request
    <2>2. req' = [req EXCEPT ![r] = [req[r] EXCEPT !.pc = "rewrite"]] /\ UNCHANGED methods
      BY <1>5 DEF UpdateMethodCheck, Proceed, IInv, TypeOK
    <2>3. [req[r] EXCEPT !.pc = "rewrite"].pc = "rewrite"
      BY <2>1
    <2>4. QED
      BY <1>2, <2>2, <2>3
  <1>6. CASE RequestFails(r)
    BY <1>2, <1>6 DEF RequestFails, Finish, Idle
  <1>7. CASE UpdateMethodWrite(r)
    <2>1. req' = [req EXCEPT ![r] = Idle] /\ Idle.pc = "idle"
      BY <1>7 DEF UpdateMethodWrite, Finish, Idle
    <2>2. UnderWay(u)' => UnderWay(u)
      BY <2>1, UnderWayFrame
    <2>3. req[r].method \in Methods
      BY <1>7 DEF UpdateMethodWrite, At, IInv, TypeOK, Request
    <2>4. methods[req[r].method] \in Method
      BY <1>7, <2>3 DEF UpdateMethodWrite, Stored, IInv, TypeOK
    <2>5. \A m \in Methods : Stored(m)' => Stored(m) /\ methods'[m].user = methods[m].user
      BY <1>7, <2>3, <2>4 DEF UpdateMethodWrite, Stored, IInv, TypeOK, Method
    <2>6. QED
      BY <1>1, <2>2, <2>5 DEF Undisturbed
  <1>8. QED
    BY <1>3, <1>4, <1>5, <1>6, <1>7

\* Writes of another user's profile, message, picture or payment method.
LEMMA WriteUndisturbed ==
    ASSUME IInv, Gone, NEW r \in Requests, NEW u \in Users, Exists(u)', users'[u].deleted,
           u \notin back',
           UpdateWrite(r) \/ KeepWrite(r) \/ \E m \in Methods : AddMethod(r, m)
    PROVE  Undisturbed(u)
  <1>1. u \notin back /\ req' = [req EXCEPT ![r] = Idle]
    BY DEF UpdateWrite, KeepWrite, AddMethod, Finish
  <1>2. UnderWay(u)' => UnderWay(u)
    BY <1>1, UnderWayFrame DEF Idle
  <1>3. CASE UpdateWrite(r)
    <2>1. req[r].user \in Users /\ Exists(req[r].user)
      BY <1>3 DEF UpdateWrite, At, IInv, TypeOK, Request, PendingSound
    <2>2. users[req[r].user] \in User
      BY <2>1 DEF Exists, IInv, TypeOK
    <2>3. users'[u].deleted = users[u].deleted /\ Exists(u)
      BY <1>3, <2>1, <2>2 DEF UpdateWrite, SetProfile, Exists, IInv, TypeOK, User
    <2>4. req[r].user # u
      BY <1>1, <1>3, <2>3, UnderWayOther DEF UpdateWrite
    <2>5. users'[u] = users[u] /\ UNCHANGED <<methods, kept>>
      BY <1>3, <2>1, <2>4 DEF UpdateWrite, SetProfile, IInv, TypeOK
    <2>6. QED
      BY <1>2, <2>5 DEF Undisturbed, Stored
  <1>4. CASE KeepWrite(r)
    <2>1. UNCHANGED <<users, methods>> /\ Exists(u)
      BY <1>4 DEF KeepWrite, Exists
    <2>2. req[r].user # u
      BY <1>1, <1>4, <2>1, UnderWayOther DEF KeepWrite
    <2>3. \A kind \in Kinds : <<u, kind>> \in kept' => <<u, kind>> \in kept
      BY <1>4, <2>2 DEF KeepWrite
    <2>4. QED
      BY <1>2, <2>1, <2>3 DEF Undisturbed, Stored
  <1>5. ASSUME NEW m \in Methods, AddMethod(r, m) PROVE Undisturbed(u)
    <2>1. UNCHANGED <<users, kept>> /\ Exists(u)
      BY <1>5 DEF AddMethod, Exists
    <2>2. req[r].user # u
      BY <1>1, <1>5, <2>1, UnderWayOther DEF AddMethod
    <2>3. methods'[m].user = req[r].user /\ \A n \in Methods \ {m} : methods'[n] = methods[n]
      BY <1>5 DEF AddMethod, IInv, TypeOK
    <2>4. QED
      BY <1>2, <2>1, <2>2, <2>3 DEF Undisturbed, Stored
  <1>6. QED
    BY <1>3, <1>4, <1>5

\* Sign-up and set-up write rows of other users.
LEMMA AccountUndisturbed ==
    ASSUME IInv, NEW r \in Requests, NEW u \in Users, Exists(u)', users'[u].deleted,
           u \notin back', NEW v \in Users,
           \/ InsertUser(r, v)
           \/ \E a \in Aliases \cup {None}, e \in Emails \cup {None}, p \in Providers,
                 i \in Identifiers : SetupProfile(r, v, a, e, p, i)
    PROVE  Undisturbed(u)
  <1>1. CASE InsertUser(r, v)
    <2>1. v # u
      BY <1>1 DEF InsertUser, NewUser, IInv, TypeOK
    <2>2. users'[u] = users[u] /\ UNCHANGED <<methods, kept>>
      BY <1>1, <2>1 DEF InsertUser, IInv, TypeOK
    <2>3. UnderWay(u)' => UnderWay(u)
      BY <1>1, UnderWayFrame DEF InsertUser, Finish, Idle
    <2>4. QED
      BY <2>2, <2>3 DEF Undisturbed, Stored
  <1>2. ASSUME NEW a \in Aliases \cup {None}, NEW e \in Emails \cup {None}, NEW p \in Providers,
               NEW i \in Identifiers, SetupProfile(r, v, a, e, p, i)
        PROVE  Undisturbed(u)
    <2>1. users[v] \in User
      BY <1>2 DEF SetupProfile, Starts, Exists, IInv, TypeOK
    <2>2. users'[u].deleted = users[u].deleted
      BY <1>2, <2>1 DEF SetupProfile, SetProfile, IInv, TypeOK, User
    <2>3. v # u
      BY <1>2, <2>2, StartsOther DEF SetupProfile
    <2>4. users'[u] = users[u] /\ UNCHANGED <<methods, kept>>
      BY <1>2, <2>3 DEF SetupProfile, SetProfile, IInv, TypeOK
    <2>5. UnderWay(u)' => UnderWay(u)
      <3> DEFINE x == [pc |-> "provider", user |-> v, provider |-> p, identifier |-> i]
      <3>1. CASE UNCHANGED req
        BY <3>1 DEF UnderWay
      <3>2. CASE req' = [req EXCEPT ![r] = x]
        BY <2>3, <3>2, UnderWayFrame
      <3>3. QED
        BY <1>2, <3>1, <3>2 DEF SetupProfile, Suspend
    <2>6. QED
      BY <2>4, <2>5 DEF Undisturbed, Stored
  <1>3. QED
    BY <1>1, <1>2

\* The erasure itself: the account becomes clean, or another account is erased.
LEMMA EraseGone ==
    ASSUME IInv, Gone, NEW r \in Requests, NEW v \in Users, Erase(r, v), back \subseteq back',
           NEW u \in Users, Exists(u)', users'[u].deleted, u \notin back'
    PROVE  Clean(u)' /\ ~UnderWay(u)'
  <1>1. UNCHANGED req
    BY DEF Erase
  <1>2. CASE v = u
    <2>1. ~UnderWay(u)'
      BY <1>1, <1>2 DEF Erase, ComesBack, UnderWay
    <2>2. users[u] \in User
      BY <1>2 DEF Erase, Exists, IInv, TypeOK
    <2>3. users'[u].alias = None /\ users'[u].email = None
      BY <1>2, <2>2 DEF Erase, IInv, TypeOK, User
    <2>4. \A m \in Methods : Stored(m)' => methods'[m].user # u
      BY <1>2 DEF Erase, Stored
    <2>5. \A kind \in Kinds : <<u, kind>> \notin kept'
      BY <1>2 DEF Erase
    <2>6. QED
      BY <2>1, <2>3, <2>4, <2>5 DEF Clean
  <1>3. CASE v # u
    <2>1. users'[u] = users[u]
      BY <1>3 DEF Erase, IInv, TypeOK
    <2>2. \A m \in Methods : Stored(m)' => Stored(m) /\ methods'[m] = methods[m]
      BY DEF Erase, Stored
    <2>3. kept' \subseteq kept
      BY DEF Erase
    <2>4. Undisturbed(u)
      BY <1>1, <2>1, <2>2, <2>3 DEF Undisturbed, UnderWay
    <2>5. QED
      BY <2>4, GoneFrame
  <1>4. QED
    BY <1>2, <1>3

\* Steps that are no request's.
LEMMA OtherUndisturbed ==
    ASSUME IInv, NEW u \in Users, users'[u].deleted,
           \/ \E v \in Users, k \in Keys, ip \in Addresses \cup {None} : LogIn(v, k, ip)
           \/ \E e \in Emails : EarlyRegister(e)
           \/ \E m \in Methods : RemoveMethod(m)
           \/ Crash
           \/ UNCHANGED vars
    PROVE  Undisturbed(u)
  <1>1. kept' = kept
    BY DEF LogIn, EarlyRegister, RemoveMethod, Crash, vars
  <1>2. users'[u] = users[u]
    BY DEF LogIn, EarlyRegister, RemoveMethod, Crash, vars, NewUser, IInv, TypeOK
  <1>3. \A m \in Methods : Stored(m)' => Stored(m) /\ methods'[m] = methods[m]
    BY DEF LogIn, EarlyRegister, RemoveMethod, Crash, vars, Stored, IInv, TypeOK
  <1>4. UnderWay(u)' => UnderWay(u)
    <2>1. CASE UNCHANGED req
      BY <2>1 DEF UnderWay
    <2>2. CASE Crash
      BY <2>2 DEF Crash, UnderWay, Idle
    <2>3. QED
      BY <2>1, <2>2 DEF LogIn, EarlyRegister, RemoveMethod, vars
  <1>5. QED
    BY <1>1, <1>2, <1>3, <1>4 DEF Undisturbed

\* Every step keeps erased accounts clean.
LEMMA NextGone == IInv /\ Gone /\ [Next]_vars => Gone'
  <1> SUFFICES ASSUME IInv, Gone, [Next]_vars, NEW u \in Users,
                      Exists(u)', users'[u].deleted, u \notin back'
               PROVE  Clean(u)' /\ ~UnderWay(u)'
    BY DEF Gone
  <1>1. back \subseteq back'
    BY BackGrows
  <1>2. CASE Undisturbed(u)
    BY <1>1, <1>2, GoneFrame
  <1>3. ASSUME NEW r \in Requests, RequestStep(r) PROVE Clean(u)' /\ ~UnderWay(u)'
    <2>1. ASSUME NEW v \in Users, Erase(r, v) PROVE Clean(u)' /\ ~UnderWay(u)'
      BY <1>1, <2>1, EraseGone
    <2>2. ASSUME NEW v \in Users,
                 \/ InsertUser(r, v)
                 \/ \E kind \in Kinds : KeepRead(r, v, kind)
                 \/ \E a \in Aliases \cup {None}, e \in Emails \cup {None} :
                       \/ UpdateRead(r, v, a, e)
                       \/ \E p \in Providers, i \in Identifiers : SetupProfile(r, v, a, e, p, i)
                 \/ \E p \in Providers, i \in Identifiers : CreateMethod(r, v, p, i)
          PROVE  Undisturbed(u)
      BY <2>2, BeginUndisturbed, AccountUndisturbed
    <2>3. ASSUME NEW m \in Methods,
                 \/ AddMethod(r, m)
                 \/ \E p \in Providers \cup {None}, i \in Identifiers \cup {None} :
                       UpdateMethodRead(r, m, p, i)
          PROVE  Undisturbed(u)
      BY <2>3, BeginUndisturbed, WriteUndisturbed
    <2>4. ASSUME NEW k \in Keys, NEW a \in Aliases \cup {None}, FindKey(r, k, a)
          PROVE  Undisturbed(u)
      BY <2>4, BeginUndisturbed
    <2>5. CASE \/ UpdateCheckAlias(r) \/ UpdateWrite(r) \/ KeepWrite(r) \/ CheckProvider(r)
               \/ UpdateMethodCheck(r) \/ UpdateMethodWrite(r) \/ RequestFails(r)
      BY <1>2, <2>5, MoveUndisturbed, WriteUndisturbed
    <2>6. QED
      BY <1>2, <1>3, <2>1, <2>2, <2>3, <2>4, <2>5 DEF RequestStep
  <1>4. QED
    BY <1>2, <1>3, OtherUndisturbed DEF Next

\* An erased account shows nothing of its user any more, for any number of users and
\* requests in flight, unless a request to store something about that account, by the user
\* or by anybody else, was under way then or began since: remove itself leaves nothing
\* behind, and neither logins, nor updates of payment methods that were under way, nor
\* requests about other accounts bring anything back.
THEOREM ErasedCleanHolds == Spec => []ErasedClean
  <1>1. Init => Gone
    BY DEF Init, Gone, Exists
  <1>2. Gone => ErasedClean
    BY DEF Gone, ErasedClean
  <1>3. QED
    BY <1>1, <1>2, NextGone, Invariance, PTL DEF Spec

----------------------------------------------------------------------------
(* The validator: induction and loops *)

\* A set of numbers has a least one.
LEMMA LeastExists ==
    ASSUME NEW S, S \subseteq Nat, S # {}
    PROVE  \E x \in S : \A y \in S : x <= y
  <1>1. PICK x \in S : \A y \in S : ~(<<y, x>> \in OpToRel(<, Nat))
    BY NatLessThanWellFounded, WFMin
  <1>2. ASSUME NEW y \in S PROVE x <= y
    <2>1. ASSUME y < x PROVE <<y, x>> \in OpToRel(<, Nat)
      BY <2>1 DEF OpToRel
    <2>2. ~(y < x)
      BY <1>1, <2>1
    <2>3. QED
      BY <2>2
  <1>3. QED
    BY <1>2

\* Induction up to a bound, for a set of numbers instead of a predicate.
LEMMA UpTo ==
    ASSUME NEW n \in Nat, NEW T, 0 \in T,
           \A i \in 1..n : i - 1 \in T => i \in T
    PROVE  n \in T /\ \A i \in 0..n : i \in T
  <1> DEFINE S == {i \in 0..n : i \notin T}
  <1>1. SUFFICES ASSUME S # {} PROVE FALSE
    OBVIOUS
  <1>2. S \subseteq Nat
    OBVIOUS
  <1> HIDE DEF S
  <1>3. PICK x \in S : \A y \in S : x <= y
    BY <1>1, <1>2, LeastExists
  <1>4. x \in 1..n /\ x \notin T
    BY <1>3 DEF S
  <1>5. x - 1 \in T
    BY <1>3, <1>4 DEF S
  <1>6. QED
    BY <1>4, <1>5

\* What a loop computes: f holds its values before the first step and after each of n.
Steps(V, n) == [V \X (1..n) -> V]

IsLoop(f, V, base, n, step) ==
    /\ f \in [0..n -> V]
    /\ f[0] = base
    /\ \A i \in 1..n : f[i] = step[<<f[i - 1], i>>]

\* A loop that takes n steps within V has values.
LEMMA LoopDefined ==
    ASSUME NEW V, NEW base \in V, NEW n \in Nat, NEW step \in Steps(V, n)
    PROVE  \E f : IsLoop(f, V, base, n, step)
  <1> DEFINE Good(m, f) == f[0] = base /\ \A i \in 1..m : f[i] = step[<<f[i - 1], i>>]
             T == {m \in 0..n : \E f \in [0..m -> V] : Good(m, f)}
  <1>1. 0 \in T
    <2> DEFINE f == [i \in 0..0 |-> base]
    <2>1. f \in [0..0 -> V] /\ Good(0, f) /\ 0 \in 0..n
      OBVIOUS
    <2> HIDE DEF f, Good
    <2>2. QED
      BY <2>1
  <1>2. ASSUME NEW m \in 1..n, m - 1 \in T PROVE m \in T
    <2>1. PICK f \in [0..(m - 1) -> V] : Good(m - 1, f)
      BY <1>2
    <2> DEFINE g == [i \in 0..m |-> IF i = m THEN step[<<f[m - 1], m>>] ELSE f[i]]
    <2>2. f[m - 1] \in V
      BY <2>1
    <2>3. g \in [0..m -> V]
      <3>1. step[<<f[m - 1], m>>] \in V
        BY <2>2 DEF Steps
      <3>2. QED
        BY <2>1, <3>1
    <2>4. g[0] = base
      BY <2>1
    <2>5. ASSUME NEW i \in 1..m PROVE g[i] = step[<<g[i - 1], i>>]
      <3>1. CASE i = m
        <4>1. m - 1 \in 0..m /\ m - 1 # m /\ m # 0 /\ m \in 0..m
          OBVIOUS
        <4>2. g[m - 1] = f[m - 1] /\ g[m] = step[<<f[m - 1], m>>]
          BY <4>1
        <4>3. QED
          BY <3>1, <4>1, <4>2
      <3>2. CASE i \in 1..(m - 1)
        <4>1. f[i] = step[<<f[i - 1], i>>]
          BY <2>1, <3>2
        <4>2. g[i] = f[i] /\ g[i - 1] = f[i - 1]
          BY <3>2
        <4>3. QED
          BY <4>1, <4>2
      <3>3. QED
        BY <3>1, <3>2
    <2>6. Good(m, g)
      BY <2>4, <2>5
    <2> HIDE DEF g, Good
    <2>7. m \in 0..n
      OBVIOUS
    <2>8. QED
      BY <2>3, <2>6, <2>7
  <1>3. n \in T
    <2> HIDE DEF T
    <2>1. QED
      BY <1>1, <1>2, UpTo
  <1>4. QED
    BY <1>3 DEF IsLoop

----------------------------------------------------------------------------
(* Keep *)

\* The positions of s whose characters are in S, and how many of them there are up to i.
Positions(s, S) == {i \in DOMAIN s : s[i] \in S}
Rank(P, i) == Cardinality(P \cap 1..i)

\* Ranks go from 0 to the number of positions.
LEMMA RankFacts ==
    ASSUME NEW n \in Nat, NEW P \in SUBSET (1..n)
    PROVE  /\ IsFiniteSet(P) /\ Cardinality(P) \in Nat
           /\ \A i \in Nat : IsFiniteSet(P \cap 1..i) /\ Rank(P, i) \in 0..Cardinality(P)
           /\ Rank(P, 0) = 0 /\ Rank(P, n) = Cardinality(P)
  <1>1. IsFiniteSet(1..n)
    BY FS_Interval
  <1>2. IsFiniteSet(P) /\ Cardinality(P) \in Nat
    BY <1>1, FS_Subset, FS_CardinalityType
  <1>3. ASSUME NEW i \in Nat
        PROVE  IsFiniteSet(P \cap 1..i) /\ Rank(P, i) \in 0..Cardinality(P)
    <2>1. (P \cap 1..i) \in SUBSET P
      OBVIOUS
    <2>2. IsFiniteSet(P \cap 1..i) /\ Cardinality(P \cap 1..i) <= Cardinality(P)
      BY <1>2, <2>1, FS_Subset
    <2>3. Cardinality(P \cap 1..i) \in Nat
      BY <2>2, FS_CardinalityType
    <2>4. QED
      BY <1>2, <2>2, <2>3 DEF Rank
  <1>4. P \cap 1..0 = {} /\ P \cap 1..n = P
    <2>1. 1..0 = {}
      BY SMT
    <2>2. QED
      BY <2>1
  <1>5. QED
    BY <1>2, <1>3, <1>4, FS_EmptySet DEF Rank

\* A rank grows by one at each position.
LEMMA RankStep ==
    ASSUME NEW n \in Nat, NEW P \in SUBSET (1..n), NEW i \in Nat \ {0}
    PROVE  Rank(P, i) = IF i \in P THEN Rank(P, i - 1) + 1 ELSE Rank(P, i - 1)
  <1>1. i - 1 \in Nat
    OBVIOUS
  <1>2. IsFiniteSet(P \cap 1..(i - 1))
    BY <1>1, RankFacts
  <1>3. CASE i \in P
    <2>1. P \cap 1..i = (P \cap 1..(i - 1)) \cup {i} /\ i \notin (P \cap 1..(i - 1))
      BY <1>3
    <2>2. QED
      BY <1>2, <1>3, <2>1, FS_AddElement DEF Rank
  <1>4. CASE i \notin P
    <2>1. P \cap 1..i = P \cap 1..(i - 1)
      BY <1>4
    <2>2. QED
      BY <1>4, <2>1 DEF Rank
  <1>5. QED
    BY <1>3, <1>4

\* Two kept positions have different ranks.
LEMMA RankUnique ==
    ASSUME NEW n \in Nat, NEW P \in SUBSET (1..n), NEW i \in P, NEW j \in P,
           Rank(P, i) = Rank(P, j)
    PROVE  i = j
  <1>1. i \in Nat /\ j \in Nat
    OBVIOUS
  <1>2. ASSUME NEW a \in P, NEW b \in P, a < b, Rank(P, a) = Rank(P, b) PROVE FALSE
    <2>1. a \in Nat /\ b \in Nat
      OBVIOUS
    <2>2. IsFiniteSet(P \cap 1..b) /\ (P \cap 1..a) \in SUBSET (P \cap 1..b)
      BY <1>2, <2>1, RankFacts
    <2>3. P \cap 1..b = P \cap 1..a
      BY <1>2, <2>2, FS_Subset DEF Rank
    <2>4. b \in P \cap 1..b /\ b \notin 1..a
      BY <1>2, <2>1
    <2>5. QED
      BY <2>3, <2>4
  <1>3. QED
    BY <1>1, <1>2

\* Every rank is that of a kept position.
LEMMA RankReached ==
    ASSUME NEW n \in Nat, NEW P \in SUBSET (1..n), NEW k \in 1..Cardinality(P)
    PROVE  \E i \in P : Rank(P, i) = k
  <1> DEFINE T == {i \in 0..n : Rank(P, i) >= k}
  <1>1. Cardinality(P) \in Nat /\ n \in T
    BY RankFacts
  <1>2. T \subseteq Nat /\ T # {}
    BY <1>1
  <1>3. PICK i \in T : \A y \in T : i <= y
    <2> HIDE DEF T
    <2>1. QED
      BY <1>2, LeastExists
  <1>4. i # 0
    BY <1>1, <1>3, RankFacts
  <1>5. i \in Nat \ {0} /\ i - 1 \in Nat /\ i - 1 \in 0..n /\ ~(i <= i - 1)
    BY <1>3, <1>4
  <1>6. ~(Rank(P, i - 1) >= k) /\ Rank(P, i) >= k
    BY <1>3, <1>5
  <1>7. Rank(P, i - 1) \in Nat /\ Rank(P, i) \in Nat
    <2>1. Rank(P, i - 1) \in 0..Cardinality(P) /\ Rank(P, i) \in 0..Cardinality(P)
      BY <1>5, RankFacts
    <2>2. QED
      BY <1>1, <2>1
  <1>8. Rank(P, i) = IF i \in P THEN Rank(P, i - 1) + 1 ELSE Rank(P, i - 1)
    BY <1>5, RankStep
  <1>9. QED
    BY <1>1, <1>6, <1>7, <1>8

\* What membership in Seq says.
LEMMA SeqFacts ==
    ASSUME NEW S, NEW q \in Seq(S)
    PROVE  Len(q) \in Nat /\ DOMAIN q = 1..Len(q) /\ \A i \in 1..Len(q) : q[i] \in S
  OBVIOUS

\* A function on 1..n is a sequence.
LEMMA SeqMade ==
    ASSUME NEW S, NEW n \in Nat, NEW f \in [1..n -> S]
    PROVE  f \in Seq(S) /\ Len(f) = n
  OBVIOUS

\* The k-th character Keep keeps comes from the position of rank k.
Source(s, S, k) ==
    \E i \in Positions(s, S) : Rank(Positions(s, S), i) = k /\ Keep(s, S)[k] = s[i]

\* The characters Keep keeps are those at the positions, by rank.
LEMMA KeepFacts ==
    ASSUME NEW s \in Seq(Characters), NEW S
    PROVE  /\ Positions(s, S) \in SUBSET (1..Len(s)) /\ Len(s) \in Nat
           /\ Keep(s, S) \in Seq(Characters \cap S)
           /\ Len(Keep(s, S)) = Cardinality(Positions(s, S)) /\ Cardinality(Positions(s, S)) \in Nat
           /\ \A i \in Positions(s, S) :
                 /\ Rank(Positions(s, S), i) \in 1..Cardinality(Positions(s, S))
                 /\ Keep(s, S)[Rank(Positions(s, S), i)] = s[i]
           /\ \A k \in 1..Cardinality(Positions(s, S)) : Source(s, S, k)
  <1> DEFINE P == Positions(s, S)
             n == Cardinality(P)
             K == [k \in 1..n |-> s[CHOOSE i \in P : Rank(P, i) = k]]
  <1>1. Len(s) \in Nat /\ DOMAIN s = 1..Len(s) /\ \A i \in 1..Len(s) : s[i] \in Characters
    BY SeqFacts
  <1>2. P \in SUBSET (1..Len(s)) /\ \A i \in P : s[i] \in Characters \cap S
    BY <1>1 DEF Positions
  <1>3. Keep(s, S) = K
    BY DEF Keep, Rank, Positions
  <1>4. n \in Nat
    BY <1>1, <1>2, RankFacts
  <1> HIDE DEF P
  <1>5. ASSUME NEW i \in P PROVE Rank(P, i) \in 1..n
    <2>1. i \in Nat \ {0} /\ i - 1 \in Nat
      BY <1>2
    <2>2. Rank(P, i) \in 0..n /\ Rank(P, i - 1) \in 0..n
      BY <1>1, <1>2, <2>1, RankFacts
    <2>3. Rank(P, i) = Rank(P, i - 1) + 1
      BY <1>1, <1>2, <2>1, RankStep
    <2>4. QED
      BY <1>4, <2>2, <2>3
  <1>6. ASSUME NEW k \in 1..n
        PROVE  \E i \in P : Rank(P, i) = k /\ K[k] = s[i]
    <2> DEFINE c == CHOOSE i \in P : Rank(P, i) = k
    <2>1. \E i \in P : Rank(P, i) = k
      BY <1>1, <1>2, RankReached
    <2>2. c \in P /\ Rank(P, c) = k
      BY <2>1
    <2>3. K[k] = s[c]
      OBVIOUS
    <2>4. QED
      BY <2>2, <2>3
  <1>7. ASSUME NEW i \in P PROVE K[Rank(P, i)] = s[i]
    <2>1. PICK j \in P : Rank(P, j) = Rank(P, i) /\ K[Rank(P, i)] = s[j]
      BY <1>5, <1>6
    <2>2. j = i
      BY <1>1, <1>2, <2>1, RankUnique
    <2>3. QED
      BY <2>1, <2>2
  <1>8. DOMAIN K = 1..n /\ \A k \in 1..n : K[k] \in Characters \cap S
    BY <1>2, <1>6
  <1>9. K \in [1..n -> Characters \cap S]
    <2>1. K = [k \in 1..n |-> K[k]]
      OBVIOUS
    <2> HIDE DEF K
    <2>2. QED
      BY <1>8, <2>1
  <1> HIDE DEF K
  <1>10. K \in Seq(Characters \cap S) /\ Len(K) = n
    BY <1>4, <1>9, SeqMade
  <1>11. QED
    BY <1>1, <1>2, <1>3, <1>4, <1>5, <1>6, <1>7, <1>10 DEF P, Source

\* Every kept character comes from a position.
LEMMA KeepSource ==
    ASSUME NEW s \in Seq(Characters), NEW S, NEW k \in 1..Len(Keep(s, S))
    PROVE  \E i \in Positions(s, S) : Rank(Positions(s, S), i) = k /\ Keep(s, S)[k] = s[i]
  <1>1. Source(s, S, k)
    BY KeepFacts
  <1>2. QED
    BY <1>1 DEF Source

\* stripNonDigits leaves digits, and all of them.
LEMMA StripFacts ==
    ASSUME NEW s \in Seq(Characters)
    PROVE  /\ StripNonDigits(s) \in Seq(Digits)
           /\ (\E i \in DOMAIN s : s[i] \in Digits) => StripNonDigits(s) # <<>>
           /\ Len(StripNonDigits(s)) = Cardinality(Positions(s, Digits))
  <1>1. Characters \cap Digits = Digits
    BY DEF Characters, Digits
  <1>2. StripNonDigits(s) \in Seq(Digits)
    BY <1>1, KeepFacts DEF StripNonDigits
  <1>3. Len(StripNonDigits(s)) = Cardinality(Positions(s, Digits))
    BY KeepFacts DEF StripNonDigits
  <1>4. ASSUME NEW i \in DOMAIN s, s[i] \in Digits PROVE StripNonDigits(s) # <<>>
    <2>1. i \in Positions(s, Digits)
      BY <1>4 DEF Positions
    <2>2. Rank(Positions(s, Digits), i) \in 1..Cardinality(Positions(s, Digits))
      BY <2>1, KeepFacts
    <2>3. Cardinality(Positions(s, Digits)) # 0
      BY <2>2
    <2>4. QED
      BY <1>3, <2>3
  <1>5. QED
    BY <1>2, <1>3, <1>4

----------------------------------------------------------------------------
(* CPF *)

\* The weighted sum is a number.
LEMMA WeightedSumNat ==
    ASSUME NEW d \in Seq(Digits), NEW n \in Nat, n <= Len(d)
    PROVE  WeightedSum(d, n) \in Nat
  <1> DEFINE step == [p \in Nat \X (1..n) |-> p[1] + d[p[2]] * (n + 2 - p[2])]
             Sum(f) == f = [i \in 0..n |->
                              IF i = 0 THEN 0 ELSE f[i - 1] + d[i] * (n + 2 - i)]
             g == CHOOSE f : Sum(f)
  <1>1. \A i \in 1..n : d[i] \in Nat /\ n + 2 - i \in Nat
    <2>1. Len(d) \in Nat /\ \A i \in 1..Len(d) : d[i] \in Digits
      BY SeqFacts
    <2>2. QED
      BY <2>1 DEF Digits
  <1>2. \A i \in 1..n : \A x \in Nat : x + d[i] * (n + 2 - i) \in Nat
    BY <1>1
  <1>3. step \in Steps(Nat, n)
    BY <1>2 DEF Steps
  <1> HIDE DEF step
  <1>4. PICK f : IsLoop(f, Nat, 0, n, step)
    BY <1>3, LoopDefined
  <1>5. ASSUME NEW i \in 1..n PROVE f[i] = f[i - 1] + d[i] * (n + 2 - i)
    <2>1. f[i - 1] \in Nat
      BY <1>4 DEF IsLoop
    <2>2. QED
      BY <1>4, <2>1 DEF step, IsLoop
  <1>6. Sum(f)
    BY <1>4, <1>5 DEF IsLoop
  <1>7. Sum(g)
    BY <1>6
  <1>8. WeightedSum(d, n) = g[n]
    BY DEF WeightedSum
  <1> HIDE DEF g
  <1>9. g[0] = 0 /\ \A i \in 1..n : g[i] = g[i - 1] + d[i] * (n + 2 - i)
    BY <1>7
  <1> DEFINE T == {i \in 0..n : g[i] \in Nat}
  <1>10. 0 \in T
    BY <1>9
  <1>11. ASSUME NEW i \in 1..n, i - 1 \in T PROVE i \in T
    <2>1. g[i - 1] \in Nat /\ i \in 0..n
      BY <1>11
    <2>2. g[i - 1] + d[i] * (n + 2 - i) \in Nat
      BY <1>2, <2>1
    <2>3. QED
      BY <1>9, <2>1, <2>2
  <1>12. n \in T
    <2> HIDE DEF T
    <2>1. QED
      BY <1>10, <1>11, UpTo
  <1>13. QED
    BY <1>8, <1>12

\* Ten times w and eleven minus w are the same modulo eleven, zero for ten.
LEMMA ElevenMinus ==
    ASSUME NEW w \in Nat
    PROVE  LET a == (w * 10) % 11
               r == w % 11
           IN (IF a = 10 THEN 0 ELSE a) = (IF r < 2 THEN 0 ELSE 11 - r)
  <1> DEFINE q == w \div 11
             r == w % 11
  <1>1. w = 11 * q + r /\ r \in 0..10 /\ q \in Nat
    BY SMT
  <1> HIDE DEF q, r
  <1>2. (w * 10) % 11 = (10 * r) % 11
    BY <1>1, SMT
  <1>3. QED
    BY <1>1, <1>2, SMT DEF r

\* The check digit as the official rule has it.
OfficialDigit(d, n) == LET r == WeightedSum(d, n) % 11 IN IF r < 2 THEN 0 ELSE 11 - r

\* The two formulas give the same check digit.
LEMMA CheckDigitOfficial ==
    ASSUME NEW d \in Seq(Digits), NEW n \in Nat, n <= Len(d)
    PROVE  CheckDigit(d, n) = OfficialDigit(d, n)
  BY WeightedSumNat, ElevenMinus DEF CheckDigit, OfficialDigit

----------------------------------------------------------------------------
(* The call *)

\* validate answers what the rule of the provider says.
VerdictRight ==
    /\ call \in Calls
    /\ \/ verdict = "none"
       \/ verdict = "accepted" /\ IsValid(call.provider, call.identifier)
       \/ verdict = "rejected" /\ ~IsValid(call.provider, call.identifier)

\* One call keeps the verdict right.
LEMMA VerdictStep == VerdictRight /\ [Validate]_<<call, verdict>> => VerdictRight'
  BY DEF VerdictRight, Validate

\* validate answers accepted or rejected as the rule of the provider says, and only once.
THEOREM VerdictsRight == ValidateSpec => []VerdictRight
  <1>1. Called => VerdictRight
    BY DEF Called, VerdictRight
  <1>2. QED
    BY <1>1, VerdictStep, PTL DEF ValidateSpec

\* The identifier of a call is a sequence of characters, its digits a sequence of digits.
LEMMA CallTyped ==
    ASSUME VerdictRight
    PROVE  /\ call.identifier \in Seq(Characters)
           /\ StripNonDigits(call.identifier) \in Seq(Digits)
  BY CallsAssumption, StripFacts DEF VerdictRight

\* isValidCpf is the official check-digit rule, for every string.
THEOREM CpfOfficialHolds == ValidateSpec => []CpfOfficial
  <1>1. VerdictRight => CpfOfficial
    <2> DEFINE d == StripNonDigits(call.identifier)
    <2>1. SUFFICES ASSUME VerdictRight, Len(d) = 11
                   PROVE  IsValidCpf(call.identifier) <=>
                            /\ \E i \in 2..11 : d[i] # d[1]
                            /\ d[10] = OfficialDigit(d, 9) /\ d[11] = OfficialDigit(d, 10)
      BY DEF CpfOfficial, OfficialDigit
    <2>2. d \in Seq(Digits)
      BY <2>1, CallTyped
    <2>3. IsValidCpf(call.identifier) <=>
            /\ \E i, j \in 1..11 : d[i] # d[j]
            /\ d[10] = CheckDigit(d, 9) /\ d[11] = CheckDigit(d, 10)
      BY <2>1 DEF IsValidCpf
    <2> HIDE DEF d
    <2>4. CheckDigit(d, 9) = OfficialDigit(d, 9) /\ CheckDigit(d, 10) = OfficialDigit(d, 10)
      <3>1. 9 \in Nat /\ 9 <= Len(d) /\ 10 \in Nat /\ 10 <= Len(d)
        BY <2>1
      <3>2. QED
        BY <2>2, <3>1, CheckDigitOfficial
    <2>5. (\E i, j \in 1..11 : d[i] # d[j]) <=> \E i \in 2..11 : d[i] # d[1]
      <3>1. \A i \in 1..11 : i = 1 \/ i \in 2..11
        OBVIOUS
      <3>2. \A i \in 2..11 : i \in 1..11
        OBVIOUS
      <3>3. 1 \in 1..11
        OBVIOUS
      <3>4. QED
        BY <3>1, <3>2, <3>3, Zenon
    <2>6. QED
      BY <2>3, <2>4, <2>5
  <1>2. QED
    BY <1>1, VerdictsRight, PTL

----------------------------------------------------------------------------
(* Phones *)

\* What is left of a sequence without its first k elements.
LEMMA DropFacts ==
    ASSUME NEW S, NEW d \in Seq(S), NEW k \in Nat, k <= Len(d)
    PROVE  /\ Drop(d, k) \in Seq(S) /\ Len(Drop(d, k)) = Len(d) - k
           /\ \A i \in 1..(Len(d) - k) : Drop(d, k)[i] = d[k + i]
  BY DEF Drop

\* A prefix of two.
LEMMA Prefix2 ==
    ASSUME NEW S, NEW d \in Seq(S), NEW a, NEW b
    PROVE  IsPrefix(<<a, b>>, d) <=> Len(d) >= 2 /\ d[1] = a /\ d[2] = b
  BY DEF IsPrefix

\* A prefix of three.
LEMMA Prefix3 ==
    ASSUME NEW S, NEW d \in Seq(S), NEW a, NEW b, NEW c
    PROVE  IsPrefix(<<a, b, c>>, d) <=> Len(d) >= 3 /\ d[1] = a /\ d[2] = b /\ d[3] = c
  BY DEF IsPrefix

\* Letting digits follow no prefix is letting them be.
LEMMA NoPrefix ==
    ASSUME NEW d \in Seq(Digits)
    PROVE  IsPrefix(<<>>, d) /\ Drop(d, 0) = d
  BY DEF IsPrefix, Drop

\* What is left of digits are digits.
LEMMA DropDigits ==
    ASSUME NEW d \in Seq(Digits), NEW k \in Nat, k <= Len(d)
    PROVE  /\ Drop(d, k) \in Seq(Digits)
           /\ \A i \in DOMAIN Drop(d, k) : Drop(d, k)[i] \in Digits
  <1>1. Drop(d, k) \in Seq(Digits)
    BY DropFacts
  <1>2. QED
    BY <1>1

\* Digits after a prefix, by the prefix.
LEMMA InForms ==
    ASSUME NEW n
    PROVE  /\ (\E form \in Forms("CostaRicanPhone") : InForm("CostaRicanPhone", form, n)) <=>
                  \/ IsPrefix(<<>>, n) /\ National("CostaRicanPhone", Drop(n, 0))
                  \/ IsPrefix(<<5, 0, 6>>, n) /\ National("CostaRicanPhone", Drop(n, 3))
                  \/ IsPrefix(<<0, 0, 5, 0, 6>>, n) /\ National("CostaRicanPhone", Drop(n, 5))
           /\ (\E form \in Forms("VenezuelanPhone") : InForm("VenezuelanPhone", form, n)) <=>
                  \/ IsPrefix(<<0>>, n) /\ National("VenezuelanPhone", Drop(n, 1))
                  \/ IsPrefix(<<5, 8>>, n) /\ National("VenezuelanPhone", Drop(n, 2))
           /\ (\E form \in Forms("PixKey") : InForm("PixKey", form, n)) <=>
                  \/ IsPrefix(<<>>, n) /\ National("PixKey", Drop(n, 0))
                  \/ IsPrefix(<<5, 5>>, n) /\ National("PixKey", Drop(n, 2))
  <1>1. /\ Forms("CostaRicanPhone") =
             {Form(FALSE, <<>>), Form(TRUE, <<5, 0, 6>>), Form(FALSE, <<5, 0, 6>>),
              Form(FALSE, <<0, 0, 5, 0, 6>>)}
        /\ Forms("VenezuelanPhone") = {Form(FALSE, <<0>>), Form(TRUE, <<5, 8>>)}
        /\ Forms("PixKey") = {Form(FALSE, <<>>), Form(TRUE, <<5, 5>>)}
    BY DEF Forms
  <1>2. \A plus, prefix : Form(plus, prefix).prefix = prefix
    BY DEF Form
  <1>3. \A rule, plus, prefix : InForm(rule, Form(plus, prefix), n) <=>
            IsPrefix(prefix, n) /\ National(rule, Drop(n, Len(prefix)))
    BY <1>2 DEF InForm
  <1>4. /\ Len(<<>>) = 0 /\ Len(<<0>>) = 1 /\ Len(<<5, 8>>) = 2 /\ Len(<<5, 5>>) = 2
        /\ Len(<<5, 0, 6>>) = 3 /\ Len(<<0, 0, 5, 0, 6>>) = 5
    OBVIOUS
  <1>5. (\E form \in Forms("CostaRicanPhone") : InForm("CostaRicanPhone", form, n)) <=>
            \/ InForm("CostaRicanPhone", Form(FALSE, <<>>), n)
            \/ InForm("CostaRicanPhone", Form(TRUE, <<5, 0, 6>>), n)
            \/ InForm("CostaRicanPhone", Form(FALSE, <<5, 0, 6>>), n)
            \/ InForm("CostaRicanPhone", Form(FALSE, <<0, 0, 5, 0, 6>>), n)
    BY <1>1, Zenon
  <1>6. (\E form \in Forms("VenezuelanPhone") : InForm("VenezuelanPhone", form, n)) <=>
            \/ InForm("VenezuelanPhone", Form(FALSE, <<0>>), n)
            \/ InForm("VenezuelanPhone", Form(TRUE, <<5, 8>>), n)
    BY <1>1, Zenon
  <1>7. (\E form \in Forms("PixKey") : InForm("PixKey", form, n)) <=>
            \/ InForm("PixKey", Form(FALSE, <<>>), n)
            \/ InForm("PixKey", Form(TRUE, <<5, 5>>), n)
    BY <1>1, Zenon
  <1>8. QED
    BY <1>3, <1>4, <1>5, <1>6, <1>7

\* The rule of a Costa Rican phone accepts what has the digits its comment describes.
LEMMA CostaRican ==
    ASSUME NEW s \in Seq(Characters)
    PROVE  IsValidCostaRicanPhone(s) <=> DigitsDocumented("CostaRicanPhone", s)
  <1> DEFINE d == StripNonDigits(s)
             Nat8(n) == Len(n) = 8 /\ n[1] \in {6, 7, 8}
             long == IsPrefix(<<0, 0, 5, 0, 6>>, d)
             short == IsPrefix(<<5, 0, 6>>, d)
  <1>1. d \in Seq(Digits)
    BY StripFacts
  <1>2. IsValidCostaRicanPhone(s) <=>
          IF long THEN Nat8(Drop(d, 5)) ELSE IF short THEN Nat8(Drop(d, 3)) ELSE Nat8(d)
    BY DEF IsValidCostaRicanPhone
  <1>3. DigitsDocumented("CostaRicanPhone", s) <=>
          \/ IsPrefix(<<>>, d) /\ National("CostaRicanPhone", Drop(d, 0))
          \/ short /\ National("CostaRicanPhone", Drop(d, 3))
          \/ long /\ National("CostaRicanPhone", Drop(d, 5))
    BY InForms DEF DigitsDocumented, StripNonDigits
  <1> HIDE DEF d
  <1>4. IsPrefix(<<>>, d) /\ Drop(d, 0) = d
    BY <1>1, NoPrefix
  <1>5. long => d[1] = 0 /\ Len(d) >= 5
    BY <1>1 DEF IsPrefix
  <1>6. short => d[1] = 5 /\ Len(d) >= 3
    BY <1>1, Prefix3
  <1>a. ASSUME NEW n \in Seq(Digits) PROVE National("CostaRicanPhone", n) <=> Nat8(n)
    BY <1>a DEF National
  <1>b. /\ National("CostaRicanPhone", d) <=> Nat8(d)
        /\ short => (National("CostaRicanPhone", Drop(d, 3)) <=> Nat8(Drop(d, 3)))
        /\ long => (National("CostaRicanPhone", Drop(d, 5)) <=> Nat8(Drop(d, 5)))
    <2> HIDE DEF Nat8, long, short
    <2>1. 3 \in Nat /\ 5 \in Nat
      OBVIOUS
    <2>2. QED
      BY <1>1, <1>5, <1>6, <1>a, <2>1, DropDigits
  <1>7. Nat8(d) => ~long /\ ~short
    BY <1>5, <1>6
  <1>8. long => ~short
    BY <1>5, <1>6
  <1> HIDE DEF Nat8, long, short
  <1>9. QED
    BY <1>2, <1>3, <1>4, <1>7, <1>8, <1>b

\* The elements of a slice.
LEMMA SubSeqAt ==
    ASSUME NEW S, NEW q \in Seq(S), NEW a \in Nat \ {0}, NEW b \in Nat, a <= b + 1, b <= Len(q)
    PROVE  /\ SubSeq(q, a, b) \in Seq(S) /\ Len(SubSeq(q, a, b)) = b - a + 1
           /\ \A i \in 1..(b - a + 1) : SubSeq(q, a, b)[i] = q[a + i - 1]
  OBVIOUS

\* A sequence of two is a pair.
LEMMA Pair ==
    ASSUME NEW S, NEW q \in Seq(S), Len(q) = 2
    PROVE  q = <<q[1], q[2]>>
  OBVIOUS

\* A sequence of three is a triple.
LEMMA Triple ==
    ASSUME NEW S, NEW q \in Seq(S), Len(q) = 3
    PROVE  q = <<q[1], q[2], q[3]>>
  OBVIOUS

\* Two and three digits in the middle of a number.
LEMMA Slices ==
    ASSUME NEW S, NEW q \in Seq(S)
    PROVE  /\ Len(q) >= 4 => SubSeq(q, 1, 2) = <<q[1], q[2]>> /\ SubSeq(q, 3, 4) = <<q[3], q[4]>>
           /\ Len(q) >= 3 => SubSeq(q, 1, 3) = <<q[1], q[2], q[3]>>
  <1>0. Len(q) \in Nat
    OBVIOUS
  <1>1. ASSUME Len(q) >= 4 PROVE SubSeq(q, 1, 2) = <<q[1], q[2]>>
    <2> DEFINE p == SubSeq(q, 1, 2)
    <2>1. p \in Seq(S) /\ Len(p) = 2 /\ p[1] = q[1] /\ p[2] = q[2]
      BY <1>0, <1>1, SubSeqAt
    <2> HIDE DEF p
    <2>2. p = <<q[1], q[2]>>
      BY <2>1, Pair
    <2>3. QED
      BY <2>2 DEF p
  <1>2. ASSUME Len(q) >= 4 PROVE SubSeq(q, 3, 4) = <<q[3], q[4]>>
    <2> DEFINE p == SubSeq(q, 3, 4)
    <2>1. p \in Seq(S) /\ Len(p) = 2 /\ p[1] = q[3] /\ p[2] = q[4]
      BY <1>0, <1>2, SubSeqAt
    <2> HIDE DEF p
    <2>2. p = <<q[3], q[4]>>
      BY <2>1, Pair
    <2>3. QED
      BY <2>2 DEF p
  <1>3. ASSUME Len(q) >= 3 PROVE SubSeq(q, 1, 3) = <<q[1], q[2], q[3]>>
    <2> DEFINE p == SubSeq(q, 1, 3)
    <2>1. p \in Seq(S) /\ Len(p) = 3 /\ p[1] = q[1] /\ p[2] = q[2] /\ p[3] = q[3]
      BY <1>0, <1>3, SubSeqAt
    <2> HIDE DEF p
    <2>2. p = <<q[1], q[2], q[3]>>
      BY <2>1, Triple
    <2>3. QED
      BY <2>2 DEF p
  <1>4. QED
    BY <1>1, <1>2, <1>3

\* A sequence with one element in front.
LEMMA ConsFacts ==
    ASSUME NEW S, NEW n \in Seq(S), NEW z \in S
    PROVE  /\ <<z>> \o n \in Seq(S) /\ Len(<<z>> \o n) = Len(n) + 1 /\ (<<z>> \o n)[1] = z
           /\ \A i \in 1..Len(n) : (<<z>> \o n)[i + 1] = n[i]
  OBVIOUS

\* Lengths ten and eleven.
LEMMA OneMore ==
    ASSUME NEW x \in Nat, NEW y \in Nat, y = x + 1
    PROVE  /\ y = 11 <=> x = 10
           /\ x = 10 => 1 \in 1..x /\ 2 \in 1..x /\ 3 \in 1..x
  BY SMT

\* A national number without its zero, and with it.
LEMMA WithoutZero ==
    ASSUME NEW S, NEW n \in Seq(S), NEW z \in S
    PROVE  /\ Len(<<z>> \o n) = 11 <=> Len(n) = 10
           /\ Len(n) = 10 => /\ (<<z>> \o n)[2] = n[1] /\ (<<z>> \o n)[3] = n[2]
                             /\ (<<z>> \o n)[4] = n[3]
  <1> DEFINE m == <<z>> \o n
  <1>1. /\ Len(n) \in Nat /\ Len(m) \in Nat /\ Len(m) = Len(n) + 1
        /\ \A i \in 1..Len(n) : m[i + 1] = n[i]
    BY ConsFacts, SeqFacts
  <1> HIDE DEF m
  <1>2. Len(m) = 11 <=> Len(n) = 10
    BY <1>1, OneMore
  <1>3. ASSUME Len(n) = 10 PROVE m[2] = n[1] /\ m[3] = n[2] /\ m[4] = n[3]
    <2>1. 1 \in 1..Len(n) /\ 2 \in 1..Len(n) /\ 3 \in 1..Len(n)
      BY <1>3, SMT
    <2>2. m[1 + 1] = n[1] /\ m[2 + 1] = n[2] /\ m[3 + 1] = n[3]
      BY <1>1, <2>1
    <2>3. QED
      BY <2>2, SMT
  <1>4. QED
    BY <1>2, <1>3 DEF m

\* A number of eleven digits without its first.
LEMMA AfterFirst ==
    ASSUME NEW S, NEW d \in Seq(S), Len(d) >= 1
    PROVE  /\ Len(Drop(d, 1)) = 10 <=> Len(d) = 11
           /\ Len(d) = 11 => /\ Drop(d, 1)[1] = d[2] /\ Drop(d, 1)[2] = d[3]
                             /\ Drop(d, 1)[3] = d[4]
  <1> DEFINE m == Drop(d, 1)
  <1>1. /\ Len(d) \in Nat /\ Len(m) \in Nat /\ Len(d) = Len(m) + 1
        /\ \A i \in 1..Len(m) : m[i] = d[1 + i]
    BY DropFacts, SeqFacts
  <1> HIDE DEF m
  <1>2. Len(m) = 10 <=> Len(d) = 11
    BY <1>1, OneMore
  <1>3. ASSUME Len(m) = 10 PROVE m[1] = d[2] /\ m[2] = d[3] /\ m[3] = d[4]
    <2>1. 1 \in 1..Len(m) /\ 2 \in 1..Len(m) /\ 3 \in 1..Len(m)
      BY <1>3, SMT
    <2>2. m[1] = d[1 + 1] /\ m[2] = d[1 + 2] /\ m[3] = d[1 + 3]
      BY <1>1, <2>1
    <2>3. QED
      BY <2>2, SMT
  <1>4. QED
    BY <1>2, <1>3 DEF m

\* The mobile prefixes of Venezuela.
Mobile(a, b) == <<a, b>> \in {<<1, 2>>, <<1, 4>>, <<1, 6>>, <<2, 4>>, <<2, 6>>}

\* The rule of a Venezuelan phone accepts what has the digits its comment describes.
LEMMA Venezuelan ==
    ASSUME NEW s \in Seq(Characters)
    PROVE  IsValidVenezuelanPhone(s) <=> DigitsDocumented("VenezuelanPhone", s)
  <1> DEFINE d == StripNonDigits(s)
             Right(n) == Len(n) = 10 /\ n[1] = 4 /\ Mobile(n[2], n[3])
             Zero(n) == Len(n) = 11 /\ n[1] = 0 /\ n[2] = 4 /\ Mobile(n[3], n[4])
             intl == IsPrefix(<<5, 8>>, d)
             zero == IsPrefix(<<0>>, d)
  <1>1. d \in Seq(Digits)
    BY StripFacts
  <1>2. ASSUME NEW n \in Seq(Digits)
        PROVE  (Len(n) = 11 /\ SubSeq(n, 1, 2) = <<0, 4>>
                 /\ SubSeq(n, 3, 4) \in {<<1, 2>>, <<1, 4>>, <<1, 6>>, <<2, 4>>, <<2, 6>>})
               <=> Zero(n)
    <2>1. CASE Len(n) = 11
      <3>1. Len(n) >= 4
        BY <2>1, SMT
      <3>2. SubSeq(n, 1, 2) = <<n[1], n[2]>> /\ SubSeq(n, 3, 4) = <<n[3], n[4]>>
        BY <3>1, Slices
      <3>3. QED
        BY <2>1, <3>2 DEF Mobile
    <2>2. QED
      BY <2>1
  <1>3. ASSUME NEW n \in Seq(Digits)
        PROVE  National("VenezuelanPhone", n) <=> Right(n)
    <2>a. \A i \in DOMAIN n : n[i] \in Digits
      OBVIOUS
    <2>1. CASE Len(n) = 10
      <3>1. Len(n) >= 3
        BY <2>1, SMT
      <3>2. SubSeq(n, 1, 3) = <<n[1], n[2], n[3]>>
        BY <3>1, Slices
      <3>3. QED
        BY <2>1, <2>a, <3>2 DEF Mobile, National
    <2>2. QED
      BY <2>1 DEF National
  <1>4. IsValidVenezuelanPhone(s) <=>
          (LET n == IF intl THEN <<0>> \o Drop(d, 2) ELSE d
           IN Len(n) = 11 /\ SubSeq(n, 1, 2) = <<0, 4>>
              /\ SubSeq(n, 3, 4) \in {<<1, 2>>, <<1, 4>>, <<1, 6>>, <<2, 4>>, <<2, 6>>})
    BY DEF IsValidVenezuelanPhone
  <1>5. DigitsDocumented("VenezuelanPhone", s) <=>
          \/ zero /\ National("VenezuelanPhone", Drop(d, 1))
          \/ intl /\ National("VenezuelanPhone", Drop(d, 2))
    BY InForms DEF DigitsDocumented, StripNonDigits
  <1> HIDE DEF d
  <1>6. intl <=> Len(d) >= 2 /\ d[1] = 5 /\ d[2] = 8
    BY <1>1, Prefix2
  <1>7. zero <=> Len(d) >= 1 /\ d[1] = 0
    BY <1>1 DEF IsPrefix
  <1>8. Len(d) \in Nat
    BY <1>1
  <1>9. CASE intl
    <2>1. Drop(d, 2) \in Seq(Digits)
      BY <1>1, <1>6, <1>9, DropFacts
    <2> DEFINE e == Drop(d, 2)
    <2> HIDE DEF e
    <2>2. e \in Seq(Digits)
      BY <2>1 DEF e
    <2>3. /\ <<0>> \o e \in Seq(Digits) /\ Len(<<0>> \o e) = Len(e) + 1
          /\ (<<0>> \o e)[1] = 0 /\ \A i \in 1..Len(e) : (<<0>> \o e)[i + 1] = e[i]
      <3>1. <<0>> \in Seq(Digits)
        BY DEF Digits
      <3>2. QED
        BY <2>2, <3>1
    <2>4. Zero(<<0>> \o e) <=> Right(e)
      <3>1. 0 \in Digits
        BY DEF Digits
      <3>2. QED
        BY <2>2, <2>3, <3>1, WithoutZero
    <2>5. ~zero
      BY <1>6, <1>7, <1>9
    <2> HIDE DEF Zero, Right, zero
    <2>6. QED
      BY <1>2, <1>3, <1>4, <1>5, <1>9, <2>2, <2>3, <2>4, <2>5 DEF e, d
  <1>10. CASE ~intl
    <2>1. IsValidVenezuelanPhone(s) <=> Zero(d)
      BY <1>1, <1>2, <1>4, <1>10
    <2>2. CASE Len(d) = 0
      BY <1>5, <1>7, <1>10, <2>1, <2>2 DEF d
    <2>3. CASE Len(d) >= 1
      <3>1. /\ Drop(d, 1) \in Seq(Digits) /\ Len(Drop(d, 1)) = Len(d) - 1
            /\ \A i \in 1..(Len(d) - 1) : Drop(d, 1)[i] = d[1 + i]
        BY <1>1, <2>3, DropFacts
      <3>2. Right(Drop(d, 1)) <=> Len(d) = 11 /\ d[2] = 4 /\ Mobile(d[3], d[4])
        BY <1>1, <2>3, AfterFirst
      <3>3. QED
        BY <1>3, <1>5, <1>7, <1>10, <2>1, <2>3, <3>1, <3>2 DEF d
    <2>4. QED
      BY <1>8, <2>2, <2>3
  <1>11. QED
    BY <1>9, <1>10

\* A documented Brazilian number is accepted, unless it is national and has area code 55.
LEMMA Brazilian ==
    ASSUME NEW s \in Seq(Characters), DigitsDocumented("PixKey", s), ~AreaCode55("PixKey", s)
    PROVE  IsValidBrazilianPhone(s)
  <1> DEFINE d == StripNonDigits(s)
             Right(n) == Len(n) = 11 /\ n[1] # 0 /\ n[3] = 9
             intl == IsPrefix(<<5, 5>>, d)
  <1>1. d \in Seq(Digits)
    BY StripFacts
  <1>2. (IsPrefix(<<>>, d) /\ Right(Drop(d, 0))) \/ (intl /\ Right(Drop(d, 2)))
    BY InForms DEF DigitsDocumented, StripNonDigits, National
  <1>3. ~(Len(d) = 11 /\ SubSeq(d, 1, 2) = <<5, 5>>)
    BY DEF AreaCode55, StripNonDigits
  <1>4. IsValidBrazilianPhone(s) <=> Right(IF intl /\ Len(d) > 2 /\ d[3] # 0 THEN Drop(d, 2) ELSE d)
    BY DEF IsValidBrazilianPhone
  <1> HIDE DEF d
  <1>5. Drop(d, 0) = d /\ Len(d) \in Nat
    BY <1>1 DEF Drop
  <1>6. intl <=> Len(d) >= 2 /\ d[1] = 5 /\ d[2] = 5
    BY <1>1, Prefix2
  <1>7. CASE Right(d)
    <2>1. Len(d) >= 4
      BY <1>7, SMT
    <2>2. SubSeq(d, 1, 2) = <<d[1], d[2]>>
      BY <1>1, <2>1, Slices
    <2>3. ~intl
      BY <1>3, <1>6, <1>7, <2>2
    <2>4. QED
      BY <1>4, <1>7, <2>3
  <1>8. CASE intl /\ Right(Drop(d, 2))
    <2>1. /\ Len(Drop(d, 2)) = Len(d) - 2
          /\ \A i \in 1..(Len(d) - 2) : Drop(d, 2)[i] = d[2 + i]
      <3>1. 2 \in Nat /\ 2 <= Len(d)
        BY <1>5, <1>6, <1>8
      <3>2. QED
        BY <1>1, <3>1, DropFacts
    <2>2. Len(d) > 2
      BY <1>5, <1>8, <2>1, SMT
    <2>3. 1 \in 1..(Len(d) - 2) /\ 2 + 1 = 3
      BY <1>5, <2>2
    <2>4. Drop(d, 2)[1] = d[3]
      BY <2>1, <2>3
    <2>5. QED
      BY <1>4, <1>8, <2>2, <2>4
  <1>9. QED
    BY <1>2, <1>5, <1>7, <1>8

\* What a provider with one of the phone rules accepts.
LEMMA PhoneRules ==
    ASSUME NEW p, NEW s
    PROVE  /\ ResolveValidator(p) = "CostaRicanPhone" =>
                 (IsValid(p, s) <=> IsValidCostaRicanPhone(s))
           /\ ResolveValidator(p) = "VenezuelanPhone" =>
                 (IsValid(p, s) <=> IsValidVenezuelanPhone(s))
           /\ ResolveValidator(p) = "PixKey" => (IsValid(p, s) <=> IsValidPixKey(s))
  BY DEF IsValid

\* The separators of the comments and the plus sign are no digits.
LEMMA Separated ==
    Digits \subseteq Characters \ (PhoneSeparators \cup {Plus})
  BY SMT DEF Digits, Characters, PhoneSeparators, Plus, Space, Dash, LeftParenthesis,
             RightParenthesis

\* Keep, by the positions it keeps.
Taken(s, P) == [k \in 1..Cardinality(P) |-> s[CHOOSE i \in P : Cardinality(P \cap 1..i) = k]]

\* When all that is left without separators and plus signs are digits, all digits are left.
LEMMA OnlyDigitsLeft ==
    ASSUME NEW s \in Seq(Characters), NEW R, Digits \subseteq R,
           \A k \in DOMAIN Keep(s, R) : Keep(s, R)[k] \in Digits
    PROVE  Keep(s, R) = Keep(s, Digits)
  <1>1. Positions(s, Digits) \subseteq Positions(s, R)
    BY DEF Positions
  <1>2. ASSUME NEW i \in Positions(s, R) PROVE i \in Positions(s, Digits)
    <2>1. /\ Rank(Positions(s, R), i) \in 1..Cardinality(Positions(s, R))
          /\ Keep(s, R)[Rank(Positions(s, R), i)] = s[i]
          /\ Keep(s, R) \in Seq(Characters \cap R)
          /\ Len(Keep(s, R)) = Cardinality(Positions(s, R))
      BY KeepFacts
    <2>2. Rank(Positions(s, R), i) \in DOMAIN Keep(s, R)
      BY <2>1
    <2>3. s[i] \in Digits
      BY <2>1, <2>2
    <2>4. i \in DOMAIN s
      BY DEF Positions
    <2>5. QED
      BY <2>3, <2>4 DEF Positions
  <1>3. Positions(s, R) = Positions(s, Digits)
    BY <1>1, <1>2
  <1>4. /\ Keep(s, R) = Taken(s, Positions(s, R))
        /\ Keep(s, Digits) = Taken(s, Positions(s, Digits))
    BY DEF Keep, Taken, Positions
  <1>5. QED
    BY <1>3, <1>4

\* What is a national number after a prefix of digits are digits.
LEMMA FormDigits ==
    ASSUME NEW S, NEW n \in Seq(S), NEW p \in Seq(Digits), NEW rule,
           IsPrefix(p, n), National(rule, Drop(n, Len(p)))
    PROVE  \A i \in DOMAIN n : n[i] \in Digits
  <1>1. Len(p) \in Nat /\ Len(n) \in Nat /\ DOMAIN n = 1..Len(n) /\ DOMAIN p = 1..Len(p)
    BY SeqFacts
  <1>2. Len(p) <= Len(n) /\ \A i \in 1..Len(p) : n[i] = p[i]
    BY <1>1 DEF IsPrefix
  <1>3. /\ Len(Drop(n, Len(p))) = Len(n) - Len(p) /\ Drop(n, Len(p)) \in Seq(S)
        /\ \A i \in 1..(Len(n) - Len(p)) : Drop(n, Len(p))[i] = n[Len(p) + i]
    <2> DEFINE k == Len(p)
    <2>1. k \in Nat /\ k <= Len(n)
      BY <1>1, <1>2
    <2> HIDE DEF k
    <2>2. /\ Drop(n, k) \in Seq(S) /\ Len(Drop(n, k)) = Len(n) - k
          /\ \A i \in 1..(Len(n) - k) : Drop(n, k)[i] = n[k + i]
      BY <2>1, DropFacts
    <2>3. QED
      BY <2>2 DEF k
  <1>4. \A i \in 1..(Len(n) - Len(p)) : Drop(n, Len(p))[i] \in Digits
    BY <1>3 DEF National
  <1>5. ASSUME NEW i \in 1..Len(n) PROVE n[i] \in Digits
    <2>1. CASE i <= Len(p)
      <3>1. i \in 1..Len(p)
        BY <1>1, <2>1
      <3>2. QED
        BY <1>1, <1>2, <3>1
    <2>2. CASE ~(i <= Len(p))
      <3>1. i - Len(p) \in 1..(Len(n) - Len(p)) /\ Len(p) + (i - Len(p)) = i
        BY <1>1, <2>2
      <3>2. QED
        BY <1>3, <1>4, <3>1
    <2>3. QED
      BY <2>1, <2>2
  <1>6. QED
    BY <1>1, <1>5

\* The prefixes are digits.
LEMMA PrefixesAreDigits ==
    ASSUME NEW rule, NEW form \in Forms(rule)
    PROVE  form.prefix \in Seq(Digits)
  <1>1. ASSUME NEW plus, NEW prefix \in Seq(Digits), form = Form(plus, prefix)
        PROVE  form.prefix \in Seq(Digits)
    BY <1>1 DEF Form
  <1>2. /\ <<>> \in Seq(Digits) /\ <<0>> \in Seq(Digits) /\ <<5, 8>> \in Seq(Digits)
        /\ <<5, 5>> \in Seq(Digits) /\ <<5, 0, 6>> \in Seq(Digits)
        /\ <<0, 0, 5, 0, 6>> \in Seq(Digits)
    BY DEF Digits
  <1>3. CASE rule = "CostaRicanPhone"
    <2>1. form \in {Form(FALSE, <<>>), Form(TRUE, <<5, 0, 6>>), Form(FALSE, <<5, 0, 6>>),
                    Form(FALSE, <<0, 0, 5, 0, 6>>)}
      BY <1>3 DEF Forms
    <2>2. \/ form = Form(FALSE, <<>>) \/ form = Form(TRUE, <<5, 0, 6>>)
          \/ form = Form(FALSE, <<5, 0, 6>>) \/ form = Form(FALSE, <<0, 0, 5, 0, 6>>)
      BY <2>1, Zenon
    <2>3. CASE form = Form(FALSE, <<>>)
      BY <1>1, <1>2, <2>3, Zenon
    <2>4. CASE form = Form(TRUE, <<5, 0, 6>>)
      BY <1>1, <1>2, <2>4, Zenon
    <2>5. CASE form = Form(FALSE, <<5, 0, 6>>)
      BY <1>1, <1>2, <2>5, Zenon
    <2>6. CASE form = Form(FALSE, <<0, 0, 5, 0, 6>>)
      BY <1>1, <1>2, <2>6, Zenon
    <2>7. QED
      BY <2>2, <2>3, <2>4, <2>5, <2>6, Zenon
  <1>4. CASE rule = "VenezuelanPhone"
    <2>1. form \in {Form(FALSE, <<0>>), Form(TRUE, <<5, 8>>)}
      BY <1>4 DEF Forms
    <2>2. form = Form(FALSE, <<0>>) \/ form = Form(TRUE, <<5, 8>>)
      BY <2>1, Zenon
    <2>3. CASE form = Form(FALSE, <<0>>)
      BY <1>1, <1>2, <2>3, Zenon
    <2>4. CASE form = Form(TRUE, <<5, 8>>)
      BY <1>1, <1>2, <2>4, Zenon
    <2>5. QED
      BY <2>2, <2>3, <2>4, Zenon
  <1>5. CASE rule = "PixKey"
    <2>1. form \in {Form(FALSE, <<>>), Form(TRUE, <<5, 5>>)}
      BY <1>5 DEF Forms
    <2>2. form = Form(FALSE, <<>>) \/ form = Form(TRUE, <<5, 5>>)
      BY <2>1, Zenon
    <2>3. CASE form = Form(FALSE, <<>>)
      BY <1>1, <1>2, <2>3, Zenon
    <2>4. CASE form = Form(TRUE, <<5, 5>>)
      BY <1>1, <1>2, <2>4, Zenon
    <2>5. QED
      BY <2>2, <2>3, <2>4, Zenon
  <1>6. rule \in {"CostaRicanPhone", "VenezuelanPhone", "PixKey"}
    BY DEF Forms
  <1>7. QED
    BY <1>3, <1>4, <1>5, <1>6

\* A string that is documented has documented digits: only separators and a plus sign were
\* taken out of it.
LEMMA DocumentedDigits ==
    ASSUME NEW s \in Seq(Characters), NEW rule, Documented(rule, s)
    PROVE  DigitsDocumented(rule, s)
  <1> DEFINE R == Characters \ (PhoneSeparators \cup {Plus})
             n == Keep(s, R)
  <1>1. PICK form \in Forms(rule) : InForm(rule, form, n)
    BY DEF Documented
  <1>2. n \in Seq(Characters \cap R)
    BY KeepFacts
  <1>3. form.prefix \in Seq(Digits)
    BY PrefixesAreDigits
  <1>4. \A i \in DOMAIN n : n[i] \in Digits
    <2> HIDE DEF n
    <2>1. IsPrefix(form.prefix, n) /\ National(rule, Drop(n, Len(form.prefix)))
      BY <1>1 DEF InForm
    <2>2. QED
      BY <1>2, <1>3, <2>1, FormDigits
  <1>5. Digits \subseteq R
    BY Separated
  <1> HIDE DEF R
  <1>6. n = Keep(s, Digits)
    BY <1>4, <1>5, OnlyDigitsLeft
  <1>7. QED
    BY <1>1, <1>6 DEF DigitsDocumented

\* The phone rules accept every string their comments describe (Brazilian area code 55
\* excepted), and the mobile rules accept only strings with the digits of one: neither a
\* documented separator, nor a prefix whose digits the number repeats, makes a difference.
\* Nothing is said about the other characters of a string that is accepted.
THEOREM PhonesAsDocumentedHolds == ValidateSpec => []PhonesAsDocumented
  <1>1. VerdictRight => PhonesAsDocumented
    <2> DEFINE s == call.identifier
               rule == ResolveValidator(call.provider)
    <2> SUFFICES ASSUME VerdictRight
                 PROVE  /\ Documented(rule, s) /\ ~AreaCode55(rule, s) => verdict # "rejected"
                        /\ rule \in {"CostaRicanPhone", "VenezuelanPhone"} /\ verdict = "accepted"
                             => DigitsDocumented(rule, s)
      BY DEF PhonesAsDocumented
    <2>1. s \in Seq(Characters)
      BY CallTyped
    <2>2. /\ verdict = "rejected" => ~IsValid(call.provider, s)
          /\ verdict = "accepted" => IsValid(call.provider, s)
      BY DEF VerdictRight
    <2>3. CASE rule = "CostaRicanPhone"
      BY <2>1, <2>2, <2>3, CostaRican, PhoneRules, DocumentedDigits
    <2>4. CASE rule = "VenezuelanPhone"
      BY <2>1, <2>2, <2>4, Venezuelan, PhoneRules, DocumentedDigits
    <2>5. CASE rule = "PixKey"
      BY <2>1, <2>2, <2>5, Brazilian, PhoneRules, DocumentedDigits DEF IsValidPixKey
    <2>6. CASE rule \notin {"CostaRicanPhone", "VenezuelanPhone", "PixKey"}
      BY <2>6 DEF Documented, Forms
    <2>7. QED
      BY <2>3, <2>4, <2>5, <2>6
  <1>2. QED
    BY <1>1, VerdictsRight, PTL

----------------------------------------------------------------------------
(* Banks *)

\* A bounded set of numbers has a greatest one.
LEMMA MaxExists ==
    ASSUME NEW S, NEW n \in Nat, S \subseteq 1..n, S # {}
    PROVE  \E x \in S : \A y \in S : y <= x
  <1> DEFINE T == {n - x : x \in S}
  <1>1. T \subseteq Nat /\ T # {}
    <2>1. \A x \in S : n - x \in Nat
      OBVIOUS
    <2>2. QED
      BY <2>1
  <1>2. PICK t \in T : \A u \in T : t <= u
    <2> HIDE DEF T
    <2>1. QED
      BY <1>1, LeastExists
  <1>3. PICK x \in S : t = n - x
    BY <1>2
  <1>4. ASSUME NEW y \in S PROVE y <= x
    <2>1. n - y \in T /\ x \in Nat /\ y \in Nat
      OBVIOUS
    <2>2. n - x <= n - y
      BY <1>2, <1>3, <2>1
    <2>3. QED
      BY <2>1, <2>2
  <1>5. QED
    BY <1>4

\* trim takes characters off the ends only, and spaces only.
LEMMA TrimFacts ==
    ASSUME NEW s \in Seq(Characters)
    PROVE  /\ Trim(s) \in Seq(Characters)
           /\ Cardinality(Positions(s, Characters \ {Space})) <= Len(Trim(s))
           /\ \A k \in 1..Len(Trim(s)) : \E i \in DOMAIN s : Trim(s)[k] = s[i]
  <1> DEFINE P == {i \in DOMAIN s : s[i] # Space}
  <1>1. Len(s) \in Nat /\ DOMAIN s = 1..Len(s) /\ \A i \in 1..Len(s) : s[i] \in Characters
    BY SeqFacts
  <1>2. Positions(s, Characters \ {Space}) = P /\ P \subseteq 1..Len(s)
    BY <1>1 DEF Positions
  <1>3. Trim(s) = IF P = {} THEN <<>> ELSE SubSeq(s, Min(P), Max(P))
    BY DEF Trim
  <1> HIDE DEF P
  <1>4. CASE P = {}
    <2>1. Trim(s) = <<>>
      BY <1>3, <1>4
    <2>2. Trim(s) \in Seq(Characters) /\ Len(Trim(s)) = 0
      BY <2>1
    <2>3. Cardinality(P) = 0
      BY <1>4, FS_EmptySet
    <2>4. QED
      BY <1>2, <2>2, <2>3
  <1>5. CASE P # {}
    <2> DEFINE a == Min(P)
               b == Max(P)
    <2>1. a \in P /\ \A y \in P : a <= y
      <3>1. P \subseteq Nat
        BY <1>1, <1>2
      <3>2. \E x \in P : \A y \in P : x <= y
        BY <1>5, <3>1, LeastExists
      <3>3. QED
        BY <3>2 DEF Min
    <2>2. b \in P /\ \A y \in P : y <= b
      <3>1. \E x \in P : \A y \in P : y <= x
        BY <1>1, <1>2, <1>5, MaxExists
      <3>2. \E x \in P : \A y \in P : x >= y
        BY <1>1, <1>2, <3>1
      <3>3. b \in P /\ \A y \in P : b >= y
        BY <3>2 DEF Max
      <3>4. QED
        BY <1>1, <1>2, <3>3
    <2>3. Trim(s) = SubSeq(s, a, b)
      BY <1>3, <1>5
    <2> HIDE DEF a, b
    <2>4. a \in Nat \ {0} /\ b \in Nat /\ a <= b + 1 /\ b <= Len(s) /\ b - a + 1 \in Nat
      BY <1>1, <1>2, <2>1, <2>2
    <2>5. /\ Trim(s) \in Seq(Characters) /\ Len(Trim(s)) = b - a + 1
          /\ \A i \in 1..(b - a + 1) : Trim(s)[i] = s[a + i - 1]
      BY <2>3, <2>4, SubSeqAt
    <2>6. Cardinality(P) <= b - a + 1
      <3>1. P \in SUBSET (a..b)
        BY <1>1, <1>2, <2>1, <2>2
      <3>2. IsFiniteSet(a..b) /\ Cardinality(a..b) = b - a + 1
        BY <2>1, <2>2, <2>4, FS_Interval
      <3>3. QED
        BY <3>1, <3>2, FS_Subset
    <2>7. \A i \in 1..(b - a + 1) : a + i - 1 \in 1..Len(s)
      BY <1>1, <2>4
    <2>8. QED
      BY <1>1, <1>2, <2>5, <2>6, <2>7
  <1>6. QED
    BY <1>4, <1>5

\* The rules of bank providers.
BankRuleNames == {"BankAccount", "PanamaAccount", "CostaRicanBankAccount", "BacCredomaticAccount"}

\* Every bank provider has one of the bank rules.
LEMMA BankRules ==
    ASSUME NEW p, p.type = "BANK"
    PROVE  ResolveValidator(p) \in BankRuleNames
  <1>1. ASSUME NEW c, NEW k
        PROVE  Validators("BANK", c, k) \in BankRuleNames \cup {"undefined"}
    BY DEF Validators, BankRuleNames
  <1>2. Validators("BANK", "GLOBAL", "") \in BankRuleNames
    BY DEF Validators, BankRuleNames
  <1>3. QED
    BY <1>1, <1>2 DEF ResolveValidator

\* What a bank provider accepts.
LEMMA BankAccepts ==
    ASSUME NEW p, p.type = "BANK", NEW s, IsValid(p, s)
    PROVE  \/ IsValidBankAccount(s)
           \/ IsValidIban(s)
           \/ IsValidCostaRicanBankAccount(s)
           \/ IsValidBacCredomaticAccount(s)
  BY BankRules DEF IsValid, BankRuleNames

\* What compacting keeps.
Visible == Characters \ {Space}

\* Upper case makes characters of characters, and digits of digits only.
LEMMA UpperFacts ==
    /\ \A c \in Characters : Upper(c) \in Characters
    /\ \A c \in Characters : Upper(c) \in Digits => c \in Digits
  BY SMT DEF Upper, LowerCase, Characters, Digits

\* The compact form has the visible characters, in upper case.
LEMMA CompactFacts ==
    ASSUME NEW s \in Seq(Characters)
    PROVE  LET K == Keep(s, Visible) IN
           /\ K \in Seq(Characters) /\ Len(K) \in Nat
           /\ Compact(s) \in Seq(Characters) /\ Len(Compact(s)) = Len(K)
           /\ \A i \in 1..Len(K) : Compact(s)[i] = Upper(K[i])
  <1> DEFINE K == Keep(s, Visible)
  <1>1. K \in Seq(Characters \cap Visible)
    BY KeepFacts
  <1>2. Compact(s) = [i \in DOMAIN K |-> Upper(K[i])]
    BY DEF Compact, Visible
  <1> HIDE DEF K
  <1>3. /\ Len(K) \in Nat /\ DOMAIN K = 1..Len(K)
        /\ \A i \in 1..Len(K) : K[i] \in Characters \cap Visible
    BY <1>1, SeqFacts
  <1>4. \A i \in 1..Len(K) : Upper(K[i]) \in Characters
    BY <1>3, UpperFacts
  <1>5. K \in Seq(Characters)
    BY <1>1, <1>3
  <1>6. Compact(s) \in [1..Len(K) -> Characters]
    BY <1>2, <1>3, <1>4
  <1>7. Compact(s) \in Seq(Characters) /\ Len(Compact(s)) = Len(K)
    BY <1>3, <1>6, SeqMade
  <1>8. QED
    BY <1>2, <1>3, <1>5, <1>7 DEF K

\* The lengths the bank rules ask for are at least four.
LEMMA LongEnough ==
    ASSUME NEW n, n \in 4..34 \/ n \in 10..17 \/ n \in 15..34
    PROVE  n \in Nat /\ n >= 4
  BY SMT

\* What BanksValidated asks of an accepted identifier.
Real(s) == Len(Trim(s)) >= 4 /\ StripNonDigits(s) # <<>>

\* A digit after trimming was there before.
LEMMA TrimmedDigit ==
    ASSUME NEW s \in Seq(Characters), NEW k \in DOMAIN Trim(s), Trim(s)[k] \in Digits
    PROVE  StripNonDigits(s) # <<>>
  <1>1. k \in 1..Len(Trim(s))
    BY TrimFacts, SeqFacts
  <1>2. PICK i \in DOMAIN s : Trim(s)[k] = s[i]
    BY <1>1, TrimFacts
  <1>3. QED
    BY <1>2, StripFacts

\* isValidBankAccount accepts real identifiers only.
LEMMA BankAccountReal ==
    ASSUME NEW s \in Seq(Characters), IsValidBankAccount(s)
    PROVE  Real(s)
  <1>1. Len(Trim(s)) \in 4..34 /\ \E i \in DOMAIN Trim(s) : Trim(s)[i] \in Digits
    BY DEF IsValidBankAccount
  <1>2. Len(Trim(s)) >= 4
    BY <1>1, LongEnough
  <1>3. QED
    BY <1>1, <1>2, TrimmedDigit DEF Real

\* So does isValidCostaRicanBankAccount.
LEMMA CostaRicanAccountReal ==
    ASSUME NEW s \in Seq(Characters), IsValidCostaRicanBankAccount(s)
    PROVE  Real(s)
  <1> DEFINE v == Trim(s)
  <1>1. v \in Seq(Characters) /\ Len(v) \in Nat /\ DOMAIN v = 1..Len(v)
    BY TrimFacts, SeqFacts
  <1>2. \/ \E a, b \in {<<>>, <<Dash>>, <<Space>>} :
             Len(v) = 12 + Len(a) + Len(b) /\ Len(StripNonDigits(v)) = 12
        \/ Len(v) \in 10..17 /\ \A i \in DOMAIN v : v[i] \in Digits
    BY DEF IsValidCostaRicanBankAccount
  <1> HIDE DEF v
  <1>3. CASE \E a, b \in {<<>>, <<Dash>>, <<Space>>} :
                Len(v) = 12 + Len(a) + Len(b) /\ Len(StripNonDigits(v)) = 12
    <2>1. PICK a \in {<<>>, <<Dash>>, <<Space>>}, b \in {<<>>, <<Dash>>, <<Space>>} :
                Len(v) = 12 + Len(a) + Len(b) /\ Len(StripNonDigits(v)) = 12
      BY <1>3
    <2>2. Len(a) \in 0..1 /\ Len(b) \in 0..1
      OBVIOUS
    <2>3. Len(v) >= 4
      BY <2>1, <2>2, SMT
    <2>4. \E i \in DOMAIN v : v[i] \in Digits
      <3>1. Cardinality(Positions(v, Digits)) = 12
        BY <1>1, <2>1, StripFacts
      <3>2. Positions(v, Digits) # {}
        <4>1. SUFFICES ASSUME Positions(v, Digits) = {} PROVE FALSE
          OBVIOUS
        <4>2. Cardinality(Positions(v, Digits)) = 0
          BY <4>1, FS_EmptySet
        <4>3. QED
          BY <3>1, <4>2, SMT
      <3>3. QED
        BY <3>2 DEF Positions
    <2>5. QED
      BY <2>3, <2>4, TrimmedDigit DEF Real, v
  <1>4. CASE Len(v) \in 10..17 /\ \A i \in DOMAIN v : v[i] \in Digits
    <2>0. Len(v) >= 4 /\ Len(v) \in Nat
      BY <1>4, LongEnough
    <2>1. Len(v) >= 4 /\ 1 \in 1..Len(v)
      BY <2>0
    <2>2. QED
      BY <1>1, <1>4, <2>1, TrimmedDigit DEF Real, v
  <1>5. QED
    BY <1>2, <1>3, <1>4

\* Digits are not spaces.
LEMMA DigitsVisible ==
    ASSUME NEW s \in Seq(Characters)
    PROVE  Cardinality(Positions(s, Digits)) <= Cardinality(Positions(s, Visible))
  <1>1. Digits \subseteq Visible
    BY SMT DEF Digits, Visible, Characters, Space
  <1>2. Positions(s, Digits) \in SUBSET Positions(s, Visible)
    BY <1>1 DEF Positions
  <1>3. Len(s) \in Nat /\ Positions(s, Visible) \in SUBSET (1..Len(s))
    BY KeepFacts
  <1>4. IsFiniteSet(Positions(s, Visible))
    BY <1>3, RankFacts
  <1>5. QED
    BY <1>2, <1>4, FS_Subset

\* So does isValidBacCredomaticAccount.
LEMMA BacAccountReal ==
    ASSUME NEW s \in Seq(Characters), IsValidBacCredomaticAccount(s)
    PROVE  Real(s)
  <1>1. Cardinality(Positions(s, Digits)) = 10 /\ Len(StripNonDigits(s)) = 10
    BY StripFacts DEF IsValidBacCredomaticAccount
  <1>2. /\ Cardinality(Positions(s, Digits)) <= Cardinality(Positions(s, Visible))
        /\ Cardinality(Positions(s, Visible)) <= Len(Trim(s))
        /\ Cardinality(Positions(s, Visible)) \in Nat /\ Len(Trim(s)) \in Nat
    BY DigitsVisible, TrimFacts, KeepFacts, SeqFacts DEF Visible
  <1>3. Len(Trim(s)) >= 4
    BY <1>1, <1>2, SMT
  <1>4. StripNonDigits(s) # <<>>
    <2>1. SUFFICES ASSUME StripNonDigits(s) = <<>> PROVE FALSE
      OBVIOUS
    <2>2. Len(StripNonDigits(s)) = 0
      BY <2>1
    <2>3. QED
      BY <1>1, <2>2, SMT
  <1>5. QED
    BY <1>3, <1>4 DEF Real

\* So does isValidIban.
LEMMA IbanReal ==
    ASSUME NEW s \in Seq(Characters), IsValidIban(s)
    PROVE  Real(s)
  <1> DEFINE K == Keep(s, Visible)
  <1>1. Len(Compact(s)) \in 15..34 /\ Compact(s)[3] \in Digits
    <2>1. 3 \in 3..4
      OBVIOUS
    <2>2. QED
      BY <2>1 DEF IsValidIban
  <1>2. /\ Len(K) = Len(Compact(s)) /\ Len(K) = Cardinality(Positions(s, Visible))
        /\ \A i \in 1..Len(K) : Compact(s)[i] = Upper(K[i]) /\ K[i] \in Characters
    BY CompactFacts, KeepFacts, SeqFacts
  <1>3. Cardinality(Positions(s, Visible)) <= Len(Trim(s)) /\ Len(Trim(s)) \in Nat
    BY TrimFacts, SeqFacts DEF Visible
  <1>4. Len(Trim(s)) >= 4 /\ 3 \in 1..Len(K)
    <2>1. Len(Compact(s)) \in Nat /\ Len(Compact(s)) >= 4
      BY <1>1, LongEnough
    <2>2. QED
      BY <1>2, <1>3, <2>1
  <1>5. K[3] \in Digits
    BY <1>1, <1>2, <1>4, UpperFacts
  <1>6. PICK i \in Positions(s, Visible) : K[3] = s[i]
    BY <1>4, KeepSource
  <1>7. i \in DOMAIN s /\ s[i] \in Digits
    BY <1>5, <1>6 DEF Positions
  <1>8. QED
    BY <1>4, <1>7, StripFacts DEF Real

\* No bank provider, of whatever country and code, accepts an identifier that has less
\* than four characters or no digits.
THEOREM BanksValidatedHolds == ValidateSpec => []BanksValidated
  <1>1. VerdictRight => BanksValidated
    <2> SUFFICES ASSUME VerdictRight, call.provider.type = "BANK", verdict = "accepted"
                 PROVE  Real(call.identifier)
      BY DEF BanksValidated, Real
    <2>1. call.identifier \in Seq(Characters) /\ IsValid(call.provider, call.identifier)
      BY CallTyped DEF VerdictRight
    <2>2. QED
      BY <2>1, BankAccepts, BankAccountReal, CostaRicanAccountReal, BacAccountReal, IbanReal
  <1>2. QED
    BY <1>1, VerdictsRight, PTL

----------------------------------------------------------------------------
(* Remainders by 97 *)

\* How the remainder changes with the next character.
RemStep(r, c) == IF c \in Digits THEN (10 * r + c) % 97 ELSE (100 * r + c) % 97

\* A digit more, before or after the remainder is taken.
LEMMA TenMod ==
    ASSUME NEW x \in Nat, NEW c \in Nat
    PROVE  (10 * x + c) % 97 = (10 * (x % 97) + c) % 97
  <1> DEFINE q == x \div 97
             r == x % 97
  <1>1. x = 97 * q + r /\ q \in Nat /\ r \in 0..96
    BY SMT
  <1> HIDE DEF q, r
  <1>2. 10 * x + c = 97 * (10 * q) + (10 * r + c)
    BY <1>1, SMT
  <1>3. (97 * (10 * q) + (10 * r + c)) % 97 = (10 * r + c) % 97
    BY <1>1, SMT
  <1>4. QED
    BY <1>2, <1>3 DEF r

\* The two digits of a letter.
LEMMA TwoDigits ==
    ASSUME NEW r \in 0..96, NEW c \in 10..35
    PROVE  (10 * ((10 * r + c \div 10) % 97) + (c % 10)) % 97 = (100 * r + c) % 97
  <1> DEFINE a == c \div 10
             b == c % 10
  <1>1. a \in Nat /\ b \in Nat /\ c = 10 * a + b
    BY SMT
  <1> HIDE DEF a, b
  <1>2. (10 * (10 * r + a) + b) % 97 = (10 * ((10 * r + a) % 97) + b) % 97
    <2>1. 10 * r + a \in Nat
      BY <1>1
    <2>2. QED
      BY <1>1, <2>1, TenMod
  <1>3. 10 * (10 * r + a) + b = 100 * r + c
    BY <1>1, SMT
  <1>4. QED
    BY <1>2, <1>3 DEF a, b

\* Remainders stay below 97.
LEMMA RemStepType ==
    ASSUME NEW r \in 0..96, NEW c \in 0..35
    PROVE  RemStep(r, c) \in 0..96
  BY SMT DEF RemStep, Digits

\* A wrong remainder stays wrong.
LEMMA RemStepInjective ==
    ASSUME NEW r \in 0..96, NEW q \in 0..96, NEW c \in 0..35, RemStep(r, c) = RemStep(q, c)
    PROVE  r = q
  <1>1. CASE c \in Digits
    BY <1>1, SMT DEF RemStep, Digits
  <1>2. CASE c \notin Digits
    <2> DEFINE x == 100 * r + c
               y == 100 * q + c
               k == (x \div 97) - (y \div 97)
    <2>1. x \in Nat /\ y \in Nat /\ x % 97 = y % 97
      BY <1>2, SMT DEF RemStep
    <2>2. x - y = 97 * k /\ k \in Int
      <3> HIDE DEF x, y
      <3>1. QED
        BY <2>1, SMT
    <2>3. x - y = 100 * (r - q)
      BY SMT
    <2> HIDE DEF x, y, k
    <2>4. 100 * (r - q) = 97 * k
      BY <2>2, <2>3, Zenon
    <2>5. QED
      BY <2>2, <2>4, SMT
  <1>3. QED
    BY <1>1, <1>2

\* Two digits or two capital letters.
SameKind(a, b) == (a \in Digits /\ b \in Digits) \/ (a \in Letters /\ b \in Letters)

\* A mistyped character gives another remainder.
LEMMA RemStepTypo ==
    ASSUME NEW r \in 0..96, NEW a \in 0..35, NEW b \in 0..35, SameKind(a, b),
           RemStep(r, a) = RemStep(r, b)
    PROVE  a = b
  BY SMT DEF RemStep, Digits, Letters, SameKind

\* So do two neighbours that change places.
LEMMA RemStepSwap ==
    ASSUME NEW r \in 0..96, NEW a \in 0..35, NEW b \in 0..35, SameKind(a, b),
           RemStep(RemStep(r, a), b) = RemStep(RemStep(r, b), a)
    PROVE  a = b
  BY SMT DEF RemStep, Digits, Letters, SameKind

\* The powers of ten.
IsPowers(P) == P[0] = 1 /\ \A i \in 1..65 : P[i] = (10 * P[i - 1]) % 97

\* The powers exist.
LEMMA PowersExist == \E P \in [0..65 -> 0..96] : IsPowers(P)
  <1> DEFINE step == [p \in (0..96) \X (1..65) |-> (10 * p[1]) % 97]
  <1>1. \A x \in 0..96 : (10 * x) % 97 \in 0..96
    BY SMT
  <1>2. step \in Steps(0..96, 65)
    BY <1>1 DEF Steps
  <1> HIDE DEF step
  <1>3. 1 \in 0..96 /\ 65 \in Nat
    BY SMT
  <1>4. PICK P : IsLoop(P, 0..96, 1, 65, step)
    BY <1>2, <1>3, LoopDefined, ZenonT(60)
  <1>5. P \in [0..65 -> 0..96] /\ P[0] = 1 /\ \A i \in 1..65 : P[i] = step[<<P[i - 1], i>>]
    BY <1>4, ZenonT(60) DEF IsLoop
  <1>6. ASSUME NEW i \in 1..65 PROVE P[i] = (10 * P[i - 1]) % 97
    <2>1. P[i - 1] \in 0..96
      BY <1>5, SMT
    <2>2. QED
      BY <1>5, <2>1, ZenonT(60) DEF step
  <1>7. QED
    BY <1>5, <1>6, ZenonT(60) DEF IsPowers

\* None of the first 65 is 1 again.
LEMMA PowersNotOne ==
    ASSUME NEW P, IsPowers(P)
    PROVE  \A i \in 1..65 : P[i] # 1
  <1>1. P[1] = 10 /\ P[2] = 3 /\ P[3] = 30 /\ P[4] = 9 /\ P[5] = 90
    BY SMT DEF IsPowers
  <1>2. P[6] = 27 /\ P[7] = 76 /\ P[8] = 81 /\ P[9] = 34 /\ P[10] = 49
    BY <1>1, SMT DEF IsPowers
  <1>3. P[11] = 5 /\ P[12] = 50 /\ P[13] = 15 /\ P[14] = 53 /\ P[15] = 45
    BY <1>2, SMT DEF IsPowers
  <1>4. P[16] = 62 /\ P[17] = 38 /\ P[18] = 89 /\ P[19] = 17 /\ P[20] = 73
    BY <1>3, SMT DEF IsPowers
  <1>5. P[21] = 51 /\ P[22] = 25 /\ P[23] = 56 /\ P[24] = 75 /\ P[25] = 71
    BY <1>4, SMT DEF IsPowers
  <1>6. P[26] = 31 /\ P[27] = 19 /\ P[28] = 93 /\ P[29] = 57 /\ P[30] = 85
    BY <1>5, SMT DEF IsPowers
  <1>7. P[31] = 74 /\ P[32] = 61 /\ P[33] = 28 /\ P[34] = 86 /\ P[35] = 84
    BY <1>6, SMT DEF IsPowers
  <1>8. P[36] = 64 /\ P[37] = 58 /\ P[38] = 95 /\ P[39] = 77 /\ P[40] = 91
    BY <1>7, SMT DEF IsPowers
  <1>9. P[41] = 37 /\ P[42] = 79 /\ P[43] = 14 /\ P[44] = 43 /\ P[45] = 42
    BY <1>8, SMT DEF IsPowers
  <1>10. P[46] = 32 /\ P[47] = 29 /\ P[48] = 96 /\ P[49] = 87 /\ P[50] = 94
    BY <1>9, SMT DEF IsPowers
  <1>11. P[51] = 67 /\ P[52] = 88 /\ P[53] = 7 /\ P[54] = 70 /\ P[55] = 21
    BY <1>10, SMT DEF IsPowers
  <1>12. P[56] = 16 /\ P[57] = 63 /\ P[58] = 48 /\ P[59] = 92 /\ P[60] = 47
    BY <1>11, SMT DEF IsPowers
  <1>13. P[61] = 82 /\ P[62] = 44 /\ P[63] = 52 /\ P[64] = 35 /\ P[65] = 59
    BY <1>12, SMT DEF IsPowers
  <1>14. QED
    BY <1>1, <1>2, <1>3, <1>4, <1>5, <1>6, <1>7, <1>8, <1>9, <1>10, <1>11, <1>12, <1>13, SMT

\* Equal up to a multiple of 97.
Congruent(x, y) == \E k \in Int : x - y = 97 * k

\* A number is congruent to its remainder.
LEMMA CongruentMod ==
    ASSUME NEW x \in Int
    PROVE  Congruent(x % 97, x)
  <1>1. (x % 97) - x = 97 * (-(x \div 97)) /\ -(x \div 97) \in Int
    BY SMT
  <1>2. QED
    BY <1>1 DEF Congruent

\* Congruence is transitive,
LEMMA CongruentTrans ==
    ASSUME NEW x \in Int, NEW y \in Int, NEW z \in Int, Congruent(x, y), Congruent(y, z)
    PROVE  Congruent(x, z)
  <1>1. PICK k \in Int : x - y = 97 * k
    BY DEF Congruent
  <1>2. PICK m \in Int : y - z = 97 * m
    BY DEF Congruent
  <1>3. x - z = 97 * (k + m) /\ k + m \in Int
    BY <1>1, <1>2, SMT
  <1>4. QED
    BY <1>3 DEF Congruent

\* and compatible with products,
LEMMA CongruentTimes ==
    ASSUME NEW x \in Int, NEW y \in Int, NEW c \in Int, Congruent(x, y)
    PROVE  Congruent(c * x, c * y)
  <1>1. PICK k \in Int : x - y = 97 * k
    BY DEF Congruent
  <1>2. x = y + 97 * k
    BY <1>1, SMT
  <1>3. c * (y + 97 * k) - c * y = 97 * (c * k) /\ c * k \in Int
    BY SMT
  <1>4. QED
    BY <1>2, <1>3 DEF Congruent

\* with differences,
LEMMA CongruentMinus ==
    ASSUME NEW x \in Int, NEW y \in Int, NEW u \in Int, NEW v \in Int,
           Congruent(x, u), Congruent(y, v)
    PROVE  Congruent(x - y, u - v)
  <1>1. PICK k \in Int : x - u = 97 * k
    BY DEF Congruent
  <1>2. PICK m \in Int : y - v = 97 * m
    BY DEF Congruent
  <1>3. (x - y) - (u - v) = 97 * (k - m) /\ k - m \in Int
    BY <1>1, <1>2, SMT
  <1>4. QED
    BY <1>3 DEF Congruent

\* and symmetric.
LEMMA CongruentFlip ==
    ASSUME NEW x \in Int, NEW y \in Int, Congruent(x, y)
    PROVE  Congruent(y, x)
  <1>1. PICK k \in Int : x - y = 97 * k
    BY DEF Congruent
  <1>2. y - x = 97 * (-k) /\ -k \in Int
    BY <1>1, SMT
  <1>3. QED
    BY <1>2 DEF Congruent

\* The difference of two remainders is multiplied by 10 or 100 when both take the same
\* character.
LEMMA DifferenceStep ==
    ASSUME NEW f \in 0..96, NEW g \in 0..96, NEW ch \in 0..35
    PROVE  \/ Congruent(RemStep(f, ch) - RemStep(g, ch), 10 * (f - g))
           \/ Congruent(RemStep(f, ch) - RemStep(g, ch), 100 * (f - g))
  <1>1. CASE ch \in Digits
    <2> DEFINE x == 10 * f + ch
               y == 10 * g + ch
    <2>1. x \in Int /\ y \in Int /\ x - y = 10 * (f - g)
      BY SMT
    <2>2. RemStep(f, ch) = x % 97 /\ RemStep(g, ch) = y % 97
      BY <1>1 DEF RemStep
    <2> HIDE DEF x, y
    <2>3. x % 97 \in Int /\ y % 97 \in Int
      BY <2>1, SMT
    <2>4. Congruent((x % 97) - (y % 97), x - y)
      BY <2>1, <2>3, CongruentMod, CongruentMinus
    <2>5. QED
      BY <2>1, <2>2, <2>4
  <1>2. CASE ch \notin Digits
    <2> DEFINE x == 100 * f + ch
               y == 100 * g + ch
    <2>1. x \in Int /\ y \in Int /\ x - y = 100 * (f - g)
      BY SMT
    <2>2. RemStep(f, ch) = x % 97 /\ RemStep(g, ch) = y % 97
      BY <1>2 DEF RemStep
    <2> HIDE DEF x, y
    <2>3. x % 97 \in Int /\ y % 97 \in Int
      BY <2>1, SMT
    <2>4. Congruent((x % 97) - (y % 97), x - y)
      BY <2>1, <2>3, CongruentMod, CongruentMinus
    <2>5. QED
      BY <2>1, <2>2, <2>4
  <1>3. QED
    BY <1>1, <1>2

\* c times the next power.
LEMMA NextPower ==
    ASSUME NEW P \in [0..65 -> 0..96], IsPowers(P), NEW e \in 0..64, NEW c \in Int, NEW x \in Int,
           Congruent(x, c * P[e])
    PROVE  Congruent(10 * x, c * P[e + 1])
  <1>1. /\ P[e] \in Int /\ P[e + 1] \in Int /\ e + 1 \in 1..65 /\ P[e + 1] = (10 * P[e]) % 97
    <2>1. e \in 0..65 /\ e + 1 \in 0..65 /\ e + 1 \in 1..65 /\ (e + 1) - 1 = e
      BY SMT
    <2>2. P[e] \in 0..96 /\ P[e + 1] \in 0..96
      BY <2>1
    <2>3. P[e + 1] = (10 * P[e]) % 97
      BY <2>1 DEF IsPowers
    <2>4. QED
      BY <2>1, <2>2, <2>3, SMT
  <1> DEFINE p == P[e]
             q == P[e + 1]
  <1>2. p \in Int /\ q \in Int /\ Congruent(q, 10 * p)
    BY <1>1, CongruentMod
  <1>3. Congruent(x, c * p)
    OBVIOUS
  <1> HIDE DEF p, q
  <1>4. c * p \in Int /\ 10 * p \in Int /\ 10 * x \in Int /\ c * q \in Int
        /\ 10 * (c * p) = c * (10 * p) /\ 10 * (c * p) \in Int
    BY <1>2, SMT
  <1>5. Congruent(10 * x, 10 * (c * p))
    BY <1>3, <1>4, CongruentTimes
  <1>6. Congruent(c * q, c * (10 * p))
    BY <1>2, <1>4, CongruentTimes
  <1>7. Congruent(10 * x, c * q)
    BY <1>4, <1>5, <1>6, CongruentFlip, CongruentTrans
  <1>8. QED
    BY <1>7 DEF q

\* A small number times a remainder is congruent to itself only for remainder 1.
LEMMA TimesOne ==
    ASSUME NEW c \in (-9)..9, c # 0, NEW p \in 0..96, Congruent(c * p, c)
    PROVE  p = 1
  <1>1. PICK k \in Int : c * p - c = 97 * k
    BY DEF Congruent
  <1>2. c * (p - 1) = 97 * k
    BY <1>1, SMT
  <1> DEFINE z == p - 1
  <1>3. z \in (-1)..95 /\ c * z = 97 * k
    BY <1>2, SMT
  <1> HIDE DEF z
  <1>4. c = 1 \/ c = 2 \/ c = 3 \/ c = 4 \/ c = 5 \/ c = 6 \/ c = 7 \/ c = 8 \/ c = 9
        \/ c = -1 \/ c = -2 \/ c = -3 \/ c = -4 \/ c = -5 \/ c = -6 \/ c = -7 \/ c = -8 \/ c = -9
    BY SMT
  <1>5. z = 0
    BY <1>3, <1>4, SMT
  <1>6. QED
    BY <1>5, SMT DEF z

----------------------------------------------------------------------------
(* Typing mistakes and remainders *)

\* What an IBAN is made of.
Alnum == 0..35

\* The remainders of the prefixes of t.
IsRem(f, t) ==
    /\ f \in [0..Len(t) -> 0..96]
    /\ f[0] = 0
    /\ \A i \in 1..Len(t) : f[i] = RemStep(f[i - 1], t[i])

\* The remainders exist.
LEMMA RemExists ==
    ASSUME NEW t \in Seq(Alnum)
    PROVE  \E f : IsRem(f, t)
  <1> DEFINE n == Len(t)
             step == [p \in (0..96) \X (1..n) |-> RemStep(p[1], t[p[2]])]
  <1>1. n \in Nat /\ \A i \in 1..n : t[i] \in 0..35
    BY SeqFacts DEF Alnum
  <1>2. \A x \in 0..96 : \A i \in 1..n : RemStep(x, t[i]) \in 0..96
    BY <1>1, RemStepType, ZenonT(60)
  <1>3. step \in Steps(0..96, n)
    BY <1>2 DEF Steps
  <1> HIDE DEF step
  <1>4. 0 \in 0..96
    BY SMT
  <1>5. PICK f : IsLoop(f, 0..96, 0, n, step)
    BY <1>1, <1>3, <1>4, LoopDefined
  <1>6. f \in [0..n -> 0..96] /\ f[0] = 0 /\ \A i \in 1..n : f[i] = step[<<f[i - 1], i>>]
    BY <1>5 DEF IsLoop
  <1>7. ASSUME NEW i \in 1..n PROVE f[i] = RemStep(f[i - 1], t[i])
    <2>1. i - 1 \in 0..n
      BY <1>1
    <2>2. f[i - 1] \in 0..96
      BY <1>6, <2>1
    <2>3. QED
      BY <1>6, <2>2 DEF step
  <1>8. QED
    BY <1>6, <1>7 DEF IsRem

\* The same characters leave the same remainder.
LEMMA Agree ==
    ASSUME NEW t \in Seq(Alnum), NEW u \in Seq(Alnum), Len(t) = Len(u),
           NEW f, IsRem(f, t), NEW g, IsRem(g, u), NEW k \in 0..Len(t),
           \A i \in 1..k : t[i] = u[i]
    PROVE  f[k] = g[k]
  <1> DEFINE T == {i \in 0..k : f[i] = g[i]}
  <1>1. k \in Nat /\ 0 \in T
    BY SeqFacts DEF IsRem
  <1>2. ASSUME NEW i \in 1..k, i - 1 \in T PROVE i \in T
    <2>1. Len(t) \in Nat
      BY SeqFacts
    <2>2. i \in 1..Len(t) /\ i \in 0..k
      BY <2>1
    <2>3. f[i] = RemStep(f[i - 1], t[i]) /\ g[i] = RemStep(g[i - 1], u[i])
      BY <2>2 DEF IsRem
    <2>4. QED
      BY <1>2, <2>2, <2>3
  <1>3. k \in T
    <2> HIDE DEF T
    <2>1. QED
      BY <1>1, <1>2, UpTo
  <1>4. QED
    BY <1>3

\* A wrong remainder is not repaired by the characters that follow.
LEMMA Diverge ==
    ASSUME NEW t \in Seq(Alnum), NEW u \in Seq(Alnum), Len(t) = Len(u),
           NEW f, IsRem(f, t), NEW g, IsRem(g, u), NEW k \in 0..Len(t), f[k] # g[k],
           \A i \in (k + 1)..Len(t) : t[i] = u[i]
    PROVE  f[Len(t)] # g[Len(t)]
  <1> DEFINE n == Len(t)
             T == {i \in 0..n : i >= k => f[i] # g[i]}
  <1>1. n \in Nat /\ k \in Nat /\ k <= n
    BY SeqFacts
  <1>2. 0 \in T
    BY <1>1
  <1>3. ASSUME NEW i \in 1..n, i - 1 \in T PROVE i \in T
    <2>1. i \in 0..n /\ i - 1 \in 0..n
      BY <1>1
    <2>2. CASE i >= k + 1
      <3>1. f[i] = RemStep(f[i - 1], t[i]) /\ g[i] = RemStep(g[i - 1], u[i])
        BY DEF IsRem
      <3>2. i \in (k + 1)..n /\ i - 1 >= k
        BY <1>1, <2>2
      <3>3. t[i] = u[i] /\ f[i - 1] # g[i - 1]
        BY <1>3, <3>2
      <3>4. f[i - 1] \in 0..96 /\ g[i - 1] \in 0..96 /\ t[i] \in 0..35
        BY <2>1, SeqFacts, ZenonT(60) DEF IsRem, Alnum
      <3>5. ASSUME f[i] = g[i] PROVE FALSE
        <4>1. RemStep(f[i - 1], t[i]) = RemStep(g[i - 1], t[i])
          BY <3>1, <3>3, <3>5, Zenon
        <4>2. QED
          BY <3>3, <3>4, <4>1, RemStepInjective, Zenon
      <3>6. QED
        BY <2>1, <3>5
    <2>3. CASE i = k
      BY <2>1, <2>3
    <2>4. CASE i < k
      BY <1>1, <2>1, <2>4
    <2>5. QED
      BY <1>1, <2>2, <2>3, <2>4
  <1>4. n \in T
    <2> HIDE DEF T
    <2>1. QED
      BY <1>1, <1>2, <1>3, UpTo
  <1>5. QED
    BY <1>1, <1>4

\* u is t with another character of its kind at k.
Typo(t, u, k) ==
    /\ Len(t) = Len(u) /\ k \in 1..Len(t)
    /\ t[k] # u[k] /\ SameKind(t[k], u[k])
    /\ \A i \in 1..Len(t) : i # k => t[i] = u[i]

\* u is t with the characters at k and l, two of one kind, in each other's place.
Swapped(t, u, k, l) ==
    /\ Len(t) = Len(u) /\ k \in 1..Len(t) /\ l \in 1..Len(t)
    /\ t[k] # t[l] /\ SameKind(t[k], t[l]) /\ u[k] = t[l] /\ u[l] = t[k]
    /\ \A i \in 1..Len(t) : i # k /\ i # l => t[i] = u[i]

\* A mistyped character changes the last remainder.
LEMMA TypoChangesRemainder ==
    ASSUME NEW t \in Seq(Alnum), NEW u \in Seq(Alnum), NEW f, IsRem(f, t), NEW g, IsRem(g, u),
           NEW k, Typo(t, u, k)
    PROVE  f[Len(t)] # g[Len(t)]
  <1>0. /\ Len(t) = Len(u) /\ k \in 1..Len(t) /\ t[k] # u[k] /\ SameKind(t[k], u[k])
        /\ \A i \in 1..Len(t) : i # k => t[i] = u[i]
    BY DEF Typo
  <1>1. Len(t) \in Nat /\ t[k] \in 0..35 /\ u[k] \in 0..35
    BY <1>0, SeqFacts DEF Alnum
  <1>2. k \in 0..Len(t) /\ k - 1 \in 0..Len(t)
    BY <1>0, <1>1
  <1>3. (\A i \in 1..(k - 1) : t[i] = u[i]) /\ \A i \in (k + 1)..Len(t) : t[i] = u[i]
    BY <1>0, <1>1
  <1>4. f[k - 1] = g[k - 1]
    BY <1>0, <1>2, <1>3, Agree
  <1>5. f[k - 1] \in 0..96
    BY <1>2 DEF IsRem
  <1>6. f[k] = RemStep(f[k - 1], t[k]) /\ g[k] = RemStep(g[k - 1], u[k])
    BY <1>0 DEF IsRem
  <1>7. f[k] # g[k]
    BY <1>0, <1>1, <1>4, <1>5, <1>6, RemStepTypo, ZenonT(60)
  <1>8. QED
    BY <1>0, <1>2, <1>3, <1>7, Diverge

\* So do two neighbours in each other's place.
LEMMA SwapChangesRemainder ==
    ASSUME NEW t \in Seq(Alnum), NEW u \in Seq(Alnum), NEW f, IsRem(f, t), NEW g, IsRem(g, u),
           NEW k, Swapped(t, u, k, k + 1)
    PROVE  f[Len(t)] # g[Len(t)]
  <1>0. /\ Len(t) = Len(u) /\ k \in 1..Len(t) /\ k + 1 \in 1..Len(t)
        /\ t[k] # t[k + 1] /\ SameKind(t[k], t[k + 1]) /\ u[k] = t[k + 1] /\ u[k + 1] = t[k]
        /\ \A i \in 1..Len(t) : i # k /\ i # k + 1 => t[i] = u[i]
    BY DEF Swapped
  <1>1. Len(t) \in Nat
    BY SeqFacts
  <1>2. /\ k \in 1..Len(t) /\ k + 1 \in 1..Len(t) /\ k + 1 \in 0..Len(t) /\ k - 1 \in 0..Len(t)
        /\ (k + 1) - 1 = k
    BY <1>0, <1>1
  <1>3. t[k] \in 0..35 /\ t[k + 1] \in 0..35
    BY <1>2, SeqFacts DEF Alnum
  <1>4. (\A i \in 1..(k - 1) : t[i] = u[i]) /\ \A i \in ((k + 1) + 1)..Len(t) : t[i] = u[i]
    BY <1>0, <1>1
  <1>5. f[k - 1] = g[k - 1]
    BY <1>0, <1>2, <1>4, Agree
  <1>6. f[k - 1] \in 0..96
    BY <1>0, <1>2 DEF IsRem
  <1>7. f[k] = RemStep(f[k - 1], t[k]) /\ g[k] = RemStep(g[k - 1], u[k])
    BY <1>0, <1>2 DEF IsRem
  <1>8. f[k + 1] = RemStep(f[k], t[k + 1]) /\ g[k + 1] = RemStep(g[k], u[k + 1])
    BY <1>0, <1>2, SMTT(60) DEF IsRem
  <1>9. f[k + 1] # g[k + 1]
    BY <1>0, <1>3, <1>5, <1>6, <1>7, <1>8, RemStepSwap, ZenonT(60)
  <1>10. QED
    BY <1>0, <1>2, <1>4, <1>9, Diverge

\* The first step from remainder zero, and the last two.
LEMMA FirstDigit ==
    ASSUME NEW a \in Digits
    PROVE  RemStep(0, a) = a
  BY SMT DEF RemStep, Digits

\* The last step with two different digits.
LEMMA LastDigits ==
    ASSUME NEW x \in 0..96, NEW y \in 0..96, NEW a \in Digits, NEW b \in Digits,
           RemStep(x, b) = RemStep(y, a)
    PROVE  Congruent(10 * (x - y), a - b)
  <1> DEFINE p == 10 * x + b
             q == 10 * y + a
  <1>1. p \in Nat /\ q \in Nat /\ p % 97 = q % 97 /\ p - q = 10 * (x - y) - (a - b)
    BY SMT DEF RemStep, Digits
  <1>2. p - q = 97 * ((p \div 97) - (q \div 97)) /\ (p \div 97) - (q \div 97) \in Int
    <2> HIDE DEF p, q
    <2>1. QED
      BY <1>1, SMT
  <1>3. QED
    BY <1>1, <1>2 DEF Congruent

\* One character more multiplies the difference by one or two more powers of ten.
LEMMA MorePowers ==
    ASSUME NEW P \in [0..65 -> 0..96], IsPowers(P), NEW c \in Int, NEW e \in 0..63,
           NEW x \in 0..96, NEW y \in 0..96, NEW ch \in 0..35, Congruent(x - y, c * P[e])
    PROVE  \/ Congruent(RemStep(x, ch) - RemStep(y, ch), c * P[e + 1])
           \/ Congruent(RemStep(x, ch) - RemStep(y, ch), c * P[e + 2])
  <1> DEFINE d == x - y
             z == RemStep(x, ch) - RemStep(y, ch)
  <1>1. d \in Int /\ 10 * d \in Int /\ 100 * d \in Int /\ 10 * (10 * d) = 100 * d
    BY SMT
  <1>2. z \in Int
    <2>1. RemStep(x, ch) \in 0..96 /\ RemStep(y, ch) \in 0..96
      BY RemStepType, ZenonT(60)
    <2>2. QED
      BY <2>1, SMTT(60)
  <1>3. e \in 0..64 /\ e + 1 \in 0..64 /\ (e + 1) + 1 = e + 2 /\ e + 1 \in 0..65 /\ e + 2 \in 0..65
    BY SMTT(60)
  <1>4. Congruent(z, 10 * d) \/ Congruent(z, 100 * d)
    BY DifferenceStep, ZenonT(60)
  <1> HIDE DEF d, z
  <1>5. Congruent(10 * d, c * P[e + 1])
    BY <1>1, <1>3, NextPower, ZenonT(60) DEF d
  <1>6. Congruent(100 * d, c * P[e + 2])
    BY <1>1, <1>3, <1>5, NextPower, ZenonT(60)
  <1>7. P[e + 1] \in Int /\ P[e + 2] \in Int
    <2>1. P[e + 1] \in 0..96 /\ P[e + 2] \in 0..96
      BY <1>3
    <2>2. QED
      BY <2>1
  <1>8. c * P[e + 1] \in Int /\ c * P[e + 2] \in Int
    BY <1>7
  <1>9. QED
    BY <1>1, <1>2, <1>4, <1>5, <1>6, <1>8, CongruentTrans DEF z

\* Exponents after one character more.
LEMMA Exponents ==
    ASSUME NEW m \in Nat, m <= 32, NEW i \in 1..m, NEW e \in (i - 1)..(2 * (i - 1))
    PROVE  e \in 0..63 /\ e + 1 \in i..(2 * i) /\ e + 2 \in i..(2 * i)
  BY SMT

\* The exponent at the end.
LEMMA LastExponent ==
    ASSUME NEW m \in Nat, m <= 32, NEW e \in m..(2 * m)
    PROVE  e \in 0..64 /\ e + 1 \in 1..65 /\ e + 1 \in 0..65
  BY SMT

\* Two digits differ by at most nine.
LEMMA SmallDifference ==
    ASSUME NEW a \in Digits, NEW b \in Digits, a # b
    PROVE  a - b \in (-9)..9 /\ a - b # 0 /\ a - b \in Int
  BY SMT DEF Digits

\* The power with exponent zero.
LEMMA TimesFirst ==
    ASSUME NEW c \in Int, NEW p, p = 1
    PROVE  Congruent(c, c * p)
  <1>1. c - c * 1 = 97 * 0
    BY SMT
  <1>2. QED
    BY <1>1 DEF Congruent

\* Indices of a function on 0..m.
LEMMA Indices ==
    ASSUME NEW m \in Nat
    PROVE  /\ 0 \in 0..(2 * 0) /\ 0 \in 0..m /\ m \in 0..m
           /\ \A i \in 1..m : i \in 0..m /\ i - 1 \in 0..m
  BY SMT

\* Differences and products of remainders are numbers.
LEMMA Differences ==
    ASSUME NEW x \in 0..96, NEW y \in 0..96, NEW c \in Int
    PROVE  x - y \in Int /\ 10 * (x - y) \in Int /\ c * x \in Int
  BY SMTT(60)

\* Two remainders that take the same characters.
CommonSteps(x, y, m) ==
    \A i \in 1..m : \E ch \in 0..35 :
        x[i] = RemStep(x[i - 1], ch) /\ y[i] = RemStep(y[i - 1], ch)

\* What m common characters make of a difference.
LEMMA DifferenceGrows ==
    ASSUME NEW P \in [0..65 -> 0..96], IsPowers(P), NEW m \in Nat, m <= 32, NEW c \in Int,
           NEW x \in [0..m -> 0..96], NEW y \in [0..m -> 0..96], x[0] - y[0] = c,
           CommonSteps(x, y, m)
    PROVE  \E e \in m..(2 * m) : Congruent(x[m] - y[m], c * P[e])
  <1> DEFINE Q(i) == \E e \in i..(2 * i) : Congruent(x[i] - y[i], c * P[e])
             T == {i \in 0..m : Q(i)}
  <1>1. 0 \in T
    <2>1. P[0] = 1
      BY DEF IsPowers
    <2>2. Congruent(x[0] - y[0], c * P[0])
      BY <2>1, TimesFirst
    <2>3. 0 \in 0..(2 * 0) /\ 0 \in 0..m
      BY Indices, SMTT(60)
    <2>4. QED
      BY <2>2, <2>3, SMTT(60)
  <1>2. ASSUME NEW i \in 1..m, i - 1 \in T PROVE i \in T
    <2>1. i \in 0..m /\ i - 1 \in 0..m
      BY Indices, SMTT(60)
    <2>2. PICK e \in (i - 1)..(2 * (i - 1)) : Congruent(x[i - 1] - y[i - 1], c * P[e])
      BY <1>2, ZenonT(60)
    <2>3. e \in 0..63 /\ e + 1 \in i..(2 * i) /\ e + 2 \in i..(2 * i)
      BY Exponents, ZenonT(60)
    <2>4. PICK ch \in 0..35 : x[i] = RemStep(x[i - 1], ch) /\ y[i] = RemStep(y[i - 1], ch)
      BY ZenonT(60) DEF CommonSteps
    <2>5. x[i - 1] \in 0..96 /\ y[i - 1] \in 0..96
      BY <2>1, ZenonT(60)
    <2>6. Congruent(x[i] - y[i], c * P[e + 1]) \/ Congruent(x[i] - y[i], c * P[e + 2])
      BY <2>2, <2>3, <2>4, <2>5, MorePowers, ZenonT(60)
    <2>7. Q(i)
      BY <2>3, <2>6
    <2>8. QED
      BY <2>1, <2>7
  <1>3. m \in T
    <2> HIDE DEF T
    <2>1. QED
      BY <1>1, <1>2, UpTo, SMTT(60)
  <1>4. Q(m)
    <2> HIDE DEF Q
    <2>1. QED
      BY <1>3, ZenonT(60) DEF T
  <1>5. QED
    BY <1>4, ZenonT(60)

\* Two digits that change places across them are not the same again.
LEMMA EndsDiffer ==
    ASSUME NEW m \in Nat, m <= 32, NEW a \in Digits, NEW b \in Digits, a # b,
           NEW x \in [0..m -> 0..96], NEW y \in [0..m -> 0..96], x[0] = a, y[0] = b,
           CommonSteps(x, y, m), RemStep(x[m], b) = RemStep(y[m], a)
    PROVE  FALSE
  <1> DEFINE c == a - b
             z == x[m] - y[m]
  <1>1. PICK P \in [0..65 -> 0..96] : IsPowers(P)
    BY PowersExist
  <1>2. c \in (-9)..9 /\ c # 0 /\ c \in Int
    BY SmallDifference
  <1>3. x[0] - y[0] = c
    BY Zenon
  <1>4. x[m] \in 0..96 /\ y[m] \in 0..96
    BY Indices, ZenonT(60)
  <1>5. Congruent(10 * z, c)
    BY <1>4, LastDigits, Zenon
  <1>6. z \in Int /\ 10 * z \in Int
    BY <1>2, <1>4, Differences, Zenon
  <1> HIDE DEF c
  <1>7. PICK e \in m..(2 * m) : Congruent(z, c * P[e])
    BY <1>1, <1>2, <1>3, DifferenceGrows
  <1>8. e \in 0..64 /\ e + 1 \in 1..65 /\ e + 1 \in 0..65
    BY LastExponent
  <1> HIDE DEF z
  <1>9. Congruent(10 * z, c * P[e + 1])
    BY <1>1, <1>2, <1>6, <1>7, <1>8, NextPower, ZenonT(60)
  <1>10. P[e + 1] \in 0..96
    BY <1>8
  <1>11. c * P[e + 1] \in Int
    BY <1>2, <1>10, Differences, Zenon
  <1>12. Congruent(c * P[e + 1], c)
    BY <1>2, <1>5, <1>6, <1>9, <1>11, CongruentFlip, CongruentTrans, SMTT(60)
  <1>13. P[e + 1] = 1
    BY <1>2, <1>10, <1>12, TimesOne
  <1>14. QED
    BY <1>1, <1>8, <1>13, PowersNotOne

\* What lies between the first and the last character of an IBAN.
LEMMA MiddleLength ==
    ASSUME NEW n \in 15..34
    PROVE  n \in Nat /\ n - 2 \in Nat /\ n - 2 <= 32 /\ n \in 1..n /\ n - 1 \in 0..n /\ 1 \in 1..n
  BY SMT

\* What is of a digit's kind is a digit.
LEMMA KindOfDigit ==
    ASSUME NEW a \in Digits, NEW b, SameKind(a, b)
    PROVE  b \in Digits
  <1>1. a \notin Letters
    BY SMT DEF Digits, Letters
  <1>2. QED
    BY <1>1 DEF SameKind

\* So do the first and the last character in each other's place, if they are digits and
\* there are at most 34: the powers of ten do not come back to 1 before that.
LEMMA EndsChangeRemainder ==
    ASSUME NEW t \in Seq(Alnum), NEW u \in Seq(Alnum), Len(t) \in 15..34,
           NEW f, IsRem(f, t), NEW g, IsRem(g, u),
           Swapped(t, u, Len(t), 1), t[Len(t)] \in Digits
    PROVE  f[Len(t)] # g[Len(t)]
  <1> DEFINE n == Len(t)
             m == n - 2
             x == [i \in 0..m |-> f[i + 1]]
             y == [i \in 0..m |-> g[i + 1]]
  <1>1. /\ n \in Nat /\ m \in Nat /\ m <= 32
        /\ n \in 1..n /\ n - 1 \in 0..n /\ 1 \in 1..n
    BY MiddleLength
  <1>ends. /\ Len(u) = n /\ t[1] # t[n] /\ u[1] = t[n] /\ u[n] = t[1] /\ t[1] \in Digits
        /\ \A i \in 1..n : i # n /\ i # 1 => t[i] = u[i]
    BY KindOfDigit DEF Swapped
  <1>middle. \A i \in 2..(n - 1) : t[i] = u[i]
    <2>1. \A i \in 2..(n - 1) : i \in 1..n /\ i # n /\ i # 1
      BY <1>1
    <2>2. QED
      BY <1>ends, <2>1
  <1>2. x[0] = t[1] /\ y[0] = t[n]
    <2>1. f[1] = RemStep(0, t[1]) /\ g[1] = RemStep(0, t[n])
      BY <1>1, <1>ends DEF IsRem
    <2>2. f[1] = t[1] /\ g[1] = t[n]
      BY <1>ends, <2>1, FirstDigit
    <2>3. 0 \in 0..m
      BY <1>1
    <2>4. QED
      BY <2>2, <2>3
  <1>3. \A i \in 0..m : i + 1 \in 0..n
    BY <1>1
  <1>4. x \in [0..m -> 0..96] /\ y \in [0..m -> 0..96]
    BY <1>3, <1>ends DEF IsRem
  <1>5. ASSUME NEW i \in 1..m
        PROVE  \E ch \in 0..35 : x[i] = RemStep(x[i - 1], ch) /\ y[i] = RemStep(y[i - 1], ch)
    <2>1. /\ i \in 0..m /\ i - 1 \in 0..m /\ i + 1 \in 2..(n - 1) /\ i + 1 \in 1..n
          /\ (i + 1) - 1 = i /\ (i - 1) + 1 = i
      BY <1>1
    <2>2. t[i + 1] \in 0..35 /\ u[i + 1] = t[i + 1]
      BY <1>middle, <2>1, SeqFacts DEF Alnum
    <2>3. f[i + 1] = RemStep(f[i], t[i + 1]) /\ g[i + 1] = RemStep(g[i], t[i + 1])
      BY <1>ends, <2>1, <2>2 DEF IsRem
    <2>4. x[i] = f[i + 1] /\ x[i - 1] = f[i] /\ y[i] = g[i + 1] /\ y[i - 1] = g[i]
      BY <2>1
    <2>5. QED
      BY <2>2, <2>3, <2>4
  <1>6. f[n] = RemStep(x[m], t[n]) /\ g[n] = RemStep(y[m], t[1])
    <2>1. m \in 0..m /\ m + 1 = n - 1
      BY <1>1
    <2>2. x[m] = f[n - 1] /\ y[m] = g[n - 1]
      BY <2>1
    <2>3. QED
      BY <1>1, <1>ends, <2>2 DEF IsRem
  <1>7. CommonSteps(x, y, m)
    BY <1>5 DEF CommonSteps
  <1> HIDE DEF x, y, m
  <1>8. ASSUME f[n] = g[n] PROVE FALSE
    <2>1. RemStep(x[m], t[n]) = RemStep(y[m], t[1])
      BY <1>6, <1>8
    <2>2. QED
      BY <1>1, <1>2, <1>4, <1>7, <1>ends, <2>1, EndsDiffer
  <1>9. QED
    BY <1>8

----------------------------------------------------------------------------
(* mod97 and the remainder of the whole number *)

\* The remainders of the prefixes of a sequence of digits.
IsDig(g, d) ==
    /\ g \in [0..Len(d) -> 0..96]
    /\ g[0] = 0
    /\ \A i \in 1..Len(d) : g[i] = (10 * g[i - 1] + d[i]) % 97

\* Number is computed digit by digit.
IsNumber(h, n, s) ==
    /\ h \in [0..Len(s) -> Nat]
    /\ h[0] = n
    /\ \A i \in 1..Len(s) : h[i] = 10 * h[i - 1] + s[i]

\* Number is the value of such a loop.
LEMMA NumberComputed ==
    ASSUME NEW n \in Nat, NEW s \in Seq(Digits)
    PROVE  \E h : IsNumber(h, n, s) /\ Number(n, s) = h[Len(s)]
  <1> DEFINE l == Len(s)
             step == [p \in Nat \X (1..l) |-> 10 * p[1] + s[p[2]]]
             Rec(f) == f = [i \in 0..l |-> IF i = 0 THEN n ELSE 10 * f[i - 1] + s[i]]
             h == CHOOSE f : Rec(f)
  <1>1. l \in Nat /\ \A i \in 1..l : s[i] \in Nat
    BY SeqFacts DEF Digits
  <1>2. \A i \in 1..l : \A x \in Nat : 10 * x + s[i] \in Nat
    BY <1>1
  <1>3. step \in Steps(Nat, l)
    BY <1>2 DEF Steps
  <1> HIDE DEF step
  <1>4. PICK f : IsLoop(f, Nat, n, l, step)
    BY <1>1, <1>3, LoopDefined
  <1>5. ASSUME NEW i \in 1..l PROVE f[i] = 10 * f[i - 1] + s[i]
    <2>1. f[i - 1] \in Nat
      BY <1>4 DEF IsLoop
    <2>2. QED
      BY <1>4, <2>1 DEF step, IsLoop
  <1>6. Rec(f)
    BY <1>4, <1>5 DEF IsLoop
  <1>7. Rec(h)
    BY <1>6
  <1>8. Number(n, s) = h[l]
    BY DEF Number
  <1> HIDE DEF h
  <1>9. h[0] = n /\ \A i \in 1..l : h[i] = 10 * h[i - 1] + s[i]
    BY <1>1, <1>7
  <1> DEFINE T == {i \in 0..l : h[i] \in Nat}
  <1>10. 0 \in T
    BY <1>1, <1>9
  <1>11. ASSUME NEW i \in 1..l, i - 1 \in T PROVE i \in T
    <2>1. h[i - 1] \in Nat /\ i \in 0..l
      BY <1>11
    <2>2. 10 * h[i - 1] + s[i] \in Nat
      BY <1>2, <2>1
    <2>3. QED
      BY <1>9, <2>1, <2>2
  <1>12. \A i \in 0..l : i \in T
    <2> HIDE DEF T
    <2>1. QED
      BY <1>1, <1>10, <1>11, UpTo
  <1>13. h \in [0..l -> Nat]
    BY <1>7, <1>12
  <1>14. QED
    BY <1>8, <1>9, <1>13 DEF IsNumber

\* A remainder is its own remainder.
LEMMA SmallMod ==
    ASSUME NEW x \in 0..96
    PROVE  x % 97 = x /\ x \in Nat
  BY SMT

\* Indices of a slice.
LEMMA SliceIndices ==
    ASSUME NEW l \in Nat, NEW a \in 0..l, NEW b \in a..l
    PROVE  /\ b - a \in Nat /\ a \in Nat /\ b \in 0..l /\ a + (b - a) = b
           /\ \A i \in 1..(b - a) :
                 /\ a + i \in 1..l /\ (a + i) - 1 = a + (i - 1) /\ a + (i - 1) \in 0..l
                 /\ i \in 0..(b - a) /\ i - 1 \in 0..(b - a)
  BY SMT

\* The digits after position a up to b, written after the remainder at a, leave that at b.
LEMMA NumberRem ==
    ASSUME NEW d \in Seq(Digits), NEW g, IsDig(g, d), NEW a \in 0..Len(d), NEW b \in a..Len(d)
    PROVE  Number(g[a], SubSeq(d, a + 1, b)) % 97 = g[b]
  <1> DEFINE s == SubSeq(d, a + 1, b)
             n == b - a
  <1>0. Len(d) \in Nat
    BY SeqFacts
  <1>1. /\ n \in Nat /\ a + n = b /\ a + 0 = a
        /\ \A i \in 1..n :
              /\ a + i \in 1..Len(d) /\ (a + i) - 1 = a + (i - 1) /\ a + (i - 1) \in 0..Len(d)
              /\ i \in 0..n /\ i - 1 \in 0..n
    BY <1>0, SliceIndices
  <1>2. s \in Seq(Digits) /\ Len(s) = n /\ \A i \in 1..n : s[i] = d[a + i]
    <2>1. a + 1 \in 1..(Len(d) + 1) /\ b \in a..Len(d)
      BY <1>0
    <2>2. QED
      BY <1>0, <2>1
  <1>3. g[a] \in 0..96 /\ g[a] \in Nat /\ g[a] % 97 = g[a]
    BY SmallMod DEF IsDig
  <1> HIDE DEF s
  <1>4. PICK h : IsNumber(h, g[a], s) /\ Number(g[a], s) = h[Len(s)]
    BY <1>2, <1>3, NumberComputed
  <1>5. h[0] = g[a] /\ \A i \in 1..n : h[i - 1] \in Nat /\ h[i] = 10 * h[i - 1] + d[a + i]
    BY <1>1, <1>2, <1>4 DEF IsNumber
  <1> HIDE DEF n
  <1> DEFINE T == {i \in 0..n : h[i] % 97 = g[a + i]}
  <1>6. 0 \in T
    <2>1. 0 \in 0..n
      BY <1>1
    <2>2. QED
      BY <1>1, <1>3, <1>5, <2>1
  <1>7. ASSUME NEW i \in 1..n, i - 1 \in T PROVE i \in T
    <2>1. a + i \in 1..Len(d) /\ i \in 0..n
      BY <1>1
    <2>2. d[a + i] \in Nat
      BY <2>1, SeqFacts DEF Digits
    <2>3. h[i] % 97 = (10 * (h[i - 1] % 97) + d[a + i]) % 97
      <3>1. h[i - 1] \in Nat /\ h[i] = 10 * h[i - 1] + d[a + i]
        BY <1>5
      <3>2. (10 * h[i - 1] + d[a + i]) % 97 = (10 * (h[i - 1] % 97) + d[a + i]) % 97
        BY <2>2, <3>1, TenMod, ZenonT(60)
      <3>3. QED
        BY <3>1, <3>2, Zenon
    <2>4. h[i - 1] % 97 = g[(a + i) - 1]
      BY <1>1, <1>7
    <2>5. h[i] % 97 = g[a + i]
      BY <2>1, <2>3, <2>4 DEF IsDig
    <2>6. QED
      BY <2>1, <2>5
  <1>8. n \in T
    <2> HIDE DEF T
    <2>1. QED
      BY <1>1, <1>6, <1>7, UpTo
  <1>9. QED
    BY <1>1, <1>2, <1>4, <1>8 DEF s

\* The end of the k-th slice.
SliceEnd(l, k) == IF 7 * k <= l THEN 7 * k ELSE l

\* The smaller of two numbers.
LEMMA MinOfTwo ==
    ASSUME NEW a \in Nat, NEW b \in Nat
    PROVE  Min({a, b}) = IF a <= b THEN a ELSE b
  <1> DEFINE m == IF a <= b THEN a ELSE b
  <1>1. m \in {a, b} /\ \A y \in {a, b} : m <= y
    OBVIOUS
  <1>2. \A x \in {a, b} : (\A y \in {a, b} : x <= y) => x = m
    OBVIOUS
  <1>3. QED
    BY <1>1, <1>2 DEF Min

\* Where slices begin and end; the last one ends with the sequence.
LEMMA SliceFacts ==
    ASSUME NEW l \in Nat, NEW w, w = (l + 6) \div 7
    PROVE  /\ w \in Nat /\ SliceEnd(l, 0) = 0 /\ SliceEnd(l, w) = l
           /\ \A k \in 0..w : SliceEnd(l, k) \in 0..l
           /\ \A k \in 1..w : /\ SliceEnd(l, k - 1) = 7 * k - 7
                              /\ (7 * k - 7) + 1 = 7 * k - 6
                              /\ 7 * k - 7 \in 0..l
                              /\ SliceEnd(l, k) \in (7 * k - 7)..l
                              /\ 7 * k \in Nat
  <1>1. w \in Nat /\ 7 * w <= l + 6 /\ l < 7 * w + 1
    BY SMT
  <1>2. SliceEnd(l, 0) = 0 /\ SliceEnd(l, w) = l
    BY <1>1, SMT DEF SliceEnd
  <1>3. \A k \in 0..w : SliceEnd(l, k) \in 0..l
    BY <1>1, SMT DEF SliceEnd
  <1>4. ASSUME NEW k \in 1..w
        PROVE  /\ SliceEnd(l, k - 1) = 7 * k - 7
               /\ (7 * k - 7) + 1 = 7 * k - 6
               /\ 7 * k - 7 \in 0..l
               /\ SliceEnd(l, k) \in (7 * k - 7)..l
               /\ 7 * k \in Nat
    BY <1>1, SMT DEF SliceEnd
  <1>5. QED
    BY <1>1, <1>2, <1>3, <1>4

\* Slice by slice or digit by digit, the remainder is the same.
LEMMA Mod97Digits ==
    ASSUME NEW d \in Seq(Digits), NEW g, IsDig(g, d)
    PROVE  Mod97(d) = g[Len(d)]
  <1> DEFINE l == Len(d)
             w == (l + 6) \div 7
             Slice(k) == SubSeq(d, 7 * k - 6, Min({7 * k, l}))
             Rec(f) == f = [k \in 0..w |-> IF k = 0 THEN 0
                                           ELSE Number(f[k - 1], Slice(k)) % 97]
             r == CHOOSE f : Rec(f)
             q == [k \in 0..w |-> g[SliceEnd(l, k)]]
  <1>1. Mod97(d) = r[w]
    BY DEF Mod97
  <1>2. l \in Nat
    BY SeqFacts
  <1>3. /\ w \in Nat /\ SliceEnd(l, 0) = 0 /\ SliceEnd(l, w) = l
        /\ \A k \in 0..w : SliceEnd(l, k) \in 0..l
        /\ \A k \in 1..w : /\ SliceEnd(l, k - 1) = 7 * k - 7
                           /\ (7 * k - 7) + 1 = 7 * k - 6
                           /\ 7 * k - 7 \in 0..l
                           /\ SliceEnd(l, k) \in (7 * k - 7)..l
                           /\ 7 * k \in Nat
    <2> HIDE DEF l
    <2>1. QED
      BY <1>2, SliceFacts
  <1>4. ASSUME NEW k \in 1..w
        PROVE  Number(g[SliceEnd(l, k - 1)], Slice(k)) % 97 = g[SliceEnd(l, k)]
    <2>1. Min({7 * k, l}) = SliceEnd(l, k)
      BY <1>2, <1>3, MinOfTwo DEF SliceEnd
    <2>2. Slice(k) = SubSeq(d, (7 * k - 7) + 1, SliceEnd(l, k))
      BY <1>3, <2>1
    <2>3. Number(g[7 * k - 7], SubSeq(d, (7 * k - 7) + 1, SliceEnd(l, k))) % 97 = g[SliceEnd(l, k)]
      BY <1>3, NumberRem
    <2>4. SliceEnd(l, k - 1) = 7 * k - 7
      BY <1>3
    <2> HIDE DEF Slice
    <2>5. QED
      BY <2>2, <2>3, <2>4, Zenon
  <1> HIDE DEF w, Slice
  <1>5. Rec(q)
    <2>1. q[0] = 0
      BY <1>3 DEF IsDig
    <2>2. ASSUME NEW k \in 1..w PROVE q[k] = Number(q[k - 1], Slice(k)) % 97
      <3>1. k \in 0..w /\ k - 1 \in 0..w
        BY <1>3
      <3>2. q[k] = g[SliceEnd(l, k)] /\ q[k - 1] = g[SliceEnd(l, k - 1)]
        BY <3>1
      <3>3. QED
        BY <1>4, <3>2
    <2>3. \A k \in 0..w : k # 0 => k \in 1..w
      BY <1>3
    <2>4. DOMAIN q = 0..w /\ q = [k \in 0..w |-> q[k]]
      OBVIOUS
    <2> HIDE DEF q
    <2>5. QED
      BY <2>1, <2>2, <2>3, <2>4
  <1>6. Rec(r)
    <2> HIDE DEF q
    <2>1. QED
      BY <1>5
  <1> HIDE DEF r
  <1> DEFINE T == {k \in 0..w : r[k] = q[k]}
  <1>7. 0 \in T
    <2>1. 0 \in 0..w
      BY <1>3
    <2>2. r[0] = 0 /\ q[0] = 0
      BY <1>5, <1>6, <2>1
    <2>3. QED
      BY <2>1, <2>2
  <1>8. ASSUME NEW k \in 1..w, k - 1 \in T PROVE k \in T
    <2>1. k \in 0..w /\ k # 0
      BY <1>3
    <2> HIDE DEF q
    <2>2. r[k] = Number(r[k - 1], Slice(k)) % 97
      BY <1>6, <2>1
    <2>3. q[k] = Number(q[k - 1], Slice(k)) % 97
      BY <1>5, <2>1
    <2>4. QED
      BY <1>8, <2>1, <2>2, <2>3
  <1>9. w \in T
    <2> HIDE DEF T
    <2>1. QED
      BY <1>3, <1>7, <1>8, UpTo
  <1>10. QED
    BY <1>1, <1>3, <1>9

\* The digits of d leave remainder r.
Leaves(d, r) == \E g : IsDig(g, d) /\ g[Len(d)] = r

\* The next remainder is one.
LEMMA TenModType ==
    ASSUME NEW r \in 0..96, NEW c \in Digits
    PROVE  (10 * r + c) % 97 \in 0..96
  BY SMT DEF Digits

\* No digits leave zero.
LEMMA LeavesNothing == Leaves(<<>>, 0)
  <1> DEFINE g == [i \in 0..0 |-> 0]
  <1>1. g \in [0..0 -> 0..96] /\ g[0] = 0
    BY SMT
  <1>2. Len(<<>>) = 0 /\ 1..0 = {}
    BY SMT
  <1> HIDE DEF g
  <1>3. IsDig(g, <<>>) /\ g[Len(<<>>)] = 0
    BY <1>1, <1>2 DEF IsDig
  <1>4. QED
    BY <1>3 DEF Leaves

\* One digit more.
LEMMA LeavesAppend ==
    ASSUME NEW d \in Seq(Digits), NEW c \in Digits, NEW r, Leaves(d, r)
    PROVE  d \o <<c>> \in Seq(Digits) /\ Leaves(d \o <<c>>, (10 * r + c) % 97) /\ r \in 0..96
  <1> DEFINE n == Len(d)
             e == d \o <<c>>
  <1>1. PICK g : IsDig(g, d) /\ g[n] = r
    BY DEF Leaves
  <1>2. n \in Nat /\ n \in 0..n
    BY SeqFacts
  <1>3. r \in 0..96
    BY <1>1, <1>2 DEF IsDig
  <1>4. e \in Seq(Digits) /\ Len(e) = n + 1 /\ e[n + 1] = c /\ \A i \in 1..n : e[i] = d[i]
    OBVIOUS
  <1> DEFINE x == (10 * r + c) % 97
             h == [i \in 0..(n + 1) |-> IF i = n + 1 THEN x ELSE g[i]]
  <1>5. x \in 0..96
    BY <1>3, TenModType
  <1> HIDE DEF e, x
  <1>6. h \in [0..(n + 1) -> 0..96]
    <2>1. \A i \in 0..(n + 1) : i # n + 1 => i \in 0..n
      BY <1>2
    <2>2. QED
      BY <1>1, <1>5, <2>1 DEF IsDig
  <1>7. h[n + 1] = x /\ \A i \in 0..n : h[i] = g[i]
    BY <1>2
  <1> HIDE DEF h
  <1>8. h[0] = 0
    BY <1>1, <1>2, <1>7 DEF IsDig
  <1>9. ASSUME NEW i \in 1..(n + 1) PROVE h[i] = (10 * h[i - 1] + e[i]) % 97
    <2>1. CASE i = n + 1
      <3>1. i - 1 = n
        BY <1>2, <2>1
      <3>2. h[i - 1] = r /\ e[i] = c /\ h[i] = x
        BY <1>1, <1>2, <1>4, <1>7, <2>1, <3>1
      <3>3. QED
        BY <3>2 DEF x
    <2>2. CASE i \in 1..n
      <3>1. i \in 0..n /\ i - 1 \in 0..n
        BY <1>2, <2>2
      <3>2. h[i - 1] = g[i - 1] /\ h[i] = g[i] /\ e[i] = d[i]
        BY <1>4, <1>7, <2>2, <3>1
      <3>3. g[i] = (10 * g[i - 1] + d[i]) % 97
        BY <1>1, <2>2 DEF IsDig
      <3>4. QED
        BY <3>2, <3>3
    <2>3. QED
      BY <1>2, <2>1, <2>2
  <1>10. IsDig(h, e)
    BY <1>4, <1>6, <1>8, <1>9 DEF IsDig
  <1>11. Leaves(e, x)
    BY <1>4, <1>7, <1>10 DEF Leaves
  <1>12. QED
    BY <1>3, <1>4, <1>11 DEF e, x

\* Two elements one after the other or at once.
LEMMA TwoAppends ==
    ASSUME NEW S, NEW d \in Seq(S), NEW a \in S, NEW b \in S
    PROVE  (d \o <<a>>) \o <<b>> = d \o <<a, b>>
  <1> DEFINE n == Len(d)
             p == (d \o <<a>>) \o <<b>>
             q == d \o <<a, b>>
  <1>1. n \in Nat
    OBVIOUS
  <1>2. p \in Seq(S) /\ q \in Seq(S) /\ Len(p) = n + 2 /\ Len(q) = n + 2
    OBVIOUS
  <1>3. p[n + 1] = a /\ p[n + 2] = b /\ \A i \in 1..n : p[i] = d[i]
    OBVIOUS
  <1>4. q[n + 1] = a /\ q[n + 2] = b /\ \A i \in 1..n : q[i] = d[i]
    OBVIOUS
  <1> HIDE DEF p, q
  <1>5. \A i \in 1..(n + 2) : p[i] = q[i]
    BY <1>1, <1>3, <1>4
  <1>6. p = q
    BY <1>1, <1>2, <1>5
  <1>7. QED
    BY <1>6 DEF p, q

\* The digits of one character more.
LEMMA LeavesValue ==
    ASSUME NEW d \in Seq(Digits), NEW c \in 0..35, NEW r, Leaves(d, r)
    PROVE  d \o Value(c) \in Seq(Digits) /\ Leaves(d \o Value(c), RemStep(r, c))
  <1>1. CASE c \in Digits
    BY <1>1, LeavesAppend DEF Value, RemStep
  <1>2. CASE c \notin Digits
    <2> DEFINE a == c \div 10
               b == c % 10
               x == (10 * r + a) % 97
    <2>1. a \in Digits /\ b \in Digits /\ c \in 10..35
      BY <1>2, SMT DEF Digits
    <2>2. r \in 0..96 /\ d \o <<a>> \in Seq(Digits) /\ Leaves(d \o <<a>>, x)
      BY <2>1, LeavesAppend
    <2>3. (d \o <<a>>) \o <<b>> \in Seq(Digits) /\ Leaves((d \o <<a>>) \o <<b>>, (10 * x + b) % 97)
      <3> HIDE DEF x
      <3>1. QED
        BY <2>1, <2>2, LeavesAppend
    <2>4. (d \o <<a>>) \o <<b>> = d \o <<a, b>>
      <3> HIDE DEF a, b
      <3>1. QED
        BY <2>1, TwoAppends
    <2>5. (10 * x + b) % 97 = (100 * r + c) % 97
      BY <2>1, <2>2, TwoDigits, SMTT(60)
    <2>6. Value(c) = <<a, b>> /\ RemStep(r, c) = (100 * r + c) % 97
      BY <1>2 DEF Value, RemStep
    <2> HIDE DEF a, b, x
    <2>7. QED
      BY <2>3, <2>4, <2>5, <2>6
  <1>3. QED
    BY <1>1, <1>2

\* mod97 of the digits of t is the remainder of t.
LEMMA Mod97Numeric ==
    ASSUME NEW t \in Seq(Alnum), NEW f, IsRem(f, t)
    PROVE  Mod97(Numeric(t)) = f[Len(t)]
  <1> DEFINE n == Len(t)
             step == [p \in Seq(Digits) \X (1..n) |-> p[1] \o Value(t[p[2]])]
             Rec(u) == u = [i \in 0..n |-> IF i = 0 THEN <<>> ELSE u[i - 1] \o Value(t[i])]
             v == CHOOSE u : Rec(u)
  <1>1. n \in Nat /\ \A i \in 1..n : t[i] \in 0..35
    BY SeqFacts DEF Alnum
  <1>2. \A i \in 1..n : Value(t[i]) \in Seq(Digits)
    <2>1. ASSUME NEW c \in 0..35 PROVE Value(c) \in Seq(Digits)
      <3>1. CASE c \in Digits
        BY <3>1 DEF Value
      <3>2. CASE c \notin Digits
        <4>1. c \div 10 \in Digits /\ c % 10 \in Digits
          BY <3>2, SMT DEF Digits
        <4>2. QED
          BY <3>2, <4>1 DEF Value
      <3>3. QED
        BY <3>1, <3>2
    <2>2. QED
      BY <1>1, <2>1
  <1>3. \A i \in 1..n : \A x \in Seq(Digits) : x \o Value(t[i]) \in Seq(Digits)
    BY <1>2
  <1>4. step \in Steps(Seq(Digits), n)
    BY <1>3 DEF Steps
  <1> HIDE DEF step
  <1>5. PICK u : IsLoop(u, Seq(Digits), <<>>, n, step)
    <2>1. <<>> \in Seq(Digits)
      OBVIOUS
    <2> HIDE DEF n
    <2>2. QED
      BY <1>1, <1>4, <2>1, LoopDefined
  <1>6. ASSUME NEW i \in 1..n PROVE u[i] = u[i - 1] \o Value(t[i])
    <2>1. u[i - 1] \in Seq(Digits)
      BY <1>5 DEF IsLoop
    <2>2. QED
      BY <1>5, <2>1 DEF step, IsLoop
  <1>7. Rec(u)
    <2>1. u \in [0..n -> Seq(Digits)] /\ u[0] = <<>>
      BY <1>5 DEF IsLoop
    <2>2. u = [i \in 0..n |-> u[i]]
      BY <2>1
    <2>3. \A i \in 0..n : i # 0 => i \in 1..n
      BY <1>1, SMTT(60)
    <2>4. QED
      BY <1>6, <2>1, <2>2, <2>3
  <1>8. Rec(v)
    BY <1>7, ZenonT(60)
  <1>9. Numeric(t) = v[n]
    BY DEF Numeric
  <1> HIDE DEF v
  <1>10. v[0] = <<>> /\ \A i \in 1..n : v[i] = v[i - 1] \o Value(t[i])
    BY <1>1, <1>8
  <1> DEFINE T == {i \in 0..n : v[i] \in Seq(Digits) /\ Leaves(v[i], f[i])}
  <1>11. 0 \in T
    <2>1. 0 \in 0..n /\ <<>> \in Seq(Digits) /\ f[0] = 0
      BY <1>1 DEF IsRem
    <2>2. QED
      BY <1>10, <2>1, LeavesNothing
  <1>12. ASSUME NEW i \in 1..n, i - 1 \in T PROVE i \in T
    <2>1. v[i - 1] \in Seq(Digits) /\ Leaves(v[i - 1], f[i - 1]) /\ t[i] \in 0..35
      BY <1>1, <1>12
    <2>2. f[i] = RemStep(f[i - 1], t[i]) /\ v[i] = v[i - 1] \o Value(t[i])
      BY <1>10 DEF IsRem
    <2>3. v[i] \in Seq(Digits) /\ Leaves(v[i], f[i])
      BY <2>1, <2>2, LeavesValue
    <2>4. i \in 0..n
      BY <1>1
    <2>5. QED
      BY <2>3, <2>4
  <1>13. n \in T
    <2> HIDE DEF T
    <2>1. QED
      BY <1>1, <1>11, <1>12, UpTo
  <1>14. v[n] \in Seq(Digits) /\ Leaves(v[n], f[n])
    BY <1>13
  <1>15. PICK g : IsDig(g, v[n]) /\ g[Len(v[n])] = f[n]
    BY <1>14 DEF Leaves
  <1>16. QED
    BY <1>9, <1>14, <1>15, Mod97Digits

----------------------------------------------------------------------------
(* From the remainder back to the string *)

\* The order in which isValidIban reads the characters: the first four come last.
Rearranged(x) == Drop(x, 4) \o SubSeq(x, 1, 4)

\* The elements of a concatenation.
LEMMA ConcatFacts ==
    ASSUME NEW S, NEW a \in Seq(S), NEW b \in Seq(S)
    PROVE  /\ a \o b \in Seq(S) /\ Len(a \o b) = Len(a) + Len(b)
           /\ \A j \in 1..(Len(a) + Len(b)) :
                 (a \o b)[j] = IF j <= Len(a) THEN a[j] ELSE b[j - Len(a)]
  OBVIOUS

\* The characters in their new order.
LEMMA RearrangedFacts ==
    ASSUME NEW x \in Seq(Alnum), NEW n \in Nat, Len(x) = n, n >= 5
    PROVE  /\ Rearranged(x) \in Seq(Alnum) /\ Len(Rearranged(x)) = n
           /\ \A j \in 1..n :
                 Rearranged(x)[j] = IF j <= n - 4 THEN x[j + 4] ELSE x[j - (n - 4)]
  <1> DEFINE a == Drop(x, 4)
             b == SubSeq(x, 1, 4)
  <1>1. a \in Seq(Alnum) /\ Len(a) = n - 4 /\ \A j \in 1..(n - 4) : a[j] = x[j + 4]
    BY DEF Drop
  <1>2. b \in Seq(Alnum) /\ Len(b) = 4 /\ \A j \in 1..4 : b[j] = x[j]
    OBVIOUS
  <1> HIDE DEF a, b
  <1>3. /\ a \o b \in Seq(Alnum) /\ Len(a \o b) = n
        /\ \A j \in 1..n : (a \o b)[j] = IF j <= n - 4 THEN a[j] ELSE b[j - (n - 4)]
    <2>1. Len(a) + Len(b) = n
      BY <1>1, <1>2
    <2>2. a \o b \in Seq(Alnum) /\ Len(a \o b) = n
      BY <1>1, <1>2, <2>1, ConcatFacts
    <2>3. ASSUME NEW j \in 1..n
          PROVE  (a \o b)[j] = IF j <= n - 4 THEN a[j] ELSE b[j - (n - 4)]
      <3>1. j \in 1..(Len(a) + Len(b))
        BY <2>1
      <3>2. (a \o b)[j] = IF j <= Len(a) THEN a[j] ELSE b[j - Len(a)]
        BY <1>1, <1>2, <3>1, ConcatFacts
      <3>3. QED
        BY <1>1, <3>2
    <2>4. QED
      BY <2>2, <2>3
  <1>4. ASSUME NEW j \in 1..n
        PROVE  (a \o b)[j] = IF j <= n - 4 THEN x[j + 4] ELSE x[j - (n - 4)]
    <2>1. CASE j <= n - 4
      BY <1>1, <1>3, <2>1
    <2>2. CASE ~(j <= n - 4)
      <3>1. j - (n - 4) \in 1..4
        BY <2>2
      <3>2. QED
        BY <1>2, <1>3, <2>2, <3>1
    <2>3. QED
      BY <2>1, <2>2
  <1>5. QED
    BY <1>3, <1>4 DEF Rearranged, a, b

\* Where the k-th character is read.
Place(n, k) == IF k >= 5 THEN k - 4 ELSE (n - 4) + k

\* The character read at j.
Read(n, j) == IF j <= n - 4 THEN j + 4 ELSE j - (n - 4)

\* Place and Read are inverse; neighbours stay neighbours, the fourth and fifth excepted.
LEMMA ReadFacts ==
    ASSUME NEW n \in Nat, n >= 6
    PROVE  /\ \A k \in 1..n : Place(n, k) \in 1..n /\ Read(n, Place(n, k)) = k
           /\ \A j \in 1..n : Read(n, j) \in 1..n /\ Place(n, Read(n, j)) = j
           /\ \A j, k \in 1..n : j # Place(n, k) => Read(n, j) # k
           /\ \A k \in 1..(n - 1) : k # 4 =>
                 Place(n, k) \in 1..(n - 1) /\ Place(n, k + 1) = Place(n, k) + 1
           /\ Place(n, 4) = n /\ Place(n, 5) = 1
  BY SMT DEF Place, Read

\* The characters in their new order, by Place and Read.
LEMMA RearrangedRead ==
    ASSUME NEW x \in Seq(Alnum), NEW n \in Nat, Len(x) = n, n >= 6
    PROVE  /\ Rearranged(x) \in Seq(Alnum) /\ Len(Rearranged(x)) = n
           /\ \A j \in 1..n : Rearranged(x)[j] = x[Read(n, j)]
           /\ \A k \in 1..n : Rearranged(x)[Place(n, k)] = x[k]
  <1>1. n >= 5
    OBVIOUS
  <1>2. /\ Rearranged(x) \in Seq(Alnum) /\ Len(Rearranged(x)) = n
        /\ \A j \in 1..n : Rearranged(x)[j] = x[Read(n, j)]
    BY <1>1, RearrangedFacts DEF Read
  <1>3. ASSUME NEW k \in 1..n PROVE Rearranged(x)[Place(n, k)] = x[k]
    BY <1>2, ReadFacts
  <1>4. QED
    BY <1>2, <1>3

\* The lengths of an IBAN.
LEMMA IbanLength ==
    ASSUME NEW n \in 15..34
    PROVE  n \in Nat /\ n >= 6 /\ 4 \in 1..n /\ 5 \in 1..n
  BY SMT

\* The remainder isValidIban compares with 1.
Check(x) == Mod97(Numeric(Rearranged(x)))

\* A typo is one in the new order too.
LEMMA RearrangedTypo ==
    ASSUME NEW x \in Seq(Alnum), NEW y \in Seq(Alnum), NEW n \in Nat, n >= 6, Len(x) = n,
           NEW k, Typo(x, y, k)
    PROVE  Typo(Rearranged(x), Rearranged(y), Place(n, k))
  <1> DEFINE t == Rearranged(x)
             u == Rearranged(y)
             p == Place(n, k)
  <1>1. /\ Len(y) = n /\ k \in 1..n /\ x[k] # y[k] /\ SameKind(x[k], y[k])
        /\ \A i \in 1..n : i # k => x[i] = y[i]
    BY DEF Typo
  <1>2. /\ Len(t) = n /\ \A j \in 1..n : t[j] = x[Read(n, j)]
        /\ Len(u) = n /\ \A j \in 1..n : u[j] = y[Read(n, j)]
        /\ t[p] = x[k] /\ u[p] = y[k]
    BY <1>1, RearrangedRead
  <1>3. p \in 1..n
    BY <1>1, ReadFacts
  <1>4. ASSUME NEW j \in 1..n, j # p PROVE t[j] = u[j]
    <2>1. Read(n, j) \in 1..n /\ Read(n, j) # k
      BY <1>1, <1>4, ReadFacts
    <2>2. QED
      BY <1>1, <1>2, <2>1
  <1> HIDE DEF t, u, p
  <1>5. Typo(t, u, p)
    BY <1>1, <1>2, <1>3, <1>4 DEF Typo
  <1>6. QED
    BY <1>5 DEF t, u, p

\* So are two characters in each other's place.
LEMMA RearrangedSwapped ==
    ASSUME NEW x \in Seq(Alnum), NEW y \in Seq(Alnum), NEW n \in Nat, n >= 6, Len(x) = n,
           NEW k, NEW l, Swapped(x, y, k, l)
    PROVE  Swapped(Rearranged(x), Rearranged(y), Place(n, k), Place(n, l))
  <1> DEFINE t == Rearranged(x)
             u == Rearranged(y)
             p == Place(n, k)
             q == Place(n, l)
  <1>1. /\ Len(y) = n /\ k \in 1..n /\ l \in 1..n
        /\ x[k] # x[l] /\ SameKind(x[k], x[l]) /\ y[k] = x[l] /\ y[l] = x[k]
        /\ \A i \in 1..n : i # k /\ i # l => x[i] = y[i]
    BY DEF Swapped
  <1>2. /\ Len(t) = n /\ \A j \in 1..n : t[j] = x[Read(n, j)]
        /\ Len(u) = n /\ \A j \in 1..n : u[j] = y[Read(n, j)]
        /\ t[p] = x[k] /\ u[p] = y[k] /\ t[q] = x[l] /\ u[q] = y[l]
    BY <1>1, RearrangedRead
  <1>3. p \in 1..n /\ q \in 1..n
    BY <1>1, ReadFacts
  <1>4. ASSUME NEW j \in 1..n, j # p, j # q PROVE t[j] = u[j]
    <2>1. Read(n, j) \in 1..n /\ Read(n, j) # k /\ Read(n, j) # l
      BY <1>1, <1>4, ReadFacts
    <2>2. QED
      BY <1>1, <1>2, <2>1
  <1> HIDE DEF t, u, p, q
  <1>5. Swapped(t, u, p, q)
    BY <1>1, <1>2, <1>3, <1>4 DEF Swapped
  <1>6. QED
    BY <1>5 DEF t, u, p, q

\* A mistyped character changes the remainder.
LEMMA IbanTypo ==
    ASSUME NEW x \in Seq(Alnum), NEW y \in Seq(Alnum), Len(x) \in 15..34, NEW k, Typo(x, y, k)
    PROVE  Check(x) # Check(y)
  <1> DEFINE n == Len(x)
             t == Rearranged(x)
             u == Rearranged(y)
             p == Place(n, k)
  <1>1. n \in Nat /\ n >= 6 /\ Len(y) = n
    BY IbanLength DEF Typo
  <1>2. t \in Seq(Alnum) /\ u \in Seq(Alnum) /\ Len(t) = n /\ Len(u) = n
    <2> HIDE DEF n
    <2>1. QED
      BY <1>1, RearrangedRead DEF n
  <1>3. Typo(t, u, p)
    BY <1>1, RearrangedTypo
  <1> HIDE DEF t, u, p
  <1>4. PICK f : IsRem(f, t)
    BY <1>2, RemExists
  <1>5. PICK g : IsRem(g, u)
    BY <1>2, RemExists
  <1>6. f[Len(t)] # g[Len(t)]
    BY <1>2, <1>3, <1>4, <1>5, TypoChangesRemainder
  <1>7. Check(x) = f[Len(t)] /\ Check(y) = g[Len(u)]
    BY <1>2, <1>4, <1>5, Mod97Numeric DEF Check, t, u
  <1>8. QED
    BY <1>2, <1>6, <1>7

\* So do two neighbours that change places, those that are first and last to be read too.
LEMMA IbanSwap ==
    ASSUME NEW x \in Seq(Alnum), NEW y \in Seq(Alnum), Len(x) \in 15..34, x[4] \in Digits,
           NEW k, Swapped(x, y, k, k + 1)
    PROVE  Check(x) # Check(y)
  <1> DEFINE n == Len(x)
             t == Rearranged(x)
             u == Rearranged(y)
             p == Place(n, k)
             q == Place(n, k + 1)
  <1>1. n \in Nat /\ n >= 6 /\ Len(y) = n /\ k \in 1..n /\ k + 1 \in 1..n /\ 4 \in 1..n
    BY IbanLength DEF Swapped
  <1>2. k \in 1..(n - 1)
    BY <1>1
  <1>3. t \in Seq(Alnum) /\ u \in Seq(Alnum) /\ Len(t) = n /\ Len(u) = n /\ t[Place(n, 4)] = x[4]
    <2> HIDE DEF n
    <2>1. QED
      BY <1>1, RearrangedRead DEF n
  <1>4. Swapped(t, u, p, q)
    BY <1>1, RearrangedSwapped
  <1>5. q = p + 1 \/ (p = n /\ q = 1 /\ t[n] \in Digits)
    <2>1. CASE k = 4
      <3>1. k + 1 = 5 /\ Place(n, 4) = n /\ Place(n, 5) = 1
        BY <1>1, <2>1, ReadFacts
      <3>2. QED
        BY <1>3, <2>1, <3>1
    <2>2. CASE k # 4
      BY <1>1, <1>2, <2>2, ReadFacts
    <2>3. QED
      BY <2>1, <2>2
  <1> HIDE DEF t, u, p, q
  <1>6. PICK f : IsRem(f, t)
    BY <1>3, RemExists
  <1>7. PICK g : IsRem(g, u)
    BY <1>3, RemExists
  <1>8. f[Len(t)] # g[Len(t)]
    <2>1. CASE q = p + 1
      <3>1. Swapped(t, u, p, p + 1)
        BY <1>4, <2>1
      <3>2. QED
        BY <1>3, <1>6, <1>7, <3>1, SwapChangesRemainder
    <2>2. CASE p = n /\ q = 1 /\ t[n] \in Digits
      <3>1. Swapped(t, u, Len(t), 1) /\ t[Len(t)] \in Digits /\ Len(t) \in 15..34
        BY <1>3, <1>4, <2>2
      <3>2. QED
        BY <1>3, <1>6, <1>7, <3>1, EndsChangeRemainder
    <2>3. QED
      BY <1>5, <2>1, <2>2
  <1>9. Check(x) = f[Len(t)] /\ Check(y) = g[Len(u)]
    BY <1>3, <1>6, <1>7, Mod97Numeric DEF Check, t, u
  <1>10. QED
    BY <1>3, <1>8, <1>9

\* Digits and capital letters are kept as they are.
LEMMA KindVisible ==
    ASSUME NEW a, NEW b, SameKind(a, b)
    PROVE  /\ a \in Visible /\ b \in Visible /\ a \in Characters /\ b \in Characters
           /\ Upper(a) = a /\ Upper(b) = b
  <1>1. ASSUME NEW c, c \in Digits \/ c \in Letters
        PROVE  c \in Visible /\ c \in Characters /\ Upper(c) = c
    BY <1>1, SMT DEF Digits, Letters, Visible, Characters, Space, Upper, LowerCase
  <1>2. QED
    BY <1>1 DEF SameKind

\* The characters of the compact form, by the rank of the position they come from.
LEMMA CompactAt ==
    ASSUME NEW s \in Seq(Characters), NEW P, P = Positions(s, Visible)
    PROVE  /\ Compact(s) \in Seq(Characters)
           /\ Len(s) \in Nat /\ P \in SUBSET (1..Len(s))
           /\ Len(Compact(s)) = Cardinality(P) /\ Cardinality(P) \in Nat
           /\ \A i \in P : Rank(P, i) \in 1..Cardinality(P) /\ Compact(s)[Rank(P, i)] = Upper(s[i])
  <1> DEFINE K == Keep(s, Visible)
  <1>1. /\ P \in SUBSET (1..Len(s)) /\ Len(s) \in Nat
        /\ Len(K) = Cardinality(P) /\ Cardinality(P) \in Nat
        /\ \A i \in P : Rank(P, i) \in 1..Cardinality(P) /\ K[Rank(P, i)] = s[i]
    BY KeepFacts
  <1>2. /\ Compact(s) \in Seq(Characters) /\ Len(Compact(s)) = Len(K)
        /\ \A i \in 1..Len(K) : Compact(s)[i] = Upper(K[i])
    BY CompactFacts
  <1> HIDE DEF K
  <1>3. QED
    BY <1>1, <1>2

\* A typo is one in the compact form too.
LEMMA CompactTypo ==
    ASSUME NEW s \in Seq(Characters), NEW z \in Seq(Characters), NEW i, Typo(s, z, i)
    PROVE  \E k : Typo(Compact(s), Compact(z), k)
  <1> DEFINE P == Positions(s, Visible)
             n == Cardinality(P)
             x == Compact(s)
             y == Compact(z)
             k == Rank(P, i)
  <1>1. /\ Len(s) = Len(z) /\ i \in 1..Len(s) /\ s[i] # z[i] /\ SameKind(s[i], z[i])
        /\ \A j \in 1..Len(s) : j # i => s[j] = z[j]
    BY DEF Typo
  <1>2. s[i] \in Visible /\ z[i] \in Visible /\ Upper(s[i]) = s[i] /\ Upper(z[i]) = z[i]
    BY <1>1, KindVisible
  <1>3. Positions(z, Visible) = P /\ i \in P
    <2>1. DOMAIN s = 1..Len(s) /\ DOMAIN z = 1..Len(s)
      BY <1>1, SeqFacts
    <2>2. QED
      BY <1>1, <1>2, <2>1 DEF Positions
  <1>4. /\ x \in Seq(Characters) /\ Len(x) = n /\ n \in Nat
        /\ Len(s) \in Nat /\ P \in SUBSET (1..Len(s))
        /\ \A j \in P : Rank(P, j) \in 1..n /\ x[Rank(P, j)] = Upper(s[j])
    BY CompactAt
  <1>5. /\ y \in Seq(Characters) /\ Len(y) = n
        /\ \A j \in P : y[Rank(P, j)] = Upper(z[j])
    BY <1>3, CompactAt
  <1> HIDE DEF P, x, y
  <1>6. x[k] = s[i] /\ y[k] = z[i] /\ k \in 1..n
    BY <1>2, <1>3, <1>4, <1>5
  <1>7. ASSUME NEW m \in 1..n, m # k PROVE x[m] = y[m]
    <2>1. PICK j \in P : Rank(P, j) = m
      BY <1>4, RankReached
    <2>2. j # i /\ j \in 1..Len(s)
      BY <1>4, <1>7, <2>1
    <2>3. QED
      BY <1>1, <1>4, <1>5, <2>1, <2>2
  <1>8. Typo(x, y, k)
    BY <1>1, <1>4, <1>5, <1>6, <1>7 DEF Typo
  <1>9. QED
    BY <1>8 DEF x, y

\* Neighbours in each other's place are neighbours in the compact form too.
LEMMA CompactSwapped ==
    ASSUME NEW s \in Seq(Characters), NEW z \in Seq(Characters), NEW i, Swapped(s, z, i, i + 1)
    PROVE  \E k : Swapped(Compact(s), Compact(z), k, k + 1)
  <1> DEFINE P == Positions(s, Visible)
             n == Cardinality(P)
             x == Compact(s)
             y == Compact(z)
             k == Rank(P, i)
  <1>1. /\ Len(s) = Len(z) /\ i \in 1..Len(s) /\ i + 1 \in 1..Len(s)
        /\ s[i] # s[i + 1] /\ SameKind(s[i], s[i + 1]) /\ z[i] = s[i + 1] /\ z[i + 1] = s[i]
        /\ \A j \in 1..Len(s) : j # i /\ j # i + 1 => s[j] = z[j]
    BY DEF Swapped
  <1>2. s[i] \in Visible /\ s[i + 1] \in Visible /\ Upper(s[i]) = s[i] /\ Upper(s[i + 1]) = s[i + 1]
    BY <1>1, KindVisible
  <1>3. Positions(z, Visible) = P /\ i \in P /\ i + 1 \in P
    <2>1. DOMAIN s = 1..Len(s) /\ DOMAIN z = 1..Len(s)
      BY <1>1, SeqFacts
    <2>2. QED
      BY <1>1, <1>2, <2>1 DEF Positions
  <1>4. /\ x \in Seq(Characters) /\ Len(x) = n /\ n \in Nat
        /\ Len(s) \in Nat /\ P \in SUBSET (1..Len(s))
        /\ \A j \in P : Rank(P, j) \in 1..n /\ x[Rank(P, j)] = Upper(s[j])
    BY CompactAt
  <1>5. /\ y \in Seq(Characters) /\ Len(y) = n
        /\ \A j \in P : y[Rank(P, j)] = Upper(z[j])
    BY <1>3, CompactAt
  <1> HIDE DEF P, x, y
  <1>6. Rank(P, i + 1) = k + 1
    <2>1. i + 1 \in Nat \ {0} /\ (i + 1) - 1 = i
      BY <1>1, <1>4
    <2>2. QED
      BY <1>3, <1>4, <2>1, RankStep
  <1>7. /\ x[k] = s[i] /\ x[k + 1] = s[i + 1] /\ y[k] = s[i + 1] /\ y[k + 1] = s[i]
        /\ k \in 1..n /\ k + 1 \in 1..n
    BY <1>1, <1>2, <1>3, <1>4, <1>5, <1>6
  <1>8. ASSUME NEW m \in 1..n, m # k, m # k + 1 PROVE x[m] = y[m]
    <2>1. PICK j \in P : Rank(P, j) = m
      BY <1>4, RankReached
    <2>2. j # i /\ j # i + 1 /\ j \in 1..Len(s)
      BY <1>4, <1>6, <1>8, <2>1
    <2>3. QED
      BY <1>1, <1>4, <1>5, <2>1, <2>2
  <1>9. Swapped(x, y, k, k + 1)
    BY <1>1, <1>4, <1>5, <1>7, <1>8 DEF Swapped
  <1>10. QED
    BY <1>9 DEF x, y

\* What isValidIban has checked.
LEMMA IbanFacts ==
    ASSUME NEW s \in Seq(Characters), IsValidIban(s)
    PROVE  /\ Compact(s) \in Seq(Alnum) /\ Len(Compact(s)) \in 15..34
           /\ Compact(s)[4] \in Digits /\ Check(Compact(s)) = 1
  <1> DEFINE x == Compact(s)
             n == Len(x)
  <1>1. /\ n \in 15..34 /\ (\A i \in 1..2 : x[i] \in Letters) /\ (\A i \in 3..4 : x[i] \in Digits)
        /\ (\A i \in 5..n : x[i] \in Letters \cup Digits) /\ Check(x) = 1
    BY DEF IsValidIban, Check, Rearranged
  <1>2. x \in Seq(Characters)
    BY CompactFacts
  <1> HIDE DEF x
  <1>3. n \in Nat /\ DOMAIN x = 1..n /\ x = [i \in 1..n |-> x[i]]
    BY <1>2
  <1>4. Letters \subseteq Alnum /\ Digits \subseteq Alnum
    BY SMT DEF Letters, Digits, Alnum
  <1>5. ASSUME NEW i \in 1..n PROVE x[i] \in Alnum
    <2>1. i \in 1..2 \/ i \in 3..4 \/ i \in 5..n
      BY <1>3
    <2>2. QED
      BY <1>1, <1>4, <2>1
  <1>6. x \in Seq(Alnum)
    BY <1>3, <1>5
  <1>7. 4 \in 3..4
    OBVIOUS
  <1>8. QED
    BY <1>1, <1>6, <1>7 DEF x

\* Of two valid IBANs none is the other with such a mistake.
LEMMA ValidNoTypo ==
    ASSUME NEW s \in Seq(Characters), NEW z \in Seq(Characters), IsValidIban(s), IsValidIban(z),
           NEW i
    PROVE  ~Typo(s, z, i) /\ ~Swapped(s, z, i, i + 1)
  <1>1. ASSUME Typo(s, z, i) PROVE FALSE
    BY <1>1, CompactTypo, IbanFacts, IbanTypo
  <1>2. ASSUME Swapped(s, z, i, i + 1) PROVE FALSE
    BY <1>2, CompactSwapped, IbanFacts, IbanSwap
  <1>3. QED
    BY <1>1, <1>2

\* isValidIban misses no mistyped character and no swapped neighbours, for any string with
\* any spaces in it: the remainder by seven-digit slices is that of the whole number, every
\* such mistake changes it, also between the fourth and fifth character, which are read last
\* and first.
THEOREM IbanDetectsTyposHolds == ValidateSpec => []IbanDetectsTypos
  <1>1. VerdictRight => IbanDetectsTypos
    <2> DEFINE s == call.identifier
    <2> SUFFICES ASSUME VerdictRight, IsValidIban(s)
                 PROVE  /\ \A i \in DOMAIN s : \A c \in Kind(s[i]) \ {s[i]} :
                              ~IsValidIban([s EXCEPT ![i] = c])
                        /\ \A i \in 1..(Len(s) - 1) :
                              s[i] # s[i + 1] /\ Kind(s[i]) = Kind(s[i + 1])
                                => ~IsValidIban([s EXCEPT ![i] = s[i + 1], ![i + 1] = s[i]])
      BY DEF IbanDetectsTypos
    <2>1. s \in Seq(Characters)
      BY CallTyped
    <2> HIDE DEF s
    <2>2. Len(s) \in Nat /\ DOMAIN s = 1..Len(s)
      BY <2>1
    <2>3. ASSUME NEW a, NEW b \in Kind(a), a # b PROVE SameKind(a, b)
      BY <2>3 DEF Kind, SameKind
    <2>4. \A b : b \in Kind(b)
      BY DEF Kind
    <2>5. ASSUME NEW i \in DOMAIN s, NEW c \in Kind(s[i]) \ {s[i]}
          PROVE  ~IsValidIban([s EXCEPT ![i] = c])
      <3> DEFINE z == [s EXCEPT ![i] = c]
      <3>1. SameKind(s[i], c) /\ c \in Characters
        BY <2>3, KindVisible
      <3>2. /\ z \in Seq(Characters) /\ Len(z) = Len(s) /\ z[i] = c
            /\ \A j \in 1..Len(s) : j # i => s[j] = z[j]
        BY <2>1, <2>2, <3>1
      <3> HIDE DEF z
      <3>3. Typo(s, z, i)
        BY <2>2, <3>1, <3>2 DEF Typo
      <3>4. QED
        BY <2>1, <3>2, <3>3, ValidNoTypo DEF z
    <2>6. ASSUME NEW i \in 1..(Len(s) - 1), s[i] # s[i + 1], Kind(s[i]) = Kind(s[i + 1])
          PROVE  ~IsValidIban([s EXCEPT ![i] = s[i + 1], ![i + 1] = s[i]])
      <3> DEFINE z == [s EXCEPT ![i] = s[i + 1], ![i + 1] = s[i]]
      <3>1. SameKind(s[i], s[i + 1])
        BY <2>3, <2>4, <2>6
      <3>2. i \in 1..Len(s) /\ i + 1 \in 1..Len(s) /\ i # i + 1
        BY <2>2
      <3>3. s[i] \in Characters /\ s[i + 1] \in Characters
        BY <3>1, KindVisible
      <3>4. /\ z \in Seq(Characters) /\ Len(z) = Len(s) /\ z[i] = s[i + 1] /\ z[i + 1] = s[i]
            /\ \A j \in 1..Len(s) : j # i /\ j # i + 1 => s[j] = z[j]
        BY <2>1, <2>2, <3>2, <3>3
      <3> HIDE DEF z
      <3>5. Swapped(s, z, i, i + 1)
        BY <2>6, <3>1, <3>2, <3>4 DEF Swapped
      <3>6. QED
        BY <2>1, <3>4, <3>5, ValidNoTypo DEF z
    <2>7. QED
      BY <2>5, <2>6
  <1>2. QED
    BY <1>1, VerdictsRight, PTL

----------------------------------------------------------------------------
(* Stored payment methods *)

\* Every stored bank account has a real identifier.
StoredBanksReal ==
    \A m \in Methods :
        Stored(m) /\ methods[m].provider.type = "BANK" => Real(methods[m].identifier)

\* With the validator's rules for Accepted, the payment methods of bank providers that users
\* have stored are real accounts, whatever requests ran and crashed: concurrent partial
\* updates never store one that the rules refuse.
THEOREM StoredBankMethods ==
    ASSUME Identifiers \subseteq Seq(Characters),
           \A p \in Providers : Accepted[p] = {i \in Identifiers : IsValid(p, i)}
    PROVE  Spec => []StoredBanksReal
  <1>1. TypeOK /\ MethodsMatch => StoredBanksReal
    <2> SUFFICES ASSUME TypeOK, MethodsMatch, NEW m \in Methods, Stored(m),
                        methods[m].provider.type = "BANK"
                 PROVE  Real(methods[m].identifier)
      BY DEF StoredBanksReal
    <2> DEFINE p == methods[m].provider
               i == methods[m].identifier
    <2>1. p \in Providers
      BY DEF TypeOK, Stored, Method
    <2>2. i \in Accepted[p]
      BY DEF MethodsMatch
    <2> HIDE DEF p, i
    <2>3. i \in Seq(Characters) /\ IsValid(p, i) /\ p.type = "BANK"
      BY <2>1, <2>2 DEF p
    <2>4. Real(i)
      BY <2>3, BankAccepts, BankAccountReal, CostaRicanAccountReal, BacAccountReal, IbanReal
    <2>5. QED
      BY <2>4 DEF i
  <1>2. QED
    BY <1>1, TypeCorrect, MethodsMatchHolds, PTL

==============================================================================
