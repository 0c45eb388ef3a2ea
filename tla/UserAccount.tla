------------------------------- MODULE UserAccount -------------------------------
(***************************************************************************)
(* User accounts and what the platform keeps about a person: the profile   *)
(* row, payment methods, chat messages, the picture, the addresses in the  *)
(* audit log, the waitlist, and UsersService.remove that erases them.      *)
(*                                                                         *)
(* Every await is a step boundary; only remove runs in a transaction.  A   *)
(* login is taken as a whole here, AuthChallenge has its steps.  Other     *)
(* profile columns (username, bio, currency) are written and erased        *)
(* together with email and need no state of their own.                     *)
(***************************************************************************)
CONSTANTS
    Users,         \* userIds, never used twice
    Keys,          \* public keys
    Aliases,       \* aliases
    Emails,        \* e-mail addresses
    Providers,     \* rows of payment_provider, which nothing here changes
    Identifiers,   \* account identifiers
    Accepted,      \* Accepted[p]: identifiers the validator accepts for provider p
    Methods,       \* paymentIds, never used twice
    Addresses,     \* IP addresses that requests come from
    Kinds,         \* what else is kept: "message" (sent in a chat), "picture"
    Requests       \* requests the server can have in flight

ASSUME AcceptedAssumption == Accepted \in [Providers -> SUBSET Identifiers]

VARIABLES
    users,      \* users[u]: the app_user row, if there is one
    methods,    \* methods[m]: the payment method, if there is one
    kept,       \* readable messages and pictures: pairs of a user and a kind
    audit,      \* audit rows that carry an IP address
    waitlist,   \* e-mail addresses on the waitlist
    req,        \* req[r]: where an in-flight request stands
    back        \* history: users about whom somebody's request was under way when their
                \* account was erased, or began since

vars == <<users, methods, kept, audit, waitlist, req, back>>

None == "none"
Absent == [row |-> "absent"]
Removed == [row |-> "removed"]

User == [key: Keys, alias: Aliases \cup {None}, email: Emails \cup {None}, deleted: BOOLEAN]
Method == [user: Users, provider: Providers, identifier: Identifiers]

Exists(u) == users[u] # Absent
Stored(m) == methods[m] \notin {Absent, Removed}

\* The unique columns of app_user, with the value a write wants to store.
KeyFree(k) == \A u \in Users : Exists(u) => users[u].key # k
AliasFree(u, a) == a = None \/ \A v \in Users \ {u} : Exists(v) => users[v].alias # a

Idle == [pc |-> "idle"]

\* None as alias or email: the dto does not set it.
Request ==
    [pc: {"insert"}, key: Keys, alias: Aliases \cup {None}]
        \cup [pc: {"alias", "profile"}, user: Users, alias: Aliases \cup {None},
              email: Emails \cup {None}]
        \cup [pc: {"provider", "add"}, user: Users, provider: Providers, identifier: Identifiers]
        \cup [pc: {"merge", "rewrite"}, method: Methods, provider: Providers,
              identifier: Identifiers]
        \cup [pc: {"keep"}, user: Users, kind: Kinds]

\* Every variable holds a value of its type, and publicKey and alias are unique.
TypeOK ==
    /\ users \in [Users -> User \cup {Absent}]
    /\ methods \in [Methods -> Method \cup {Absent, Removed}]
    /\ kept \in SUBSET (Users \X Kinds)
    /\ audit \in SUBSET [key: Keys, user: Users \cup {None}, address: Addresses]
    /\ waitlist \in SUBSET Emails
    /\ req \in [Requests -> Request \cup {Idle}]
    /\ back \in SUBSET Users
    /\ \A u, v \in Users : Exists(u) /\ Exists(v) /\ u # v =>
          users[u].key # users[v].key /\ AliasFree(u, users[u].alias)

---------------------------------------------------------------------------------

At(r, pc) == req[r] # Idle /\ req[r].pc = pc
Suspend(r, state) == req' = [req EXCEPT ![r] = state]
Proceed(r, pc) == req' = [req EXCEPT ![r].pc = pc] /\ UNCHANGED back
Finish(r) == req' = [req EXCEPT ![r] = Idle] /\ UNCHANGED back

ComesBack(u, condition) == back' = IF condition THEN back \cup {u} ELSE back

\* A request begins that will store something about an existing account.  Whose request it
\* is does not matter and is not recorded: set-up takes the account from the path, and
\* adding a payment method or posting a message takes it from the body, without comparing
\* it with the caller, who need not be logged in for the last two.
Starts(r, u) ==
    /\ req[r] = Idle
    /\ Exists(u)
    /\ ComesBack(u, users[u].deleted)

\* A check rejects the request, or a query fails; what it already wrote stays.
RequestFails(r) ==
    /\ req[r] # Idle
    /\ Finish(r)
    /\ UNCHANGED <<users, methods, kept, audit, waitlist>>

Crash ==
    /\ req' = [r \in Requests |-> Idle]
    /\ UNCHANGED <<users, methods, kept, audit, waitlist, back>>

---------------------------------------------------------------------------------
(* Sign-up: getOrCreateAccount, create, login, earlyRegister *)

FindKey(r, k, a) ==
    /\ req[r] = Idle
    /\ KeyFree(k)
    /\ Suspend(r, [pc |-> "insert", key |-> k, alias |-> a])
    /\ UNCHANGED <<users, methods, kept, audit, waitlist, back>>

NewUser(k, a) == [key |-> k, alias |-> a, email |-> None, deleted |-> FALSE]

\* An insert that trusts the earlier look-up.
InsertUserAnyway(r, u) ==
    /\ At(r, "insert")
    /\ ~Exists(u)
    /\ AliasFree(u, req[r].alias)
    /\ users' = [users EXCEPT ![u] = NewUser(req[r].key, req[r].alias)]
    /\ Finish(r)
    /\ UNCHANGED <<methods, kept, audit, waitlist>>

InsertUser(r, u) ==
    /\ At(r, "insert")
    /\ ~Exists(u)
    /\ KeyFree(req[r].key) /\ AliasFree(u, req[r].alias)
    /\ users' = [users EXCEPT ![u] = NewUser(req[r].key, req[r].alias)]
    /\ Finish(r)
    /\ UNCHANGED <<methods, kept, audit, waitlist>>

\* The account is found or made, and the login is audited with the caller's address, if
\* it is known; the record names the public key and no userId.
LogIn(u, k, ip) ==
    /\ \/ Exists(u) /\ users[u].key = k /\ users' = users
       \/ ~Exists(u) /\ KeyFree(k) /\ users' = [users EXCEPT ![u] = NewUser(k, None)]
    /\ audit' = IF ip = None THEN audit
                ELSE audit \cup {[key |-> k, user |-> None, address |-> ip]}
    /\ UNCHANGED <<methods, kept, waitlist, req, back>>

EarlyRegister(e) ==
    /\ waitlist' = waitlist \cup {e}
    /\ UNCHANGED <<users, methods, kept, audit, req, back>>

---------------------------------------------------------------------------------
(* Profile: setupAccount, update *)

\* What is given replaces what is stored.
SetProfile(u, a, e) ==
    /\ AliasFree(u, a)
    /\ users' = [users EXCEPT ![u].alias = IF a = None THEN @ ELSE a,
                              ![u].email = IF e = None THEN @ ELSE e]

\* The profile is written first; a payment method is then checked and added.
SetupProfile(r, u, a, e, p, i) ==
    /\ Starts(r, u)
    /\ SetProfile(u, a, e)
    /\ \/ Suspend(r, [pc |-> "provider", user |-> u, provider |-> p, identifier |-> i])
       \/ UNCHANGED req
    /\ UNCHANGED <<methods, kept, audit, waitlist>>

\* An alias the user already has is not looked up again.
UpdateRead(r, u, a, e) ==
    /\ Starts(r, u)
    /\ Suspend(r, [pc |-> IF a \in {None, users[u].alias} THEN "profile" ELSE "alias",
                   user |-> u, alias |-> a, email |-> e])
    /\ UNCHANGED <<users, methods, kept, audit, waitlist>>

UpdateCheckAlias(r) ==
    /\ At(r, "alias")
    /\ \A v \in Users : Exists(v) => users[v].alias # req[r].alias
    /\ Proceed(r, "profile")
    /\ UNCHANGED <<users, methods, kept, audit, waitlist>>

UpdateWrite(r) ==
    /\ At(r, "profile")
    /\ SetProfile(req[r].user, req[r].alias, req[r].email)
    /\ Finish(r)
    /\ UNCHANGED <<methods, kept, audit, waitlist>>

\* uploadProfilePicture finds the user and uploads the file, sendMessage checks the
\* sender's access to the order; both store their result after that.  What POST
\* /chat-messages stores, under the sender it is given, is the same without the check.
KeepRead(r, u, kind) ==
    /\ Starts(r, u)
    /\ Suspend(r, [pc |-> "keep", user |-> u, kind |-> kind])
    /\ UNCHANGED <<users, methods, kept, audit, waitlist>>

KeepWrite(r) ==
    /\ At(r, "keep")
    /\ kept' = kept \cup {<<req[r].user, req[r].kind>>}
    /\ Finish(r)
    /\ UNCHANGED <<users, methods, audit, waitlist>>

---------------------------------------------------------------------------------
(* Payment methods: create, update, remove *)

CreateMethod(r, u, p, i) ==
    /\ Starts(r, u)
    /\ Suspend(r, [pc |-> "provider", user |-> u, provider |-> p, identifier |-> i])
    /\ UNCHANGED <<users, methods, kept, audit, waitlist>>

\* validator.validate with the provider's row.
Validated(r) == req[r].identifier \in Accepted[req[r].provider]

CheckProvider(r) ==
    /\ At(r, "provider")
    /\ Validated(r)
    /\ Proceed(r, "add")
    /\ UNCHANGED <<users, methods, kept, audit, waitlist>>

AddMethod(r, m) ==
    /\ At(r, "add")
    /\ methods[m] = Absent
    /\ methods' = [methods EXCEPT ![m] = [user |-> req[r].user, provider |-> req[r].provider,
                                          identifier |-> req[r].identifier]]
    /\ Finish(r)
    /\ UNCHANGED <<users, kept, audit, waitlist>>

\* The dto's provider and identifier, or the stored ones where it has none.
UpdateMethodRead(r, m, p, i) ==
    /\ req[r] = Idle
    /\ Stored(m)
    /\ Suspend(r, [pc |-> "merge", method |-> m,
                   provider   |-> IF p = None THEN methods[m].provider ELSE p,
                   identifier |-> IF i = None THEN methods[m].identifier ELSE i])
    /\ UNCHANGED <<users, methods, kept, audit, waitlist, back>>

UpdateMethodCheck(r) ==
    /\ At(r, "merge")
    /\ Validated(r)
    /\ Proceed(r, "rewrite")
    /\ UNCHANGED <<users, methods, kept, audit, waitlist>>

\* An update that writes the provider alone and trusts the stored identifier.
UpdateMethodWriteProvider(r) ==
    /\ At(r, "rewrite")
    /\ Stored(req[r].method)
    /\ methods' = [methods EXCEPT ![req[r].method].provider = req[r].provider]
    /\ Finish(r)
    /\ UNCHANGED <<users, kept, audit, waitlist>>

\* Both columns are written, changed or not.
UpdateMethodWrite(r) ==
    /\ At(r, "rewrite")
    /\ Stored(req[r].method)
    /\ methods' = [methods EXCEPT ![req[r].method].provider = req[r].provider,
                                  ![req[r].method].identifier = req[r].identifier]
    /\ Finish(r)
    /\ UNCHANGED <<users, kept, audit, waitlist>>

RemoveMethod(m) ==
    /\ Stored(m)
    /\ methods' = [methods EXCEPT ![m] = Removed]
    /\ UNCHANGED <<users, kept, audit, waitlist, req, back>>

---------------------------------------------------------------------------------
(* Erasure: UsersService.remove *)

\* Another request will still store something about the user, whoever made it.
UnderWay(u) ==
    \E q \in Requests :
        req[q].pc \in {"alias", "profile", "provider", "add", "keep"} /\ req[q].user = u

\* An erasure that keeps the payment methods.
EraseKeepsMethods(r, u) ==
    /\ req[r] = Idle
    /\ Exists(u)
    /\ ComesBack(u, UnderWay(u))
    /\ users' = [users EXCEPT ![u].alias = None, ![u].email = None, ![u].deleted = TRUE]
    /\ kept' = {x \in kept : x[1] # u}
    /\ audit' = {x \in audit : x.user # u}
    /\ waitlist' = waitlist \ {users[u].email}
    /\ UNCHANGED <<methods, req>>

\* One transaction.
Erase(r, u) ==
    /\ req[r] = Idle
    /\ Exists(u)
    /\ ComesBack(u, UnderWay(u))
    /\ users' = [users EXCEPT ![u].alias = None, ![u].email = None, ![u].deleted = TRUE]
    /\ methods' = [m \in Methods |->
                      IF Stored(m) /\ methods[m].user = u THEN Removed ELSE methods[m]]
    /\ kept' = {x \in kept : x[1] # u}
    /\ audit' = {x \in audit : x.user # u}
    /\ waitlist' = waitlist \ {users[u].email}
    /\ UNCHANGED req

---------------------------------------------------------------------------------

Init ==
    /\ users = [u \in Users |-> Absent]
    /\ methods = [m \in Methods |-> Absent]
    /\ kept = {} /\ audit = {} /\ waitlist = {}
    /\ req = [r \in Requests |-> Idle]
    /\ back = {}

RequestStep(r) ==
    \/ \E k \in Keys, a \in Aliases \cup {None} : FindKey(r, k, a)
    \/ \E u \in Users :
          \/ InsertUser(r, u)
          \/ Erase(r, u)
          \/ \E kind \in Kinds : KeepRead(r, u, kind)
          \/ \E a \in Aliases \cup {None}, e \in Emails \cup {None} :
                \/ UpdateRead(r, u, a, e)
                \/ \E p \in Providers, i \in Identifiers : SetupProfile(r, u, a, e, p, i)
          \/ \E p \in Providers, i \in Identifiers : CreateMethod(r, u, p, i)
    \/ \E m \in Methods :
          \/ AddMethod(r, m)
          \/ \E p \in Providers \cup {None}, i \in Identifiers \cup {None} :
                UpdateMethodRead(r, m, p, i)
    \/ UpdateCheckAlias(r)
    \/ UpdateWrite(r)
    \/ KeepWrite(r)
    \/ CheckProvider(r)
    \/ UpdateMethodCheck(r)
    \/ UpdateMethodWrite(r)
    \/ RequestFails(r)

Next ==
    \/ \E r \in Requests : RequestStep(r)
    \/ \E u \in Users, k \in Keys, ip \in Addresses \cup {None} : LogIn(u, k, ip)
    \/ \E e \in Emails : EarlyRegister(e)
    \/ \E m \in Methods : RemoveMethod(m)
    \/ Crash

Spec == Init /\ [][Next]_vars

---------------------------------------------------------------------------------
(* Properties *)

\* The identifier of a stored payment method is valid for the provider stored with it,
\* although concurrent partial updates merge what they read earlier and validate
\* before they write.
MethodsMatch ==
    \A m \in Methods : Stored(m) => methods[m].identifier \in Accepted[methods[m].provider]

\* What a deleted account still shows of its user.
Clean(u) ==
    /\ users[u].alias = None /\ users[u].email = None
    /\ \A m \in Methods : Stored(m) => methods[m].user # u
    /\ \A kind \in Kinds : <<u, kind>> \notin kept

\* What the comment of remove promises, as far as the code keeps it: the profile is
\* anonymous, payment methods are gone, messages and picture too, if nobody's request to
\* set up or update this account, to add a payment method, a message or a picture to it,
\* was under way then or began since.  Logins and sign-ups, updates of payment methods
\* that were under way, and requests about other accounts bring nothing back.
ErasedClean ==
    \A u \in Users : Exists(u) /\ users[u].deleted /\ u \notin back => Clean(u)

\* The same comment: "audit log entries lose their IP/user-agent".
AddressesErased ==
    [][\A r \in Requests, u \in Users :
          Erase(r, u) => \A x \in audit' : x.key # users[u].key]_vars

=================================================================================
