\* Two requests of two users around sign-ups and erasures, with profiles, messages, payment
\* methods of two providers, e-mail and waitlist.
SPECIFICATION Spec
CONSTANTS
    Users = {u1, u2}
    Keys = {k1, k2}
    Aliases = {a1}
    Emails = {e1}
    Providers = {"bank", "mobile"}
    Identifiers = {"iban", "both"}
    Accepted <- AcceptedByProvider
    Methods = {m1}
    Addresses = {}
    Kinds = {"message"}
    Requests = {r1, r2}
SYMMETRY Symmetry
INVARIANTS
    TypeOK
    MethodsMatch
    ErasedClean
