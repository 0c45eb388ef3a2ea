\* Two wallets, three challenges, three requests in flight, four instants.
SPECIFICATION Spec
CONSTANTS
    Keys = {k1, k2}
    Challenges = {c1, c2, c3}
    Requests = {r1, r2, r3}
    Lifetime = 2
    Retention = 1
    MaxTime = 4
SYMMETRY Symmetry
INVARIANTS
    TypeOK
    SingleUse
    RedeemedInTime
PROPERTY ValidChallengeKept
