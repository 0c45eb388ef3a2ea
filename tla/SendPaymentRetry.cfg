\* The client prepares again when it is told that the transaction could not be submitted.
SPECIFICATION Spec
CONSTANTS
    ana = ana
    bob = bob
    treasury = treasury
    nick = nick
    w1 = w1
    w2 = w2
    Accounts = {ana, bob, treasury}
    Aliases = {nick}
    Nobody = Nobody
    Treasury = treasury
    Signer = ana
    FeePercent = 30
    Wishes = {w1, w2}
    Wish <- MCWish
    Lifetime <- MCLifetime
    Retried = {"no trustline", "underfunded", "bad signature", "expired", "rejected",
               "could not be submitted"}
    MaxTime = 2
    MaxSequence = 2
INVARIANTS
    PaidOnce
\* Everything may have been paid or given up.
CHECK_DEADLOCK FALSE
