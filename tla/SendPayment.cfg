\* A wish that goes through prepare and submit by alias, and a payment the backend signs for
\* the same account, so that each can take the sequence number the other was built with;
\* time for one transaction to expire and for another to follow it.
SPECIFICATION Spec
CONSTANTS
    ana = ana
    bob = bob
    treasury = treasury
    nick = nick
    w1 = w1
    w2 = w2
    Accounts = {ana, bob, treasury}
    Aliases = {nick}
    Nobody = Nobody
    Treasury = treasury
    Signer = ana
    FeePercent = 30
    Wishes = {w1, w2}
    Wish <- MCWish
    Lifetime <- MCLifetime
    Retried = {"no trustline", "underfunded", "bad signature", "expired", "rejected"}
    MaxTime = 2
    MaxSequence = 2
INVARIANTS
    TypeOK
    PaidOnce
    ShownIsPaid
\* Everything may have been paid or given up.
CHECK_DEADLOCK FALSE
