------------------------------ MODULE AuthRateLimit ------------------------------
(***************************************************************************)
(* AuthRateLimitGuard: fixed windows in memory, one for each key of route  *)
(* and address.  canActivate has no await, so a call of it is one step.    *)
(* Nothing calls reset.  A restart of the process forgets every window,    *)
(* and the history of admitted attempts starts again with it.              *)
(***************************************************************************)
EXTENDS Integers, Sequences

CONSTANTS
    Callers,         \* route and address
    WINDOW_MS,       \* length of a window, in ticks
    MAX_ATTEMPTS,    \* attempts admitted in a window
    MaxClock,        \* bound on the clock
    MaxCount         \* bound on the count of one window

ASSUME WindowAssumption == WINDOW_MS \in Nat \ {0}
ASSUME AttemptsAssumption == MAX_ATTEMPTS \in Nat \ {0}
ASSUME BoundsAssumption == MaxClock \in Nat /\ MaxCount \in Nat \ {0}

VARIABLES
    clock,       \* Date.now()
    windows,     \* windows[k]: count and windowStart, or NoWindow
    admitted     \* history: admitted[k], when the attempts with key k went through

guardVars == <<clock, windows, admitted>>

NoWindow == [count |-> 0]
Window == [count: 1..MaxCount, windowStart: 0..MaxClock]

\* Every variable holds a value of its type.
GuardTypeOK ==
    /\ clock \in 0..MaxClock
    /\ windows \in [Callers -> Window \cup {NoWindow}]
    /\ admitted \in [Callers -> Seq(0..MaxClock)]

Expired(k) == windows[k] # NoWindow /\ clock - windows[k].windowStart >= WINDOW_MS

----------------------------------------------------------------------------------

\* A clean-up that empties the map.
PruneAll(ks) == [k \in Callers |-> NoWindow]

\* pruneExpired.
PruneExpired(ks) == [k \in Callers |-> IF k \in ks THEN NoWindow ELSE windows[k]]

Admit(k) == admitted' = [admitted EXCEPT ![k] = Append(@, clock)]

\* A window whose first attempt is not counted.
StartWindowAtZero(k) ==
    /\ windows[k] = NoWindow \/ Expired(k)
    /\ windows' = [PruneExpired({x \in Callers : Expired(x)})
                      EXCEPT ![k] = [count |-> 0, windowStart |-> clock]]
    /\ Admit(k)
    /\ UNCHANGED clock

\* The first attempt, or the first after the window: old windows go and one starts.
StartWindow(k) ==
    /\ windows[k] = NoWindow \/ Expired(k)
    /\ windows' = [PruneExpired({x \in Callers : Expired(x)})
                      EXCEPT ![k] = [count |-> 1, windowStart |-> clock]]
    /\ Admit(k)
    /\ UNCHANGED clock

\* An attempt in a window is counted first, then admitted or rejected with 429.
CountAttempt(k) ==
    /\ windows[k] # NoWindow /\ ~Expired(k)
    /\ windows[k].count < MaxCount
    /\ windows' = [windows EXCEPT ![k].count = @ + 1]
    /\ IF windows[k].count + 1 > MAX_ATTEMPTS THEN UNCHANGED admitted ELSE Admit(k)
    /\ UNCHANGED clock

ClockTick ==
    /\ clock < MaxClock
    /\ clock' = clock + 1
    /\ UNCHANGED <<windows, admitted>>

Restart ==
    /\ windows' = [k \in Callers |-> NoWindow]
    /\ admitted' = [k \in Callers |-> <<>>]
    /\ UNCHANGED clock

GuardInit ==
    /\ clock = 0
    /\ windows = [k \in Callers |-> NoWindow]
    /\ admitted = [k \in Callers |-> <<>>]

GuardNext ==
    \/ \E k \in Callers : StartWindow(k) \/ CountAttempt(k)
    \/ ClockTick
    \/ Restart

GuardSpec == GuardInit /\ [][GuardNext]_guardVars

----------------------------------------------------------------------------------
(* Properties *)

\* Of any 2 * MAX_ATTEMPTS + 1 consecutive attempts that go through for one key, the last
\* comes at least a window after the first.  In a stretch of time as long as a window,
\* wherever it begins, go the end of one window and the beginning of the next, never
\* three, whatever the attempts with other keys clean up.
SlidingBound ==
    \A k \in Callers : \A i, j \in DOMAIN admitted[k] :
        j - i >= 2 * MAX_ATTEMPTS => admitted[k][j] - admitted[k][i] >= WINDOW_MS

==================================================================================
