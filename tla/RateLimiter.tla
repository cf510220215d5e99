---------------------------- MODULE RateLimiter ----------------------------
(***************************************************************************)
(* The in-process fixed-window rate limiter: app/services/ratelimit.py.    *)
(*                                                                         *)
(* check_rate_limit reads the clock, waits for the one lock and does the   *)
(* rest under it, so each call is one action, with a clock that may be     *)
(* Lag ticks behind.  What it knows is bounded: a pool of windows per kind *)
(* of identity, pruned of expired ones at intervals and never emptied.     *)
(* Time is the age of what it measures, which keeps it finite: nothing     *)
(* asks how old a window is once it has outlived its length, the pause     *)
(* between two prunings and the lag.  A count stops at Limit + 1, beyond   *)
(* which it makes no difference.                                           *)
(***************************************************************************)
EXTENDS Integers, FiniteSets, Functions

CONSTANTS
    Identities,   \* rate-limit keys: "login-ip:...", "login-user:...", ...
    Pools,        \* _WINDOWS and _LONG_WINDOWS
    Pool,         \* Pool[k]: which one holds k's window
    Capacity,     \* Capacity[l]: _MAX_WINDOWS, _MAX_LONG_WINDOWS
    Limit,        \* requests admitted in one window
    Window,       \* its length
    Pause,        \* _PRUNE_INTERVAL_SECONDS
    Lag           \* bound on the wait for _LOCK once the clock was read

ASSUME LimiterAssumption ==
    /\ Pool \in [Identities -> Pools]
    /\ Capacity \in [Pools -> Nat]
    /\ Limit \in Nat \ {0}          \* a limit of 0 switches the limiter off
    /\ Window \in Nat \ {0} /\ Pause \in Nat \ {0}
    /\ Lag \in 0 .. (Window - 1)

VARIABLES
    window,   \* window[k]: age and count, or NoWindow
    wait,     \* wait[l]: _NEXT_PRUNE_AT, as the time until then
    admitted, \* history: admitted[k][d]: requests of k admitted d ticks ago
    refused   \* history: newcomers the last call turned away from a full pool

vars == <<window, wait, admitted, refused>>

Oldest == Window + Pause + Lag
NoWindow == [age |-> 0, count |-> 0]
Ages == 0 .. Oldest
Lags == 0 .. Lag
Span == Window - Lag
Past == 0 .. (Span - 1)

Init ==
    /\ window = [k \in Identities |-> NoWindow]
    /\ wait = [l \in Pools |-> -Lag]
    /\ admitted = [k \in Identities |-> [d \in Past |-> 0]]
    /\ refused = {}

Known(w) == {k \in Identities : w[k] # NoWindow}
Held(w, l) == {k \in Known(w) : Pool[k] = l}

-----------------------------------------------------------------------------
(* The d ticks since the clock was read make windows look that much younger *)
(* and the next pruning that much further away.                              *)

RunOut(w, d) == w.age - d >= Window
Due(l, d) == wait[l] + d <= 0

\* Mutant: the pool is emptied to make room.
PrunedOfAll(l, d) ==
    IF Held(window, l) = {} \/ ~Due(l, d) THEN window
    ELSE [k \in Identities |-> IF Pool[k] = l THEN NoWindow ELSE window[k]]

\* Mutant: nothing is dropped, so that a pool fills up for good.
PrunedOfNone(l, d) == window

\* _prune: windows of pool l that ran out are dropped, unless the last time
\* is less than Pause ago.
Pruned(l, d) ==
    IF ~Due(l, d) THEN window
    ELSE [k \in Identities |->
            IF Pool[k] = l /\ RunOut(window[k], d) THEN NoWindow ELSE window[k]]

WaitAfter(l, d) ==
    IF Held(window, l) = {} \/ Due(l, d) THEN [wait EXCEPT ![l] = Pause - d] ELSE wait

\* A window that ran out starts again when this request read the clock.
Counted(w, d) ==
    IF w = NoWindow \/ RunOut(w, d) THEN [age |-> d, count |-> 1]
    ELSE [w EXCEPT !.count = IF @ > Limit THEN @ ELSE @ + 1]

\* Mutant: one window too many.
TurnedAwayLate(k, w) ==
    w[k] = NoWindow /\ Cardinality(Held(w, Pool[k])) > Capacity[Pool[k]]

\* A new identity finds its pool full.
TurnedAway(k, w) ==
    w[k] = NoWindow /\ Cardinality(Held(w, Pool[k])) >= Capacity[Pool[k]]

\* check_rate_limit, d ticks after it read the clock
Request(k, d) ==
    LET l == Pool[k]
        w == Pruned(l, d)
        after == Counted(w[k], d)
    IN /\ wait' = WaitAfter(l, d)
       /\ IF TurnedAway(k, w)
          THEN /\ window' = w
               /\ refused' = {k}
               /\ UNCHANGED admitted
          ELSE /\ window' = [w EXCEPT ![k] = after]
               /\ refused' = {}
               /\ admitted' = IF after.count > Limit THEN admitted
                              ELSE [admitted EXCEPT ![k][0] = @ + 1]

Tick ==
    /\ window' = [k \in Identities |->
                    IF window[k] = NoWindow \/ window[k].age = Oldest THEN window[k]
                    ELSE [window[k] EXCEPT !.age = @ + 1]]
    /\ wait' = [l \in Pools |-> IF wait[l] = -Lag THEN -Lag ELSE wait[l] - 1]
    /\ admitted' = [k \in Identities |->
                      [d \in Past |-> IF d = 0 THEN 0 ELSE admitted[k][d - 1]]]
    /\ refused' = {}

\* A restart forgets every window.
Restart ==
    /\ window' = [k \in Identities |-> NoWindow]
    /\ wait' = [l \in Pools |-> -Lag]
    /\ admitted' = [k \in Identities |-> [d \in Past |-> 0]]
    /\ refused' = {}

Next == (\E k \in Identities, d \in Lags : Request(k, d)) \/ Tick \/ Restart

Spec == Init /\ [][Next]_vars

-----------------------------------------------------------------------------
(* Properties *)

\* Ages and counts stay in range, and no pool holds more than its capacity.
TypeOK ==
    /\ window \in [Identities -> [age : Ages, count : 0 .. Limit + 1]]
    /\ wait \in [Pools -> -Lag .. Pause]
    /\ admitted \in [Identities -> [Past -> Nat]]
    /\ refused \subseteq Identities
    /\ \A l \in Pools : Cardinality(Held(window, l)) <= Capacity[l]

\* Within any stretch of one window's length, less the lag, an identity gets
\* fewer than twice its limit admitted, whoever else fills or prunes its pool.
\* (A window may begin late in the stretch, after the end of another; in a
\* longer stretch requests of three windows meet, because one that waited for
\* the lock may begin a window in the past.)
FewerThanTwice ==
    \A k \in Identities :
        SumFunction(admitted[k]) < 2 * Limit

\* A newcomer is turned away only while the pool is full of windows that were
\* live within the last Pause, give or take the lag: "a one-second fail-closed
\* delay at capacity".
FullOfLiveWindows ==
    \A k \in refused :
        Cardinality({j \in Held(window, Pool[k]) : window[j].age < Oldest})
            >= Capacity[Pool[k]]
=============================================================================
