------------------------- MODULE RefreshMiddleware -------------------------
(***************************************************************************)
(* AzureAppConfigurationRefreshMiddleware of the ASP.NET Core and of the   *)
(* Functions assembly: every request passes through it, and one of them    *)
(* per second starts TryRefreshAsync of all refreshers.                    *)
(***************************************************************************)
EXTENDS Naturals

CONSTANTS
    Requests,                   \* threads that serve requests
    MinimumRefreshInterval,
    Start,                      \* utcNow when the middleware is constructed
    MaxClock                    \* bound: the clock's largest value

ASSUME MiddlewareAssumption ==
    /\ MinimumRefreshInterval \in Nat \ {0}
    /\ MaxClock \in Nat
    /\ Start \in Nat /\ Start >= MinimumRefreshInterval

VARIABLES
    clock,              \* DateTimeOffset.UtcNow, which may be set back
    refreshReadyTime,   \* _refreshReadyTime
    pc,                 \* "idle", "read" or "swap", per request
    now,                \* utcNow
    seen,               \* the local refreshReadyTime
    started,            \* history: utcNow of the request that last started a refresh
    starts              \* history: how many have

vars == <<clock, refreshReadyTime, pc, now, seen, started, starts>>

Goto(p, l) == pc' = [pc EXCEPT ![p] = l]

\* A request arrives and reads the clock.
Invoke(p) ==
    /\ pc[p] = "idle"
    /\ now' = [now EXCEPT ![p] = clock]
    /\ Goto(p, "read")
    /\ UNCHANGED <<clock, refreshReadyTime, seen, started, starts>>

\* Interlocked.Read and the comparison with the clock.
Read(p) ==
    /\ pc[p] = "read"
    /\ seen' = [seen EXCEPT ![p] = refreshReadyTime]
    /\ Goto(p, IF refreshReadyTime <= now[p] THEN "swap" ELSE "idle")
    /\ UNCHANGED <<clock, refreshReadyTime, now, started, starts>>

\* What is exchanged.  A variant: the interval in front of utcNow.
NextReadyTimeBefore(p) == now[p] - MinimumRefreshInterval
NextReadyTime(p)       == now[p] + MinimumRefreshInterval

\* When the exchange happens.  A variant: it is a plain write.
Always(p)    == TRUE
Unchanged(p) == refreshReadyTime = seen[p]

\* Interlocked.CompareExchange, and the refresh tasks if it succeeds.
CompareExchange(p) ==
    /\ pc[p] = "swap"
    /\ IF Unchanged(p)
       THEN /\ refreshReadyTime' = NextReadyTime(p)
            /\ started' = now[p] /\ starts' = starts + 1
       ELSE UNCHANGED <<refreshReadyTime, started, starts>>
    /\ Goto(p, "idle")
    /\ UNCHANGED <<clock, now, seen>>

Tick ==
    /\ clock' \in 0..MaxClock
    /\ UNCHANGED <<refreshReadyTime, pc, now, seen, started, starts>>

Init ==
    /\ clock = Start /\ refreshReadyTime = Start
    /\ pc = [p \in Requests |-> "idle"]
    /\ now = [p \in Requests |-> Start] /\ seen = [p \in Requests |-> Start]
    /\ started = Start - MinimumRefreshInterval /\ starts = 0

Next == (\E p \in Requests : Invoke(p) \/ Read(p) \/ CompareExchange(p)) \/ Tick
Spec == Init /\ [][Next]_vars
---------------------------------------------------------------------------
TypeOK ==
    /\ clock \in Nat /\ refreshReadyTime \in Nat
    /\ pc \in [Requests -> {"idle", "read", "swap"}]
    /\ now \in [Requests -> Nat] /\ seen \in [Requests -> Nat]
    /\ started \in Nat /\ starts \in Nat

\* Refreshes are started by requests that arrived at least MinimumRefreshInterval
\* apart, however many requests race for the exchange, however long one of them
\* stands still before it and wherever the clock is set.
StartsApart ==
    [][starts' # starts => started' >= started + MinimumRefreshInterval]_vars
---------------------------------------------------------------------------
\* What makes it hold: no request has seen a time that its own clock had not
\* reached, and the next refresh is due an interval after the latest one.
IInv ==
    /\ TypeOK
    /\ \A p \in Requests : pc[p] = "swap" => seen[p] <= now[p]
    /\ refreshReadyTime >= started + MinimumRefreshInterval
=============================================================================
