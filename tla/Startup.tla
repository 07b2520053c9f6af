------------------------------ MODULE Startup ------------------------------
(***************************************************************************)
(* AzureAppConfigurationProvider.Load: the initial load is attempted until *)
(* it succeeds, fails for good or the startup times out, with a delay      *)
(* between two attempts that depends on how long the startup has lasted.   *)
(***************************************************************************)
EXTENDS Backoff, Sequences, FiniteSets

CONSTANTS
    Windows,            \* StartupMaxBackoffDurationIntervals, [until, delay] records
    MinStartupBackoff, MaxBackoff,    \* FailOverConstants
    Timeout,            \* StartupOptions.Timeout
    MinDelay,           \* MinDelayForUnhandledFailure
    MaxAttemptTime      \* bound: the time one attempt may take

ASSUME StartupAssumption ==
    /\ Windows \in Seq([until: Nat, delay: Nat \ {0}])
    /\ {MinStartupBackoff, MaxBackoff, Timeout, MinDelay, MaxAttemptTime} \subseteq Nat
    /\ 0 < MinStartupBackoff
    \* even shortened by the jitter the longest backoff is no shorter than the first
    /\ 3 * MaxBackoff >= 4 * MinStartupBackoff
    \* the delays of the windows grow
    /\ Windows # <<>> /\ \A n \in DOMAIN Windows : Windows[1].delay <= Windows[n].delay

VARIABLES
    optional,   \* _optional: failures are ignored
    pc,         \* "attempt", "decide", "delay", "settle" before an exception, "done"
    elapsed,    \* startupStopwatch
    attempts,   \* history: how often InitializeAsync was called
    postFixed,  \* postFixedWindowAttempts
    wake,       \* when the delay is over
    loaded,     \* _mappedData # null
    error,      \* the exception on its way out of Load, or "none"
    refresher   \* SetProvider was called

vars == <<optional, pc, elapsed, attempts, postFixed, wake, loaded, error, refresher>>

TimedOut == elapsed >= Timeout

\* "argument" is thrown on at once; the others may be ignored or are thrown late.
Ignorable == {"request", "keyvault", "timeout", "canceled", "invalid", "format"}
Errors    == Ignorable \cup {"argument", "other"}

\* A variant without the ignoreFailures condition.
LeaveIgnoring(e) == e \in Ignorable /\ pc' = "done" /\ refresher' = TRUE /\ UNCHANGED error

\* An exception leaves LoadAsync: ignored, thrown at once, or after a minimum time.
LeaveWith(e) ==
    \/ /\ e \in Ignorable /\ optional
       /\ pc' = "done" /\ refresher' = TRUE /\ UNCHANGED error
    \/ /\ e = "argument"
       /\ pc' = "done" /\ refresher' = TRUE /\ error' = e
    \/ /\ e # "argument" /\ ~(e \in Ignorable /\ optional)
       /\ pc' = "settle" /\ error' = e /\ UNCHANGED refresher

\* The requests of one attempt take their time.
Pass ==
    /\ pc = "attempt"
    /\ \E t \in 0..MaxAttemptTime : elapsed' = elapsed + t
    /\ pc' = "decide"
    /\ UNCHANGED <<optional, attempts, postFixed, wake, loaded, error, refresher>>

Succeed ==
    /\ pc = "decide"
    /\ loaded' = TRUE /\ pc' = "done" /\ refresher' = TRUE
    /\ UNCHANGED <<optional, elapsed, attempts, postFixed, wake, error>>

\* TryInitializeAsync throws: a failure no other attempt would cure.
FailForGood ==
    /\ pc = "decide"
    /\ \E e \in Errors \ {"timeout"} : (e = "canceled" => ~TimedOut) /\ LeaveWith(e)
    /\ UNCHANGED <<optional, elapsed, attempts, postFixed, wake, loaded>>

\* The delay before the next attempt.
Fixed(t) == FixedBackoff(Windows, t)
CountAttempt(fixed) == IF fixed = {} THEN postFixed + 1 ELSE postFixed
Delays(fixed, n) ==
    IF fixed # {} THEN fixed ELSE CalculateBackoffDuration(MinStartupBackoff, MaxBackoff, n)

\* It returns false: every endpoint failed in a way another attempt may cure, or
\* the startup's time is up. The delay of the code is cancelled with the startup.
FailForNow ==
    /\ pc = "decide"
    /\ LET fixed == Fixed(elapsed)
       IN  /\ postFixed' = CountAttempt(fixed)
           /\ \E d \in Delays(fixed, postFixed') : wake' = elapsed + d
    /\ pc' = "delay"
    /\ UNCHANGED <<optional, elapsed, attempts, loaded, error, refresher>>

\* Variants of DelayEnds: a delay that is not awaited, one without the startup's
\* token, one whose cancellation is swallowed.
DelayNotAwaited ==
    /\ pc = "delay" /\ ~TimedOut /\ attempts < 3
    /\ attempts' = attempts + 1 /\ pc' = "attempt"
    /\ UNCHANGED <<optional, elapsed, postFixed, wake, loaded, error, refresher>>

DelayUncancelled ==
    /\ pc = "delay"
    /\ elapsed' = wake /\ attempts' = attempts + 1 /\ pc' = "attempt"
    /\ UNCHANGED <<optional, postFixed, wake, loaded, error, refresher>>

DelaySwallowed ==
    /\ pc = "delay" /\ wake < Timeout
    /\ elapsed' = wake /\ attempts' = attempts + 1 /\ pc' = "attempt"
    /\ UNCHANGED <<optional, postFixed, wake, loaded, error, refresher>>

\* Task.Delay ends: a cancelled one throws, and that is a TimeoutException.
DelayEnds ==
    /\ pc = "delay"
    /\ IF wake >= Timeout
       THEN /\ elapsed' = IF TimedOut THEN elapsed ELSE Timeout
            /\ LeaveWith("timeout")
            /\ UNCHANGED attempts
       ELSE /\ elapsed' = wake /\ attempts' = attempts + 1
            /\ pc' = "attempt"
            /\ UNCHANGED <<error, refresher>>
    /\ UNCHANGED <<optional, postFixed, wake, loaded>>

\* Variants of Settle: without the additional delay, and one that takes the rest of
\* the delay for the time.
SettleForRest ==
    /\ pc = "settle"
    /\ elapsed' = MinDelay - elapsed
    /\ pc' = "done" /\ refresher' = TRUE
    /\ UNCHANGED <<optional, attempts, postFixed, wake, loaded, error>>

SettleAtOnce ==
    /\ pc = "settle"
    /\ pc' = "done" /\ refresher' = TRUE
    /\ UNCHANGED <<optional, elapsed, attempts, postFixed, wake, loaded, error>>

\* The catch block of Load waits until MinDelay after the start, then throws.
Settle ==
    /\ pc = "settle"
    /\ elapsed' = IF elapsed < MinDelay THEN MinDelay ELSE elapsed
    /\ pc' = "done" /\ refresher' = TRUE
    /\ UNCHANGED <<optional, attempts, postFixed, wake, loaded, error>>

Init ==
    /\ optional \in BOOLEAN
    /\ pc = "attempt" /\ elapsed = 0 /\ attempts = 1 /\ postFixed = 0 /\ wake = 0
    /\ loaded = FALSE /\ error = "none" /\ refresher = FALSE

Next == Pass \/ Succeed \/ FailForGood \/ FailForNow \/ DelayEnds \/ Settle

Spec     == Init /\ [][Next]_vars
FairSpec == Spec /\ WF_vars(Next)
---------------------------------------------------------------------------
TypeOK ==
    /\ optional \in BOOLEAN
    /\ pc \in {"attempt", "decide", "delay", "settle", "done"}
    /\ {elapsed, attempts, postFixed, wake} \subseteq Nat
    /\ loaded \in BOOLEAN /\ refresher \in BOOLEAN
    /\ error \in Errors \cup {"none"}

\* Load returns without the configuration only if the source is optional, and the
\* refresher has its provider from the moment Load has ended, whether it returned or
\* threw, and not before.
ReturnsLoaded ==
    /\ pc = "done" /\ error = "none" => loaded \/ optional
    /\ refresher <=> pc = "done"

\* An exception that could crash the application in a loop leaves Load no sooner
\* than MinDelayForUnhandledFailure after the start; only an ArgumentException is
\* thrown on at once.
CrashesSlowly == pc = "done" /\ error \notin {"none", "argument"} => elapsed >= MinDelay

\* The store is asked at most once per shortest delay that has passed: retries of
\* a long startup never come faster, whatever the windows and doublings.
ShortestDelay == AtMost(Windows[1].delay, MinStartupBackoff)
AttemptRate   == (attempts - 1) * ShortestDelay <= elapsed

\* No attempt begins once the startup's time is up.
EndsInTime == [][attempts' # attempts => elapsed' < Timeout]_vars

\* However attempts, delays and failures add up, Load is over when its time is up and
\* the attempt under way then has ended, or it throws after exactly the minimum delay.
OverInTime ==
    pc = "done" => \/ elapsed <= Timeout + MaxAttemptTime
                   \/ error # "none" /\ elapsed = MinDelay

\* Load comes to an end, whatever the store answers.
Terminates == <>(pc = "done")
=============================================================================
