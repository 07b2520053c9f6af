------------------------------ MODULE Backoff ------------------------------
(***************************************************************************)
(* How long the provider waits after a failure: TimeSpanExtensions.        *)
(* Durations are whole numbers of some unit; the random jitter makes the   *)
(* result a set of durations.                                              *)
(***************************************************************************)
EXTENDS Integers

CONSTANT LongWidth    \* bits of a long, 64 in the code
ASSUME LongWidthAssumption == LongWidth \in Nat \ {0, 1}

\* A fact of arithmetic, of which the provers know no more than 2 ^ k \in Int.
ASSUME PowersAssumption == \A k \in 1..LongWidth - 1 : 2 ^ k >= 2

AtMost(a, b) == IF a < b THEN a ELSE b

\* 1L << Math.Min(attempts - 1, SafeShiftLimit), the limit being the sign bit.
Shifted(attempts) ==
    LET bits == AtMost(attempts - 1, LongWidth - 1)
    IN  IF bits = LongWidth - 1 THEN -(2 ^ bits) ELSE 2 ^ bits

\* Jitter(0.25): a quarter of the duration more or less.
Jitter(d) ==
    LET size == IF d < 0 THEN -d ELSE d
    IN  {t \in d - size..d + size : -size <= 4 * (t - d) /\ 4 * (t - d) <= size}

\* The doubled duration, or the longest one when it exceeds that or overflows.
Doubled(min, max, attempts) ==
    LET calculated == min * Shifted(attempts)
    IN  IF calculated > max \/ calculated <= 0 THEN max ELSE calculated

CalculateBackoffDuration(min, max, attempts) ==
    IF attempts = 1 THEN {min} ELSE Jitter(Doubled(min, max, attempts))

\* For an operation that happens every interval anyway.
CalculateBackoffTime(interval, min, max, attempts) ==
    IF interval <= min THEN {interval}
    ELSE CalculateBackoffDuration(min, AtMost(interval, max), attempts)

\* StartupMaxBackoffDurationIntervals: the delay of each window of the startup.
FixedBackoff(windows, elapsed) ==
    LET open == {n \in DOMAIN windows : elapsed < windows[n].until}
    IN  IF open = {} THEN {}
        ELSE {windows[CHOOSE n \in open : \A k \in open : n <= k].delay}
=============================================================================
