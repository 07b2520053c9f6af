--------------------------- MODULE StartupProofs ---------------------------
(***************************************************************************)
(* How Load may end, for all windows, delays and timeouts.                 *)
(***************************************************************************)
EXTENDS Startup, BackoffProofs

\* An exception is on its way exactly from the moment LoadAsync throws it.
ErrorAtEnd ==
    /\ pc \in {"attempt", "decide", "delay"} => error = "none"
    /\ pc = "settle" => error # "none"

\* One delay passes before each attempt but the first, the one under way included.
DelaysPassed ==
    /\ attempts >= 1 /\ AttemptRate
    /\ pc = "delay" => attempts * ShortestDelay <= wake

\* Every attempt begins in time, and nothing but the minimum delay comes after the last.
OnTime ==
    /\ pc = "attempt" => elapsed <= Timeout
    /\ pc \in {"decide", "delay", "settle"} => elapsed <= Timeout + MaxAttemptTime
    /\ OverInTime

IInv == TypeOK /\ ErrorAtEnd /\ ReturnsLoaded /\ CrashesSlowly /\ DelaysPassed /\ OnTime

\* A delay is a time.
LEMMA DelayType ==
  ASSUME NEW t \in Nat, NEW n \in Nat, NEW d \in Delays(Fixed(t), n) PROVE d \in Nat
<1>1. CASE Fixed(t) # {}
  <2>1. d \in FixedBackoff(Windows, t)
    BY <1>1 DEF Delays, Fixed
  <2>2. d \in Nat \ {0}
    BY <2>1, FixedBackoffType, StartupAssumption
  <2> QED
    BY <2>2
<1>2. CASE Fixed(t) = {}
  BY <1>2, BackoffWithin, StartupAssumption DEF Delays
<1> QED
  BY <1>1, <1>2

\* The shortest delay is one of two.
LEMMA ShortestType ==
  /\ ShortestDelay \in Nat \ {0} /\ Windows[1].delay \in Nat
  /\ ShortestDelay <= Windows[1].delay /\ ShortestDelay <= MinStartupBackoff
<1> DEFINE W == [until : Nat, delay : Nat \ {0}]
<1>1. \A w \in W : w.delay \in Nat \ {0}
  OBVIOUS
<1>2. Windows \in Seq(W) /\ Windows # <<>>
  BY StartupAssumption
<1> HIDE DEF W
<1>3. Windows[1] \in W
  BY <1>2
<1>4. Windows[1].delay \in Nat \ {0}
  BY <1>1, <1>3
<1>5. MinStartupBackoff \in Nat \ {0}
  BY StartupAssumption
<1> QED
  BY <1>4, <1>5 DEF ShortestDelay, AtMost

\* No delay is shorter than the shortest: not that of a window, nor a doubled one with its
\* jitter or after the overflow.
LEMMA DelayLongEnough ==
  ASSUME NEW t \in Nat, NEW n \in Nat, Fixed(t) = {} => n # 0, NEW d \in Delays(Fixed(t), n)
  PROVE  d >= ShortestDelay
<1>1. CASE Fixed(t) # {}
  <2>1. d \in FixedBackoff(Windows, t)
    BY <1>1 DEF Delays, Fixed
  <2>2. d \in Nat \ {0}
    BY <2>1, FixedBackoffType, StartupAssumption
  <2>3. \E m \in DOMAIN Windows : d = Windows[m].delay
    BY <2>1, FixedBackoffOfWindow, StartupAssumption
  <2>4. Windows[1].delay <= d
    BY <2>3, StartupAssumption
  <2> QED
    BY <2>2, <2>4, ShortestType
<1>2. CASE Fixed(t) = {}
  <2>1. d \in CalculateBackoffDuration(MinStartupBackoff, MaxBackoff, n)
    BY <1>2 DEF Delays
  <2>2. d \in Nat /\ d >= MinStartupBackoff
    BY <1>2, <2>1, BackoffWithin, NoShorterBackoff, StartupAssumption
  <2> QED
    BY <2>2, ShortestType, StartupAssumption
<1> QED
  BY <1>1, <1>2

\* An exception leaves LoadAsync.
LEMMA LeaveKeeps ==
  ASSUME NEW e \in Errors, LeaveWith(e), TypeOK, error = "none", ~refresher
  PROVE  /\ pc' \in {"settle", "done"} /\ error' \in Errors \cup {"none"}
         /\ refresher' \in BOOLEAN /\ (refresher' <=> pc' = "done")
         /\ pc' = "settle" => error' # "none"
         /\ pc' = "done" => error' = "argument" \/ (error' = "none" /\ optional)
<1>1. CASE e \in Ignorable /\ optional /\ pc' = "done" /\ refresher' = TRUE /\ UNCHANGED error
  BY <1>1
<1>2. CASE e = "argument" /\ pc' = "done" /\ refresher' = TRUE /\ error' = e
  BY <1>2
<1>3. CASE pc' = "settle" /\ error' = e /\ UNCHANGED refresher
  <2>1. e # "none"
    BY DEF Errors, Ignorable
  <2>2. refresher' \in BOOLEAN /\ ~refresher'
    BY <1>3, Zenon DEF TypeOK
  <2> QED
    BY <1>3, <2>1, <2>2, Zenon
<1> QED
  BY <1>1, <1>2, <1>3 DEF LeaveWith

\* One more attempt needs one more delay.
LEMMA OneMore == \A n \in Nat : (n + 1 - 1) * ShortestDelay = n * ShortestDelay
                                /\ n * ShortestDelay = (n - 1) * ShortestDelay + ShortestDelay
BY ShortestType

LEMMA InitInvariant == Init => IInv
<1> SUFFICES ASSUME Init PROVE IInv
  OBVIOUS
<1>1. TypeOK
  <2>1. {elapsed, attempts, postFixed, wake} \subseteq Nat
    BY DEF Init
  <2>2. optional \in BOOLEAN /\ loaded \in BOOLEAN /\ refresher \in BOOLEAN
    BY Zenon DEF Init
  <2>3. /\ pc \in {"attempt", "decide", "delay", "settle", "done"}
        /\ error \in Errors \cup {"none"}
    BY Zenon DEF Init
  <2> QED
    BY <2>1, <2>2, <2>3 DEF TypeOK
<1>2. ErrorAtEnd /\ ReturnsLoaded /\ CrashesSlowly
  BY DEF Init, ErrorAtEnd, ReturnsLoaded, CrashesSlowly
<1>3. DelaysPassed
  BY ShortestType DEF Init, DelaysPassed, AttemptRate
<1>4. OnTime
  BY StartupAssumption DEF Init, OnTime, OverInTime
<1> QED
  BY <1>1, <1>2, <1>3, <1>4 DEF IInv

\* How Load may end is settled by its last steps.
LEMMA EndStep ==
  ASSUME IInv, [Next]_vars PROVE TypeOK' /\ ErrorAtEnd' /\ ReturnsLoaded' /\ CrashesSlowly'
<1>0. {Timeout, MinDelay, MaxAttemptTime} \subseteq Nat
  BY StartupAssumption
<1> USE <1>0 DEF IInv, TypeOK, ErrorAtEnd, ReturnsLoaded, CrashesSlowly
<1>1. CASE Pass
  BY <1>1 DEF Pass
<1>2. CASE Succeed
  BY <1>2 DEF Succeed
<1>3. CASE FailForGood
  <2>1. PICK e \in Errors \ {"timeout"} : LeaveWith(e)
    BY <1>3 DEF FailForGood
  <2> QED
    BY <1>3, <2>1, LeaveKeeps DEF FailForGood
<1>4. CASE FailForNow
  <2>1. postFixed' \in Nat
    BY <1>4 DEF FailForNow, CountAttempt
  <2>2. PICK d \in Delays(Fixed(elapsed), postFixed') : wake' = elapsed + d
    BY <1>4 DEF FailForNow
  <2>3. d \in Nat
    BY <2>1, <2>2, DelayType
  <2>4. wake' \in Nat
    BY <2>2, <2>3
  <2> QED
    BY <1>4, <2>1, <2>4 DEF FailForNow
<1>5. CASE DelayEnds
  <2>1. CASE wake >= Timeout
    <3>1. LeaveWith("timeout") /\ "timeout" \in Errors
      BY <1>5, <2>1 DEF DelayEnds, Errors, Ignorable
    <3> QED
      BY <1>5, <2>1, <3>1, LeaveKeeps DEF DelayEnds
  <2>2. CASE ~ (wake >= Timeout)
    BY <1>5, <2>2 DEF DelayEnds
  <2> QED
    BY <2>1, <2>2
<1>6. CASE Settle
  BY <1>6 DEF Settle
<1>7. CASE UNCHANGED vars
  BY <1>7 DEF vars
<1> QED
  BY <1>1, <1>2, <1>3, <1>4, <1>5, <1>6, <1>7 DEF Next

\* An attempt begins when a delay is over, and no delay is too short.
LEMMA RateStep == ASSUME IInv, [Next]_vars PROVE DelaysPassed'
<1>1. /\ attempts \in Nat /\ elapsed \in Nat /\ wake \in Nat /\ postFixed \in Nat
      /\ Timeout \in Nat /\ MinDelay \in Nat
      /\ attempts >= 1 /\ (attempts - 1) * ShortestDelay <= elapsed
      /\ pc = "delay" => attempts * ShortestDelay <= wake
  BY StartupAssumption DEF IInv, TypeOK, DelaysPassed, AttemptRate
<1>2. ShortestDelay \in Nat /\ (attempts - 1) * ShortestDelay \in Nat /\ attempts * ShortestDelay \in Nat
  BY <1>1, ShortestType
<1>3. ASSUME attempts' = attempts, elapsed' \in Nat, elapsed <= elapsed', pc' # "delay"
      PROVE  DelaysPassed'
  <2>1. ((attempts - 1) * ShortestDelay)' = (attempts - 1) * ShortestDelay
    BY <1>3 DEF ShortestDelay
  <2>2. (attempts - 1) * ShortestDelay <= elapsed'
    BY <1>1, <1>2, <1>3
  <2> QED
    BY <1>1, <1>3, <2>1, <2>2 DEF DelaysPassed, AttemptRate
<1>4. CASE FailForNow
  <2>1. postFixed' \in Nat /\ (Fixed(elapsed) = {} => postFixed' # 0)
    BY <1>1, <1>4 DEF FailForNow, CountAttempt
  <2>2. PICK d \in Delays(Fixed(elapsed), postFixed') : wake' = elapsed + d
    BY <1>4 DEF FailForNow
  <2>3. d \in Nat /\ d >= ShortestDelay
    BY <1>1, <2>1, <2>2, DelayType, DelayLongEnough
  <2>4. attempts' = attempts /\ elapsed' = elapsed
    BY <1>4 DEF FailForNow
  <2>5. attempts * ShortestDelay <= wake'
    BY <1>1, <1>2, <2>2, <2>3, OneMore
  <2> QED
    BY <1>1, <2>4, <2>5 DEF DelaysPassed, AttemptRate, ShortestDelay
<1>5. CASE DelayEnds
  <2>1. CASE wake >= Timeout
    <3>1. attempts' = attempts /\ elapsed' = (IF TimedOut THEN elapsed ELSE Timeout) /\ pc' # "delay"
      BY <1>5, <2>1 DEF DelayEnds, LeaveWith
    <3> QED
      BY <1>1, <1>3, <3>1 DEF TimedOut
  <2>2. CASE ~ (wake >= Timeout)
    <3>1. attempts' = attempts + 1 /\ elapsed' = wake /\ pc' # "delay" /\ pc = "delay"
      BY <1>5, <2>2 DEF DelayEnds
    <3>2. (attempts' - 1) * ShortestDelay <= elapsed'
      BY <1>1, <3>1, OneMore
    <3> QED
      BY <1>1, <3>1, <3>2 DEF DelaysPassed, AttemptRate, ShortestDelay
  <2> QED
    BY <2>1, <2>2
<1>6. CASE Pass \/ Succeed \/ Settle
  BY <1>1, <1>3, <1>6 DEF Pass, Succeed, Settle
<1>7. CASE FailForGood
  BY <1>1, <1>3, <1>7 DEF FailForGood, LeaveWith
<1>8. CASE UNCHANGED vars
  BY <1>8 DEF vars, IInv, DelaysPassed, AttemptRate, ShortestDelay
<1> QED
  BY <1>4, <1>5, <1>6, <1>7, <1>8 DEF Next

\* An attempt that begins in time is over when its own time has passed as well.
LEMMA OnTimeStep == ASSUME IInv, [Next]_vars PROVE OnTime'
<1>1. /\ elapsed \in Nat /\ wake \in Nat
      /\ Timeout \in Nat /\ MinDelay \in Nat /\ MaxAttemptTime \in Nat
      /\ OnTime /\ ErrorAtEnd
  BY StartupAssumption DEF IInv, TypeOK
<1> USE <1>1 DEF OnTime, OverInTime
<1>2. CASE Pass
  <2>1. PICK t \in 0..MaxAttemptTime : elapsed' = elapsed + t
    BY <1>2 DEF Pass
  <2>2. pc = "attempt" /\ pc' = "decide"
    BY <1>2 DEF Pass
  <2> QED
    BY <2>1, <2>2
<1>3. CASE Succeed
  BY <1>3 DEF Succeed
<1>4. CASE FailForGood \/ FailForNow
  BY <1>4 DEF FailForGood, FailForNow, LeaveWith
<1>5. CASE DelayEnds
  <2>1. CASE wake >= Timeout
    <3>1. pc = "delay" /\ elapsed' = (IF TimedOut THEN elapsed ELSE Timeout) /\ pc' \in {"settle", "done"}
      BY <1>5, <2>1 DEF DelayEnds, LeaveWith
    <3> QED
      BY <3>1 DEF TimedOut
  <2>2. CASE ~ (wake >= Timeout)
    BY <1>5, <2>2 DEF DelayEnds
  <2> QED
    BY <2>1, <2>2
<1>6. CASE Settle
  BY <1>6 DEF Settle, ErrorAtEnd
<1>7. CASE UNCHANGED vars
  BY <1>7 DEF vars
<1> QED
  BY <1>2, <1>3, <1>4, <1>5, <1>6, <1>7 DEF Next

LEMMA IInvStep == IInv /\ [Next]_vars => IInv'
BY EndStep, RateStep, OnTimeStep DEF IInv

LEMMA Invariance == Spec => []IInv
BY InitInvariant, IInvStep, PTL DEF Spec

\* The variables of the startup keep their types: the overflowing shift and the jitter
\* never make a delay anything but a time.
THEOREM TypeCorrect == Spec => []TypeOK
<1>1. IInv => TypeOK
  BY DEF IInv
<1> QED
  BY <1>1, Invariance, PTL

\* A required source never comes up without its configuration, and one can refresh from
\* the moment Load has ended, be it with an exception, and not before.
THEOREM LoadedWhenRequired == Spec => []ReturnsLoaded
<1>1. IInv => ReturnsLoaded
  BY DEF IInv
<1> QED
  BY <1>1, Invariance, PTL

\* A failing Load never takes less than MinDelayForUnhandledFailure, unless it fails with
\* an ArgumentException.
THEOREM NeverCrashesFast == Spec => []CrashesSlowly
<1>1. IInv => CrashesSlowly
  BY DEF IInv
<1> QED
  BY <1>1, Invariance, PTL

\* The startup lasts no longer than its timeout and one attempt more, or it fails after
\* exactly the minimum delay: delays and retries never carry it further.
THEOREM EndsOnTime == Spec => []OverInTime
<1>1. IInv => OverInTime
  BY DEF IInv, OnTime
<1> QED
  BY <1>1, Invariance, PTL

\* However long the startup lasts and whatever answers come, the store is asked at most
\* once per shortest delay: neither the jitter nor the overflow of the shift makes a retry
\* come faster than the first window or the first doubled delay would.
THEOREM RetriesNeverRace == Spec => []AttemptRate
<1>1. IInv => AttemptRate
  BY DEF IInv, DelaysPassed
<1> QED
  BY <1>1, Invariance, PTL
=============================================================================
