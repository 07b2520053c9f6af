--------------------------- MODULE BackoffProofs ---------------------------
(***************************************************************************)
(* How long a backoff can be, for every number of attempts and every width *)
(* of a long.                                                              *)
(***************************************************************************)
EXTENDS Backoff, Sequences, WellFoundedInduction, TLAPS

\* The shift is a whole number, the overflowing one negative.
LEMMA ShiftedType == ASSUME NEW n \in Nat PROVE Shifted(n) \in Int
<1> DEFINE bits == AtMost(n - 1, LongWidth - 1)
<1>1. bits \in Int
  BY LongWidthAssumption DEF AtMost
<1>2. 2 ^ bits \in Int
  BY <1>1
<1> QED
  BY <1>2 DEF Shifted

\* Whatever overflows, the doubled duration is positive and no longer than the limit.
LEMMA DoubledWithin ==
  ASSUME NEW min \in Nat, NEW max \in Nat \ {0}, NEW n \in Nat
  PROVE  Doubled(min, max, n) \in 1..max
<1>1. Shifted(n) \in Int
  BY ShiftedType
<1>2. min * Shifted(n) \in Int
  BY <1>1
<1> QED
  BY <1>2 DEF Doubled

\* From the second attempt on it is twice the first, or the limit: where the shift does
\* not overflow it doubles at least, and where it does the limit stands in.
LEMMA DoubledEnough ==
  ASSUME NEW min \in Nat \ {0}, NEW max \in Nat \ {0}, NEW n \in Nat, n >= 2
  PROVE  Doubled(min, max, n) >= AtMost(2 * min, max)
<1> DEFINE bits == AtMost(n - 1, LongWidth - 1)
<1>1. bits \in 1..LongWidth - 1
  BY LongWidthAssumption DEF AtMost
<1>2. 2 ^ bits \in Int /\ 2 ^ bits >= 2
  BY <1>1, PowersAssumption
<1>3. Shifted(n) = IF bits = LongWidth - 1 THEN -(2 ^ bits) ELSE 2 ^ bits
  BY DEF Shifted
<1> HIDE DEF bits
<1>4. Shifted(n) \in Int /\ (Shifted(n) >= 2 \/ Shifted(n) <= -2)
  BY <1>2, <1>3
<1>5. CASE Shifted(n) >= 2
  <2>1. min * Shifted(n) \in Int /\ min * Shifted(n) >= 2 * min
    BY <1>4, <1>5
  <2> QED
    BY <2>1 DEF Doubled, AtMost
<1>6. CASE Shifted(n) <= -2
  <2>1. min * Shifted(n) \in Int /\ min * Shifted(n) <= 0
    BY <1>4, <1>6
  <2> QED
    BY <2>1 DEF Doubled, AtMost
<1> QED
  BY <1>4, <1>5, <1>6

\* The jitter keeps a duration within a quarter of it.
LEMMA JitterWithin ==
  ASSUME NEW d \in Nat, NEW t \in Jitter(d)
  PROVE  t \in Nat /\ 3 * d <= 4 * t /\ 4 * t <= 5 * d
BY DEF Jitter

\* A backoff is the minimum or, because the jitter comes after the limit, at most a
\* quarter longer than the limit.
THEOREM BackoffWithin ==
  ASSUME NEW min \in Nat \ {0}, NEW max \in Nat \ {0}, NEW n \in Nat,
         NEW d \in CalculateBackoffDuration(min, max, n)
  PROVE  d \in Nat /\ (d = min \/ 4 * d <= 5 * max)
<1>1. Doubled(min, max, n) \in 1..max
  BY DoubledWithin
<1>2. CASE n = 1
  BY <1>2 DEF CalculateBackoffDuration
<1>3. CASE n # 1
  <2>1. d \in Jitter(Doubled(min, max, n))
    BY <1>3 DEF CalculateBackoffDuration
  <2> QED
    BY <1>1, <2>1, JitterWithin
<1> QED
  BY <1>2, <1>3

\* Whatever the jitter, no backoff is shorter than the first one, if only the limit is
\* a third longer than that.
THEOREM NoShorterBackoff ==
  ASSUME NEW min \in Nat \ {0}, NEW max \in Nat \ {0}, NEW n \in Nat \ {0},
         3 * max >= 4 * min, NEW d \in CalculateBackoffDuration(min, max, n)
  PROVE  d >= min
<1>1. CASE n = 1
  BY <1>1 DEF CalculateBackoffDuration
<1>2. CASE n # 1
  <2>1. d \in Jitter(Doubled(min, max, n))
    BY <1>2 DEF CalculateBackoffDuration
  <2>2. Doubled(min, max, n) \in Nat
    BY DoubledWithin
  <2>3. Doubled(min, max, n) >= AtMost(2 * min, max)
    BY <1>2, DoubledEnough
  <2>4. d \in Nat /\ 3 * Doubled(min, max, n) <= 4 * d
    BY <2>1, <2>2, JitterWithin
  <2> QED
    BY <2>2, <2>3, <2>4 DEF AtMost
<1> QED
  BY <1>1, <1>2

\* A set of numbers has a least one.
LEMMA LeastNumber ==
  ASSUME NEW S \in SUBSET Nat, S # {} PROVE \E n \in S : \A k \in S : n <= k
<1> DEFINE R == OpToRel(<, Nat)
<1>1. IsWellFoundedOn(R, Nat)
  BY NatLessThanWellFounded
<1>2. \A a, b \in Nat : a < b => <<a, b>> \in R
  BY DEF OpToRel
<1> HIDE DEF R
<1>3. PICK n \in S : \A k \in S : <<k, n>> \notin R
  BY <1>1, WFMin
<1>4. \A k \in S : ~ (k < n)
  BY <1>2, <1>3
<1>5. \A k \in S : n <= k
  BY <1>4
<1> QED
  BY <1>5

\* While a window is open the delay is that of a window.
LEMMA FixedBackoffOfWindow ==
  ASSUME NEW W, NEW windows \in Seq(W), NEW t, NEW d \in FixedBackoff(windows, t)
  PROVE  \E n \in DOMAIN windows : d = windows[n].delay
<1> DEFINE open == {n \in DOMAIN windows : t < windows[n].until}
           first == CHOOSE n \in open : \A k \in open : n <= k
<1>1. open # {} /\ d = windows[first].delay
  BY DEF FixedBackoff
<1>2. open \in SUBSET Nat
  OBVIOUS
<1>3. \E n \in open : \A k \in open : n <= k
  <2> HIDE DEF open
  <2> QED
    BY <1>1, <1>2, LeastNumber
<1>4. first \in open
  BY <1>3
<1>5. first \in DOMAIN windows
  BY <1>4
<1> HIDE DEF first
<1> QED
  BY <1>1, <1>5

LEMMA FixedBackoffType ==
  ASSUME NEW D, NEW windows \in Seq([until : Nat, delay : D]), NEW t \in Nat,
         NEW d \in FixedBackoff(windows, t)
  PROVE  d \in D
<1> DEFINE W == [until : Nat, delay : D]
<1>1. windows \in Seq(W)
  OBVIOUS
<1>2. \A w \in W : w.delay \in D
  OBVIOUS
<1> HIDE DEF W
<1>3. \A n \in DOMAIN windows : windows[n] \in W
  BY <1>1
<1>4. \E n \in DOMAIN windows : d = windows[n].delay
  BY <1>1, FixedBackoffOfWindow
<1> QED
  BY <1>2, <1>3, <1>4
=============================================================================
