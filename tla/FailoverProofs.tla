--------------------------- MODULE FailoverProofs ---------------------------
(***************************************************************************)
(* Which endpoints a refresh asks and leaves alone, for any endpoints,     *)
(* replicas, backoffs and number of failures.                              *)
(***************************************************************************)
EXTENDS Failover, BackoffProofs, FiniteSetTheorems

---------------------------------------------------------------------------
(* Sequences of endpoints *)

\* A rotation of a sequence has the same elements, each once.
LEMMA RotationKeeps ==
  ASSUME NEW S, NEW s \in Seq(S), IsInjective(s), NEW n \in 1..Len(s),
         NEW t, t = SubSeq(s, n + 1, Len(s)) \o SubSeq(s, 1, n)
  PROVE  t \in Seq(S) /\ IsInjective(t) /\ Range(t) = Range(s)
<1> DEFINE a == SubSeq(s, n + 1, Len(s))
           b == SubSeq(s, 1, n)
           from == [k \in 1..Len(s) |-> IF k <= Len(s) - n THEN k + n ELSE k - (Len(s) - n)]
<1>1. a \in Seq(S) /\ Len(a) = Len(s) - n /\ \A k \in 1..Len(a) : a[k] = s[k + n]
  OBVIOUS
<1>2. b \in Seq(S) /\ Len(b) = n /\ \A k \in 1..n : b[k] = s[k]
  OBVIOUS
<1> HIDE DEF a, b
<1>3. t \in Seq(S) /\ Len(t) = Len(s)
  BY <1>1, <1>2 DEF a, b
<1>4. \A k \in 1..Len(s) : t[k] = s[from[k]] /\ from[k] \in 1..Len(s)
  BY <1>1, <1>2 DEF a, b
<1>5. \A k, m \in 1..Len(s) : from[k] = from[m] => k = m
  OBVIOUS
<1>6. \A m \in 1..Len(s) : \E k \in 1..Len(s) : from[k] = m
  <2> TAKE m \in 1..Len(s)
  <2>1. CASE m <= n
    <3>1. m + (Len(s) - n) \in 1..Len(s)
      BY <2>1
    <3> WITNESS m + (Len(s) - n) \in 1..Len(s)
    <3> QED
      BY <2>1
  <2>2. CASE m > n
    <3>1. m - n \in 1..Len(s)
      BY <2>2
    <3> WITNESS m - n \in 1..Len(s)
    <3> QED
      BY <2>2
  <2> QED
    BY <2>1, <2>2
<1> HIDE DEF from
<1>7. DOMAIN t = 1..Len(s) /\ DOMAIN s = 1..Len(s)
  BY <1>3
<1>8. IsInjective(t)
  <2> SUFFICES ASSUME NEW k \in 1..Len(s), NEW m \in 1..Len(s), t[k] = t[m] PROVE k = m
    BY <1>7 DEF IsInjective
  <2>1. s[from[k]] = s[from[m]] /\ from[k] \in DOMAIN s /\ from[m] \in DOMAIN s
    BY <1>4, <1>7
  <2>2. from[k] = from[m]
    BY <2>1 DEF IsInjective
  <2> QED
    BY <1>5, <2>2
<1>9. Range(t) = Range(s)
  <2>1. \A k \in 1..Len(s) : t[k] \in Range(s)
    BY <1>4, <1>7 DEF Range
  <2>2. \A m \in 1..Len(s) : s[m] \in Range(t)
    <3> TAKE m \in 1..Len(s)
    <3>1. PICK k \in 1..Len(s) : from[k] = m
      BY <1>6
    <3>2. t[k] = s[m] /\ k \in DOMAIN t
      BY <1>4, <1>7, <3>1
    <3> QED
      BY <3>2 DEF Range
  <2> QED
    BY <1>7, <2>1, <2>2 DEF Range
<1> QED
  BY <1>3, <1>8, <1>9

\* Two sequences without a common element are one after the other without repetition.
LEMMA ConcatKeeps ==
  ASSUME NEW S, NEW s \in Seq(S), NEW t \in Seq(S), IsInjective(s), IsInjective(t),
         Range(s) \cap Range(t) = {}
  PROVE  s \o t \in Seq(S) /\ IsInjective(s \o t) /\ Range(s) \subseteq Range(s \o t)
<1>1. s \o t \in Seq(S) /\ DOMAIN (s \o t) = 1..Len(s) + Len(t)
  OBVIOUS
<1>2. \A k \in 1..Len(s) : (s \o t)[k] = s[k] /\ s[k] \in Range(s)
  BY DEF Range
<1>3. \A k \in Len(s) + 1..Len(s) + Len(t) :
        (s \o t)[k] = t[k - Len(s)] /\ t[k - Len(s)] \in Range(t) /\ k - Len(s) \in DOMAIN t
  BY DEF Range
<1>4. IsInjective(s \o t)
  BY <1>1, <1>2, <1>3 DEF IsInjective
<1>5. Range(s) \subseteq Range(s \o t)
  BY <1>1, <1>2 DEF Range
<1> QED
  BY <1>1, <1>4, <1>5

LEMMA Behind ==
  ASSUME NEW l \in Nat, NEW a \in 1..l, NEW n \in a..l, n # a PROVE n \in a + 1..l
OBVIOUS

LEMMA MinOf == ASSUME NEW S \in SUBSET Nat, S # {} PROVE Min(S) \in S /\ \A k \in S : Min(S) <= k
BY LeastNumber DEF Min

---------------------------------------------------------------------------
(* The invariant *)

\* The clients of the manager and of a refresh are there once.
Lists1 ==
    /\ IsInjective(dynamic) /\ IsInjective(order)
    /\ pc = "request" => at \in DOMAIN order /\ result = "none"

\* Who waits has failed.
WaitsForCause == \A e \in Endpoints : backoff[e] > 0 => failed[e] > 0

\* Who was available and has not been asked is still ahead.
Ahead ==
    pc = "request" =>
        \A e \in open : e \in asked \/ \E n \in at + 1..Len(order) : order[n] = e

\* What is left of a configured endpoint's backoff and the time since its failure make
\* the shortest backoff; the client that is asked and those that may be have rested.
Rested ==
    /\ \A e \in Range(Static) : backoff[e] + sinceFailure[e] >= MinBackoff
    /\ pc = "request" =>
          \A n \in at..Len(order) : order[n] \in Range(Static) /\ (n = at \/ order[n] \in open)
             => sinceFailure[order[n]] >= MinBackoff

IInv == TypeOK /\ Lists1 /\ WaitsForCause /\ Ahead /\ Rested /\ GivesUpAfterAll /\ AlarmHasCause

---------------------------------------------------------------------------
(* Parts of the steps *)

LEMMA Bounds ==
  /\ MinBackoff \in Nat /\ MinBackoff > 0 /\ MaxBackoff \in Nat \ {0}
  /\ MinimalInterval \in Nat /\ MinimalInterval > 0
  /\ ExpireInterval \in Nat /\ ExpireInterval > 0
  /\ MaxFailures \in Nat /\ MaxFailures > 0 /\ MaxFaults \in Nat
BY FailoverAssumption

\* A backoff is never shorter than the first one.
LEMMA LongEnough ==
  ASSUME NEW n \in 1..MaxFailures, NEW d \in CalculateBackoffDuration(MinBackoff, MaxBackoff, n)
  PROVE  d \in Int /\ d >= MinBackoff
<1>1. n \in Nat \ {0} /\ 3 * MaxBackoff >= 4 * MinBackoff
  BY Bounds, FailoverAssumption
<1> QED
  BY <1>1, Bounds, BackoffWithin, NoShorterBackoff

\* Who is penalised waits for the shortest backoff at least, nobody else's changes.
LEMMA PenaliseKeeps ==
  ASSUME TypeOK, WaitsForCause, NEW S \in SUBSET Endpoints, Penalise(S)
  PROVE  /\ backoff' \in [Endpoints -> 0..2 * MaxBackoff]
         /\ failed' \in [Endpoints -> 0..MaxFailures]
         /\ WaitsForCause'
         /\ \A e \in S : failed'[e] > 0 /\ backoff'[e] >= MinBackoff
         /\ \A e \in Endpoints \ S : backoff'[e] = backoff[e] /\ failed'[e] = failed[e]
<1>1. /\ backoff \in [Endpoints -> 0..2 * MaxBackoff]
      /\ failed \in [Endpoints -> 0..MaxFailures]
  BY DEF TypeOK
<1>2. \A n \in 0..MaxFailures : Count(n + 1) \in 1..MaxFailures
  BY Bounds DEF Count, AtMost
<1>3. failed' = [e \in Endpoints |-> IF e \in S THEN Count(failed[e] + 1) ELSE failed[e]]
  BY DEF Penalise
<1>4. \A e \in Endpoints : failed'[e] = IF e \in S THEN Count(failed[e] + 1) ELSE failed[e]
  BY <1>3
<1>5. 1..MaxFailures \subseteq 0..MaxFailures
  BY Bounds
<1>6. \A e \in S : failed'[e] \in 1..MaxFailures
  BY <1>1, <1>2, <1>4
<1>7. \A e \in Endpoints \ S : failed'[e] = failed[e]
  BY <1>4
<1>8. failed' \in [Endpoints -> 0..MaxFailures]
  BY <1>1, <1>6, <1>7, <1>3, <1>5
<1>9. PICK d \in [S -> 0..2 * MaxBackoff] :
        /\ \A e \in S : d[e] \in CalculateBackoffDuration(MinBackoff, MaxBackoff, failed'[e])
        /\ backoff' = [e \in Endpoints |-> IF e \in S THEN d[e] ELSE backoff[e]]
  BY DEF Penalise
<1>10. backoff' \in [Endpoints -> 0..2 * MaxBackoff]
  BY <1>1, <1>9
<1>11. \A e \in S : backoff'[e] = d[e] /\ d[e] >= MinBackoff
  BY <1>6, <1>9, LongEnough
<1>12. \A e \in Endpoints \ S : backoff'[e] = backoff[e]
  BY <1>9
<1>13. \A e \in S : failed'[e] > 0
  BY <1>6, Bounds
<1>14. WaitsForCause'
  BY <1>7, <1>12, <1>13 DEF WaitsForCause
<1> QED
  BY <1>7, <1>8, <1>10, <1>11, <1>12, <1>13, <1>14

\* The manager hands out each client once, the configured ones always.
LEMMA ClientsKept ==
  ASSUME TypeOK, Lists1
  PROVE  /\ Clients \in Seq(Endpoints) /\ IsInjective(Clients)
         /\ Range(Static) \subseteq Range(Clients)
<1>1. Static \in Seq(Endpoints)
  BY FailoverAssumption DEF Endpoints
<1>2. dynamic \in Seq(Endpoints)
  BY DEF Endpoints, TypeOK
<1>3. Range(dynamic) \subseteq Replicas
  BY DEF Range, TypeOK
<1> QED
  BY <1>1, <1>2, <1>3, ConcatKeeps, FailoverAssumption DEF Clients, Lists1

\* So does the rotation.
LEMMA RotatedKept ==
  ASSUME TypeOK, Lists1
  PROVE  /\ Rotated(Clients) \in Seq(Endpoints) /\ IsInjective(Rotated(Clients))
         /\ Range(Rotated(Clients)) = Range(Clients)
<1> DEFINE s == Clients
           n == CHOOSE n \in DOMAIN s : s[n] = last
           t == SubSeq(s, n + 1, Len(s)) \o SubSeq(s, 1, n)
<1>1. s \in Seq(Endpoints) /\ IsInjective(s)
  BY ClientsKept
<1>2. CASE loadBalancing /\ last \in Available /\ Range(SubSeq(s, n + 1, Len(s))) \cap Available # {}
  <2>1. \E m \in DOMAIN s : s[m] = last
    BY <1>2 DEF Available, Range
  <2>2. n \in 1..Len(s)
    BY <1>1, <2>1
  <2>3. Rotated(s) = t
    BY <1>2 DEF Rotated
  <2> HIDE DEF s, n
  <2> QED
    BY <1>1, <2>2, <2>3, RotationKeeps DEF s
<1>3. CASE ~ (loadBalancing /\ last \in Available /\ Range(SubSeq(s, n + 1, Len(s))) \cap Available # {})
  BY <1>1, <1>3 DEF Rotated
<1> QED
  BY <1>2, <1>3

---------------------------------------------------------------------------
(* The steps of a refresh *)

\* A refresh begins with the first client that is available.
LEMMA FirstClient ==
  ASSUME TypeOK, Lists1, Begin
  PROVE  /\ order' \in Seq(Endpoints) /\ IsInjective(order')
         /\ at' \in DOMAIN order' /\ order'[at'] \in Available
         /\ \A e \in Available : \E n \in at'..Len(order') : order'[n] = e
<1> DEFINE free == {n \in DOMAIN order' : order'[n] \in Available}
<1>1. /\ order' \in Seq(Endpoints) /\ IsInjective(order') /\ Range(order') = Range(Clients)
      /\ Available # {} /\ at' = Min(free)
  BY RotatedKept DEF Begin
<1>2. \A e \in Available : \E n \in free : order'[n] = e
  BY <1>1 DEF Available, Range
<1>3. free \in SUBSET Nat /\ free # {}
  BY <1>1, <1>2
<1>4. at' \in free /\ \A n \in free : at' <= n
  BY <1>1, <1>3, MinOf
<1>5. DOMAIN order' = 1..Len(order') /\ Len(order') \in Nat
  BY <1>1
<1>6. \A n \in free : n \in at'..Len(order')
  BY <1>4, <1>5
<1> HIDE DEF free
<1>7. \A e \in Available : \E n \in at'..Len(order') : order'[n] = e
  BY <1>2, <1>6
<1> QED
  BY <1>1, <1>4, <1>7 DEF free

LEMMA BeginKeeps == IInv /\ Begin => IInv'
<1> SUFFICES ASSUME IInv, Begin PROVE IInv'
  OBVIOUS
<1> USE DEF IInv
<1>1. /\ order' \in Seq(Endpoints) /\ IsInjective(order')
      /\ at' \in DOMAIN order' /\ order'[at'] \in Available
      /\ \A e \in Available : \E n \in at'..Len(order') : order'[n] = e
  BY FirstClient
<1>2. Available \subseteq Endpoints /\ \A e \in Available : backoff[e] = 0
  <2>1. Range(Clients) \subseteq Endpoints
    BY ClientsKept DEF Range
  <2> QED
    BY <2>1 DEF Available
<1>3. at' \in 1..Len(order') /\ Len(order') \in Nat /\ order'[at'] \in Endpoints
  BY <1>1, <1>2
<1>4. TypeOK'
  <2>1. discovering' \in BOOLEAN /\ sinceAttempt' \in 0..MinimalInterval
    BY Bounds DEF Begin, Discover, MayDiscover, Outdated, TypeOK
  <2>2. at' \in 0..Len(order')
    BY <1>3
  <2>3. open' \subseteq Endpoints /\ asked' \subseteq Endpoints
    BY <1>2, <1>3 DEF Begin
  <2> QED
    BY <1>1, <2>1, <2>2, <2>3 DEF Begin, Discover, penalty, TypeOK
<1>5. Lists1'
  BY <1>1 DEF Begin, Discover, Lists1
<1>6. WaitsForCause'
  BY DEF Begin, penalty, WaitsForCause
<1>7. Ahead'
  <2> SUFFICES ASSUME NEW e \in Available
               PROVE  e \in asked' \/ \E n \in at' + 1..Len(order') : order'[n] = e
    BY DEF Begin, Ahead
  <2>1. PICK n \in at'..Len(order') : order'[n] = e
    BY <1>1
  <2>2. CASE n = at'
    BY <2>1, <2>2 DEF Begin
  <2>3. CASE n # at'
    <3>1. n \in at' + 1..Len(order')
      BY <1>3, <2>1, <2>3, Behind
    <3> QED
      BY <2>1, <3>1
  <2> QED
    BY <2>2, <2>3
<1>8. Rested'
  <2>1. \A e \in Range(Static) : backoff'[e] + sinceFailure'[e] >= MinBackoff
    BY DEF Begin, penalty, Rested
  <2>2. ASSUME NEW e \in Range(Static), e \in Available PROVE sinceFailure'[e] >= MinBackoff
    <3>1. e \in Endpoints /\ sinceFailure[e] \in 0..MinBackoff
      BY DEF Endpoints, TypeOK
    <3>2. backoff[e] = 0 /\ backoff[e] + sinceFailure[e] >= MinBackoff
      BY <1>2, <2>2 DEF Rested
    <3> QED
      BY <3>1, <3>2, Bounds DEF Begin
  <2>3. \A n \in at'..Len(order') :
          order'[n] \in Range(Static) /\ (n = at' \/ order'[n] \in open')
            => sinceFailure'[order'[n]] >= MinBackoff
    BY <1>1, <2>2 DEF Begin
  <2> QED
    BY <2>1, <2>3 DEF Rested
<1>9. GivesUpAfterAll' /\ AlarmHasCause'
  BY DEF Begin, GivesUpAfterAll, AlarmHasCause
<1> QED
  BY <1>4, <1>5, <1>6, <1>7, <1>8, <1>9

LEMMA SkipKeeps == IInv /\ Skip => IInv'
<1> SUFFICES ASSUME IInv, Skip PROVE IInv'
  OBVIOUS
<1> USE DEF IInv
<1>1. TypeOK'
  <2>1. discovering' \in BOOLEAN /\ sinceAttempt' \in 0..MinimalInterval
    BY Bounds DEF Skip, Discover, MayDiscover, TypeOK
  <2> QED
    BY <2>1 DEF Skip, Discover, penalty, TypeOK
<1>2. Lists1' /\ WaitsForCause' /\ Ahead' /\ GivesUpAfterAll'
  BY DEF Skip, Discover, penalty, Lists1, WaitsForCause, Ahead, GivesUpAfterAll
<1>3. Rested'
  BY DEF Skip, penalty, Rested
<1>4. PICK e \in Range(Static) : TRUE
  BY FailoverAssumption DEF Range
<1>5. e \in Endpoints /\ e \in Range(Clients)
  BY ClientsKept DEF Endpoints
<1>6. backoff[e] > 0
  BY <1>5 DEF Skip, Available, TypeOK
<1>7. failed'[e] > 0
  BY <1>5, <1>6 DEF WaitsForCause, Skip, penalty
<1>8. AlarmHasCause'
  BY <1>5, <1>7 DEF AlarmHasCause
<1> QED
  BY <1>1, <1>2, <1>3, <1>8

\* The client that is asked.
LEMMA CurrentType ==
  ASSUME TypeOK, Lists1, pc = "request"
  PROVE  at \in 1..Len(order) /\ Len(order) \in Nat /\ Current \in Endpoints
BY DEF TypeOK, Lists1, Current

\* What follows from the end of a refresh.
LEMMA Ends ==
  ASSUME NEW r, Return(r)
  PROVE  /\ order' \in Seq(Endpoints) /\ at' \in 0..Len(order') /\ IsInjective(order')
         /\ pc' = "idle" /\ result' = r /\ asked' = asked /\ Ahead'
BY DEF Return, IsInjective, Ahead

LEMMA SucceedKeeps == IInv /\ Succeed => IInv'
<1> SUFFICES ASSUME IInv, Succeed PROVE IInv'
  OBVIOUS
<1> USE DEF IInv
<1>1. at \in 1..Len(order) /\ Len(order) \in Nat /\ Current \in Endpoints
  BY CurrentType DEF Succeed
<1>2. /\ order' \in Seq(Endpoints) /\ at' \in 0..Len(order') /\ IsInjective(order')
      /\ pc' = "idle" /\ result' = "ok" /\ asked' = asked /\ Ahead'
  BY Ends DEF Succeed
<1>3. /\ backoff' \in [Endpoints -> 0..2 * MaxBackoff]
      /\ failed' \in [Endpoints -> 0..MaxFailures]
      /\ backoff'[Current] = 0
      /\ \A e \in Endpoints \ {Current} : backoff'[e] = backoff[e] /\ failed'[e] = failed[e]
  <2>1. 0 \in 0..2 * MaxBackoff /\ 0 \in 0..MaxFailures
    BY Bounds
  <2>2. /\ backoff \in [Endpoints -> 0..2 * MaxBackoff]
        /\ failed \in [Endpoints -> 0..MaxFailures]
    BY DEF TypeOK
  <2>3. backoff' = [backoff EXCEPT ![Current] = 0] /\ failed' = [failed EXCEPT ![Current] = 0]
    BY DEF Succeed
  <2> QED
    BY <1>1, <2>1, <2>2, <2>3
<1>4. TypeOK'
  <2>1. last' \in Endpoints \cup {None} /\ healthy' \in BOOLEAN
    BY <1>1 DEF Succeed, Answered
  <2> QED
    BY <1>2, <1>3, <2>1 DEF Succeed, manager, TypeOK
<1>5. Lists1'
  BY <1>2 DEF Succeed, manager, Lists1
<1>6. WaitsForCause'
  BY <1>3 DEF WaitsForCause
<1>7. Rested'
  <2> SUFFICES ASSUME NEW e \in Range(Static)
               PROVE  backoff'[e] + sinceFailure'[e] >= MinBackoff
    BY <1>2 DEF Rested
  <2>1. e \in Endpoints
    BY DEF Endpoints
  <2>2. CASE e = Current
    <3>1. at \in at..Len(order)
      BY <1>1
    <3>2. sinceFailure[e] >= MinBackoff
      BY <2>2, <3>1 DEF Rested, Current, Succeed
    <3>3. sinceFailure[e] \in 0..MinBackoff
      BY <2>1 DEF TypeOK
    <3> QED
      BY <1>3, <2>2, <3>2, <3>3, Bounds DEF Succeed
  <2>3. CASE e # Current
    BY <1>3, <2>1, <2>3 DEF Rested, Succeed
  <2> QED
    BY <2>2, <2>3
<1>8. GivesUpAfterAll' /\ AlarmHasCause'
  BY <1>2 DEF GivesUpAfterAll, AlarmHasCause, Succeed, Answered
<1> QED
  BY <1>2, <1>4, <1>5, <1>6, <1>7, <1>8

---------------------------------------------------------------------------
(* The steps of a request that fails *)

\* What every failure does to the penalties, when the client that was asked is
\* penalised or is not a configured one.
LEMMA FaultKeeps ==
  ASSUME IInv, Fault, NEW S \in SUBSET Endpoints, Penalise(S),
         Current \in S \/ Current \notin Range(Static)
  PROVE  /\ backoff' \in [Endpoints -> 0..2 * MaxBackoff]
         /\ failed' \in [Endpoints -> 0..MaxFailures]
         /\ sinceFailure' \in [Endpoints -> 0..MinBackoff] /\ faults' \in 0..MaxFaults
         /\ WaitsForCause'
         /\ \A e \in S : failed'[e] > 0
         /\ \A e \in Endpoints \ {Current} : sinceFailure'[e] = sinceFailure[e]
         /\ \A e \in Range(Static) : backoff'[e] + sinceFailure'[e] >= MinBackoff
<1> USE DEF IInv
<1>1. Current \in Endpoints
  BY CurrentType DEF Fault
<1>2. /\ backoff' \in [Endpoints -> 0..2 * MaxBackoff]
      /\ failed' \in [Endpoints -> 0..MaxFailures]
      /\ WaitsForCause'
      /\ \A e \in S : failed'[e] > 0 /\ backoff'[e] >= MinBackoff
      /\ \A e \in Endpoints \ S : backoff'[e] = backoff[e] /\ failed'[e] = failed[e]
  BY PenaliseKeeps
<1>3. /\ sinceFailure' \in [Endpoints -> 0..MinBackoff]
      /\ sinceFailure'[Current] = 0
      /\ \A e \in Endpoints \ {Current} : sinceFailure'[e] = sinceFailure[e]
  <2>1. 0 \in 0..MinBackoff
    BY Bounds
  <2>2. sinceFailure \in [Endpoints -> 0..MinBackoff]
    BY DEF TypeOK
  <2>3. sinceFailure' = [sinceFailure EXCEPT ![Current] = 0]
    BY DEF Fault
  <2> QED
    BY <1>1, <2>1, <2>2, <2>3
<1>4. faults' \in 0..MaxFaults
  BY Bounds DEF Fault, TypeOK
<1>5. ASSUME NEW e \in Range(Static) PROVE backoff'[e] + sinceFailure'[e] >= MinBackoff
  <2>1. e \in Endpoints /\ backoff'[e] \in Int /\ sinceFailure'[e] \in 0..MinBackoff
    BY <1>2, <1>3, Bounds DEF Endpoints
  <2>2. CASE e \in S
    BY <1>2, <2>1, <2>2, Bounds
  <2>3. CASE e \notin S
    <3>1. e # Current
      BY <2>3
    <3> QED
      BY <1>2, <1>3, <2>1, <2>3, <3>1 DEF Rested
  <2> QED
    BY <2>2, <2>3
<1> QED
  BY <1>2, <1>3, <1>4, <1>5

\* A failure that ends the refresh.
LEMMA FaultEnds ==
  ASSUME IInv, Fault, NEW S \in SUBSET Endpoints, Penalise(S),
         Current \in S \/ Current \notin Range(Static),
         NEW r \in {"exhausted", "rejected", "thrown", "unknownClient"}, Return(r),
         healthy' \in BOOLEAN, Current \in S \/ r = "unknownClient",
         r = "exhausted" => open \subseteq asked
  PROVE  IInv'
<1> USE DEF IInv
<1>1. /\ backoff' \in [Endpoints -> 0..2 * MaxBackoff]
      /\ failed' \in [Endpoints -> 0..MaxFailures]
      /\ sinceFailure' \in [Endpoints -> 0..MinBackoff] /\ faults' \in 0..MaxFaults
      /\ WaitsForCause'
      /\ \A e \in S : failed'[e] > 0
      /\ \A e \in Range(Static) : backoff'[e] + sinceFailure'[e] >= MinBackoff
  BY FaultKeeps
<1>2. /\ order' \in Seq(Endpoints) /\ at' \in 0..Len(order') /\ IsInjective(order')
      /\ pc' = "idle" /\ result' = r /\ asked' = asked /\ Ahead'
  BY Ends
<1>3. TypeOK'
  BY <1>1, <1>2 DEF Fault, manager, TypeOK
<1>4. Lists1' /\ Rested'
  BY <1>1, <1>2 DEF Fault, manager, Lists1, Rested
<1>5. GivesUpAfterAll'
  BY <1>2 DEF Fault, GivesUpAfterAll
<1>6. AlarmHasCause'
  BY <1>1, <1>2 DEF AlarmHasCause
<1> QED
  BY <1>1, <1>2, <1>3, <1>4, <1>5, <1>6

LEMMA ThrowKeeps == IInv /\ Throw => IInv'
<1> SUFFICES ASSUME IInv, Throw PROVE IInv'
  OBVIOUS
<1>1. Current \in Endpoints
  BY CurrentType DEF IInv, Throw, Fault
<1>2. healthy' \in BOOLEAN
  BY DEF IInv, TypeOK, Throw
<1>3. Fault /\ Penalise({Current}) /\ Return("thrown") /\ {Current} \in SUBSET Endpoints
  BY <1>1 DEF Throw
<1> QED
  BY <1>2, <1>3, FaultEnds

LEMMA FailOverToUnknownKeeps == IInv /\ FailOverToUnknown => IInv'
<1> SUFFICES ASSUME IInv, FailOverToUnknown PROVE IInv'
  OBVIOUS
<1>1. Current \in Endpoints
  BY CurrentType DEF IInv, FailOverToUnknown, Fault
<1>2. healthy' \in BOOLEAN
  BY DEF IInv, TypeOK, FailOverToUnknown
<1>3. Fault /\ Penalise({Current}) /\ Return("unknownClient") /\ {Current} \in SUBSET Endpoints
  BY <1>1 DEF FailOverToUnknown
<1> QED
  BY <1>2, <1>3, FaultEnds

\* Where the enumerator stops is ahead.
LEMMA StopsAhead ==
  ASSUME TypeOK, Lists1, pc = "request"
  PROVE  /\ Stops \in SUBSET Nat
         /\ \A n \in Stops : n \in at + 1..Len(order) /\ n \in DOMAIN order /\ order[n] \in Endpoints
         /\ \A n \in DOMAIN order : order[n] \in Endpoints
<1>1. at \in 1..Len(order) /\ Len(order) \in Nat
  BY CurrentType
<1>2. \A n \in at + 1..Len(order) : n \in 1..Len(order)
  BY <1>1
<1>3. order \in Seq(Endpoints) /\ DOMAIN order = 1..Len(order)
  BY DEF TypeOK
<1> QED
  BY <1>1, <1>2, <1>3 DEF Stops

LEMMA GiveUpKeeps ==
  ASSUME IInv, Fault, NEW r \in {"exhausted", "rejected"}, GiveUp(r),
         r = "exhausted" => open \subseteq asked
  PROVE  IInv'
<1> DEFINE left  == {at} \cup Stops
           found == {n \in left : \A k \in left : k <= n => Known(order[k])}
           S     == {order[n] : n \in found}
<1>1. at \in 1..Len(order) /\ Len(order) \in Nat /\ Current \in Endpoints
  BY CurrentType DEF IInv, Fault
<1>2. /\ Stops \in SUBSET Nat
      /\ \A n \in Stops : n \in at + 1..Len(order)
      /\ \A n \in DOMAIN order : order[n] \in Endpoints
      /\ \A n \in Stops : n \in DOMAIN order
  BY StopsAhead DEF IInv, Fault
<1>3. /\ Penalise(S) /\ healthy' = FALSE
      /\ Return(IF found = left THEN r ELSE "unknownClient")
  BY DEF GiveUp
<1>4. at \in DOMAIN order
  BY DEF IInv, Lists1, Fault
<1>5. \A n \in left : order[n] \in Endpoints
  BY <1>2, <1>4
<1>6. S \in SUBSET Endpoints
  BY <1>5
<1>7. \A k \in left : k <= at => k = at
  BY <1>1, <1>2
<1>8. Known(Current) => Current \in S
  <2> SUFFICES ASSUME Known(Current) PROVE Current \in S
    OBVIOUS
  <2>1. at \in found
    BY <1>7 DEF Current
  <2> QED
    BY <2>1 DEF Current
<1>9. Current \in S \/ Current \notin Range(Static)
  BY <1>8 DEF Known
<1>10. found = left => Current \in S
  BY DEF Current
<1> HIDE DEF S, found, left
<1>11. CASE found = left
  BY <1>3, <1>6, <1>9, <1>10, <1>11, FaultEnds
<1>12. CASE found # left
  BY <1>3, <1>6, <1>9, <1>12, FaultEnds
<1> QED
  BY <1>11, <1>12

LEMMA ExhaustKeeps == IInv /\ Exhaust => IInv'
<1> SUFFICES ASSUME IInv, Exhaust PROVE IInv'
  OBVIOUS
<1>1. open \subseteq asked
  BY DEF IInv, Ahead, Exhaust, Fault, Stops
<1> QED
  BY <1>1, GiveUpKeeps DEF Exhaust

LEMMA RejectKeeps == IInv /\ Reject => IInv'
BY GiveUpKeeps DEF Reject

\* The next client was available when the refresh began and has rested.
LEMMA NextClient ==
  ASSUME IInv, FailOver
  PROVE  /\ at' \in at + 1..Len(order) /\ at' \in DOMAIN order
         /\ order[at'] \in open /\ order[at'] # Current
         /\ \A n \in at + 1..Len(order) : order[n] \in open => at' <= n
<1> USE DEF IInv
<1>1. pc = "request" /\ Stops # {} /\ at' = Min(Stops) /\ Known(order[Min(Stops)])
  BY DEF FailOver, Fault
<1>2. Stops \in SUBSET Nat /\ \A n \in Stops : n \in at + 1..Len(order) /\ n \in DOMAIN order
  BY <1>1, StopsAhead
<1>3. at' \in Stops /\ \A n \in Stops : at' <= n
  BY <1>1, <1>2, MinOf
<1>4. order[at'] \in open
  BY <1>1, <1>3 DEF Stops
<1>5. at \in DOMAIN order /\ at \in 1..Len(order) /\ Len(order) \in Nat
  BY <1>1, CurrentType DEF Lists1
<1>6. at' # at
  BY <1>2, <1>3, <1>5
<1>7. order[at'] # Current
  BY <1>2, <1>3, <1>5, <1>6 DEF Lists1, IsInjective, Current
<1>8. \A n \in at + 1..Len(order) : order[n] \in open => n \in Stops
  BY DEF Stops
<1> QED
  BY <1>2, <1>3, <1>4, <1>7, <1>8

LEMMA FailOverKeeps == IInv /\ FailOver => IInv'
<1> SUFFICES ASSUME IInv, FailOver PROVE IInv'
  OBVIOUS
<1> USE DEF IInv
<1>1. at \in 1..Len(order) /\ Len(order) \in Nat /\ Current \in Endpoints
  BY CurrentType DEF FailOver, Fault
<1>2. /\ at' \in at + 1..Len(order) /\ at' \in DOMAIN order
      /\ order[at'] \in open /\ order[at'] # Current
      /\ \A n \in at + 1..Len(order) : order[n] \in open => at' <= n
  BY NextClient
<1>3. Fault /\ Penalise({Current}) /\ {Current} \in SUBSET Endpoints
  BY <1>1 DEF FailOver, Previous
<1>4. /\ backoff' \in [Endpoints -> 0..2 * MaxBackoff]
      /\ failed' \in [Endpoints -> 0..MaxFailures]
      /\ sinceFailure' \in [Endpoints -> 0..MinBackoff] /\ faults' \in 0..MaxFaults
      /\ WaitsForCause'
      /\ \A e \in Endpoints \ {Current} : sinceFailure'[e] = sinceFailure[e]
      /\ \A e \in Range(Static) : backoff'[e] + sinceFailure'[e] >= MinBackoff
  BY <1>3, FaultKeeps
<1>5. /\ order' = order /\ open' = open /\ asked' = asked \cup {order[at']}
      /\ pc' = "request" /\ pc = "request" /\ result' = result
  BY DEF FailOver, Fault
<1>6. at' \in 1..Len(order) /\ at' > at
  BY <1>1, <1>2
<1>7. TypeOK'
  <2>1. at' \in 0..Len(order')
    BY <1>5, <1>6
  <2>2. asked' \subseteq Endpoints
    BY <1>2, <1>5 DEF TypeOK
  <2> QED
    BY <1>4, <1>5, <2>1, <2>2 DEF FailOver, Fault, manager, TypeOK
<1>8. Lists1'
  BY <1>2, <1>5 DEF FailOver, Fault, manager, Lists1
<1>9. Ahead'
  <2> SUFFICES ASSUME NEW e \in open, e \notin asked'
               PROVE  \E n \in at' + 1..Len(order') : order'[n] = e
    BY <1>5 DEF Ahead
  <2>1. PICK n \in at + 1..Len(order) : order[n] = e
    BY <1>5 DEF Ahead
  <2>2. n # at' /\ at' <= n
    BY <1>2, <1>5, <2>1
  <2>3. n \in at'..Len(order)
    BY <1>1, <1>6, <2>1, <2>2
  <2>4. n \in at' + 1..Len(order)
    BY <1>1, <1>6, <2>2, <2>3, Behind
  <2> QED
    BY <1>5, <2>1, <2>4
<1>10. Rested'
  <2> SUFFICES ASSUME NEW n \in at'..Len(order), order[n] \in Range(Static),
                      n = at' \/ order[n] \in open
               PROVE  sinceFailure'[order[n]] >= MinBackoff
    BY <1>4, <1>5 DEF Rested
  <2>1. order[n] \in open
    BY <1>2
  <2>2. n \in at..Len(order) /\ n \in 1..Len(order) /\ n # at
    BY <1>1, <1>6
  <2>3. sinceFailure[order[n]] >= MinBackoff
    BY <1>5, <2>1, <2>2 DEF Rested
  <2>4. n \in DOMAIN order /\ at \in DOMAIN order
    <3>1. order \in Seq(Endpoints)
      BY DEF TypeOK
    <3> QED
      BY <1>1, <2>2, <3>1
  <2>5. order[n] # Current
    BY <2>2, <2>4 DEF Lists1, IsInjective, Current
  <2>6. order[n] \in Endpoints
    BY DEF Endpoints
  <2> QED
    BY <1>4, <2>3, <2>5, <2>6
<1>11. GivesUpAfterAll' /\ AlarmHasCause'
  BY <1>5 DEF GivesUpAfterAll, AlarmHasCause, Lists1
<1> QED
  BY <1>4, <1>7, <1>8, <1>9, <1>10, <1>11

---------------------------------------------------------------------------
(* Discovery and time *)

LEMMA DiscoveredKeeps == IInv /\ Discovered => IInv'
<1> SUFFICES ASSUME IInv, Discovered PROVE IInv'
  OBVIOUS
<1> USE DEF IInv
<1>1. dynamic' \in Seq(Replicas) /\ IsInjective(dynamic')
  <2>1. CASE dynamic' \in Orders
    <3>1. Cardinality(Replicas) \in Nat
      BY FailoverAssumption, FS_CardinalityType
    <3>2. PICK n \in 0..Cardinality(Replicas) : dynamic' \in Injection(1..n, Replicas)
      BY <2>1 DEF Orders, Lists
    <3>3. dynamic' \in [1..n -> Replicas] /\ IsInjective(dynamic')
      BY <3>2 DEF Injection
    <3>4. n \in Nat
      BY <3>1, <3>2
    <3> QED
      BY <3>3, <3>4
  <2>2. CASE dynamic' = dynamic
    BY <2>2 DEF TypeOK, Lists1
  <2> QED
    BY <2>1, <2>2 DEF Discovered
<1>2. TypeOK'
  <2>1. 0 \in 0..ExpireInterval
    BY Bounds
  <2>2. sinceDiscovery' \in 0..ExpireInterval
    BY <2>1 DEF Discovered, TypeOK
  <2>3. discovering' \in BOOLEAN /\ discovered' \in BOOLEAN /\ replaced' \in BOOLEAN
    BY Zenon DEF Discovered, TypeOK
  <2> QED
    BY <1>1, <2>2, <2>3 DEF Discovered, penalty, TypeOK
<1>3. Lists1'
  BY <1>1 DEF Discovered, Lists1
<1>4. Ahead' /\ WaitsForCause' /\ GivesUpAfterAll' /\ AlarmHasCause'
  BY DEF Discovered, penalty, Ahead, WaitsForCause, GivesUpAfterAll, AlarmHasCause
<1>5. Rested'
  BY DEF Discovered, penalty, Rested
<1> QED
  BY <1>2, <1>3, <1>4, <1>5

LEMMA TickKeeps == IInv /\ Tick => IInv'
<1> SUFFICES ASSUME IInv, Tick PROVE IInv'
  OBVIOUS
<1> USE DEF IInv
<1>1. /\ backoff \in [Endpoints -> 0..2 * MaxBackoff]
      /\ sinceFailure \in [Endpoints -> 0..MinBackoff]
  BY DEF TypeOK
<1>2. /\ backoff' = [e \in Endpoints |-> IF backoff[e] = 0 THEN 0 ELSE backoff[e] - 1]
      /\ sinceFailure' = [e \in Endpoints |-> Later(sinceFailure[e], MinBackoff)]
  BY DEF Tick
<1>3. \A b \in 0..2 * MaxBackoff : (IF b = 0 THEN 0 ELSE b - 1) \in 0..2 * MaxBackoff
  BY Bounds
<1>4. backoff' \in [Endpoints -> 0..2 * MaxBackoff]
  BY <1>1, <1>2, <1>3
<1>5. \A t \in 0..MinBackoff : Later(t, MinBackoff) \in 0..MinBackoff /\ Later(t, MinBackoff) >= t
  BY Bounds DEF Later, AtMost
<1>6. sinceFailure' \in [Endpoints -> 0..MinBackoff]
  BY <1>1, <1>2, <1>5
<1>7. \A e \in Endpoints : sinceFailure'[e] >= sinceFailure[e]
  BY <1>1, <1>2, <1>5
<1>8. \A b \in 0..2 * MaxBackoff, t \in 0..MinBackoff : b + t >= MinBackoff =>
        (IF b = 0 THEN 0 ELSE b - 1) + Later(t, MinBackoff) >= MinBackoff
  BY Bounds DEF Later, AtMost
<1>9. TypeOK'
  <2>1. sinceAttempt' \in 0..MinimalInterval /\ sinceDiscovery' \in 0..ExpireInterval
    BY Bounds DEF Tick, Later, AtMost, TypeOK
  <2>2. discovering' \in BOOLEAN
    BY DEF Tick, TypeOK
  <2> QED
    BY <1>4, <1>6, <2>1, <2>2 DEF Tick, TypeOK
<1>10. Lists1' /\ Ahead' /\ GivesUpAfterAll' /\ AlarmHasCause'
  BY DEF Tick, Lists1, Ahead, GivesUpAfterAll, AlarmHasCause
<1>11. WaitsForCause'
  BY <1>1, <1>2 DEF Tick, WaitsForCause
<1>12. Rested'
  <2>1. \A e \in Range(Static) : backoff'[e] + sinceFailure'[e] >= MinBackoff
    BY <1>1, <1>2, <1>8 DEF Rested, Endpoints
  <2>2. ASSUME NEW e \in Range(Static), sinceFailure[e] >= MinBackoff
        PROVE  sinceFailure'[e] >= MinBackoff
    <3>1. e \in Endpoints
      BY DEF Endpoints
    <3>2. sinceFailure[e] \in 0..MinBackoff /\ sinceFailure'[e] \in 0..MinBackoff
      BY <1>1, <1>6, <3>1
    <3> QED
      BY <1>7, <2>2, <3>1, <3>2, Bounds
  <2> QED
    BY <2>1, <2>2 DEF Rested, Tick
<1> QED
  BY <1>9, <1>10, <1>11, <1>12

---------------------------------------------------------------------------
(* The theorems *)

LEMMA InitInvariant == Init => IInv
<1> SUFFICES ASSUME Init PROVE IInv
  OBVIOUS
<1>1. TypeOK
  <2>1. /\ 0 \in 0..2 * MaxBackoff /\ 0 \in 0..MaxFailures /\ 0 \in 0..MaxFaults
        /\ MinimalInterval \in 0..MinimalInterval /\ ExpireInterval \in 0..ExpireInterval
        /\ MinBackoff \in 0..MinBackoff
    BY Bounds
  <2>2. dynamic \in Seq(Replicas) /\ order \in Seq(Endpoints) /\ at \in 0..Len(order)
    BY DEF Init
  <2>3. /\ backoff \in [Endpoints -> 0..2 * MaxBackoff]
        /\ failed \in [Endpoints -> 0..MaxFailures]
        /\ sinceFailure \in [Endpoints -> 0..MinBackoff]
    BY <2>1 DEF Init
  <2> QED
    BY <2>1, <2>2, <2>3 DEF Init, TypeOK
<1>2. Lists1
  BY DEF Init, Lists1, IsInjective
<1>3. WaitsForCause /\ Ahead /\ GivesUpAfterAll /\ AlarmHasCause
  BY DEF Init, WaitsForCause, Ahead, GivesUpAfterAll, AlarmHasCause
<1>4. Rested
  BY Bounds DEF Init, Rested, Endpoints
<1> QED
  BY <1>1, <1>2, <1>3, <1>4 DEF IInv

LEMMA NextInvariant == IInv /\ [Next]_vars => IInv'
<1> SUFFICES ASSUME IInv, [Next]_vars PROVE IInv'
  OBVIOUS
<1>1. CASE Next
  BY <1>1, BeginKeeps, SkipKeeps, SucceedKeeps, FailOverKeeps, FailOverToUnknownKeeps,
     ExhaustKeeps, RejectKeeps, ThrowKeeps, DiscoveredKeeps, TickKeeps DEF Next, Ask, Reply
<1>2. CASE UNCHANGED vars
  BY <1>2 DEF vars, manager, IInv, TypeOK, Lists1, WaitsForCause, Ahead, Rested,
     GivesUpAfterAll, AlarmHasCause
<1> QED
  BY <1>1, <1>2

LEMMA Invariant == Spec => []IInv
BY InitInvariant, NextInvariant, PTL DEF Spec

\* Every variable keeps its type, the clients of the manager above all: what discovery
\* finds never repeats a configured endpoint.
THEOREM TypeCorrect == Spec => []TypeOK
<1>1. IInv => TypeOK
  BY DEF IInv
<1> QED
  BY <1>1, Invariant, PTL

\* A refresh that found no endpoint working has asked all that were available.
THEOREM AllAreAsked == Spec => []GivesUpAfterAll
<1>1. IInv => GivesUpAfterAll
  BY DEF IInv
<1> QED
  BY <1>1, Invariant, PTL

\* The health check raises no false alarm.
THEOREM NoFalseAlarm == Spec => []AlarmHasCause
<1>1. IInv => AlarmHasCause
  BY DEF IInv
<1> QED
  BY <1>1, Invariant, PTL

\* A configured endpoint that failed is left alone for the shortest backoff.
THEOREM FailedRest == Spec => RestsAfterFailure
<1> DEFINE Rests == \A e \in Range(Static) :
                      e \in asked' /\ (pc = "idle" \/ e \notin asked) /\ pc' = "request"
                        => sinceFailure[e] >= MinBackoff
<1>1. IInv /\ [Next]_vars => [Rests]_vars
  <2> SUFFICES ASSUME IInv, Next, NEW e \in Range(Static), e \in asked',
                      pc = "idle" \/ e \notin asked, pc' = "request"
               PROVE  sinceFailure[e] >= MinBackoff
    OBVIOUS
  <2> USE DEF IInv
  <2>1. CASE Begin
    <3>1. e \in Available
      BY <2>1, FirstClient DEF Begin
    <3>2. backoff[e] = 0 /\ sinceFailure[e] \in 0..MinBackoff
      BY <3>1 DEF Available, TypeOK, Endpoints
    <3>3. backoff[e] + sinceFailure[e] >= MinBackoff
      BY DEF Rested
    <3> QED
      BY <3>2, <3>3, Bounds
  <2>2. CASE FailOver
    <3>1. at' \in at + 1..Len(order) /\ order[at'] \in open
      BY <2>2, NextClient
    <3>2. e = order[at'] /\ pc = "request"
      BY <2>2 DEF FailOver, Fault
    <3>3. at \in 1..Len(order) /\ Len(order) \in Nat
      BY <3>2, CurrentType
    <3>4. at' \in at..Len(order)
      BY <3>1, <3>3
    <3> QED
      BY <3>1, <3>2, <3>4 DEF Rested
  <2>3. CASE Skip \/ Discovered \/ Tick
    BY <2>3 DEF Skip, Discovered, Tick, TypeOK
  <2>4. CASE Succeed \/ FailOverToUnknown \/ Exhaust \/ Reject \/ Throw
    BY <2>4 DEF Succeed, FailOverToUnknown, Exhaust, Reject, GiveUp, Throw, Return
  <2> QED
    BY <2>1, <2>2, <2>3, <2>4 DEF Next, Ask, Reply
<1> QED
  BY <1>1, Invariant, PTL DEF Spec, RestsAfterFailure
=============================================================================
