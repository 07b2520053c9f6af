-------------------------- MODULE SecretCacheProofs --------------------------
(***************************************************************************)
(* How often Key Vault is asked, for any references, intervals and number  *)
(* of parallel requests.                                                   *)
(***************************************************************************)
EXTENDS SecretCache, TLAPS

\* What is requested is not looked up again, and between two refreshes nothing is.
Fetched == fetching \cap todo = {} /\ (pc = "idle" => fetching = {})

\* An entry that was asked for less than Spacing ago is younger than that, and not due
\* before Spacing is over.
Recent(r) ==
    /\ sinceAsked[r] >= cache[r].age
    /\ cache[r].refreshIn # Never => sinceAsked[r] + cache[r].refreshIn >= Spacing

Spaced ==
    \A r \in Refs : r \in fetching \/ sinceAsked[r] = Spacing \/ (r \in Cached /\ Recent(r))

IInv == TypeOK /\ Fetched /\ Spaced

---------------------------------------------------------------------------
(* Times *)

LEMMA Bounds ==
  /\ MinBackoff \in Nat /\ MinBackoff > 0 /\ MaxBackoff \in Nat /\ MaxBackoff > 0
  /\ MinimumSecretRefreshInterval \in Nat /\ MinimumSecretRefreshInterval > 0
  /\ MaxRotations \in Nat /\ MaxFaults \in Nat
  /\ Spacing \in Nat /\ Spacing > 0
  /\ Spacing <= MinBackoff /\ Spacing <= MinimumSecretRefreshInterval
<1>1. /\ MinBackoff \in Nat /\ MinBackoff > 0 /\ MaxBackoff \in Nat /\ MaxBackoff > 0
      /\ MinimumSecretRefreshInterval \in Nat /\ MinimumSecretRefreshInterval > 0
      /\ MaxRotations \in Nat /\ MaxFaults \in Nat
  BY SecretCacheAssumption
<1> QED
  BY <1>1 DEF Spacing, AtMost

\* Whether a secret was resolved or not, it is not due before Spacing is over.
LEMMA DueLater ==
  ASSUME interval \in Intervals, NEW r \in Refs, NEW success \in BOOLEAN,
         NEW t \in RefreshTimes(r, success)
  PROVE  t \in Times /\ (t # Never => t \in Nat /\ t >= Spacing /\ t <= interval[r])
<1>1. /\ interval[r] \in Nat
      /\ interval[r] = 0 \/ interval[r] >= MinimumSecretRefreshInterval
  BY SecretCacheAssumption
<1>2. CASE interval[r] = 0
  BY <1>2 DEF RefreshTimes, Times
<1>3. CASE interval[r] # 0
  <2>1. t = interval[r] \/ (t = MinBackoff /\ ~(interval[r] <= MinBackoff))
    BY <1>3 DEF RefreshTimes, CalculateBackoffTime, CalculateBackoffDuration
  <2> QED
    BY <1>1, <1>3, <2>1, Bounds DEF Times
<1> QED
  BY <1>2, <1>3

LEMMA EntryType == ASSUME NEW e \in Entries
  PROVE  /\ e \in [value : Values, refreshIn : Times, age : 0..MinimumSecretRefreshInterval + 1]
         /\ e # Absent /\ e.value \in Values /\ e.refreshIn \in Times
         /\ e.age \in 0..MinimumSecretRefreshInterval + 1
BY SecretCacheAssumption DEF Entries

\* An entry grows older.
LEMMA AgedType ==
  ASSUME NEW e \in Entries
  PROVE  /\ Aged(e) \in Entries
         /\ Aged(e).age <= e.age + 1
         /\ Aged(e).refreshIn = IF e.refreshIn = Never \/ e.refreshIn < 0
                                THEN e.refreshIn ELSE e.refreshIn - 1
<1> DEFINE t == IF e.refreshIn = Never \/ e.refreshIn < 0 THEN e.refreshIn ELSE e.refreshIn - 1
           g == AtMost(e.age + 1, MinimumSecretRefreshInterval + 1)
<1>1. /\ e \in [value : Values, refreshIn : Times, age : 0..MinimumSecretRefreshInterval + 1]
      /\ e.refreshIn \in Times /\ e.age \in 0..MinimumSecretRefreshInterval + 1
  BY EntryType
<1>2. t \in Times
  BY <1>1 DEF Times
<1>3. g \in 0..MinimumSecretRefreshInterval + 1 /\ g <= e.age + 1
  BY <1>1, Bounds DEF AtMost
<1>4. Aged(e) = [e EXCEPT !.refreshIn = t, !.age = g]
  BY DEF Aged
<1> HIDE DEF t, g
<1>5. Aged(e) \in Entries /\ Aged(e).age = g /\ Aged(e).refreshIn = t
  BY <1>1, <1>2, <1>3, <1>4 DEF Entries
<1> QED
  BY <1>3, <1>5 DEF t

---------------------------------------------------------------------------
(* The steps *)

LEMMA CacheType ==
  ASSUME TypeOK, NEW r \in Refs
  PROVE  /\ r \in Cached => cache[r] \in Entries
         /\ r \notin Cached => cache[r] = Absent
         /\ sinceAsked[r] \in 0..Spacing
BY DEF TypeOK, Cached

LEMMA InitInvariant == Init => IInv
<1> SUFFICES ASSUME Init PROVE IInv
  OBVIOUS
<1> DEFINE entry(r) == [value |-> 0, refreshIn |-> CHOOSE t \in RefreshTimes(r, TRUE) : TRUE,
                        age |-> 0]
<1>1. ASSUME NEW r \in Refs
      PROVE  /\ cache[r] = entry(r) /\ entry(r) \in Entries
             /\ cache[r].refreshIn # Never =>
                  /\ cache[r].refreshIn >= Spacing /\ cache[r].refreshIn \in Nat
                  /\ cache[r].refreshIn <= interval[r]
  <2>1. RefreshTimes(r, TRUE) # {}
    BY DEF RefreshTimes
  <2>2. PICK t \in RefreshTimes(r, TRUE) : t = CHOOSE u \in RefreshTimes(r, TRUE) : TRUE
    BY <2>1
  <2>3. t \in Times /\ (t # Never => t \in Nat /\ t >= Spacing /\ t <= interval[r])
    BY DueLater DEF Init
  <2>4. cache[r] = [value |-> 0, refreshIn |-> t, age |-> 0]
    BY <2>2 DEF Init
  <2>5. 0 \in Values /\ 0 \in 0..MinimumSecretRefreshInterval + 1
    BY Bounds DEF Values
  <2>6. cache[r] = entry(r)
    BY DEF Init
  <2>7. cache[r] \in Entries
    BY <2>3, <2>4, <2>5 DEF Entries
  <2>8. cache[r].refreshIn = t
    BY <2>4
  <2> HIDE DEF entry
  <2> QED
    BY <2>3, <2>6, <2>7, <2>8
<1>2. cache \in [Refs -> Entries \cup {Absent}]
  <2>1. cache = [r \in Refs |-> entry(r)]
    BY DEF Init
  <2> HIDE DEF entry
  <2> QED
    BY <1>1, <2>1
<1>3. TypeOK
  <2>1. 0 \in 0..MaxRotations /\ 0 \in 0..MaxFaults /\ 0 \in 0..Spacing /\ 0 \in Values
    BY Bounds DEF Values
  <2>2. vault \in [Refs -> 0..MaxRotations] /\ data \in [Refs -> Values]
        /\ published \in [Refs -> Values] /\ sinceAsked \in [Refs -> 0..Spacing]
    BY <2>1 DEF Init
  <2>3. Limited
    BY <1>1 DEF Limited, Cached
  <2> QED
    BY <1>2, <2>1, <2>2, <2>3 DEF Init, TypeOK
<1>4. Fetched
  BY DEF Init, Fetched
<1>5. Spaced
  <2> SUFFICES ASSUME NEW r \in Refs PROVE r \in Cached /\ Recent(r)
    BY DEF Spaced
  <2>1. r \in Cached
    BY <1>1, EntryType DEF Cached
  <2>2. cache[r].age = 0 /\ sinceAsked[r] = 0
    BY <1>1 DEF Init
  <2> DEFINE t == cache[r].refreshIn
  <2>3. t # Never => t \in Nat /\ t >= Spacing
    BY <1>1
  <2> HIDE DEF t
  <2>4. t # Never => 0 + t >= Spacing
    BY <2>3, Bounds
  <2> QED
    BY <2>1, <2>2, <2>4 DEF Recent, t
<1> QED
  BY <1>3, <1>4, <1>5 DEF IInv

\* What a step that leaves the entry, the request and the time of a reference alone keeps.
LEMMA PrepareType ==
  ASSUME TypeOK, Prepare
  PROVE  /\ parallel' \in BOOLEAN /\ interval' \in Intervals
         /\ vault' \in [Refs -> 0..MaxRotations] /\ faults' \in 0..MaxFaults
         /\ pc' \in {"idle", "preload", "process"}
         /\ todo' \subseteq Refs /\ fetching' \subseteq Refs /\ thrown' \in BOOLEAN
         /\ data' \in [Refs -> Values] /\ published' \in [Refs -> Values]
         /\ Fetched'
<1>1. data' \in [Refs -> Values]
  BY DEF Prepare, Values
<1>2. Fetched'
  BY DEF Prepare, Fetched
<1> QED
  BY <1>1, <1>2 DEF TypeOK, Prepare, options

LEMMA RefreshChangesKeeps == IInv /\ RefreshChanges => IInv'
<1> SUFFICES ASSUME IInv, RefreshChanges PROVE IInv'
  OBVIOUS
<1> USE DEF IInv
<1>1. PICK S \in SUBSET Refs :
        /\ cache' = [r \in Refs |-> IF r \in S THEN Absent ELSE cache[r]]
        /\ sinceAsked' = [r \in Refs |-> IF r \in S THEN Spacing ELSE sinceAsked[r]]
  BY DEF RefreshChanges
<1>2. cache' \in [Refs -> Entries \cup {Absent}]
  BY <1>1 DEF TypeOK
<1>3. sinceAsked' \in [Refs -> 0..Spacing]
  <2>1. Spacing \in 0..Spacing
    BY Bounds
  <2> QED
    BY <1>1, <2>1 DEF TypeOK
<1>4. Limited'
  BY <1>1 DEF RefreshChanges, Prepare, options, Limited, Cached, TypeOK
<1>5. TypeOK' /\ Fetched'
  BY <1>2, <1>3, <1>4, PrepareType DEF RefreshChanges, TypeOK
<1>6. Spaced'
  <2> SUFFICES ASSUME NEW r \in Refs, r \notin S
               PROVE  sinceAsked'[r] = Spacing \/ (r \in Cached' /\ Recent(r)')
    BY <1>1 DEF Spaced
  <2>1. cache'[r] = cache[r] /\ sinceAsked'[r] = sinceAsked[r]
    BY <1>1
  <2>2. r \notin fetching
    BY DEF Fetched, RefreshChanges
  <2> QED
    BY <2>1, <2>2 DEF Spaced, Cached, Recent
<1> QED
  BY <1>5, <1>6

LEMMA RefreshAllKeeps == IInv /\ RefreshAll => IInv'
<1> SUFFICES ASSUME IInv, RefreshAll PROVE IInv'
  OBVIOUS
<1> USE DEF IInv
<1>1. cache' = ClearedCache /\ sinceAsked' = sinceAsked
  BY DEF RefreshAll
<1>2. cache' \in [Refs -> Entries \cup {Absent}]
  BY <1>1 DEF ClearedCache, TypeOK
<1>3. Limited'
  BY <1>1 DEF RefreshAll, Prepare, options, ClearedCache, Limited, Cached, TypeOK
<1>4. TypeOK' /\ Fetched'
  BY <1>1, <1>2, <1>3, PrepareType DEF RefreshAll, TypeOK
<1>5. Spaced'
  <2> SUFFICES ASSUME NEW r \in Refs, sinceAsked[r] # Spacing
               PROVE  r \in Cached' /\ Recent(r)'
    BY <1>1 DEF Spaced
  <2>1. r \in Cached /\ Recent(r)
    BY DEF Spaced, Fetched, RefreshAll
  <2>2. cache[r] \in Entries /\ sinceAsked[r] \in 0..Spacing
    BY <2>1, CacheType
  <2>3. cache[r].age <= MinimumSecretRefreshInterval
    BY <2>1, <2>2, EntryType, Bounds DEF Recent
  <2>4. cache'[r] = cache[r]
    BY <1>1, <2>1, <2>3 DEF ClearedCache
  <2> QED
    BY <1>1, <2>1, <2>4 DEF Cached, Recent
<1> QED
  BY <1>4, <1>5

LEMMA RefreshSecretsKeeps == IInv /\ RefreshSecrets => IInv'
<1> SUFFICES ASSUME IInv, RefreshSecrets PROVE IInv'
  OBVIOUS
<1> USE DEF IInv
<1>1. Limited'
  BY DEF RefreshSecrets, Prepare, options, Limited, Cached, TypeOK
<1>2. TypeOK' /\ Fetched'
  BY <1>1, PrepareType DEF RefreshSecrets, TypeOK
<1>3. Spaced'
  BY DEF RefreshSecrets, Fetched, Spaced, Cached, Recent
<1> QED
  BY <1>2, <1>3

LEMMA StoreType ==
  ASSUME TypeOK, NEW r \in Refs, NEW v \in Values, Store(r, v) PROVE data' \in [Refs -> Values]
BY DEF TypeOK, Store

LEMMA LookupKeeps == ASSUME IInv, NEW q \in Refs, Lookup(q) PROVE IInv'
<1> USE DEF IInv
<1>1. CASE Hit(q)
  <2>1. fetching' = fetching /\ sinceAsked' = sinceAsked /\ cache' = cache
    BY <1>1 DEF Lookup
  <2>2. cache[q].value \in Values
    BY <1>1, CacheType, EntryType DEF Hit
  <2>3. data' \in [Refs -> Values]
    BY <1>1, <2>2, StoreType DEF Lookup
  <2>4. TypeOK'
    BY <2>1, <2>3 DEF Lookup, options, Limited, Cached, TypeOK
  <2>5. Fetched'
    BY <2>1 DEF Lookup, Fetched
  <2>6. Spaced'
    BY <2>1 DEF Spaced, Cached, Recent
  <2> QED
    BY <2>4, <2>5, <2>6
<1>2. CASE ~Hit(q)
  <2>1. /\ fetching' = fetching \cup {q} /\ cache' = cache /\ data' = data
        /\ sinceAsked' = [sinceAsked EXCEPT ![q] = 0]
    BY <1>2 DEF Lookup
  <2>2. sinceAsked' \in [Refs -> 0..Spacing]
    <3>1. 0 \in 0..Spacing
      BY Bounds
    <3> QED
      BY <2>1, <3>1 DEF TypeOK
  <2>3. TypeOK'
    BY <2>1, <2>2 DEF Lookup, options, Limited, Cached, TypeOK
  <2>4. Fetched'
    BY <2>1 DEF Lookup, Fetched
  <2>5. Spaced'
    <3> SUFFICES ASSUME NEW r \in Refs, r # q
                 PROVE  r \in fetching' \/ sinceAsked'[r] = Spacing \/ (r \in Cached' /\ Recent(r)')
      BY <2>1 DEF Spaced
    <3>1. sinceAsked'[r] = sinceAsked[r]
      BY <2>1 DEF TypeOK
    <3> QED
      BY <2>1, <3>1 DEF Spaced, Cached, Recent
  <2> QED
    BY <2>3, <2>4, <2>5
<1> QED
  BY <1>1, <1>2

\* A new entry is young and not due.
LEMMA SetSecretInCacheKeeps ==
  ASSUME IInv, NEW q \in Refs, NEW v \in Values, NEW success \in BOOLEAN,
         SetSecretInCache(q, v, success), fetching' = fetching \ {q}, sinceAsked' = sinceAsked,
         interval' = interval
  PROVE  cache' \in [Refs -> Entries \cup {Absent}] /\ Limited' /\ Spaced'
<1> USE DEF IInv
<1>1. PICK t \in RefreshTimes(q, success) :
        cache' = [cache EXCEPT ![q] = [value |-> v, refreshIn |-> t, age |-> 0]]
  BY DEF SetSecretInCache
<1>2. t \in Times /\ (t # Never => t \in Nat /\ t >= Spacing /\ t <= interval[q])
  BY DueLater DEF TypeOK
<1> DEFINE entry == [value |-> v, refreshIn |-> t, age |-> 0]
<1>3. entry \in Entries /\ entry.age = 0 /\ entry.refreshIn = t
  <2>1. 0 \in 0..MinimumSecretRefreshInterval + 1
    BY Bounds
  <2> QED
    BY <1>2, <2>1 DEF Entries
<1> HIDE DEF entry
<1>4. cache' = [cache EXCEPT ![q] = entry] /\ cache \in [Refs -> Entries \cup {Absent}]
  BY <1>1 DEF entry, TypeOK
<1>5. cache' \in [Refs -> Entries \cup {Absent}]
  BY <1>3, <1>4
<1>6. Limited'
  <2> SUFFICES ASSUME NEW r \in Cached', cache'[r].refreshIn # Never
               PROVE  cache'[r].refreshIn <= interval[r]
    BY DEF Limited
  <2>1. CASE r = q
    BY <1>2, <1>3, <1>4, <2>1
  <2>2. CASE r # q
    BY <1>4, <2>2 DEF TypeOK, Limited, Cached
  <2> QED
    BY <2>1, <2>2
<1>7. Spaced'
  <2> SUFFICES ASSUME NEW r \in Refs
               PROVE  r \in fetching' \/ sinceAsked'[r] = Spacing \/ (r \in Cached' /\ Recent(r)')
    BY DEF Spaced
  <2>1. CASE r = q
    <3>1. cache'[r] = entry
      BY <1>4, <2>1
    <3>2. r \in Cached'
      BY <1>3, <3>1, EntryType DEF Cached
    <3>3. sinceAsked'[r] \in 0..Spacing
      BY CacheType
    <3>4. sinceAsked'[r] >= cache'[r].age
      BY <1>3, <3>1, <3>3, Bounds
    <3>5. cache'[r].refreshIn # Never => sinceAsked'[r] + cache'[r].refreshIn >= Spacing
      BY <1>2, <1>3, <3>1, <3>3, Bounds
    <3> QED
      BY <3>2, <3>4, <3>5 DEF Recent
  <2>2. CASE r # q
    <3>1. cache'[r] = cache[r]
      BY <1>4, <2>2
    <3> QED
      BY <2>2, <3>1 DEF Spaced, Cached, Recent
  <2> QED
    BY <2>1, <2>2
<1> QED
  BY <1>5, <1>7, <1>6

LEMMA ResolveKeeps == ASSUME IInv, NEW q \in Refs, Resolve(q) PROVE IInv'
<1> USE DEF IInv
<1>1. vault[q] \in Values
  BY DEF TypeOK, Values
<1>2. cache' \in [Refs -> Entries \cup {Absent}] /\ Limited' /\ Spaced'
  BY <1>1, SetSecretInCacheKeeps DEF options, Resolve
<1>3. data' \in [Refs -> Values]
  BY <1>1, StoreType DEF Resolve
<1>4. TypeOK'
  BY <1>2, <1>3 DEF Resolve, options, TypeOK
<1>5. Fetched'
  BY DEF Resolve, Fetched
<1> QED
  BY <1>2, <1>4, <1>5

LEMMA ResolveFailsKeeps == ASSUME IInv, NEW q \in Refs, ResolveFails(q) PROVE IInv'
<1> USE DEF IInv
<1>1. Null \in Values
  BY DEF Values
<1>2. cache' \in [Refs -> Entries \cup {Absent}] /\ Limited' /\ Spaced'
  BY <1>1, SetSecretInCacheKeeps DEF options, ResolveFails
<1>3. faults' \in 0..MaxFaults
  BY Bounds DEF ResolveFails, TypeOK
<1>4. TypeOK'
  BY <1>2, <1>3 DEF ResolveFails, options, TypeOK
<1>5. Fetched'
  BY DEF ResolveFails, Fetched
<1> QED
  BY <1>2, <1>4, <1>5

LEMMA PhaseKeeps == IInv /\ (PrepareThrows \/ Process \/ SetData) => IInv'
<1> SUFFICES ASSUME IInv, PrepareThrows \/ Process \/ SetData PROVE IInv'
  OBVIOUS
<1> USE DEF IInv
<1>1. fetching' = fetching /\ sinceAsked' = sinceAsked /\ cache' = cache
  BY DEF PrepareThrows, Process, SetData
<1>2. TypeOK'
  BY DEF PrepareThrows, Process, SetData, options, Limited, Cached, TypeOK
<1>3. Fetched'
  BY DEF PrepareThrows, Process, SetData, PhaseEnds, Fetched
<1>4. Spaced'
  BY <1>1 DEF Spaced, Cached, Recent
<1> QED
  BY <1>2, <1>3, <1>4

LEMMA RotateKeeps == ASSUME IInv, NEW q \in Refs, Rotate(q) PROVE IInv'
<1> USE DEF IInv
<1>1. vault' \in [Refs -> 0..MaxRotations]
  <2>1. vault \in [Refs -> 0..MaxRotations] /\ vault' = [vault EXCEPT ![q] = vault[q] + 1]
    BY DEF Rotate, TypeOK
  <2>2. vault[q] + 1 \in 0..MaxRotations
    BY <2>1, Bounds DEF Rotate
  <2> QED
    BY <2>1, <2>2
<1>2. TypeOK'
  BY <1>1 DEF Rotate, options, Limited, Cached, TypeOK
<1>3. Fetched' /\ Spaced'
  BY DEF Rotate, Fetched, Spaced, Cached, Recent
<1> QED
  BY <1>2, <1>3

LEMMA TickKeeps == IInv /\ Tick => IInv'
<1> SUFFICES ASSUME IInv, Tick PROVE IInv'
  OBVIOUS
<1> USE DEF IInv
<1>1. /\ cache' = [r \in Refs |-> IF r \in Cached THEN Aged(cache[r]) ELSE Absent]
      /\ sinceAsked' = [r \in Refs |-> AtMost(sinceAsked[r] + 1, Spacing)]
  BY DEF Tick
<1>2. cache' \in [Refs -> Entries \cup {Absent}]
  BY <1>1, CacheType, AgedType
<1>3. \A t \in 0..Spacing : AtMost(t + 1, Spacing) \in 0..Spacing
  BY Bounds DEF AtMost
<1>4. sinceAsked' \in [Refs -> 0..Spacing]
  BY <1>1, <1>3 DEF TypeOK
<1>5. Limited'
  <2> SUFFICES ASSUME NEW r \in Cached', cache'[r].refreshIn # Never
               PROVE  cache'[r].refreshIn <= interval[r]
    BY DEF Limited, Tick, options
  <2>1. r \in Cached /\ r \in Refs /\ cache'[r] = Aged(cache[r]) /\ cache[r] \in Entries
    BY <1>1, CacheType DEF Cached
  <2>2. cache'[r].refreshIn = IF cache[r].refreshIn = Never \/ cache[r].refreshIn < 0
                              THEN cache[r].refreshIn ELSE cache[r].refreshIn - 1
    BY <2>1, AgedType
  <2>3. cache[r].refreshIn # Never
    BY <2>2
  <2>4. cache[r].refreshIn \in Int /\ cache[r].refreshIn <= interval[r] /\ interval[r] \in Nat
    BY <2>1, <2>3, EntryType, SecretCacheAssumption DEF Limited, Times, TypeOK
  <2> QED
    BY <2>2, <2>4
<1>6. TypeOK'
  BY <1>2, <1>4, <1>5 DEF Tick, options, TypeOK
<1>7. Fetched'
  BY DEF Tick, Fetched
<1>8. Spaced'
  <2> SUFFICES ASSUME NEW r \in Refs, r \notin fetching, sinceAsked'[r] # Spacing
               PROVE  r \in Cached' /\ Recent(r)'
    BY DEF Tick, Spaced
  <2> DEFINE t == sinceAsked[r]
  <2>1. t \in 0..Spacing /\ sinceAsked'[r] = AtMost(t + 1, Spacing)
    BY <1>1, CacheType
  <2>2. t # Spacing /\ sinceAsked'[r] = t + 1 /\ t \in Nat /\ t < Spacing
    BY <2>1, Bounds DEF AtMost
  <2>3. r \in Cached /\ Recent(r)
    BY <2>2 DEF Spaced
  <2>4. cache[r] \in Entries /\ cache'[r] = Aged(cache[r])
    BY <1>1, <2>3, CacheType
  <2> DEFINE c == cache[r]
             a == cache'[r]
  <2>5. /\ a \in Entries /\ a.age <= c.age + 1
        /\ a.refreshIn = IF c.refreshIn = Never \/ c.refreshIn < 0 THEN c.refreshIn ELSE c.refreshIn - 1
    BY <2>4, AgedType
  <2>6. t >= c.age /\ (c.refreshIn # Never => t + c.refreshIn >= Spacing)
    BY <2>3 DEF Recent
  <2>7. c.age \in Nat /\ a.age \in Nat /\ c.refreshIn \in Times
    BY <2>4, <2>5, EntryType, Bounds
  <2> HIDE DEF t, c, a
  <2>8. t + 1 >= a.age
    BY <2>2, <2>5, <2>6, <2>7
  <2>9. a.refreshIn # Never => t + 1 + a.refreshIn >= Spacing
    <3> SUFFICES ASSUME a.refreshIn # Never PROVE t + 1 + a.refreshIn >= Spacing
      OBVIOUS
    <3>1. c.refreshIn # Never
      BY <2>5
    <3>2. c.refreshIn \in Int /\ t + c.refreshIn >= Spacing
      BY <2>6, <2>7, <3>1 DEF Times
    <3>3. c.refreshIn > 0
      BY <2>2, <3>2, Bounds
    <3> QED
      BY <2>2, <2>5, <3>1, <3>2, <3>3, Bounds
  <2>10. r \in Cached'
    BY <2>5, EntryType DEF Cached, a
  <2> QED
    BY <2>2, <2>8, <2>9, <2>10 DEF Recent, a, t
<1> QED
  BY <1>6, <1>7, <1>8

---------------------------------------------------------------------------
(* The theorems *)

LEMMA NextInvariant == IInv /\ [Next]_vars => IInv'
<1> SUFFICES ASSUME IInv, [Next]_vars PROVE IInv'
  OBVIOUS
<1>1. CASE Next
  BY <1>1, RefreshChangesKeeps, RefreshAllKeeps, RefreshSecretsKeeps, LookupKeeps, ResolveKeeps,
     ResolveFailsKeeps, PhaseKeeps, RotateKeeps, TickKeeps DEF Next, Refresh, Preparing
<1>2. CASE UNCHANGED vars
  BY <1>2 DEF vars, options, IInv, TypeOK, Limited, Fetched, Spaced, Cached, Recent
<1> QED
  BY <1>1, <1>2

LEMMA Invariant == Spec => []IInv
BY InitInvariant, NextInvariant, PTL DEF Spec

\* The cache holds entries, and only what Key Vault has had or null is ever published.
THEOREM TypeCorrect == Spec => []TypeOK
<1>1. IInv => TypeOK
  BY DEF IInv
<1> QED
  BY <1>1, Invariant, PTL

\* However often the configuration is reloaded or fails, Key Vault is asked for a
\* secret again only after a while, unless its reference changed.
THEOREM AskedNowAndThen == Spec => RequestsSpaced
<1> DEFINE Waits == \A r \in fetching' \ fetching : sinceAsked[r] = Spacing
<1>1. IInv /\ [Next]_vars => [Waits]_vars
  <2> SUFFICES ASSUME IInv, Next, NEW r \in fetching' \ fetching PROVE sinceAsked[r] = Spacing
    OBVIOUS
  <2> USE DEF IInv
  <2>1. Lookup(r) /\ r \in Refs /\ ~Hit(r)
    BY DEF Next, Refresh, RefreshChanges, RefreshAll, RefreshSecrets, Prepare, Preparing, Lookup,
           Resolve, ResolveFails, PrepareThrows, Process, SetData, Rotate, Tick
  <2>2. CASE r \in Cached
    <3>1. cache[r].refreshIn # Never /\ ~(cache[r].refreshIn > 0)
      BY <2>1, <2>2 DEF Hit
    <3>2. cache[r].refreshIn \in Int /\ sinceAsked[r] \in 0..Spacing
      BY <2>1, <2>2, <3>1, CacheType, EntryType DEF Times
    <3>3. sinceAsked[r] = Spacing \/ sinceAsked[r] + cache[r].refreshIn >= Spacing
      BY <2>1, <3>1 DEF Spaced, Recent
    <3> QED
      BY <3>1, <3>2, <3>3, Bounds
  <2>3. CASE r \notin Cached
    BY <2>1, <2>3 DEF Spaced
  <2> QED
    BY <2>2, <2>3
<1> QED
  BY <1>1, Invariant, PTL DEF Spec, RequestsSpaced
=============================================================================
