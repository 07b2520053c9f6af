---------------------------- MODULE SecretCache ----------------------------
(***************************************************************************)
(* Key Vault references: AzureKeyVaultSecretProvider caches the secret of  *)
(* each reference, PrepareData resolves all of them and the result is      *)
(* published.  Times are what is left until they come.                     *)
(***************************************************************************)
EXTENDS Backoff, FiniteSets

CONSTANTS
    Refs,               \* the references selected, each to a secret of its own
    Intervals,          \* their refresh intervals, 0 without one: what may be configured
    MinBackoff, MaxBackoff,         \* RefreshConstants.DefaultMinBackoff, ..MaxBackoff
    MinimumSecretRefreshInterval,
    MaxParallel,        \* MaxParallelSecretResolution
    Null, Absent, Never,            \* null, no entry, RefreshAt without a value
    MaxRotations, MaxFaults         \* bounds: new secret versions, failed requests

Values  == 0..MaxRotations \cup {Null}
Times   == {t \in Int : t >= -1} \cup {Never}
Entries == [value : Values, refreshIn : Times, age : 0..MinimumSecretRefreshInterval + 1]

ASSUME SecretCacheAssumption ==
    /\ Absent \notin Entries
    /\ Intervals \subseteq [Refs -> Nat]
    /\ {MinBackoff, MaxBackoff, MinimumSecretRefreshInterval, MaxParallel} \subseteq Nat \ {0}
    /\ \A f \in Intervals : \A r \in Refs : f[r] = 0 \/ f[r] >= MinimumSecretRefreshInterval
    /\ MaxRotations \in Nat /\ MaxFaults \in Nat

VARIABLES
    parallel,   \* IsParallelSecretResolutionEnabled
    interval,   \* SecretRefreshIntervals, DefaultSecretRefreshInterval
    vault,      \* Key Vault: the version of each secret
    faults,
    cache,      \* _cachedKeyVaultSecrets
    pc,         \* "idle", PreloadAsync: "preload", ProcessAdapters: "process"
    todo,       \* references not yet looked up in this phase
    fetching,   \* references whose secret is requested
    thrown,     \* a GetSecretValue of this phase threw
    data,       \* applicationData
    published,  \* Data
    sinceAsked  \* history: time since Key Vault was asked for the secret

options == <<parallel, interval>>
vars == <<options, vault, faults, cache, pc, todo, fetching, thrown, data, published, sinceAsked>>

Spacing == AtMost(MinBackoff, MinimumSecretRefreshInterval)

Cached == {r \in Refs : cache[r] # Absent}

\* TryGetValue, and RefreshAt is unset or in the future.
Hit(r) == r \in Cached /\ (cache[r].refreshIn = Never \/ cache[r].refreshIn > 0)

\* ShouldRefreshKeyVaultSecrets: a RefreshAt is in the past.
NeedsRefresh ==
    \E r \in Cached : cache[r].refreshIn # Never /\ cache[r].refreshIn < 0

\* Variants of RefreshTimes: a failed secret is not looked at again, or after a
\* backoff that the interval does not limit.
RefreshTimesOfSuccess(r, success) ==
    IF interval[r] = 0 \/ ~success THEN {Never} ELSE {interval[r]}

RefreshTimesUnlimited(r, success) ==
    IF interval[r] = 0 THEN {Never}
    ELSE IF success THEN {interval[r]}
    ELSE CalculateBackoffDuration(MinBackoff, MaxBackoff, 4)

\* UpdateCacheExpirationTimeForSecret: an entry is new, so that a failure is its
\* first attempt.
RefreshTimes(r, success) ==
    IF interval[r] = 0 THEN {Never}
    ELSE IF success THEN {interval[r]}
    ELSE CalculateBackoffTime(interval[r], MinBackoff, MaxBackoff, 1)

\* SetSecretInCache, after a failure too.
SetSecretInCache(r, value, success) ==
    \E t \in RefreshTimes(r, success) :
        cache' = [cache EXCEPT ![r] = [value |-> value, refreshIn |-> t, age |-> 0]]

\* ClearCache drops what was not loaded within the last minute.  A variant: everything.
ClearAll     == [r \in Refs |-> Absent]
ClearedCache == [r \in Refs |->
    IF r \in Cached /\ cache[r].age <= MinimumSecretRefreshInterval THEN cache[r] ELSE Absent]

Prepare ==
    /\ pc' = "preload" /\ todo' = Refs /\ fetching' = {} /\ thrown' = FALSE
    /\ data' = [r \in Refs |-> Null]
    /\ UNCHANGED <<options, vault, faults, published>>

\* RefreshAsync has loaded changes: some references changed, or none and other keys.
RefreshChanges ==
    /\ pc = "idle"
    /\ \E S \in SUBSET Refs :
          /\ cache' = [r \in Refs |-> IF r \in S THEN Absent ELSE cache[r]]
          /\ sinceAsked' = [r \in Refs |-> IF r \in S THEN Spacing ELSE sinceAsked[r]]
    /\ Prepare

\* RefreshAsync has loaded everything.
RefreshAll ==
    /\ pc = "idle"
    /\ cache' = ClearedCache
    /\ Prepare /\ UNCHANGED sinceAsked

\* Nothing changed in the store, but a secret is due.
RefreshSecrets ==
    /\ pc = "idle" /\ NeedsRefresh
    /\ Prepare /\ UNCHANGED <<cache, sinceAsked>>

\* GetSecretValue up to its request.  One after the other, or up to MaxParallel at
\* once; only PreloadAsync works in parallel, and only there others go on after a
\* failure.
Turn ==
    IF parallel /\ pc = "preload" THEN Cardinality(fetching) < MaxParallel
    ELSE fetching = {} /\ ~thrown

Store(r, value) ==
    data' = IF pc = "process" THEN [data EXCEPT ![r] = value] ELSE data

Lookup(r) ==
    /\ pc # "idle" /\ r \in todo /\ Turn
    /\ todo' = todo \ {r}
    /\ IF Hit(r)
       THEN Store(r, cache[r].value) /\ UNCHANGED <<fetching, sinceAsked>>
       ELSE /\ fetching' = fetching \cup {r}
            /\ sinceAsked' = [sinceAsked EXCEPT ![r] = 0]
            /\ UNCHANGED data
    /\ UNCHANGED <<options, vault, faults, cache, pc, thrown, published>>

\* Key Vault answers.
Resolve(r) ==
    /\ r \in fetching
    /\ fetching' = fetching \ {r}
    /\ SetSecretInCache(r, vault[r], TRUE)
    /\ Store(r, vault[r])
    /\ UNCHANGED <<options, vault, faults, pc, todo, thrown, published, sinceAsked>>

\* It does not: the finally block stores an entry without a value.
ResolveFails(r) ==
    /\ r \in fetching /\ faults < MaxFaults
    /\ faults' = faults + 1
    /\ fetching' = fetching \ {r}
    /\ SetSecretInCache(r, Null, FALSE)
    /\ thrown' = TRUE
    /\ UNCHANGED <<options, vault, pc, todo, data, published, sinceAsked>>

\* An exception leaves PrepareData, with all tasks of Task.WhenAll ended.
PrepareThrows ==
    /\ pc # "idle" /\ thrown /\ fetching = {}
    /\ parallel /\ pc = "preload" => todo = {}
    /\ pc' = "idle" /\ todo' = {} /\ thrown' = FALSE
    /\ UNCHANGED <<options, vault, faults, cache, fetching, data, published, sinceAsked>>

PhaseEnds == todo = {} /\ fetching = {} /\ ~thrown

Process ==
    /\ pc = "preload" /\ PhaseEnds
    /\ pc' = "process" /\ todo' = Refs
    /\ UNCHANGED <<options, vault, faults, cache, fetching, thrown, data, published, sinceAsked>>

SetData ==
    /\ pc = "process" /\ PhaseEnds
    /\ pc' = "idle" /\ published' = data
    /\ UNCHANGED <<options, vault, faults, cache, todo, fetching, thrown, data, sinceAsked>>

Rotate(r) ==
    /\ vault[r] < MaxRotations
    /\ vault' = [vault EXCEPT ![r] = @ + 1]
    /\ UNCHANGED <<options, faults, cache, pc, todo, fetching, thrown, data, published, sinceAsked>>

Aged(e) ==
    [e EXCEPT !.refreshIn = IF @ = Never \/ @ < 0 THEN @ ELSE @ - 1,
              !.age = AtMost(@ + 1, MinimumSecretRefreshInterval + 1)]

Tick ==
    /\ cache' = [r \in Refs |-> IF r \in Cached THEN Aged(cache[r]) ELSE Absent]
    /\ sinceAsked' = [r \in Refs |-> AtMost(sinceAsked[r] + 1, Spacing)]
    /\ UNCHANGED <<options, vault, faults, pc, todo, fetching, thrown, data, published>>

\* The initial load has resolved every reference.
Init ==
    /\ parallel \in BOOLEAN /\ interval \in Intervals
    /\ vault = [r \in Refs |-> 0] /\ faults = 0
    /\ cache = [r \in Refs |->
          [value |-> 0, refreshIn |-> CHOOSE t \in RefreshTimes(r, TRUE) : TRUE, age |-> 0]]
    /\ pc = "idle" /\ todo = {} /\ fetching = {} /\ thrown = FALSE
    /\ data = vault /\ published = vault
    /\ sinceAsked = [r \in Refs |-> 0]

Refresh   == RefreshChanges \/ RefreshAll \/ RefreshSecrets
Preparing == (\E r \in Refs : Lookup(r) \/ Resolve(r) \/ ResolveFails(r))
                \/ PrepareThrows \/ Process \/ SetData
Next == Refresh \/ Preparing \/ (\E r \in Refs : Rotate(r)) \/ Tick

Spec == Init /\ [][Next]_vars

\* The application keeps refreshing, requests end and time passes.
FairSpec == Spec /\ WF_vars(RefreshSecrets) /\ WF_vars(Preparing) /\ WF_vars(Tick)
---------------------------------------------------------------------------
\* A secret is looked at again within its interval, after a failure as well.
Limited ==
    \A r \in Cached : cache[r].refreshIn # Never => cache[r].refreshIn <= interval[r]

TypeOK ==
    /\ parallel \in BOOLEAN /\ interval \in Intervals
    /\ vault \in [Refs -> 0..MaxRotations] /\ faults \in 0..MaxFaults
    /\ cache \in [Refs -> Entries \cup {Absent}] /\ Limited
    /\ pc \in {"idle", "preload", "process"}
    /\ todo \subseteq Refs /\ fetching \subseteq Refs /\ thrown \in BOOLEAN
    /\ data \in [Refs -> Values] /\ published \in [Refs -> Values]
    /\ sinceAsked \in [Refs -> 0..Spacing]

\* However often the configuration is reloaded and requests fail, Key Vault is asked
\* for a secret again only after a while, unless its reference changed.
RequestsSpaced ==
    [][\A r \in fetching' \ fetching : sinceAsked[r] = Spacing]_vars

\* A secret with a refresh interval ends up published in its current version,
\* whatever failed before. Preloaded one after the other, it may be forgotten
\* behind a failing secret without an interval, which nothing makes due again.
SecretsFresh ==
    \A r \in Refs : <>[](interval[r] > 0 /\ (parallel \/ \A q \in Refs : interval[q] > 0)
                             => published[r] = vault[r])

\* A reference that cannot be resolved is an exception of RefreshAsync: what is
\* published for it is always a value of the secret.
NeverPublishedNull == \A r \in Refs : published[r] # Null
=============================================================================
