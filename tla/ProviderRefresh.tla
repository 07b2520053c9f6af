-------------------------- MODULE ProviderRefresh --------------------------
(***************************************************************************)
(* The refresh operation of AzureAppConfigurationProvider: callers of      *)
(* RefreshAsync compete for one gate; the winner checks what is registered *)
(* for refresh against the etags it recorded, loads what changed, replaces *)
(* the provider's state and publishes it as configuration data.  The store *)
(* changes, requests fail and push notifications arrive between any two    *)
(* requests.                                                               *)
(*                                                                         *)
(* A key-value is abstracted to the number of the write that produced it:  *)
(* its version is at once its value and its etag, and Absent is a          *)
(* key-value the store does not have.  One request is one step, and so is  *)
(* each turn of the unlocked loops that read and write the refresh times;  *)
(* the other code runs in the step of the request before it.               *)
(***************************************************************************)
EXTENDS Integers, Sequences, FiniteSets

CONSTANTS
    Items,            \* key-values of the store
    Selectors,        \* Selectors[n]: the items the n-th registered selector loads
    Listed,           \* Listed[n]: the items its change check lists (tag filters dropped)
    FfSelectors,      \* indices of the feature flag selectors
    Watched,          \* items registered one by one with ConfigureRefresh
    RefreshAll,       \* those registered with refreshAll: true
    RegisterAll,      \* whether RegisterAll() was called instead
    Callers,          \* threads that call RefreshAsync
    Clients,          \* number of endpoints one refresh may try
    SecretRefresh,    \* Key Vault secrets are used and have a refresh interval
    Removable,        \* items that may be deleted from the store
    MaxWrites, MaxPushes, MaxFaults, MaxPrepareFaults    \* bounds of a behaviour

Sel         == DOMAIN Selectors
KvSelectors == Sel \ FfSelectors
FfItems     == UNION {Selectors[n] : n \in FfSelectors}
KvItems     == UNION {Selectors[n] : n \in KvSelectors}

ASSUME SelectorsAssumption ==
    /\ Selectors \in Seq(SUBSET Items) /\ Selectors # <<>>
    /\ Listed \in [Sel -> SUBSET Items]
    /\ \A n \in Sel : Selectors[n] \subseteq Listed[n]
    /\ FfSelectors \subseteq Sel

\* RegisterAll() and Register(key) exclude one another (ConfigureRefresh throws).
ASSUME WatchedAssumption ==
    /\ Watched \subseteq Items
    /\ RefreshAll \subseteq Watched
    /\ RegisterAll \in BOOLEAN
    /\ RegisterAll => Watched = {}

\* Feature flags are loaded by feature flag selectors only.
ASSUME FlagsApart == FfItems \cap (KvItems \cup Watched) = {}

ASSUME BoundsAssumption ==
    /\ Clients \in Nat \ {0}
    /\ SecretRefresh \in BOOLEAN
    /\ Removable \subseteq Items
    /\ {MaxWrites, MaxPushes, MaxFaults, MaxPrepareFaults} \subseteq Nat

Absent  == 0
Version == Nat
Content == [Items -> Version]
Nothing == [i \in Items |-> Absent]

\* One NextRefreshTime per watcher, and _nextCollectionRefreshTime.
KvTimer(w) == <<"kv", w>>
FfTimer(n) == <<"ff", n>>
AllTimer   == <<"all", 0>>
KvTimers   == {KvTimer(w) : w \in Watched}
FfTimers   == {FfTimer(n) : n \in FfSelectors}
Timers     == KvTimers \cup FfTimers \cup (IF RegisterAll THEN {AllTimer} ELSE {})

\* What a watcher is about, and everything some watcher is about.
Scope(t) == CASE t[1] = "kv" -> {t[2]}
              [] t[1] = "ff" -> Selectors[t[2]]
              [] OTHER       -> KvItems
Tracked  == Watched \cup FfItems \cup (IF RegisterAll THEN KvItems ELSE {})

VARIABLES
    store, writes,      \* the App Configuration store, and how often it was written
    loaded, mapped,     \* _mappedData # null, _mappedData
    newest,             \* history: the latest version of each item that was in it
    watchedKvs,         \* _watchedIndividualKvs: the etag recorded for each watched item
    etags,              \* _kvEtags and _ffEtags: the page recorded for each selector
    ffKeys,             \* _ffKeys
    published,          \* Data, what the application reads
    timer,              \* "waiting" for the interval, "dirty" by a push, or "due"
    initDue,            \* InitializationCacheExpires has passed
    secretTimer,        \* whether some cached secret has a RefreshAt: "none", "armed", "due"
    gate,               \* _networkOperationsInProgress
    pc, loc,            \* control point and local variables of each caller
    pushes, faults, prepareFaults,    \* what is bounded
    notified            \* history: what the last push to each watcher was about, the
                        \* version of each of its items, Absent once the item is deleted

service  == <<store, writes, notified>>
clocks   == <<timer, initDue, secretTimer>>
provider == <<loaded, mapped, newest, watchedKvs, etags, ffKeys>>
bounded  == <<pushes, faults, prepareFaults>>
vars     == <<service, provider, published, clocks, gate, pc, loc, bounded>>

---------------------------------------------------------------------------
(* Locals of RefreshAsync and InitializeAsync.  elig are the watchers with *)
(* NextRefreshTime <= utcNow: the code re-evaluates that lazy filter at    *)
(* every use, against the utcNow it captured once.  In the end elig is     *)
(* what is still to be set waiting.                                        *)

Points == {"idle", "decide", "check", "load", "watch", "apply", "prepare"}

Locals == [elig: SUBSET Timers, attempt: 0..Clients, init: BOOLEAN,
           late: SUBSET Timers,        \* a watcher found due just before a push reached it
           full: BOOLEAN,              \* refreshAll, or the initial load
           changed: BOOLEAN,           \* keyValueChanges.Any() or ffCollectionUpdated
           kvs: SUBSET Watched,        \* watchers still to visit
           cols: SUBSET Sel,           \* key-value selectors still to check
           ffs: SUBSET FfSelectors,    \* feature flag selectors still to check
           todo: SUBSET Sel,           \* selectors still to load
           data: Content, pages: [Sel -> Content], keys: SUBSET Items,
           watched: [Watched -> Version]]

Blank == [elig |-> {}, attempt |-> 0, init |-> FALSE, late |-> {}, full |-> FALSE,
          changed |-> FALSE, kvs |-> {}, cols |-> {}, ffs |-> {}, todo |-> {},
          data |-> Nothing, pages |-> [n \in Sel |-> Nothing], keys |-> {},
          watched |-> [w \in Watched |-> Absent]]

\* The locals with which the refresh lambda starts on its k-th client.
Attempt(k, elig) ==
    [Blank EXCEPT !.elig = elig, !.attempt = k, !.kvs = Watched,
                  !.cols = IF AllTimer \in elig THEN KvSelectors ELSE {},
                  !.ffs = FfSelectors, !.pages = etags, !.watched = watchedKvs]

\* The page of selector n when it lists the items S of content s.
Page(s, S) == [i \in Items |-> IF i \in S THEN s[i] ELSE Absent]

\* A variant of HaveCollectionsChanged: its listing has no filter at all.
ListingChanged(n) == Page(store, KvItems) # etags[n]

\* client.HaveCollectionsChanged: the listing differs from the recorded etags.
HaveCollectionsChanged(n) == Page(store, Listed[n]) # etags[n]

Goto(c, label) == pc' = [pc EXCEPT ![c] = label]
Local(c, l)    == loc' = [loc EXCEPT ![c] = l]

\* The finally block that opens the gate.
Leave(c) == gate' = 0 /\ Goto(c, "idle") /\ Local(c, Blank)

\* Which of the watchers, collections and flags the lambda still has to check.
WatchersLeft(c)    == {w \in loc[c].kvs : KvTimer(w) \in loc[c].elig \cup loc[c].late}
FlagsLeft(c)       == {n \in loc[c].ffs : FfTimer(n) \in loc[c].elig \cup loc[c].late}
ChecksBeforeFlags(c) == WatchersLeft(c) = {} /\ loc[c].cols = {}

\* LoadSelected is called on selectors S, with new dictionaries; the checks are over.
BeginLoad(c, S, full, l) ==
    /\ Local(c, [l EXCEPT !.todo = S, !.full = full, !.data = Nothing,
                          !.kvs = {}, !.cols = {}, !.ffs = {}])
    /\ Goto(c, "load")

---------------------------------------------------------------------------
(* The store and the clock *)

Write(i) ==
    /\ writes < MaxWrites
    /\ writes' = writes + 1
    /\ store' = [store EXCEPT ![i] = writes + 1]
    /\ UNCHANGED <<provider, published, clocks, gate, pc, loc, bounded, notified>>

Remove(i) ==
    /\ writes < MaxWrites /\ i \in Removable /\ store[i] # Absent
    /\ writes' = writes + 1
    /\ store' = [store EXCEPT ![i] = Absent]
    /\ notified' = [t \in Timers |-> [notified[t] EXCEPT ![i] = Absent]]
    /\ UNCHANGED <<provider, published, clocks, gate, pc, loc, bounded>>

Expire(t) ==
    /\ timer[t] # "due"
    /\ timer' = [timer EXCEPT ![t] = "due"]
    /\ UNCHANGED <<service, provider, published, initDue, secretTimer, gate, pc, loc, bounded>>

ExpireInit ==
    /\ ~initDue /\ initDue' = TRUE
    /\ UNCHANGED <<service, provider, published, timer, secretTimer, gate, pc, loc, bounded>>

ExpireSecret ==
    /\ secretTimer = "armed" /\ secretTimer' = "due"
    /\ UNCHANGED <<service, provider, published, timer, initDue, gate, pc, loc, bounded>>

\* Whether the loop that sets watchers waiting visits all, whatever their time is.
VisitsAll(c) == pc[c] = "prepare" /\ loc[c].full

\* Which timers of S are visited first: the watched items are enumerated before the
\* flags, and _nextCollectionRefreshTime is set after the loop.
First(S) == CASE S \cap KvTimers # {} -> S \cap KvTimers
              [] S \cap FfTimers # {} -> S \cap FfTimers
              [] OTHER -> S

\* The watchers that the loop under way may just have found due.
Turns(c) ==
    CASE pc[c] = "check" /\ WatchersLeft(c) # {}  -> {KvTimer(w) : w \in WatchersLeft(c)}
      [] pc[c] = "check" /\ ChecksBeforeFlags(c)  -> {FfTimer(n) : n \in FlagsLeft(c)}
      [] pc[c] = "prepare" /\ ~VisitsAll(c)       -> First(loc[c].elig) \ {AllTimer}
      [] OTHER -> {}

\* A variant of SetDirty: a refresh under way still sees the watchers it found due.
SetDirtyOutsideFilter(t) ==
    /\ pushes < MaxPushes /\ pushes' = pushes + 1
    /\ timer' = [timer EXCEPT ![t] = "dirty"]
    /\ notified' = [notified EXCEPT ![t] = Page(store, Scope(t))]
    /\ UNCHANGED <<store, writes, provider, published, initDue, secretTimer, gate, pc, loc,
                   faults, prepareFaults>>

\* One watcher's turn in SetDirty, on behalf of a push: no gate, at any moment. The new
\* time is later than the utcNow of a refresh under way, which no longer sees the
\* watcher, unless its loop has just found it due; isRefreshDue was read already.
SetDirty(t) ==
    /\ pushes < MaxPushes /\ pushes' = pushes + 1
    /\ timer' = [timer EXCEPT ![t] = "dirty"]
    /\ notified' = [notified EXCEPT ![t] = Page(store, Scope(t))]
    /\ \E late \in SUBSET {t} :
         loc' = [c \in Callers |->
                   IF t = AllTimer \/ VisitsAll(c) THEN loc[c]
                   ELSE [loc[c] EXCEPT !.elig = @ \ {t},
                                       !.late = IF @ = {} THEN late \cap Turns(c) ELSE @]]
    /\ UNCHANGED <<store, writes, provider, published, initDue, secretTimer, gate, pc,
                   faults, prepareFaults>>

---------------------------------------------------------------------------
(* RefreshAsync *)

\* Variants of Exchange: the gate counts, or its old value is not looked at.
ExchangeByIncrement(c) ==
    /\ pc[c] = "idle"
    /\ gate' = gate + 1
    /\ Goto(c, IF gate = 0 THEN "decide" ELSE "idle")
    /\ UNCHANGED <<service, provider, published, clocks, loc, bounded>>

ExchangeIgnored(c) ==
    /\ pc[c] = "idle"
    /\ gate' = 1
    /\ Goto(c, "decide")
    /\ UNCHANGED <<service, provider, published, clocks, loc, bounded>>

\* Interlocked.Exchange: the caller that finds 0 goes on, any other returns.
Exchange(c) ==
    /\ pc[c] = "idle"
    /\ gate' = 1
    /\ Goto(c, IF gate = 0 THEN "decide" ELSE "idle")
    /\ UNCHANGED <<service, provider, published, clocks, loc, bounded>>

Due == {t \in Timers : timer[t] = "due"}

\* The data is loaded and nothing is refreshable.
NothingDue(c) ==
    /\ pc[c] = "decide"
    /\ loaded /\ Due = {} /\ secretTimer # "due"
    /\ Leave(c)
    /\ UNCHANGED <<service, provider, published, clocks, bounded>>

\* Every endpoint is backing off after earlier failures.
NoClientAvailable(c) ==
    /\ pc[c] = "decide"
    /\ ~loaded \/ Due # {} \/ secretTimer = "due"
    /\ faults < MaxFaults /\ faults' = faults + 1
    /\ Leave(c)
    /\ UNCHANGED <<service, provider, published, clocks, pushes, prepareFaults>>

\* The initial load failed less than MinRefreshInterval ago.
InitThrottled(c) ==
    /\ pc[c] = "decide" /\ ~loaded /\ ~initDue
    /\ Leave(c)
    /\ UNCHANGED <<service, provider, published, clocks, bounded>>

BeginInitialize(c) ==
    /\ pc[c] = "decide" /\ ~loaded /\ initDue
    /\ initDue' = FALSE
    /\ BeginLoad(c, Sel, TRUE, [Blank EXCEPT !.attempt = 1, !.init = TRUE])
    /\ UNCHANGED <<service, provider, published, timer, secretTimer, gate, bounded>>

BeginRefresh(c) ==
    /\ pc[c] = "decide" /\ loaded
    /\ Due # {} \/ secretTimer = "due"
    /\ Local(c, Attempt(1, Due))
    /\ Goto(c, "check")
    /\ UNCHANGED <<service, provider, published, clocks, gate, bounded>>

\* One turn of RefreshIndividualKvWatchers: a change is remembered, and one of a
\* refreshAll item ends the loop and loads everything.
CheckWatcher(c, w) ==
    /\ pc[c] = "check" /\ w \in WatchersLeft(c) /\ loc[c].late \subseteq {KvTimer(w)}
    /\ LET l == [loc[c] EXCEPT !.kvs = @ \ {w}, !.late = {}, !.watched[w] = store[w]]
       IN  IF store[w] # watchedKvs[w] /\ w \in RefreshAll
           THEN BeginLoad(c, Sel, TRUE, l)
           ELSE Local(c, l) /\ UNCHANGED pc
    /\ UNCHANGED <<service, provider, published, clocks, gate, bounded>>

\* One turn of HaveCollectionsChanged over the key-value selectors.
CheckCollection(c, n) ==
    /\ pc[c] = "check" /\ n \in loc[c].cols
    /\ IF HaveCollectionsChanged(n)
       THEN BeginLoad(c, Sel, TRUE, loc[c])
       ELSE Local(c, [loc[c] EXCEPT !.cols = @ \ {n}]) /\ UNCHANGED pc
    /\ UNCHANGED <<service, provider, published, clocks, gate, bounded>>

\* The same over the refreshable feature flag watchers: only flags are loaded.
CheckFlags(c, n) ==
    /\ pc[c] = "check" /\ ChecksBeforeFlags(c)
    /\ n \in FlagsLeft(c) /\ loc[c].late \subseteq {FfTimer(n)}
    /\ LET l == [loc[c] EXCEPT !.ffs = @ \ {n}, !.late = {}]
       IN  IF HaveCollectionsChanged(n)
           THEN BeginLoad(c, FfSelectors, FALSE, l)
           ELSE Local(c, l) /\ UNCHANGED pc
    /\ UNCHANGED <<service, provider, published, clocks, gate, bounded>>

\* data[setting.Key] = setting for every setting of the page.
Overwrite(data, page) == [i \in Items |-> IF page[i] # Absent THEN page[i] ELSE data[i]]

\* A variant of NotLoaded: every watched item is requested, loaded or not.
LoadedOrNot(data) == Watched

\* The watched items that no selector loaded.
NotLoaded(data) == {w \in Watched : data[w] = Absent}

\* One selector of LoadSelected, in the order of registration.
LoadSelector(c, n) ==
    /\ pc[c] = "load"
    /\ n \in loc[c].todo /\ \A m \in loc[c].todo : n <= m
    /\ LET page == Page(store, Selectors[n])
           l    == [loc[c] EXCEPT
                      !.todo = @ \ {n},
                      !.data = Overwrite(@, page),
                      !.pages[n] = page,
                      !.keys = IF n \in FfSelectors
                               THEN @ \cup {i \in Items : page[i] # Absent} ELSE @]
       IN  IF l.todo # {}
           THEN Local(c, l) /\ UNCHANGED pc
           ELSE /\ Local(c, IF l.full
                            THEN [l EXCEPT !.watched = [w \in Watched |-> l.data[w]],
                                           !.kvs = NotLoaded(l.data)]
                            ELSE l)
                /\ Goto(c, IF l.full THEN "watch" ELSE "apply")
    /\ UNCHANGED <<service, provider, published, clocks, gate, bounded>>

\* LoadKeyValuesRegisteredForRefresh: a watched item no selector loaded is requested.
LoadWatched(c, w) ==
    /\ pc[c] = "watch" /\ w \in loc[c].kvs
    /\ Local(c, [loc[c] EXCEPT !.kvs = @ \ {w}, !.watched[w] = store[w],
                               !.data[w] = store[w]])
    /\ UNCHANGED <<service, provider, published, clocks, gate, pc, bounded>>

\* The timers S are set waiting, one by one; of its locals c needs no more than l.
BeginReset(c, S, l) == Local(c, [l EXCEPT !.elig = S]) /\ Goto(c, "prepare")

\* OnChangeDetected: the cached secrets concerned, if any, are forgotten.
ForgetSecrets == secretTimer' \in {secretTimer, "none"}

\* What the provider has held so far, with the data it holds now.
Holds(data) ==
    /\ mapped' = data
    /\ newest' = [i \in Items |-> IF data[i] # Absent THEN data[i] ELSE newest[i]]

\* refreshAll: the new data replaces the old, and every watcher is reset.
ApplyAll(c) ==
    /\ pc[c] = "watch" /\ loc[c].kvs = {} /\ ~loc[c].init
    /\ Holds(loc[c].data) /\ etags' = loc[c].pages
    /\ watchedKvs' = loc[c].watched /\ ffKeys' = loc[c].keys
    /\ ForgetSecrets
    /\ BeginReset(c, (Timers \ {AllTimer}) \cup loc[c].elig, [Blank EXCEPT !.full = TRUE])
    /\ UNCHANGED <<service, loaded, published, timer, initDue, gate, bounded>>

\* Variants of Changes (without deletions), RemovedFlags (none is removed) and
\* Changed (without the flags).
ChangesButDeletions(l) == {w \in Watched : l.watched[w] \notin {watchedKvs[w], Absent}}
RemovedFlagsKept(l)    == {}
ChangedKeyValues(changes, ffUpdated) == changes # {}

\* The watched items that differ from the record, deletions included.
Changes(l) == {w \in Watched : l.watched[w] # watchedKvs[w]}

\* The flags loaded before and no longer there.
RemovedFlags(l) == ffKeys \ l.keys

\* Something of what is registered has changed.
Changed(changes, ffUpdated) == changes # {} \/ ffUpdated

\* The watched changes, then the reloaded flags, go into the data there is; the
\* watchers found due are reset. If nothing changed, the assignments change nothing.
ApplyChanges(c) ==
    LET l         == loc[c]
        changes   == Changes(l)
        ffUpdated == pc[c] = "apply"
    IN  /\ \/ pc[c] = "apply"
           \/ pc[c] = "check" /\ ChecksBeforeFlags(c) /\ FlagsLeft(c) = {}
        /\ Holds([i \in Items |->
                    CASE ffUpdated /\ i \in l.keys          -> l.data[i]
                      [] ffUpdated /\ i \in RemovedFlags(l) -> Absent
                      [] OTHER -> IF i \in changes THEN l.watched[i] ELSE mapped[i]])
        /\ IF changes = {} THEN UNCHANGED secretTimer ELSE ForgetSecrets
        /\ watchedKvs' = l.watched
        /\ etags' = IF ffUpdated THEN l.pages ELSE etags
        /\ ffKeys' = IF ffUpdated THEN l.keys ELSE ffKeys
        /\ BeginReset(c, l.elig, [Blank EXCEPT !.changed = Changed(changes, ffUpdated)])
        /\ UNCHANGED <<service, loaded, published, timer, initDue, gate, bounded>>

\* InitializeAsync after its load: the watchers are reset before PrepareData.
ApplyInit(c) ==
    /\ pc[c] = "watch" /\ loc[c].kvs = {} /\ loc[c].init
    /\ ForgetSecrets
    /\ BeginReset(c, Timers, loc[c])
    /\ UNCHANGED <<service, provider, published, timer, initDue, gate, bounded>>

\* One turn of the loop that sets watchers waiting for their whole interval again,
\* _nextCollectionRefreshTime after them: what a push wrote since the watcher was
\* found due is overwritten.
Reset(c, t) ==
    /\ pc[c] = "prepare"
    /\ t \in First(loc[c].elig \cup loc[c].late) /\ loc[c].late \subseteq {t}
    /\ timer' = [timer EXCEPT ![t] = "waiting"]
    /\ Local(c, [loc[c] EXCEPT !.elig = @ \ {t}, !.late = {}])
    /\ UNCHANGED <<service, provider, published, initDue, secretTimer, gate, pc, bounded>>

\* The loop is over.
AllReset(c) == pc[c] = "prepare" /\ loc[c].elig = {} /\ loc[c].late = {}

\* SetData is due: something changed, or a cached secret must be fetched again.
MustPublish(c) == loc[c].full \/ loc[c].changed \/ secretTimer = "due"

NothingChanged(c) ==
    /\ AllReset(c) /\ ~MustPublish(c)
    /\ Leave(c)
    /\ UNCHANGED <<service, provider, published, clocks, bounded>>

\* A variant of Prepare: the new data is put into Data, which keeps what is gone.
PrepareMerging(c) ==
    /\ AllReset(c) /\ MustPublish(c)
    /\ IF loc[c].init
       THEN /\ loaded' = TRUE /\ Holds(loc[c].data) /\ etags' = loc[c].pages
            /\ watchedKvs' = loc[c].watched /\ ffKeys' = loc[c].keys
       ELSE UNCHANGED provider
    /\ published' = Overwrite(published, mapped')
    /\ secretTimer' = IF SecretRefresh THEN "armed" ELSE "none"
    /\ Leave(c)
    /\ UNCHANGED <<service, timer, initDue, bounded>>

\* SetData(PrepareData(...)): InitializeAsync assigns the provider's state after it.
Prepare(c) ==
    /\ AllReset(c) /\ MustPublish(c)
    /\ IF loc[c].init
       THEN /\ loaded' = TRUE /\ Holds(loc[c].data) /\ etags' = loc[c].pages
            /\ watchedKvs' = loc[c].watched /\ ffKeys' = loc[c].keys
       ELSE UNCHANGED provider
    /\ published' = mapped'
    /\ secretTimer' = IF SecretRefresh THEN "armed" ELSE "none"
    /\ Leave(c)
    /\ UNCHANGED <<service, timer, initDue, bounded>>

\* PrepareData throws: a secret cannot be fetched, its failure being cached until
\* the secret's refresh time if it has one, or the call is cancelled.
PrepareFails(c) ==
    /\ AllReset(c) /\ MustPublish(c)
    /\ prepareFaults < MaxPrepareFaults /\ prepareFaults' = prepareFaults + 1
    /\ secretTimer' \in {secretTimer, IF SecretRefresh THEN "armed" ELSE "none"}
    /\ Leave(c)
    /\ UNCHANGED <<service, provider, published, timer, initDue, pushes, faults>>

\* The caller waits for the answer to a request to the store.
Requesting(c) ==
    \/ pc[c] = "check" /\ (~ChecksBeforeFlags(c) \/ FlagsLeft(c) # {})
    \/ pc[c] = "load"
    \/ pc[c] = "watch" /\ loc[c].kvs # {}

\* The request fails in a way another client may cure: the lambda starts again
\* there. That of InitializeAsync keeps the flag keys of the attempt before.
FailOver(c) ==
    /\ Requesting(c) /\ loc[c].attempt < Clients
    /\ faults < MaxFaults /\ faults' = faults + 1
    /\ IF loc[c].init
       THEN BeginLoad(c, Sel, TRUE, [Blank EXCEPT !.attempt = loc[c].attempt + 1,
                                                  !.init = TRUE, !.keys = loc[c].keys])
       ELSE /\ Local(c, Attempt(loc[c].attempt + 1, loc[c].elig))
            /\ Goto(c, "check")
    /\ UNCHANGED <<service, provider, published, clocks, gate, pushes, prepareFaults>>

\* A variant of Fail without the finally block.
FailInside(c) ==
    /\ Requesting(c)
    /\ faults < MaxFaults /\ faults' = faults + 1
    /\ Goto(c, "idle") /\ Local(c, Blank)
    /\ UNCHANGED <<service, provider, published, clocks, gate, pushes, prepareFaults>>

\* It fails for good, there is no other client, or the call is cancelled.
Fail(c) ==
    /\ Requesting(c)
    /\ faults < MaxFaults /\ faults' = faults + 1
    /\ Leave(c)
    /\ UNCHANGED <<service, provider, published, clocks, pushes, prepareFaults>>

---------------------------------------------------------------------------
Init ==
    /\ store \in {s \in [Items -> {Absent, 1}] : \A i \in Items \ Removable : s[i] = 1}
    /\ writes = 1
    /\ loaded = FALSE /\ mapped = Nothing /\ newest = Nothing /\ published = Nothing
    /\ watchedKvs = [w \in Watched |-> Absent]
    /\ etags = [n \in Sel |-> Nothing] /\ ffKeys = {}
    /\ timer = [t \in Timers |-> "due"]
    /\ initDue = TRUE /\ secretTimer = "none"
    /\ gate = 0
    /\ pc = [c \in Callers |-> "idle"] /\ loc = [c \in Callers |-> Blank]
    /\ pushes = 0 /\ faults = 0 /\ prepareFaults = 0
    /\ notified = [t \in Timers |-> Nothing]

Environment ==
    \/ \E i \in Items : Write(i) \/ Remove(i)
    \/ \E t \in Timers : Expire(t) \/ SetDirty(t)
    \/ ExpireInit \/ ExpireSecret

\* What the thread of a running refresh does next, if no request fails.
Work(c) ==
    \/ NothingDue(c) \/ InitThrottled(c) \/ BeginInitialize(c) \/ BeginRefresh(c)
    \/ \E w \in Watched : CheckWatcher(c, w) \/ LoadWatched(c, w)
    \/ \E n \in Sel : CheckCollection(c, n) \/ CheckFlags(c, n) \/ LoadSelector(c, n)
    \/ ApplyAll(c) \/ ApplyChanges(c) \/ ApplyInit(c)
    \/ (\E t \in Timers : Reset(c, t)) \/ NothingChanged(c) \/ Prepare(c)

Fault(c) == NoClientAvailable(c) \/ PrepareFails(c) \/ FailOver(c) \/ Fail(c)

Next == Environment \/ \E c \in Callers : Exchange(c) \/ Work(c) \/ Fault(c)

Spec == Init /\ [][Next]_vars

\* The application keeps calling RefreshAsync, its threads run and time passes.
Fairness ==
    /\ \A c \in Callers : WF_vars(Exchange(c)) /\ WF_vars(Work(c))
    /\ \A t \in Timers : WF_vars(Expire(t))
    /\ WF_vars(ExpireInit) /\ WF_vars(ExpireSecret)

FairSpec == Spec /\ Fairness
---------------------------------------------------------------------------
(* Properties *)

\* Types of all variables.
TypeOK ==
    /\ store \in Content /\ writes \in Nat
    /\ loaded \in BOOLEAN
    /\ mapped \in Content /\ newest \in Content /\ published \in Content
    /\ watchedKvs \in [Watched -> Version]
    /\ etags \in [Sel -> Content] /\ ffKeys \subseteq Items
    /\ timer \in [Timers -> {"waiting", "dirty", "due"}]
    /\ initDue \in BOOLEAN /\ secretTimer \in {"none", "armed", "due"}
    /\ gate \in {0, 1}
    /\ pc \in [Callers -> Points]
    /\ loc \in [Callers -> Locals]
    /\ pushes \in Nat /\ faults \in Nat /\ prepareFaults \in Nat
    /\ notified \in [Timers -> Content]

Inside(c) == pc[c] # "idle"

\* At most one caller is past the gate, and the gate is closed exactly while one
\* is: no path through RefreshAsync leaves it closed behind itself.
GateExclusive ==
    /\ \A c, d \in Callers : Inside(c) /\ Inside(d) => c = d
    /\ gate = 1 <=> \E c \in Callers : Inside(c)

\* No update is masked: while the provider holds a version of a registered item
\* that is not the store's, the check of that item's watcher will see a change.
\* Whatever was written between a check, the load that followed it, the load of
\* the watched items and the assignment of the new state, no etag newer than the
\* data it stands for is ever recorded.
StaleIsDetectable ==
    loaded =>
      /\ \A w \in Watched : mapped[w] # store[w] => watchedKvs[w] # store[w]
      /\ \A i \in FfItems : mapped[i] # store[i] =>
            \E n \in FfSelectors : HaveCollectionsChanged(n)
      /\ RegisterAll => \A i \in KvItems : mapped[i] # store[i] =>
            \E n \in KvSelectors : HaveCollectionsChanged(n)

\* The sentinel pattern: once the recorded version of a refreshAll item is the
\* store's, every loaded item last written before it is loaded as it is now.
\* This is what "a change in the value of this key refreshes all key-values"
\* promises to someone who writes the key-values first and the sentinel last.
SentinelCovers ==
    loaded => \A s \in RefreshAll :
        watchedKvs[s] = store[s] /\ store[s] # Absent =>
            \A i \in KvItems \cup FfItems :
                store[i] # Absent /\ store[i] < store[s] => mapped[i] = store[i]

\* A push notification is honoured ("ensure the latest key-values are provided in
\* the next request") by every refresh that loads nothing but changes: a watcher
\* that it sets waiting again has its items in a version not older than announced
\* to that watcher. The one exception is a push that reaches the watcher after the
\* loop found it due and before the loop sets it waiting.
PushKeptByChanges ==
    [][\A t \in Timers \ {AllTimer} : \A i \in Scope(t) :
         timer[t] # "waiting" /\ timer'[t] = "waiting"
           /\ (\A c \in Callers : ~loc[c].full /\ t \notin loc[c].late)
         => mapped'[i] >= notified[t][i]]_vars

\* When no refresh is running the application sees what the provider holds,
\* unless PrepareData once failed after the state had been replaced.
PublishedIsMapped == gate = 0 /\ prepareFaults = 0 => published = mapped

\* To the application all of this is a cache of versions, however requests, failures
\* and pushes interleave with the changes of the store: what it reads is at any time
\* a whole copy of what the provider held, and no item comes back, not even after it
\* was missing for a while, in a version older than one that was ever held.
VC == INSTANCE VersionCache WITH held <- mapped, seen <- published
ImplementsVersionCache == VC!Spec

\* With RegisterAll, everything is loaded again only if a key-value that the
\* selectors load differs from the one recorded.
ReloadOnlyOnChange ==
    [][\A c \in Callers :
         pc[c] = "check" /\ pc'[c] = "load" /\ loc'[c].full /\ RegisterAll =>
            \E n \in KvSelectors : \E i \in Selectors[n] : store[i] # etags[n][i]]_vars

\* Once the store rests and requests succeed, the application ends up with the
\* store's version of everything registered for refresh, whatever failed or was
\* pushed before, unless PrepareData once failed.
EventuallyFresh == <>[](prepareFaults = 0 => \A i \in Tracked : published[i] = store[i])
=============================================================================
