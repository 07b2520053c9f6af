# Azure App Configuration .NET provider in TLA+

Models, checks and proofs for the configuration provider in
`src/Microsoft.Extensions.Configuration.AzureAppConfiguration` and the two refresh middlewares
(`src/Microsoft.Azure.AppConfiguration.AspNetCore`, `...Functions.Worker`). File names below
without a directory are in the first of these. `PROJECT.json` maps every definition that models code to its lines.

## 1. The system

The provider loads key-values and feature flags from an App Configuration store into the
configuration of an application and keeps them up to date when the application asks it to.

| Component | State | Operations | Talks to |
|---|---|---|---|
| Provider: startup (`AzureAppConfigurationProvider.Load`) | stopwatch, attempts, exceptions so far | `Load`, `LoadAsync`, `TryInitializeAsync` | failover, refresher |
| Provider: refresh (`RefreshAsync`) | `_mappedData`, `_watchedIndividualKvs`, `_kvEtags`, `_ffEtags`, `_ffKeys`, `NextRefreshTime` of each watcher, `_nextCollectionRefreshTime`, `_networkOperationsInProgress`, `Data` | `RefreshAsync`, `TryRefreshAsync`, `InitializeAsync`, `LoadSelected`, `ProcessPushNotification`, `SetDirty` | store, adapters, client manager |
| Provider: failover | `_configClientBackoffs`, `_lastSuccessfulEndpoint` | backoff filter, `ExecuteWithFailOverPolicyAsync`, `UpdateClientBackoffStatus` | client manager, store |
| Client manager (`ConfigurationClientManager`) | static clients, `_dynamicClients`, two discovery times | `GetClients`, `RefreshClients`, `GetEndpointForClient`, `UpdateSyncToken`, the discovery task | DNS |
| Key Vault secrets (`AzureKeyVaultReference/`) | `_cachedKeyVaultSecrets` | `GetSecretValue`, `ClearCache`, `RemoveSecretFromCache`, `PreloadAsync` | Key Vault |
| Adapters and publication | `_featureFlagIndex` | `PrepareData`, `ProcessAdapters`, `SetData`, `OnConfigUpdated` | adapters |
| Refresh middlewares | `_refreshReadyTime` | `InvokeAsync` / `Invoke` | refreshers |
| Health check, refresher provider | times of the latest success and failure | `CheckHealthAsync` | provider |
| Options | selectors, watchers, intervals, adapters | `Select`, `UseFeatureFlags`, `ConfigureRefresh`, ... | provider |
| Snapshots, event parsing, connection strings, tracing | none or counters | conversions | - |

How they interact: the middleware starts `TryRefreshAsync` as a background task at most once a
second. `RefreshAsync` passes the gate, finds out which watchers are due, takes the clients that
are not backing off from the client manager and runs one lambda under the failover policy, which
starts the lambda again on the next client if a request fails. The lambda only writes to locals;
the code behind it replaces the provider's state and publishes. `ProcessPushNotification` may be
called by any thread at any moment and takes no lock. The discovery task is never awaited.

What is hard: threads that race for the gate and for the middleware's exchange; a store that is
written between any two of a refresh's requests; pushes and discovery results that arrive in the
middle of a refresh; lazy LINQ filters that are evaluated anew at each use; a failure between two
steps of one refresh; a publication that fails after the state it should publish has been
replaced; retries, backoffs and a startup that must end. `PROJECT.json` lists these as hazards,
each at its line, with the properties that watch it.

## 2. Modules

| Module | Models | Abstracts |
|---|---|---|
| `ProviderRefresh` | `RefreshAsync` and all it calls up to `SetData`, pushes, the late initial load | a key-value is the number of the write that made it, which is its value and its etag |
| `VersionCache` | what the provider promises to the application: the specification that `ProviderRefresh` implements | how it is done |
| `Selection` | `Select`, `SelectSnapshot`, `UseFeatureFlags`, `ConfigureRefresh`, then loads and refreshes with labels, pages, snapshots and a mapper | concurrency: one refresh at a time, all that is registered is due |
| `Backoff` | `TimeSpanExtensions` | durations are numbers; the jitter is a set of results |
| `Startup` | `Load`, `LoadAsync`, `TryInitializeAsync` | an attempt takes some time and has any outcome |
| `Failover` | the client filter, `ExecuteWithFailOverPolicyAsync`, `ConfigurationClientManager`, the provider's health check | a request succeeds or fails in one of four ways |
| `SecretCache` | `AzureKeyVaultSecretProvider`, `PreloadAsync`, the publication of secrets | times are what is left of them |
| `Publication` | `PrepareData`, `ProcessAdapters`, `SetData`: flattening, trimming, the ids and the numbering of flags, which setting a key is left to | a key is a sequence of pieces; a setting is its key, its content type, the paths in its value and the schema of its flag |
| `RefreshMiddleware` | `InvokeAsync` of both middlewares | the clock may be set to any time |
| `MC...` | instances of these for TLC | |
| `...Proofs` | theorems | |

`Startup`, `Failover` and `SecretCache` extend `Backoff`; `ProviderRefresh` instantiates `VersionCache`;
each proof module extends the module it is about. In some modules an operator is preceded by
variants of itself (`RotatedWithout`, `SettleAtOnce`, ...): the same operator with a plausible bug.
No specification uses them; each is named in `PROJECT.json` as the change that the property next to
it must notice.

### ProviderRefresh and VersionCache

One request to the store is one step, and so is each turn of the loops that read and write refresh
times without a lock; the other code runs in the step of the request before it. `pc` is where
each caller stands: `decide` (past the gate), `check` (`RefreshIndividualKvWatchers`,
`HaveCollectionsChanged`), `load` (`LoadSelected`), `watch` (`LoadKeyValuesRegisteredForRefresh`),
`apply`, `prepare` (the loop that resets the watchers, `PrepareData`, `SetData`). `loc` holds the locals of
the method, and `elig` the watchers that pass the lazy filter `utcNow >= NextRefreshTime`.

A push is a sequence of `SetDirty(t)`, one per watcher, each at any moment and in any order. It takes the
watcher out of `elig`, because the filter is evaluated anew at each use and the new time is later than the
`utcNow` of the refresh (`:213`). The exception is a watcher whose turn it is in a loop (`Turns`): `MoveNext`
may have found it due already, and then the loop does with it what it does with a due watcher (`late`). In
`RefreshIndividualKvWatchers` and `CheckFlags` it is checked, which does no harm; in the loop that resets
(`Reset`) the time that the push has set is overwritten. `isRefreshDue` is read once (`:216`), so that
the collections' timer stays in `elig` whatever is pushed, and a full load visits all watchers without
looking at their times (`VisitsAll`).

Labels, mappers, several pages per selector and snapshots are left to `Selection`; replicas that lag
behind are left out (all clients read one store). The order in which individual watchers are visited
is arbitrary. `timer` abstracts `NextRefreshTime` to waiting, set by a push, or due. A failure counts
against `MaxFaults` whether no client is available, another client takes over or the refresh ends.
`FlagsApart` says that no flag is selected or watched as a key-value too; `Selection` has no such
assumption.

`VersionCache` forgets all of this: a copy of the store is held, a copy of it is shown, each item may
be missing or be taken over in any version between the newest that was ever held (`newest`, a history
variable, which an item's absence leaves as it is) and what the store can have had, and what is shown is
always all that is held. A version that comes back after the item was missing is therefore no older than the
one before. The refinement mapping (`VC`) is `held <- mapped`, `seen <- published`.

### Selection

The application first calls the options in any order. An item is a key-value named by key and label;
several may have one key, and `mapped` holds the entry that won. `CheckPage` and `LoadPage` are one
page each, compared with the etag recorded under its number. A snapshot keeps the first version of what
it contains, a snapshot reference stands for the contents of its snapshot (whose key is not that of
the reference), and an entry in `Dropped` is one for which the mapper returns null. What `Failover` and
`ProviderRefresh` say of failures is one step here, `Fail`: the refresh ends and its locals are lost.
A listing, or a page of one, is a function from the positions of `Order` to the version listed there (0 if
none), so that `PageOf` cuts a listing by counting, `PutAll` takes the last entry of a page for each key,
and `ProcessedData` the last change of each key: what the loops of the code leave behind, without a fold,
which the provers could not reason about. `todo` is the set of selectors still to visit, in their order.
Left out: calls that throw, tag filters, key prefixes, snapshots that disappear after the first load and
snapshots that contain snapshot references.

`AsIfReloaded` compares what is held with `Reloaded`, what a load from scratch would make of the store now,
whenever `NothingToSee`: no check that is registered would see a change. It is about the keys that are
registered for refresh (`Tracked`) and names what it exempts:

* `UnlikeFlag`: what is selected as a flag but dropped by the mapper, or is a snapshot reference. Flags are
  reloaded on top of what is held, and only keys recorded as flags are removed first.
* `Ambiguous`, a key that several sources may give a value. Without `RegisterAll` a change, a deletion or a
  reload of flags takes the key whoever would win it in a load; with it, only keys of flags are exempt, since
  everything else is loaded together, in order.
* `LeftOver`, without `RegisterAll`: an item that one load reads twice and that is gone now.
* `TakenForSetting`, without `RegisterAll`: the keys of a watched snapshot reference that reloads nothing,
  which is what `snapshot_reference` is about.

Each of them is needed: TLC refutes the property without any one of them, on instances where flags share a
key with each other, with a key-value, with a snapshot or with the contents of a reference. An earlier form
of the property, which exempted less, passed on the instance of `MCSelection` and was found to be false of
larger ones by the attempt to prove it.

### Startup

`elapsed` is the stopwatch. `Pass` is the time of the requests of one attempt, after which it
succeeds, throws for good or returns false. `Settle` is the catch block of `Load` with its minimum
delay. Load by `IConfigurationRoot.Reload` is not modelled.

### Failover

A refresh begins with `GetClients`, the filter and the rotation in one step; each later step is the
answer to a request. `order` and `at` are the clients as rotated and the enumerator in them. Time is the
remaining backoff of each endpoint. A dynamic client is an object: after the discovery task has replaced
the list, `GetEndpointForClient` no longer finds the clients the refresh holds, even for the same host
(`replaced`, `Known`). `healthy` is what `CheckHealthAsync` compares, `_lastSuccessfulAttempt` against
`_lastFailedAttempt`, after the initial load. Left out: the startup's use without the filter, duplicate
hosts in DNS answers, the failure count beyond the longest backoff.

### SecretCache

Times count down to `RefreshAt`; -1 is past it, which tells the two comparisons of the code apart at
the instant itself. `Turn` is the semaphore of the parallel preload or the order of the sequential
one. Each reference has a secret of its own. `RefreshChanges`, `RefreshAll` and `RefreshSecrets` are
the three ways in which `RefreshAsync` comes to `PrepareData`.

### Publication

Settings are processed in the order of the dictionary, which is fixed. A key is a sequence of pieces, cut
wherever a prefix, a JSON property, an array index or the name of a flag may begin or end, so that
`StartsWith`, `\o` and `SubSeq` do with it what the code does with strings. A setting becomes a set of
configuration keys (`ConfigurationKeys`): its own if no adapter changes it or it is a Key Vault reference, one
for each scalar of its JSON value (`{}` and `[]` have none), those below `FeatureManagement` that the id and
the filters of a .NET flag give; each is compared without case (`Fold`) and without the first prefix that
fits (`Trim`). A flag of the Microsoft schema becomes an entry under the next index. `Put` is the assignment
`applicationData[key] = kv.Value`: an entry carries the setting it came from, and one that meets another in its
key takes its place, as the test `OverwriteValuesForDuplicateKeysAfterFlatteningJson`
(`JsonContentTypeTests.cs:128`) expects. Values and tracing are left out; that two entries of one setting meet
is not told apart, since both have the same source.

### RefreshMiddleware

The read of the clock, the interlocked read and the interlocked exchange are a step each.

## 3. Runs

| Run | Shows |
|---|---|
| `refresh_sentinel` | gate, no masked update, the sentinel pattern, pushes, and the refinement of `VersionCache`, which includes that no version comes back; two callers, three writes, a push to one watcher, one failure |
| `refresh_registerall` | `RegisterAll` with overlapping selectors: everything is loaded only when something selected changed, what is held is what is published, and the application ends up with the store's versions |
| `selection` | after any order of configuring calls, refreshing in parts is as good as loading anew |
| `startup` | the startup ends, in its time, never empty unless optional, never too fast but for an `ArgumentException`; the refresher works from its end on, an exception included |
| `failover` | failed endpoints rest, the preferred one comes back, everyone is asked and gets a share, the health check raises no false alarm and recovers |
| `secrets` | Key Vault is asked at a bounded rate, periodic secrets become fresh |
| `middleware` | refreshes start an interval apart |
| `publication` | where settings meet in one configuration key the last in order is published and nothing else is hidden, no numbered flag is missing, and their numbers have no gap |
| `tagged_collection`, `snapshot_reference`, `failover_discovery`, `secrets_null` | disagreements, see section 5 |

What the application configures once (an optional source, load balancing, parallel preloading and
the refresh intervals of secrets) is a variable that `Init` chooses and no step changes, so that one
run covers every choice. What changes the shape of a refresh (selectors, registrations, sentinels) is
a constant of `ProviderRefresh`, and the runs of `MCProviderRefresh` differ in it; in `Selection` it is
what the configuring calls make of it.

Bounds. `refresh_sentinel` has two callers: a third could only wait at the same gate. They are alike, so the
run takes them as symmetric; it checks no liveness. `MaxPushes` counts turns of `SetDirty`: what one turn does
depends on nothing another turn does, and `PushKeptByChanges` is about each watcher by itself.
`refresh_registerall` has one, because its liveness needs no second. Three writes are enough for a data
item and its sentinel to be written before, between and after two requests of a refresh. One failure
lets a refresh fail over or fail, and the next one starts with what it left. `selection` has four items
(a flag, a snapshot reference, a key with and without a label), pages of two, three configuring calls
and two changes of the store (`MaxWrites` counts the first version): a collection of three items then
gains, loses or changes a page, and an item may change between two pages or between two reads. Checked
once with larger bounds, four calls with two changes (5.6 million states) and three calls with three
changes (9.1 million), it finds nothing else, and the theorem of section 4 needs no bound. `startup` has the three windows of the code with shorter
times and a timeout behind the last one, so that fixed delays, doubled delays and the limit all occur;
the time of an attempt is 0 to 2 units. `failover` has two endpoints, a replica and two failures: one
refresh can fail over, or exhaust or penalise every client but one, and the next starts with what it
left. `secrets` has two references, a maximum of two requests at once, two failures and one rotation
of each secret: the case in question, one reference failing in front of another, needs no more.
`publication` has three settings of seven forms and one failure; their keys are such that two settings may
meet by flattening (`list` and its items, against `app:List:0` without its prefix and case) or by the id of a
flag, and that one may pass two adapters. `middleware` has three requests and
six times.
`LongWidth = 5` makes the sign bit of the shift reachable: `Shifted` of a fifth attempt is negative.

Fairness. `refresh_registerall`: the caller keeps calling `RefreshAsync` (an application, or the
middleware, does so for as long as it lives), a running refresh goes on, since every request ends with
an answer or an exception (the client has timeouts), and intervals pass. `startup`: the one thread of
`Load` goes on. `failover`: refreshes are asked for, requests end, time passes; that discovery ever ends
is not assumed. `secrets`: a refresh happens while a secret is due, preparation goes on, time passes.
Faults and writes are bounded, which is what "once they stop" means in the liveness properties.

Conditions. Some properties name a condition under which they hold, and section 5 says what the code
does without it: `PublishedIsMapped` and `EventuallyFresh` that `PrepareData` did not fail,
`PushKeptByChanges` that the refresh is not a full load and that the push did not reach the watcher between
the loop's check and its reset of that watcher, `AsIfReloaded` the four listed in section 2
under `Selection`, `AlarmHasCause` that no client was replaced during the
refresh (`unknownClient`), `SecretsFresh` that the preload is parallel or every reference has an
interval, `IndicesFromZero` that no publication failed (a list without a gap it is in any case).

`CHECK_DEADLOCK FALSE` is set for `Startup` only, which is over when `Load` has returned.

## 4. Theorems

Proved for every value of the constants that their `ASSUME`s admit.

`ProviderRefreshProofs`
* `TypeCorrect`: `Spec => []TypeOK`.
* `GateIsExclusive`: at most one caller past the gate, and the gate is closed exactly while one is.
  By itself this is not inductive: a caller that leaves must be the one that closed the gate. The
  invariant that carries it says that the gate is 1 exactly while some caller is not idle, and that
  two callers that are not idle are the same.
* `StaleDetectable`: no recorded etag hides an update. The state that the provider records was read
  by an earlier step, so the invariant also speaks about the locals of the refresh under way: every
  page it has loaded, every watched version it has read and the data it has collected agree with each
  other (data older than the store differs from what is recorded for it), for each control point; for
  a partial reload of the flags the data replaced stays covered by the pages recorded before. A write
  only makes versions grow, so what differed from the store differs afterwards.
* `HeldIsShown`: between two refreshes what is held is shown. It needs to know, of each control point,
  whether a publication is still to come.
* `ReloadsOnlyOnChange`, for `Listed = Selectors`, that is, without tag filters (`tagged_collection` refutes
  it with them): a recorded page has only items of its selector (`Shaped`), at whatever point of a refresh
  it was replaced, so that a listing that differs from it differs in such an item.

On the refinement (in the same module):
* `Refinement`: `ProviderRefresh` implements `VersionCache`. The invariant (`RInv`) adds that every copy
  the refresh under way has collected lies between what is shown and what the store can have had, and
  that what is held lies there too. A refresh reads what the store has at that moment; a later write only
  raises the upper end; and the lower end does not move, because the gate keeps everybody else out.
* `StaysBetween`, `NeverBack`: what `VersionCache` implies, stated of its instance `VC`, whose variables may
  be any. From these and `Refinement` follows `NeverRollsBack`: a version that the application has not just
  read is no older than any it ever read before, nor than any that was ever held, whether or not the
  key-value was missing in between. For the refinement `RInv` says that `mapped` is the newest version ever
  held, or missing, and that what a refresh has collected is no older than `newest`.
* `SentinelProtects`, for registrations that satisfy `SentinelsFirst`: a key-value with `refreshAll` is
  selected and never deleted, and whatever else is selected is loaded by a selector at or after each one that
  loads the sentinel. `refresh_sentinel` has such a registration. Neither half can be spared: a sentinel loaded
  behind other items is recorded with data from before it was written, and one that is absent when its page is
  loaded is requested on its own after the pages, with the same effect. The invariant (`SInv`) says of each
  control point that what the refresh has collected is covered by the sentinels it is about to record:
  what they are newer than is in the store's version. A full load keeps this up selector by selector, because
  a page that brings a new sentinel leaves no item behind; a check keeps it up because it goes on only if
  no sentinel has changed; and a write uncovers nothing, because it is newer than every sentinel recorded
  (`Known`).
* `PushIsKept`: in the invariant (`PInv`) a refresh under way that found a timer due, and is through with the
  check or the load behind that timer, has read nothing older than what was announced for it; and once the
  resets have begun, what is held is no older. A push takes its watcher out of `elig`, so that nothing is
  claimed about what came too late, and where it does not, because the watcher was just found due, the
  check that follows reads the store after the push (`late`); a later write takes no announcement back. That
  a check of unchanged flags suffices needs one relation more: no recorded page has a newer flag than the
  data. With `RegisterAll` the theorem is about the watchers of flags; the collections' timer is the case of
  section 5.

`SelectionProofs` (`Inductive`, `TypeCorrect`, `RefreshAsReload`)
* `TypeCorrect`: `Spec => []TypeOK`. It is not inductive alone: that the recorded pages are those of the
  selectors there are, one sequence each, is a fact about the whole load that recorded them.
* `RefreshAsReload`: `Spec => []AsIfReloaded`. What is held and what is recorded come from many requests,
  between which the store changes, so the invariant (`IInv`) cannot compare either with the store. It
  compares them with each other, and with the store only as far as the records agree with it:
  * With `RegisterAll`, whatever is held of a key that no flag has is the mapped form of the last entry for it
    in the recorded pages, by selector and position (`Wins`). Loading a page keeps this of the data loaded
    so far, because pages come in order; a reload of flags keeps it because it touches no such key.
  * Of a flag that is its key's only source (`Alone`): if a recorded page has it in the store's version, it is
    held so (`FreshFlag`); if no recorded page has it, and no watcher's record, nothing is held (`GoneFlag`).
    Of a watched item that is no flag the same with the recorded version (`FreshWatched`, `GoneWatched`).
    A write only takes such claims away: the item then differs from its record, as versions are new.
  * Of a refresh under way: the changes it has noted are of watchers that reload nothing and no older than
    any record that is still true (`CheckInv`); a load has recorded nothing of the selectors still to visit and
    no more of the one under way than it has passed (`ProgressInv`); every loaded entry was selected, or
    requested for a watcher already visited (`DataInv`); and the claims above hold of what is loaded and
    recorded so far (`LoadInv`).

  What a check then proves is a lemma of its own (`SeenListed`): a check of a selector goes from page to
  page by the recorded etags, and if it sees nothing, the recorded pages are together exactly what the
  selector lists now. The proof is an induction over the pages, each of which begins where the one before
  ends; `EndOfListing` is what makes the last one the end. `WinnerSelected` and `ReloadedAlone` compute
  `Reloaded` for a key, and `AllHeld`, `FlagHeld` and `WatchedHeld` put both together.

`FailoverProofs` (`TypeCorrect`, `AllAreAsked`, `NoFalseAlarm`, `FailedRest`). The invariant has four parts
that the properties do not mention. The manager's clients and the refresh's list are without repetition
(`Lists1`; a rotation keeps the elements, `RotationKeeps`). Who was available and has not been asked is
still ahead of the enumerator (`Ahead`), so that whoever finds nobody ahead has asked all. Who waits has
failed (`WaitsForCause`), so that a refresh skipped for want of a client has a cause. And what is left of
a configured endpoint's backoff and the time since its failure make up the shortest backoff (`Rested`):
an endpoint whose backoff is over has rested, and it is the endpoint just asked that is penalised.

`BackoffProofs`: `BackoffWithin`, `NoShorterBackoff`. The shift may reach the sign bit; the doubled duration
is then not positive and the longest one is taken. The jitter comes last: it adds at most a quarter, and it
takes away at most a quarter of what has at least been doubled.

`StartupProofs` (`TypeCorrect`, `LoadedWhenRequired`, `NeverCrashesFast`, `EndsOnTime`, `RetriesNeverRace`).
`LoadedWhenRequired` also says that the refresher has its provider exactly when `Load` has ended, which the
`finally` block (`:191-197`) brings about after an exception too; `NeverCrashesFast` exempts the
`ArgumentException`, which is thrown on at once (`:170-174`). The invariant adds that an exception is on its
way exactly from where `LoadAsync` throws it to the end of `Settle`, that the delays that are over, one for
each attempt but the first, fit into the time elapsed (`DelaysPassed`), the one that is running included, and
that every attempt begins within the timeout (`OnTime`), so that with the attempt under way the time is over
(`EndsOnTime`). No delay is shorter than that of the first window or the first doubled one, by
`NoShorterBackoff`.

`SecretCacheProofs` (`TypeCorrect`, `AskedNowAndThen`). A secret asked for less than `Spacing` ago is being
requested, or its entry is younger than that and not due before `Spacing` is over (`Spaced`). `ClearCache`
spares it because it is young, `GetSecretValue` because it is not due, after a failure as well, because
the interval and the first backoff are no shorter than `Spacing`.

`PublicationProofs` (`TypeCorrect`, `NoGaps`, `LastIsPublished`). While `PrepareData` is at work (`Collected`),
what is collected under configuration keys is of each key the last setting so far that becomes it
(`KeysOf`, `Wins`), and the next setting takes its keys from those before it (`OneMoreSetting`); the
flags collected are exactly those passed that take an index (`Flagged`), each with one of its own, because the
indices given out are an interval that ends below `featureFlagIndex` and, if no publication failed,
begins with 0 (`Numbered`).

`RefreshMiddlewareProofs` (`Invariance`, `StartsAreApart`). In `IInv` the ready time is at least an interval
after the time of the latest start, and a request about to exchange has seen a ready time its own clock
had reached. An exchange that succeeds then starts at a time not before the ready time it replaces.

Assumptions worth a reader's attention. `FailoverAssumption` and `StartupAssumption` say that the longest
backoff, shortened by the jitter, is no shorter than the first (30 s and 10 min in the code; with equal
minimum and maximum it would be false). `FailoverAssumption` also says that `MaxFailures` is where doubling
has reached the maximum, `StartupAssumption` that the delays of the startup's windows grow, as those of
`TimeSpanExtensions.cs:14-19` do. `PowersAssumption` (`Backoff`) is a fact of arithmetic that the provers do not know, that
a power of two is at least two; TLC evaluates it for the instance. `SecretCacheAssumption` says what
`SetSecretRefreshInterval` checks, that an interval is a minute at least. `SentinelsFirst`, `~RegisterAll` and
`Listed = Selectors` are hypotheses of single theorems and not of the model, whose other theorems and runs
do without them.

`SelectionAssumption` says that the order lists each item once, that the absence of an entry is not an entry,
and that no selected snapshot contains a snapshot reference.

Only model-checked: `NeverPublishedNull`, `LookupsSucceed` and `ReferenceReloads` of section 5 (and
`ReloadOnlyOnChange` with tag filters), which are refuted, and liveness (`EventuallyFresh`, `Terminates`,
`FailsBack`, `EveryEndpointServes`, `HealthRecovers`, `SecretsFresh`), which with fairness and ENABLED is out
of the prover's reach. Every invariant and every safety property of the passing runs is a theorem, but for
`EndsInTime`, which is close to the condition under which a delay ends; `EndsOnTime` says more.

## 5. Where the code and its documentation disagree

Each of these is a run that expects a violation; `PROJECT.json` quotes the lines.

* `tagged_collection`: the change check of a collection drops the tag filters of its selector.
* `snapshot_reference`: the recorded copy of a watched snapshot reference has no content type, so its next
  version is taken for an ordinary key-value and the snapshot is not loaded.
* `failover_discovery`: the discovery task runs beside a refresh; the lookup of a replaced client
  returns null and the refresh fails with an `ArgumentNullException`.
* `secrets_null`: the failure of a secret is cached as a null value, which a later publication takes for
  the secret.

Behaviour that the conditions of section 3 leave out, and that a reader of the documentation may not
expect (lines are those of `AzureAppConfigurationProvider.cs` unless a file is named):

* A sentinel that no selector loads is requested after the pages (`:339`), so that its new etag may be
  recorded with the data of before. Selected ahead of the data it guards (`refresh_sentinel`) it works.
* A push that arrives during a full load is forgotten when the load resets the watchers (`:391-394`), and
  with `RegisterAll` also one that arrives after the collections were checked (`:309`, `:426-429`).
* A refresh of changes resets the watchers that a lazy filter finds due (`:214-215`, `:420-423`). A push that
  reaches a watcher after `MoveNext` has found it and before `UpdateNextRefreshTime` (`:1195-1198`) has set it
  is overwritten and forgotten until the interval is over.
* When `PrepareData` throws, `_mappedData` and the etags have already been replaced (`:418-454`). Only a
  Key Vault secret that is due makes the next refresh publish them.
* A mapper that drops a flag leaves the flag mapped before when only the flags are reloaded (`:400-416`), and
  so does a snapshot reference among the flags: the keys of its snapshot are not in `_ffKeys` (`:896`).
* Flags that are reloaded alone take a key that a key-value, another label or a snapshot would win in a load
  of everything, and remove it when they are gone (`:400-416`).
* A load that reads an item twice, as a flag and as a key-value or as a selected and a watched snapshot
  reference, keeps it when it is deleted between the two reads (`:981-1041`).
* A deleted watched key-value removes its key even where another label still gives it a value (`:1496`).
* The contents of a snapshot with the key and label of a watched key-value record the version of the
  snapshot as the one that is watched (`:981-1000`).
* Two watchers with the same key and label are equal (`Models/KeyValueWatcher.cs:46`): `Register("k")` and
  `Register("k", refreshAll: true)` in one `ConfigureRefresh` lose `refreshAll`, and flags selected by the
  same key and label but other tags share one watcher, which as long as the check ignores tags does no harm.
* After a sequential preload has failed (`AzureKeyVaultKeyValueAdapter.cs:158-161`), a periodic secret may
  have no entry, and nothing makes the next refresh publish.
* Of settings that meet in one configuration key the one that comes last in the dictionary is published
  (`:655`), and that order follows the order of loading and of later insertions and deletions.
* A failed publication leaves the flag index above zero (`FeatureManagementKeyValueAdapter.cs:159`).
* `CalculateBackoffDuration` adds its jitter after the limit (`TimeSpanExtensions.cs:100-106`): a delay may
  be a quarter longer than `maxDuration`.
* A cancellation penalises the endpoint that was asked (`:1293`) and leaves the health check as it is.

## 6. Not modelled

* `Load` called again by `IConfigurationRoot.Reload`, which takes no gate: nothing in the repository calls
  it, and a comment (`:166`) says that `Load` is called once.
* The middleware together with the refreshes it starts: they share no state but the gate, which is
  modelled with any number of callers.
* Key-values named `feature_management:feature_flags:...`: the section of the numbered flags is a place of its
  own in `Publication`.
* A push whose new time is not later than the `utcNow` of a refresh under way (a clock that is set back, or a
  random delay of zero in the same tick): in `ProviderRefresh` a push always takes its watcher out of the filter.
* The feature flag parser, JSON in values beyond its paths, event, connection string and content type parsing, tracing and
  logging: conversions that keep no state the rest depends on.
* The order and the weights of DNS answers and the validation of host names (`SrvLookupClient.cs`): the
  discovery task finds any list.
* Arguments that make an options method throw, client options and credentials.
* The web assets of the examples (`examples/*/wwwroot/lib`), which are copies of other projects.
