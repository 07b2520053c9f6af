----------------------------- MODULE Selection -----------------------------
(***************************************************************************)
(* What the configuration is made of.  The application first calls the     *)
(* methods of AzureAppConfigurationOptions; the provider then loads the    *)
(* selected key-values page by page, resolves snapshot references, lets a  *)
(* mapper drop settings, and from then on refreshes: individual changes,   *)
(* the feature flags, or everything.  Gate, timers, pushes and failover    *)
(* are those of ProviderRefresh: here one refresh runs at a time, all that *)
(* is registered is due, and any request may fail.                         *)
(*                                                                         *)
(* An item is a key-value of the store, named by key and label; several    *)
(* items may have the same key.  An entry is an item in one version.       *)
(* A listing, or a page of one, gives each position of the order the       *)
(* version in which it lists the item there, if it does.                   *)
(***************************************************************************)
EXTENDS Naturals, SequencesExt, FiniteSets

CONSTANTS
    Order,          \* the items, in the order of a listing
    KeyOf,          \* the key of each item
    Contents,       \* per snapshot reference, the key that its snapshots contain
    Missing,        \* versions of references whose snapshot is not found
    Dropped,        \* entries for which the mapper returns null
    PageSize,       \* the items of a page
    DefaultQuery,   \* what the query without any Select lists
    Filters, FlagFilters, Snapshots,    \* what may be selected: sets of items
    Registrations,  \* what may be registered: sets of watchers
    None,           \* no entry
    MaxCalls, MaxWrites     \* bounds: calls that configure, changes of the store

Items      == Range(Order)
References == DOMAIN Contents
Keys       == {KeyOf[i] : i \in Items} \cup {Contents[r] : r \in References}
Absent     == 0
Entries    == Items \X (Nat \ {Absent})

Watchers == [item: Items, all: BOOLEAN]

ASSUME SelectionAssumption ==
    /\ Order \in Seq(Items) /\ IsInjective(Order)
    /\ DOMAIN KeyOf = Items /\ References \subseteq Items /\ None \notin Entries
    /\ Dropped \cup Missing \subseteq Entries
    /\ DefaultQuery \subseteq Items
    /\ Filters \cup FlagFilters \cup Snapshots \subseteq SUBSET Items
    /\ (UNION Snapshots) \cap References = {}
    /\ Registrations \subseteq SUBSET Watchers
    /\ PageSize \in Nat \ {0} /\ {MaxCalls, MaxWrites} \subseteq Nat

VARIABLES
    selectors, selectCalled,    \* _selectors, _selectCalled
    ffWatchers,                 \* _ffWatchers: their filters
    watchers, registerAll,      \* _individualKvWatchers, RegisterAllEnabled
    calls,                      \* bound
    store, writes,              \* the App Configuration store
    loaded, mapped,             \* _mappedData # null, _mappedData
    watched,                    \* _watchedIndividualKvs: a version per item
    etags,                      \* _kvEtags, _ffEtags: the pages of each selector
    ffKeys,                     \* _ffKeys
    pc, loc                     \* control point and locals of RefreshAsync

options  == <<selectors, selectCalled, ffWatchers, watchers, registerAll, calls>>
service  == <<store, writes>>
provider == <<loaded, mapped, watched, etags, ffKeys>>
vars     == <<options, service, provider, pc, loc>>

---------------------------------------------------------------------------
(* AzureAppConfigurationOptions *)

Selector(kind, items) == [kind |-> kind, items |-> items]

\* A call that does not throw: a method that throws leaves the application without
\* a provider.
Configuring ==
    /\ pc = "configure" /\ calls < MaxCalls /\ calls' = calls + 1
    /\ UNCHANGED <<service, provider, pc, loc>>

\* AppendUnique: an equal element that is there already is removed.
AppendUnique(s, e) == Append(RemoveFirst(s, e), e)

\* The default query is there until the first Select or SelectSnapshot.
SelectedBefore ==
    IF selectCalled THEN selectors ELSE RemoveFirst(selectors, Selector("keys", DefaultQuery))

Select(kind, items) ==
    /\ Configuring
    /\ selectors' = AppendUnique(SelectedBefore, Selector(kind, items))
    /\ selectCalled' = TRUE
    /\ UNCHANGED <<ffWatchers, watchers, registerAll>>

UseFeatureFlags(items) ==
    /\ Configuring
    /\ selectors' = AppendUnique(selectors, Selector("flags", items))
    /\ ffWatchers' = AppendUnique(ffWatchers, items)
    /\ UNCHANGED <<selectCalled, watchers, registerAll>>

\* A variant of MayRegister: individual watchers of an earlier call are forgotten.
MayRegisterOnce(S, all) == ~registerAll /\ (all \/ S # {}) /\ (all => S = {})

\* ConfigureRefresh throws after RegisterAll, without any registration and if there
\* would be both kinds of it.
MayRegister(S, all) ==
    /\ ~registerAll
    /\ all \/ S # {}
    /\ all => watchers = <<>> /\ S = {}

ConfigureRefresh(S, all) ==
    /\ Configuring
    /\ MayRegister(S, all)
    /\ registerAll' = all
    /\ \E s \in SetToSeqs(S) : watchers' = watchers \o s
    /\ UNCHANGED <<selectors, selectCalled, ffWatchers>>

---------------------------------------------------------------------------
(* Listings, snapshots and mapping *)

Sel       == DOMAIN selectors
OfKind(K) == {n \in Sel : selectors[n].kind \in K}     \* visited in their order
NoData    == [k \in Keys |-> None]
Entry(i)  == <<i, store[i]>>
Listings  == [DOMAIN Order -> Nat]
Listed(l) == {p \in DOMAIN Order : l[p] # Absent}

\* The first PageSize entries of a listing.
PageOf(l) ==
    [p \in DOMAIN Order |->
        IF Cardinality({q \in Listed(l) : q <= p}) <= PageSize THEN l[p] ELSE Absent]

\* The version in which selector n has an item: a snapshot's is the first one.
VersionFor(n, i) == IF selectors[n].kind = "snapshot" THEN 1 ELSE store[i]

\* What selector n still lists behind position p of the order.
Listing(n, p) ==
    [q \in DOMAIN Order |-> IF q > p /\ Order[q] \in selectors[n].items
                            THEN VersionFor(n, Order[q]) ELSE Absent]

\* What the store returns for a set of items.
Requested(I) == [q \in DOMAIN Order |-> IF Order[q] \in I THEN store[Order[q]] ELSE Absent]

\* Where a listing goes on behind a page, and whether it does.
Behind(page) == Max(Listed(page))
IsLast(n, p) == PageOf(Listing(n, p)) = Listing(n, p)

\* The keys that a loaded entry sets: a snapshot reference stands for the settings of
\* its snapshot, which may not be found.
Sets(e) == IF e[1] \notin References THEN {KeyOf[e[1]]}
           ELSE IF e \in Missing THEN {} ELSE {Contents[e[1]]}

\* The entries of a page are put into the data one after the other: the last one for
\* a key stays.
EntryAt(page, p) == <<Order[p], page[p]>>
For(k, page)     == {p \in Listed(page) : k \in Sets(EntryAt(page, p))}
PutAll(data, page) ==
    [k \in Keys |-> IF For(k, page) = {} THEN data[k] ELSE EntryAt(page, Max(For(k, page)))]

\* MapConfigurationSettings.
MapSetting(e) == IF e \in Dropped THEN None ELSE e
MapAll(data)  == [k \in Keys |-> MapSetting(data[k])]

---------------------------------------------------------------------------
(* RefreshAsync: the checks *)

\* Locals: the selectors and watchers still to visit, the page reached, whether
\* everything is loaded, keyValueChanges, and what has been loaded.
Blank == [todo |-> {}, kvs |-> <<>>, after |-> 0, page |-> 0, full |-> FALSE,
          changes |-> <<>>, data |-> NoData, etags |-> <<>>, keys |-> {},
          watched |-> [i \in Items |-> Absent]]

Goto(label, l) == pc' = label /\ loc' = l

\* LoadSelected is called for everything, or for the flags.
BeginLoad(full) ==
    Goto("load", [Blank EXCEPT
        !.full = full, !.changes = loc.changes,
        !.todo = OfKind(IF full THEN {"keys", "flags", "snapshot"} ELSE {"flags"}),
        !.etags = [n \in Sel |-> IF full \/ selectors[n].kind = "flags" THEN <<>> ELSE etags[n]]])

\* Build, the initial load, and its repetition by a refresh as long as it fails.
Initialize ==
    /\ pc \in {"configure", "idle"} /\ ~loaded
    /\ BeginLoad(TRUE)
    /\ UNCHANGED <<options, service, provider>>

Begin ==
    /\ pc = "idle" /\ loaded
    /\ IF registerAll
       THEN Goto("collections", [Blank EXCEPT !.todo = OfKind({"keys", "snapshot"})])
       ELSE Goto("watchers", [Blank EXCEPT !.kvs = watchers])
    /\ UNCHANGED <<options, service, provider>>

\* The selectors of the feature flag watchers.
FlagChecks == {n \in OfKind({"flags"}) : selectors[n].items \in Range(ffWatchers)}

\* The recorded copy has no content type: only what was not found before is known
\* to be a snapshot reference.
ReloadsAll(w) == w.all \/ (w.item \in References /\ watched[w.item] = Absent)

\* One turn of RefreshIndividualKvWatchers.
CheckWatcher ==
    /\ pc = "watchers" /\ loc.kvs # <<>>
    /\ LET w == Head(loc.kvs)
           l == [loc EXCEPT !.kvs = Tail(@)]
       IN  IF store[w.item] = watched[w.item] THEN Goto("watchers", l)
           ELSE IF ReloadsAll(w) THEN BeginLoad(TRUE)
           ELSE Goto("watchers", [l EXCEPT !.changes = Append(@, Entry(w.item))])
    /\ UNCHANGED <<options, service, provider>>

\* A variant of EndOfListing: the remaining etags are not looked at.
EndOfListingUnchecked(n, k) == FALSE

\* Recorded pages that the listing no longer has.
EndOfListing(n, k) == k < Len(etags[n])

\* One page of HaveCollectionsChanged, answered with 304 if it has the etag that is
\* recorded for the page of this number.
Verdict(n, after, k) ==
    IF k > Len(etags[n]) \/ PageOf(Listing(n, after)) # etags[n][k] THEN "changed"
    ELSE IF ~IsLast(n, after) THEN "next page"
    ELSE IF EndOfListing(n, k) THEN "changed" ELSE "same"

\* Selectors without etags are left out.
CheckPage ==
    /\ pc \in {"collections", "flags"} /\ loc.todo # {}
    /\ LET n       == Min(loc.todo)
           k       == loc.page + 1
           verdict == IF selectors[n].kind = "snapshot" THEN "same" ELSE Verdict(n, loc.after, k)
       IN  CASE verdict = "changed" -> BeginLoad(pc = "collections")
             [] verdict = "next page" ->
                  Goto(pc, [loc EXCEPT !.page = k, !.after = Behind(PageOf(Listing(n, loc.after)))])
             [] OTHER -> Goto(pc, [loc EXCEPT !.todo = @ \ {n}, !.after = 0, !.page = 0])
    /\ UNCHANGED <<options, service, provider>>

\* Neither a watcher nor a collection asks for everything: the flags are next.
CheckFlags ==
    /\ pc \in {"watchers", "collections"} /\ loc.kvs = <<>> /\ loc.todo = {}
    /\ Goto("flags", [loc EXCEPT !.todo = FlagChecks])
    /\ UNCHANGED <<options, service, provider>>

---------------------------------------------------------------------------
(* RefreshAsync: loading and applying *)

\* One page of LoadSelected; the settings of a snapshot count as one page.
LoadPage ==
    /\ pc = "load" /\ loc.todo # {}
    /\ LET n    == Min(loc.todo)
           all  == Listing(n, loc.after)
           page == IF selectors[n].kind = "snapshot" THEN all ELSE PageOf(all)
           l    == [loc EXCEPT
                      !.data = PutAll(@, page),
                      !.etags[n] = IF selectors[n].kind = "snapshot" THEN @ ELSE Append(@, page),
                      !.keys = IF selectors[n].kind = "flags"
                               THEN @ \cup {KeyOf[i] : i \in {Order[p] : p \in Listed(page)} \ References}
                               ELSE @]
       IN  IF page # all
           THEN Goto("load", [l EXCEPT !.after = Behind(page)])
           ELSE Goto("load", [l EXCEPT !.todo = @ \ {n}, !.after = 0])
    /\ UNCHANGED <<options, service, provider>>

\* LoadSelected returns.
Selected ==
    /\ pc = "load" /\ loc.todo = {}
    /\ IF loc.full THEN Goto("watched", [loc EXCEPT !.kvs = watchers]) ELSE Goto("apply", loc)
    /\ UNCHANGED <<options, service, provider>>

\* One turn of LoadKeyValuesRegisteredForRefresh: what is loaded for the watcher's
\* key is an entry of its item, or the item is requested.
LoadWatched ==
    /\ pc = "watched" /\ loc.kvs # <<>>
    /\ LET i    == Head(loc.kvs).item
           held == loc.data[KeyOf[i]]
           l    == [loc EXCEPT !.kvs = Tail(@)]
       IN  Goto("watched",
               IF held # None /\ held[1] = i THEN [l EXCEPT !.watched[i] = held[2]]
               ELSE IF store[i] = Absent THEN l
               ELSE [l EXCEPT !.watched[i] = store[i], !.data = PutAll(@, Requested({i}))])
    /\ UNCHANGED <<options, service, provider>>

\* Everything is replaced.
ApplyAll ==
    /\ pc = "watched" /\ loc.kvs = <<>>
    /\ loaded' = TRUE /\ mapped' = MapAll(loc.data)
    /\ watched' = loc.watched /\ etags' = loc.etags /\ ffKeys' = loc.keys
    /\ Goto("idle", Blank)
    /\ UNCHANGED <<options, service>>

\* A variant of Changed: a deletion is not told from a modification.
ChangedKept(e) == MapSetting(e)

\* What an individual change makes of its key in the mapped data.
Changed(e) == IF e[2] = Absent THEN None ELSE MapSetting(e)

\* ProcessKeyValueChangesAsync: of several changes of a key, or of an item, the last
\* one stays.
ProcessedData ==
    [k \in Keys |-> LET of == {m \in DOMAIN loc.changes : KeyOf[loc.changes[m][1]] = k}
                    IN  IF of = {} THEN mapped[k] ELSE Changed(loc.changes[Max(of)])]
ProcessedWatched ==
    [i \in Items |-> LET of == {m \in DOMAIN loc.changes : loc.changes[m][1] = i}
                     IN  IF of = {} THEN watched[i] ELSE loc.changes[Max(of)][2]]

\* The reloaded flags: those that are gone leave, those that are mapped come in.
ApplyFlags(m) ==
    [k \in Keys |-> IF MapSetting(loc.data[k]) # None THEN loc.data[k]
                    ELSE IF k \in ffKeys \ loc.keys THEN None ELSE m[k]]

ApplyChanges ==
    /\ pc = "apply" \/ (pc = "flags" /\ loc.todo = {})
    /\ mapped' = IF pc = "apply" THEN ApplyFlags(ProcessedData) ELSE ProcessedData
    /\ watched' = ProcessedWatched
    /\ etags'  = IF pc = "apply" THEN loc.etags ELSE etags
    /\ ffKeys' = IF pc = "apply" THEN loc.keys ELSE ffKeys
    /\ Goto("idle", Blank)
    /\ UNCHANGED <<options, service, loaded>>

\* A request fails on every endpoint.
Fail ==
    /\ pc \in {"watchers", "collections", "flags", "load", "watched"}
    /\ Goto("idle", Blank)
    /\ UNCHANGED <<options, service, provider>>

---------------------------------------------------------------------------
Change(i, version) ==
    /\ pc # "configure" /\ writes < MaxWrites /\ store[i] # version
    /\ writes' = writes + 1 /\ store' = [store EXCEPT ![i] = version]
    /\ UNCHANGED <<options, provider, pc, loc>>

Init ==
    /\ selectors = <<Selector("keys", DefaultQuery)>> /\ selectCalled = FALSE
    /\ ffWatchers = <<>> /\ watchers = <<>> /\ registerAll = FALSE /\ calls = 0
    /\ store = [i \in Items |-> 1] /\ writes = 1
    /\ loaded = FALSE /\ mapped = NoData /\ watched = [i \in Items |-> Absent]
    /\ etags = <<>> /\ ffKeys = {}
    /\ pc = "configure" /\ loc = Blank

Configure ==
    \/ \E items \in Filters : Select("keys", items)
    \/ \E items \in Snapshots : Select("snapshot", items)
    \/ \E items \in FlagFilters : UseFeatureFlags(items)
    \/ \E S \in Registrations, all \in BOOLEAN : ConfigureRefresh(S, all)

Next ==
    \/ Configure \/ Initialize \/ Begin
    \/ CheckWatcher \/ CheckPage \/ CheckFlags
    \/ LoadPage \/ Selected \/ LoadWatched \/ ApplyAll \/ ApplyChanges \/ Fail
    \/ \E i \in Items : Change(i, writes + 1) \/ Change(i, Absent)

Spec == Init /\ [][Next]_vars
---------------------------------------------------------------------------
(* Properties *)

TypeOK ==
    /\ selectors \in Seq([kind : {"keys", "flags", "snapshot"}, items : SUBSET Items])
    /\ selectCalled \in BOOLEAN /\ registerAll \in BOOLEAN
    /\ ffWatchers \in Seq(SUBSET Items) /\ watchers \in Seq(Watchers) /\ calls \in 0..MaxCalls
    /\ store \in [Items -> Nat] /\ writes \in Nat
    /\ loaded \in BOOLEAN /\ mapped \in [Keys -> Entries \cup {None}]
    /\ watched \in [Items -> Nat] /\ ffKeys \subseteq Keys
    /\ etags \in Seq(Seq(Listings))
    /\ pc \in {"configure", "idle", "watchers", "collections", "flags", "load", "watched", "apply"}
    /\ loc \in [todo : SUBSET Sel, kvs : Seq(Watchers), after : 0..Len(Order), page : Nat,
                full : BOOLEAN, changes : Seq(Items \X Nat),
                data : [Keys -> Entries \cup {None}], etags : Seq(Seq(Listings)),
                keys : SUBSET Keys, watched : [Items -> Nat]]

\* A check of selector n that nothing disturbs goes from one recorded page to the next
\* and ends without having seen a change.
SeesNothing(n) ==
    LET verdict(k) == Verdict(n, IF k = 1 THEN 0 ELSE Behind(etags[n][k - 1]), k)
    IN  \E last \in DOMAIN etags[n] :
            verdict(last) = "same" /\ \A k \in 1..last - 1 : verdict(k) = "next page"

\* No check that is registered would see a change, as the store is now.
NothingToSee ==
    /\ \A w \in Range(watchers) : watched[w.item] = store[w.item]
    /\ \A n \in OfKind(IF registerAll THEN {"keys", "flags"} ELSE {"flags"}) : SeesNothing(n)

\* What a load from scratch would make of the store: per key what the last selector
\* that lists it gives it, then the watched items that are not loaded so.
Reloaded ==
    LET listers(k) == {n \in Sel : For(k, Listing(n, 0)) # {}}
        selected   == [k \in Keys |-> IF listers(k) = {} THEN None
                                      ELSE PutAll(NoData, Listing(Max(listers(k)), 0))[k]]
        missed     == {i \in Items : /\ \E w \in Range(watchers) : w.item = i
                                     /\ selected[KeyOf[i]] = None \/ selected[KeyOf[i]][1] # i}
    IN  MapAll(PutAll(selected, Requested(missed)))

KeyFrom(i) == IF i \in References THEN Contents[i] ELSE KeyOf[i]

\* The keys that what is selected as flags may set.
FlagKeys == UNION {{KeyFrom(i) : i \in selectors[n].items} : n \in OfKind({"flags"})}

\* The keys registered for refresh: individually, as flags, or all.
Tracked ==
    {KeyFrom(w.item) : w \in Range(watchers)} \cup FlagKeys
      \cup UNION {{KeyFrom(i) : i \in selectors[n].items} : n \in {m \in Sel : registerAll}}

\* What may give a key a value: an item that is selected or watched, a snapshot.
Sources(k) ==
    {<<"store", i>> : i \in {j \in Items : KeyFrom(j) = k
        /\ (\/ \E w \in Range(watchers) : w.item = j
            \/ \E n \in OfKind({"keys", "flags"}) : j \in selectors[n].items)}}
      \cup {<<"snapshot", n>> : n \in {m \in OfKind({"snapshot"}) :
                                         \E i \in selectors[m].items : KeyOf[i] = k}}
Ambiguous(k) == \E a, b \in Sources(k) : a # b

\* What is selected as a flag in the version that the mapper drops, or is a snapshot
\* reference: its key is not among those that are removed with the flags.
UnlikeFlag(k) ==
    \E n \in OfKind({"flags"}) : \E i \in selectors[n].items :
        KeyFrom(i) = k /\ (Entry(i) \in Dropped \/ i \in References)

\* A watched snapshot reference whose next version reloads nothing (ReferenceReloads):
\* neither its own key nor those of its snapshot hold what a load would give them.
TakenForSetting(k) ==
    \E w \in Range(watchers) : /\ w.item \in References /\ ~w.all
                               /\ k \in {KeyOf[w.item], Contents[w.item]}

\* An item that one load reads twice, a flag that is selected as a key-value too or a
\* snapshot reference that is watched and also selected, or registered twice, and that
\* is gone now: it may have gone between the two reads, of which the second then puts
\* nothing in its place.
Selects(K, i) == \E n \in OfKind(K) : i \in selectors[n].items
ReadTwice(i) ==
    LET watching == {m \in DOMAIN watchers : watchers[m].item = i}
    IN  \/ Selects({"keys"}, i) /\ Selects({"flags"}, i)
        \/ /\ i \in References /\ watching # {}
           /\ Selects({"keys"}, i) \/ \E m, r \in watching : m # r
Gone(i)     == store[i] = Absent \/ Sets(Entry(i)) = {}
LeftOver(k) == \E i \in Items : KeyFrom(i) = k /\ ReadTwice(i) /\ Gone(i)

\* Refreshing in parts is as good as loading anew: whenever no check would see a
\* change, every key registered for refresh is held as a load from scratch would
\* leave it, whatever was selected and registered in whatever order, and whatever
\* was written between two pages. It may differ for a flag that is none or that the
\* mapper drops, for a key that a flag shares with something else and, without
\* RegisterAll, for any key that several items share, for what a load that reads it
\* twice has found once and for a watched snapshot reference that reloads nothing.
AsIfReloaded ==
    pc = "idle" /\ loaded /\ NothingToSee =>
        \A k \in Tracked : \/ mapped[k] = Reloaded[k]
                           \/ UnlikeFlag(k)
                           \/ Ambiguous(k) /\ (~registerAll \/ k \in FlagKeys)
                           \/ ~registerAll /\ (LeftOver(k) \/ TakenForSetting(k))

\* "If the watcher is set to refresh all, or the content type matches the snapshot
\* reference content type then refresh all": the new version of a watched snapshot
\* reference is recorded by nothing but a load of everything.
ReferenceReloads ==
    [][\A r \in References : watched'[r] # watched[r] => loc.full]_vars
=============================================================================
