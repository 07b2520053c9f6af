--------------------------- MODULE SelectionProofs ---------------------------
(***************************************************************************)
(* Selection keeps its types, and refreshing in parts is as good as        *)
(* loading anew, for every choice of its constants: any items, keys,       *)
(* labels, snapshots and references, any size of a page, any mapper and    *)
(* any calls of the options' methods in any order.                         *)
(***************************************************************************)
EXTENDS Selection, FiniteSetTheorems, WellFoundedInduction, SequenceTheorems, TLAPS

---------------------------------------------------------------------------
(* First and last of a set of numbers *)

\* Some natural number of a set is its smallest.
LEMMA MinOf ==
  ASSUME NEW S, S \subseteq Nat, S # {}
  PROVE  Min(S) \in S /\ \A y \in S : Min(S) <= y
<1>1. PICK x \in S : \A y \in S : ~(<<y, x>> \in OpToRel(<, Nat))
  <2> HIDE DEF OpToRel
  <2> QED
    BY NatLessThanWellFounded, WFMin
<1>2. ASSUME NEW y \in S, y < x PROVE FALSE
  <2>1. <<y, x>> \in OpToRel(<, Nat)
    BY <1>2 DEF OpToRel
  <2> QED
    BY <2>1, <1>1
<1>3. \E z \in S : \A y \in S : z <= y
  BY <1>2
<1> QED
  BY <1>3 DEF Min

\* Some number of a bounded set is its largest.
LEMMA MaxOf ==
  ASSUME NEW n \in Nat, NEW S, S \subseteq 0..n, S # {}
  PROVE  Max(S) \in S /\ \A y \in S : Max(S) >= y
<1> DEFINE T == {n - y : y \in S}
<1>1. T \subseteq Nat /\ T # {}
  <2>1. \A y \in S : n - y \in Nat
    OBVIOUS
  <2> QED
    BY <2>1
<1>2. Min(T) \in T /\ \A y \in T : Min(T) <= y
  BY <1>1, MinOf
<1>3. PICK x \in S : Min(T) = n - x
  BY <1>2
<1>4. \A y \in S : x >= y
  BY <1>2, <1>3
<1> QED
  BY <1>4 DEF Max

\* A set of natural numbers with 0 and with every successor has all of them.
LEMMA AllNumbers ==
  ASSUME NEW S, 0 \in S, \A n \in Nat : n \in S => n + 1 \in S
  PROVE  Nat \subseteq S
<1> SUFFICES ASSUME Nat \ S # {} PROVE FALSE
  OBVIOUS
<1> DEFINE m == Min(Nat \ S)
<1>1. m \in Nat \ S /\ \A y \in Nat \ S : m <= y
  BY MinOf
<1> HIDE DEF m
<1>2. m - 1 \in Nat /\ m - 1 \in S
  BY <1>1
<1> QED
  BY <1>1, <1>2

---------------------------------------------------------------------------
(* Listings, pages and what is put into the data *)

\* The items have positions, each in one place.
LEMMA Positions ==
  /\ Len(Order) \in Nat /\ DOMAIN Order = 1..Len(Order)
  /\ \A p \in DOMAIN Order : Order[p] \in Items
  /\ \A i \in Items : \E p \in DOMAIN Order : Order[p] = i
  /\ \A p, q \in DOMAIN Order : Order[p] = Order[q] => p = q
<1>1. Order \in Seq(Items) /\ IsInjective(Order)
  BY SelectionAssumption
<1>2. Len(Order) \in Nat /\ DOMAIN Order = 1..Len(Order)
  BY <1>1
<1>3. \A i \in Items : \E p \in DOMAIN Order : Order[p] = i
  BY DEF Items, Range
<1>4. \A p \in DOMAIN Order : Order[p] \in Items
  BY DEF Items, Range
<1> QED
  BY <1>1, <1>2, <1>3, <1>4 DEF IsInjective

\* Keys of items and of snapshots are keys, and an item is not a reference and plain.
LEMMA KeyFacts ==
  /\ \A i \in Items : KeyOf[i] \in Keys
  /\ \A r \in References : r \in Items /\ Contents[r] \in Keys
  /\ \A i \in Items : KeyFrom(i) \in Keys
<1>1. \A i \in Items : KeyOf[i] \in Keys
  BY DEF Keys
<1>2. \A r \in References : r \in Items /\ Contents[r] \in Keys
  BY SelectionAssumption DEF Keys
<1> QED
  BY <1>1, <1>2 DEF KeyFrom

\* An entry sets no key but the one it is meant for.
LEMMA SetsOne ==
  ASSUME NEW i \in Items, NEW v
  PROVE  /\ Sets(<<i, v>>) \subseteq Keys
         /\ \A k \in Sets(<<i, v>>) : k = KeyFrom(i)
         /\ i \notin References => Sets(<<i, v>>) = {KeyOf[i]}
         /\ Sets(<<i, v>>) # {} => Sets(<<i, v>>) = {KeyFrom(i)}
<1>1. <<i, v>>[1] = i
  OBVIOUS
<1> QED
  BY <1>1, KeyFacts DEF Sets, KeyFrom

\* A page has room for one item at least.
LEMMA PageSizeType == PageSize \in Nat /\ PageSize >= 1
<1>1. PageSize \in Nat \ {0}
  BY SelectionAssumption
<1> QED
  BY <1>1

\* A page is the beginning of its listing, and not an empty one.
LEMMA PageBegins ==
  ASSUME NEW l \in Listings
  PROVE  /\ PageOf(l) \in Listings
         /\ \A p \in Listed(PageOf(l)) : PageOf(l)[p] = l[p] /\ p \in Listed(l)
         /\ Listed(l) # {} => Listed(PageOf(l)) # {}
         /\ \A p \in Listed(PageOf(l)), q \in Listed(l) : q <= p => PageOf(l)[q] = l[q]
<1> DEFINE Upto(p) == {q \in Listed(l) : q <= p}
<1>1. IsFiniteSet(Listed(l)) /\ Listed(l) \subseteq Nat
  <2>1. Listed(l) \subseteq 1..Len(Order) /\ Len(Order) \in Nat
    BY Positions DEF Listed
  <2>2. IsFiniteSet(1..Len(Order))
    BY <2>1, FS_Interval
  <2> QED
    BY <2>1, <2>2, FS_Subset
<1>2. ASSUME NEW p \in Listed(l) PROVE IsFiniteSet(Upto(p)) /\ Cardinality(Upto(p)) \in Nat
  <2>1. IsFiniteSet(Upto(p))
    BY <1>1, FS_Subset
  <2> QED
    BY <2>1, FS_CardinalityType
<1>3. \A p \in DOMAIN Order :
         PageOf(l)[p] = IF Cardinality(Upto(p)) <= PageSize THEN l[p] ELSE Absent
  BY DEF PageOf
<1>4. PageOf(l) \in Listings
  <2>1. \A p \in DOMAIN Order : l[p] \in Nat /\ Absent \in Nat
    BY DEF Listings, Absent
  <2> QED
    BY <2>1 DEF PageOf, Listings
<1>5. \A p \in Listed(PageOf(l)) :
         /\ PageOf(l)[p] = l[p] /\ p \in Listed(l) /\ Cardinality(Upto(p)) <= PageSize
  BY <1>3 DEF Listed
<1>6. ASSUME Listed(l) # {} PROVE Listed(PageOf(l)) # {}
  <2> DEFINE m == Min(Listed(l))
  <2>1. m \in Listed(l) /\ \A y \in Listed(l) : m <= y
    BY <1>1, <1>6, MinOf
  <2> HIDE DEF m
  <2>2. Upto(m) = {m}
    BY <1>1, <2>1
  <2>3. Cardinality(Upto(m)) = 1
    BY <2>2, FS_Singleton
  <2>4. PageOf(l)[m] = l[m]
    BY <2>1, <2>3, <1>3, PageSizeType DEF Listed
  <2> QED
    BY <2>1, <2>4 DEF Listed
<1>7. ASSUME NEW p \in Listed(PageOf(l)), NEW q \in Listed(l), q <= p
      PROVE  PageOf(l)[q] = l[q]
  <2>1. p \in Listed(l) /\ Cardinality(Upto(p)) <= PageSize
    BY <1>5
  <2>2. Upto(q) \subseteq Upto(p)
    BY <1>1, <1>7, <2>1
  <2>3. Cardinality(Upto(q)) <= Cardinality(Upto(p))
    BY <1>2, <2>1, <2>2, FS_Subset
  <2>4. Cardinality(Upto(q)) <= PageSize
    BY <2>1, <2>3, <1>2, PageSizeType
  <2> QED
    BY <2>4, <1>3 DEF Listed
<1> QED
  BY <1>4, <1>5, <1>6, <1>7

\* The end of a page is its last position.
LEMMA BehindPage ==
  ASSUME NEW l \in Listings, Listed(l) # {}
  PROVE  Behind(l) \in Listed(l) /\ Behind(l) \in 1..Len(Order)
         /\ \A p \in Listed(l) : p <= Behind(l)
<1>1. Len(Order) \in Nat /\ Listed(l) \subseteq 0..Len(Order) /\ Listed(l) \subseteq 1..Len(Order)
  BY Positions DEF Listed
<1>2. Max(Listed(l)) \in Listed(l) /\ \A y \in Listed(l) : Max(Listed(l)) >= y
  BY <1>1, MaxOf
<1> QED
  BY <1>1, <1>2 DEF Behind

\* What is put into the data is the last entry of the page for a key, if there is one.
LEMMA PutLast ==
  ASSUME NEW data, NEW l \in Listings, NEW k \in Keys
  PROVE  /\ For(k, l) = {} => PutAll(data, l)[k] = data[k]
         /\ For(k, l) # {} => \E p \in For(k, l) : /\ PutAll(data, l)[k] = <<Order[p], l[p]>>
                                                  /\ \A q \in For(k, l) : q <= p
<1>1. PutAll(data, l)[k] =
        IF For(k, l) = {} THEN data[k] ELSE EntryAt(l, Max(For(k, l)))
  BY DEF PutAll
<1>2. Len(Order) \in Nat /\ For(k, l) \subseteq 0..Len(Order)
  BY Positions DEF For, Listed
<1>3. For(k, l) # {} => /\ Max(For(k, l)) \in For(k, l)
                        /\ \A q \in For(k, l) : q <= Max(For(k, l))
  BY <1>2, MaxOf
<1> QED
  BY <1>1, <1>3 DEF EntryAt

\* What has been put into the data are entries.
LEMMA PutType ==
  ASSUME NEW data \in [Keys -> Entries \cup {None}], NEW l \in Listings
  PROVE  PutAll(data, l) \in [Keys -> Entries \cup {None}]
<1>1. ASSUME NEW k \in Keys PROVE PutAll(data, l)[k] \in Entries \cup {None}
  <2>1. CASE For(k, l) = {}
    BY <2>1, PutLast
  <2>2. CASE For(k, l) # {}
    <3>1. PICK p \in For(k, l) : PutAll(data, l)[k] = <<Order[p], l[p]>>
      BY <2>2, PutLast
    <3>2. Order[p] \in Items /\ l[p] \in Nat \ {Absent}
      BY Positions DEF For, Listed, Listings
    <3> QED
      BY <3>1, <3>2 DEF Entries
  <2> QED
    BY <2>1, <2>2
<1>2. PutAll(data, l) = [k \in Keys |-> PutAll(data, l)[k]]
  BY DEF PutAll
<1> QED
  BY <1>1, <1>2

---------------------------------------------------------------------------
(* The inductive invariant *)

\* Where a refresh checks for changes, and where it loads what has changed.
Checking == {"watchers", "collections", "flags"}
Loading  == {"load", "watched", "apply"}

\* Items that are no snapshot references; what is watched, and what is a flag.
Plain      == Items \ References
Watched(i) == \E m \in DOMAIN watchers : watchers[m].item = i
Flag(i)    == Selects({"flags"}, i)

\* The only source of its key.
Alone(j) ==
    /\ \A s \in Sources(KeyFrom(j)) : s = <<"store", j>>
    /\ ~TakenForSetting(KeyFrom(j))

\* Options as the methods leave them.
OptionsInv ==
    /\ \A n \in OfKind({"snapshot"}) : selectors[n].items \cap References = {}
    /\ registerAll => watchers = <<>>
    /\ pc = "configure" => ~loaded /\ loc = Blank
    /\ loaded \/ pc \in {"configure", "idle", "watched"} \/ (pc = "load" /\ loc.full)

\* Recorded pages: of selectors that have any, with items of theirs, in versions that
\* have been written.
RecordsInv(et) ==
    /\ DOMAIN et = Sel
    /\ \A n \in OfKind({"snapshot"}) : et[n] = <<>>
    /\ \A n \in Sel : \A k \in DOMAIN et[n] : \A p \in Listed(et[n][k]) :
          Order[p] \in selectors[n].items /\ et[n][k][p] <= writes

\* Recorded versions of watched items.
WatchedInv(w) == \A i \in Items : w[i] <= writes /\ (w[i] # Absent => Watched(i))

\* The keys of the recorded flags.
KeysInv(et, keys) ==
    \A n \in OfKind({"flags"}) : \A k \in DOMAIN et[n] : \A p \in Listed(et[n][k]) :
        Order[p] \in Plain => KeyOf[Order[p]] \in keys

\* A flag is recorded as it is in the store now, or not at all.
Fresh(f, et) ==
    /\ store[f] # Absent
    /\ \E n \in OfKind({"flags"}) : \E k \in DOMAIN et[n] : \E p \in DOMAIN Order :
          Order[p] = f /\ et[n][k][p] = store[f]
\* No recorded page of the selectors of these kinds has the item.
Unlisted(f, et, K) ==
    \A n \in OfKind(K) : \A k \in DOMAIN et[n] : \A p \in DOMAIN Order :
        Order[p] = f => et[n][k][p] = Absent
\* A flag that gives its key the value, as the store has it, or that has none.
FreshFlag(f, et)      == Alone(f) /\ Fresh(f, et)
GoneFlag(f, et, K, w) == Alone(f) /\ Flag(f) /\ w[f] = Absent /\ Unlisted(f, et, K)

\* The same of an item that is no flag but watched.
OnlyWatched(j)     == Alone(j) /\ Watched(j) /\ ~Flag(j)
FreshWatched(j, w) == OnlyWatched(j) /\ w[j] = store[j] /\ ~Gone(j)
GoneWatched(j, w)  ==
    /\ OnlyWatched(j) /\ ~ReadTwice(j)
    /\ w[j] = Absent \/ Sets(<<j, w[j]>>) = {}

\* What is recorded of selector n, the snapshots of td not yet: version v at position p.
Recorded(et, td, n, p, v) ==
    /\ v # Absent
    /\ IF selectors[n].kind = "snapshot" THEN n \notin td /\ v = Listing(n, 0)[p]
       ELSE \E k \in DOMAIN et[n] : et[n][k][p] = v

\* The last recorded entry for a key.
Wins(d, k, et, td) ==
    \/ /\ d = None
       /\ \A n \in Sel, p \in DOMAIN Order, v \in Nat :
             Recorded(et, td, n, p, v) => k \notin Sets(<<Order[p], v>>)
    \/ \E n \in Sel, p \in DOMAIN Order, v \in Nat :
          /\ Recorded(et, td, n, p, v) /\ d = <<Order[p], v>> /\ k \in Sets(d)
          /\ \A n2 \in Sel, p2 \in DOMAIN Order, v2 \in Nat :
                Recorded(et, td, n2, p2, v2) /\ k \in Sets(<<Order[p2], v2>>) =>
                    n2 < n \/ (n2 = n /\ p2 <= p)

\* What is held agrees with what is recorded, as far as that is still in the store.
HeldInv ==
    /\ RecordsInv(etags) /\ WatchedInv(watched) /\ KeysInv(etags, ffKeys)
    /\ ffKeys \subseteq FlagKeys
    /\ \A f \in Plain :
          FreshFlag(f, etags) /\ Entry(f) \notin Dropped => mapped[KeyOf[f]] = Entry(f)
    /\ \A f \in Plain :
          GoneFlag(f, etags, {"keys", "flags"}, watched) => mapped[KeyOf[f]] = None
    /\ \A j \in Items : FreshWatched(j, watched) => mapped[KeyFrom(j)] = MapSetting(Entry(j))
    /\ \A j \in Items : GoneWatched(j, watched) => mapped[KeyFrom(j)] = None
    /\ registerAll => \A k \in Keys \ FlagKeys :
          \E d \in Entries \cup {None} : Wins(d, k, etags, {}) /\ mapped[k] = MapSetting(d)

\* Individual changes are those of watchers that do not reload everything.
ChangesInv ==
    \A c \in DOMAIN loc.changes :
        /\ loc.changes[c][2] <= writes
        /\ \E m \in DOMAIN watchers : watchers[m].item = loc.changes[c][1] /\ ~watchers[m].all

\* The watchers still to visit are the last ones.
Left    == Len(watchers) - Len(loc.kvs)
KvsInv  == /\ Len(loc.kvs) <= Len(watchers)
           /\ \A m \in DOMAIN loc.kvs : loc.kvs[m] = watchers[Left + m]
Visited(i) == \E m \in 1..Left : watchers[m].item = i
Pending(i) == \E m \in Left + 1..Len(watchers) : watchers[m].item = i

\* A change that was seen is newer than any record: if the record is what the store has
\* now, so is the change.
CheckInv ==
    \A f \in Plain : Fresh(f, etags) =>
        \A c \in DOMAIN loc.changes : loc.changes[c][1] = f => loc.changes[c][2] = store[f]

\* What the load under way selects.
Kinds == IF loc.full THEN {"keys", "flags", "snapshot"} ELSE {"flags"}

\* How far a load is: selectors still to visit have recorded nothing, the one that is
\* visited no more than it has passed.
ProgressInv ==
    /\ loc.todo \subseteq OfKind(Kinds)
    /\ pc # "load" => loc.todo = {} /\ loc.full = (pc = "watched")
    /\ pc # "watched" => loc.watched = Blank.watched
    /\ ~loc.full => \A n \in Sel : selectors[n].kind # "flags" => loc.etags[n] = etags[n]
    /\ \A n \in loc.todo :
          \/ loc.etags[n] = <<>>
          \/ /\ \A m \in loc.todo : n <= m
             /\ \A k \in DOMAIN loc.etags[n] : \A p \in Listed(loc.etags[n][k]) : p <= loc.after
    /\ loc.full => \A n \in loc.todo : \A m \in Sel : m > n => m \in loc.todo
    /\ loc.after # 0 =>
          \E n \in loc.todo : selectors[n].kind # "snapshot" /\ \A m \in loc.todo : n <= m

\* Where the loaded data come from.
DataInv ==
    \A k \in Keys : loc.data[k] # None =>
        /\ k \in Sets(loc.data[k]) /\ loc.data[k][2] <= writes
        /\ \/ Selects(Kinds, loc.data[k][1])
           \/ pc = "watched" /\ Visited(loc.data[k][1])

\* What is loaded agrees with what the load has recorded, as far as that is still in the
\* store.
LoadInv ==
    /\ RecordsInv(loc.etags) /\ WatchedInv(loc.watched) /\ KeysInv(loc.etags, loc.keys)
    /\ \A k \in loc.keys : \E n \in OfKind({"flags"}) : \E h \in DOMAIN loc.etags[n] :
          \E p \in Listed(loc.etags[n][h]) : Order[p] \in Plain /\ KeyOf[Order[p]] = k
    /\ ProgressInv /\ DataInv
    /\ \A f \in Plain : FreshFlag(f, loc.etags) => loc.data[KeyOf[f]] = Entry(f)
    /\ \A f \in Plain :
          GoneFlag(f, loc.etags, Kinds \ {"snapshot"}, loc.watched) => loc.data[KeyOf[f]] = None
    /\ \A j \in Items : FreshWatched(j, loc.watched) => loc.data[KeyFrom(j)] = Entry(j)
    /\ pc = "watched" => \A j \in Items :
          OnlyWatched(j) /\ ~ReadTwice(j) /\ ~Pending(j) /\ loc.data[KeyFrom(j)] # None =>
              loc.watched[j] = loc.data[KeyFrom(j)][2]
    /\ registerAll /\ loc.full =>
          \A k \in Keys : Wins(loc.data[k], k, loc.etags, loc.todo)

\* What is held agrees with what is recorded, and what is loaded with what the load has
\* recorded so far; a check has seen no change that the records hide.
IInv ==
    /\ TypeOK /\ OptionsInv
    /\ writes >= 1 /\ \A i \in Items : store[i] <= writes
    /\ loaded => HeldInv
    /\ ChangesInv /\ KvsInv
    /\ pc \in Checking => CheckInv /\ loc.todo \subseteq Sel
    /\ pc \in Loading => LoadInv

---------------------------------------------------------------------------
(* What depends on the options, and on the store *)

\* The options are those of the call that built the provider.
LEMMA SameOptions ==
  ASSUME UNCHANGED options
  PROVE  /\ Sel' = Sel /\ \A K : OfKind(K)' = OfKind(K)
         /\ FlagKeys' = FlagKeys
         /\ \A K, i : Selects(K, i)' = Selects(K, i)
         /\ \A i : Watched(i)' = Watched(i) /\ Flag(i)' = Flag(i) /\ ReadTwice(i)' = ReadTwice(i)
         /\ \A i : Alone(i)' = Alone(i) /\ OnlyWatched(i)' = OnlyWatched(i)
<1>1. selectors' = selectors /\ watchers' = watchers
  BY DEF options
<1>2. Sel' = Sel
  BY <1>1 DEF Sel
<1>3. \A K : OfKind(K)' = OfKind(K)
  BY <1>1, <1>2 DEF OfKind
<1>4. FlagKeys' = FlagKeys
  BY <1>1, <1>3 DEF FlagKeys
<1>5. \A K, i : Selects(K, i)' = Selects(K, i)
  BY <1>1, <1>3 DEF Selects
<1>6. \A i : Watched(i)' = Watched(i) /\ Flag(i)' = Flag(i)
  BY <1>1, <1>5 DEF Watched, Flag
<1>7. \A i : ReadTwice(i)' = ReadTwice(i)
  BY <1>1, <1>5 DEF ReadTwice
<1>8. \A k : Sources(k)' = Sources(k)
  <2> TAKE k
  <2>1. \A j : (\E n \in OfKind({"keys", "flags"})' : j \in selectors'[n].items)
                 = (\E n \in OfKind({"keys", "flags"}) : j \in selectors[n].items)
    BY <1>1, <1>3
  <2>2. OfKind({"snapshot"})' = OfKind({"snapshot"})
    BY <1>3
  <2> QED
    BY <1>1, <2>1, <2>2 DEF Sources
<1>9. \A k : TakenForSetting(k)' = TakenForSetting(k)
  BY <1>1 DEF TakenForSetting
<1>10. \A i : Alone(i)' = Alone(i)
  BY <1>8, <1>9 DEF Alone
<1>11. \A i : OnlyWatched(i)' = OnlyWatched(i)
  BY <1>6, <1>10 DEF OnlyWatched
<1> QED
  BY <1>2, <1>3, <1>4, <1>5, <1>6, <1>7, <1>10, <1>11

\* What is held and what may be watched is the same as long as no provider, option or
\* key-value changes.
LEMMA SameHeld ==
  ASSUME UNCHANGED <<options, service, provider>>
  PROVE  HeldInv' = HeldInv
<1>1. /\ UNCHANGED options /\ store' = store /\ writes' = writes /\ selectors' = selectors
      /\ mapped' = mapped /\ watched' = watched /\ etags' = etags /\ ffKeys' = ffKeys
      /\ registerAll' = registerAll
  BY DEF options, service, provider
<1>2. /\ Sel' = Sel /\ \A K : OfKind(K)' = OfKind(K)
      /\ FlagKeys' = FlagKeys
      /\ \A i : Watched(i)' = Watched(i) /\ Flag(i)' = Flag(i) /\ ReadTwice(i)' = ReadTwice(i)
      /\ \A i : Alone(i)' = Alone(i) /\ OnlyWatched(i)' = OnlyWatched(i)
  BY <1>1, SameOptions
<1>3. \A i : Entry(i)' = Entry(i)
  BY <1>1 DEF Entry
<1>4. \A i : Gone(i)' = Gone(i)
  BY <1>1, <1>3 DEF Gone
<1>5. RecordsInv(etags)' = RecordsInv(etags)
  BY <1>1, <1>2 DEF RecordsInv
<1>6. WatchedInv(watched)' = WatchedInv(watched)
  BY <1>1, <1>2 DEF WatchedInv
<1>7. KeysInv(etags, ffKeys)' = KeysInv(etags, ffKeys)
  BY <1>1, <1>2 DEF KeysInv
<1>8. \A f : FreshFlag(f, etags)' = FreshFlag(f, etags)
  <2>1. \A f : Fresh(f, etags)' = Fresh(f, etags)
    BY <1>1, <1>2 DEF Fresh
  <2> QED
    BY <2>1, <1>2 DEF FreshFlag
<1>9. \A f : GoneFlag(f, etags, {"keys", "flags"}, watched)'
               = GoneFlag(f, etags, {"keys", "flags"}, watched)
  <2>1. \A f : Unlisted(f, etags, {"keys", "flags"})' = Unlisted(f, etags, {"keys", "flags"})
    BY <1>1, <1>2 DEF Unlisted
  <2> QED
    BY <2>1, <1>1, <1>2 DEF GoneFlag
<1>10. \A j : FreshWatched(j, watched)' = FreshWatched(j, watched)
  BY <1>1, <1>2, <1>4 DEF FreshWatched
<1>11. \A j : GoneWatched(j, watched)' = GoneWatched(j, watched)
  BY <1>1, <1>2 DEF GoneWatched
<1>12. \A d, k : Wins(d, k, etags, {})' = Wins(d, k, etags, {})
  <2>1. \A n, p : VersionFor(n, p)' = VersionFor(n, p)
    BY <1>1 DEF VersionFor
  <2>2. \A n : Listing(n, 0)' = Listing(n, 0)
    BY <1>1, <2>1 DEF Listing
  <2>3. \A n, p, v : Recorded(etags, {}, n, p, v)' = Recorded(etags, {}, n, p, v)
    BY <1>1, <2>2 DEF Recorded
  <2> QED
    BY <1>2, <2>3 DEF Wins
<1>13. (registerAll => \A k \in Keys \ FlagKeys :
          \E d \in Entries \cup {None} : Wins(d, k, etags, {}) /\ mapped[k] = MapSetting(d))'
       = (registerAll => \A k \in Keys \ FlagKeys :
          \E d \in Entries \cup {None} : Wins(d, k, etags, {}) /\ mapped[k] = MapSetting(d))
  BY <1>1, <1>2, <1>12
<1> QED
  BY <1>1, <1>2, <1>3, <1>5, <1>6, <1>7, <1>8, <1>9, <1>10, <1>11, <1>13 DEF HeldInv

---------------------------------------------------------------------------
(* Types *)

\* The locals of a refresh.
Locals(S) ==
    [todo : SUBSET S, kvs : Seq(Watchers), after : 0..Len(Order), page : Nat,
     full : BOOLEAN, changes : Seq(Items \X Nat),
     data : [Keys -> Entries \cup {None}], etags : Seq(Seq(Listings)),
     keys : SUBSET Keys, watched : [Items -> Nat]]

\* The selectors are numbered from one, each of one of three kinds.
LEMMA SelType ==
  ASSUME TypeOK
  PROVE  /\ Sel = 1..Len(selectors) /\ Len(selectors) \in Nat /\ Sel \subseteq Nat
         /\ \A n \in Sel : /\ selectors[n].kind \in {"keys", "flags", "snapshot"}
                           /\ selectors[n].items \subseteq Items
         /\ OfKind({"keys", "flags", "snapshot"}) = Sel
<1>1. selectors \in Seq([kind : {"keys", "flags", "snapshot"}, items : SUBSET Items])
  BY DEF TypeOK
<1>2. Sel = 1..Len(selectors) /\ Len(selectors) \in Nat
  BY <1>1 DEF Sel
<1>3. \A n \in Sel : selectors[n] \in [kind : {"keys", "flags", "snapshot"}, items : SUBSET Items]
  <2> DEFINE R == [kind : {"keys", "flags", "snapshot"}, items : SUBSET Items]
  <2>1. selectors \in Seq(R)
    BY <1>1
  <2> HIDE DEF R
  <2>2. \A n \in Sel : selectors[n] \in R
    BY <2>1, <1>2
  <2> QED
    BY <2>2 DEF R
<1>4. \A n \in Sel : /\ selectors[n].kind \in {"keys", "flags", "snapshot"}
                    /\ selectors[n].items \in SUBSET Items
  <2> TAKE n \in Sel
  <2>1. selectors[n] \in [kind : {"keys", "flags", "snapshot"}, items : SUBSET Items]
    BY <1>3
  <2> QED
    BY <2>1
<1>5. OfKind({"keys", "flags", "snapshot"}) = Sel
  BY <1>4 DEF OfKind
<1>6. Sel \subseteq Nat
  BY <1>2
<1> QED
  BY <1>2, <1>4, <1>5, <1>6

\* The locals with which a refresh begins.
LEMMA BlankType == ASSUME NEW S PROVE Blank \in Locals(S)
<1>1. 0 \in 0..Len(Order) /\ Absent \in Nat
  BY Positions DEF Absent
<1>2. NoData \in [Keys -> Entries \cup {None}]
  BY DEF NoData
<1>3. <<>> \in Seq(Watchers) /\ <<>> \in Seq(Items \X Nat) /\ <<>> \in Seq(Seq(Listings))
  OBVIOUS
<1> QED
  BY <1>1, <1>2, <1>3 DEF Blank, Locals

\* A load of everything records from nothing, one of the flags goes on from the records
\* of the other selectors.
LEMMA BeginLoadType ==
  ASSUME TypeOK, NEW full \in BOOLEAN, BeginLoad(full),
         full \/ DOMAIN etags = Sel
  PROVE  pc' = "load" /\ loc' \in Locals(Sel)
<1> DEFINE T == OfKind(IF full THEN {"keys", "flags", "snapshot"} ELSE {"flags"})
           E == [n \in Sel |-> IF full \/ selectors[n].kind = "flags" THEN <<>> ELSE etags[n]]
<1>1. T \in SUBSET Sel
  BY DEF OfKind
<1>2. E \in Seq(Seq(Listings))
  <2>1. \A n \in Sel : E[n] \in Seq(Listings)
    <3>1. etags \in Seq(Seq(Listings))
      BY DEF TypeOK
    <3>2. \A n \in DOMAIN etags : etags[n] \in Seq(Listings)
      BY <3>1
    <3>3. <<>> \in Seq(Listings)
      OBVIOUS
    <3> QED
      BY <3>2, <3>3
  <2>2. E \in [1..Len(selectors) -> Seq(Listings)] /\ Len(selectors) \in Nat
    BY <2>1, SelType
  <2> HIDE DEF E
  <2> QED
    BY <2>2
<1>3. loc.changes \in Seq(Items \X Nat)
  BY DEF TypeOK
<1>4. Blank \in Locals(Sel)
  BY BlankType
<1>5. pc' = "load" /\ loc' = [Blank EXCEPT !.full = full, !.changes = loc.changes, !.todo = T, !.etags = E]
  BY DEF BeginLoad, Goto
<1> HIDE DEF T, E
<1> QED
  BY <1>1, <1>2, <1>3, <1>4, <1>5 DEF Locals

\* A local that is set to a value of its type.
LEMMA LocalsExcept ==
  ASSUME NEW S, NEW l \in Locals(S)
  PROVE  /\ \A v \in Seq(Watchers) : [l EXCEPT !.kvs = v] \in Locals(S)
         /\ \A v \in SUBSET S : [l EXCEPT !.todo = v] \in Locals(S)
         /\ \A v \in 0..Len(Order) : [l EXCEPT !.after = v] \in Locals(S)
         /\ \A v \in Nat : [l EXCEPT !.page = v] \in Locals(S)
         /\ \A v \in Seq(Items \X Nat) : [l EXCEPT !.changes = v] \in Locals(S)
BY DEF Locals

\* A list without an element of it is a list of the others.
LEMMA RemoveFirstType ==
  ASSUME NEW S, NEW s \in Seq(S), NEW e
  PROVE  RemoveFirst(s, e) \in Seq(S)
<1>1. CASE \E i \in 1..Len(s) : s[i] = e
  <2> DEFINE I == {i \in 1..Len(s) : s[i] = e}
             m == Min(I)
  <2>1. SelectInSeq(s, LAMBDA v : v = e) = m
    BY <1>1 DEF SelectInSeq
  <2>2. m \in 1..Len(s)
    <3>1. I \subseteq Nat /\ I # {}
      BY <1>1
    <3>2. m \in I
      BY <3>1, MinOf
    <3> QED
      BY <3>2
  <2>3. RemoveFirst(s, e) = SubSeq(s, 1, m - 1) \o SubSeq(s, m + 1, Len(s))
    BY <1>1, <2>1 DEF RemoveFirst, RemoveAt
  <2> HIDE DEF m
  <2>4. SubSeq(s, 1, m - 1) \in Seq(S) /\ SubSeq(s, m + 1, Len(s)) \in Seq(S)
    BY <2>2
  <2> QED
    BY <2>3, <2>4
<1>2. CASE ~\E i \in 1..Len(s) : s[i] = e
  BY <1>2 DEF RemoveFirst
<1> QED
  BY <1>1, <1>2

\* A sequence to which an element is moved or added is one of the same elements.
LEMMA AppendUniqueType ==
  ASSUME NEW S, NEW s \in Seq(S), NEW e \in S
  PROVE  AppendUnique(s, e) \in Seq(S)
BY RemoveFirstType DEF AppendUnique

\* The watchers of one call, in some order.
LEMMA SetToSeqsType ==
  ASSUME NEW S, S \subseteq Watchers, NEW s \in SetToSeqs(S)
  PROVE  s \in Seq(Watchers) /\ (S = {} => s = <<>>)
<1>1. IsFiniteSet(S)
  <2>1. IsFiniteSet(Items)
    <3>1. Order \in Surjection(1..Len(Order), Items) /\ Len(Order) \in Nat
      <4>1. Order \in Seq(Items)
        BY SelectionAssumption
      <4> QED
        BY <4>1, Positions DEF Surjection
    <3> QED
      BY <3>1, FS_Interval, FS_Surjection
  <2>2. IsFiniteSet(Items \X BOOLEAN)
    <3>1. IsFiniteSet(BOOLEAN)
      <4>1. IsFiniteSet({TRUE}) /\ IsFiniteSet({FALSE})
        BY FS_Singleton
      <4>2. IsFiniteSet({TRUE} \cup {FALSE})
        BY <4>1, FS_Union
      <4>3. {TRUE} \cup {FALSE} = BOOLEAN
        OBVIOUS
      <4> QED
        BY <4>2, <4>3
    <3> QED
      BY <2>1, <3>1, FS_Product
  <2>3. IsFiniteSet(Watchers)
    <3> DEFINE g == [x \in Items \X BOOLEAN |-> [item |-> x[1], all |-> x[2]]]
    <3>1. g \in [Items \X BOOLEAN -> Watchers]
      BY DEF Watchers
    <3>2. \A w \in Watchers : \E x \in Items \X BOOLEAN : g[x] = w
      <4> TAKE w \in Watchers
      <4>1. w.item \in Items /\ w.all \in BOOLEAN /\ w = [item |-> w.item, all |-> w.all]
        BY DEF Watchers
      <4>2. <<w.item, w.all>> \in Items \X BOOLEAN /\ g[<<w.item, w.all>>] = w
        BY <4>1
      <4> QED
        BY <4>2
    <3> HIDE DEF g
    <3>3. g \in Surjection(Items \X BOOLEAN, Watchers)
      BY <3>1, <3>2 DEF Surjection
    <3> QED
      BY <2>2, <3>3, FS_Surjection
  <2> QED
    BY <2>3, FS_Subset
<1>2. Cardinality(S) \in Nat
  BY <1>1, FS_CardinalityType
<1>3. s \in [1..Cardinality(S) -> S]
  BY DEF SetToSeqs
<1>4. s \in Seq(Watchers)
  BY <1>2, <1>3
<1>5. S = {} => s = <<>>
  <2> SUFFICES ASSUME S = {} PROVE s = <<>>
    OBVIOUS
  <2>1. Cardinality(S) = 0
    BY FS_EmptySet
  <2> QED
    BY <1>3, <2>1
<1> QED
  BY <1>4, <1>5

\* The control points.
Points == {"configure", "idle", "watchers", "collections", "flags", "load", "watched", "apply"}

\* A step that changes the control point and the locals only.
LEMMA InsideStep ==
  ASSUME IInv, UNCHANGED <<options, service, provider>>,
         pc' \in Points \ {"configure"}, loc' \in Locals(Sel),
         loaded \/ pc' \in {"idle", "watched"} \/ (pc' = "load" /\ loc'.full),
         ChangesInv', KvsInv', pc' \in Checking => CheckInv', pc' \in Loading => LoadInv'
  PROVE  IInv'
<1> USE DEF IInv
<1>1. /\ UNCHANGED options /\ store' = store /\ writes' = writes /\ selectors' = selectors
      /\ selectCalled' = selectCalled /\ ffWatchers' = ffWatchers /\ watchers' = watchers /\ calls' = calls
      /\ mapped' = mapped /\ watched' = watched /\ etags' = etags /\ ffKeys' = ffKeys
      /\ registerAll' = registerAll /\ loaded' = loaded
  BY DEF options, service, provider
<1>2. Sel' = Sel
  BY <1>1, SameOptions
<1>3. TypeOK'
  BY <1>1, <1>2 DEF TypeOK, Locals, Points
<1>4. OptionsInv'
  BY <1>1, SameOptions DEF OptionsInv, Points
<1>5. loaded' => HeldInv'
  BY <1>1, SameHeld
<1>6. loc'.todo \subseteq Sel'
  BY <1>2 DEF Locals
<1> QED
  BY <1>1, <1>3, <1>4, <1>5, <1>6

\* What the type invariant says of the locals.
LEMMA LocType ==
  ASSUME TypeOK
  PROVE  /\ loc \in Locals(Sel)
         /\ loc.todo \subseteq Sel /\ loc.todo \subseteq Nat
         /\ loc.kvs \in Seq(Watchers) /\ watchers \in Seq(Watchers)
         /\ loc.after \in 0..Len(Order) /\ loc.page \in Nat /\ loc.full \in BOOLEAN
         /\ loc.changes \in Seq(Items \X Nat)
         /\ loc.data \in [Keys -> Entries \cup {None}]
         /\ loc.etags \in Seq(Seq(Listings)) /\ loc.keys \subseteq Keys
         /\ loc.watched \in [Items -> Nat]
BY SelType DEF TypeOK, Locals

\* A failure forgets what the attempt has done.
LEMMA FailStep ==
  ASSUME IInv, Fail PROVE IInv'
<1> USE DEF IInv
<1>1. pc' = "idle" /\ loc' = Blank /\ UNCHANGED <<options, service, provider>>
  BY DEF Fail, Goto
<1>2. loc' \in Locals(Sel)
  BY <1>1, BlankType
<1>3. ChangesInv' /\ KvsInv'
  <2>1. loc'.changes = <<>> /\ loc'.kvs = <<>>
    BY <1>1 DEF Blank
  <2>2. watchers' \in Seq(Watchers)
    BY <1>1 DEF TypeOK, options
  <2> QED
    BY <2>1, <2>2 DEF ChangesInv, KvsInv
<1> QED
  BY <1>1, <1>2, <1>3, InsideStep DEF Points, Checking, Loading

\* A load begins with nothing loaded and nothing recorded of what it will visit.
LEMMA BeginLoadStep ==
  ASSUME IInv, UNCHANGED <<options, service, provider>>, NEW full \in BOOLEAN, BeginLoad(full),
         full \/ loaded
  PROVE  IInv'
<1> USE DEF IInv
<1>1. /\ UNCHANGED options /\ store' = store /\ writes' = writes /\ selectors' = selectors
      /\ watchers' = watchers /\ registerAll' = registerAll /\ loaded' = loaded /\ etags' = etags
  BY DEF options, service, provider
<1>2. /\ Sel' = Sel /\ \A K : OfKind(K)' = OfKind(K)
      /\ \A K, i : Selects(K, i)' = Selects(K, i)
  BY <1>1, SameOptions
<1>3. full \/ RecordsInv(etags)
  BY DEF HeldInv
<1>4. pc' = "load" /\ loc' \in Locals(Sel)
  BY <1>3, BeginLoadType DEF RecordsInv
<1>5. loc' = [Blank EXCEPT !.full = full, !.changes = loc.changes,
                 !.todo = OfKind(IF full THEN {"keys", "flags", "snapshot"} ELSE {"flags"}),
                 !.etags = [n \in Sel |-> IF full \/ selectors[n].kind = "flags" THEN <<>> ELSE etags[n]]]
  BY DEF BeginLoad, Goto
<1>6. /\ loc'.full = full /\ loc'.changes = loc.changes /\ loc'.kvs = <<>> /\ loc'.keys = {}
      /\ loc'.after = 0
      /\ loc'.data = NoData /\ loc'.watched = [i \in Items |-> Absent]
      /\ loc'.todo = OfKind(IF full THEN {"keys", "flags", "snapshot"} ELSE {"flags"})
      /\ loc'.etags = [n \in Sel |-> IF full \/ selectors[n].kind = "flags" THEN <<>> ELSE etags[n]]
  BY <1>5 DEF Blank
<1>7. ChangesInv'
  BY <1>1, <1>6 DEF ChangesInv
<1>8. KvsInv'
  <2>1. watchers' \in Seq(Watchers)
    BY <1>1 DEF TypeOK
  <2> QED
    BY <1>6, <2>1 DEF KvsInv
<1>9. writes \in Nat
  BY DEF TypeOK
<1>10. Blank.watched = [i \in Items |-> Absent]
  BY DEF Blank
<1>11. \A n \in OfKind({"flags"}) : n \in Sel /\ loc'.etags[n] = <<>>
  BY <1>6 DEF OfKind
<1>12. full => \A n \in Sel : loc'.etags[n] = <<>>
  BY <1>6
<1>13. full => loc'.todo = Sel
  BY <1>6, SelType
<1>14. LoadInv'
  <2>1. RecordsInv(loc.etags)'
    <3>1. DOMAIN loc'.etags = Sel
      BY <1>6
    <3>2. \A n \in OfKind({"snapshot"}) : loc'.etags[n] = <<>>
      BY <1>3, <1>6, <1>12 DEF RecordsInv, OfKind
    <3>3. \A n \in Sel : loc'.etags[n] = <<>> \/ (~full /\ loc'.etags[n] = etags[n])
      BY <1>6
    <3>4. \A n \in Sel : \A k \in DOMAIN loc'.etags[n] : \A p \in Listed(loc'.etags[n][k]) :
             Order[p] \in selectors[n].items /\ loc'.etags[n][k][p] <= writes
      BY <1>3, <3>3 DEF RecordsInv
    <3> QED
      BY <3>1, <3>2, <3>4, <1>1, <1>2 DEF RecordsInv
  <2>2. WatchedInv(loc.watched)'
    BY <1>1, <1>6, <1>9 DEF WatchedInv, Absent
  <2>3. KeysInv(loc.etags, loc.keys)'
    BY <1>2, <1>11 DEF KeysInv
  <2>4. \A k : k \notin loc'.keys
    BY <1>6
  <2>5. ProgressInv'
    <3>1. Kinds' = IF full THEN {"keys", "flags", "snapshot"} ELSE {"flags"}
      BY <1>6 DEF Kinds
    <3>2. loc'.todo \subseteq OfKind(Kinds)'
      BY <1>2, <1>6, <3>1 DEF OfKind
    <3>3. \A n \in loc'.todo : loc'.etags[n] = <<>>
      BY <1>6, <1>11, <1>12, <1>13
    <3>4. full => \A m \in Sel : m \in loc'.todo
      BY <1>13
    <3> QED
      BY <1>1, <1>2, <1>4, <1>6, <1>10, <3>2, <3>3, <3>4 DEF ProgressInv
  <2>6. \A k \in Keys : loc'.data[k] = None
    BY <1>6 DEF NoData
  <2>7. DataInv'
    BY <2>6 DEF DataInv
  <2>8. \A f : ~FreshFlag(f, loc.etags)'
    BY <1>2, <1>11 DEF FreshFlag, Fresh
  <2>9. \A f \in Plain : KeyOf[f] \in Keys
    BY KeyFacts DEF Plain
  <2>10. \A j \in Items : ~FreshWatched(j, loc.watched)'
    BY <1>1, <1>6 DEF FreshWatched, Gone
  <2>11. (registerAll /\ loc.full => \A k \in Keys : Wins(loc.data[k], k, loc.etags, loc.todo))'
    <3> SUFFICES ASSUME full, NEW k \in Keys PROVE Wins(loc.data[k], k, loc.etags, loc.todo)'
      BY <1>6
    <3>1. \A n \in Sel : \A p, v : ~Recorded(loc.etags, loc.todo, n, p, v)'
      BY <1>12, <1>13 DEF Recorded
    <3> QED
      BY <2>6, <3>1, <1>2 DEF Wins
  <2> QED
    BY <2>1, <2>2, <2>3, <2>4, <2>5, <2>6, <2>7, <2>8, <2>9, <2>10, <2>11, <1>4 DEF LoadInv
<1> QED
  BY <1>4, <1>6, <1>7, <1>8, <1>14, InsideStep DEF Points, Checking, Loading

\* The listings of selectors and of requested items.
LEMMA ListingType ==
  ASSUME TypeOK
  PROVE  /\ \A n \in Sel, p \in Nat : Listing(n, p) \in Listings
         /\ \A I : Requested(I) \in Listings
<1>1. \A i \in Items : store[i] \in Nat
  BY DEF TypeOK
<1>2. \A n \in Sel, i \in Items : VersionFor(n, i) \in Nat
  BY <1>1 DEF VersionFor
<1> QED
  BY <1>1, <1>2, Positions DEF Listing, Requested, Listings, Absent

\* A page behind which the listing goes on is not empty.
LEMMA PageGoesOn ==
  ASSUME NEW l \in Listings, PageOf(l) # l
  PROVE  /\ Listed(l) # {} /\ Listed(PageOf(l)) # {} /\ PageOf(l) \in Listings
         /\ Behind(PageOf(l)) \in Listed(PageOf(l)) /\ Behind(PageOf(l)) \in 1..Len(Order)
         /\ \A p \in Listed(PageOf(l)) : p <= Behind(PageOf(l))
<1>1. PageOf(l) \in Listings /\ (Listed(l) # {} => Listed(PageOf(l)) # {})
  BY PageBegins
<1>2. Listed(l) # {}
  <2> SUFFICES ASSUME Listed(l) = {} PROVE FALSE
    OBVIOUS
  <2>1. \A p \in DOMAIN Order : l[p] = Absent /\ PageOf(l)[p] = Absent
    BY DEF Listed, PageOf
  <2>2. l = [p \in DOMAIN Order |-> l[p]] /\ PageOf(l) = [p \in DOMAIN Order |-> PageOf(l)[p]]
    BY <1>1 DEF Listings
  <2> QED
    BY <2>1, <2>2
<1> QED
  BY <1>1, <1>2, BehindPage

\* A step from check to check that has seen no other change.
LEMMA CheckStep ==
  ASSUME IInv, UNCHANGED <<options, service, provider>>, pc \in Checking, pc' \in Checking,
         loc' \in Locals(Sel), loc'.changes = loc.changes, KvsInv'
  PROVE  IInv'
<1> USE DEF IInv
<1>1. /\ UNCHANGED options /\ store' = store /\ writes' = writes /\ selectors' = selectors
      /\ watchers' = watchers /\ etags' = etags /\ loaded' = loaded
  BY DEF options, service, provider
<1>2. loaded
  BY DEF OptionsInv, Checking
<1>3. ChangesInv'
  BY <1>1 DEF ChangesInv
<1>4. \A f : Fresh(f, etags)' = Fresh(f, etags)
  BY <1>1, SameOptions DEF Fresh
<1>5. CheckInv'
  BY <1>1, <1>4 DEF CheckInv
<1> QED
  BY <1>2, <1>3, <1>5, InsideStep DEF Points, Checking, Loading

\* The initial load begins with nothing recorded and nothing loaded.
LEMMA InitializeStep ==
  ASSUME IInv, Initialize PROVE IInv'
BY BeginLoadStep DEF Initialize

\* A refresh begins with all watchers, or all collections, still to check.
LEMMA BeginStep ==
  ASSUME IInv, Begin PROVE IInv'
<1> USE DEF IInv
<1>1. UNCHANGED <<options, service, provider>> /\ loaded /\ pc' \in {"collections", "watchers"}
  BY DEF Begin, Goto
<1>2. watchers \in Seq(Watchers) /\ watchers' = watchers
  BY <1>1, LocType DEF options
<1>3. Blank \in Locals(Sel) /\ Blank.changes = <<>> /\ Blank.kvs = <<>>
  BY BlankType DEF Blank
<1>4. ASSUME registerAll
      PROVE  loc' \in Locals(Sel) /\ loc'.changes = <<>> /\ loc'.kvs = <<>>
  <2>1. loc' = [Blank EXCEPT !.todo = OfKind({"keys", "snapshot"})]
    BY <1>4 DEF Begin, Goto
  <2>2. OfKind({"keys", "snapshot"}) \in SUBSET Sel
    BY DEF OfKind
  <2>3. loc' \in Locals(Sel)
    BY <1>3, <2>1, <2>2, LocalsExcept
  <2> QED
    BY <2>1, <2>3 DEF Blank
<1>5. ASSUME ~registerAll
      PROVE  loc' \in Locals(Sel) /\ loc'.changes = <<>> /\ loc'.kvs = watchers
  <2>1. loc' = [Blank EXCEPT !.kvs = watchers]
    BY <1>5 DEF Begin, Goto
  <2>2. loc' \in Locals(Sel)
    BY <1>2, <1>3, <2>1, LocalsExcept
  <2> QED
    BY <2>1, <2>2 DEF Blank
<1>6. loc' \in Locals(Sel) /\ loc'.changes = <<>> /\ loc'.kvs \in {<<>>, watchers}
  BY <1>4, <1>5
<1>7. ChangesInv' /\ CheckInv'
  BY <1>6 DEF ChangesInv, CheckInv
<1>8. KvsInv'
  <2>1. CASE loc'.kvs = <<>>
    BY <1>2, <2>1 DEF KvsInv
  <2>2. CASE loc'.kvs = watchers
    <3>1. Len(watchers) \in Nat /\ Left' = 0
      BY <1>2, <2>2 DEF Left
    <3>2. \A m \in DOMAIN watchers : 0 + m = m
      BY <1>2
    <3> QED
      BY <1>2, <2>2, <3>1, <3>2 DEF KvsInv
  <2> QED
    BY <1>6, <2>1, <2>2
<1> QED
  BY <1>1, <1>6, <1>7, <1>8, InsideStep DEF Points, Loading

\* The next watcher is the first of those that are left.
LEMMA NextWatcher ==
  ASSUME TypeOK, KvsInv, loc.kvs # <<>>
  PROVE  /\ Head(loc.kvs) \in Watchers /\ Head(loc.kvs).item \in Items
         /\ Tail(loc.kvs) \in Seq(Watchers) /\ Len(Tail(loc.kvs)) = Len(loc.kvs) - 1
         /\ Left \in 0..Len(watchers) - 1 /\ Left + 1 \in DOMAIN watchers
         /\ Head(loc.kvs) = watchers[Left + 1]
         /\ \A m \in DOMAIN Tail(loc.kvs) : Tail(loc.kvs)[m] = watchers[Left + 1 + m]
<1>1. loc.kvs \in Seq(Watchers) /\ watchers \in Seq(Watchers)
  BY LocType
<1>2. Len(loc.kvs) \in Nat \ {0} /\ Len(watchers) \in Nat /\ Len(loc.kvs) <= Len(watchers)
  BY <1>1 DEF KvsInv
<1>3. /\ Tail(loc.kvs) \in Seq(Watchers) /\ Len(Tail(loc.kvs)) = Len(loc.kvs) - 1
      /\ Head(loc.kvs) = loc.kvs[1] /\ loc.kvs[1] \in Watchers
      /\ \A m \in 1..Len(loc.kvs) - 1 : Tail(loc.kvs)[m] = loc.kvs[m + 1]
  BY <1>1, <1>2
<1>4. Left \in 0..Len(watchers) - 1 /\ Left + 1 \in DOMAIN watchers
  <2>1. DOMAIN watchers = 1..Len(watchers)
    BY <1>1
  <2> QED
    BY <1>2, <2>1 DEF Left
<1>5. \A m \in 1..Len(loc.kvs) : loc.kvs[m] = watchers[Left + m]
  BY <1>1 DEF KvsInv
<1>6. Head(loc.kvs) = watchers[Left + 1]
  BY <1>2, <1>3, <1>5
<1>7. \A m \in DOMAIN Tail(loc.kvs) : Tail(loc.kvs)[m] = watchers[Left + 1 + m]
  <2> TAKE m \in DOMAIN Tail(loc.kvs)
  <2>1. m \in 1..Len(loc.kvs) - 1 /\ m + 1 \in 1..Len(loc.kvs)
    BY <1>2, <1>3
  <2>2. loc.kvs[m + 1] = watchers[Left + (m + 1)]
    BY <2>1, <1>5
  <2> QED
    BY <1>3, <1>4, <2>1, <2>2
<1>8. Head(loc.kvs).item \in Items
  BY <1>3 DEF Watchers
<1> QED
  BY <1>3, <1>4, <1>6, <1>7, <1>8

\* One watcher less is left.
LEMMA KvsStep ==
  ASSUME TypeOK, KvsInv, loc.kvs # <<>>, watchers' = watchers, loc'.kvs = Tail(loc.kvs)
  PROVE  KvsInv' /\ Left' = Left + 1
<1>1. Len(loc.kvs) \in Nat \ {0} /\ Len(watchers) \in Nat /\ Len(loc.kvs) <= Len(watchers)
  BY LocType DEF KvsInv
<1>2. Len(loc'.kvs) = Len(loc.kvs) - 1
  BY NextWatcher
<1>3. Left' = Left + 1
  <2>1. Left' = Len(watchers) - Len(loc'.kvs)
    BY DEF Left
  <2>2. Left = Len(watchers) - Len(loc.kvs)
    BY DEF Left
  <2> QED
    BY <1>1, <1>2, <2>1, <2>2
<1> QED
  BY <1>1, <1>2, <1>3, NextWatcher DEF KvsInv

\* A watched item that has changed makes everything be loaded, or its change is noted.
LEMMA CheckWatcherStep ==
  ASSUME IInv, CheckWatcher PROVE IInv'
<1> USE DEF IInv
<1> DEFINE w == Head(loc.kvs)
<1>1. /\ pc = "watchers" /\ loc.kvs # <<>> /\ UNCHANGED <<options, service, provider>> /\ loaded
      /\ watchers' = watchers /\ store' = store /\ writes' = writes /\ etags' = etags /\ UNCHANGED options
  BY DEF CheckWatcher, OptionsInv, options, service, provider
<1>2. w \in Watchers /\ Tail(loc.kvs) \in Seq(Watchers) /\ loc \in Locals(Sel)
  BY <1>1, NextWatcher, LocType
<1>3. [loc EXCEPT !.kvs = Tail(@)] \in Locals(Sel)
  BY <1>2, LocalsExcept
<1>4. CASE store[w.item] = watched[w.item]
  <2>1. pc' = "watchers" /\ loc' = [loc EXCEPT !.kvs = Tail(@)]
    BY <1>4 DEF CheckWatcher, Goto
  <2>2. loc'.kvs = Tail(loc.kvs) /\ loc'.changes = loc.changes
    BY <1>2, <2>1 DEF Locals
  <2>3. KvsInv'
    BY <1>1, <2>2, KvsStep
  <2> QED
    BY <1>1, <1>3, <2>1, <2>2, <2>3, CheckStep DEF Checking
<1>5. CASE store[w.item] # watched[w.item] /\ ReloadsAll(w)
  <2>1. BeginLoad(TRUE)
    BY <1>5 DEF CheckWatcher
  <2> QED
    BY <1>1, <2>1, BeginLoadStep
<1>6. CASE store[w.item] # watched[w.item] /\ ~ReloadsAll(w)
  <2> DEFINE e == Entry(w.item)
  <2>1. pc' = "watchers" /\ loc' = [[loc EXCEPT !.kvs = Tail(@)] EXCEPT !.changes = Append(@, e)]
    BY <1>6 DEF CheckWatcher, Goto
  <2>2. loc'.kvs = Tail(loc.kvs) /\ loc'.changes = Append(loc.changes, e)
    BY <1>2, <2>1 DEF Locals
  <2>3. KvsInv'
    BY <1>1, <2>2, KvsStep
  <2>4. w.item \in Items /\ store[w.item] \in Nat /\ e \in Items \X Nat
    BY <1>1, NextWatcher DEF TypeOK, Entry
  <2>5. loc.changes \in Seq(Items \X Nat) /\ loc'.changes \in Seq(Items \X Nat)
    BY <2>2, <2>4, LocType
  <2>6. loc' \in Locals(Sel)
    <3>1. [loc EXCEPT !.kvs = Tail(@)].changes = loc.changes
      BY <1>2 DEF Locals
    <3> QED
      BY <2>1, <2>2, <2>5, <3>1, <1>3, LocalsExcept
  <2>7. \A c \in DOMAIN loc'.changes : \/ c \in DOMAIN loc.changes /\ loc'.changes[c] = loc.changes[c]
                                      \/ loc'.changes[c] = e
    BY <2>2, <2>4, <2>5
  <2>8. e[1] = w.item /\ e[2] = store[w.item] /\ store[w.item] <= writes
    BY <2>4 DEF Entry
  <2>9. ~w.all /\ Left + 1 \in DOMAIN watchers /\ watchers[Left + 1] = w
    BY <1>1, <1>6, NextWatcher DEF ReloadsAll
  <2>10. ChangesInv'
    <3> SUFFICES ASSUME NEW c \in DOMAIN loc'.changes
                 PROVE /\ loc'.changes[c][2] <= writes
                       /\ \E m \in DOMAIN watchers : watchers[m].item = loc'.changes[c][1] /\ ~watchers[m].all
      BY <1>1 DEF ChangesInv
    <3>1. CASE c \in DOMAIN loc.changes /\ loc'.changes[c] = loc.changes[c]
      BY <3>1 DEF ChangesInv
    <3>2. CASE loc'.changes[c] = e
      BY <3>2, <2>8, <2>9
    <3> QED
      BY <2>7, <3>1, <3>2
  <2>11. CheckInv'
    <3>1. \A f : Fresh(f, etags)' = Fresh(f, etags)
      BY <1>1, SameOptions DEF Fresh
    <3>2. CheckInv
      BY <1>1 DEF Checking
    <3> SUFFICES ASSUME NEW f \in Plain, Fresh(f, etags), NEW c \in DOMAIN loc'.changes,
                        loc'.changes[c][1] = f
                 PROVE  loc'.changes[c][2] = store[f]
      BY <3>1, <1>1 DEF CheckInv
    <3>3. CASE c \in DOMAIN loc.changes /\ loc'.changes[c] = loc.changes[c]
      BY <3>2, <3>3 DEF CheckInv
    <3>4. CASE loc'.changes[c] = e
      BY <3>4, <2>8
    <3> QED
      BY <2>7, <3>3, <3>4
  <2> QED
    BY <1>1, <2>1, <2>3, <2>6, <2>10, <2>11, InsideStep DEF Points, Checking, Loading
<1> QED
  BY <1>4, <1>5, <1>6

\* A page that has changed makes everything, or the flags, be loaded.
LEMMA CheckPageStep ==
  ASSUME IInv, CheckPage PROVE IInv'
<1> USE DEF IInv
<1> DEFINE n == Min(loc.todo)
           k == loc.page + 1
           verdict == IF selectors[n].kind = "snapshot" THEN "same" ELSE Verdict(n, loc.after, k)
<1>1. /\ pc \in {"collections", "flags"} /\ loc.todo # {} /\ UNCHANGED <<options, service, provider>>
      /\ loaded /\ watchers' = watchers
  BY DEF CheckPage, OptionsInv, options
<1>2. loc \in Locals(Sel) /\ loc.todo \subseteq Sel /\ loc.after \in Nat /\ loc.page \in Nat
  BY LocType, Positions
<1>3. n \in loc.todo
  BY <1>1, LocType, MinOf
<1>4. KvsInv /\ watchers' = watchers
  BY <1>1
<1>5. CASE verdict = "changed"
  <2>1. BeginLoad(pc = "collections")
    BY <1>5 DEF CheckPage
  <2> QED
    BY <1>1, <2>1, BeginLoadStep
<1>6. CASE verdict = "next page"
  <2> DEFINE a == Behind(PageOf(Listing(n, loc.after)))
  <2>1. pc' = pc /\ loc' = [loc EXCEPT !.page = k, !.after = a]
    <3>1. /\ verdict # "changed"
          /\ CASE verdict = "changed" -> BeginLoad(pc = "collections")
               [] verdict = "next page" -> Goto(pc, [loc EXCEPT !.page = k, !.after = a])
               [] OTHER -> Goto(pc, [loc EXCEPT !.todo = @ \ {n}, !.after = 0, !.page = 0])
      BY <1>6 DEF CheckPage
    <3> QED
      BY <3>1, <1>6 DEF Goto
  <2>2. a \in 0..Len(Order)
    <3>1. ~IsLast(n, loc.after)
      BY <1>6 DEF Verdict
    <3>2. Listing(n, loc.after) \in Listings
      BY <1>2, <1>3, ListingType
    <3>3. Len(Order) \in Nat /\ a \in 1..Len(Order)
      BY <3>1, <3>2, PageGoesOn, Positions DEF IsLast
    <3> QED
      BY <3>3
  <2> DEFINE l1 == [loc EXCEPT !.page = k]
  <2>4. loc' = [l1 EXCEPT !.after = a] /\ k \in Nat
    BY <1>2, <2>1
  <2> HIDE DEF a, n, k
  <2>5. l1 \in Locals(Sel) /\ l1.changes = loc.changes /\ l1.kvs = loc.kvs
    BY <1>2, <2>4 DEF Locals
  <2> HIDE DEF l1
  <2>3. loc' \in Locals(Sel) /\ loc'.changes = loc.changes /\ loc'.kvs = loc.kvs
    BY <2>2, <2>4, <2>5 DEF Locals
  <2>6. KvsInv'
    BY <1>4, <2>3 DEF KvsInv, Left
  <2> QED
    BY <1>1, <2>1, <2>3, <2>6, CheckStep DEF Checking
<1>7. CASE verdict \notin {"changed", "next page"}
  <2>1. pc' = pc /\ loc' = [loc EXCEPT !.todo = @ \ {n}, !.after = 0, !.page = 0]
    BY <1>7 DEF CheckPage, Goto
  <2> DEFINE l1 == [loc EXCEPT !.todo = @ \ {n}]
             l2 == [l1 EXCEPT !.after = 0]
  <2>2. loc' = [l2 EXCEPT !.page = 0] /\ loc.todo \ {n} \in SUBSET Sel /\ 0 \in 0..Len(Order)
    BY <1>2, <2>1, Positions
  <2> HIDE DEF n
  <2>5. l1 \in Locals(Sel) /\ l1.changes = loc.changes /\ l1.kvs = loc.kvs
    BY <1>2, <2>2 DEF Locals
  <2> HIDE DEF l1
  <2>6. l2 \in Locals(Sel) /\ l2.changes = loc.changes /\ l2.kvs = loc.kvs
    BY <2>2, <2>5 DEF Locals
  <2> HIDE DEF l2
  <2>3. loc' \in Locals(Sel) /\ loc'.changes = loc.changes /\ loc'.kvs = loc.kvs
    BY <2>2, <2>6 DEF Locals
  <2>4. KvsInv'
    BY <1>4, <2>3 DEF KvsInv, Left
  <2> QED
    BY <1>1, <2>1, <2>3, <2>4, CheckStep DEF Checking
<1> QED
  BY <1>5, <1>6, <1>7

\* From the watchers or the collections a refresh goes on to the flags.
LEMMA CheckFlagsStep ==
  ASSUME IInv, CheckFlags PROVE IInv'
<1> USE DEF IInv
<1>1. /\ pc \in Checking /\ pc' = "flags" /\ loc' = [loc EXCEPT !.todo = FlagChecks]
      /\ UNCHANGED <<options, service, provider>> /\ watchers' = watchers
  BY DEF CheckFlags, Goto, Checking, options
<1>2. FlagChecks \in SUBSET Sel /\ loc \in Locals(Sel)
  BY LocType DEF FlagChecks, OfKind
<1>3. loc' \in Locals(Sel) /\ loc'.changes = loc.changes /\ loc'.kvs = loc.kvs
  BY <1>1, <1>2 DEF Locals
<1>4. KvsInv'
  BY <1>1, <1>3 DEF KvsInv, Left
<1> QED
  BY <1>1, <1>3, <1>4, CheckStep DEF Checking

---------------------------------------------------------------------------
(* Loading a page *)

\* What one turn of LoadPage does: selector n is visited, of which page is read.
PageRead(n, page) ==
    /\ n \in loc.todo /\ \A m \in loc.todo : n <= m
    /\ page \in Listings
    /\ \A p \in Listed(page) : /\ p > loc.after /\ Order[p] \in selectors[n].items
                               /\ page[p] = VersionFor(n, Order[p])
    /\ selectors[n].kind = "snapshot" => page = Listing(n, 0)
    /\ loc'.data = PutAll(loc.data, page)
    /\ loc'.etags = [loc.etags EXCEPT ![n] = IF selectors[n].kind = "snapshot" THEN @ ELSE Append(@, page)]
    /\ loc'.keys = loc.keys \cup (IF selectors[n].kind = "flags"
                                  THEN {KeyOf[i] : i \in {Order[p] : p \in Listed(page)} \ References}
                                  ELSE {})
    /\ \/ loc'.todo = loc.todo \ {n} /\ loc'.after = 0
       \/ /\ selectors[n].kind # "snapshot" /\ loc'.todo = loc.todo
          /\ loc'.after \in Listed(page) /\ \A p \in Listed(page) : p <= loc'.after
    /\ loc'.full = loc.full /\ loc'.watched = loc.watched /\ loc'.changes = loc.changes
    /\ loc'.kvs = loc.kvs

\* The locals stay those of their types.
LEMMA PageReads ==
  ASSUME IInv, LoadPage
  PROVE  /\ pc = "load" /\ pc' = "load" /\ UNCHANGED <<options, service, provider>>
         /\ loc' \in Locals(Sel) /\ \E n, page : PageRead(n, page)
<1> USE DEF IInv
<1> DEFINE n    == Min(loc.todo)
           all  == Listing(n, loc.after)
           page == IF selectors[n].kind = "snapshot" THEN all ELSE PageOf(all)
           E    == IF selectors[n].kind = "snapshot" THEN loc.etags[n] ELSE Append(loc.etags[n], page)
           F    == [loc.etags EXCEPT ![n] = E]
           K    == IF selectors[n].kind = "flags"
                   THEN loc.keys \cup {KeyOf[i] : i \in {Order[p] : p \in Listed(page)} \ References}
                   ELSE loc.keys
           D    == PutAll(loc.data, page)
           l1   == [loc EXCEPT !.data = D]
           l2   == [l1 EXCEPT !.etags = F]
           l3   == [l2 EXCEPT !.keys = K]
<1>1. /\ pc = "load" /\ pc' = "load" /\ loc.todo # {} /\ UNCHANGED <<options, service, provider>>
      /\ LoadInv
  BY DEF LoadPage, Goto, Loading
<1>2. loc \in Locals(Sel) /\ loc.after \in Nat
  BY LocType, Positions
<1>3. n \in loc.todo /\ \A m \in loc.todo : n <= m
  BY <1>1, LocType, MinOf
<1>4. n \in Sel /\ all \in Listings
  BY <1>2, <1>3, LocType, ListingType
<1>5. PageOf(all) \in Listings /\ page \in Listings
  BY <1>4, PageBegins
<1>6. loc' = IF page # all
             THEN [[loc EXCEPT !.data = PutAll(@, page),
                      !.etags[n] = IF selectors[n].kind = "snapshot" THEN @ ELSE Append(@, page),
                      !.keys = IF selectors[n].kind = "flags"
                               THEN @ \cup {KeyOf[i] : i \in {Order[p] : p \in Listed(page)} \ References}
                               ELSE @] EXCEPT !.after = Behind(page)]
             ELSE [[loc EXCEPT !.data = PutAll(@, page),
                      !.etags[n] = IF selectors[n].kind = "snapshot" THEN @ ELSE Append(@, page),
                      !.keys = IF selectors[n].kind = "flags"
                               THEN @ \cup {KeyOf[i] : i \in {Order[p] : p \in Listed(page)} \ References}
                               ELSE @] EXCEPT !.todo = @ \ {n}, !.after = 0]
  BY DEF LoadPage, Goto
<1>7. D \in [Keys -> Entries \cup {None}]
  BY <1>5, LocType, PutType
<1>8. K \subseteq Keys
  <2>1. \A p \in Listed(page) : Order[p] \in Items
    BY Positions DEF Listed
  <2> QED
    BY <2>1, LocType, KeyFacts
<1>9. F \in Seq(Seq(Listings))
  <2>1. loc.etags \in Seq(Seq(Listings)) /\ DOMAIN loc.etags = Sel
    BY <1>1, LocType DEF LoadInv, RecordsInv
  <2>2. loc.etags[n] \in Seq(Listings)
    BY <1>4, <2>1
  <2>3. E \in Seq(Listings)
    BY <1>5, <2>2
  <2> HIDE DEF n, E
  <2> QED
    BY <2>1, <2>3, <1>4
<1>10. l1 \in Locals(Sel) /\ l1.etags = loc.etags /\ l1.keys = loc.keys /\ l1.data = D
       /\ l1.todo = loc.todo /\ l1.after = loc.after /\ l1.full = loc.full
       /\ l1.watched = loc.watched /\ l1.changes = loc.changes /\ l1.kvs = loc.kvs
  <2> HIDE DEF D
  <2> QED
    BY <1>2, <1>7 DEF Locals
<1>11. l2 \in Locals(Sel) /\ l2.etags = F /\ l2.keys = loc.keys /\ l2.data = D
       /\ l2.todo = loc.todo /\ l2.after = loc.after /\ l2.full = loc.full
       /\ l2.watched = loc.watched /\ l2.changes = loc.changes /\ l2.kvs = loc.kvs
  <2> HIDE DEF D, F, l1
  <2> QED
    BY <1>9, <1>10 DEF Locals
<1>12. l3 \in Locals(Sel) /\ l3.etags = F /\ l3.keys = K /\ l3.data = D
       /\ l3.todo = loc.todo /\ l3.after = loc.after /\ l3.full = loc.full
       /\ l3.watched = loc.watched /\ l3.changes = loc.changes /\ l3.kvs = loc.kvs
  <2> HIDE DEF D, F, K, l1, l2
  <2> QED
    BY <1>8, <1>11 DEF Locals
<1>13. loc' = IF page # all THEN [l3 EXCEPT !.after = Behind(page)]
                            ELSE [[l3 EXCEPT !.todo = @ \ {n}] EXCEPT !.after = 0]
  <2>1. [l1 EXCEPT !.etags[n] = IF selectors[n].kind = "snapshot" THEN @ ELSE Append(@, page)] = l2
    <3> HIDE DEF n, page
    <3> QED
      BY <1>2 DEF Locals
  <2>2. [l2 EXCEPT !.keys = IF selectors[n].kind = "flags"
                               THEN @ \cup {KeyOf[i] : i \in {Order[p] : p \in Listed(page)} \ References}
                               ELSE @] = l3
    <3> HIDE DEF n, page
    <3> QED
      BY <1>2 DEF Locals
  <2> QED
    BY <1>6, <2>1, <2>2
<1>14. page # all =>
         /\ selectors[n].kind # "snapshot"
         /\ Behind(page) \in Listed(page) /\ Behind(page) \in 0..Len(Order)
         /\ \A p \in Listed(page) : p <= Behind(page)
  <2> SUFFICES ASSUME page # all
               PROVE  /\ selectors[n].kind # "snapshot"
                      /\ Behind(page) \in Listed(page) /\ Behind(page) \in 0..Len(Order)
                      /\ \A p \in Listed(page) : p <= Behind(page)
    OBVIOUS
  <2>1. page = PageOf(all) /\ selectors[n].kind # "snapshot"
    OBVIOUS
  <2> HIDE DEF page, all, n
  <2>2. Behind(page) \in 1..Len(Order) => Behind(page) \in 0..Len(Order)
    BY Positions
  <2> QED
    BY <2>1, <2>2, <1>4, PageGoesOn
<1>15. /\ loc' \in Locals(Sel)
       /\ loc'.data = D /\ loc'.etags = F /\ loc'.keys = K
       /\ loc'.full = loc.full /\ loc'.watched = loc.watched /\ loc'.changes = loc.changes
       /\ loc'.kvs = loc.kvs
       /\ page # all => loc'.todo = loc.todo /\ loc'.after = Behind(page)
       /\ page = all => loc'.todo = loc.todo \ {n} /\ loc'.after = 0
  <2> HIDE DEF page, all, D, F, K, l1, l2, l3, n
  <2>1. CASE page # all
    <3>1. loc' = [l3 EXCEPT !.after = Behind(page)]
      BY <1>13, <2>1
    <3> QED
      BY <2>1, <3>1, <1>12, <1>14 DEF Locals
  <2>2. CASE page = all
    <3> DEFINE l4 == [l3 EXCEPT !.todo = @ \ {n}]
    <3>1. loc' = [l4 EXCEPT !.after = 0]
      BY <1>13, <2>2
    <3>2. 0 \in 0..Len(Order)
      BY Positions
    <3>3. /\ l4 \in Locals(Sel) /\ l4.todo = loc.todo \ {n}
          /\ l4.data = D /\ l4.etags = F /\ l4.keys = K
          /\ l4.full = loc.full /\ l4.watched = loc.watched /\ l4.changes = loc.changes
          /\ l4.kvs = loc.kvs
      BY <1>12 DEF Locals
    <3> HIDE DEF l4
    <3> QED
      BY <2>2, <3>1, <3>2, <3>3 DEF Locals
  <2> QED
    BY <2>1, <2>2
<1>16. \A p \in Listed(page) : /\ p > loc.after /\ Order[p] \in selectors[n].items
                               /\ page[p] = VersionFor(n, Order[p])
  <2>1. \A p \in Listed(page) : page[p] = all[p] /\ p \in Listed(all)
    BY <1>4, PageBegins
  <2>2. \A p \in Listed(all) : /\ p > loc.after /\ Order[p] \in selectors[n].items
                               /\ all[p] = VersionFor(n, Order[p])
    BY DEF Listed, Listing
  <2> QED
    BY <2>1, <2>2
<1>17. selectors[n].kind = "snapshot" => page = Listing(n, 0)
  <2> SUFFICES ASSUME selectors[n].kind = "snapshot", loc.after # 0 PROVE FALSE
    OBVIOUS
  <2>1. PICK m \in loc.todo : selectors[m].kind # "snapshot" /\ \A h \in loc.todo : m <= h
    BY <1>1 DEF LoadInv, ProgressInv
  <2>2. m = n
    BY <2>1, <1>3, LocType
  <2> QED
    BY <2>1, <2>2
<1>18. PageRead(n, page)
  <2> HIDE DEF page, all, n
  <2>1. loc'.keys = loc.keys \cup (IF selectors[n].kind = "flags"
                                  THEN {KeyOf[i] : i \in {Order[p] : p \in Listed(page)} \ References}
                                  ELSE {})
    BY <1>15
  <2>2. loc'.etags = [loc.etags EXCEPT ![n] = IF selectors[n].kind = "snapshot" THEN @ ELSE Append(@, page)]
    BY <1>15
  <2> QED
    BY <1>3, <1>5, <1>14, <1>15, <1>16, <1>17, <2>1, <2>2 DEF PageRead
<1> QED
  BY <1>1, <1>15, <1>18

\* What was recorded stays recorded, and the page is.
LEMMA RecordsGrow ==
  ASSUME TypeOK, RecordsInv(loc.etags), loc.todo \subseteq Sel, NEW n, NEW page, PageRead(n, page)
  PROVE  /\ DOMAIN loc'.etags = Sel
         /\ \A m \in Sel : \A k \in DOMAIN loc.etags[m] :
               k \in DOMAIN loc'.etags[m] /\ loc'.etags[m][k] = loc.etags[m][k]
         /\ \A m \in Sel : \A k \in DOMAIN loc'.etags[m] :
               \/ k \in DOMAIN loc.etags[m] /\ loc'.etags[m][k] = loc.etags[m][k]
               \/ m = n /\ selectors[n].kind # "snapshot" /\ loc'.etags[m][k] = page
         /\ \A m \in Sel : m # n \/ selectors[n].kind = "snapshot" => loc'.etags[m] = loc.etags[m]
         /\ selectors[n].kind # "snapshot" => \E h \in DOMAIN loc'.etags[n] : loc'.etags[n][h] = page
<1>1. /\ n \in Sel /\ page \in Listings
      /\ loc'.etags = [loc.etags EXCEPT ![n] = IF selectors[n].kind = "snapshot" THEN @ ELSE Append(@, page)]
  BY DEF PageRead
<1>2. DOMAIN loc.etags = Sel /\ loc.etags \in Seq(Seq(Listings))
  BY LocType DEF RecordsInv
<1>3. \A m \in Sel : loc.etags[m] \in Seq(Listings)
  BY <1>2
<1>4. DOMAIN loc'.etags = Sel
  BY <1>1, <1>2
<1>5. \A m \in Sel : m # n \/ selectors[n].kind = "snapshot" => loc'.etags[m] = loc.etags[m]
  BY <1>1, <1>2
<1>6. CASE selectors[n].kind = "snapshot"
  BY <1>4, <1>5, <1>6
<1>7. CASE selectors[n].kind # "snapshot"
  <2>1. loc'.etags[n] = Append(loc.etags[n], page)
    BY <1>1, <1>2, <1>7
  <2>2. /\ DOMAIN loc'.etags[n] = 1..Len(loc.etags[n]) + 1
        /\ Len(loc.etags[n]) \in Nat /\ DOMAIN loc.etags[n] = 1..Len(loc.etags[n])
        /\ \A k \in 1..Len(loc.etags[n]) : loc'.etags[n][k] = loc.etags[n][k]
        /\ loc'.etags[n][Len(loc.etags[n]) + 1] = page
    <3> DEFINE s == loc.etags[n]
    <3>1. s \in Seq(Listings) /\ loc'.etags[n] = Append(s, page)
      BY <1>1, <1>3, <2>1
    <3> HIDE DEF s
    <3>2. /\ DOMAIN loc'.etags[n] = 1..Len(s) + 1
          /\ Len(s) \in Nat /\ DOMAIN s = 1..Len(s)
          /\ \A k \in 1..Len(s) : loc'.etags[n][k] = s[k]
          /\ loc'.etags[n][Len(s) + 1] = page
      BY <1>1, <3>1
    <3> QED
      BY <3>2 DEF s
  <2>3. /\ \A k \in DOMAIN loc.etags[n] :
               k \in DOMAIN loc'.etags[n] /\ loc'.etags[n][k] = loc.etags[n][k]
        /\ \A k \in DOMAIN loc'.etags[n] :
               \/ k \in DOMAIN loc.etags[n] /\ loc'.etags[n][k] = loc.etags[n][k]
               \/ loc'.etags[n][k] = page
        /\ \E h \in DOMAIN loc'.etags[n] : loc'.etags[n][h] = page
    BY <2>2
  <2> QED
    BY <1>1, <1>4, <1>5, <1>7, <2>3
<1> QED
  BY <1>6, <1>7

\* An item of a selector that may give its key a value is one of the sources of the key.
LEMMA AloneSelected ==
  ASSUME TypeOK, OptionsInv, NEW j \in Items, Alone(j),
         NEW n \in Sel, NEW i \in selectors[n].items, KeyFrom(i) = KeyFrom(j)
  PROVE  i = j /\ selectors[n].kind \in {"keys", "flags"}
<1>1. i \in Items /\ selectors[n].kind \in {"keys", "flags", "snapshot"}
  BY SelType
<1>2. CASE selectors[n].kind = "snapshot"
  <2>1. n \in OfKind({"snapshot"}) /\ i \notin References
    BY <1>2 DEF OfKind, OptionsInv
  <2>2. KeyOf[i] = KeyFrom(j)
    BY <2>1 DEF KeyFrom
  <2>3. <<"snapshot", n>> \in Sources(KeyFrom(j))
    BY <2>1, <2>2 DEF Sources
  <2>4. <<"snapshot", n>> = <<"store", j>>
    BY <2>3 DEF Alone
  <2>5. "snapshot" = "store"
    BY <2>4
  <2> QED
    BY <2>5
<1>3. CASE selectors[n].kind \in {"keys", "flags"}
  <2>1. n \in OfKind({"keys", "flags"})
    BY <1>3 DEF OfKind
  <2>2. <<"store", i>> \in Sources(KeyFrom(j))
    BY <1>1, <2>1 DEF Sources
  <2>3. <<"store", i>> = <<"store", j>>
    BY <2>2 DEF Alone
  <2> QED
    BY <1>3, <2>3
<1> QED
  BY <1>1, <1>2, <1>3

\* What a page gives the key of an item that is its only source is that item, as it is
\* in the store.
LEMMA AloneInPage ==
  ASSUME TypeOK, OptionsInv, NEW j \in Items, Alone(j), loc.todo \subseteq Sel,
         NEW n, NEW page, PageRead(n, page), NEW p \in For(KeyFrom(j), page)
  PROVE  Order[p] = j /\ page[p] = store[j] /\ selectors[n].kind \in {"keys", "flags"}
<1>1. n \in Sel /\ p \in Listed(page) /\ KeyFrom(j) \in Sets(<<Order[p], page[p]>>)
  BY DEF PageRead, For, EntryAt
<1>2. Order[p] \in selectors[n].items /\ page[p] = VersionFor(n, Order[p])
  BY <1>1 DEF PageRead
<1>3. Order[p] \in Items
  BY <1>1, <1>2, SelType
<1>4. KeyFrom(Order[p]) = KeyFrom(j)
  BY <1>1, <1>3, SetsOne
<1>5. Order[p] = j /\ selectors[n].kind \in {"keys", "flags"}
  BY <1>1, <1>2, <1>4, AloneSelected
<1>6. page[p] = store[j]
  BY <1>2, <1>5 DEF VersionFor
<1> QED
  BY <1>5, <1>6

\* Selectors still to visit have recorded nothing behind the page, and nothing at all
\* behind the selector that is visited.
LEMMA LoadPageProgress ==
  ASSUME IInv, pc = "load", LoadInv, NEW n, NEW page, PageRead(n, page), pc' = "load",
         UNCHANGED <<options, service, provider>>
  PROVE  ProgressInv'
<1>1. TypeOK /\ RecordsInv(loc.etags) /\ ProgressInv /\ loc.todo \subseteq Sel
  BY LocType DEF IInv, LoadInv
<1>2. n \in loc.todo /\ n \in Sel /\ n \in Nat /\ loc.todo \subseteq Nat /\ Sel \subseteq Nat
  BY <1>1, SelType DEF PageRead
<1>3. loc'.todo = loc.todo \/ (loc'.todo = loc.todo \ {n} /\ loc'.after = 0)
  BY DEF PageRead
<1>4. selectors' = selectors /\ Sel' = Sel /\ \A S : OfKind(S)' = OfKind(S)
  BY SameOptions DEF options
<1>5. Kinds' = Kinds /\ loc'.todo \subseteq OfKind(Kinds)
  BY <1>1, <1>3 DEF Kinds, PageRead, ProgressInv
<1>6. loc'.watched = Blank'.watched
  BY <1>1 DEF ProgressInv, PageRead, Blank
<1>7. \A m \in loc.todo : n <= m
  BY DEF PageRead
<1>8. ASSUME NEW m \in loc'.todo
      PROVE \/ loc'.etags[m] = <<>>
            \/ /\ \A h \in loc'.todo : m <= h
               /\ \A k \in DOMAIN loc'.etags[m] : \A p \in Listed(loc'.etags[m][k]) : p <= loc'.after
  <2>1. m \in loc.todo
    BY <1>3
  <2>2. CASE m # n
    <3>1. ~(m <= n)
      BY <1>2, <1>7, <2>1, <2>2
    <3>2. loc.etags[m] = <<>>
      BY <1>1, <1>2, <2>1, <3>1 DEF ProgressInv
    <3> QED
      BY <1>1, <2>1, <2>2, <3>2, RecordsGrow
  <2>3. CASE m = n
    <3>1. /\ selectors[n].kind # "snapshot" /\ loc'.todo = loc.todo
          /\ loc'.after \in Listed(page) /\ \A p \in Listed(page) : p <= loc'.after
      BY <2>3 DEF PageRead
    <3>2. loc'.after > loc.after /\ loc.after \in Nat /\ loc'.after \in Nat
      <4>1. loc'.after > loc.after
        BY <3>1 DEF PageRead
      <4>2. loc'.after \in Nat
        BY <3>1, Positions DEF Listed
      <4> QED
        BY <1>1, <4>1, <4>2, LocType, Positions
    <3>3. ASSUME NEW k \in DOMAIN loc'.etags[n], NEW p \in Listed(loc'.etags[n][k])
          PROVE p <= loc'.after
      <4>1. CASE k \in DOMAIN loc.etags[n] /\ loc'.etags[n][k] = loc.etags[n][k]
        <5>1. loc.etags[n] # <<>>
          BY <4>1
        <5>2. p <= loc.after
          BY <1>1, <1>2, <4>1, <5>1 DEF ProgressInv
        <5>3. p \in Nat
          BY Positions DEF Listed
        <5> QED
          BY <5>2, <5>3, <3>2
      <4>2. CASE loc'.etags[n][k] = page
        BY <3>1, <4>2
      <4> QED
        BY <1>1, <1>2, <4>1, <4>2, RecordsGrow
    <3> QED
      BY <2>3, <3>1, <3>3, <1>7
  <2> QED
    BY <2>2, <2>3
<1>9. loc'.full => \A m \in loc'.todo : \A h \in Sel : h > m => h \in loc'.todo
  <2> SUFFICES ASSUME loc.full, NEW m \in loc'.todo, NEW h \in Sel, h > m
               PROVE  h \in loc'.todo
    BY DEF PageRead
  <2>1. m \in loc.todo /\ h \in loc.todo
    BY <1>1, <1>3 DEF ProgressInv
  <2>2. h # n
    BY <1>2, <1>7, <2>1
  <2> QED
    BY <2>1, <2>2, <1>3
<1>10. loc'.after # 0 =>
          \E h \in loc'.todo : selectors[h].kind # "snapshot" /\ \A m \in loc'.todo : h <= m
  BY <1>2, <1>7 DEF PageRead
<1>11. ASSUME ~loc'.full, NEW m \in Sel, selectors[m].kind # "flags"
       PROVE  loc'.etags[m] = etags'[m]
  <2>1. ~loc.full /\ etags' = etags
    BY <1>11 DEF PageRead, provider
  <2>2. m # n
    <3>1. n \in OfKind({"flags"})
      BY <1>1, <1>2, <2>1 DEF ProgressInv, Kinds
    <3> QED
      BY <1>11, <3>1 DEF OfKind
  <2>3. loc.etags[m] = etags[m]
    BY <1>1, <1>11, <2>1 DEF ProgressInv
  <2> QED
    BY <1>1, <1>11, <2>1, <2>2, <2>3, RecordsGrow
<1> QED
  BY <1>4, <1>5, <1>6, <1>8, <1>9, <1>10, <1>11 DEF ProgressInv

\* Loaded data come from the selectors visited.
LEMMA LoadPageData ==
  ASSUME IInv, pc = "load", LoadInv, NEW n, NEW page, PageRead(n, page), pc' = "load",
         UNCHANGED <<options, service, provider>>
  PROVE  DataInv'
<1>1. TypeOK /\ ProgressInv /\ DataInv /\ loc.todo \subseteq Sel /\ page \in Listings
  BY LocType DEF IInv, LoadInv, PageRead
<1>2. n \in OfKind(Kinds)
  BY <1>1 DEF ProgressInv, PageRead
<1>3. loc'.data = PutAll(loc.data, page) /\ Kinds' = Kinds
  BY DEF PageRead, Kinds
<1>4. \A S, i : Selects(S, i)' = Selects(S, i)
  BY SameOptions
<1>5. References' = References /\ Keys' = Keys
  OBVIOUS
<1> SUFFICES ASSUME NEW k \in Keys, loc'.data[k] # None
             PROVE  /\ k \in Sets(loc'.data[k]) /\ loc'.data[k][2] <= writes
                    /\ Selects(Kinds, loc'.data[k][1])
  BY <1>3, <1>4 DEF DataInv, service
<1>6. CASE For(k, page) = {}
  <2>1. loc'.data[k] = loc.data[k]
    BY <1>1, <1>3, <1>6, PutLast
  <2> QED
    BY <1>1, <2>1 DEF DataInv
<1>7. CASE For(k, page) # {}
  <2>1. PICK p \in For(k, page) : loc'.data[k] = <<Order[p], page[p]>>
    BY <1>1, <1>3, <1>7, PutLast
  <2>2. p \in Listed(page) /\ k \in Sets(<<Order[p], page[p]>>)
    BY DEF For, EntryAt
  <2>3. Order[p] \in selectors[n].items /\ page[p] = VersionFor(n, Order[p])
    BY <2>2 DEF PageRead
  <2>4. page[p] <= writes
    <3>1. Order[p] \in Items /\ store[Order[p]] <= writes /\ 1 <= writes
      BY <2>2, Positions DEF Listed, IInv, TypeOK
    <3> QED
      BY <2>3, <3>1 DEF VersionFor
  <2> QED
    BY <1>2, <2>1, <2>2, <2>3, <2>4 DEF Selects
<1> QED
  BY <1>6, <1>7

\* What the load has for an item that is the only source of its key.
LEMMA LoadPageAlone ==
  ASSUME IInv, pc = "load", LoadInv, NEW n, NEW page, PageRead(n, page), pc' = "load",
         UNCHANGED <<options, service, provider>>
  PROVE  /\ \A f \in Plain : FreshFlag(f, loc.etags)' => loc'.data[KeyOf[f]] = Entry(f)'
         /\ \A f \in Plain :
               GoneFlag(f, loc.etags, Kinds \ {"snapshot"}, loc.watched)' => loc'.data[KeyOf[f]] = None
<1>1. TypeOK /\ OptionsInv /\ ProgressInv /\ RecordsInv(loc.etags) /\ loc.todo \subseteq Sel
      /\ page \in Listings
  BY LocType DEF IInv, LoadInv, PageRead
<1>2. n \in OfKind(Kinds) /\ n \in Sel
  BY <1>1 DEF ProgressInv, PageRead
<1>3. loc'.data = PutAll(loc.data, page) /\ Kinds' = Kinds /\ loc'.watched = loc.watched
  BY DEF PageRead, Kinds
<1>4. store' = store /\ (\A i : Entry(i)' = Entry(i)) /\ (\A i : Alone(i)' = Alone(i) /\ Flag(i)' = Flag(i))
      /\ Sel' = Sel /\ (\A S : OfKind(S)' = OfKind(S)) /\ selectors' = selectors
  BY SameOptions DEF service, Entry, options
<1>5. ASSUME NEW f \in Plain, Alone(f), For(KeyOf[f], page) # {}
      PROVE  /\ loc'.data[KeyOf[f]] = Entry(f)
             /\ \E p \in Listed(page) : Order[p] = f /\ selectors[n].kind \in {"keys", "flags"}
  <2>1. f \in Items /\ KeyFrom(f) = KeyOf[f] /\ KeyOf[f] \in Keys
    BY KeyFacts DEF Plain, KeyFrom
  <2>2. PICK p \in For(KeyOf[f], page) : loc'.data[KeyOf[f]] = <<Order[p], page[p]>>
    BY <1>1, <1>3, <1>5, <2>1, PutLast
  <2>3. Order[p] = f /\ page[p] = store[f] /\ selectors[n].kind \in {"keys", "flags"}
    BY <1>1, <1>5, <2>1, AloneInPage
  <2>4. p \in Listed(page)
    BY DEF For
  <2> QED
    BY <2>2, <2>3, <2>4 DEF Entry
<1>6. ASSUME NEW f \in Plain, FreshFlag(f, loc.etags)' PROVE loc'.data[KeyOf[f]] = Entry(f)'
  <2>1. Alone(f) /\ store[f] # Absent /\ KeyOf[f] \in Keys /\ f \in Items
    BY <1>4, <1>6, KeyFacts DEF FreshFlag, Fresh, Plain
  <2>2. CASE For(KeyOf[f], page) = {}
    <3>1. \A p \in DOMAIN Order : Order[p] = f => page[p] = Absent
      <4> SUFFICES ASSUME NEW p \in DOMAIN Order, Order[p] = f, page[p] # Absent PROVE FALSE
        OBVIOUS
      <4>1. Sets(<<f, page[p]>>) = {KeyOf[f]}
        BY <2>1, SetsOne DEF Plain
      <4>2. p \in For(KeyOf[f], page)
        BY <4>1 DEF For, EntryAt, Listed
      <4> QED
        BY <2>2, <4>2
    <3>3. PICK m \in OfKind({"flags"}) :
             \E k \in DOMAIN loc'.etags[m], p \in DOMAIN Order :
                 Order[p] = f /\ loc'.etags[m][k][p] = store[f] /\ m \in Sel
      BY <1>4, <1>6 DEF FreshFlag, Fresh, OfKind
    <3>2. PICK k \in DOMAIN loc'.etags[m], p \in DOMAIN Order :
             Order[p] = f /\ loc'.etags[m][k][p] = store[f] /\ m \in Sel
      BY <3>3
    <3>4. k \in DOMAIN loc.etags[m] /\ loc'.etags[m][k] = loc.etags[m][k]
      BY <1>1, <2>1, <3>1, <3>2, RecordsGrow
    <3>5. FreshFlag(f, loc.etags)
      BY <2>1, <3>2, <3>4 DEF FreshFlag, Fresh
    <3>6. loc.data[KeyOf[f]] = Entry(f)
      BY <3>5 DEF LoadInv
    <3>7. loc'.data[KeyOf[f]] = loc.data[KeyOf[f]]
      BY <1>1, <1>3, <2>1, <2>2, PutLast
    <3> QED
      BY <3>6, <3>7, <1>4
  <2>3. CASE For(KeyOf[f], page) # {}
    BY <1>4, <1>5, <2>1, <2>3
  <2> QED
    BY <2>2, <2>3
<1>7. ASSUME NEW f \in Plain, GoneFlag(f, loc.etags, Kinds \ {"snapshot"}, loc.watched)'
      PROVE  loc'.data[KeyOf[f]] = None
  <2>1. Alone(f) /\ Flag(f) /\ loc.watched[f] = Absent
    BY <1>3, <1>4, <1>7 DEF GoneFlag
  <2>2. Unlisted(f, loc.etags, Kinds \ {"snapshot"})'
    BY <1>7 DEF GoneFlag
  <2>3. \A m \in OfKind(Kinds \ {"snapshot"}) : \A k \in DOMAIN loc'.etags[m] : \A p \in DOMAIN Order :
           Order[p] = f => loc'.etags[m][k][p] = Absent
    BY <1>3, <1>4, <2>2 DEF Unlisted
  <2>4. For(KeyOf[f], page) = {}
    <3> SUFFICES ASSUME For(KeyOf[f], page) # {} PROVE FALSE
      OBVIOUS
    <3>1. PICK p \in Listed(page) : Order[p] = f /\ selectors[n].kind \in {"keys", "flags"}
      BY <1>5, <2>1
    <3>2. n \in OfKind(Kinds \ {"snapshot"})
      BY <1>2, <3>1 DEF OfKind
    <3>3. PICK h \in DOMAIN loc'.etags[n] : loc'.etags[n][h] = page
      BY <1>1, <3>1, RecordsGrow
    <3> QED
      BY <2>3, <3>1, <3>2, <3>3 DEF Listed
  <2>5. Unlisted(f, loc.etags, Kinds \ {"snapshot"})
    <3> SUFFICES ASSUME NEW m \in OfKind(Kinds \ {"snapshot"}), NEW k \in DOMAIN loc.etags[m],
                        NEW p \in DOMAIN Order, Order[p] = f
                 PROVE  loc.etags[m][k][p] = Absent
      BY DEF Unlisted
    <3>1. m \in Sel
      BY DEF OfKind
    <3>2. k \in DOMAIN loc'.etags[m] /\ loc'.etags[m][k] = loc.etags[m][k]
      BY <1>1, <3>1, RecordsGrow
    <3> QED
      BY <2>3, <3>2
  <2>6. loc.data[KeyOf[f]] = None
    BY <2>1, <2>5 DEF LoadInv, GoneFlag
  <2>7. KeyOf[f] \in Keys
    BY KeyFacts DEF Plain
  <2> QED
    BY <1>1, <1>3, <2>4, <2>6, <2>7, PutLast
<1> QED
  BY <1>6, <1>7

\* What is recorded after a page: what was, and the page.
LEMMA PageRecorded ==
  ASSUME IInv, pc = "load", LoadInv, NEW n, NEW page, PageRead(n, page),
         UNCHANGED <<options, service, provider>>,
         NEW m \in Sel, NEW p \in DOMAIN Order, NEW v \in Nat
  PROVE  Recorded(loc.etags, loc.todo, m, p, v)'
           = (Recorded(loc.etags, loc.todo, m, p, v) \/ (m = n /\ v # Absent /\ page[p] = v))
<1>1. TypeOK /\ RecordsInv(loc.etags) /\ loc.todo \subseteq Sel /\ n \in Sel
  BY LocType DEF IInv, LoadInv, PageRead
<1>2. store' = store /\ selectors' = selectors
  BY DEF service, options
<1>3. Listing(m, 0)' = Listing(m, 0)
  <2>1. \A i : VersionFor(m, i)' = VersionFor(m, i)
    BY <1>2 DEF VersionFor
  <2> QED
    BY <1>2, <2>1 DEF Listing
<1>4. CASE selectors[m].kind = "snapshot"
  <2>1. m \notin loc'.todo <=> m \notin loc.todo \/ m = n
    BY <1>4 DEF PageRead
  <2>2. m = n => page = Listing(m, 0)
    BY <1>4 DEF PageRead
  <2>3. Recorded(loc.etags, loc.todo, m, p, v) = (v # Absent /\ m \notin loc.todo /\ v = Listing(m, 0)[p])
    BY <1>4 DEF Recorded
  <2>4. Recorded(loc.etags, loc.todo, m, p, v)' = (v # Absent /\ m \notin loc'.todo /\ v = Listing(m, 0)[p])
    BY <1>2, <1>3, <1>4 DEF Recorded
  <2> QED
    BY <2>1, <2>2, <2>3, <2>4
<1>5. CASE selectors[m].kind # "snapshot"
  <2>1. Recorded(loc.etags, loc.todo, m, p, v)
          = (v # Absent /\ \E k \in DOMAIN loc.etags[m] : loc.etags[m][k][p] = v)
    BY <1>5 DEF Recorded
  <2>2. Recorded(loc.etags, loc.todo, m, p, v)'
          = (v # Absent /\ \E k \in DOMAIN loc'.etags[m] : loc'.etags[m][k][p] = v)
    BY <1>2, <1>5 DEF Recorded
  <2>3. (\E k \in DOMAIN loc'.etags[m] : loc'.etags[m][k][p] = v)
          = ((\E k \in DOMAIN loc.etags[m] : loc.etags[m][k][p] = v) \/ (m = n /\ page[p] = v))
    <3>1. ASSUME NEW k \in DOMAIN loc'.etags[m], loc'.etags[m][k][p] = v
          PROVE  (\E h \in DOMAIN loc.etags[m] : loc.etags[m][h][p] = v) \/ (m = n /\ page[p] = v)
      BY <1>1, <3>1, RecordsGrow
    <3>2. ASSUME NEW k \in DOMAIN loc.etags[m], loc.etags[m][k][p] = v
          PROVE  \E h \in DOMAIN loc'.etags[m] : loc'.etags[m][h][p] = v
      BY <1>1, <3>2, RecordsGrow
    <3>3. m = n /\ page[p] = v => \E h \in DOMAIN loc'.etags[m] : loc'.etags[m][h][p] = v
      BY <1>1, <1>5, RecordsGrow
    <3> QED
      BY <3>1, <3>2, <3>3
  <2> QED
    BY <2>1, <2>2, <2>3
<1> QED
  BY <1>4, <1>5

\* What was recorded before a page comes before it.
LEMMA RecordedBefore ==
  ASSUME IInv, pc = "load", LoadInv, loc.full, NEW n, NEW page, PageRead(n, page),
         NEW m \in Sel, NEW p \in DOMAIN Order, NEW v \in Nat,
         Recorded(loc.etags, loc.todo, m, p, v)
  PROVE  m < n \/ (m = n /\ p <= loc.after)
<1>1. TypeOK /\ RecordsInv(loc.etags) /\ ProgressInv /\ n \in loc.todo /\ loc.todo \subseteq Sel
      /\ Sel \subseteq Nat
  BY LocType, SelType DEF IInv, LoadInv, PageRead
<1>2. CASE m > n
  <2>3. m \in loc.todo
    BY <1>1, <1>2 DEF ProgressInv
  <2>4. m \in Nat /\ n \in Nat
    BY <1>1
  <2>1. m \in loc.todo /\ ~(m <= n)
    BY <1>2, <2>3, <2>4
  <2>2. loc.etags[m] = <<>>
    BY <1>1, <2>1 DEF ProgressInv
  <2> QED
    BY <2>1, <2>2 DEF Recorded
<1>3. CASE m = n
  <2>1. selectors[n].kind # "snapshot"
    BY <1>1, <1>3 DEF Recorded
  <2>2. PICK k \in DOMAIN loc.etags[n] : loc.etags[n][k][p] = v /\ v # Absent
    BY <1>3, <2>1 DEF Recorded
  <2>3. p \in Listed(loc.etags[n][k]) /\ loc.etags[n] # <<>>
    BY <2>2 DEF Listed
  <2>4. p <= loc.after
    BY <1>1, <2>2, <2>3 DEF ProgressInv
  <2> QED
    BY <1>3, <2>4
<1> QED
  BY <1>1, <1>2, <1>3

\* The last recorded entry for a key is what has been loaded for it.
LEMMA LoadPageWins ==
  ASSUME IInv, pc = "load", LoadInv, NEW n, NEW page, PageRead(n, page),
         UNCHANGED <<options, service, provider>>, registerAll, loc.full, NEW k \in Keys
  PROVE  Wins(loc.data[k], k, loc.etags, loc.todo)'
<1> DEFINE R(m, p, v) == Recorded(loc.etags, loc.todo, m, p, v)
           Q(m, p, v) == Recorded(loc.etags, loc.todo, m, p, v)'
<1>1. /\ TypeOK /\ n \in Sel /\ page \in Listings /\ loc'.data = PutAll(loc.data, page)
      /\ Sel \subseteq Nat /\ loc.after \in Nat /\ DOMAIN Order \subseteq Nat
  <2>1. TypeOK /\ loc.todo \subseteq Sel
    BY LocType DEF IInv
  <2>2. loc.after \in Nat /\ DOMAIN Order \subseteq Nat
    BY <2>1, LocType, Positions
  <2> QED
    BY <2>1, <2>2, SelType DEF PageRead
<1>2. Sel' = Sel
  BY SameOptions
<1>3. Wins(loc.data[k], k, loc.etags, loc.todo)
  BY DEF LoadInv
<1>4. \A m \in Sel, p \in DOMAIN Order, v \in Nat :
         Q(m, p, v) = (R(m, p, v) \/ (m = n /\ v # Absent /\ page[p] = v))
  BY PageRecorded
<1>5. \A m \in Sel, p \in DOMAIN Order, v \in Nat : R(m, p, v) => m < n \/ (m = n /\ p <= loc.after)
  BY RecordedBefore
<1>6. \/ /\ loc.data[k] = None
         /\ \A m \in Sel, p \in DOMAIN Order, v \in Nat : R(m, p, v) => k \notin Sets(<<Order[p], v>>)
      \/ \E m \in Sel, p \in DOMAIN Order, v \in Nat :
          /\ R(m, p, v) /\ loc.data[k] = <<Order[p], v>> /\ k \in Sets(loc.data[k])
          /\ \A n2 \in Sel, p2 \in DOMAIN Order, v2 \in Nat :
                R(n2, p2, v2) /\ k \in Sets(<<Order[p2], v2>>) => n2 < m \/ (n2 = m /\ p2 <= p)
  BY <1>3 DEF Wins
<1>7. \A p \in DOMAIN Order : page[p] \in Nat
  BY <1>1 DEF Listings
<1>8. \/ /\ loc'.data[k] = None
         /\ \A m \in Sel, p \in DOMAIN Order, v \in Nat : Q(m, p, v) => k \notin Sets(<<Order[p], v>>)
      \/ \E m \in Sel, p \in DOMAIN Order, v \in Nat :
          /\ Q(m, p, v) /\ loc'.data[k] = <<Order[p], v>> /\ k \in Sets(loc'.data[k])
          /\ \A n2 \in Sel, p2 \in DOMAIN Order, v2 \in Nat :
                Q(n2, p2, v2) /\ k \in Sets(<<Order[p2], v2>>) => n2 < m \/ (n2 = m /\ p2 <= p)
  <2> HIDE DEF R, Q
  <2>1. CASE For(k, page) = {}
    <3>1. loc'.data[k] = loc.data[k]
      BY <1>1, <2>1, PutLast
    <3>2. \A p \in DOMAIN Order, v \in Nat : v # Absent /\ page[p] = v => k \notin Sets(<<Order[p], v>>)
      BY <2>1 DEF For, Listed, EntryAt
    <3>3. \A m \in Sel, p \in DOMAIN Order, v \in Nat :
             Q(m, p, v) /\ k \in Sets(<<Order[p], v>>) => R(m, p, v)
      BY <1>4, <3>2
    <3>4. \A m \in Sel, p \in DOMAIN Order, v \in Nat : R(m, p, v) => Q(m, p, v)
      BY <1>4
    <3>5. CASE /\ loc.data[k] = None
               /\ \A m \in Sel, p \in DOMAIN Order, v \in Nat : R(m, p, v) => k \notin Sets(<<Order[p], v>>)
      BY <3>1, <3>3, <3>5
    <3>6. ASSUME NEW m \in Sel, NEW p \in DOMAIN Order, NEW v \in Nat,
                 R(m, p, v) /\ loc.data[k] = <<Order[p], v>> /\ k \in Sets(loc.data[k]),
                 \A n2 \in Sel, p2 \in DOMAIN Order, v2 \in Nat :
                    R(n2, p2, v2) /\ k \in Sets(<<Order[p2], v2>>) => n2 < m \/ (n2 = m /\ p2 <= p)
          PROVE  /\ Q(m, p, v) /\ loc'.data[k] = <<Order[p], v>> /\ k \in Sets(loc'.data[k])
                 /\ \A n2 \in Sel, p2 \in DOMAIN Order, v2 \in Nat :
                       Q(n2, p2, v2) /\ k \in Sets(<<Order[p2], v2>>) => n2 < m \/ (n2 = m /\ p2 <= p)
      BY <3>1, <3>3, <3>4, <3>6
    <3> QED
      BY <1>6, <3>5, <3>6
  <2>2. CASE For(k, page) # {}
    <3>1. PICK p \in For(k, page) : /\ loc'.data[k] = <<Order[p], page[p]>>
                                   /\ \A q \in For(k, page) : q <= p
      BY <1>1, <2>2, PutLast
    <3>2. p \in DOMAIN Order /\ page[p] \in Nat /\ page[p] # Absent /\ k \in Sets(<<Order[p], page[p]>>)
      BY <1>7, <3>1 DEF For, Listed, EntryAt
    <3>3. Q(n, p, page[p])
      BY <1>1, <1>4, <3>2
    <3>4. p > loc.after
      BY <3>2 DEF PageRead, Listed
    <3>5. ASSUME NEW n2 \in Sel, NEW p2 \in DOMAIN Order, NEW v2 \in Nat,
                 Q(n2, p2, v2) /\ k \in Sets(<<Order[p2], v2>>)
          PROVE  n2 < n \/ (n2 = n /\ p2 <= p)
      <4>1. CASE R(n2, p2, v2)
        <5>1. n2 < n \/ (n2 = n /\ p2 <= loc.after)
          BY <1>5, <4>1
        <5> QED
          BY <5>1, <3>2, <3>4, <1>1
      <4>2. CASE n2 = n /\ v2 # Absent /\ page[p2] = v2
        <5>1. p2 \in For(k, page)
          BY <3>5, <4>2 DEF For, Listed, EntryAt
        <5> QED
          BY <4>2, <5>1, <3>1
      <4> QED
        BY <1>4, <3>5, <4>1, <4>2
    <3> QED
      BY <1>1, <3>1, <3>2, <3>3, <3>5
  <2> QED
    BY <2>1, <2>2
<1> QED
  BY <1>2, <1>8 DEF Wins

\* Loading a page keeps what is loaded in agreement with what is recorded.
LEMMA LoadPageStep ==
  ASSUME IInv, LoadPage PROVE IInv'
<1>1. /\ pc = "load" /\ pc' = "load" /\ UNCHANGED <<options, service, provider>>
      /\ loc' \in Locals(Sel) /\ \E n, page : PageRead(n, page)
  BY PageReads
<1>2. PICK n, page : PageRead(n, page)
  BY <1>1
<1>3. /\ TypeOK /\ OptionsInv /\ LoadInv /\ ChangesInv /\ KvsInv
      /\ RecordsInv(loc.etags) /\ KeysInv(loc.etags, loc.keys) /\ ProgressInv
      /\ WatchedInv(loc.watched) /\ \A i \in Items : store[i] <= writes
  BY <1>1 DEF IInv, LoadInv, Loading
<1>4. /\ store' = store /\ writes' = writes /\ watchers' = watchers /\ selectors' = selectors
      /\ loaded' = loaded /\ registerAll' = registerAll /\ UNCHANGED options
  BY <1>1 DEF options, service, provider
<1>5. /\ Sel' = Sel /\ (\A S : OfKind(S)' = OfKind(S))
      /\ \A i : Watched(i)' = Watched(i)
  BY <1>1, SameOptions
<1>6. /\ loc'.full = loc.full /\ loc'.watched = loc.watched /\ loc'.changes = loc.changes
      /\ loc'.kvs = loc.kvs /\ n \in Sel /\ page \in Listings
      /\ loc'.keys = loc.keys \cup (IF selectors[n].kind = "flags"
                                    THEN {KeyOf[i] : i \in {Order[p] : p \in Listed(page)} \ References}
                                    ELSE {})
  BY <1>2, <1>3, LocType DEF PageRead
<1>7. /\ DOMAIN loc'.etags = Sel
      /\ \A m \in Sel : \A k \in DOMAIN loc.etags[m] :
            k \in DOMAIN loc'.etags[m] /\ loc'.etags[m][k] = loc.etags[m][k]
      /\ \A m \in Sel : \A k \in DOMAIN loc'.etags[m] :
            \/ k \in DOMAIN loc.etags[m] /\ loc'.etags[m][k] = loc.etags[m][k]
            \/ m = n /\ selectors[n].kind # "snapshot" /\ loc'.etags[m][k] = page
      /\ \A m \in Sel : m # n \/ selectors[n].kind = "snapshot" => loc'.etags[m] = loc.etags[m]
      /\ selectors[n].kind # "snapshot" => \E h \in DOMAIN loc'.etags[n] : loc'.etags[n][h] = page
  <2>1. loc.todo \subseteq Sel
    BY <1>3, LocType
  <2> QED
    BY <1>2, <1>3, <2>1, RecordsGrow
<1>8. ChangesInv' /\ KvsInv'
  BY <1>3, <1>4, <1>6 DEF ChangesInv, KvsInv, Left
<1>9. RecordsInv(loc.etags)'
  <2>1. \A m \in OfKind({"snapshot"}) : loc'.etags[m] = <<>>
    BY <1>3, <1>7 DEF RecordsInv, OfKind
  <2>2. ASSUME NEW m \in Sel, NEW k \in DOMAIN loc'.etags[m], NEW p \in Listed(loc'.etags[m][k])
        PROVE  Order[p] \in selectors[m].items /\ loc'.etags[m][k][p] <= writes
    <3>1. CASE k \in DOMAIN loc.etags[m] /\ loc'.etags[m][k] = loc.etags[m][k]
      BY <1>3, <3>1 DEF RecordsInv
    <3>2. CASE m = n /\ selectors[n].kind # "snapshot" /\ loc'.etags[m][k] = page
      <4>1. Order[p] \in selectors[n].items /\ page[p] = VersionFor(n, Order[p])
        BY <1>2, <3>2 DEF PageRead
      <4>2. Order[p] \in Items /\ page[p] = store[Order[p]]
        BY <1>3, <1>6, <3>2, <4>1, SelType DEF VersionFor
      <4> QED
        BY <1>3, <3>2, <4>1, <4>2
    <3> QED
      BY <1>7, <3>1, <3>2
  <2> QED
    BY <1>4, <1>5, <1>7, <2>1, <2>2 DEF RecordsInv
<1>10. WatchedInv(loc.watched)'
  BY <1>3, <1>4, <1>5, <1>6 DEF WatchedInv
<1>11. KeysInv(loc.etags, loc.keys)'
  <2> SUFFICES ASSUME NEW m \in OfKind({"flags"}), NEW k \in DOMAIN loc'.etags[m],
                      NEW p \in Listed(loc'.etags[m][k]), Order[p] \in Plain
               PROVE  KeyOf[Order[p]] \in loc'.keys
    BY <1>5 DEF KeysInv
  <2>1. m \in Sel /\ selectors[m].kind = "flags"
    BY DEF OfKind
  <2>2. CASE k \in DOMAIN loc.etags[m] /\ loc'.etags[m][k] = loc.etags[m][k]
    BY <1>3, <1>6, <2>2 DEF KeysInv
  <2>3. CASE m = n /\ loc'.etags[m][k] = page
    BY <1>6, <2>1, <2>3 DEF Plain
  <2> QED
    BY <1>7, <2>1, <2>2, <2>3
<1>12. \A k \in loc'.keys : \E m \in OfKind({"flags"}) : \E h \in DOMAIN loc'.etags[m] :
          \E p \in Listed(loc'.etags[m][h]) : Order[p] \in Plain /\ KeyOf[Order[p]] = k
  <2> TAKE k \in loc'.keys
  <2>1. CASE k \in loc.keys
    <3>1. PICK m \in OfKind({"flags"}) : \E h \in DOMAIN loc.etags[m] :
            \E p \in Listed(loc.etags[m][h]) : Order[p] \in Plain /\ KeyOf[Order[p]] = k
      BY <1>3, <2>1 DEF LoadInv
    <3>2. m \in Sel
      BY DEF OfKind
    <3> QED
      BY <1>7, <3>1, <3>2
  <2>2. CASE k \notin loc.keys
    <3>1. selectors[n].kind = "flags" /\ k \in {KeyOf[i] : i \in {Order[p] : p \in Listed(page)} \ References}
      BY <1>6, <2>2
    <3>2. n \in OfKind({"flags"})
      BY <1>6, <3>1 DEF OfKind
    <3>3. PICK p \in Listed(page) : Order[p] \notin References /\ KeyOf[Order[p]] = k
      BY <3>1
    <3>4. Order[p] \in Plain
      BY <3>3, Positions DEF Listed, Plain
    <3> QED
      BY <1>7, <3>1, <3>2, <3>3, <3>4
  <2> QED
    BY <2>1, <2>2
<1>13. \A j \in Items : ~FreshWatched(j, loc.watched)'
  <2>1. \A j \in Items : loc'.watched[j] = Absent
    BY <1>1, <1>3, <1>6 DEF ProgressInv, Blank
  <2> QED
    BY <1>4, <2>1 DEF FreshWatched, Gone
<1>14. ProgressInv' /\ DataInv'
  BY <1>1, <1>2, <1>3, LoadPageProgress, LoadPageData
<1>15. /\ \A f \in Plain : FreshFlag(f, loc.etags)' => loc'.data[KeyOf[f]] = Entry(f)'
       /\ \A f \in Plain :
               GoneFlag(f, loc.etags, Kinds \ {"snapshot"}, loc.watched)' => loc'.data[KeyOf[f]] = None
  BY <1>1, <1>2, <1>3, LoadPageAlone
<1>16. registerAll' /\ loc'.full => \A k \in Keys : Wins(loc.data[k], k, loc.etags, loc.todo)'
  BY <1>1, <1>2, <1>3, <1>4, <1>6, LoadPageWins
<1>17. LoadInv'
  BY <1>1, <1>5, <1>9, <1>10, <1>11, <1>12, <1>13, <1>14, <1>15, <1>16 DEF LoadInv
<1>18. loaded \/ loc'.full
  BY <1>1, <1>3, <1>6 DEF OptionsInv
<1> QED
  BY <1>1, <1>8, <1>17, <1>18, InsideStep DEF Points, Checking, Loading

\* What the load has recorded means the same as long as the store and the options do.
LEMMA SameRecords ==
  ASSUME UNCHANGED <<options, service, provider>>, loc'.etags = loc.etags, loc'.keys = loc.keys
  PROVE  /\ RecordsInv(loc.etags)' = RecordsInv(loc.etags)
         /\ KeysInv(loc.etags, loc.keys)' = KeysInv(loc.etags, loc.keys)
         /\ \A f : FreshFlag(f, loc.etags)' = FreshFlag(f, loc.etags)
         /\ \A f, K : Unlisted(f, loc.etags, K)' = Unlisted(f, loc.etags, K)
         /\ \A i : Entry(i)' = Entry(i) /\ Gone(i)' = Gone(i)
         /\ loc'.todo = loc.todo /\ loc'.data = loc.data => \A k :
               Wins(loc.data[k], k, loc.etags, loc.todo)' = Wins(loc.data[k], k, loc.etags, loc.todo)
<1>1. /\ store' = store /\ writes' = writes /\ selectors' = selectors /\ Sel' = Sel
      /\ (\A K : OfKind(K)' = OfKind(K)) /\ (\A i : Alone(i)' = Alone(i))
  BY SameOptions DEF options, service
<1>2. RecordsInv(loc.etags)' = RecordsInv(loc.etags)
  BY <1>1 DEF RecordsInv
<1>3. KeysInv(loc.etags, loc.keys)' = KeysInv(loc.etags, loc.keys)
  BY <1>1 DEF KeysInv
<1>4. \A f : Fresh(f, loc.etags)' = Fresh(f, loc.etags)
  BY <1>1 DEF Fresh
<1>5. \A f, K : Unlisted(f, loc.etags, K)' = Unlisted(f, loc.etags, K)
  BY <1>1 DEF Unlisted
<1>6. \A i : Entry(i)' = Entry(i) /\ Gone(i)' = Gone(i)
  BY <1>1 DEF Entry, Gone
<1>7. ASSUME loc'.todo = loc.todo, loc'.data = loc.data, NEW k
      PROVE  Wins(loc.data[k], k, loc.etags, loc.todo)' = Wins(loc.data[k], k, loc.etags, loc.todo)
  <2>1. \A n, p : VersionFor(n, p)' = VersionFor(n, p)
    BY <1>1 DEF VersionFor
  <2>2. \A n : Listing(n, 0)' = Listing(n, 0)
    BY <1>1, <2>1 DEF Listing
  <2>3. \A n, p, v : Recorded(loc.etags, loc.todo, n, p, v)' = Recorded(loc.etags, loc.todo, n, p, v)
    BY <1>1, <1>7, <2>2 DEF Recorded
  <2> QED
    BY <1>1, <1>7, <2>3 DEF Wins
<1> QED
  BY <1>1, <1>2, <1>3, <1>4, <1>5, <1>6, <1>7 DEF FreshFlag

\* With all pages loaded, a full load goes on to the watched items, none of them visited.
LEMMA SelectedStep ==
  ASSUME IInv, Selected PROVE IInv'
<1>1. /\ pc = "load" /\ loc.todo = {} /\ UNCHANGED <<options, service, provider>>
      /\ loc.full => pc' = "watched" /\ loc' = [loc EXCEPT !.kvs = watchers]
      /\ ~loc.full => pc' = "apply" /\ loc' = loc
  BY DEF Selected, Goto
<1>2. /\ TypeOK /\ OptionsInv /\ LoadInv /\ ChangesInv /\ KvsInv /\ loc \in Locals(Sel)
      /\ ProgressInv /\ DataInv /\ WatchedInv(loc.watched) /\ loc.full \in BOOLEAN
  BY <1>1, LocType DEF IInv, LoadInv, Loading
<1>3. /\ store' = store /\ writes' = writes /\ watchers' = watchers /\ selectors' = selectors
      /\ loaded' = loaded /\ registerAll' = registerAll /\ UNCHANGED options
  BY <1>1 DEF options, service, provider
<1>4. /\ Sel' = Sel /\ (\A S : OfKind(S)' = OfKind(S)) /\ (\A S, i : Selects(S, i)' = Selects(S, i))
      /\ \A i : Watched(i)' = Watched(i) /\ OnlyWatched(i)' = OnlyWatched(i) /\ Alone(i)' = Alone(i)
                /\ Flag(i)' = Flag(i)
  BY <1>1, SameOptions
<1>5. watchers \in Seq(Watchers)
  BY <1>2, LocType
<1>6. /\ loc' \in Locals(Sel)
      /\ loc'.todo = loc.todo /\ loc'.full = loc.full /\ loc'.after = loc.after
      /\ loc'.etags = loc.etags /\ loc'.keys = loc.keys /\ loc'.data = loc.data
      /\ loc'.watched = loc.watched /\ loc'.changes = loc.changes
      /\ loc.full => loc'.kvs = watchers
      /\ ~loc.full => loc'.kvs = loc.kvs
  <2>1. CASE loc.full
    <3>1. loc' = [loc EXCEPT !.kvs = watchers]
      BY <1>1, <2>1
    <3> QED
      BY <1>2, <1>5, <2>1, <3>1 DEF Locals
  <2>2. CASE ~loc.full
    BY <1>1, <1>2, <2>2
  <2> QED
    BY <2>1, <2>2
<1>7. ChangesInv'
  BY <1>2, <1>3, <1>6 DEF ChangesInv
<1>8. KvsInv' /\ (loc.full => Left' = 0)
  <2>1. CASE loc.full
    <3>1. loc'.kvs = watchers
      BY <1>6, <2>1
    <3>2. Left' = 0 /\ Len(watchers) \in Nat
      BY <1>3, <1>5, <3>1 DEF Left
    <3>3. \A m \in DOMAIN watchers : 0 + m = m
      BY <1>5
    <3> QED
      BY <1>3, <3>1, <3>2, <3>3 DEF KvsInv
  <2>2. CASE ~loc.full
    BY <1>2, <1>3, <1>6, <2>2 DEF KvsInv, Left
  <2> QED
    BY <2>1, <2>2
<1>9. Kinds' = Kinds
  BY <1>6 DEF Kinds
<1>10. /\ RecordsInv(loc.etags)' /\ KeysInv(loc.etags, loc.keys)'
       /\ \A f : FreshFlag(f, loc.etags)' = FreshFlag(f, loc.etags)
       /\ \A f, S : Unlisted(f, loc.etags, S)' = Unlisted(f, loc.etags, S)
       /\ \A i : Entry(i)' = Entry(i) /\ Gone(i)' = Gone(i)
       /\ \A k : Wins(loc.data[k], k, loc.etags, loc.todo)'
                    = Wins(loc.data[k], k, loc.etags, loc.todo)
  BY <1>1, <1>2, <1>6, SameRecords DEF LoadInv
<1>11. WatchedInv(loc.watched)'
  BY <1>2, <1>3, <1>4, <1>6 DEF WatchedInv
<1>12. \A i \in Items : loc'.watched[i] = Absent
  BY <1>1, <1>2, <1>6 DEF ProgressInv, Blank
<1>13. ProgressInv'
  <2>1. Blank'.watched = Blank.watched
    BY DEF Blank
  <2>2. loc'.watched = Blank.watched
    BY <1>1, <1>2, <1>6 DEF ProgressInv
  <2>3. loc'.todo = {} /\ loc'.full = (pc' = "watched")
    BY <1>1, <1>2, <1>6
  <2>4. loc'.after = 0
    BY <1>1, <1>2, <1>6 DEF ProgressInv
  <2>5. ~loc.full => \A n \in Sel : selectors[n].kind # "flags" => loc'.etags[n] = etags'[n]
    BY <1>1, <1>2, <1>6 DEF ProgressInv, provider
  <2> QED
    BY <1>3, <1>4, <1>6, <2>1, <2>2, <2>3, <2>4, <2>5 DEF ProgressInv
<1>14. DataInv'
  BY <1>1, <1>2, <1>3, <1>4, <1>6, <1>9 DEF DataInv
<1>15. \A f : GoneFlag(f, loc.etags, Kinds \ {"snapshot"}, loc.watched)'
               = GoneFlag(f, loc.etags, Kinds \ {"snapshot"}, loc.watched)
  BY <1>4, <1>6, <1>9, <1>10 DEF GoneFlag
<1>16. \A j \in Items : ~FreshWatched(j, loc.watched)'
  BY <1>3, <1>12 DEF FreshWatched, Gone
<1>17. pc' = "watched" => \A j \in Items : OnlyWatched(j)' => Pending(j)'
  <2> SUFFICES ASSUME pc' = "watched", NEW j \in Items, OnlyWatched(j)' PROVE Pending(j)'
    OBVIOUS
  <2>1. loc.full /\ Left' = 0
    BY <1>1, <1>2, <1>8
  <2>2. PICK m \in DOMAIN watchers : watchers[m].item = j
    BY <1>4 DEF OnlyWatched, Watched
  <2>3. m \in Left' + 1..Len(watchers)
    <3>1. DOMAIN watchers = 1..Len(watchers)
      BY <1>5
    <3> QED
      BY <2>1, <3>1
  <2> QED
    BY <1>3, <2>2, <2>3 DEF Pending
<1>18. LoadInv'
  <2>1. (\A f \in Plain : FreshFlag(f, loc.etags) => loc.data[KeyOf[f]] = Entry(f))'
    BY <1>2, <1>6, <1>10 DEF LoadInv
  <2>2. (\A f \in Plain :
          GoneFlag(f, loc.etags, Kinds \ {"snapshot"}, loc.watched) => loc.data[KeyOf[f]] = None)'
    BY <1>2, <1>6, <1>15 DEF LoadInv
  <2>3. (registerAll /\ loc.full => \A k \in Keys : Wins(loc.data[k], k, loc.etags, loc.todo))'
    BY <1>2, <1>3, <1>6, <1>10 DEF LoadInv
  <2>4. (\A k \in loc.keys : \E n \in OfKind({"flags"}) : \E h \in DOMAIN loc.etags[n] :
          \E p \in Listed(loc.etags[n][h]) : Order[p] \in Plain /\ KeyOf[Order[p]] = k)'
    BY <1>2, <1>4, <1>6 DEF LoadInv
  <2> QED
    BY <1>10, <1>11, <1>13, <1>14, <1>16, <1>17, <2>1, <2>2, <2>3, <2>4 DEF LoadInv
<1>19. loaded \/ pc' = "watched"
  BY <1>1, <1>2 DEF OptionsInv
<1>20. pc' \in {"watched", "apply"}
  BY <1>1, <1>2
<1> QED
  BY <1>1, <1>6, <1>7, <1>8, <1>18, <1>19, <1>20, InsideStep DEF Points, Checking, Loading

---------------------------------------------------------------------------
(* Loading what is watched *)

\* What one turn of LoadKeyValuesRegisteredForRefresh does for item i: what is loaded
\* already is taken, nothing is found, or the item as it is in the store is put.
WatchedRead(i) ==
    /\ loc'.todo = loc.todo /\ loc'.full = loc.full /\ loc'.after = loc.after
    /\ loc'.etags = loc.etags /\ loc'.keys = loc.keys /\ loc'.changes = loc.changes
    /\ loc'.kvs = Tail(loc.kvs)
    /\ \/ /\ loc.data[KeyOf[i]] # None /\ loc.data[KeyOf[i]][1] = i
          /\ loc'.watched = [loc.watched EXCEPT ![i] = loc.data[KeyOf[i]][2]]
          /\ loc'.data = loc.data
       \/ /\ ~(loc.data[KeyOf[i]] # None /\ loc.data[KeyOf[i]][1] = i)
          /\ store[i] = Absent
          /\ loc'.watched = loc.watched /\ loc'.data = loc.data
       \/ /\ ~(loc.data[KeyOf[i]] # None /\ loc.data[KeyOf[i]][1] = i)
          /\ store[i] # Absent
          /\ loc'.watched = [loc.watched EXCEPT ![i] = store[i]]
          /\ loc'.data = PutAll(loc.data, Requested({i}))

\* One turn of LoadWatched, spelled out; the locals stay those of their types.
LEMMA WatchedReads ==
  ASSUME IInv, LoadWatched
  PROVE  /\ pc = "watched" /\ pc' = "watched" /\ loc.kvs # <<>>
         /\ UNCHANGED <<options, service, provider>>
         /\ loc' \in Locals(Sel) /\ WatchedRead(Head(loc.kvs).item)
<1> DEFINE i    == Head(loc.kvs).item
           held == loc.data[KeyOf[i]]
           l    == [loc EXCEPT !.kvs = Tail(@)]
           v    == held[2]
           wa   == [loc.watched EXCEPT ![i] = v]
           wc   == [loc.watched EXCEPT ![i] = store[i]]
           D    == PutAll(loc.data, Requested({i}))
<1>1. /\ pc = "watched" /\ pc' = "watched" /\ loc.kvs # <<>>
      /\ UNCHANGED <<options, service, provider>>
      /\ loc' = IF held # None /\ held[1] = i THEN [l EXCEPT !.watched[i] = held[2]]
                ELSE IF store[i] = Absent THEN l
                ELSE [l EXCEPT !.watched[i] = store[i], !.data = PutAll(@, Requested({i}))]
  BY DEF LoadWatched, Goto
<1>2. /\ TypeOK /\ loc \in Locals(Sel) /\ loc.data \in [Keys -> Entries \cup {None}]
      /\ loc.watched \in [Items -> Nat] /\ i \in Items /\ Tail(loc.kvs) \in Seq(Watchers)
      /\ store[i] \in Nat /\ KeyOf[i] \in Keys
  <2>1. TypeOK /\ KvsInv
    BY DEF IInv
  <2>2. i \in Items /\ Tail(loc.kvs) \in Seq(Watchers)
    BY <1>1, <2>1, NextWatcher
  <2> HIDE DEF i
  <2>3. store[i] \in Nat
    BY <2>1, <2>2 DEF TypeOK
  <2> QED
    BY <2>1, <2>2, <2>3, LocType, KeyFacts
<1>3. /\ l \in Locals(Sel) /\ l.kvs = Tail(loc.kvs)
      /\ l.todo = loc.todo /\ l.full = loc.full /\ l.after = loc.after
      /\ l.etags = loc.etags /\ l.keys = loc.keys /\ l.changes = loc.changes
      /\ l.data = loc.data /\ l.watched = loc.watched
  BY <1>2 DEF Locals
<1>4. wc \in [Items -> Nat] /\ D \in [Keys -> Entries \cup {None}]
  <2>1. Requested({i}) \in Listings
    BY <1>2, ListingType
  <2> HIDE DEF i
  <2> QED
    BY <1>2, <2>1, PutType
<1>5. held # None => v \in Nat /\ wa \in [Items -> Nat]
  <2> SUFFICES ASSUME held # None PROVE v \in Nat /\ wa \in [Items -> Nat]
    OBVIOUS
  <2> HIDE DEF i
  <2>1. held \in Entries
    BY <1>2
  <2>2. v \in Nat
    BY <2>1 DEF Entries
  <2> HIDE DEF v
  <2> QED
    BY <1>2, <2>2
<1>6. CASE held # None /\ held[1] = i
  <2>1. loc' = [l EXCEPT !.watched[i] = v]
    BY <1>1, <1>6
  <2> HIDE DEF l, i, held, v
  <2>2. loc' = [l EXCEPT !.watched = wa]
    BY <1>3, <2>1 DEF Locals
  <2>3. wa \in [Items -> Nat]
    BY <1>5, <1>6
  <2> HIDE DEF wa
  <2>4. /\ loc' \in Locals(Sel) /\ loc'.watched = wa /\ loc'.kvs = l.kvs
        /\ loc'.todo = l.todo /\ loc'.full = l.full /\ loc'.after = l.after
        /\ loc'.etags = l.etags /\ loc'.keys = l.keys /\ loc'.changes = l.changes
        /\ loc'.data = l.data
    BY <1>3, <2>2, <2>3 DEF Locals
  <2>5. WatchedRead(i)
    BY <1>3, <1>6, <2>4 DEF WatchedRead, wa, held, v
  <2> QED
    BY <1>1, <2>4, <2>5 DEF i
<1>7. CASE ~(held # None /\ held[1] = i) /\ store[i] = Absent
  <2>1. loc' = l
    BY <1>1, <1>7
  <2> HIDE DEF l, i
  <2>2. WatchedRead(i)
    BY <1>3, <1>7, <2>1 DEF WatchedRead
  <2> QED
    BY <1>1, <1>3, <2>1, <2>2 DEF i
<1>8. CASE ~(held # None /\ held[1] = i) /\ store[i] # Absent
  <2> DEFINE l1 == [l EXCEPT !.watched = wc]
  <2>1. loc' = [l EXCEPT !.watched[i] = store[i], !.data = PutAll(@, Requested({i}))]
    BY <1>1, <1>8
  <2> HIDE DEF l, i
  <2>2. l1 = [l EXCEPT !.watched[i] = store[i]]
    BY <1>3 DEF Locals
  <2>3. l1.data = loc.data
    BY <1>3 DEF Locals
  <2>4. loc' = [l1 EXCEPT !.data = D]
    BY <2>1, <2>2, <2>3
  <2> HIDE DEF wc, D
  <2>5. /\ l1 \in Locals(Sel) /\ l1.watched = wc /\ l1.kvs = l.kvs
        /\ l1.todo = l.todo /\ l1.full = l.full /\ l1.after = l.after
        /\ l1.etags = l.etags /\ l1.keys = l.keys /\ l1.changes = l.changes
    BY <1>3, <1>4 DEF Locals
  <2> HIDE DEF l1
  <2>6. /\ loc' \in Locals(Sel) /\ loc'.watched = wc /\ loc'.data = D /\ loc'.kvs = l.kvs
        /\ loc'.todo = l.todo /\ loc'.full = l.full /\ loc'.after = l.after
        /\ loc'.etags = l.etags /\ loc'.keys = l.keys /\ loc'.changes = l.changes
    BY <1>4, <2>4, <2>5 DEF Locals
  <2>7. WatchedRead(i)
    BY <1>3, <1>8, <2>6 DEF WatchedRead, wc, D
  <2> QED
    BY <1>1, <2>6, <2>7 DEF i
<1> QED
  BY <1>6, <1>7, <1>8

\* An item that is watched is one of the sources of its key.
LEMMA AloneWatched ==
  ASSUME NEW j \in Items, Alone(j), NEW i \in Items, Watched(i), KeyFrom(i) = KeyFrom(j)
  PROVE  i = j
<1>1. PICK m \in DOMAIN watchers : watchers[m].item = i
  BY DEF Watched
<1>2. \E w \in Range(watchers) : w.item = i
  BY <1>1 DEF Range
<1>3. <<"store", i>> \in Sources(KeyFrom(j))
  BY <1>2 DEF Sources
<1>4. <<"store", i>> = <<"store", j>>
  BY <1>3 DEF Alone
<1> QED
  BY <1>4

\* What the request for one item puts is that item.
LEMMA RequestPuts ==
  ASSUME TypeOK, NEW i \in Items, NEW data, NEW k \in Keys
  PROVE  PutAll(data, Requested({i}))[k]
           = IF store[i] # Absent /\ k \in Sets(Entry(i)) THEN Entry(i) ELSE data[k]
<1> DEFINE l == Requested({i})
<1>1. l \in Listings
  BY ListingType
<1>2. \A p \in DOMAIN Order : l[p] = IF Order[p] = i THEN store[i] ELSE Absent
  BY DEF Requested
<1> HIDE DEF l
<1>3. \A p \in For(k, l) : Order[p] = i /\ l[p] = store[i] /\ store[i] # Absent /\ k \in Sets(Entry(i))
  <2> TAKE p \in For(k, l)
  <2>1. p \in DOMAIN Order /\ l[p] # Absent /\ k \in Sets(<<Order[p], l[p]>>)
    BY DEF For, Listed, EntryAt
  <2>2. Order[p] = i /\ l[p] = store[i]
    BY <1>2, <2>1
  <2> QED
    BY <2>1, <2>2 DEF Entry
<1>4. CASE For(k, l) = {}
  <2>1. PICK p \in DOMAIN Order : Order[p] = i
    BY Positions
  <2>2. ~(store[i] # Absent /\ k \in Sets(Entry(i)))
    <3> SUFFICES ASSUME store[i] # Absent, k \in Sets(Entry(i)) PROVE FALSE
      OBVIOUS
    <3>1. l[p] = store[i] /\ <<Order[p], l[p]>> = Entry(i)
      BY <1>2, <2>1 DEF Entry
    <3>2. p \in For(k, l)
      BY <3>1 DEF For, Listed, EntryAt
    <3> QED
      BY <1>4, <3>2
  <2> QED
    BY <1>1, <1>4, <2>2, PutLast DEF l
<1>5. CASE For(k, l) # {}
  <2>1. PICK p \in For(k, l) : PutAll(data, l)[k] = <<Order[p], l[p]>>
    BY <1>1, <1>5, PutLast
  <2> QED
    BY <1>3, <2>1 DEF Entry, l
<1> QED
  BY <1>4, <1>5

\* What is loaded for the key of an item that is its only source is that item.
LEMMA AloneLoaded ==
  ASSUME TypeOK, OptionsInv, DataInv, KvsInv, NEW j \in Items, Alone(j), loc.data[KeyFrom(j)] # None
  PROVE  /\ loc.data[KeyFrom(j)][1] = j /\ KeyFrom(j) \in Sets(<<j, loc.data[KeyFrom(j)][2]>>)
         /\ loc.data[KeyFrom(j)] = <<j, loc.data[KeyFrom(j)][2]>>
         /\ Selects(Kinds \ {"snapshot"}, j) \/ (pc = "watched" /\ Visited(j))
<1> DEFINE k == KeyFrom(j)
           d == loc.data[k]
<1>1. k \in Keys /\ d \in Entries /\ d = <<d[1], d[2]>> /\ d[1] \in Items /\ d # None
  <2>1. k \in Keys
    BY KeyFacts
  <2>2. d \in Entries
    BY <2>1, LocType
  <2> HIDE DEF d
  <2> QED
    BY <2>1, <2>2 DEF Entries, d
<1>2. k \in Sets(d) /\ (Selects(Kinds, d[1]) \/ (pc = "watched" /\ Visited(d[1])))
  <2> HIDE DEF k
  <2>1. loc.data[k] # None
    BY <1>1
  <2> QED
    BY <1>1, <2>1 DEF DataInv
<1>3. KeyFrom(d[1]) = k
  <2> HIDE DEF d, k
  <2>1. k \in Sets(<<d[1], d[2]>>)
    BY <1>1, <1>2
  <2> QED
    BY <1>1, <2>1, SetsOne
<1>4. CASE Selects(Kinds, d[1])
  <2>1. PICK n \in OfKind(Kinds) : d[1] \in selectors[n].items
    BY <1>4 DEF Selects
  <2>2. n \in Sel
    BY DEF OfKind
  <2> HIDE DEF d
  <2>3. d[1] = j /\ selectors[n].kind \in {"keys", "flags"}
    BY <1>3, <2>1, <2>2, AloneSelected
  <2>4. n \in OfKind(Kinds \ {"snapshot"})
    BY <2>3 DEF OfKind
  <2>5. Selects(Kinds \ {"snapshot"}, j)
    BY <2>1, <2>3, <2>4 DEF Selects
  <2> QED
    BY <1>1, <1>2, <2>3, <2>5 DEF d
<1>5. CASE pc = "watched" /\ Visited(d[1])
  <2> HIDE DEF d
  <2>1. Watched(d[1])
    <3>1. PICK m \in 1..Left : watchers[m].item = d[1]
      BY <1>5 DEF Visited
    <3>2. Len(loc.kvs) \in Nat /\ Len(watchers) \in Nat /\ DOMAIN watchers = 1..Len(watchers)
      BY LocType
    <3>3. m \in DOMAIN watchers
      BY <3>2 DEF Left
    <3> QED
      BY <3>1, <3>3 DEF Watched
  <2>2. d[1] = j
    BY <1>1, <1>3, <2>1, AloneWatched
  <2> QED
    BY <1>1, <1>2, <1>5, <2>2 DEF d
<1> QED
  BY <1>2, <1>4, <1>5

\* A snapshot reference that is alone, is no flag and is not read twice has not been
\* loaded before its watcher is visited.
LEMMA NotReadBefore ==
  ASSUME TypeOK, OptionsInv, DataInv, KvsInv, loc.kvs # <<>>,
         NEW j \in References, j = Head(loc.kvs).item, OnlyWatched(j), ~ReadTwice(j)
  PROVE  loc.data[KeyFrom(j)] = None
<1> SUFFICES ASSUME loc.data[KeyFrom(j)] # None PROVE FALSE
  OBVIOUS
<1>1. j \in Items /\ Alone(j) /\ ~Flag(j)
  BY KeyFacts DEF OnlyWatched
<1>2. /\ Left \in 0..Len(watchers) - 1 /\ Left + 1 \in DOMAIN watchers
      /\ watchers[Left + 1].item = j /\ Len(watchers) \in Nat /\ DOMAIN watchers = 1..Len(watchers)
  <2>1. watchers \in Seq(Watchers)
    BY LocType
  <2>2. Len(watchers) \in Nat /\ DOMAIN watchers = 1..Len(watchers)
    BY <2>1
  <2> QED
    BY <2>2, NextWatcher
<1>3. CASE Selects(Kinds \ {"snapshot"}, j)
  <2>1. PICK n \in OfKind(Kinds \ {"snapshot"}) : j \in selectors[n].items
    BY <1>3 DEF Selects
  <2>2. n \in OfKind({"flags"}) \/ n \in OfKind({"keys"})
    BY <2>1 DEF OfKind, Kinds
  <2>3. Selects({"keys"}, j)
    BY <1>1, <2>1, <2>2 DEF Selects, Flag
  <2> QED
    BY <1>2, <2>3 DEF ReadTwice
<1>4. CASE Visited(j)
  <2>1. PICK m \in 1..Left : watchers[m].item = j
    BY <1>4 DEF Visited
  <2>2. m \in DOMAIN watchers /\ m # Left + 1
    BY <1>2, <2>1
  <2> QED
    BY <1>2, <2>1, <2>2 DEF ReadTwice
<1> QED
  BY <1>1, <1>3, <1>4, AloneLoaded

\* Loading a watched item keeps the agreement: its version is recorded with its data.
LEMMA LoadWatchedStep ==
  ASSUME IInv, LoadWatched PROVE IInv'
<1>0. PICK i : i = Head(loc.kvs).item
  OBVIOUS
<1>1. /\ pc = "watched" /\ pc' = "watched" /\ loc.kvs # <<>>
      /\ UNCHANGED <<options, service, provider>> /\ loc' \in Locals(Sel) /\ WatchedRead(i)
  BY <1>0, WatchedReads
<1>2. /\ TypeOK /\ OptionsInv /\ LoadInv /\ ChangesInv /\ KvsInv
      /\ ProgressInv /\ DataInv /\ WatchedInv(loc.watched) /\ loc.data \in [Keys -> Entries \cup {None}]
      /\ loc.watched \in [Items -> Nat] /\ \A h \in Items : store[h] <= writes /\ store[h] \in Nat
  <2>1. TypeOK /\ OptionsInv /\ LoadInv /\ ChangesInv /\ KvsInv /\ \A h \in Items : store[h] <= writes
    BY <1>1 DEF IInv, Loading
  <2> QED
    BY <2>1, LocType DEF LoadInv, TypeOK
<1>3. /\ store' = store /\ writes' = writes /\ watchers' = watchers /\ selectors' = selectors
      /\ loaded' = loaded /\ registerAll' = registerAll /\ UNCHANGED options
  BY <1>1 DEF options, service, provider
<1>4. /\ Sel' = Sel /\ (\A S : OfKind(S)' = OfKind(S)) /\ (\A S, h : Selects(S, h)' = Selects(S, h))
      /\ \A h : Watched(h)' = Watched(h) /\ OnlyWatched(h)' = OnlyWatched(h) /\ Alone(h)' = Alone(h)
                /\ Flag(h)' = Flag(h) /\ ReadTwice(h)' = ReadTwice(h)
  BY <1>1, SameOptions
<1>5. /\ loc'.todo = loc.todo /\ loc'.full = loc.full /\ loc'.after = loc.after
      /\ loc'.etags = loc.etags /\ loc'.keys = loc.keys /\ loc'.changes = loc.changes
      /\ loc'.kvs = Tail(loc.kvs) /\ Kinds' = Kinds
  BY <1>1 DEF WatchedRead, Kinds
<1>6. ChangesInv' /\ KvsInv' /\ Left' = Left + 1
  BY <1>1, <1>2, <1>3, <1>5, KvsStep DEF ChangesInv
<1>7. /\ i \in Items /\ Left \in 0..Len(watchers) - 1 /\ Left + 1 \in DOMAIN watchers
      /\ watchers[Left + 1].item = i /\ Len(watchers) \in Nat /\ Watched(i) /\ KeyOf[i] \in Keys
  <2>1. watchers \in Seq(Watchers)
    BY <1>2, LocType
  <2>2. /\ i \in Items /\ Left \in 0..Len(watchers) - 1 /\ Left + 1 \in DOMAIN watchers
        /\ watchers[Left + 1].item = i
    BY <1>0, <1>1, <1>2, NextWatcher
  <2> QED
    BY <2>1, <2>2, KeyFacts DEF Watched
<1>8. /\ \A j : Visited(j) => Visited(j)'
      /\ Visited(i)'
      /\ \A j : j # i /\ Pending(j) => Pending(j)'
  <2>1. \A j : Visited(j) => Visited(j)'
    BY <1>3, <1>6, <1>7 DEF Visited
  <2>2. Visited(i)'
    BY <1>3, <1>6, <1>7 DEF Visited
  <2>3. ASSUME NEW j, j # i, Pending(j) PROVE Pending(j)'
    <3>1. PICK m \in Left + 1..Len(watchers) : watchers[m].item = j
      BY <2>3 DEF Pending
    <3>2. m # Left + 1
      BY <1>7, <2>3, <3>1
    <3>3. m \in Left' + 1..Len(watchers)
      BY <1>6, <1>7, <3>1, <3>2
    <3> QED
      BY <1>3, <3>1, <3>3 DEF Pending
  <2> QED
    BY <2>1, <2>2, <2>3
<1>9. /\ RecordsInv(loc.etags)' /\ KeysInv(loc.etags, loc.keys)'
      /\ \A f : FreshFlag(f, loc.etags)' = FreshFlag(f, loc.etags)
      /\ \A f, S : Unlisted(f, loc.etags, S)' = Unlisted(f, loc.etags, S)
      /\ \A h : Entry(h)' = Entry(h) /\ Gone(h)' = Gone(h)
  BY <1>1, <1>2, <1>5, SameRecords DEF LoadInv
<1> DEFINE held == loc.data[KeyOf[i]]
           A == /\ held # None /\ held[1] = i
                /\ loc'.watched = [loc.watched EXCEPT ![i] = held[2]]
                /\ loc'.data = loc.data
           B == /\ ~(held # None /\ held[1] = i) /\ store[i] = Absent
                /\ loc'.watched = loc.watched /\ loc'.data = loc.data
           C == /\ ~(held # None /\ held[1] = i) /\ store[i] # Absent
                /\ loc'.watched = [loc.watched EXCEPT ![i] = store[i]]
                /\ loc'.data = PutAll(loc.data, Requested({i}))
<1>10. A \/ B \/ C
  BY <1>1 DEF WatchedRead
  \* What is taken from the loaded data.
<1>11. ASSUME A
       PROVE  /\ held[2] \in Nat \ {Absent} /\ held[2] <= writes /\ held = <<i, held[2]>>
              /\ KeyOf[i] = KeyFrom(i) /\ KeyFrom(i) \in Sets(<<i, held[2]>>)
              /\ loc'.watched[i] = held[2]
  <2>1. held \in Entries
    BY <1>2, <1>7, <1>11
  <2>2. held = <<i, held[2]>> /\ held[2] \in Nat \ {Absent}
    BY <1>11, <2>1 DEF Entries
  <2>3. KeyOf[i] \in Sets(held) /\ held[2] <= writes
    BY <1>2, <1>7, <1>11 DEF DataInv
  <2> HIDE DEF held
  <2>4. KeyOf[i] \in Sets(<<i, held[2]>>)
    BY <2>2, <2>3
  <2>5. KeyOf[i] = KeyFrom(i)
    BY <1>7, <2>4, SetsOne
  <2> QED
    BY <1>2, <1>7, <1>11, <2>2, <2>3, <2>4, <2>5
  \* What is put into the loaded data.
<1>12. ASSUME C, NEW k \in Keys
       PROVE  loc'.data[k] = IF k \in Sets(Entry(i)) THEN Entry(i) ELSE loc.data[k]
  BY <1>2, <1>7, <1>12, RequestPuts
<1>13. Entry(i) = <<i, store[i]>>
  BY DEF Entry
<1>14. ASSUME NEW j \in Items, Alone(j), j # i
       PROVE  loc'.data[KeyFrom(j)] = loc.data[KeyFrom(j)] /\ loc'.watched[j] = loc.watched[j]
  <2>1. KeyFrom(j) \in Keys /\ KeyFrom(i) # KeyFrom(j)
    BY <1>7, <1>14, AloneWatched, KeyFacts
  <2>2. KeyFrom(j) \notin Sets(Entry(i))
    BY <1>7, <1>13, <2>1, SetsOne
  <2>3. C => loc'.data[KeyFrom(j)] = loc.data[KeyFrom(j)]
    BY <1>12, <2>1, <2>2
  <2> HIDE DEF held
  <2> QED
    BY <1>2, <1>10, <1>14, <2>3
<1> HIDE DEF A, B, C
<1>15. WatchedInv(loc.watched)'
  <2>1. ASSUME NEW h \in Items PROVE loc'.watched[h] <= writes /\ (loc'.watched[h] # Absent => Watched(h))
    <3>1. CASE h # i
      <4>1. loc'.watched[h] = loc.watched[h]
        <5> HIDE DEF held
        <5> QED
          BY <1>2, <1>10, <3>1 DEF A, B, C
      <4> QED
        BY <1>2, <4>1 DEF WatchedInv
    <3>2. CASE h = i
      <4>1. A => loc'.watched[i] <= writes
        BY <1>11
      <4>2. B => loc'.watched[i] <= writes
        BY <1>2, <1>7 DEF WatchedInv, B
      <4>3. C => loc'.watched[i] <= writes
        BY <1>2, <1>7 DEF C
      <4> QED
        BY <1>7, <1>10, <3>2, <4>1, <4>2, <4>3
    <3> QED
      BY <3>1, <3>2
  <2> QED
    BY <1>3, <1>4, <2>1 DEF WatchedInv
<1>16. ProgressInv'
  <2>1. etags' = etags
    BY <1>1 DEF provider
  <2> QED
    BY <2>1, <1>1, <1>2, <1>3, <1>4, <1>5 DEF ProgressInv, Blank
<1>17. DataInv'
  <2> SUFFICES ASSUME NEW k \in Keys, loc'.data[k] # None
               PROVE  /\ k \in Sets(loc'.data[k]) /\ loc'.data[k][2] <= writes
                      /\ Selects(Kinds, loc'.data[k][1]) \/ Visited(loc.data[k][1])'
    BY <1>1, <1>3, <1>4, <1>5 DEF DataInv
  <2>1. CASE loc'.data[k] = loc.data[k]
    BY <1>1, <1>2, <1>8, <2>1 DEF DataInv
  <2>2. CASE loc'.data[k] # loc.data[k]
    <3>1. C
      BY <1>10, <2>2 DEF A, B
    <3>2. k \in Sets(Entry(i)) /\ loc'.data[k] = Entry(i)
      BY <1>12, <2>2, <3>1
    <3>3. Visited(loc.data[k][1])'
      BY <1>8, <1>13, <3>2
    <3> QED
      BY <1>2, <1>7, <1>13, <3>2, <3>3
  <2> QED
    BY <2>1, <2>2
<1>18. ASSUME NEW f \in Plain, FreshFlag(f, loc.etags) PROVE loc'.data[KeyOf[f]] = Entry(f)
  <2>1. f \in Items /\ KeyFrom(f) = KeyOf[f] /\ Alone(f) /\ KeyOf[f] \in Keys
    BY <1>18, KeyFacts DEF Plain, KeyFrom, FreshFlag
  <2>2. loc.data[KeyOf[f]] = Entry(f)
    BY <1>2, <1>18 DEF LoadInv
  <2>3. CASE f # i
    BY <1>14, <2>1, <2>2, <2>3
  <2>4. CASE f = i
    <3>1. C => loc'.data[KeyOf[f]] = Entry(f)
      BY <1>12, <2>1, <2>2, <2>4
    <3> QED
      BY <1>10, <2>2, <3>1 DEF A, B
  <2> QED
    BY <2>3, <2>4
<1>19. ASSUME NEW f \in Plain, GoneFlag(f, loc.etags, Kinds \ {"snapshot"}, loc.watched)'
       PROVE  loc'.data[KeyOf[f]] = None
  <2>1. /\ f \in Items /\ KeyFrom(f) = KeyOf[f] /\ Alone(f) /\ Flag(f) /\ loc'.watched[f] = Absent
        /\ Unlisted(f, loc.etags, Kinds \ {"snapshot"})'
    BY <1>4, <1>19 DEF Plain, KeyFrom, GoneFlag
  <2>2. Unlisted(f, loc.etags, Kinds \ {"snapshot"})
    BY <1>4, <1>5, <2>1 DEF Unlisted
  <2>3. GoneFlag(f, loc.etags, Kinds \ {"snapshot"}, loc.watched) => loc.data[KeyOf[f]] = None
    BY <1>2 DEF LoadInv
  <2>4. CASE f # i
    <3>1. loc'.data[KeyOf[f]] = loc.data[KeyOf[f]] /\ loc'.watched[f] = loc.watched[f]
      BY <1>14, <2>1, <2>4
    <3> QED
      BY <2>1, <2>2, <2>3, <3>1 DEF GoneFlag
  <2>5. CASE f = i
    <3>1. ~A
      BY <1>11, <2>1, <2>5
    <3>2. ~C
      <4>1. C => loc'.watched[i] = store[i] /\ store[i] # Absent
        BY <1>2, <1>7 DEF C
      <4> QED
        BY <2>1, <2>5, <4>1
    <3>3. loc'.data = loc.data /\ loc'.watched = loc.watched
      BY <1>10, <3>1, <3>2 DEF B
    <3> QED
      BY <2>1, <2>2, <2>3, <3>3 DEF GoneFlag
  <2> QED
    BY <2>4, <2>5
<1>20. ASSUME NEW j \in Items, FreshWatched(j, loc.watched)' PROVE loc'.data[KeyFrom(j)] = Entry(j)
  <2>1. OnlyWatched(j) /\ Alone(j) /\ loc'.watched[j] = store[j] /\ ~Gone(j) /\ KeyFrom(j) \in Keys
    BY <1>3, <1>4, <1>9, <1>20, KeyFacts DEF FreshWatched, OnlyWatched
  <2>2. FreshWatched(j, loc.watched) => loc.data[KeyFrom(j)] = Entry(j)
    BY <1>2 DEF LoadInv
  <2>3. CASE j # i
    <3>1. loc'.data[KeyFrom(j)] = loc.data[KeyFrom(j)] /\ loc'.watched[j] = loc.watched[j]
      BY <1>14, <2>1, <2>3
    <3> QED
      BY <2>1, <2>2, <3>1 DEF FreshWatched
  <2>4. CASE j = i /\ A
    <3>1. held = <<i, store[i]>> /\ KeyOf[i] = KeyFrom(i)
      BY <1>11, <2>1, <2>4
    <3> QED
      BY <1>13, <2>4, <3>1 DEF A
  <2>5. CASE j = i /\ B
    BY <2>1, <2>2, <2>5 DEF B, FreshWatched
  <2>6. CASE j = i /\ C
    <3>1. Sets(Entry(i)) # {}
      BY <2>1, <2>6 DEF Gone
    <3>2. Sets(Entry(i)) = {KeyFrom(i)}
      BY <1>7, <1>13, <3>1, SetsOne
    <3> QED
      BY <1>12, <2>1, <2>6, <3>2
  <2> QED
    BY <1>10, <2>3, <2>4, <2>5, <2>6
<1>21. ASSUME NEW j \in Items, OnlyWatched(j), ~ReadTwice(j), ~Pending(j)', loc'.data[KeyFrom(j)] # None
       PROVE  loc'.watched[j] = loc'.data[KeyFrom(j)][2]
  <2>1. Alone(j) /\ KeyFrom(j) \in Keys
    BY <1>21, KeyFacts DEF OnlyWatched
  <2>2. ~Pending(j) /\ loc.data[KeyFrom(j)] # None => loc.watched[j] = loc.data[KeyFrom(j)][2]
    BY <1>1, <1>2, <1>21 DEF LoadInv
  <2>3. CASE j # i
    <3>1. ~Pending(j)
      BY <1>8, <1>21, <2>3
    <3> QED
      BY <1>14, <1>21, <2>1, <2>2, <2>3, <3>1
  <2>4. CASE j = i /\ A
    BY <1>11, <2>4 DEF A
  \* Nothing has been loaded for its key before: a setting is what it is loaded for.
  <2>5. ASSUME j = i, B \/ C PROVE loc.data[KeyFrom(j)] = None \/ (C /\ j \notin References)
    <3>1. CASE j \in References
      BY <1>0, <1>1, <1>2, <1>21, <2>5, <3>1, NotReadBefore
    <3>2. CASE j \notin References /\ B
      <4>1. KeyFrom(j) = KeyOf[i]
        BY <2>5, <3>2 DEF KeyFrom
      <4>2. loc.data[KeyFrom(j)] # None => held[1] = i
        BY <1>2, <2>1, <2>5, <4>1, AloneLoaded
      <4> QED
        BY <3>2, <4>1, <4>2 DEF B
    <3> QED
      BY <2>5, <3>1, <3>2
  <2>6. CASE j = i /\ B
    <3>1. ~(B /\ C)
      BY DEF B, C
    <3>2. loc.data[KeyFrom(j)] = None
      BY <2>5, <2>6, <3>1
    <3> QED
      BY <1>21, <2>6, <3>2 DEF B
  <2>7. CASE j = i /\ C
    <3>1. KeyFrom(j) \in Sets(Entry(i))
      <4>1. j \notin References => Sets(Entry(i)) = {KeyOf[i]} /\ KeyFrom(j) = KeyOf[i]
        BY <1>7, <1>13, <2>7, SetsOne DEF KeyFrom
      <4>2. loc.data[KeyFrom(j)] = None => KeyFrom(j) \in Sets(Entry(i))
        BY <1>12, <1>21, <2>1, <2>7
      <4> QED
        BY <2>5, <2>7, <4>1, <4>2
    <3>2. loc'.data[KeyFrom(j)] = <<i, store[i]>>
      BY <1>12, <1>13, <2>1, <2>7, <3>1
    <3>3. loc'.watched[i] = store[i]
      BY <1>2, <1>7, <2>7 DEF C
    <3> QED
      BY <2>7, <3>2, <3>3
  <2> QED
    BY <1>10, <2>3, <2>4, <2>6, <2>7
<1>22. ~registerAll
  <2>1. watchers # <<>>
    BY <1>7
  <2> QED
    BY <1>2, <2>1 DEF OptionsInv
<1>23. LoadInv'
  <2>1. (\A f \in Plain : FreshFlag(f, loc.etags) => loc.data[KeyOf[f]] = Entry(f))'
    BY <1>9, <1>18
  <2>2. (\A f \in Plain :
          GoneFlag(f, loc.etags, Kinds \ {"snapshot"}, loc.watched) => loc.data[KeyOf[f]] = None)'
    BY <1>19
  <2>3. (\A k \in loc.keys : \E n \in OfKind({"flags"}) : \E h \in DOMAIN loc.etags[n] :
          \E p \in Listed(loc.etags[n][h]) : Order[p] \in Plain /\ KeyOf[Order[p]] = k)'
    BY <1>2, <1>4, <1>5 DEF LoadInv
  <2>4. (\A j \in Items : FreshWatched(j, loc.watched) => loc.data[KeyFrom(j)] = Entry(j))'
    BY <1>9, <1>20
  <2>5. (\A j \in Items : OnlyWatched(j) /\ ~ReadTwice(j) /\ ~Pending(j) /\ loc.data[KeyFrom(j)] # None =>
              loc.watched[j] = loc.data[KeyFrom(j)][2])'
    BY <1>4, <1>21
  <2> QED
    BY <1>3, <1>9, <1>15, <1>16, <1>17, <1>22, <2>1, <2>2, <2>3, <2>4, <2>5 DEF LoadInv
<1> QED
  BY <1>1, <1>6, <1>23, InsideStep DEF Points, Checking, Loading

---------------------------------------------------------------------------
(* Applying *)

\* A step that ends a refresh: what it leaves as held is what matters.
LEMMA EndStep ==
  ASSUME IInv, UNCHANGED <<options, service>>, pc' = "idle", loc' = Blank,
         loaded' = TRUE, mapped' \in [Keys -> Entries \cup {None}],
         watched' \in [Items -> Nat], ffKeys' \subseteq Keys, etags' \in Seq(Seq(Listings)),
         HeldInv'
  PROVE  IInv'
<1> USE DEF IInv
<1>1. /\ UNCHANGED options /\ store' = store /\ writes' = writes /\ selectors' = selectors
      /\ selectCalled' = selectCalled /\ ffWatchers' = ffWatchers /\ watchers' = watchers /\ calls' = calls
      /\ registerAll' = registerAll
  BY DEF options, service
<1>2. /\ Sel' = Sel /\ \A K : OfKind(K)' = OfKind(K)
  BY <1>1, SameOptions
<1>3. loc' \in Locals(Sel)
  BY BlankType
<1>4. TypeOK'
  BY <1>1, <1>2, <1>3 DEF TypeOK, Locals
<1>5. OptionsInv'
  BY <1>1, <1>2 DEF OptionsInv
<1>6. ChangesInv' /\ KvsInv'
  <2>1. loc'.changes = <<>> /\ loc'.kvs = <<>>
    BY DEF Blank
  <2>2. watchers' \in Seq(Watchers)
    BY <1>1 DEF TypeOK
  <2> QED
    BY <2>1, <2>2 DEF ChangesInv, KvsInv
<1> QED
  BY <1>1, <1>4, <1>5, <1>6 DEF Checking, Loading

\* What the mapper makes of entries are entries or none.
LEMMA MapType ==
  ASSUME NEW data \in [Keys -> Entries \cup {None}]
  PROVE  /\ MapAll(data) \in [Keys -> Entries \cup {None}]
         /\ MapSetting(None) = None
         /\ \A e \in Entries \cup {None} : MapSetting(e) \in Entries \cup {None}
BY DEF MapAll, MapSetting

\* The keys recorded with the flags are keys of flags.
LEMMA LoadedKeys ==
  ASSUME IInv, LoadInv
  PROVE  loc.keys \subseteq FlagKeys
<1> SUFFICES ASSUME NEW k \in loc.keys PROVE k \in FlagKeys
  OBVIOUS
<1>1. PICK n \in OfKind({"flags"}) : \E h \in DOMAIN loc.etags[n] :
         \E p \in Listed(loc.etags[n][h]) : Order[p] \in Plain /\ KeyOf[Order[p]] = k
  BY DEF LoadInv
<1>2. n \in Sel
  BY DEF OfKind
<1>3. PICK h \in DOMAIN loc.etags[n] :
         \E p \in Listed(loc.etags[n][h]) : Order[p] \in Plain /\ KeyOf[Order[p]] = k
  BY <1>1
<1>4. PICK p \in Listed(loc.etags[n][h]) : Order[p] \in Plain /\ KeyOf[Order[p]] = k
  BY <1>3
<1>5. Order[p] \in selectors[n].items
  BY <1>2, <1>3, <1>4 DEF LoadInv, RecordsInv
<1>6. KeyFrom(Order[p]) = k
  BY <1>4 DEF KeyFrom, Plain
<1>7. k \in {KeyFrom(i) : i \in selectors[n].items}
  BY <1>5, <1>6
<1> QED
  BY <1>7 DEF FlagKeys

\* What a full load has loaded is what is held from then on, records and data together.
LEMMA ApplyAllStep ==
  ASSUME IInv, ApplyAll PROVE IInv'
<1>1. /\ pc = "watched" /\ loc.kvs = <<>> /\ UNCHANGED <<options, service>>
      /\ pc' = "idle" /\ loc' = Blank
      /\ loaded' = TRUE /\ mapped' = MapAll(loc.data)
      /\ watched' = loc.watched /\ etags' = loc.etags /\ ffKeys' = loc.keys
  BY DEF ApplyAll, Goto
<1>2. /\ TypeOK /\ OptionsInv /\ LoadInv /\ KvsInv /\ ProgressInv /\ DataInv
      /\ loc.full /\ loc.todo = {} /\ loc.data \in [Keys -> Entries \cup {None}]
      /\ loc.watched \in [Items -> Nat] /\ loc.keys \subseteq Keys
      /\ loc.etags \in Seq(Seq(Listings))
  <2>1. TypeOK /\ OptionsInv /\ LoadInv /\ KvsInv
    BY <1>1 DEF IInv, Loading
  <2> QED
    BY <1>1, <2>1, LocType DEF LoadInv, ProgressInv
<1>3. /\ store' = store /\ writes' = writes /\ watchers' = watchers /\ selectors' = selectors
      /\ registerAll' = registerAll /\ UNCHANGED options
  BY <1>1 DEF options, service
<1>4. /\ Sel' = Sel /\ (\A S : OfKind(S)' = OfKind(S)) /\ FlagKeys' = FlagKeys
      /\ \A h : Watched(h)' = Watched(h) /\ OnlyWatched(h)' = OnlyWatched(h) /\ Alone(h)' = Alone(h)
                /\ Flag(h)' = Flag(h) /\ ReadTwice(h)' = ReadTwice(h)
  BY <1>3, SameOptions
<1>5. /\ \A k \in Keys : mapped'[k] = MapSetting(loc.data[k])
      /\ mapped' \in [Keys -> Entries \cup {None}]
  BY <1>1, <1>2, MapType DEF MapAll
<1>6. \A i : Entry(i)' = Entry(i) /\ Gone(i)' = Gone(i)
  BY <1>3 DEF Entry, Gone
<1>7. HeldInv'
  <2>1. RecordsInv(etags)' /\ WatchedInv(watched)' /\ KeysInv(etags, ffKeys)'
    <3>1. RecordsInv(loc.etags) /\ WatchedInv(loc.watched) /\ KeysInv(loc.etags, loc.keys)
      BY <1>2 DEF LoadInv
    <3>2. RecordsInv(etags)'
      BY <1>1, <1>3, <1>4, <3>1 DEF RecordsInv
    <3>3. WatchedInv(watched)'
      BY <1>1, <1>3, <1>4, <3>1 DEF WatchedInv
    <3>4. KeysInv(etags, ffKeys)'
      BY <1>1, <1>4, <3>1 DEF KeysInv
    <3> QED
      BY <3>2, <3>3, <3>4
  <2>2. ffKeys' \subseteq FlagKeys
    BY <1>1, <1>2, LoadedKeys
  <2>3. ASSUME NEW f \in Plain, FreshFlag(f, etags)', Entry(f) \notin Dropped
        PROVE  mapped'[KeyOf[f]] = Entry(f)
    <3>1. FreshFlag(f, loc.etags)
      BY <1>1, <1>3, <1>4, <2>3 DEF FreshFlag, Fresh
    <3>2. loc.data[KeyOf[f]] = Entry(f) /\ KeyOf[f] \in Keys
      BY <1>2, <3>1, KeyFacts DEF LoadInv, Plain
    <3> QED
      BY <1>5, <2>3, <3>2 DEF MapSetting
  <2>4. ASSUME NEW f \in Plain, GoneFlag(f, etags, {"keys", "flags"}, watched)'
        PROVE  mapped'[KeyOf[f]] = None
    <3>1. Kinds \ {"snapshot"} = {"keys", "flags"}
      BY <1>2 DEF Kinds
    <3>4. Unlisted(f, loc.etags, {"keys", "flags"})
      BY <1>1, <1>4, <2>4 DEF GoneFlag, Unlisted
    <3>5. GoneFlag(f, loc.etags, {"keys", "flags"}, loc.watched)
      BY <1>1, <1>4, <2>4, <3>4 DEF GoneFlag
    <3>2. GoneFlag(f, loc.etags, Kinds \ {"snapshot"}, loc.watched)
      BY <3>1, <3>5
    <3>3. loc.data[KeyOf[f]] = None /\ KeyOf[f] \in Keys
      BY <1>2, <3>2, KeyFacts DEF LoadInv, Plain
    <3> QED
      BY <1>2, <1>5, <3>3, MapType
  <2>5. ASSUME NEW j \in Items, FreshWatched(j, watched)'
        PROVE  mapped'[KeyFrom(j)] = MapSetting(Entry(j))
    <3>1. FreshWatched(j, loc.watched)
      BY <1>1, <1>3, <1>4, <1>6, <2>5 DEF FreshWatched
    <3>2. loc.data[KeyFrom(j)] = Entry(j) /\ KeyFrom(j) \in Keys
      BY <1>2, <3>1, KeyFacts DEF LoadInv
    <3> QED
      BY <1>5, <3>2
  <2>6. ASSUME NEW j \in Items, GoneWatched(j, watched)' PROVE mapped'[KeyFrom(j)] = None
    <3>1. /\ OnlyWatched(j) /\ ~ReadTwice(j) /\ Alone(j) /\ KeyFrom(j) \in Keys
          /\ loc.watched[j] = Absent \/ Sets(<<j, loc.watched[j]>>) = {}
      BY <1>1, <1>4, <2>6, KeyFacts DEF GoneWatched, OnlyWatched
    <3>2. ~Pending(j)
      <4>1. Len(watchers) \in Nat
        BY <1>2, LocType
      <4>2. Left = Len(watchers)
        BY <1>1, <4>1 DEF Left
      <4> QED
        BY <4>1, <4>2 DEF Pending
    <3>3. loc.data[KeyFrom(j)] = None
      <4> SUFFICES ASSUME loc.data[KeyFrom(j)] # None PROVE FALSE
        OBVIOUS
      <4>1. loc.watched[j] = loc.data[KeyFrom(j)][2]
        BY <1>1, <1>2, <3>1, <3>2 DEF LoadInv
      <4>2. KeyFrom(j) \in Sets(<<j, loc.data[KeyFrom(j)][2]>>)
        BY <1>2, <3>1, AloneLoaded
      <4>3. loc.data[KeyFrom(j)][2] # Absent
        <5>1. loc.data[KeyFrom(j)] \in Entries
          BY <1>2, <3>1
        <5> QED
          BY <5>1 DEF Entries
      <4> QED
        BY <3>1, <4>1, <4>2, <4>3
    <3> QED
      BY <1>2, <1>5, <3>1, <3>3, MapType
  <2>7. ASSUME registerAll, NEW k \in Keys
        PROVE  (Wins(loc.data[k], k, loc.etags, {}) /\ mapped'[k] = MapSetting(loc.data[k]))
    BY <1>2, <1>5, <2>7 DEF LoadInv
  <2>8. ASSUME NEW d, NEW k PROVE Wins(d, k, etags, {})' = Wins(d, k, loc.etags, {})
    <3>1. \A n, p : VersionFor(n, p)' = VersionFor(n, p)
      BY <1>3 DEF VersionFor
    <3>2. \A n : Listing(n, 0)' = Listing(n, 0)
      BY <1>3, <3>1 DEF Listing
    <3>3. \A n, p, v : Recorded(etags, {}, n, p, v)' = Recorded(loc.etags, {}, n, p, v)
      BY <1>1, <1>3, <3>2 DEF Recorded
    <3> QED
      BY <1>4, <3>3 DEF Wins
  <2>9. (registerAll => \A k \in Keys \ FlagKeys :
          \E d \in Entries \cup {None} : Wins(d, k, etags, {}) /\ mapped[k] = MapSetting(d))'
    <3> SUFFICES ASSUME registerAll, NEW k \in Keys
                 PROVE  \E d \in Entries \cup {None} : Wins(d, k, etags, {})' /\ mapped'[k] = MapSetting(d)
      BY <1>3, <1>4
    <3>1. loc.data[k] \in Entries \cup {None}
      BY <1>2
    <3> QED
      BY <2>7, <2>8, <3>1
  <2> QED
    BY <1>4, <1>6, <2>1, <2>2, <2>3, <2>4, <2>5, <2>6, <2>9 DEF HeldInv
<1> QED
  BY <1>1, <1>2, <1>5, <1>7, EndStep

\* Of the changes of a key, or of an item, the last one is processed.
LEMMA LastProcessed ==
  ASSUME TypeOK
  PROVE  /\ ProcessedData \in [Keys -> Entries \cup {None}]
         /\ ProcessedWatched \in [Items -> Nat]
         /\ \A k \in Keys :
              LET of == {m \in DOMAIN loc.changes : KeyOf[loc.changes[m][1]] = k}
              IN  IF of = {} THEN ProcessedData[k] = mapped[k]
                  ELSE Max(of) \in of /\ ProcessedData[k] = Changed(loc.changes[Max(of)])
         /\ \A i \in Items :
              LET of == {m \in DOMAIN loc.changes : loc.changes[m][1] = i}
              IN  IF of = {} THEN ProcessedWatched[i] = watched[i]
                  ELSE Max(of) \in of /\ ProcessedWatched[i] = loc.changes[Max(of)][2]
<1>1. loc.changes \in Seq(Items \X Nat) /\ mapped \in [Keys -> Entries \cup {None}]
      /\ watched \in [Items -> Nat]
  BY LocType DEF TypeOK
<1>2. DOMAIN loc.changes \subseteq 0..Len(loc.changes) /\ Len(loc.changes) \in Nat
  BY <1>1
<1>3. \A S \in SUBSET DOMAIN loc.changes : S # {} => Max(S) \in S
  BY <1>2, MaxOf
<1>4. \A c \in DOMAIN loc.changes :
         /\ loc.changes[c] \in Items \X Nat
         /\ Changed(loc.changes[c]) \in Entries \cup {None} /\ loc.changes[c][2] \in Nat
  <2> TAKE c \in DOMAIN loc.changes
  <2>1. loc.changes[c] \in Items \X Nat
    BY <1>1
  <2> QED
    BY <2>1 DEF Changed, MapSetting, Entries
<1>5. ASSUME NEW k \in Keys
      PROVE  LET of == {m \in DOMAIN loc.changes : KeyOf[loc.changes[m][1]] = k}
             IN  /\ IF of = {} THEN ProcessedData[k] = mapped[k]
                    ELSE Max(of) \in of /\ ProcessedData[k] = Changed(loc.changes[Max(of)])
                 /\ ProcessedData[k] \in Entries \cup {None}
  <2> DEFINE of == {m \in DOMAIN loc.changes : KeyOf[loc.changes[m][1]] = k}
  <2>1. of \in SUBSET DOMAIN loc.changes
    OBVIOUS
  <2>2. ProcessedData[k] = IF of = {} THEN mapped[k] ELSE Changed(loc.changes[Max(of)])
    BY DEF ProcessedData
  <2> HIDE DEF of
  <2>3. /\ IF of = {} THEN ProcessedData[k] = mapped[k]
           ELSE Max(of) \in of /\ ProcessedData[k] = Changed(loc.changes[Max(of)])
        /\ ProcessedData[k] \in Entries \cup {None}
    BY <1>1, <1>3, <1>4, <2>1, <2>2
  <2> QED
    BY <2>3 DEF of
<1>6. ASSUME NEW i \in Items
      PROVE  LET of == {m \in DOMAIN loc.changes : loc.changes[m][1] = i}
             IN  /\ IF of = {} THEN ProcessedWatched[i] = watched[i]
                    ELSE Max(of) \in of /\ ProcessedWatched[i] = loc.changes[Max(of)][2]
                 /\ ProcessedWatched[i] \in Nat
  <2> DEFINE of == {m \in DOMAIN loc.changes : loc.changes[m][1] = i}
  <2>1. of \in SUBSET DOMAIN loc.changes
    OBVIOUS
  <2>2. ProcessedWatched[i] = IF of = {} THEN watched[i] ELSE loc.changes[Max(of)][2]
    BY DEF ProcessedWatched
  <2> HIDE DEF of
  <2>3. /\ IF of = {} THEN ProcessedWatched[i] = watched[i]
           ELSE Max(of) \in of /\ ProcessedWatched[i] = loc.changes[Max(of)][2]
        /\ ProcessedWatched[i] \in Nat
    BY <1>1, <1>3, <1>4, <2>1, <2>2
  <2> QED
    BY <2>3 DEF of
<1>7. ProcessedData \in [Keys -> Entries \cup {None}]
  <2>1. ProcessedData = [k \in Keys |-> ProcessedData[k]]
    BY DEF ProcessedData
  <2> QED
    BY <1>5, <2>1
<1>8. ProcessedWatched \in [Items -> Nat]
  <2>1. ProcessedWatched = [i \in Items |-> ProcessedWatched[i]]
    BY DEF ProcessedWatched
  <2> QED
    BY <1>6, <2>1
<1> QED
  BY <1>5, <1>6, <1>7, <1>8

\* The key of an item that is its only source changes with the item, which is a setting.
LEMMA ChangesAlone ==
  ASSUME TypeOK, ChangesInv, NEW j \in Items, Alone(j)
  PROVE  \/ ProcessedData[KeyFrom(j)] = mapped[KeyFrom(j)] /\ ProcessedWatched[j] = watched[j]
         \/ /\ j \in Plain
            /\ \E c \in DOMAIN loc.changes :
                  /\ loc.changes[c] = <<j, ProcessedWatched[j]>>
                  /\ ProcessedData[KeyFrom(j)] = Changed(loc.changes[c])
<1> DEFINE k  == KeyFrom(j)
           K  == {m \in DOMAIN loc.changes : KeyOf[loc.changes[m][1]] = k}
           I  == {m \in DOMAIN loc.changes : loc.changes[m][1] = j}
<1>1. k \in Keys
  BY KeyFacts
<1>2. \A c \in DOMAIN loc.changes : /\ loc.changes[c][1] \in Items
                                   /\ loc.changes[c] = <<loc.changes[c][1], loc.changes[c][2]>>
  <2>1. loc.changes \in Seq(Items \X Nat)
    BY LocType
  <2>2. \A c \in DOMAIN loc.changes : loc.changes[c] \in Items \X Nat
    BY <2>1
  <2> QED
    BY <2>2
<1>3. ASSUME NEW c \in DOMAIN loc.changes, loc.changes[c][1] \in References
      PROVE  k \notin {KeyOf[loc.changes[c][1]], Contents[loc.changes[c][1]]}
  <2>1. PICK m \in DOMAIN watchers : watchers[m].item = loc.changes[c][1] /\ ~watchers[m].all
    BY DEF ChangesInv
  <2>2. watchers[m] \in Range(watchers)
    BY DEF Range
  <2>3. k \in {KeyOf[loc.changes[c][1]], Contents[loc.changes[c][1]]} => TakenForSetting(k)
    BY <1>3, <2>1, <2>2 DEF TakenForSetting
  <2> QED
    BY <2>3 DEF Alone
<1>4. ASSUME NEW c \in DOMAIN loc.changes, KeyOf[loc.changes[c][1]] = k
      PROVE  loc.changes[c][1] = j
  <2>1. loc.changes[c][1] \notin References
    BY <1>3, <1>4
  <2>2. KeyFrom(loc.changes[c][1]) = k
    BY <1>4, <2>1 DEF KeyFrom
  <2>3. Watched(loc.changes[c][1])
    BY DEF ChangesInv, Watched
  <2> HIDE DEF k
  <2>4. KeyFrom(loc.changes[c][1]) = KeyFrom(j)
    BY <2>2 DEF k
  <2> QED
    BY <1>2, <2>3, <2>4, AloneWatched
<1>5. ASSUME NEW c \in DOMAIN loc.changes, loc.changes[c][1] = j
      PROVE  j \in Plain /\ KeyOf[loc.changes[c][1]] = k
  BY <1>3, <1>5 DEF KeyFrom, Plain
<1>6. K = I /\ (I # {} => j \in Plain)
  BY <1>4, <1>5
<1>7. /\ IF K = {} THEN ProcessedData[k] = mapped[k]
         ELSE Max(K) \in K /\ ProcessedData[k] = Changed(loc.changes[Max(K)])
      /\ IF I = {} THEN ProcessedWatched[j] = watched[j]
         ELSE Max(I) \in I /\ ProcessedWatched[j] = loc.changes[Max(I)][2]
  <2> HIDE DEF k
  <2> QED
    BY <1>1, LastProcessed
<1>8. \A c \in I : c \in DOMAIN loc.changes /\ loc.changes[c] = <<j, loc.changes[c][2]>>
  BY <1>2
<1> HIDE DEF K, I, k
<1>9. CASE I = {}
  BY <1>6, <1>7, <1>9 DEF k
<1>10. CASE I # {}
  <2>1. Max(I) \in DOMAIN loc.changes /\ loc.changes[Max(I)] = <<j, ProcessedWatched[j]>>
    BY <1>6, <1>7, <1>8, <1>10
  <2>2. ProcessedData[k] = Changed(loc.changes[Max(I)])
    BY <1>6, <1>7, <1>10
  <2> QED
    BY <1>6, <1>10, <2>1, <2>2 DEF k
<1> QED
  BY <1>9, <1>10

\* Without individual watchers there are no individual changes.
LEMMA NoChanges ==
  ASSUME TypeOK, OptionsInv, ChangesInv, registerAll, NEW k \in Keys
  PROVE  ProcessedData[k] = mapped[k]
<1>1. DOMAIN loc.changes = {}
  BY DEF OptionsInv, ChangesInv
<1> QED
  BY <1>1, LastProcessed

\* Applied changes are versions that have been written, of items that are watched.
LEMMA ProcessedWatchedInv ==
  ASSUME TypeOK, ChangesInv, WatchedInv(watched)
  PROVE  WatchedInv(ProcessedWatched)
<1> SUFFICES ASSUME NEW i \in Items
             PROVE  ProcessedWatched[i] <= writes /\ (ProcessedWatched[i] # Absent => Watched(i))
  BY DEF WatchedInv
<1> DEFINE I == {m \in DOMAIN loc.changes : loc.changes[m][1] = i}
<1>1. IF I = {} THEN ProcessedWatched[i] = watched[i]
      ELSE Max(I) \in I /\ ProcessedWatched[i] = loc.changes[Max(I)][2]
  BY LastProcessed
<1>2. \A c \in I : loc.changes[c][2] <= writes /\ Watched(i)
  BY DEF ChangesInv, Watched
<1> QED
  BY <1>1, <1>2 DEF WatchedInv

\* Individual changes alone.
LEMMA ApplyIndividualStep ==
  ASSUME IInv, ApplyChanges, pc = "flags" PROVE IInv'
<1>1. /\ UNCHANGED <<options, service>> /\ loaded' = loaded /\ pc' = "idle" /\ loc' = Blank
      /\ mapped' = ProcessedData /\ watched' = ProcessedWatched
      /\ etags' = etags /\ ffKeys' = ffKeys
  BY DEF ApplyChanges, Goto
<1>2. /\ TypeOK /\ OptionsInv /\ ChangesInv /\ CheckInv /\ loaded /\ HeldInv
      /\ WatchedInv(watched) /\ RecordsInv(etags) /\ KeysInv(etags, ffKeys)
  <2>1. TypeOK /\ OptionsInv /\ ChangesInv /\ CheckInv /\ loaded
    BY DEF IInv, OptionsInv, Checking
  <2> QED
    BY <2>1 DEF IInv, HeldInv
<1>3. /\ store' = store /\ writes' = writes /\ watchers' = watchers /\ selectors' = selectors
      /\ registerAll' = registerAll /\ UNCHANGED options
  BY <1>1 DEF options, service
<1>4. /\ Sel' = Sel /\ (\A S : OfKind(S)' = OfKind(S)) /\ FlagKeys' = FlagKeys
      /\ \A h : Watched(h)' = Watched(h) /\ OnlyWatched(h)' = OnlyWatched(h) /\ Alone(h)' = Alone(h)
                /\ Flag(h)' = Flag(h) /\ ReadTwice(h)' = ReadTwice(h)
  BY <1>3, SameOptions
<1>5. mapped' \in [Keys -> Entries \cup {None}] /\ watched' \in [Items -> Nat]
  BY <1>1, <1>2, LastProcessed
<1>6. \A i : Entry(i)' = Entry(i) /\ Gone(i)' = Gone(i)
  BY <1>3 DEF Entry, Gone
<1>7. ASSUME NEW j \in Items, Alone(j)
      PROVE  \/ mapped'[KeyFrom(j)] = mapped[KeyFrom(j)] /\ watched'[j] = watched[j]
             \/ /\ j \in Plain
                /\ \E c \in DOMAIN loc.changes :
                      loc.changes[c] = <<j, watched'[j]>> /\ mapped'[KeyFrom(j)] = Changed(<<j, watched'[j]>>)
  BY <1>1, <1>2, <1>7, ChangesAlone
<1>8. HeldInv'
  <2>1. RecordsInv(etags)' /\ WatchedInv(watched)' /\ KeysInv(etags, ffKeys)'
    <3>1. WatchedInv(ProcessedWatched)
      BY <1>2, ProcessedWatchedInv
    <3>2. RecordsInv(etags)'
      BY <1>1, <1>2, <1>3, <1>4 DEF RecordsInv
    <3>3. WatchedInv(watched)'
      BY <1>1, <1>3, <1>4, <3>1 DEF WatchedInv
    <3>4. KeysInv(etags, ffKeys)'
      BY <1>1, <1>2, <1>4 DEF KeysInv
    <3> QED
      BY <3>2, <3>3, <3>4
  <2>2. ffKeys' \subseteq FlagKeys
    BY <1>1, <1>2 DEF HeldInv
  <2>3. ASSUME NEW f \in Plain, FreshFlag(f, etags)', Entry(f) \notin Dropped
        PROVE  mapped'[KeyOf[f]] = Entry(f)
    <3>1. FreshFlag(f, etags) /\ Fresh(f, etags) /\ Alone(f) /\ store[f] # Absent
      BY <1>1, <1>3, <1>4, <2>3 DEF FreshFlag, Fresh
    <3>2. f \in Items /\ KeyFrom(f) = KeyOf[f] /\ mapped[KeyOf[f]] = Entry(f)
      BY <1>2, <2>3, <3>1 DEF HeldInv, Plain, KeyFrom
    <3>3. ASSUME NEW c \in DOMAIN loc.changes,
                 loc.changes[c] = <<f, watched'[f]>> /\ mapped'[KeyFrom(f)] = Changed(<<f, watched'[f]>>)
          PROVE  mapped'[KeyOf[f]] = Entry(f)
      <4>1. watched'[f] = store[f]
        BY <1>2, <3>1, <3>3 DEF CheckInv
      <4> QED
        BY <2>3, <3>1, <3>2, <3>3, <4>1 DEF Changed, MapSetting, Entry
    <3> QED
      BY <1>7, <3>1, <3>2, <3>3
  <2>4. ASSUME NEW f \in Plain, GoneFlag(f, etags, {"keys", "flags"}, watched)'
        PROVE  mapped'[KeyOf[f]] = None
    <3>1. /\ Alone(f) /\ Flag(f) /\ watched'[f] = Absent /\ Unlisted(f, etags, {"keys", "flags"})
          /\ f \in Items /\ KeyFrom(f) = KeyOf[f]
      BY <1>1, <1>4, <2>4 DEF GoneFlag, Unlisted, Plain, KeyFrom
    <3>2. watched[f] = Absent => mapped[KeyOf[f]] = None
      BY <1>2, <3>1 DEF HeldInv, GoneFlag
    <3>3. <<f, watched'[f]>>[2] = Absent
      BY <3>1
    <3>4. Changed(<<f, watched'[f]>>) = None
      BY <3>3 DEF Changed
    <3> QED
      BY <1>7, <3>1, <3>2, <3>4
  <2>5. ASSUME NEW j \in Items, FreshWatched(j, watched)'
        PROVE  mapped'[KeyFrom(j)] = MapSetting(Entry(j))
    <3>1. OnlyWatched(j) /\ watched'[j] = store[j] /\ ~Gone(j) /\ Alone(j) /\ store[j] # Absent
      BY <1>3, <1>4, <1>6, <2>5 DEF FreshWatched, OnlyWatched, Gone
    <3>2. watched[j] = store[j] => mapped[KeyFrom(j)] = MapSetting(Entry(j))
      BY <1>2, <3>1 DEF HeldInv, FreshWatched
    <3> QED
      BY <1>7, <3>1, <3>2 DEF Changed, Entry
  <2>6. ASSUME NEW j \in Items, GoneWatched(j, watched)' PROVE mapped'[KeyFrom(j)] = None
    <3>1. /\ OnlyWatched(j) /\ ~ReadTwice(j) /\ Alone(j)
          /\ watched'[j] = Absent \/ Sets(<<j, watched'[j]>>) = {}
      BY <1>4, <2>6 DEF GoneWatched, OnlyWatched
    <3>2. watched'[j] = watched[j] => mapped[KeyFrom(j)] = None
      BY <1>2, <3>1 DEF HeldInv, GoneWatched
    <3>3. j \in Plain => watched'[j] = Absent
      BY <3>1, SetsOne DEF Plain
    <3> QED
      BY <1>7, <3>1, <3>2, <3>3 DEF Changed
  <2>7. ASSUME registerAll, NEW k \in Keys \ FlagKeys
        PROVE  \E d \in Entries \cup {None} : Wins(d, k, etags, {}) /\ mapped'[k] = MapSetting(d)
    BY <1>1, <1>2, <2>7, NoChanges DEF HeldInv
  <2>8. ASSUME NEW d, NEW k PROVE Wins(d, k, etags, {})' = Wins(d, k, etags, {})
    <3>1. \A n, p : VersionFor(n, p)' = VersionFor(n, p)
      BY <1>3 DEF VersionFor
    <3>2. \A n : Listing(n, 0)' = Listing(n, 0)
      BY <1>3, <3>1 DEF Listing
    <3>3. \A n, p, v : Recorded(etags, {}, n, p, v)' = Recorded(etags, {}, n, p, v)
      BY <1>1, <1>3, <3>2 DEF Recorded
    <3> QED
      BY <1>4, <3>3 DEF Wins
  <2>9. (registerAll => \A k \in Keys \ FlagKeys :
          \E d \in Entries \cup {None} : Wins(d, k, etags, {}) /\ mapped[k] = MapSetting(d))'
    BY <1>3, <1>4, <2>7, <2>8
  <2> QED
    BY <1>4, <1>6, <2>1, <2>2, <2>3, <2>4, <2>5, <2>6, <2>9 DEF HeldInv
<1>9. ffKeys' \subseteq Keys /\ etags' \in Seq(Seq(Listings))
  BY <1>1, <1>2 DEF TypeOK
<1> QED
  BY <1>1, <1>2, <1>5, <1>8, <1>9, EndStep

\* The key of an item that is its only source is a key of flags if the item is one.
LEMMA FlagOfKey ==
  ASSUME TypeOK, OptionsInv, NEW j \in Items, Alone(j), KeyFrom(j) \in FlagKeys
  PROVE  Flag(j)
<1>1. PICK n \in OfKind({"flags"}) : KeyFrom(j) \in {KeyFrom(i) : i \in selectors[n].items}
  BY DEF FlagKeys
<1>2. PICK i \in selectors[n].items : KeyFrom(i) = KeyFrom(j)
  BY <1>1
<1>3. n \in Sel
  BY DEF OfKind
<1>4. i = j
  BY <1>2, <1>3, AloneSelected
<1> QED
  BY <1>2, <1>4 DEF Flag, Selects

\* What a selector of flags records sets keys of flags only.
LEMMA FlagsSetFlagKeys ==
  ASSUME TypeOK, NEW n \in OfKind({"flags"}), NEW i \in selectors[n].items, NEW v,
         NEW k \in Sets(<<i, v>>)
  PROVE  k \in FlagKeys
<1>1. i \in Items
  BY SelType DEF OfKind
<1>2. k = KeyFrom(i)
  BY <1>1, SetsOne
<1> QED
  BY <1>2 DEF FlagKeys

\* A key that no flag has keeps what the other selectors have recorded for it.
LEMMA WinsKept ==
  ASSUME TypeOK, NEW d, NEW k \in Keys \ FlagKeys, RecordsInv(etags), RecordsInv(loc.etags),
         \A n \in Sel : selectors[n].kind # "flags" => loc.etags[n] = etags[n],
         Wins(d, k, etags, {})
  PROVE  Wins(d, k, loc.etags, {})
<1>1. ASSUME NEW n \in Sel, NEW p \in DOMAIN Order, NEW v \in Nat, k \in Sets(<<Order[p], v>>)
      PROVE  Recorded(loc.etags, {}, n, p, v) = Recorded(etags, {}, n, p, v)
  <2>1. CASE selectors[n].kind = "flags"
    <3>1. n \in OfKind({"flags"})
      BY <2>1 DEF OfKind
    <3>2. Order[p] \notin selectors[n].items
      BY <1>1, <3>1, FlagsSetFlagKeys
    <3>3. ~Recorded(loc.etags, {}, n, p, v)
      BY <2>1, <3>2 DEF Recorded, RecordsInv, Listed
    <3>4. ~Recorded(etags, {}, n, p, v)
      BY <2>1, <3>2 DEF Recorded, RecordsInv, Listed
    <3> QED
      BY <3>3, <3>4 DEF Recorded
  <2>2. CASE selectors[n].kind # "flags"
    BY <2>2 DEF Recorded
  <2> QED
    BY <2>1, <2>2
<1>2. CASE /\ d = None
           /\ \A n \in Sel, p \in DOMAIN Order, v \in Nat :
                 Recorded(etags, {}, n, p, v) => k \notin Sets(<<Order[p], v>>)
  BY <1>1, <1>2 DEF Wins
<1>3. ASSUME NEW n \in Sel, NEW p \in DOMAIN Order, NEW v \in Nat,
             Recorded(etags, {}, n, p, v) /\ d = <<Order[p], v>> /\ k \in Sets(d),
             \A n2 \in Sel, p2 \in DOMAIN Order, v2 \in Nat :
                Recorded(etags, {}, n2, p2, v2) /\ k \in Sets(<<Order[p2], v2>>) =>
                    n2 < n \/ (n2 = n /\ p2 <= p)
      PROVE  Wins(d, k, loc.etags, {})
  <2>1. Recorded(loc.etags, {}, n, p, v)
    BY <1>1, <1>3
  <2>2. \A n2 \in Sel, p2 \in DOMAIN Order, v2 \in Nat :
                Recorded(loc.etags, {}, n2, p2, v2) /\ k \in Sets(<<Order[p2], v2>>) =>
                    n2 < n \/ (n2 = n /\ p2 <= p)
    BY <1>1, <1>3
  <2> QED
    BY <1>3, <2>1, <2>2 DEF Wins
<1> QED
  BY <1>2, <1>3 DEF Wins

\* The flags have been reloaded: they are applied after the individual changes.
LEMMA ApplyFlagsStep ==
  ASSUME IInv, ApplyChanges, pc = "apply" PROVE IInv'
<1>1. /\ UNCHANGED <<options, service>> /\ loaded' = loaded /\ pc' = "idle" /\ loc' = Blank
      /\ mapped' = ApplyFlags(ProcessedData) /\ watched' = ProcessedWatched
      /\ etags' = loc.etags /\ ffKeys' = loc.keys
  BY DEF ApplyChanges, Goto
<1>2. /\ TypeOK /\ OptionsInv /\ ChangesInv /\ KvsInv /\ LoadInv /\ loaded /\ HeldInv
      /\ ProgressInv /\ DataInv /\ WatchedInv(watched) /\ RecordsInv(etags) /\ KeysInv(etags, ffKeys)
      /\ ffKeys \subseteq FlagKeys /\ loc.keys \subseteq FlagKeys
  <2>1. TypeOK /\ OptionsInv /\ ChangesInv /\ KvsInv /\ LoadInv /\ loaded
    BY <1>1 DEF IInv, OptionsInv, Loading
  <2> QED
    BY <2>1, LoadedKeys DEF IInv, HeldInv, LoadInv
<1>3. /\ store' = store /\ writes' = writes /\ watchers' = watchers /\ selectors' = selectors
      /\ registerAll' = registerAll /\ UNCHANGED options
  BY <1>1 DEF options, service
<1>4. /\ Sel' = Sel /\ (\A S : OfKind(S)' = OfKind(S)) /\ FlagKeys' = FlagKeys
      /\ \A h : Watched(h)' = Watched(h) /\ OnlyWatched(h)' = OnlyWatched(h) /\ Alone(h)' = Alone(h)
                /\ Flag(h)' = Flag(h) /\ ReadTwice(h)' = ReadTwice(h)
  BY <1>3, SameOptions
<1>5. /\ loc.data \in [Keys -> Entries \cup {None}] /\ loc.keys \subseteq Keys
      /\ loc.etags \in Seq(Seq(Listings)) /\ watched' \in [Items -> Nat]
      /\ ProcessedData \in [Keys -> Entries \cup {None}]
  BY <1>1, <1>2, LocType, LastProcessed
<1>6. \A i : Entry(i)' = Entry(i) /\ Gone(i)' = Gone(i)
  BY <1>3 DEF Entry, Gone
<1>7. \A k \in Keys :
        mapped'[k] = IF MapSetting(loc.data[k]) # None THEN loc.data[k]
                     ELSE IF k \in ffKeys \ loc.keys THEN None ELSE ProcessedData[k]
  BY <1>1 DEF ApplyFlags
<1>8. mapped' \in [Keys -> Entries \cup {None}]
  <2>1. mapped' = [k \in Keys |-> mapped'[k]]
    BY <1>1 DEF ApplyFlags
  <2> QED
    BY <1>5, <1>7, <2>1
<1>9. ~loc.full /\ loc.full = FALSE /\ Kinds = {"flags"} /\ (\A i \in Items : loc.watched[i] = Absent)
      /\ \A n \in Sel : selectors[n].kind # "flags" => loc.etags[n] = etags[n]
  <2>1. loc.full = (pc = "watched") /\ loc.watched = Blank.watched
    BY <1>2 DEF ProgressInv
  <2>2. ~loc.full
    BY <2>1
  <2> QED
    BY <1>2, <2>1, <2>2 DEF ProgressInv, Kinds, Blank
  \* What is no flag is not loaded with the flags, and not removed with them.
<1>10. ASSUME NEW k \in Keys \ FlagKeys PROVE mapped'[k] = ProcessedData[k]
  <2>1. loc.data[k] = None
    <3> SUFFICES ASSUME loc.data[k] # None PROVE FALSE
      OBVIOUS
    <3>1. k \in Sets(loc.data[k]) /\ Selects({"flags"}, loc.data[k][1])
      BY <1>2, <1>9 DEF DataInv
    <3>2. loc.data[k] = <<loc.data[k][1], loc.data[k][2]>>
      <4>1. loc.data[k] \in Entries
        BY <1>5
      <4> QED
        BY <4>1 DEF Entries
    <3>3. PICK n \in OfKind({"flags"}) : loc.data[k][1] \in selectors[n].items
      BY <3>1 DEF Selects
    <3>4. k \in Sets(<<loc.data[k][1], loc.data[k][2]>>)
      BY <3>1, <3>2
    <3> QED
      BY <1>2, <3>3, <3>4, FlagsSetFlagKeys
  <2> QED
    BY <1>2, <1>7, <2>1, MapType DEF MapSetting
<1>11. ASSUME NEW j \in Items, Alone(j)
       PROVE  \/ ProcessedData[KeyFrom(j)] = mapped[KeyFrom(j)] /\ watched'[j] = watched[j]
              \/ j \in Plain /\ ProcessedData[KeyFrom(j)] = Changed(<<j, watched'[j]>>)
  BY <1>1, <1>2, <1>11, ChangesAlone
<1>12. ASSUME NEW j \in Items, OnlyWatched(j)
       PROVE  Alone(j) /\ KeyFrom(j) \in Keys \ FlagKeys /\ mapped'[KeyFrom(j)] = ProcessedData[KeyFrom(j)]
  <2>1. Alone(j) /\ ~Flag(j) /\ KeyFrom(j) \in Keys
    BY <1>12, KeyFacts DEF OnlyWatched
  <2>2. KeyFrom(j) \notin FlagKeys
    BY <1>2, <2>1, FlagOfKey
  <2> QED
    BY <1>10, <2>1, <2>2
<1>13. HeldInv'
  <2>1. RecordsInv(etags)' /\ WatchedInv(watched)' /\ KeysInv(etags, ffKeys)'
    <3>1. WatchedInv(ProcessedWatched)
      BY <1>2, ProcessedWatchedInv
    <3>5. RecordsInv(loc.etags) /\ KeysInv(loc.etags, loc.keys)
      BY <1>2 DEF LoadInv
    <3>2. RecordsInv(etags)'
      BY <1>1, <1>3, <1>4, <3>5 DEF RecordsInv
    <3>3. WatchedInv(watched)'
      BY <1>1, <1>3, <1>4, <3>1 DEF WatchedInv
    <3>4. KeysInv(etags, ffKeys)'
      BY <1>1, <1>4, <3>5 DEF KeysInv
    <3> QED
      BY <3>2, <3>3, <3>4
  <2>2. ffKeys' \subseteq FlagKeys
    BY <1>1, <1>2
  <2>3. ASSUME NEW f \in Plain, FreshFlag(f, etags)', Entry(f) \notin Dropped
        PROVE  mapped'[KeyOf[f]] = Entry(f)
    <3>1. FreshFlag(f, loc.etags) /\ store[f] # Absent
      BY <1>1, <1>3, <1>4, <2>3 DEF FreshFlag, Fresh
    <3>2. loc.data[KeyOf[f]] = Entry(f) /\ KeyOf[f] \in Keys /\ f \in Items
      BY <1>2, <3>1, KeyFacts DEF LoadInv, Plain
    <3>3. Entry(f) # None
      <4>1. Entry(f) \in Entries
        BY <1>2, <3>1, <3>2 DEF Entry, Entries, TypeOK
      <4> QED
        BY <4>1, SelectionAssumption
    <3> QED
      BY <1>7, <2>3, <3>2, <3>3 DEF MapSetting
  <2>4. ASSUME NEW f \in Plain, GoneFlag(f, etags, {"keys", "flags"}, watched)'
        PROVE  mapped'[KeyOf[f]] = None
    <3>1. /\ Alone(f) /\ Flag(f) /\ watched'[f] = Absent /\ f \in Items /\ KeyFrom(f) = KeyOf[f]
          /\ KeyOf[f] \in Keys /\ Unlisted(f, loc.etags, {"keys", "flags"})
      BY <1>1, <1>4, <2>4, KeyFacts DEF GoneFlag, Unlisted, Plain, KeyFrom
    <3>2. Unlisted(f, loc.etags, {"flags"})
      BY <3>1 DEF Unlisted, OfKind
    <3>3. loc.data[KeyOf[f]] = None
      <4>1. Kinds \ {"snapshot"} = {"flags"}
        BY <1>9
      <4>2. GoneFlag(f, loc.etags, {"flags"}, loc.watched)
        BY <1>9, <3>1, <3>2 DEF GoneFlag
      <4>3. GoneFlag(f, loc.etags, Kinds \ {"snapshot"}, loc.watched)
        BY <4>1, <4>2
      <4> QED
        BY <1>2, <4>3 DEF LoadInv
    <3>4. KeyOf[f] \notin loc.keys
      <4> SUFFICES ASSUME KeyOf[f] \in loc.keys PROVE FALSE
        OBVIOUS
      <4>1. PICK n \in OfKind({"flags"}) : \E h \in DOMAIN loc.etags[n] :
              \E p \in Listed(loc.etags[n][h]) : Order[p] \in Plain /\ KeyOf[Order[p]] = KeyOf[f]
        BY <1>2 DEF LoadInv
      <4>2. PICK h \in DOMAIN loc.etags[n] :
              \E p \in Listed(loc.etags[n][h]) : Order[p] \in Plain /\ KeyOf[Order[p]] = KeyOf[f]
        BY <4>1
      <4>3. PICK p \in Listed(loc.etags[n][h]) : Order[p] \in Plain /\ KeyOf[Order[p]] = KeyOf[f]
        BY <4>2
      <4>4. n \in Sel /\ RecordsInv(loc.etags)
        BY <1>2 DEF OfKind, LoadInv
      <4>5. Order[p] \in selectors[n].items /\ KeyFrom(Order[p]) = KeyFrom(f)
        BY <3>1, <4>3, <4>4 DEF RecordsInv, KeyFrom, Plain
      <4>6. Order[p] = f
        BY <1>2, <3>1, <4>4, <4>5, AloneSelected
      <4> QED
        BY <3>2, <4>6 DEF Unlisted, Listed
    <3>5. KeyOf[f] \notin ffKeys => Unlisted(f, etags, {"keys", "flags"})
      <4> SUFFICES ASSUME KeyOf[f] \notin ffKeys, NEW n \in OfKind({"keys", "flags"}),
                          NEW k \in DOMAIN etags[n], NEW p \in DOMAIN Order, Order[p] = f,
                          etags[n][k][p] # Absent
                   PROVE  FALSE
        BY DEF Unlisted
      <4>1. CASE selectors[n].kind = "flags"
        <5>1. n \in OfKind({"flags"})
          BY <4>1 DEF OfKind
        <5> QED
          BY <1>2, <5>1 DEF KeysInv, Listed
      <4>2. CASE selectors[n].kind # "flags"
        <5>1. loc.etags[n] = etags[n]
          BY <1>9, <4>2 DEF OfKind
        <5> QED
          BY <3>1, <5>1 DEF Unlisted
      <4> QED
        BY <4>1, <4>2
    <3>6. KeyOf[f] \notin ffKeys /\ watched[f] = Absent => mapped[KeyOf[f]] = None
      BY <1>2, <3>1, <3>5 DEF HeldInv, GoneFlag
    <3>7. KeyOf[f] \notin ffKeys => ProcessedData[KeyOf[f]] = None
      <4>1. <<f, watched'[f]>>[2] = Absent
        BY <3>1
      <4>2. Changed(<<f, watched'[f]>>) = None
        BY <4>1 DEF Changed
      <4> QED
        BY <1>11, <3>1, <3>6, <4>2
    <3>8. MapSetting(loc.data[KeyOf[f]]) = None
      BY <3>3 DEF MapSetting
    <3> QED
      BY <1>7, <3>1, <3>4, <3>7, <3>8
  <2>5. ASSUME NEW j \in Items, FreshWatched(j, watched)'
        PROVE  mapped'[KeyFrom(j)] = MapSetting(Entry(j))
    <3>1. OnlyWatched(j) /\ watched'[j] = store[j] /\ ~Gone(j) /\ store[j] # Absent
      BY <1>3, <1>4, <1>6, <2>5 DEF FreshWatched, Gone
    <3>2. watched[j] = store[j] => mapped[KeyFrom(j)] = MapSetting(Entry(j))
      BY <1>2, <3>1 DEF HeldInv, FreshWatched
    <3> QED
      BY <1>11, <1>12, <3>1, <3>2 DEF Changed, Entry
  <2>6. ASSUME NEW j \in Items, GoneWatched(j, watched)' PROVE mapped'[KeyFrom(j)] = None
    <3>1. /\ OnlyWatched(j) /\ ~ReadTwice(j)
          /\ watched'[j] = Absent \/ Sets(<<j, watched'[j]>>) = {}
      BY <1>4, <2>6 DEF GoneWatched
    <3>2. watched'[j] = watched[j] => mapped[KeyFrom(j)] = None
      BY <1>2, <3>1 DEF HeldInv, GoneWatched
    <3>3. j \in Plain => watched'[j] = Absent
      BY <3>1, SetsOne DEF Plain
    <3> QED
      BY <1>11, <1>12, <3>1, <3>2, <3>3 DEF Changed
  <2>7. ASSUME registerAll, NEW k \in Keys \ FlagKeys
        PROVE  \E d \in Entries \cup {None} : Wins(d, k, loc.etags, {}) /\ mapped'[k] = MapSetting(d)
    <3>1. PICK d \in Entries \cup {None} : Wins(d, k, etags, {}) /\ mapped[k] = MapSetting(d)
      BY <1>2, <2>7 DEF HeldInv
    <3>2. mapped'[k] = mapped[k]
      BY <1>2, <1>10, <2>7, NoChanges
    <3>3. Wins(d, k, loc.etags, {})
      BY <1>2, <1>9, <3>1, WinsKept DEF LoadInv
    <3> QED
      BY <3>1, <3>2, <3>3
  <2>8. ASSUME NEW d, NEW k PROVE Wins(d, k, etags, {})' = Wins(d, k, loc.etags, {})
    <3>1. \A n, p : VersionFor(n, p)' = VersionFor(n, p)
      BY <1>3 DEF VersionFor
    <3>2. \A n : Listing(n, 0)' = Listing(n, 0)
      BY <1>3, <3>1 DEF Listing
    <3>3. \A n, p, v : Recorded(etags, {}, n, p, v)' = Recorded(loc.etags, {}, n, p, v)
      BY <1>1, <1>3, <3>2 DEF Recorded
    <3> QED
      BY <1>4, <3>3 DEF Wins
  <2>9. (registerAll => \A k \in Keys \ FlagKeys :
          \E d \in Entries \cup {None} : Wins(d, k, etags, {}) /\ mapped[k] = MapSetting(d))'
    BY <1>3, <1>4, <2>7, <2>8
  <2> QED
    BY <1>4, <1>6, <2>1, <2>2, <2>3, <2>4, <2>5, <2>6, <2>9 DEF HeldInv
<1> QED
  BY <1>1, <1>2, <1>5, <1>8, <1>13, EndStep

---------------------------------------------------------------------------
(* Changes of the store *)

\* What a change of item i leaves as it was.
LEMMA ChangeKeeps ==
  ASSUME TypeOK, \A h \in Items : store[h] <= writes, NEW i \in Items,
         NEW version \in {writes + 1, Absent}, Change(i, version)
  PROVE  /\ pc # "configure" /\ UNCHANGED <<options, provider, pc, loc>>
         /\ writes \in Nat /\ writes' = writes + 1 /\ store' \in [Items -> Nat]
         /\ (\A h \in Items : h # i => store'[h] = store[h]) /\ store'[i] = version
         /\ \A h \in Items : store'[h] <= writes'
         /\ \A h \in Items : h # i => Entry(h)' = Entry(h) /\ Gone(h)' = Gone(h)
<1>1. /\ pc # "configure" /\ UNCHANGED <<options, provider, pc, loc>>
      /\ writes' = writes + 1 /\ store' = [store EXCEPT ![i] = version]
  BY DEF Change
<1>2. writes \in Nat /\ store \in [Items -> Nat] /\ version \in Nat /\ version <= writes + 1
  BY DEF TypeOK, Absent
<1>3. store' \in [Items -> Nat] /\ store'[i] = version /\ \A h \in Items : h # i => store'[h] = store[h]
  BY <1>1, <1>2
<1>4. \A h \in Items : store'[h] <= writes'
  BY <1>1, <1>2, <1>3
<1>5. \A h \in Items : h # i => Entry(h)' = Entry(h)
  BY <1>3 DEF Entry
<1>6. \A h \in Items : h # i => Gone(h)' = Gone(h)
  BY <1>3, <1>5 DEF Gone
<1> QED
  BY <1>1, <1>2, <1>3, <1>4, <1>5, <1>6

\* What is held agrees with the new version as it did with the one before: no record
\* has it.
LEMMA ChangeHeld ==
  ASSUME IInv, HeldInv, NEW i \in Items, NEW version \in {writes + 1, Absent}, Change(i, version)
  PROVE  HeldInv' /\ \A f \in Plain : Fresh(f, etags)' => f # i /\ Fresh(f, etags)
<1>1. /\ TypeOK /\ UNCHANGED options /\ writes \in Nat /\ writes' = writes + 1
      /\ store \in [Items -> Nat] /\ store' \in [Items -> Nat]
      /\ mapped' = mapped /\ watched' = watched /\ etags' = etags /\ ffKeys' = ffKeys
      /\ selectors' = selectors /\ watchers' = watchers /\ registerAll' = registerAll
      /\ (\A h \in Items : h # i => store'[h] = store[h]) /\ store'[i] = version
      /\ \A h \in Items : h # i => Entry(h)' = Entry(h) /\ Gone(h)' = Gone(h)
  <2>1. TypeOK /\ \A h \in Items : store[h] <= writes
    BY DEF IInv
  <2> QED
    BY <2>1, ChangeKeeps DEF options, provider, TypeOK
<1>2. /\ Sel' = Sel /\ (\A S : OfKind(S)' = OfKind(S)) /\ FlagKeys' = FlagKeys
      /\ \A h : Watched(h)' = Watched(h) /\ OnlyWatched(h)' = OnlyWatched(h) /\ Alone(h)' = Alone(h)
                /\ Flag(h)' = Flag(h) /\ ReadTwice(h)' = ReadTwice(h)
  BY <1>1, SameOptions
<1>3. RecordsInv(etags) /\ WatchedInv(watched) /\ KeysInv(etags, ffKeys)
  BY DEF HeldInv
<1>4. etags \in Seq(Seq(Listings)) /\ DOMAIN etags = Sel
  BY <1>1, <1>3 DEF TypeOK, RecordsInv
<1>5. \A n \in Sel : \A k \in DOMAIN etags[n] : \A p \in DOMAIN Order : etags[n][k][p] \in Nat
  <2>1. \A n \in Sel : etags[n] \in Seq(Listings)
    BY <1>4
  <2>2. \A n \in Sel : \A k \in DOMAIN etags[n] : etags[n][k] \in Listings
    BY <2>1
  <2> QED
    BY <2>2 DEF Listings
<1>6. RecordsInv(etags)'
  <2>1. ASSUME NEW n \in Sel, NEW k \in DOMAIN etags[n], NEW p \in Listed(etags[n][k])
        PROVE  Order[p] \in selectors[n].items /\ etags[n][k][p] <= writes + 1
    <3>1. Order[p] \in selectors[n].items /\ etags[n][k][p] <= writes /\ etags[n][k][p] \in Nat
      BY <1>3, <1>5 DEF RecordsInv, Listed
    <3> QED
      BY <1>1, <3>1
  <2> QED
    BY <1>1, <1>2, <1>3, <2>1 DEF RecordsInv
<1>7. WatchedInv(watched)'
  <2>1. watched \in [Items -> Nat]
    BY <1>1 DEF TypeOK
  <2>2. \A h \in Items : watched[h] <= writes + 1
    BY <1>1, <1>3, <2>1 DEF WatchedInv
  <2> QED
    BY <1>1, <1>2, <1>3, <2>2 DEF WatchedInv
<1>8. KeysInv(etags, ffKeys)'
  BY <1>1, <1>2, <1>3 DEF KeysInv
<1>9. ASSUME NEW f \in Plain, Fresh(f, etags)' PROVE f # i /\ Fresh(f, etags)
  <2>1. PICK n \in OfKind({"flags"}) : \E k \in DOMAIN etags[n] : \E p \in DOMAIN Order :
           Order[p] = f /\ etags[n][k][p] = store'[f]
    BY <1>1, <1>2, <1>9 DEF Fresh
  <2>2. PICK k \in DOMAIN etags[n] : \E p \in DOMAIN Order :
           Order[p] = f /\ etags[n][k][p] = store'[f]
    BY <2>1
  <2>3. PICK p \in DOMAIN Order : Order[p] = f /\ etags[n][k][p] = store'[f]
    BY <2>2
  <2>4. n \in Sel /\ store'[f] # Absent /\ f \in Items
    BY <1>9 DEF OfKind, Fresh, Plain
  <2>5. etags[n][k][p] <= writes
    BY <1>3, <2>3, <2>4 DEF RecordsInv, Listed
  <2>6. f # i
    BY <1>1, <2>3, <2>4, <2>5
  <2> QED
    BY <1>1, <2>3, <2>4, <2>6 DEF Fresh
<1>10. \A f \in Plain : FreshFlag(f, etags)' => f # i /\ FreshFlag(f, etags)
  BY <1>2, <1>9 DEF FreshFlag
<1>11. \A f : GoneFlag(f, etags, {"keys", "flags"}, watched)' = GoneFlag(f, etags, {"keys", "flags"}, watched)
  <2>1. \A f : Unlisted(f, etags, {"keys", "flags"})' = Unlisted(f, etags, {"keys", "flags"})
    BY <1>1, <1>2 DEF Unlisted
  <2> QED
    BY <2>1, <1>1, <1>2 DEF GoneFlag
<1>12. ASSUME NEW j \in Items, FreshWatched(j, watched)' PROVE j # i /\ FreshWatched(j, watched)
  <2>1. OnlyWatched(j) /\ watched[j] = store'[j] /\ store'[j] # Absent
    BY <1>1, <1>2, <1>12 DEF FreshWatched, Gone
  <2>2. watched[j] <= writes
    BY <1>3 DEF WatchedInv
  <2>3. j # i
    BY <1>1, <2>1, <2>2
  <2> QED
    BY <1>1, <1>12, <2>1, <2>3 DEF FreshWatched
<1>13. \A j : GoneWatched(j, watched)' = GoneWatched(j, watched)
  BY <1>1, <1>2 DEF GoneWatched
<1>14. ASSUME NEW d, NEW k PROVE Wins(d, k, etags, {})' = Wins(d, k, etags, {})
  <2>1. \A n : selectors[n].kind = "snapshot" => Listing(n, 0)' = Listing(n, 0)
    BY <1>1 DEF Listing, VersionFor
  <2>2. \A n, p, v : Recorded(etags, {}, n, p, v)' = Recorded(etags, {}, n, p, v)
    BY <1>1, <2>1 DEF Recorded
  <2> QED
    BY <1>2, <2>2 DEF Wins
<1>15. HeldInv'
  <2>1. (\A f \in Plain :
          FreshFlag(f, etags) /\ Entry(f) \notin Dropped => mapped[KeyOf[f]] = Entry(f))'
    BY <1>1, <1>10 DEF HeldInv, Plain
  <2>2. (\A f \in Plain :
          GoneFlag(f, etags, {"keys", "flags"}, watched) => mapped[KeyOf[f]] = None)'
    BY <1>1, <1>11 DEF HeldInv
  <2>3. (\A j \in Items : FreshWatched(j, watched) => mapped[KeyFrom(j)] = MapSetting(Entry(j)))'
    BY <1>1, <1>12 DEF HeldInv
  <2>4. (\A j \in Items : GoneWatched(j, watched) => mapped[KeyFrom(j)] = None)'
    BY <1>1, <1>13 DEF HeldInv
  <2>5. (registerAll => \A k \in Keys \ FlagKeys :
          \E d \in Entries \cup {None} : Wins(d, k, etags, {}) /\ mapped[k] = MapSetting(d))'
    BY <1>1, <1>2, <1>14 DEF HeldInv
  <2>6. (ffKeys \subseteq FlagKeys)'
    BY <1>1, <1>2 DEF HeldInv
  <2> QED
    BY <1>6, <1>7, <1>8, <2>1, <2>2, <2>3, <2>4, <2>5, <2>6 DEF HeldInv
<1> QED
  BY <1>9, <1>15

\* The same of what is loaded.
LEMMA ChangeLoading ==
  ASSUME IInv, LoadInv, NEW i \in Items, NEW version \in {writes + 1, Absent}, Change(i, version)
  PROVE  LoadInv'
<1>1. /\ TypeOK /\ UNCHANGED options /\ writes \in Nat /\ writes' = writes + 1
      /\ store \in [Items -> Nat] /\ store' \in [Items -> Nat]
      /\ pc' = pc /\ loc' = loc /\ etags' = etags
      /\ selectors' = selectors /\ watchers' = watchers /\ registerAll' = registerAll
      /\ (\A h \in Items : h # i => store'[h] = store[h]) /\ store'[i] = version
      /\ \A h \in Items : h # i => Entry(h)' = Entry(h) /\ Gone(h)' = Gone(h)
  <2>1. TypeOK /\ \A h \in Items : store[h] <= writes
    BY DEF IInv
  <2> QED
    BY <2>1, ChangeKeeps DEF options, provider, TypeOK
<1>2. /\ Sel' = Sel /\ (\A S : OfKind(S)' = OfKind(S)) /\ (\A S, h : Selects(S, h)' = Selects(S, h))
      /\ \A h : Watched(h)' = Watched(h) /\ OnlyWatched(h)' = OnlyWatched(h) /\ Alone(h)' = Alone(h)
                /\ Flag(h)' = Flag(h) /\ ReadTwice(h)' = ReadTwice(h)
  BY <1>1, SameOptions
<1>3. /\ RecordsInv(loc.etags) /\ WatchedInv(loc.watched) /\ KeysInv(loc.etags, loc.keys)
      /\ ProgressInv /\ DataInv
  BY DEF LoadInv
<1>4. loc.etags \in Seq(Seq(Listings)) /\ DOMAIN loc.etags = Sel /\ loc.watched \in [Items -> Nat]
      /\ loc.data \in [Keys -> Entries \cup {None}]
  BY <1>1, <1>3, LocType DEF RecordsInv
<1>5. \A n \in Sel : \A k \in DOMAIN loc.etags[n] : \A p \in DOMAIN Order : loc.etags[n][k][p] \in Nat
  <2>1. \A n \in Sel : loc.etags[n] \in Seq(Listings)
    BY <1>4
  <2>2. \A n \in Sel : \A k \in DOMAIN loc.etags[n] : loc.etags[n][k] \in Listings
    BY <2>1
  <2> QED
    BY <2>2 DEF Listings
<1>6. RecordsInv(loc.etags)'
  <2>1. ASSUME NEW n \in Sel, NEW k \in DOMAIN loc.etags[n], NEW p \in Listed(loc.etags[n][k])
        PROVE  Order[p] \in selectors[n].items /\ loc.etags[n][k][p] <= writes + 1
    <3>1. Order[p] \in selectors[n].items /\ loc.etags[n][k][p] <= writes /\ loc.etags[n][k][p] \in Nat
      BY <1>3, <1>5 DEF RecordsInv, Listed
    <3> QED
      BY <1>1, <3>1
  <2> QED
    BY <1>1, <1>2, <1>3, <2>1 DEF RecordsInv
<1>7. WatchedInv(loc.watched)'
  <2>1. \A h \in Items : loc.watched[h] <= writes + 1
    BY <1>1, <1>3, <1>4 DEF WatchedInv
  <2> QED
    BY <1>1, <1>2, <1>3, <2>1 DEF WatchedInv
<1>8. KeysInv(loc.etags, loc.keys)'
  BY <1>1, <1>2, <1>3 DEF KeysInv
<1>9. Kinds' = Kinds /\ Left' = Left
  BY <1>1 DEF Kinds, Left
<1>10. ProgressInv'
  BY <1>1, <1>2, <1>3, <1>9 DEF ProgressInv, Blank
<1>11. DataInv'
  <2>1. \A h : Visited(h)' = Visited(h)
    BY <1>1, <1>9 DEF Visited
  <2>2. \A k \in Keys : loc.data[k] # None => loc.data[k][2] \in Nat
    <3> TAKE k \in Keys
    <3>1. loc.data[k] # None => loc.data[k] \in Entries
      BY <1>4
    <3> QED
      BY <3>1 DEF Entries
  <2>3. \A k \in Keys : loc.data[k] # None => loc.data[k][2] <= writes + 1
    BY <1>1, <1>3, <2>2 DEF DataInv
  <2> QED
    BY <1>1, <1>2, <1>3, <1>9, <2>1, <2>3 DEF DataInv
<1>12. ASSUME NEW f \in Plain, Fresh(f, loc.etags)' PROVE f # i /\ Fresh(f, loc.etags)
  <2>1. PICK n \in OfKind({"flags"}) : \E k \in DOMAIN loc.etags[n] : \E p \in DOMAIN Order :
           Order[p] = f /\ loc.etags[n][k][p] = store'[f]
    BY <1>1, <1>2, <1>12 DEF Fresh
  <2>2. PICK k \in DOMAIN loc.etags[n] : \E p \in DOMAIN Order :
           Order[p] = f /\ loc.etags[n][k][p] = store'[f]
    BY <2>1
  <2>3. PICK p \in DOMAIN Order : Order[p] = f /\ loc.etags[n][k][p] = store'[f]
    BY <2>2
  <2>4. n \in Sel /\ store'[f] # Absent /\ f \in Items
    BY <1>12 DEF OfKind, Fresh, Plain
  <2>5. loc.etags[n][k][p] <= writes
    BY <1>3, <2>3, <2>4 DEF RecordsInv, Listed
  <2>6. f # i
    BY <1>1, <2>3, <2>4, <2>5
  <2> QED
    BY <1>1, <2>3, <2>4, <2>6 DEF Fresh
<1>13. \A f \in Plain : FreshFlag(f, loc.etags)' => f # i /\ FreshFlag(f, loc.etags)
  BY <1>2, <1>12 DEF FreshFlag
<1>14. \A f : GoneFlag(f, loc.etags, Kinds \ {"snapshot"}, loc.watched)'
               = GoneFlag(f, loc.etags, Kinds \ {"snapshot"}, loc.watched)
  <2>1. \A f : Unlisted(f, loc.etags, Kinds \ {"snapshot"})' = Unlisted(f, loc.etags, Kinds \ {"snapshot"})
    BY <1>1, <1>2, <1>9 DEF Unlisted
  <2> QED
    BY <2>1, <1>1, <1>2 DEF GoneFlag
<1>15. ASSUME NEW j \in Items, FreshWatched(j, loc.watched)' PROVE j # i /\ FreshWatched(j, loc.watched)
  <2>1. OnlyWatched(j) /\ loc.watched[j] = store'[j] /\ store'[j] # Absent
    BY <1>1, <1>2, <1>15 DEF FreshWatched, Gone
  <2>2. loc.watched[j] <= writes
    BY <1>3 DEF WatchedInv
  <2>3. j # i
    BY <1>1, <2>1, <2>2
  <2> QED
    BY <1>1, <1>15, <2>1, <2>3 DEF FreshWatched
<1>16. \A j : Pending(j)' = Pending(j)
  BY <1>1, <1>9 DEF Pending
<1>17. ASSUME NEW k PROVE Wins(loc.data[k], k, loc.etags, loc.todo)' = Wins(loc.data[k], k, loc.etags, loc.todo)
  <2>1. \A n : selectors[n].kind = "snapshot" => Listing(n, 0)' = Listing(n, 0)
    BY <1>1 DEF Listing, VersionFor
  <2>2. \A n, p, v : Recorded(loc.etags, loc.todo, n, p, v)' = Recorded(loc.etags, loc.todo, n, p, v)
    BY <1>1, <2>1 DEF Recorded
  <2> QED
    BY <1>1, <1>2, <2>2 DEF Wins
<1>18. LoadInv'
  <2>1. (\A f \in Plain : FreshFlag(f, loc.etags) => loc.data[KeyOf[f]] = Entry(f))'
    BY <1>1, <1>13 DEF LoadInv, Plain
  <2>2. (\A f \in Plain :
          GoneFlag(f, loc.etags, Kinds \ {"snapshot"}, loc.watched) => loc.data[KeyOf[f]] = None)'
    BY <1>1, <1>14 DEF LoadInv
  <2>3. (\A j \in Items : FreshWatched(j, loc.watched) => loc.data[KeyFrom(j)] = Entry(j))'
    BY <1>1, <1>15 DEF LoadInv
  <2>4. (pc = "watched" => \A j \in Items :
          OnlyWatched(j) /\ ~ReadTwice(j) /\ ~Pending(j) /\ loc.data[KeyFrom(j)] # None =>
              loc.watched[j] = loc.data[KeyFrom(j)][2])'
    BY <1>1, <1>2, <1>16 DEF LoadInv
  <2>5. (registerAll /\ loc.full =>
          \A k \in Keys : Wins(loc.data[k], k, loc.etags, loc.todo))'
    BY <1>1, <1>17 DEF LoadInv
  <2>6. (\A k \in loc.keys : \E n \in OfKind({"flags"}) : \E h \in DOMAIN loc.etags[n] :
          \E p \in Listed(loc.etags[n][h]) : Order[p] \in Plain /\ KeyOf[Order[p]] = k)'
    BY <1>1, <1>2 DEF LoadInv
  <2> QED
    BY <1>6, <1>7, <1>8, <1>10, <1>11, <2>1, <2>2, <2>3, <2>4, <2>5, <2>6 DEF LoadInv
<1> QED
  BY <1>18

\* A change of the store takes nothing away from the agreement: an item that has changed
\* differs from its records, of which then nothing is claimed.
LEMMA ChangeStep ==
  ASSUME IInv, NEW i \in Items, NEW version \in {writes + 1, Absent}, Change(i, version)
  PROVE  IInv'
<1>1. /\ TypeOK /\ OptionsInv /\ ChangesInv /\ KvsInv /\ writes >= 1
      /\ \A h \in Items : store[h] <= writes
  BY DEF IInv
<1>2. /\ pc # "configure" /\ UNCHANGED <<options, provider, pc, loc>>
      /\ writes \in Nat /\ writes' = writes + 1 /\ store' \in [Items -> Nat]
      /\ (\A h \in Items : h # i => store'[h] = store[h]) /\ store'[i] = version
      /\ \A h \in Items : store'[h] <= writes'
  BY <1>1, ChangeKeeps
<1>3. /\ UNCHANGED options /\ selectors' = selectors /\ watchers' = watchers /\ pc' = pc /\ loc' = loc
      /\ loaded' = loaded /\ registerAll' = registerAll /\ mapped' = mapped /\ watched' = watched
      /\ etags' = etags /\ ffKeys' = ffKeys /\ selectCalled' = selectCalled
      /\ ffWatchers' = ffWatchers /\ calls' = calls
  BY <1>2 DEF options, provider
<1>4. Sel' = Sel /\ \A S : OfKind(S)' = OfKind(S)
  BY <1>3, SameOptions
<1>5. TypeOK'
  <2>1. writes' \in Nat
    BY <1>2
  <2> QED
    BY <1>1, <1>2, <1>3, <1>4, <2>1 DEF TypeOK
<1>6. OptionsInv'
  BY <1>1, <1>2, <1>3, <1>4 DEF OptionsInv
<1>7. loaded' => HeldInv'
  BY <1>3, ChangeHeld DEF IInv
<1>8. ChangesInv'
  <2>1. \A c \in DOMAIN loc.changes : loc.changes[c][2] \in Nat
    <3>1. loc.changes \in Seq(Items \X Nat)
      BY <1>1, LocType
    <3>2. \A c \in DOMAIN loc.changes : loc.changes[c] \in Items \X Nat
      BY <3>1
    <3> QED
      BY <3>2
  <2>2. \A c \in DOMAIN loc.changes : loc.changes[c][2] <= writes + 1
    BY <1>1, <1>2, <2>1 DEF ChangesInv
  <2> QED
    BY <1>1, <1>2, <1>3, <2>2 DEF ChangesInv
<1>9. KvsInv'
  BY <1>1, <1>3 DEF KvsInv, Left
<1>10. pc' \in Checking => CheckInv' /\ loc'.todo \subseteq Sel'
  <2> SUFFICES ASSUME pc \in Checking PROVE CheckInv' /\ loc'.todo \subseteq Sel'
    BY <1>3
  <2>1. HeldInv /\ CheckInv /\ loc.todo \subseteq Sel
    BY <1>1 DEF IInv, OptionsInv, Checking
  <2>2. \A f \in Plain : Fresh(f, etags)' => f # i /\ Fresh(f, etags)
    BY <2>1, ChangeHeld
  <2> QED
    BY <1>2, <1>3, <1>4, <2>1, <2>2 DEF CheckInv, Plain
<1>11. pc' \in Loading => LoadInv'
  BY <1>3, ChangeLoading DEF IInv
<1>12. writes' >= 1
  BY <1>1, <1>2
<1> QED
  BY <1>2, <1>5, <1>6, <1>7, <1>8, <1>9, <1>10, <1>11, <1>12 DEF IInv

---------------------------------------------------------------------------
(* Configuring *)

\* A selector that may be: a snapshot has no snapshot references.
Selectable ==
    {s \in [kind : {"keys", "flags", "snapshot"}, items : SUBSET Items] :
        s.kind = "snapshot" => s.items \cap References = {}}

\* The selectors are such selectors.
LEMMA SelectorsAre ==
  ASSUME TypeOK, OptionsInv
  PROVE  selectors \in Seq(Selectable)
<1>1. \A n \in Sel : selectors[n] \in Selectable
  <2> TAKE n \in Sel
  <2>1. selectors[n] \in [kind : {"keys", "flags", "snapshot"}, items : SUBSET Items]
    <3> DEFINE R == [kind : {"keys", "flags", "snapshot"}, items : SUBSET Items]
    <3>1. selectors \in Seq(R)
      BY DEF TypeOK
    <3> HIDE DEF R
    <3>2. selectors[n] \in R
      BY <3>1 DEF Sel
    <3> QED
      BY <3>2 DEF R
  <2>2. selectors[n].kind = "snapshot" => selectors[n].items \cap References = {}
    BY DEF OptionsInv, OfKind
  <2> QED
    BY <2>1, <2>2 DEF Selectable
<1>2. Len(selectors) \in Nat /\ Sel = 1..Len(selectors) /\ selectors = [n \in Sel |-> selectors[n]]
  <2> DEFINE R == [kind : {"keys", "flags", "snapshot"}, items : SUBSET Items]
  <2>1. selectors \in Seq(R)
    BY DEF TypeOK
  <2> HIDE DEF R
  <2> QED
    BY <2>1 DEF Sel
<1> HIDE DEF Selectable
<1> DEFINE f == [n \in Sel |-> selectors[n]]
<1>3. f \in [1..Len(selectors) -> Selectable]
  BY <1>1, <1>2
<1>4. selectors = f
  BY <1>2
<1> HIDE DEF f
<1> QED
  BY <1>2, <1>3, <1>4

\* So is the one that a call adds.
LEMMA SelectorIs ==
  ASSUME NEW kind \in {"keys", "flags", "snapshot"}, NEW items \in SUBSET Items,
         kind = "snapshot" => items \cap References = {}
  PROVE  Selector(kind, items) \in Selectable
BY DEF Selector, Selectable

\* As long as the application configures, nothing is loaded: only the options count.
LEMMA ConfiguringStep ==
  ASSUME IInv, Configuring, selectors' \in Seq(Selectable),
         selectCalled' \in BOOLEAN, registerAll' \in BOOLEAN,
         ffWatchers' \in Seq(SUBSET Items), watchers' \in Seq(Watchers),
         registerAll' => watchers' = <<>>
  PROVE  IInv'
<1>1. /\ pc = "configure" /\ pc' = pc /\ loc' = loc /\ UNCHANGED <<service, provider>>
      /\ calls < MaxCalls /\ calls' = calls + 1
  BY DEF Configuring
<1>2. /\ TypeOK /\ OptionsInv /\ ~loaded /\ loc = Blank /\ writes >= 1
      /\ \A i \in Items : store[i] <= writes
  BY <1>1 DEF IInv, OptionsInv
<1>3. /\ store' = store /\ writes' = writes /\ loaded' = loaded /\ mapped' = mapped
      /\ watched' = watched /\ etags' = etags /\ ffKeys' = ffKeys
  BY <1>1 DEF service, provider
<1>4. calls' \in 0..MaxCalls
  BY <1>1, <1>2, SelectionAssumption DEF TypeOK
<1>5. selectors' \in Seq([kind : {"keys", "flags", "snapshot"}, items : SUBSET Items])
  <2> DEFINE R == [kind : {"keys", "flags", "snapshot"}, items : SUBSET Items]
  <2>1. Selectable \subseteq R
    BY DEF Selectable
  <2> HIDE DEF R
  <2>2. selectors' \in Seq(R)
    BY <2>1
  <2> QED
    BY <2>2 DEF R
<1>6. loc' \in Locals(Sel')
  BY <1>1, <1>2, BlankType
<1>7. TypeOK'
  BY <1>1, <1>2, <1>3, <1>4, <1>5, <1>6 DEF TypeOK, Locals
<1>8. OptionsInv'
  <2>1. \A n \in DOMAIN selectors' :
           selectors'[n].kind = "snapshot" => selectors'[n].items \cap References = {}
    <3>1. \A n \in DOMAIN selectors' : selectors'[n] \in Selectable
      OBVIOUS
    <3> QED
      BY <3>1 DEF Selectable
  <2> QED
    BY <1>1, <1>2, <1>3, <2>1 DEF OptionsInv, OfKind, Sel, Blank
<1>9. ChangesInv' /\ KvsInv'
  <2>1. loc'.changes = <<>> /\ loc'.kvs = <<>>
    BY <1>1, <1>2 DEF Blank
  <2> QED
    BY <2>1 DEF ChangesInv, KvsInv
<1> QED
  BY <1>1, <1>2, <1>3, <1>7, <1>8, <1>9 DEF IInv, Checking, Loading

\* Every method of the options leaves the options as they must be.
LEMMA ConfigureStep ==
  ASSUME IInv, Configure PROVE IInv'
<1>1. /\ TypeOK /\ OptionsInv /\ selectors \in Seq(Selectable) /\ ffWatchers \in Seq(SUBSET Items)
      /\ watchers \in Seq(Watchers) /\ selectCalled \in BOOLEAN /\ registerAll \in BOOLEAN
  BY SelectorsAre DEF IInv, TypeOK
<1>2. registerAll => watchers = <<>>
  BY <1>1 DEF OptionsInv
<1>3. SelectedBefore \in Seq(Selectable)
  BY <1>1, RemoveFirstType DEF SelectedBefore
<1>4. ASSUME NEW kind \in {"keys", "snapshot"}, NEW items \in SUBSET Items,
             kind = "snapshot" => items \cap References = {}, Select(kind, items)
      PROVE  IInv'
  <2>1. Selector(kind, items) \in Selectable
    BY <1>4, SelectorIs
  <2>2. selectors' \in Seq(Selectable)
    BY <1>3, <1>4, <2>1, AppendUniqueType DEF Select
  <2> QED
    BY <1>1, <1>2, <1>4, <2>2, ConfiguringStep DEF Select
<1>5. ASSUME NEW items \in SUBSET Items, UseFeatureFlags(items) PROVE IInv'
  <2>1. Selector("flags", items) \in Selectable
    BY SelectorIs
  <2>2. selectors' \in Seq(Selectable) /\ ffWatchers' \in Seq(SUBSET Items)
    BY <1>1, <1>5, <2>1, AppendUniqueType DEF UseFeatureFlags
  <2> QED
    BY <1>1, <1>2, <1>5, <2>2, ConfiguringStep DEF UseFeatureFlags
<1>6. ASSUME NEW S \in Registrations, NEW all \in BOOLEAN, ConfigureRefresh(S, all) PROVE IInv'
  <2>1. S \subseteq Watchers
    BY SelectionAssumption
  <2>2. PICK s \in SetToSeqs(S) : watchers' = watchers \o s
    BY <1>6 DEF ConfigureRefresh
  <2>3. s \in Seq(Watchers) /\ (S = {} => s = <<>>)
    BY <2>1, SetToSeqsType
  <2>4. watchers' \in Seq(Watchers)
    BY <1>1, <2>2, <2>3
  <2>5. all => watchers' = <<>>
    <3> SUFFICES ASSUME all PROVE watchers' = <<>>
      OBVIOUS
    <3>1. watchers = <<>> /\ S = {}
      BY <1>6 DEF ConfigureRefresh, MayRegister
    <3> QED
      BY <2>2, <2>3, <3>1
  <2> QED
    BY <1>1, <1>6, <2>4, <2>5, ConfiguringStep DEF ConfigureRefresh
<1>7. \A items \in Filters \cup FlagFilters \cup Snapshots : items \subseteq Items
  BY SelectionAssumption
<1>8. \A items \in Snapshots : items \cap References = {}
  BY SelectionAssumption
<1>9. CASE \E items \in Filters : Select("keys", items)
  BY <1>4, <1>7, <1>9
<1>10. CASE \E items \in Snapshots : Select("snapshot", items)
  BY <1>4, <1>7, <1>8, <1>10
<1>11. CASE \E items \in FlagFilters : UseFeatureFlags(items)
  BY <1>5, <1>7, <1>11
<1>12. CASE \E S \in Registrations, all \in BOOLEAN : ConfigureRefresh(S, all)
  BY <1>6, <1>12
<1> QED
  BY <1>9, <1>10, <1>11, <1>12 DEF Configure

---------------------------------------------------------------------------
(* Every reachable state *)

\* Before the first call nothing is loaded, and the default query is selected.
LEMMA InitInv == Init => IInv
<1> SUFFICES ASSUME Init PROVE IInv
  OBVIOUS
<1> USE DEF Init
<1>1. DefaultQuery \in SUBSET Items
  BY SelectionAssumption
<1>2. Selector("keys", DefaultQuery) \in [kind : {"keys", "flags", "snapshot"}, items : SUBSET Items]
  BY <1>1 DEF Selector
<1>3. selectors \in Seq([kind : {"keys", "flags", "snapshot"}, items : SUBSET Items])
  <2> DEFINE R == [kind : {"keys", "flags", "snapshot"}, items : SUBSET Items]
  <2>1. Selector("keys", DefaultQuery) \in R
    BY <1>2
  <2> HIDE DEF R
  <2>2. selectors \in Seq(R)
    BY <2>1
  <2> QED
    BY <2>2 DEF R
<1>4. loc \in Locals(Sel)
  BY BlankType
<1>5. TypeOK
  <2>1. NoData \in [Keys -> Entries \cup {None}]
    BY DEF NoData
  <2>2. calls \in 0..MaxCalls
    BY SelectionAssumption
  <2>3. /\ ffWatchers \in Seq(SUBSET Items) /\ watchers \in Seq(Watchers) /\ etags \in Seq(Seq(Listings))
    OBVIOUS
  <2>4. /\ store \in [Items -> Nat] /\ writes \in Nat /\ watched \in [Items -> Nat]
    BY DEF Absent
  <2> QED
    BY <1>3, <1>4, <2>1, <2>2, <2>3, <2>4 DEF TypeOK, Locals
<1>6. OptionsInv
  <2>1. \A n \in DOMAIN selectors : selectors[n].kind = "keys"
    BY DEF Selector
  <2> QED
    BY <2>1 DEF OptionsInv, OfKind, Sel
<1>7. ChangesInv /\ KvsInv
  <2>1. loc.changes = <<>> /\ loc.kvs = <<>>
    BY DEF Blank
  <2> QED
    BY <2>1 DEF ChangesInv, KvsInv
<1> QED
  BY <1>5, <1>6, <1>7 DEF IInv, Checking, Loading

\* A step in which nothing changes.
LEMMA StutterStep ==
  ASSUME IInv, UNCHANGED vars PROVE IInv'
<1>1. /\ UNCHANGED <<options, service, provider>> /\ UNCHANGED options /\ pc' = pc /\ loc' = loc
  BY DEF vars
<1>2. /\ store' = store /\ writes' = writes /\ selectors' = selectors
      /\ selectCalled' = selectCalled /\ ffWatchers' = ffWatchers /\ watchers' = watchers /\ calls' = calls
      /\ mapped' = mapped /\ watched' = watched /\ etags' = etags /\ ffKeys' = ffKeys
      /\ registerAll' = registerAll /\ loaded' = loaded
  BY <1>1 DEF options, service, provider
<1>3. CASE pc = "configure"
  <2>1. TypeOK' /\ OptionsInv'
    BY <1>1, <1>2 DEF IInv, TypeOK, OptionsInv, Sel, OfKind, Blank
  <2>2. ChangesInv' /\ KvsInv'
    BY <1>1, <1>2 DEF IInv, ChangesInv, KvsInv, Left
  <2> QED
    BY <1>1, <1>2, <1>3, <2>1, <2>2 DEF IInv, OptionsInv, Checking, Loading
<1>4. CASE pc # "configure"
  <2>1. TypeOK /\ OptionsInv /\ ChangesInv /\ KvsInv
    BY DEF IInv
  <2>2. loc' \in Locals(Sel) /\ pc' \in Points \ {"configure"}
    BY <1>1, <1>4, <2>1, LocType DEF TypeOK, Points
  <2>3. ChangesInv' /\ KvsInv'
    BY <1>1, <1>2, <2>1 DEF ChangesInv, KvsInv, Left
  <2>4. loaded \/ pc' \in {"idle", "watched"} \/ (pc' = "load" /\ loc'.full)
    BY <1>1, <1>4, <2>1 DEF OptionsInv
  <2>5. pc' \in Checking => CheckInv'
    <3>1. \A f : Fresh(f, etags)' = Fresh(f, etags)
      BY <1>1, <1>2, SameOptions DEF Fresh
    <3> QED
      BY <1>1, <1>2, <3>1 DEF IInv, CheckInv
  <2>6. pc' \in Loading => LoadInv'
    <3> SUFFICES ASSUME LoadInv PROVE LoadInv'
      BY <1>1 DEF IInv
    <3>1. /\ RecordsInv(loc.etags)' /\ KeysInv(loc.etags, loc.keys)'
          /\ \A f : FreshFlag(f, loc.etags)' = FreshFlag(f, loc.etags)
          /\ \A f, S : Unlisted(f, loc.etags, S)' = Unlisted(f, loc.etags, S)
          /\ \A i : Entry(i)' = Entry(i) /\ Gone(i)' = Gone(i)
          /\ \A k : Wins(loc.data[k], k, loc.etags, loc.todo)' = Wins(loc.data[k], k, loc.etags, loc.todo)
      BY <1>1, SameRecords DEF LoadInv
    <3>2. /\ Sel' = Sel /\ (\A S : OfKind(S)' = OfKind(S)) /\ (\A S, h : Selects(S, h)' = Selects(S, h))
          /\ \A h : Watched(h)' = Watched(h) /\ OnlyWatched(h)' = OnlyWatched(h) /\ Alone(h)' = Alone(h)
                    /\ Flag(h)' = Flag(h) /\ ReadTwice(h)' = ReadTwice(h)
      BY <1>1, SameOptions
    <3>3. Kinds' = Kinds /\ Left' = Left
      BY <1>1, <1>2 DEF Kinds, Left
    <3>4. \A h : Visited(h)' = Visited(h) /\ Pending(h)' = Pending(h)
      BY <1>2, <3>3 DEF Visited, Pending
    <3>5. ProgressInv' /\ DataInv' /\ WatchedInv(loc.watched)'
      <4>1. ProgressInv /\ DataInv /\ WatchedInv(loc.watched)
        BY DEF LoadInv
      <4>2. ProgressInv'
        BY <1>1, <1>2, <3>2, <3>3, <4>1 DEF ProgressInv, Blank
      <4>3. DataInv'
        BY <1>1, <1>2, <3>2, <3>3, <3>4, <4>1 DEF DataInv
      <4>4. WatchedInv(loc.watched)'
        BY <1>1, <1>2, <3>2, <4>1 DEF WatchedInv
      <4> QED
        BY <4>2, <4>3, <4>4
    <3>6. (\A f \in Plain : FreshFlag(f, loc.etags) => loc.data[KeyOf[f]] = Entry(f))'
      BY <1>1, <3>1 DEF LoadInv
    <3>7. (\A f \in Plain :
            GoneFlag(f, loc.etags, Kinds \ {"snapshot"}, loc.watched) => loc.data[KeyOf[f]] = None)'
      <4>1. \A f : GoneFlag(f, loc.etags, Kinds \ {"snapshot"}, loc.watched)'
                     = GoneFlag(f, loc.etags, Kinds \ {"snapshot"}, loc.watched)
        BY <1>1, <3>1, <3>2, <3>3 DEF GoneFlag
      <4> QED
        BY <1>1, <4>1 DEF LoadInv
    <3>8. (\A j \in Items : FreshWatched(j, loc.watched) => loc.data[KeyFrom(j)] = Entry(j))'
      <4>1. \A j : FreshWatched(j, loc.watched)' = FreshWatched(j, loc.watched)
        BY <1>1, <1>2, <3>1, <3>2 DEF FreshWatched
      <4> QED
        BY <1>1, <3>1, <4>1 DEF LoadInv
    <3>9. (registerAll /\ loc.full => \A k \in Keys : Wins(loc.data[k], k, loc.etags, loc.todo))'
      BY <1>1, <1>2, <3>1 DEF LoadInv
    <3>10. (\A k \in loc.keys : \E n \in OfKind({"flags"}) : \E h \in DOMAIN loc.etags[n] :
            \E p \in Listed(loc.etags[n][h]) : Order[p] \in Plain /\ KeyOf[Order[p]] = k)'
      BY <1>1, <3>2 DEF LoadInv
    <3>11. (pc = "watched" => \A j \in Items :
          OnlyWatched(j) /\ ~ReadTwice(j) /\ ~Pending(j) /\ loc.data[KeyFrom(j)] # None =>
              loc.watched[j] = loc.data[KeyFrom(j)][2])'
      BY <1>1, <3>2, <3>4 DEF LoadInv
    <3> QED
      BY <3>1, <3>5, <3>6, <3>7, <3>8, <3>9, <3>10, <3>11 DEF LoadInv
  <2> QED
    BY <1>1, <2>2, <2>3, <2>4, <2>5, <2>6, InsideStep
<1> QED
  BY <1>3, <1>4

\* In every reachable state, what the provider holds agrees with the pages and versions
\* it has recorded, whatever is selected and registered, whatever is written between two
\* requests and whatever fails (RefreshAsync with LoadSelected,
\* LoadKeyValuesRegisteredForRefresh and ProcessKeyValueChangesAsync).
THEOREM Inductive == Spec => []IInv
<1>1. Init => IInv
  BY InitInv
<1>2. IInv /\ [Next]_vars => IInv'
  <2> SUFFICES ASSUME IInv, [Next]_vars PROVE IInv'
    OBVIOUS
  <2>1. CASE Configure
    BY <2>1, ConfigureStep
  <2>2. CASE Initialize
    BY <2>2, InitializeStep
  <2>3. CASE Begin
    BY <2>3, BeginStep
  <2>4. CASE CheckWatcher
    BY <2>4, CheckWatcherStep
  <2>5. CASE CheckPage
    BY <2>5, CheckPageStep
  <2>6. CASE CheckFlags
    BY <2>6, CheckFlagsStep
  <2>7. CASE LoadPage
    BY <2>7, LoadPageStep
  <2>8. CASE Selected
    BY <2>8, SelectedStep
  <2>9. CASE LoadWatched
    BY <2>9, LoadWatchedStep
  <2>10. CASE ApplyAll
    BY <2>10, ApplyAllStep
  <2>11. CASE ApplyChanges
    BY <2>11, ApplyIndividualStep, ApplyFlagsStep DEF ApplyChanges
  <2>12. CASE Fail
    BY <2>12, FailStep
  <2>13. CASE \E i \in Items : Change(i, writes + 1) \/ Change(i, Absent)
    BY <2>13, ChangeStep
  <2>14. CASE UNCHANGED vars
    BY <2>14, StutterStep
  <2> QED
    BY <2>1, <2>2, <2>3, <2>4, <2>5, <2>6, <2>7, <2>8, <2>9, <2>10, <2>11, <2>12, <2>13, <2>14 DEF Next
<1> QED
  BY <1>1, <1>2, PTL DEF Spec

\* Every variable keeps its type: options, recorded pages and versions, what is held, and
\* the locals of the refresh under way, at every point of RefreshAsync.
THEOREM TypeCorrect == Spec => []TypeOK
<1>1. IInv => TypeOK
  BY DEF IInv
<1> QED
  BY <1>1, Inductive, PTL

---------------------------------------------------------------------------
(* What the checks have seen *)

\* Where the recorded page k of selector n begins.
PageStart(n, k) == IF k = 1 THEN 0 ELSE Behind(etags[n][k - 1])

\* If a check of a selector sees nothing, its recorded pages are what it lists now.
LEMMA SeenListed ==
  ASSUME TypeOK, DOMAIN etags = Sel, NEW n \in Sel, SeesNothing(n)
  PROVE  \A p \in DOMAIN Order, v \in Nat \ {Absent} :
            (\E k \in DOMAIN etags[n] : etags[n][k][p] = v) <=> Listing(n, 0)[p] = v
<1>1. PICK last \in DOMAIN etags[n] :
         /\ Verdict(n, PageStart(n, last), last) = "same"
         /\ \A k \in 1..last - 1 : Verdict(n, PageStart(n, k), k) = "next page"
  BY DEF SeesNothing, PageStart
<1>2. Len(etags[n]) \in Nat /\ DOMAIN etags[n] = 1..Len(etags[n])
      /\ \A k \in 1..Len(etags[n]) : etags[n][k] \in Listings
  <2>1. etags \in Seq(Seq(Listings))
    BY DEF TypeOK
  <2>2. etags[n] \in Seq(Listings)
    BY <2>1
  <2> DEFINE s == etags[n]
  <2> HIDE DEF s
  <2>3. s \in Seq(Listings)
    BY <2>2 DEF s
  <2>4. Len(s) \in Nat /\ DOMAIN s = 1..Len(s) /\ \A k \in 1..Len(s) : s[k] \in Listings
    BY <2>3
  <2> QED
    BY <2>4 DEF s
<1>3. /\ last = Len(etags[n]) /\ IsLast(n, PageStart(n, last))
      /\ PageOf(Listing(n, PageStart(n, last))) = etags[n][last]
  <2>1. Verdict(n, PageStart(n, last), last) = "same"
    BY <1>1
  <2>2. /\ ~(last > Len(etags[n]) \/ PageOf(Listing(n, PageStart(n, last))) # etags[n][last])
        /\ IsLast(n, PageStart(n, last)) /\ ~EndOfListing(n, last)
    BY <2>1 DEF Verdict
  <2> QED
    BY <2>2, <1>2 DEF EndOfListing
<1>4. ASSUME NEW k \in 1..last - 1
      PROVE  /\ PageOf(Listing(n, PageStart(n, k))) = etags[n][k]
             /\ ~IsLast(n, PageStart(n, k))
  <2>1. Verdict(n, PageStart(n, k), k) = "next page"
    BY <1>1
  <2> QED
    BY <2>1 DEF Verdict
<1>5. last \in Nat /\ last >= 1 /\ Len(Order) \in Nat /\ DOMAIN Order = 1..Len(Order)
  BY <1>2, Positions
<1>6. \A k \in 1..last : PageOf(Listing(n, PageStart(n, k))) = etags[n][k]
  BY <1>3, <1>4, <1>5
<1>7. \A a \in Nat, p \in DOMAIN Order :
         Listing(n, a)[p] = IF p > a THEN Listing(n, 0)[p] ELSE Absent
  BY <1>5 DEF Listing, Absent
  \* Every page begins behind what the pages before it list.
<1> DEFINE Read(k) == \A p \in DOMAIN Order :
              p <= PageStart(n, k) /\ Listing(n, 0)[p] # Absent =>
                  \E h \in DOMAIN etags[n] : etags[n][h][p] = Listing(n, 0)[p]
           T == {c \in Nat : c + 1 <= last => PageStart(n, c + 1) \in Nat /\ Read(c + 1)}
<1>8. 0 \in T
  BY <1>5 DEF PageStart
<1>9. ASSUME NEW c \in Nat, c \in T PROVE c + 1 \in T
  <2> SUFFICES ASSUME c + 2 <= last PROVE PageStart(n, c + 2) \in Nat /\ Read(c + 2)
    BY <1>9
  <2>1. PICK k \in Nat : k = c + 1
    OBVIOUS
  <2>2. k \in 1..last - 1 /\ k \in 1..last /\ PageStart(n, k) \in Nat /\ Read(k) /\ c + 2 = k + 1
    BY <1>9, <2>1, <1>5
  <2> DEFINE l == Listing(n, PageStart(n, k))
  <2>3. l \in Listings /\ PageOf(l) = etags[n][k] /\ PageOf(l) # l
    BY <2>2, <1>4, ListingType DEF IsLast
  <2>4. PageStart(n, k + 1) = Behind(PageOf(l))
    BY <2>2, <2>3 DEF PageStart
  <2> HIDE DEF l
  <2>5. /\ Behind(PageOf(l)) \in Listed(PageOf(l)) /\ Behind(PageOf(l)) \in 1..Len(Order)
    BY <2>3, PageGoesOn
  <2>6. ASSUME NEW p \in DOMAIN Order, p <= Behind(PageOf(l)), Listing(n, 0)[p] # Absent
        PROVE  \E h \in DOMAIN etags[n] : etags[n][h][p] = Listing(n, 0)[p]
    <3>1. CASE p <= PageStart(n, k)
      BY <2>2, <2>6, <3>1
    <3>2. CASE p > PageStart(n, k)
      <4>1. l[p] = Listing(n, 0)[p]
        BY <1>7, <2>2, <3>2 DEF l
      <4>2. p \in Listed(l)
        BY <4>1, <2>6 DEF Listed
      <4>3. PageOf(l)[p] = l[p]
        BY <2>3, <2>5, <2>6, <4>2, PageBegins
      <4>4. k \in DOMAIN etags[n]
        BY <2>2, <1>2, <1>3
      <4> QED
        BY <4>1, <4>3, <4>4, <2>3
    <3> QED
      BY <3>1, <3>2, <2>2, <1>5
  <2> QED
    BY <2>2, <2>4, <2>5, <2>6
<1>10. Nat \subseteq T
  <2> HIDE DEF T
  <2> QED
    BY <1>8, <1>9, AllNumbers
<1>11. \A k \in 1..last : PageStart(n, k) \in Nat /\ Read(k)
  <2> SUFFICES ASSUME NEW k \in 1..last PROVE PageStart(n, k) \in Nat /\ Read(k)
    OBVIOUS
  <2>1. PICK c \in Nat : c = k - 1
    BY <1>5
  <2>2. c \in T
    <3> HIDE DEF T
    <3> QED
      BY <1>10
  <2>3. c + 1 = k /\ c + 1 <= last
    BY <2>1, <1>5
  <2>4. PageStart(n, c + 1) \in Nat /\ Read(c + 1)
    BY <2>2, <2>3
  <2> HIDE DEF Read
  <2> QED
    BY <2>3, <2>4
<1>12. ASSUME NEW p \in DOMAIN Order, NEW v \in Nat \ {Absent},
              NEW k \in DOMAIN etags[n], etags[n][k][p] = v
       PROVE  Listing(n, 0)[p] = v
  <2>1. k \in 1..last /\ PageStart(n, k) \in Nat
    BY <1>2, <1>3, <1>11
  <2> DEFINE l == Listing(n, PageStart(n, k))
  <2>2. l \in Listings /\ PageOf(l) = etags[n][k]
    BY <2>1, <1>6, ListingType
  <2>3. p \in Listed(PageOf(l))
    BY <2>2, <1>12 DEF Listed
  <2>4. l[p] = v
    <3> HIDE DEF l
    <3> QED
      BY <2>2, <2>3, <1>12, PageBegins
  <2> QED
    BY <2>1, <2>4, <1>7
<1>13. ASSUME NEW p \in DOMAIN Order, NEW v \in Nat \ {Absent}, Listing(n, 0)[p] = v
       PROVE  \E k \in DOMAIN etags[n] : etags[n][k][p] = v
  <2>1. last \in 1..last /\ PageStart(n, last) \in Nat /\ Read(last)
    BY <1>5, <1>11
  <2>2. CASE p <= PageStart(n, last)
    BY <2>1, <2>2, <1>13
  <2>3. CASE p > PageStart(n, last)
    <3>1. Listing(n, PageStart(n, last))[p] = v
      BY <2>1, <2>3, <1>7, <1>13
    <3>2. etags[n][last][p] = v
      BY <3>1, <1>3 DEF IsLast
    <3> QED
      BY <3>2, <1>1
  <2> QED
    BY <2>1, <2>2, <2>3, <1>5
<1> QED
  BY <1>12, <1>13

---------------------------------------------------------------------------
(* What a load from scratch would leave *)

\* The data that the selectors alone would give, and the watched items they leave out.
Listers(k)   == {n \in Sel : For(k, Listing(n, 0)) # {}}
SelectedData == [k \in Keys |-> IF Listers(k) = {} THEN None
                                ELSE PutAll(NoData, Listing(Max(Listers(k)), 0))[k]]
Missed == {i \in Items : /\ \E w \in Range(watchers) : w.item = i
                         /\ SelectedData[KeyOf[i]] = None \/ SelectedData[KeyOf[i]][1] # i}

\* Reloaded, in these terms.
LEMMA ReloadedIs ==
  /\ Reloaded = MapAll(PutAll(SelectedData, Requested(Missed)))
  /\ \A k \in Keys : Reloaded[k] = MapSetting(PutAll(SelectedData, Requested(Missed))[k])
<1>1. Reloaded = MapAll(PutAll(SelectedData, Requested(Missed)))
  BY DEF Reloaded, SelectedData, Missed, Listers
<1> QED
  BY <1>1 DEF MapAll

\* What is selected for a key is the last entry of the last selector that lists it.
LEMMA SelectedLast ==
  ASSUME TypeOK, NEW k \in Keys
  PROVE  \/ /\ SelectedData[k] = None
            /\ \A n \in Sel : For(k, Listing(n, 0)) = {}
         \/ \E n \in Sel : \E p \in For(k, Listing(n, 0)) :
               /\ SelectedData[k] = <<Order[p], Listing(n, 0)[p]>>
               /\ \A m \in Sel : For(k, Listing(m, 0)) # {} => m <= n
               /\ \A q \in For(k, Listing(n, 0)) : q <= p
<1>1. SelectedData[k] = IF Listers(k) = {} THEN None
                        ELSE PutAll(NoData, Listing(Max(Listers(k)), 0))[k]
  BY DEF SelectedData
<1>2. CASE Listers(k) = {}
  BY <1>1, <1>2 DEF Listers
<1>3. CASE Listers(k) # {}
  <2>1. Len(selectors) \in Nat /\ Sel = 1..Len(selectors)
    BY SelType
  <2>2. Listers(k) \subseteq 0..Len(selectors)
    BY <2>1 DEF Listers
  <2>3. PICK n \in Listers(k) : n = Max(Listers(k)) /\ \A m \in Listers(k) : n >= m
    BY <1>3, <2>1, <2>2, MaxOf
  <2>4. n \in Sel /\ Listing(n, 0) \in Listings /\ For(k, Listing(n, 0)) # {}
    BY ListingType DEF Listers
  <2>5. \E p \in For(k, Listing(n, 0)) :
           /\ PutAll(NoData, Listing(n, 0))[k] = <<Order[p], Listing(n, 0)[p]>>
           /\ \A q \in For(k, Listing(n, 0)) : q <= p
    BY <2>4, PutLast
  <2>6. \A m \in Sel : For(k, Listing(m, 0)) # {} => m <= n
    BY <2>1, <2>3, <2>4 DEF Listers
  <2> QED
    BY <1>1, <1>3, <2>3, <2>4, <2>5, <2>6
<1> QED
  BY <1>2, <1>3

\* An item that is the only source of its key, selected or watched, is what a load would
\* give the key, unless it is gone.
LEMMA ReloadedAlone ==
  ASSUME TypeOK, OptionsInv, NEW j \in Items, Alone(j), Flag(j) \/ Watched(j)
  PROVE  Reloaded[KeyFrom(j)] = IF Gone(j) THEN None ELSE MapSetting(Entry(j))
<1> DEFINE k == KeyFrom(j)
<1>1. k \in Keys /\ k = KeyFrom(j)
  BY KeyFacts
<1>2. store[j] \in Nat /\ Sets(Entry(j)) \subseteq {k}
  BY <1>1, SetsOne DEF TypeOK, Entry
<1>3. ~Gone(j) => store[j] # Absent /\ Sets(Entry(j)) = {k} /\ k \in Sets(<<j, store[j]>>)
  BY <1>2 DEF Gone, Entry
<1>4. ASSUME NEW n \in Sel, NEW p \in For(k, Listing(n, 0))
      PROVE  <<Order[p], Listing(n, 0)[p]>> = Entry(j) /\ ~Gone(j)
  <2>1. p \in DOMAIN Order /\ Listing(n, 0)[p] # Absent
        /\ k \in Sets(<<Order[p], Listing(n, 0)[p]>>)
    BY DEF For, Listed, EntryAt
  <2>2. Order[p] \in selectors[n].items /\ Listing(n, 0)[p] = VersionFor(n, Order[p])
    BY <2>1 DEF Listing
  <2>3. Order[p] \in Items /\ KeyFrom(Order[p]) = k
    BY <2>1, Positions, SetsOne
  <2>4. Order[p] = j /\ selectors[n].kind \in {"keys", "flags"}
    BY <2>2, <2>3, AloneSelected
  <2>5. Listing(n, 0)[p] = store[j]
    BY <2>2, <2>4 DEF VersionFor
  <2> QED
    BY <2>1, <2>4, <2>5 DEF Entry, Gone
<1>5. ASSUME NEW p \in For(k, Requested(Missed))
      PROVE  <<Order[p], Requested(Missed)[p]>> = Entry(j) /\ ~Gone(j)
  <2>1. p \in DOMAIN Order /\ Requested(Missed)[p] # Absent
        /\ k \in Sets(<<Order[p], Requested(Missed)[p]>>)
    BY DEF For, Listed, EntryAt
  <2>2. Order[p] \in Missed /\ Requested(Missed)[p] = store[Order[p]]
    BY <2>1 DEF Requested
  <2>3. Order[p] \in Items /\ KeyFrom(Order[p]) = k /\ \E w \in Range(watchers) : w.item = Order[p]
    BY <2>1, <2>2, Positions, SetsOne DEF Missed
  <2>4. <<"store", Order[p]>> \in Sources(k)
    BY <2>3 DEF Sources
  <2>5. <<"store", Order[p]>> = <<"store", j>>
    BY <2>4 DEF Alone
  <2>6. Order[p] = j
    BY <2>5
  <2> QED
    BY <2>1, <2>2, <2>6 DEF Entry, Gone
<1>6. SelectedData[k] = None \/ (SelectedData[k] = Entry(j) /\ ~Gone(j))
  <2> HIDE DEF k
  <2> QED
    BY <1>1, <1>4, SelectedLast
<1>7. Requested(Missed) \in Listings
  BY ListingType
<1>8. Reloaded[k] = MapSetting(PutAll(SelectedData, Requested(Missed))[k])
  BY <1>1, ReloadedIs
<1>9. CASE Gone(j)
  <2>1. For(k, Requested(Missed)) = {}
    BY <1>5, <1>9
  <2>2. PutAll(SelectedData, Requested(Missed))[k] = None
    BY <1>1, <1>6, <1>7, <1>9, <2>1, PutLast
  <2> QED
    BY <1>8, <1>9, <2>2 DEF MapSetting
<1>10. CASE ~Gone(j)
  <2>1. PutAll(SelectedData, Requested(Missed))[k] = Entry(j)
    <3>1. CASE For(k, Requested(Missed)) # {}
      <4> HIDE DEF k
      <4> QED
        BY <1>1, <1>5, <1>7, <3>1, PutLast
    <3>2. CASE For(k, Requested(Missed)) = {} /\ SelectedData[k] = Entry(j)
      BY <1>1, <1>7, <3>2, PutLast
    <3>3. CASE For(k, Requested(Missed)) = {} /\ SelectedData[k] # Entry(j)
      <4>1. PICK p \in DOMAIN Order : Order[p] = j
        BY Positions
      <4>2. SelectedData[k] = None /\ \A n \in Sel : For(k, Listing(n, 0)) = {}
        <5> HIDE DEF k
        <5> QED
          BY <1>1, <1>4, <3>3, SelectedLast
      <4>3. ~Flag(j)
        <5> SUFFICES ASSUME NEW n \in OfKind({"flags"}), j \in selectors[n].items PROVE FALSE
          BY DEF Flag, Selects
        <5>1. n \in Sel /\ selectors[n].kind = "flags"
          BY DEF OfKind
        <5>2. Listing(n, 0)[p] = store[j]
          BY <4>1, <5>1, Positions DEF Listing, VersionFor
        <5>3. p \in For(k, Listing(n, 0))
          BY <1>3, <1>10, <4>1, <5>2 DEF For, Listed, EntryAt
        <5> QED
          BY <4>2, <5>1, <5>3
      <4>4. \E w \in Range(watchers) : w.item = j
        BY <4>3 DEF Watched, Range
      <4>5. SelectedData[KeyOf[j]] = None \/ SelectedData[KeyOf[j]][1] # j
        <5> SUFFICES ASSUME SelectedData[KeyOf[j]] # None, SelectedData[KeyOf[j]][1] = j
                     PROVE  FALSE
          OBVIOUS
        <5>1. KeyOf[j] \in Keys
          BY KeyFacts
        <5>2. PICK n \in Sel : \E q \in For(KeyOf[j], Listing(n, 0)) :
                 SelectedData[KeyOf[j]] = <<Order[q], Listing(n, 0)[q]>>
          BY <5>1, SelectedLast
        <5>3. PICK q \in For(KeyOf[j], Listing(n, 0)) :
                 SelectedData[KeyOf[j]] = <<Order[q], Listing(n, 0)[q]>>
          BY <5>2
        <5>4. Order[q] = j /\ KeyOf[j] \in Sets(<<j, Listing(n, 0)[q]>>)
          BY <5>3 DEF For, EntryAt
        <5>5. KeyOf[j] = k
          BY <5>4, SetsOne
        <5> QED
          BY <4>2, <5>5
      <4>6. j \in Missed
        BY <4>4, <4>5 DEF Missed
      <4>7. Requested(Missed)[p] = store[j]
        BY <4>1, <4>6 DEF Requested
      <4>8. p \in For(k, Requested(Missed))
        BY <1>3, <1>10, <4>1, <4>7 DEF For, Listed, EntryAt
      <4> QED
        BY <3>3, <4>8
    <3> QED
      BY <3>1, <3>2, <3>3
  <2> QED
    BY <1>8, <1>10, <2>1
<1> QED
  BY <1>9, <1>10

---------------------------------------------------------------------------
(* Refreshing in parts is as good as loading anew *)

\* With RegisterAll, what won when the pages were recorded is what a load would select.
LEMMA WinnerSelected ==
  ASSUME TypeOK, RecordsInv(etags), registerAll, NothingToSee,
         NEW k \in Keys, NEW d, Wins(d, k, etags, {})
  PROVE  d = SelectedData[k]
<1>1. ASSUME NEW n \in Sel, NEW p \in DOMAIN Order, NEW v \in Nat
      PROVE  Recorded(etags, {}, n, p, v) <=> v # Absent /\ Listing(n, 0)[p] = v
  <2>1. CASE selectors[n].kind = "snapshot"
    BY <2>1 DEF Recorded
  <2>2. CASE selectors[n].kind # "snapshot"
    <3>1. n \in OfKind({"keys", "flags"})
      BY <2>2, SelType DEF OfKind
    <3>2. SeesNothing(n)
      BY <3>1 DEF NothingToSee
    <3>3. v # Absent => ((\E h \in DOMAIN etags[n] : etags[n][h][p] = v) <=> Listing(n, 0)[p] = v)
      BY <3>2, SeenListed DEF RecordsInv
    <3> QED
      BY <2>2, <3>3 DEF Recorded
  <2> QED
    BY <2>1, <2>2
<1>2. \A n \in Sel, p \in DOMAIN Order : Listing(n, 0)[p] \in Nat
  BY ListingType DEF Listings
<1>3. ASSUME NEW n \in Sel, NEW p \in For(k, Listing(n, 0))
      PROVE  /\ p \in DOMAIN Order /\ Recorded(etags, {}, n, p, Listing(n, 0)[p])
             /\ k \in Sets(<<Order[p], Listing(n, 0)[p]>>)
  BY <1>1, <1>2 DEF For, Listed, EntryAt
<1>4. ASSUME NEW n \in Sel, NEW p \in DOMAIN Order, NEW v \in Nat,
             Recorded(etags, {}, n, p, v), k \in Sets(<<Order[p], v>>)
      PROVE  p \in For(k, Listing(n, 0)) /\ v = Listing(n, 0)[p]
  BY <1>1, <1>4 DEF For, Listed, EntryAt
<1>5. CASE SelectedData[k] = None /\ \A n \in Sel : For(k, Listing(n, 0)) = {}
  BY <1>4, <1>5 DEF Wins
<1>6. ASSUME NEW n \in Sel, NEW p \in For(k, Listing(n, 0)),
             SelectedData[k] = <<Order[p], Listing(n, 0)[p]>>,
             \A m \in Sel : For(k, Listing(m, 0)) # {} => m <= n,
             \A q \in For(k, Listing(n, 0)) : q <= p
      PROVE  d = SelectedData[k]
  <2>1. /\ p \in DOMAIN Order /\ Listing(n, 0)[p] \in Nat
        /\ Recorded(etags, {}, n, p, Listing(n, 0)[p])
        /\ k \in Sets(<<Order[p], Listing(n, 0)[p]>>)
    BY <1>2, <1>3
  <2>2. PICK n1 \in Sel, p1 \in DOMAIN Order, v1 \in Nat :
          /\ Recorded(etags, {}, n1, p1, v1) /\ d = <<Order[p1], v1>> /\ k \in Sets(d)
          /\ \A n2 \in Sel, p2 \in DOMAIN Order, v2 \in Nat :
                Recorded(etags, {}, n2, p2, v2) /\ k \in Sets(<<Order[p2], v2>>) =>
                    n2 < n1 \/ (n2 = n1 /\ p2 <= p1)
    BY <2>1 DEF Wins
  <2>3. p1 \in For(k, Listing(n1, 0)) /\ v1 = Listing(n1, 0)[p1]
    BY <2>2, <1>4
  <2>4. n < n1 \/ (n = n1 /\ p <= p1)
    BY <2>1, <2>2
  <2>5. n1 <= n
    BY <1>6, <2>3
  <2>6. n \in Nat /\ n1 \in Nat /\ p \in Nat /\ p1 \in Nat
    BY <2>1, SelType, Positions
  <2>7. n1 = n
    BY <2>4, <2>5, <2>6
  <2>8. p1 = p
    BY <1>6, <2>3, <2>4, <2>6, <2>7
  <2> QED
    BY <1>6, <2>2, <2>3, <2>7, <2>8
<1> QED
  BY <1>5, <1>6, SelectedLast

\* What the flags do not share is then held as a load would leave it.
LEMMA AllHeld ==
  ASSUME TypeOK, OptionsInv, HeldInv, registerAll, NothingToSee, NEW k \in Keys \ FlagKeys
  PROVE  mapped[k] = Reloaded[k]
<1>1. PICK d \in Entries \cup {None} : Wins(d, k, etags, {}) /\ mapped[k] = MapSetting(d)
  BY DEF HeldInv
<1>2. d = SelectedData[k]
  BY <1>1, WinnerSelected DEF HeldInv
<1>3. For(k, Requested(Missed)) = {}
  <2>1. Range(watchers) = {}
    BY DEF OptionsInv, Range
  <2>2. Missed = {}
    BY <2>1 DEF Missed
  <2> QED
    BY <2>2 DEF For, Listed, Requested
<1>4. PutAll(SelectedData, Requested(Missed))[k] = d
  BY <1>2, <1>3, ListingType, PutLast
<1> QED
  BY <1>1, <1>4, ReloadedIs

\* A flag that is the only source of its key is held as a load would leave it.
LEMMA FlagHeld ==
  ASSUME TypeOK, OptionsInv, HeldInv, NothingToSee, NEW f \in Plain, Alone(f), Flag(f),
         Entry(f) \notin Dropped, registerAll \/ ~ReadTwice(f) \/ ~Gone(f)
  PROVE  mapped[KeyFrom(f)] = Reloaded[KeyFrom(f)]
<1>1. f \in Items /\ KeyFrom(f) = KeyOf[f] /\ Sets(Entry(f)) = {KeyOf[f]} /\ store[f] \in Nat
  BY SetsOne DEF Plain, KeyFrom, Entry, TypeOK
<1>2. Gone(f) = (store[f] = Absent)
  BY <1>1 DEF Gone
<1>3. Reloaded[KeyFrom(f)] = IF Gone(f) THEN None ELSE MapSetting(Entry(f))
  BY <1>1, ReloadedAlone
<1>4. PICK p \in DOMAIN Order : Order[p] = f
  BY <1>1, Positions
<1>5. RecordsInv(etags) /\ DOMAIN etags = Sel /\ WatchedInv(watched)
  BY DEF HeldInv, RecordsInv
<1>6. ASSUME NEW n \in Sel, selectors[n].kind # "snapshot", SeesNothing(n), store[f] = Absent,
             NEW k \in DOMAIN etags[n], NEW q \in DOMAIN Order, Order[q] = f
      PROVE  etags[n][k][q] = Absent
  <2>1. Listing(n, 0)[q] = Absent
    BY <1>6 DEF Listing, VersionFor
  <2>2. etags[n][k][q] \in Nat
    <3>1. etags \in Seq(Seq(Listings))
      BY DEF TypeOK
    <3>2. etags[n] \in Seq(Listings)
      BY <1>5, <3>1
    <3>3. etags[n][k] \in Listings
      <4> DEFINE s == etags[n]
      <4> HIDE DEF s
      <4>1. s \in Seq(Listings) /\ k \in DOMAIN s
        BY <3>2 DEF s
      <4>2. s[k] \in Listings
        BY <4>1
      <4> QED
        BY <4>2 DEF s
    <3> QED
      BY <3>3 DEF Listings
  <2> QED
    BY <1>5, <1>6, <2>1, <2>2, SeenListed DEF Absent
<1>7. \A n \in OfKind({"flags"}) : n \in Sel /\ selectors[n].kind = "flags" /\ SeesNothing(n)
  BY DEF OfKind, NothingToSee
<1>8. CASE store[f] # Absent
  <2>1. PICK n \in OfKind({"flags"}) : f \in selectors[n].items
    BY DEF Flag, Selects
  <2>2. Listing(n, 0)[p] = store[f]
    BY <1>4, <1>7, <2>1, Positions DEF Listing, VersionFor
  <2>3. \E k \in DOMAIN etags[n] : etags[n][k][p] = store[f]
    BY <1>1, <1>5, <1>7, <1>8, <2>1, <2>2, SeenListed
  <2>4. Fresh(f, etags)
    BY <1>4, <1>8, <2>1, <2>3 DEF Fresh
  <2>5. mapped[KeyOf[f]] = Entry(f)
    BY <2>4 DEF HeldInv, FreshFlag
  <2> QED
    BY <1>1, <1>2, <1>3, <1>8, <2>5 DEF MapSetting
<1>9. CASE store[f] = Absent
  <2>1. watched[f] = Absent
    <3>1. CASE Watched(f)
      <4>1. PICK w \in Range(watchers) : w.item = f
        BY <3>1 DEF Watched, Range
      <4> QED
        BY <1>9, <4>1 DEF NothingToSee
    <3>2. CASE ~Watched(f)
      BY <1>1, <1>5, <3>2 DEF WatchedInv
    <3> QED
      BY <3>1, <3>2
  <2>2. ASSUME NEW n \in OfKind({"keys", "flags"}), NEW k \in DOMAIN etags[n],
               NEW q \in DOMAIN Order, Order[q] = f
        PROVE  etags[n][k][q] = Absent
    <3>1. n \in Sel /\ selectors[n].kind \in {"keys", "flags"}
      BY DEF OfKind
    <3>2. CASE registerAll \/ selectors[n].kind = "flags"
      <4>1. SeesNothing(n)
        BY <3>1, <3>2, <1>7 DEF NothingToSee, OfKind
      <4> QED
        BY <1>6, <1>9, <2>2, <3>1, <4>1
    <3>3. CASE ~registerAll /\ selectors[n].kind = "keys"
      <4>1. ~ReadTwice(f)
        BY <1>2, <1>9, <3>3
      <4>2. ~Selects({"keys"}, f)
        BY <4>1 DEF ReadTwice, Flag
      <4>3. n \in OfKind({"keys"})
        BY <3>1, <3>3 DEF OfKind
      <4>4. f \notin selectors[n].items
        BY <4>2, <4>3 DEF Selects
      <4>5. q \notin Listed(etags[n][k])
        BY <1>5, <2>2, <3>1, <4>4 DEF RecordsInv
      <4> QED
        BY <4>5 DEF Listed
    <3> QED
      BY <3>1, <3>2, <3>3
  <2>3. GoneFlag(f, etags, {"keys", "flags"}, watched)
    BY <2>1, <2>2 DEF GoneFlag, Unlisted
  <2>4. mapped[KeyOf[f]] = None
    BY <2>3 DEF HeldInv
  <2>5. Reloaded[KeyFrom(f)] = None
    BY <1>2, <1>3, <1>9
  <2>6. KeyFrom(f) = KeyOf[f]
    BY <1>1
  <2> QED
    BY <2>4, <2>5, <2>6
<1> QED
  BY <1>8, <1>9

\* So is a watched item that is no flag.
LEMMA WatchedHeld ==
  ASSUME TypeOK, OptionsInv, HeldInv, NothingToSee, NEW j \in Items, OnlyWatched(j),
         ~ReadTwice(j) \/ ~Gone(j)
  PROVE  mapped[KeyFrom(j)] = Reloaded[KeyFrom(j)]
<1>1. PICK w \in Range(watchers) : w.item = j
  BY DEF OnlyWatched, Watched, Range
<1>2. watched[j] = store[j]
  BY <1>1 DEF NothingToSee
<1>3. Reloaded[KeyFrom(j)] = IF Gone(j) THEN None ELSE MapSetting(Entry(j))
  BY ReloadedAlone DEF OnlyWatched
<1>4. CASE Gone(j)
  <2>1. GoneWatched(j, watched)
    BY <1>2, <1>4 DEF GoneWatched, Gone, Entry
  <2> QED
    BY <1>3, <1>4, <2>1 DEF HeldInv
<1>5. CASE ~Gone(j)
  <2>1. FreshWatched(j, watched)
    BY <1>2, <1>5 DEF FreshWatched
  <2> QED
    BY <1>3, <1>5, <2>1 DEF HeldInv
<1> QED
  BY <1>4, <1>5

\* An item whose key has no other source is alone, if it is one.
LEMMA OneSource ==
  ASSUME NEW j \in Items, ~Ambiguous(KeyFrom(j)), ~TakenForSetting(KeyFrom(j)),
         \/ \E w \in Range(watchers) : w.item = j
         \/ \E n \in OfKind({"keys", "flags"}) : j \in selectors[n].items
  PROVE  Alone(j)
<1>1. <<"store", j>> \in Sources(KeyFrom(j))
  BY DEF Sources
<1> QED
  BY <1>1 DEF Alone, Ambiguous

\* Whatever can be tracked is held as a load would leave it, but for the exceptions.
LEMMA HeldAsReloaded ==
  ASSUME IInv PROVE AsIfReloaded
<1> SUFFICES ASSUME pc = "idle", loaded, NothingToSee, NEW k \in Tracked,
                    ~UnlikeFlag(k), ~(Ambiguous(k) /\ (~registerAll \/ k \in FlagKeys)),
                    ~(~registerAll /\ (LeftOver(k) \/ TakenForSetting(k)))
             PROVE  mapped[k] = Reloaded[k]
  BY DEF AsIfReloaded
<1>1. TypeOK /\ OptionsInv /\ HeldInv
  BY DEF IInv
<1>2. \A n \in Sel : selectors[n].items \subseteq Items
  BY <1>1, SelType
<1>3. \A w \in Range(watchers) : w.item \in Items
  <2>1. watchers \in Seq(Watchers)
    BY <1>1, LocType
  <2>2. \A m \in DOMAIN watchers : watchers[m] \in Watchers
    BY <2>1
  <2> QED
    BY <2>2 DEF Range, Watchers
<1>4. ~TakenForSetting(k)
  <2>1. CASE registerAll
    <3>1. Range(watchers) = {}
      BY <1>1, <2>1 DEF OptionsInv, Range
    <3> QED
      BY <3>1 DEF TakenForSetting
  <2> QED
    BY <2>1
<1>5. CASE k \in FlagKeys
  <2>1. PICK n \in OfKind({"flags"}) : \E i \in selectors[n].items : KeyFrom(i) = k
    BY <1>5 DEF FlagKeys
  <2>2. PICK f \in selectors[n].items : KeyFrom(f) = k
    BY <2>1
  <2>3. n \in Sel /\ f \in Items /\ n \in OfKind({"keys", "flags"})
    BY <1>2, <2>2 DEF OfKind
  <2>4. f \in Plain /\ Entry(f) \notin Dropped
    BY <2>2, <2>3 DEF UnlikeFlag, Plain
  <2>5. Alone(f)
    BY <1>4, <1>5, <2>2, <2>3, OneSource
  <2>6. Flag(f)
    BY <2>2 DEF Flag, Selects
  <2>7. registerAll \/ ~ReadTwice(f) \/ ~Gone(f)
    BY <2>2, <2>3 DEF LeftOver
  <2> QED
    BY <1>1, <2>2, <2>4, <2>5, <2>6, <2>7, FlagHeld
<1>6. CASE k \notin FlagKeys /\ registerAll
  <2>1. k \in Keys
    BY <1>2, <1>3, KeyFacts DEF Tracked, FlagKeys, OfKind
  <2> QED
    BY <1>1, <1>6, <2>1, AllHeld
<1>7. CASE k \notin FlagKeys /\ ~registerAll
  <2>1. PICK w \in Range(watchers) : KeyFrom(w.item) = k
    BY <1>7 DEF Tracked
  <2>2. PICK j \in Items : j = w.item
    BY <1>3
  <2>3. Alone(j)
    BY <1>4, <1>7, <2>1, <2>2, OneSource
  <2>4. ~Flag(j)
    BY <1>7, <2>1, <2>2 DEF Flag, Selects, FlagKeys
  <2>5. Watched(j)
    BY <2>2 DEF Watched, Range
  <2>6. ~ReadTwice(j) \/ ~Gone(j)
    BY <1>7, <2>1, <2>2 DEF LeftOver
  <2> QED
    BY <1>1, <2>1, <2>2, <2>3, <2>4, <2>5, <2>6, WatchedHeld DEF OnlyWatched
<1> QED
  BY <1>5, <1>6, <1>7

\* When no check would see a change, every key registered for refresh is held as
\* InitializeAsync would load it now: HaveCollectionsChanged and
\* RefreshIndividualKvWatchers overlook nothing, and the parts that RefreshAsync reloads
\* fit those it keeps, but for the exceptions that AsIfReloaded names.
THEOREM RefreshAsReload == Spec => []AsIfReloaded
<1>1. IInv => AsIfReloaded
  BY HeldAsReloaded
<1> QED
  BY <1>1, Inductive, PTL
=============================================================================
