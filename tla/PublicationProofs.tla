------------------------- MODULE PublicationProofs -------------------------
(***************************************************************************)
(* What becomes of the loaded settings, for any number of settings of any  *)
(* form in any order, any prefixes, and any number of publications that    *)
(* fail.                                                                   *)
(***************************************************************************)
EXTENDS Publication, SequenceTheorems, WellFoundedInduction, TLAPS

\* The numbered flags among the entries, their indices and their settings.
Flags(entries)   == {e \in entries : e[1][1] = "flag"}
Indices(entries) == {e[1][2] : e \in Flags(entries)}
Flagged(entries) == {e[2] : e \in Flags(entries)}

\* The indices of entries have no gap, end below next, and begin with 0 unless a
\* publication failed.
Numbered(entries, next) ==
    \E first \in Nat :
        /\ first <= next
        /\ Indices(entries) = {n \in Nat : first <= n /\ n < next}
        /\ throws = 0 => first = 0

\* Of the first settings, up to the last-th, the n-th is the last to become key.
Wins(n, key, last) == key \in Says(n) /\ \A m \in n + 1..last : key \notin Says(m)

\* The entries are those of the first settings, up to the last-th.
KeysOf(entries, last) ==
    /\ \A e \in entries : e[1][1] = "key" =>
          \E n \in 1..last : e = <<<<"key", e[1][2]>>, Order[n]>> /\ Wins(n, e[1][2], last)
    /\ \A n \in 1..last : \A key :
          Wins(n, key, last) => <<<<"key", key>>, Order[n]>> \in entries

\* The n-th setting is a flag that takes an index.
TakesIndex(n) == data[Order[n]] # Absent /\ IsNumbered(Order[n], data[Order[n]])

\* What PrepareData has collected.
Collected ==
    /\ KeysOf(applicationData, pos - 1)
    /\ Flagged(applicationData) = {Order[n] : n \in {m \in 1..pos - 1 : TakesIndex(m)}}
    /\ Numbered(applicationData, featureFlagIndex)

IInv ==
    /\ TypeOK
    /\ pc = "process" => Collected
    /\ pc = "idle" /\ throws = 0 => featureFlagIndex = 0
    /\ \E next \in Nat : Numbered(published, next)

---------------------------------------------------------------------------
(* One setting *)

LEMMA OrderType ==
    /\ Len(Order) \in Nat /\ DOMAIN Order = 1..Len(Order)
    /\ \A n \in DOMAIN Order : Order[n] \in Keys /\ Order[n] \in Key
    BY PublicationAssumption DEF Keys

\* A set of positions has a first.
LEMMA FirstOf ==
    ASSUME NEW S \in SUBSET Nat, S # {} PROVE \E n \in S : \A m \in S : n <= m
    <1> DEFINE R == OpToRel(<, Nat)
    <1>1. IsWellFoundedOn(R, Nat)
        BY NatLessThanWellFounded
    <1> HIDE DEF R
    <1>2. PICK n \in S : \A m \in S : ~(<<m, n>> \in R)
        BY <1>1, WFMin, Zenon
    <1>3. \A m \in S : ~(m < n)
        BY <1>2, Zenon DEF R, OpToRel
    <1> QED BY <1>2, <1>3

\* Folding and trimming turn a key into a key.
LEMMA TrimType ==
    ASSUME NEW key \in Key PROVE Trim(Fold(key)) \in Key
    <1> DEFINE low  == Fold(key)
               fits == {n \in DOMAIN KeyPrefixes : StartsWith(low, Fold(KeyPrefixes[n]))}
    <1>1. low \in [1..Len(key) -> Pieces] /\ Len(key) \in Nat
        BY PublicationAssumption DEF Fold, Key
    <1>2. low \in Key
        BY <1>1, SeqDef DEF Key
    <1> HIDE DEF low
    <1>3. CASE fits = {}
        BY <1>2, <1>3 DEF Trim, low
    <1>4. CASE fits # {}
        <2> DEFINE first == CHOOSE n \in fits : \A m \in fits : n <= m
        <2>1. fits \in SUBSET Nat /\ fits \subseteq DOMAIN KeyPrefixes
            BY PublicationAssumption
        <2> HIDE DEF fits
        <2>2. first \in fits
            BY <1>4, <2>1, FirstOf
        <2> HIDE DEF first
        <2>3. KeyPrefixes[first] \in Key
            BY <2>1, <2>2, PublicationAssumption
        <2>4. Len(KeyPrefixes[first]) + 1 \in Int /\ Len(KeyPrefixes[first]) + 1 >= 1
              /\ Len(low) \in Int
            BY <1>2, <2>3 DEF Key
        <2>5. \A i \in Len(KeyPrefixes[first]) + 1..Len(low) : low[i] \in Pieces
            BY <1>2, <2>4 DEF Key
        <2>6. SubSeq(low, Len(KeyPrefixes[first]) + 1, Len(low)) \in Key
            BY <2>4, <2>5, SubSeqProperties DEF Key
        <2>7. Trim(low) = SubSeq(low, Len(KeyPrefixes[first]) + 1, Len(low))
            BY <1>4 DEF Trim, fits, first
        <2> QED BY <2>6, <2>7 DEF low
    <1> QED BY <1>3, <1>4

LEMMA ConfigurationKeysType ==
    ASSUME NEW k \in Key, NEW s \in Forms PROVE ConfigurationKeys(k, s) \subseteq Key
    <1>1. s.leaves \in SUBSET Key /\ s.flag \in SUBSET Key
        BY PublicationAssumption DEF FormType
    <1>2. \A leaf \in s.leaves : k \o leaf \in Key
        BY <1>1, ConcatProperties DEF Key
    <1>3. \A path \in s.flag : <<FeatureManagement>> \o path \in Key
        <2>1. <<FeatureManagement>> \in Key
            BY PublicationAssumption DEF Key
        <2> QED BY <1>1, <2>1, ConcatProperties DEF Key
    <1>4. Paths(k, s) \subseteq Key
        BY <1>2, <1>3 DEF Paths
    <1> QED BY <1>4, TrimType DEF ConfigurationKeys

\* An entry of a setting is named by a configuration key or is the next index.
LEMMA EntryOf ==
    ASSUME NEW k, NEW s
    PROVE  /\ \A x \in Entries(k, s) :
                 \/ x = <<"key", x[2]>> /\ x[1] = "key" /\ x[2] \in ConfigurationKeys(k, s)
                 \/ x = <<"flag", featureFlagIndex>> /\ x[1] = "flag" /\ IsNumbered(k, s)
           /\ \A key : <<"key", key>> \in Entries(k, s) <=> key \in ConfigurationKeys(k, s)
           /\ <<"flag", featureFlagIndex>> \in Entries(k, s) <=> IsNumbered(k, s)
    BY DEF Entries

\* The next setting takes the keys it becomes from those before it.
LEMMA OneMoreSetting ==
    ASSUME NEW A, NEW B, NEW E, NEW p \in Nat \ {0}, KeysOf(A, p - 1),
           B = {e \in A : e[1] \notin E} \cup {<<x, Order[p]>> : x \in E},
           \A x \in E : x[1] = "key" => x = <<"key", x[2]>>,
           \A key : <<"key", key>> \in E <=> key \in Says(p)
    PROVE  KeysOf(B, p)
    <1>1. ASSUME NEW n \in 1..p - 1, NEW key
          PROVE  Wins(n, key, p) <=> Wins(n, key, p - 1) /\ key \notin Says(p)
        <2>1. n + 1..p = (n + 1..p - 1) \cup {p}
            OBVIOUS
        <2> QED BY <2>1 DEF Wins
    <1>2. \A key : Wins(p, key, p) <=> key \in Says(p)
        <2>1. p + 1..p = {}
            OBVIOUS
        <2> QED BY <2>1 DEF Wins
    <1>3. 1..p = (1..p - 1) \cup {p}
        OBVIOUS
    <1>4. ASSUME NEW e \in B, e[1][1] = "key"
          PROVE  \E n \in 1..p : e = <<<<"key", e[1][2]>>, Order[n]>> /\ Wins(n, e[1][2], p)
        <2>1. CASE e \in A /\ e[1] \notin E
            <3>1. PICK n \in 1..p - 1 : e = <<<<"key", e[1][2]>>, Order[n]>> /\ Wins(n, e[1][2], p - 1)
                BY <1>4, <2>1 DEF KeysOf
            <3>2. e[1] = <<"key", e[1][2]>>
                BY <3>1
            <3>3. e[1][2] \notin Says(p)
                BY <2>1, <3>2
            <3>4. Wins(n, e[1][2], p)
                BY <1>1, <3>1, <3>3
            <3> QED BY <1>3, <3>1, <3>4
        <2>2. CASE \E x \in E : e = <<x, Order[p]>>
            <3>1. PICK x \in E : e = <<x, Order[p]>>
                BY <2>2
            <3>2. e[1] = x
                BY <3>1
            <3>3. x = <<"key", x[2]>>
                BY <1>4, <3>2
            <3>4. x[2] \in Says(p)
                BY <3>3
            <3>5. Wins(p, x[2], p)
                BY <1>2, <3>4
            <3> QED BY <1>3, <3>1, <3>2, <3>3, <3>5
        <2> QED BY <2>1, <2>2
    <1>5. ASSUME NEW n \in 1..p, NEW key, Wins(n, key, p)
          PROVE  <<<<"key", key>>, Order[n]>> \in B
        <2>1. CASE n = p
            <3>1. <<"key", key>> \in E
                BY <1>2, <1>5, <2>1
            <3> QED BY <2>1, <3>1
        <2>2. CASE n \in 1..p - 1
            <3>1. Wins(n, key, p - 1) /\ <<"key", key>> \notin E
                BY <1>1, <1>5, <2>2
            <3> DEFINE e == <<<<"key", key>>, Order[n]>>
            <3>2. e \in A
                BY <2>2, <3>1 DEF KeysOf
            <3>3. e[1] = <<"key", key>>
                OBVIOUS
            <3> HIDE DEF e
            <3>4. e \in B
                BY <3>1, <3>2, <3>3
            <3> QED BY <3>4 DEF e
        <2> QED BY <1>3, <2>1, <2>2
    <1> QED BY <1>4, <1>5 DEF KeysOf

\* The entries E of the setting k in the place of whatever had them.
Overwritten(A, E, k) == {e \in A : e[1] \notin E} \cup {<<x, k>> : x \in E}

\* A setting that takes no index leaves the flags alone.
LEMMA NoFlag ==
    ASSUME NEW A, NEW E, NEW k, NEW next \in Nat, Numbered(A, next),
           \A x \in E : x[1] # "flag"
    PROVE  /\ Flagged(Overwritten(A, E, k)) = Flagged(A)
           /\ Numbered(Overwritten(A, E, k), next)
    <1> DEFINE B == Overwritten(A, E, k)
    <1>0. B = {e \in A : e[1] \notin E} \cup {<<x, k>> : x \in E}
        BY DEF Overwritten
    <1> HIDE DEF B
    <1>1. Flags(B) = Flags(A)
        BY <1>0 DEF Flags
    <1>2. Flagged(B) = Flagged(A) /\ Numbered(B, next)
        BY <1>1 DEF Flagged, Numbered, Indices
    <1> QED BY <1>2 DEF B

\* A flag that takes the index adds it, and takes no other's place.
LEMMA OneMoreFlag ==
    ASSUME NEW A, NEW E, NEW k, NEW next \in Nat, Numbered(A, next),
           \A x \in E : x[1] = "flag" => x = <<"flag", next>>,
           <<"flag", next>> \in E
    PROVE  /\ Flagged(Overwritten(A, E, k)) = Flagged(A) \cup {k}
           /\ Numbered(Overwritten(A, E, k), next + 1)
    <1> DEFINE new == <<<<"flag", next>>, k>>
               B   == Overwritten(A, E, k)
    <1>0. B = {e \in A : e[1] \notin E} \cup {<<x, k>> : x \in E}
        BY DEF Overwritten
    <1> HIDE DEF B
    <1>1. PICK first \in Nat : /\ first <= next
                               /\ Indices(A) = {n \in Nat : first <= n /\ n < next}
                               /\ throws = 0 => first = 0
        BY DEF Numbered
    <1>2. \A e \in Flags(A) : e[1][2] \in Indices(A) /\ e \in A /\ e[1][1] = "flag"
        BY DEF Flags, Indices
    <1>3. \A e \in Flags(A) : e[1] \notin E
        <2> SUFFICES ASSUME NEW e \in Flags(A), e[1] \in E PROVE FALSE
            OBVIOUS
        <2>1. e[1] = <<"flag", next>>
            BY <1>2
        <2>2. e[1][2] = next
            BY <2>1
        <2> QED BY <1>1, <1>2, <2>2
    <1>4. Flags(B) = Flags(A) \cup {new}
        <2>1. ASSUME NEW e \in Flags(B) PROVE e \in Flags(A) \/ e = new
            <3>1. e \in B /\ e[1][1] = "flag"
                BY <2>1 DEF Flags
            <3>2. CASE e \in A
                BY <3>1, <3>2 DEF Flags
            <3>3. CASE \E x \in E : e = <<x, k>>
                <4>1. PICK x \in E : e = <<x, k>>
                    BY <3>3
                <4>2. x[1] = "flag"
                    BY <3>1, <4>1
                <4> QED BY <4>1, <4>2
            <3> QED BY <1>0, <3>1, <3>2, <3>3
        <2>2. ASSUME NEW e \in Flags(A) PROVE e \in Flags(B)
            BY <1>0, <1>2, <1>3 DEF Flags
        <2>3. new \in B /\ new[1][1] = "flag"
            BY <1>0
        <2> HIDE DEF new
        <2>4. new \in Flags(B)
            BY <2>3 DEF Flags
        <2> QED BY <2>1, <2>2, <2>4
    <1>5. new[2] = k /\ new[1][2] = next
        OBVIOUS
    <1> HIDE DEF new
    <1>6. Flagged(B) = Flagged(A) \cup {k}
        BY <1>4, <1>5 DEF Flagged
    <1>7. Indices(B) = Indices(A) \cup {next}
        BY <1>4, <1>5 DEF Indices
    <1>8. Indices(B) = {n \in Nat : first <= n /\ n < next + 1} /\ first <= next + 1
        BY <1>1, <1>7
    <1>9. Numbered(B, next + 1)
        BY <1>1, <1>8 DEF Numbered
    <1> QED BY <1>6, <1>9 DEF B

---------------------------------------------------------------------------
(* Steps *)

LEMMA TypeStep == TypeOK /\ [Next]_vars => TypeOK'
    <1> SUFFICES ASSUME TypeOK, [Next]_vars PROVE TypeOK'
        OBVIOUS
    <1>0. MaxThrows \in Nat /\ Len(Order) \in Nat
        BY OrderType, PublicationAssumption
    <1>1. CASE PrepareData
        BY <1>0, <1>1 DEF PrepareData, TypeOK
    <1>2. CASE ProcessAdapters
        <2>1. pos \in DOMAIN Order /\ Order[pos] \in Keys /\ pos' \in 1..Len(Order) + 1
            BY <1>0, <1>2, OrderType DEF ProcessAdapters, TypeOK
        <2>2. featureFlagIndex' \in Nat
            BY <1>2 DEF ProcessAdapters, NextIndex, TypeOK
        <2> DEFINE Named == ({"key"} \X Key) \cup ({"flag"} \X Nat)
        <2>3. ASSUME NEW e \in applicationData' PROVE e \in Named \X Keys
            <3>1. CASE e \in applicationData
                BY <3>1 DEF TypeOK
            <3>2. CASE Current # Absent /\ \E x \in Entries(Order[pos], Current) : e = <<x, Order[pos]>>
                <4>1. Current \in Forms /\ Order[pos] \in Key /\ featureFlagIndex \in Nat
                    BY <2>1, <3>2, OrderType DEF Current, TypeOK
                <4>2. PICK x \in Entries(Order[pos], Current) : e = <<x, Order[pos]>>
                    BY <3>2
                <4>3. ConfigurationKeys(Order[pos], Current) \subseteq Key
                    BY <4>1, ConfigurationKeysType
                <4>4. x \in Named
                    BY <4>1, <4>3, EntryOf
                <4> QED BY <2>1, <4>2, <4>4
            <3> QED BY <1>2, <2>3, <3>1, <3>2 DEF ProcessAdapters, Put
        <2> QED BY <1>2, <2>1, <2>2, <2>3 DEF ProcessAdapters, TypeOK
    <1>3. CASE Throw
        BY <1>0, <1>3 DEF Throw, TypeOK
    <1>4. CASE SetData
        BY <1>4 DEF SetData, TypeOK
    <1>5. CASE UNCHANGED vars
        BY <1>5 DEF vars, TypeOK
    <1> QED BY <1>1, <1>2, <1>3, <1>4, <1>5 DEF Next

LEMMA CollectStep ==
    ASSUME TypeOK, Collected, ProcessAdapters PROVE Collected'
    <1> DEFINE A == applicationData
               k == Order[pos]
               E == IF Current = Absent THEN {} ELSE Entries(k, Current)
               B == {e \in A : e[1] \notin E} \cup {<<x, k>> : x \in E}
    <1>1. /\ pos \in Nat \ {0} /\ pos' = pos + 1 /\ pos' - 1 = pos
          /\ data' = data /\ throws' = throws /\ featureFlagIndex \in Nat
        BY OrderType DEF ProcessAdapters, TypeOK
    <1>2. applicationData' = B
        BY DEF ProcessAdapters, Put
    <1>3. featureFlagIndex' = IF TakesIndex(pos) THEN featureFlagIndex + 1 ELSE featureFlagIndex
        BY DEF ProcessAdapters, NextIndex, TakesIndex, Current
    <1>4. /\ \A x \in E : x[1] = "key" => x = <<"key", x[2]>>
          /\ \A key : <<"key", key>> \in E <=> key \in Says(pos)
          /\ \A x \in E : x[1] = "flag" => x = <<"flag", featureFlagIndex>> /\ TakesIndex(pos)
          /\ TakesIndex(pos) => <<"flag", featureFlagIndex>> \in E
        <2>1. CASE Current = Absent
            BY <2>1 DEF Says, Current, TakesIndex
        <2>2. CASE Current # Absent
            <3>1. /\ E = Entries(k, Current) /\ Says(pos) = ConfigurationKeys(k, Current)
                  /\ IsNumbered(k, Current) <=> TakesIndex(pos)
                BY <2>2 DEF Says, Current, TakesIndex
            <3> HIDE DEF E, k
            <3> QED BY <3>1, EntryOf
        <2> QED BY <2>1, <2>2
    <1> HIDE DEF E
    <1>5. KeysOf(A, pos - 1) /\ Numbered(A, featureFlagIndex)
        BY DEF Collected
    <1>6. KeysOf(B, pos)
        BY <1>1, <1>4, <1>5, OneMoreSetting
    <1>7. /\ Flagged(B) = Flagged(A) \cup (IF TakesIndex(pos) THEN {k} ELSE {})
          /\ Numbered(B, featureFlagIndex')
        <2>1. B = Overwritten(A, E, k)
            BY DEF Overwritten
        <2> HIDE DEF A, B, k
        <2>2. CASE TakesIndex(pos)
            <3>1. Flagged(B) = Flagged(A) \cup {k} /\ Numbered(B, featureFlagIndex + 1)
                BY <1>1, <1>4, <1>5, <2>1, <2>2, OneMoreFlag
            <3> QED BY <1>3, <2>2, <3>1
        <2>3. CASE ~TakesIndex(pos)
            <3>1. Flagged(B) = Flagged(A) /\ Numbered(B, featureFlagIndex)
                BY <1>1, <1>4, <1>5, <2>1, <2>3, NoFlag
            <3> QED BY <1>3, <2>3, <3>1
        <2> QED BY <2>2, <2>3
    <1>8. Flagged(B) = {Order[n] : n \in {m \in 1..pos : TakesIndex(m)}}
        <2>1. 1..pos = (1..pos - 1) \cup {pos}
            BY <1>1
        <2>2. Flagged(A) = {Order[n] : n \in {m \in 1..pos - 1 : TakesIndex(m)}}
            BY DEF Collected
        <2> HIDE DEF A, B
        <2> QED BY <1>7, <2>1, <2>2
    <1> HIDE DEF A, B, k
    <1>9. KeysOf(applicationData, pos - 1)'
        BY <1>1, <1>2, <1>6 DEF KeysOf, Wins, Says
    <1>10. Flagged(applicationData)' = {Order[n] : n \in {m \in 1..pos - 1 : TakesIndex(m)}}'
        BY <1>1, <1>2, <1>8 DEF TakesIndex, Flagged, Flags
    <1>11. Numbered(applicationData, featureFlagIndex)'
        BY <1>1, <1>2, <1>7 DEF Numbered, Indices, Flags
    <1> QED BY <1>9, <1>10, <1>11 DEF Collected

LEMMA InitInvariant == Init => IInv
    <1> SUFFICES ASSUME Init PROVE IInv
        OBVIOUS
    <1>1. TypeOK
        BY OrderType, PublicationAssumption DEF Init, TypeOK
    <1>2. Numbered(published, 0)
        BY DEF Init, Numbered, Indices, Flags
    <1> QED BY <1>1, <1>2 DEF Init, IInv

LEMMA IInvStep == IInv /\ [Next]_vars => IInv'
    <1> SUFFICES ASSUME IInv, [Next]_vars PROVE IInv'
        OBVIOUS
    <1>0. TypeOK /\ TypeOK' /\ featureFlagIndex \in Nat /\ throws \in Nat
        BY TypeStep, PublicationAssumption DEF IInv, TypeOK
    <1>1. ASSUME UNCHANGED <<published, throws>> PROVE \E next \in Nat : Numbered(published, next)'
        BY <1>1 DEF IInv, Numbered, Indices, Flags
    <1>2. CASE PrepareData
        <2>1. pos' = 1 /\ applicationData' = {}
            BY <1>2 DEF PrepareData
        <2>2. Numbered(applicationData, featureFlagIndex)'
            <3>1. applicationData' = {} /\ featureFlagIndex' = featureFlagIndex /\ throws' = throws
                  /\ (throws = 0 => featureFlagIndex = 0)
                BY <1>2 DEF PrepareData, IInv
            <3>2. Indices({}) = {} /\ {n \in Nat : featureFlagIndex <= n /\ n < featureFlagIndex} = {}
                BY <1>0 DEF Indices, Flags
            <3> QED BY <1>0, <3>1, <3>2 DEF Numbered, Indices, Flags
        <2>3. KeysOf(applicationData, pos - 1)'
            BY <2>1 DEF KeysOf
        <2>4. Flagged({}) = {} /\ 1..1 - 1 = {}
            BY DEF Flagged, Flags
        <2>5. Flagged(applicationData)' = {Order[n] : n \in {m \in 1..pos - 1 : TakesIndex(m)}}'
            BY <2>1, <2>4 DEF Flagged, Flags
        <2>6. Collected'
            BY <2>2, <2>3, <2>5 DEF Collected
        <2> QED BY <1>0, <1>1, <1>2, <2>6 DEF PrepareData, IInv
    <1>3. CASE ProcessAdapters
        BY <1>0, <1>1, <1>3, CollectStep DEF ProcessAdapters, IInv
    <1>4. CASE Throw
        <2>1. pc' = "idle" /\ throws' = throws + 1 /\ published' = published
            BY <1>4 DEF Throw
        <2>2. PICK next \in Nat : Numbered(published, next)
            BY DEF IInv
        <2>3. Numbered(published, next)'
            BY <1>0, <2>1, <2>2 DEF Numbered, Indices, Flags
        <2> QED BY <1>0, <2>1, <2>3 DEF IInv
    <1>5. CASE SetData
        <2>1. /\ pc' = "idle" /\ published' = applicationData /\ featureFlagIndex' = 0
              /\ throws' = throws /\ Numbered(applicationData, featureFlagIndex)
            BY <1>5 DEF SetData, IInv, Collected
        <2>2. \E next \in Nat : Numbered(published, next)'
            BY <1>0, <2>1 DEF Numbered, Indices, Flags
        <2> QED BY <1>0, <2>1, <2>2 DEF IInv
    <1>6. CASE UNCHANGED vars
        <2>1. Collected => Collected'
            BY <1>6 DEF vars, Collected, KeysOf, Wins, Says, TakesIndex, Flagged, Flags, Indices,
                       Numbered
        <2> QED BY <1>0, <1>1, <1>6, <2>1 DEF vars, IInv
    <1> QED BY <1>2, <1>3, <1>4, <1>5, <1>6 DEF Next

LEMMA Invariance == Spec => []IInv
    BY InitInvariant, IInvStep, PTL DEF Spec

\* Every entry that is collected or published is named by a configuration key or by the
\* index of a flag, and is that of a setting.
THEOREM TypeCorrect == Spec => []TypeOK
    <1>1. IInv => TypeOK
        BY DEF IInv
    <1> QED BY <1>1, Invariance, PTL

\* The published flags of the Microsoft schema are a list without a gap, from index 0
\* unless a publication failed, whatever stands between them and in whatever order.
THEOREM NoGaps == Spec => []IndicesFromZero
    <1>1. ASSUME IInv PROVE IndicesFromZero
        <2>1. PICK next \in Nat : Numbered(published, next)
            BY <1>1 DEF IInv
        <2>2. PICK first \in Nat : /\ Indices(published) = {n \in Nat : first <= n /\ n < next}
                                   /\ throws = 0 => first = 0
            BY <2>1 DEF Numbered
        <2>3. throws \in Nat
            BY <1>1, PublicationAssumption DEF IInv, TypeOK
        <2>4. ASSUME NEW n \in Indices(published), NEW k \in 0..n
              PROVE  k \in Indices(published) \/ (throws > 0 /\ \A m \in 0..k : m \notin Indices(published))
            <3>1. n \in Nat /\ first <= n /\ n < next
                BY <2>2
            <3> QED BY <2>2, <2>3, <3>1
        <2> QED BY <2>4 DEF IndicesFromZero, Indices, Flags
    <1> QED BY <1>1, Invariance, PTL

\* What a publication puts into Data: of every configuration key that some setting becomes,
\* be it by flattening, by trimming or by the id of a flag, the entry of the last such
\* setting in order, and nothing else, and an entry for each of the numbered flags.
THEOREM LastIsPublished == Spec => LastSettingWins
    <1>1. ASSUME IInv, [Next]_vars, pc = "process", pc' = "idle", throws' = throws
          PROVE  /\ {e \in published' : e[1][1] = "key"} =
                      UNION {{<<<<"key", key>>, Order[n]>> :
                                key \in Says(n) \ UNION {Says(m) : m \in n + 1..Len(Order)}} :
                             n \in DOMAIN Order}
                 /\ {e[2] : e \in {f \in published' : f[1][1] = "flag"}} =
                      {k \in Keys : data[k] # Absent /\ IsNumbered(k, data[k])}
        <2>0. throws \in Nat
            BY <1>1, PublicationAssumption DEF IInv, TypeOK
        <2>1. SetData
            BY <1>1, <2>0 DEF Next, vars, PrepareData, ProcessAdapters, Throw
        <2>2. Collected /\ published' = applicationData
            BY <1>1, <2>1 DEF SetData, IInv
        <2>3. pos - 1 = Len(Order) /\ 1..Len(Order) = DOMAIN Order
            BY <1>1, <2>1, OrderType DEF SetData, IInv, TypeOK
        <2>4. KeysOf(published', Len(Order))
            BY <2>2, <2>3 DEF Collected
        <2>5. \A n, key : Wins(n, key, Len(Order))
                            <=> key \in Says(n) \ UNION {Says(m) : m \in n + 1..Len(Order)}
            BY DEF Wins
        <2>6. ASSUME NEW e \in published', e[1][1] = "key"
              PROVE  \E n \in DOMAIN Order :
                        e \in {<<<<"key", key>>, Order[n]>> :
                                 key \in Says(n) \ UNION {Says(m) : m \in n + 1..Len(Order)}}
            <3>1. PICK n \in 1..Len(Order) :
                        e = <<<<"key", e[1][2]>>, Order[n]>> /\ Wins(n, e[1][2], Len(Order))
                BY <2>4, <2>6 DEF KeysOf
            <3>2. e[1][2] \in Says(n) \ UNION {Says(m) : m \in n + 1..Len(Order)}
                BY <2>5, <3>1
            <3> QED BY <2>3, <3>1, <3>2
        <2>7. ASSUME NEW n \in DOMAIN Order,
                     NEW key \in Says(n) \ UNION {Says(m) : m \in n + 1..Len(Order)},
                     NEW e, e = <<<<"key", key>>, Order[n]>>
              PROVE  e \in published' /\ e[1][1] = "key"
            <3>1. Wins(n, key, Len(Order))
                BY <2>5
            <3>2. e \in published'
                BY <2>3, <2>4, <2>7, <3>1 DEF KeysOf
            <3> QED BY <2>7, <3>2
        <2>8. {e[2] : e \in {f \in published' : f[1][1] = "flag"}}
                = {Order[n] : n \in {m \in DOMAIN Order : TakesIndex(m)}}
            BY <2>2, <2>3 DEF Collected, Flagged, Flags
        <2>9. {Order[n] : n \in {m \in DOMAIN Order : TakesIndex(m)}}
                = {k \in Keys : data[k] # Absent /\ IsNumbered(k, data[k])}
            BY DEF TakesIndex, Keys
        <2> DEFINE first == {e \in published' : e[1][1] = "key"}
                   Won(n) == {<<<<"key", key>>, Order[n]>> :
                                key \in Says(n) \ UNION {Says(m) : m \in n + 1..Len(Order)}}
        <2>10. \A e \in first : \E n \in DOMAIN Order : e \in Won(n)
            BY <2>6
        <2>11. \A n \in DOMAIN Order : \A e \in Won(n) : e \in first
            BY <2>7
        <2> HIDE DEF first, Won
        <2>12. first = UNION {Won(n) : n \in DOMAIN Order}
            BY <2>10, <2>11
        <2> QED BY <2>8, <2>9, <2>12 DEF first, Won
    <1>2. IInv /\ [Next]_vars =>
            [pc = "process" /\ pc' = "idle" /\ throws' = throws =>
               /\ {e \in published' : e[1][1] = "key"} =
                    UNION {{<<<<"key", key>>, Order[n]>> :
                              key \in Says(n) \ UNION {Says(m) : m \in n + 1..Len(Order)}} :
                           n \in DOMAIN Order}
               /\ {e[2] : e \in {f \in published' : f[1][1] = "flag"}} =
                    {k \in Keys : data[k] # Absent /\ IsNumbered(k, data[k])}]_vars
        BY <1>1
    <1> QED BY <1>2, Invariance, PTL DEF Spec, LastSettingWins
=============================================================================
