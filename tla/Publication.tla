---------------------------- MODULE Publication ----------------------------
(***************************************************************************)
(* From the loaded settings to configuration data: PrepareData passes each *)
(* setting to the adapters that can process it, trims the keys of what     *)
(* they return and puts it into one dictionary, SetData publishes that.    *)
(* The adapter of feature flags numbers the flags of the Microsoft schema  *)
(* with a field that lives from one publication to the next.               *)
(*                                                                         *)
(* A key is a sequence of Pieces: wherever a prefix, a JSON property or    *)
(* the name of a flag begins or ends, so does a piece.  Configuration keys *)
(* are compared without case, which Lower folds.                           *)
(***************************************************************************)
EXTENDS Naturals, Sequences

CONSTANTS
    Pieces, Lower,
    Order,              \* the keys of the settings, in the order of the dictionary
    Forms,              \* what a setting may look like, see FormType
    KeyPrefixes,        \* the prefixes to trim, the longest first
    FeatureFlagMarker,  \* .appconfig.featureflag/
    FeatureManagement,  \* the section of the flags of the .NET schema
    Absent,             \* the store does not have the setting
    MaxThrows           \* bound: publications that fail

Key  == Seq(Pieces)
Keys == {Order[n] : n \in DOMAIN Order}

\* type: the content type.  leaves: the paths to the scalars of a JSON value, none in
\* {} and [], the empty path alone if it is a scalar or no JSON after all.  schema: of
\* the flag in the value, "noid" without an id, "malformed" if ParseFeatureFlag throws.
\* flag: what a flag of the .NET schema becomes, its id and the paths of its filters.
FormType == [type : {"none", "json", "flag", "keyvaultref"}, leaves : SUBSET Key,
             schema : {"dotnet", "microsoft", "noid", "malformed"}, flag : SUBSET Key]

ASSUME PublicationAssumption ==
    /\ Lower \in [Pieces -> Pieces]
    /\ Order \in Seq(Key) /\ KeyPrefixes \in Seq(Key)
    /\ FeatureFlagMarker \in Key /\ FeatureManagement \in Pieces
    /\ \A s \in Forms : s \in FormType
    /\ Absent \notin Forms /\ MaxThrows \in Nat

VARIABLES
    data,               \* the loaded settings
    featureFlagIndex,   \* _featureFlagIndex
    pc, pos,            \* "idle" or "process", and the next setting
    applicationData,    \* PrepareData's result so far, <<entry, setting>> pairs
    published,          \* Data
    throws

vars == <<data, featureFlagIndex, pc, pos, applicationData, published, throws>>

---------------------------------------------------------------------------
(* What becomes of one setting *)

StartsWith(key, prefix) == Len(prefix) <= Len(key) /\ SubSeq(key, 1, Len(prefix)) = prefix

\* CanProcess of the three adapters.
IsKeyVaultReference(s) == s.type = "keyvaultref"
IsFeatureFlag(k, s)    == s.type = "flag" \/ (s.type # "none" /\ StartsWith(k, FeatureFlagMarker))
IsJson(s)              == s.type = "json"
IsPlain(k, s) == ~(IsKeyVaultReference(s) \/ IsFeatureFlag(k, s) \/ IsJson(s))

\* A flag that takes the next index, whatever its key and its id are.
IsNumbered(k, s) == IsFeatureFlag(k, s) /\ s.schema = "microsoft"

\* The keys that the adapters return for all else: JSON is flattened, a flag is named by
\* its id, and a setting may be both a flag and what its content type says.
Paths(k, s) ==
    (IF IsJson(s) THEN {k \o leaf : leaf \in s.leaves} ELSE {})
      \cup (IF IsKeyVaultReference(s) \/ IsPlain(k, s) THEN {k} ELSE {})
      \cup (IF IsFeatureFlag(k, s) /\ s.schema = "dotnet"
            THEN {<<FeatureManagement>> \o path : path \in s.flag} ELSE {})

Fold(key) == [n \in DOMAIN key |-> Lower[key[n]]]

\* The first prefix that fits is trimmed.
Trim(key) ==
    LET fits == {n \in DOMAIN KeyPrefixes : StartsWith(key, Fold(KeyPrefixes[n]))}
    IN  IF fits = {} THEN key
        ELSE LET first == CHOOSE n \in fits : \A m \in fits : n <= m
             IN  SubSeq(key, Len(KeyPrefixes[first]) + 1, Len(key))

ConfigurationKeys(k, s) == {Trim(Fold(path)) : path \in Paths(k, s)}

\* The entries of a setting. The section of the numbered flags is a place of its own:
\* no key-value is called feature_management:feature_flags:...
Entries(k, s) ==
    {<<"key", key>> : key \in ConfigurationKeys(k, s)}
      \cup (IF IsNumbered(k, s) THEN {<<"flag", featureFlagIndex>>} ELSE {})

\* A variant of NextIndex: a flag without an id gives an index back before it has one.
IndexReturned(k, s) ==
    IF ~IsFeatureFlag(k, s) THEN featureFlagIndex
    ELSE IF s.schema = "noid" THEN featureFlagIndex - 1 ELSE featureFlagIndex + 1
NextIndex(k, s) == IF IsNumbered(k, s) THEN featureFlagIndex + 1 ELSE featureFlagIndex

\* applicationData[key] = value, or, in the variant, only if there is no such key.
PutIfNew(keys, k) ==
    applicationData \cup {<<key, k>> : key \in keys \ {e[1] : e \in applicationData}}
Put(keys, k) ==
    {e \in applicationData : e[1] \notin keys} \cup {<<key, k>> : key \in keys}

---------------------------------------------------------------------------
(* A publication *)

\* The settings have been loaded, in part or as a whole, and something changed.
PrepareData ==
    /\ pc = "idle"
    /\ data' \in [Keys -> Forms \cup {Absent}]
    /\ throws = MaxThrows => \A k \in Keys : data'[k] # Absent => data'[k].schema # "malformed"
    /\ pc' = "process" /\ pos' = 1 /\ applicationData' = {}
    /\ UNCHANGED <<featureFlagIndex, published, throws>>

Current == data[Order[pos]]

\* One setting goes through ProcessAdapters, and what it becomes into the dictionary.
ProcessAdapters ==
    /\ pc = "process" /\ pos <= Len(Order)
    /\ pos' = pos + 1
    /\ IF Current = Absent
       THEN UNCHANGED <<featureFlagIndex, applicationData>>
       ELSE /\ IsFeatureFlag(Order[pos], Current) => Current.schema # "malformed"
            /\ applicationData' = Put(Entries(Order[pos], Current), Order[pos])
            /\ featureFlagIndex' = NextIndex(Order[pos], Current)
    /\ UNCHANGED <<data, pc, published, throws>>

\* A malformed flag, or a secret that cannot be resolved: PrepareData throws.
Throw ==
    /\ pc = "process" /\ pos <= Len(Order) /\ Current # Absent
    /\ \/ IsFeatureFlag(Order[pos], Current) /\ Current.schema = "malformed"
       \/ IsKeyVaultReference(Current)
    /\ throws < MaxThrows /\ throws' = throws + 1
    /\ pc' = "idle"
    /\ UNCHANGED <<data, featureFlagIndex, pos, applicationData, published>>

\* SetData, and OnConfigUpdated of the adapters, without which the variant counts on.
SetDataOnly ==
    /\ pc = "process" /\ pos > Len(Order)
    /\ published' = applicationData
    /\ pc' = "idle"
    /\ UNCHANGED <<data, featureFlagIndex, pos, applicationData, throws>>

SetData ==
    /\ pc = "process" /\ pos > Len(Order)
    /\ published' = applicationData /\ featureFlagIndex' = 0
    /\ pc' = "idle"
    /\ UNCHANGED <<data, pos, applicationData, throws>>

Init ==
    /\ data = [k \in Keys |-> Absent] /\ featureFlagIndex = 0
    /\ pc = "idle" /\ pos = 1 /\ applicationData = {} /\ published = {} /\ throws = 0

Next == PrepareData \/ ProcessAdapters \/ Throw \/ SetData
Spec == Init /\ [][Next]_vars
---------------------------------------------------------------------------
\* Types of all variables.
TypeOK ==
    /\ data \in [Keys -> Forms \cup {Absent}] /\ featureFlagIndex \in Nat
    /\ pc \in {"idle", "process"} /\ pos \in 1..Len(Order) + 1
    /\ \A e \in applicationData \cup published :
           e \in (({"key"} \X Key) \cup ({"flag"} \X Nat)) \X Keys
    /\ throws \in 0..MaxThrows

\* The configuration keys that the n-th setting becomes.
Says(n) == IF data[Order[n]] = Absent THEN {} ELSE ConfigurationKeys(Order[n], data[Order[n]])

\* When flattening, trimming and the ids of flags make entries of several settings meet
\* in one configuration key, the last setting in order has it; every other key that a
\* setting becomes is published for that setting, and nothing else is. Of the flags that
\* are numbered none is missing: no two take the same index, even with the number that
\* a failed publication left behind.
LastSettingWins ==
    [][pc = "process" /\ pc' = "idle" /\ throws' = throws =>
         /\ {e \in published' : e[1][1] = "key"} =
              UNION {{<<<<"key", key>>, Order[n]>> :
                        key \in Says(n) \ UNION {Says(m) : m \in n + 1..Len(Order)}} :
                     n \in DOMAIN Order}
         /\ {e[2] : e \in {f \in published' : f[1][1] = "flag"}} =
              {k \in Keys : data[k] # Absent /\ IsNumbered(k, data[k])}]_vars

\* The published flags of the Microsoft schema are a list without a gap, and it is
\* feature_flags:0, :1, ... unless a publication failed, which leaves behind the
\* index that it had reached.
IndicesFromZero ==
    LET indices == {e[1][2] : e \in {f \in published : f[1][1] = "flag"}}
    IN  \A n \in indices : \A k \in 0..n :
           k \in indices \/ (throws > 0 /\ \A m \in 0..k : m \notin indices)
=============================================================================
