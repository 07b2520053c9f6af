---------------------------- MODULE MCSelection ----------------------------
(***************************************************************************)
(* An instance of Selection for TLC: a flag, a snapshot reference and a    *)
(* key-value with and without a label.                                     *)
(***************************************************************************)
EXTENDS Selection, TLC

CONSTANTS f, r, x, xp               \* items
CONSTANTS flag, ref, key, inside    \* keys

FourItems   == <<f, r, x, xp>>
TheirKeys   == (f :> flag) @@ (r :> ref) @@ (x :> key) @@ (xp :> key)
InSnapshots == r :> inside

\* No label, as in the default query, and a label.
NoLabel   == {f, r, x}
WithLabel == {xp}
SomeFilters == {NoLabel, WithLabel}

SecondVersion(i) == <<i, 2>>
DroppedEntries   == {SecondVersion(x), SecondVersion(f)}
MissingEntries   == {SecondVersion(r)}

Watch(i, a) == [item |-> i, all |-> a]
WatchedKeys       == {{}, {Watch(x, FALSE)}, {Watch(r, FALSE)}, {Watch(xp, FALSE), Watch(r, TRUE)}}
WatchedReferences == {{Watch(r, FALSE)}}
=============================================================================
