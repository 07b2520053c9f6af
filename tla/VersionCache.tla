---------------------------- MODULE VersionCache ----------------------------
(***************************************************************************)
(* What the configuration provider promises to the application, without    *)
(* saying how: a copy of the store that is held, and of which whole copies *)
(* are shown. Any number of items may be taken over at once, each in a     *)
(* version not older than any that was held before, or the item may be     *)
(* missing. Nothing is shown but what is held.                             *)
(***************************************************************************)
EXTENDS Naturals

CONSTANT Items

VARIABLES
    store, writes,  \* the version of each item, and the number of the latest
    held,           \* what the provider holds
    newest,         \* the latest version of each item that it ever held
    seen            \* what the application sees

vars == <<store, writes, held, newest, seen>>

Absent == 0

Init ==
    /\ writes \in Nat /\ store \in [Items -> 0..writes]
    /\ held = [i \in Items |-> Absent] /\ newest = held /\ seen = held

Change(i) ==
    /\ writes' = writes + 1
    /\ store' = [store EXCEPT ![i] = writes + 1] \/ store' = [store EXCEPT ![i] = Absent]
    /\ UNCHANGED <<held, newest, seen>>

\* The latest version the store can have had of an item that is there.
Latest(i) == IF store[i] = Absent THEN writes ELSE store[i]

TakeOver ==
    /\ held' \in [Items -> Nat]
    /\ \A i \in Items : held'[i] \in {held[i], Absent} \cup (newest[i]..Latest(i))
    /\ newest' = [i \in Items |-> IF held'[i] # Absent THEN held'[i] ELSE newest[i]]

Refresh ==
    /\ TakeOver /\ (seen' = seen \/ seen' = held')
    /\ UNCHANGED <<store, writes>>

Next == Refresh \/ \E i \in Items : Change(i)

Spec == Init /\ [][Next]_vars
---------------------------------------------------------------------------
\* What follows from it.

\* Types of all variables.
TypeOK ==
    /\ writes \in Nat /\ store \in [Items -> 0..writes]
    /\ held \in [Items -> 0..writes] /\ seen \in [Items -> 0..writes]
    /\ newest \in [Items -> 0..writes]

\* No item is held in a version that the store cannot have had yet; what is held is the
\* newest version that ever was, or missing, and what is shown is not newer than that.
Between ==
    \A i \in Items :
        /\ newest[i] <= Latest(i) /\ seen[i] <= newest[i]
        /\ held[i] \in {Absent, newest[i]}

\* A version that the application has not just seen is not older than any version of
\* the item that it has ever seen, nor than any that was ever held, even if the item was
\* missing meanwhile.
NoRollback == [][\A i \in Items : seen'[i] \notin {seen[i], Absent} => newest[i] <= seen'[i]]_vars
=============================================================================
