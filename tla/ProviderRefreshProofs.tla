----------------------- MODULE ProviderRefreshProofs -----------------------
(***************************************************************************)
(* Proofs about ProviderRefresh, for every choice of its constants: types, *)
(* gate and etags; that it implements VersionCache and what VersionCache   *)
(* promises; and, on the invariant of the refinement, what sentinels and   *)
(* pushes are good for.                                                    *)
(***************************************************************************)
EXTENDS ProviderRefresh, TLAPS

USE DEF Absent, Version, Content, Points

LEMMA SelectorsType ==
    /\ Selectors \in [Sel -> SUBSET Items]
    /\ Listed \in [Sel -> SUBSET Items]
    /\ FfSelectors \subseteq Sel
    /\ Sel \subseteq Nat
    BY SelectorsAssumption DEF Sel

LEMMA PageType ==
    ASSUME NEW v \in Content, NEW S
    PROVE  Page(v, S) \in Content
    BY DEF Page

LEMMA BlankType == Blank \in Locals
    BY BoundsAssumption DEF Blank, Locals, Nothing

LEMMA AttemptType ==
    ASSUME TypeOK, NEW k \in 0..Clients, NEW e \in SUBSET Timers
    PROVE  Attempt(k, e) \in Locals
    BY BoundsAssumption, SelectorsType
    DEF Attempt, Blank, Locals, Nothing, TypeOK, KvSelectors

LEMMA BeginLoadType ==
    ASSUME TypeOK, NEW c \in Callers, NEW S \in SUBSET Sel, NEW full \in BOOLEAN,
           NEW l \in Locals, BeginLoad(c, S, full, l)
    PROVE  pc' \in [Callers -> Points]
           /\ loc' \in [Callers -> Locals]
    <1>1. [l EXCEPT !.todo = S, !.full = full, !.data = Nothing,
                    !.kvs = {}, !.cols = {}, !.ffs = {}] \in Locals
        BY DEF Locals, Nothing
    <1> QED BY <1>1 DEF BeginLoad, Local, Goto, TypeOK

---------------------------------------------------------------------------
(* Types *)

\* The gate, the control points and the locals keep their types when a caller leaves.
LEMMA LeaveType ==
    ASSUME TypeOK, NEW c \in Callers, Leave(c)
    PROVE  gate' \in {0, 1}
           /\ pc' \in [Callers -> Points]
           /\ loc' \in [Callers -> Locals]
    BY BlankType DEF Leave, Goto, Local, TypeOK

\* A watched key-value has been requested.
LEMMA WatchedReadType ==
    ASSUME NEW l \in Locals, NEW w \in Watched, NEW v \in Version
    PROVE  [l EXCEPT !.kvs = @ \ {w}, !.watched[w] = v] \in Locals
    <1> DEFINE kvs == l.kvs \ {w}
               watched == [l.watched EXCEPT ![w] = v]
    <1>1. l.kvs \in SUBSET Watched /\ l.watched \in [Watched -> Version]
        BY DEF Locals
    <1>2. kvs \in SUBSET Watched /\ watched \in [Watched -> Version]
        BY <1>1
    <1>3. [l EXCEPT !.kvs = @ \ {w}, !.watched[w] = v] = [l EXCEPT !.kvs = kvs, !.watched = watched]
        BY DEF Locals
    <1> HIDE DEF kvs, watched
    <1>4. [l EXCEPT !.kvs = kvs, !.watched = watched] \in Locals
        BY <1>2 DEF Locals
    <1> QED BY <1>3, <1>4

\* A registered key-value has been compared.
LEMMA CheckedReadType ==
    ASSUME NEW l \in Locals, NEW w \in Watched, NEW v \in Version
    PROVE  [l EXCEPT !.kvs = @ \ {w}, !.late = {}, !.watched[w] = v] \in Locals
    <1> DEFINE m == [l EXCEPT !.late = {}]
    <1>1. m \in Locals /\ m.kvs = l.kvs /\ m.watched = l.watched
        BY DEF Locals
    <1>2. [l EXCEPT !.kvs = @ \ {w}, !.late = {}, !.watched[w] = v]
            = [m EXCEPT !.kvs = @ \ {w}, !.watched[w] = v]
        BY DEF Locals
    <1> HIDE DEF m
    <1> QED BY <1>1, <1>2, WatchedReadType

\* What setting watchers dirty or waiting leaves alone in the locals of a caller.
SameWork(m, l) ==
    /\ m.attempt = l.attempt /\ m.init = l.init /\ m.full = l.full /\ m.changed = l.changed
    /\ m.kvs = l.kvs /\ m.cols = l.cols /\ m.ffs = l.ffs /\ m.todo = l.todo
    /\ m.data = l.data /\ m.pages = l.pages /\ m.keys = l.keys /\ m.watched = l.watched

LEMMA ResetWork ==
    ASSUME TypeOK, NEW c \in Callers, NEW t, Reset(c, t)
    PROVE  /\ loc'[c] \in Locals /\ SameWork(loc'[c], loc[c])
           /\ loc'[c].elig = loc[c].elig \ {t} /\ loc'[c].late = {}
           /\ \A d \in Callers \ {c} : loc'[d] = loc[d]
    <1> DEFINE m == [loc[c] EXCEPT !.elig = @ \ {t}, !.late = {}]
    <1>1. loc[c] \in Locals /\ loc'[c] = m /\ \A d \in Callers \ {c} : loc'[d] = loc[d]
        BY DEF TypeOK, Reset, Local
    <1>2. m \in Locals /\ SameWork(m, loc[c]) /\ m.elig = loc[c].elig \ {t} /\ m.late = {}
        BY <1>1 DEF Locals, SameWork
    <1> QED BY <1>1, <1>2

LEMMA DirtyWork ==
    ASSUME TypeOK, NEW t \in Timers, SetDirty(t), NEW c \in Callers
    PROVE  /\ loc'[c] \in Locals /\ SameWork(loc'[c], loc[c])
           /\ loc'[c].elig \subseteq loc[c].elig
           /\ t = AllTimer \/ VisitsAll(c) \/ t \notin loc'[c].elig
    <1>1. PICK late \in SUBSET {t} :
            loc' = [d \in Callers |->
                     IF t = AllTimer \/ VisitsAll(d) THEN loc[d]
                     ELSE [loc[d] EXCEPT !.elig = @ \ {t},
                                         !.late = IF @ = {} THEN late \cap Turns(d) ELSE @]]
        BY DEF SetDirty
    <1> DEFINE kept == IF loc[c].late = {} THEN late \cap Turns(c) ELSE loc[c].late
               m    == [loc[c] EXCEPT !.elig = @ \ {t}, !.late = kept]
    <1>2. loc[c] \in Locals
        BY DEF TypeOK
    <1>3. loc'[c] = IF t = AllTimer \/ VisitsAll(c) THEN loc[c] ELSE m
        BY <1>1, <1>2 DEF Locals
    <1>4. kept \in SUBSET Timers
        BY <1>1, <1>2 DEF Locals
    <1> HIDE DEF kept
    <1>5. m \in Locals /\ SameWork(m, loc[c]) /\ m.elig = loc[c].elig \ {t}
        BY <1>2, <1>4 DEF Locals, SameWork
    <1>6. SameWork(loc[c], loc[c])
        BY DEF SameWork
    <1> HIDE DEF m
    <1> QED BY <1>2, <1>3, <1>5, <1>6

\* How the timers are set waiting.
LEMMA BeginResetType ==
    ASSUME TypeOK, NEW c \in Callers, NEW S \in SUBSET Timers, NEW l \in Locals,
           BeginReset(c, S, l)
    PROVE  /\ pc' \in [Callers -> Points] /\ loc' \in [Callers -> Locals]
           /\ pc'[c] = "prepare" /\ loc'[c] \in Locals
           /\ loc'[c].elig = S /\ loc'[c].late = l.late /\ SameWork(loc'[c], l)
           /\ \A d \in Callers \ {c} : loc'[d] = loc[d] /\ pc'[d] = pc[d]
    <1> DEFINE m == [l EXCEPT !.elig = S]
    <1>1. m \in Locals /\ m.elig = S /\ m.late = l.late /\ SameWork(m, l)
        BY DEF Locals, SameWork
    <1>2. loc' = [loc EXCEPT ![c] = m] /\ pc' = [pc EXCEPT ![c] = "prepare"]
        BY DEF BeginReset, Local, Goto
    <1> HIDE DEF m
    <1> QED BY <1>1, <1>2 DEF TypeOK

\* With what locals a refresh that loaded everything, or changes only, goes on.
LEMMA BlankWith ==
    ASSUME NEW b \in BOOLEAN
    PROVE  /\ [Blank EXCEPT !.full = TRUE] \in Locals
           /\ [Blank EXCEPT !.changed = b] \in Locals
           /\ LET l == [Blank EXCEPT !.full = TRUE]
              IN  l.keys = {} /\ ~l.init /\ l.full /\ l.late = {}
           /\ LET l == [Blank EXCEPT !.changed = b]
              IN  l.keys = {} /\ ~l.init /\ ~l.full /\ l.changed = b /\ l.late = {}
    <1>1. /\ [Blank EXCEPT !.full = TRUE] \in Locals
          /\ [Blank EXCEPT !.changed = b] \in Locals
        BY BlankType DEF Locals
    <1>2. LET l == [Blank EXCEPT !.full = TRUE]
          IN  l.keys = {} /\ ~l.init /\ l.full /\ l.late = {}
        BY DEF Blank
    <1>3. LET l == [Blank EXCEPT !.changed = b]
          IN  l.keys = {} /\ ~l.init /\ ~l.full /\ l.changed = b /\ l.late = {}
        BY DEF Blank
    <1> QED BY <1>1, <1>2, <1>3

\* What is held, and what was held latest.
LEMMA HoldsType ==
    ASSUME TypeOK, NEW d \in Content, Holds(d)
    PROVE  mapped' \in Content /\ newest' \in Content
    BY DEF Holds, TypeOK

\* A version read from the store.
LEMMA StoreType ==
    ASSUME TypeOK, NEW w \in Watched PROVE store[w] \in Version
    BY WatchedAssumption DEF TypeOK, Content

LEMMA TypeStep == TypeOK /\ [Next]_vars => TypeOK'
    <1> SUFFICES ASSUME TypeOK, [Next]_vars PROVE TypeOK'
        OBVIOUS
    <1>0. ASSUME NEW c \in Callers PROVE loc[c] \in Locals
        BY DEF TypeOK
    <1>00. store \in Content
        BY DEF TypeOK
    <1>1. ASSUME NEW i \in Items, Write(i) \/ Remove(i) PROVE TypeOK'
        <2>1. store' \in Content /\ writes' \in Nat /\ notified' \in [Timers -> Content]
            <3>1. ASSUME NEW t \in Timers PROVE notified[t] \in Content
                BY DEF TypeOK
            <3>2. CASE Write(i)
                BY <3>2 DEF TypeOK, Write
            <3>3. CASE Remove(i)
                <4>1. [t \in Timers |-> [notified[t] EXCEPT ![i] = Absent]] \in [Timers -> Content]
                    BY <3>1
                <4>2. store' \in Content
                    BY <1>00, <3>3 DEF Remove
                <4> QED BY <3>3, <4>1, <4>2 DEF TypeOK, Remove
            <3> QED BY <1>1, <3>2, <3>3
        <2> QED BY <1>1, <2>1 DEF TypeOK, Write, Remove, provider, clocks, bounded
    <1>2. ASSUME NEW t \in Timers, Expire(t) PROVE TypeOK'
        BY <1>2 DEF TypeOK, Expire, service, provider, bounded
    <1>3. CASE ExpireInit \/ ExpireSecret
        BY <1>3 DEF TypeOK, ExpireInit, ExpireSecret, service, provider, bounded
    <1>4. ASSUME NEW t \in Timers, SetDirty(t) PROVE TypeOK'
        <2>1. loc' \in [Callers -> Locals]
            <3>1. \A c \in Callers : loc'[c] \in Locals
                BY <1>4, DirtyWork
            <3>2. loc' = [c \in Callers |-> loc'[c]]
                BY <1>4 DEF SetDirty
            <3> QED BY <3>1, <3>2
        <2>2. notified' \in [Timers -> Content]
            <3>1. Page(store, Scope(t)) \in Content
                BY <1>00, PageType
            <3>2. notified \in [Timers -> Content]
                BY DEF TypeOK
            <3>3. notified' = [notified EXCEPT ![t] = Page(store, Scope(t))]
                BY <1>4 DEF SetDirty
            <3> HIDE DEF Content, Version
            <3> QED BY <3>1, <3>2, <3>3
        <2>3. timer' \in [Timers -> {"waiting", "dirty", "due"}]
            BY <1>4 DEF TypeOK, SetDirty
        <2>4. pushes' \in Nat
            <3>1. pushes' = pushes + 1
                BY <1>4 DEF SetDirty
            <3> QED BY <3>1 DEF TypeOK
        <2>5. UNCHANGED <<store, writes, provider, published, initDue, secretTimer, gate, pc,
                          faults, prepareFaults>>
            BY <1>4 DEF SetDirty
        <2> QED BY <2>1, <2>2, <2>3, <2>4, <2>5 DEF TypeOK, provider
    <1>5. ASSUME NEW c \in Callers, Exchange(c) PROVE TypeOK'
        BY <1>5 DEF TypeOK, Exchange, Goto, service, provider, clocks, bounded
    <1>6. ASSUME NEW c \in Callers, NothingDue(c) \/ InitThrottled(c) PROVE TypeOK'
        BY <1>6, LeaveType DEF TypeOK, NothingDue, InitThrottled, service, provider, clocks, bounded
    <1>7. ASSUME NEW c \in Callers, BeginInitialize(c) PROVE TypeOK'
        <2>1. 1 \in 0..Clients
            BY BoundsAssumption
        <2>2. [Blank EXCEPT !.attempt = 1, !.init = TRUE] \in Locals
            BY <2>1, BlankType DEF Locals
        <2> QED BY <1>7, <2>2, BeginLoadType
                DEF TypeOK, BeginInitialize, service, provider, bounded
    <1>8. ASSUME NEW c \in Callers, BeginRefresh(c) PROVE TypeOK'
        <2>1. Attempt(1, Due) \in Locals
            BY AttemptType, BoundsAssumption DEF Due
        <2> QED BY <1>8, <2>1 DEF TypeOK, BeginRefresh, Local, Goto,
                                  service, provider, clocks, bounded
    <1>9. ASSUME NEW c \in Callers, NEW w \in Watched, CheckWatcher(c, w) PROVE TypeOK'
        <2> DEFINE l == [loc[c] EXCEPT !.kvs = @ \ {w}, !.late = {}, !.watched[w] = store[w]]
        <2>1. l \in Locals
            BY <1>0, StoreType, CheckedReadType
        <2>2. \/ BeginLoad(c, Sel, TRUE, l)
              \/ Local(c, l) /\ UNCHANGED pc
            BY <1>9 DEF CheckWatcher
        <2> HIDE DEF l
        <2>3. pc' \in [Callers -> Points]
              /\ loc' \in [Callers -> Locals]
            BY <2>1, <2>2, BeginLoadType DEF TypeOK, Local
        <2> QED BY <1>9, <2>3 DEF TypeOK, CheckWatcher, service, provider, clocks, bounded
    <1>10. ASSUME NEW c \in Callers, NEW n \in Sel, CheckCollection(c, n) PROVE TypeOK'
        <2>1. [loc[c] EXCEPT !.cols = @ \ {n}] \in Locals
            BY <1>0 DEF Locals
        <2>2. pc' \in [Callers -> Points]
              /\ loc' \in [Callers -> Locals]
            BY <1>0, <1>10, <2>1, BeginLoadType DEF TypeOK, CheckCollection, Local
        <2> QED BY <1>10, <2>2 DEF TypeOK, CheckCollection, service, provider, clocks, bounded
    <1>11. ASSUME NEW c \in Callers, NEW n \in Sel, CheckFlags(c, n) PROVE TypeOK'
        <2> DEFINE l == [loc[c] EXCEPT !.ffs = @ \ {n}, !.late = {}]
        <2>1. l \in Locals
            BY <1>0 DEF Locals
        <2>a. BeginLoad(c, FfSelectors, FALSE, l) \/ (Local(c, l) /\ UNCHANGED pc)
            BY <1>11 DEF CheckFlags
        <2> HIDE DEF l
        <2>2. pc' \in [Callers -> Points]
              /\ loc' \in [Callers -> Locals]
            BY <2>1, <2>a, BeginLoadType, SelectorsType DEF TypeOK, Local
        <2> QED BY <1>11, <2>2 DEF TypeOK, CheckFlags, service, provider, clocks, bounded
    <1>12. ASSUME NEW c \in Callers, NEW n \in Sel, LoadSelector(c, n) PROVE TypeOK'
        <2> DEFINE page == Page(store, Selectors[n])
                   l    == [loc[c] EXCEPT
                              !.todo = @ \ {n}, !.data = Overwrite(@, page),
                              !.pages[n] = page,
                              !.keys = IF n \in FfSelectors
                                       THEN @ \cup {i \in Items : page[i] # Absent} ELSE @]
                   last == [l EXCEPT !.watched = [w \in Watched |-> l.data[w]],
                                     !.kvs = NotLoaded(l.data)]
        <2>1. page \in Content
            BY PageType DEF TypeOK
        <2>2. ASSUME NEW d \in Content PROVE Overwrite(d, page) \in Content
            BY <2>1 DEF Overwrite
        <2> HIDE DEF page
        <2>3. l \in Locals
            BY <1>0, <2>1, <2>2 DEF Locals
        <2> HIDE DEF l
        <2>a. l.data \in Content
            BY <2>3 DEF Locals
        <2>4. NotLoaded(l.data) \in SUBSET Watched
              /\ [w \in Watched |-> l.data[w]] \in [Watched -> Version]
            BY <2>a, WatchedAssumption DEF NotLoaded
        <2>5. last \in Locals
            BY <2>3, <2>4 DEF Locals
        <2>6. pc' \in [Callers -> Points]
              /\ loc' \in [Callers -> Locals]
            BY <1>12, <2>3, <2>5 DEF TypeOK, LoadSelector, Local, Goto, page, l
        <2> QED BY <1>12, <2>6 DEF TypeOK, LoadSelector, service, provider, clocks, bounded
    <1>13. ASSUME NEW c \in Callers, NEW w \in Watched, LoadWatched(c, w) PROVE TypeOK'
        <2>1. [loc[c] EXCEPT !.kvs = @ \ {w}, !.watched[w] = store[w]] \in Locals
            BY <1>0, StoreType, WatchedReadType
        <2>a. ASSUME NEW l \in Locals PROVE [l EXCEPT !.data[w] = store[w]] \in Locals
            BY <1>00, WatchedAssumption DEF Locals
        <2> QED BY <1>13, <2>1, <2>a DEF TypeOK, LoadWatched, Local, service, provider, clocks, bounded
    <1>14. ASSUME NEW c \in Callers, ApplyAll(c) PROVE TypeOK'
        <2>1. loc[c].data \in Content /\ loc[c].pages \in [Sel -> Content]
              /\ loc[c].keys \subseteq Items /\ loc[c].watched \in [Watched -> Version]
              /\ (Timers \ {AllTimer}) \cup loc[c].elig \in SUBSET Timers
            BY <1>0 DEF Locals
        <2>2. pc' \in [Callers -> Points] /\ loc' \in [Callers -> Locals]
            BY <1>14, <2>1, BlankWith, BeginResetType DEF ApplyAll
        <2>3. mapped' \in Content /\ newest' \in Content
            BY <1>14, <2>1, HoldsType DEF ApplyAll
        <2> QED BY <1>14, <2>1, <2>2, <2>3 DEF TypeOK, ApplyAll, ForgetSecrets, service, bounded
    <1>15. ASSUME NEW c \in Callers, ApplyChanges(c) PROVE TypeOK'
        <2> DEFINE changed == Changed(Changes(loc[c]), pc[c] = "apply")
                   data == [i \in Items |->
                              CASE pc[c] = "apply" /\ i \in loc[c].keys -> loc[c].data[i]
                                [] pc[c] = "apply" /\ i \in RemovedFlags(loc[c]) -> Absent
                                [] OTHER -> IF i \in Changes(loc[c])
                                            THEN loc[c].watched[i] ELSE mapped[i]]
        <2>1. secretTimer' \in {"none", "armed", "due"}
            BY <1>15 DEF TypeOK, ApplyChanges, ForgetSecrets
        <2>2. data \in Content
            BY <1>0, WatchedAssumption DEF TypeOK, Changes, Locals
        <2>3. Holds(data) /\ BeginReset(c, loc[c].elig, [Blank EXCEPT !.changed = changed])
            BY <1>15 DEF ApplyChanges
        <2>4. changed \in BOOLEAN
            BY DEF Changed
        <2> HIDE DEF data, changed
        <2>5. mapped' \in Content /\ newest' \in Content
            BY <2>2, <2>3, HoldsType
        <2>6. pc' \in [Callers -> Points] /\ loc' \in [Callers -> Locals]
            <3>1. loc[c].elig \in SUBSET Timers
                BY <1>0 DEF Locals
            <3>2. [Blank EXCEPT !.changed = changed] \in Locals
                BY <2>4, BlankWith
            <3> QED BY <2>3, <3>1, <3>2, BeginResetType
        <2>7. /\ watchedKvs' \in [Watched -> Version]
              /\ etags' \in [Sel -> Content] /\ ffKeys' \subseteq Items
            BY <1>0, <1>15 DEF TypeOK, ApplyChanges, Locals
        <2>8. UNCHANGED <<service, loaded, published, timer, initDue, gate, bounded>>
            BY <1>15 DEF ApplyChanges
        <2> QED BY <2>1, <2>5, <2>6, <2>7, <2>8 DEF TypeOK, service, bounded
    <1>16. ASSUME NEW c \in Callers, ApplyInit(c) PROVE TypeOK'
        <2>1. pc' \in [Callers -> Points] /\ loc' \in [Callers -> Locals]
            BY <1>0, <1>16, BeginResetType DEF ApplyInit
        <2> QED BY <1>16, <2>1 DEF TypeOK, ApplyInit, ForgetSecrets, service, provider, bounded
    <1>17. ASSUME NEW c \in Callers, Prepare(c) PROVE TypeOK'
        <2>1. loc[c].data \in Content
            BY <1>0 DEF Locals
        <2>2. mapped' \in Content /\ newest' \in Content
            BY <1>17, <2>1, HoldsType DEF TypeOK, Prepare, provider
        <2>3. /\ loaded' \in BOOLEAN
              /\ watchedKvs' \in [Watched -> Version]
              /\ etags' \in [Sel -> Content] /\ ffKeys' \subseteq Items
            BY <1>0, <1>17 DEF TypeOK, Prepare, Locals, provider
        <2> QED BY <1>17, <2>2, <2>3, LeaveType DEF TypeOK, Prepare, service, bounded
    <1>22. ASSUME NEW c \in Callers, NEW t \in Timers, Reset(c, t) PROVE TypeOK'
        <2>1. loc' \in [Callers -> Locals]
            BY <1>22, ResetWork DEF TypeOK, Reset, Local
        <2>2. timer' \in [Timers -> {"waiting", "dirty", "due"}]
            BY <1>22 DEF TypeOK, Reset
        <2> QED BY <1>22, <2>1, <2>2 DEF TypeOK, Reset, service, provider, bounded
    <1>23. ASSUME NEW c \in Callers, NothingChanged(c) PROVE TypeOK'
        BY <1>23, LeaveType DEF TypeOK, NothingChanged, service, provider, clocks, bounded
    <1>18. ASSUME NEW c \in Callers, NoClientAvailable(c) \/ Fail(c) PROVE TypeOK'
        BY <1>18, LeaveType DEF TypeOK, NoClientAvailable, Fail, service, provider, clocks
    <1>19. ASSUME NEW c \in Callers, PrepareFails(c) PROVE TypeOK'
        BY <1>19, LeaveType DEF TypeOK, PrepareFails, service, provider
    <1>20. ASSUME NEW c \in Callers, FailOver(c) PROVE TypeOK'
        <2>1. loc[c].attempt + 1 \in 0..Clients /\ loc[c].elig \in SUBSET Timers
            BY <1>20, BoundsAssumption DEF TypeOK, FailOver, Locals
        <2>2. /\ [Blank EXCEPT !.attempt = loc[c].attempt + 1, !.init = TRUE,
                               !.keys = loc[c].keys] \in Locals
              /\ Attempt(loc[c].attempt + 1, loc[c].elig) \in Locals
            BY <2>1, BlankType, AttemptType DEF TypeOK, Locals
        <2>3. pc' \in [Callers -> Points]
              /\ loc' \in [Callers -> Locals]
            BY <1>20, <2>2, BeginLoadType DEF TypeOK, FailOver, Local, Goto
        <2> QED BY <1>20, <2>3 DEF TypeOK, FailOver, service, provider, clocks
    <1>21. CASE UNCHANGED vars
        BY <1>21 DEF TypeOK, vars, service, provider, clocks, bounded
    <1> QED BY <1>1, <1>2, <1>3, <1>4, <1>5, <1>6, <1>7, <1>8, <1>9, <1>10, <1>11,
               <1>12, <1>13, <1>14, <1>15, <1>16, <1>17, <1>18, <1>19, <1>20, <1>21, <1>22, <1>23
            DEF Next, Environment, Work, Fault

LEMMA InitTypes == Init => TypeOK /\ GateExclusive
    <1> SUFFICES ASSUME Init PROVE TypeOK /\ GateExclusive
        OBVIOUS
    <1>1. store \in Content
        BY DEF Init
    <1>2. Nothing \in Content
        BY DEF Nothing
    <1>3. /\ pc \in [Callers -> Points]
          /\ loc \in [Callers -> Locals]
        BY BlankType DEF Init
    <1>4. GateExclusive
        BY DEF Init, GateExclusive, Inside
    <1> QED BY <1>1, <1>2, <1>3, <1>4 DEF Init, TypeOK

\* Every variable keeps its type, whatever is selected and registered.
THEOREM TypeCorrect == Spec => []TypeOK
    BY InitTypes, TypeStep, PTL DEF Spec

---------------------------------------------------------------------------
(* The gate *)

LEMMA LeaveOpensGate ==
    ASSUME TypeOK, GateExclusive, NEW c \in Callers, Inside(c), Leave(c)
    PROVE  GateExclusive'
    BY DEF TypeOK, GateExclusive, Inside, Leave, Goto

LEMMA StayInside ==
    ASSUME TypeOK, GateExclusive, NEW c \in Callers, Inside(c), UNCHANGED gate,
           NEW p \in Points \ {"idle"}, UNCHANGED pc \/ Goto(c, p)
    PROVE  GateExclusive'
    BY DEF TypeOK, GateExclusive, Inside, Goto

LEMMA GateStep == TypeOK /\ GateExclusive /\ [Next]_vars => GateExclusive'
    <1> SUFFICES ASSUME TypeOK, GateExclusive, [Next]_vars PROVE GateExclusive'
        OBVIOUS
    <1>1. CASE Environment \/ UNCHANGED vars
        BY <1>1 DEF Environment, Write, Remove, Expire, ExpireInit, ExpireSecret, SetDirty,
                    vars, GateExclusive, Inside
    <1>2. ASSUME NEW c \in Callers, Exchange(c) PROVE GateExclusive'
        BY <1>2 DEF TypeOK, GateExclusive, Inside, Exchange, Goto
    <1>3. ASSUME NEW c \in Callers, Work(c) PROVE GateExclusive'
        <2>1. CASE NothingDue(c) \/ InitThrottled(c) \/ NothingChanged(c) \/ Prepare(c)
            BY <2>1, LeaveOpensGate
            DEF NothingDue, InitThrottled, NothingChanged, Prepare, AllReset, Inside
        <2>2. CASE BeginInitialize(c) \/ BeginRefresh(c)
            BY <2>2, StayInside DEF BeginInitialize, BeginRefresh, BeginLoad, Inside
        <2>3. ASSUME NEW w \in Watched, CheckWatcher(c, w) \/ LoadWatched(c, w)
              PROVE  GateExclusive'
            BY <2>3, StayInside DEF CheckWatcher, LoadWatched, BeginLoad, Inside
        <2>4. ASSUME NEW n \in Sel, CheckCollection(c, n) \/ CheckFlags(c, n) \/ LoadSelector(c, n)
              PROVE  GateExclusive'
            <3>1. Inside(c) /\ UNCHANGED gate
                BY <2>4 DEF CheckCollection, CheckFlags, LoadSelector, Inside
            <3>2. \/ UNCHANGED pc
                  \/ Goto(c, "load") \/ Goto(c, "watch") \/ Goto(c, "apply")
                BY <2>4 DEF CheckCollection, CheckFlags, LoadSelector, BeginLoad
            <3> QED BY <3>1, <3>2, StayInside
        <2>5. CASE ApplyAll(c) \/ ApplyInit(c) \/ ApplyChanges(c)
            BY <2>5, StayInside DEF ApplyAll, ApplyInit, ApplyChanges, BeginReset, Inside
        <2>6. ASSUME NEW t \in Timers, Reset(c, t) PROVE GateExclusive'
            BY <2>6, StayInside DEF Reset, Inside
        <2> QED BY <1>3, <2>1, <2>2, <2>3, <2>4, <2>5, <2>6 DEF Work
    <1>4. ASSUME NEW c \in Callers, Fault(c) PROVE GateExclusive'
        <2>1. CASE NoClientAvailable(c) \/ PrepareFails(c) \/ Fail(c)
            BY <2>1, LeaveOpensGate
            DEF NoClientAvailable, PrepareFails, Fail, Requesting, AllReset, Inside
        <2>2. CASE FailOver(c)
            BY <2>2, StayInside DEF FailOver, Requesting, BeginLoad, Inside
        <2> QED BY <1>4, <2>1, <2>2 DEF Fault
    <1> QED BY <1>1, <1>2, <1>3, <1>4 DEF Next

\* Two callers are never past the gate together, and whichever way a caller
\* takes out of RefreshAsync, the gate is open again.
THEOREM GateIsExclusive == Spec => []GateExclusive
    BY InitTypes, GateStep, TypeCorrect, PTL DEF Spec

---------------------------------------------------------------------------
(* What is recorded stands for what is held *)

\* The items that are tracked by the etags of pages.
ByPage == FfItems \cup (IF RegisterAll THEN KvItems ELSE {})

\* Every such item is in data as some page of the selectors done has it, or is
\* absent from data and from all their pages.
Backed(data, pages, done) ==
    \A i \in ByPage :
        \/ data[i] = Absent /\ \A n \in done : i \in Selectors[n] => pages[n][i] = Absent
        \/ \E n \in done : i \in Selectors[n] /\ pages[n][i] = data[i]

\* Every flag in data is among the keys, and those are flags.
FlagsNamed(data, keys) ==
    /\ keys \subseteq FfItems
    /\ \A i \in FfItems : data[i] # Absent => i \in keys

\* The provider's state: watched items are held in the version recorded for them,
\* the others as a recorded page has them.
Recorded ==
    /\ ffKeys \subseteq FfItems
    /\ loaded => /\ \A w \in Watched : mapped[w] = watchedKvs[w]
                 /\ Backed(mapped, etags, Sel)
                 /\ FlagsNamed(mapped, ffKeys)

\* The same of the state a refresh is about to install, at each point of its work.
FullLoad(l) ==
    /\ Backed(l.data, l.pages, Sel) /\ FlagsNamed(l.data, l.keys)
    /\ \A w \in Watched : l.watched[w] = l.data[w]

FlagLoad(l, done) ==
    /\ ~l.full /\ ~l.init
    /\ Backed(l.data, l.pages, done) /\ FlagsNamed(l.data, l.keys)
    /\ \A n \in KvSelectors : l.pages[n] = etags[n]

InFlight(c) ==
    LET l == loc[c]
    IN  /\ l.keys \subseteq FfItems
        /\ pc[c] = "check" => ~l.full /\ ~l.init /\ l.pages = etags /\ l.keys = {}
        /\ pc[c] = "load" =>
              IF l.full THEN Backed(l.data, l.pages, Sel \ l.todo) /\ FlagsNamed(l.data, l.keys)
              ELSE l.todo \subseteq FfSelectors /\ FlagLoad(l, FfSelectors \ l.todo)
        /\ pc[c] = "apply" => FlagLoad(l, FfSelectors)
        /\ pc[c] = "watch" => FullLoad(l)
        /\ pc[c] = "prepare" /\ l.init => FullLoad(l)

IInv == TypeOK /\ GateExclusive /\ Recorded /\ \A c \in Callers : InFlight(c)

LEMMA PartsOfItems ==
    /\ FfItems \subseteq Items /\ KvItems \subseteq Items
    /\ FfItems \cap KvItems = {} /\ FfItems \cap Watched = {}
    /\ ByPage \cap Watched = {} /\ ByPage \subseteq Items
    BY SelectorsType, WatchedAssumption, FlagsApart
    DEF FfItems, KvItems, KvSelectors, ByPage

LEMMA SelectorOfItem ==
    ASSUME NEW n \in Sel, NEW i \in Selectors[n]
    PROVE  /\ i \in FfItems <=> n \in FfSelectors
           /\ i \in KvItems <=> n \in KvSelectors
    BY PartsOfItems DEF FfItems, KvItems, KvSelectors

\* A step inside the gate leaves the invariant of the other callers alone.
LEMMA OthersIdle ==
    ASSUME TypeOK, GateExclusive, NEW c \in Callers, Inside(c),
           NEW d \in Callers \ {c}, InFlight(d),
           loc'[d] = loc[d], pc'[d] = pc[d]
    PROVE  InFlight(d)'
    <1>1. pc[d] = "idle"
        BY DEF GateExclusive, Inside
    <1> QED BY <1>1 DEF InFlight

LEMMA StepInside ==
    ASSUME IInv, TypeOK', GateExclusive', NEW c \in Callers, Inside(c),
           \A d \in Callers \ {c} : loc'[d] = loc[d] /\ pc'[d] = pc[d],
           Recorded', InFlight(c)'
    PROVE  IInv'
    <1>1. ASSUME NEW d \in Callers \ {c} PROVE InFlight(d)'
        BY <1>1, OthersIdle DEF IInv
    <1> QED BY <1>1 DEF IInv

LEMMA OthersUntouched ==
    ASSUME TypeOK, NEW c \in Callers, NEW p, NEW l,
           UNCHANGED pc \/ Goto(c, p), UNCHANGED loc \/ Local(c, l)
    PROVE  \A d \in Callers \ {c} : loc'[d] = loc[d] /\ pc'[d] = pc[d]
    BY DEF TypeOK, Goto, Local

LEMMA BeginLoadInFlight ==
    ASSUME TypeOK, NEW c \in Callers, NEW S \in SUBSET Sel, NEW full \in BOOLEAN,
           NEW l \in Locals, BeginLoad(c, S, full, l),
           l.keys \subseteq FfItems,
           IF full THEN S = Sel
           ELSE S = FfSelectors /\ ~l.init /\ l.pages = etags /\ UNCHANGED etags
    PROVE  InFlight(c)'
    <1> DEFINE n == [l EXCEPT !.todo = S, !.full = full, !.data = Nothing,
                              !.kvs = {}, !.cols = {}, !.ffs = {}]
    <1>1. pc'[c] = "load" /\ loc'[c] = n
        BY DEF BeginLoad, Goto, Local, TypeOK
    <1>2. /\ n.data = Nothing /\ n.todo = S /\ n.full = full
          /\ n.keys = l.keys /\ n.pages = l.pages /\ n.init = l.init
        BY DEF Locals
    <1>3. Backed(n.data, n.pages, {}) /\ FlagsNamed(n.data, n.keys)
        BY <1>2, PartsOfItems DEF Backed, FlagsNamed, Nothing
    <1>4. CASE full
        BY <1>1, <1>2, <1>3, <1>4 DEF InFlight
    <1>5. CASE ~full
        <2>1. FfSelectors \ n.todo = {}
            BY <1>2, <1>5
        <2>2. FlagLoad(n, FfSelectors \ n.todo)'
            BY <1>2, <1>3, <1>5, <2>1 DEF FlagLoad
        <2> QED BY <1>1, <1>2, <1>5, <2>2 DEF InFlight
    <1> QED BY <1>4, <1>5

\* One more selector, not loaded before, keeps pages and data in step.
LEMMA BackedStep ==
    ASSUME NEW data \in Content, NEW pages \in [Sel -> Content], NEW done \in SUBSET Sel,
           NEW n \in Sel \ done, NEW v \in Content, Backed(data, pages, done)
    PROVE  Backed(Overwrite(data, Page(v, Selectors[n])),
                  [pages EXCEPT ![n] = Page(v, Selectors[n])], done \cup {n})
    <1> DEFINE page == Page(v, Selectors[n])
               d    == Overwrite(data, page)
               p    == [pages EXCEPT ![n] = page]
    <1> SUFFICES ASSUME NEW i \in ByPage
                 PROVE  \/ d[i] = Absent /\ \A m \in done \cup {n} :
                                i \in Selectors[m] => p[m][i] = Absent
                        \/ \E m \in done \cup {n} : i \in Selectors[m] /\ p[m][i] = d[i]
        BY DEF Backed
    <1>1. i \in Items
        BY PartsOfItems
    <1>2. p[n] = page /\ \A m \in done : p[m] = pages[m]
        OBVIOUS
    <1>3. CASE page[i] # Absent
        <2>1. i \in Selectors[n]
            BY <1>1, <1>3 DEF Page
        <2>2. d[i] = page[i]
            BY <1>1, <1>3 DEF Overwrite
        <2> QED BY <1>2, <2>1, <2>2
    <1>4. CASE page[i] = Absent
        <2>1. d[i] = data[i]
            BY <1>1, <1>4 DEF Overwrite
        <2> HIDE DEF d, p, page
        <2> QED BY <1>2, <1>4, <2>1 DEF Backed
    <1> QED BY <1>3, <1>4

LEMMA FlagsNamedStep ==
    ASSUME NEW data \in Content, NEW keys, NEW n \in Sel, NEW v \in Content,
           FlagsNamed(data, keys)
    PROVE  LET page == Page(v, Selectors[n])
           IN  FlagsNamed(Overwrite(data, page),
                          IF n \in FfSelectors
                          THEN keys \cup {i \in Items : page[i] # Absent} ELSE keys)
    <1> DEFINE page == Page(v, Selectors[n])
               k    == IF n \in FfSelectors
                       THEN keys \cup {i \in Items : page[i] # Absent} ELSE keys
    <1>1. \A i \in Items : page[i] # Absent => i \in Selectors[n]
        BY DEF Page
    <1>2. k \subseteq FfItems
        BY <1>1, SelectorOfItem DEF FlagsNamed
    <1>3. ASSUME NEW i \in FfItems, Overwrite(data, page)[i] # Absent PROVE i \in k
        <2>1. i \in Items
            BY PartsOfItems
        <2>2. CASE page[i] # Absent
            BY <1>1, <2>1, <2>2, SelectorOfItem
        <2>3. CASE page[i] = Absent
            <3>1. data[i] # Absent
                BY <1>3, <2>1, <2>3 DEF Overwrite
            <3> QED BY <3>1 DEF FlagsNamed
        <2> QED BY <2>2, <2>3
    <1> QED BY <1>2, <1>3 DEF FlagsNamed

LEMMA LoadSelectorInFlight ==
    ASSUME IInv, TypeOK', GateExclusive', NEW c \in Callers, NEW n \in Sel, LoadSelector(c, n)
    PROVE  IInv'
    <1> DEFINE L    == loc[c]
               page == Page(store, Selectors[n])
               l    == [L EXCEPT
                          !.todo = @ \ {n}, !.data = Overwrite(@, page),
                          !.pages[n] = page,
                          !.keys = IF n \in FfSelectors
                                   THEN @ \cup {i \in Items : page[i] # Absent} ELSE @]
               last == [l EXCEPT !.watched = [w \in Watched |-> l.data[w]],
                                 !.kvs = NotLoaded(l.data)]
               done == IF L.full THEN Sel \ L.todo ELSE FfSelectors \ L.todo
    <1>1. L \in Locals /\ store \in Content
        BY DEF IInv, TypeOK
    <1>2. /\ n \in L.todo /\ L.todo \subseteq Sel /\ pc[c] = "load"
          /\ L.data \in Content /\ L.pages \in [Sel -> Content]
        BY <1>1 DEF LoadSelector, Locals
    <1>3. /\ l.todo = L.todo \ {n} /\ l.full = L.full /\ l.init = L.init
          /\ l.data = Overwrite(L.data, page) /\ l.pages = [L.pages EXCEPT ![n] = page]
          /\ l.keys = IF n \in FfSelectors
                      THEN L.keys \cup {i \in Items : page[i] # Absent} ELSE L.keys
        BY <1>1 DEF Locals
    <1>4. InFlight(c)
        BY DEF IInv
    <1>5. Backed(L.data, L.pages, done) /\ FlagsNamed(L.data, L.keys)
        BY <1>2, <1>4 DEF InFlight, FlagLoad
    <1>6. Backed(l.data, l.pages, done \cup {n}) /\ FlagsNamed(l.data, l.keys)
        <2>1. done \in SUBSET Sel /\ n \in Sel \ done
            BY <1>2, SelectorsType
        <2> HIDE DEF done, l, L
        <2>2. Backed(Overwrite(L.data, page), [L.pages EXCEPT ![n] = page], done \cup {n})
            BY <1>1, <1>2, <1>5, <2>1, BackedStep
        <2>3. FlagsNamed(Overwrite(L.data, page),
                         IF n \in FfSelectors
                         THEN L.keys \cup {i \in Items : page[i] # Absent} ELSE L.keys)
            BY <1>1, <1>2, <1>5, FlagsNamedStep
        <2> HIDE DEF page
        <2> QED BY <1>3, <2>2, <2>3
    <1>7. done \cup {n} = IF L.full THEN Sel \ l.todo ELSE FfSelectors \ l.todo
        BY <1>2, <1>3, <1>4 DEF InFlight
    <1>8. UNCHANGED <<store, provider, gate>>
        BY DEF LoadSelector, service
    <1>9. Inside(c)
        BY <1>2 DEF Inside
    <1>10. \/ l.todo # {} /\ Local(c, l) /\ UNCHANGED pc
           \/ l.todo = {} /\ l.full /\ Local(c, last) /\ Goto(c, "watch")
           \/ l.todo = {} /\ ~l.full /\ Local(c, l) /\ Goto(c, "apply")
        BY DEF LoadSelector
    <1>11. /\ last.data = l.data /\ last.pages = l.pages /\ last.keys = l.keys
           /\ \A w \in Watched : last.watched[w] = l.data[w]
        BY <1>1 DEF Locals
    <1>12. ~L.full => ~l.init /\ l.todo \subseteq FfSelectors
                      /\ \A m \in KvSelectors : l.pages[m] = etags'[m]
        <2> SUFFICES ASSUME ~L.full
                     PROVE  ~l.init /\ l.todo \subseteq FfSelectors
                            /\ \A m \in KvSelectors : l.pages[m] = etags[m]
            BY <1>8 DEF provider
        <2>1. n \in FfSelectors /\ ~L.init /\ L.todo \subseteq FfSelectors
              /\ \A m \in KvSelectors : L.pages[m] = etags[m]
            BY <1>2, <1>4 DEF InFlight, FlagLoad
        <2> HIDE DEF L, page
        <2> QED BY <1>2, <1>3, <2>1 DEF KvSelectors
    <1>13. l.keys \subseteq FfItems
        BY <1>6 DEF FlagsNamed
    <1>a. loc \in [Callers -> Locals] /\ pc \in [Callers -> Points]
        BY DEF IInv, TypeOK
    <1> HIDE DEF l, L, last, page
    <1>14. InFlight(c)'
        <2>1. CASE l.todo # {} /\ Local(c, l) /\ UNCHANGED pc
            <3>1. loc'[c] = l /\ pc'[c] = "load"
                BY <1>a, <1>2, <2>1 DEF Local
            <3> QED BY <1>3, <1>6, <1>7, <1>12, <1>13, <3>1 DEF InFlight, FlagLoad
        <2>2. CASE l.todo = {} /\ l.full /\ Local(c, last) /\ Goto(c, "watch")
            <3>1. loc'[c] = last /\ pc'[c] = "watch"
                BY <1>a, <2>2 DEF Local, Goto
            <3>2. done \cup {n} = Sel
                BY <1>3, <1>7, <2>2
            <3>3. FullLoad(last)
                BY <1>6, <1>11, <3>2 DEF FullLoad
            <3> QED BY <1>11, <1>13, <3>1, <3>3 DEF InFlight, FullLoad
        <2>3. CASE l.todo = {} /\ ~l.full /\ Local(c, l) /\ Goto(c, "apply")
            <3>1. loc'[c] = l /\ pc'[c] = "apply"
                BY <1>a, <2>3 DEF Local, Goto
            <3>2. done \cup {n} = FfSelectors
                BY <1>3, <1>7, <2>3
            <3> QED BY <1>3, <1>6, <1>12, <1>13, <2>3, <3>1, <3>2 DEF InFlight, FlagLoad
        <2> QED BY <1>10, <2>1, <2>2, <2>3
    <1>15. Recorded'
        BY <1>8 DEF IInv, Recorded, provider
    <1>16. \A d \in Callers \ {c} : loc'[d] = loc[d] /\ pc'[d] = pc[d]
        BY <1>a, <1>10 DEF Local, Goto
    <1> QED BY <1>9, <1>14, <1>15, <1>16, StepInside

\* What a check does to its caller: nothing that matters here, or a load begins.
ContinuesAs(c) ==
    \E l \in Locals :
        /\ l.full = loc[c].full /\ l.init = loc[c].init
        /\ l.pages = loc[c].pages /\ l.keys = loc[c].keys
        /\ \/ BeginLoad(c, Sel, TRUE, l)
           \/ BeginLoad(c, FfSelectors, FALSE, l)
           \/ Local(c, l) /\ UNCHANGED pc

LEMMA CheckInFlight ==
    ASSUME IInv, TypeOK', GateExclusive', NEW c \in Callers,
           \/ \E w \in Watched : CheckWatcher(c, w)
           \/ \E n \in Sel : CheckCollection(c, n) \/ CheckFlags(c, n)
    PROVE  IInv'
    <1>1. TypeOK /\ loc[c] \in Locals /\ store \in Content /\ InFlight(c)
        BY DEF IInv, TypeOK
    <1>2. pc[c] = "check" /\ UNCHANGED <<store, provider>>
        BY DEF CheckWatcher, CheckCollection, CheckFlags, service
    <1>3. /\ ~loc[c].full /\ ~loc[c].init /\ loc[c].pages = etags /\ loc[c].keys = {}
        BY <1>1, <1>2 DEF InFlight
    <1>4. ContinuesAs(c)
        <2>1. ASSUME NEW w \in Watched, CheckWatcher(c, w) PROVE ContinuesAs(c)
            <3> DEFINE l == [loc[c] EXCEPT !.kvs = @ \ {w}, !.late = {}, !.watched[w] = store[w]]
            <3>1. l \in Locals
                BY <1>1, StoreType, CheckedReadType
            <3>2. l.full = loc[c].full /\ l.init = loc[c].init
                  /\ l.pages = loc[c].pages /\ l.keys = loc[c].keys
                BY <1>1 DEF Locals
            <3>3. BeginLoad(c, Sel, TRUE, l) \/ (Local(c, l) /\ UNCHANGED pc)
                BY <2>1 DEF CheckWatcher
            <3> HIDE DEF l
            <3> QED BY <3>1, <3>2, <3>3 DEF ContinuesAs
        <2>2. ASSUME NEW n \in Sel, CheckCollection(c, n) PROVE ContinuesAs(c)
            <3> DEFINE l == [loc[c] EXCEPT !.cols = @ \ {n}]
            <3>1. /\ l \in Locals /\ l.full = loc[c].full /\ l.init = loc[c].init
                  /\ l.pages = loc[c].pages /\ l.keys = loc[c].keys
                BY <1>1 DEF Locals
            <3>2. BeginLoad(c, Sel, TRUE, loc[c]) \/ (Local(c, l) /\ UNCHANGED pc)
                BY <2>2 DEF CheckCollection
            <3> HIDE DEF l
            <3> QED BY <1>1, <3>1, <3>2 DEF ContinuesAs
        <2>3. ASSUME NEW n \in Sel, CheckFlags(c, n) PROVE ContinuesAs(c)
            <3> DEFINE l == [loc[c] EXCEPT !.ffs = @ \ {n}, !.late = {}]
            <3>1. /\ l \in Locals /\ l.full = loc[c].full /\ l.init = loc[c].init
                  /\ l.pages = loc[c].pages /\ l.keys = loc[c].keys
                BY <1>1 DEF Locals
            <3>2. BeginLoad(c, FfSelectors, FALSE, l) \/ (Local(c, l) /\ UNCHANGED pc)
                BY <2>3 DEF CheckFlags
            <3> HIDE DEF l
            <3> QED BY <3>1, <3>2 DEF ContinuesAs
        <2> QED BY <2>1, <2>2, <2>3
    <1>5. PICK l \in Locals :
            /\ l.full = loc[c].full /\ l.init = loc[c].init
            /\ l.pages = loc[c].pages /\ l.keys = loc[c].keys
            /\ \/ BeginLoad(c, Sel, TRUE, l)
               \/ BeginLoad(c, FfSelectors, FALSE, l)
               \/ Local(c, l) /\ UNCHANGED pc
        BY <1>4 DEF ContinuesAs
    <1>6. etags' = etags
        BY <1>2 DEF provider
    <1>7. InFlight(c)'
        <2>1. CASE BeginLoad(c, Sel, TRUE, l)
            BY <1>1, <1>3, <1>5, <2>1, BeginLoadInFlight
        <2>2. CASE BeginLoad(c, FfSelectors, FALSE, l)
            BY <1>1, <1>3, <1>5, <1>6, <2>2, BeginLoadInFlight, SelectorsType
        <2>3. CASE Local(c, l) /\ UNCHANGED pc
            <3>1. loc'[c] = l /\ pc'[c] = "check"
                BY <1>1, <1>2, <2>3 DEF Local, TypeOK
            <3> QED BY <1>3, <1>5, <1>6, <3>1 DEF InFlight
        <2> QED BY <1>5, <2>1, <2>2, <2>3
    <1>8. Recorded'
        BY <1>2 DEF IInv, Recorded, provider
    <1>9. \A d \in Callers \ {c} : loc'[d] = loc[d] /\ pc'[d] = pc[d]
        BY <1>1, <1>5 DEF BeginLoad, Goto, Local, TypeOK
    <1> QED BY <1>2, <1>7, <1>8, <1>9, StepInside DEF Inside

LEMMA LoadWatchedInFlight ==
    ASSUME IInv, TypeOK', GateExclusive', NEW c \in Callers, NEW w \in Watched,
           LoadWatched(c, w)
    PROVE  IInv'
    <1> DEFINE l == [loc[c] EXCEPT !.kvs = @ \ {w}, !.watched[w] = store[w],
                                   !.data[w] = store[w]]
    <1>1. TypeOK /\ loc[c] \in Locals /\ store \in Content
        BY DEF IInv, TypeOK
    <1>2. pc[c] = "watch" /\ loc'[c] = l /\ pc' = pc /\ UNCHANGED provider
        BY <1>1 DEF LoadWatched, Local, TypeOK
    <1>3. FullLoad(loc[c])
        BY <1>2 DEF IInv, InFlight
    <1>4. /\ l.data = [loc[c].data EXCEPT ![w] = store[w]]
          /\ l.watched = [loc[c].watched EXCEPT ![w] = store[w]]
          /\ l.pages = loc[c].pages /\ l.keys = loc[c].keys /\ l.init = loc[c].init
          /\ loc[c].data \in Content /\ loc[c].watched \in [Watched -> Version]
        BY <1>1 DEF Locals
    <1> HIDE DEF l
    <1>5. w \notin ByPage /\ w \notin FfItems /\ w \in Items /\ ByPage \subseteq Items
        BY PartsOfItems, WatchedAssumption
    <1>6. \A i \in ByPage \cup FfItems : l.data[i] = loc[c].data[i]
        BY <1>4, <1>5, PartsOfItems
    <1>7. Backed(l.data, l.pages, Sel)
        BY <1>3, <1>4, <1>6 DEF FullLoad, Backed
    <1>8. FlagsNamed(l.data, l.keys)
        BY <1>3, <1>4, <1>6 DEF FullLoad, FlagsNamed
    <1>9. \A v \in Watched : l.watched[v] = l.data[v]
        BY <1>3, <1>4, <1>5, WatchedAssumption DEF FullLoad
    <1>10. FullLoad(l)
        BY <1>7, <1>8, <1>9 DEF FullLoad
    <1>11. InFlight(c)'
        BY <1>2, <1>8, <1>10 DEF InFlight, FullLoad, FlagsNamed
    <1>12. Recorded'
        BY <1>2 DEF IInv, Recorded, provider
    <1>13. \A d \in Callers \ {c} : loc'[d] = loc[d] /\ pc'[d] = pc[d]
        BY <1>1, <1>2 DEF LoadWatched, Local, TypeOK
    <1> QED BY <1>2, <1>11, <1>12, <1>13, StepInside DEF Inside

\* A caller that leaves with the provider's state unchanged or recorded.
LEMMA LeaveInFlight ==
    ASSUME IInv, TypeOK', GateExclusive', NEW c \in Callers, Inside(c), Leave(c), Recorded'
    PROVE  IInv'
    <1>1. pc'[c] = "idle" /\ loc'[c] = Blank
        BY DEF Leave, Goto, Local, IInv, TypeOK
    <1>2. InFlight(c)'
        BY <1>1 DEF InFlight, Blank
    <1>3. \A d \in Callers \ {c} : loc'[d] = loc[d] /\ pc'[d] = pc[d]
        BY DEF Leave, Goto, Local, IInv, TypeOK
    <1> QED BY <1>2, <1>3, StepInside

\* A caller that has installed what it loaded, or is about to, and resets its timers.
LEMMA ToPrepareInFlight ==
    ASSUME IInv, TypeOK', GateExclusive', NEW c \in Callers, Inside(c),
           NEW S \in SUBSET Timers, NEW l \in Locals, BeginReset(c, S, l),
           l.keys \subseteq FfItems, l.init => FullLoad(l), Recorded'
    PROVE  IInv'
    <1>1. /\ pc'[c] = "prepare" /\ SameWork(loc'[c], l)
          /\ \A d \in Callers \ {c} : loc'[d] = loc[d] /\ pc'[d] = pc[d]
        BY BeginResetType DEF IInv
    <1>2. InFlight(c)'
        BY <1>1 DEF InFlight, SameWork, FullLoad
    <1> QED BY <1>1, <1>2, StepInside

LEMMA ApplyAllRecorded ==
    ASSUME IInv, TypeOK', GateExclusive', NEW c \in Callers, ApplyAll(c)
    PROVE  IInv'
    <1>1. pc[c] = "watch" /\ FullLoad(loc[c]) /\ loc[c] \in Locals
        BY DEF ApplyAll, IInv, InFlight, TypeOK
    <1>2. Recorded'
        BY <1>1 DEF ApplyAll, Holds, Recorded, FullLoad, FlagsNamed
    <1>3. (Timers \ {AllTimer}) \cup loc[c].elig \in SUBSET Timers
        BY <1>1 DEF Locals
    <1>4. BeginReset(c, (Timers \ {AllTimer}) \cup loc[c].elig, [Blank EXCEPT !.full = TRUE])
        BY DEF ApplyAll
    <1> QED BY <1>1, <1>2, <1>3, <1>4, BlankWith, ToPrepareInFlight DEF Inside

LEMMA ApplyInitRecorded ==
    ASSUME IInv, TypeOK', GateExclusive', NEW c \in Callers, ApplyInit(c)
    PROVE  IInv'
    <1>1. pc[c] = "watch" /\ FullLoad(loc[c]) /\ loc[c] \in Locals /\ loc[c].keys \subseteq FfItems
        BY DEF ApplyInit, IInv, InFlight, TypeOK
    <1>2. Recorded'
        BY DEF ApplyInit, IInv, Recorded, provider
    <1>3. BeginReset(c, Timers, loc[c])
        BY DEF ApplyInit
    <1> QED BY <1>1, <1>2, <1>3, ToPrepareInFlight DEF Inside

LEMMA PrepareRecorded ==
    ASSUME IInv, TypeOK', GateExclusive', NEW c \in Callers, Prepare(c)
    PROVE  IInv'
    <1>1. pc[c] = "prepare" /\ (loc[c].init => FullLoad(loc[c]))
        BY DEF Prepare, AllReset, IInv, InFlight
    <1>2. Recorded'
        <2>1. CASE loc[c].init
            BY <1>1, <2>1 DEF Prepare, Holds, Recorded, FullLoad, FlagsNamed
        <2>2. CASE ~loc[c].init
            BY <2>2 DEF Prepare, IInv, Recorded, provider
        <2> QED BY <2>1, <2>2
    <1> QED BY <1>1, <1>2, LeaveInFlight DEF Prepare, Inside

LEMMA ResetInFlight ==
    ASSUME IInv, TypeOK', GateExclusive', NEW c \in Callers, NEW t \in Timers, Reset(c, t)
    PROVE  IInv'
    <1>1. pc[c] = "prepare" /\ pc' = pc /\ UNCHANGED provider
        BY DEF Reset
    <1>2. SameWork(loc'[c], loc[c]) /\ \A d \in Callers \ {c} : loc'[d] = loc[d]
        BY ResetWork DEF IInv
    <1>3. InFlight(c)'
        BY <1>1, <1>2 DEF IInv, InFlight, SameWork, FullLoad
    <1>4. Recorded'
        BY <1>1 DEF IInv, Recorded, provider
    <1> QED BY <1>1, <1>2, <1>3, <1>4, StepInside DEF Inside

LEMMA ApplyChangesRecorded ==
    ASSUME IInv, TypeOK', GateExclusive', NEW c \in Callers, ApplyChanges(c)
    PROVE  IInv'
    <1> DEFINE l         == loc[c]
               changes   == Changes(l)
               ffUpdated == pc[c] = "apply"
    <1>1. TypeOK /\ InFlight(c) /\ Recorded /\ l \in Locals
        BY DEF IInv, TypeOK
    <1>2. pc[c] \in {"apply", "check"}
        BY DEF ApplyChanges
    <1>3. ~l.init /\ l.keys \subseteq FfItems
        BY <1>1, <1>2 DEF InFlight, FlagLoad
    <1>4. /\ mapped' = [i \in Items |->
                         CASE ffUpdated /\ i \in l.keys          -> l.data[i]
                           [] ffUpdated /\ i \in RemovedFlags(l) -> Absent
                           [] OTHER -> IF i \in changes THEN l.watched[i] ELSE mapped[i]]
          /\ loaded' = loaded
        BY DEF ApplyChanges, Holds
    <1>5. /\ RemovedFlags(l) \subseteq FfItems /\ ByPage \cap changes = {}
          /\ FfItems \cap changes = {}
        BY <1>1, PartsOfItems DEF RemovedFlags, Changes, Recorded
    <1>6. Recorded'
        <2>1. /\ watchedKvs' = l.watched
              /\ etags' = IF ffUpdated THEN l.pages ELSE etags
              /\ ffKeys' = IF ffUpdated THEN l.keys ELSE ffKeys
            BY DEF ApplyChanges
        <2>2. ASSUME loaded, NEW w \in Watched PROVE mapped'[w] = watchedKvs'[w]
            <3>1. w \in Items /\ w \notin FfItems /\ mapped[w] = watchedKvs[w]
                BY <1>1, <2>2, PartsOfItems, WatchedAssumption DEF Recorded
            <3>2. mapped'[w] = IF w \in changes THEN l.watched[w] ELSE mapped[w]
                BY <1>3, <1>4, <1>5, <3>1
            <3> QED BY <2>1, <3>1, <3>2 DEF Changes
        <2>3. CASE ~ffUpdated
            <3>1. \A i \in ByPage \cup FfItems : mapped'[i] = mapped[i]
                BY <1>4, <1>5, <2>3, PartsOfItems
            <3> QED BY <1>1, <1>4, <2>1, <2>2, <2>3, <3>1 DEF Recorded, Backed, FlagsNamed
        <2>4. CASE ffUpdated
            <3>1. FlagLoad(l, FfSelectors)
                BY <1>1, <2>4 DEF InFlight
            <3>2. ASSUME loaded, NEW i \in FfItems PROVE mapped'[i] = l.data[i]
                <4>1. i \in Items /\ i \notin changes
                    BY <1>5, PartsOfItems
                <4>2. i \notin l.keys => l.data[i] = Absent
                    BY <3>1 DEF FlagLoad, FlagsNamed
                <4>3. i \notin ffKeys => mapped[i] = Absent
                    BY <1>1, <3>2 DEF Recorded, FlagsNamed
                <4>4. CASE i \in l.keys
                    BY <1>4, <2>4, <4>1, <4>4 DEF RemovedFlags
                <4>5. CASE i \notin l.keys /\ i \in ffKeys
                    <5>1. mapped'[i] = Absent
                        BY <1>4, <2>4, <4>1, <4>5 DEF RemovedFlags
                    <5> QED BY <4>2, <4>5, <5>1
                <4>6. CASE i \notin l.keys /\ i \notin ffKeys
                    <5>1. mapped'[i] = mapped[i]
                        BY <1>4, <4>1, <4>6 DEF RemovedFlags
                    <5> QED BY <4>2, <4>3, <4>6, <5>1
                <4> QED BY <4>4, <4>5, <4>6
            <3>3. ASSUME loaded, NEW i \in ByPage \ FfItems
                  PROVE  mapped'[i] = mapped[i] /\ i \in KvItems
                <4>1. i \in KvItems
                    BY DEF ByPage
                <4> QED BY <1>3, <1>4, <1>5, <4>1, PartsOfItems
            <3>4. ASSUME loaded PROVE Backed(mapped', etags', Sel)
                <4> SUFFICES ASSUME NEW i \in ByPage
                    PROVE \/ mapped'[i] = Absent
                             /\ \A n \in Sel : i \in Selectors[n] => l.pages[n][i] = Absent
                          \/ \E n \in Sel : i \in Selectors[n] /\ l.pages[n][i] = mapped'[i]
                    BY <2>1, <2>4 DEF Backed
                <4>1. CASE i \in FfItems
                    <5>1. mapped'[i] = l.data[i]
                        BY <3>2, <3>4, <4>1
                    <5>2. \A n \in Sel : i \in Selectors[n] => n \in FfSelectors
                        BY <4>1, SelectorOfItem
                    <5> HIDE DEF l
                    <5> QED BY <3>1, <5>1, <5>2, SelectorsType DEF FlagLoad, Backed
                <4>2. CASE i \notin FfItems
                    <5>1. mapped'[i] = mapped[i] /\ i \in KvItems
                        BY <3>3, <3>4, <4>2
                    <5>2. \A n \in Sel : i \in Selectors[n] => l.pages[n] = etags[n]
                        BY <3>1, <5>1, SelectorOfItem DEF FlagLoad
                    <5> HIDE DEF l
                    <5> QED BY <1>1, <3>4, <5>1, <5>2 DEF Recorded, Backed
                <4> QED BY <4>1, <4>2
            <3>5. ASSUME loaded PROVE FlagsNamed(mapped', ffKeys')
                BY <2>1, <2>4, <3>1, <3>2, <3>5 DEF FlagLoad, FlagsNamed
            <3> QED BY <1>3, <1>4, <2>1, <2>2, <2>4, <3>4, <3>5 DEF Recorded
        <2> QED BY <2>3, <2>4
    <1> DEFINE changed == Changed(changes, ffUpdated)
               m       == [Blank EXCEPT !.changed = changed]
    <1>7. BeginReset(c, l.elig, m)
        BY DEF ApplyChanges
    <1>8. changed \in BOOLEAN /\ l.elig \in SUBSET Timers
        BY <1>1 DEF Changed, Locals
    <1> HIDE DEF changed
    <1>9. m \in Locals /\ m.keys = {} /\ ~m.init
        BY <1>8, BlankWith
    <1> HIDE DEF m
    <1> QED BY <1>2, <1>6, <1>7, <1>8, <1>9, ToPrepareInFlight DEF Inside

LEMMA BeginInFlight ==
    ASSUME IInv, TypeOK', GateExclusive', NEW c \in Callers,
           BeginInitialize(c) \/ BeginRefresh(c) \/ FailOver(c)
    PROVE  IInv'
    <1>1. TypeOK /\ loc[c] \in Locals /\ InFlight(c) /\ Blank \in Locals
        BY BlankType DEF IInv, TypeOK
    <1>2. Inside(c) /\ UNCHANGED provider
        BY DEF BeginInitialize, BeginRefresh, FailOver, Requesting, Inside
    <1>3. Recorded' /\ etags' = etags
        BY <1>2 DEF IInv, Recorded, provider
    <1>4. ASSUME NEW l \in Locals, l.keys \subseteq FfItems, BeginLoad(c, Sel, TRUE, l)
          PROVE  InFlight(c)'
        BY <1>1, <1>4, BeginLoadInFlight
    <1>5. ASSUME NEW k \in 0..Clients, NEW e \in SUBSET Timers,
                 Local(c, Attempt(k, e)), Goto(c, "check")
          PROVE  InFlight(c)'
        <2>1. loc'[c] = Attempt(k, e) /\ pc'[c] = "check"
            BY <1>1, <1>5 DEF Local, Goto, TypeOK
        <2>2. /\ ~Attempt(k, e).full /\ ~Attempt(k, e).init
              /\ Attempt(k, e).pages = etags /\ Attempt(k, e).keys = {}
            BY DEF Attempt, Blank
        <2> QED BY <1>3, <2>1, <2>2 DEF InFlight
    <1>6. InFlight(c)'
        <2>1. CASE BeginInitialize(c)
            <3> DEFINE l == [Blank EXCEPT !.attempt = 1, !.init = TRUE]
            <3>1. 1 \in 0..Clients
                BY BoundsAssumption
            <3>2. l \in Locals /\ l.keys = {}
                BY <1>1, <3>1 DEF Locals, Blank
            <3>3. BeginLoad(c, Sel, TRUE, l)
                BY <2>1 DEF BeginInitialize
            <3> HIDE DEF l
            <3> QED BY <1>4, <3>2, <3>3
        <2>2. CASE BeginRefresh(c)
            <3>1. 1 \in 0..Clients /\ Due \in SUBSET Timers
                BY BoundsAssumption DEF Due
            <3> QED BY <1>5, <2>2, <3>1 DEF BeginRefresh
        <2>3. CASE FailOver(c)
            <3>1. /\ loc[c].attempt + 1 \in 0..Clients
                  /\ loc[c].keys \in SUBSET FfItems /\ loc[c].elig \in SUBSET Timers
                BY <1>1, <2>3, BoundsAssumption DEF FailOver, Locals, InFlight
            <3> DEFINE l == [Blank EXCEPT !.attempt = loc[c].attempt + 1, !.init = TRUE,
                                          !.keys = loc[c].keys]
            <3>2. l \in Locals /\ l.keys \subseteq FfItems
                BY <1>1, <3>1, PartsOfItems DEF Locals
            <3>3. \/ BeginLoad(c, Sel, TRUE, l)
                  \/ /\ Local(c, Attempt(loc[c].attempt + 1, loc[c].elig))
                     /\ Goto(c, "check")
                BY <2>3 DEF FailOver
            <3> HIDE DEF l
            <3> QED BY <1>4, <1>5, <3>1, <3>2, <3>3
        <2> QED BY <2>1, <2>2, <2>3
    <1>7. \A d \in Callers \ {c} : loc'[d] = loc[d] /\ pc'[d] = pc[d]
        BY <1>1 DEF BeginInitialize, BeginRefresh, FailOver, BeginLoad, Local, Goto, TypeOK
    <1> QED BY <1>2, <1>3, <1>6, <1>7, StepInside

\* Whatever happens outside the gate leaves the provider's state and the locals
\* that matter as they are.
LEMMA OutsideInFlight ==
    ASSUME IInv, TypeOK', GateExclusive',
           Environment \/ (\E c \in Callers : Exchange(c)) \/ UNCHANGED vars
    PROVE  IInv'
    <1>1. UNCHANGED provider /\ TypeOK
        BY DEF Environment, Write, Remove, Expire, ExpireInit, ExpireSecret, SetDirty,
               Exchange, vars, IInv
    <1>2. Recorded' /\ etags' = etags
        BY <1>1 DEF IInv, Recorded, provider
    <1>3. ASSUME NEW d \in Callers PROVE InFlight(d)'
        <2>1. loc[d] \in Locals /\ InFlight(d)
            BY DEF IInv, TypeOK
        <2>2. CASE \E t \in Timers : SetDirty(t)
            <3>1. pc' = pc /\ SameWork(loc'[d], loc[d])
                BY <1>1, <2>2, DirtyWork DEF SetDirty
            <3> QED BY <1>2, <2>1, <3>1 DEF InFlight, FullLoad, FlagLoad, SameWork
        <2>3. CASE \E c \in Callers : Exchange(c)
            <3>1. /\ loc' = loc
                  /\ pc'[d] = pc[d] \/ pc'[d] \in {"idle", "decide"}
                BY <1>1, <2>3 DEF Exchange, Goto, TypeOK
            <3> QED BY <1>2, <2>1, <3>1 DEF InFlight, FullLoad, FlagLoad
        <2>4. CASE UNCHANGED <<pc, loc>>
            BY <1>2, <2>1, <2>4 DEF InFlight, FullLoad, FlagLoad
        <2> QED BY <2>2, <2>3, <2>4
            DEF Environment, Write, Remove, Expire, ExpireInit, ExpireSecret, vars
    <1> QED BY <1>2, <1>3 DEF IInv

LEMMA IInvStep == IInv /\ [Next]_vars => IInv'
    <1> SUFFICES ASSUME IInv, [Next]_vars PROVE IInv'
        OBVIOUS
    <1>1. TypeOK' /\ GateExclusive'
        BY TypeStep, GateStep DEF IInv
    <1>2. CASE Environment \/ (\E c \in Callers : Exchange(c)) \/ UNCHANGED vars
        BY <1>1, <1>2, OutsideInFlight
    <1>3. ASSUME NEW c \in Callers, Work(c) PROVE IInv'
        <2>1. CASE NothingDue(c) \/ InitThrottled(c)
            BY <1>1, <2>1, LeaveInFlight
            DEF NothingDue, InitThrottled, Inside, IInv, Recorded, provider
        <2>2. CASE BeginInitialize(c) \/ BeginRefresh(c)
            BY <1>1, <2>2, BeginInFlight
        <2>3. CASE \E w \in Watched : CheckWatcher(c, w) \/ LoadWatched(c, w)
            BY <1>1, <2>3, CheckInFlight, LoadWatchedInFlight
        <2>4. CASE \E n \in Sel : CheckCollection(c, n) \/ CheckFlags(c, n) \/ LoadSelector(c, n)
            BY <1>1, <2>4, CheckInFlight, LoadSelectorInFlight
        <2>5. CASE ApplyAll(c) \/ ApplyChanges(c) \/ ApplyInit(c) \/ Prepare(c)
            BY <1>1, <2>5, ApplyAllRecorded, ApplyChangesRecorded, ApplyInitRecorded,
               PrepareRecorded
        <2>6. CASE \E t \in Timers : Reset(c, t)
            BY <1>1, <2>6, ResetInFlight
        <2>7. CASE NothingChanged(c)
            BY <1>1, <2>7, LeaveInFlight
            DEF NothingChanged, AllReset, Inside, IInv, Recorded, provider
        <2> QED BY <1>3, <2>1, <2>2, <2>3, <2>4, <2>5, <2>6, <2>7 DEF Work
    <1>4. ASSUME NEW c \in Callers, Fault(c) PROVE IInv'
        <2>1. CASE NoClientAvailable(c) \/ PrepareFails(c) \/ Fail(c)
            BY <1>1, <2>1, LeaveInFlight
            DEF NoClientAvailable, PrepareFails, AllReset, Fail, Requesting, Inside, IInv,
                Recorded, provider
        <2>2. CASE FailOver(c)
            BY <1>1, <2>2, BeginInFlight
        <2> QED BY <1>4, <2>1, <2>2 DEF Fault
    <1> QED BY <1>2, <1>3, <1>4 DEF Next

\* A page recorded for a selector that agrees with the listing agrees with the store.
LEMMA UnchangedPage ==
    ASSUME NEW n \in Sel, NEW i \in Selectors[n], i \in Items, ~HaveCollectionsChanged(n)
    PROVE  etags[n][i] = store[i]
    BY SelectorsAssumption DEF HaveCollectionsChanged, Page

LEMMA RecordedIsDetectable == IInv => StaleIsDetectable
    <1> SUFFICES ASSUME IInv, loaded PROVE StaleIsDetectable
        BY DEF StaleIsDetectable
    <1>1. /\ \A w \in Watched : mapped[w] = watchedKvs[w]
          /\ Backed(mapped, etags, Sel)
        BY DEF IInv, Recorded
    <1>2. ASSUME NEW i \in ByPage, mapped[i] # store[i],
                 \A n \in Sel : i \in Selectors[n] => ~HaveCollectionsChanged(n),
                 \E n \in Sel : i \in Selectors[n]
          PROVE  FALSE
        <2>1. i \in Items
            BY PartsOfItems
        <2>2. \A n \in Sel : i \in Selectors[n] => etags[n][i] = store[i]
            BY <1>2, <2>1, UnchangedPage
        <2> QED BY <1>1, <1>2, <2>2 DEF Backed
    <1>3. ASSUME NEW i \in FfItems, mapped[i] # store[i]
          PROVE  \E n \in FfSelectors : HaveCollectionsChanged(n)
        <2>1. i \in ByPage /\ \E n \in Sel : i \in Selectors[n]
            BY SelectorsType DEF ByPage, FfItems
        <2>2. \A n \in Sel : i \in Selectors[n] => n \in FfSelectors
            BY SelectorOfItem
        <2> QED BY <1>2, <1>3, <2>1, <2>2
    <1>4. ASSUME RegisterAll, NEW i \in KvItems, mapped[i] # store[i]
          PROVE  \E n \in KvSelectors : HaveCollectionsChanged(n)
        <2>1. i \in ByPage /\ \E n \in Sel : i \in Selectors[n]
            BY <1>4 DEF ByPage, KvItems, KvSelectors
        <2>2. \A n \in Sel : i \in Selectors[n] => n \in KvSelectors
            BY SelectorOfItem
        <2> QED BY <1>2, <1>4, <2>1, <2>2
    <1> QED BY <1>1, <1>3, <1>4 DEF StaleIsDetectable

LEMMA InitInvariant == Init => IInv
    <1> SUFFICES ASSUME Init PROVE IInv
        OBVIOUS
    <1>1. TypeOK /\ GateExclusive
        BY InitTypes
    <1>2. Recorded
        BY DEF Init, Recorded
    <1>3. ASSUME NEW c \in Callers PROVE InFlight(c)
        BY DEF Init, InFlight, Blank
    <1> QED BY <1>1, <1>2, <1>3 DEF IInv

\* Whatever is written, removed, pushed or failing between the requests of a
\* refresh, the state it installs never carries an etag that hides an update:
\* a later check of the watcher concerned still sees it.
THEOREM StaleDetectable == Spec => []StaleIsDetectable
    BY InitInvariant, IInvStep, RecordedIsDetectable, PTL DEF Spec

---------------------------------------------------------------------------
(* What is held is shown, or about to be *)

\* A refresh that has taken something over.
MustShow(l) == ~l.init /\ (l.full \/ l.changed)

\* What PrepareData has not shown yet is on its way there.
Pending ==
    prepareFaults = 0 =>
        \/ published = mapped
        \/ \E c \in Callers : pc[c] = "prepare" /\ MustShow(loc[c])

\* A caller that works elsewhere, or has changed nothing, is the only one past the gate.
LEMMA NothingPending ==
    ASSUME IInv, Pending, prepareFaults = 0, NEW c \in Callers, Inside(c),
           pc[c] = "prepare" => ~MustShow(loc[c])
    PROVE  published = mapped
    BY DEF IInv, GateExclusive, Pending, Inside

LEMMA PendingStep == IInv /\ Pending /\ [Next]_vars => Pending'
    <1> SUFFICES ASSUME IInv, Pending, [Next]_vars, prepareFaults' = 0
                 PROVE  \/ published' = mapped'
                        \/ \E c \in Callers : pc'[c] = "prepare" /\ MustShow(loc'[c])
        BY DEF Pending
    <1>0. TypeOK /\ prepareFaults \in Nat
        BY DEF IInv, TypeOK
    <1>1. CASE Environment \/ (\E c \in Callers : Exchange(c)) \/ UNCHANGED vars
        <2>1. UNCHANGED <<mapped, published, prepareFaults>>
            BY <1>1 DEF Environment, Write, Remove, Expire, ExpireInit, ExpireSecret, SetDirty,
                        Exchange, vars, provider, bounded
        <2>2. ASSUME NEW c \in Callers, pc[c] = "prepare", MustShow(loc[c])
              PROVE  pc'[c] = "prepare" /\ MustShow(loc'[c])
            <3>2. CASE \E t \in Timers : SetDirty(t)
                <4>1. pc' = pc /\ SameWork(loc'[c], loc[c])
                    BY <1>0, <3>2, DirtyWork DEF SetDirty
                <4> QED BY <2>2, <4>1 DEF MustShow, SameWork
            <3>3. CASE \E d \in Callers : Exchange(d)
                <4>1. loc' = loc /\ pc'[c] = pc[c]
                    BY <1>0, <2>2, <3>3 DEF Exchange, Goto, TypeOK
                <4> QED BY <2>2, <4>1
            <3>4. CASE UNCHANGED <<pc, loc>>
                BY <2>2, <3>4
            <3> QED BY <1>1, <3>2, <3>3, <3>4
                    DEF Environment, Write, Remove, Expire, ExpireInit, ExpireSecret, vars
        <2> QED BY <2>1, <2>2 DEF Pending
    <1>2. ASSUME NEW c \in Callers, Work(c)
          PROVE  \/ published' = mapped'
                 \/ \E d \in Callers : pc'[d] = "prepare" /\ MustShow(loc'[d])
        <2>1. CASE Prepare(c)
            BY <2>1 DEF Prepare
        <2>2. CASE NothingDue(c) \/ InitThrottled(c) \/ BeginInitialize(c) \/ BeginRefresh(c)
            BY <2>2, NothingPending
            DEF NothingDue, InitThrottled, BeginInitialize, BeginRefresh, Inside, provider, bounded
        <2>3. CASE \E w \in Watched : CheckWatcher(c, w) \/ LoadWatched(c, w)
            BY <2>3, NothingPending DEF CheckWatcher, LoadWatched, Inside, provider, bounded
        <2>4. CASE \E n \in Sel : CheckCollection(c, n) \/ CheckFlags(c, n) \/ LoadSelector(c, n)
            BY <2>4, NothingPending
            DEF CheckCollection, CheckFlags, LoadSelector, Inside, provider, bounded
        <2>5. CASE ApplyAll(c)
            <3> DEFINE l == [Blank EXCEPT !.full = TRUE]
                       S == (Timers \ {AllTimer}) \cup loc[c].elig
            <3>1. BeginReset(c, S, l)
                BY <2>5 DEF ApplyAll
            <3>2. S \in SUBSET Timers /\ l \in Locals /\ MustShow(l)
                BY <1>0, BlankWith DEF TypeOK, Locals, MustShow
            <3> HIDE DEF S, l
            <3>3. pc'[c] = "prepare" /\ SameWork(loc'[c], l)
                BY <1>0, <3>1, <3>2, BeginResetType
            <3>4. MustShow(loc'[c])
                BY <3>2, <3>3 DEF MustShow, SameWork
            <3> QED BY <3>3, <3>4
        <2>6. CASE ApplyInit(c)
            BY <2>6, NothingPending DEF ApplyInit, Inside, provider, bounded
        <2>7. CASE ApplyChanges(c)
            <3> DEFINE l       == loc[c]
                       changed == Changed(Changes(l), pc[c] = "apply")
                       m       == [Blank EXCEPT !.changed = changed]
            <3>1. BeginReset(c, l.elig, m)
                BY <2>7 DEF ApplyChanges
            <3>2. l.elig \in SUBSET Timers /\ changed \in BOOLEAN
                BY <1>0 DEF TypeOK, Locals, Changed
            <3>3. CASE changed
                <4> HIDE DEF changed
                <4>1. m \in Locals /\ ~m.init /\ m.changed
                    BY <3>2, <3>3, BlankWith
                <4> HIDE DEF m
                <4>2. pc'[c] = "prepare" /\ SameWork(loc'[c], m)
                    BY <1>0, <3>1, <3>2, <4>1, BeginResetType
                <4>3. MustShow(loc'[c])
                    BY <4>1, <4>2 DEF MustShow, SameWork
                <4> QED BY <4>2, <4>3
            <3>4. CASE ~changed
                <4>1. Changes(loc[c]) = {} /\ pc[c] = "check"
                    BY <2>7, <3>4 DEF Changed, ApplyChanges
                <4>2. mapped' = [i \in Items |-> mapped[i]]
                    BY <2>7, <4>1 DEF ApplyChanges, Holds
                <4>3. mapped' = mapped
                    BY <1>0, <4>2 DEF TypeOK
                <4> QED BY <2>7, <4>1, <4>3, NothingPending DEF ApplyChanges, Inside, bounded
            <3> QED BY <3>3, <3>4
        <2>8. ASSUME NEW t \in Timers, Reset(c, t)
              PROVE  \/ published' = mapped'
                     \/ \E d \in Callers : pc'[d] = "prepare" /\ MustShow(loc'[d])
            <3>1. SameWork(loc'[c], loc[c]) /\ pc[c] = "prepare" /\ pc' = pc
                  /\ UNCHANGED <<mapped, published, prepareFaults>>
                BY <1>0, <2>8, ResetWork DEF Reset, provider, bounded
            <3>2. CASE MustShow(loc[c])
                BY <3>1, <3>2 DEF MustShow, SameWork
            <3>3. CASE ~MustShow(loc[c])
                BY <3>1, <3>3, NothingPending DEF Inside
            <3> QED BY <3>2, <3>3
        <2>9. CASE NothingChanged(c)
            BY <2>9, NothingPending
            DEF NothingChanged, AllReset, MustPublish, MustShow, Inside, provider, bounded
        <2> QED BY <1>2, <2>1, <2>2, <2>3, <2>4, <2>5, <2>6, <2>7, <2>8, <2>9 DEF Work
    <1>3. ASSUME NEW c \in Callers, Fault(c) PROVE published' = mapped'
        <2>1. CASE PrepareFails(c)
            BY <1>0, <2>1 DEF PrepareFails
        <2>2. CASE NoClientAvailable(c) \/ Fail(c) \/ FailOver(c)
            BY <2>2, NothingPending DEF NoClientAvailable, Fail, FailOver, Requesting, Inside, provider
        <2> QED BY <1>3, <2>1, <2>2 DEF Fault
    <1> QED BY <1>1, <1>2, <1>3 DEF Next

\* Unless PrepareData fails, no way out of RefreshAsync leaves the application with
\* other data than the provider holds.
THEOREM HeldIsShown == Spec => []PublishedIsMapped
    <1>1. Init => Pending
        BY DEF Init, Pending
    <1>2. IInv /\ Pending => PublishedIsMapped
        BY DEF IInv, GateExclusive, Pending, PublishedIsMapped, Inside
    <1> QED BY <1>1, <1>2, InitInvariant, IInvStep, PendingStep, PTL DEF Spec

---------------------------------------------------------------------------
(* A full reload has a reason *)

\* A recorded page has nothing but what its selector loads.
Shaped(pages) ==
    \A n \in Sel : \A i \in Items \ Selectors[n] : pages[n][i] = Absent

\* What a refresh compares with: pages of the selectors, for key-value selectors.
Compares(l) == Shaped(l.pages) /\ l.cols \subseteq KvSelectors

\* Whatever is compared has come from a page of its selector.
Compared == Shaped(etags) /\ \A c \in Callers : Compares(loc[c])

LEMMA BlankCompares ==
    /\ Compares(Blank)
    /\ Shaped(etags) => \A k, e : Compares(Attempt(k, e))
    <1>1. \A n \in Sel, i \in Items : Blank.pages[n][i] = Absent
        BY DEF Blank, Nothing
    <1>2. Blank.cols = {}
        BY DEF Blank
    <1>3. ASSUME NEW k, NEW e
          PROVE  Attempt(k, e).pages = etags /\ Attempt(k, e).cols \in {{}, KvSelectors}
        BY DEF Attempt, Blank
    <1> QED BY <1>1, <1>2, <1>3 DEF Compares, Shaped

LEMMA PageShaped ==
    ASSUME NEW pages \in [Sel -> Content], Shaped(pages), NEW n \in Sel, NEW v
    PROVE  Shaped([pages EXCEPT ![n] = Page(v, Selectors[n])])
    BY SelectorsType DEF Shaped, Page

\* A step that gives its caller locals of that kind.
LEMMA LocalCompares ==
    ASSUME TypeOK, Compared, NEW c \in Callers, NEW l, Compares(l), Local(c, l),
           Shaped(etags')
    PROVE  Compared'
    BY DEF TypeOK, Compared, Local, Compares, Shaped

LEMMA SameLocalsCompare ==
    ASSUME Compared, UNCHANGED loc, Shaped(etags') PROVE Compared'
    BY DEF Compared, Compares, Shaped

LEMMA BeginLoadCompares ==
    ASSUME TypeOK, Compared, NEW c \in Callers, NEW S, NEW full, NEW l \in Locals,
           BeginLoad(c, S, full, l), Compares(l), UNCHANGED etags
    PROVE  Compared'
    <1> DEFINE n == [l EXCEPT !.todo = S, !.full = full, !.data = Nothing,
                              !.kvs = {}, !.cols = {}, !.ffs = {}]
    <1>1. n.pages = l.pages /\ n.cols = {} /\ Local(c, n)
        BY DEF Locals, BeginLoad
    <1> HIDE DEF n
    <1> QED BY <1>1, LocalCompares DEF Compares, Compared

LEMMA CheckCompares ==
    ASSUME TypeOK, Compared, NEW c \in Callers,
           \/ \E w \in Watched : CheckWatcher(c, w) \/ LoadWatched(c, w)
           \/ \E n \in Sel : CheckCollection(c, n) \/ CheckFlags(c, n)
    PROVE  Compared'
    <1>1. loc[c] \in Locals /\ Compares(loc[c]) /\ UNCHANGED etags
        BY DEF TypeOK, Compared, CheckWatcher, LoadWatched, CheckCollection, CheckFlags, provider
    <1>2. ASSUME NEW w \in Watched, CheckWatcher(c, w) \/ LoadWatched(c, w) PROVE Compared'
        <2> DEFINE l == [loc[c] EXCEPT !.kvs = @ \ {w}, !.late = {}, !.watched[w] = store[w]]
                   m == [loc[c] EXCEPT !.kvs = @ \ {w}, !.watched[w] = store[w],
                                       !.data[w] = store[w]]
        <2>1. BeginLoad(c, Sel, TRUE, l) \/ Local(c, l) \/ Local(c, m)
            BY <1>2 DEF CheckWatcher, LoadWatched
        <2>2. l \in Locals
            BY <1>1, StoreType, CheckedReadType
        <2>3. /\ l.pages = loc[c].pages /\ l.cols = loc[c].cols
              /\ m.pages = loc[c].pages /\ m.cols = loc[c].cols
            BY <1>1 DEF Locals
        <2> HIDE DEF l, m
        <2> QED BY <1>1, <2>1, <2>2, <2>3, BeginLoadCompares, LocalCompares DEF Compares, Compared
    <1>3. ASSUME NEW n \in Sel, CheckCollection(c, n) \/ CheckFlags(c, n) PROVE Compared'
        <2>1. PICK l \in {[loc[c] EXCEPT !.cols = @ \ {n}],
                          [loc[c] EXCEPT !.ffs = @ \ {n}, !.late = {}]} :
                  \/ BeginLoad(c, Sel, TRUE, loc[c])
                  \/ BeginLoad(c, FfSelectors, FALSE, l)
                  \/ Local(c, l)
            BY <1>3 DEF CheckCollection, CheckFlags
        <2>2. l \in Locals /\ l.pages = loc[c].pages /\ l.cols \subseteq loc[c].cols
            BY <1>1 DEF Locals
        <2> QED BY <1>1, <2>1, <2>2, BeginLoadCompares, LocalCompares DEF Compares, Compared
    <1> QED BY <1>2, <1>3

LEMMA LoadSelectorCompares ==
    ASSUME TypeOK, Compared, NEW c \in Callers, NEW n \in Sel, LoadSelector(c, n)
    PROVE  Compared'
    <1> DEFINE page == Page(store, Selectors[n])
               l    == [loc[c] EXCEPT
                          !.todo = @ \ {n}, !.data = Overwrite(@, page),
                          !.pages[n] = page,
                          !.keys = IF n \in FfSelectors
                                   THEN @ \cup {i \in Items : page[i] # Absent} ELSE @]
               last == [l EXCEPT !.watched = [w \in Watched |-> l.data[w]],
                                 !.kvs = NotLoaded(l.data)]
    <1>1. loc[c] \in Locals /\ Compares(loc[c]) /\ UNCHANGED etags
        BY DEF TypeOK, Compared, LoadSelector, provider
    <1>2. Local(c, l) \/ Local(c, last)
        BY DEF LoadSelector
    <1>3. /\ l.pages = [loc[c].pages EXCEPT ![n] = page] /\ l.cols = loc[c].cols
          /\ last.pages = l.pages /\ last.cols = l.cols
        BY <1>1 DEF Locals
    <1>4. loc[c].pages \in [Sel -> Content]
        BY <1>1 DEF Locals
    <1>5. Shaped([loc[c].pages EXCEPT ![n] = page])
        BY <1>1, <1>4, PageShaped DEF Compares
    <1> HIDE DEF page, l, last
    <1>6. Compares(l) /\ Compares(last)
        BY <1>1, <1>3, <1>5 DEF Compares
    <1> QED BY <1>1, <1>2, <1>6, LocalCompares DEF Compared

LEMMA BeginCompares ==
    ASSUME TypeOK, Compared, NEW c \in Callers,
           BeginInitialize(c) \/ BeginRefresh(c) \/ FailOver(c)
    PROVE  Compared'
    <1>1. Blank \in Locals /\ loc[c] \in Locals /\ UNCHANGED etags /\ Shaped(etags)
        BY BlankType DEF TypeOK, Compared, BeginInitialize, BeginRefresh, FailOver, provider
    <1>2. CASE BeginInitialize(c)
        <2> DEFINE l == [Blank EXCEPT !.attempt = 1, !.init = TRUE]
        <2>1. 1 \in 0..Clients
            BY BoundsAssumption
        <2>2. l \in Locals /\ l.pages = Blank.pages /\ l.cols = Blank.cols
            BY <1>1, <2>1 DEF Locals
        <2>3. BeginLoad(c, Sel, TRUE, l)
            BY <1>2 DEF BeginInitialize
        <2> HIDE DEF l
        <2> QED BY <1>1, <2>2, <2>3, BlankCompares, BeginLoadCompares DEF Compares
    <1>3. CASE BeginRefresh(c)
        BY <1>1, <1>3, BlankCompares, LocalCompares DEF BeginRefresh
    <1>4. CASE FailOver(c)
        <2> DEFINE l == [Blank EXCEPT !.attempt = loc[c].attempt + 1, !.init = TRUE,
                                      !.keys = loc[c].keys]
        <2>1. loc[c].attempt + 1 \in 0..Clients
            BY <1>1, <1>4, BoundsAssumption DEF FailOver, Locals
        <2>2. l \in Locals /\ l.pages = Blank.pages /\ l.cols = Blank.cols
            BY <1>1, <2>1 DEF Locals
        <2>3. BeginLoad(c, Sel, TRUE, l) \/ Local(c, Attempt(loc[c].attempt + 1, loc[c].elig))
            BY <1>4 DEF FailOver
        <2> HIDE DEF l
        <2> QED BY <1>1, <2>2, <2>3, BlankCompares, BeginLoadCompares, LocalCompares DEF Compares
    <1> QED BY <1>2, <1>3, <1>4

\* A caller that goes on with no selectors to check, or with those it had.
LEMMA BeginResetCompares ==
    ASSUME TypeOK, Compared, NEW c \in Callers, NEW S, NEW l \in Locals,
           BeginReset(c, S, l), l \in {loc[c], [Blank EXCEPT !.full = TRUE]}
                                   \cup {[Blank EXCEPT !.changed = b] : b \in BOOLEAN},
           Shaped(etags')
    PROVE  Compared'
    <1> DEFINE m == [l EXCEPT !.elig = S]
    <1>1. Compares(loc[c]) /\ Compares(Blank)
        BY BlankCompares DEF Compared
    <1>2. \/ l = loc[c]
          \/ l.pages = Blank.pages /\ l.cols = Blank.cols
        BY DEF Blank
    <1>3. m.pages = l.pages /\ m.cols = l.cols /\ Local(c, m)
        BY DEF Locals, BeginReset
    <1> HIDE DEF m
    <1>4. Compares(m)
        BY <1>1, <1>2, <1>3 DEF Compares
    <1> QED BY <1>3, <1>4, LocalCompares

LEMMA ApplyCompares ==
    ASSUME TypeOK, Compared, NEW c \in Callers,
           ApplyAll(c) \/ ApplyChanges(c) \/ ApplyInit(c) \/ Prepare(c)
    PROVE  Compared'
    <1>1. etags' = etags \/ etags' = loc[c].pages
        BY DEF ApplyAll, ApplyChanges, ApplyInit, Prepare, provider
    <1>2. Shaped(etags') /\ loc[c] \in Locals
        BY <1>1 DEF Compared, Compares, Shaped, TypeOK
    <1>3. CASE ApplyAll(c)
        BY <1>2, <1>3, BlankWith, BeginResetCompares DEF ApplyAll
    <1>4. CASE ApplyInit(c)
        BY <1>2, <1>4, BeginResetCompares DEF ApplyInit
    <1>5. CASE ApplyChanges(c)
        <2>1. PICK b \in BOOLEAN : BeginReset(c, loc[c].elig, [Blank EXCEPT !.changed = b])
            BY <1>5 DEF ApplyChanges, Changed
        <2> QED BY <1>2, <2>1, BlankWith, BeginResetCompares
    <1>6. CASE Prepare(c)
        BY <1>2, <1>6, BlankCompares, LocalCompares DEF Prepare, Leave
    <1> QED BY <1>3, <1>4, <1>5, <1>6

LEMMA ResetCompares ==
    ASSUME TypeOK, Compared, NEW c \in Callers, NEW t \in Timers, Reset(c, t)
    PROVE  Compared'
    <1>1. SameWork(loc'[c], loc[c]) /\ \A d \in Callers \ {c} : loc'[d] = loc[d]
        BY ResetWork
    <1>2. etags' = etags
        BY DEF Reset, provider
    <1> QED BY <1>1, <1>2 DEF Compared, Compares, Shaped, SameWork

LEMMA ComparedStep == TypeOK /\ Compared /\ [Next]_vars => Compared'
    <1> SUFFICES ASSUME TypeOK, Compared, [Next]_vars PROVE Compared'
        OBVIOUS
    <1>0. Shaped(etags)
        BY DEF Compared
    <1>1. CASE Environment \/ (\E c \in Callers : Exchange(c)) \/ UNCHANGED vars
        <2>1. UNCHANGED etags
            BY <1>1 DEF Environment, Write, Remove, Expire, ExpireInit, ExpireSecret, SetDirty,
                        Exchange, vars, provider
        <2>2. CASE \E t \in Timers : SetDirty(t)
            <3>1. ASSUME NEW c \in Callers
                  PROVE  loc'[c].pages = loc[c].pages /\ loc'[c].cols = loc[c].cols
                BY <2>2, DirtyWork DEF SameWork
            <3> QED BY <1>0, <2>1, <3>1 DEF Compared, Compares, Shaped
        <2>3. CASE UNCHANGED loc
            BY <1>0, <2>1, <2>3, SameLocalsCompare
        <2> QED BY <1>1, <2>2, <2>3
                DEF Environment, Write, Remove, Expire, ExpireInit, ExpireSecret, Exchange, vars
    <1>2. ASSUME NEW c \in Callers, Leave(c), UNCHANGED etags PROVE Compared'
        BY <1>0, <1>2, BlankCompares, LocalCompares DEF Leave
    <1>3. ASSUME NEW c \in Callers, Work(c) PROVE Compared'
        <2>1. CASE NothingDue(c) \/ InitThrottled(c) \/ NothingChanged(c)
            BY <1>2, <2>1 DEF NothingDue, InitThrottled, NothingChanged, provider
        <2> QED BY <1>3, <2>1, BeginCompares, CheckCompares, LoadSelectorCompares, ApplyCompares,
                   ResetCompares
                DEF Work
    <1>4. ASSUME NEW c \in Callers, Fault(c) PROVE Compared'
        BY <1>2, <1>4, BeginCompares
        DEF Fault, NoClientAvailable, PrepareFails, Fail, provider
    <1> QED BY <1>1, <1>3, <1>4 DEF Next

LEMMA ComparedInit == Init => Compared
    <1> SUFFICES ASSUME Init PROVE Compared
        OBVIOUS
    <1>1. Shaped(etags)
        BY DEF Init, Shaped, Nothing
    <1>2. \A c \in Callers : Compares(loc[c])
        BY BlankCompares DEF Init
    <1> QED BY <1>1, <1>2 DEF Compared

\* A listing that lists what its selector loads differs from the recorded page in an item
\* of the selector.
LEMMA ChangedPage ==
    ASSUME Listed = Selectors, TypeOK, Shaped(etags), NEW n \in Sel, HaveCollectionsChanged(n)
    PROVE  \E i \in Selectors[n] : store[i] # etags[n][i]
    <1> SUFFICES ASSUME \A i \in Selectors[n] : store[i] = etags[n][i] PROVE FALSE
        OBVIOUS
    <1>1. etags[n] \in [Items -> Version] /\ Page(store, Selectors[n]) # etags[n]
        BY DEF TypeOK, Content, HaveCollectionsChanged
    <1>2. \A i \in Items : Page(store, Selectors[n])[i] = etags[n][i]
        BY DEF Page, Shaped
    <1>3. Page(store, Selectors[n]) = [i \in Items |-> etags[n][i]]
        BY <1>2 DEF Page
    <1> QED BY <1>1, <1>3

\* A refresh goes from its checks to a full load by CheckCollection alone when everything
\* is registered for refresh, and only because of a selector with a changed page.
LEMMA ReloadStep ==
    ASSUME Listed = Selectors, IInv, Compared, [Next]_vars, NEW c \in Callers,
           pc[c] = "check", pc'[c] = "load", loc'[c].full, RegisterAll
    PROVE  \E n \in KvSelectors : \E i \in Selectors[n] : store[i] # etags[n][i]
    <1>1. TypeOK /\ InFlight(c) /\ Compares(loc[c]) /\ Shaped(etags) /\ Watched = {}
        BY WatchedAssumption DEF IInv, Compared
    <1>2. ASSUME NEW d \in Callers, Exchange(d) \/ Work(d) \/ Fault(d) PROVE d = c
        BY <1>1, <1>2
        DEF TypeOK, Exchange, Work, Fault, NothingDue, InitThrottled, BeginInitialize, BeginRefresh,
            CheckWatcher, LoadWatched, CheckCollection, CheckFlags, LoadSelector, ApplyAll,
            ApplyChanges, ApplyInit, Reset, NothingChanged, Prepare, AllReset, NoClientAvailable,
            PrepareFails, FailOver, Fail, Leave, Goto, BeginLoad, BeginReset
    <1>3. ASSUME NEW n \in Sel, CheckFlags(c, n) PROVE FALSE
        <2> DEFINE m == [loc[c] EXCEPT !.ffs = @ \ {n}, !.late = {}]
                   l == [m EXCEPT !.todo = FfSelectors, !.full = FALSE, !.data = Nothing,
                                  !.kvs = {}, !.cols = {}, !.ffs = {}]
        <2>1. Local(c, l)
            BY <1>1, <1>3 DEF CheckFlags, BeginLoad, TypeOK
        <2>a. loc[c] \in Locals
            BY <1>1 DEF TypeOK
        <2>2. m \in Locals
            BY <2>a DEF Locals
        <2> HIDE DEF m
        <2>3. ~l.full /\ loc'[c] = l
            BY <1>1, <2>1, <2>2 DEF Locals, Local, TypeOK
        <2> QED BY <2>3
    <1>4. PICK n \in Sel : CheckCollection(c, n)
        <2>1. pc' # pc
            BY <1>1
        <2>2. Exchange(c) \/ Work(c) \/ Fault(c)
            BY <1>2, <2>1
            DEF Next, Environment, Write, Remove, Expire, ExpireInit, ExpireSecret, SetDirty, vars
        <2>3. ~Exchange(c) /\ ~Fault(c)
            BY <1>1 DEF Exchange, Fault, NoClientAvailable, PrepareFails, FailOver, Fail, Leave, Goto,
                        InFlight, TypeOK
        <2> QED BY <1>1, <1>3, <2>2, <2>3
            DEF TypeOK, Work, NothingDue, InitThrottled, BeginInitialize, BeginRefresh,
                LoadSelector, ApplyAll, ApplyChanges, ApplyInit, BeginReset, Reset, NothingChanged,
                Prepare, AllReset, Leave, Goto
    <1>5. n \in KvSelectors /\ HaveCollectionsChanged(n)
        BY <1>1, <1>4 DEF CheckCollection, Compares
    <1> QED BY <1>1, <1>5, ChangedPage

\* Where a listing lists exactly what its selector loads, a refresh with RegisterAll that
\* goes on from its checks to load everything has found a key-value selector of whose
\* items the store has another version than the recorded page. With a tag filter the two
\* may differ, and the run tagged_collection shows the reload without a change.
THEOREM ReloadsOnlyOnChange ==
    ASSUME Listed = Selectors PROVE Spec => ReloadOnlyOnChange
    <1>1. IInv /\ Compared /\ [Next]_vars =>
            [\A c \in Callers :
               pc[c] = "check" /\ pc'[c] = "load" /\ loc'[c].full /\ RegisterAll =>
                  \E n \in KvSelectors : \E i \in Selectors[n] : store[i] # etags[n][i]]_vars
        BY ReloadStep
    <1>2. IInv /\ Compared /\ [Next]_vars => Compared'
        BY ComparedStep DEF IInv
    <1> QED BY <1>1, <1>2, InitInvariant, IInvStep, ComparedInit, PTL DEF Spec, ReloadOnlyOnChange

---------------------------------------------------------------------------
(* The refinement of VersionCache, and what follows from its invariant *)

\* The latest version the store can have had of an item that is there.
Latest(i) == IF store[i] = Absent THEN writes ELSE store[i]

\* A version of an item that the provider may take over.
CouldTake(v, i) == v = Absent \/ (newest[i] <= v /\ v <= Latest(i))

\* Nothing is newer than the store; what is held is the newest version there ever was of
\* the item, and what is shown is not newer.
Bounded ==
    \A i \in Items :
        /\ store[i] <= writes /\ newest[i] <= Latest(i) /\ published[i] <= newest[i]
        /\ mapped[i] \in {Absent, newest[i]}

\* The refresh under way has read nothing older than what was ever held.
Ready(c) ==
    LET l == loc[c]
    IN  /\ pc[c] \in {"load", "watch", "apply"} \/ (pc[c] = "prepare" /\ l.init)
              => \A i \in Items : CouldTake(l.data[i], i)
        /\ pc[c] \in {"check", "apply"} \/ (pc[c] = "load" /\ ~l.full)
              => \A w \in Watched : l.watched[w] = watchedKvs[w] \/ CouldTake(l.watched[w], w)

RInv == IInv /\ Bounded /\ \A c \in Callers : Ready(c)

\* A step that takes over what may be taken over, and may show what is then held.
Taken ==
    /\ mapped' \in Content
    /\ \A i \in Items : mapped'[i] = mapped[i] \/ CouldTake(mapped'[i], i)
    /\ newest' = [i \in Items |-> IF mapped'[i] # Absent THEN mapped'[i] ELSE newest[i]]
    /\ published' = published \/ published' = mapped'
    /\ UNCHANGED <<store, writes>>

\* Neither the store nor the provider's state changes.
Still == UNCHANGED <<store, writes, mapped, newest, published, watchedKvs>>

---------------------------------------------------------------------------
LEMMA LatestType ==
    ASSUME TypeOK, NEW i \in Items PROVE Latest(i) \in Nat
    BY DEF TypeOK, Latest

LEMMA StoreCouldBeTaken ==
    ASSUME TypeOK, Bounded, NEW i \in Items PROVE CouldTake(store[i], i)
    BY DEF TypeOK, Bounded, CouldTake, Latest

LEMMA SameNewest ==
    ASSUME TypeOK, Bounded
    PROVE  newest = [i \in Items |-> IF mapped[i] # Absent THEN mapped[i] ELSE newest[i]]
    BY DEF TypeOK, Bounded

LEMMA StillTakes == TypeOK /\ Bounded /\ Still => Taken
    BY SameNewest DEF TypeOK, Still, Taken

LEMMA TakenBounded ==
    ASSUME TypeOK, Bounded, Taken PROVE Bounded'
    <1> SUFFICES ASSUME NEW i \in Items
                 PROVE  /\ store[i] <= writes /\ newest'[i] <= Latest(i)
                        /\ published'[i] <= newest'[i]
                        /\ mapped'[i] \in {Absent, newest'[i]}
        BY DEF Bounded, Taken, Latest
    <1>1. /\ store[i] <= writes /\ newest[i] <= Latest(i) /\ published[i] <= newest[i]
          /\ mapped[i] \in {Absent, newest[i]}
        BY DEF Bounded
    <1>2. /\ newest[i] \in Nat /\ published[i] \in Nat /\ mapped'[i] \in Nat
          /\ Latest(i) \in Nat
        BY LatestType DEF TypeOK, Taken
    <1>3. mapped'[i] = mapped[i] \/ CouldTake(mapped'[i], i)
        BY DEF Taken
    <1>4. newest'[i] = IF mapped'[i] # Absent THEN mapped'[i] ELSE newest[i]
        BY DEF Taken
    <1>5. newest[i] <= newest'[i] /\ newest'[i] <= Latest(i)
        BY <1>1, <1>2, <1>3, <1>4 DEF CouldTake
    <1>6. published'[i] = published[i] \/ published'[i] = mapped'[i]
        BY DEF Taken
    <1> QED BY <1>1, <1>2, <1>4, <1>5, <1>6

\* What could be taken over still can when the store has changed.
LEMMA ChangeKeepsRoom ==
    ASSUME TypeOK, Bounded, NEW i \in Items, Write(i) \/ Remove(i),
           NEW j \in Items, NEW v \in Nat
    PROVE  /\ store'[j] <= writes' /\ Latest(j) <= Latest(j)'
           /\ CouldTake(v, j) => CouldTake(v, j)'
    <1>1. /\ store[j] \in Nat /\ writes \in Nat /\ store[j] <= writes
          /\ writes' = writes + 1 /\ newest' = newest
        BY DEF TypeOK, Bounded, Write, Remove, provider
    <1>2. store'[j] \in {store[j], writes + 1, Absent}
        BY DEF TypeOK, Write, Remove
    <1>3. store'[j] <= writes' /\ Latest(j) <= Latest(j)' /\ Latest(j) \in Nat /\ Latest(j)' \in Nat
        BY <1>1, <1>2 DEF Latest
    <1> QED BY <1>1, <1>3 DEF CouldTake, TypeOK

LEMMA ChangeKeepsRInv ==
    ASSUME RInv, IInv', NEW i \in Items, Write(i) \/ Remove(i) PROVE RInv'
    <1>0. TypeOK /\ Bounded
        BY DEF RInv, IInv
    <1>1. /\ mapped' = mapped /\ published' = published /\ watchedKvs' = watchedKvs
          /\ newest' = newest /\ pc' = pc /\ loc' = loc
        BY DEF Write, Remove, provider
    <1>2. ASSUME NEW j \in Items
          PROVE  /\ store'[j] <= writes' /\ newest[j] <= Latest(j)' /\ published[j] <= newest[j]
                 /\ mapped[j] \in {Absent, newest[j]}
        <2>1. store'[j] <= writes' /\ Latest(j) <= Latest(j)'
            BY <1>0, ChangeKeepsRoom
        <2>2. newest[j] \in Nat /\ Latest(j) \in Nat
            BY <1>0, LatestType DEF TypeOK
        <2>3. Latest(j)' \in Nat
            BY DEF IInv, TypeOK, Latest
        <2> QED BY <1>0, <2>1, <2>2, <2>3 DEF Bounded
    <1>3. Bounded'
        BY <1>1, <1>2 DEF Bounded
    <1>4. ASSUME NEW c \in Callers PROVE Ready(c)'
        <2>1. Ready(c) /\ loc[c] \in Locals
            BY <1>0 DEF RInv, TypeOK
        <2>2. loc[c].data \in Content /\ loc[c].watched \in [Watched -> Nat] /\ Watched \subseteq Items
            BY <2>1, WatchedAssumption DEF Locals
        <2>3. \A j \in Items : CouldTake(loc[c].data[j], j) => CouldTake(loc[c].data[j], j)'
            BY <1>0, <1>1, <2>2, ChangeKeepsRoom
        <2>4. \A w \in Watched : CouldTake(loc[c].watched[w], w) => CouldTake(loc[c].watched[w], w)'
            BY <1>0, <1>1, <2>2, ChangeKeepsRoom
        <2> QED BY <1>1, <2>1, <2>3, <2>4 DEF Ready
    <1> QED BY <1>3, <1>4 DEF RInv

---------------------------------------------------------------------------
(* Steps inside the gate *)

LEMMA StepInsideTakes ==
    ASSUME RInv, IInv', NEW c \in Callers, Inside(c), Taken,
           \A d \in Callers \ {c} : loc'[d] = loc[d] /\ pc'[d] = pc[d], Ready(c)'
    PROVE  RInv'
    <1>1. Bounded'
        BY TakenBounded DEF RInv, IInv
    <1>2. ASSUME NEW d \in Callers \ {c} PROVE Ready(d)'
        <2>1. pc'[d] = "idle"
            BY DEF RInv, IInv, GateExclusive, Inside
        <2> QED BY <2>1 DEF Ready
    <1> QED BY <1>1, <1>2 DEF RInv

LEMMA LeavesReady ==
    ASSUME RInv, IInv', NEW c \in Callers, Inside(c), Taken, Leave(c)
    PROVE  RInv'
    <1>1. pc'[c] = "idle" /\ \A d \in Callers \ {c} : loc'[d] = loc[d] /\ pc'[d] = pc[d]
        BY DEF RInv, IInv, TypeOK, Leave, Goto, Local
    <1>2. Ready(c)'
        BY <1>1 DEF Ready
    <1> QED BY <1>1, <1>2, StepInsideTakes

LEMMA PreparesReady ==
    ASSUME RInv, IInv', NEW c \in Callers, Inside(c), Taken,
           NEW S \in SUBSET Timers, NEW l \in Locals, BeginReset(c, S, l), ~l.init
    PROVE  RInv'
    <1>1. /\ pc'[c] = "prepare" /\ SameWork(loc'[c], l)
          /\ \A d \in Callers \ {c} : loc'[d] = loc[d] /\ pc'[d] = pc[d]
        BY BeginResetType DEF RInv, IInv
    <1>2. Ready(c)'
        BY <1>1 DEF Ready, SameWork
    <1> QED BY <1>1, <1>2, StepInsideTakes

LEMMA StillCouldTake ==
    ASSUME Still, NEW i, NEW v PROVE CouldTake(v, i)' <=> CouldTake(v, i)
    BY DEF Still, CouldTake, Latest

\* What a request, or the start of the lambda, does to its caller.
LEMMA ContinuesReady ==
    ASSUME RInv, IInv', NEW c \in Callers, Inside(c), Still,
           NEW l \in Locals, NEW p,
           pc'[c] = p, loc'[c] = l,
           \A d \in Callers \ {c} : loc'[d] = loc[d] /\ pc'[d] = pc[d],
           p \in {"load", "watch", "apply"} => \A i \in Items : CouldTake(l.data[i], i),
           p \in {"check", "apply"} \/ (p = "load" /\ ~l.full) =>
               \A w \in Watched : l.watched[w] = watchedKvs[w] \/ CouldTake(l.watched[w], w),
           p # "prepare"
    PROVE  RInv'
    <1>1. Ready(c)'
        BY StillCouldTake DEF Ready, Still
    <1>2. Taken
        BY StillTakes DEF RInv, IInv
    <1> QED BY <1>1, <1>2, StepInsideTakes

\* What setting a timer does to its caller.
LEMMA SameWorkReady ==
    ASSUME Still, NEW c \in Callers, Ready(c), SameWork(loc'[c], loc[c]),
           \/ pc'[c] = pc[c]
           \/ pc[c] = "watch" /\ pc'[c] = "prepare"
    PROVE  Ready(c)'
    BY StillCouldTake DEF Ready, Still, SameWork

LEMMA BeginLoadReady ==
    ASSUME RInv, IInv', NEW c \in Callers, Inside(c), Still,
           NEW S \in SUBSET Sel, NEW full \in BOOLEAN, NEW l \in Locals,
           BeginLoad(c, S, full, l),
           full \/ \A w \in Watched : l.watched[w] = watchedKvs[w] \/ CouldTake(l.watched[w], w)
    PROVE  RInv'
    <1> DEFINE n == [l EXCEPT !.todo = S, !.full = full, !.data = Nothing,
                              !.kvs = {}, !.cols = {}, !.ffs = {}]
    <1>1. TypeOK
        BY DEF RInv, IInv
    <1>2. pc'[c] = "load" /\ loc'[c] = n /\ \A d \in Callers \ {c} : loc'[d] = loc[d] /\ pc'[d] = pc[d]
        BY <1>1 DEF BeginLoad, Goto, Local, TypeOK
    <1>3. n \in Locals
        BY DEF Locals, Nothing
    <1>4. \A i \in Items : CouldTake(n.data[i], i)
        BY DEF CouldTake, Nothing, Locals
    <1>5. n.full = full /\ n.watched = l.watched
        BY DEF Locals
    <1> HIDE DEF n
    <1> QED BY <1>2, <1>3, <1>4, <1>5, ContinuesReady

LEMMA ChecksReady ==
    ASSUME RInv, IInv', NEW c \in Callers,
           \/ \E w \in Watched : CheckWatcher(c, w)
           \/ \E n \in Sel : CheckCollection(c, n) \/ CheckFlags(c, n)
    PROVE  RInv'
    <1>1. TypeOK /\ Bounded /\ loc[c] \in Locals /\ Ready(c)
        BY DEF RInv, IInv, TypeOK
    <1>2. pc[c] = "check" /\ Inside(c) /\ Still
        BY DEF CheckWatcher, CheckCollection, CheckFlags, service, provider, Still, Inside
    <1>3. \A w \in Watched : loc[c].watched[w] = watchedKvs[w] \/ CouldTake(loc[c].watched[w], w)
        BY <1>1, <1>2 DEF Ready
    <1>4. ASSUME NEW l \in Locals,
                 \A w \in Watched : l.watched[w] = watchedKvs[w] \/ CouldTake(l.watched[w], w),
                 \/ BeginLoad(c, Sel, TRUE, l)
                 \/ BeginLoad(c, FfSelectors, FALSE, l)
                 \/ Local(c, l) /\ UNCHANGED pc
          PROVE  RInv'
        <2>1. CASE BeginLoad(c, Sel, TRUE, l)
            BY <1>2, <2>1, BeginLoadReady
        <2>2. CASE BeginLoad(c, FfSelectors, FALSE, l)
            BY <1>2, <1>4, <2>2, BeginLoadReady, SelectorsType
        <2>3. CASE Local(c, l) /\ UNCHANGED pc
            <3>1. loc'[c] = l /\ pc'[c] = "check"
                  /\ \A d \in Callers \ {c} : loc'[d] = loc[d] /\ pc'[d] = pc[d]
                BY <1>1, <1>2, <2>3 DEF Local, TypeOK
            <3> QED BY <1>2, <1>4, <3>1, ContinuesReady
        <2> QED BY <1>4, <2>1, <2>2, <2>3
    <1>5. ASSUME NEW w \in Watched, CheckWatcher(c, w) PROVE RInv'
        <2> DEFINE l == [loc[c] EXCEPT !.kvs = @ \ {w}, !.late = {}, !.watched[w] = store[w]]
        <2>1. l \in Locals
            BY <1>1, StoreType, CheckedReadType
        <2>2. l.watched = [loc[c].watched EXCEPT ![w] = store[w]]
              /\ loc[c].watched \in [Watched -> Nat]
            BY <1>1 DEF Locals
        <2>3. CouldTake(store[w], w)
            BY <1>1, StoreCouldBeTaken, WatchedAssumption
        <2>4. BeginLoad(c, Sel, TRUE, l) \/ (Local(c, l) /\ UNCHANGED pc)
            BY <1>5 DEF CheckWatcher
        <2> HIDE DEF l
        <2>5. \A x \in Watched : l.watched[x] = watchedKvs[x] \/ CouldTake(l.watched[x], x)
            BY <1>3, <2>2, <2>3
        <2> QED BY <1>4, <2>1, <2>4, <2>5
    <1>6. ASSUME NEW n \in Sel, CheckCollection(c, n) \/ CheckFlags(c, n) PROVE RInv'
        <2>1. PICK l \in {loc[c], [loc[c] EXCEPT !.cols = @ \ {n}],
                          [loc[c] EXCEPT !.ffs = @ \ {n}, !.late = {}]} :
                  \/ BeginLoad(c, Sel, TRUE, l)
                  \/ BeginLoad(c, FfSelectors, FALSE, l)
                  \/ Local(c, l) /\ UNCHANGED pc
            BY <1>6 DEF CheckCollection, CheckFlags
        <2>2. l \in Locals /\ l.watched = loc[c].watched
            BY <1>1 DEF Locals
        <2> QED BY <1>3, <1>4, <2>1, <2>2
    <1> QED BY <1>5, <1>6

LEMMA LoadSelectorReady ==
    ASSUME RInv, IInv', NEW c \in Callers, NEW n \in Sel, LoadSelector(c, n)
    PROVE  RInv'
    <1> DEFINE L    == loc[c]
               page == Page(store, Selectors[n])
               l    == [L EXCEPT
                          !.todo = @ \ {n}, !.data = Overwrite(@, page),
                          !.pages[n] = page,
                          !.keys = IF n \in FfSelectors
                                   THEN @ \cup {i \in Items : page[i] # Absent} ELSE @]
               last == [l EXCEPT !.watched = [w \in Watched |-> l.data[w]],
                                 !.kvs = NotLoaded(l.data)]
    <1>1. TypeOK /\ TypeOK' /\ Bounded /\ L \in Locals /\ store \in Content /\ Ready(c)
        BY DEF RInv, IInv, TypeOK
    <1>2. pc[c] = "load" /\ Inside(c) /\ Still
        BY DEF LoadSelector, service, provider, Still, Inside
    <1>3. /\ L.data \in Content /\ \A i \in Items : CouldTake(L.data[i], i)
          /\ ~L.full => \A w \in Watched : L.watched[w] = watchedKvs[w] \/ CouldTake(L.watched[w], w)
        BY <1>1, <1>2 DEF Ready, Locals
    <1>4. /\ l.data = Overwrite(L.data, page) /\ l.full = L.full /\ l.watched = L.watched
          /\ last.data = l.data
        BY <1>1 DEF Locals
    <1>5. \A i \in Items : CouldTake(l.data[i], i)
        <2> SUFFICES ASSUME NEW i \in Items PROVE CouldTake(Overwrite(L.data, page)[i], i)
            BY <1>4
        <2>1. Overwrite(L.data, page)[i] \in {L.data[i], store[i]}
            BY DEF Overwrite, Page
        <2> QED BY <1>1, <1>3, <2>1, StoreCouldBeTaken
    <1>6. \/ Local(c, l) /\ UNCHANGED pc
          \/ l.full /\ Local(c, last) /\ Goto(c, "watch")
          \/ ~l.full /\ Local(c, l) /\ Goto(c, "apply")
        BY DEF LoadSelector
    <1> HIDE DEF l, last, page, L
    <1>7. \A d \in Callers \ {c} : loc'[d] = loc[d] /\ pc'[d] = pc[d]
        BY <1>1, <1>6 DEF Local, Goto, TypeOK
    <1>8. \/ loc'[c] = l /\ pc'[c] = "load"
          \/ loc'[c] = last /\ pc'[c] = "watch"
          \/ loc'[c] = l /\ pc'[c] = "apply" /\ ~l.full
        BY <1>1, <1>2, <1>6 DEF Local, Goto, TypeOK
    <1>9. loc'[c] \in Locals
        BY <1>1 DEF TypeOK
    <1> QED BY <1>2, <1>3, <1>4, <1>5, <1>7, <1>8, <1>9, ContinuesReady

LEMMA LoadWatchedReady ==
    ASSUME RInv, IInv', NEW c \in Callers, NEW w \in Watched, LoadWatched(c, w)
    PROVE  RInv'
    <1>1. TypeOK /\ TypeOK' /\ Bounded /\ loc[c] \in Locals /\ Ready(c) /\ w \in Items
        BY WatchedAssumption DEF RInv, IInv, TypeOK
    <1>2. pc[c] = "watch" /\ pc' = pc /\ Inside(c) /\ Still
        BY DEF LoadWatched, service, provider, Still, Inside
    <1>3. /\ loc'[c].data = [loc[c].data EXCEPT ![w] = store[w]]
          /\ \A d \in Callers \ {c} : loc'[d] = loc[d]
        BY <1>1 DEF LoadWatched, Local, Locals, TypeOK
    <1>4. loc[c].data \in Content /\ \A i \in Items : CouldTake(loc[c].data[i], i)
        BY <1>1, <1>2 DEF Ready, Locals
    <1>5. \A i \in Items : CouldTake(loc'[c].data[i], i)
        BY <1>1, <1>3, <1>4, StoreCouldBeTaken
    <1>6. loc'[c] \in Locals
        BY <1>1 DEF TypeOK
    <1> QED BY <1>2, <1>3, <1>5, <1>6, ContinuesReady

LEMMA BeginsReady ==
    ASSUME RInv, IInv', NEW c \in Callers,
           BeginInitialize(c) \/ BeginRefresh(c) \/ FailOver(c)
    PROVE  RInv'
    <1>1. TypeOK /\ loc[c] \in Locals /\ Blank \in Locals
        BY BlankType DEF RInv, IInv, TypeOK
    <1>2. Inside(c) /\ Still
        BY DEF BeginInitialize, BeginRefresh, FailOver, Requesting, Inside, service, provider, Still
    <1>3. ASSUME NEW l \in Locals, BeginLoad(c, Sel, TRUE, l) PROVE RInv'
        BY <1>2, <1>3, BeginLoadReady
    <1>4. ASSUME NEW k \in 0..Clients, NEW e \in SUBSET Timers,
                 Local(c, Attempt(k, e)), Goto(c, "check")
          PROVE  RInv'
        <2>1. /\ loc'[c] = Attempt(k, e) /\ pc'[c] = "check"
              /\ \A d \in Callers \ {c} : loc'[d] = loc[d] /\ pc'[d] = pc[d]
            BY <1>1, <1>4 DEF Local, Goto, TypeOK
        <2>2. Attempt(k, e) \in Locals /\ Attempt(k, e).watched = watchedKvs
            BY <1>1, AttemptType DEF Attempt, Blank
        <2> QED BY <1>2, <2>1, <2>2, ContinuesReady
    <1>5. CASE BeginInitialize(c)
        <2>1. 1 \in 0..Clients
            BY BoundsAssumption
        <2>2. [Blank EXCEPT !.attempt = 1, !.init = TRUE] \in Locals
            BY <1>1, <2>1 DEF Locals
        <2> QED BY <1>3, <1>5, <2>2 DEF BeginInitialize
    <1>6. CASE BeginRefresh(c)
        <2>1. 1 \in 0..Clients /\ Due \in SUBSET Timers
            BY BoundsAssumption DEF Due
        <2> QED BY <1>4, <1>6, <2>1 DEF BeginRefresh
    <1>7. CASE FailOver(c)
        <2>1. loc[c].attempt + 1 \in 0..Clients /\ loc[c].elig \in SUBSET Timers
            BY <1>1, <1>7, BoundsAssumption DEF FailOver, Locals
        <2>2. [Blank EXCEPT !.attempt = loc[c].attempt + 1, !.init = TRUE, !.keys = loc[c].keys]
                 \in Locals
            BY <1>1, <2>1 DEF Locals
        <2> QED BY <1>3, <1>4, <1>7, <2>1, <2>2 DEF FailOver
    <1> QED BY <1>5, <1>6, <1>7

---------------------------------------------------------------------------
(* Steps that take over *)

LEMMA ApplyAllTakes ==
    ASSUME RInv, NEW c \in Callers, ApplyAll(c) PROVE Taken
    <1>1. loc[c] \in Locals /\ Ready(c)
        BY DEF RInv, IInv, TypeOK
    <1> QED BY <1>1 DEF ApplyAll, Holds, Ready, Locals, Taken, service

LEMMA ApplyChangesTakes ==
    ASSUME RInv, IInv', NEW c \in Callers, ApplyChanges(c) PROVE Taken
    <1> DEFINE l == loc[c]
    <1>1. TypeOK /\ TypeOK' /\ Ready(c)
        BY DEF RInv, IInv
    <1>2. pc[c] \in {"apply", "check"}
        BY DEF ApplyChanges
    <1>3. \A w \in Watched : l.watched[w] = watchedKvs[w] \/ CouldTake(l.watched[w], w)
        BY <1>1, <1>2 DEF Ready
    <1>4. pc[c] = "apply" => \A i \in Items : CouldTake(l.data[i], i)
        BY <1>1 DEF Ready
    <1>5. ASSUME NEW i \in Items PROVE mapped'[i] = mapped[i] \/ CouldTake(mapped'[i], i)
        <2>1. \/ mapped'[i] = mapped[i] \/ mapped'[i] = Absent
              \/ pc[c] = "apply" /\ mapped'[i] = l.data[i]
              \/ i \in Changes(l) /\ mapped'[i] = l.watched[i]
            BY DEF ApplyChanges, Holds
        <2>2. CouldTake(Absent, i)
            BY DEF CouldTake
        <2>3. i \in Changes(l) => CouldTake(l.watched[i], i)
            BY <1>3 DEF Changes
        <2> HIDE DEF l
        <2> QED BY <1>4, <2>1, <2>2, <2>3
    <1>6. mapped' \in Content /\ published' = published /\ UNCHANGED <<store, writes>>
        BY <1>1 DEF ApplyChanges, service, TypeOK
    <1>7. newest' = [i \in Items |-> IF mapped'[i] # Absent THEN mapped'[i] ELSE newest[i]]
        BY DEF ApplyChanges, Holds
    <1> QED BY <1>5, <1>6, <1>7 DEF Taken

LEMMA PrepareTakes ==
    ASSUME RInv, IInv', NEW c \in Callers, Prepare(c) PROVE Taken
    <1>1. TypeOK /\ TypeOK' /\ Bounded /\ Ready(c)
        BY DEF RInv, IInv
    <1>2. /\ pc[c] = "prepare" /\ published' = mapped'
          /\ UNCHANGED <<mapped, newest>> \/ (loc[c].init /\ Holds(loc[c].data))
        BY DEF Prepare, AllReset, provider
    <1>3. \A i \in Items : mapped'[i] = mapped[i] \/ CouldTake(mapped'[i], i)
        BY <1>1, <1>2 DEF Holds, Ready
    <1>4. newest' = [i \in Items |-> IF mapped'[i] # Absent THEN mapped'[i] ELSE newest[i]]
        BY <1>1, <1>2, SameNewest DEF Holds
    <1> QED BY <1>1, <1>2, <1>3, <1>4 DEF Prepare, Taken, TypeOK, service

LEMMA AppliesReady ==
    ASSUME RInv, IInv', NEW c \in Callers,
           ApplyAll(c) \/ ApplyChanges(c) \/ ApplyInit(c) \/ Prepare(c)
    PROVE  RInv'
    <1>1. Inside(c) /\ TypeOK /\ Bounded /\ Ready(c)
        BY DEF ApplyAll, ApplyChanges, ApplyInit, Prepare, AllReset, Inside, RInv, IInv
    <1>a. loc[c] \in Locals /\ loc[c].elig \in SUBSET Timers
        BY <1>1 DEF TypeOK, Locals
    <1>2. CASE ApplyAll(c)
        <2>1. BeginReset(c, (Timers \ {AllTimer}) \cup loc[c].elig, [Blank EXCEPT !.full = TRUE])
            BY <1>2 DEF ApplyAll
        <2> QED BY <1>1, <1>a, <1>2, <2>1, BlankWith, ApplyAllTakes, PreparesReady
    <1>3. CASE ApplyChanges(c)
        <2>1. PICK b \in BOOLEAN : BeginReset(c, loc[c].elig, [Blank EXCEPT !.changed = b])
            BY <1>3 DEF ApplyChanges, Changed
        <2> QED BY <1>1, <1>a, <1>3, <2>1, BlankWith, ApplyChangesTakes, PreparesReady
    <1>4. CASE ApplyInit(c)
        <2>1. Still /\ pc[c] = "watch" /\ BeginReset(c, Timers, loc[c])
            BY <1>4 DEF ApplyInit, Still, service, provider
        <2>2. /\ pc'[c] = "prepare" /\ SameWork(loc'[c], loc[c])
              /\ \A d \in Callers \ {c} : loc'[d] = loc[d] /\ pc'[d] = pc[d]
            BY <1>1, <1>a, <2>1, BeginResetType
        <2>3. Ready(c)'
            BY <1>1, <2>1, <2>2, SameWorkReady
        <2> QED BY <1>1, <2>1, <2>2, <2>3, StepInsideTakes, StillTakes
    <1>5. CASE Prepare(c)
        BY <1>1, <1>5, PrepareTakes, LeavesReady DEF Prepare
    <1> QED BY <1>2, <1>3, <1>4, <1>5

LEMMA ResetReady ==
    ASSUME RInv, IInv', NEW c \in Callers, NEW t \in Timers, Reset(c, t)
    PROVE  RInv' /\ Still
    <1>1. Still /\ Inside(c) /\ pc' = pc /\ TypeOK /\ Bounded /\ Ready(c)
        BY DEF Reset, Still, service, provider, Inside, RInv, IInv
    <1>2. SameWork(loc'[c], loc[c]) /\ \A d \in Callers \ {c} : loc'[d] = loc[d]
        BY <1>1, ResetWork
    <1>3. Ready(c)'
        BY <1>1, <1>2, SameWorkReady
    <1> QED BY <1>1, <1>2, <1>3, StepInsideTakes, StillTakes

---------------------------------------------------------------------------
(* All steps *)

\* Time, pushes and arriving callers leave it all alone.
LEMMA OutsideReady ==
    ASSUME RInv, IInv',
           \/ \E t \in Timers : Expire(t)
           \/ ExpireInit \/ ExpireSecret \/ (\E t \in Timers : SetDirty(t))
           \/ \E c \in Callers : Exchange(c)
           \/ UNCHANGED vars
    PROVE  RInv' /\ Taken
    <1>1. TypeOK /\ Still /\ Taken
        BY StillTakes
        DEF RInv, IInv, Expire, ExpireInit, ExpireSecret, SetDirty, Exchange, vars, service,
            provider, Still
    <1>2. Bounded'
        BY <1>1, TakenBounded DEF RInv
    <1>3. ASSUME NEW d \in Callers PROVE Ready(d)'
        <2>1. loc[d] \in Locals /\ Ready(d)
            BY <1>1 DEF RInv, TypeOK
        <2>2. CASE \E t \in Timers : SetDirty(t)
            <3>1. pc' = pc /\ SameWork(loc'[d], loc[d])
                BY <1>1, <2>2, DirtyWork DEF SetDirty
            <3> QED BY <1>1, <2>1, <3>1, SameWorkReady
        <2>3. CASE \E c \in Callers : Exchange(c)
            <3>1. loc' = loc /\ (pc'[d] = pc[d] \/ pc'[d] \in {"idle", "decide"})
                BY <1>1, <2>3 DEF Exchange, Goto, TypeOK
            <3> QED BY <1>1, <2>1, <3>1, StillCouldTake DEF Ready, Still
        <2>4. CASE UNCHANGED <<pc, loc>>
            BY <1>1, <2>1, <2>4, StillCouldTake DEF Ready, Still
        <2> QED BY <2>2, <2>3, <2>4 DEF Expire, ExpireInit, ExpireSecret, vars
    <1> QED BY <1>1, <1>2, <1>3 DEF RInv

\* Every step changes the store or takes over what may be taken over.
LEMMA StepTakes ==
    ASSUME RInv, IInv', [Next]_vars
    PROVE  RInv' /\ (Taken \/ \E i \in Items : Write(i) \/ Remove(i))
    <1>0. TypeOK /\ Bounded
        BY DEF RInv, IInv
    <1>1. ASSUME NEW i \in Items, Write(i) \/ Remove(i) PROVE RInv'
        BY <1>1, ChangeKeepsRInv
    <1>2. ASSUME NEW c \in Callers, Work(c) PROVE RInv' /\ Taken
        <2>1. CASE NothingDue(c) \/ InitThrottled(c)
            <3>1. Inside(c) /\ Leave(c) /\ Still
                BY <2>1 DEF NothingDue, InitThrottled, Inside, Still, service, provider
            <3> QED BY <1>0, <3>1, StillTakes, LeavesReady
        <2>2. CASE BeginInitialize(c) \/ BeginRefresh(c)
            <3>1. Still
                BY <2>2 DEF BeginInitialize, BeginRefresh, Still, service, provider
            <3> QED BY <1>0, <2>2, <3>1, StillTakes, BeginsReady
        <2>3. CASE \E w \in Watched : CheckWatcher(c, w) \/ LoadWatched(c, w)
            <3>1. Still
                BY <2>3 DEF CheckWatcher, LoadWatched, Still, service, provider
            <3> QED BY <1>0, <2>3, <3>1, StillTakes, ChecksReady, LoadWatchedReady
        <2>4. CASE \E n \in Sel : CheckCollection(c, n) \/ CheckFlags(c, n) \/ LoadSelector(c, n)
            <3>1. Still
                BY <2>4 DEF CheckCollection, CheckFlags, LoadSelector, Still, service, provider
            <3> QED BY <1>0, <2>4, <3>1, StillTakes, ChecksReady, LoadSelectorReady
        <2>5. CASE ApplyAll(c) \/ ApplyChanges(c) \/ ApplyInit(c) \/ Prepare(c)
            <3>1. ApplyInit(c) => Still
                BY DEF ApplyInit, Still, service, provider
            <3>2. Taken
                BY <1>0, <2>5, <3>1, StillTakes, ApplyAllTakes, ApplyChangesTakes, PrepareTakes
            <3> QED BY <2>5, <3>2, AppliesReady
        <2>6. ASSUME NEW t \in Timers, Reset(c, t) PROVE RInv' /\ Taken
            BY <1>0, <2>6, ResetReady, StillTakes
        <2>7. CASE NothingChanged(c)
            <3>1. Inside(c) /\ Leave(c) /\ Still
                BY <2>7 DEF NothingChanged, AllReset, Inside, Still, service, provider
            <3> QED BY <1>0, <3>1, StillTakes, LeavesReady
        <2> QED BY <1>2, <2>1, <2>2, <2>3, <2>4, <2>5, <2>6, <2>7 DEF Work
    <1>3. ASSUME NEW c \in Callers, Fault(c) PROVE RInv' /\ Taken
        <2>1. CASE NoClientAvailable(c) \/ PrepareFails(c) \/ Fail(c)
            <3>1. Inside(c) /\ Leave(c) /\ Still
                BY <2>1 DEF NoClientAvailable, PrepareFails, AllReset, Fail, Requesting, Inside, Still,
                            service, provider
            <3> QED BY <1>0, <3>1, StillTakes, LeavesReady
        <2>2. CASE FailOver(c)
            <3>1. Still
                BY <2>2 DEF FailOver, Still, service, provider
            <3> QED BY <1>0, <2>2, <3>1, StillTakes, BeginsReady
        <2> QED BY <1>3, <2>1, <2>2 DEF Fault
    <1> QED BY <1>1, <1>2, <1>3, OutsideReady DEF Next, Environment

LEMMA InitReady == Init => RInv
    <1> SUFFICES ASSUME Init PROVE RInv
        OBVIOUS
    <1>1. IInv
        BY InitInvariant
    <1>2. Bounded
        BY DEF Init, Bounded, Latest, Nothing
    <1>3. \A c \in Callers : Ready(c)
        BY DEF Init, Ready
    <1> QED BY <1>1, <1>2, <1>3 DEF RInv

LEMMA RInvStep == RInv /\ [Next]_vars => RInv'
    BY IInvStep, StepTakes DEF RInv

\* Every copy a refresh collects lies between what is shown and what the store has.
THEOREM AlwaysReady == Spec => []RInv
    BY InitReady, RInvStep, PTL DEF Spec

---------------------------------------------------------------------------
(* The refinement *)

LEMMA InitMaps == Init => VC!Init
    BY DEF Init, VC!Init, VC!Absent, Nothing

\* Every step is one of the abstract cache's or leaves its variables alone.
LEMMA StepMaps == RInv /\ [Next]_vars => [VC!Next]_(VC!vars)
    <1> SUFFICES ASSUME RInv, [Next]_vars PROVE [VC!Next]_(VC!vars)
        OBVIOUS
    <1>1. TypeOK /\ TypeOK'
        BY IInvStep DEF RInv, IInv
    <1>2. ASSUME NEW i \in Items, Write(i) \/ Remove(i) PROVE VC!Next
        <2>1. VC!Change(i)
            BY <1>2 DEF Write, Remove, VC!Change, VC!Absent, provider
        <2> QED BY <2>1 DEF VC!Next
    <1>3. CASE Taken
        <2>1. ASSUME NEW i \in Items PROVE mapped'[i] \in {mapped[i], Absent} \cup (newest[i]..VC!Latest(i))
            <3>1. mapped'[i] = mapped[i] \/ CouldTake(mapped'[i], i)
                BY <1>3 DEF Taken
            <3>2. mapped'[i] \in Nat /\ newest[i] \in Nat /\ Latest(i) \in Nat
                BY <1>1, LatestType DEF TypeOK
            <3>3. VC!Latest(i) = Latest(i)
                BY DEF VC!Latest, VC!Absent, Latest
            <3> QED BY <3>1, <3>2, <3>3 DEF CouldTake
        <2>2. VC!TakeOver
            BY <1>1, <1>3, <2>1 DEF VC!TakeOver, VC!Absent, TypeOK, Taken
        <2>3. VC!Refresh
            BY <1>3, <2>2 DEF Taken, VC!Refresh
        <2> QED BY <2>3 DEF VC!Next
    <1> QED BY <1>2, <1>3, StepTakes, IInvStep DEF RInv

\* However requests, failures, pushes and changes of the store interleave, what the
\* application sees is that of an abstract cache: whole copies, versions in order.
THEOREM Refinement == Spec => ImplementsVersionCache
    BY InitMaps, StepMaps, AlwaysReady, PTL DEF Spec, VC!Spec, ImplementsVersionCache

---------------------------------------------------------------------------
(* What the abstract cache promises, whatever implements it *)

\* The invariant of the abstract cache.
VCInv == VC!TypeOK /\ VC!Between

LEMMA VCInitially == VC!Init => VCInv
    BY DEF VC!Init, VCInv, VC!TypeOK, VC!Between, VC!Latest, VC!Absent

\* A change of the store leaves room for all that is held and shown.
LEMMA VCChangeKeeps ==
    ASSUME VCInv, NEW i \in Items, VC!Change(i) PROVE VCInv'
    <1>1. /\ writes \in Nat /\ writes' = writes + 1
          /\ mapped' = mapped /\ newest' = newest /\ published' = published
          /\ store \in [Items -> 0..writes]
        BY DEF VCInv, VC!TypeOK, VC!Change
    <1>2. store' \in [Items -> 0..writes']
        BY <1>1 DEF VC!Change, VC!Absent
    <1>3. VC!TypeOK'
        BY <1>1, <1>2 DEF VCInv, VC!TypeOK
    <1>4. ASSUME NEW j \in Items PROVE VC!Latest(j) <= VC!Latest(j)'
        <2>1. store[j] \in 0..writes
            BY <1>1
        <2>2. store'[j] \in {store[j], writes + 1, Absent}
            BY <1>1 DEF VC!Change, VC!Absent
        <2> QED BY <1>1, <2>1, <2>2 DEF VC!Latest, VC!Absent
    <1>5. \A j \in Items : VC!Latest(j) \in Nat /\ VC!Latest(j)' \in Nat
        BY <1>1, <1>2 DEF VC!Latest
    <1>6. VC!Between'
        <2> SUFFICES ASSUME NEW j \in Items
                     PROVE  /\ newest[j] <= VC!Latest(j)' /\ published[j] <= newest[j]
                            /\ mapped[j] \in {Absent, newest[j]}
            BY <1>1 DEF VC!Between, VC!Absent
        <2>1. newest[j] \in Nat
            BY DEF VCInv, VC!TypeOK
        <2>2. /\ newest[j] <= VC!Latest(j) /\ published[j] <= newest[j]
              /\ mapped[j] \in {Absent, newest[j]}
            BY DEF VCInv, VC!Between, VC!Absent
        <2> QED BY <1>4, <1>5, <2>1, <2>2
    <1> QED BY <1>3, <1>6 DEF VCInv

\* What a refresh takes over is not older than anything held before, and there is room.
LEMMA VCTakesNewer ==
    ASSUME VCInv, VC!TakeOver, NEW i \in Items
    PROVE  /\ mapped'[i] \in {Absent, newest'[i]}
           /\ newest[i] \in 0..writes /\ newest'[i] \in 0..writes /\ VC!Latest(i) \in 0..writes
           /\ newest[i] <= newest'[i] /\ newest'[i] <= VC!Latest(i)
    <1>1. mapped'[i] \in {mapped[i], Absent} \cup (newest[i]..VC!Latest(i))
        BY DEF VC!TakeOver, VC!Absent
    <1>2. newest'[i] = IF mapped'[i] # Absent THEN mapped'[i] ELSE newest[i]
        BY DEF VC!TakeOver, VC!Absent
    <1>3. /\ writes \in Nat /\ store[i] \in 0..writes /\ newest[i] \in 0..writes
          /\ newest[i] <= VC!Latest(i) /\ mapped[i] \in {Absent, newest[i]}
        BY DEF VCInv, VC!TypeOK, VC!Between, VC!Absent
    <1>4. VC!Latest(i) \in 0..writes
        BY <1>3 DEF VC!Latest
    <1> QED BY <1>1, <1>2, <1>3, <1>4

\* What a refresh may take over fits in between.
LEMMA VCRefreshKeeps ==
    ASSUME VCInv, VC!Refresh PROVE VCInv'
    <1>1. /\ writes \in Nat /\ writes' = writes /\ store' = store
          /\ store \in [Items -> 0..writes]
          /\ published \in [Items -> 0..writes] /\ published' \in {published, mapped'}
          /\ VC!TakeOver
        BY DEF VCInv, VC!TypeOK, VC!Refresh
    <1>2. mapped' = [i \in Items |-> mapped'[i]] /\ newest' = [i \in Items |-> newest'[i]]
        BY <1>1 DEF VC!TakeOver
    <1>3. mapped' \in [Items -> 0..writes] /\ newest' \in [Items -> 0..writes]
        <2>1. \A i \in Items : mapped'[i] \in 0..writes /\ newest'[i] \in 0..writes
            BY <1>1, VCTakesNewer
        <2> QED BY <1>2, <2>1
    <1>4. VC!TypeOK'
        BY <1>1, <1>3 DEF VC!TypeOK
    <1>5. \A i \in Items : VC!Latest(i)' = VC!Latest(i)
        BY <1>1 DEF VC!Latest
    <1>6. VC!Between'
        <2> SUFFICES ASSUME NEW i \in Items
                     PROVE  /\ newest'[i] <= VC!Latest(i) /\ published'[i] <= newest'[i]
                            /\ mapped'[i] \in {Absent, newest'[i]}
            BY <1>5 DEF VC!Between, VC!Absent
        <2>1. published[i] <= newest[i] /\ published[i] \in Nat
            BY <1>1 DEF VCInv, VC!Between
        <2>2. published'[i] = published[i] \/ published'[i] = mapped'[i]
            BY <1>1
        <2> QED BY <1>1, <2>1, <2>2, VCTakesNewer
    <1> QED BY <1>4, <1>6 DEF VCInv

LEMMA VCStep == VCInv /\ [VC!Next]_(VC!vars) => VCInv'
    <1> SUFFICES ASSUME VCInv, [VC!Next]_(VC!vars) PROVE VCInv'
        OBVIOUS
    <1>1. CASE UNCHANGED VC!vars
        BY <1>1 DEF VCInv, VC!TypeOK, VC!Between, VC!Latest, VC!vars
    <1> QED BY <1>1, VCRefreshKeeps, VCChangeKeeps DEF VC!Next

\* In the abstract cache nothing was ever held that the store does not have yet, what is
\* held is the newest version there ever was, and nothing newer is shown. VersionCache's
\* variables are those of ProviderRefresh renamed, of which nothing else is used here.
THEOREM StaysBetween == VC!Spec => [](VC!TypeOK /\ VC!Between)
    BY VCInitially, VCStep, PTL DEF VC!Spec, VCInv

\* What an application comes to see of an item of the abstract cache is not older than
\* any version of it that was ever held or seen, even if the item was missing meanwhile.
THEOREM NeverBack == VC!Spec => VC!NoRollback
    <1>1. ASSUME VCInv, [VC!Next]_(VC!vars), NEW i \in Items,
                 published'[i] \notin {published[i], Absent}
          PROVE  newest[i] <= published'[i]
        <2>1. VC!Refresh /\ published' = mapped'
            BY <1>1 DEF VC!Next, VC!Refresh, VC!Change, VC!vars
        <2>2. mapped'[i] = newest'[i] /\ newest[i] <= newest'[i]
            BY <1>1, <2>1, VCTakesNewer DEF VC!Refresh
        <2> QED BY <2>1, <2>2
    <1>2. VCInv /\ [VC!Next]_(VC!vars)
             => [\A i \in Items : published'[i] \notin {published[i], VC!Absent}
                                  => newest[i] <= published'[i]]_(VC!vars)
        BY <1>1 DEF VC!Absent
    <1> QED BY <1>2, StaysBetween, PTL DEF VC!NoRollback, VC!Spec, VCInv

\* The application never sees of an item a version older than one it has seen before or
\* that the provider ever held, not even after the item was missing for a while: the
\* abstract cache promises it, and the provider implements that cache.
THEOREM NeverRollsBack == Spec => VC!NoRollback
    BY Refinement, NeverBack, PTL DEF ImplementsVersionCache

---------------------------------------------------------------------------
(* Sentinels *)

\* What some selector loads.
Loadable == KvItems \cup FfItems

\* How a sentinel is meant to be registered: with refreshAll, for a key-value that a
\* selector loads and nobody deletes, and no selector that loads it comes after the last
\* one that loads some other item. A sentinel that is loaded after other items, or that
\* is absent and then requested on its own, is recorded with older data than its version.
SentinelsFirst ==
    \A s \in RefreshAll :
        /\ s \in KvItems \ Removable
        /\ \A n \in Sel : s \in Selectors[n] =>
              \A i \in Loadable : \E m \in Sel : n <= m /\ i \in Selectors[m]

\* If v is the version of s in the store, then data has the store's version of i
\* unless i was written after s.
Covered(v, s, d, i) ==
    v = store[s] /\ v # Absent /\ store[i] # Absent /\ store[i] < v => d = store[i]

\* The sentinels in the versions of watched cover the items of S in data.
AllCovered(watched, data, S) ==
    \A s \in RefreshAll : \A i \in S : Covered(watched[s], s, data[i], i)

\* What no selector of todo loads.
Over(todo) == {i \in Loadable : \A n \in todo : i \notin Selectors[n]}

\* A refresh without a full load (so far).
Changing(c) == pc[c] \in {"check", "apply"} \/ (pc[c] = "load" /\ ~loc[c].full)

\* A refresh that has not given up its checks has found no sentinel changed, and what it
\* read of the watched items is covered by the recorded sentinels.
Carried(l) ==
    \A s \in RefreshAll :
        /\ l.watched[s] = watchedKvs[s]
        /\ \A w \in Watched : \/ l.watched[w] = watchedKvs[w]
                              \/ Covered(watchedKvs[s], s, l.watched[w], w)

\* What a refresh has collected is covered by the sentinels it is about to record. A full
\* load goes through the selectors in order and holds, of those it is through with, the
\* sentinels and what they cover.
Sentinels(c) ==
    LET l == loc[c]
    IN  /\ pc[c] = "load" /\ l.full =>
              /\ AllCovered(l.data, l.data, Over(l.todo))
              /\ \A m \in Sel \ l.todo : \A n \in l.todo : m < n
              /\ \A s \in RefreshAll \cap Over(l.todo) : l.data[s] # Absent
        /\ pc[c] = "watch" \/ (pc[c] = "prepare" /\ l.init)
              => AllCovered(l.watched, l.data, Loadable)
        /\ pc[c] = "watch" => l.kvs \cap RefreshAll = {}
        /\ Changing(c) => Carried(l)
        /\ pc[c] = "load" /\ ~l.full => AllCovered(watchedKvs, l.data, FfItems \cap Over(l.todo))
        /\ pc[c] = "apply" => AllCovered(watchedKvs, l.data, FfItems)

\* What may not be removed is there, and no record is newer than the store.
Present == \A i \in Items \ Removable : store[i] # Absent
Known   == \A w \in Watched : watchedKvs[w] <= writes

\* What sentinels work by.
SInv == Present /\ Known /\ SentinelCovers /\ \A c \in Callers : Sentinels(c)

---------------------------------------------------------------------------
\* What the kinds of items have to do with each other.
LEMMA Parts ==
    /\ Loadable \subseteq Items /\ FfItems \subseteq Loadable /\ RefreshAll \subseteq Watched
    /\ Watched \subseteq Items
    BY PartsOfItems, WatchedAssumption DEF Loadable

\* SentinelCovers in the terms of the invariant.
LEMMA CoversAll ==
    SentinelCovers <=> (loaded => AllCovered(watchedKvs, mapped, Loadable))
    BY DEF SentinelCovers, AllCovered, Covered, Loadable

\* The version in the store covers everything.
LEMMA StoreIsCovered ==
    ASSUME NEW v, NEW s, NEW i PROVE Covered(v, s, store[i], i)
    BY DEF Covered

\* A write is newer than everything read before.
LEMMA ChangeKeepsCovered ==
    ASSUME TypeOK, Bounded, NEW j \in Items, Write(j) \/ Remove(j),
           NEW v \in Nat, v <= writes, NEW s \in Items, NEW i \in Items, NEW d, Covered(v, s, d, i)
    PROVE  Covered(v, s, d, i)'
    <1>1. /\ store \in [Items -> Nat] /\ writes \in Nat /\ writes' = writes + 1
          /\ store[i] <= writes
          /\ store' = [store EXCEPT ![j] = writes + 1] \/ store' = [store EXCEPT ![j] = Absent]
        BY DEF TypeOK, Bounded, Write, Remove
    <1>2. /\ store'[s] \in {store[s], writes + 1, Absent}
          /\ store'[i] \in {store[i], writes + 1, Absent}
        BY <1>1
    <1>3. store[s] \in Nat /\ store[i] \in Nat
        BY <1>1
    <1> QED BY <1>1, <1>2, <1>3 DEF Covered

\* The same for a copy of the data.
LEMMA ChangeKeepsAllCovered ==
    ASSUME TypeOK, Bounded, NEW j \in Items, Write(j) \/ Remove(j),
           NEW watched, NEW data, NEW S \in SUBSET Loadable,
           \A s \in RefreshAll : watched[s] \in Nat /\ watched[s] <= writes,
           AllCovered(watched, data, S)
    PROVE  AllCovered(watched, data, S)'
    <1> SUFFICES ASSUME NEW s \in RefreshAll, NEW i \in S
                 PROVE  Covered(watched[s], s, data[i], i)'
        BY DEF AllCovered
    <1>1. s \in Items /\ i \in Items
        BY Parts
    <1> QED BY <1>1, ChangeKeepsCovered DEF AllCovered

\* A step past the gate concerns the one caller that is there.
LEMMA SentinelInside ==
    ASSUME RInv, SInv, NEW c \in Callers, Inside(c), UNCHANGED <<store, writes>>,
           \A d \in Callers \ {c} : loc'[d] = loc[d] /\ pc'[d] = pc[d],
           Known', SentinelCovers', Sentinels(c)'
    PROVE  SInv'
    <1>1. ASSUME NEW d \in Callers \ {c} PROVE Sentinels(d)'
        <2>1. pc'[d] = "idle"
            BY DEF RInv, IInv, GateExclusive, Inside
        <2> QED BY <2>1 DEF Sentinels, Changing
    <1>2. Present'
        BY DEF SInv, Present
    <1> QED BY <1>1, <1>2 DEF SInv

\* The provider's state stays as it is.
LEMMA SentinelStill ==
    ASSUME SInv, Still, UNCHANGED loaded
    PROVE  Known' /\ SentinelCovers'
    BY DEF SInv, Still, Known, SentinelCovers

\* A caller that leaves, or has recorded what it loaded, has nothing more to show.
LEMMA SentinelLeaves ==
    ASSUME RInv, SInv, NEW c \in Callers, Inside(c), UNCHANGED <<store, writes>>,
           Known', SentinelCovers',
           \/ Leave(c)
           \/ \E S \in SUBSET Timers, l \in Locals : BeginReset(c, S, l) /\ ~l.init
    PROVE  SInv'
    <1>1. TypeOK
        BY DEF RInv, IInv
    <1>2. /\ pc'[c] = "idle" \/ (pc'[c] = "prepare" /\ ~loc'[c].init)
          /\ \A d \in Callers \ {c} : loc'[d] = loc[d] /\ pc'[d] = pc[d]
        <2>1. CASE Leave(c)
            BY <1>1, <2>1 DEF TypeOK, Leave, Goto, Local
        <2>2. ASSUME NEW S \in SUBSET Timers, NEW l \in Locals, BeginReset(c, S, l), ~l.init
              PROVE  /\ pc'[c] = "prepare" /\ ~loc'[c].init
                     /\ \A d \in Callers \ {c} : loc'[d] = loc[d] /\ pc'[d] = pc[d]
            BY <1>1, <2>2, BeginResetType DEF SameWork
        <2> QED BY <2>1, <2>2
    <1>3. Sentinels(c)'
        BY <1>2 DEF Sentinels, Changing
    <1> QED BY <1>2, <1>3, SentinelInside

\* Setting timers changes nothing that sentinels depend on.
LEMMA SameWorkSentinels ==
    ASSUME UNCHANGED <<store, watchedKvs>>, NEW c \in Callers, Sentinels(c),
           SameWork(loc'[c], loc[c]),
           \/ pc'[c] = pc[c]
           \/ pc[c] = "watch" /\ pc'[c] = "prepare"
    PROVE  Sentinels(c)'
    BY DEF Sentinels, Changing, Carried, AllCovered, Covered, SameWork

\* A load begins with nothing behind it.
LEMMA NothingOver ==
    /\ Over(Sel) = {}
    /\ FfItems \cap Over(FfSelectors) = {}
    BY SelectorsType DEF Over, Loadable, KvItems, FfItems, KvSelectors

\* How a load begins, of everything or of the flags.
LEMMA SentinelBeginsLoad ==
    ASSUME RInv, SInv, NEW c \in Callers, Inside(c), Still, UNCHANGED loaded,
           NEW S \in SUBSET Sel, NEW full \in BOOLEAN, NEW l \in Locals,
           BeginLoad(c, S, full, l),
           IF full THEN S = Sel ELSE S = FfSelectors /\ Carried(l)
    PROVE  SInv'
    <1> DEFINE n == [l EXCEPT !.todo = S, !.full = full, !.data = Nothing,
                              !.kvs = {}, !.cols = {}, !.ffs = {}]
    <1>1. TypeOK
        BY DEF RInv, IInv
    <1>2. pc'[c] = "load" /\ loc'[c] = n /\ \A d \in Callers \ {c} : loc'[d] = loc[d] /\ pc'[d] = pc[d]
        BY <1>1 DEF BeginLoad, Goto, Local, TypeOK
    <1>3. n.full = full /\ n.watched = l.watched /\ n.todo = S
        BY DEF Locals
    <1> HIDE DEF n
    <1>4. Sentinels(c)'
        <2>1. CASE full
            <3>1. n.full /\ Over(n.todo) = {} /\ Sel \ n.todo = {}
                BY <1>3, <2>1, NothingOver
            <3> QED BY <1>2, <3>1 DEF Sentinels, Changing, AllCovered
        <2>2. CASE ~full
            <3>1. ~n.full /\ FfItems \cap Over(n.todo) = {}
                BY <1>3, <2>2, NothingOver
            <3>2. Carried(n)
                BY <1>3, <2>2 DEF Carried
            <3>3. Carried(n)'
                BY <3>2 DEF Carried, Still, Covered
            <3> QED BY <1>2, <3>1, <3>3 DEF Sentinels, Changing, AllCovered, Carried
        <2> QED BY <2>1, <2>2
    <1> QED BY <1>2, <1>4, SentinelInside, SentinelStill DEF Still

\* The checks read sentinels that have not changed, or end in a full load.
LEMMA SentinelChecks ==
    ASSUME RInv, SInv, NEW c \in Callers,
           \/ \E w \in Watched : CheckWatcher(c, w)
           \/ \E n \in Sel : CheckCollection(c, n) \/ CheckFlags(c, n)
    PROVE  SInv'
    <1>1. TypeOK /\ loc[c] \in Locals /\ store \in Content
        BY DEF RInv, IInv, TypeOK
    <1>2. pc[c] = "check" /\ Inside(c) /\ Still /\ UNCHANGED loaded
        BY DEF CheckWatcher, CheckCollection, CheckFlags, service, provider, Still, Inside
    <1>3. Carried(loc[c])
        BY <1>2 DEF SInv, Sentinels, Changing, Carried
    <1>4. ASSUME NEW l \in Locals, Carried(l),
                 \/ BeginLoad(c, FfSelectors, FALSE, l)
                 \/ Local(c, l) /\ UNCHANGED pc
          PROVE  SInv'
        <2>1. CASE BeginLoad(c, FfSelectors, FALSE, l)
            BY <1>2, <1>4, <2>1, SentinelBeginsLoad, SelectorsType
        <2>2. CASE Local(c, l) /\ UNCHANGED pc
            <3>1. loc'[c] = l /\ pc'[c] = "check"
                  /\ \A d \in Callers \ {c} : loc'[d] = loc[d] /\ pc'[d] = pc[d]
                BY <1>1, <1>2, <2>2 DEF Local, TypeOK
            <3>2. Carried(l)'
                BY <1>2, <1>4 DEF Carried, Still, Covered
            <3>3. Sentinels(c)'
                BY <3>1, <3>2 DEF Sentinels, Changing, Carried
            <3> QED BY <1>2, <3>1, <3>3, SentinelInside, SentinelStill DEF Still
        <2> QED BY <1>4, <2>1, <2>2
    <1>5. ASSUME NEW l \in Locals, BeginLoad(c, Sel, TRUE, l) PROVE SInv'
        BY <1>2, <1>5, SentinelBeginsLoad
    <1>6. ASSUME NEW w \in Watched, CheckWatcher(c, w) PROVE SInv'
        <2> DEFINE l == [loc[c] EXCEPT !.kvs = @ \ {w}, !.late = {}, !.watched[w] = store[w]]
        <2>1. l \in Locals
            BY <1>1, StoreType, CheckedReadType
        <2>2. l.watched = [loc[c].watched EXCEPT ![w] = store[w]]
              /\ loc[c].watched \in [Watched -> Nat]
            BY <1>1 DEF Locals
        <2>3. \/ BeginLoad(c, Sel, TRUE, l)
              \/ Local(c, l) /\ UNCHANGED pc /\ (w \in RefreshAll => store[w] = watchedKvs[w])
            BY <1>6 DEF CheckWatcher
        <2> HIDE DEF l
        <2>4. CASE BeginLoad(c, Sel, TRUE, l)
            BY <1>5, <2>1, <2>4
        <2>5. CASE Local(c, l) /\ UNCHANGED pc /\ (w \in RefreshAll => store[w] = watchedKvs[w])
            <3>1. ASSUME NEW s \in RefreshAll
                  PROVE  /\ l.watched[s] = watchedKvs[s]
                         /\ \A x \in Watched : \/ l.watched[x] = watchedKvs[x]
                                               \/ Covered(watchedKvs[s], s, l.watched[x], x)
                <4>1. s \in Watched
                    BY Parts
                <4>2. l.watched[s] = watchedKvs[s]
                    BY <1>3, <2>2, <2>5, <4>1 DEF Carried
                <4>3. Covered(watchedKvs[s], s, store[w], w)
                    BY StoreIsCovered
                <4> QED BY <1>3, <2>2, <4>2, <4>3 DEF Carried
            <3>2. Carried(l)
                BY <3>1 DEF Carried
            <3> QED BY <1>4, <2>1, <2>5, <3>2
        <2> QED BY <2>3, <2>4, <2>5
    <1>7. ASSUME NEW n \in Sel, CheckCollection(c, n) \/ CheckFlags(c, n) PROVE SInv'
        <2>1. PICK l \in {loc[c], [loc[c] EXCEPT !.cols = @ \ {n}],
                          [loc[c] EXCEPT !.ffs = @ \ {n}, !.late = {}]} :
                  \/ BeginLoad(c, Sel, TRUE, l)
                  \/ BeginLoad(c, FfSelectors, FALSE, l)
                  \/ Local(c, l) /\ UNCHANGED pc
            BY <1>7 DEF CheckCollection, CheckFlags
        <2>2. l \in Locals /\ l.watched = loc[c].watched
            BY <1>1 DEF Locals
        <2>3. Carried(l)
            BY <1>3, <2>2 DEF Carried
        <2> QED BY <1>4, <1>5, <2>1, <2>2, <2>3
    <1> QED BY <1>6, <1>7

\* What a page of the store does to the data: its items are covered, others untouched.
LEMMA OverwriteCovers ==
    ASSUME NEW d \in Content, NEW i \in Items, NEW S, store \in Content
    PROVE  LET page == Page(store, S)
           IN  /\ i \in S => \A v, s : Covered(v, s, Overwrite(d, page)[i], i)
               /\ i \notin S => Overwrite(d, page)[i] = d[i]
               /\ i \in S /\ store[i] # Absent => Overwrite(d, page)[i] = store[i]
               /\ d[i] # Absent => Overwrite(d, page)[i] # Absent
    BY DEF Overwrite, Page, Covered

\* A full load, one selector further.
LEMMA FullLoadCovers ==
    ASSUME SentinelsFirst, Present, store \in Content,
           NEW d \in Content, NEW todo \in SUBSET Sel, NEW n \in todo,
           \A m \in todo : n <= m,
           AllCovered(d, d, Over(todo)),
           \A m \in Sel \ todo : \A k \in todo : m < k,
           \A s \in RefreshAll \cap Over(todo) : d[s] # Absent,
           NEW e, e = Overwrite(d, Page(store, Selectors[n])),
           NEW rest, rest = todo \ {n}
    PROVE  /\ AllCovered(e, e, Over(rest))
           /\ \A m \in Sel \ rest : \A k \in rest : m < k
           /\ \A s \in RefreshAll \cap Over(rest) : e[s] # Absent
    <1>1. todo \in SUBSET Nat /\ Sel \in SUBSET Nat
        BY SelectorsType
    <1>2. ASSUME NEW i \in Over(rest), i \notin Selectors[n] PROVE i \in Over(todo) /\ e[i] = d[i]
        <2>1. i \in Loadable /\ i \in Items
            BY Parts DEF Over
        <2>2. i \in Over(todo)
            BY <1>2, <2>1 DEF Over
        <2> QED BY <1>2, <2>1, <2>2, OverwriteCovers
    <1>3. ASSUME NEW s \in RefreshAll, NEW i \in Over(rest) PROVE Covered(e[s], s, e[i], i)
        <2>1. i \in Loadable /\ i \in Items /\ s \in Items
            BY Parts DEF Over
        <2>2. CASE i \in Selectors[n]
            BY <2>1, <2>2, OverwriteCovers
        <2>3. CASE i \notin Selectors[n]
            <3>1. i \in Over(todo) /\ e[i] = d[i]
                BY <1>2, <2>3
            <3>2. s \notin Selectors[n]
                <4> SUFFICES ASSUME s \in Selectors[n] PROVE FALSE
                    OBVIOUS
                <4>1. PICK m \in Sel : n <= m /\ i \in Selectors[m]
                    BY <2>1 DEF SentinelsFirst
                <4>2. m \notin todo
                    BY <3>1, <4>1 DEF Over
                <4>3. m < n
                    BY <4>1, <4>2
                <4>4. m \in Nat /\ n \in Nat
                    BY <1>1
                <4> QED BY <4>1, <4>3, <4>4
            <3>3. e[s] = d[s]
                BY <2>1, <3>2, OverwriteCovers
            <3> QED BY <3>1, <3>3 DEF AllCovered
        <2> QED BY <2>2, <2>3
    <1>4. ASSUME NEW m \in Sel \ rest, NEW k \in rest PROVE m < k
        <2>1. m \in Nat /\ k \in Nat /\ n \in Nat /\ k \in todo /\ k # n
            BY <1>1
        <2>2. m = n \/ m \in Sel \ todo
            OBVIOUS
        <2>3. n <= k /\ (m \in Sel \ todo => m < k)
            BY <2>1
        <2> QED BY <2>1, <2>2, <2>3
    <1>5. ASSUME NEW s \in RefreshAll, s \in Over(rest) PROVE e[s] # Absent
        <2>1. s \in Items \ Removable
            BY Parts DEF SentinelsFirst
        <2>2. CASE s \in Selectors[n]
            <3>1. store[s] # Absent
                BY <2>1 DEF Present
            <3> QED BY <2>1, <2>2, <3>1, OverwriteCovers
        <2>3. CASE s \notin Selectors[n]
            BY <1>2, <1>5, <2>3
        <2> QED BY <2>2, <2>3
    <1> QED BY <1>3, <1>4, <1>5 DEF AllCovered

\* Loading a page, in a full load and in a load of the flags.
LEMMA SentinelLoadsSelector ==
    ASSUME SentinelsFirst, RInv, SInv, IInv', NEW c \in Callers, NEW n \in Sel, LoadSelector(c, n)
    PROVE  SInv'
    <1> DEFINE L    == loc[c]
               page == Page(store, Selectors[n])
               l    == [L EXCEPT
                          !.todo = @ \ {n}, !.data = Overwrite(@, page),
                          !.pages[n] = page,
                          !.keys = IF n \in FfSelectors
                                   THEN @ \cup {i \in Items : page[i] # Absent} ELSE @]
               last == [l EXCEPT !.watched = [w \in Watched |-> l.data[w]],
                                 !.kvs = NotLoaded(l.data)]
    <1>1. TypeOK /\ L \in Locals /\ store \in Content /\ InFlight(c) /\ Sentinels(c) /\ Present
        BY DEF RInv, IInv, SInv, TypeOK
    <1>2. pc[c] = "load" /\ Inside(c) /\ Still /\ UNCHANGED loaded
        BY DEF LoadSelector, service, provider, Still, Inside
    <1>3. /\ L.data \in Content /\ L.todo \in SUBSET Sel /\ n \in L.todo
          /\ \A m \in L.todo : n <= m
        BY <1>1 DEF LoadSelector, Locals
    <1>4. /\ l.data = Overwrite(L.data, page) /\ l.full = L.full /\ l.watched = L.watched
          /\ l.todo = L.todo \ {n} /\ last.data = l.data
          /\ last.watched = [w \in Watched |-> l.data[w]] /\ last.kvs = NotLoaded(l.data)
        BY <1>1 DEF Locals
    <1>5. \/ l.todo # {} /\ Local(c, l) /\ UNCHANGED pc
          \/ l.todo = {} /\ l.full /\ Local(c, last) /\ Goto(c, "watch")
          \/ l.todo = {} /\ ~l.full /\ Local(c, l) /\ Goto(c, "apply")
        BY DEF LoadSelector
    <1> HIDE DEF l, last, page, L
    <1>6. \A d \in Callers \ {c} : loc'[d] = loc[d] /\ pc'[d] = pc[d]
        BY <1>1, <1>5 DEF Local, Goto, TypeOK
    <1>7. \/ l.todo # {} /\ loc'[c] = l /\ pc'[c] = "load"
          \/ l.todo = {} /\ l.full /\ loc'[c] = last /\ pc'[c] = "watch"
          \/ l.todo = {} /\ ~l.full /\ loc'[c] = l /\ pc'[c] = "apply"
        BY <1>1, <1>2, <1>5 DEF Local, Goto, TypeOK
    <1>8. CASE L.full
        <2>1. /\ AllCovered(l.data, l.data, Over(l.todo))
              /\ \A m \in Sel \ l.todo : \A k \in l.todo : m < k
              /\ \A s \in RefreshAll \cap Over(l.todo) : l.data[s] # Absent
            <3>1. /\ AllCovered(L.data, L.data, Over(L.todo))
                  /\ \A m \in Sel \ L.todo : \A k \in L.todo : m < k
                  /\ \A s \in RefreshAll \cap Over(L.todo) : L.data[s] # Absent
                BY <1>1, <1>2, <1>8 DEF Sentinels, L
            <3>2. SentinelsFirst /\ Present /\ store \in Content /\ l.todo = L.todo \ {n}
                  /\ l.data = Overwrite(L.data, Page(store, Selectors[n]))
                BY <1>1, <1>4 DEF page
            <3> QED BY <1>3, <3>1, <3>2, FullLoadCovers
        <2>3. CASE pc'[c] = "load"
            <3>1. loc'[c] = l
                BY <1>7, <2>3
            <3>2. AllCovered(loc[c].data, loc[c].data, Over(loc[c].todo))'
                BY <1>2, <2>1, <3>1 DEF Still, AllCovered, Covered
            <3>3. Sentinels(c)'
                BY <1>4, <1>8, <2>1, <2>3, <3>1, <3>2 DEF Sentinels, Changing
            <3> QED BY <1>2, <1>6, <3>3, SentinelInside, SentinelStill DEF Still
        <2>4. CASE pc'[c] = "watch"
            <3>1. loc'[c] = last /\ Over(l.todo) = Loadable
                BY <1>7, <2>4 DEF Over
            <3>2. ASSUME NEW s \in RefreshAll
                  PROVE  s \notin last.kvs /\ \A i \in Loadable : Covered(last.watched[s], s, last.data[i], i)
                <4>1. s \in Loadable /\ s \in Watched
                    BY Parts DEF SentinelsFirst, Loadable
                <4>2. l.data[s] # Absent
                    BY <2>1, <3>1, <4>1
                <4>3. last.watched[s] = l.data[s]
                    BY <1>4, <4>1
                <4>4. \A i \in Loadable : Covered(l.data[s], s, l.data[i], i)
                    BY <2>1, <3>1 DEF AllCovered
                <4> QED BY <1>4, <4>2, <4>3, <4>4 DEF NotLoaded
            <3>3. AllCovered(loc[c].watched, loc[c].data, Loadable)'
                BY <1>2, <3>1, <3>2 DEF Still, AllCovered, Covered
            <3>4. Sentinels(c)'
                BY <2>4, <3>1, <3>2, <3>3 DEF Sentinels, Changing
            <3> QED BY <1>2, <1>6, <3>4, SentinelInside, SentinelStill DEF Still
        <2> QED BY <1>4, <1>7, <1>8, <2>3, <2>4
    <1>9. CASE ~L.full
        <2>1. Carried(L) /\ AllCovered(watchedKvs, L.data, FfItems \cap Over(L.todo))
            BY <1>1, <1>2, <1>9 DEF Sentinels, Changing, Carried, L
        <2>2. ASSUME NEW s \in RefreshAll, NEW i \in FfItems \cap Over(l.todo)
              PROVE  Covered(watchedKvs[s], s, l.data[i], i)
            <3>1. i \in Items /\ i \in Loadable
                BY Parts
            <3>2. CASE i \in Selectors[n]
                <4>1. \A v, t : Covered(v, t, Overwrite(L.data, Page(store, Selectors[n]))[i], i)
                    BY <1>1, <1>3, <3>1, <3>2, OverwriteCovers
                <4> QED BY <1>4, <4>1 DEF page
            <3>3. CASE i \notin Selectors[n]
                <4>1. i \in FfItems \cap Over(L.todo)
                    BY <1>4, <3>1, <3>3 DEF Over
                <4>2. l.data[i] = L.data[i]
                    BY <1>1, <1>3, <1>4, <3>1, <3>3, OverwriteCovers DEF page
                <4> QED BY <2>1, <4>1, <4>2 DEF AllCovered
            <3> QED BY <3>2, <3>3
        <2>3. loc'[c] = l /\ ~l.full
              /\ (pc'[c] = "load" \/ (pc'[c] = "apply" /\ l.todo = {}))
            BY <1>4, <1>7, <1>9
        <2>4. Carried(l)
            BY <1>4, <2>1 DEF Carried
        <2>5. Carried(loc[c])'
            BY <1>2, <2>3, <2>4 DEF Carried, Still, Covered
        <2>6. AllCovered(watchedKvs, loc[c].data, FfItems \cap Over(loc[c].todo))'
            BY <1>2, <2>2, <2>3 DEF Still, AllCovered, Covered
        <2>7. Sentinels(c)'
            <3>1. l.todo = {} => FfItems \cap Over(l.todo) = FfItems
                BY Parts DEF Over
            <3> QED BY <2>3, <2>5, <2>6, <3>1 DEF Sentinels, Changing, Carried
        <2> QED BY <1>2, <1>6, <2>7, SentinelInside, SentinelStill DEF Still
    <1> QED BY <1>8, <1>9

\* Only items that are no sentinels are requested on their own after a full load.
LEMMA SentinelLoadsWatched ==
    ASSUME RInv, SInv, IInv', NEW c \in Callers, NEW w \in Watched, LoadWatched(c, w)
    PROVE  SInv'
    <1>1. TypeOK /\ loc[c] \in Locals /\ store \in Content /\ Sentinels(c)
        BY DEF RInv, IInv, SInv, TypeOK
    <1>2. /\ pc[c] = "watch" /\ pc' = pc /\ Inside(c) /\ Still /\ UNCHANGED loaded
          /\ w \in loc[c].kvs
        BY DEF LoadWatched, service, provider, Still, Inside
    <1>3. /\ loc'[c].data = [loc[c].data EXCEPT ![w] = store[w]]
          /\ loc'[c].watched = [loc[c].watched EXCEPT ![w] = store[w]]
          /\ loc'[c].kvs = loc[c].kvs \ {w}
          /\ \A d \in Callers \ {c} : loc'[d] = loc[d]
        BY <1>1 DEF LoadWatched, Local, Locals, TypeOK
    <1>4. loc[c].data \in Content /\ loc[c].watched \in [Watched -> Nat]
        BY <1>1 DEF Locals
    <1>5. /\ AllCovered(loc[c].watched, loc[c].data, Loadable)
          /\ loc[c].kvs \cap RefreshAll = {} /\ w \notin RefreshAll
        BY <1>1, <1>2 DEF Sentinels
    <1>6. ASSUME NEW s \in RefreshAll, NEW i \in Loadable
          PROVE  Covered(loc[c].watched[s], s, loc'[c].data[i], i)
        <2>1. loc'[c].data[i] = IF i = w THEN store[w] ELSE loc[c].data[i]
            BY <1>3, <1>4, Parts
        <2> QED BY <1>5, <2>1, StoreIsCovered DEF AllCovered
    <1>7. \A s \in RefreshAll : loc'[c].watched[s] = loc[c].watched[s]
        BY <1>3, <1>4, <1>5, Parts
    <1>8. AllCovered(loc[c].watched, loc[c].data, Loadable)'
        BY <1>2, <1>6, <1>7 DEF AllCovered, Covered, Still
    <1>9. Sentinels(c)'
        BY <1>2, <1>3, <1>5, <1>8 DEF Sentinels, Changing
    <1> QED BY <1>2, <1>3, <1>9, SentinelInside, SentinelStill DEF Still

\* An attempt begins with what is recorded.
LEMMA SentinelBegins ==
    ASSUME RInv, SInv, IInv', NEW c \in Callers,
           BeginInitialize(c) \/ BeginRefresh(c) \/ FailOver(c)
    PROVE  SInv'
    <1>1. TypeOK /\ loc[c] \in Locals /\ Blank \in Locals
        BY BlankType DEF RInv, IInv, TypeOK
    <1>2. Inside(c) /\ Still /\ UNCHANGED loaded
        BY DEF BeginInitialize, BeginRefresh, FailOver, Requesting, Inside, service, provider, Still
    <1>3. ASSUME NEW l \in Locals, BeginLoad(c, Sel, TRUE, l) PROVE SInv'
        BY <1>2, <1>3, SentinelBeginsLoad
    <1>4. ASSUME NEW k \in 0..Clients, NEW e \in SUBSET Timers,
                 Local(c, Attempt(k, e)), Goto(c, "check")
          PROVE  SInv'
        <2>1. /\ loc'[c] = Attempt(k, e) /\ pc'[c] = "check"
              /\ \A d \in Callers \ {c} : loc'[d] = loc[d] /\ pc'[d] = pc[d]
            BY <1>1, <1>4 DEF Local, Goto, TypeOK
        <2>2. Attempt(k, e).watched = watchedKvs
            BY DEF Attempt, Blank
        <2>3. loc'[c].watched = watchedKvs'
            BY <1>2, <2>1, <2>2 DEF Still
        <2>4. Sentinels(c)'
            BY <2>1, <2>3 DEF Sentinels, Changing, Carried
        <2> QED BY <1>2, <2>1, <2>4, SentinelInside, SentinelStill DEF Still
    <1>5. CASE BeginInitialize(c)
        <2>1. 1 \in 0..Clients
            BY BoundsAssumption
        <2>2. [Blank EXCEPT !.attempt = 1, !.init = TRUE] \in Locals
            BY <1>1, <2>1 DEF Locals
        <2> QED BY <1>3, <1>5, <2>2 DEF BeginInitialize
    <1>6. CASE BeginRefresh(c)
        <2>1. 1 \in 0..Clients /\ Due \in SUBSET Timers
            BY BoundsAssumption DEF Due
        <2> QED BY <1>4, <1>6, <2>1 DEF BeginRefresh
    <1>7. CASE FailOver(c)
        <2>1. loc[c].attempt + 1 \in 0..Clients /\ loc[c].elig \in SUBSET Timers
            BY <1>1, <1>7, BoundsAssumption DEF FailOver, Locals
        <2>2. [Blank EXCEPT !.attempt = loc[c].attempt + 1, !.init = TRUE, !.keys = loc[c].keys]
                 \in Locals
            BY <1>1, <2>1 DEF Locals
        <2> QED BY <1>3, <1>4, <1>7, <2>1, <2>2 DEF FailOver
    <1> QED BY <1>5, <1>6, <1>7

\* What may be taken over has been written.
LEMMA NotNewerThanStore ==
    ASSUME TypeOK, Bounded, NEW i \in Items, NEW v \in Nat, CouldTake(v, i)
    PROVE  v <= writes
    BY DEF TypeOK, Bounded, CouldTake, Latest

\* The versions of watched items that a refresh carries are not newer than the store.
LEMMA CarriedKnown ==
    ASSUME RInv, Known, NEW c \in Callers,
           \/ Changing(c)
           \/ pc[c] = "watch" \/ (pc[c] = "prepare" /\ loc[c].init)
    PROVE  \A w \in Watched : loc[c].watched[w] \in Nat /\ loc[c].watched[w] <= writes
    <1> SUFFICES ASSUME NEW w \in Watched
                 PROVE  loc[c].watched[w] \in Nat /\ loc[c].watched[w] <= writes
        OBVIOUS
    <1>1. TypeOK /\ Bounded /\ Ready(c) /\ InFlight(c) /\ loc[c] \in Locals /\ w \in Items
        BY Parts DEF RInv, IInv, TypeOK
    <1>2. loc[c].watched[w] \in Nat /\ loc[c].data[w] \in Nat
        BY <1>1 DEF Locals
    <1>3. CASE Changing(c)
        <2>1. loc[c].watched[w] = watchedKvs[w] \/ CouldTake(loc[c].watched[w], w)
            BY <1>1, <1>3 DEF Changing, Ready
        <2> QED BY <1>1, <1>2, <2>1, NotNewerThanStore DEF Known
    <1>4. CASE pc[c] = "watch" \/ (pc[c] = "prepare" /\ loc[c].init)
        <2>1. loc[c].watched[w] = loc[c].data[w] /\ CouldTake(loc[c].data[w], w)
            BY <1>1, <1>4 DEF InFlight, FullLoad, Ready
        <2> QED BY <1>1, <1>2, <2>1, NotNewerThanStore
    <1> QED BY <1>3, <1>4

\* What RefreshAsync installs when it has loaded no more than the flags.
LEMMA ChangesTaken ==
    ASSUME IInv, NEW c \in Callers, ApplyChanges(c), loaded
    PROVE  /\ \A i \in FfItems : mapped'[i] = IF pc[c] = "apply" THEN loc[c].data[i] ELSE mapped[i]
           /\ \A w \in Watched : mapped'[w] = loc[c].watched[w]
           /\ \A i \in KvItems \ Watched : mapped'[i] = mapped[i]
    <1> DEFINE l == loc[c]
    <1>1. TypeOK /\ Recorded /\ InFlight(c)
        BY DEF IInv
    <1>2. /\ mapped' = [i \in Items |->
                         CASE pc[c] = "apply" /\ i \in l.keys          -> l.data[i]
                           [] pc[c] = "apply" /\ i \in RemovedFlags(l) -> Absent
                           [] OTHER -> IF i \in Changes(l) THEN l.watched[i] ELSE mapped[i]]
          /\ pc[c] \in {"apply", "check"}
        BY DEF ApplyChanges, Holds
    <1>3. l.keys \subseteq FfItems /\ RemovedFlags(l) \subseteq FfItems /\ Changes(l) \subseteq Watched
        BY <1>1, <1>2 DEF InFlight, FlagLoad, Recorded, RemovedFlags, Changes
    <1>4. ASSUME NEW i \in FfItems
          PROVE  mapped'[i] = IF pc[c] = "apply" THEN l.data[i] ELSE mapped[i]
        <2>1. i \in Items /\ i \notin Changes(l)
            BY <1>3, PartsOfItems
        <2>2. CASE pc[c] # "apply"
            BY <1>2, <2>1, <2>2
        <2>3. CASE pc[c] = "apply"
            <3>1. i \notin l.keys => l.data[i] = Absent
                BY <1>1, <2>3 DEF InFlight, FlagLoad, FlagsNamed
            <3>2. i \notin ffKeys => mapped[i] = Absent
                BY <1>1 DEF Recorded, FlagsNamed
            <3>3. CASE i \in l.keys
                BY <1>2, <2>1, <2>3, <3>3 DEF RemovedFlags
            <3>4. CASE i \in RemovedFlags(l)
                <4>1. i \notin l.keys
                    BY <3>4 DEF RemovedFlags
                <4>2. mapped'[i] = Absent
                    BY <1>2, <2>1, <2>3, <3>4, <4>1
                <4> QED BY <2>3, <3>1, <4>1, <4>2
            <3>5. CASE i \notin l.keys /\ i \notin RemovedFlags(l)
                <4>1. i \notin ffKeys
                    BY <3>5 DEF RemovedFlags
                <4>2. mapped'[i] = mapped[i]
                    BY <1>2, <2>1, <3>5
                <4> QED BY <2>3, <3>1, <3>2, <3>5, <4>1, <4>2
            <3> QED BY <3>3, <3>4, <3>5
        <2> QED BY <2>2, <2>3
    <1>5. ASSUME NEW i \in Items \ FfItems
          PROVE  mapped'[i] = IF i \in Changes(l) THEN l.watched[i] ELSE mapped[i]
        BY <1>2, <1>3
    <1>6. ASSUME NEW w \in Watched PROVE mapped'[w] = l.watched[w]
        <2>1. w \in Items \ FfItems /\ mapped[w] = watchedKvs[w]
            BY <1>1, PartsOfItems, WatchedAssumption DEF Recorded
        <2> QED BY <1>5, <2>1 DEF Changes
    <1>7. ASSUME NEW i \in KvItems \ Watched PROVE mapped'[i] = mapped[i]
        BY <1>3, <1>5, PartsOfItems
    <1> QED BY <1>4, <1>6, <1>7

\* What is collected becomes what is recorded and held.
LEMMA SentinelApplies ==
    ASSUME RInv, SInv, IInv', NEW c \in Callers,
           ApplyAll(c) \/ ApplyChanges(c) \/ ApplyInit(c) \/ Prepare(c)
    PROVE  SInv'
    <1>1. TypeOK /\ Sentinels(c) /\ InFlight(c) /\ Inside(c) /\ Known /\ IInv
        BY DEF RInv, IInv, SInv, ApplyAll, ApplyChanges, ApplyInit, Prepare, AllReset, Inside
    <1>a. loc[c] \in Locals /\ loc[c].elig \in SUBSET Timers
        BY <1>1 DEF TypeOK, Locals
    <1>2. UNCHANGED <<store, writes>>
        BY DEF ApplyAll, ApplyChanges, ApplyInit, Prepare, service
    <1>3. ASSUME watchedKvs' = loc[c].watched, mapped' = loc[c].data,
                 pc[c] = "watch" \/ (pc[c] = "prepare" /\ loc[c].init)
          PROVE  Known' /\ SentinelCovers'
        <2>1. AllCovered(loc[c].watched, loc[c].data, Loadable)
            BY <1>1, <1>3 DEF Sentinels
        <2>2. AllCovered(watchedKvs, mapped, Loadable)'
            BY <1>2, <1>3, <2>1 DEF AllCovered, Covered
        <2>3. SentinelCovers'
            BY <2>2 DEF SentinelCovers, AllCovered, Covered, Loadable
        <2>4. \A w \in Watched : loc[c].watched[w] <= writes
            BY <1>1, <1>3, CarriedKnown
        <2>5. Known'
            BY <1>2, <1>3, <2>4 DEF Known
        <2> QED BY <2>3, <2>5
    <1>4. ASSUME UNCHANGED provider PROVE Known' /\ SentinelCovers'
        BY <1>2, <1>4 DEF provider, SInv, Known, SentinelCovers
    <1>5. CASE ApplyAll(c)
        <2>1. Known' /\ SentinelCovers'
            BY <1>3, <1>5 DEF ApplyAll, Holds
        <2>2. BeginReset(c, (Timers \ {AllTimer}) \cup loc[c].elig, [Blank EXCEPT !.full = TRUE])
            BY <1>5 DEF ApplyAll
        <2>3. (Timers \ {AllTimer}) \cup loc[c].elig \in SUBSET Timers
            BY <1>a
        <2> QED BY <1>1, <1>2, <2>1, <2>2, <2>3, BlankWith, SentinelLeaves
    <1>6. CASE ApplyInit(c)
        <2>1. Still /\ UNCHANGED loaded
            BY <1>6 DEF ApplyInit, provider, service, Still
        <2>2. pc[c] = "watch" /\ BeginReset(c, Timers, loc[c])
            BY <1>6 DEF ApplyInit
        <2>3. /\ pc'[c] = "prepare" /\ SameWork(loc'[c], loc[c])
              /\ \A d \in Callers \ {c} : loc'[d] = loc[d] /\ pc'[d] = pc[d]
            BY <1>1, <1>a, <2>2, BeginResetType
        <2>4. Sentinels(c)'
            BY <1>1, <2>1, <2>2, <2>3, SameWorkSentinels DEF Still
        <2> QED BY <1>1, <1>2, <2>1, <2>3, <2>4, SentinelInside, SentinelStill
    <1>7. CASE Prepare(c)
        <2>1. Known' /\ SentinelCovers'
            BY <1>3, <1>4, <1>7 DEF Prepare, AllReset, Holds
        <2> QED BY <1>1, <1>2, <1>7, <2>1, SentinelLeaves DEF Prepare
    <1>8. CASE ApplyChanges(c)
        <2>1. /\ pc[c] \in {"check", "apply"} /\ ~loc[c].init /\ loaded' = loaded
              /\ watchedKvs' = loc[c].watched
            BY <1>1, <1>8 DEF ApplyChanges, InFlight, FlagLoad
        <2>a. PICK b \in BOOLEAN : BeginReset(c, loc[c].elig, [Blank EXCEPT !.changed = b])
            BY <1>8 DEF ApplyChanges, Changed
        <2>2. Carried(loc[c]) /\ Changing(c)
            BY <1>1, <2>1 DEF Sentinels, Changing, Carried
        <2>3. \A w \in Watched : loc[c].watched[w] <= writes
            BY <1>1, <2>2, CarriedKnown DEF RInv
        <2>4. Known'
            BY <1>1, <1>2, <2>1, <2>3 DEF Known
        <2>5. ASSUME loaded, NEW s \in RefreshAll, NEW i \in Loadable
              PROVE  Covered(watchedKvs[s], s, mapped'[i], i)
            <3>1. Covered(watchedKvs[s], s, mapped[i], i)
                BY <2>5, CoversAll DEF SInv, AllCovered
            <3>2. CASE i \in FfItems
                <4>1. mapped'[i] = IF pc[c] = "apply" THEN loc[c].data[i] ELSE mapped[i]
                    BY <1>1, <1>8, <2>5, <3>2, ChangesTaken
                <4>2. pc[c] = "apply" => Covered(watchedKvs[s], s, loc[c].data[i], i)
                    BY <1>1, <3>2 DEF Sentinels, AllCovered
                <4> QED BY <3>1, <4>1, <4>2
            <3>3. CASE i \in Watched
                <4>1. mapped'[i] = loc[c].watched[i]
                    BY <1>1, <1>8, <2>5, <3>3, ChangesTaken
                <4>2. mapped[i] = watchedKvs[i]
                    BY <1>1, <2>5, <3>3 DEF IInv, Recorded
                <4>3. loc[c].watched[i] = watchedKvs[i] \/ Covered(watchedKvs[s], s, loc[c].watched[i], i)
                    BY <2>2, <3>3 DEF Carried
                <4> QED BY <3>1, <4>1, <4>2, <4>3
            <3>4. CASE i \in KvItems \ Watched
                <4>1. mapped'[i] = mapped[i]
                    BY <1>1, <1>8, <2>5, <3>4, ChangesTaken
                <4> QED BY <3>1, <4>1
            <3> QED BY <3>2, <3>3, <3>4 DEF Loadable
        <2>6. \A s \in RefreshAll : watchedKvs'[s] = watchedKvs[s]
            BY <2>1, <2>2 DEF Carried
        <2>7. SentinelCovers'
            BY <1>2, <2>1, <2>5, <2>6 DEF SentinelCovers, Covered, Loadable
        <2> QED BY <1>1, <1>2, <1>a, <2>a, <2>4, <2>7, BlankWith, SentinelLeaves
    <1> QED BY <1>5, <1>6, <1>7, <1>8

\* A change of the store uncovers nothing: its version is newer than every sentinel recorded.
LEMMA SentinelChange ==
    ASSUME RInv, SInv, RInv', NEW j \in Items, Write(j) \/ Remove(j) PROVE SInv'
    <1>1. TypeOK /\ Bounded /\ Known
        BY DEF RInv, IInv, SInv
    <1>2. /\ loaded' = loaded /\ mapped' = mapped /\ watchedKvs' = watchedKvs
          /\ pc' = pc /\ loc' = loc
          /\ writes \in Nat /\ writes' = writes + 1
        BY <1>1 DEF Write, Remove, provider, TypeOK
    <1>3. Present'
        BY <1>1, <1>2 DEF SInv, Present, Write, Remove, TypeOK
    <1>4. \A s \in RefreshAll : watchedKvs[s] \in Nat /\ watchedKvs[s] <= writes
        BY <1>1, Parts DEF Known, TypeOK
    <1>5. Known'
        BY <1>1, <1>2 DEF Known, TypeOK
    <1>6. SentinelCovers'
        <2>1. ASSUME AllCovered(watchedKvs, mapped, Loadable)
              PROVE  AllCovered(watchedKvs, mapped, Loadable)'
            BY <1>1, <1>2, <1>4, <2>1, ChangeKeepsAllCovered
        <2> QED BY <1>2, <2>1 DEF SInv, SentinelCovers, AllCovered, Covered, Loadable
    <1>7. ASSUME NEW c \in Callers PROVE Sentinels(c)'
        <2> DEFINE l == loc[c]
        <2>1. Sentinels(c) /\ l \in Locals /\ Ready(c)
            BY <1>1 DEF SInv, RInv, TypeOK
        <2>2. l.data \in Content /\ l.watched \in [Watched -> Nat]
            BY <2>1 DEF Locals
        <2> HIDE DEF l
        <2>3. ASSUME pc[c] = "load"
              PROVE  \A s \in RefreshAll : l.data[s] \in Nat /\ l.data[s] <= writes
            BY <1>1, <2>1, <2>2, <2>3, Parts, NotNewerThanStore DEF Ready, l
        <2>4. ASSUME pc[c] = "watch" \/ (pc[c] = "prepare" /\ l.init)
              PROVE  \A s \in RefreshAll : l.watched[s] \in Nat /\ l.watched[s] <= writes
            BY <1>1, <2>4, Parts, CarriedKnown DEF l
        <2>6. ASSUME NEW s \in RefreshAll, NEW w \in Watched, Covered(watchedKvs[s], s, l.watched[w], w)
              PROVE  Covered(watchedKvs[s], s, l.watched[w], w)'
            BY <1>1, <1>2, <1>4, <2>6, Parts, ChangeKeepsCovered DEF l
        <2>7. Over(l.todo) \in SUBSET Loadable /\ FfItems \in SUBSET Loadable
              /\ FfItems \cap Over(l.todo) \in SUBSET Loadable
            BY Parts DEF Over
        <2>8. pc[c] = "load" /\ l.full => AllCovered(l.data, l.data, Over(l.todo))'
            BY <1>1, <1>2, <2>1, <2>3, <2>7, ChangeKeepsAllCovered DEF Sentinels, l
        <2>9. pc[c] = "watch" \/ (pc[c] = "prepare" /\ l.init) => AllCovered(l.watched, l.data, Loadable)'
            BY <1>1, <1>2, <2>1, <2>4, ChangeKeepsAllCovered DEF Sentinels, l
        <2>10. /\ pc[c] = "load" /\ ~l.full => AllCovered(watchedKvs, l.data, FfItems \cap Over(l.todo))'
               /\ pc[c] = "apply" => AllCovered(watchedKvs, l.data, FfItems)'
            BY <1>1, <1>2, <1>4, <2>1, <2>7, ChangeKeepsAllCovered DEF Sentinels, l
        <2>11. Changing(c) =>
                  \A s \in RefreshAll :
                      /\ l.watched[s] = watchedKvs[s]
                      /\ \A w \in Watched : \/ l.watched[w] = watchedKvs[w]
                                            \/ Covered(watchedKvs[s], s, l.watched[w], w)'
            BY <2>1, <2>6 DEF Sentinels, Carried, l
        <2> QED BY <1>2, <2>1, <2>8, <2>9, <2>10, <2>11 DEF Sentinels, Changing, Carried, l
    <1> QED BY <1>3, <1>5, <1>6, <1>7 DEF SInv

\* Time, pushes and arriving callers leave it all alone.
LEMMA SentinelOutside ==
    ASSUME RInv, SInv,
           \/ \E t \in Timers : Expire(t)
           \/ ExpireInit \/ ExpireSecret \/ (\E t \in Timers : SetDirty(t))
           \/ \E c \in Callers : Exchange(c)
           \/ UNCHANGED vars
    PROVE  SInv'
    <1>1. TypeOK /\ UNCHANGED <<store, writes, loaded, mapped, watchedKvs>>
        BY DEF RInv, IInv, Expire, ExpireInit, ExpireSecret, SetDirty, Exchange, vars, service, provider
    <1>2. Present' /\ Known' /\ SentinelCovers'
        BY <1>1 DEF SInv, Present, Known, SentinelCovers
    <1>3. ASSUME NEW d \in Callers PROVE Sentinels(d)'
        <2>1. loc[d] \in Locals /\ Sentinels(d)
            BY <1>1 DEF SInv, TypeOK
        <2>2. CASE \E t \in Timers : SetDirty(t)
            <3>1. pc' = pc /\ SameWork(loc'[d], loc[d])
                BY <1>1, <2>2, DirtyWork DEF SetDirty
            <3> QED BY <1>1, <2>1, <3>1, SameWorkSentinels
        <2>3. CASE \E c \in Callers : Exchange(c)
            <3>1. loc' = loc /\ (pc'[d] = pc[d] \/ pc'[d] \in {"idle", "decide"})
                BY <1>1, <2>3 DEF Exchange, Goto, TypeOK
            <3> QED BY <1>1, <2>1, <3>1 DEF Sentinels, Changing, Carried, AllCovered, Covered
        <2>4. CASE UNCHANGED <<pc, loc>>
            BY <1>1, <2>1, <2>4 DEF Sentinels, Changing, Carried, AllCovered, Covered
        <2> QED BY <2>2, <2>3, <2>4 DEF Expire, ExpireInit, ExpireSecret, vars
    <1> QED BY <1>2, <1>3 DEF SInv

\* Nothing is recorded at first.
LEMMA SentinelInit == Init => SInv
    <1> SUFFICES ASSUME Init PROVE SInv
        OBVIOUS
    <1>1. Present
        BY DEF Init, Present
    <1>2. Known
        BY DEF Init, Known
    <1>3. SentinelCovers
        BY DEF Init, SentinelCovers
    <1>4. \A c \in Callers : Sentinels(c)
        BY DEF Init, Sentinels, Changing
    <1> QED BY <1>1, <1>2, <1>3, <1>4 DEF SInv

\* All steps.
LEMMA SentinelStep ==
    ASSUME SentinelsFirst, RInv, SInv, [Next]_vars PROVE SInv'
    <1>1. RInv' /\ IInv'
        BY RInvStep DEF RInv
    <1>2. ASSUME NEW c \in Callers, Work(c) PROVE SInv'
        <2>1. CASE NothingDue(c) \/ InitThrottled(c)
            <3>1. Inside(c) /\ Leave(c) /\ Still /\ UNCHANGED loaded
                BY <2>1 DEF NothingDue, InitThrottled, Inside, Still, service, provider
            <3> QED BY <3>1, SentinelStill, SentinelLeaves DEF Still
        <2>2. CASE BeginInitialize(c) \/ BeginRefresh(c)
            BY <1>1, <2>2, SentinelBegins
        <2>3. CASE \E w \in Watched : CheckWatcher(c, w) \/ LoadWatched(c, w)
            BY <1>1, <2>3, SentinelChecks, SentinelLoadsWatched
        <2>4. CASE \E n \in Sel : CheckCollection(c, n) \/ CheckFlags(c, n) \/ LoadSelector(c, n)
            BY <1>1, <2>4, SentinelChecks, SentinelLoadsSelector
        <2>5. CASE ApplyAll(c) \/ ApplyChanges(c) \/ ApplyInit(c) \/ Prepare(c)
            BY <1>1, <2>5, SentinelApplies
        <2>6. ASSUME NEW u \in Timers, Reset(c, u) PROVE SInv'
            <3>1. Still /\ UNCHANGED loaded /\ Inside(c) /\ pc' = pc /\ Sentinels(c) /\ TypeOK
                BY <2>6 DEF Reset, Still, service, provider, Inside, SInv, RInv, IInv
            <3>2. SameWork(loc'[c], loc[c]) /\ \A d \in Callers \ {c} : loc'[d] = loc[d]
                BY <2>6, <3>1, ResetWork
            <3>3. Sentinels(c)'
                BY <3>1, <3>2, SameWorkSentinels DEF Still
            <3> QED BY <3>1, <3>2, <3>3, SentinelInside, SentinelStill DEF Still
        <2>7. CASE NothingChanged(c)
            <3>1. Inside(c) /\ Leave(c) /\ Still /\ UNCHANGED loaded
                BY <2>7 DEF NothingChanged, AllReset, Inside, Still, service, provider
            <3> QED BY <3>1, SentinelStill, SentinelLeaves DEF Still
        <2> QED BY <1>2, <2>1, <2>2, <2>3, <2>4, <2>5, <2>6, <2>7 DEF Work
    <1>3. ASSUME NEW c \in Callers, Fault(c) PROVE SInv'
        <2>1. CASE NoClientAvailable(c) \/ PrepareFails(c) \/ Fail(c)
            <3>1. Inside(c) /\ Leave(c) /\ Still /\ UNCHANGED loaded
                BY <2>1 DEF NoClientAvailable, PrepareFails, AllReset, Fail, Requesting, Inside, Still,
                            service, provider
            <3> QED BY <3>1, SentinelStill, SentinelLeaves DEF Still
        <2>2. CASE FailOver(c)
            BY <1>1, <2>2, SentinelBegins
        <2> QED BY <1>3, <2>1, <2>2 DEF Fault
    <1> QED BY <1>1, <1>2, <1>3, SentinelChange, SentinelOutside DEF Next, Environment

\* A key-value registered with refreshAll does what it is for, if it is loaded before
\* what it stands for: once the provider has recorded the store's version of it, the
\* provider holds the store's version of every selected item written before it. No
\* interleaving of pages, pushes, failovers, failures and changes of the store makes
\* the provider record a sentinel's version along with older data.
THEOREM SentinelProtects ==
    ASSUME SentinelsFirst PROVE Spec => []SentinelCovers
    <1>1. RInv /\ SInv /\ [Next]_vars => SInv'
        BY SentinelStep
    <1>2. SInv => SentinelCovers
        BY DEF SInv
    <1> QED BY <1>1, <1>2, AlwaysReady, SentinelInit, PTL DEF Spec

---------------------------------------------------------------------------
(* Pushes *)

\* No recorded page has a newer version of a flag than the data.
NoNewerPage(data, pages, done) ==
    \A n \in done : \A i \in Selectors[n] \cap FfItems : pages[n][i] <= data[i]

\* A push announces versions the store has had, and a deleted item has none to announce.
Announced == \A t \in Timers : \A i \in Items : notified[t][i] <= store[i]

\* A watcher of S has its items in a version not older than announced to it.
HeldHeard(S) == \A t \in S \ {AllTimer} : \A i \in Scope(t) : notified[t][i] <= mapped[i]

\* A refresh that found a watcher due and has done its check, or loaded its flags, has read
\* nothing older than what was announced to it, and holds nothing older once it comes to
\* setting it waiting. A push takes its watcher out of elig: what it announces is left to
\* the next refresh, or to chance if the watcher is late.
Heard(c) ==
    LET l == loc[c]
    IN  /\ pc[c] \notin {"idle", "decide"} /\ ~l.init => loaded
        /\ pc[c] = "watch" \/ (pc[c] = "prepare" /\ l.init) => l.full
        /\ Changing(c) => \A w \in Watched : KvTimer(w) \in l.elig =>
              (pc[c] = "check" /\ w \in l.kvs) \/ notified[KvTimer(w)][w] <= l.watched[w]
        /\ pc[c] = "check" => \A n \in FfSelectors : FfTimer(n) \in l.elig =>
              n \in l.ffs \/ \A i \in Selectors[n] : notified[FfTimer(n)][i] <= etags[n][i]
        /\ Changing(c) /\ pc[c] # "check" =>
              \A n \in FfSelectors \ l.todo : FfTimer(n) \in l.elig =>
                  \A i \in Selectors[n] : notified[FfTimer(n)][i] <= l.data[i]
        /\ pc[c] = "prepare" /\ ~l.full => HeldHeard(l.elig)
        /\ pc[c] = "load" => NoNewerPage(l.data, l.pages, FfSelectors \ l.todo)
        /\ pc[c] = "apply" => l.todo = {}
        /\ pc[c] \in {"watch", "apply"} \/ (pc[c] = "prepare" /\ l.init)
              => NoNewerPage(l.data, l.pages, FfSelectors)

\* The recorded pages have no newer flags than the data that a check finds unchanged.
PInv ==
    /\ Announced /\ (loaded => NoNewerPage(mapped, etags, FfSelectors))
    /\ \A c \in Callers : Heard(c)

---------------------------------------------------------------------------
LEMMA ScopeType ==
    ASSUME NEW t \in Timers PROVE Scope(t) \subseteq Items
    <1>1. ASSUME NEW w \in Watched, t = KvTimer(w) PROVE Scope(t) \subseteq Items
        <2>1. Scope(t) = {w} /\ w \in Items
            BY <1>1, WatchedAssumption DEF Scope, KvTimer
        <2> QED BY <2>1
    <1>2. ASSUME NEW n \in FfSelectors, t = FfTimer(n) PROVE Scope(t) \subseteq Items
        <2>1. Scope(t) = Selectors[n]
            BY <1>2 DEF Scope, FfTimer
        <2> QED BY <2>1, SelectorsType
    <1>3. ASSUME t = AllTimer PROVE Scope(t) \subseteq Items
        <2>1. Scope(t) = KvItems
            BY <1>3 DEF Scope, AllTimer
        <2> QED BY <2>1, PartsOfItems
    <1> QED BY <1>1, <1>2, <1>3 DEF Timers, KvTimers, FfTimers

\* A step past the gate concerns the one caller that is there.
LEMMA HeardInside ==
    ASSUME RInv, PInv, NEW c \in Callers, Inside(c), UNCHANGED service,
           \A d \in Callers \ {c} : loc'[d] = loc[d] /\ pc'[d] = pc[d],
           loaded' => NoNewerPage(mapped', etags', FfSelectors), Heard(c)'
    PROVE  PInv'
    <1>1. ASSUME NEW d \in Callers \ {c} PROVE Heard(d)'
        <2>1. pc'[d] = "idle"
            BY DEF RInv, IInv, GateExclusive, Inside
        <2> QED BY <2>1 DEF Heard, Changing
    <1>2. Announced'
        BY DEF PInv, Announced, service
    <1> QED BY <1>1, <1>2 DEF PInv, NoNewerPage

\* A caller that leaves has nothing more to show.
LEMMA HeardLeaves ==
    ASSUME RInv, PInv, NEW c \in Callers, Inside(c), UNCHANGED service,
           loaded' => NoNewerPage(mapped', etags', FfSelectors), Leave(c)
    PROVE  PInv'
    <1>1. pc'[c] = "idle" /\ \A d \in Callers \ {c} : loc'[d] = loc[d] /\ pc'[d] = pc[d]
        BY DEF RInv, IInv, TypeOK, Leave, Goto, Local
    <1>2. Heard(c)'
        BY <1>1 DEF Heard, Changing
    <1> QED BY <1>1, <1>2, HeardInside

\* Setting a watcher waiting leaves all that was read alone.
LEMMA HeardReset ==
    ASSUME RInv, PInv, NEW c \in Callers, NEW t \in Timers, Reset(c, t)
    PROVE  PInv'
    <1>1. TypeOK /\ Heard(c)
        BY DEF RInv, IInv, PInv
    <1>2. pc[c] = "prepare" /\ pc' = pc /\ Inside(c) /\ UNCHANGED <<service, provider>>
        BY DEF Reset, Inside
    <1>3. /\ SameWork(loc'[c], loc[c]) /\ loc'[c].elig \subseteq loc[c].elig
          /\ \A d \in Callers \ {c} : loc'[d] = loc[d]
        BY <1>1, ResetWork
    <1>4. Heard(c)'
        BY <1>1, <1>2, <1>3
        DEF Heard, Changing, HeldHeard, NoNewerPage, SameWork, provider, service
    <1> QED BY <1>2, <1>3, <1>4, HeardInside DEF PInv, provider

\* The announced versions of the watched items that a refresh finds due are read.
WatchersHeard(l, kvs) ==
    \A w \in Watched : KvTimer(w) \in l.elig =>
        w \in kvs \/ notified[KvTimer(w)][w] <= l.watched[w]

\* So are the pages of the flags, if they have not changed.
FlagsHeard(l) ==
    \A n \in FfSelectors : FfTimer(n) \in l.elig =>
        n \in l.ffs \/ \A i \in Selectors[n] : notified[FfTimer(n)][i] <= etags[n][i]

\* And what was loaded of the flags.
FlagsLoaded(l, todo) ==
    \A n \in FfSelectors \ todo : FfTimer(n) \in l.elig =>
        \A i \in Selectors[n] : notified[FfTimer(n)][i] <= l.data[i]

\* How a load begins: the flags are loaded only when the watched items are read.
LEMMA HeardBeginsLoad ==
    ASSUME RInv, PInv, NEW c \in Callers, Inside(c), UNCHANGED <<service, provider>>,
           NEW S \in SUBSET Sel, NEW full \in BOOLEAN, NEW l \in Locals,
           BeginLoad(c, S, full, l), l.init \/ loaded,
           IF full THEN S = Sel ELSE S = FfSelectors /\ WatchersHeard(l, {})
    PROVE  PInv'
    <1> DEFINE n == [l EXCEPT !.todo = S, !.full = full, !.data = Nothing,
                              !.kvs = {}, !.cols = {}, !.ffs = {}]
    <1>1. TypeOK
        BY DEF RInv, IInv
    <1>2. pc'[c] = "load" /\ loc'[c] = n /\ \A d \in Callers \ {c} : loc'[d] = loc[d] /\ pc'[d] = pc[d]
        BY <1>1 DEF BeginLoad, Goto, Local, TypeOK
    <1>3. /\ n.full = full /\ n.watched = l.watched /\ n.todo = S /\ n.init = l.init
          /\ n.elig = l.elig
        BY DEF Locals
    <1>4. FfSelectors \ n.todo = {}
        BY <1>3, SelectorsType
    <1> HIDE DEF n
    <1>5. n.full \/ WatchersHeard(n, {})
        BY <1>3 DEF WatchersHeard
    <1>6. Heard(c)'
        BY <1>2, <1>3, <1>4, <1>5
        DEF Heard, Changing, NoNewerPage, WatchersHeard, provider, service
    <1> QED BY <1>2, <1>6, HeardInside DEF PInv, provider

\* The checks read the store, which has what was announced.
LEMMA HeardChecks ==
    ASSUME RInv, PInv, NEW c \in Callers,
           \/ \E w \in Watched : CheckWatcher(c, w)
           \/ \E n \in Sel : CheckCollection(c, n) \/ CheckFlags(c, n)
    PROVE  PInv'
    <1>1. TypeOK /\ loc[c] \in Locals /\ store \in Content /\ Heard(c) /\ InFlight(c)
        BY DEF RInv, IInv, PInv, TypeOK
    <1>2. pc[c] = "check" /\ Inside(c) /\ UNCHANGED <<service, provider>>
        BY DEF CheckWatcher, CheckCollection, CheckFlags, Inside
    <1>3. WatchersHeard(loc[c], loc[c].kvs) /\ FlagsHeard(loc[c]) /\ loaded /\ ~loc[c].full
        BY <1>1, <1>2 DEF Heard, InFlight, Changing, WatchersHeard, FlagsHeard
    <1>4. ASSUME NEW l \in Locals, BeginLoad(c, Sel, TRUE, l) PROVE PInv'
        BY <1>2, <1>3, <1>4, HeardBeginsLoad
    <1>5. ASSUME NEW l \in Locals, WatchersHeard(l, l.kvs), FlagsHeard(l),
                 Local(c, l), UNCHANGED pc
          PROVE  PInv'
        <2>1. loc'[c] = l /\ pc'[c] = "check"
              /\ \A d \in Callers \ {c} : loc'[d] = loc[d] /\ pc'[d] = pc[d]
            BY <1>1, <1>2, <1>5 DEF Local, TypeOK
        <2>2. Heard(c)'
            BY <1>2, <1>3, <1>5, <2>1
            DEF Heard, Changing, WatchersHeard, FlagsHeard, provider, service
        <2> QED BY <1>2, <2>1, <2>2, HeardInside DEF PInv, provider
    <1>6. ASSUME NEW w \in Watched, CheckWatcher(c, w) PROVE PInv'
        <2> DEFINE l == [loc[c] EXCEPT !.kvs = @ \ {w}, !.late = {}, !.watched[w] = store[w]]
        <2>1. l \in Locals
            BY <1>1, StoreType, CheckedReadType
        <2>2. /\ l.watched = [loc[c].watched EXCEPT ![w] = store[w]]
              /\ l.kvs = loc[c].kvs \ {w} /\ l.elig = loc[c].elig /\ l.ffs = loc[c].ffs
              /\ loc[c].watched \in [Watched -> Nat]
            BY <1>1 DEF Locals
        <2>3. BeginLoad(c, Sel, TRUE, l) \/ (Local(c, l) /\ UNCHANGED pc)
            BY <1>6 DEF CheckWatcher
        <2> HIDE DEF l
        <2>4. KvTimer(w) \in l.elig => notified[KvTimer(w)][w] <= store[w]
            BY <1>1, <2>2, Parts DEF PInv, Announced, Locals
        <2>5. WatchersHeard(l, l.kvs) /\ FlagsHeard(l)
            BY <1>3, <2>2, <2>4 DEF WatchersHeard, FlagsHeard
        <2> QED BY <1>4, <1>5, <2>1, <2>3, <2>5
    <1>7. ASSUME NEW n \in Sel, CheckCollection(c, n) PROVE PInv'
        <2> DEFINE l == [loc[c] EXCEPT !.cols = @ \ {n}]
        <2>1. /\ l \in Locals /\ l.watched = loc[c].watched /\ l.kvs = loc[c].kvs
              /\ l.elig = loc[c].elig /\ l.ffs = loc[c].ffs
            BY <1>1 DEF Locals
        <2>2. BeginLoad(c, Sel, TRUE, loc[c]) \/ (Local(c, l) /\ UNCHANGED pc)
            BY <1>7 DEF CheckCollection
        <2> HIDE DEF l
        <2>3. WatchersHeard(l, l.kvs) /\ FlagsHeard(l)
            BY <1>3, <2>1 DEF WatchersHeard, FlagsHeard
        <2> QED BY <1>1, <1>4, <1>5, <2>1, <2>2, <2>3
    <1>8. ASSUME NEW n \in Sel, CheckFlags(c, n) PROVE PInv'
        <2> DEFINE l == [loc[c] EXCEPT !.ffs = @ \ {n}, !.late = {}]
        <2>1. /\ l \in Locals /\ l.watched = loc[c].watched /\ l.kvs = loc[c].kvs
              /\ l.elig = loc[c].elig /\ l.ffs = loc[c].ffs \ {n}
            BY <1>1 DEF Locals
        <2>2. \/ BeginLoad(c, FfSelectors, FALSE, l)
              \/ ~HaveCollectionsChanged(n) /\ Local(c, l) /\ UNCHANGED pc
            BY <1>8 DEF CheckFlags
        <2> HIDE DEF l
        <2>3. CASE BeginLoad(c, FfSelectors, FALSE, l)
            <3>1. \A w \in Watched : KvTimer(w) \in loc[c].elig => w \notin loc[c].kvs
                BY <1>8 DEF CheckFlags, ChecksBeforeFlags, WatchersLeft
            <3>2. WatchersHeard(l, {})
                BY <1>3, <2>1, <3>1 DEF WatchersHeard
            <3> QED BY <1>2, <1>3, <2>1, <2>3, <3>2, HeardBeginsLoad, SelectorsType
        <2>4. CASE ~HaveCollectionsChanged(n) /\ Local(c, l) /\ UNCHANGED pc
            <3>1. FfTimer(n) \in l.elig =>
                    \A i \in Selectors[n] : notified[FfTimer(n)][i] <= etags[n][i]
                <4> SUFFICES ASSUME FfTimer(n) \in l.elig, NEW i \in Selectors[n]
                             PROVE  notified[FfTimer(n)][i] <= etags[n][i]
                    OBVIOUS
                <4>1. i \in Items /\ FfTimer(n) \in Timers
                    BY <1>1, <2>1, SelectorsType DEF Locals
                <4> QED BY <2>4, <4>1, UnchangedPage DEF PInv, Announced
            <3>2. WatchersHeard(l, l.kvs)
                BY <1>3, <2>1 DEF WatchersHeard
            <3>3. FlagsHeard(l)
                BY <1>3, <2>1, <3>1 DEF FlagsHeard
            <3> QED BY <1>5, <2>1, <2>4, <3>2, <3>3
        <2> QED BY <2>2, <2>3, <2>4
    <1> QED BY <1>6, <1>7, <1>8

\* A page of the store is not older than what was loaded or announced before.
LEMMA OverwriteNotOlder ==
    ASSUME RInv, PInv, NEW d \in Content, NEW i \in Items, NEW S, CouldTake(d[i], i),
           NEW page, page = Page(store, S)
    PROVE  /\ d[i] <= Overwrite(d, page)[i] /\ page[i] <= Overwrite(d, page)[i]
           /\ \A t \in Timers : i \in S \/ notified[t][i] <= d[i]
                                  => notified[t][i] <= Overwrite(d, page)[i]
    <1>1. /\ store[i] \in Nat /\ d[i] \in Nat
          /\ \A t \in Timers : notified[t][i] \in Nat /\ notified[t][i] <= store[i]
        BY DEF RInv, IInv, TypeOK, PInv, Announced
    <1>2. page[i] = (IF i \in S THEN store[i] ELSE 0)
          /\ Overwrite(d, page)[i] = (IF page[i] # 0 THEN page[i] ELSE d[i])
        BY DEF Page, Overwrite
    <1>3. store[i] # 0 => d[i] <= store[i]
        BY <1>1 DEF CouldTake, Latest
    <1> QED BY <1>1, <1>2, <1>3

\* Loading a page, in a full load and in a load of the flags.
LEMMA HeardLoadsSelector ==
    ASSUME RInv, PInv, IInv', NEW c \in Callers, NEW n \in Sel, LoadSelector(c, n)
    PROVE  PInv'
    <1> DEFINE L    == loc[c]
               page == Page(store, Selectors[n])
               l    == [L EXCEPT
                          !.todo = @ \ {n}, !.data = Overwrite(@, page),
                          !.pages[n] = page,
                          !.keys = IF n \in FfSelectors
                                   THEN @ \cup {i \in Items : page[i] # Absent} ELSE @]
               last == [l EXCEPT !.watched = [w \in Watched |-> l.data[w]],
                                 !.kvs = NotLoaded(l.data)]
    <1>1. TypeOK /\ TypeOK' /\ L \in Locals /\ InFlight(c) /\ Ready(c) /\ Heard(c)
        BY DEF RInv, IInv, PInv, TypeOK
    <1>2. pc[c] = "load" /\ Inside(c) /\ UNCHANGED <<service, provider>>
        BY DEF LoadSelector, Inside
    <1>3. /\ L.data \in Content /\ L.pages \in [Sel -> Content] /\ n \in L.todo
          /\ \A i \in Items : CouldTake(L.data[i], i)
          /\ NoNewerPage(L.data, L.pages, FfSelectors \ L.todo)
          /\ L.init \/ loaded
        BY <1>1, <1>2 DEF LoadSelector, Locals, Ready, Heard
    <1>4. /\ l.data = Overwrite(L.data, page) /\ l.full = L.full /\ l.watched = L.watched
          /\ l.todo = L.todo \ {n} /\ l.elig = L.elig /\ l.init = L.init
          /\ l.pages = [L.pages EXCEPT ![n] = page]
          /\ last.data = l.data /\ last.init = l.init /\ last.pages = l.pages
          /\ last.full = l.full
        BY <1>1 DEF Locals
    <1>5. \/ l.todo # {} /\ Local(c, l) /\ UNCHANGED pc
          \/ l.todo = {} /\ l.full /\ Local(c, last) /\ Goto(c, "watch")
          \/ l.todo = {} /\ ~l.full /\ Local(c, l) /\ Goto(c, "apply")
        BY DEF LoadSelector
    <1>6. page = Page(store, Selectors[n])
        OBVIOUS
    <1>7. ~L.full =>
              /\ WatchersHeard(L, {})
              /\ FlagsLoaded(L, L.todo)
        BY <1>1, <1>2 DEF Heard, Changing, WatchersHeard, FlagsLoaded
    <1> HIDE DEF l, last, page, L
    <1>8. \A d \in Callers \ {c} : loc'[d] = loc[d] /\ pc'[d] = pc[d]
        BY <1>1, <1>5 DEF Local, Goto, TypeOK
    <1>9. \/ l.todo # {} /\ loc'[c] = l /\ pc'[c] = "load"
          \/ l.todo = {} /\ l.full /\ loc'[c] = last /\ pc'[c] = "watch"
          \/ l.todo = {} /\ ~l.full /\ loc'[c] = l /\ pc'[c] = "apply"
        BY <1>1, <1>2, <1>5 DEF Local, Goto, TypeOK
    <1>10. ASSUME NEW i \in Items
          PROVE  /\ L.data[i] \in Nat /\ l.data[i] \in Nat /\ page[i] \in Nat
                 /\ L.data[i] <= l.data[i] /\ page[i] <= l.data[i]
                 /\ \A t \in Timers : i \in Selectors[n] \/ notified[t][i] <= L.data[i]
                                        => notified[t][i] <= l.data[i]
        <2>1. /\ L.data[i] <= l.data[i] /\ page[i] <= l.data[i]
              /\ \A t \in Timers : i \in Selectors[n] \/ notified[t][i] <= L.data[i]
                                     => notified[t][i] <= l.data[i]
            BY <1>3, <1>4, <1>6, OverwriteNotOlder
        <2>2. page \in Content
            BY <1>1, <1>6, PageType DEF TypeOK
        <2> QED BY <1>3, <1>4, <2>1, <2>2 DEF Overwrite
    <1>11. NoNewerPage(l.data, l.pages, FfSelectors \ l.todo)
        <2> SUFFICES ASSUME NEW m \in FfSelectors \ l.todo, NEW i \in Selectors[m] \cap FfItems
                     PROVE  l.pages[m][i] <= l.data[i]
            BY DEF NoNewerPage
        <2>1. i \in Items /\ m \in Sel
            BY Parts, SelectorsType
        <2>2. CASE m = n
            BY <1>3, <1>4, <1>10, <2>1, <2>2
        <2>3. CASE m # n
            <3>1. l.pages[m] = L.pages[m] /\ m \in FfSelectors \ L.todo
                BY <1>3, <1>4, <2>1, <2>3
            <3>2. L.pages[m][i] <= L.data[i] /\ L.pages[m][i] \in Nat
                BY <1>3, <2>1, <3>1 DEF NoNewerPage
            <3> QED BY <1>10, <2>1, <3>1, <3>2
        <2> QED BY <2>2, <2>3
    <1>12. ~l.full => WatchersHeard(l, {}) /\ FlagsLoaded(l, l.todo)
        <2> SUFFICES ASSUME ~L.full PROVE WatchersHeard(l, {}) /\ FlagsLoaded(l, l.todo)
            BY <1>4
        <2>1. WatchersHeard(l, {})
            BY <1>4, <1>7 DEF WatchersHeard
        <2>2. ASSUME NEW m \in FfSelectors \ l.todo, FfTimer(m) \in L.elig, NEW i \in Selectors[m]
              PROVE  notified[FfTimer(m)][i] <= l.data[i]
            <3>1. i \in Items
                BY SelectorsType
            <3>2. m = n \/ m \in FfSelectors \ L.todo
                BY <1>4
            <3>3. FfTimer(m) \in Timers
                BY <1>1, <2>2 DEF Locals
            <3>4. m # n => notified[FfTimer(m)][i] <= L.data[i]
                BY <1>7, <2>2, <3>2 DEF FlagsLoaded
            <3>5. m = n => i \in Selectors[n]
                OBVIOUS
            <3> QED BY <1>10, <3>1, <3>3, <3>4, <3>5
        <2> QED BY <1>4, <2>1, <2>2 DEF FlagsLoaded
    <1>13. l.todo = {} => FfSelectors \ l.todo = FfSelectors
        OBVIOUS
    <1>14. notified' = notified /\ loaded' = loaded /\ etags' = etags
        BY <1>2 DEF service, provider
    <1>15. Heard(c)'
        <2>1. CASE pc'[c] = "watch"
            <3>1. /\ loc'[c] = last /\ last.full /\ (last.init \/ loaded)
                  /\ NoNewerPage(last.data, last.pages, FfSelectors)
                BY <1>3, <1>4, <1>9, <1>11, <1>13, <2>1
            <3> QED BY <1>14, <2>1, <3>1 DEF Heard, Changing, NoNewerPage
        <2>2. CASE pc'[c] = "load"
            <3>1. loc'[c] = l /\ (l.init \/ loaded)
                BY <1>3, <1>4, <1>9, <2>2
            <3> QED BY <1>11, <1>12, <1>14, <2>2, <3>1 DEF Heard, Changing, NoNewerPage, WatchersHeard, FlagsLoaded
        <2>3. CASE pc'[c] = "apply"
            <3>1. loc'[c] = l /\ (l.init \/ loaded) /\ l.todo = {} /\ ~l.full
                BY <1>3, <1>4, <1>9, <2>3
            <3> QED BY <1>11, <1>12, <1>13, <1>14, <2>3, <3>1
                DEF Heard, Changing, NoNewerPage, WatchersHeard, FlagsLoaded
        <2> QED BY <1>9, <2>1, <2>2, <2>3
    <1> QED BY <1>2, <1>8, <1>15, HeardInside DEF PInv, provider

\* A watched item that is requested on its own is no flag.
LEMMA HeardLoadsWatched ==
    ASSUME RInv, PInv, NEW c \in Callers, NEW w \in Watched, LoadWatched(c, w)
    PROVE  PInv'
    <1>1. TypeOK /\ loc[c] \in Locals /\ Heard(c)
        BY DEF RInv, IInv, PInv, TypeOK
    <1>2. pc[c] = "watch" /\ pc' = pc /\ Inside(c) /\ UNCHANGED <<service, provider>>
        BY DEF LoadWatched, Inside
    <1>3. /\ loc'[c].data = [loc[c].data EXCEPT ![w] = store[w]]
          /\ loc'[c].pages = loc[c].pages /\ loc'[c].init = loc[c].init
          /\ loc'[c].full = loc[c].full
          /\ \A d \in Callers \ {c} : loc'[d] = loc[d]
        BY <1>1 DEF LoadWatched, Local, Locals, TypeOK
    <1>4. loc[c].data \in Content
        BY <1>1 DEF Locals
    <1>5. \A i \in FfItems : loc'[c].data[i] = loc[c].data[i]
        BY <1>3, <1>4, PartsOfItems
    <1>6. NoNewerPage(loc[c].data, loc[c].pages, FfSelectors) /\ loc[c].full
          /\ (~loc[c].init => loaded)
        BY <1>1, <1>2 DEF Heard
    <1>7. Heard(c)'
        BY <1>2, <1>3, <1>5, <1>6 DEF Heard, Changing, NoNewerPage, provider
    <1> QED BY <1>2, <1>3, <1>7, HeardInside DEF PInv, provider

\* An attempt begins with all its checks to make.
LEMMA HeardBegins ==
    ASSUME RInv, PInv, IInv', NEW c \in Callers,
           BeginInitialize(c) \/ BeginRefresh(c) \/ FailOver(c)
    PROVE  PInv'
    <1>1. TypeOK /\ loc[c] \in Locals /\ Blank \in Locals /\ Heard(c)
        BY BlankType DEF RInv, IInv, PInv, TypeOK
    <1>2. Inside(c) /\ UNCHANGED <<service, provider>>
        BY DEF BeginInitialize, BeginRefresh, FailOver, Requesting, Inside
    <1>3. ASSUME NEW l \in Locals, l.init, BeginLoad(c, Sel, TRUE, l) PROVE PInv'
        BY <1>2, <1>3, HeardBeginsLoad
    <1>4. ASSUME NEW k \in 0..Clients, NEW e \in SUBSET Timers, loaded,
                 Local(c, Attempt(k, e)), Goto(c, "check")
          PROVE  PInv'
        <2>1. /\ loc'[c] = Attempt(k, e) /\ pc'[c] = "check"
              /\ \A d \in Callers \ {c} : loc'[d] = loc[d] /\ pc'[d] = pc[d]
            BY <1>1, <1>4 DEF Local, Goto, TypeOK
        <2>2. Attempt(k, e).kvs = Watched /\ Attempt(k, e).ffs = FfSelectors
            BY DEF Attempt, Blank
        <2>3. Heard(c)'
            BY <1>2, <1>4, <2>1, <2>2 DEF Heard, Changing, provider
        <2> QED BY <1>2, <2>1, <2>3, HeardInside DEF PInv, provider
    <1>5. CASE BeginInitialize(c)
        <2> DEFINE l == [Blank EXCEPT !.attempt = 1, !.init = TRUE]
        <2>1. 1 \in 0..Clients
            BY BoundsAssumption
        <2>2. l \in Locals /\ l.init
            BY <1>1, <2>1 DEF Locals
        <2>3. BeginLoad(c, Sel, TRUE, l)
            BY <1>5 DEF BeginInitialize
        <2> HIDE DEF l
        <2> QED BY <1>3, <2>2, <2>3
    <1>6. CASE BeginRefresh(c)
        <2>1. 1 \in 0..Clients /\ Due \in SUBSET Timers
            BY BoundsAssumption DEF Due
        <2> QED BY <1>4, <1>6, <2>1 DEF BeginRefresh
    <1>7. CASE FailOver(c)
        <2> DEFINE l == [Blank EXCEPT !.attempt = loc[c].attempt + 1, !.init = TRUE, !.keys = loc[c].keys]
        <2>1. loc[c].attempt + 1 \in 0..Clients /\ loc[c].elig \in SUBSET Timers
            BY <1>1, <1>7, BoundsAssumption DEF FailOver, Locals
        <2>2. l \in Locals /\ l.init
            BY <1>1, <2>1 DEF Locals
        <2>3. ~loc[c].init => loaded
            BY <1>1, <1>7 DEF FailOver, Requesting, Heard
        <2>4. \/ BeginLoad(c, Sel, TRUE, l)
              \/ ~loc[c].init /\ Local(c, Attempt(loc[c].attempt + 1, loc[c].elig)) /\ Goto(c, "check")
            BY <1>7 DEF FailOver
        <2> HIDE DEF l
        <2> QED BY <1>3, <1>4, <2>1, <2>2, <2>3, <2>4
    <1> QED BY <1>5, <1>6, <1>7

\* The watchers a refresh has found due hold what was announced once its changes are in
\* place, be it that it found the flags unchanged or loaded them.
LEMMA ChangesHeard ==
    ASSUME RInv, PInv, NEW c \in Callers, ApplyChanges(c), loaded
    PROVE  \A t \in loc[c].elig \ {AllTimer} : \A i \in Scope(t) : notified[t][i] <= mapped'[i]
    <1>1. TypeOK /\ IInv /\ Heard(c) /\ InFlight(c) /\ loc[c] \in Locals
        BY DEF RInv, IInv, PInv, TypeOK
    <1>2. /\ pc[c] \in {"check", "apply"} /\ Changing(c)
          /\ pc[c] = "check" => WatchersLeft(c) = {} /\ FlagsLeft(c) = {}
        BY DEF ApplyChanges, Changing, ChecksBeforeFlags
    <1> SUFFICES ASSUME NEW t \in loc[c].elig \ {AllTimer}, NEW i \in Scope(t)
                 PROVE  notified[t][i] <= mapped'[i]
        OBVIOUS
    <1>3. t \in Timers
        BY <1>1 DEF Locals
    <1>4. ASSUME NEW w \in Watched, t = KvTimer(w) PROVE notified[t][i] <= mapped'[i]
        <2>1. i = w
            BY <1>4 DEF Scope, KvTimer
        <2>2. notified[t][w] <= loc[c].watched[w]
            BY <1>1, <1>2, <1>4 DEF Heard, WatchersLeft
        <2>3. mapped'[w] = loc[c].watched[w]
            BY <1>1, ChangesTaken
        <2> QED BY <2>1, <2>2, <2>3
    <1>5. ASSUME NEW n \in FfSelectors, t = FfTimer(n) PROVE notified[t][i] <= mapped'[i]
        <2>1. i \in Selectors[n] /\ i \in FfItems /\ i \in Items /\ n \in Sel
            BY <1>5, SelectorsType DEF Scope, FfTimer, FfItems
        <2>2. mapped'[i] = IF pc[c] = "apply" THEN loc[c].data[i] ELSE mapped[i]
            BY <1>1, <2>1, ChangesTaken
        <2>3. notified[t][i] \in Nat /\ mapped[i] \in Nat /\ etags[n][i] \in Nat
            BY <1>1, <1>3, <2>1 DEF TypeOK
        <2>4. CASE pc[c] = "apply"
            <3>1. notified[t][i] <= loc[c].data[i]
                BY <1>1, <1>2, <1>5, <2>1, <2>4 DEF Heard
            <3> QED BY <2>2, <2>4, <3>1
        <2>5. CASE pc[c] = "check"
            <3>1. n \notin loc[c].ffs
                BY <1>2, <1>5, <2>5 DEF FlagsLeft
            <3>2. notified[t][i] <= etags[n][i]
                BY <1>1, <1>5, <2>1, <2>5, <3>1 DEF Heard
            <3>3. etags[n][i] <= mapped[i]
                BY <2>1 DEF PInv, NoNewerPage
            <3> QED BY <2>2, <2>3, <2>5, <3>2, <3>3
        <2> QED BY <1>2, <2>4, <2>5
    <1> QED BY <1>3, <1>4, <1>5 DEF Timers, KvTimers, FfTimers

LEMMA HeardAppliesChanges ==
    ASSUME RInv, PInv, NEW c \in Callers, ApplyChanges(c)
    PROVE  PInv'
    <1> DEFINE b == Changed(Changes(loc[c]), pc[c] = "apply")
               l == [Blank EXCEPT !.changed = b]
    <1>1. TypeOK /\ IInv /\ Heard(c) /\ InFlight(c) /\ loc[c] \in Locals
        BY DEF RInv, IInv, PInv, TypeOK
    <1>2. /\ pc[c] \in {"check", "apply"} /\ Inside(c) /\ ~loc[c].init
          /\ UNCHANGED loaded /\ UNCHANGED service
          /\ pc[c] = "check" => etags' = etags
          /\ pc[c] = "apply" => etags' = loc[c].pages
          /\ BeginReset(c, loc[c].elig, l)
        BY <1>1 DEF ApplyChanges, InFlight, FlagLoad, Inside
    <1>3. b \in BOOLEAN
        BY DEF Changed
    <1> HIDE DEF b
    <1>4. l \in Locals /\ ~l.init
        BY <1>3, BlankWith
    <1>5. loaded
        BY <1>1, <1>2 DEF Heard
    <1>6. loc[c].elig \in SUBSET Timers
        BY <1>1 DEF Locals
    <1> HIDE DEF l
    <1>7. /\ pc'[c] = "prepare" /\ SameWork(loc'[c], l) /\ loc'[c].elig = loc[c].elig
          /\ \A d \in Callers \ {c} : loc'[d] = loc[d] /\ pc'[d] = pc[d]
        BY <1>1, <1>2, <1>4, <1>6, BeginResetType
    <1>8. \A i \in FfItems : mapped'[i] = IF pc[c] = "apply" THEN loc[c].data[i] ELSE mapped[i]
        BY <1>1, <1>5, ChangesTaken
    <1>9. NoNewerPage(mapped', etags', FfSelectors)
        <2>1. CASE pc[c] = "apply"
            <3>1. NoNewerPage(loc[c].data, loc[c].pages, FfSelectors)
                BY <1>1, <2>1 DEF Heard
            <3> QED BY <1>2, <1>8, <2>1, <3>1 DEF NoNewerPage
        <2>2. CASE pc[c] = "check"
            BY <1>2, <1>5, <1>8, <2>2 DEF PInv, NoNewerPage
        <2> QED BY <1>2, <2>1, <2>2
    <1>10. \A t \in loc[c].elig \ {AllTimer} : \A i \in Scope(t) : notified[t][i] <= mapped'[i]
        BY <1>5, ChangesHeard
    <1>11. notified' = notified
        BY <1>2 DEF service
    <1>12. Heard(c)'
        BY <1>2, <1>4, <1>5, <1>7, <1>10, <1>11 DEF Heard, Changing, SameWork, HeldHeard
    <1> QED BY <1>2, <1>7, <1>9, <1>12, HeardInside

\* What a full load or a load of the flags installs.
LEMMA HeardApplies ==
    ASSUME RInv, PInv, NEW c \in Callers,
           ApplyAll(c) \/ ApplyChanges(c) \/ ApplyInit(c) \/ Prepare(c)
    PROVE  PInv'
    <1>1. TypeOK /\ IInv /\ Heard(c) /\ InFlight(c) /\ Inside(c) /\ loc[c] \in Locals
        BY DEF RInv, IInv, PInv, TypeOK, ApplyAll, ApplyChanges, ApplyInit, Prepare, AllReset,
               Inside
    <1>2. UNCHANGED service
        BY DEF ApplyAll, ApplyChanges, ApplyInit, Prepare
    <1>3. ASSUME Holds(loc[c].data), etags' = loc[c].pages,
                 pc[c] = "watch" \/ (pc[c] = "prepare" /\ loc[c].init)
          PROVE  NoNewerPage(mapped', etags', FfSelectors)
        BY <1>1, <1>3 DEF Heard, Holds
    <1>4. CASE ApplyAll(c)
        <2> DEFINE l == [Blank EXCEPT !.full = TRUE]
                   S == (Timers \ {AllTimer}) \cup loc[c].elig
        <2>1. /\ NoNewerPage(mapped', etags', FfSelectors)
              /\ loaded /\ UNCHANGED loaded /\ BeginReset(c, S, l)
            BY <1>1, <1>3, <1>4 DEF ApplyAll, Heard
        <2>2. l \in Locals /\ ~l.init /\ l.full
            BY BlankWith
        <2>3. S \in SUBSET Timers
            BY <1>1 DEF Locals
        <2> HIDE DEF l, S
        <2>4. /\ pc'[c] = "prepare" /\ SameWork(loc'[c], l)
              /\ \A d \in Callers \ {c} : loc'[d] = loc[d] /\ pc'[d] = pc[d]
            BY <1>1, <2>1, <2>2, <2>3, BeginResetType
        <2>5. Heard(c)'
            BY <2>1, <2>2, <2>4 DEF Heard, Changing, SameWork
        <2> QED BY <1>1, <1>2, <2>1, <2>4, <2>5, HeardInside
    <1>5. CASE ApplyInit(c)
        <2>1. pc[c] = "watch" /\ BeginReset(c, Timers, loc[c]) /\ UNCHANGED provider
            BY <1>5 DEF ApplyInit
        <2>2. /\ NoNewerPage(loc[c].data, loc[c].pages, FfSelectors) /\ (~loc[c].init => loaded)
              /\ loc[c].full
            BY <1>1, <2>1 DEF Heard
        <2>3. /\ pc'[c] = "prepare" /\ SameWork(loc'[c], loc[c])
              /\ \A d \in Callers \ {c} : loc'[d] = loc[d] /\ pc'[d] = pc[d]
            BY <1>1, <2>1, BeginResetType
        <2>4. Heard(c)'
            BY <2>1, <2>2, <2>3 DEF Heard, Changing, NoNewerPage, SameWork, provider
        <2> QED BY <1>1, <1>2, <2>1, <2>3, <2>4, HeardInside DEF PInv, provider
    <1>6. CASE Prepare(c)
        <2>1. loaded' => NoNewerPage(mapped', etags', FfSelectors)
            <3>1. CASE loc[c].init
                BY <1>3, <1>6, <3>1 DEF Prepare, Holds, AllReset
            <3>2. CASE ~loc[c].init
                BY <1>6, <3>2 DEF Prepare, PInv, provider
            <3> QED BY <3>1, <3>2
        <2> QED BY <1>1, <1>2, <1>6, <2>1, HeardLeaves DEF Prepare
    <1>7. CASE ApplyChanges(c)
        BY <1>7, HeardAppliesChanges
    <1> QED BY <1>4, <1>5, <1>6, <1>7

\* A write is newer than every announcement, and a deletion takes back its own.
LEMMA HeardChange ==
    ASSUME RInv, PInv, NEW j \in Items, Write(j) \/ Remove(j) PROVE PInv'
    <1>1. TypeOK /\ Bounded
        BY DEF RInv, IInv
    <1>2. UNCHANGED <<loaded, mapped, watchedKvs, etags, pc, loc>>
        BY DEF Write, Remove, provider
    <1>3. ASSUME NEW t \in Timers, NEW i \in Items
          PROVE  /\ notified'[t][i] = notified[t][i] \/ notified'[t][i] = 0
                 /\ notified'[t][i] <= store'[i]
        <2>1. notified[t] \in [Items -> Nat] /\ store \in [Items -> Nat] /\ writes \in Nat
            BY <1>1 DEF TypeOK
        <2>2. notified[t][i] <= store[i] /\ store[i] <= writes
            BY <1>1 DEF PInv, Announced, Bounded
        <2>3. CASE Write(j)
            <3>1. notified' = notified /\ store' = [store EXCEPT ![j] = writes + 1]
                BY <2>3 DEF Write
            <3> QED BY <2>1, <2>2, <3>1
        <2>4. CASE Remove(j)
            <3>1. /\ notified'[t] = [notified[t] EXCEPT ![j] = 0]
                  /\ store' = [store EXCEPT ![j] = 0]
                BY <2>4 DEF Remove
            <3> QED BY <2>1, <2>2, <3>1
        <2> QED BY <2>3, <2>4
    <1>4. ASSUME NEW t \in Timers, NEW i \in Items, NEW v \in Nat, notified[t][i] <= v
          PROVE  notified'[t][i] <= v
        <2>1. notified[t][i] \in Nat
            BY <1>1 DEF TypeOK
        <2> QED BY <1>3, <1>4, <2>1
    <1>5. ASSUME NEW c \in Callers PROVE Heard(c)'
        <2>1. Heard(c) /\ loc[c] \in Locals /\ etags \in [Sel -> Content] /\ mapped \in Content
            BY <1>1 DEF PInv, TypeOK
        <2>2. /\ loc[c].data \in Content /\ loc[c].watched \in [Watched -> Nat]
              /\ loc[c].elig \subseteq Timers /\ Watched \subseteq Items
              /\ \A n \in FfSelectors : n \in Sel /\ Selectors[n] \subseteq Items
            BY <2>1, WatchedAssumption, SelectorsType DEF Locals
        <2>3. \A w \in Watched :
                  KvTimer(w) \in loc[c].elig /\ notified[KvTimer(w)][w] <= loc[c].watched[w]
                      => notified'[KvTimer(w)][w] <= loc[c].watched[w]
            BY <1>4, <2>2
        <2>4. \A n \in FfSelectors : FfTimer(n) \in loc[c].elig => \A i \in Selectors[n] :
                  /\ notified[FfTimer(n)][i] <= etags[n][i]
                         => notified'[FfTimer(n)][i] <= etags[n][i]
                  /\ notified[FfTimer(n)][i] <= loc[c].data[i]
                         => notified'[FfTimer(n)][i] <= loc[c].data[i]
            <3> SUFFICES ASSUME NEW n \in FfSelectors, FfTimer(n) \in loc[c].elig,
                                NEW i \in Selectors[n]
                         PROVE  /\ notified[FfTimer(n)][i] <= etags[n][i]
                                       => notified'[FfTimer(n)][i] <= etags[n][i]
                                /\ notified[FfTimer(n)][i] <= loc[c].data[i]
                                       => notified'[FfTimer(n)][i] <= loc[c].data[i]
                OBVIOUS
            <3>1. i \in Items /\ etags[n][i] \in Nat /\ loc[c].data[i] \in Nat
                    /\ FfTimer(n) \in Timers
                BY <2>1, <2>2
            <3> QED BY <1>4, <3>1
        <2>5. HeldHeard(loc[c].elig) => HeldHeard(loc[c].elig)'
            <3> SUFFICES ASSUME HeldHeard(loc[c].elig), NEW t \in loc[c].elig \ {AllTimer},
                                NEW i \in Scope(t)
                         PROVE  notified'[t][i] <= mapped[i]
                BY <1>2 DEF HeldHeard
            <3>1. t \in Timers /\ i \in Items /\ mapped[i] \in Nat
                BY <2>1, <2>2, ScopeType
            <3> QED BY <1>4, <3>1 DEF HeldHeard
        <2> QED BY <1>2, <2>1, <2>3, <2>4, <2>5 DEF Heard, Changing, NoNewerPage
    <1> QED BY <1>2, <1>3, <1>5 DEF PInv, Announced, NoNewerPage

\* A push is heard by the next refresh: the one under way no longer sees its watcher, or
\* reads everything.
LEMMA HeardPush ==
    ASSUME RInv, PInv, NEW t \in Timers, SetDirty(t) PROVE PInv'
    <1>1. TypeOK
        BY DEF RInv, IInv
    <1>2. UNCHANGED <<store, provider, pc>> /\ notified' = [notified EXCEPT ![t] = Page(store, Scope(t))]
        BY DEF SetDirty
    <1>3. \A u \in Timers : notified'[u] = IF u = t THEN Page(store, Scope(t)) ELSE notified[u]
        BY <1>1, <1>2 DEF TypeOK
    <1>4. Announced'
        <2> SUFFICES ASSUME NEW u \in Timers, NEW i \in Items PROVE notified'[u][i] <= store[i]
            BY <1>2 DEF Announced
        <2>1. store[i] \in Nat
            BY <1>1 DEF TypeOK
        <2>2. Page(store, Scope(t))[i] = IF i \in Scope(t) THEN store[i] ELSE 0
            BY DEF Page
        <2>3. notified[u][i] <= store[i]
            BY DEF PInv, Announced
        <2> QED BY <1>3, <2>1, <2>2, <2>3
    <1>5. ASSUME NEW c \in Callers PROVE Heard(c)'
        <2>1. loc[c] \in Locals /\ Heard(c)
            BY <1>1 DEF PInv, TypeOK
        <2>2. /\ SameWork(loc'[c], loc[c]) /\ loc'[c].elig \subseteq loc[c].elig
              /\ t = AllTimer \/ VisitsAll(c) \/ t \notin loc'[c].elig
              /\ loc'[c] \in Locals
            BY <1>1, DirtyWork
        <2>3. ~VisitsAll(c) => \A u \in loc'[c].elig \ {AllTimer} :
                                  u \in loc[c].elig /\ notified'[u] = notified[u]
            BY <1>3, <2>2 DEF Locals
        <2>4. /\ \A w \in Watched : KvTimer(w) # AllTimer
              /\ \A n \in FfSelectors : FfTimer(n) # AllTimer
            BY DEF KvTimer, FfTimer, AllTimer
        <2>5. CASE VisitsAll(c)
            BY <1>2, <2>1, <2>2, <2>5
            DEF VisitsAll, Heard, Changing, NoNewerPage, SameWork, provider
        <2>6. CASE ~VisitsAll(c)
            BY <1>2, <2>1, <2>2, <2>3, <2>4, <2>6
            DEF Heard, HeldHeard, Changing, NoNewerPage, SameWork, provider
        <2> QED BY <2>5, <2>6
    <1>6. loaded' => NoNewerPage(mapped', etags', FfSelectors)
        BY <1>2 DEF PInv, provider
    <1> QED BY <1>4, <1>5, <1>6 DEF PInv, NoNewerPage

\* Time and arriving callers leave it all alone.
LEMMA HeardOutside ==
    ASSUME RInv, PInv,
           \/ \E t \in Timers : Expire(t)
           \/ ExpireInit \/ ExpireSecret
           \/ \E c \in Callers : Exchange(c)
           \/ UNCHANGED vars
    PROVE  PInv'
    <1>1. TypeOK /\ UNCHANGED <<service, provider, loc>>
        BY DEF RInv, IInv, Expire, ExpireInit, ExpireSecret, Exchange, vars
    <1>2. ASSUME NEW d \in Callers PROVE Heard(d)'
        <2>1. Heard(d)
            BY DEF PInv
        <2>2. pc'[d] = pc[d] \/ pc'[d] \in {"idle", "decide"}
            BY <1>1 DEF Expire, ExpireInit, ExpireSecret, Exchange, Goto, TypeOK, vars
        <2> QED BY <1>1, <2>1, <2>2 DEF Heard, HeldHeard, Changing, NoNewerPage, service, provider
    <1>3. loaded' => NoNewerPage(mapped', etags', FfSelectors)
        BY <1>1 DEF PInv, provider
    <1>4. Announced'
        BY <1>1 DEF PInv, Announced, service
    <1> QED BY <1>2, <1>3, <1>4 DEF PInv, NoNewerPage

\* Nothing is announced at first.
LEMMA HeardInit == Init => PInv
    <1> SUFFICES ASSUME Init PROVE PInv
        OBVIOUS
    <1>1. Announced
        <2> SUFFICES ASSUME NEW t \in Timers, NEW i \in Items PROVE notified[t][i] <= store[i]
            BY DEF Announced
        <2>1. notified[t][i] = 0 /\ store[i] \in {0, 1}
            BY DEF Init, Nothing
        <2> QED BY <2>1
    <1>2. ~loaded /\ \A c \in Callers : Heard(c)
        BY DEF Init, Heard, Changing
    <1> QED BY <1>1, <1>2 DEF PInv

\* All steps.
LEMMA HeardStep ==
    ASSUME RInv, PInv, [Next]_vars PROVE PInv'
    <1>1. IInv'
        BY RInvStep DEF RInv
    <1>2. ASSUME NEW c \in Callers, Inside(c), Leave(c), UNCHANGED <<service, provider>>
          PROVE  PInv'
        BY <1>2, HeardLeaves DEF PInv, provider
    <1>3. ASSUME NEW c \in Callers, Work(c) PROVE PInv'
        <2>1. CASE NothingDue(c) \/ InitThrottled(c) \/ NothingChanged(c)
            BY <1>2, <2>1 DEF NothingDue, InitThrottled, NothingChanged, AllReset, Inside
        <2>2. CASE BeginInitialize(c) \/ BeginRefresh(c)
            BY <1>1, <2>2, HeardBegins
        <2>3. CASE \E w \in Watched : CheckWatcher(c, w) \/ LoadWatched(c, w)
            BY <2>3, HeardChecks, HeardLoadsWatched
        <2>4. CASE \E n \in Sel : CheckCollection(c, n) \/ CheckFlags(c, n) \/ LoadSelector(c, n)
            BY <1>1, <2>4, HeardChecks, HeardLoadsSelector
        <2>5. CASE ApplyAll(c) \/ ApplyChanges(c) \/ ApplyInit(c) \/ Prepare(c)
            BY <2>5, HeardApplies
        <2>6. CASE \E t \in Timers : Reset(c, t)
            BY <2>6, HeardReset
        <2> QED BY <1>3, <2>1, <2>2, <2>3, <2>4, <2>5, <2>6 DEF Work
    <1>4. ASSUME NEW c \in Callers, Fault(c) PROVE PInv'
        <2>1. CASE NoClientAvailable(c) \/ PrepareFails(c) \/ Fail(c)
            BY <1>2, <2>1 DEF NoClientAvailable, PrepareFails, Fail, Requesting, AllReset, Inside
        <2>2. CASE FailOver(c)
            BY <1>1, <2>2, HeardBegins
        <2> QED BY <1>4, <2>1, <2>2 DEF Fault
    <1> QED BY <1>3, <1>4, HeardChange, HeardPush, HeardOutside DEF Next, Environment

\* Only the turn of a refresh sets a watcher waiting, and without a full load the watcher
\* was found due, or is late.
LEMMA ResetAfterHeard ==
    ASSUME RInv, PInv, [Next]_vars,
           NEW t \in Timers \ {AllTimer}, NEW i \in Scope(t),
           timer[t] # "waiting", timer'[t] = "waiting",
           \A c \in Callers : ~loc[c].full /\ t \notin loc[c].late
    PROVE  mapped'[i] >= notified[t][i]
    <1>1. TypeOK
        BY DEF RInv, IInv
    <1>2. timer' # timer
        OBVIOUS
    <1>3. ~Environment
        <2>1. ASSUME NEW u \in Timers, SetDirty(u) PROVE FALSE
            <3>1. timer' = [timer EXCEPT ![u] = "dirty"]
                BY <2>1 DEF SetDirty
            <3> QED BY <1>1, <3>1 DEF TypeOK
        <2>2. ASSUME NEW u \in Timers, Expire(u) PROVE FALSE
            BY <1>1, <2>2 DEF Expire, TypeOK
        <2> QED BY <1>2, <2>1, <2>2
            DEF Environment, Write, Remove, ExpireInit, ExpireSecret, clocks
    <1>4. ASSUME NEW c \in Callers, Exchange(c) \/ Fault(c) PROVE FALSE
        BY <1>2, <1>4 DEF Exchange, Fault, NoClientAvailable, PrepareFails, FailOver, Fail, clocks
    <1>5. ASSUME NEW c \in Callers, Work(c) PROVE \E u \in Timers : Reset(c, u)
        BY <1>2, <1>5
        DEF Work, NothingDue, InitThrottled, BeginInitialize, BeginRefresh, CheckWatcher,
            LoadWatched, CheckCollection, CheckFlags, LoadSelector, ApplyAll, ApplyChanges,
            ApplyInit, NothingChanged, Prepare, clocks
    <1>6. PICK c \in Callers, u \in Timers : Reset(c, u)
        BY <1>2, <1>3, <1>4, <1>5 DEF Next, vars, clocks
    <1>7. /\ pc[c] = "prepare" /\ u \in First(loc[c].elig \cup loc[c].late)
          /\ timer' = [timer EXCEPT ![u] = "waiting"] /\ mapped' = mapped
        BY <1>6 DEF Reset, provider
    <1>8. t = u
        BY <1>1, <1>7 DEF TypeOK
    <1>9. t \in loc[c].elig
        BY <1>7, <1>8 DEF First
    <1>10. HeldHeard(loc[c].elig)
        BY <1>7 DEF PInv, Heard
    <1>11. i \in Items
        BY ScopeType
    <1>12. mapped[i] \in Nat /\ notified[t][i] \in Nat
        BY <1>1, <1>11 DEF TypeOK
    <1>13. notified[t][i] <= mapped[i]
        BY <1>9, <1>10 DEF HeldHeard
    <1> QED BY <1>7, <1>12, <1>13

\* What a push announced to a watcher is not lost, unless the push comes between the
\* moment a loop finds the watcher due and the moment it sets it waiting: a refresh without
\* a full load that makes the watcher wait again holds, of every item the watcher is for,
\* no older version than was announced, be it that the push came before the checks, between
\* them, during a load of the flags, or while other watchers were set waiting.
THEOREM PushIsKept == Spec => PushKeptByChanges
    <1>1. RInv /\ PInv /\ [Next]_vars => PInv'
        BY HeardStep
    <1>2. RInv /\ PInv /\ [Next]_vars =>
            [\A t \in Timers \ {AllTimer} : \A i \in Scope(t) :
               timer[t] # "waiting" /\ timer'[t] = "waiting"
                 /\ (\A c \in Callers : ~loc[c].full /\ t \notin loc[c].late)
               => mapped'[i] >= notified[t][i]]_vars
        BY ResetAfterHeard
    <1> QED BY <1>1, <1>2, AlwaysReady, HeardInit, PTL DEF Spec, PushKeptByChanges
=============================================================================
