---------------------- MODULE RefreshMiddlewareProofs ----------------------
(***************************************************************************)
(* No two refreshes are started within one interval.                       *)
(***************************************************************************)
EXTENDS RefreshMiddleware, TLAPS

USE DEF NextReadyTime, Unchanged, Goto

\* The invariant holds when the middleware is constructed.
LEMMA IInvInit == Init => IInv
BY MiddlewareAssumption DEF Init, IInv, TypeOK

\* Every step of a request and of the clock preserves it.
LEMMA IInvStep == IInv /\ [Next]_vars => IInv'
<1> SUFFICES ASSUME IInv, [Next]_vars PROVE IInv'
  OBVIOUS
<1> USE MiddlewareAssumption DEF IInv, TypeOK
<1>1. ASSUME NEW p \in Requests, Invoke(p) PROVE IInv'
  BY <1>1 DEF Invoke
<1>2. ASSUME NEW p \in Requests, Read(p) PROVE IInv'
  BY <1>2 DEF Read
<1>3. ASSUME NEW p \in Requests, CompareExchange(p) PROVE IInv'
  BY <1>3 DEF CompareExchange
<1>4. CASE Tick
  BY <1>4 DEF Tick
<1>5. CASE UNCHANGED vars
  BY <1>5 DEF vars
<1> QED
  BY <1>1, <1>2, <1>3, <1>4, <1>5 DEF Next

\* The invariant holds for any number of requests and any interval.
THEOREM Invariance == Spec => []IInv
<1> QED
  BY IInvInit, IInvStep, PTL DEF Spec

\* The variables of the middleware keep their types.
THEOREM TypeCorrect == Spec => []TypeOK
<1>1. IInv => TypeOK
  BY DEF IInv
<1> QED
  BY <1>1, Invariance, PTL

\* StartsApart, for any number of racing requests and any movement of the clock.
THEOREM StartsAreApart == Spec => StartsApart
<1>1. IInv /\ [Next]_vars =>
         [starts' # starts => started' >= started + MinimumRefreshInterval]_vars
  <2> SUFFICES ASSUME IInv, [Next]_vars, starts' # starts
               PROVE  started' >= started + MinimumRefreshInterval
    OBVIOUS
  <2> USE MiddlewareAssumption DEF IInv, TypeOK
  <2>1. ASSUME NEW p \in Requests, CompareExchange(p)
        PROVE  started' >= started + MinimumRefreshInterval
    BY <2>1 DEF CompareExchange
  <2>2. PICK p \in Requests : CompareExchange(p)
    BY DEF Next, vars, Invoke, Read, Tick
  <2> QED
    BY <2>1, <2>2
<1> QED
  BY <1>1, Invariance, PTL DEF Spec, StartsApart
=============================================================================
