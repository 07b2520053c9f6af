------------------------------ MODULE Failover ------------------------------
(***************************************************************************)
(* Which endpoint a refresh asks: ConfigurationClientManager hands out a   *)
(* client per configured endpoint and per discovered replica, RefreshAsync *)
(* leaves out those in backoff, ExecuteWithFailOverPolicyAsync asks one    *)
(* after the other.  Time is what is left of each backoff.                 *)
(***************************************************************************)
EXTENDS Backoff, SequencesExt

CONSTANTS
    Static,             \* the configured endpoints, in order
    Replicas,           \* those discovery may find
    None,               \* null
    Discovery,          \* ReplicaDiscoveryEnabled
    MinBackoff, MaxBackoff,             \* MinBackoffDuration, MaxBackoffDuration
    MinimalInterval, ExpireInterval,    \* of the client manager
    MaxFailures,        \* bound: failures are counted up to here
    MaxFaults           \* bound: how many requests fail

ASSUME FailoverAssumption ==
    /\ Static \in Seq(Range(Static)) /\ Static # <<>> /\ IsInjective(Static)
    /\ IsFiniteSet(Replicas) /\ Replicas \cap Range(Static) = {}
    /\ None \notin Range(Static) \cup Replicas
    /\ {MinBackoff, MaxBackoff, MinimalInterval, ExpireInterval, MaxFailures} \subseteq Nat \ {0}
    /\ MaxFaults \in Nat
    \* beyond the bound a backoff is as long as it gets
    /\ Doubled(MinBackoff, MaxBackoff, MaxFailures) = MaxBackoff
    \* even shortened by the jitter the longest backoff is no shorter than the first
    /\ 3 * MaxBackoff >= 4 * MinBackoff

VARIABLES
    loadBalancing,  \* LoadBalancingEnabled
    backoff,        \* what is left of BackoffEndTime, per endpoint
    failed,         \* FailedAttempts
    last,           \* _lastSuccessfulEndpoint
    dynamic,        \* _dynamicClients
    discovered,     \* _dynamicClients # null
    discovering,    \* a DiscoverFallbackClients task runs
    sinceAttempt, sinceDiscovery,   \* time since _lastFallbackClientRefreshAttempt, ..Refresh
    pc,             \* "idle", "request"
    open,           \* the endpoints whose backoff was over when the refresh began
    order, at,      \* clients as rotated, and the position of clientEnumerator
    replaced,       \* _dynamicClients was replaced since the refresh began
    result,         \* how the latest refresh ended
    healthy,        \* ~(_lastSuccessfulAttempt < _lastFailedAttempt), what CheckHealthAsync
                    \* reports once the initial load has succeeded
    asked,          \* history: the endpoints asked by this refresh
    sinceFailure,   \* history: time since a request to the endpoint failed
    faults

manager == <<dynamic, discovered, discovering, sinceAttempt, sinceDiscovery>>
penalty == <<backoff, failed>>
vars == <<loadBalancing, backoff, failed, last, manager, pc, open, order, at, replaced, result, healthy,
          asked, sinceFailure, faults>>

Endpoints == Range(Static) \cup Replicas
Clients   == Static \o dynamic

\* GetEndpointForClient finds the client: a replaced list has other client objects.
Known(e) == e \in Range(Static) \/ ~replaced

Count(n) == AtMost(n, MaxFailures)

\* UpdateClientBackoffStatus(endpoint, false) for each endpoint of a set.
Penalise(S) ==
    /\ failed' = [e \in Endpoints |-> IF e \in S THEN Count(failed[e] + 1) ELSE failed[e]]
    /\ \E d \in [S -> 0..2 * MaxBackoff] :
          /\ \A e \in S : d[e] \in CalculateBackoffDuration(MinBackoff, MaxBackoff, failed'[e])
          /\ backoff' = [e \in Endpoints |-> IF e \in S THEN d[e] ELSE backoff[e]]

\* DiscoverFallbackClients is started.
Discover(when) ==
    /\ discovering' = (discovering \/ when)
    /\ sinceAttempt' = IF when THEN 0 ELSE sinceAttempt
    /\ UNCHANGED <<dynamic, discovered, sinceDiscovery>>

MayDiscover == Discovery /\ sinceAttempt >= MinimalInterval
Outdated    == ~discovered \/ sinceDiscovery >= ExpireInterval

Available  == {e \in Range(Clients) : backoff[e] = 0}

\* Variants of Rotated: the last successful client again first, or left out, and
\* no regard to loadBalancing.
RotatedTooLittle(s) ==
    LET n == CHOOSE n \in DOMAIN s : s[n] = last
    IN  IF loadBalancing /\ last \in Available
        THEN SubSeq(s, n, Len(s)) \o SubSeq(s, 1, n - 1)
        ELSE s
RotatedWithout(s) ==
    LET n == CHOOSE n \in DOMAIN s : s[n] = last
        behind == SubSeq(s, n + 1, Len(s))
    IN  IF loadBalancing /\ last \in Available /\ Range(behind) \cap Available # {}
        THEN behind \o SubSeq(s, 1, n - 1)
        ELSE s
RotatedAlways(s) ==
    LET n == CHOOSE n \in DOMAIN s : s[n] = last
    IN  IF last \in Available THEN SubSeq(s, n + 1, Len(s)) \o SubSeq(s, 1, n) ELSE s

\* The clients after the last successful one first, if one of them is available.
Rotated(s) ==
    LET n == CHOOSE n \in DOMAIN s : s[n] = last
        behind == SubSeq(s, n + 1, Len(s))
    IN  IF loadBalancing /\ last \in Available /\ Range(behind) \cap Available # {}
        THEN behind \o SubSeq(s, 1, n)
        ELSE s
\* The client that is asked.
Current == order[at]
\* Where MoveNext stops: at a client that is available, or one whose lookup fails.
Stops == {n \in at + 1..Len(order) : order[n] \in open \/ ~Known(order[n])}

\* RefreshAsync up to the first request, or a refresh skipped for want of a client.
Begin ==
    /\ pc = "idle" /\ Available # {}
    /\ Discover(MayDiscover /\ Outdated)
    /\ open' = Available
    /\ order' = Rotated(Clients)
    /\ at' = Min({n \in DOMAIN order' : order'[n] \in Available})
    /\ asked' = {order'[at']}
    /\ pc' = "request" /\ replaced' = FALSE /\ result' = "none"
    /\ UNCHANGED <<loadBalancing, penalty, last, healthy, sinceFailure, faults>>

Skip ==
    /\ pc = "idle" /\ Available = {}
    /\ Discover(MayDiscover)
    /\ result' = "skipped" /\ healthy' = FALSE
    /\ UNCHANGED <<loadBalancing, penalty, last, pc, open, order, at, replaced, asked,
                   sinceFailure, faults>>

\* A variant of Answered: only the first success is noted.
AnsweredFirst == healthy

\* _lastSuccessfulAttempt is now.
Answered == TRUE

Return(r) == pc' = "idle" /\ result' = r /\ order' = <<>> /\ at' = 0 /\ UNCHANGED asked

Succeed ==
    /\ pc = "request"
    /\ healthy' = Answered
    /\ last' = IF Known(Current) THEN Current ELSE None
    /\ backoff' = [backoff EXCEPT ![Current] = 0] /\ failed' = [failed EXCEPT ![Current] = 0]
    /\ Return("ok")
    /\ UNCHANGED <<loadBalancing, manager, open, replaced, sinceFailure, faults>>

\* A request fails.
Fault ==
    /\ pc = "request" /\ faults < MaxFaults
    /\ faults' = faults + 1
    /\ sinceFailure' = [sinceFailure EXCEPT ![Current] = 0]
    /\ UNCHANGED <<loadBalancing, manager, last, open, replaced>>

\* Which endpoint the finally block penalises before the next one is asked: the
\* one just asked.  A variant: the one MoveNext has reached meanwhile.
Reached  == order[Min(Stops)]
Previous == Current

\* IsFailOverable, and MoveNext finds a client.
FailOver ==
    /\ Fault /\ Stops # {} /\ Known(order[Min(Stops)])
    /\ Penalise({Previous})
    /\ at' = Min(Stops) /\ asked' = asked \cup {order[at']}
    /\ UNCHANGED <<pc, order, result, healthy>>

\* IsFailOverable, and the filter looks up a client the manager no longer has.
FailOverToUnknown ==
    /\ Fault /\ Stops # {} /\ ~Known(order[Min(Stops)])
    /\ Penalise({Current})
    /\ Return("unknownClient") /\ UNCHANGED healthy

\* Every client left is penalised, up to the first whose endpoint is not found.
GiveUp(r) ==
    LET left  == {at} \cup Stops
        found == {n \in left : \A k \in left : k <= n => Known(order[k])}
    IN  /\ healthy' = FALSE
        /\ Penalise({order[n] : n \in found})
        /\ Return(IF found = left THEN r ELSE "unknownClient")

Exhaust == Fault /\ Stops = {} /\ GiveUp("exhausted")
Reject  == Fault /\ GiveUp("rejected")      \* not IsFailOverable

\* Any other exception, a cancellation for instance.
Throw == Fault /\ Penalise({Current}) /\ Return("thrown") /\ UNCHANGED healthy

\* The lists discovery may find, without the configured endpoints; a variant with them.
Lists(S)    == UNION {Injection(1..n, S) : n \in 0..Cardinality(S)}
OrdersOfAll == Lists(Endpoints)
Orders      == Lists(Replicas)

\* The discovery task ends: with a list, or with an error that is logged.
Discovered ==
    /\ discovering
    /\ discovering' = FALSE
    /\ \/ /\ dynamic' \in Orders /\ discovered' = TRUE /\ sinceDiscovery' = 0
          /\ replaced' = TRUE
       \/ UNCHANGED <<dynamic, discovered, sinceDiscovery, replaced>>
    /\ UNCHANGED <<loadBalancing, penalty, last, sinceAttempt, pc, open, order, at, result,
                   healthy, asked, sinceFailure, faults>>

Later(t, bound) == AtMost(t + 1, bound)

\* Time passes; the discovery task is cancelled after MinimalInterval.
Tick ==
    /\ backoff' = [e \in Endpoints |-> IF backoff[e] = 0 THEN 0 ELSE backoff[e] - 1]
    /\ sinceAttempt'   = Later(sinceAttempt, MinimalInterval)
    /\ sinceDiscovery' = Later(sinceDiscovery, ExpireInterval)
    /\ sinceFailure'   = [e \in Endpoints |-> Later(sinceFailure[e], MinBackoff)]
    /\ discovering' = (discovering /\ sinceAttempt' < MinimalInterval)
    /\ UNCHANGED <<loadBalancing, failed, last, dynamic, discovered, pc, open, order, at,
                   replaced, result, healthy, asked, faults>>

Init ==
    /\ loadBalancing \in BOOLEAN
    /\ backoff = [e \in Endpoints |-> 0] /\ failed = [e \in Endpoints |-> 0]
    /\ last = None
    /\ dynamic = <<>> /\ discovered = FALSE /\ discovering = FALSE
    /\ sinceAttempt = MinimalInterval /\ sinceDiscovery = ExpireInterval
    /\ pc = "idle" /\ open = {} /\ order = <<>> /\ at = 0 /\ replaced = FALSE
    /\ result = "none" /\ healthy = TRUE /\ asked = {}
    /\ sinceFailure = [e \in Endpoints |-> MinBackoff] /\ faults = 0

Ask   == Begin \/ Skip
Reply == Succeed \/ FailOver \/ FailOverToUnknown \/ Exhaust \/ Reject \/ Throw
Next  == Ask \/ Reply \/ Discovered \/ Tick

Spec == Init /\ [][Next]_vars

\* The application keeps refreshing, every request ends and time passes.
FairSpec == Spec /\ WF_vars(Ask) /\ WF_vars(Reply) /\ WF_vars(Tick)
---------------------------------------------------------------------------
TypeOK ==
    /\ loadBalancing \in BOOLEAN
    /\ backoff \in [Endpoints -> 0..2 * MaxBackoff]
    /\ failed \in [Endpoints -> 0..MaxFailures]
    /\ last \in Endpoints \cup {None}
    /\ dynamic \in Seq(Replicas) /\ order \in Seq(Endpoints) /\ at \in 0..Len(order)
    /\ {discovered, discovering, replaced} \subseteq BOOLEAN
    /\ sinceAttempt \in 0..MinimalInterval /\ sinceDiscovery \in 0..ExpireInterval
    /\ pc \in {"idle", "request"}
    /\ healthy \in BOOLEAN
    /\ open \subseteq Endpoints /\ asked \subseteq Endpoints
    /\ result \in {"none", "ok", "skipped", "exhausted", "rejected", "thrown", "unknownClient"}
    /\ sinceFailure \in [Endpoints -> 0..MinBackoff] /\ faults \in 0..MaxFaults

\* A refresh whose requests all failed in a way another endpoint may cure has
\* asked every endpoint that was not in backoff when it began.
GivesUpAfterAll == result = "exhausted" => open \subseteq asked

\* The health check raises no false alarm: while it reports a failure between two
\* refreshes, some endpoint has failed and has not answered since, whatever was asked,
\* skipped or given up. Only a refresh that asked a replica which discovery replaced
\* under its hands fails without leaving a mark on the endpoint.
AlarmHasCause ==
    pc = "idle" /\ ~healthy =>
        (\E e \in Endpoints : failed[e] > 0) \/ result = "unknownClient"

\* And the alarm ends: once requests no longer fail, health recovers for good.
HealthRecovers == <>[]healthy

\* A configured endpoint that failed a request is left alone for the shortest
\* backoff, within the refresh that failed over and in every later one.
RestsAfterFailure ==
    [][\A e \in Range(Static) :
          e \in asked' /\ (pc = "idle" \/ e \notin asked) /\ pc' = "request"
             => sinceFailure[e] >= MinBackoff]_vars

\* Failures are forgotten: without load balancing the provider returns to the
\* endpoint of the highest priority once its requests no longer fail.
FailsBack == <>[](pc = "request" /\ ~loadBalancing => Current = Static[1])

\* With it every configured endpoint gets its share for ever.
EveryEndpointServes ==
    \A e \in Range(Static) : []<>(loadBalancing => pc = "request" /\ Current = e)

\* "there won't be multiple threads calling this client at the same time": a
\* client handed out to a refresh is known to the manager as long as it is used.
LookupsSucceed == result # "unknownClient"
=============================================================================
