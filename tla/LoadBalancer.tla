----------------------------- MODULE LoadBalancer -----------------------------
(***************************************************************************)
(* GlobalRequestLoadBalancer (llm_server.py), the clients that acquire and *)
(* release a server around each turn of a conversation, and the manager    *)
(* that adds hybrid replicas for a validation and removes them after it.   *)
(* A release is sent without waiting for it, so it arrives after any       *)
(* number of other calls, and its server may have left the pool, or left   *)
(* and come back, in the meantime.                                         *)
(***************************************************************************)
EXTENDS Integers, Sequences, FiniteSets, SequencesExt

CONSTANTS
  Requests,        \* request_id's: conversations, one turn at a time each
  Standalone,      \* servers that are always in the pool
  Hybrid,          \* servers of hybrid_replicas
  NoServer,        \* no server: not acquired, or never acquired
  CacheSize,       \* max_cache_size of the routing cache
  MaxInTransit     \* bound: releases of one server that are under way

ASSUME ServerAssumption ==
  /\ Standalone # {} /\ Standalone \cap Hybrid = {}
  /\ NoServer \notin Standalone \cup Hybrid

ASSUME RequestAssumption == IsFiniteSet(Requests)

ASSUME SizeAssumption == CacheSize \in Nat \ {0} /\ MaxInTransit \in Nat \ {0}

Servers == Standalone \cup Hybrid

VARIABLES
  inflight,   \* _inflight_requests; its domain is the pool
  routes,     \* _request_id_to_server, least recently used entry first
  alive,      \* alive_replicas of the manager
  lease,      \* the server that a turn under way has acquired
  releasing,  \* per server, release_server calls under way
  last,       \* history: the server of the last turn of each request
  since,      \* history: the other requests that acquired a server since then
  clean       \* history: servers that joined the pool with no call outstanding

vars == <<inflight, routes, alive, lease, releasing, last, since, clean>>

Pool == DOMAIN inflight

\* Turns that have acquired s and not yet released it.
Leases(s) == {r \in Requests : lease[r] = s}

\* Calls that the counter of s should stand for.
Outstanding(s) == Cardinality(Leases(s)) + releasing[s]

Init ==
  /\ inflight = [s \in Standalone |-> 0]
  /\ routes = <<>>
  /\ alive = {}
  /\ lease = [r \in Requests |-> NoServer]
  /\ releasing = [s \in Servers |-> 0]
  /\ last = [r \in Requests |-> NoServer]
  /\ since = [r \in Requests |-> {}]
  /\ clean = Standalone

-----------------------------------------------------------------------------
Cached(r) == \E i \in 1..Len(routes) : routes[i].request = r

\* Where the route of r is in the cache.
Position(r) == CHOOSE i \in 1..Len(routes) : routes[i].request = r

\* The cached server of r, if any.
Sticky(r) == IF Cached(r) THEN routes[Position(r)].server ELSE NoServer

\* Defect: first in, first out; an access does not refresh the entry.
RememberFifo(r, s) ==
  LET renewed == [i \in 1..Len(routes) |->
                    IF routes[i].request = r THEN [request |-> r, server |-> s]
                    ELSE routes[i]]
  IN  IF Sticky(r) # NoServer THEN renewed
      ELSE Append(IF Len(routes) >= CacheSize THEN Tail(routes) ELSE routes,
                  [request |-> r, server |-> s])

\* The cache after an access to, or the insertion of, the route of r.
Remember(r, s) ==
  LET rest == IF Cached(r) THEN RemoveAt(routes, Position(r)) ELSE routes
  IN  Append(IF Len(rest) >= CacheSize THEN Tail(rest) ELSE rest,
             [request |-> r, server |-> s])

\* Servers that acquire_server may choose: the sticky one while it is in the
\* pool, else one with the fewest requests in flight (min takes the first).
Candidates(r) ==
  IF Sticky(r) \in Pool THEN {Sticky(r)}
  ELSE {s \in Pool : \A t \in Pool : inflight[s] <= inflight[t]}

\* Defect: only a newly selected server is counted.
AcquireStickyUncounted(r) ==
  /\ lease[r] = NoServer
  /\ \E s \in Candidates(r) :
       /\ inflight' = IF Sticky(r) \in Pool THEN inflight
                      ELSE [inflight EXCEPT ![s] = @ + 1]
       /\ routes' = Remember(r, s)
       /\ lease' = [lease EXCEPT ![r] = s]
       /\ last' = [last EXCEPT ![r] = s]
  /\ since' = [q \in Requests |-> IF q = r THEN {} ELSE since[q] \cup {r}]
  /\ UNCHANGED <<alive, releasing, clean>>

\* acquire_server
Acquire(r) ==
  /\ lease[r] = NoServer
  /\ \E s \in Candidates(r) :
       /\ inflight' = [inflight EXCEPT ![s] = @ + 1]
       /\ routes' = Remember(r, s)
       /\ lease' = [lease EXCEPT ![r] = s]
       /\ last' = [last EXCEPT ![r] = s]
  /\ since' = [q \in Requests |-> IF q = r THEN {} ELSE since[q] \cup {r}]
  /\ UNCHANGED <<alive, releasing, clean>>

\* The turn ends, with a result or an exception: the finally clause sends the
\* release.
Finish(r) ==
  /\ lease[r] # NoServer
  /\ releasing[lease[r]] < MaxInTransit
  /\ releasing' = [releasing EXCEPT ![lease[r]] = @ + 1]
  /\ lease' = [lease EXCEPT ![r] = NoServer]
  /\ UNCHANGED <<inflight, routes, alive, last, since, clean>>

\* Defect: a counter that is 0 is decremented.
ReleaseServerUnchecked(s) ==
  /\ releasing[s] > 0
  /\ releasing' = [releasing EXCEPT ![s] = @ - 1]
  /\ inflight' = IF s \in Pool THEN [inflight EXCEPT ![s] = @ - 1] ELSE inflight
  /\ UNCHANGED <<routes, alive, lease, last, since, clean>>

\* Defect: the last request in flight is never released.
ReleaseServerOffByOne(s) ==
  /\ releasing[s] > 0
  /\ releasing' = [releasing EXCEPT ![s] = @ - 1]
  /\ inflight' = IF s \in Pool /\ inflight[s] > 1
                 THEN [inflight EXCEPT ![s] = @ - 1] ELSE inflight
  /\ UNCHANGED <<routes, alive, lease, last, since, clean>>

\* release_server
ReleaseServer(s) ==
  /\ releasing[s] > 0
  /\ releasing' = [releasing EXCEPT ![s] = @ - 1]
  /\ inflight' = IF s \in Pool /\ inflight[s] > 0
                 THEN [inflight EXCEPT ![s] = @ - 1] ELSE inflight
  /\ UNCHANGED <<routes, alive, lease, last, since, clean>>

\* add_replicas of the manager, and add_servers
AddReplicas(R) ==
  LET new == R \ alive IN
  /\ new # {}
  /\ inflight' = [s \in Pool \cup new |-> IF s \in new THEN 0 ELSE inflight[s]]
  /\ alive' = alive \cup new
  /\ clean' = clean \cup {s \in new : Outstanding(s) = 0}
  /\ UNCHANGED <<routes, lease, releasing, last, since>>

\* remove_replicas of the manager, and remove_servers; the routes stay
RemoveReplicas(R) ==
  LET gone == R \cap alive IN
  /\ gone # {}
  /\ inflight' = [s \in Pool \ gone |-> inflight[s]]
  /\ alive' = alive \ gone
  /\ clean' = clean \ gone
  /\ UNCHANGED <<routes, lease, releasing, last, since>>

Next ==
  \/ \E r \in Requests : Acquire(r) \/ Finish(r)
  \/ \E s \in Servers : ReleaseServer(s)
  \/ \E R \in SUBSET Hybrid : AddReplicas(R) \/ RemoveReplicas(R)

Spec == Init /\ [][Next]_vars

-----------------------------------------------------------------------------
(* Properties *)

\* The shape of the state: the pool is made of the standalone servers, never
\* removed, and of the replicas that the manager believes to be active, so that
\* acquire_server always finds a server; counters never go below 0.
TypeOK ==
  /\ alive \subseteq Hybrid
  /\ Pool = Standalone \cup alive
  /\ inflight \in [Pool -> Nat]
  /\ lease \in [Requests -> Servers \cup {NoServer}]
  /\ releasing \in [Servers -> Nat]
  /\ last \in [Requests -> Servers \cup {NoServer}]
  /\ since \in [Requests -> SUBSET Requests]
  /\ clean \subseteq Pool

\* No leak: whatever is removed, added again or released late, the counter of a
\* server never exceeds its calls under way, so an idle server is seen as idle
\* and is chosen again.
NeverOvercounted == \A s \in Pool : inflight[s] <= Outstanding(s)

\* For a server that joined the pool when no call to it was under way (every
\* standalone server, and a hybrid one whose requests were aborted and released
\* before its removal) the counter is exact: acquire_server does pick a server
\* with the fewest requests.
ExactWhenClean == \A s \in clean : inflight[s] = Outstanding(s)

\* A conversation stays with its server as long as that server is in the pool,
\* even across a removal and a new activation, unless max_cache_size other
\* conversations have acquired a server since its last turn.
StickySession ==
  [][\A r \in Requests :
       /\ lease[r] = NoServer /\ lease'[r] # NoServer
       /\ last[r] \in Pool
       /\ Cardinality(since[r]) < CacheSize
       => lease'[r] = last[r]]_vars
=============================================================================
