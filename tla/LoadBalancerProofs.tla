-------------------------- MODULE LoadBalancerProofs --------------------------
(***************************************************************************)
(* The counters of GlobalRequestLoadBalancer, for any number of requests,  *)
(* servers and calls under way.  TypeOK, NeverOvercounted and              *)
(* ExactWhenClean are inductive together: the second needs the floor of    *)
(* release_server, the third that a clean server is never at that floor    *)
(* when a release arrives, because its counter equals Outstanding.         *)
(*                                                                         *)
(* The validation script of the trainer: each position in it fixes which   *)
(* hybrid servers are awake, held and in the pool (ValidationInv).  Its     *)
(* steps are steps of the balancer, so the counters hold there as well.    *)
(*                                                                         *)
(* The routing cache: it is ordered by the turns (RouteInv), which is what  *)
(* makes a route sticky as long as it is not overtaken.                    *)
(***************************************************************************)
EXTENDS HybridValidation, FiniteSetTheorems, TLAPS

Counters == TypeOK /\ NeverOvercounted /\ ExactWhenClean

\* Outstanding is a number: the leases of a server are finitely many.
LEMMA OutstandingNat ==
  ASSUME TypeOK, NEW s \in Servers
  PROVE  /\ IsFiniteSet(Leases(s))
         /\ Cardinality(Leases(s)) \in Nat
         /\ Outstanding(s) \in Nat
  <1>1. Leases(s) \subseteq Requests  BY DEF Leases
  <1>2. IsFiniteSet(Leases(s))  BY <1>1, RequestAssumption, FS_Subset
  <1>3. Cardinality(Leases(s)) \in Nat  BY <1>2, FS_CardinalityType
  <1>4. releasing[s] \in Nat  BY DEF TypeOK
  <1> QED  BY <1>2, <1>3, <1>4 DEF Outstanding

\* A turn that starts adds one call to its server and none to the others.
LEMMA AcquireCounts ==
  ASSUME TypeOK, NEW r \in Requests, NEW s \in Servers,
         lease[r] = NoServer, lease' = [lease EXCEPT ![r] = s],
         releasing' = releasing
  PROVE  /\ Outstanding(s)' = Outstanding(s) + 1
         /\ \A t \in Servers \ {s} : Outstanding(t)' = Outstanding(t)
  <1>1. lease \in [Requests -> Servers \cup {NoServer}] /\ NoServer \notin Servers
    BY ServerAssumption DEF TypeOK, Servers
  <1>2. Leases(s)' = Leases(s) \cup {r}  BY <1>1 DEF Leases
  <1>3. r \notin Leases(s)  BY <1>1 DEF Leases
  <1>4. Cardinality(Leases(s)') = Cardinality(Leases(s)) + 1
    BY <1>2, <1>3, OutstandingNat, FS_AddElement
  <1>5. Cardinality(Leases(s)) \in Nat /\ releasing[s] \in Nat
    BY OutstandingNat DEF TypeOK
  <1>6. Outstanding(s)' = Outstanding(s) + 1  BY <1>4, <1>5 DEF Outstanding
  <1>7. ASSUME NEW t \in Servers \ {s}  PROVE Outstanding(t)' = Outstanding(t)
    <2>1. Leases(t)' = Leases(t)  BY <1>1 DEF Leases
    <2> QED  BY <2>1 DEF Outstanding
  <1> QED  BY <1>6, <1>7

\* A turn that ends turns its lease into a release under way: no server gains
\* or loses a call.
LEMMA FinishCounts ==
  ASSUME TypeOK, NEW r \in Requests, Finish(r), NEW t \in Servers
  PROVE  Outstanding(t)' = Outstanding(t)
  <1>1. /\ lease \in [Requests -> Servers \cup {NoServer}]
        /\ releasing \in [Servers -> Nat]
        /\ NoServer \notin Servers
    BY ServerAssumption DEF TypeOK, Servers
  <1>2. /\ lease[r] \in Servers
        /\ lease' = [lease EXCEPT ![r] = NoServer]
        /\ releasing' = [releasing EXCEPT ![lease[r]] = @ + 1]
    BY <1>1 DEF Finish
  <1>3. CASE t = lease[r]
    <2>1. Leases(t)' = Leases(t) \ {r}  BY <1>1, <1>2, <1>3 DEF Leases
    <2>2. r \in Leases(t)  BY <1>3 DEF Leases
    <2>3. Cardinality(Leases(t)') = Cardinality(Leases(t)) - 1
      BY <2>1, <2>2, OutstandingNat, FS_RemoveElement
    <2>4. releasing'[t] = releasing[t] + 1  BY <1>1, <1>2, <1>3
    <2>5. Cardinality(Leases(t)) \in Nat /\ releasing[t] \in Nat
      BY OutstandingNat, <1>1
    <2> QED  BY <2>3, <2>4, <2>5 DEF Outstanding
  <1>4. CASE t # lease[r]
    <2>1. Leases(t)' = Leases(t)  BY <1>1, <1>2, <1>4 DEF Leases
    <2>2. releasing'[t] = releasing[t]  BY <1>1, <1>2, <1>4
    <2> QED  BY <2>1, <2>2 DEF Outstanding
  <1> QED  BY <1>3, <1>4

\* A release that arrives is one call less for its server, whatever the
\* counter does.
LEMMA ReleaseCounts ==
  ASSUME TypeOK, NEW s \in Servers, releasing[s] > 0,
         releasing' = [releasing EXCEPT ![s] = @ - 1], lease' = lease
  PROVE  /\ Outstanding(s) > 0 /\ Outstanding(s)' = Outstanding(s) - 1
         /\ \A t \in Servers \ {s} : Outstanding(t)' = Outstanding(t)
  <1>1. releasing \in [Servers -> Nat]  BY DEF TypeOK
  <1>2. \A t \in Servers : Leases(t)' = Leases(t)  BY DEF Leases
  <1>3. Cardinality(Leases(s)) \in Nat  BY OutstandingNat
  <1>4. releasing'[s] = releasing[s] - 1 /\ \A t \in Servers \ {s} : releasing'[t] = releasing[t]
    BY <1>1
  <1>5. Outstanding(s) > 0 /\ Outstanding(s)' = Outstanding(s) - 1
    BY <1>1, <1>2, <1>3, <1>4 DEF Outstanding
  <1>6. \A t \in Servers \ {s} : Outstanding(t)' = Outstanding(t)
    BY <1>2, <1>4 DEF Outstanding
  <1> QED  BY <1>5, <1>6

\* acquire_server keeps the counters in step with the calls under way.
LEMMA AcquirePreserves ==
  ASSUME Counters, NEW r \in Requests, Acquire(r)
  PROVE  Counters'
  <1>1. PICK s \in Candidates(r) :
          /\ inflight' = [inflight EXCEPT ![s] = @ + 1]
          /\ lease' = [lease EXCEPT ![r] = s]
          /\ last' = [last EXCEPT ![r] = s]
    BY DEF Acquire
  <1>2. s \in Pool  BY <1>1 DEF Candidates
  <1>3. /\ inflight \in [Pool -> Nat] /\ Pool \subseteq Servers
        /\ clean \subseteq Pool /\ s \in Servers
    BY <1>2 DEF Counters, TypeOK, Servers
  <1>4. Pool' = Pool /\ inflight' \in [Pool -> Nat]  BY <1>1, <1>2, <1>3 DEF Pool
  <1>5. since' \in [Requests -> SUBSET Requests]  BY DEF Acquire, Counters, TypeOK
  <1>6. TypeOK'
    BY <1>1, <1>3, <1>4, <1>5 DEF Acquire, Counters, TypeOK
  <1>7. /\ Outstanding(s)' = Outstanding(s) + 1
        /\ \A t \in Servers \ {s} : Outstanding(t)' = Outstanding(t)
    BY <1>1, <1>3, AcquireCounts DEF Acquire, Counters
  <1>8. \A t \in Pool : Outstanding(t) \in Nat  BY <1>3, OutstandingNat DEF Counters
  <1>9. NeverOvercounted'
    BY <1>1, <1>2, <1>3, <1>4, <1>7, <1>8 DEF Counters, NeverOvercounted
  <1>10. ExactWhenClean'
    BY <1>1, <1>2, <1>3, <1>4, <1>7, <1>8 DEF Acquire, Counters, ExactWhenClean
  <1> QED  BY <1>6, <1>9, <1>10 DEF Counters

\* The end of a turn changes no counter and no number of calls.
LEMMA FinishPreserves ==
  ASSUME Counters, NEW r \in Requests, Finish(r)
  PROVE  Counters'
  <1>1. /\ Pool \subseteq Servers /\ clean \subseteq Pool
        /\ NoServer \notin Servers
        /\ lease \in [Requests -> Servers \cup {NoServer}]
        /\ releasing \in [Servers -> Nat]
    BY ServerAssumption DEF Counters, TypeOK, Servers
  <1>2. \A t \in Servers : Outstanding(t)' = Outstanding(t)
    BY FinishCounts DEF Counters
  <1>3. inflight' = inflight /\ clean' = clean /\ Pool' = Pool  BY DEF Finish, Pool
  <1>4. releasing' \in [Servers -> Nat] /\ lease' \in [Requests -> Servers \cup {NoServer}]
    BY <1>1 DEF Finish
  <1>5. TypeOK'  BY <1>3, <1>4 DEF Finish, Counters, TypeOK
  <1>6. NeverOvercounted'  BY <1>1, <1>2, <1>3 DEF Counters, NeverOvercounted
  <1>7. ExactWhenClean'  BY <1>1, <1>2, <1>3 DEF Counters, ExactWhenClean
  <1> QED  BY <1>5, <1>6, <1>7 DEF Counters

\* release_server: the floor at 0 cannot make a counter exceed the calls that
\* are left, and a clean server is above the floor.
LEMMA ReleasePreserves ==
  ASSUME Counters, NEW s \in Servers, ReleaseServer(s)
  PROVE  Counters'
  <1>1. /\ Pool \subseteq Servers /\ clean \subseteq Pool
        /\ inflight \in [Pool -> Nat]
        /\ releasing \in [Servers -> Nat] /\ releasing[s] > 0
        /\ releasing' = [releasing EXCEPT ![s] = @ - 1]
        /\ inflight' = IF s \in Pool /\ inflight[s] > 0
                       THEN [inflight EXCEPT ![s] = @ - 1] ELSE inflight
        /\ UNCHANGED <<lease, clean>>
    BY DEF Counters, TypeOK, Servers, ReleaseServer
  <1>2. Pool' = Pool /\ inflight' \in [Pool -> Nat]  BY <1>1 DEF Pool
  <1>3. releasing' \in [Servers -> Nat]  BY <1>1
  <1>4. TypeOK'  BY <1>2, <1>3 DEF ReleaseServer, Counters, TypeOK
  <1>5. /\ Outstanding(s) > 0 /\ Outstanding(s)' = Outstanding(s) - 1
        /\ \A t \in Servers \ {s} : Outstanding(t)' = Outstanding(t)
    BY <1>1, ReleaseCounts DEF Counters
  <1>6. \A t \in Servers : Outstanding(t) \in Nat  BY OutstandingNat DEF Counters
  <1>7. NeverOvercounted'
    BY <1>1, <1>2, <1>5, <1>6 DEF Counters, NeverOvercounted
  <1>8. ExactWhenClean'
    BY <1>1, <1>2, <1>5, <1>6 DEF Counters, ExactWhenClean
  <1> QED  BY <1>4, <1>7, <1>8 DEF Counters

\* add_servers starts a counter at 0: exact only if nothing is under way, which
\* is what clean records, and never too high.
LEMMA AddPreserves ==
  ASSUME Counters, NEW R \in SUBSET Hybrid, AddReplicas(R)
  PROVE  Counters'
  <1> DEFINE new == R \ alive
  <1>1. /\ inflight' = [s \in Pool \cup new |-> IF s \in new THEN 0 ELSE inflight[s]]
        /\ alive' = alive \cup new
        /\ clean' = clean \cup {s \in new : Outstanding(s) = 0}
        /\ UNCHANGED <<lease, releasing, last, since>>
    BY DEF AddReplicas
  <1>2. /\ alive \subseteq Hybrid /\ Pool = Standalone \cup alive
        /\ inflight \in [Pool -> Nat] /\ clean \subseteq Pool
        /\ Standalone \cap Hybrid = {}
    BY ServerAssumption DEF Counters, TypeOK
  <1>3. new \cap Pool = {} /\ new \subseteq Hybrid  BY <1>2
  <1> HIDE DEF new
  <1>4. Pool' = Pool \cup new  BY <1>1 DEF Pool
  <1>5. inflight' \in [Pool' -> Nat]  BY <1>1, <1>2, <1>4
  <1>6. TypeOK'
    <2>1. alive' \subseteq Hybrid /\ Pool' = Standalone \cup alive'
      BY <1>1, <1>2, <1>3, <1>4
    <2>2. clean' \subseteq Pool'  BY <1>1, <1>2, <1>4
    <2> QED  BY <1>1, <1>5, <2>1, <2>2 DEF Counters, TypeOK
  <1>7. \A t : Outstanding(t)' = Outstanding(t)  BY <1>1 DEF Outstanding, Leases
  <1>8. \A t \in Pool \cup new : Outstanding(t) \in Nat
    BY <1>2, <1>3, OutstandingNat DEF Counters, Servers
  <1>9. NeverOvercounted'
    BY <1>1, <1>2, <1>3, <1>4, <1>7, <1>8 DEF Counters, NeverOvercounted
  <1>10. ExactWhenClean'
    BY <1>1, <1>2, <1>3, <1>4, <1>7, <1>8 DEF Counters, ExactWhenClean
  <1> QED  BY <1>6, <1>9, <1>10 DEF Counters

\* remove_servers forgets counters and leaves the others alone.
LEMMA RemovePreserves ==
  ASSUME Counters, NEW R \in SUBSET Hybrid, RemoveReplicas(R)
  PROVE  Counters'
  <1> DEFINE gone == R \cap alive
  <1>1. /\ inflight' = [s \in Pool \ gone |-> inflight[s]]
        /\ alive' = alive \ gone
        /\ clean' = clean \ gone
        /\ UNCHANGED <<lease, releasing, last, since>>
    BY DEF RemoveReplicas
  <1>2. /\ alive \subseteq Hybrid /\ Pool = Standalone \cup alive
        /\ inflight \in [Pool -> Nat] /\ clean \subseteq Pool
        /\ Standalone \cap Hybrid = {}
    BY ServerAssumption DEF Counters, TypeOK
  <1>3. gone \subseteq Hybrid  BY <1>2
  <1> HIDE DEF gone
  <1>4. Pool' = Pool \ gone  BY <1>1 DEF Pool
  <1>5. inflight' \in [Pool' -> Nat]  BY <1>1, <1>2, <1>4
  <1>6. TypeOK'
    <2>1. alive' \subseteq Hybrid /\ Pool' = Standalone \cup alive'
      BY <1>1, <1>2, <1>3, <1>4
    <2>2. clean' \subseteq Pool'  BY <1>1, <1>2, <1>4
    <2> QED  BY <1>1, <1>5, <2>1, <2>2 DEF Counters, TypeOK
  <1>7. \A t : Outstanding(t)' = Outstanding(t)  BY <1>1 DEF Outstanding, Leases
  <1>8. NeverOvercounted'
    BY <1>1, <1>2, <1>4, <1>7 DEF Counters, NeverOvercounted
  <1>9. ExactWhenClean'
    BY <1>1, <1>2, <1>4, <1>7 DEF Counters, ExactWhenClean
  <1> QED  BY <1>6, <1>8, <1>9 DEF Counters

\* __init__ starts the standalone servers idle.
LEMMA InitCounters ==
  ASSUME Init  PROVE Counters
  <1>1. Pool = Standalone /\ inflight \in [Pool -> Nat]  BY DEF Init, Pool
  <1>2. TypeOK  BY <1>1 DEF Init, TypeOK
  <1>3. ASSUME NEW s \in Servers  PROVE Outstanding(s) = 0
    <2>1. Leases(s) = {}  BY ServerAssumption DEF Init, Leases, Servers
    <2>2. Cardinality(Leases(s)) = 0  BY <2>1, FS_EmptySet
    <2> QED  BY <2>2 DEF Init, Outstanding
  <1>4. \A s \in Standalone : inflight[s] = 0 /\ Outstanding(s) = 0
    BY <1>3 DEF Init, Servers
  <1>5. NeverOvercounted  BY <1>1, <1>4 DEF NeverOvercounted
  <1>6. ExactWhenClean  BY <1>4 DEF Init, ExactWhenClean
  <1> QED  BY <1>2, <1>5, <1>6 DEF Counters

\* Every operation of the load balancer keeps the three facts.
LEMMA CountersStep ==
  ASSUME Counters, [Next]_vars  PROVE Counters'
  <1>1. CASE \E r \in Requests : Acquire(r)  BY <1>1, AcquirePreserves
  <1>2. CASE \E r \in Requests : Finish(r)  BY <1>2, FinishPreserves
  <1>3. CASE \E s \in Servers : ReleaseServer(s)  BY <1>3, ReleasePreserves
  <1>4. CASE \E R \in SUBSET Hybrid : AddReplicas(R)  BY <1>4, AddPreserves
  <1>5. CASE \E R \in SUBSET Hybrid : RemoveReplicas(R)  BY <1>5, RemovePreserves
  <1>6. CASE UNCHANGED vars
    BY <1>6 DEF vars, Counters, TypeOK, NeverOvercounted, ExactWhenClean,
                Outstanding, Leases, Pool
  <1> QED  BY <1>1, <1>2, <1>3, <1>4, <1>5, <1>6 DEF Next

\* The three facts about the counters hold in every reachable state.
THEOREM CountersHold == Spec => []Counters
  <1>1. Init => Counters  BY InitCounters
  <1>2. Counters /\ [Next]_vars => Counters'  BY CountersStep
  <1> QED  BY <1>1, <1>2, PTL DEF Spec

\* The pool is the standalone servers and the active replicas, never empty, and
\* no counter of acquire_server and release_server goes below 0.
THEOREM BalancerTypeCorrect == Spec => []TypeOK
  <1>1. Counters => TypeOK  BY DEF Counters
  <1> QED  BY <1>1, CountersHold, PTL

\* However removals, new activations and late releases interleave, no counter
\* exceeds the calls under way.
THEOREM NoLeak == Spec => []NeverOvercounted
  <1>1. Counters => NeverOvercounted  BY DEF Counters
  <1> QED  BY <1>1, CountersHold, PTL

\* The counter of a server that joined with nothing under way is exact.
THEOREM CleanIsExact == Spec => []ExactWhenClean
  <1>1. Counters => ExactWhenClean  BY DEF Counters
  <1> QED  BY <1>1, CountersHold, PTL

-----------------------------------------------------------------------------
(* The validation of the trainer *)

\* The script, step by step.
LEMMA ScriptSteps ==
  /\ Len(Script) = 13
  /\ Script[1] = <<"wake", Hybrid>> /\ Script[2] = <<"abort", Standalone>>
  /\ Script[3] = <<"abort", Hybrid>> /\ Script[4] = <<"add", Hybrid>>
  /\ Script[5] = <<"resume", Standalone>> /\ Script[6] = <<"resume", Hybrid>>
  /\ Script[7] = <<"validate", {}>> /\ Script[8] = <<"abort", Standalone>>
  /\ Script[9] = <<"abort", Hybrid>> /\ Script[10] = <<"remove", Hybrid>>
  /\ Script[11] = <<"sleep", Hybrid>> /\ Script[12] = <<"resume", Standalone>>
  /\ Script[13] = <<"resume", Hybrid>>
  BY DEF Script

\* Which steps an operation belongs to, and which servers it has left.
LEMMA DoingSteps ==
  ASSUME step \in 0..13
  PROVE  /\ Doing("wake") => step = 1
         /\ Doing("abort") => step \in {2, 3, 8, 9}
         /\ Doing("add") => step = 4
         /\ Doing("resume") => step \in {5, 6, 12, 13}
         /\ Doing("remove") => step = 10
         /\ Doing("sleep") => step = 11
  <1>1. step \in {0, 1, 2, 3, 4, 5, 6, 7, 8, 9, 10, 11, 12, 13}
    OBVIOUS
  <1> QED  BY <1>1, ScriptSteps DEF Doing

\* Where the trainer is, and what has been done by then: the replicas are in
\* the pool from step 4 to step 10, awake from step 2 to step 10, and paused
\* from the second abort until the end; a paused engine runs nothing.
ValidationInv ==
  /\ step \in 0..13
  /\ todo \subseteq IF step \in {2, 5, 8, 12} THEN Standalone
                    ELSE IF step \in {0, 7} THEN {} ELSE Hybrid
  /\ step \in {4, 10} => todo \in {{}, Hybrid}
  /\ \/ step \in {0, 1, 2, 3, 11, 12, 13}
     \/ step = 4 /\ todo # {}
     \/ step = 10 /\ todo = {}
     => alive = {}
  /\ Standalone \subseteq awake
  /\ step = 1 => Hybrid \ todo \subseteq awake
  /\ step \in 2..10 => Hybrid \subseteq awake
  /\ step = 9 => Hybrid \ todo \subseteq held
  /\ step \in {10, 11} => Hybrid \subseteq held
  /\ call \in [Requests -> {"none", "sent", "running", "over"}]
  /\ \A r \in Requests : call[r] = "running" => lease[r] \notin held

\* The steps of a conversation leave the trainer and the engines alone.
LEMMA ConversationFrame ==
  ASSUME ValidationInv, UNCHANGED <<alive, engine, trainer>>,
         call' \in [Requests -> {"none", "sent", "running", "over"}],
         \A r \in Requests : call'[r] = "running" => lease'[r] \notin held
  PROVE  ValidationInv'
  BY DEF ValidationInv, engine, trainer

\* Every step of the validation, of the manager and of the conversations keeps
\* the invariant of the script.
LEMMA ValidationStep ==
  ASSUME TypeOK, ValidationInv, [HNext]_allVars
  PROVE  ValidationInv'
  <1>0. /\ lease \in [Requests -> Servers \cup {NoServer}]
        /\ call \in [Requests -> {"none", "sent", "running", "over"}]
        /\ alive \subseteq Hybrid /\ Standalone \cap Hybrid = {}
    BY ServerAssumption DEF TypeOK, ValidationInv
  <1>1. ASSUME NEW r \in Requests, AcquireServer(r)  PROVE ValidationInv'
    <2>1. /\ UNCHANGED <<alive, engine, trainer>>
          /\ call' = [call EXCEPT ![r] = "sent"]
          /\ \A q \in Requests \ {r} : lease'[q] = lease[q]
      BY <1>0, <1>1 DEF AcquireServer, Acquire
    <2>2. \A q \in Requests : call'[q] = "running" => lease'[q] \notin held
      BY <1>0, <2>1 DEF ValidationInv
    <2> QED  BY <1>0, <2>1, <2>2, ConversationFrame
  <1>2. ASSUME NEW r \in Requests, Admit(r) \/ Answer(r)  PROVE ValidationInv'
    <2>1. /\ UNCHANGED <<vars, engine, trainer>>
          /\ call' \in [Requests -> {"none", "sent", "running", "over"}]
          /\ \A q \in Requests : call'[q] = "running" =>
               call[q] = "running" \/ lease[q] \notin held
      BY <1>0, <1>2 DEF Admit, Answer
    <2>2. UNCHANGED <<alive, lease>>
      BY <2>1 DEF vars
    <2> QED  BY <2>1, <2>2, ConversationFrame DEF ValidationInv
  <1>3. ASSUME NEW r \in Requests, Release(r)  PROVE ValidationInv'
    <2>1. /\ UNCHANGED <<alive, engine, trainer>>
          /\ call' = [call EXCEPT ![r] = "none"]
          /\ \A q \in Requests \ {r} : lease'[q] = lease[q]
      BY <1>0, <1>3 DEF Release, Finish
    <2>2. \A q \in Requests : call'[q] = "running" => lease'[q] \notin held
      BY <1>0, <2>1 DEF ValidationInv
    <2> QED  BY <1>0, <2>1, <2>2, ConversationFrame
  <1>4. ASSUME NEW s \in Servers, Released(s)  PROVE ValidationInv'
    BY <1>0, <1>4, ConversationFrame DEF Released, ReleaseServer, ValidationInv
  <1>5. CASE Advance
    <2>1. /\ todo = {} /\ UNCHANGED <<alive, lease, call, awake, held>>
          /\ step' = IF step = 13 THEN 0 ELSE step + 1
          /\ todo' = IF step = 13 THEN {} ELSE Script[step + 1][2]
      BY <1>5, ScriptSteps DEF Advance, engine, vars
    <2>2. step \in {0, 1, 2, 3, 4, 5, 6, 7, 8, 9, 10, 11, 12, 13}
      BY DEF ValidationInv
    <2>3. todo' = IF step' \in {2, 5, 8, 12} THEN Standalone
                  ELSE IF step' \in {0, 7} THEN {} ELSE Hybrid
      BY <2>1, <2>2, ScriptSteps
    <2> QED  BY <1>0, <2>1, <2>2, <2>3 DEF ValidationInv
  <1>6. ASSUME NEW s \in Servers, WakeUp(s)  PROVE ValidationInv'
    <2>1. step = 1
      BY <1>6, DoingSteps DEF WakeUp, ValidationInv
    <2> QED  BY <1>6, <2>1 DEF WakeUp, ValidationInv, vars
  <1>7. ASSUME NEW s \in Servers, AbortAllRequests(s)  PROVE ValidationInv'
    <2>1. step \in {2, 3, 8, 9}
      BY <1>7, DoingSteps DEF AbortAllRequests, ValidationInv
    <2>2. /\ s \in todo /\ held' = held \cup {s} /\ todo' = todo \ {s}
          /\ UNCHANGED <<alive, lease, awake, step>>
          /\ call' = [r \in Requests |-> IF call[r] = "running" /\ lease[r] = s THEN "over"
                                         ELSE call[r]]
      BY <1>7 DEF AbortAllRequests, vars
    <2>3. /\ call' \in [Requests -> {"none", "sent", "running", "over"}]
          /\ \A r \in Requests : call'[r] = "running" => lease'[r] \notin held'
      BY <1>0, <2>2 DEF ValidationInv
    <2> QED  BY <2>1, <2>2, <2>3 DEF ValidationInv
  <1>8. ASSUME NEW s \in Servers, ResumeGeneration(s)  PROVE ValidationInv'
    <2>1. step \in {5, 6, 12, 13}
      BY <1>8, DoingSteps DEF ResumeGeneration, ValidationInv
    <2> QED  BY <1>8, <2>1 DEF ResumeGeneration, ValidationInv, vars
  <1>9. ASSUME NEW s \in Servers, Sleep(s)  PROVE ValidationInv'
    <2>1. step = 11 /\ s \in Hybrid
      BY <1>9, DoingSteps DEF Sleep, ValidationInv
    <2> QED  BY <1>0, <1>9, <2>1 DEF Sleep, ValidationInv, vars
  <1>10. CASE AddAll
    <2>1. step = 4
      BY <1>10, DoingSteps DEF AddAll, ValidationInv
    <2> QED  BY <1>10, <2>1 DEF AddAll, AddReplicas, ValidationInv, engine
  <1>11. CASE RemoveAll
    <2>1. step = 10
      BY <1>11, DoingSteps DEF RemoveAll, ValidationInv
    <2>2. /\ todo = Hybrid /\ todo' = {} /\ alive' = alive \ (todo \cap alive)
          /\ UNCHANGED <<lease, call, awake, held, step>>
      BY <1>11, <2>1 DEF RemoveAll, RemoveReplicas, ValidationInv, engine
    <2>3. alive' = {}
      BY <1>0, <2>2
    <2> QED  BY <2>1, <2>2, <2>3 DEF ValidationInv
  <1>12. CASE UNCHANGED allVars
    BY <1>12 DEF allVars, vars, engine, trainer, ValidationInv
  <1> QED  BY <1>1, <1>2, <1>3, <1>4, <1>5, <1>6, <1>7, <1>8, <1>9, <1>10, <1>11, <1>12
           DEF HNext

\* A validation uses the load balancer only through its operations.
LEMMA ValidationUsesBalancer ==
  ASSUME ValidationInv, [HNext]_allVars
  PROVE  [Next]_vars
  <1>1. CASE AddAll
    <2>1. step = 4
      BY <1>1, DoingSteps DEF AddAll, ValidationInv
    <2> QED  BY <1>1, <2>1 DEF AddAll, ValidationInv, Next
  <1>2. CASE RemoveAll
    <2>1. step = 10
      BY <1>2, DoingSteps DEF RemoveAll, ValidationInv
    <2> QED  BY <1>2, <2>1 DEF RemoveAll, ValidationInv, Next
  <1>3. CASE \E r \in Requests : AcquireServer(r) \/ Release(r)
    BY <1>3 DEF AcquireServer, Release, Next
  <1>4. CASE \E s \in Servers : Released(s)
    BY <1>4 DEF Released, Next
  <1>5. CASE \E r \in Requests : Admit(r) \/ Answer(r)
    BY <1>5 DEF Admit, Answer
  <1>6. CASE \E s \in Servers : WakeUp(s) \/ AbortAllRequests(s) \/ ResumeGeneration(s) \/ Sleep(s)
    BY <1>6 DEF WakeUp, AbortAllRequests, ResumeGeneration, Sleep
  <1>7. CASE Advance \/ UNCHANGED allVars
    BY <1>7 DEF Advance, allVars
  <1> QED  BY <1>1, <1>2, <1>3, <1>4, <1>5, <1>6, <1>7 DEF HNext

\* The counters and the validation, in every reachable state of both.
THEOREM ValidationHolds == HSpec => [](Counters /\ ValidationInv)
  <1>1. HInit => Counters /\ ValidationInv
    <2> SUFFICES ASSUME HInit  PROVE Counters /\ ValidationInv
      OBVIOUS
    <2>1. Counters
      BY InitCounters DEF HInit
    <2>2. ValidationInv
      BY DEF HInit, Init, ValidationInv
    <2> QED  BY <2>1, <2>2
  <1>2. Counters /\ ValidationInv /\ [HNext]_allVars => (Counters /\ ValidationInv)'
    BY CountersStep, ValidationStep, ValidationUsesBalancer DEF Counters
  <1> QED  BY <1>1, <1>2, PTL DEF HSpec

\* A validation drives the load balancer through its operations only, so all
\* that is proved of them holds during a validation.
THEOREM ValidationImplementsBalancer == HSpec => Spec
  <1>1. HInit => Init
    BY DEF HInit
  <1>2. ValidationInv /\ [HNext]_allVars => [Next]_vars
    BY ValidationUsesBalancer
  <1> QED  BY <1>1, <1>2, ValidationHolds, PTL DEF HSpec, Spec

\* RoutedAwake: in every phase of _trainer_side_validate a server of the pool
\* that accepts calls has its weights in memory.
THEOREM RoutedAwakeHolds == HSpec => []RoutedAwake
  <1>1. TypeOK /\ ValidationInv => RoutedAwake
    <2> SUFFICES ASSUME TypeOK, ValidationInv, NEW s \in Pool  PROVE s \in awake
      BY DEF RoutedAwake
    <2>1. s \in Standalone \/ (s \in Hybrid /\ alive # {})
      BY DEF TypeOK
    <2>2. alive # {} => step \in 2..10
      BY DEF ValidationInv
    <2> QED  BY <2>1, <2>2 DEF ValidationInv
  <1> QED  BY <1>1, ValidationHolds, PTL DEF Counters

\* SleepsIdle: sleep_replicas frees the memory of a replica only once no call
\* runs on it, whatever was sent to it since the abort.
THEOREM SleepsIdleHolds == HSpec => SleepsIdle
  <1> DEFINE Idle == \A s \in awake \ awake' :
                       ~ \E r \in Requests : lease[r] = s /\ call[r] = "running"
  <1>1. ASSUME ValidationInv, [HNext]_allVars  PROVE [Idle]_allVars
    <2>1. CASE \E s \in Servers : Sleep(s)
      <3>1. PICK s \in Servers : Sleep(s)
        BY <2>1
      <3>2. step = 11
        BY <1>1, <3>1, DoingSteps DEF Sleep, ValidationInv
      <3>3. s \in held /\ awake' = awake \ {s}
        BY <1>1, <3>1, <3>2 DEF Sleep, ValidationInv
      <3> QED  BY <1>1, <3>3 DEF ValidationInv
    <2>2. CASE ~ \E s \in Servers : Sleep(s)
      <3>1. awake \subseteq awake' \/ UNCHANGED allVars
        BY <1>1, <2>2 DEF HNext, AcquireServer, Admit, Answer, Release, Released, Advance,
          WakeUp, AbortAllRequests, ResumeGeneration, AddAll, RemoveAll, engine
      <3> QED  BY <3>1
    <2> QED  BY <2>1, <2>2
  <1>2. ValidationInv /\ [HNext]_allVars => [Idle]_allVars
    BY <1>1
  <1> QED  BY <1>2, ValidationHolds, PTL DEF HSpec, SleepsIdle

-----------------------------------------------------------------------------
(* The routing cache *)

Entries == [request : Requests, server : Servers]

\* The cache holds, for each request, the server of its last turn, in the order
\* of the turns: whoever comes later in it has acquired a server since.  A
\* request that has dropped out was overtaken by a full cache of others.
RouteInv ==
  /\ routes \in Seq(Entries) /\ Len(routes) <= CacheSize
  /\ \A i, j \in 1..Len(routes) : routes[i].request = routes[j].request => i = j
  /\ \A i \in 1..Len(routes) : routes[i].server = last[routes[i].request]
  /\ \A i, j \in 1..Len(routes) : i < j => routes[j].request \in since[routes[i].request]
  /\ \A r \in Requests : last[r] # NoServer /\ ~Cached(r) => CacheSize <= Cardinality(since[r])

\* A cached route is found, and is that of the last turn.
LEMMA StickyIsLast ==
  ASSUME RouteInv, NEW r \in Requests, Cached(r)
  PROVE  /\ Position(r) \in 1..Len(routes) /\ routes[Position(r)].request = r
         /\ Sticky(r) = last[r]
  <1>1. Position(r) \in 1..Len(routes) /\ routes[Position(r)].request = r
    BY DEF Cached, Position
  <1> QED  BY <1>1 DEF RouteInv, Sticky

\* m is the cache without its k-th entry, if there is one, with the new route
\* of r to s last.
RouteShape(m, k, r, s) ==
  /\ m \in Seq(Entries)
  /\ Len(m) = IF k <= Len(routes) THEN Len(routes) ELSE Len(routes) + 1
  /\ \A i \in 1..Len(m) :
       m[i] = IF i = Len(m) THEN [request |-> r, server |-> s]
              ELSE IF i < k THEN routes[i] ELSE routes[i + 1]
  /\ \A i \in 1..Len(routes) : routes[i].request = r => i = k
  /\ k <= Len(routes) /\ routes[k].request # r => k = 1 /\ Len(routes) = CacheSize
  /\ Len(m) <= CacheSize

\* Remembering a route drops at most one entry, the old route of the request or
\* the oldest one of a full cache, and puts the new route last.
LEMMA RememberShape ==
  ASSUME RouteInv, NEW r \in Requests, NEW s \in Servers
  PROVE  \E k \in 1..(Len(routes) + 1) : RouteShape(Remember(r, s), k, r, s)
  <1> DEFINE n == Len(routes)
             m == Remember(r, s)
             new == [request |-> r, server |-> s]
  <1>1. /\ routes \in Seq(Entries) /\ n \in Nat /\ n <= CacheSize
        /\ CacheSize \in Nat \ {0} /\ new \in Entries
    BY SizeAssumption DEF RouteInv, Entries
  <1>2. CASE Cached(r)
    <2> DEFINE k == Position(r)
               rest == RemoveAt(routes, k)
    <2>1. k \in 1..n /\ routes[k].request = r
      BY <1>2, StickyIsLast
    <2> HIDE DEF k
    <2>2. /\ SubSeq(routes, 1, k - 1) \in Seq(Entries)
          /\ Len(SubSeq(routes, 1, k - 1)) = k - 1
          /\ \A i \in 1..(k - 1) : SubSeq(routes, 1, k - 1)[i] = routes[i]
      BY <1>1, <2>1
    <2>3. /\ SubSeq(routes, k + 1, n) \in Seq(Entries)
          /\ Len(SubSeq(routes, k + 1, n)) = n - k
          /\ \A i \in 1..(n - k) : SubSeq(routes, k + 1, n)[i] = routes[k + i]
      BY <1>1, <2>1
    <2>4. /\ rest \in Seq(Entries) /\ Len(rest) = n - 1
          /\ \A i \in 1..(n - 1) : rest[i] = IF i < k THEN routes[i] ELSE routes[i + 1]
      <3> DEFINE a == SubSeq(routes, 1, k - 1)
                 b == SubSeq(routes, k + 1, n)
      <3>1. rest = a \o b
        BY DEF RemoveAt
      <3> HIDE DEF a, b, rest
      <3>2. a \in Seq(Entries) /\ b \in Seq(Entries) /\ Len(a) = k - 1 /\ Len(b) = n - k
        BY <2>2, <2>3 DEF a, b
      <3>3. rest \in Seq(Entries) /\ Len(rest) = n - 1
        <4>0. a \in Seq(Entries) /\ b \in Seq(Entries)
          BY <3>2
        <4>1. rest \in Seq(Entries) /\ Len(rest) = Len(a) + Len(b)
          BY <3>1, <4>0
        <4>2. (k - 1) + (n - k) = n - 1
          BY <1>1, <2>1
        <4> QED  BY <3>2, <4>1, <4>2
      <3>4. ASSUME NEW i \in 1..(n - 1), i < k  PROVE rest[i] = routes[i]
        <4>1. i \in 1..Len(a) /\ a[i] = routes[i]
          BY <1>1, <2>1, <2>2, <3>2, <3>4 DEF a
        <4> QED  BY <3>1, <3>2, <4>1
      <3>5. ASSUME NEW i \in 1..(n - 1), ~(i < k)  PROVE rest[i] = routes[i + 1]
        <4>1. i - Len(a) \in 1..(n - k) /\ k + (i - Len(a)) = i + 1
          BY <1>1, <2>1, <3>2, <3>5
        <4>2. b[i - Len(a)] = routes[k + (i - Len(a))]
          BY <2>3, <4>1 DEF b
        <4>3. i \in 1..(Len(a) + Len(b)) /\ i \notin 1..Len(a)
          BY <1>1, <2>1, <3>2, <3>5
        <4>4. (a \o b)[i] = b[i - Len(a)]
          BY <3>2, <4>3
        <4> QED  BY <3>1, <4>1, <4>2, <4>4
      <3> QED  BY <3>3, <3>4, <3>5
    <2>5. m = Append(rest, new)
      <3>1. ~(Len(rest) >= CacheSize)
        BY <1>1, <2>4
      <3> QED  BY <1>2, <3>1 DEF Remember, k
    <2> HIDE DEF rest, m, new
    <2>6. m \in Seq(Entries) /\ Len(m) = n /\ m[n] = new /\ \A i \in 1..(n - 1) : m[i] = rest[i]
      BY <1>1, <2>1, <2>4, <2>5
    <2>7. \A i \in 1..n : routes[i].request = r => i = k
      BY <2>1 DEF RouteInv
    <2>8. \A i \in 1..n : m[i] = IF i = n THEN new ELSE IF i < k THEN routes[i] ELSE routes[i + 1]
      BY <1>1, <2>4, <2>6, SMTT(30)
    <2>9. RouteShape(m, k, r, s)
      BY <1>1, <2>1, <2>6, <2>7, <2>8 DEF RouteShape, new
    <2>10. k \in 1..(n + 1)
      BY <1>1, <2>1
    <2> QED  BY <2>9, <2>10 DEF m, new
  <1>3. CASE ~Cached(r) /\ n < CacheSize
    <2>1. m = Append(routes, new)
      BY <1>1, <1>3 DEF Remember
    <2>2. \A i \in 1..n : routes[i].request # r
      BY <1>3 DEF Cached
    <2> HIDE DEF m, new
    <2>3. RouteShape(m, n + 1, r, s)
      BY <1>1, <1>3, <2>1, <2>2 DEF RouteShape, new
    <2>4. n + 1 \in 1..(n + 1)
      BY <1>1
    <2> QED  BY <2>3, <2>4 DEF m, new
  <1>4. CASE ~Cached(r) /\ ~(n < CacheSize)
    <2>1. n = CacheSize /\ n >= 1
      BY <1>1, <1>4
    <2>2. m = Append(Tail(routes), new)
      BY <1>1, <1>4, <2>1 DEF Remember
    <2>3. /\ Tail(routes) \in Seq(Entries) /\ Len(Tail(routes)) = n - 1
          /\ \A i \in 1..(n - 1) : Tail(routes)[i] = routes[i + 1]
      BY <1>1, <2>1
    <2>4. \A i \in 1..n : routes[i].request # r
      BY <1>4 DEF Cached
    <2> HIDE DEF m, new
    <2>5. m \in Seq(Entries) /\ Len(m) = n /\ m[n] = new /\ \A i \in 1..(n - 1) : m[i] = routes[i + 1]
      BY <1>1, <2>1, <2>2, <2>3
    <2>6. RouteShape(m, 1, r, s)
      BY <1>1, <2>1, <2>4, <2>5 DEF RouteShape, new
    <2>7. 1 \in 1..(n + 1)
      BY <1>1
    <2> QED  BY <2>6, <2>7 DEF m, new
  <1> QED  BY <1>2, <1>3, <1>4

\* The entry that a full cache drops was overtaken by all the others and by the
\* request that is being routed.
LEMMA EvictedOvertaken ==
  ASSUME TypeOK, RouteInv, NEW r \in Requests, NEW q \in Requests, NEW T \in SUBSET Requests,
         Len(routes) = CacheSize, routes[1].request = q, ~Cached(r),
         since[q] \cup {r} \subseteq T
  PROVE  CacheSize <= Cardinality(T)
  <1> DEFINE f == [i \in 1..CacheSize |-> IF i = 1 THEN r ELSE routes[i].request]
  <1>1. CacheSize \in Nat \ {0} /\ IsFiniteSet(T)
    BY SizeAssumption, RequestAssumption, FS_Subset
  <1>2. \A i \in 1..CacheSize : i # 1 => routes[i].request \in since[q]
    BY <1>1 DEF RouteInv
  <1>3. f \in [1..CacheSize -> T]
    BY <1>2
  <1>4. \A i \in 1..CacheSize : routes[i].request # r
    BY DEF Cached
  <1>5. \A i, j \in 1..CacheSize : f[i] = f[j] => i = j
    BY <1>4 DEF RouteInv
  <1>6. f \in Injection(1..CacheSize, T)
    BY <1>3, <1>5 DEF Injection, IsInjective
  <1>7. Cardinality(1..CacheSize) <= Cardinality(T)
    BY <1>1, <1>6, FS_Injection
  <1>8. Cardinality(1..CacheSize) = CacheSize
    BY <1>1, FS_Interval
  <1> QED  BY <1>7, <1>8

\* acquire_server keeps the order of the cache.
LEMMA RouteAcquire ==
  ASSUME TypeOK, RouteInv, NEW r \in Requests, Acquire(r)
  PROVE  RouteInv'
  <1>1. PICK s \in Candidates(r) : routes' = Remember(r, s) /\ last' = [last EXCEPT ![r] = s]
    BY DEF Acquire
  <1>2. s \in Servers
    BY <1>1 DEF Candidates, TypeOK, Servers
  <1>3. /\ last \in [Requests -> Servers \cup {NoServer}]
        /\ since \in [Requests -> SUBSET Requests]
        /\ since' = [q \in Requests |-> IF q = r THEN {} ELSE since[q] \cup {r}]
    BY DEF TypeOK, Acquire
  <1> DEFINE n == Len(routes)
             new == [request |-> r, server |-> s]
  <1>k. PICK k \in 1..(n + 1) : RouteShape(routes', k, r, s)
    BY <1>1, <1>2, RememberShape
  <1>4. /\ routes' \in Seq(Entries)
        /\ Len(routes') = IF k <= n THEN n ELSE n + 1
        /\ \A i \in 1..Len(routes') :
             routes'[i] = IF i = Len(routes') THEN new
                          ELSE IF i < k THEN routes[i] ELSE routes[i + 1]
        /\ \A i \in 1..n : routes[i].request = r => i = k
        /\ k <= n /\ routes[k].request # r => k = 1 /\ n = CacheSize
        /\ Len(routes') <= CacheSize
    BY <1>k DEF RouteShape
  <1> DEFINE N == Len(routes')
             old(i) == IF i < k THEN i ELSE i + 1
  <1>5. n \in Nat /\ N \in Nat /\ N >= 1 /\ N <= n + 1 /\ (k = n + 1 => N = n + 1)
    BY <1>4 DEF RouteInv
  <1>6. \A i \in 1..N : i # N => /\ old(i) \in 1..n /\ old(i) # k
                                 /\ routes'[i] = routes[old(i)]
    BY <1>4, <1>5
  <1>7. \A i, j \in 1..N : i < j => old(i) < old(j)
    BY <1>5
  <1>8. routes'[N] = new /\ routes'[N].request = r /\ routes'[N].server = s
    BY <1>4, <1>5
  <1>9. \A i \in 1..n : routes[i].request \in Requests
    <2>1. routes \in Seq(Entries)
      BY DEF RouteInv
    <2>2. \A i \in 1..n : routes[i] \in Entries
      BY <2>1
    <2> QED  BY <2>2 DEF Entries
  <1> HIDE DEF N, old, n, new
  <1>10. \A i \in 1..N : i # N => routes'[i].request # r /\ routes'[i].request \in Requests
    BY <1>4, <1>6, <1>9 DEF n
  <1>11. \A i, j \in 1..N : i < j => routes'[i].request # routes'[j].request
    <2> SUFFICES ASSUME NEW i \in 1..N, NEW j \in 1..N, i < j
                 PROVE  routes'[i].request # routes'[j].request
      OBVIOUS
    <2>1. i # N
      BY <1>5
    <2>2. CASE j = N
      BY <1>8, <1>10, <2>1, <2>2
    <2>3. CASE j # N
      <3>1. old(i) # old(j) /\ old(i) \in 1..n /\ old(j) \in 1..n
        <4>1. old(i) < old(j) /\ old(i) \in 1..n /\ old(j) \in 1..n
          BY <1>6, <1>7, <2>1, <2>3
        <4> QED  BY <1>5, <4>1
      <3>2. routes'[i] = routes[old(i)] /\ routes'[j] = routes[old(j)]
        BY <1>6, <2>1, <2>3
      <3> QED  BY <3>1, <3>2 DEF RouteInv, n
    <2> QED  BY <2>2, <2>3
  <1>12. \A i \in 1..N : routes'[i].server = last'[routes'[i].request]
    <2> TAKE i \in 1..N
    <2>1. CASE i = N
      BY <1>1, <1>3, <1>8, <2>1
    <2>2. CASE i # N
      <3>1. routes'[i] = routes[old(i)] /\ old(i) \in 1..n
        BY <1>6, <2>2
      <3>2. routes[old(i)].server = last[routes[old(i)].request]
        BY <3>1 DEF RouteInv, n
      <3>3. last'[routes'[i].request] = last[routes'[i].request]
        BY <1>1, <1>3, <1>10, <2>2
      <3> QED  BY <3>1, <3>2, <3>3
    <2> QED  BY <2>1, <2>2
  <1>13. \A i, j \in 1..N : i < j => routes'[j].request \in since'[routes'[i].request]
    <2> SUFFICES ASSUME NEW i \in 1..N, NEW j \in 1..N, i < j
                 PROVE  routes'[j].request \in since'[routes'[i].request]
      OBVIOUS
    <2>1. i # N
      BY <1>5
    <2>2. since'[routes'[i].request] = since[routes'[i].request] \cup {r}
      BY <1>3, <1>10, <2>1
    <2>3. CASE j = N
      BY <1>8, <2>2, <2>3
    <2>4. CASE j # N
      <3>1. /\ routes'[i] = routes[old(i)] /\ routes'[j] = routes[old(j)]
            /\ old(i) \in 1..n /\ old(j) \in 1..n /\ old(i) < old(j)
        BY <1>6, <1>7, <2>1, <2>4
      <3>2. routes[old(j)].request \in since[routes[old(i)].request]
        BY <3>1 DEF RouteInv, n
      <3> QED  BY <2>2, <3>1, <3>2
    <2> QED  BY <2>3, <2>4
  <1>14. \A q \in Requests : last'[q] # NoServer /\ ~Cached(q)' => CacheSize <= Cardinality(since'[q])
    <2> SUFFICES ASSUME NEW q \in Requests, last'[q] # NoServer, ~Cached(q)'
                 PROVE  CacheSize <= Cardinality(since'[q])
      OBVIOUS
    <2>1. \A i \in 1..N : routes'[i].request # q
      BY DEF Cached, N
    <2>2. q # r
      BY <1>5, <1>8, <2>1
    <2>3. /\ since'[q] = since[q] \cup {r} /\ since[q] \subseteq Requests
          /\ last[q] # NoServer
      BY <1>1, <1>3, <2>2
    <2>4. CASE ~Cached(q)
      <3>1. CacheSize <= Cardinality(since[q])
        BY <2>3, <2>4 DEF RouteInv
      <3>2. IsFiniteSet(since'[q])
        BY <2>3, RequestAssumption, FS_Subset
      <3>3. Cardinality(since[q]) <= Cardinality(since'[q]) /\ IsFiniteSet(since[q])
        BY <2>3, <3>2, FS_Subset
      <3>4. Cardinality(since[q]) \in Nat /\ Cardinality(since'[q]) \in Nat
        BY <3>2, <3>3, FS_CardinalityType
      <3> QED  BY <3>1, <3>3, <3>4, SizeAssumption
    <2>5. CASE Cached(q)
      <3>1. PICK p \in 1..n : routes[p].request = q
        BY <2>5 DEF Cached, n
      <3>2. p = k
        <4>1. SUFFICES ASSUME p # k  PROVE FALSE
          OBVIOUS
        <4>2. CASE p < k
          <5>1. p \in 1..N /\ p # N /\ old(p) = p
            BY <1>4, <1>5, <4>2 DEF old, N, n
          <5> QED  BY <1>6, <2>1, <3>1, <5>1
        <4>3. CASE p > k
          <5>1. p - 1 \in 1..N /\ p - 1 # N /\ old(p - 1) = p
            BY <1>4, <1>5, <4>3 DEF old, N, n
          <5> QED  BY <1>6, <2>1, <3>1, <5>1
        <4> QED  BY <1>5, <4>1, <4>2, <4>3
      <3>3. k = 1 /\ n = CacheSize /\ ~Cached(r)
        <4>1. k = 1 /\ n = CacheSize
          BY <1>4, <2>2, <3>1, <3>2 DEF n
        <4>2. \A i \in 1..n : routes[i].request # r
          BY <1>4, <2>2, <3>1, <3>2 DEF n
        <4> QED  BY <4>1, <4>2 DEF Cached, n
      <3>4. since'[q] \in SUBSET Requests
        BY <2>3
      <3> QED  BY <2>3, <3>1, <3>2, <3>3, <3>4, EvictedOvertaken DEF n
    <2> QED  BY <2>4, <2>5
  <1>15. \A i, j \in 1..N : routes'[i].request = routes'[j].request => i = j
    <2> SUFFICES ASSUME NEW i \in 1..N, NEW j \in 1..N, i # j
                 PROVE  routes'[i].request # routes'[j].request
      OBVIOUS
    <2>1. i < j \/ j < i
      BY <1>5
    <2> QED  BY <1>11, <2>1
  <1> QED  BY <1>4, <1>12, <1>13, <1>14, <1>15 DEF RouteInv, N

\* Nothing else touches the cache.
LEMMA RouteStep ==
  ASSUME TypeOK, RouteInv, [Next]_vars
  PROVE  RouteInv'
  <1>1. CASE \E r \in Requests : Acquire(r)
    BY <1>1, RouteAcquire
  <1>2. CASE UNCHANGED <<routes, last, since>>
    BY <1>2 DEF RouteInv, Cached
  <1>3. CASE \/ \E r \in Requests : Finish(r)
             \/ \E s \in Servers : ReleaseServer(s)
             \/ \E R \in SUBSET Hybrid : AddReplicas(R) \/ RemoveReplicas(R)
             \/ UNCHANGED vars
    BY <1>2, <1>3 DEF Finish, ReleaseServer, AddReplicas, RemoveReplicas, vars
  <1> QED  BY <1>1, <1>3 DEF Next

\* The routing cache of acquire_server keeps each conversation at most once, with
\* its last server, in the order of the turns and within the size of the cache; who
\* is not in it was overtaken by a full cache of others.
THEOREM RoutesHold == Spec => []RouteInv
  <1>1. Init => RouteInv
    <2> SUFFICES ASSUME Init  PROVE RouteInv
      OBVIOUS
    <2>1. routes = <<>> /\ last = [r \in Requests |-> NoServer]
      BY DEF Init
    <2> QED  BY <2>1, SizeAssumption DEF RouteInv
  <1>2. TypeOK /\ RouteInv /\ [Next]_vars => RouteInv'
    BY RouteStep
  <1> QED  BY <1>1, <1>2, BalancerTypeCorrect, PTL DEF Spec

\* StickySession: a conversation stays with its server while that is in the
\* pool, even across a removal and a new activation, unless max_cache_size
\* other conversations have acquired a server since its last turn.
THEOREM StickySessionHolds == Spec => StickySession
  <1> DEFINE Stays == \A r \in Requests :
                        /\ lease[r] = NoServer /\ lease'[r] # NoServer
                        /\ last[r] \in Pool
                        /\ Cardinality(since[r]) < CacheSize
                        => lease'[r] = last[r]
  <1>1. ASSUME TypeOK, RouteInv, [Next]_vars  PROVE [Stays]_vars
    <2> SUFFICES ASSUME NEW r \in Requests, Next,
                        lease[r] = NoServer, lease'[r] # NoServer,
                        last[r] \in Pool, Cardinality(since[r]) < CacheSize
                 PROVE  lease'[r] = last[r]
      BY <1>1
    <2>1. lease \in [Requests -> Servers \cup {NoServer}] /\ Pool \subseteq Servers
      BY <1>1 DEF TypeOK, Servers
    <2>2. Acquire(r)
      <3>1. ASSUME NEW q \in Requests, q # r, Acquire(q)  PROVE lease'[r] = lease[r]
        BY <2>1, <3>1 DEF Acquire
      <3>2. ASSUME NEW q \in Requests, Finish(q)  PROVE lease'[r] \in {lease[r], NoServer}
        BY <2>1, <3>2 DEF Finish
      <3>3. ASSUME \/ \E s \in Servers : ReleaseServer(s)
                   \/ \E R \in SUBSET Hybrid : AddReplicas(R) \/ RemoveReplicas(R)
            PROVE  lease' = lease
        BY <3>3 DEF ReleaseServer, AddReplicas, RemoveReplicas
      <3> QED  BY <3>1, <3>2, <3>3 DEF Next
    <2>3. PICK s \in Candidates(r) : lease' = [lease EXCEPT ![r] = s]
      BY <2>2 DEF Acquire
    <2>4. last[r] # NoServer
      BY <2>1, ServerAssumption DEF Servers
    <2>5. IsFiniteSet(since[r])
      BY <1>1, RequestAssumption, FS_Subset DEF TypeOK
    <2>6. Cardinality(since[r]) \in Nat /\ CacheSize \in Nat
      BY <2>5, FS_CardinalityType, SizeAssumption
    <2>7. ~(CacheSize <= Cardinality(since[r]))
      BY <2>6
    <2>8. Cached(r)
      BY <1>1, <2>4, <2>7 DEF RouteInv
    <2>9. Sticky(r) = last[r]
      BY <1>1, <2>8, StickyIsLast
    <2> QED  BY <2>1, <2>3, <2>9 DEF Candidates
  <1>2. TypeOK /\ RouteInv /\ [Next]_vars => [Stays]_vars
    BY <1>1
  <1> QED  BY <1>2, RoutesHold, BalancerTypeCorrect, PTL DEF Spec, StickySession
=============================================================================
