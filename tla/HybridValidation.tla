--------------------------- MODULE HybridValidation ---------------------------
(***************************************************************************)
(* _trainer_side_validate: the trainer lends its own GPUs to a validation. *)
(* It wakes the hybrid replicas, adds them to the load balancer, lets the  *)
(* rollouter validate, removes them and puts them to sleep again, while    *)
(* conversations go on acquiring servers.  The load balancer is that of    *)
(* LoadBalancer; this module adds the engines and the script of the        *)
(* trainer.                                                                *)
(***************************************************************************)
EXTENDS LoadBalancer

VARIABLES
  call,    \* per request, where server.generate is
  awake,   \* servers whose weights and kv cache are in GPU memory
  held,    \* servers between pause_generation and resume_generation
  step,    \* position in the script; 0: training
  todo     \* servers that the current step has not reached

engine == <<awake, held>>
trainer == <<step, todo>>
allVars == <<vars, call, engine, trainer>>

\* Defect: the hybrid replicas sleep before they leave the load balancer.
ScriptSleepsFirst ==
  << <<"wake", Hybrid>>, <<"abort", Standalone>>, <<"abort", Hybrid>>,
     <<"add", Hybrid>>, <<"resume", Standalone>>, <<"resume", Hybrid>>,
     <<"validate", {}>>,
     <<"abort", Standalone>>, <<"abort", Hybrid>>, <<"sleep", Hybrid>>,
     <<"resume", Standalone>>, <<"resume", Hybrid>>, <<"remove", Hybrid>> >>

\* Defect: the requests of the hybrid replicas are not aborted.
ScriptWithoutAbort ==
  << <<"wake", Hybrid>>, <<"abort", Standalone>>, <<"abort", Hybrid>>,
     <<"add", Hybrid>>, <<"resume", Standalone>>, <<"resume", Hybrid>>,
     <<"validate", {}>>,
     <<"abort", Standalone>>, <<"remove", Hybrid>>, <<"sleep", Hybrid>>,
     <<"resume", Standalone>>, <<"resume", Hybrid>> >>

\* The three phases of _trainer_side_validate.  A step on several servers is a
\* gather: it reaches them in any order and ends when it has reached them all.
Script ==
  << <<"wake", Hybrid>>, <<"abort", Standalone>>, <<"abort", Hybrid>>,
     <<"add", Hybrid>>, <<"resume", Standalone>>, <<"resume", Hybrid>>,
     <<"validate", {}>>,
     <<"abort", Standalone>>, <<"abort", Hybrid>>, <<"remove", Hybrid>>,
     <<"sleep", Hybrid>>, <<"resume", Standalone>>, <<"resume", Hybrid>> >>

Doing(op) == step > 0 /\ Script[step][1] = op

HInit ==
  /\ Init
  /\ call = [r \in Requests |-> "none"]
  /\ awake = Standalone
  /\ held = {}
  /\ step = 0
  /\ todo = {}

-----------------------------------------------------------------------------
(* A conversation: LLMServerClient.generate *)

AcquireServer(r) ==
  /\ Acquire(r)
  /\ call' = [call EXCEPT ![r] = "sent"]
  /\ UNCHANGED <<engine, trainer>>

\* The engine admits the call unless it is paused.  One that sleeps has no
\* weights: the call raises.
Admit(r) ==
  /\ call[r] = "sent" /\ lease[r] \notin held
  /\ call' = [call EXCEPT ![r] = IF lease[r] \in awake THEN "running" ELSE "over"]
  /\ UNCHANGED <<vars, engine, trainer>>

Answer(r) ==
  /\ call[r] = "running"
  /\ call' = [call EXCEPT ![r] = "over"]
  /\ UNCHANGED <<vars, engine, trainer>>

\* The finally clause of generate.
Release(r) ==
  /\ call[r] = "over"
  /\ Finish(r)
  /\ call' = [call EXCEPT ![r] = "none"]
  /\ UNCHANGED <<engine, trainer>>

Released(s) == ReleaseServer(s) /\ UNCHANGED <<call, engine, trainer>>

-----------------------------------------------------------------------------
(* The script of the trainer *)

\* The next step, or back to training after the last one.
Advance ==
  /\ todo = {}
  /\ step' = IF step = Len(Script) THEN 0 ELSE step + 1
  /\ todo' = IF step = Len(Script) THEN {} ELSE Script[step + 1][2]
  /\ UNCHANGED <<vars, call, engine>>

\* update_weights of the naive backend resumes weights and cache of a replica
\* around the transfer.
WakeUp(s) ==
  /\ Doing("wake") /\ s \in todo
  /\ awake' = awake \cup {s}
  /\ todo' = todo \ {s}
  /\ UNCHANGED <<vars, call, held, step>>

\* abort_all_requests: the calls in the engine end, and it is paused.
AbortAllRequests(s) ==
  /\ Doing("abort") /\ s \in todo
  /\ held' = held \cup {s}
  /\ call' = [r \in Requests |-> IF call[r] = "running" /\ lease[r] = s THEN "over"
                                 ELSE call[r]]
  /\ todo' = todo \ {s}
  /\ UNCHANGED <<vars, awake, step>>

ResumeGeneration(s) ==
  /\ Doing("resume") /\ s \in todo
  /\ held' = held \ {s}
  /\ todo' = todo \ {s}
  /\ UNCHANGED <<vars, call, awake, step>>

Sleep(s) ==
  /\ Doing("sleep") /\ s \in todo
  /\ awake' = awake \ {s}
  /\ todo' = todo \ {s}
  /\ UNCHANGED <<vars, call, held, step>>

\* add_replicas and remove_replicas of the rollouter: one call for all.
AddAll ==
  /\ Doing("add") /\ todo # {}
  /\ AddReplicas(todo)
  /\ todo' = {}
  /\ UNCHANGED <<call, engine, step>>

RemoveAll ==
  /\ Doing("remove") /\ todo # {}
  /\ RemoveReplicas(todo)
  /\ todo' = {}
  /\ UNCHANGED <<call, engine, step>>

HNext ==
  \/ \E r \in Requests : AcquireServer(r) \/ Admit(r) \/ Answer(r) \/ Release(r)
  \/ \E s \in Servers : \/ Released(s) \/ WakeUp(s) \/ AbortAllRequests(s)
                        \/ ResumeGeneration(s) \/ Sleep(s)
  \/ Advance \/ AddAll \/ RemoveAll

HSpec == HInit /\ [][HNext]_allVars

-----------------------------------------------------------------------------
(* Properties *)

\* The load balancer hands out only servers that can serve: a server of the
\* pool that accepts calls has its weights in GPU memory, in every phase of a
\* validation.
RoutedAwake == Pool \ held \subseteq awake

\* sleep_replicas never takes the memory of a replica from under a call that
\* runs on it, whatever was sent to it since the abort.
SleepsIdle ==
  [][\A s \in awake \ awake' :
       ~ \E r \in Requests : lease[r] = s /\ call[r] = "running"]_allVars
=============================================================================
