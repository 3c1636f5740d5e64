---------------------------- MODULE PartialRollout ----------------------------
(***************************************************************************)
(* FullyAsyncLLMServerClient.generate, which resumes a generation that a   *)
(* weight synchronisation has aborted, the generate, abort and resume      *)
(* calls of the inference servers (vllm_async_server.py), and              *)
(* CheckpointEngineManager.update_weights.  A token is represented by the  *)
(* version of the weights that computed it.                                *)
(***************************************************************************)
EXTENDS Integers, Sequences, FiniteSets, SequencesExt

CONSTANTS
  Requests, Servers,
  PromptLength, ResponseLength, MaxModelLen,
  Prompt,       \* per request, len(prompt_ids)
  Limit,        \* max_tokens of sampling_params, or Unknown: the agent loops set none
  Resume,       \* config.async_training.partial_rollout
  Pausing,      \* the engine has pause_generation: vLLM >= 0.12, sglang
  MaxVersion,   \* bound: synchronisations
  Unknown,      \* None
  Mixed         \* weights of a server in the middle of a transfer

ASSUME LengthAssumption ==
  /\ {PromptLength, ResponseLength, MaxModelLen} \subseteq Nat \ {0}
  /\ Prompt \in [Requests -> 1..PromptLength]
  /\ \A r \in Requests : Prompt[r] < MaxModelLen

ASSUME LimitAssumption == Limit = Unknown \/ Limit \in Nat \ {0}

ASSUME ValueAssumption == Unknown \notin Nat /\ Mixed \notin Nat

ASSUME ModeAssumption == Resume \in BOOLEAN /\ Pausing \in BOOLEAN /\ MaxVersion \in Nat

Versions == 0..MaxVersion

VARIABLES
  version,  \* of the weights that the trainer publishes
  stage,    \* per server, how far the synchronisation under way has got
  weights,  \* per server, the version loaded, or Mixed
  label,    \* per server, global_steps
  cache,    \* per server, versions that computed the cached prefixes
  phase,    \* per request, where generate is
  server,   \* per request, the server of the call under way
  budget,   \* per request, max_tokens of the call under way
  chunk,    \* per request, tokens of the call under way
  final     \* per request, final_output and the two versions

srv == <<version, stage, weights, label, cache>>
client == <<phase, server, budget, final>>
vars == <<version, stage, weights, label, cache, phase, server, budget, chunk, final>>

NoOutput == [tokens |-> <<>>, rows |-> 0, stop |-> Unknown,
             min |-> Unknown, max |-> Unknown]

Init ==
  /\ version = 0
  /\ stage = [s \in Servers |-> "serving"]
  /\ weights = [s \in Servers |-> 0]
  /\ label = [s \in Servers |-> 0]
  /\ cache = [s \in Servers |-> {}]
  /\ phase = [r \in Requests |-> "calling"]
  /\ server \in [Requests -> Servers]
  /\ budget = [r \in Requests |-> 0]
  /\ chunk = [r \in Requests |-> <<>>]
  /\ final = [r \in Requests |-> NoOutput]

\* Between pause_generation and resume_generation no call is admitted.
Paused(s) == Pausing /\ stage[s] \notin {"serving", "due"}

\* The prompt of the next call: the prompt and every token so far.
Context(r) == Prompt[r] + Len(final[r].tokens)

Lesser(a, b) == IF a <= b THEN a ELSE b
Greater(a, b) == IF a >= b THEN a ELSE b

-----------------------------------------------------------------------------
(* The client and the server calls. *)

\* Defect: computed for the prompt alone, without the tokens already there.
MaxTokensOfPrompt(r) ==
  LET wanted == IF Limit # Unknown THEN Limit
                ELSE Lesser(ResponseLength, PromptLength + ResponseLength - Prompt[r])
  IN  Greater(1, Lesser(wanted, MaxModelLen - Context(r)))

\* max_tokens as the server clamps it.
MaxTokens(r) ==
  LET wanted == IF Limit # Unknown THEN Limit - Len(final[r].tokens)
                ELSE Lesser(ResponseLength, PromptLength + ResponseLength - Context(r))
  IN  Greater(1, Lesser(wanted, MaxModelLen - Context(r)))

\* generate of a server s that the load balancer picks, up to engine.generate;
\* no room in the context is a ValueError.
Call(r, s) ==
  /\ phase[r] = "calling"
  /\ server' = [server EXCEPT ![r] = s]
  /\ IF MaxModelLen - Context(r) < 1
     THEN phase' = [phase EXCEPT ![r] = "failed"] /\ UNCHANGED budget
     ELSE /\ phase' = [phase EXCEPT ![r] = "queued"]
          /\ budget' = [budget EXCEPT ![r] = MaxTokens(r)]
  /\ UNCHANGED <<srv, chunk, final>>

\* The engine admits the call.
Admit(r) ==
  /\ phase[r] = "queued" /\ ~Paused(server[r])
  /\ phase' = [phase EXCEPT ![r] = "running"]
  /\ UNCHANGED <<srv, server, budget, chunk, final>>

\* Rows of routed_experts: the context with the first tokens, then only the
\* rows of the new tokens.
Rows(r, tokens) ==
  IF tokens = <<>> THEN final[r].rows
  ELSE IF final[r].rows = 0 THEN Context(r) + Len(tokens)
  ELSE final[r].rows + Len(tokens)

\* Defect: the newest version is also taken for the oldest.
MergeNewestOnly(r, tokens, stop, steps) ==
  [tokens |-> final[r].tokens \o tokens, rows |-> Rows(r, tokens), stop |-> stop,
   min |-> steps, max |-> steps]

\* final_output after the merge of an answer of the server.
Merge(r, tokens, stop, steps) ==
  LET total == final[r].tokens \o tokens IN
  [tokens |-> total,
   rows |-> Rows(r, tokens),
   stop |-> IF Limit # Unknown /\ Len(total) >= Limit THEN "length" ELSE stop,
   min |-> IF final[r].min = Unknown THEN steps ELSE final[r].min,
   max |-> steps]

\* generate returns after a merged answer, or sleeps and calls again.
PhaseAfter(output) ==
  IF output.stop = "aborted" /\ Resume THEN "calling" ELSE "done"

\* The engine computes a token; the generator ends at a stop token or at the
\* limit, and the answer is labelled with global_steps.
Token(r) ==
  LET s == server[r]
      tokens == Append(chunk[r], weights[s])
      output == Merge(r, tokens, "completed", label[s])
  IN
  /\ phase[r] = "running"
  /\ \/ /\ Len(tokens) < budget[r]
        /\ chunk' = [chunk EXCEPT ![r] = tokens]
        /\ UNCHANGED client
     \/ /\ chunk' = [chunk EXCEPT ![r] = <<>>]
        /\ final' = [final EXCEPT ![r] = output]
        /\ phase' = [phase EXCEPT ![r] = PhaseAfter(output)]
        /\ UNCHANGED <<server, budget>>
  /\ cache' = [cache EXCEPT ![s] = @ \cup {weights[s]}]
  /\ UNCHANGED <<version, stage, weights, label>>

-----------------------------------------------------------------------------
(* The synchronisation: every server passes through the same stages, and   *)
(* the manager waits for all of them before the transfer and before the    *)
(* resumption.                                                             *)

\* update_weights is called with the next version.
BeginSync ==
  /\ \A s \in Servers : stage[s] = "serving"
  /\ version < MaxVersion
  /\ version' = version + 1
  /\ stage' = [s \in Servers |-> "due"]
  /\ UNCHANGED <<weights, label, cache, client, chunk>>

\* Defect: the caches are kept.
ClearKvCacheKept(s) == cache[s]

\* clear_kv_cache
ClearKvCache(s) == {}

\* The requests of s that are in the engine.
Running(s) == {r \in Requests : phase[r] = "running" /\ server[r] = s}

\* Defect: the tokens of the aborted calls are lost.
AbortDropsTokens(s) ==
  /\ stage[s] = "due"
  /\ final' = [r \in Requests |->
                 IF r \in Running(s) THEN Merge(r, <<>>, "aborted", label[s])
                 ELSE final[r]]
  /\ phase' = [r \in Requests |-> IF r \in Running(s) THEN PhaseAfter(final'[r])
                                  ELSE phase[r]]
  /\ chunk' = [r \in Requests |-> IF r \in Running(s) THEN <<>> ELSE chunk[r]]
  /\ stage' = [stage EXCEPT ![s] = "aborted"]
  /\ cache' = [cache EXCEPT ![s] = ClearKvCache(s)]
  /\ UNCHANGED <<version, weights, label, server, budget>>

\* abort_all_requests: every request in the engine is answered with what it
\* has; the answer of one without tokens may be empty, and then carries no
\* global_steps (blank).  An engine that cannot pause returns early, caches
\* kept, if it has no request.
Abort(s) ==
  /\ stage[s] = "due"
  /\ \E blank \in SUBSET {r \in Running(s) : chunk[r] = <<>>} :
       final' = [r \in Requests |->
                   IF r \in Running(s)
                   THEN Merge(r, chunk[r], "aborted",
                              IF r \in blank THEN Unknown ELSE label[s])
                   ELSE final[r]]
  /\ phase' = [r \in Requests |-> IF r \in Running(s) THEN PhaseAfter(final'[r])
                                  ELSE phase[r]]
  /\ chunk' = [r \in Requests |-> IF r \in Running(s) THEN <<>> ELSE chunk[r]]
  /\ stage' = [stage EXCEPT ![s] = "aborted"]
  /\ cache' = IF Pausing \/ Running(s) # {}
              THEN [cache EXCEPT ![s] = ClearKvCache(s)] ELSE cache
  /\ UNCHANGED <<version, weights, label, server, budget>>

\* Once every server has aborted, the process group is built and the first
\* bucket overwrites weights of s.
BeginTransfer(s) ==
  /\ stage[s] = "aborted"
  /\ \A q \in Servers : stage[q] # "due"
  /\ stage' = [stage EXCEPT ![s] = "receiving"]
  /\ weights' = [weights EXCEPT ![s] = Mixed]
  /\ UNCHANGED <<version, label, cache, client, chunk>>

\* The last bucket has been loaded; the caches are reset.
EndTransfer(s) ==
  /\ stage[s] = "receiving"
  /\ stage' = [stage EXCEPT ![s] = "received"]
  /\ weights' = [weights EXCEPT ![s] = version]
  /\ cache' = [cache EXCEPT ![s] = ClearKvCache(s)]
  /\ UNCHANGED <<version, label, client, chunk>>

\* set_global_steps
SetGlobalSteps(s) ==
  /\ stage[s] = "received"
  /\ stage' = [stage EXCEPT ![s] = "labelled"]
  /\ label' = [label EXCEPT ![s] = version]
  /\ UNCHANGED <<version, weights, cache, client, chunk>>

\* Defect: the manager resumes the first server only.
ResumeGenerationFirst(s) ==
  /\ stage[s] = "labelled"
  /\ \A q \in Servers : stage[q] = "labelled"
  /\ stage' = [stage EXCEPT ![s] = "serving"]
  /\ UNCHANGED <<version, weights, label, cache, client, chunk>>

\* resume_generation, once every worker has finished and been finalized
ResumeGeneration(s) ==
  /\ stage[s] = "labelled"
  /\ \A q \in Servers : stage[q] \in {"labelled", "serving"}
  /\ stage' = [stage EXCEPT ![s] = "serving"]
  /\ UNCHANGED <<version, weights, label, cache, client, chunk>>

-----------------------------------------------------------------------------
Returned(r) == phase[r] \in {"done", "failed"}

\* Every generation has returned and no synchronisation is left.
Finished ==
  /\ \A r \in Requests : Returned(r)
  /\ \A s \in Servers : stage[s] = "serving"
  /\ version = MaxVersion
  /\ UNCHANGED vars

Request(r) == (\E s \in Servers : Call(r, s)) \/ Admit(r) \/ Token(r)

Sync(s) ==
  Abort(s) \/ BeginTransfer(s) \/ EndTransfer(s) \/ SetGlobalSteps(s)
           \/ ResumeGeneration(s)

Next ==
  \/ \E r \in Requests : Request(r)
  \/ \E s \in Servers : Sync(s)
  \/ BeginSync
  \/ Finished

Spec == Init /\ [][Next]_vars

\* The engines compute, the clients retry and a synchronisation that has begun
\* is carried out; nothing forces a synchronisation to begin.
LiveSpec ==
  /\ Spec
  /\ \A r \in Requests : WF_vars(Request(r))
  /\ \A s \in Servers : WF_vars(Sync(s))

-----------------------------------------------------------------------------
(* Properties *)

\* The versions that assemble_batch reads from an answer are known, and every
\* token of it was computed with a version between them, however often the
\* generation was aborted and whichever servers resumed it.
VersionWindow ==
  \A r \in Requests : phase[r] = "done" =>
    /\ final[r].min \in Versions /\ final[r].max \in Versions
    /\ \A v \in Range(final[r].tokens) : final[r].min <= v /\ v <= final[r].max

\* However often a generation is resumed, its output is one that a single call
\* could have given: with its prompt it fits the sequence length of the training
\* batch (or the limit of the caller), routed_experts has one row for every
\* token of both, and resuming never meets a full context.
ResumedOutput ==
  \A r \in Requests :
    /\ phase[r] # "failed"
    /\ Len(final[r].tokens) + Len(chunk[r]) <=
         IF Limit # Unknown THEN Limit ELSE PromptLength + ResponseLength - Prompt[r]
    /\ final[r].rows = IF final[r].tokens = <<>> THEN 0 ELSE Context(r)

\* A server that computes tokens has complete weights, no cached prefix of
\* older ones, and the label of these weights.
ServesOneVersion ==
  \A r \in Requests : phase[r] = "running" =>
    LET s == server[r] IN
    /\ weights[s] = label[s]
    /\ cache[s] \subseteq {weights[s]}

Promise == INSTANCE Generation WITH
  response <- [r \in Requests |-> final[r].tokens \o chunk[r]],
  returned <- [r \in Requests |-> phase[r] = "done"]

\* Aborts and retries are invisible: the client implements one generation that
\* only grows and is returned once.
ImplementsGeneration == Promise!Spec

\* Every generation returns, whatever synchronisations interrupt it.
EveryRequestReturns == \A r \in Requests : <>(phase[r] = "done")
=============================================================================
