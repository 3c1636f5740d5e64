--------------------------- MODULE ToolAgentLoop ---------------------------
(***************************************************************************)
(* ToolAgentLoop.run: one multi-turn trajectory as the state machine       *)
(* PENDING, GENERATING, PROCESSING_TOOLS, TERMINATED.  A token is its      *)
(* origin: the prompt, a tool, or the parameter version that generated it. *)
(* Generation may be resumed under new weights (PartialRollout), so the    *)
(* tokens of one turn may be of several versions.                          *)
(***************************************************************************)
EXTENDS Integers, Sequences, SequencesExt

CONSTANTS
  PromptLength,       \* rollout.prompt_length
  ResponseLength,     \* rollout.response_length
  MaxAssistantTurns,  \* 0: no limit
  MaxUserTurns,       \* 0: no limit
  MaxParallelCalls,
  MaxCalls,           \* bound: tool calls in one answer
  MaxToolTokens,      \* bound: tokens of the tool messages of one turn
  MinTokens,          \* least tokens of one generation
  LastVersion,        \* bound: parameter versions
  PromptToken, ToolToken

ASSUME ToolAssumption ==
  /\ {PromptLength, ResponseLength, MaxParallelCalls, MaxToolTokens} \subseteq Nat \ {0}
  /\ {MaxAssistantTurns, MaxUserTurns, MaxCalls, MinTokens, LastVersion} \subseteq Nat
  /\ PromptToken # ToolToken /\ {PromptToken, ToolToken} \cap Nat = {}

VARIABLES
  agentState,
  ids,          \* prompt_ids: the prompt and everything appended to it
  mask,         \* response_mask
  logprobs,     \* response_logprobs
  userTurns, assistantTurns,
  toolCalls,    \* how many calls the last answer holds
  extraFields,  \* min_global_steps and max_global_steps, or <<>>
  version       \* the parameter version of the servers

toolVars == <<agentState, ids, mask, logprobs, userTurns, assistantTurns, toolCalls,
              extraFields, version>>

Copies(x, n) == [i \in 1..n |-> x]

ToolInit ==
  /\ agentState = "pending"
  /\ ids = <<>> /\ mask = <<>> /\ logprobs = <<>>
  /\ userTurns = 0 /\ assistantTurns = 0 /\ toolCalls = 0
  /\ extraFields = <<>>
  /\ version = 0

-----------------------------------------------------------------------------
\* A weight synchronisation between two turns.
Synchronise ==
  /\ agentState = "tools" /\ version < LastVersion
  /\ version' = version + 1
  /\ UNCHANGED <<agentState, ids, mask, logprobs, userTurns, assistantTurns, toolCalls, extraFields>>

HandlePending ==
  /\ agentState = "pending"
  /\ \E n \in 1..PromptLength : ids' = Copies(PromptToken, n)
  /\ agentState' = "generating"
  /\ UNCHANGED <<mask, logprobs, userTurns, assistantTurns, toolCalls, extraFields, version>>

\* Defect: the fields of the first turn are kept.
MergedFieldsFirst(first, last) == IF extraFields = <<>> THEN <<first, last>> ELSE extraFields

\* Later turns only raise max_global_steps, and not to 0.
MergedFields(first, last) ==
  IF extraFields = <<>> THEN <<first, last>>
  ELSE IF last # 0 THEN <<extraFields[1], last>> ELSE extraFields

\* Where a turn leads that left a mask of length n and c tool calls.
AfterGeneration(n, c) ==
  IF \/ n >= ResponseLength
     \/ MaxAssistantTurns > 0 /\ assistantTurns + 1 >= MaxAssistantTurns
     \/ MaxUserTurns > 0 /\ userTurns >= MaxUserTurns
     \/ c = 0
  THEN "terminated" ELSE "tools"

\* The server gives out as many tokens as the two lengths leave room for; the
\* versions of the tokens of one turn never decrease.
HandleGenerating ==
  /\ agentState = "generating"
  /\ \E n \in MinTokens..(PromptLength + ResponseLength - Len(ids)),
        last \in version..LastVersion, c \in 0..MaxCalls : \E switch \in 0..n :
       /\ ids' = ids \o Copies(version, switch) \o Copies(last, n - switch)
       /\ mask' = mask \o Copies(1, n)
       /\ logprobs' = logprobs \o Copies("lp", n)
       /\ extraFields' = MergedFields(version, last)
       /\ version' = last
       /\ toolCalls' = c
       /\ agentState' = AfterGeneration(Len(mask) + n, c)
  /\ assistantTurns' = assistantTurns + 1
  /\ UNCHANGED userTurns

\* Defect: the mask of a tool message that does not fit is appended.
ToolsOverflowMasked(t) ==
  /\ agentState' = "terminated"
  /\ mask' = mask \o Copies(0, t)
  /\ UNCHANGED <<ids, logprobs, userTurns>>

\* Tool messages that do not fit end the trajectory and are dropped.
ToolsOverflow(t) ==
  /\ agentState' = "terminated"
  /\ UNCHANGED <<ids, mask, logprobs, userTurns>>

\* asyncio.gather over at most max_parallel_calls calls: an unknown tool, bad
\* arguments and an exception of the tool give a message as well.
HandleProcessingTools ==
  LET calls == IF toolCalls < MaxParallelCalls THEN toolCalls ELSE MaxParallelCalls IN
  /\ agentState = "tools"
  /\ \E t \in calls..MaxToolTokens :
       IF Len(mask) + t >= ResponseLength
       THEN ToolsOverflow(t)
       ELSE /\ ids' = ids \o Copies(ToolToken, t)
            /\ mask' = mask \o Copies(0, t)
            /\ logprobs' = IF logprobs # <<>> THEN logprobs \o Copies("zero", t) ELSE logprobs
            /\ userTurns' = userTurns + 1
            /\ agentState' = "generating"
  /\ UNCHANGED <<assistantTurns, toolCalls, extraFields, version>>

Terminated == agentState = "terminated" /\ UNCHANGED toolVars

ToolNext ==
  Synchronise \/ HandlePending \/ HandleGenerating \/ HandleProcessingTools \/ Terminated

ToolSpec == ToolInit /\ [][ToolNext]_toolVars

-----------------------------------------------------------------------------
(* The output *)

Truncated(s) == SubSeq(s, 1, IF Len(s) < ResponseLength THEN Len(s) ELSE ResponseLength)

\* prompt_ids[-len(response_mask):], which is everything for an empty mask.
ResponseIds ==
  Truncated(IF mask = <<>> THEN ids ELSE SubSeq(ids, Len(ids) - Len(mask) + 1, Len(ids)))

PromptIds == SubSeq(ids, 1, Len(ids) - Len(mask))

\* The output of a trajectory: prompt and response are told apart exactly, mask
\* and log-probabilities have an entry for every token of the response, and the
\* mask selects the generated ones, wherever the trajectory ended.
ResponseAligned ==
  agentState = "terminated" =>
    LET resp == ResponseIds IN
    /\ ToSet(PromptIds) = {PromptToken}
    /\ Len(resp) = Len(Truncated(mask)) /\ Len(resp) = Len(Truncated(logprobs))
    /\ \A i \in DOMAIN resp :
         IF mask[i] = 1 THEN resp[i] \notin {PromptToken, ToolToken} /\ logprobs[i] = "lp"
                        ELSE resp[i] = ToolToken /\ logprobs[i] = "zero"

\* The version window that a trajectory reports covers each of its generated
\* tokens, over all its turns and all interruptions.
TurnWindow ==
  agentState = "terminated" =>
    \A i \in DOMAIN ids : ids[i] \notin {PromptToken, ToolToken} =>
      extraFields[1] <= ids[i] /\ ids[i] <= extraFields[2]
=============================================================================
