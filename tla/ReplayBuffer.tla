---------------------------- MODULE ReplayBuffer ----------------------------
(***************************************************************************)
(* The trainer of main_ppo_sync: PPOTrainer.fit hands the prompts of a     *)
(* round (a training step or a validation batch) to the agent loop         *)
(* workers, which put their outputs into the transfer queue; the thread of *)
(* ReplayBuffer copies the tags of the queue into the buffer, and sample   *)
(* waits until no prompt of the round is running any more.                 *)
(***************************************************************************)
EXTENDS Integers, FiniteSets

CONSTANTS
  TrainSteps,      \* total_training_steps
  ValBatches,      \* len(val_dataloader)
  PromptsPerRound, \* prompts of a batch
  Sessions,        \* rollout.n
  MaxRaised        \* bound: agent loops that raise

ASSUME ReplayAssumption ==
  /\ {TrainSteps, PromptsPerRound, Sessions} \subseteq Nat \ {0}
  /\ ValBatches \in Nat /\ MaxRaised \in Nat

\* A round is <<global step, b>>: the training batch for b = 0, else the b-th
\* validation batch after that step.
Rounds == (1..TrainSteps) \X (0..ValBatches)
Partitions == {"train", "val"}
PartitionOf(r) == IF r[2] = 0 THEN "train" ELSE "val"

\* A prompt's uid is <<round, i>>, the key of its session j <<round, i, j>>.
Uids == Rounds \X (1..PromptsPerRound)
Keys == Rounds \X (1..PromptsPerRound) \X (1..Sessions)
UidOf(k) == <<k[1], k[2]>>
KeysOf(u) == {k \in Keys : UidOf(k) = u}

VARIABLES
  fitPc,      \* where fit stands in its round
  round,
  sampled,    \* per round, batch.keys until it is cleaned up
  sessions,   \* per key, the agent loop: "none", "run", "ended", "raised"
  prompts,    \* per uid, the prompt's task: "none", "run", "finished", "failure"
  tqKeys,     \* transfer queue: the outputs, all with status "success"
  tqEnded,    \* transfer queue: the prompts with a final status
  running,    \* buffer: prompts with status "running"
  known,      \* buffer: outputs with status "success"
  listed,     \* poll thread: the list it has read
  toAdd       \* poll thread: the partitions of it still to add

fitVars == <<fitPc, round, sampled>>
workerVars == <<sessions, prompts, tqEnded>>
pollVars == <<listed, toAdd>>
replayVars == <<fitVars, workerVars, tqKeys, running, known, pollVars>>

ReplayInit ==
  /\ fitPc = "dispatch" /\ round = <<1, 0>>
  /\ sampled = [r \in Rounds |-> {}]
  /\ sessions = [k \in Keys |-> "none"]
  /\ prompts = [u \in Uids |-> "none"]
  /\ tqKeys = {} /\ tqEnded = {}
  /\ running = {} /\ known = {}
  /\ listed = [keys |-> {}, ended |-> {}] /\ toAdd = {}

-----------------------------------------------------------------------------
(* The poll thread *)

\* tq.kv_list: one snapshot of the tags in all partitions.
PollList ==
  /\ toAdd = {}
  /\ listed' = [keys |-> tqKeys, ended |-> tqEnded]
  /\ toAdd' = Partitions
  /\ UNCHANGED <<fitVars, workerVars, tqKeys, running, known>>

\* add: a prompt keeps its place and its global_steps, only its status changes.
PollAdd(p) ==
  /\ p \in toAdd
  /\ running' = running \ {u \in listed.ended : PartitionOf(u[1]) = p}
  /\ known' = known \cup {k \in listed.keys : PartitionOf(k[1]) = p}
  /\ toAdd' = toAdd \ {p}
  /\ listed' = IF toAdd = {p} THEN [keys |-> {}, ended |-> {}] ELSE listed
  /\ UNCHANGED <<fitVars, workerVars, tqKeys>>

-----------------------------------------------------------------------------
(* The agent loop workers *)

Raised == {k \in Keys : sessions[k] = "raised"}

\* One agent loop ends: it has put its output, had none, or raises.
SessionEnds(k) ==
  /\ sessions[k] = "run"
  /\ \/ /\ sessions' = [sessions EXCEPT ![k] = "ended"]
        /\ tqKeys' \in {tqKeys, tqKeys \cup {k}}
     \/ /\ Cardinality(Raised) < MaxRaised
        /\ sessions' = [sessions EXCEPT ![k] = "raised"]
        /\ UNCHANGED tqKeys
  /\ UNCHANGED <<fitVars, prompts, tqEnded, running, known, pollVars>>

\* Defect: the prompt is reported without waiting for all of its agent loops.
OutcomeEarly(u) ==
  IF \E k \in KeysOf(u) : sessions[k] = "raised" THEN "failure"
  ELSE IF \E k \in KeysOf(u) : sessions[k] # "run" THEN "finished" ELSE "run"

\* asyncio.gather: the first exception ends the wait, and the other agent
\* loops of the prompt go on.
Outcome(u) ==
  IF \E k \in KeysOf(u) : sessions[k] = "raised" THEN "failure"
  ELSE IF \A k \in KeysOf(u) : sessions[k] # "run" THEN "finished" ELSE "run"

\* Defect: a prompt with an agent loop that raised is never reported.
PromptEndsFinishedOnly(u) ==
  /\ prompts[u] = "run" /\ Outcome(u) = "finished"
  /\ prompts' = [prompts EXCEPT ![u] = Outcome(u)]
  /\ tqEnded' = tqEnded \cup {u}
  /\ UNCHANGED <<fitVars, sessions, tqKeys, running, known, pollVars>>

\* _run_prompt reports the prompt, finished or failed.
PromptEnds(u) ==
  /\ prompts[u] = "run" /\ Outcome(u) # "run"
  /\ prompts' = [prompts EXCEPT ![u] = Outcome(u)]
  /\ tqEnded' = tqEnded \cup {u}
  /\ UNCHANGED <<fitVars, sessions, tqKeys, running, known, pollVars>>

-----------------------------------------------------------------------------
(* fit *)

\* generate_sequences: the prompts are running in the buffer before a worker
\* knows of them.
Dispatch ==
  /\ fitPc = "dispatch"
  /\ running' = running \cup {u \in Uids : u[1] = round}
  /\ prompts' = [u \in Uids |-> IF u[1] = round THEN "run" ELSE prompts[u]]
  /\ sessions' = [k \in Keys |-> IF k[1] = round THEN "run" ELSE sessions[k]]
  /\ fitPc' = "sample"
  /\ UNCHANGED <<round, sampled, tqKeys, tqEnded, known, pollVars>>

\* Defect: the global step of an entry is not looked at.
OfStepAny(r) == PartitionOf(r) = PartitionOf(round)

\* The entries that sample(partition_id, global_steps) looks at.
OfStep(r) == PartitionOf(r) = PartitionOf(round) /\ r[1] = round[1]

Sample ==
  /\ fitPc = "sample"
  /\ ~\E u \in running : OfStep(u[1])
  /\ sampled' = [sampled EXCEPT ![round] = {k \in known : OfStep(k[1])}]
  /\ fitPc' = "use"
  /\ UNCHANGED <<round, workerVars, tqKeys, running, known, pollVars>>

\* The keys are read from the transfer queue, for a training step by every
\* stage of step, and the validation of the step comes before its cleanup.
Use ==
  /\ fitPc = "use"
  /\ \/ /\ round[2] = 0 /\ ValBatches > 0
        /\ round' = <<round[1], 1>>
        /\ fitPc' = "dispatch"
     \/ /\ round[2] > 0 \/ ValBatches = 0
        /\ fitPc' = "clear"
        /\ UNCHANGED round
  /\ UNCHANGED <<sampled, workerVars, tqKeys, running, known, pollVars>>

\* tq.kv_clear: of the sampled keys, not of the prompts.
ClearSampled ==
  /\ fitPc = "clear"
  /\ tqKeys' = tqKeys \ sampled[round]
  /\ fitPc' = "remove"
  /\ UNCHANGED <<round, sampled, workerVars, running, known, pollVars>>

\* replay_buffer.remove; then the next validation batch, the cleanup of the
\* training step, or the next step.
RemoveSampled ==
  /\ fitPc = "remove"
  /\ known' = known \ sampled[round]
  /\ sampled' = [sampled EXCEPT ![round] = {}]
  /\ \/ /\ round[2] > 0 /\ round[2] < ValBatches
        /\ round' = <<round[1], round[2] + 1>> /\ fitPc' = "dispatch"
     \/ /\ round[2] > 0 /\ round[2] = ValBatches
        /\ round' = <<round[1], 0>> /\ fitPc' = "clear"
     \/ /\ round[2] = 0 /\ round[1] < TrainSteps
        /\ round' = <<round[1] + 1, 0>> /\ fitPc' = "dispatch"
     \/ /\ round[2] = 0 /\ round[1] = TrainSteps
        /\ fitPc' = "done" /\ UNCHANGED round
  /\ UNCHANGED <<workerVars, tqKeys, running, pollVars>>

FitStep == Dispatch \/ Sample \/ Use \/ ClearSampled \/ RemoveSampled
WorkerStep == (\E k \in Keys : SessionEnds(k)) \/ (\E u \in Uids : PromptEnds(u))
PollStep == PollList \/ \E p \in Partitions : PollAdd(p)

ReplayNext == FitStep \/ WorkerStep \/ PollStep

ReplaySpec == ReplayInit /\ [][ReplayNext]_replayVars

-----------------------------------------------------------------------------
(* Properties *)

\* When sample returns, it returns every output of every prompt of the round
\* that finished, although outputs and final status reach the buffer only
\* through lists that the poll thread took at some earlier moment.
SampleComplete ==
  fitPc = "use" =>
    {k \in tqKeys : k[1] = round /\ prompts[UidOf(k)] = "finished"} \subseteq sampled[round]

\* What sample returns can be read: the cleanup of earlier rounds has removed
\* none of it from the transfer queue.
SampleReadable == fitPc = "use" => sampled[round] \subseteq tqKeys

\* A round that has been dispatched gets its batch, also when agent loops raise.
SampleReturns == fitPc = "sample" ~> fitPc = "use"
=============================================================================
