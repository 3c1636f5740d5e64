--------------------------- MODULE FullyAsyncState ---------------------------
(***************************************************************************)
(* What FullyAsyncRollouter and FullyAsyncTrainer share: the parameters of *)
(* the run, the message queue between them (at the level of SampleQueue),  *)
(* the reset_staleness call and, for every prompt, where it is now.        *)
(***************************************************************************)
EXTENDS Integers, FiniteSets, BoundedDeque

CONSTANTS
  RequiredSamples,    \* required_samples: prompts of one training step
  TriggerStep,        \* trigger_parameter_sync_step: training steps per version
  ThresholdNum,       \* staleness_threshold = ThresholdNum / ThresholdDen
  ThresholdDen,
  ServerSlots,        \* len(get_replicas()) * 16
  TotalRolloutSteps,  \* total_rollout_steps
  PendingCapacity,    \* pending_queue's maxsize (128 in the code)
  None,               \* the None put into a queue as the end signal
  TestFreq,           \* trainer.test_freq
  SaveFreq,           \* trainer.save_freq; 0 disables checkpoints
  MaxFailures         \* bound: generations that raise

ASSUME ParameterAssumption ==
  /\ RequiredSamples \in Nat \ {0}
  /\ TriggerStep \in Nat \ {0}
  /\ ThresholdNum \in Nat /\ ThresholdDen \in Nat \ {0}
  /\ ServerSlots \in Nat \ {0}
  /\ TotalRolloutSteps \in Nat \ {0}
  /\ PendingCapacity \in Nat \ {0}
  /\ TestFreq \in Nat \ {0} /\ SaveFreq \in Nat
  /\ MaxFailures \in Nat

ASSUME NoneAssumption == None \notin 1..TotalRolloutSteps

\* A prompt is named by the global_steps value it is fed under.
Samples == 1..TotalRolloutSteps

\* Samples the trainer consumes between two parameter synchronisations.
SamplesPerVersion == RequiredSamples * TriggerStep

\* int(samples * threshold): how many samples may be generated ahead.
StaleBudget == (ThresholdNum * SamplesPerVersion) \div ThresholdDen

\* max_required_samples, which is also max_queue_size.
MaxRequired == SamplesPerVersion + StaleBudget

\* max_concurrent_samples
MaxConcurrent == IF ServerSlots < MaxRequired THEN ServerSlots ELSE MaxRequired

VARIABLES
  stage,  \* where each prompt is
  queue,  \* MessageQueue.queue
  dropped_samples,  \* MessageQueue.dropped_samples
  reset   \* progress of the trainer's reset_staleness call

mqVars == <<queue, dropped_samples>>
shared == <<stage, mqVars, reset>>

\* "unfed": still in the dataloader; "drawn": taken from it by the feed, which
\* awaits pending_queue.put; "pending": in pending_queue; "hand": held by the
\* processor between pending_queue.get and the submission; "gen": its
\* task awaits the agent loop; "ready": generated, its task awaits put_sample;
\* "queued": in the message queue; "taken": popped by the trainer for the
\* current version; "lost": dropped from the full queue in the current version;
\* "failed": its task raised; "spent": taken or lost before the last reset.
Stages == {"unfed", "drawn", "pending", "hand", "gen", "ready", "queued", "taken",
           "lost", "failed", "spent"}

In(S) == {s \in Samples : stage[s] \in S}

\* Tasks of active_tasks that are not done().
Running == In({"gen", "ready"})

\* put_sample(x): x is queued; the sample it displaces, if any, is lost.
PutSample(x) ==
  /\ queue' = PushDropOldest(queue, MaxRequired, x)
  /\ dropped_samples' = dropped_samples + (IF IsFull(queue, MaxRequired) THEN 1 ELSE 0)
  /\ stage' = [s \in Samples |->
                IF IsFull(queue, MaxRequired) /\ s = Head(queue) THEN "lost"
                ELSE IF s = x THEN "queued"
                ELSE stage[s]]

SharedInit ==
  /\ stage = [s \in Samples |-> "unfed"]
  /\ queue = <<>>
  /\ dropped_samples = 0
  /\ reset = "idle"
=============================================================================
