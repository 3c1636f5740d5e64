------------------------------ MODULE FullyAsync ------------------------------
(***************************************************************************)
(* Fully asynchronous training: FullyAsyncRollouter and FullyAsyncTrainer  *)
(* run concurrently, coupled by the message queue and by reset_staleness;  *)
(* FullyAsyncTaskRunner waits for both and clears the queue.               *)
(***************************************************************************)
EXTENDS FullyAsyncRollouter, FullyAsyncTrainer

vars == <<shared, rollouterVars, trainerVars>>

Init == SharedInit /\ RollouterInit /\ TrainerInit

\* _run_training_loop: both futures are done; its finally clears the queue.
RunnerClear ==
  /\ RollouterDone /\ TrainerDone
  /\ queue # <<>>
  /\ queue' = <<>>
  /\ stage' = [s \in Samples |-> IF stage[s] = "queued" THEN "spent" ELSE stage[s]]
  /\ UNCHANGED <<dropped_samples, reset, rollouterVars, trainerVars>>

\* Both actors have returned: nothing is left to do.
Finished ==
  /\ RollouterDone /\ TrainerDone
  /\ queue = <<>>
  /\ UNCHANGED vars

Next ==
  \/ RollouterNext /\ UNCHANGED trainerVars
  \/ TrainerNext /\ UNCHANGED rollouterVars
  \/ RunnerClear
  \/ Finished

\* Every coroutine whose await is satisfied is run by its event loop, and a
\* generation request is eventually answered.  Nothing forces a generation
\* to fail.
Fairness ==
  /\ WF_vars(ProcStep /\ UNCHANGED trainerVars)
  /\ WF_vars(FeedStep /\ UNCHANGED trainerVars)
  /\ WF_vars(MonStep /\ UNCHANGED trainerVars)
  /\ WF_vars(MainStep /\ UNCHANGED trainerVars)
  /\ WF_vars(ResetStep /\ UNCHANGED trainerVars)
  /\ \A s \in Samples : WF_vars(TaskStep(s) /\ UNCHANGED trainerVars)
  /\ WF_vars(TrainerNext /\ UNCHANGED rollouterVars)
  /\ WF_vars(RunnerClear)

Spec == Init /\ [][Next]_vars /\ Fairness

-----------------------------------------------------------------------------
(* Properties *)

ProcStates == {"top", "check", "pause", "drain", "get", "limit", "limitWait",
               "submit", "finish", "finishWait", "done", "failed"}

\* The shape of the state; in particular the message queue never exceeds
\* max_queue_size and the rollouter never has more than max_concurrent_samples
\* entries in active_tasks.
TypeOK ==
  /\ stage \in [Samples -> Stages]
  /\ queue \in Seq(Samples \cup {None}) /\ Len(queue) <= MaxRequired
  /\ dropped_samples \in Nat
  /\ reset \in {"idle", "called", "query", "assign"}
  /\ pending_queue \in Seq(Samples \cup {None})
  /\ Len(pending_queue) <= PendingCapacity
  /\ global_steps \in Samples
  /\ feedPc \in {"start", "put", "end", "done", "cancelled"}
  /\ procPc \in ProcStates /\ procQueueSize \in Nat
  /\ monPc \in {"head", "sleep", "check", "resume", "done"} /\ monQueueSize \in Nat
  /\ mainPc \in {"wait", "sentinel", "stop", "done"} /\ running \in BOOLEAN
  /\ active_tasks \subseteq Samples
  /\ Cardinality(active_tasks) <= MaxConcurrent
  /\ staleness_samples \in Nat
  /\ paused \in BOOLEAN /\ resume_event \in BOOLEAN
  /\ lock \in {"free", "proc", "reset"}
  /\ resetActive \in Nat /\ resetQueueSize \in Nat
  /\ trainPc \in {"collect", "train", "sync", "reset", "save", "done"}
  /\ collected \in 0..RequiredSamples
  /\ local_trigger_step \in 1..TriggerStep
  /\ current_param_version \in Nat /\ trained \in Nat
  /\ stopping \in BOOLEAN
  /\ last_ckpt_version \in Nat /\ savedTrained \in Nat

\* Samples charged to the current parameter version: taken from pending_queue
\* and not yet written off by a reset_staleness.
Outstanding == In({"hand", "gen", "ready", "queued", "taken", "lost"})

Taken == In({"taken"})
Queued == In({"queued"})

\* Samples that a reset_staleness carries over into the next version.
Carried == In({"hand", "gen", "ready", "queued"})

\* _should_pause_generation keeps a version within max_required_samples, but for
\* the one sample whose increment reset_staleness may overwrite.
BudgetBound == Cardinality(Outstanding) <= MaxRequired + 1

\* When the weights of a version are published, at most
\* staleness_threshold * required_samples * trigger_parameter_sync_step samples
\* (and the one in the processor's hand) of older weights are carried over.
CarryOverBound ==
  [][ResetEnd /\ ~stopping => Cardinality(Carried) <= StaleBudget + 1]_vars

\* With staleness_threshold = 0 the rollouter is exactly on-policy: nothing
\* generated under the old weights survives a synchronisation.
OnPolicy ==
  [][ResetEnd /\ ~stopping /\ StaleBudget = 0 => Carried = {}]_vars

\* A full queue costs at most one sample per parameter version.
DropBound == Cardinality(In({"lost"})) <= 1

\* self.paused and _resume_event never contradict each other, and the processor
\* never submits while paused (its wait before the submission is never needed).
PauseConsistent ==
  /\ paused = ~resume_event
  /\ paused => procPc \in {"pause", "drain", "failed"}

\* The end signal is in the queue until the trainer takes it: no later put,
\* not even of tasks that outlive a failed processor, displaces it.
SentinelKept ==
  mainPc \in {"stop", "done"} /\ ~stopping =>
    \E i \in 1..Len(queue) : queue[i] = None

\* Without a failure, when the trainer stops it has trained on every full batch
\* of the samples that were not dropped.
NothingLeftBehind ==
  stopping /\ In({"failed"}) = {} =>
    trained = (TotalRolloutSteps - dropped_samples) \div RequiredSamples

\* load_checkpoint: global_steps - 1, the training steps that it takes a
\* checkpoint to hold.
ResumeSteps == last_ckpt_version * TriggerStep

\* load_checkpoint knows a checkpoint by its version alone.  One that save_freq
\* asked for holds the training steps that load_checkpoint resumes after, neither
\* more nor fewer.  One that expiration or the end of the run forced between two
\* versions holds up to trigger_parameter_sync_step - 1 steps more, which
\* load_checkpoint does not count; it never holds fewer.
CheckpointLabel ==
  /\ savedTrained - ResumeSteps \in 0..(TriggerStep - 1)
  /\ SaveFreq > 0 /\ last_ckpt_version % SaveFreq = 0 => savedTrained = ResumeSteps

\* fit's last _fit_save_checkpoint(force=True) leaves no finished version
\* without a checkpoint.
StopSavesVersion ==
  TrainerDone /\ SaveFreq > 0 => last_ckpt_version = current_param_version

\* The dataloader position that save_checkpoint writes is ahead of the trainer;
\* a restart from it skips the prompt that the feed has drawn and waits to put,
\* the pending queue, and what the staleness budget and the one sample with an
\* overwritten increment allow.
ResumeLossBound ==
  Cardinality(In({"drawn", "pending", "hand", "gen", "ready", "queued"})) <=
    1 + PendingCapacity + MaxRequired + 1

\* "rollout continues to generate and trainer continues to consume": a trainer
\* that collects gets its batch or the end signal.
ContinuesToConsume == trainPc = "collect" ~> trainPc # "collect"

\* The processor is in its loop: it has met neither the end signal nor an
\* exception.
InLoop == procPc \notin {"finish", "finishWait", "done", "failed"}

\* The trainer waits, and nothing is queued or under way that it could get.
Starved ==
  /\ trainPc = "collect" /\ queue = <<>> /\ InLoop
  /\ In({"hand", "gen", "ready", "failed"}) = {}

\* "rollout continues to generate": _should_pause_generation lets a starved
\* trainer have another sample.  It need not when tasks that are finished and not
\* yet collected fill max_required_samples, which takes more of them than the
\* staleness budget.
RoomWhenStarved == MaxConcurrent <= StaleBudget /\ Starved => staleness_samples < MaxRequired

\* The checkpoint conditions list "It's the last training step": when training
\* is over, the last checkpoint holds the last training step.
LastStepSaved == TrainerDone /\ SaveFreq > 0 => savedTrained = trained

\* Both actors return.
Termination == <>(RollouterDone /\ TrainerDone)

-----------------------------------------------------------------------------
(* The inductive invariant behind BudgetBound, CarryOverBound and OnPolicy. *)

\* Concurrency: a running task is in active_tasks; room is left for a
\* submission.
TaskInv ==
  /\ Running \subseteq active_tasks
  /\ procPc = "submit" => Cardinality(active_tasks) < MaxConcurrent

\* The processor holds at most one sample, and only past pending_queue.get.
HandInv ==
  /\ \A s, t \in Samples : stage[s] = "hand" /\ stage[t] = "hand" => s = t
  /\ \A s \in Samples :
       stage[s] = "hand" => procPc \in {"limit", "limitWait", "submit", "failed"}

\* pending_queue holds fed samples once each; the feed has drawn at most one
\* prompt more, and the rest of the data is unfed.
FeedInv ==
  /\ \A i \in 1..Len(pending_queue) :
       pending_queue[i] # None => stage[pending_queue[i]] = "pending"
  /\ \A i, j \in 1..Len(pending_queue) :
       pending_queue[i] = pending_queue[j] /\ pending_queue[i] # None => i = j
  /\ \A s \in Samples :
       stage[s] = "drawn" => s = global_steps /\ feedPc \in {"put", "cancelled"}
  /\ feedPc = "start" => \A s \in Samples : s >= global_steps => stage[s] = "unfed"
  /\ feedPc = "put" =>
       /\ stage[global_steps] = "drawn"
       /\ \A s \in Samples : s > global_steps => stage[s] = "unfed"

\* The message queue holds exactly the samples in stage "queued", once each.
QueueInv ==
  /\ \A i \in 1..Len(queue) : queue[i] # None => stage[queue[i]] = "queued"
  /\ \A i, j \in 1..Len(queue) : queue[i] = queue[j] /\ queue[i] # None => i = j
  /\ \A s \in Samples : stage[s] = "queued" => \E i \in 1..Len(queue) : queue[i] = s

\* Who holds the lock across an await, and when reset_staleness is open.
LockInv ==
  /\ lock = "proc" <=> procPc \in {"limitWait", "finishWait"}
  /\ lock = "reset" <=> reset \in {"query", "assign"}
  /\ reset # "idle" => trainPc = "reset"

\* While reset_staleness is open active_tasks cannot change, so what it will
\* assign covers every task and every sample queued by then.
ResetInv ==
  /\ reset \in {"query", "assign"} => resetActive = Cardinality(active_tasks)
  /\ reset = "assign" => Cardinality(Queued \ active_tasks) <= resetQueueSize

\* The version's samples that the trainer has taken, all of them when it syncs.
SyncOpen == trainPc = "sync" \/ reset # "idle"

TakenInv ==
  /\ trainPc = "collect" => collected < RequiredSamples
  /\ trainPc = "train" => collected = RequiredSamples
  /\ trainPc \in {"sync", "reset", "save"} => collected = 0
  /\ trainPc \in {"sync", "reset"} => local_trigger_step = 1
  /\ ~stopping => Cardinality(Taken) =
       IF SyncOpen THEN SamplesPerVersion
       ELSE RequiredSamples * (local_trigger_step - 1) + collected

\* staleness_samples covers all but one of the outstanding samples.
BudgetInv ==
  /\ Cardinality(Outstanding) <= staleness_samples + 1
  /\ Cardinality(Outstanding) <= MaxRequired + 1
  /\ procPc = "get" => Cardinality(Outstanding) <= MaxRequired

\* With no staleness budget it covers all of them.
OnPolicyInv ==
  StaleBudget = 0 /\ ~stopping =>
    /\ Cardinality(Outstanding) <= staleness_samples
    /\ Cardinality(Outstanding) <= MaxRequired
    /\ procPc = "get" => Cardinality(Outstanding) < MaxRequired

\* Every conjunct holds in every reachable state, and together they are
\* preserved by every step: the staleness accounting of the rollouter is sound
\* for any interleaving of the processor, the tasks, the trainer and
\* reset_staleness.
IInv ==
  /\ TypeOK /\ PauseConsistent /\ TaskInv /\ HandInv /\ FeedInv /\ QueueInv
  /\ LockInv /\ ResetInv /\ TakenInv /\ BudgetInv /\ OnPolicyInv
=============================================================================
