# Verification of the coordination core of LLM-Fusion (verl)

TLA+ models, TLC runs and TLAPS proofs for the parts of this repository in
which concurrent processes share state, or a crash can hit between two steps:
the fully asynchronous trainer, the serving path with its interruptions, the
weight transfer, the replay buffer, checkpoints and restarts, the tool agent
loop and the rate limiter. `PROJECT.json` maps every definition to the lines it
models.

## 1. Inventory

The repository is a reinforcement learning trainer for language models. Most of
its lines are numerical (models, losses, kernels, engines), wrappers of external
systems (vLLM, SGLang, Megatron, FSDP, Ray), scoring functions or sequential
scripts. What is hard to test is the coordination below.

| Component | State | Operations | Talks to |
|---|---|---|---|
| `MessageQueue` | `queue` (deque, `max_queue_size`), `val_queue`, `running`, counters, one lock and one condition | `put_sample`, `get_sample` (blocks), `clear_queue`, `shutdown`, validation values | rollouter, trainer, task runner |
| `FullyAsyncRollouter` | `pending_queue`, `active_tasks`, `staleness_samples`, `paused`, `_resume_event`, `lock` | coroutines feed, processor, monitor, main; one task per prompt; `reset_staleness`; saves | puts into the queue; called by the trainer |
| `FullyAsyncTrainer` | `current_param_version`, `local_trigger_step`, `last_ckpt_version` | `fit`: collect, train, publish, validate, save | queue, rollouter, replicas |
| `FullyAsyncTaskRunner` | two futures | starts both actors, waits | all of the above |
| `GlobalRequestLoadBalancer`, `LLMServerClient` | in-flight counters, pool, LRU routes | `acquire_server`, `release_server` (fire and forget), `add_servers`, `remove_servers` | agent loops, replica manager |
| hybrid replicas and `_trainer_side_validate` | which replicas are awake, paused, in the pool | wake, abort, add, resume, validate, remove, sleep | load balancer, servers |
| `FullyAsyncLLMServerClient`, `CheckpointEngineManager`, vLLM server | partial output of a request; per server weights, `global_steps`, caches, paused | generate with retries; abort, transfer, label, resume | one another |
| NCCL checkpoint engine, bucketed weight transfer | two buffers per side, one shared buffer, queued device copies | split, pack, broadcast, merge, hand over | trainer, rollout worker, inference worker |
| `ReplayBuffer`, agent loop workers of `main_ppo_sync.py` | transfer queue, tags in the buffer, snapshot of the poll thread | dispatch, poll, sample, clear, remove | trainer thread, poll thread, workers |
| trainers' epoch loops, checkpoint managers | step, epoch, dataloader position; folders, parts, tracker file, saved paths | draw, train, save, retention, restart | file system |
| `ToolAgentLoop` | token list, mask, log-probabilities, turn counters, version window | one conversation as a state machine | client, tools |
| `AsyncTokenBucket` | `tokens`, `last_update`, lock | `acquire`, also of more than `max_tokens` | callers of external services |
| one-step-off-policy trainer, teacher loop, `DataProto`, balancing, engines, models, single controller, tools | none that several processes share | | |

Hard behaviours, each listed at its line under `hazards`:

- **State read before an await and used after it**: `reset_staleness`, the pause
  test of the processor, the resume test of the monitor, the snapshot that the
  poll thread adds to the replay buffer.
- **An increment outside the lock**, and a lock held across a wait.
- **A queue that drops silently**, into which the end signal is put as well.
- **Late messages**: releases that reach a load balancer whose pool has changed;
  agent loops that put outputs after their prompt was reported as failed.
- **Interruptions**: a synchronisation aborts requests at any token, before the
  first one, or between a call and its admission; they are resumed elsewhere.
- **Memory in use while it changes hands**: buffers of the weight transfer with
  copies still queued on the device; replicas that sleep.
- **Crashes** in the middle of a save that also removes older checkpoints, with
  a tracker file that is opened and written in two steps.
- **Boundaries**: a dataloader saved at the end of an epoch, a weight that does
  not fit into a buffer, an empty last bucket, a full context, an answer beyond
  the response length, a demand beyond the capacity of a bucket.

What makes each component correct is stated by its properties, in section 3.

## 2. Modules

```
BoundedDeque             drop-oldest deque (two operators)
  SampleQueue            what the queue promises: atomic, no waiting
  MessageQueue           the actor: lock, condition, parked calls; implements SampleQueue
    MessageQueueProofs
  FullyAsyncState        parameters, the queue at the level of SampleQueue, stage of every prompt
    FullyAsyncRollouter    FullyAsyncTrainer
      FullyAsync         composition, fairness, properties, inductive invariant
        FullyAsyncProofs   staleness accounting; the end of a run: drops, end signal, checkpoints
LoadBalancer             load balancer, clients, replica manager
  HybridValidation       composes it with the engines and the trainer's validation script
    LoadBalancerProofs   both
Generation               what the client promises: one uninterrupted generation
PartialRollout           client, servers, synchronisation; implements Generation
  PartialRolloutProofs
CheckpointResume  ReplayBuffer    the synchronous trainers
  SyncTrainerProofs      both
ToolAgentLoop
  ToolAgentLoopProofs
WeightTransfer
  WeightTransferProofs
TokenBucket
  TokenBucketProofs
MCMessageQueue, MCFullyAsync, MCLoadBalancer, MCPartialRollout, MCComponents    for TLC
```

Definitions marked "Defect" are not part of a specification. Each is the
definition after it with one plausible bug, and shows that a property depends on
that code.

### MessageQueue

A method's critical section runs under one asyncio lock and only `get_sample`
awaits inside it, so each method is one action. `call[c]` is the state of one
open `get_sample` call: `"idle"`, `"waiting"` on the condition, or `"woken"` by
`notify_all` and waiting for the lock. `Resume` re-tests the loop condition, as
the `while` does. `SampleQueue` has neither calls nor wakeups; the refinement
mapping is the identity on `queue`, `running` and `reply`. `MaxProduced` and
`MaxValidate` bound the puts.

### FullyAsync

The rollouter's coroutines share an event loop, so one action is the code from
one await to the next. Awaits that can be long are control points: `procPc`,
`monPc`, `mainPc`, `feedPc` and `reset` say where each coroutine is. A remote
query takes two steps, the read at the queue and the use of the answer
(`ProcTop` / `ProcCheck`, `MonWake` / `MonCheck`, `ResetQuery` / `ResetEnd`).
`lock` has an owner only where the code keeps it across an await.

Every prompt is in exactly one `stage`: unfed, drawn by the feed from the
stateful dataloader (whose saved position then counts it) and not yet put,
pending, in the processor's hand, generating, ready to be put, queued, taken by the trainer, lost from the
full queue, failed, or spent (taken or lost before the last reset). This is the
model's bookkeeping; `active_tasks`, `pending_queue` and `queue` are kept beside
it because the code may disagree with it (a finished task stays in
`active_tasks` until it is collected). The feed goes from one `await pending_queue.put` to
the next: `FeedStart` draws the first prompt, `FeedPut` puts one and draws the
next. What a restart would skip is the drawn and unconsumed part, which
`ResumeLossBound` bounds.

Parameters are those of the configuration: `RequiredSamples`, `TriggerStep`
(`trigger_parameter_sync_step`), the threshold as a fraction, `ServerSlots` (16
per replica), `TotalRolloutSteps`, `PendingCapacity` (128 in the code),
`TestFreq`, `SaveFreq`. `MaxRequired` and `MaxConcurrent` follow
`set_max_required_samples`.

Abstractions: the compute phases of `fit_step` are one step; the weight
transfer is one step (`PartialRollout` and `WeightTransfer` look inside);
`int(required_samples * (threshold + 1) * trigger)` is the exact floor, where
Python computes it in floating point; `TestFreq` only decides whether the last
`_fit_update_weights` is called; `should_save_ckpt_esi` answers anything.
`FIRST_COMPLETED` returns any non-empty set of finished tasks in the drain,
where a task may finish between the wait and the lock.

### LoadBalancer and HybridValidation

Each remote method of the load balancer is atomic. A conversation holds at most
one lease; its end (`Finish`, the `finally` clause) sends a release that arrives
in any later step, after its server was removed or after it came back.
`AddReplicas` and `RemoveReplicas` are the manager's methods with their filters
on `alive_replicas`. `routes` is the LRU cache in order of use. `min` returns the
first minimal server; the model allows any minimal server. `last`, `since` and
`clean` are history for the properties. `MaxInTransit` bounds the releases of one
server that are under way.

`HybridValidation` runs the same balancer under the three phases of
`_trainer_side_validate`. `Script` is the sequence of its calls; a call on
several servers is a gather and reaches them in any order. `call[r]` tells a
request that has been sent to a server from one that its engine runs: a paused
engine admits none, a sleeping one raises. Each of its steps is a step of
`LoadBalancer` or leaves its variables alone (proved:
`ValidationImplementsBalancer`), so the theorems about the balancer hold here
too.

### PartialRollout and Generation

A token is the version of the weights that computed it. A request calls a
server (any: the routes are the subject of `LoadBalancer`), waits for admission,
and computes token by token. A synchronisation takes every server through
`due`, `aborted`, `receiving`, `received`, `labelled`, `serving`; the manager's
barriers (all aborted before the process group is built, all received and
finalized before any is resumed) are guards over all servers. `Abort` answers
the requests of a server with what they have; an answer without tokens may come
without outputs, in which case the server sends no `global_steps`. `Merge` is
the body of the client's loop.

`Generation` is the promise in the class comment, "making rollout interruption
invisible to the AgentLoop": a response that grows token by token, with versions
that never decrease, and is returned once. The mapping joins the merged tokens
and those of the call under way.

Constants cover both branches of the code: `Resume` is `partial_rollout`,
`Pausing` says whether the engine has `pause_generation`, `Limit` is a caller's
`max_tokens`. The run uses the branch of the fully asynchronous trainer.

### CheckpointResume

The epoch loop, the save and the restart of three programs, told apart by
`program`: `RayPPOTrainer` (actor and critic, boundary test at the restart),
`PPOTrainer` of `main_ppo_sync` (no boundary test) and the SFT trainers (one
part, written into the step's folder itself, tracker renamed into place). A save
is up to eleven steps, and a crash may come between any two. `lineage` and `batches`
are history: which batches a model was trained on, in memory and per checkpoint.
The in-memory list `previous_saved_paths` is empty after a restart, as in the
code, so older folders outlive it.

### ReplayBuffer

Trainer thread, poll thread and agent loop workers interleave. A round is a
training step or one validation batch of it, with the same `global_steps`; the
poll thread takes one snapshot of the transfer queue and adds it partition by
partition; `asyncio.gather` returns at the first exception and leaves the other
agent loops running. The transfer queue is external and behaves as an atomic
map.

### WeightTransfer

Two stages in one model: the double-buffered broadcast of the NCCL engine, and
the shared buffer to the inference worker. Memory is modelled byte by byte
(sizes are small numbers), because the properties are about which bytes are in a
buffer when it is read: copies issued with `non_blocking=True` are entries of
`stream` that run later and in order, `synchronize` is the guard
`stream = <<>>`. A broadcast delivers what the sender's buffer holds when it
ends.

### ToolAgentLoop, TokenBucket

A token of the agent loop is its origin: the prompt, a tool, or a version of the
weights; the three limits, the parallel calls and every way to end are kept.
`MinTokens` is the least number of tokens of an answer. In `TokenBucket` time is
counted in the unit in which one token accrues; a sleeper wakes at its time or
later, so delays of the event loop are included.

## 3. Runs

| Run | Instance | Checks | Distinct states |
|---|---|---|---|
| `message_queue` | 2 consumers, capacity 2, 4 puts | `TypeOK`, `NoLostWakeup`, `Conservation`, `ImplementsSampleQueue`, `ShutdownReleases`, `BlockedIsServed` | 11 838 |
| `streaming` | 2 steps per version, threshold 1/2, 2 tasks, 8 prompts, 1 failure, saves every 2 versions | `BudgetBound`, `NothingLeftBehind`, `DropBound`, `SentinelKept`, `IInv`, `CheckpointLabel`, `StopSavesVersion`, `ResumeLossBound` | 3 625 922 |
| `on_policy` | threshold 0, batches of 2, 2 steps per version, 4 tasks, 6 prompts | `OnPolicy` | 226 957 |
| `liveness` | threshold 1, 1 task, 6 prompts, 1 failure | `CarryOverBound`, `ContinuesToConsume`, `Termination` | 112 357 |
| `load_balancer` | 3 conversations, 1 + 2 servers, cache of 2, validations without end | `TypeOK`, `NeverOvercounted`, `ExactWhenClean`, `StickySession`, `RoutedAwake`, `SleepsIdle` | 647 689 |
| `serving` | 2 requests with different prompts, 2 servers, 2 synchronisations | `VersionWindow`, `ResumedOutput`, `ServesOneVersion`, `ImplementsGeneration`, `EveryRequestReturns` | 258 960 |
| `components` | see below | `EveryBatchOnce`, `LatestComplete`, `TrainingCompletes`, `SampleComplete`, `SampleReadable`, `SampleReturns`, `WeightsIntact`, `TransferCompletes`, `ResponseAligned`, `TurnWindow`, `RateHeld` | 380 067 |
| `stall` | threshold 0, 2 prompts | `ContinuesToConsume` violated | |
| `last_step` | 3 prompts, 2 steps per version | `LastStepSaved` violated | |
| `retention` | as `components`, one checkpoint to keep | `LatestComplete` violated | |
| `epoch_end` | SFT and `main_ppo_sync`, saves at the end of an epoch | `EveryBatchOnce` violated | |
| `stale_poll` | two validation batches per step | `SampleReadable` violated | |

`components` checks five components that share no state. `MCComponents` has a
variable `subject`: a behaviour is one of the chosen component while the others
stay in their initial state, so the state space is the sum of the five and not
their product. Deadlock is checked in every run; the only steps of a finished
system are those of the definitions `Finished`, `Ended`, `Terminated`,
`BucketEnds` and `ComponentEnds`.

**Why the bounds are enough to be interesting.**

- `streaming`, `liveness`, `on_policy`: three to six versions, so counters are
  carried across several resets. `MaxRequired` is 2 to 4, so the budget, the
  queue and the concurrency limit are all reached and the queue overflows.
  `PendingCapacity` is 1 where it is not the subject: a longer pending queue only
  lets the feed run ahead. In `on_policy` a batch spans several `get_sample`
  calls and a version several batches. The eight prompts of `streaming` are the
  least that reach the bound of `ResumeLossBound`: two trained on, four of the
  budget with its overshoot, one pending and one drawn.
- `load_balancer`: three conversations exceed the cache of two; two hybrid
  servers are enough for a removal and a new activation to overlap with releases
  and calls of another server; validations repeat without a bound. Requests, and
  hybrid servers, are interchangeable and named by no property, so the symmetry
  is sound (the run has no liveness property).
- `serving`: two servers, so a request can be resumed on a server that is a
  stage behind; two synchronisations, so it can be interrupted twice; one prompt
  shorter than `prompt_length` and one that fills it, with a context that leaves
  one token to spare.
- `components`: two crashes, so a crash can hit the save that follows a restart,
  over folders of the first run, with six steps in two epochs and two checkpoints
  to keep; `CkptFreq` does not divide `StepsPerEpoch`, the other case is
  `epoch_end`. Two training steps with a validation each, two agent loops per
  prompt, one of which may raise. Five models whose weights share a bucket, fill
  one, and need two or three, against shared buffers smaller than, equal to and
  larger than the engine's. A response of five tokens, two tool calls in an
  answer of which one is executed, three user turns, three versions. Three calls
  with demands below, at and above the capacity.

**Fairness.** In `MessageQueue`, weak fairness of `Resume`: a coroutine whose
future is resolved is scheduled. In `FullyAsync`, weak fairness of each
coroutine, of the runner and of each task: an inference request is answered.
Nothing forces a generation to fail, and no fairness is assumed between a
coroutine's alternatives. Weak fairness is enough for the lock because asyncio's
lock is FIFO and every holder releases it after a wait that fairness of the
tasks ends. In `PartialRollout`, weak fairness of each request and of each
server's part in a synchronisation that has begun; nothing forces a
synchronisation to begin. In `MCComponents`, weak fairness of each process:
the trainer, the poll thread, the workers, the device, the collective and both
ends of a socket. Crashes, exceptions, the clock and new calls are not forced.

**What they show.**

- The queue behaves as the atomic one. The staleness accounting holds to within
  one sample in every interleaving, exactly when the threshold is 0. A full
  queue costs at most one sample per version. The end signal follows the last
  sample and is never displaced. A restart skips no more prompts than the
  feed's drawn one, the pending queue and the budget with its one overshoot hold;
  this bound is reached. A checkpoint that `save_freq` asks for holds exactly the
  steps that `load_checkpoint` resumes after; a forced one may hold more (section
  4).
- In-flight counters never exceed the calls they stand for, and are exact for a
  server that joined the pool clean. No conversation is ever routed to a replica
  that sleeps and accepts calls, and no replica is put to sleep under a call:
  this rests on the order abort, remove, sleep, resume.
- Interrupted generation is indistinguishable from one generation, its window of
  versions covers every token (also after an answer without outputs), and every
  request returns. A server computes only with complete weights that match its
  label and its cache.
- With two checkpoints to keep, the checkpoint that the tracker names is complete
  at every moment. A restart resumes with exactly the batches that follow; only a
  crash while the tracker file is empty (`open(..., "w")` before `write`, not in
  the SFT trainers) prevents it, until someone repairs the file.
- `sample` returns all outputs of the prompts that finished, in spite of
  snapshots; the weights arrive complete, in order, once and unchanged, and the
  transfer ends; trajectories are aligned; the rate limit holds over every window
  for calls of ordinary size, and since the start for all.

## 4. Where code and documentation differ

- **`stall`.** `reset_staleness` counts `len(active_tasks)`. A task that has put
  its sample stays there until the processor collects it, and the trainer may
  already have consumed the sample. With threshold 0 the counter can then be at
  `max_required_samples` with nothing under way: the rollouter stays paused and
  the trainer waits on an empty queue. It takes a reset that gets the lock before
  the processor has collected the finished task, a narrow window in practice.
  The directory's README says "rollout continues to generate and trainer
  continues to consume". A threshold above 0 is not by itself enough to exclude
  it: with the constants of `streaming` (two tasks, a budget of one), and with
  threshold 1 and two tasks, TLC finds the same stall. It needs as many finished,
  uncollected tasks as there is slack, so the counter cannot cause it when
  `max_concurrent_samples` is at most the staleness budget: then it leaves room for another sample whenever the trainer has nothing to wait for
  (`RoomWhenStarvedHolds`, section 5). The `liveness` run is an instance of that
  kind.
- **`last_step`.** `_fit_save_checkpoint(force=True)` returns at once when the
  version is unchanged since the last checkpoint. If the data ends in the middle
  of a version, its last training steps are in no checkpoint, although the
  comment lists the last training step as a reason to save.
- **`retention`.** With one checkpoint to keep, `register_checkpoint` removes the
  previous checkpoint before the tracker is rewritten. The comment of
  `ensure_checkpoint_capacity` says that the existing checkpoint is kept "until
  the new save completes successfully".
- **`epoch_end`.** A dataloader saved at the end of an epoch is exhausted.
  `RayPPOTrainer` tests for this; the SFT trainers and `main_ppo_sync` restore
  it, and the epoch after the restart trains on nothing. The comment of the SFT
  trainer says that the dataloader "will automatically resume from where it left
  off". With `save_freq: after_each_epoch` this is every checkpoint.
- **`stale_poll`.** A list that the poll thread read before the cleanup of a
  validation batch, and adds after it, brings the removed keys back. The next
  validation batch has the same `global_steps`, so `sample` returns them too,
  although the transfer queue no longer has them. Training batches of different
  steps are not affected, which `SampleReadable` shows in `components`.

Remarks without a run of their own:

- A checkpoint that expiration, or the end of the run, forces between two versions
  v and v + 1 is named `global_step_v` and holds up to
  `trigger_parameter_sync_step - 1` training steps more than
  `v * trigger_parameter_sync_step`. `load_checkpoint` (`fully_async_trainer.py:728-729`)
  sets `global_steps` from v alone, so after a restart those steps are in the
  weights and not in the count, although the comment of `_save_checkpoint` (lines
  637-639) says that the version "can be logically aligned" with `global_steps`
  for checkpoints. TLC refutes `savedTrained = ResumeSteps` with the constants of
  `streaming`; `CheckpointLabel` states what does hold, equality for the
  checkpoints that `save_freq` asks for and a bound for the others.
- One sample more than `rollout_num` (README of the directory, lines 136-138)
  can be generated in a version: the increment for the sample in the processor's
  hand is overwritten by a `reset_staleness` that counts it neither in
  `active_tasks` nor in the queue. Hence the `+ 1` in `BudgetBound`, which is
  proved to be enough.
- Lines 214-215 of that README say that with `partial_rollout=False` the
  rollouter waits for ongoing tasks at a synchronisation. `update_weights` aborts
  them whatever `partial_rollout` is; the client then returns the aborted answer.
- After an interruption `max_tokens` is computed from a context that already
  contains generated tokens, so a request whose prompt is shorter than
  `prompt_length` may get more than `response_length` tokens in total.
  `ResumedOutput` states the bound that does hold, on prompt and response
  together.
- With an answer of no tokens in the first turn, `prompt_ids[-0:]` is the whole
  list: `ResponseAligned` fails for `MinTokens = 0`. vLLM gives at least one token
  to a request that is not aborted, and with `partial_rollout=True` the client
  resumes aborted ones. With `partial_rollout=False` a request aborted before its
  first token returns its empty answer to the tool loop
  (`fully_async_rollouter.py:143`), which `MinTokens >= 1` leaves out.

## 5. Proofs

All theorems hold for every value of the constants under the named assumptions
of the modules (`ParameterAssumption`, `NoneAssumption`, `CapacityAssumption`,
`BoundsAssumption`, `RepliesAssumption`, `ServerAssumption`, `RequestAssumption`,
`SizeAssumption`, `LengthAssumption`, `LimitAssumption`, `ValueAssumption`,
`ModeAssumption`, `CheckpointAssumption`, `ReplayAssumption`, `ToolAssumption`,
`BucketAssumption`, `TransferAssumption`): sizes and periods are positive,
special values differ from ordinary ones, the requests of the load balancer and
the calls of the rate limiter are finitely many, a prompt is shorter than the
context. Some theorems have a hypothesis on top of these; it is part of the
statement, and the table says why it cannot be dropped.

| Hypothesis | Theorems | Without it |
|---|---|---|
| `Pausing`: the engine has `pause_generation` | `ServesOneVersionHolds`, `VersionWindowHolds`, `GenerationImplemented` | the other branch of the code admits requests during the transfer |
| `Resume`: `partial_rollout` is set | `VersionWindowHolds`, `GenerationImplemented` | an aborted answer is returned as it is |
| `ValBatches <= 1` | `SampleReadableHolds` | run `stale_poll` |
| `MinTokens >= 1` | `ResponseAlignedHolds` | section 4, last remark |
| `MaxToKeep # 1` | `ResumeInvHolds`, `LatestCompleteHolds`, `EveryBatchOnceHolds` | run `retention` |
| `NoBoundarySave`: no save at the end of an epoch but the last, or `RayPPOTrainer` | `EveryBatchOnceHolds` | run `epoch_end` |

All invariants below were first checked by TLC on small instances. Most are not
conjuncts of a run because they exist for the proofs only.

**FullyAsyncProofs**: `InvariantHolds`, `TypeCorrect`, `BudgetHolds`,
`PauseHolds`, `CarryOverHolds`, `OnPolicyHolds`. The inductive invariant `IInv`
(also checked by TLC in `streaming`) is a conjunction of:

- `TypeOK`, `PauseConsistent`: themselves part of the claim;
- `TaskInv`: running tasks are in `active_tasks`, so the counter that
  `reset_staleness` computes covers them; room is left when a task is submitted;
- `HandInv`: at most one sample is in hand, the source of the "+ 1";
- `FeedInv`, `QueueInv`: both queues hold each sample once and agree with
  `stage`, so that lengths bound cardinalities, and the feed has drawn at most one
  prompt that it has not put;
- `LockInv`, `ResetInv`: while `reset_staleness` is open nobody collects tasks,
  hence its first temporary is still `len(active_tasks)` when it assigns, and a
  sample that leaves a task for the queue after the query is still covered by it;
- `TakenInv`: at a synchronisation the trainer has taken exactly
  `required_samples * trigger_parameter_sync_step` samples of this version;
- `BudgetInv`: outstanding samples exceed `staleness_samples` by at most one,
  and `max_required_samples` by at most one, not at all just before
  `pending_queue.get()`;
- `OnPolicyInv`: the same without the one, when the budget is 0.

`BudgetBound` is a conjunct. `CarryOverBound` follows: at a reset the
outstanding samples are at most `MaxRequired + 1`, of which `SamplesPerVersion`
are taken, so at most `StaleBudget + 1` are carried. For `OnPolicy` the same
subtraction gives 0, and `OnPolicyInv` is preserved by the reset because
nothing that it could miss is left. The step case has one lemma per action or
group of actions with the same frame.

**MessageQueueProofs**: `QueueTypeCorrect`, `WakeupsHold`, `ConservationHolds`
and `QueueRefinement` (the actor implements `SampleQueue`). The three
invariants are inductive together; the refinement needs no invariant, since
`get_sample` tests again before it takes.

**FullyAsyncProofs, the end of a run**: `CheckpointLabelHolds`, `StopSavesVersionHolds`,
`DropBoundHolds`, `SentinelKeptHolds`, `NothingLeftBehindHolds`,
`ResumeLossBoundHolds`. `EndInv`, inductive relative to `IInv`, is a conjunction
of:

- `VersionInv`: `trained` is the version times the trigger plus the local step,
  so a forced save between two versions cannot name the wrong one; a version that
  `save_freq` asks for is saved before the trainer takes another sample, so
  nothing is trained on top of it;
- `SupplyInv`: pending samples are in `pending_queue`, the feed's end signal is
  its last entry, and nothing is left of either once the processor has read it;
- `ChargeInv`: `BudgetInv` with the tasks that raised and are not collected
  counted as well. A processor that has stopped, at the end signal or with an
  exception, therefore has left room for one, which is what the end signal needs;
- `SignalInv`: the end signal is put once, and the samples behind it and those
  still running are too few to displace it;
- `DropBound` itself: just before `pending_queue.get()` the outstanding samples
  are at most `MaxRequired`, so only the sample in hand can find the queue full;
- `AccountInv`: every sample that has left the queue was trained on, is in the
  batch being collected, or is counted in `dropped_samples`.

**FullyAsyncProofs, the stall**: `RoomInvHolds`, `RoomWhenStarvedHolds`. The
invariants above bound the samples by the counter; `RoomInv` bounds the counter
by the samples. `reset_staleness` counts a finished task that is not yet
collected on top of its sample in the queue, or although its sample is gone, but
it counts at most `MaxConcurrent` tasks and afterwards every increment comes with
a sample. So the counter exceeds the samples of the version by at most
`MaxConcurrent`. A trainer that collects has taken fewer than
`SamplesPerVersion` of them, none is lost (a version that has lost one still has
a full queue of others), and what is left below `MaxRequired` is the budget.
That the monitor then does resume is liveness, and stays with the `liveness`
run; there and in a variant of it with two tasks TLC also checked `RoomInv` and
that the bound is reached.

**LoadBalancerProofs**: `BalancerTypeCorrect`, `NoLeak`, `CleanIsExact`. The
three invariants are inductive together: the floor of `release_server` keeps
`NeverOvercounted`, and a clean server is never at the floor when a release
arrives, because its counter equals its calls under way.

`ValidationHolds`, `ValidationImplementsBalancer`, `RoutedAwakeHolds`,
`SleepsIdleHolds`: `ValidationInv` says, for each position in the script, which
hybrid servers are awake, held and in the pool (in it from `add` to `remove`,
awake from `wake` to `sleep`, held from the second abort to the end), and that
a held engine runs no call. `RoutedAwake` is read off it, and `SleepsIdle`
because `sleep` comes at a position where every hybrid server is held. In
`RemoveReplicas` the removed servers are in the pool, hence the step is one of
the balancer; the other steps of the script leave it alone.

`RoutesHold`, `StickySessionHolds`: `RouteInv` says that the cache is ordered
by the turns, so whoever stands after a conversation in it has acquired a server
since, and that a conversation that is not cached was overtaken by `CacheSize`
others. Evicting the first entry keeps both, since all others stand after it.

**PartialRolloutProofs**: `ResumedOutputHolds` (all modes of client and engine),
`ServesOneVersionHolds`, `VersionWindowHolds`, and `GenerationImplemented`, the
refinement `Spec => ImplementsGeneration`. `GenerationInv` is a conjunction of
`TypeInv` and, per request or server:

- `SizeInv`: the budget of a call and the tokens merged so far stay within the
  limits of one call, so a resumed call always has room for a token;
- `ServerInv`: what a stage of the synchronisation says of weights, label and
  cache, and that the two barriers keep all servers on the same side of it;
- `EngineInv`: a running call is on a server before its abort or after its
  resumption, with tokens of that server's label only. This is where `Pausing`
  is used;
- `WindowInv`: no merged token is newer than any server's label. A request can
  only be resumed on a server that serves, hence the next tokens are not older,
  and the window merged from the first and the last answer covers all of them.

In the refinement `Token` and nothing else grows the promised response,
`Merge` moves tokens from the call to the output and may return it, and every
other step stutters.

**SyncTrainerProofs, ReplayBuffer**: `SampleCompleteHolds`, `SampleReadableHolds`. The heart
of `SampleInv` is `BufferInv`: a prompt leaves `running` only by a snapshot that
lists its final status, and an output that is in the transfer queue when the
prompt is final was listed by that same snapshot, because outputs are put
before the status and a snapshot is atomic. `FreshInv` and `OnceInv` exclude
that keys of other rounds interfere. `SampleReadable` needs in addition that a
round has its step and partition for itself (`ReadableInv`), which is
`ValBatches <= 1`: later snapshots may bring back keys, but of rounds that are
no longer needed.

**SyncTrainerProofs, CheckpointResume**: `LatestCompleteHolds`, `EveryBatchOnceHolds`.
`ResumeInv` says what the save under way has written (`SavedInv`), that the
tracker names an older step than the one being saved (`TrackerInv`), and that a
list of saved paths is increasing and ends with at most the step of the tracker
and, once registered, the one being saved (`PathsInv`). With two checkpoints
to keep, or with no limit, removing from the front of such a list never
touches the last two. `BatchInv` adds that the batches in memory, and those of
every checkpoint with a part, are those of its steps in order, and that the
tracker only names steps whose dataloader is restored in place.

**ToolAgentLoopProofs**: `ResponseAlignedHolds`, `TurnWindowHolds`. `AlignedInv`:
the mask and the log-probabilities describe the last tokens of `prompt_ids`,
row by row, and what is before them is the prompt; it survives cutting all
three. `WindowInv`: the window never passes the version of the servers, so the
next turn extends it upwards.

**TokenBucketProofs**: `BucketInvHolds`, `RateHeldHolds`. `BalanceInv` says that
what is in the bucket counts against every window: what the calls of ordinary
size have been granted since `from`, plus the balance, is at most `MaxTokens`
and the time since `from`. A grant moves tokens from the balance to the sum, a
refill adds no more than the time that has passed, and an oversized call, which
makes the balance negative, only lowers the left side. For all calls together
this fails inside a window but not since the start: an oversized call returns
when everything that was spent up to it has accrued, so what is due at any later
time `t` is at most `MaxTokens + t`.
`SumFunctionOnSet` is a fold over a set, defined by `CHOOSE` of a recursive
function. `SumsExist` and `SumsUnique` show that there is exactly one, `SumRemove`
that the sum loses exactly the value of the element that is removed, whichever
it is; all steps follow from one element more or less. What an
induction over finite sets would give is proved from a minimal counterexample
(`MinimalSubset`), since the library's induction theorems cannot be instantiated.

**WeightTransferProofs**: `TransferInvHolds`, `WeightsIntactHolds`, for any model,
any size of both buckets, and any delay of the copies. `TransferInv` is a
conjunction of `TransferTypeOK` and:

- `ControlInv`: nothing follows a bucket marked last, and the receiver takes part
  in a broadcast only into the buffer that it is not reading;
- `RunsInv`: every chunk is in one place (the sender's bucket, the broadcast, the
  bucket that has arrived, the bucket being read, or behind it), and each place
  holds consecutive chunks;
- `EngineInv`: each of these buckets agrees with its metadata, so a buffer is not
  refilled while it is broadcast or read;
- `OrderInv`: the weights completed so far have been loaded, are in the message,
  in the bucket of the ipc stage or in its hands, in this order, and they are
  those that the chunks yielded so far complete;
- `StreamInv`, `MergeInv`, `IpcInv`: a copy that is still queued on the device
  will find its source once the copies before it have run, because the bucket
  that it reads is only swapped after `synchronize`; a merged tensor is right up
  to what has been yielded; the entries of the ipc buffer do not overlap;
- `MessageInv`: what a message points to is there when it is loaded.

`Chunks` concatenates the chunks of all weights. `FlattenIsConcats` shows that
the function by which `FlattenSeq` is defined exists, and `ChunksSplit` that
every chunk continues the weight of the one before it or starts the next, which
is the fact that `OrderInv` and `MergeInv` rest on. Induction over numbers is a
smallest counterexample (`Smallest`).

**Only model-checked**: liveness (`ShutdownReleases`, `BlockedIsServed`,
`ContinuesToConsume`, `Termination`, `EveryRequestReturns`, `TrainingCompletes`,
`SampleReturns`, `TransferCompletes`). It rests on fairness and `ENABLED`, which
the prover does not handle. Every safety property that a run checks is a theorem.

## 6. Not modelled

- **Numerical code**: models, losses, kernels, engines, metrics, reward scores.
  This is most of the repository's 118 891 lines of implementation. It has no
  state that processes share, and what it computes is outside what TLC can state;
  this is why the models cover a small share of all lines.
- **External systems**: inference engines, Ray, NCCL, the file system and the
  transfer queue are modelled only as the code uses them. The delivery of the
  metadata that the NCCL engine publishes is assumed.
- **Other checkpoint engines** (nixl, mooncake, kimi, HCCL) and several
  receivers: HCCL has the structure of NCCL; the others are peer-to-peer.
- **`load_checkpoint` of the fully asynchronous actors**, whose restart is that of
  `CheckpointResume` with the loss that `ResumeLossBound` bounds.
- **Cancellation of one actor when the other raises** (`fully_async_main.py:194`):
  nothing is expected to survive it. Failed remote calls: Ray delivers them or
  the program ends.
- **`get_sample` after `shutdown`** returns a bare `None`, which the trainer's
  unpacking does not accept; no code path calls `shutdown` while it collects.
- **Growth of the replay buffer**: only sampled keys are removed, so entries of
  prompts and late outputs stay; no property of the batches depends on it.
- **One-step-off-policy trainer**: one outstanding batch, awaited before the
  next. **`DataProto`, sequence length balancing**: sequential algorithms that
  their unit tests cover. `PROJECT.json` gives the reason for every other part.

## 7. Plan

Every safety property of the runs is a theorem. What is left is of two kinds:

1. Liveness has no proof. The step that a proof by hand would need most is a
   theorem (`RoomWhenStarvedHolds`: a starved trainer never meets an exhausted
   counter); the others are the weakly fair steps of the monitor and the
   processor, which TLC explores.
2. Components that have no module yet, of which the checkpoint engines with
   several receivers, and the restart of the fully asynchronous actors from a
   checkpoint, are closest to the modelled ones (section 6).
