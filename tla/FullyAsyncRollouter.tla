------------------------- MODULE FullyAsyncRollouter -------------------------
(***************************************************************************)
(* FullyAsyncRollouter: the feed, processor, monitor and main coroutines,  *)
(* one task per submitted prompt, and the reset_staleness method that the  *)
(* trainer calls.  They share one event loop, so a step runs from one      *)
(* await to the next; self.lock is held across an await in two places, the *)
(* waits on active_tasks at the concurrency limit and at the end ("proc")  *)
(* and the queue size query of reset_staleness ("reset").  A local         *)
(* variable that goes out of scope is set to 0.                            *)
(***************************************************************************)
EXTENDS FullyAsyncState

VARIABLES
  pending_queue, global_steps, feedPc,           \* _feed_samples
  procPc, procQueueSize,                         \* _processor_worker
  monPc, monQueueSize,                           \* _async_monitor_loop
  mainPc, running,                               \* _streaming_generation_main
  active_tasks, staleness_samples, paused, resume_event, lock,
  resetActive, resetQueueSize                    \* temporaries of reset_staleness

feedVars == <<pending_queue, global_steps, feedPc>>
procVars == <<procPc, procQueueSize>>
monVars == <<monPc, monQueueSize>>
mainVars == <<mainPc, running>>
pauseVars == <<paused, resume_event>>
resetVars == <<resetActive, resetQueueSize>>
rollouterVars == <<feedVars, procVars, monVars, mainVars, pauseVars, resetVars,
                   active_tasks, staleness_samples, lock>>

RollouterInit ==
  /\ pending_queue = <<>> /\ global_steps = 1 /\ feedPc = "start"
  /\ procPc = "top" /\ procQueueSize = 0
  /\ monPc = "head" /\ monQueueSize = 0
  /\ mainPc = "wait" /\ running = TRUE
  /\ active_tasks = {} /\ staleness_samples = 0
  /\ paused = FALSE /\ resume_event = TRUE
  /\ lock = "free"
  /\ resetActive = 0 /\ resetQueueSize = 0

\* A task leaves active_tasks only when the processor collects it.
DoneTasks == active_tasks \ Running
FailedTasks == DoneTasks \cap In({"failed"})

\* Defect: only the queue is looked at, not the samples under way.
ShouldPauseQueueOnly(size) == size >= MaxRequired

\* Defect: one sample more than max_required_samples.
ShouldPauseLate(size) == size >= MaxRequired \/ staleness_samples > MaxRequired

\* _should_pause_generation, given the size that get_statistics returned
\* earlier and the counter as it is now.
ShouldPause(size) == size >= MaxRequired \/ staleness_samples >= MaxRequired

-----------------------------------------------------------------------------
(* _feed_samples *)

\* The first turn of the loop draws a prompt from the stateful dataloader and
\* reaches the put.
FeedStart ==
  /\ feedPc = "start"
  /\ stage' = [stage EXCEPT ![global_steps] = "drawn"]
  /\ feedPc' = "put"
  /\ UNCHANGED <<mqVars, reset, pending_queue, global_steps, procVars, monVars, mainVars,
                 pauseVars, resetVars, active_tasks, staleness_samples, lock>>

\* The put finds room.  Without another await the loop ends, or draws the next
\* prompt and reaches the next put.
FeedPut ==
  /\ feedPc = "put"
  /\ Len(pending_queue) < PendingCapacity
  /\ pending_queue' = Append(pending_queue, global_steps)
  /\ \/ /\ global_steps >= TotalRolloutSteps
        /\ stage' = [stage EXCEPT ![global_steps] = "pending"]
        /\ feedPc' = "end"
        /\ UNCHANGED global_steps
     \/ /\ global_steps < TotalRolloutSteps
        /\ global_steps' = global_steps + 1
        /\ stage' = [stage EXCEPT ![global_steps] = "pending", ![global_steps + 1] = "drawn"]
        /\ UNCHANGED feedPc
  /\ UNCHANGED <<mqVars, reset, procVars, monVars, mainVars, pauseVars, resetVars,
                 active_tasks, staleness_samples, lock>>

FeedEnd ==
  /\ feedPc = "end"
  /\ Len(pending_queue) < PendingCapacity
  /\ pending_queue' = Append(pending_queue, None)
  /\ feedPc' = "done"
  /\ UNCHANGED <<shared, global_steps, procVars, monVars, mainVars, pauseVars,
                 resetVars, active_tasks, staleness_samples, lock>>

-----------------------------------------------------------------------------
(* _processor_worker *)

\* while True: self.paused short-cuts the query of the queue.
ProcTop ==
  /\ procPc = "top"
  /\ \/ /\ paused
        /\ procPc' = "pause"
        /\ UNCHANGED procQueueSize
     \/ /\ ~paused
        /\ procPc' = "check"
        /\ procQueueSize' = Len(queue)
  /\ UNCHANGED <<shared, feedVars, monVars, mainVars, pauseVars, resetVars,
                 active_tasks, staleness_samples, lock>>

\* The answer of the query has arrived.
ProcCheck ==
  /\ procPc = "check"
  /\ procPc' = IF ShouldPause(procQueueSize) THEN "pause" ELSE "get"
  /\ procQueueSize' = 0
  /\ UNCHANGED <<shared, feedVars, monVars, mainVars, pauseVars,
                 resetVars, active_tasks, staleness_samples, lock>>

ProcPause ==
  /\ procPc = "pause"
  /\ lock = "free"
  /\ paused' = TRUE
  /\ resume_event' = FALSE
  /\ procPc' = "drain"
  /\ UNCHANGED <<shared, feedVars, procQueueSize, monVars, mainVars, resetVars,
                 active_tasks, staleness_samples, lock>>

\* asyncio.wait returned some tasks that were done at that moment; they are
\* discarded and awaited under the lock, which re-raises what a task raised.
ProcDrainCollect ==
  /\ procPc = "drain"
  /\ lock = "free"
  /\ \E D \in SUBSET DoneTasks :
       /\ D # {}
       /\ active_tasks' = active_tasks \ D
       /\ procPc' = IF D \cap FailedTasks # {} THEN "failed"
                    ELSE IF resume_event THEN "top" ELSE "drain"
  /\ UNCHANGED <<shared, feedVars, procQueueSize, monVars, mainVars, pauseVars,
                 resetVars, staleness_samples, lock>>

\* The drain ends early, or the block after it ends, on the resume signal.
ProcDrainResume ==
  /\ procPc = "drain"
  /\ resume_event
  /\ procPc' = "top"
  /\ UNCHANGED <<shared, feedVars, procQueueSize, monVars, mainVars, pauseVars,
                 resetVars, active_tasks, staleness_samples, lock>>

\* pending_queue.get(); the counter is incremented without the lock.
ProcGet ==
  /\ procPc = "get"
  /\ pending_queue # <<>>
  /\ pending_queue' = Tail(pending_queue)
  /\ staleness_samples' = staleness_samples + 1
  /\ \/ /\ Head(pending_queue) = None
        /\ procPc' = "finish"
        /\ UNCHANGED stage
     \/ /\ Head(pending_queue) # None
        /\ stage' = [stage EXCEPT ![Head(pending_queue)] = "hand"]
        /\ procPc' = "limit"
  /\ UNCHANGED <<mqVars, reset, global_steps, feedPc, procQueueSize, monVars, mainVars,
                 pauseVars, resetVars, active_tasks, lock>>

\* The heads of the two loops that wait for tasks: leave, or take the lock.
ProcLimit ==
  /\ procPc = "limit"
  /\ \/ /\ Cardinality(active_tasks) < MaxConcurrent
        /\ procPc' = "submit"
        /\ UNCHANGED lock
     \/ /\ Cardinality(active_tasks) >= MaxConcurrent
        /\ lock = "free"
        /\ lock' = "proc"
        /\ procPc' = "limitWait"
  /\ UNCHANGED <<shared, feedVars, procQueueSize, monVars, mainVars, pauseVars,
                 resetVars, active_tasks, staleness_samples>>

\* Defect: the end signal does not wait for the tasks under way.
ProcFinishAtOnce ==
  /\ procPc = "finish"
  /\ procPc' = "done"
  /\ UNCHANGED <<shared, feedVars, procQueueSize, monVars, mainVars, pauseVars,
                 resetVars, active_tasks, staleness_samples, lock>>

ProcFinish ==
  /\ procPc = "finish"
  /\ \/ /\ active_tasks = {}
        /\ procPc' = "done"
        /\ UNCHANGED lock
     \/ /\ active_tasks # {}
        /\ lock = "free"
        /\ lock' = "proc"
        /\ procPc' = "finishWait"
  /\ UNCHANGED <<shared, feedVars, procQueueSize, monVars, mainVars, pauseVars,
                 resetVars, active_tasks, staleness_samples>>

\* asyncio.wait(active_tasks, FIRST_COMPLETED) under the lock: active_tasks
\* becomes the tasks still pending.
ProcWaited ==
  /\ procPc \in {"limitWait", "finishWait"}
  /\ DoneTasks # {}
  /\ active_tasks' = active_tasks \ DoneTasks
  /\ lock' = "free"
  /\ procPc' = IF FailedTasks # {} THEN "failed"
               ELSE IF procPc = "limitWait" THEN "limit" ELSE "finish"
  /\ UNCHANGED <<shared, feedVars, procQueueSize, monVars, mainVars, pauseVars,
                 resetVars, staleness_samples>>

ProcSubmit ==
  /\ procPc = "submit"
  /\ ~paused \/ resume_event
  /\ lock = "free"
  /\ \E s \in In({"hand"}) :
       /\ active_tasks' = active_tasks \cup {s}
       /\ stage' = [stage EXCEPT ![s] = "gen"]
  /\ procPc' = "top"
  /\ UNCHANGED <<mqVars, reset, feedVars, procQueueSize, monVars, mainVars, pauseVars,
                 resetVars, staleness_samples, lock>>

-----------------------------------------------------------------------------
(* _process_single_sample_streaming, one task per prompt *)

TaskGenerated(s) ==
  /\ stage[s] = "gen"
  /\ stage' = [stage EXCEPT ![s] = "ready"]
  /\ UNCHANGED <<mqVars, reset, rollouterVars>>

TaskFailed(s) ==
  /\ stage[s] = "gen"
  /\ Cardinality(In({"failed"})) < MaxFailures
  /\ stage' = [stage EXCEPT ![s] = "failed"]
  /\ UNCHANGED <<mqVars, reset, rollouterVars>>

TaskPut(s) ==
  /\ stage[s] = "ready"
  /\ PutSample(s)
  /\ UNCHANGED <<reset, rollouterVars>>

-----------------------------------------------------------------------------
(* _async_monitor_loop *)

MonHead ==
  /\ monPc = "head"
  /\ lock = "free"
  /\ monPc' = IF running THEN "sleep" ELSE "done"
  /\ UNCHANGED <<shared, feedVars, procVars, monQueueSize, mainVars, pauseVars,
                 resetVars, active_tasks, staleness_samples, lock>>

MonWake ==
  /\ monPc = "sleep"
  /\ \/ /\ paused
        /\ monQueueSize' = Len(queue)
        /\ monPc' = "check"
     \/ /\ ~paused
        /\ monPc' = "head"
        /\ UNCHANGED monQueueSize
  /\ UNCHANGED <<shared, feedVars, procVars, mainVars, pauseVars, resetVars,
                 active_tasks, staleness_samples, lock>>

MonCheck ==
  /\ monPc = "check"
  /\ monPc' = IF ShouldPause(monQueueSize) THEN "head" ELSE "resume"
  /\ monQueueSize' = 0
  /\ UNCHANGED <<shared, feedVars, procVars, mainVars, pauseVars,
                 resetVars, active_tasks, staleness_samples, lock>>

\* Defect: the monitor clears the flag but does not set the event.
MonResumeFlagOnly ==
  /\ monPc = "resume"
  /\ lock = "free"
  /\ paused' = FALSE
  /\ monPc' = "head"
  /\ UNCHANGED <<shared, feedVars, procVars, monQueueSize, mainVars, resume_event,
                 resetVars, active_tasks, staleness_samples, lock>>

MonResume ==
  /\ monPc = "resume"
  /\ lock = "free"
  /\ paused' = FALSE
  /\ resume_event' = TRUE
  /\ monPc' = "head"
  /\ UNCHANGED <<shared, feedVars, procVars, monQueueSize, mainVars, resetVars,
                 active_tasks, staleness_samples, lock>>

-----------------------------------------------------------------------------
(* _streaming_generation_main *)

\* The processor has returned or raised: leave the try block, cancel the
\* feed; a prompt that it has drawn and not put goes nowhere.
MainCollect ==
  /\ mainPc = "wait"
  /\ procPc \in {"done", "failed"}
  /\ feedPc' = IF feedPc = "done" THEN "done" ELSE "cancelled"
  /\ mainPc' = "sentinel"
  /\ UNCHANGED <<shared, pending_queue, global_steps, procVars, monVars, running,
                 pauseVars, resetVars, active_tasks, staleness_samples, lock>>

\* Defect: no end signal after a failure.
MainSentinelOnSuccess ==
  /\ mainPc = "sentinel"
  /\ IF procPc = "done" THEN PutSample(None) ELSE UNCHANGED <<stage, mqVars>>
  /\ mainPc' = "stop"
  /\ UNCHANGED <<reset, feedVars, procVars, monVars, running, pauseVars, resetVars,
                 active_tasks, staleness_samples, lock>>

\* put_sample(sample=None)
MainSentinel ==
  /\ mainPc = "sentinel"
  /\ PutSample(None)
  /\ mainPc' = "stop"
  /\ UNCHANGED <<reset, feedVars, procVars, monVars, running, pauseVars, resetVars,
                 active_tasks, staleness_samples, lock>>

MainStop ==
  /\ mainPc = "stop"
  /\ lock = "free"
  /\ running' = FALSE
  /\ mainPc' = "done"
  /\ UNCHANGED <<shared, feedVars, procVars, monVars, pauseVars, resetVars,
                 active_tasks, staleness_samples, lock>>

-----------------------------------------------------------------------------
(* reset_staleness *)

\* Defect: the tasks under way are not counted.
ResetBeginUncounted ==
  /\ reset = "called"
  /\ lock = "free"
  /\ lock' = "reset"
  /\ paused' = FALSE
  /\ resume_event' = TRUE
  /\ resetActive' = 0
  /\ reset' = "query"
  /\ UNCHANGED <<stage, mqVars, feedVars, procVars, monVars, mainVars, resetQueueSize,
                 active_tasks, staleness_samples>>

\* len(active_tasks) is read, then the queue is asked for its size.
ResetBegin ==
  /\ reset = "called"
  /\ lock = "free"
  /\ lock' = "reset"
  /\ paused' = FALSE
  /\ resume_event' = TRUE
  /\ resetActive' = Cardinality(active_tasks)
  /\ reset' = "query"
  /\ UNCHANGED <<stage, mqVars, feedVars, procVars, monVars, mainVars, resetQueueSize,
                 active_tasks, staleness_samples>>

ResetQuery ==
  /\ reset = "query"
  /\ resetQueueSize' = Len(queue)
  /\ reset' = "assign"
  /\ UNCHANGED <<stage, mqVars, feedVars, procVars, monVars, mainVars, pauseVars,
                 resetActive, active_tasks, staleness_samples, lock>>

\* The counter is overwritten with the two temporaries; a new version begins.
ResetEnd ==
  /\ reset = "assign"
  /\ staleness_samples' = resetActive + resetQueueSize
  /\ stage' = [s \in Samples |-> IF stage[s] \in {"taken", "lost"} THEN "spent" ELSE stage[s]]
  /\ lock' = "free"
  /\ reset' = "idle"
  /\ resetActive' = 0
  /\ resetQueueSize' = 0
  /\ UNCHANGED <<mqVars, feedVars, procVars, monVars, mainVars, pauseVars, active_tasks>>

-----------------------------------------------------------------------------
ProcStep ==
  \/ ProcTop \/ ProcCheck \/ ProcPause \/ ProcDrainCollect \/ ProcDrainResume
  \/ ProcGet \/ ProcLimit \/ ProcFinish \/ ProcWaited \/ ProcSubmit

FeedStep == FeedStart \/ FeedPut \/ FeedEnd

MonStep == MonHead \/ MonWake \/ MonCheck \/ MonResume

MainStep == MainCollect \/ MainSentinel \/ MainStop

ResetStep == ResetBegin \/ ResetQuery \/ ResetEnd

TaskStep(s) == TaskGenerated(s) \/ TaskFailed(s) \/ TaskPut(s)

RollouterNext ==
  \/ ProcStep \/ FeedStep \/ MonStep \/ MainStep \/ ResetStep
  \/ \E s \in Samples : TaskStep(s)

RollouterDone == mainPc = "done" /\ monPc = "done"
=============================================================================
