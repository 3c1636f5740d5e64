--------------------------- MODULE FullyAsyncProofs ---------------------------
(***************************************************************************)
(* FullyAsync, for every number of samples, batch size, threshold,         *)
(* concurrency limit and number of failures.  First the staleness          *)
(* accounting, with the invariant IInv.  Then, on top of it, how a run     *)
(* ends: what a full queue costs, that the end signal arrives, that every  *)
(* full batch has been trained on by then, what the checkpoints hold and   *)
(* what a restart from one of them skips; and that a waiting trainer is    *)
(* not left with a rollouter that may not generate.                        *)
(***************************************************************************)
EXTENDS FullyAsync, FiniteSetTheorems, TLAPS

-----------------------------------------------------------------------------
(* Constants and cardinalities *)

\* The quantities of set_max_required_samples are natural numbers, and the
\* budget of a version is at least the samples the trainer needs for it.
LEMMA ConstantTypes ==
  /\ SamplesPerVersion \in Nat \ {0}
  /\ StaleBudget \in Nat
  /\ MaxRequired \in Nat \ {0}
  /\ MaxRequired = SamplesPerVersion + StaleBudget
  /\ MaxConcurrent \in Nat \ {0}
<1>1. SamplesPerVersion \in Nat \ {0}
  BY ParameterAssumption DEF SamplesPerVersion
<1>2. ThresholdNum * SamplesPerVersion \in Nat
  BY <1>1, ParameterAssumption
<1>3. StaleBudget \in Nat
  BY <1>2, ParameterAssumption DEF StaleBudget
<1> QED BY <1>1, <1>3, ParameterAssumption DEF MaxRequired, MaxConcurrent

\* Every set of samples is finite.
LEMMA SampleSets ==
  ASSUME NEW A \in SUBSET Samples
  PROVE  IsFiniteSet(A) /\ Cardinality(A) \in Nat
<1>1. IsFiniteSet(Samples)
  BY FS_Interval, ParameterAssumption DEF Samples
<1> QED BY <1>1, FS_Subset, FS_CardinalityType

\* A subset has no more elements.
LEMMA CardinalityMonotone ==
  ASSUME NEW B \in SUBSET Samples, NEW A \in SUBSET B
  PROVE  Cardinality(A) <= Cardinality(B)
BY SampleSets, FS_Subset

\* One more element.
LEMMA CardinalityAdd ==
  ASSUME NEW A \in SUBSET Samples, NEW x \in Samples
  PROVE  /\ Cardinality(A \cup {x}) <= Cardinality(A) + 1
         /\ x \notin A => Cardinality(A \cup {x}) = Cardinality(A) + 1
BY SampleSets, FS_AddElement

\* The cardinality of a union is at most the sum.
LEMMA CardinalityUnion ==
  ASSUME NEW A \in SUBSET Samples, NEW B \in SUBSET Samples
  PROVE  /\ Cardinality(A \cup B) <= Cardinality(A) + Cardinality(B)
         /\ A \cap B = {} => Cardinality(A \cup B) = Cardinality(A) + Cardinality(B)
<1>1. Cardinality(A \cup B) = Cardinality(A) + Cardinality(B) - Cardinality(A \cap B)
  BY SampleSets, FS_Union
<1>2. Cardinality(A \cap B) \in Nat
  BY SampleSets
<1>3. A \cap B = {} => Cardinality(A \cap B) = 0
  BY FS_EmptySet
<1> QED BY <1>1, <1>2, <1>3, SampleSets

\* At most one element.
LEMMA CardinalityAtMostOne ==
  ASSUME NEW A \in SUBSET Samples, \A s, t \in A : s = t
  PROVE  Cardinality(A) <= 1
<1>1. CASE A = {}
  BY <1>1, FS_EmptySet
<1>2. CASE A # {}
  <2>1. PICK x : A = {x}
    BY <1>2
  <2> QED BY <2>1, FS_Singleton
<1> QED BY <1>1, <1>2

\* The queue is at least as long as the set of samples it holds.
LEMMA QueueCardinality ==
  ASSUME TypeOK, QueueInv
  PROVE  Cardinality(Queued) <= Len(queue)
<1> DEFINE I == {i \in 1..Len(queue) : queue[i] # None}
           f == [i \in I |-> queue[i]]
<1>1. Len(queue) \in Nat
  BY DEF TypeOK
<1>2. IsFiniteSet(1..Len(queue)) /\ Cardinality(1..Len(queue)) = Len(queue)
  <2>1. /\ IsFiniteSet(1..Len(queue))
        /\ Cardinality(1..Len(queue)) = IF 1 > Len(queue) THEN 0 ELSE Len(queue) - 1 + 1
    BY <1>1, FS_Interval
  <2> QED BY <1>1, <2>1
<1>3. IsFiniteSet(I) /\ Cardinality(I) <= Len(queue)
  BY <1>2, FS_Subset
<1>4. f \in [I -> Queued]
  <2> SUFFICES ASSUME NEW i \in I PROVE queue[i] \in Queued
    OBVIOUS
  <2>1. queue[i] \in Samples
    BY DEF TypeOK
  <2> QED BY <2>1 DEF QueueInv, Queued, In
<1>5. \A s \in Queued : \E i \in I : f[i] = s
  BY NoneAssumption DEF QueueInv, Queued, In, Samples
<1>6. f \in Surjection(I, Queued)
  BY <1>4, <1>5 DEF Surjection
<1>7. Cardinality(Queued) <= Cardinality(I)
  BY <1>3, <1>6, FS_Surjection
<1>8. Cardinality(I) \in Nat /\ Cardinality(Queued) \in Nat
  BY <1>3, FS_CardinalityType, SampleSets DEF Queued, In
<1> HIDE DEF I
<1> QED BY <1>1, <1>3, <1>7, <1>8

-----------------------------------------------------------------------------
(* Steps that move no sample *)

\* Where no sample moves, the derived sets are unchanged.
LEMMA SetsFrame ==
  ASSUME UNCHANGED stage
  PROVE  /\ Outstanding' = Outstanding /\ Queued' = Queued /\ Taken' = Taken
         /\ Running' = Running
BY DEF Outstanding, Queued, Taken, Running, In

\* The derived sets are sets of samples.
LEMMA SetTypes ==
  /\ Outstanding \in SUBSET Samples /\ Queued \in SUBSET Samples
  /\ Taken \in SUBSET Samples /\ Running \in SUBSET Samples
BY DEF Outstanding, Queued, Taken, Running, In

\* One sample moves: what becomes of the derived sets.
LEMMA MoveSets ==
  ASSUME TypeOK, NEW s \in Samples, NEW a \in Stages, stage' = [stage EXCEPT ![s] = a]
  PROVE  /\ a \in {"hand", "gen", "ready", "queued", "taken", "lost"} =>
              Outstanding' = Outstanding \cup {s}
         /\ a \notin {"hand", "gen", "ready", "queued", "taken", "lost"} =>
              Outstanding' = Outstanding \ {s}
         /\ Queued' = IF a = "queued" THEN Queued \cup {s} ELSE Queued \ {s}
         /\ Taken' = IF a = "taken" THEN Taken \cup {s} ELSE Taken \ {s}
         /\ Running' = IF a \in {"gen", "ready"} THEN Running \cup {s} ELSE Running \ {s}
         /\ \A t \in Samples : t # s => stage'[t] = stage[t]
         /\ stage'[s] = a
         /\ stage' \in [Samples -> Stages]
BY DEF TypeOK, Outstanding, Queued, Taken, Running, In

\* Steps that change program counters, the pause flag or the lock only.
QuietStep ==
  /\ \/ ProcTop \/ ProcCheck \/ ProcPause \/ ProcDrainResume \/ ProcLimit \/ ProcFinish
     \/ MonStep \/ MainCollect \/ MainStop
  /\ UNCHANGED trainerVars

\* They preserve the invariant.
LEMMA QuietStepPreserves ==
  ASSUME IInv, QuietStep
  PROVE  IInv'
<1> USE ConstantTypes, SetsFrame, SetTypes, SampleSets DEF IInv
<1>0. /\ UNCHANGED <<stage, queue, dropped_samples, reset, active_tasks,
                     staleness_samples, resetActive, resetQueueSize,
                     pending_queue, global_steps>>
      /\ UNCHANGED <<trainPc, collected, local_trigger_step, current_param_version,
                     trained, stopping, last_ckpt_version, savedTrained>>
  BY DEF QuietStep, MonStep, ProcTop, ProcCheck, ProcPause, ProcDrainResume, ProcLimit,
    ProcFinish, MonHead, MonWake, MonCheck, MonResume, MainCollect, MainStop,
    shared, mqVars, resetVars, feedVars, trainerVars
<1>1. TypeOK'
  <2>1. procPc' \in ProcStates /\ procQueueSize' \in Nat
    BY <1>0 DEF QuietStep, MonStep, ProcTop, ProcCheck, ProcPause, ProcDrainResume,
      ProcLimit, ProcFinish, MonHead, MonWake, MonCheck, MonResume, MainCollect, MainStop,
      TypeOK, ProcStates, procVars
  <2>2. monPc' \in {"head", "sleep", "check", "resume", "done"} /\ monQueueSize' \in Nat
    BY <1>0 DEF QuietStep, MonStep, ProcTop, ProcCheck, ProcPause, ProcDrainResume,
      ProcLimit, ProcFinish, MonHead, MonWake, MonCheck, MonResume, MainCollect, MainStop,
      TypeOK, monVars
  <2>3. /\ mainPc' \in {"wait", "sentinel", "stop", "done"} /\ running' \in BOOLEAN
        /\ feedPc' \in {"start", "put", "end", "done", "cancelled"}
    BY <1>0 DEF QuietStep, MonStep, ProcTop, ProcCheck, ProcPause, ProcDrainResume,
      ProcLimit, ProcFinish, MonHead, MonWake, MonCheck, MonResume, MainCollect, MainStop,
      TypeOK, mainVars, feedVars
  <2>4. /\ paused' \in BOOLEAN /\ resume_event' \in BOOLEAN
        /\ lock' \in {"free", "proc", "reset"}
    BY <1>0 DEF QuietStep, MonStep, ProcTop, ProcCheck, ProcPause, ProcDrainResume,
      ProcLimit, ProcFinish, MonHead, MonWake, MonCheck, MonResume, MainCollect, MainStop,
      TypeOK, pauseVars
  <2> QED BY <1>0, <2>1, <2>2, <2>3, <2>4 DEF TypeOK
<1>2. PauseConsistent'
  BY DEF QuietStep, MonStep, ProcTop, ProcCheck, ProcPause, ProcDrainResume,
    ProcLimit, ProcFinish, MonHead, MonWake, MonCheck, MonResume, MainCollect, MainStop,
    TypeOK, PauseConsistent, feedVars, procVars, monVars, mainVars, pauseVars
<1>3. TaskInv' /\ HandInv'
  BY <1>0 DEF QuietStep, MonStep, ProcTop, ProcCheck, ProcPause, ProcDrainResume,
    ProcLimit, ProcFinish, MonHead, MonWake, MonCheck, MonResume, MainCollect, MainStop,
    TypeOK, TaskInv, HandInv, feedVars, procVars, monVars, mainVars
<1>4. FeedInv'
  BY <1>0 DEF QuietStep, MonStep, ProcTop, ProcCheck, ProcPause, ProcDrainResume,
    ProcLimit, ProcFinish, MonHead, MonWake, MonCheck, MonResume, MainCollect, MainStop,
    TypeOK, FeedInv, feedVars, procVars, monVars, mainVars
<1>5. QueueInv' /\ ResetInv' /\ TakenInv'
  BY <1>0 DEF QueueInv, ResetInv, TakenInv, SyncOpen
<1>6. LockInv'
  BY <1>0 DEF QuietStep, MonStep, ProcTop, ProcCheck, ProcPause, ProcDrainResume,
    ProcLimit, ProcFinish, MonHead, MonWake, MonCheck, MonResume, MainCollect, MainStop,
    TypeOK, LockInv, feedVars, procVars, monVars, mainVars
<1>7. BudgetInv' /\ OnPolicyInv'
  BY <1>0 DEF QuietStep, MonStep, ProcTop, ProcCheck, ProcPause, ProcDrainResume,
    ProcLimit, ProcFinish, MonHead, MonWake, MonCheck, MonResume, MainCollect, MainStop,
    TypeOK, BudgetInv, OnPolicyInv, ShouldPause, feedVars, procVars, monVars,
    mainVars
<1> QED BY <1>1, <1>2, <1>3, <1>4, <1>5, <1>6, <1>7

-----------------------------------------------------------------------------
(* _feed_samples *)

\* A prompt goes from the dataloader to the feed and from there to pending_queue,
\* and no other moves.
LEMMA FeedStages ==
  ASSUME IInv, FeedStart \/ FeedPut
  PROVE  /\ \A s \in Samples :
              \/ stage'[s] = stage[s]
              \/ stage[s] \in {"unfed", "drawn"} /\ stage'[s] \in {"drawn", "pending"}
         /\ stage' \in [Samples -> Stages]
         /\ Outstanding' = Outstanding /\ Queued' = Queued /\ Taken' = Taken
         /\ Running' = Running
<1>0. /\ stage \in [Samples -> Stages] /\ global_steps \in Samples
      /\ {"drawn", "pending"} \subseteq Stages
  BY DEF IInv, TypeOK, Stages
<1>1. CASE FeedStart
  <2>1. stage[global_steps] = "unfed" /\ stage' = [stage EXCEPT ![global_steps] = "drawn"]
    BY <1>0, <1>1 DEF FeedStart, IInv, FeedInv, Samples
  <2>2. \A s \in Samples :
          \/ stage'[s] = stage[s]
          \/ stage[s] \in {"unfed", "drawn"} /\ stage'[s] \in {"drawn", "pending"}
    BY <1>0, <2>1
  <2>3. stage' \in [Samples -> Stages]
    BY <1>0, <2>1
  <2> QED BY <2>2, <2>3 DEF Outstanding, Queued, Taken, Running, In
<1>2. CASE FeedPut
  <2>1. /\ stage[global_steps] = "drawn"
        /\ \/ stage' = [stage EXCEPT ![global_steps] = "pending"]
           \/ /\ global_steps < TotalRolloutSteps
              /\ stage' = [stage EXCEPT ![global_steps] = "pending",
                                       ![global_steps + 1] = "drawn"]
    BY <1>2 DEF FeedPut, IInv, FeedInv
  <2>2. global_steps < TotalRolloutSteps =>
          global_steps + 1 \in Samples /\ stage[global_steps + 1] = "unfed"
    BY <1>0, <1>2, ParameterAssumption DEF FeedPut, IInv, FeedInv, Samples
  <2>3. \A s \in Samples :
          \/ stage'[s] = stage[s]
          \/ stage[s] \in {"unfed", "drawn"} /\ stage'[s] \in {"drawn", "pending"}
    BY <1>0, <2>1, <2>2
  <2>4. stage' \in [Samples -> Stages]
    BY <1>0, <2>1
  <2> QED BY <2>3, <2>4 DEF Outstanding, Queued, Taken, Running, In
<1> QED BY <1>1, <1>2

\* Drawing and feeding a sample, or the end signal, preserves the invariant.
LEMMA FeedStepPreserves ==
  ASSUME IInv, FeedStep, UNCHANGED trainerVars
  PROVE  IInv'
<1> USE DEF IInv
<1>0. /\ UNCHANGED <<queue, dropped_samples, reset, active_tasks, staleness_samples,
                     resetActive, resetQueueSize, procPc, procQueueSize, monPc,
                     monQueueSize, mainPc, running, paused, resume_event, lock>>
      /\ UNCHANGED <<trainPc, collected, local_trigger_step, current_param_version,
                     trained, stopping, last_ckpt_version, savedTrained>>
  BY DEF FeedStep, FeedStart, FeedPut, FeedEnd, shared, mqVars, resetVars, procVars, monVars,
    mainVars, pauseVars, trainerVars
<1>1. CASE FeedStart \/ FeedPut
  <2>1. global_steps \in Samples /\ stage \in [Samples -> Stages]
    BY DEF TypeOK
  <2>2. /\ \A s \in Samples :
             \/ stage'[s] = stage[s]
             \/ stage[s] \in {"unfed", "drawn"} /\ stage'[s] \in {"drawn", "pending"}
        /\ stage' \in [Samples -> Stages]
        /\ Outstanding' = Outstanding /\ Queued' = Queued /\ Taken' = Taken
        /\ Running' = Running
    BY <1>1, FeedStages
  <2>3. TypeOK' /\ FeedInv'
    <3>1. CASE FeedStart
      <4>1. /\ feedPc = "start" /\ feedPc' = "put"
            /\ UNCHANGED <<pending_queue, global_steps>>
            /\ stage' = [stage EXCEPT ![global_steps] = "drawn"]
        BY <3>1 DEF FeedStart
      <4>2. \A s \in Samples : s >= global_steps => stage[s] = "unfed"
        BY <4>1 DEF FeedInv
      <4>3. /\ stage'[global_steps] = "drawn" /\ stage[global_steps] = "unfed"
            /\ \A s \in Samples : s # global_steps => stage'[s] = stage[s]
            /\ \A s \in Samples : stage[s] # "drawn"
        BY <2>1, <4>1, <4>2 DEF FeedInv, Samples
      <4>4. TypeOK'
        BY <1>0, <2>2, <4>1 DEF TypeOK
      <4>5. \A i \in 1..Len(pending_queue) :
              pending_queue[i] # None => pending_queue[i] \in Samples
        BY DEF TypeOK
      <4>6. \A s \in Samples : s > global_steps => stage'[s] = "unfed"
        BY <2>1, <4>2, <4>3 DEF Samples
      <4>7. FeedInv'
        BY <4>1, <4>3, <4>5, <4>6 DEF FeedInv
      <4> QED BY <4>4, <4>7
    <3>2. CASE FeedPut
      <4>1. /\ pending_queue' \in Seq(Samples \cup {None})
            /\ Len(pending_queue') = Len(pending_queue) + 1
            /\ \A i \in 1..Len(pending_queue) : pending_queue'[i] = pending_queue[i]
            /\ pending_queue'[Len(pending_queue) + 1] = global_steps
            /\ Len(pending_queue) < PendingCapacity /\ Len(pending_queue) \in Nat
            /\ feedPc = "put"
        BY <2>1, <3>2 DEF FeedPut, TypeOK
      <4>2. /\ stage[global_steps] = "drawn"
            /\ \A s \in Samples : s > global_steps => stage[s] = "unfed"
            /\ \A s \in Samples : stage[s] = "drawn" => s = global_steps
        BY <4>1 DEF FeedInv
      <4>3. \/ /\ feedPc' = "end" /\ global_steps' = global_steps
               /\ stage' = [stage EXCEPT ![global_steps] = "pending"]
            \/ /\ feedPc' = "put" /\ global_steps' = global_steps + 1
               /\ global_steps < TotalRolloutSteps
               /\ stage' = [stage EXCEPT ![global_steps] = "pending",
                                        ![global_steps + 1] = "drawn"]
        BY <3>2 DEF FeedPut
      <4>4. global_steps' \in Samples /\ global_steps + 1 # global_steps
        BY <2>1, <4>3, ParameterAssumption DEF Samples
      <4>5. TypeOK'
        BY <1>0, <2>2, <4>1, <4>3, <4>4, ParameterAssumption DEF TypeOK
      <4>6. \A i \in 1..Len(pending_queue) :
              pending_queue[i] # None => /\ pending_queue[i] \in Samples
                                         /\ stage[pending_queue[i]] = "pending"
        BY DEF FeedInv, TypeOK
      <4>7. \A s \in Samples : stage[s] = "pending" => stage'[s] = "pending"
        BY <2>2
      <4>8. stage'[global_steps] = "pending"
        BY <2>1, <4>3, <4>4
      <4>9. \A i \in 1..Len(pending_queue') :
              pending_queue'[i] # None => stage'[pending_queue'[i]] = "pending"
        BY <4>1, <4>6, <4>7, <4>8
      <4>10. \A i, j \in 1..Len(pending_queue') :
               pending_queue'[i] = pending_queue'[j] /\ pending_queue'[i] # None => i = j
        <5>1. \A i \in 1..Len(pending_queue) :
                pending_queue[i] # None => pending_queue[i] # global_steps
          BY <4>2, <4>6
        <5> QED BY <4>1, <5>1 DEF FeedInv
      <4>11. CASE feedPc' = "end"
        <5>1. \A s \in Samples : stage'[s] # "drawn"
          BY <2>1, <4>2, <4>3, <4>11
        <5> QED BY <4>5, <4>9, <4>10, <4>11, <5>1 DEF FeedInv
      <4>12. CASE feedPc' = "put"
        <5>1. \A s \in Samples : stage'[s] = "drawn" => s = global_steps'
          BY <2>1, <4>2, <4>3, <4>12
        <5>2. stage'[global_steps'] = "drawn"
          BY <2>1, <4>3, <4>4, <4>12
        <5>3. \A s \in Samples : s > global_steps' => stage'[s] = "unfed"
          <6>1. global_steps' = global_steps + 1
            BY <4>3, <4>12
          <6>2. \A s \in Samples : s > global_steps + 1 =>
                  s > global_steps /\ s # global_steps /\ s # global_steps + 1
            BY <2>1 DEF Samples
          <6>3. \A s \in Samples : s # global_steps /\ s # global_steps + 1 =>
                  stage'[s] = stage[s]
            BY <2>1, <4>3, <4>12
          <6> QED BY <4>2, <6>1, <6>2, <6>3
        <5> QED BY <4>5, <4>9, <4>10, <4>12, <5>1, <5>2, <5>3 DEF FeedInv
      <4> QED BY <4>3, <4>11, <4>12
    <3> QED BY <1>1, <3>1, <3>2
  <2>4. QueueInv'
    <3>1. \A i \in 1..Len(queue) : queue[i] # None => queue[i] \in Samples
      BY DEF TypeOK
    <3> QED BY <1>0, <2>2, <3>1 DEF QueueInv
  <2>5. HandInv'
    BY <1>0, <2>2 DEF HandInv
  <2> QED BY <1>0, <2>2, <2>3, <2>4, <2>5 DEF PauseConsistent, TaskInv, LockInv,
            ResetInv, TakenInv, SyncOpen, BudgetInv, OnPolicyInv
<1>2. CASE FeedEnd
  <2>1. UNCHANGED stage /\ feedPc' = "done" /\ UNCHANGED global_steps
    BY <1>2 DEF FeedEnd, shared
  <2>2. /\ pending_queue' \in Seq(Samples \cup {None})
        /\ Len(pending_queue') = Len(pending_queue) + 1
        /\ \A i \in 1..Len(pending_queue) : pending_queue'[i] = pending_queue[i]
        /\ pending_queue'[Len(pending_queue) + 1] = None
        /\ Len(pending_queue) < PendingCapacity
        /\ Len(pending_queue) \in Nat
    BY <1>2 DEF FeedEnd, TypeOK
  <2>3. TypeOK'
    BY <1>0, <2>1, <2>2, ParameterAssumption DEF TypeOK
  <2>4. FeedInv'
    <3>1. feedPc = "end"
      BY <1>2 DEF FeedEnd
    <3> QED BY <2>1, <2>2, <3>1 DEF FeedInv
  <2> QED BY <1>0, <2>1, <2>3, <2>4, SetsFrame DEF PauseConsistent, TaskInv, HandInv,
            QueueInv, LockInv, ResetInv, TakenInv, SyncOpen, BudgetInv, OnPolicyInv
<1> QED BY <1>1, <1>2 DEF FeedStep

-----------------------------------------------------------------------------
(* _processor_worker *)

\* pending_queue.get() preserves the invariant: the test before it left room.
LEMMA ProcGetPreserves ==
  ASSUME IInv, ProcGet, UNCHANGED trainerVars
  PROVE  IInv'
<1> USE DEF IInv
<1>0. /\ UNCHANGED <<queue, dropped_samples, reset, active_tasks, global_steps, feedPc,
                     resetActive, resetQueueSize, procQueueSize, monPc,
                     monQueueSize, mainPc, running, paused, resume_event, lock>>
      /\ UNCHANGED <<trainPc, collected, local_trigger_step, current_param_version,
                     trained, stopping, last_ckpt_version, savedTrained>>
      /\ procPc = "get"
      /\ staleness_samples' = staleness_samples + 1
  BY DEF ProcGet, mqVars, resetVars, monVars, mainVars, pauseVars, trainerVars
<1> DEFINE h == Head(pending_queue)
<1>1. /\ Len(pending_queue) \in Nat \ {0}
      /\ h = pending_queue[1] /\ h \in Samples \cup {None}
      /\ pending_queue' \in Seq(Samples \cup {None})
      /\ Len(pending_queue') = Len(pending_queue) - 1
      /\ \A i \in 1..Len(pending_queue') : pending_queue'[i] = pending_queue[i + 1]
  BY DEF ProcGet, TypeOK
<1>2. \A s \in Samples : stage[s] # "hand"
  BY <1>0 DEF HandInv
<1>3. ~paused
  BY <1>0 DEF PauseConsistent
<1>6. staleness_samples' \in Nat /\ Len(pending_queue') <= PendingCapacity
  BY <1>0, <1>1, ParameterAssumption DEF TypeOK
<1>4. CASE h = None
  <2>1. UNCHANGED stage /\ procPc' = "finish"
    BY <1>4 DEF ProcGet
  <2>2. TypeOK'
    BY <1>0, <1>1, <1>6, <2>1 DEF TypeOK, ProcStates
  <2>3. FeedInv'
    BY <1>0, <1>1, <2>1, SMTT(30) DEF FeedInv
  <2>4. BudgetInv' /\ OnPolicyInv'
    BY <1>0, <2>1, SetsFrame, SetTypes, SampleSets DEF BudgetInv, OnPolicyInv, TypeOK
  <2> QED BY <1>0, <1>2, <1>3, <2>1, <2>2, <2>3, <2>4, SetsFrame DEF PauseConsistent,
            TaskInv, HandInv, QueueInv, LockInv, ResetInv, TakenInv, SyncOpen
<1>5. CASE h # None
  <2>1. h \in Samples /\ stage[h] = "pending" /\ procPc' = "limit"
    BY <1>1, <1>5 DEF ProcGet, FeedInv
  <2>2. /\ Outstanding' = Outstanding \cup {h} /\ Queued' = Queued /\ Taken' = Taken
        /\ Running' = Running
        /\ \A t \in Samples : t # h => stage'[t] = stage[t]
        /\ stage'[h] = "hand"
        /\ stage' \in [Samples -> Stages]
    <3>1. h \notin Queued \cup Taken \cup Running
      BY <2>1 DEF Queued, Taken, Running, In
    <3>2. "hand" \in Stages
      BY DEF Stages
    <3>3. stage' = [stage EXCEPT ![h] = "hand"]
      BY <1>5 DEF ProcGet
    <3>4. /\ Outstanding' = Outstanding \cup {h}
          /\ Queued' = Queued \ {h} /\ Taken' = Taken \ {h} /\ Running' = Running \ {h}
          /\ \A t \in Samples : t # h => stage'[t] = stage[t]
          /\ stage'[h] = "hand"
          /\ stage' \in [Samples -> Stages]
      BY <2>1, <3>2, <3>3, MoveSets
    <3> QED BY <3>1, <3>4
  <2>3. TypeOK'
    BY <1>0, <1>1, <1>6, <2>1, <2>2 DEF TypeOK, ProcStates
  <2>4. HandInv'
    BY <1>2, <2>1, <2>2 DEF HandInv
  <2>5. FeedInv'
    <3>1. \A i \in 1..Len(pending_queue') :
            pending_queue'[i] # None => pending_queue'[i] \in Samples /\ pending_queue'[i] # h
      BY <1>1, <1>5 DEF FeedInv
    <3>2. \A i \in 1..Len(pending_queue') :
            pending_queue'[i] # None => stage'[pending_queue'[i]] = "pending"
      BY <1>1, <2>2, <3>1 DEF FeedInv
    <3>3. \A i, j \in 1..Len(pending_queue') :
            pending_queue'[i] = pending_queue'[j] /\ pending_queue'[i] # None => i = j
      BY <1>1 DEF FeedInv
    <3>4. \A s \in Samples : stage[s] \in {"unfed", "drawn"} => stage'[s] = stage[s]
      BY <2>1, <2>2
    <3>5. \A s \in Samples : stage'[s] = "drawn" => stage[s] = "drawn"
      BY <2>2
    <3>6. global_steps \in Samples
      BY DEF TypeOK
    <3> QED BY <1>0, <3>2, <3>3, <3>4, <3>5, <3>6 DEF FeedInv
  <2>6. QueueInv'
    <3>1. \A i \in 1..Len(queue) : queue[i] # None => queue[i] \in Samples
      BY DEF TypeOK
    <3> QED BY <1>0, <2>1, <2>2, <3>1 DEF QueueInv
  <2>7. BudgetInv' /\ OnPolicyInv'
    <3>1. /\ Cardinality(Outstanding') <= Cardinality(Outstanding) + 1
          /\ Cardinality(Outstanding) \in Nat /\ Cardinality(Outstanding') \in Nat
      BY <2>1, <2>2, SetTypes, CardinalityAdd, SampleSets
    <3> QED BY <1>0, <2>1, <3>1, ConstantTypes DEF BudgetInv, OnPolicyInv, TypeOK
  <2> QED BY <1>0, <1>3, <2>1, <2>2, <2>3, <2>4, <2>5, <2>6, <2>7 DEF PauseConsistent,
            TaskInv, LockInv, ResetInv, TakenInv, SyncOpen
<1> QED BY <1>4, <1>5

\* Submitting the sample in hand preserves the invariant.
LEMMA ProcSubmitPreserves ==
  ASSUME IInv, ProcSubmit, UNCHANGED trainerVars
  PROVE  IInv'
<1> USE DEF IInv
<1>0. /\ UNCHANGED <<queue, dropped_samples, reset, pending_queue, global_steps, feedPc,
                     staleness_samples, resetActive, resetQueueSize, procQueueSize, monPc,
                     monQueueSize, mainPc, running, paused, resume_event, lock>>
      /\ UNCHANGED <<trainPc, collected, local_trigger_step, current_param_version,
                     trained, stopping, last_ckpt_version, savedTrained>>
      /\ procPc = "submit" /\ procPc' = "top" /\ lock = "free"
  BY DEF ProcSubmit, mqVars, resetVars, feedVars, monVars, mainVars, pauseVars, trainerVars
<1>1. PICK s \in Samples : /\ stage[s] = "hand"
                           /\ active_tasks' = active_tasks \cup {s}
                           /\ stage' = [stage EXCEPT ![s] = "gen"]
  BY DEF ProcSubmit, In
<1>2. /\ Outstanding' = Outstanding /\ Queued' = Queued /\ Taken' = Taken
      /\ Running' = Running \cup {s}
      /\ \A t \in Samples : t # s => stage'[t] = stage[t]
      /\ stage'[s] = "gen"
      /\ stage' \in [Samples -> Stages]
  <2>1. s \in Outstanding /\ s \notin Queued \cup Taken
    BY <1>1 DEF Outstanding, Queued, Taken, In
  <2>2. "gen" \in Stages
    BY DEF Stages
  <2>3. /\ Outstanding' = Outstanding \cup {s}
        /\ Queued' = Queued \ {s} /\ Taken' = Taken \ {s} /\ Running' = Running \cup {s}
        /\ \A t \in Samples : t # s => stage'[t] = stage[t]
        /\ stage'[s] = "gen"
        /\ stage' \in [Samples -> Stages]
    BY <1>1, <2>2, MoveSets
  <2> QED BY <2>1, <2>3
<1>3. Cardinality(active_tasks') <= MaxConcurrent /\ active_tasks' \subseteq Samples
  <2>1. /\ active_tasks \in SUBSET Samples /\ active_tasks' \in SUBSET Samples
        /\ Cardinality(active_tasks) < MaxConcurrent
    BY <1>0, <1>1 DEF TypeOK, TaskInv
  <2>2. Cardinality(active_tasks') <= Cardinality(active_tasks) + 1
    BY <1>1, <2>1, CardinalityAdd
  <2>3. Cardinality(active_tasks) \in Nat /\ Cardinality(active_tasks') \in Nat
    BY <2>1, SampleSets
  <2> QED BY <2>1, <2>2, <2>3, ConstantTypes
<1>4. TypeOK'
  BY <1>0, <1>2, <1>3 DEF TypeOK, ProcStates
<1>5. ~paused
  BY <1>0 DEF PauseConsistent
<1>6. HandInv'
  BY <1>1, <1>2 DEF HandInv
<1>7. FeedInv'
  <2>1. \A i \in 1..Len(pending_queue) : pending_queue[i] # None => pending_queue[i] \in Samples
    BY DEF TypeOK
  <2> QED BY <1>0, <1>1, <1>2, <2>1 DEF FeedInv
<1>8. QueueInv'
  <2>1. \A i \in 1..Len(queue) : queue[i] # None => queue[i] \in Samples
    BY DEF TypeOK
  <2> QED BY <1>0, <1>1, <1>2, <2>1 DEF QueueInv
<1> QED BY <1>0, <1>1, <1>2, <1>4, <1>5, <1>6, <1>7, <1>8 DEF PauseConsistent, TaskInv,
          LockInv, ResetInv, TakenInv, SyncOpen, BudgetInv, OnPolicyInv

\* Collecting finished tasks, which reset_staleness's lock forbids while it
\* counts, preserves the invariant.
LEMMA ProcCollectPreserves ==
  ASSUME IInv, ProcDrainCollect \/ ProcWaited, UNCHANGED trainerVars
  PROVE  IInv'
<1> USE DEF IInv
<1>0. /\ UNCHANGED <<stage, queue, dropped_samples, reset, pending_queue, global_steps,
                     feedPc, staleness_samples, resetActive, resetQueueSize,
                     procQueueSize, monPc, monQueueSize, mainPc, running, paused,
                     resume_event>>
      /\ UNCHANGED <<trainPc, collected, local_trigger_step, current_param_version,
                     trained, stopping, last_ckpt_version, savedTrained>>
  BY DEF ProcDrainCollect, ProcWaited, shared, mqVars, resetVars, feedVars, monVars,
    mainVars, pauseVars, trainerVars
<1>1. PICK D \in SUBSET (active_tasks \ Running) : active_tasks' = active_tasks \ D
  BY DEF ProcDrainCollect, ProcWaited, DoneTasks
<1>2. /\ procPc' \in {"failed", "top", "drain", "limit", "finish"} /\ lock' = "free"
      /\ procPc = "limitWait" => procPc' \in {"failed", "limit"}
      /\ paused => procPc' \in {"failed", "drain"}
      /\ reset \notin {"query", "assign"}
      /\ procPc \in {"drain", "limitWait", "finishWait"}
      /\ procPc' = "top" => procPc = "drain"
    BY DEF ProcDrainCollect, ProcWaited, LockInv, PauseConsistent, TypeOK
<1>3. /\ active_tasks' \subseteq Samples /\ Running \subseteq active_tasks'
      /\ Cardinality(active_tasks') <= MaxConcurrent
  <2>1. Cardinality(active_tasks') <= Cardinality(active_tasks)
    BY <1>1, CardinalityMonotone DEF TypeOK
  <2>2. Cardinality(active_tasks') \in Nat /\ Cardinality(active_tasks) \in Nat
    BY <1>1, SampleSets DEF TypeOK
  <2> QED BY <1>1, <2>1, <2>2, ConstantTypes DEF TypeOK, TaskInv
<1>4. TypeOK'
  BY <1>0, <1>2, <1>3 DEF TypeOK, ProcStates
<1>5. HandInv'
  BY <1>0, <1>2 DEF HandInv
<1>6. LockInv' /\ ResetInv'
  BY <1>0, <1>2 DEF LockInv, ResetInv
<1> QED BY <1>0, <1>2, <1>3, <1>4, <1>5, <1>6, SetsFrame DEF PauseConsistent, TaskInv,
          FeedInv, QueueInv, TakenInv, SyncOpen, BudgetInv, OnPolicyInv

-----------------------------------------------------------------------------
(* _process_single_sample_streaming and put_sample *)

\* The end of a generation, successful or not, preserves the invariant.
LEMMA TaskReturnsPreserves ==
  ASSUME IInv, NEW s \in Samples, TaskGenerated(s) \/ TaskFailed(s), UNCHANGED trainerVars
  PROVE  IInv'
<1> USE DEF IInv
<1>0. /\ UNCHANGED <<pending_queue, global_steps, feedPc, procPc, procQueueSize, monPc,
                     monQueueSize, mainPc, running, active_tasks, staleness_samples,
                     paused, resume_event, lock, resetActive, resetQueueSize>>
      /\ UNCHANGED <<trainPc, collected, local_trigger_step, current_param_version,
                     trained, stopping, last_ckpt_version, savedTrained>>
      /\ UNCHANGED <<queue, dropped_samples, reset>>
      /\ stage[s] = "gen"
  BY DEF TaskGenerated, TaskFailed, mqVars, rollouterVars, feedVars, procVars, monVars, mainVars, pauseVars, resetVars,
    trainerVars
<1>1. PICK a \in {"ready", "failed"} : stage' = [stage EXCEPT ![s] = a]
  BY DEF TaskGenerated, TaskFailed
<1>2. s \in Outstanding /\ s \in Running /\ s \notin Queued \cup Taken
  BY <1>0 DEF Outstanding, Queued, Taken, Running, In
<1>3. /\ Outstanding' \subseteq Outstanding /\ Queued' = Queued /\ Taken' = Taken
      /\ Running' \subseteq Running
      /\ \A t \in Samples : t # s => stage'[t] = stage[t]
      /\ stage'[s] \in {"ready", "failed"}
      /\ stage' \in [Samples -> Stages]
  <2>1. a \in Stages
    BY DEF Stages
  <2>2. /\ Outstanding' = Outstanding \cup {s} \/ Outstanding' = Outstanding \ {s}
        /\ Queued' = Queued \ {s} /\ Taken' = Taken \ {s}
        /\ Running' = Running \cup {s} \/ Running' = Running \ {s}
        /\ \A t \in Samples : t # s => stage'[t] = stage[t]
        /\ stage'[s] = a
        /\ stage' \in [Samples -> Stages]
    BY <1>1, <2>1, MoveSets
  <2> QED BY <1>2, <2>2
<1>4. TypeOK'
  BY <1>0, <1>3 DEF TypeOK
<1>5. TaskInv' /\ HandInv'
  BY <1>0, <1>3 DEF TaskInv, HandInv
<1>6. FeedInv'
  <2>1. /\ \A i \in 1..Len(pending_queue) :
             pending_queue[i] # None => pending_queue[i] \in Samples
        /\ global_steps \in Samples
    BY DEF TypeOK
  <2> QED BY <1>0, <1>3, <2>1 DEF FeedInv
<1>7. QueueInv'
  <2>1. \A i \in 1..Len(queue) : queue[i] # None => queue[i] \in Samples
    BY DEF TypeOK
  <2> QED BY <1>0, <1>3, <2>1 DEF QueueInv
<1>8. BudgetInv' /\ OnPolicyInv'
  <2>1. /\ Cardinality(Outstanding') <= Cardinality(Outstanding)
        /\ Cardinality(Outstanding) \in Nat /\ Cardinality(Outstanding') \in Nat
    BY <1>3, SetTypes, CardinalityMonotone, SampleSets
  <2> QED BY <1>0, <2>1, ConstantTypes DEF BudgetInv, OnPolicyInv, TypeOK
<1> QED BY <1>0, <1>3, <1>4, <1>5, <1>6, <1>7, <1>8 DEF PauseConsistent, LockInv,
          ResetInv, TakenInv, SyncOpen

\* How many items a put displaces.
Excess(q, cap) == IF IsFull(q, cap) THEN 1 ELSE 0

\* The contents of the deque after a put.
LEMMA PushContents ==
  ASSUME NEW T, NEW q \in Seq(T), NEW x \in T, NEW cap \in Nat \ {0}, Len(q) <= cap
  PROVE  /\ PushDropOldest(q, cap, x) \in Seq(T)
         /\ Len(PushDropOldest(q, cap, x)) <= cap
         /\ Len(PushDropOldest(q, cap, x)) = Len(q) - Excess(q, cap) + 1
         /\ \A i \in 1..(Len(q) - Excess(q, cap)) :
              PushDropOldest(q, cap, x)[i] = q[i + Excess(q, cap)]
         /\ PushDropOldest(q, cap, x)[Len(q) - Excess(q, cap) + 1] = x
<1> USE DEF Excess
<1>1. CASE IsFull(q, cap)
  <2>1. Len(q) = cap /\ q # <<>>
    BY <1>1 DEF IsFull
  <2>2. /\ Tail(q) \in Seq(T) /\ Len(Tail(q)) = Len(q) - 1
        /\ \A i \in 1..(Len(q) - 1) : Tail(q)[i] = q[i + 1]
    BY <2>1
  <2>3. PushDropOldest(q, cap, x) = Append(Tail(q), x)
    BY <1>1 DEF PushDropOldest
  <2> HIDE DEF IsFull, PushDropOldest
  <2> QED BY <1>1, <2>1, <2>2, <2>3
<1>2. CASE ~IsFull(q, cap)
  <2>1. PushDropOldest(q, cap, x) = Append(q, x) /\ Len(q) < cap
    BY <1>2 DEF PushDropOldest, IsFull
  <2> QED BY <1>2, <2>1
<1> QED BY <1>1, <1>2

\* put_sample keeps the queue's invariant, loses no account of a sample, and adds
\* to the queue only a sample of active_tasks (or the end signal).
LEMMA PutSampleQueue ==
  ASSUME IInv, NEW x \in Samples \cup {None}, PutSample(x),
         x # None => stage[x] = "ready",
         UNCHANGED <<pending_queue, global_steps, feedPc>>
  PROVE  /\ queue' \in Seq(Samples \cup {None}) /\ Len(queue') <= MaxRequired
         /\ stage' \in [Samples -> Stages]
         /\ dropped_samples' \in Nat
         /\ QueueInv' /\ FeedInv'
         /\ Outstanding' = Outstanding /\ Taken' = Taken
         /\ Queued' \ active_tasks \subseteq Queued \ active_tasks
         /\ Running' \subseteq Running
         /\ \A s \in Samples : stage'[s] = "hand" <=> stage[s] = "hand"
<1> USE DEF IInv
<1> DEFINE full == IsFull(queue, MaxRequired)
           d == Excess(queue, MaxRequired)
<1>1. /\ queue' = PushDropOldest(queue, MaxRequired, x)
      /\ dropped_samples' = dropped_samples + d
      /\ stage' = [s \in Samples |-> IF full /\ s = Head(queue) THEN "lost"
                                     ELSE IF s = x THEN "queued" ELSE stage[s]]
  BY DEF PutSample, Excess
<1>2. /\ queue' \in Seq(Samples \cup {None}) /\ Len(queue') <= MaxRequired
      /\ Len(queue') = Len(queue) - d + 1
      /\ \A i \in 1..(Len(queue) - d) : queue'[i] = queue[i + d]
      /\ queue'[Len(queue')] = x
  <2>1. queue \in Seq(Samples \cup {None}) /\ Len(queue) <= MaxRequired
    BY DEF TypeOK
  <2> DEFINE T == Samples \cup {None}
  <2>2. queue \in Seq(T) /\ x \in T /\ MaxRequired \in Nat \ {0}
    BY <2>1, ConstantTypes
  <2> HIDE DEF T
  <2>3. /\ queue' \in Seq(T) /\ Len(queue') <= MaxRequired
        /\ Len(queue') = Len(queue) - d + 1
        /\ \A i \in 1..(Len(queue) - d) : queue'[i] = queue[i + d]
        /\ queue'[Len(queue) - d + 1] = x
    BY <1>1, <2>1, <2>2, PushContents
  <2> QED BY <2>3 DEF T
<1>3. full => Len(queue) >= 1 /\ Head(queue) = queue[1]
  BY ConstantTypes DEF IsFull, TypeOK
<1>4. Len(queue) \in Nat /\ d \in {0, 1} /\ d <= Len(queue)
  BY <1>3 DEF TypeOK, Excess
<1>5. \A i \in 1..Len(queue) : queue[i] # None => /\ queue[i] \in Samples
                                                  /\ stage[queue[i]] = "queued"
                                                  /\ queue[i] # x
  BY DEF TypeOK, QueueInv
<1>6. full => Head(queue) = None \/ /\ Head(queue) \in Samples
                                    /\ stage[Head(queue)] = "queued" /\ Head(queue) # x
  BY <1>3, <1>4, <1>5
<1>7. None \notin Samples
  BY NoneAssumption DEF Samples
<1>8. \A s \in Samples :
         stage'[s] = IF full /\ s = Head(queue) THEN "lost"
                     ELSE IF s = x THEN "queued" ELSE stage[s]
  BY <1>1
<1>9. stage' \in [Samples -> Stages] /\ dropped_samples' \in Nat
  BY <1>1, <1>4 DEF TypeOK, Stages
<1> HIDE DEF full, d
<1>10. QueueInv'
  <2>1. \A i \in 1..Len(queue') : queue'[i] # None => stage'[queue'[i]] = "queued"
    <3> SUFFICES ASSUME NEW i \in 1..Len(queue'), queue'[i] # None
                 PROVE  stage'[queue'[i]] = "queued"
      OBVIOUS
    <3>1. CASE i = Len(queue')
      <4>1. queue'[i] = x /\ x \in Samples /\ stage[x] = "ready"
        BY <1>2, <3>1
      <4>2. ~(full /\ x = Head(queue))
        BY <1>6, <4>1, <1>7
      <4> QED BY <1>8, <4>1, <4>2
    <3>2. CASE i # Len(queue')
      <4>1. /\ i \in 1..(Len(queue) - d) /\ i + d \in 1..Len(queue)
            /\ queue'[i] = queue[i + d]
        BY <1>2, <1>4, <3>2
      <4>2. /\ queue'[i] \in Samples /\ stage[queue'[i]] = "queued" /\ queue'[i] # x
        BY <1>5, <4>1
      <4>3. full => queue'[i] # Head(queue)
        <5> SUFFICES ASSUME full PROVE queue'[i] # Head(queue)
          OBVIOUS
        <5>1. d = 1
          BY DEF d, full, Excess
        <5>2. i + d # 1 /\ 1 \in 1..Len(queue)
          BY <1>3, <1>4, <4>1, <5>1
        <5>3. queue[i + d] # queue[1]
          BY <4>1, <5>2 DEF QueueInv
        <5> QED BY <1>3, <4>1, <5>3
      <4> QED BY <1>8, <4>2, <4>3
    <3> QED BY <3>1, <3>2
  <2>2. \A i, j \in 1..Len(queue') : queue'[i] = queue'[j] /\ queue'[i] # None => i = j
    <3>1. \A i \in 1..Len(queue') : i # Len(queue') =>
             /\ i + d \in 1..Len(queue) /\ queue'[i] = queue[i + d]
      BY <1>2, <1>4
    <3>2. \A i \in 1..Len(queue') : i # Len(queue') /\ queue'[i] # None => queue'[i] # x
      BY <1>5, <3>1
    <3> SUFFICES ASSUME NEW i \in 1..Len(queue'), NEW j \in 1..Len(queue'),
                        queue'[i] = queue'[j], queue'[i] # None
                 PROVE  i = j
      OBVIOUS
    <3>3. CASE i = Len(queue') \/ j = Len(queue')
      BY <1>2, <3>2, <3>3
    <3>4. CASE i # Len(queue') /\ j # Len(queue')
      <4>1. i + d = j + d
        BY <3>1, <3>4 DEF QueueInv
      <4> QED BY <1>4, <4>1
    <3> QED BY <3>3, <3>4
  <2>3. \A s \in Samples : stage'[s] = "queued" => \E i \in 1..Len(queue') : queue'[i] = s
    <3> SUFFICES ASSUME NEW s \in Samples, stage'[s] = "queued"
                 PROVE  \E i \in 1..Len(queue') : queue'[i] = s
      OBVIOUS
    <3>0. Len(queue') \in 1..Len(queue')
      BY <1>2, <1>4
    <3>1. CASE s = x
      BY <1>2, <3>0, <3>1
    <3>2. CASE s # x
      <4>1. stage[s] = "queued" /\ ~(full /\ s = Head(queue))
        BY <1>8, <3>2
      <4>2. PICK k \in 1..Len(queue) : queue[k] = s
        BY <4>1 DEF QueueInv
      <4>3. k > d
        BY <1>3, <1>4, <4>1, <4>2 DEF d, full, Excess
      <4>4. /\ k - d \in 1..(Len(queue) - d) /\ k - d \in 1..Len(queue')
            /\ (k - d) + d = k
        BY <1>2, <1>4, <4>3
      <4>5. queue'[k - d] = s
        BY <1>2, <4>2, <4>4
      <4> QED BY <4>4, <4>5
    <3> QED BY <3>1, <3>2
  <2> QED BY <2>1, <2>2, <2>3 DEF QueueInv
<1>11. FeedInv'
  <2>1. \A i \in 1..Len(pending_queue) : pending_queue[i] # None => pending_queue[i] \in Samples
    BY DEF TypeOK
  <2>2. \A s \in Samples : stage[s] \in {"pending", "drawn", "unfed"} => stage'[s] = stage[s]
    BY <1>6, <1>7, <1>8
  <2>3. \A s \in Samples : stage'[s] = "drawn" => stage[s] = "drawn"
    BY <1>6, <1>7, <1>8
  <2>4. global_steps \in Samples
    BY DEF TypeOK
  <2> QED BY <2>1, <2>2, <2>3, <2>4 DEF FeedInv
<1>12. /\ Outstanding' = Outstanding /\ Taken' = Taken /\ Running' \subseteq Running
       /\ \A s \in Samples : stage'[s] = "hand" <=> stage[s] = "hand"
  BY <1>6, <1>8, <1>7 DEF Outstanding, Taken, Running, In
<1>13. Queued' \ active_tasks \subseteq Queued \ active_tasks
  <2>1. x # None => x \in active_tasks
    BY DEF TaskInv, Running, In
  <2> QED BY <1>7, <1>8, <2>1 DEF Queued, In
<1> QED BY <1>2, <1>9, <1>10, <1>11, <1>12, <1>13

\* The put at the end of a task, and the put of the end signal, preserve the
\* invariant.
LEMMA PutStepPreserves ==
  ASSUME IInv, MainSentinel \/ \E s \in Samples : TaskPut(s), UNCHANGED trainerVars
  PROVE  IInv'
<1> USE DEF IInv
<1>0. /\ UNCHANGED <<pending_queue, global_steps, feedPc, procPc, procQueueSize, monPc,
                     monQueueSize, running, active_tasks, staleness_samples,
                     paused, resume_event, lock, resetActive, resetQueueSize, reset>>
      /\ UNCHANGED <<trainPc, collected, local_trigger_step, current_param_version,
                     trained, stopping, last_ckpt_version, savedTrained>>
      /\ mainPc' \in {mainPc, "stop"}
  BY DEF MainSentinel, TaskPut, rollouterVars, feedVars, procVars, monVars, mainVars,
    pauseVars, resetVars, trainerVars
<1>1. PICK x \in Samples \cup {None} : PutSample(x) /\ (x # None => stage[x] = "ready")
  BY DEF MainSentinel, TaskPut
<1>2. /\ queue' \in Seq(Samples \cup {None}) /\ Len(queue') <= MaxRequired
      /\ stage' \in [Samples -> Stages]
      /\ dropped_samples' \in Nat
      /\ QueueInv' /\ FeedInv'
      /\ Outstanding' = Outstanding /\ Taken' = Taken
      /\ Queued' \ active_tasks \subseteq Queued \ active_tasks
      /\ Running' \subseteq Running
      /\ \A s \in Samples : stage'[s] = "hand" <=> stage[s] = "hand"
  BY <1>0, <1>1, PutSampleQueue
<1>3. TypeOK'
  BY <1>0, <1>2 DEF TypeOK
<1>4. ResetInv'
  <2>1. Cardinality(Queued' \ active_tasks) <= Cardinality(Queued \ active_tasks)
    BY <1>2, SetTypes, CardinalityMonotone
  <2>2. /\ Cardinality(Queued \ active_tasks) \in Nat
        /\ Cardinality(Queued' \ active_tasks) \in Nat
    <3>1. /\ Queued \ active_tasks \in SUBSET Samples
          /\ Queued' \ active_tasks \in SUBSET Samples
      BY <1>2, SetTypes
    <3> QED BY <3>1, SampleSets
  <2> QED BY <1>0, <2>1, <2>2 DEF ResetInv, TypeOK
<1>5. TaskInv' /\ HandInv'
  BY <1>0, <1>2 DEF TaskInv, HandInv
<1> QED BY <1>0, <1>2, <1>3, <1>4, <1>5 DEF PauseConsistent, LockInv, TakenInv, SyncOpen,
          BudgetInv, OnPolicyInv

-----------------------------------------------------------------------------
(* reset_staleness *)

\* Taking the lock, counting active_tasks and asking for the size of the queue
\* preserve the invariant.
LEMMA ResetCountPreserves ==
  ASSUME IInv, ResetBegin \/ ResetQuery, UNCHANGED trainerVars
  PROVE  IInv'
<1> USE DEF IInv
<1>0. /\ UNCHANGED <<stage, queue, dropped_samples, pending_queue, global_steps, feedPc,
                     procPc, procQueueSize, monPc, monQueueSize, mainPc, running,
                     active_tasks, staleness_samples>>
      /\ UNCHANGED <<trainPc, collected, local_trigger_step, current_param_version,
                     trained, stopping, last_ckpt_version, savedTrained>>
  BY DEF ResetBegin, ResetQuery, mqVars, feedVars, procVars, monVars, mainVars, trainerVars
<1>1. Cardinality(active_tasks) \in Nat
  BY SampleSets DEF TypeOK
<1>2. /\ reset \in {"called", "query"} /\ reset' \in {"query", "assign"}
      /\ lock' = "reset" /\ procPc \notin {"limitWait", "finishWait"}
      /\ resetActive' = Cardinality(active_tasks)
      /\ resetQueueSize' \in Nat
      /\ reset' = "assign" => resetQueueSize' = Len(queue)
  BY <1>1 DEF ResetBegin, ResetQuery, LockInv, ResetInv, TypeOK
<1>3. \/ paused' = FALSE /\ resume_event' = TRUE
      \/ paused' = paused /\ resume_event' = resume_event
  BY DEF ResetBegin, ResetQuery, pauseVars
<1>4. Cardinality(Queued \ active_tasks) <= Len(queue)
  <2>1. Queued \ active_tasks \in SUBSET Queued /\ Queued \in SUBSET Samples
    BY SetTypes
  <2>2. Cardinality(Queued \ active_tasks) <= Cardinality(Queued)
    BY <2>1, CardinalityMonotone
  <2>3. /\ Cardinality(Queued \ active_tasks) \in Nat /\ Cardinality(Queued) \in Nat
        /\ Len(queue) \in Nat
    BY <2>1, SampleSets DEF TypeOK
  <2> QED BY <2>2, <2>3, QueueCardinality
<1>5. TypeOK'
  <2>1. paused \in BOOLEAN /\ resume_event \in BOOLEAN
    BY DEF TypeOK
  <2>2. paused' \in BOOLEAN /\ resume_event' \in BOOLEAN
    BY <1>3, <2>1, Zenon
  <2> QED BY <1>0, <1>1, <1>2, <2>2 DEF TypeOK
<1>6. ResetInv' /\ LockInv'
  BY <1>0, <1>2, <1>4, SetsFrame DEF ResetInv, LockInv
<1>7. TakenInv'
  BY <1>0, <1>2, SetsFrame DEF TakenInv, SyncOpen
<1>8. PauseConsistent'
  <2>1. CASE paused' = FALSE /\ resume_event' = TRUE
    BY <2>1 DEF PauseConsistent
  <2>2. CASE paused' = paused /\ resume_event' = resume_event
    BY <1>0, <2>2 DEF PauseConsistent
  <2> QED BY <1>3, <2>1, <2>2
<1> QED BY <1>0, <1>5, <1>6, <1>7, <1>8, SetsFrame DEF TaskInv, HandInv, FeedInv, QueueInv,
          BudgetInv, OnPolicyInv

\* What reset_staleness carries over: no more than one sample beyond the number
\* that it assigns, and no more than the version's budget leaves.
LEMMA CarriedBounds ==
  ASSUME IInv, reset = "assign"
  PROVE  /\ Carried \in SUBSET Samples /\ Cardinality(Carried) \in Nat
         /\ Carried \subseteq Outstanding
         /\ Cardinality(Carried) <= resetActive + resetQueueSize + 1
         /\ Cardinality(Carried) + Cardinality(Taken) <= Cardinality(Outstanding)
         /\ ~stopping => Cardinality(Taken) = SamplesPerVersion
<1> USE DEF IInv
<1> DEFINE Hand == In({"hand"})
           Rest == Queued \ active_tasks
<1>1. /\ Carried \in SUBSET Samples /\ Hand \in SUBSET Samples /\ Rest \in SUBSET Samples
      /\ active_tasks \in SUBSET Samples /\ Taken \in SUBSET Samples
      /\ Outstanding \in SUBSET Samples
  BY SetTypes DEF Carried, In, TypeOK
<1>2. Carried \subseteq Hand \cup (active_tasks \cup Rest)
  BY DEF Carried, Queued, In, TaskInv, Running
<1>3. Carried \subseteq Outstanding /\ Carried \cup Taken \subseteq Outstanding
      /\ Carried \cap Taken = {}
  BY DEF Carried, Outstanding, Taken, In
<1>4. \A s, t \in Hand : s = t
  BY DEF HandInv, In
<1> HIDE DEF Hand, Rest
<1>5. Cardinality(Hand) <= 1
  BY <1>1, <1>4, CardinalityAtMostOne
<1>6. resetActive = Cardinality(active_tasks) /\ Cardinality(Rest) <= resetQueueSize
  BY DEF ResetInv, Rest
<1>7. /\ Cardinality(active_tasks \cup Rest) <= Cardinality(active_tasks) + Cardinality(Rest)
      /\ active_tasks \cup Rest \in SUBSET Samples
  BY <1>1, CardinalityUnion
<1>8. /\ Cardinality(Hand \cup (active_tasks \cup Rest))
           <= Cardinality(Hand) + Cardinality(active_tasks \cup Rest)
      /\ Hand \cup (active_tasks \cup Rest) \in SUBSET Samples
  BY <1>1, <1>7, CardinalityUnion
<1>9. Cardinality(Carried) <= Cardinality(Hand \cup (active_tasks \cup Rest))
  BY <1>2, <1>8, CardinalityMonotone
<1>10. /\ Cardinality(Carried \cup Taken) = Cardinality(Carried) + Cardinality(Taken)
       /\ Cardinality(Carried \cup Taken) <= Cardinality(Outstanding)
  BY <1>1, <1>3, CardinalityUnion, CardinalityMonotone
<1>11. /\ Cardinality(Hand) \in Nat /\ Cardinality(Rest) \in Nat
       /\ Cardinality(active_tasks) \in Nat /\ Cardinality(Carried) \in Nat
       /\ Cardinality(active_tasks \cup Rest) \in Nat
       /\ Cardinality(Hand \cup (active_tasks \cup Rest)) \in Nat
  BY <1>1, <1>7, <1>8, SampleSets
<1>12. resetQueueSize \in Nat
  BY DEF TypeOK
<1>13. Cardinality(Carried) <= resetActive + resetQueueSize + 1
  BY <1>5, <1>6, <1>7, <1>8, <1>9, <1>11, <1>12
<1>14. ~stopping => Cardinality(Taken) = SamplesPerVersion
  BY DEF TakenInv, SyncOpen
<1> QED BY <1>1, <1>3, <1>10, <1>11, <1>13, <1>14

\* Assigning staleness_samples preserves the invariant.
LEMMA ResetEndPreserves ==
  ASSUME IInv, ResetEnd, UNCHANGED trainerVars
  PROVE  IInv'
<1> USE DEF IInv
<1>0. /\ UNCHANGED <<queue, dropped_samples, pending_queue, global_steps, feedPc,
                     procPc, procQueueSize, monPc, monQueueSize, mainPc, running,
                     paused, resume_event, active_tasks>>
      /\ UNCHANGED <<trainPc, collected, local_trigger_step, current_param_version,
                     trained, stopping, last_ckpt_version, savedTrained>>
      /\ reset = "assign" /\ reset' = "idle" /\ lock' = "free"
      /\ resetActive' = 0 /\ resetQueueSize' = 0
      /\ staleness_samples' = resetActive + resetQueueSize
      /\ stage' = [s \in Samples |->
                     IF stage[s] \in {"taken", "lost"} THEN "spent" ELSE stage[s]]
  BY DEF ResetEnd, mqVars, feedVars, procVars, monVars, mainVars, pauseVars, trainerVars
<1>1. /\ Outstanding' = Carried /\ Taken' = {} /\ Running' = Running
      /\ \A s \in Samples : stage[s] \in {"taken", "lost"} => stage'[s] = "spent"
      /\ \A s \in Samples : stage[s] \notin {"taken", "lost"} => stage'[s] = stage[s]
  BY <1>0 DEF Outstanding, Carried, Taken, Running, In
<1>2. TypeOK'
  BY <1>0 DEF TypeOK, Stages
<1>3. HandInv'
  BY <1>0, <1>1 DEF HandInv
<1>4. FeedInv'
  <2>1. /\ \A i \in 1..Len(pending_queue) :
             pending_queue[i] # None => pending_queue[i] \in Samples
        /\ global_steps \in Samples
    BY DEF TypeOK
  <2> QED BY <1>0, <1>1, <2>1 DEF FeedInv
<1>5. QueueInv'
  <2>1. \A i \in 1..Len(queue) : queue[i] # None => queue[i] \in Samples
    BY DEF TypeOK
  <2> QED BY <1>0, <1>1, <2>1 DEF QueueInv
<1>6. LockInv' /\ ResetInv'
  BY <1>0 DEF LockInv, ResetInv
<1>7. TakenInv'
  <2>1. trainPc = "reset" /\ collected = 0 /\ local_trigger_step = 1
    BY <1>0 DEF LockInv, TakenInv
  <2>2. Cardinality(Taken') = 0
    BY <1>1, FS_EmptySet
  <2>3. RequiredSamples * (1 - 1) + 0 = 0
    BY ParameterAssumption
  <2>4. RequiredSamples * (local_trigger_step' - 1) + collected' = 0
    BY <1>0, <2>1, <2>3
  <2> QED BY <1>0, <2>1, <2>2, <2>4, ParameterAssumption DEF TakenInv, SyncOpen
<1>8. /\ Cardinality(Carried) \in Nat /\ Cardinality(Outstanding) \in Nat
      /\ Cardinality(Taken) \in Nat
      /\ Cardinality(Carried) <= resetActive + resetQueueSize + 1
      /\ Cardinality(Carried) + Cardinality(Taken) <= Cardinality(Outstanding)
      /\ ~stopping => Cardinality(Taken) = SamplesPerVersion
      /\ resetActive \in Nat /\ resetQueueSize \in Nat
  BY <1>0, CarriedBounds, SetTypes, SampleSets DEF TypeOK
<1>9. BudgetInv'
  BY <1>0, <1>1, <1>8, ConstantTypes DEF BudgetInv
<1>10. OnPolicyInv'
  <2>1. StaleBudget = 0 /\ ~stopping => Cardinality(Carried) = 0
    BY <1>8, ConstantTypes DEF OnPolicyInv
  <2> QED BY <1>0, <1>1, <1>8, <2>1, ConstantTypes DEF OnPolicyInv
<1> QED BY <1>0, <1>1, <1>2, <1>3, <1>4, <1>5, <1>6, <1>7, <1>9, <1>10
          DEF PauseConsistent, TaskInv

-----------------------------------------------------------------------------
(* FullyAsyncTrainer *)

\* The contents of the queue after a get.
LEMMA TailContents ==
  ASSUME NEW T, NEW q \in Seq(T), q # <<>>
  PROVE  /\ Len(q) \in Nat \ {0} /\ Head(q) = q[1] /\ Head(q) \in T
         /\ Tail(q) \in Seq(T) /\ Len(Tail(q)) = Len(q) - 1
         /\ \A i \in 1..(Len(q) - 1) : Tail(q)[i] = q[i + 1]
OBVIOUS

\* Taking a sample from the queue preserves the invariant.
LEMMA CollectSamplePreserves ==
  ASSUME IInv, CollectSample, UNCHANGED rollouterVars
  PROVE  IInv'
<1> USE DEF IInv
<1>0. /\ UNCHANGED <<pending_queue, global_steps, feedPc, procPc, procQueueSize, monPc,
                     monQueueSize, mainPc, running, active_tasks, staleness_samples,
                     paused, resume_event, lock, resetActive, resetQueueSize>>
      /\ UNCHANGED <<dropped_samples, reset, local_trigger_step, current_param_version,
                     trained, stopping, last_ckpt_version, savedTrained>>
      /\ trainPc = "collect" /\ collected' = collected + 1
      /\ trainPc' = IF collected + 1 < RequiredSamples THEN "collect" ELSE "train"
  BY DEF CollectSample, rollouterVars, feedVars, procVars, monVars, mainVars, pauseVars, resetVars
<1> DEFINE h == Head(queue)
<1>1. /\ Len(queue) \in Nat \ {0} /\ h = queue[1] /\ h \in Samples
      /\ queue' \in Seq(Samples \cup {None}) /\ Len(queue') = Len(queue) - 1
      /\ \A i \in 1..(Len(queue) - 1) : queue'[i] = queue[i + 1]
  <2> DEFINE T == Samples \cup {None}
  <2>1. queue \in Seq(T) /\ queue # <<>> /\ queue' = Tail(queue) /\ h # None
    BY DEF CollectSample, TypeOK
  <2> HIDE DEF T
  <2>2. /\ Len(queue) \in Nat \ {0} /\ h = queue[1] /\ h \in T
        /\ queue' \in Seq(T) /\ Len(queue') = Len(queue) - 1
        /\ \A i \in 1..(Len(queue) - 1) : queue'[i] = queue[i + 1]
    BY <2>1, TailContents
  <2> QED BY <2>1, <2>2 DEF T
<1>2. stage[h] = "queued" /\ stage' = [stage EXCEPT ![h] = "taken"]
  BY <1>1 DEF CollectSample, QueueInv
<1> HIDE DEF h
<1>3. /\ Outstanding' = Outstanding /\ Queued' = Queued \ {h} /\ Taken' = Taken \cup {h}
      /\ Running' = Running
      /\ \A t \in Samples : t # h => stage'[t] = stage[t]
      /\ stage'[h] = "taken"
      /\ stage' \in [Samples -> Stages]
      /\ h \notin Taken
  <2>1. h \in Outstanding /\ h \notin Taken \cup Running
    BY <1>1, <1>2 DEF Outstanding, Taken, Running, In
  <2>2. "taken" \in Stages
    BY DEF Stages
  <2>3. /\ Outstanding' = Outstanding \cup {h}
        /\ Queued' = Queued \ {h} /\ Taken' = Taken \cup {h} /\ Running' = Running \ {h}
        /\ \A t \in Samples : t # h => stage'[t] = stage[t]
        /\ stage'[h] = "taken"
        /\ stage' \in [Samples -> Stages]
    BY <1>1, <1>2, <2>2, MoveSets
  <2> QED BY <2>1, <2>3
<1>4. reset = "idle" /\ collected < RequiredSamples
  BY <1>0 DEF LockInv, TakenInv
<1>5. TypeOK'
  BY <1>0, <1>1, <1>3, <1>4, ConstantTypes, ParameterAssumption DEF TypeOK
<1>6. HandInv'
  BY <1>0, <1>1, <1>2, <1>3 DEF HandInv
<1>7. FeedInv'
  <2>1. \A i \in 1..Len(pending_queue) : pending_queue[i] # None => pending_queue[i] \in Samples
    BY DEF TypeOK
  <2> QED BY <1>0, <1>1, <1>2, <1>3, <2>1 DEF FeedInv
<1>8. QueueInv'
  <2>1. \A i \in 1..Len(queue) : queue[i] # None => queue[i] \in Samples
    BY DEF TypeOK
  <2>2. \A i \in 1..Len(queue') : /\ i + 1 \in 1..Len(queue) /\ queue'[i] = queue[i + 1]
                                  /\ 1 \in 1..Len(queue) /\ i + 1 # 1
    BY <1>1
  <2>3. \A i \in 1..Len(queue') : queue'[i] # None => queue'[i] # h
    BY <1>1, <2>2 DEF QueueInv
  <2>4. \A i \in 1..Len(queue') : queue'[i] # None => stage'[queue'[i]] = "queued"
    BY <1>3, <2>1, <2>2, <2>3 DEF QueueInv
  <2>5. \A i, j \in 1..Len(queue') : queue'[i] = queue'[j] /\ queue'[i] # None => i = j
    <3> SUFFICES ASSUME NEW i \in 1..Len(queue'), NEW j \in 1..Len(queue'),
                        queue'[i] = queue'[j], queue'[i] # None
                 PROVE  i = j
      OBVIOUS
    <3>1. i + 1 = j + 1
      BY <2>2 DEF QueueInv
    <3> QED BY <3>1
  <2>6. \A s \in Samples : stage'[s] = "queued" => \E i \in 1..Len(queue') : queue'[i] = s
    <3> SUFFICES ASSUME NEW s \in Samples, stage'[s] = "queued"
                 PROVE  \E i \in 1..Len(queue') : queue'[i] = s
      OBVIOUS
    <3>1. s # h /\ stage[s] = "queued"
      BY <1>3
    <3>2. PICK k \in 1..Len(queue) : queue[k] = s
      BY <3>1 DEF QueueInv
    <3>3. k - 1 \in 1..Len(queue') /\ k - 1 \in 1..(Len(queue) - 1) /\ (k - 1) + 1 = k
      BY <1>1, <3>1, <3>2
    <3> QED BY <1>1, <3>2, <3>3
  <2> QED BY <2>4, <2>5, <2>6 DEF QueueInv
<1>9. TakenInv'
  <2>1. Cardinality(Taken') = Cardinality(Taken) + 1
    BY <1>1, <1>3, SetTypes, CardinalityAdd
  <2>2. RequiredSamples * (local_trigger_step - 1) \in Nat
    <3>1. local_trigger_step - 1 \in Nat
      BY ParameterAssumption DEF TypeOK
    <3> QED BY <3>1, ParameterAssumption
  <2>3. ~SyncOpen /\ ~SyncOpen'
    BY <1>0, <1>4 DEF SyncOpen
  <2>4. ~stopping' => Cardinality(Taken') =
                        RequiredSamples * (local_trigger_step' - 1) + collected'
    BY <1>0, <2>1, <2>2, <2>3 DEF TakenInv, TypeOK
  <2>5. trainPc' = "train" => collected' = RequiredSamples
    BY <1>0, <1>4, ParameterAssumption DEF TypeOK
  <2> QED BY <1>0, <2>3, <2>4, <2>5 DEF TakenInv
<1>10. LockInv' /\ ResetInv'
  BY <1>0, <1>4 DEF LockInv, ResetInv
<1> QED BY <1>0, <1>3, <1>5, <1>6, <1>7, <1>8, <1>9, <1>10 DEF PauseConsistent, TaskInv,
          BudgetInv, OnPolicyInv

\* Taking the end signal preserves the invariant.
LEMMA CollectNonePreserves ==
  ASSUME IInv, CollectNone, UNCHANGED rollouterVars
  PROVE  IInv'
<1> USE DEF IInv
<1>0. /\ UNCHANGED <<pending_queue, global_steps, feedPc, procPc, procQueueSize, monPc,
                     monQueueSize, mainPc, running, active_tasks, staleness_samples,
                     paused, resume_event, lock, resetActive, resetQueueSize>>
      /\ UNCHANGED <<stage, dropped_samples, reset, local_trigger_step,
                     current_param_version, trained, last_ckpt_version, savedTrained>>
      /\ trainPc = "collect" /\ collected' = 0 /\ stopping' = TRUE
      /\ trainPc' \in {"sync", "save"} /\ (trainPc' = "sync" => local_trigger_step = 1)
  BY DEF CollectNone, rollouterVars, feedVars, procVars, monVars, mainVars, pauseVars, resetVars
<1>1. /\ Len(queue) \in Nat \ {0} /\ queue[1] = None
      /\ queue' \in Seq(Samples \cup {None}) /\ Len(queue') = Len(queue) - 1
      /\ \A i \in 1..(Len(queue) - 1) : queue'[i] = queue[i + 1]
  <2> DEFINE T == Samples \cup {None}
  <2>1. queue \in Seq(T) /\ queue # <<>> /\ queue' = Tail(queue) /\ Head(queue) = None
    BY DEF CollectNone, TypeOK
  <2> HIDE DEF T
  <2>2. /\ Len(queue) \in Nat \ {0} /\ queue[1] = None
        /\ queue' \in Seq(T) /\ Len(queue') = Len(queue) - 1
        /\ \A i \in 1..(Len(queue) - 1) : queue'[i] = queue[i + 1]
    BY <2>1, TailContents
  <2> QED BY <2>2 DEF T
<1>2. reset = "idle"
  BY <1>0 DEF LockInv
<1>3. TypeOK'
  BY <1>0, <1>1, ConstantTypes, ParameterAssumption DEF TypeOK
<1>4. QueueInv'
  <2>1. \A i \in 1..Len(queue') : i + 1 \in 1..Len(queue) /\ queue'[i] = queue[i + 1]
    BY <1>1
  <2>2. \A i, j \in 1..Len(queue') : queue'[i] = queue'[j] /\ queue'[i] # None => i = j
    <3> SUFFICES ASSUME NEW i \in 1..Len(queue'), NEW j \in 1..Len(queue'),
                        queue'[i] = queue'[j], queue'[i] # None
                 PROVE  i = j
      OBVIOUS
    <3>1. i + 1 = j + 1
      BY <2>1 DEF QueueInv
    <3> QED BY <3>1
  <2>3. \A s \in Samples : stage[s] = "queued" => \E i \in 1..Len(queue') : queue'[i] = s
    <3> SUFFICES ASSUME NEW s \in Samples, stage[s] = "queued"
                 PROVE  \E i \in 1..Len(queue') : queue'[i] = s
      OBVIOUS
    <3>1. PICK k \in 1..Len(queue) : queue[k] = s
      BY DEF QueueInv
    <3>2. k # 1
      BY <1>1, <3>1, NoneAssumption DEF Samples
    <3>3. k - 1 \in 1..Len(queue') /\ k - 1 \in 1..(Len(queue) - 1) /\ (k - 1) + 1 = k
      BY <1>1, <3>1, <3>2
    <3>4. queue'[k - 1] = s
      BY <1>1, <3>1, <3>3
    <3> QED BY <3>3, <3>4
  <2>4. \A i \in 1..Len(queue') : queue'[i] # None => stage[queue'[i]] = "queued"
    BY <2>1 DEF QueueInv
  <2>5. stage' = stage
    BY <1>0
  <2> QED BY <2>2, <2>3, <2>4, <2>5 DEF QueueInv
<1>5. LockInv' /\ ResetInv' /\ TakenInv'
  BY <1>0, <1>2 DEF LockInv, ResetInv, TakenInv
<1> QED BY <1>0, <1>3, <1>4, <1>5, SetsFrame DEF PauseConsistent, TaskInv, HandInv, FeedInv,
          BudgetInv, OnPolicyInv

\* The steps of the trainer that leave the samples and the queue alone.
TrainerOwnStep ==
  TrainStep \/ SyncWeights \/ ResetReturned \/ SaveCheckpoint

\* They preserve the invariant: the version's account is closed when its last
\* training step is done.
LEMMA TrainerOwnStepPreserves ==
  ASSUME IInv, TrainerOwnStep, UNCHANGED rollouterVars
  PROVE  IInv'
<1> USE DEF IInv
<1>0. /\ UNCHANGED <<pending_queue, global_steps, feedPc, procPc, procQueueSize, monPc,
                     monQueueSize, mainPc, running, active_tasks, staleness_samples,
                     paused, resume_event, lock, resetActive, resetQueueSize>>
      /\ UNCHANGED <<stage, queue, dropped_samples, stopping>>
  BY DEF TrainerOwnStep, TrainStep, SyncWeights, ResetReturned, SaveCheckpoint, shared,
    mqVars, rollouterVars, feedVars, procVars, monVars, mainVars, pauseVars, resetVars
<1>1. /\ current_param_version' \in Nat /\ trained' \in Nat
      /\ last_ckpt_version' \in Nat /\ savedTrained' \in Nat
  BY DEF TrainerOwnStep, TrainStep, SyncWeights, ResetReturned, SaveCheckpoint, TypeOK
<1>2. /\ reset' = reset \/ (trainPc = "sync" /\ reset' = "called" /\ trainPc' = "reset")
      /\ reset' = reset => trainPc # "sync"
      /\ reset' = reset /\ reset # "idle" => trainPc' = "reset"
  BY DEF TrainerOwnStep, TrainStep, SyncWeights, ResetReturned, SaveCheckpoint, shared,
    LockInv
<1>3. LockInv' /\ ResetInv'
  BY <1>0, <1>2, SetsFrame DEF LockInv, ResetInv
<1>4. /\ trainPc' \in {"collect", "train", "sync", "reset", "save", "done"}
      /\ collected' \in 0..RequiredSamples /\ local_trigger_step' \in 1..TriggerStep
  BY ParameterAssumption DEF TrainerOwnStep, TrainStep, SyncWeights, ResetReturned,
    SaveCheckpoint, TypeOK
<1>5. TypeOK'
  BY <1>0, <1>1, <1>2, <1>4 DEF TypeOK
<1>6. TakenInv'
  <2>1. CASE TrainStep
    <3>1. /\ trainPc = "train" /\ collected = RequiredSamples /\ collected' = 0
          /\ reset = "idle" /\ reset' = "idle"
      BY <2>1 DEF TrainStep, TakenInv, LockInv, shared
    <3>2. ~stopping => Cardinality(Taken) =
                         RequiredSamples * (local_trigger_step - 1) + RequiredSamples
      BY <3>1 DEF TakenInv, SyncOpen
    <3>3. local_trigger_step \in Nat
      BY ParameterAssumption DEF TypeOK
    <3>4. RequiredSamples * (local_trigger_step - 1) + RequiredSamples
            = RequiredSamples * local_trigger_step
      BY <3>3, ParameterAssumption
    <3>5. CASE local_trigger_step < TriggerStep
      <4>1. /\ trainPc' = "save" /\ local_trigger_step' = local_trigger_step + 1
        BY <2>1, <3>5, ParameterAssumption DEF TrainStep, TypeOK
      <4>2. local_trigger_step' - 1 = local_trigger_step
        BY <3>3, <4>1
      <4>3. RequiredSamples * local_trigger_step + 0 = RequiredSamples * local_trigger_step
        BY <3>3, ParameterAssumption
      <4>4. ~SyncOpen'
        BY <3>1, <4>1 DEF SyncOpen
      <4> QED BY <1>0, <3>1, <3>2, <3>4, <4>1, <4>2, <4>3, <4>4, SetsFrame DEF TakenInv
    <3>6. CASE local_trigger_step >= TriggerStep
      <4>1. trainPc' = "sync" /\ local_trigger_step' = 1 /\ local_trigger_step = TriggerStep
        BY <2>1, <3>6, ParameterAssumption DEF TrainStep, TypeOK
      <4>2. SyncOpen'
        BY <4>1 DEF SyncOpen
      <4> QED BY <1>0, <3>1, <3>2, <3>4, <4>1, <4>2, SetsFrame DEF TakenInv, SamplesPerVersion
    <3> QED BY <3>5, <3>6, ParameterAssumption DEF TypeOK
  <2>2. CASE SyncWeights \/ ResetReturned \/ SaveCheckpoint
    <3>1. /\ UNCHANGED <<collected, local_trigger_step>>
          /\ trainPc' \in {"reset", "save", "collect", "done"}
          /\ trainPc \in {"sync", "reset", "save"}
          /\ trainPc' = "reset" => trainPc = "sync"
          /\ SyncOpen' = SyncOpen
      BY <2>2, <1>2 DEF SyncWeights, ResetReturned, SaveCheckpoint, SyncOpen, LockInv, shared
    <3> QED BY <1>0, <3>1, SetsFrame, ParameterAssumption DEF TakenInv
  <2> QED BY <2>1, <2>2 DEF TrainerOwnStep
<1> QED BY <1>0, <1>3, <1>5, <1>6, SetsFrame DEF PauseConsistent, TaskInv, HandInv, FeedInv,
          QueueInv, BudgetInv, OnPolicyInv

-----------------------------------------------------------------------------
(* FullyAsyncTaskRunner *)

\* Clearing the queue at the end preserves the invariant.
LEMMA RunnerClearPreserves ==
  ASSUME IInv, RunnerClear
  PROVE  IInv'
<1> USE DEF IInv
<1>0. /\ UNCHANGED <<pending_queue, global_steps, feedPc, procPc, procQueueSize, monPc,
                     monQueueSize, mainPc, running, active_tasks, staleness_samples,
                     paused, resume_event, lock, resetActive, resetQueueSize>>
      /\ UNCHANGED <<trainPc, collected, local_trigger_step, current_param_version,
                     trained, stopping, last_ckpt_version, savedTrained>>
      /\ UNCHANGED <<dropped_samples, reset>>
      /\ trainPc = "done" /\ queue' = <<>>
      /\ stage' = [s \in Samples |-> IF stage[s] = "queued" THEN "spent" ELSE stage[s]]
  BY DEF RunnerClear, TrainerDone, trainerVars, rollouterVars, feedVars, procVars, monVars, mainVars, pauseVars, resetVars
<1>1. /\ Outstanding' \subseteq Outstanding /\ Taken' = Taken /\ Running' = Running
      /\ \A s \in Samples : stage[s] = "queued" => stage'[s] = "spent"
      /\ \A s \in Samples : stage[s] # "queued" => stage'[s] = stage[s]
  BY <1>0 DEF Outstanding, Taken, Running, In
<1>2. reset = "idle"
  BY <1>0 DEF LockInv
<1>3. TypeOK'
  <2>1. queue' \in Seq(Samples \cup {None}) /\ Len(queue') <= MaxRequired
    BY <1>0, ConstantTypes
  <2> QED BY <1>0, <2>1 DEF TypeOK, Stages
<1>4. HandInv' /\ QueueInv'
  BY <1>0, <1>1 DEF HandInv, QueueInv
<1>5. FeedInv'
  <2>1. /\ \A i \in 1..Len(pending_queue) :
             pending_queue[i] # None => pending_queue[i] \in Samples
        /\ global_steps \in Samples
    BY DEF TypeOK
  <2> QED BY <1>0, <1>1, <2>1 DEF FeedInv
<1>6. BudgetInv' /\ OnPolicyInv'
  <2>1. /\ Cardinality(Outstanding') <= Cardinality(Outstanding)
        /\ Cardinality(Outstanding) \in Nat /\ Cardinality(Outstanding') \in Nat
    BY <1>1, SetTypes, CardinalityMonotone, SampleSets
  <2> QED BY <1>0, <2>1, ConstantTypes DEF BudgetInv, OnPolicyInv, TypeOK
<1> QED BY <1>0, <1>1, <1>2, <1>3, <1>4, <1>5, <1>6 DEF PauseConsistent, TaskInv, LockInv,
          ResetInv, TakenInv, SyncOpen

-----------------------------------------------------------------------------
(* The invariant *)

\* It holds when both actors start.
LEMMA InitImpliesIInv == Init => IInv
<1> SUFFICES ASSUME Init PROVE IInv
  OBVIOUS
<1> USE DEF Init, SharedInit, RollouterInit, TrainerInit
<1>1. Outstanding = {} /\ Queued = {} /\ Taken = {} /\ Running = {}
  BY DEF Outstanding, Queued, Taken, Running, In
<1>2. Cardinality({}) = 0
  BY FS_EmptySet
<1>3. TypeOK
  <2>1. /\ stage \in [Samples -> Stages] /\ global_steps \in Samples
        /\ queue \in Seq(Samples \cup {None}) /\ pending_queue \in Seq(Samples \cup {None})
        /\ Len(queue) = 0 /\ Len(pending_queue) = 0
    BY ParameterAssumption DEF Stages, Samples
  <2>2. Cardinality(active_tasks) <= MaxConcurrent /\ active_tasks \subseteq Samples
    BY <1>2, ConstantTypes
  <2>3. /\ running \in BOOLEAN /\ paused \in BOOLEAN /\ resume_event \in BOOLEAN
        /\ stopping \in BOOLEAN
    BY Zenon
  <2>4. collected \in 0..RequiredSamples /\ local_trigger_step \in 1..TriggerStep
    BY ParameterAssumption
  <2>5. Len(queue) <= MaxRequired /\ Len(pending_queue) <= PendingCapacity
    BY <2>1, ConstantTypes, ParameterAssumption
  <2> QED BY <2>1, <2>2, <2>3, <2>4, <2>5 DEF TypeOK, ProcStates
<1>4. TaskInv /\ HandInv /\ FeedInv /\ QueueInv /\ LockInv /\ ResetInv
  <2>1. TaskInv
    BY <1>1 DEF TaskInv
  <2>2. HandInv /\ FeedInv /\ QueueInv
    BY DEF HandInv, FeedInv, QueueInv
  <2> QED BY <2>1, <2>2 DEF LockInv, ResetInv
<1>5. PauseConsistent
  BY Zenon DEF PauseConsistent
<1>6. TakenInv
  <2>1. RequiredSamples * (1 - 1) + 0 = 0
    BY ParameterAssumption
  <2> QED BY <1>1, <1>2, <2>1, ParameterAssumption DEF TakenInv, SyncOpen
<1>7. BudgetInv /\ OnPolicyInv
  BY <1>1, <1>2, ConstantTypes DEF BudgetInv, OnPolicyInv
<1> QED BY <1>3, <1>4, <1>5, <1>6, <1>7 DEF IInv

\* Every step of the rollouter, of the trainer and of the runner preserves it.
LEMMA NextPreservesIInv == IInv /\ [Next]_vars => IInv'
<1> SUFFICES ASSUME IInv, [Next]_vars PROVE IInv'
  OBVIOUS
<1>1. CASE RollouterNext /\ UNCHANGED trainerVars
  <2>1. CASE QuietStep
    BY <2>1, QuietStepPreserves
  <2>2. CASE FeedStep
    BY <1>1, <2>2, FeedStepPreserves
  <2>3. CASE ProcGet
    BY <1>1, <2>3, ProcGetPreserves
  <2>4. CASE ProcSubmit
    BY <1>1, <2>4, ProcSubmitPreserves
  <2>5. CASE ProcDrainCollect \/ ProcWaited
    BY <1>1, <2>5, ProcCollectPreserves
  <2>6. CASE \E s \in Samples : TaskGenerated(s) \/ TaskFailed(s)
    BY <1>1, <2>6, TaskReturnsPreserves
  <2>7. CASE MainSentinel \/ \E s \in Samples : TaskPut(s)
    BY <1>1, <2>7, PutStepPreserves
  <2>8. CASE ResetBegin \/ ResetQuery
    BY <1>1, <2>8, ResetCountPreserves
  <2>9. CASE ResetEnd
    BY <1>1, <2>9, ResetEndPreserves
  <2>10. CASE ProcStep
    BY <1>1, <2>1, <2>3, <2>4, <2>5, <2>10 DEF ProcStep, QuietStep
  <2>11. CASE MonStep \/ MainStep
    BY <1>1, <2>1, <2>7, <2>11 DEF MainStep, QuietStep
  <2>12. CASE ResetStep
    BY <2>8, <2>9, <2>12 DEF ResetStep
  <2>13. CASE \E s \in Samples : TaskStep(s)
    BY <2>6, <2>7, <2>13 DEF TaskStep
  <2> QED BY <1>1, <2>2, <2>10, <2>11, <2>12, <2>13 DEF RollouterNext
<1>2. CASE TrainerNext /\ UNCHANGED rollouterVars
  <2>1. CASE CollectSample
    BY <1>2, <2>1, CollectSamplePreserves
  <2>2. CASE CollectNone
    BY <1>2, <2>2, CollectNonePreserves
  <2>3. CASE TrainerOwnStep
    BY <1>2, <2>3, TrainerOwnStepPreserves
  <2> QED BY <1>2, <2>1, <2>2, <2>3 DEF TrainerNext, TrainerOwnStep
<1>3. CASE RunnerClear
  BY <1>3, RunnerClearPreserves
<1>4. CASE UNCHANGED vars
  <2>1. /\ UNCHANGED <<stage, queue, dropped_samples, reset, lock, active_tasks,
                       staleness_samples, resetActive, resetQueueSize>>
        /\ UNCHANGED <<pending_queue, global_steps, feedPc, procPc, procQueueSize, monPc,
                       monQueueSize, mainPc, running, paused, resume_event>>
        /\ UNCHANGED <<trainPc, collected, local_trigger_step, current_param_version,
                       trained, stopping, last_ckpt_version, savedTrained>>
    BY <1>4 DEF vars, shared, mqVars, trainerVars, rollouterVars, feedVars, procVars,
      monVars, mainVars, pauseVars, resetVars
  <2> QED BY <2>1, SetsFrame DEF IInv, TypeOK, PauseConsistent, TaskInv, HandInv, FeedInv,
            QueueInv, LockInv, ResetInv, TakenInv, SyncOpen, BudgetInv, OnPolicyInv
<1>5. CASE Finished
  BY <1>4, <1>5 DEF Finished
<1> QED BY <1>1, <1>2, <1>3, <1>4, <1>5 DEF Next

\* Every reachable state satisfies the staleness accounting invariant.
THEOREM InvariantHolds == Spec => []IInv
<1> QED BY InitImpliesIInv, NextPreservesIInv, PTL DEF Spec

\* The shape of the state: the message queue stays within max_queue_size and
\* active_tasks within max_concurrent_samples.
THEOREM TypeCorrect == Spec => []TypeOK
<1>1. IInv => TypeOK
  BY DEF IInv
<1> QED BY <1>1, InvariantHolds, PTL

\* No parameter version is ever charged with more than max_required_samples and
\* one sample.
THEOREM BudgetHolds == Spec => []BudgetBound
<1>1. IInv => BudgetBound
  BY DEF IInv, BudgetInv, BudgetBound
<1> QED BY <1>1, InvariantHolds, PTL

\* paused and _resume_event agree, and a paused processor submits nothing.
THEOREM PauseHolds == Spec => []PauseConsistent
<1>1. IInv => PauseConsistent
  BY DEF IInv
<1> QED BY <1>1, InvariantHolds, PTL

\* What survives a reset_staleness is bounded by the staleness budget, for every
\* threshold, batch size and concurrency limit.
THEOREM CarryOverHolds == Spec => CarryOverBound
<1>1. IInv /\ [Next]_vars =>
        [ResetEnd /\ ~stopping => Cardinality(Carried) <= StaleBudget + 1]_vars
  <2> SUFFICES ASSUME IInv, ResetEnd, ~stopping
               PROVE  Cardinality(Carried) <= StaleBudget + 1
    OBVIOUS
  <2>1. /\ Cardinality(Carried) \in Nat
        /\ Cardinality(Carried) + Cardinality(Taken) <= Cardinality(Outstanding)
        /\ Cardinality(Taken) = SamplesPerVersion
    BY CarriedBounds DEF ResetEnd
  <2>2. Cardinality(Outstanding) <= MaxRequired + 1 /\ Cardinality(Outstanding) \in Nat
    BY SetTypes, SampleSets DEF IInv, BudgetInv
  <2> QED BY <2>1, <2>2, ConstantTypes
<1> QED BY <1>1, InvariantHolds, PTL DEF Spec, CarryOverBound

\* Without a staleness budget nothing survives it: staleness_threshold = 0 is
\* on-policy training.
THEOREM OnPolicyHolds == Spec => OnPolicy
<1>1. IInv /\ [Next]_vars =>
        [ResetEnd /\ ~stopping /\ StaleBudget = 0 => Carried = {}]_vars
  <2> SUFFICES ASSUME IInv, ResetEnd, ~stopping, StaleBudget = 0
               PROVE  Carried = {}
    OBVIOUS
  <2>1. /\ Carried \in SUBSET Samples /\ Cardinality(Carried) \in Nat
        /\ Cardinality(Carried) + Cardinality(Taken) <= Cardinality(Outstanding)
        /\ Cardinality(Taken) = SamplesPerVersion
    BY CarriedBounds DEF ResetEnd
  <2>2. Cardinality(Outstanding) <= MaxRequired /\ Cardinality(Outstanding) \in Nat
    BY SetTypes, SampleSets DEF IInv, OnPolicyInv
  <2>3. Cardinality(Carried) = 0
    BY <2>1, <2>2, ConstantTypes
  <2> QED BY <2>1, <2>3, SampleSets, FS_EmptySet
<1> QED BY <1>1, InvariantHolds, PTL DEF Spec, OnPolicy

-----------------------------------------------------------------------------
(* The end of a run: the invariants *)

\* Training steps and versions count the same work.  A version that save_freq
\* asks for is saved before the trainer takes another sample, so nothing is
\* trained on top of it.
VersionInv ==
  /\ trained = current_param_version * TriggerStep + (local_trigger_step - 1)
  /\ SaveFreq > 0 /\ current_param_version % SaveFreq = 0
        /\ current_param_version # last_ckpt_version =>
       trainPc \in {"sync", "reset", "save"} /\ local_trigger_step = 1
  /\ CheckpointLabel
  /\ StopSavesVersion

\* The data: what has not been fed, what waits in pending_queue, and that
\* nothing of either is left once the processor has read the end signal.
SupplyInv ==
  /\ \A s \in Samples : stage[s] = "pending" =>
       \E i \in 1..Len(pending_queue) : pending_queue[i] = s
  /\ \A s \in Samples : stage[s] = "unfed" =>
       feedPc \in {"start", "put", "cancelled"} /\ s >= global_steps
  /\ \A i \in 1..Len(pending_queue) : pending_queue[i] = None =>
       i = Len(pending_queue) /\ feedPc = "done"
  /\ procPc \in {"finish", "finishWait", "done"} => feedPc = "done" /\ pending_queue = <<>>
  /\ procPc = "done" => active_tasks = {}
  /\ mainPc # "wait" => procPc \in {"done", "failed"}
  /\ procPc = "failed" => In({"failed"}) # {}

\* The samples that the staleness counter stands for: those outstanding, and
\* the tasks that raised and have not been collected.
Charged == Outstanding \cup (active_tasks \cap In({"failed"}))

\* The counter also covers the tasks that raised; so a processor that has
\* stopped, for the end signal or for an exception, has left room for one.
ChargeInv ==
  /\ Cardinality(Charged) <= staleness_samples + 1
  /\ Cardinality(Charged) <= MaxRequired + 1
  /\ procPc = "get" => Cardinality(Charged) <= MaxRequired
  /\ procPc \in {"finish", "finishWait", "done", "failed"} =>
       Cardinality(Outstanding) <= MaxRequired
  /\ procPc = "failed" => Cardinality(active_tasks) < MaxConcurrent

\* The end signal: put once, by the main coroutine, and then in the queue until
\* the trainer takes it, with fewer samples behind it or on their way than
\* would displace it.
SignalInv ==
  /\ \A i \in 1..Len(queue) : queue[i] = None => mainPc \in {"stop", "done"} /\ ~stopping
  /\ \A i, j \in 1..Len(queue) : queue[i] = None /\ queue[j] = None => i = j
  /\ mainPc \in {"stop", "done"} /\ ~stopping =>
       \E p \in 1..Len(queue) :
         /\ queue[p] = None
         /\ (Len(queue) - p) + Cardinality(Running) < MaxRequired
         /\ procPc = "done" => p = Len(queue)
  /\ stopping => mainPc \in {"stop", "done"} /\ trainPc \in {"sync", "reset", "save", "done"}
  /\ trainPc = "done" => stopping

\* Samples that have left the queue: trained on, in the batch being collected,
\* or dropped.
Consumed == In({"taken", "lost", "spent"})

\* Every one of them is counted, and when the trainer stops there are no others.
AccountInv ==
  /\ ~stopping =>
       Cardinality(Consumed) = trained * RequiredSamples + collected + dropped_samples
  /\ stopping /\ In({"failed"}) = {} =>
       \E rest \in 0..(RequiredSamples - 1) :
         TotalRolloutSteps = dropped_samples + trained * RequiredSamples + rest

-----------------------------------------------------------------------------
(* Versions and checkpoints *)

\* Only one number is the quotient.
LEMMA Quotient ==
  ASSUME NEW t \in Nat \ {0}, NEW v \in Nat, NEW n \in Nat, t * v <= n, n < t * v + t
  PROVE  n \div t = v
<1>1. PICK w \in Nat : w = n \div t /\ t * w <= n /\ n < t * w + t
  OBVIOUS
<1>2. CASE w >= v + 1
  <2>1. t * w >= t * (v + 1)
    BY <1>2
  <2>2. t * (v + 1) = t * v + t
    OBVIOUS
  <2> QED BY <1>1, <2>1, <2>2
<1>3. CASE v >= w + 1
  <2>1. t * v >= t * (w + 1)
    BY <1>3
  <2>2. t * (w + 1) = t * w + t
    OBVIOUS
  <2> QED BY <1>1, <2>1, <2>2
<1> QED BY <1>1, <1>2, <1>3

\* The trainer counts its steps and versions consistently and saves what the
\* name of a checkpoint says.
LEMMA VersionStep == IInv /\ VersionInv /\ [Next]_vars => VersionInv'
<1> SUFFICES ASSUME IInv, VersionInv, [Next]_vars PROVE VersionInv'
  OBVIOUS
<1> USE DEF VersionInv, CheckpointLabel, ResumeSteps, StopSavesVersion, TrainerDone
<1>0. /\ TriggerStep \in Nat \ {0} /\ SaveFreq \in Nat
      /\ current_param_version \in Nat /\ trained \in Nat /\ last_ckpt_version \in Nat
      /\ savedTrained \in Nat /\ local_trigger_step \in 1..TriggerStep
  BY ParameterAssumption DEF IInv, TypeOK
<1>1. CASE UNCHANGED trainerVars
  BY <1>1 DEF trainerVars
<1>2. CASE CollectSample \/ CollectNone \/ SyncWeights \/ ResetReturned
  <2>1. /\ UNCHANGED <<local_trigger_step, current_param_version, trained,
                       last_ckpt_version, savedTrained>>
        /\ trainPc' # "done"
        /\ trainPc = "collect" \/ trainPc' \in {"reset", "save"}
    BY <1>2 DEF CollectSample, CollectNone, SyncWeights, ResetReturned
  <2> QED BY <2>1
<1>3. CASE TrainStep
  <2>1. /\ UNCHANGED <<last_ckpt_version, savedTrained>> /\ trainPc' # "done"
        /\ trained' = trained + 1
    BY <1>3 DEF TrainStep
  <2>2. trained' = current_param_version' * TriggerStep + (local_trigger_step' - 1)
    <3>1. CASE local_trigger_step < TriggerStep
      <4>1. local_trigger_step' = local_trigger_step + 1 /\ UNCHANGED current_param_version
        BY <1>0, <1>3, <3>1 DEF TrainStep
      <4> DEFINE p == current_param_version * TriggerStep
      <4>2. p \in Nat /\ trained = p + (local_trigger_step - 1)
        BY <1>0
      <4>3. current_param_version' * TriggerStep = p
        BY <4>1
      <4> HIDE DEF p
      <4> QED BY <1>0, <2>1, <4>1, <4>2, <4>3
    <3>2. CASE local_trigger_step >= TriggerStep
      <4>1. /\ local_trigger_step' = 1 /\ current_param_version' = current_param_version + 1
            /\ local_trigger_step = TriggerStep
        BY <1>0, <1>3, <3>2 DEF TrainStep
      <4> DEFINE p == current_param_version * TriggerStep
      <4>2. p \in Nat /\ trained = p + (TriggerStep - 1)
        BY <1>0, <4>1
      <4>3. (current_param_version + 1) * TriggerStep = p + TriggerStep
        BY <1>0
      <4>4. current_param_version' * TriggerStep = p + TriggerStep
        BY <4>1, <4>3
      <4> HIDE DEF p
      <4> QED BY <1>0, <2>1, <4>1, <4>2, <4>4
    <3> QED BY <1>0, <3>1, <3>2
  <2>3. SaveFreq > 0 /\ current_param_version' % SaveFreq = 0
           /\ current_param_version' # last_ckpt_version' =>
          trainPc' \in {"sync", "reset", "save"} /\ local_trigger_step' = 1
    <3>1. CASE UNCHANGED current_param_version
      <4>1. trainPc = "train"
        BY <1>3 DEF TrainStep
      <4> QED BY <2>1, <3>1, <4>1
    <3>2. CASE trainPc' = "sync" /\ local_trigger_step' = 1
      BY <3>2
    <3> QED BY <1>3, <3>1, <3>2 DEF TrainStep
  <2>4. CheckpointLabel'
    BY <2>1
  <2> QED BY <2>1, <2>2, <2>3, <2>4
<1>4. CASE SaveCheckpoint
  <2>1. UNCHANGED <<local_trigger_step, current_param_version, trained, stopping>>
    BY <1>4 DEF SaveCheckpoint
  <2>2. PICK esi \in BOOLEAN :
          IF SaveDue(stopping, esi)
          THEN last_ckpt_version' = current_param_version /\ savedTrained' = trained
          ELSE UNCHANGED <<last_ckpt_version, savedTrained>>
    BY <1>4 DEF SaveCheckpoint
  <2>3. trained - current_param_version * TriggerStep = local_trigger_step - 1
    <3> DEFINE p == current_param_version * TriggerStep
    <3>1. p \in Nat /\ trained = p + (local_trigger_step - 1)
      BY <1>0
    <3> HIDE DEF p
    <3>2. trained - p = local_trigger_step - 1
      BY <1>0, <3>1
    <3> QED BY <3>2 DEF p
  <2>4. CheckpointLabel'
    <3>1. CASE SaveDue(stopping, esi)
      <4>1. last_ckpt_version' = current_param_version /\ savedTrained' = trained
        BY <2>2, <3>1
      <4>2. savedTrained' - ResumeSteps' = local_trigger_step - 1
        BY <2>3, <4>1
      <4>3. local_trigger_step - 1 \in 0..(TriggerStep - 1)
        BY <1>0
      <4>4. SaveFreq > 0 /\ current_param_version % SaveFreq = 0 => local_trigger_step = 1
        BY <3>1 DEF SaveDue
      <4>5. local_trigger_step = 1 => savedTrained' = ResumeSteps'
        <5> DEFINE r == current_param_version * TriggerStep
        <5>1. r \in Nat /\ ResumeSteps' = r
          BY <1>0, <4>1
        <5>2. trained - r = local_trigger_step - 1
          BY <2>3
        <5> HIDE DEF r
        <5> QED BY <1>0, <4>1, <5>1, <5>2
      <4> HIDE DEF ResumeSteps
      <4> QED BY <4>1, <4>2, <4>3, <4>4, <4>5
    <3>2. CASE ~SaveDue(stopping, esi)
      BY <2>2, <3>2
    <3> QED BY <3>1, <3>2
  <2>5. StopSavesVersion'
    BY <1>0, <1>4, <2>1, <2>2 DEF SaveCheckpoint, SaveDue
  <2>6. SaveFreq > 0 /\ current_param_version' % SaveFreq = 0 =>
          current_param_version' = last_ckpt_version'
    BY <2>1, <2>2 DEF SaveDue
  <2> QED BY <2>1, <2>4, <2>5, <2>6
<1> QED BY <1>1, <1>2, <1>3, <1>4 DEF Next, TrainerNext, RunnerClear, Finished, vars

-----------------------------------------------------------------------------
(* The data *)

\* Steps that feed and collect nothing.
LEMMA SupplyFrame ==
  ASSUME SupplyInv,
         UNCHANGED <<pending_queue, global_steps, feedPc, procPc, active_tasks>>,
         mainPc = "wait" => mainPc' = "wait",
         \A s \in Samples : stage'[s] \in {"pending", "unfed"} => stage'[s] = stage[s],
         \A s \in Samples : stage[s] = "failed" => stage'[s] = "failed"
  PROVE  SupplyInv'
BY DEF SupplyInv, In

\* What put_sample does to the stages: a queued sample may be lost, the sample
\* that was put is queued, and nothing else moves.
LEMMA PutStages ==
  ASSUME IInv, NEW x \in Samples \cup {None}, PutSample(x), x # None => stage[x] = "ready"
  PROVE  \A s \in Samples :
           \/ stage'[s] = stage[s]
           \/ stage'[s] = "queued" /\ s = x
           \/ /\ stage'[s] = "lost" /\ stage[s] = "queued"
              /\ IsFull(queue, MaxRequired) /\ s = Head(queue)
<1> SUFFICES ASSUME NEW s \in Samples
             PROVE  \/ stage'[s] = stage[s]
                    \/ stage'[s] = "queued" /\ s = x
                    \/ /\ stage'[s] = "lost" /\ stage[s] = "queued"
                       /\ IsFull(queue, MaxRequired) /\ s = Head(queue)
  OBVIOUS
<1>1. stage'[s] = IF IsFull(queue, MaxRequired) /\ s = Head(queue) THEN "lost"
                  ELSE IF s = x THEN "queued" ELSE stage[s]
  BY DEF PutSample
<1>2. IsFull(queue, MaxRequired) => Len(queue) >= 1 /\ Head(queue) = queue[1] /\ Len(queue) \in Nat
  BY ConstantTypes DEF IsFull, IInv, TypeOK
<1>3. IsFull(queue, MaxRequired) /\ s = Head(queue) => stage[s] = "queued"
  <2> SUFFICES ASSUME IsFull(queue, MaxRequired), s = Head(queue) PROVE stage[s] = "queued"
    OBVIOUS
  <2>1. 1 \in 1..Len(queue) /\ queue[1] = s
    BY <1>2
  <2>2. s # None
    BY NoneAssumption DEF Samples
  <2> QED BY <2>1, <2>2 DEF IInv, QueueInv
<1> HIDE DEF IsFull
<1> QED BY <1>1, <1>3

\* The trainer only takes samples from the queue.
LEMMA TrainerStages ==
  ASSUME IInv, TrainerNext
  PROVE  \A t \in Samples : stage'[t] = stage[t]
                              \/ (stage[t] = "queued" /\ stage'[t] = "taken")
<1>1. CASE CollectSample
  <2>1. Head(queue) \in Samples /\ stage[Head(queue)] = "queued"
    <3>1. queue # <<>> /\ queue \in Seq(Samples \cup {None}) /\ Head(queue) # None
      BY <1>1 DEF CollectSample, IInv, TypeOK
    <3>2. /\ 1 \in 1..Len(queue) /\ Head(queue) = queue[1]
          /\ Head(queue) \in Samples \cup {None}
      BY <3>1
    <3> QED BY <3>1, <3>2 DEF IInv, QueueInv
  <2>2. stage' = [stage EXCEPT ![Head(queue)] = "taken"]
    BY <1>1 DEF CollectSample
  <2> QED BY <2>1, <2>2 DEF IInv, TypeOK
<1>2. CASE ~CollectSample
  <2>1. UNCHANGED stage
    BY <1>2 DEF TrainerNext, CollectNone, TrainStep, SyncWeights, ResetReturned,
      SaveCheckpoint, shared
  <2> QED BY <2>1
<1> QED BY <1>1, <1>2

\* The steps that feed and collect nothing are those of the tasks, the monitor,
\* reset_staleness, the trainer and the runner, and the end of the main
\* coroutine.
LEMMA SupplyQuiet ==
  ASSUME IInv, SupplyInv,
         \/ MonStep \/ MainSentinel \/ MainStop \/ ResetStep
         \/ (\E s \in Samples : TaskStep(s)) \/ (TrainerNext /\ UNCHANGED rollouterVars)
         \/ RunnerClear \/ UNCHANGED vars
  PROVE  SupplyInv'
<1>1. CASE MonStep \/ MainStop \/ UNCHANGED vars
  <2>1. /\ UNCHANGED <<stage, pending_queue, global_steps, feedPc, procPc, active_tasks>>
        /\ mainPc = "wait" => mainPc' = "wait"
    BY <1>1 DEF MonStep, MonHead, MonWake, MonCheck, MonResume, MainStop, vars, shared,
      rollouterVars, feedVars, procVars, mainVars
  <2> QED BY <2>1, SupplyFrame
<1>2. CASE ResetStep
  <2>1. /\ UNCHANGED <<pending_queue, global_steps, feedPc, procPc, active_tasks, mainPc>>
        /\ \/ UNCHANGED stage
           \/ stage' = [s \in Samples |-> IF stage[s] \in {"taken", "lost"} THEN "spent"
                                          ELSE stage[s]]
    BY <1>2 DEF ResetStep, ResetBegin, ResetQuery, ResetEnd, feedVars, procVars, mainVars
  <2>2. \A s \in Samples : stage'[s] = stage[s]
                             \/ (stage'[s] = "spent" /\ stage[s] \in {"taken", "lost"})
    BY <2>1
  <2> QED BY <2>1, <2>2, SupplyFrame
<1>3. CASE MainSentinel \/ \E s \in Samples : TaskPut(s)
  <2>1. /\ UNCHANGED <<pending_queue, global_steps, feedPc, procPc, active_tasks>>
        /\ mainPc = "wait" => mainPc' = "wait"
    BY <1>3 DEF MainSentinel, TaskPut, rollouterVars, feedVars, procVars, mainVars
  <2>2. PICK x \in Samples \cup {None} : PutSample(x) /\ (x # None => stage[x] = "ready")
    BY <1>3 DEF MainSentinel, TaskPut
  <2>3. \A s \in Samples :
           \/ stage'[s] = stage[s] \/ (stage'[s] = "queued" /\ s = x)
           \/ (stage'[s] = "lost" /\ stage[s] = "queued")
    BY <2>2, PutStages
  <2>4. \A s \in Samples : s = x => stage[s] = "ready"
    BY <2>2, NoneAssumption DEF Samples
  <2> QED BY <2>1, <2>3, <2>4, SupplyFrame
<1>4. CASE \E s \in Samples : TaskGenerated(s) \/ TaskFailed(s)
  <2>1. PICK s \in Samples, a \in {"ready", "failed"} :
          stage[s] = "gen" /\ stage' = [stage EXCEPT ![s] = a]
    BY <1>4 DEF TaskGenerated, TaskFailed
  <2>2. /\ UNCHANGED <<pending_queue, global_steps, feedPc, procPc, active_tasks>>
        /\ UNCHANGED mainPc
    BY <1>4 DEF TaskGenerated, TaskFailed, rollouterVars, feedVars, procVars, mainVars
  <2>3. \A t \in Samples : stage'[t] = stage[t]
                             \/ (stage[t] = "gen" /\ stage'[t] \in {"ready", "failed"})
    BY <2>1 DEF IInv, TypeOK
  <2> QED BY <2>2, <2>3, SupplyFrame
<1>5. CASE TrainerNext /\ UNCHANGED rollouterVars
  <2>1. /\ UNCHANGED <<pending_queue, global_steps, feedPc, procPc, active_tasks>>
        /\ UNCHANGED mainPc
    BY <1>5 DEF rollouterVars, feedVars, procVars, mainVars
  <2>2. \A t \in Samples : stage'[t] = stage[t]
                             \/ (stage[t] = "queued" /\ stage'[t] = "taken")
    BY <1>5, TrainerStages
  <2> QED BY <2>1, <2>2, SupplyFrame
<1>6. CASE RunnerClear
  <2>1. UNCHANGED <<pending_queue, global_steps, feedPc, procPc, active_tasks, mainPc>>
    BY <1>6 DEF RunnerClear, rollouterVars, feedVars, procVars, mainVars
  <2>2. \A s \in Samples : stage'[s] = stage[s]
                             \/ (stage[s] = "queued" /\ stage'[s] = "spent")
    BY <1>6 DEF RunnerClear
  <2> QED BY <2>1, <2>2, SupplyFrame
<1> QED BY <1>1, <1>2, <1>3, <1>4, <1>5, <1>6 DEF TaskStep

\* Feeding keeps pending_queue complete; the end signal is its last item.
LEMMA SupplyFeed ==
  ASSUME IInv, SupplyInv, FeedStep
  PROVE  SupplyInv'
<1>0. /\ UNCHANGED <<procPc, active_tasks, mainPc>>
      /\ feedPc \in {"start", "put", "end"}
      /\ procPc \notin {"finish", "finishWait", "done"}
  BY DEF FeedStep, FeedStart, FeedPut, FeedEnd, procVars, mainVars, SupplyInv
<1>1. /\ pending_queue \in Seq(Samples \cup {None}) /\ Len(pending_queue) \in Nat
      /\ global_steps \in Samples /\ stage \in [Samples -> Stages]
  BY DEF IInv, TypeOK
<1>2. \A i \in 1..Len(pending_queue) : pending_queue[i] # None
  BY <1>0 DEF SupplyInv
<1>3. CASE FeedPut
  <2>1. /\ pending_queue' = Append(pending_queue, global_steps)
        /\ feedPc = "put"
        /\ \/ feedPc' = "end" /\ global_steps' = global_steps
              /\ global_steps >= TotalRolloutSteps
              /\ stage' = [stage EXCEPT ![global_steps] = "pending"]
           \/ /\ feedPc' = "put" /\ global_steps' = global_steps + 1
              /\ stage' = [stage EXCEPT ![global_steps] = "pending",
                                       ![global_steps + 1] = "drawn"]
    BY <1>3 DEF FeedPut
  <2>0. global_steps + 1 # global_steps
    BY <1>1 DEF Samples
  <2>2. /\ Len(pending_queue') = Len(pending_queue) + 1
        /\ \A i \in 1..Len(pending_queue) : pending_queue'[i] = pending_queue[i]
        /\ pending_queue'[Len(pending_queue) + 1] = global_steps
    BY <1>1, <2>1
  <2>3. /\ \A s \in Samples : s # global_steps => stage'[s] \in {stage[s], "drawn"}
        /\ stage'[global_steps] = "pending"
    BY <1>1, <2>0, <2>1
  <2>4. \A s \in Samples : stage'[s] = "pending" =>
          \E i \in 1..Len(pending_queue') : pending_queue'[i] = s
    <3> SUFFICES ASSUME NEW s \in Samples, stage'[s] = "pending"
                 PROVE  \E i \in 1..Len(pending_queue') : pending_queue'[i] = s
      OBVIOUS
    <3>1. CASE s = global_steps
      <4>1. Len(pending_queue) + 1 \in 1..Len(pending_queue')
        BY <1>1, <2>2
      <4> QED BY <2>2, <3>1, <4>1
    <3>2. CASE s # global_steps
      <4>1. PICK i \in 1..Len(pending_queue) : pending_queue[i] = s
        BY <2>3, <3>2 DEF SupplyInv
      <4>2. i \in 1..Len(pending_queue')
        BY <1>1, <2>2
      <4> QED BY <2>2, <4>1, <4>2
    <3> QED BY <3>1, <3>2
  <2>5. \A s \in Samples : stage'[s] = "unfed" =>
          feedPc' \in {"start", "put", "cancelled"} /\ s >= global_steps'
    <3> SUFFICES ASSUME NEW s \in Samples, stage'[s] = "unfed"
                 PROVE  feedPc' \in {"start", "put", "cancelled"} /\ s >= global_steps'
      OBVIOUS
    <3>1. s # global_steps /\ stage[s] = "unfed"
      BY <2>3
    <3>2. s >= global_steps
      BY <3>1 DEF SupplyInv
    <3>3. s <= TotalRolloutSteps /\ s \in Nat /\ global_steps \in Nat
          /\ TotalRolloutSteps \in Nat
      BY <1>1, ParameterAssumption DEF Samples
    <3> QED BY <2>1, <3>1, <3>2, <3>3
  <2>6. \A i \in 1..Len(pending_queue') : pending_queue'[i] # None
    <3>1. global_steps # None
      BY <1>1, NoneAssumption DEF Samples
    <3> QED BY <1>1, <1>2, <2>2, <3>1
  <2>7. procPc = "failed" => In({"failed"})' # {}
    <3>1. procPc = "failed" => \E s \in Samples : stage[s] = "failed"
      BY DEF SupplyInv, In
    <3>2. \A s \in Samples : stage[s] = "failed" => stage'[s] = "failed"
      BY <1>3, FeedStages
    <3> QED BY <3>1, <3>2 DEF In
  <2> QED BY <1>0, <2>4, <2>5, <2>6, <2>7 DEF SupplyInv
<1>4. CASE FeedEnd
  <2>1. /\ pending_queue' = Append(pending_queue, None)
        /\ feedPc = "end" /\ feedPc' = "done"
        /\ UNCHANGED <<stage, global_steps>>
    BY <1>4 DEF FeedEnd, shared
  <2>2. /\ Len(pending_queue') = Len(pending_queue) + 1
        /\ \A i \in 1..Len(pending_queue) : pending_queue'[i] = pending_queue[i]
        /\ pending_queue'[Len(pending_queue) + 1] = None
    BY <1>1, <2>1
  <2>3. \A s \in Samples : stage[s] = "pending" =>
          \E i \in 1..Len(pending_queue') : pending_queue'[i] = s
    <3> SUFFICES ASSUME NEW s \in Samples, stage[s] = "pending"
                 PROVE  \E i \in 1..Len(pending_queue') : pending_queue'[i] = s
      OBVIOUS
    <3>1. PICK i \in 1..Len(pending_queue) : pending_queue[i] = s
      BY DEF SupplyInv
    <3>2. i \in 1..Len(pending_queue')
      BY <1>1, <2>2
    <3> QED BY <2>2, <3>1, <3>2
  <2>4. \A i \in 1..Len(pending_queue') :
          pending_queue'[i] = None => i = Len(pending_queue')
    BY <1>1, <1>2, <2>2
  <2>5. \A s \in Samples : stage[s] # "unfed"
    BY <2>1 DEF SupplyInv
  <2>6. In({"failed"})' = In({"failed"})
    BY <2>1 DEF In
  <2> QED BY <1>0, <2>1, <2>3, <2>4, <2>5, <2>6 DEF SupplyInv
<1>5. CASE FeedStart
  <2>1. /\ feedPc = "start" /\ feedPc' = "put" /\ UNCHANGED <<pending_queue, global_steps>>
        /\ stage' = [stage EXCEPT ![global_steps] = "drawn"]
    BY <1>5 DEF FeedStart
  <2>2. \A s \in Samples : stage'[s] \in {stage[s], "drawn"}
    BY <1>1, <2>1
  <2>3. \A s \in Samples : stage[s] = "failed" => stage'[s] = "failed"
    BY <1>5, FeedStages
  <2>4. procPc = "failed" => In({"failed"})' # {}
    BY <2>3 DEF SupplyInv, In
  <2> QED BY <1>0, <2>1, <2>2, <2>4 DEF SupplyInv
<1> QED BY <1>3, <1>4, <1>5 DEF FeedStep

\* Taking the end signal leaves pending_queue empty; taking a sample leaves the
\* others in it.
LEMMA SupplyGet ==
  ASSUME IInv, SupplyInv, ProcGet
  PROVE  SupplyInv'
<1>0. /\ UNCHANGED <<global_steps, feedPc, active_tasks, mainPc>>
      /\ procPc = "get" /\ mainPc = "wait"
      /\ pending_queue # <<>> /\ pending_queue' = Tail(pending_queue)
      /\ pending_queue \in Seq(Samples \cup {None})
      /\ stage \in [Samples -> Stages]
  BY DEF ProcGet, mainVars, SupplyInv, IInv, TypeOK
<1> DEFINE h == Head(pending_queue)
<1>1. /\ Len(pending_queue) \in Nat \ {0}
      /\ h = pending_queue[1] /\ h \in Samples \cup {None}
      /\ Len(pending_queue') = Len(pending_queue) - 1
      /\ \A i \in 1..Len(pending_queue') : pending_queue'[i] = pending_queue[i + 1]
  BY <1>0
<1>2. CASE h = None
  <2>1. UNCHANGED stage /\ procPc' = "finish"
    BY <1>2 DEF ProcGet
  <2>2. Len(pending_queue) = 1 /\ feedPc = "done"
    BY <1>1, <1>2 DEF SupplyInv
  <2>3. pending_queue' = <<>>
    BY <1>0, <2>2
  <2>4. \A s \in Samples : stage[s] # "pending"
    <3>1. \A i \in 1..Len(pending_queue) : pending_queue[i] = None
      BY <1>1, <1>2, <2>2
    <3> QED BY <3>1, NoneAssumption DEF SupplyInv, Samples
  <2>5. 1..Len(pending_queue') = {}
    BY <1>1, <2>2
  <2>6. UNCHANGED <<global_steps, feedPc, active_tasks, mainPc>> /\ mainPc = "wait"
    BY <1>0
  <2> QED BY <2>1, <2>2, <2>3, <2>4, <2>5, <2>6 DEF SupplyInv
<1>3. CASE h # None
  <2>1. h \in Samples /\ procPc' = "limit" /\ stage' = [stage EXCEPT ![h] = "hand"]
    BY <1>1, <1>3 DEF ProcGet
  <2>2. /\ \A s \in Samples : s # h => stage'[s] = stage[s]
        /\ stage'[h] = "hand"
    BY <1>0, <2>1
  <2>3. \A s \in Samples : stage'[s] = "pending" =>
          \E i \in 1..Len(pending_queue') : pending_queue'[i] = s
    <3> SUFFICES ASSUME NEW s \in Samples, stage'[s] = "pending"
                 PROVE  \E i \in 1..Len(pending_queue') : pending_queue'[i] = s
      OBVIOUS
    <3>1. s # h /\ stage[s] = "pending"
      BY <2>2
    <3>2. PICK k \in 1..Len(pending_queue) : pending_queue[k] = s
      BY <3>1 DEF SupplyInv
    <3>3. k - 1 \in 1..Len(pending_queue') /\ (k - 1) + 1 = k
      BY <1>1, <3>1, <3>2
    <3> QED BY <1>1, <3>2, <3>3
  <2>4. \A i \in 1..Len(pending_queue') : pending_queue'[i] = None =>
          i = Len(pending_queue') /\ feedPc = "done"
    <3> SUFFICES ASSUME NEW i \in 1..Len(pending_queue'), pending_queue'[i] = None
                 PROVE  i = Len(pending_queue') /\ feedPc = "done"
      OBVIOUS
    <3>1. i + 1 \in 1..Len(pending_queue) /\ pending_queue[i + 1] = None
      BY <1>1
    <3>2. i + 1 = Len(pending_queue) /\ feedPc = "done"
      BY <3>1 DEF SupplyInv
    <3> QED BY <1>1, <3>2
  <2>5. \A s \in Samples : stage'[s] = "unfed" => stage[s] = "unfed"
    BY <2>2
  <2> QED BY <1>0, <2>1, <2>3, <2>4, <2>5 DEF SupplyInv
<1> QED BY <1>2, <1>3

\* The other steps of the processor, and the main coroutine noticing its end.
LEMMA SupplyProc ==
  ASSUME IInv, SupplyInv, (ProcStep /\ ~ProcGet) \/ MainCollect
  PROVE  SupplyInv'
<1>1. CASE ProcTop \/ ProcCheck \/ ProcPause \/ ProcDrainResume \/ ProcLimit
  <2>1. /\ UNCHANGED <<stage, pending_queue, global_steps, feedPc, active_tasks, mainPc>>
        /\ procPc \notin {"finish", "finishWait", "done", "failed"}
        /\ procPc' \notin {"finish", "finishWait", "done", "failed"}
    BY <1>1 DEF ProcTop, ProcCheck, ProcPause, ProcDrainResume, ProcLimit, shared, feedVars,
      mainVars
  <2> QED BY <2>1 DEF SupplyInv
<1>2. CASE ProcFinish
  <2>1. /\ UNCHANGED <<stage, pending_queue, global_steps, feedPc, active_tasks, mainPc>>
        /\ procPc = "finish" /\ procPc' \in {"done", "finishWait"}
        /\ procPc' = "done" => active_tasks = {}
    BY <1>2 DEF ProcFinish, shared, feedVars, mainVars
  <2> QED BY <2>1 DEF SupplyInv
<1>3. CASE ProcDrainCollect \/ ProcWaited
  <2>1. /\ UNCHANGED <<stage, pending_queue, global_steps, feedPc, mainPc>>
        /\ procPc \in {"drain", "limitWait", "finishWait"}
        /\ procPc' \in {"failed", "top", "drain", "limit", "finish"}
        /\ procPc' = "finish" => procPc = "finishWait"
        /\ procPc' = "failed" => In({"failed"}) # {}
    BY <1>3 DEF ProcDrainCollect, ProcWaited, shared, feedVars, mainVars, FailedTasks
  <2>2. In({"failed"})' = In({"failed"})
    BY <2>1 DEF In
  <2> QED BY <2>1, <2>2 DEF SupplyInv
<1>4. CASE ProcSubmit
  <2>1. /\ UNCHANGED <<pending_queue, global_steps, feedPc, mainPc>>
        /\ procPc = "submit" /\ procPc' = "top"
    BY <1>4 DEF ProcSubmit, feedVars, mainVars
  <2>2. \A s \in Samples : stage'[s] = stage[s] \/ stage'[s] = "gen"
    BY <1>4 DEF ProcSubmit, IInv, TypeOK
  <2> QED BY <2>1, <2>2 DEF SupplyInv
<1>5. CASE MainCollect
  <2>1. /\ UNCHANGED <<stage, pending_queue, global_steps, active_tasks, procPc>>
        /\ procPc \in {"done", "failed"}
        /\ feedPc' = IF feedPc = "done" THEN "done" ELSE "cancelled"
    BY <1>5 DEF MainCollect, shared, procVars
  <2>2. In({"failed"})' = In({"failed"})
    BY <2>1 DEF In
  <2> QED BY <2>1, <2>2 DEF SupplyInv
<1> QED BY <1>1, <1>2, <1>3, <1>4, <1>5 DEF ProcStep

\* Every step keeps the data complete.
LEMMA SupplyStep == IInv /\ SupplyInv /\ [Next]_vars => SupplyInv'
<1> SUFFICES ASSUME IInv, SupplyInv, [Next]_vars PROVE SupplyInv'
  OBVIOUS
<1> QED BY SupplyQuiet, SupplyFeed, SupplyGet, SupplyProc
        DEF Next, RollouterNext, MainStep, Finished

-----------------------------------------------------------------------------
(* The staleness counter and the tasks that raised *)

\* A proper subset has fewer elements.
LEMMA CardinalityStrict ==
  ASSUME NEW B \in SUBSET Samples, NEW A \in SUBSET B, NEW x \in B, x \notin A
  PROVE  Cardinality(A) < Cardinality(B)
<1>1. A \in SUBSET Samples /\ A \cup {x} \in SUBSET B /\ x \in Samples
  OBVIOUS
<1>2. Cardinality(A \cup {x}) = Cardinality(A) + 1
  BY <1>1, CardinalityAdd
<1>3. Cardinality(A \cup {x}) <= Cardinality(B)
  BY <1>1, CardinalityMonotone
<1>4. Cardinality(A) \in Nat /\ Cardinality(B) \in Nat
  BY <1>1, SampleSets
<1> QED BY <1>2, <1>3, <1>4

\* The charged samples are samples, and the outstanding ones are among them.
LEMMA ChargedTypes ==
  ASSUME IInv
  PROVE  /\ Charged \in SUBSET Samples /\ Outstanding \in SUBSET Charged
         /\ active_tasks \in SUBSET Samples
         /\ Cardinality(Charged) \in Nat /\ Cardinality(Outstanding) \in Nat
         /\ Cardinality(active_tasks) \in Nat
         /\ Cardinality(Outstanding) <= Cardinality(Charged)
<1>1. /\ Charged \in SUBSET Samples /\ Outstanding \in SUBSET Charged
      /\ active_tasks \in SUBSET Samples /\ Outstanding \in SUBSET Samples
  BY SetTypes DEF Charged, IInv, TypeOK
<1> QED BY <1>1, SampleSets, CardinalityMonotone

\* Steps that move no sample into the account.
LEMMA ChargeFrame ==
  ASSUME IInv, IInv', ChargeInv, UNCHANGED <<active_tasks, staleness_samples, procPc>>,
         \A s \in Samples :
           stage'[s] \in {"hand", "gen", "ready", "queued", "taken", "lost"} =>
             stage[s] \in {"hand", "gen", "ready", "queued", "taken", "lost"},
         \A s \in Samples : stage'[s] = "failed" => stage[s] \in {"gen", "failed"}
  PROVE  ChargeInv'
<1>1. Outstanding' \subseteq Outstanding /\ Charged' \subseteq Charged
  BY DEF Outstanding, Charged, In
<1>2. /\ Cardinality(Outstanding') <= Cardinality(Outstanding)
      /\ Cardinality(Charged') <= Cardinality(Charged)
  BY <1>1, ChargedTypes, SetTypes, CardinalityMonotone
<1>3. /\ Cardinality(Outstanding') \in Nat /\ Cardinality(Charged') \in Nat
      /\ Cardinality(Outstanding) \in Nat /\ Cardinality(Charged) \in Nat
  <2>1. Outstanding' \in SUBSET Samples /\ Charged' \in SUBSET Samples
    BY <1>1, ChargedTypes
  <2> QED BY <2>1, ChargedTypes, SampleSets
<1>4. staleness_samples \in Nat
  BY DEF IInv, TypeOK
<1> HIDE DEF Charged, Outstanding
<1> QED BY <1>2, <1>3, <1>4, ConstantTypes DEF ChargeInv

\* The steps of the feed, the tasks, the monitor, the main coroutine, the
\* trainer and the runner.
LEMMA ChargeQuiet ==
  ASSUME IInv, IInv', ChargeInv,
         \/ FeedStep \/ MonStep \/ MainStep \/ ResetBegin \/ ResetQuery
         \/ (\E s \in Samples : TaskStep(s)) \/ (TrainerNext /\ UNCHANGED rollouterVars)
         \/ RunnerClear \/ UNCHANGED vars
  PROVE  ChargeInv'
<1>1. CASE MonStep \/ MainCollect \/ MainStop \/ ResetBegin \/ ResetQuery \/ UNCHANGED vars
           \/ FeedEnd
  <2>1. UNCHANGED <<stage, active_tasks, staleness_samples, procPc>>
    BY <1>1 DEF MonStep, MonHead, MonWake, MonCheck, MonResume, MainCollect, MainStop,
      ResetBegin, ResetQuery, FeedEnd, vars, shared, rollouterVars, procVars
  <2> QED BY <2>1, ChargeFrame
<1>2. CASE FeedStart \/ FeedPut
  <2>1. UNCHANGED <<active_tasks, staleness_samples, procPc>>
    BY <1>2 DEF FeedStart, FeedPut, procVars
  <2>2. \A s \in Samples : stage'[s] \in {stage[s], "drawn", "pending"}
    BY <1>2, FeedStages
  <2> QED BY <2>1, <2>2, ChargeFrame
<1>3. CASE MainSentinel \/ \E s \in Samples : TaskPut(s)
  <2>1. UNCHANGED <<active_tasks, staleness_samples, procPc>>
    BY <1>3 DEF MainSentinel, TaskPut, rollouterVars, procVars
  <2>2. PICK x \in Samples \cup {None} : PutSample(x) /\ (x # None => stage[x] = "ready")
    BY <1>3 DEF MainSentinel, TaskPut
  <2>3. \A s \in Samples :
           \/ stage'[s] = stage[s] \/ (stage'[s] = "queued" /\ s = x)
           \/ (stage'[s] = "lost" /\ stage[s] = "queued")
    BY <2>2, PutStages
  <2>4. \A s \in Samples : s = x => stage[s] = "ready"
    BY <2>2, NoneAssumption DEF Samples
  <2> QED BY <2>1, <2>3, <2>4, ChargeFrame
<1>4. CASE \E s \in Samples : TaskGenerated(s) \/ TaskFailed(s)
  <2>1. PICK s \in Samples, a \in {"ready", "failed"} :
          stage[s] = "gen" /\ stage' = [stage EXCEPT ![s] = a]
    BY <1>4 DEF TaskGenerated, TaskFailed
  <2>2. UNCHANGED <<active_tasks, staleness_samples, procPc>>
    BY <1>4 DEF TaskGenerated, TaskFailed, rollouterVars, procVars
  <2>3. \A t \in Samples : stage'[t] = stage[t]
                             \/ (stage[t] = "gen" /\ stage'[t] \in {"ready", "failed"})
    BY <2>1 DEF IInv, TypeOK
  <2> QED BY <2>2, <2>3, ChargeFrame
<1>5. CASE TrainerNext /\ UNCHANGED rollouterVars
  <2>1. UNCHANGED <<active_tasks, staleness_samples, procPc>>
    BY <1>5 DEF rollouterVars, procVars
  <2>2. \A t \in Samples : stage'[t] = stage[t]
                             \/ (stage[t] = "queued" /\ stage'[t] = "taken")
    BY <1>5, TrainerStages
  <2> QED BY <2>1, <2>2, ChargeFrame
<1>6. CASE RunnerClear
  <2>1. UNCHANGED <<active_tasks, staleness_samples, procPc>>
    BY <1>6 DEF RunnerClear, rollouterVars, procVars
  <2>2. \A s \in Samples : stage'[s] = stage[s]
                             \/ (stage[s] = "queued" /\ stage'[s] = "spent")
    BY <1>6 DEF RunnerClear
  <2> QED BY <2>1, <2>2, ChargeFrame
<1> QED BY <1>1, <1>2, <1>3, <1>4, <1>5, <1>6 DEF TaskStep, FeedStep, MainStep

\* reset_staleness counts the tasks that raised with the others.
LEMMA ChargeReset ==
  ASSUME IInv, IInv', ChargeInv, ResetEnd
  PROVE  ChargeInv'
<1>0. /\ UNCHANGED <<active_tasks, procPc>> /\ reset = "assign"
      /\ staleness_samples' = resetActive + resetQueueSize
      /\ \A s \in Samples : stage'[s] = IF stage[s] \in {"taken", "lost"} THEN "spent"
                                        ELSE stage[s]
  BY DEF ResetEnd, procVars
<1> DEFINE Hand == In({"hand"})
           Rest == Queued \ active_tasks
           All == Hand \cup (active_tasks \cup Rest)
<1>1. /\ Outstanding' \subseteq Outstanding /\ Charged' \subseteq Charged
      /\ Charged' \subseteq All
  BY <1>0 DEF Outstanding, Charged, Queued, In, IInv, TaskInv, Running
<1>2. /\ Hand \in SUBSET Samples /\ Rest \in SUBSET Samples
      /\ active_tasks \in SUBSET Samples
  BY SetTypes DEF In, IInv, TypeOK
<1>3. \A s, t \in Hand : s = t
  BY DEF IInv, HandInv, In
<1>4. resetActive = Cardinality(active_tasks) /\ Cardinality(Rest) <= resetQueueSize
      /\ resetQueueSize \in Nat
  BY <1>0 DEF IInv, ResetInv, TypeOK
<1>5. All = Hand \cup (active_tasks \cup Rest)
  OBVIOUS
<1> HIDE DEF Hand, Rest, All
<1>6. Cardinality(Hand) <= 1
  BY <1>2, <1>3, CardinalityAtMostOne
<1>7. /\ Cardinality(active_tasks \cup Rest) <= Cardinality(active_tasks) + Cardinality(Rest)
      /\ active_tasks \cup Rest \in SUBSET Samples
  BY <1>2, CardinalityUnion
<1>8. /\ Cardinality(All) <= Cardinality(Hand) + Cardinality(active_tasks \cup Rest)
      /\ All \in SUBSET Samples
  BY <1>2, <1>5, <1>7, CardinalityUnion
<1>9. /\ Cardinality(Hand) \in Nat /\ Cardinality(Rest) \in Nat
      /\ Cardinality(active_tasks) \in Nat /\ Cardinality(All) \in Nat
      /\ Cardinality(active_tasks \cup Rest) \in Nat
  BY <1>2, <1>7, <1>8, SampleSets
<1>10. Cardinality(Charged') <= Cardinality(All)
  BY <1>1, <1>8, CardinalityMonotone
<1>11. /\ Cardinality(Outstanding') <= Cardinality(Outstanding)
       /\ Cardinality(Charged') <= Cardinality(Charged)
  BY <1>1, ChargedTypes, SetTypes, CardinalityMonotone
<1>12. /\ Cardinality(Outstanding') \in Nat /\ Cardinality(Charged') \in Nat
       /\ Cardinality(Outstanding) \in Nat /\ Cardinality(Charged) \in Nat
  <2>1. Outstanding' \in SUBSET Samples /\ Charged' \in SUBSET Samples
    BY <1>1, ChargedTypes
  <2> QED BY <2>1, ChargedTypes, SampleSets
<1>13. Cardinality(Charged') <= staleness_samples' + 1
  BY <1>0, <1>4, <1>6, <1>7, <1>8, <1>9, <1>10, <1>12
<1> HIDE DEF Charged, Outstanding
<1> QED BY <1>0, <1>11, <1>12, <1>13, ConstantTypes DEF ChargeInv

\* The processor: _should_pause_generation leaves room for the sample that it
\* takes, and collecting a task that raised leaves room for one more.
LEMMA ChargeProc ==
  ASSUME IInv, IInv', ChargeInv, ProcStep
  PROVE  ChargeInv'
<1>0. /\ Cardinality(Charged) \in Nat /\ Cardinality(Outstanding) \in Nat
      /\ Cardinality(Outstanding) <= Cardinality(Charged)
      /\ Cardinality(active_tasks) \in Nat /\ Cardinality(active_tasks) <= MaxConcurrent
      /\ staleness_samples \in Nat
  BY ChargedTypes DEF IInv, TypeOK
<1>1. CASE ProcTop \/ ProcCheck \/ ProcPause \/ ProcDrainResume \/ ProcLimit \/ ProcFinish
  <2>1. UNCHANGED <<stage, active_tasks, staleness_samples>>
    BY <1>1 DEF ProcTop, ProcCheck, ProcPause, ProcDrainResume, ProcLimit, ProcFinish, shared
  <2>2. /\ procPc' = "get" => staleness_samples < MaxRequired
        /\ procPc' # "failed"
        /\ procPc' \in {"finish", "finishWait", "done"} => procPc = "finish"
    BY <1>0, <1>1, ConstantTypes DEF ProcTop, ProcCheck, ProcPause, ProcDrainResume,
      ProcLimit, ProcFinish, ShouldPause
  <2>3. Charged' = Charged /\ Outstanding' = Outstanding
    BY <2>1 DEF Charged, Outstanding, In
  <2> HIDE DEF Charged, Outstanding
  <2> QED BY <1>0, <2>1, <2>2, <2>3, ConstantTypes DEF ChargeInv
<1>2. CASE ProcGet
  <2>1. /\ UNCHANGED active_tasks /\ staleness_samples' = staleness_samples + 1
        /\ procPc = "get" /\ procPc' \in {"finish", "limit"}
    BY <1>2 DEF ProcGet
  <2>2. CASE procPc' = "finish"
    <3>1. UNCHANGED stage
      BY <1>2, <2>2 DEF ProcGet
    <3>2. Charged' = Charged /\ Outstanding' = Outstanding
      BY <2>1, <3>1 DEF Charged, Outstanding, In
    <3> HIDE DEF Charged, Outstanding
    <3> QED BY <1>0, <2>1, <2>2, <3>2, ConstantTypes DEF ChargeInv
  <2>3. CASE procPc' = "limit"
    <3> DEFINE h == Head(pending_queue)
    <3>1. stage' = [stage EXCEPT ![h] = "hand"]
      BY <1>2, <2>3 DEF ProcGet
    <3>2. h \in Samples
      <4>1. pending_queue # <<>> /\ pending_queue \in Seq(Samples \cup {None}) /\ h # None
        BY <1>2, <2>3 DEF ProcGet, IInv, TypeOK
      <4> QED BY <4>1
    <3> HIDE DEF h
    <3>3. Charged' \subseteq Charged \cup {h}
      BY <2>1, <3>1, <3>2 DEF Charged, Outstanding, In, IInv, TypeOK
    <3>4. /\ Charged \in SUBSET Samples /\ Charged \cup {h} \in SUBSET Samples
      BY <3>2, ChargedTypes
    <3>5. /\ Cardinality(Charged \cup {h}) <= Cardinality(Charged) + 1
          /\ Cardinality(Charged') <= Cardinality(Charged \cup {h})
          /\ Cardinality(Charged \cup {h}) \in Nat
      BY <3>2, <3>3, <3>4, CardinalityAdd, CardinalityMonotone, SampleSets
    <3>6. Cardinality(Charged') \in Nat
      <4>1. Charged' \in SUBSET Samples
        BY <3>3, <3>4
      <4> QED BY <4>1, SampleSets
    <3> HIDE DEF Charged, Outstanding
    <3> QED BY <1>0, <2>1, <2>3, <3>5, <3>6, ConstantTypes DEF ChargeInv
  <2> QED BY <2>1, <2>2, <2>3
<1>3. CASE ProcSubmit
  <2>1. UNCHANGED staleness_samples /\ procPc' = "top"
    BY <1>3 DEF ProcSubmit
  <2>2. PICK s \in Samples : /\ stage[s] = "hand"
                             /\ active_tasks' = active_tasks \cup {s}
                             /\ stage' = [stage EXCEPT ![s] = "gen"]
    BY <1>3 DEF ProcSubmit, In
  <2>3. Charged' = Charged
    BY <2>2 DEF Charged, Outstanding, In, IInv, TypeOK
  <2> HIDE DEF Charged, Outstanding
  <2> QED BY <1>0, <2>1, <2>3, ConstantTypes DEF ChargeInv
<1>4. CASE ProcDrainCollect \/ ProcWaited
  <2>1. UNCHANGED <<stage, staleness_samples>>
    BY <1>4 DEF ProcDrainCollect, ProcWaited, shared
  <2>2. PICK D \in SUBSET (active_tasks \ Running) :
          /\ active_tasks' = active_tasks \ D
          /\ procPc' = "failed" => D \cap In({"failed"}) # {}
          /\ procPc' \in {"failed", "top", "drain", "limit", "finish"}
          /\ procPc' = "finish" => procPc = "finishWait"
    <3>1. CASE ProcDrainCollect
      <4>1. PICK D \in SUBSET DoneTasks :
              /\ D # {} /\ active_tasks' = active_tasks \ D
              /\ procPc' = IF D \cap FailedTasks # {} THEN "failed"
                           ELSE IF resume_event THEN "top" ELSE "drain"
        BY <3>1 DEF ProcDrainCollect
      <4> QED BY <4>1 DEF DoneTasks, FailedTasks
    <3>2. CASE ProcWaited
      <4>1. /\ active_tasks' = active_tasks \ DoneTasks
            /\ procPc' = "failed" => DoneTasks \cap In({"failed"}) # {}
            /\ procPc' \in {"failed", "limit", "finish"}
            /\ procPc' = "finish" => procPc = "finishWait"
            /\ DoneTasks \in SUBSET (active_tasks \ Running)
        BY <3>2 DEF ProcWaited, DoneTasks, FailedTasks
      <4> QED BY <4>1
    <3> QED BY <1>4, <3>1, <3>2
  <2>3. Outstanding' = Outstanding /\ Charged' \subseteq Charged
    BY <2>1, <2>2 DEF Charged, Outstanding, In
  <2>4. Cardinality(Charged') <= Cardinality(Charged) /\ Cardinality(Charged') \in Nat
    <3>1. Charged' \in SUBSET Samples
      BY <2>3, ChargedTypes
    <3> QED BY <2>3, <3>1, ChargedTypes, CardinalityMonotone, SampleSets
  <2>5. procPc' = "failed" => /\ Cardinality(Outstanding) < Cardinality(Charged)
                              /\ Cardinality(active_tasks') < Cardinality(active_tasks)
    <3> SUFFICES ASSUME procPc' = "failed"
                 PROVE  /\ Cardinality(Outstanding) < Cardinality(Charged)
                        /\ Cardinality(active_tasks') < Cardinality(active_tasks)
      OBVIOUS
    <3>1. PICK f \in D : f \in In({"failed"})
      BY <2>2
    <3>2. /\ f \in Charged /\ f \notin Outstanding
          /\ f \in active_tasks /\ f \notin active_tasks'
          /\ active_tasks' \in SUBSET active_tasks
      BY <2>2, <3>1 DEF Charged, Outstanding, In
    <3> QED BY <3>2, ChargedTypes, CardinalityStrict
  <2>6. Cardinality(active_tasks') \in Nat
    BY ChargedTypes, SampleSets, <2>2
  <2> HIDE DEF Charged, Outstanding
  <2> QED BY <1>0, <2>1, <2>2, <2>3, <2>4, <2>5, <2>6, ConstantTypes DEF ChargeInv
<1> QED BY <1>1, <1>2, <1>3, <1>4 DEF ProcStep

\* Every step keeps the account.
LEMMA ChargeStep == IInv /\ ChargeInv /\ [Next]_vars => ChargeInv'
<1> SUFFICES ASSUME IInv, ChargeInv, [Next]_vars PROVE ChargeInv'
  OBVIOUS
<1>1. IInv'
  BY NextPreservesIInv
<1> QED BY <1>1, ChargeQuiet, ChargeReset, ChargeProc
        DEF Next, RollouterNext, ResetStep, Finished

-----------------------------------------------------------------------------
(* The end signal *)

\* The contents of the message queue after a put.
LEMMA PutContents ==
  ASSUME IInv, NEW x \in Samples \cup {None}, PutSample(x), NEW d, d = Excess(queue, MaxRequired)
  PROVE  /\ Len(queue) \in Nat /\ Len(queue') \in Nat /\ d \in {0, 1} /\ d <= Len(queue)
         /\ Len(queue') = Len(queue) - d + 1
         /\ \A i \in 1..(Len(queue) - d) : queue'[i] = queue[i + d]
         /\ queue'[Len(queue')] = x
         /\ d = 1 => Len(queue) = MaxRequired /\ Head(queue) = queue[1]
         /\ d = 1 <=> IsFull(queue, MaxRequired)
         /\ dropped_samples' = dropped_samples + d
<1>1. queue \in Seq(Samples \cup {None}) /\ Len(queue) <= MaxRequired /\ Len(queue) \in Nat
  BY DEF IInv, TypeOK
<1> DEFINE T == Samples \cup {None}
<1>2. queue \in Seq(T) /\ x \in T /\ MaxRequired \in Nat \ {0}
  BY <1>1, ConstantTypes
<1>3. queue' = PushDropOldest(queue, MaxRequired, x)
  BY DEF PutSample
<1> HIDE DEF T
<1>4. /\ queue' \in Seq(T)
      /\ Len(queue') = Len(queue) - d + 1
      /\ \A i \in 1..(Len(queue) - d) : queue'[i] = queue[i + d]
      /\ queue'[Len(queue) - d + 1] = x
  BY <1>1, <1>2, <1>3, PushContents
<1>5. d \in {0, 1} /\ (d = 1 <=> IsFull(queue, MaxRequired))
  BY DEF Excess
<1>6. d = 1 => Len(queue) = MaxRequired /\ Head(queue) = queue[1]
  BY <1>1, <1>2, <1>5 DEF IsFull
<1>7. dropped_samples' = dropped_samples + d
  BY DEF PutSample, Excess
<1>8. Len(queue') \in Nat
  BY <1>4
<1> QED BY <1>1, <1>2, <1>4, <1>5, <1>6, <1>7, <1>8

\* Steps that leave the queue alone and start no task.
LEMMA SignalFrame ==
  ASSUME IInv, SignalInv, UNCHANGED <<queue, stopping, procPc>>,
         mainPc' = mainPc \/ (mainPc = "stop" /\ mainPc' = "done"),
         Running' \subseteq Running,
         stopping => trainPc' \in {"sync", "reset", "save", "done"},
         trainPc' = "done" => stopping
  PROVE  SignalInv'
<1>1. /\ Cardinality(Running') <= Cardinality(Running)
      /\ Cardinality(Running') \in Nat /\ Cardinality(Running) \in Nat
  <2>1. Running \in SUBSET Samples /\ Running' \in SUBSET Samples
    BY SetTypes
  <2> QED BY <2>1, CardinalityMonotone, SampleSets
<1>2. Len(queue) \in Nat
  BY DEF IInv, TypeOK
<1>3. mainPc' \in {"stop", "done"} /\ ~stopping' =>
       \E p \in 1..Len(queue') :
         /\ queue'[p] = None
         /\ (Len(queue') - p) + Cardinality(Running') < MaxRequired
         /\ procPc' = "done" => p = Len(queue')
  <2> SUFFICES ASSUME mainPc' \in {"stop", "done"}, ~stopping'
               PROVE  \E p \in 1..Len(queue') :
                        /\ queue'[p] = None
                        /\ (Len(queue') - p) + Cardinality(Running') < MaxRequired
                        /\ procPc' = "done" => p = Len(queue')
    OBVIOUS
  <2>1. PICK p \in 1..Len(queue) :
          /\ queue[p] = None
          /\ (Len(queue) - p) + Cardinality(Running) < MaxRequired
          /\ procPc = "done" => p = Len(queue)
    BY DEF SignalInv
  <2>2. (Len(queue) - p) + Cardinality(Running') < MaxRequired
    BY <1>1, <1>2, <2>1, ConstantTypes
  <2> QED BY <2>1, <2>2
<1> QED BY <1>3 DEF SignalInv

\* No step of the processor comes after the end signal.
LEMMA SignalQuiet ==
  ASSUME IInv, SupplyInv, SignalInv, UNCHANGED trainerVars,
         \/ ProcStep \/ FeedStep \/ MonStep \/ MainCollect \/ MainStop \/ ResetStep
         \/ (\E s \in Samples : TaskGenerated(s) \/ TaskFailed(s)) \/ UNCHANGED vars
  PROVE  SignalInv'
<1>0. /\ UNCHANGED <<stopping, trainPc>>
      /\ stopping => trainPc \in {"sync", "reset", "save", "done"}
      /\ trainPc = "done" => stopping
  BY DEF trainerVars, SignalInv
<1>1. CASE ProcStep \/ MainCollect
  <2>1. /\ UNCHANGED queue /\ mainPc = "wait" /\ mainPc' \in {"wait", "sentinel"}
    BY <1>1 DEF ProcStep, ProcTop, ProcCheck, ProcPause, ProcDrainCollect, ProcDrainResume,
      ProcGet, ProcLimit, ProcFinish, ProcWaited, ProcSubmit, MainCollect, shared, mqVars,
      mainVars, SupplyInv
  <2>2. (\A i \in 1..Len(queue) : queue[i] # None) /\ ~stopping
    BY <2>1 DEF SignalInv
  <2> QED BY <1>0, <2>1, <2>2 DEF SignalInv
<1>2. CASE FeedStep
  <2>1. UNCHANGED <<queue, procPc, mainPc>>
    BY <1>2 DEF FeedStep, FeedStart, FeedPut, FeedEnd, shared, mqVars, procVars, mainVars
  <2>2. Running' \subseteq Running
    BY <1>2, FeedStages DEF FeedStep, FeedEnd, shared, Running, In
  <2> QED BY <1>0, <2>1, <2>2, SignalFrame
<1>3. CASE MonStep \/ MainStop \/ UNCHANGED vars
  <2>1. /\ UNCHANGED <<stage, queue, procPc>>
        /\ mainPc' = mainPc \/ (mainPc = "stop" /\ mainPc' = "done")
    BY <1>3 DEF MonStep, MonHead, MonWake, MonCheck, MonResume, MainStop, vars, shared,
      mqVars, rollouterVars, procVars, mainVars
  <2> QED BY <1>0, <2>1, SetsFrame, SignalFrame
<1>4. CASE ResetStep
  <2>1. UNCHANGED <<queue, procPc, mainPc>>
    BY <1>4 DEF ResetStep, ResetBegin, ResetQuery, ResetEnd, mqVars, procVars, mainVars
  <2>2. Running' \subseteq Running
    BY <1>4 DEF ResetStep, ResetBegin, ResetQuery, ResetEnd, Running, In
  <2> QED BY <1>0, <2>1, <2>2, SignalFrame
<1>5. CASE \E s \in Samples : TaskGenerated(s) \/ TaskFailed(s)
  <2>1. UNCHANGED <<queue, procPc, mainPc>>
    BY <1>5 DEF TaskGenerated, TaskFailed, mqVars, rollouterVars, procVars, mainVars
  <2>2. Running' \subseteq Running
    BY <1>5 DEF TaskGenerated, TaskFailed, Running, In, IInv, TypeOK
  <2> QED BY <1>0, <2>1, <2>2, SignalFrame
<1> QED BY <1>1, <1>2, <1>3, <1>4, <1>5

\* The put of a sample that is still on its way does not displace the signal.
LEMMA SignalPut ==
  ASSUME IInv, SupplyInv, SignalInv, UNCHANGED trainerVars, NEW s \in Samples, TaskPut(s)
  PROVE  SignalInv'
<1>0. /\ UNCHANGED <<stopping, trainPc, procPc, mainPc>>
      /\ stopping => mainPc \in {"stop", "done"} /\ trainPc \in {"sync", "reset", "save", "done"}
      /\ trainPc = "done" => stopping
      /\ stage[s] = "ready" /\ PutSample(s) /\ s # None
  BY NoneAssumption DEF trainerVars, SignalInv, TaskPut, rollouterVars, procVars, mainVars, Samples
<1> DEFINE d == Excess(queue, MaxRequired)
<1>1. /\ Len(queue) \in Nat /\ Len(queue') \in Nat /\ d \in {0, 1} /\ d <= Len(queue)
      /\ Len(queue') = Len(queue) - d + 1
      /\ \A i \in 1..(Len(queue) - d) : queue'[i] = queue[i + d]
      /\ queue'[Len(queue')] = s
      /\ d = 1 => Len(queue) = MaxRequired
  BY <1>0, PutContents
<1> HIDE DEF d
<1>2. \A i \in 1..Len(queue') : queue'[i] = None =>
        i + d \in 1..Len(queue) /\ queue[i + d] = None
  BY <1>0, <1>1
<1>3. \A i \in 1..Len(queue') : queue'[i] = None => mainPc \in {"stop", "done"} /\ ~stopping
  BY <1>2 DEF SignalInv
<1>4. \A i, j \in 1..Len(queue') : queue'[i] = None /\ queue'[j] = None => i = j
  <2> SUFFICES ASSUME NEW i \in 1..Len(queue'), NEW j \in 1..Len(queue'),
                      queue'[i] = None, queue'[j] = None
               PROVE  i = j
    OBVIOUS
  <2>1. i + d = j + d
    BY <1>2 DEF SignalInv
  <2> QED BY <1>1, <2>1
<1>5. /\ s \in Running /\ Running' \in SUBSET Running /\ s \notin Running'
      /\ Running \in SUBSET Samples
  <2>1. \A t \in Samples :
           \/ stage'[t] = stage[t] \/ (stage'[t] = "queued" /\ t = s)
           \/ (stage'[t] = "lost" /\ stage[t] = "queued")
    BY <1>0, PutStages
  <2>2. stage'[s] \in {"queued", "lost"}
    BY <1>0 DEF PutSample
  <2> QED BY <1>0, <2>1, <2>2 DEF Running, In
<1>6. /\ Cardinality(Running') < Cardinality(Running)
      /\ Cardinality(Running') \in Nat /\ Cardinality(Running) \in Nat
  BY <1>5, CardinalityStrict, SampleSets
<1>7. procPc # "done"
  BY <1>5 DEF SupplyInv, IInv, TaskInv
<1>8. mainPc \in {"stop", "done"} /\ ~stopping =>
        \E p \in 1..Len(queue') :
          /\ queue'[p] = None
          /\ (Len(queue') - p) + Cardinality(Running') < MaxRequired
  <2> SUFFICES ASSUME mainPc \in {"stop", "done"}, ~stopping
               PROVE  \E p \in 1..Len(queue') :
                        /\ queue'[p] = None
                        /\ (Len(queue') - p) + Cardinality(Running') < MaxRequired
    OBVIOUS
  <2>1. PICK p \in 1..Len(queue) :
          queue[p] = None /\ (Len(queue) - p) + Cardinality(Running) < MaxRequired
    BY DEF SignalInv
  <2>2. p > d
    BY <1>1, <1>6, <2>1, ConstantTypes
  <2>3. /\ p - d \in 1..(Len(queue) - d) /\ p - d \in 1..Len(queue') /\ (p - d) + d = p
    BY <1>1, <2>2
  <2>4. queue'[p - d] = None
    BY <1>1, <2>1, <2>3
  <2>5. (Len(queue') - (p - d)) + Cardinality(Running') < MaxRequired
    BY <1>1, <1>6, <2>1, <2>3, ConstantTypes
  <2> QED BY <2>3, <2>4, <2>5
<1> QED BY <1>0, <1>3, <1>4, <1>7, <1>8 DEF SignalInv

\* The put of the signal itself: fewer tasks are left than the queue has slots.
LEMMA SignalSent ==
  ASSUME IInv, SupplyInv, ChargeInv, SignalInv, UNCHANGED trainerVars, MainSentinel
  PROVE  SignalInv'
<1>0. /\ UNCHANGED <<stopping, trainPc, procPc>> /\ mainPc = "sentinel" /\ mainPc' = "stop"
      /\ ~stopping /\ trainPc # "done" /\ PutSample(None)
      /\ \A i \in 1..Len(queue) : queue[i] # None
      /\ procPc \in {"done", "failed"}
  BY DEF trainerVars, SignalInv, SupplyInv, MainSentinel, procVars
<1> DEFINE d == Excess(queue, MaxRequired)
<1>1. /\ Len(queue) \in Nat /\ Len(queue') \in Nat /\ d \in {0, 1} /\ d <= Len(queue)
      /\ Len(queue') = Len(queue) - d + 1
      /\ \A i \in 1..(Len(queue) - d) : queue'[i] = queue[i + d]
      /\ queue'[Len(queue')] = None
  BY <1>0, PutContents
<1> HIDE DEF d
<1>2. \A i \in 1..Len(queue') : queue'[i] = None => i = Len(queue')
  BY <1>0, <1>1
<1>3. Cardinality(Running') < MaxRequired /\ Cardinality(Running') \in Nat
  <2>1. Running' \subseteq Running /\ Running \in SUBSET active_tasks
        /\ active_tasks \in SUBSET Samples
    <3>1. \A t \in Samples :
             \/ stage'[t] = stage[t] \/ (stage'[t] = "queued" /\ t = None)
             \/ (stage'[t] = "lost" /\ stage[t] = "queued")
      BY <1>0, PutStages
    <3> QED BY <3>1 DEF Running, In, IInv, TaskInv, TypeOK
  <2>2. /\ Cardinality(Running') <= Cardinality(active_tasks)
        /\ Cardinality(Running') \in Nat /\ Cardinality(active_tasks) \in Nat
    BY <2>1, CardinalityMonotone, SampleSets
  <2>3. Cardinality(active_tasks) < MaxRequired
    <3>1. CASE procPc = "done"
      <4>1. active_tasks = {}
        BY <3>1 DEF SupplyInv
      <4> QED BY <4>1, FS_EmptySet, ConstantTypes
    <3>2. CASE procPc = "failed"
      <4>1. Cardinality(active_tasks) < MaxConcurrent
        BY <3>2 DEF ChargeInv
      <4>2. MaxConcurrent <= MaxRequired
        BY ConstantTypes, ParameterAssumption DEF MaxConcurrent
      <4> QED BY <2>2, <4>1, <4>2, ConstantTypes
    <3> QED BY <1>0, <3>1, <3>2
  <2> QED BY <2>2, <2>3, ConstantTypes
<1>4. \E p \in 1..Len(queue') :
        /\ queue'[p] = None
        /\ (Len(queue') - p) + Cardinality(Running') < MaxRequired
        /\ p = Len(queue')
  <2>1. Len(queue') \in 1..Len(queue')
    BY <1>1
  <2>2. (Len(queue') - Len(queue')) + Cardinality(Running') < MaxRequired
    BY <1>1, <1>3
  <2> QED BY <1>1, <2>1, <2>2
<1> QED BY <1>0, <1>2, <1>4 DEF SignalInv

\* The trainer: the signal moves forward, and is the only one.
LEMMA SignalTrainer ==
  ASSUME IInv, SignalInv, TrainerNext, UNCHANGED rollouterVars
  PROVE  SignalInv'
<1>0. UNCHANGED <<procPc, mainPc>>
  BY DEF rollouterVars, procVars, mainVars
<1>1. CASE TrainStep \/ SyncWeights \/ ResetReturned \/ SaveCheckpoint
  <2>1. /\ UNCHANGED <<stage, queue, stopping>>
        /\ stopping => trainPc' \in {"sync", "reset", "save", "done"}
        /\ trainPc' = "done" => stopping
    BY <1>1 DEF TrainStep, SyncWeights, ResetReturned, SaveCheckpoint, shared, mqVars,
      SignalInv
  <2> QED BY <1>0, <2>1, SetsFrame, SignalFrame
<1>2. CASE CollectSample \/ CollectNone
  <2>1. /\ queue \in Seq(Samples \cup {None}) /\ queue # <<>> /\ queue' = Tail(queue)
        /\ trainPc = "collect" /\ ~stopping
    BY <1>2 DEF CollectSample, CollectNone, IInv, TypeOK, SignalInv
  <2>2. /\ Len(queue) \in Nat \ {0} /\ Head(queue) = queue[1]
        /\ Len(queue') = Len(queue) - 1
        /\ \A i \in 1..(Len(queue) - 1) : queue'[i] = queue[i + 1]
    <3> DEFINE T == Samples \cup {None}
    <3>1. queue \in Seq(T)
      BY <2>1
    <3> HIDE DEF T
    <3> QED BY <2>1, <3>1, TailContents
  <2>3. \A i \in 1..Len(queue') : i + 1 \in 1..Len(queue) /\ queue'[i] = queue[i + 1]
    BY <2>2
  <2>4. \A i, j \in 1..Len(queue') : queue'[i] = None /\ queue'[j] = None => i = j
    <3> SUFFICES ASSUME NEW i \in 1..Len(queue'), NEW j \in 1..Len(queue'),
                        queue'[i] = None, queue'[j] = None
                 PROVE  i = j
      OBVIOUS
    <3>1. i + 1 = j + 1
      BY <2>3 DEF SignalInv
    <3> QED BY <3>1
  <2>5. CASE CollectSample
    <3>1. /\ ~stopping' /\ trainPc' \in {"collect", "train"} /\ queue[1] # None
      BY <2>1, <2>2, <2>5 DEF CollectSample
    <3>2. Running' = Running
      <4>1. \A t \in Samples : stage'[t] = stage[t]
                                 \/ (stage[t] = "queued" /\ stage'[t] = "taken")
        BY TrainerStages
      <4> QED BY <4>1 DEF Running, In
    <3>3. \A i \in 1..Len(queue') : queue'[i] = None => mainPc \in {"stop", "done"}
      BY <2>3 DEF SignalInv
    <3>4. mainPc \in {"stop", "done"} =>
            \E p \in 1..Len(queue') :
              /\ queue'[p] = None
              /\ (Len(queue') - p) + Cardinality(Running) < MaxRequired
              /\ procPc = "done" => p = Len(queue')
      <4> SUFFICES ASSUME mainPc \in {"stop", "done"}
                   PROVE  \E p \in 1..Len(queue') :
                            /\ queue'[p] = None
                            /\ (Len(queue') - p) + Cardinality(Running) < MaxRequired
                            /\ procPc = "done" => p = Len(queue')
        OBVIOUS
      <4>1. PICK p \in 1..Len(queue) :
              /\ queue[p] = None
              /\ (Len(queue) - p) + Cardinality(Running) < MaxRequired
              /\ procPc = "done" => p = Len(queue)
        BY <2>1 DEF SignalInv
      <4>2. /\ p - 1 \in 1..Len(queue') /\ (p - 1) + 1 = p /\ p - 1 \in 1..(Len(queue) - 1)
            /\ Len(queue') - (p - 1) = Len(queue) - p
            /\ p = Len(queue) => p - 1 = Len(queue')
        BY <2>2, <3>1, <4>1
      <4>3. queue'[p - 1] = None
        BY <2>2, <4>1, <4>2
      <4> QED BY <4>1, <4>2, <4>3
    <3> QED BY <1>0, <2>4, <3>1, <3>2, <3>3, <3>4 DEF SignalInv
  <2>6. CASE CollectNone
    <3>1. stopping' = TRUE /\ trainPc' \in {"sync", "save"} /\ queue[1] = None
      BY <2>2, <2>6 DEF CollectNone
    <3>2. 1 \in 1..Len(queue)
      BY <2>2
    <3>3. \A i \in 1..Len(queue') : queue'[i] # None
      <4> SUFFICES ASSUME NEW i \in 1..Len(queue'), queue'[i] = None PROVE FALSE
        OBVIOUS
      <4>1. i + 1 = 1
        BY <2>3, <3>1, <3>2 DEF SignalInv
      <4> QED BY <4>1
    <3>4. mainPc \in {"stop", "done"}
      BY <3>1, <3>2 DEF SignalInv
    <3> QED BY <1>0, <3>1, <3>3, <3>4 DEF SignalInv
  <2> QED BY <1>2, <2>5, <2>6
<1> QED BY <1>1, <1>2 DEF TrainerNext

\* Every step keeps the end signal.
LEMMA SignalStep ==
  IInv /\ SupplyInv /\ ChargeInv /\ SignalInv /\ [Next]_vars => SignalInv'
<1> SUFFICES ASSUME IInv, SupplyInv, ChargeInv, SignalInv, [Next]_vars PROVE SignalInv'
  OBVIOUS
<1>1. CASE RollouterNext /\ UNCHANGED trainerVars
  <2>1. CASE MainSentinel
    BY <1>1, <2>1, SignalSent
  <2>2. CASE \E s \in Samples : TaskPut(s)
    BY <1>1, <2>2, SignalPut
  <2>3. CASE \/ ProcStep \/ FeedStep \/ MonStep \/ MainCollect \/ MainStop \/ ResetStep
             \/ (\E s \in Samples : TaskGenerated(s) \/ TaskFailed(s))
    BY <1>1, <2>3, SignalQuiet
  <2> QED BY <1>1, <2>1, <2>2, <2>3 DEF RollouterNext, MainStep, TaskStep
<1>2. CASE TrainerNext /\ UNCHANGED rollouterVars
  BY <1>2, SignalTrainer
<1>3. CASE RunnerClear
  <2>1. /\ queue' = <<>> /\ trainPc = "done" /\ UNCHANGED <<mainPc, stopping, trainPc>>
    BY <1>3 DEF RunnerClear, TrainerDone, trainerVars, rollouterVars, mainVars
  <2>2. Len(queue') = 0
    BY <2>1
  <2>3. 1..Len(queue') = {}
    BY <2>2
  <2>4. stopping
    BY <2>1 DEF SignalInv
  <2> QED BY <2>1, <2>3, <2>4 DEF SignalInv
<1>4. CASE UNCHANGED vars
  <2>1. UNCHANGED trainerVars
    BY <1>4 DEF vars
  <2> QED BY <1>4, <2>1, SignalQuiet
<1>5. CASE Finished
  BY <1>4, <1>5 DEF Finished
<1> QED BY <1>1, <1>2, <1>3, <1>4, <1>5 DEF Next

-----------------------------------------------------------------------------
(* What a full queue costs *)

\* A queue that holds the end signal at most once holds one sample fewer than
\* its length, and without the signal as many.
LEMMA QueueFilled ==
  ASSUME IInv, SignalInv
  PROVE  /\ Len(queue) <= Cardinality(Queued) + 1
         /\ (\A i \in 1..Len(queue) : queue[i] # None) => Len(queue) <= Cardinality(Queued)
<1> DEFINE Idx == 1..Len(queue)
           I == {i \in Idx : queue[i] # None}
           f == [i \in I |-> queue[i]]
<1>1. Len(queue) \in Nat /\ queue \in Seq(Samples \cup {None})
  BY DEF IInv, TypeOK
<1>2. IsFiniteSet(Idx) /\ Cardinality(Idx) = Len(queue)
  <2>1. /\ IsFiniteSet(1..Len(queue))
        /\ Cardinality(1..Len(queue)) = IF 1 > Len(queue) THEN 0 ELSE Len(queue) - 1 + 1
    BY <1>1, FS_Interval
  <2> QED BY <1>1, <2>1
<1>3. \A i \in I : f[i] \in Queued
  <2> SUFFICES ASSUME NEW i \in I PROVE queue[i] \in Queued
    OBVIOUS
  <2>1. queue[i] \in Samples
    BY <1>1
  <2> QED BY <2>1 DEF IInv, QueueInv, Queued, In
<1>4. \A i, j \in I : f[i] = f[j] => i = j
  BY DEF IInv, QueueInv
<1>5. f \in Injection(I, Queued)
  <2>1. f \in [I -> Queued]
    BY <1>3
  <2>2. IsInjective(f)
    BY <1>4 DEF IsInjective
  <2> HIDE DEF f, I
  <2> QED BY <2>1, <2>2 DEF Injection
<1>6. IsFiniteSet(Queued) /\ Cardinality(Queued) \in Nat
  BY SetTypes, SampleSets
<1>7. IsFiniteSet(I) /\ Cardinality(I) <= Cardinality(Queued) /\ Cardinality(I) \in Nat
  BY <1>5, <1>6, FS_Injection, FS_CardinalityType
<1>8. (\A i \in Idx : queue[i] # None) => Len(queue) <= Cardinality(Queued)
  <2> SUFFICES ASSUME \A i \in Idx : queue[i] # None
               PROVE  Len(queue) <= Cardinality(Queued)
    OBVIOUS
  <2>1. I = Idx
    OBVIOUS
  <2> HIDE DEF I, Idx
  <2> QED BY <1>2, <1>7, <2>1
<1>9. CASE \E p \in Idx : queue[p] = None
  <2>1. PICK p \in Idx : queue[p] = None
    BY <1>9
  <2>2. I = Idx \ {p}
    BY <2>1 DEF SignalInv
  <2> HIDE DEF I, Idx
  <2>3. Cardinality(I) = Cardinality(Idx) - 1
    BY <1>2, <2>1, <2>2, FS_RemoveElement
  <2>4. Len(queue) <= Cardinality(Queued) + 1
    BY <1>1, <1>2, <1>6, <1>7, <2>3
  <2> QED BY <1>8, <2>4 DEF Idx
<1>10. CASE \A i \in Idx : queue[i] # None
  <2>1. Len(queue) <= Cardinality(Queued)
    BY <1>8, <1>10
  <2>2. Len(queue) <= Cardinality(Queued) + 1
    BY <1>1, <1>6, <2>1
  <2> QED BY <2>1, <2>2
<1> QED BY <1>9, <1>10

\* Two samples outside the queue leave it one place short of full.
LEMMA TwoOutside ==
  ASSUME NEW B \in SUBSET Samples, NEW A \in SUBSET B, NEW x \in B, NEW y \in B,
         x \notin A, y \notin A, x # y
  PROVE  Cardinality(A) + 2 <= Cardinality(B)
<1>1. A \cup {x} \in SUBSET B /\ y \notin A \cup {x}
  OBVIOUS
<1>2. /\ Cardinality(A) < Cardinality(A \cup {x})
      /\ Cardinality(A \cup {x}) < Cardinality(B)
  <2>1. A \cup {x} \in SUBSET Samples /\ A \in SUBSET (A \cup {x}) /\ x \in A \cup {x}
    BY <1>1
  <2> QED BY <1>1, <2>1, CardinalityStrict
<1>3. /\ Cardinality(A) \in Nat /\ Cardinality(A \cup {x}) \in Nat
      /\ Cardinality(B) \in Nat
  <2>1. A \in SUBSET Samples /\ A \cup {x} \in SUBSET Samples
    BY <1>1
  <2> QED BY <2>1, SampleSets
<1> QED BY <1>2, <1>3

\* A full queue is never asked for a second sample of the version.
LEMMA LostFirst ==
  ASSUME IInv, SupplyInv, ChargeInv, SignalInv, NEW x \in Samples \cup {None},
         x # None => stage[x] = "ready",
         x = None => mainPc = "sentinel",
         Len(queue) = MaxRequired, Head(queue) # None
  PROVE  In({"lost"}) = {}
<1> SUFFICES ASSUME NEW l \in Samples, stage[l] = "lost" PROVE FALSE
  BY DEF In
<1>1. /\ Queued \in SUBSET Outstanding /\ l \in Outstanding /\ l \notin Queued
      /\ Outstanding \in SUBSET Samples
  BY SetTypes DEF Queued, Outstanding, In
<1>2. /\ Cardinality(Queued) \in Nat /\ Cardinality(Outstanding) \in Nat
      /\ Cardinality(Queued) < Cardinality(Outstanding)
  BY <1>1, SetTypes, CardinalityStrict, SampleSets
<1>3. /\ Len(queue) <= Cardinality(Queued) + 1
      /\ (\A i \in 1..Len(queue) : queue[i] # None) => Len(queue) <= Cardinality(Queued)
  BY QueueFilled
<1>4. /\ Cardinality(Outstanding) <= MaxRequired + 1
      /\ procPc \in {"done", "failed"} => Cardinality(Outstanding) <= MaxRequired
  BY DEF IInv, BudgetInv, ChargeInv
<1>5. CASE x = None
  <2>1. /\ \A i \in 1..Len(queue) : queue[i] # None
        /\ procPc \in {"done", "failed"}
    BY <1>5 DEF SignalInv, SupplyInv
  <2> QED BY <1>2, <1>3, <1>4, <2>1, ConstantTypes
<1>6. CASE x # None
  <2>1. x \in Outstanding /\ x \notin Queued /\ x # l
    BY <1>6 DEF Queued, Outstanding, In
  <2>2. Cardinality(Queued) + 2 <= Cardinality(Outstanding)
    BY <1>1, <2>1, TwoOutside
  <2>3. CASE \A i \in 1..Len(queue) : queue[i] # None
    BY <1>2, <1>3, <1>4, <2>2, <2>3, ConstantTypes
  <2>4. CASE \E i \in 1..Len(queue) : queue[i] = None
    <3>1. procPc \in {"done", "failed"}
      BY <2>4 DEF SignalInv, SupplyInv
    <3> QED BY <1>2, <1>3, <1>4, <2>2, <3>1, ConstantTypes
  <2> QED BY <2>3, <2>4
<1> QED BY <1>5, <1>6

\* Every step keeps the bound.
LEMMA DropStep ==
  IInv /\ SupplyInv /\ ChargeInv /\ SignalInv /\ DropBound /\ [Next]_vars => DropBound'
<1> SUFFICES ASSUME IInv, SupplyInv, ChargeInv, SignalInv, DropBound, [Next]_vars
             PROVE  DropBound'
  OBVIOUS
<1> DEFINE L == In({"lost"})
<1>1. L \in SUBSET Samples
  BY DEF In
<1>2. ASSUME L' \subseteq L PROVE DropBound'
  <2>1. /\ Cardinality(L') <= Cardinality(L) /\ Cardinality(L) <= 1
        /\ Cardinality(L') \in Nat /\ Cardinality(L) \in Nat
    <3>1. L' \in SUBSET Samples /\ L' \in SUBSET L
      BY <1>1, <1>2
    <3> HIDE DEF L
    <3>2. Cardinality(L) <= 1
      BY DEF DropBound, L
    <3> QED BY <1>1, <3>1, <3>2, CardinalityMonotone, SampleSets
  <2>2. Cardinality(L') <= 1
    BY <2>1
  <2> QED BY <2>2 DEF DropBound
<1>3. CASE MainSentinel \/ \E s \in Samples : TaskPut(s)
  <2>1. PICK x \in Samples \cup {None} : /\ PutSample(x) /\ (x # None => stage[x] = "ready")
                                         /\ x = None => mainPc = "sentinel"
    BY <1>3, NoneAssumption DEF MainSentinel, TaskPut, Samples
  <2>2. \A s \in Samples :
           \/ stage'[s] = stage[s] \/ (stage'[s] = "queued" /\ s = x)
           \/ /\ stage'[s] = "lost" /\ stage[s] = "queued"
              /\ IsFull(queue, MaxRequired) /\ s = Head(queue)
    BY <2>1, PutStages
  <2>3. CASE IsFull(queue, MaxRequired) /\ Head(queue) # None
    <3>1. Len(queue) = MaxRequired
      BY <2>3, ConstantTypes DEF IsFull, IInv, TypeOK
    <3>2. L = {}
      BY <2>1, <2>3, <3>1, LostFirst
    <3>3. L' \in SUBSET Samples /\ \A s, t \in L' : s = t
      BY <2>2, <3>2 DEF In
    <3> HIDE DEF L
    <3>4. Cardinality(L') <= 1
      BY <3>3, CardinalityAtMostOne
    <3> QED BY <3>4 DEF DropBound, L
  <2>4. CASE ~(IsFull(queue, MaxRequired) /\ Head(queue) # None)
    <3>1. L' \subseteq L
      BY <2>2, <2>4, NoneAssumption DEF In, Samples
    <3> QED BY <1>2, <3>1
  <2> QED BY <2>3, <2>4
<1>4. CASE UNCHANGED stage
  BY <1>2, <1>4 DEF In
<1>5. CASE FeedStep \/ ProcStep \/ ResetStep
           \/ \E s \in Samples : TaskGenerated(s) \/ TaskFailed(s)
  <2>1. L' \subseteq L
    BY <1>5, FeedStages DEF FeedStep, FeedEnd, ProcStep, ProcTop, ProcCheck, ProcPause,
      ProcDrainCollect, ProcDrainResume, ProcGet, ProcLimit, ProcFinish, ProcWaited,
      ProcSubmit, ResetStep, ResetBegin, ResetQuery, ResetEnd, TaskGenerated, TaskFailed,
      shared, In, IInv, TypeOK
  <2> QED BY <1>2, <2>1
<1>6. CASE TrainerNext
  <2>1. \A t \in Samples : stage'[t] = stage[t]
                             \/ (stage[t] = "queued" /\ stage'[t] = "taken")
    BY <1>6, TrainerStages
  <2>2. L' \subseteq L
    BY <2>1 DEF In
  <2> QED BY <1>2, <2>2
<1>7. CASE RunnerClear
  <2>1. L' \subseteq L
    BY <1>7 DEF RunnerClear, In
  <2> QED BY <1>2, <2>1
<1>8. CASE MonStep \/ MainCollect \/ MainStop \/ UNCHANGED vars
  <2>1. UNCHANGED stage
    BY <1>8 DEF MonStep, MonHead, MonWake, MonCheck, MonResume, MainCollect, MainStop, vars,
      shared
  <2> QED BY <1>4, <2>1
<1> QED BY <1>3, <1>5, <1>6, <1>7, <1>8 DEF Next, RollouterNext, MainStep, TaskStep, Finished

-----------------------------------------------------------------------------
(* Room for a trainer that waits *)

\* The samples of this version, with the tasks that raised.
Backed == In({"hand", "gen", "ready", "queued", "taken", "lost", "failed"})

\* What the counter may exceed: reset_staleness counts a finished task that is
\* not yet collected together with its sample in the queue, or after the sample
\* has left the queue, but never more than the tasks there are.  And a version
\* that has lost a sample still has max_required_samples others.
RoomInv ==
  /\ InLoop => staleness_samples <= Cardinality(Backed) + MaxConcurrent
  /\ reset = "assign" => resetQueueSize <= Len(queue)
  /\ ~stopping /\ In({"lost"}) # {} => MaxRequired <= Cardinality(Taken) + Len(queue)

\* The processor does not come back to its loop.
LEMMA LoopIsLeft ==
  ASSUME IInv, [Next]_vars, InLoop'
  PROVE  InLoop
<1>1. CASE UNCHANGED procPc
  BY <1>1 DEF InLoop
<1>2. CASE ProcStep
  BY <1>2 DEF ProcStep, ProcTop, ProcCheck, ProcPause, ProcDrainCollect, ProcDrainResume,
    ProcGet, ProcLimit, ProcFinish, ProcWaited, ProcSubmit, InLoop
<1>3. CASE ~ProcStep
  <2>1. UNCHANGED procPc
    BY <1>3 DEF Next, RollouterNext, FeedStep, FeedStart, FeedPut, FeedEnd, MonStep, MonHead, MonWake,
      MonCheck, MonResume, MainStep, MainCollect, MainSentinel, MainStop, ResetStep, ResetBegin,
      ResetQuery, ResetEnd, TaskStep, TaskGenerated, TaskFailed, TaskPut, RunnerClear, Finished,
      rollouterVars, procVars, vars
  <2> QED BY <1>1, <2>1
<1> QED BY <1>2, <1>3

\* Steps that leave the counter alone and write no sample off.
LEMMA RoomFrame ==
  ASSUME IInv, RoomInv, [Next]_vars, UNCHANGED staleness_samples,
         \A s \in Samples : s \in Backed => s \in Backed'
  PROVE  InLoop' => staleness_samples' <= Cardinality(Backed') + MaxConcurrent
<1>1. Backed \in SUBSET Backed' /\ Backed' \in SUBSET Samples /\ Backed \in SUBSET Samples
  BY DEF Backed, In
<1>2. /\ Cardinality(Backed) <= Cardinality(Backed')
      /\ Cardinality(Backed) \in Nat /\ Cardinality(Backed') \in Nat
  BY <1>1, CardinalityMonotone, SampleSets
<1>3. staleness_samples \in Nat
  BY DEF IInv, TypeOK
<1> HIDE DEF Backed
<1> QED BY <1>2, <1>3, LoopIsLeft, ConstantTypes DEF RoomInv

\* The counter: each increment comes with a sample, and reset_staleness assigns
\* no more than the tasks and what is in the queue.
LEMMA CounterStep ==
  ASSUME IInv, IInv', SupplyInv, SignalInv, RoomInv, [Next]_vars
  PROVE  InLoop' => staleness_samples' <= Cardinality(Backed') + MaxConcurrent
<1> SUFFICES ASSUME InLoop'
             PROVE  staleness_samples' <= Cardinality(Backed') + MaxConcurrent
  OBVIOUS
<1>0. InLoop
  BY LoopIsLeft
<1>1. CASE ProcGet
  <2> DEFINE h == Head(pending_queue)
  <2>1. /\ staleness_samples' = staleness_samples + 1
        /\ h # None /\ stage' = [stage EXCEPT ![h] = "hand"] /\ pending_queue # <<>>
    BY <1>1 DEF ProcGet, InLoop
  <2>2. h \in Samples /\ stage[h] = "pending"
    <3>1. pending_queue \in Seq(Samples \cup {None})
      BY DEF IInv, TypeOK
    <3>2. 1 \in 1..Len(pending_queue) /\ h = pending_queue[1] /\ h \in Samples \cup {None}
      BY <2>1, <3>1
    <3> QED BY <2>1, <3>2 DEF IInv, FeedInv
  <2> HIDE DEF h
  <2>3. Backed' = Backed \cup {h} /\ h \notin Backed
    BY <2>1, <2>2 DEF Backed, In, IInv, TypeOK
  <2>4. Backed \in SUBSET Samples
    BY DEF Backed, In
  <2> HIDE DEF Backed
  <2>5. Cardinality(Backed') = Cardinality(Backed) + 1 /\ Cardinality(Backed) \in Nat
    BY <2>2, <2>3, <2>4, CardinalityAdd, SampleSets
  <2>6. staleness_samples \in Nat /\ staleness_samples <= Cardinality(Backed) + MaxConcurrent
    BY <1>0 DEF IInv, TypeOK, RoomInv
  <2> QED BY <2>1, <2>5, <2>6, ConstantTypes
<1>2. CASE ResetEnd
  <2>1. /\ staleness_samples' = resetActive + resetQueueSize /\ reset = "assign"
        /\ \A s \in Samples : stage'[s] = IF stage[s] \in {"taken", "lost"} THEN "spent"
                                          ELSE stage[s]
    BY <1>2 DEF ResetEnd
  <2>2. /\ resetActive = Cardinality(active_tasks) /\ Cardinality(active_tasks) <= MaxConcurrent
        /\ resetQueueSize <= Len(queue) /\ resetQueueSize \in Nat /\ Len(queue) \in Nat
        /\ Cardinality(active_tasks) \in Nat
    <3>1. Cardinality(active_tasks) \in Nat
      BY ChargedTypes
    <3>2. resetActive = Cardinality(active_tasks) /\ resetQueueSize <= Len(queue)
      BY <2>1 DEF IInv, ResetInv, RoomInv
    <3>3. /\ Cardinality(active_tasks) <= MaxConcurrent /\ resetQueueSize \in Nat
          /\ queue \in Seq(Samples \cup {None})
      BY DEF IInv, TypeOK
    <3> QED BY <3>1, <3>2, <3>3
  <2>3. \A i \in 1..Len(queue) : queue[i] # None
    BY <1>0 DEF InLoop, SignalInv, SupplyInv
  <2>4. Len(queue) <= Cardinality(Queued)
    BY <2>3, QueueFilled
  <2>5. Queued \in SUBSET Backed' /\ Backed' \in SUBSET Samples
    BY <2>1 DEF Queued, Backed, In
  <2> HIDE DEF Backed, Queued
  <2>6. /\ Cardinality(Queued) <= Cardinality(Backed')
        /\ Cardinality(Queued) \in Nat /\ Cardinality(Backed') \in Nat
    BY <2>5, CardinalityMonotone, SampleSets, SetTypes
  <2> QED BY <2>1, <2>2, <2>4, <2>6, ConstantTypes
<1>3. CASE ProcStep /\ ~ProcGet
  <2>1. /\ UNCHANGED staleness_samples
        /\ \A s \in Samples : s \in Backed => s \in Backed'
    BY <1>3 DEF ProcStep, ProcTop, ProcCheck, ProcPause, ProcDrainCollect, ProcDrainResume,
      ProcLimit, ProcFinish, ProcWaited, ProcSubmit, shared, Backed, In, IInv, TypeOK
  <2> QED BY <2>1, <1>3, RoomFrame
<1>4. CASE FeedStep \/ \E s \in Samples : TaskGenerated(s) \/ TaskFailed(s)
  <2>1. UNCHANGED staleness_samples
    BY <1>4 DEF FeedStep, FeedStart, FeedPut, FeedEnd, TaskGenerated, TaskFailed, rollouterVars
  <2>2. \A s \in Samples : s \in Backed => s \in Backed'
    <3>1. CASE FeedStep
      <4>1. CASE FeedStart \/ FeedPut
        BY <4>1, FeedStages DEF Backed, In
      <4>2. CASE FeedEnd
        BY <4>2 DEF FeedEnd, shared, Backed, In
      <4> QED BY <3>1, <4>1, <4>2 DEF FeedStep
    <3>2. CASE \E s \in Samples : TaskGenerated(s) \/ TaskFailed(s)
      BY <3>2 DEF TaskGenerated, TaskFailed, Backed, In, IInv, TypeOK
    <3> QED BY <1>4, <3>1, <3>2
  <2> QED BY <2>1, <2>2, RoomFrame
<1>5. CASE MainSentinel \/ \E s \in Samples : TaskPut(s)
  <2>1. UNCHANGED staleness_samples
    BY <1>5 DEF MainSentinel, TaskPut, rollouterVars
  <2>2. PICK x \in Samples \cup {None} : PutSample(x) /\ (x # None => stage[x] = "ready")
    BY <1>5 DEF MainSentinel, TaskPut
  <2>3. \A s \in Samples : stage'[s] = stage[s] \/ stage'[s] \in {"queued", "lost"}
    BY <2>2, PutStages
  <2>4. \A s \in Samples : s \in Backed => s \in Backed'
    BY <2>3 DEF Backed, In
  <2> QED BY <2>1, <2>4, RoomFrame
<1>6. CASE TrainerNext /\ UNCHANGED rollouterVars
  <2>1. UNCHANGED staleness_samples
    BY <1>6 DEF rollouterVars
  <2>2. \A s \in Samples : stage'[s] = stage[s] \/ stage'[s] = "taken"
    BY <1>6, TrainerStages
  <2>3. \A s \in Samples : s \in Backed => s \in Backed'
    BY <2>2 DEF Backed, In
  <2> QED BY <2>1, <2>3, RoomFrame
<1>7. CASE RunnerClear
  <2>1. mainPc # "wait"
    BY <1>7 DEF RunnerClear, RollouterDone
  <2> QED BY <1>0, <2>1 DEF InLoop, SupplyInv
<1>8. CASE MonStep \/ MainCollect \/ MainStop \/ ResetBegin \/ ResetQuery \/ UNCHANGED vars
  <2>1. UNCHANGED <<stage, staleness_samples>>
    BY <1>8 DEF MonStep, MonHead, MonWake, MonCheck, MonResume, MainCollect, MainStop,
      ResetBegin, ResetQuery, shared, rollouterVars, vars
  <2>2. \A s \in Samples : s \in Backed => s \in Backed'
    BY <2>1 DEF Backed, In
  <2> QED BY <2>1, <2>2, RoomFrame
<1> QED BY <1>1, <1>2, <1>3, <1>4, <1>5, <1>6, <1>7, <1>8
        DEF Next, RollouterNext, MainStep, ResetStep, TaskStep, Finished

\* The message queue: it does not shrink while reset_staleness is open, and what
\* leaves it after a loss is taken.
LEMMA LossStep ==
  ASSUME IInv, IInv', SignalInv, RoomInv, [Next]_vars
  PROVE  /\ reset' = "assign" => resetQueueSize' <= Len(queue')
         /\ ~stopping' /\ In({"lost"})' # {} => MaxRequired <= Cardinality(Taken') + Len(queue')
<1>0. /\ Len(queue) \in Nat /\ Len(queue') \in Nat /\ resetQueueSize \in Nat
      /\ Cardinality(Taken) \in Nat /\ Cardinality(Taken') \in Nat
  <2>1. Taken \in SUBSET Samples /\ Taken' \in SUBSET Samples
    BY DEF Taken, In
  <2>2. queue \in Seq(Samples \cup {None}) /\ resetQueueSize \in Nat
    BY DEF IInv, TypeOK
  <2>3. queue' \in Seq(Samples \cup {None})
    BY DEF IInv, TypeOK
  <2>4. Cardinality(Taken) \in Nat /\ Cardinality(Taken') \in Nat
    BY <2>1, SampleSets
  <2> QED BY <2>2, <2>3, <2>4
<1>1. ASSUME UNCHANGED <<queue, stopping>>, reset' = "assign" => reset = "assign",
             UNCHANGED resetQueueSize,
             \A s \in Samples : stage[s] = "taken" => stage'[s] = "taken",
             \A s \in Samples : stage'[s] = "lost" => stage[s] = "lost"
      PROVE  /\ reset' = "assign" => resetQueueSize' <= Len(queue')
             /\ ~stopping' /\ In({"lost"})' # {} =>
                  MaxRequired <= Cardinality(Taken') + Len(queue')
  <2>1. Taken \in SUBSET Taken' /\ Taken' \in SUBSET Samples
        /\ (In({"lost"})' # {} => In({"lost"}) # {})
    BY <1>1 DEF Taken, In
  <2>2. Cardinality(Taken) <= Cardinality(Taken')
    BY <2>1, CardinalityMonotone
  <2> HIDE DEF Taken, In
  <2> QED BY <1>0, <1>1, <2>1, <2>2, ConstantTypes DEF RoomInv
<1>2. CASE UNCHANGED trainerVars /\ (MainSentinel \/ \E s \in Samples : TaskPut(s))
  <2>1. UNCHANGED <<reset, resetQueueSize, stopping>>
    BY <1>2 DEF MainSentinel, TaskPut, rollouterVars, resetVars, trainerVars
  <2>2. PICK x \in Samples \cup {None} : PutSample(x) /\ (x # None => stage[x] = "ready")
    BY <1>2 DEF MainSentinel, TaskPut
  <2>3. \A s \in Samples :
           \/ stage'[s] = stage[s] \/ (stage'[s] = "queued" /\ s = x)
           \/ /\ stage'[s] = "lost" /\ stage[s] = "queued"
              /\ IsFull(queue, MaxRequired) /\ s = Head(queue)
    BY <2>2, PutStages
  <2> DEFINE d == Excess(queue, MaxRequired)
  <2>4. /\ d \in {0, 1} /\ Len(queue') = Len(queue) - d + 1
        /\ d = 1 => Len(queue) = MaxRequired
        /\ d = 1 <=> IsFull(queue, MaxRequired)
    BY <2>2, PutContents
  <2> HIDE DEF d
  <2>5. /\ \A s \in Samples : stage[s] = "taken" => stage'[s] = "taken"
    <3>1. \A s \in Samples : s = x => stage[s] = "ready"
      BY <2>2, NoneAssumption DEF Samples
    <3> QED BY <2>3, <3>1
  <2>6. Taken \in SUBSET Taken' /\ Taken' \in SUBSET Samples
        /\ (d = 0 => (In({"lost"})' # {} => In({"lost"}) # {}))
    BY <2>3, <2>4, <2>5 DEF Taken, In
  <2>7. Cardinality(Taken) <= Cardinality(Taken')
    BY <2>6, CardinalityMonotone
  <2> HIDE DEF Taken, In
  <2>8. reset' = "assign" => resetQueueSize' <= Len(queue')
    BY <1>0, <2>1, <2>4 DEF RoomInv
  <2>9. CASE d = 0
    BY <1>0, <2>1, <2>4, <2>6, <2>7, <2>8, <2>9, ConstantTypes DEF RoomInv
  <2>10. CASE d = 1
    BY <1>0, <2>4, <2>8, <2>10, ConstantTypes
  <2> QED BY <2>4, <2>9, <2>10
<1>3. CASE CollectSample /\ UNCHANGED rollouterVars
  <2> DEFINE h == Head(queue)
  <2>1. /\ UNCHANGED <<reset, resetQueueSize, stopping>> /\ trainPc = "collect"
        /\ queue # <<>> /\ h # None /\ queue' = Tail(queue)
        /\ stage' = [stage EXCEPT ![h] = "taken"]
    BY <1>3 DEF CollectSample, rollouterVars, resetVars
  <2>2. h \in Samples /\ stage[h] = "queued" /\ Len(queue') = Len(queue) - 1
    <3>1. queue \in Seq(Samples \cup {None})
      BY DEF IInv, TypeOK
    <3>2. 1 \in 1..Len(queue) /\ h = queue[1] /\ h \in Samples \cup {None}
      BY <2>1, <3>1
    <3>3. Len(queue') = Len(queue) - 1
      BY <2>1, <3>1
    <3> QED BY <2>1, <3>2, <3>3 DEF IInv, QueueInv
  <2> HIDE DEF h
  <2>3. reset = "idle"
    BY <2>1 DEF IInv, LockInv
  <2>4. /\ Taken' = Taken \cup {h} /\ h \notin Taken /\ Taken \in SUBSET Samples
        /\ (In({"lost"})' # {} => In({"lost"}) # {})
    BY <2>1, <2>2 DEF Taken, In, IInv, TypeOK
  <2>5. Cardinality(Taken') = Cardinality(Taken) + 1
    BY <2>2, <2>4, CardinalityAdd
  <2> HIDE DEF Taken, In
  <2> QED BY <1>0, <2>1, <2>2, <2>3, <2>4, <2>5, ConstantTypes DEF RoomInv
<1>4. CASE CollectNone /\ UNCHANGED rollouterVars
  <2>1. stopping' /\ reset' = reset /\ trainPc = "collect"
    BY <1>4 DEF CollectNone
  <2>2. reset = "idle"
    BY <2>1 DEF IInv, LockInv
  <2> QED BY <2>1, <2>2
<1>5. CASE RunnerClear
  <2>1. UNCHANGED <<reset, stopping>> /\ trainPc = "done" /\ stopping
    BY <1>5 DEF RunnerClear, TrainerDone, trainerVars, SignalInv
  <2>2. reset = "idle"
    BY <2>1 DEF IInv, LockInv
  <2> QED BY <2>1, <2>2
<1>6. CASE ResetQuery /\ UNCHANGED trainerVars
  <2>1. /\ resetQueueSize' = Len(queue) /\ UNCHANGED <<queue, stage, stopping>>
    BY <1>6 DEF ResetQuery, mqVars, trainerVars
  <2>2. Taken' = Taken /\ In({"lost"})' = In({"lost"})
    BY <2>1 DEF Taken, In
  <2> QED BY <1>0, <2>1, <2>2 DEF RoomInv
<1>7. CASE ResetEnd
  <2>1. reset' = "idle"
    BY <1>7 DEF ResetEnd
  <2>2. In({"lost"})' = {}
    BY <1>7 DEF ResetEnd, In
  <2> QED BY <2>1, <2>2
<1>8. CASE /\ UNCHANGED trainerVars
           /\ \/ FeedStep \/ ProcStep \/ MonStep \/ MainCollect \/ MainStop \/ ResetBegin
              \/ \E s \in Samples : TaskGenerated(s) \/ TaskFailed(s)
  <2>1. /\ UNCHANGED <<queue, stopping, resetQueueSize>>
        /\ reset' = "assign" => reset = "assign"
    BY <1>8 DEF FeedStep, FeedStart, FeedPut, FeedEnd, ProcStep, ProcTop, ProcCheck, ProcPause,
      ProcDrainCollect, ProcDrainResume, ProcGet, ProcLimit, ProcFinish, ProcWaited,
      ProcSubmit, MonStep, MonHead, MonWake, MonCheck, MonResume, MainCollect, MainStop,
      ResetBegin, TaskGenerated, TaskFailed, shared, mqVars, rollouterVars, resetVars, trainerVars
  <2>2. /\ \A s \in Samples : stage[s] = "taken" => stage'[s] = "taken"
        /\ \A s \in Samples : stage'[s] = "lost" => stage[s] = "lost"
    <3>1. CASE FeedStart \/ FeedPut
      BY <3>1, FeedStages
    <3>2. CASE ProcGet
      <4>1. /\ stage' = [stage EXCEPT ![Head(pending_queue)] = "hand"] \/ UNCHANGED stage
            /\ stage' # stage => Head(pending_queue) # None
            /\ pending_queue # <<>> /\ pending_queue \in Seq(Samples \cup {None})
        BY <3>2 DEF ProcGet, IInv, TypeOK
      <4>2. 1 \in 1..Len(pending_queue) /\ Head(pending_queue) = pending_queue[1]
        BY <4>1
      <4>3. stage' # stage => stage[Head(pending_queue)] = "pending"
        BY <4>1, <4>2 DEF IInv, FeedInv
      <4> QED BY <4>1, <4>3 DEF IInv, TypeOK
    <3>3. CASE ProcSubmit \/ \E s \in Samples : TaskGenerated(s) \/ TaskFailed(s)
      <4>1. PICK s \in Samples, a \in {"gen", "ready", "failed"} :
              stage[s] \in {"hand", "gen"} /\ stage' = [stage EXCEPT ![s] = a]
        BY <3>3 DEF ProcSubmit, TaskGenerated, TaskFailed, In
      <4> QED BY <4>1 DEF IInv, TypeOK
    <3>4. CASE UNCHANGED stage
      BY <3>4
    <3>5. CASE FeedEnd \/ (ProcStep /\ ~ProcGet /\ ~ProcSubmit) \/ MonStep \/ MainCollect
               \/ MainStop \/ ResetBegin
      <4>1. UNCHANGED stage
        BY <3>5 DEF FeedEnd, ProcStep, ProcTop, ProcCheck, ProcPause, ProcDrainCollect,
          ProcDrainResume, ProcLimit, ProcFinish, ProcWaited, MonStep, MonHead, MonWake,
          MonCheck, MonResume, MainCollect, MainStop, ResetBegin, shared
      <4> QED BY <3>4, <4>1
    <3> QED BY <1>8, <3>1, <3>2, <3>3, <3>5 DEF FeedStep
  <2> QED BY <1>1, <2>1, <2>2
<1>9. CASE \/ (TrainStep \/ SyncWeights \/ ResetReturned \/ SaveCheckpoint) /\ UNCHANGED rollouterVars
           \/ UNCHANGED vars
  <2>1. UNCHANGED <<stage, queue, stopping, resetQueueSize>> /\ (reset' = "assign" => reset = "assign")
    BY <1>9 DEF TrainStep, SyncWeights, ResetReturned, SaveCheckpoint, shared, mqVars,
      rollouterVars, resetVars, vars, trainerVars
  <2> QED BY <1>1, <2>1
<1> QED BY <1>2, <1>3, <1>4, <1>5, <1>6, <1>7, <1>8, <1>9
        DEF Next, RollouterNext, TrainerNext, MainStep, ResetStep, TaskStep, Finished

-----------------------------------------------------------------------------
(* Every sample is accounted for *)

\* After the end signal of a run without a failure no task is left.
LEMMA QuietEnd ==
  ASSUME IInv, SupplyInv, mainPc \in {"stop", "done"}, In({"failed"}) = {}
  PROVE  procPc = "done" /\ Running = {}
BY DEF SupplyInv, IInv, TaskInv

\* The end signal arrives when every sample has left the queue.
LEMMA AllConsumed ==
  ASSUME IInv, SupplyInv, SignalInv, CollectNone, In({"failed"}) = {}
  PROVE  Consumed = Samples
<1>1. /\ queue \in Seq(Samples \cup {None}) /\ queue # <<>> /\ Head(queue) = None
      /\ trainPc = "collect" /\ ~stopping
  BY DEF CollectNone, IInv, TypeOK, SignalInv
<1>2. Len(queue) \in Nat \ {0} /\ queue[1] = None /\ 1 \in 1..Len(queue)
  BY <1>1
<1>3. mainPc \in {"stop", "done"}
  BY <1>2 DEF SignalInv
<1>4. procPc = "done" /\ Running = {}
  BY <1>3, QuietEnd
<1>5. Len(queue) = 1
  <2>1. PICK p \in 1..Len(queue) : queue[p] = None /\ p = Len(queue)
    BY <1>1, <1>3, <1>4 DEF SignalInv
  <2> QED BY <1>2, <2>1 DEF SignalInv
<1>6. \A s \in Samples : stage[s] # "queued"
  <2>1. \A i \in 1..Len(queue) : queue[i] = None
    BY <1>2, <1>5
  <2> QED BY <2>1, NoneAssumption DEF IInv, QueueInv, Samples
<1>7. \A s \in Samples : stage[s] # "hand"
  BY <1>4 DEF IInv, HandInv
<1>8. \A s \in Samples : stage[s] \notin {"pending", "drawn", "unfed"}
  <2>1. feedPc = "done" /\ pending_queue = <<>>
    BY <1>4 DEF SupplyInv
  <2>2. 1..Len(pending_queue) = {}
    BY <2>1
  <2>3. \A s \in Samples : stage[s] # "drawn"
    BY <2>1 DEF IInv, FeedInv
  <2> QED BY <2>1, <2>2, <2>3 DEF SupplyInv
<1>9. \A s \in Samples : stage[s] \notin {"gen", "ready", "failed"}
  BY <1>4 DEF Running, In
<1>10. \A s \in Samples : stage[s] \in Stages
  BY DEF IInv, TypeOK
<1> QED BY <1>6, <1>7, <1>8, <1>9, <1>10 DEF Consumed, In, Stages

\* Steps that consume nothing.
LEMMA AccountFrame ==
  ASSUME AccountInv, UNCHANGED <<trained, collected, dropped_samples, stopping>>,
         Consumed' = Consumed,
         \A s \in Samples : stage[s] = "failed" => stage'[s] = "failed"
  PROVE  AccountInv'
<1>1. In({"failed"})' = {} => In({"failed"}) = {}
  BY DEF In
<1> HIDE DEF Consumed
<1> QED BY <1>1 DEF AccountInv

\* A put: the sample that it displaces is counted in dropped_samples.
LEMMA AccountPut ==
  ASSUME IInv, SupplyInv, SignalInv, AccountInv, UNCHANGED trainerVars,
         MainSentinel \/ \E s \in Samples : TaskPut(s)
  PROVE  AccountInv'
<1>0. UNCHANGED <<trained, collected, stopping, trainPc>>
  BY DEF trainerVars
<1>1. PICK x \in Samples \cup {None} : /\ PutSample(x) /\ (x # None => stage[x] = "ready")
                                       /\ x = None => mainPc = "sentinel"
  BY NoneAssumption DEF MainSentinel, TaskPut, Samples
<1>2. \A s \in Samples :
         \/ stage'[s] = stage[s] \/ (stage'[s] = "queued" /\ s = x)
         \/ /\ stage'[s] = "lost" /\ stage[s] = "queued"
            /\ IsFull(queue, MaxRequired) /\ s = Head(queue)
  BY <1>1, PutStages
<1>3. \A s \in Samples : s = x => stage[s] = "ready"
  BY <1>1, NoneAssumption DEF Samples
<1> DEFINE d == Excess(queue, MaxRequired)
<1>4. /\ Len(queue) \in Nat /\ d \in {0, 1} /\ d <= Len(queue)
      /\ d = 1 => Len(queue) = MaxRequired /\ Head(queue) = queue[1]
      /\ d = 1 <=> IsFull(queue, MaxRequired)
      /\ dropped_samples' = dropped_samples + d
  BY <1>1, PutContents
<1>5. dropped_samples \in Nat
  BY DEF IInv, TypeOK
<1> HIDE DEF d
<1>6. CASE stopping
  <2>1. mainPc \in {"stop", "done"}
    BY <1>6 DEF SignalInv
  <2>2. In({"failed"})' = {} => In({"failed"}) = {}
    BY <1>2, <1>3 DEF In
  <2>3. In({"failed"}) = {} => FALSE
    <3> SUFFICES ASSUME In({"failed"}) = {} PROVE FALSE
      OBVIOUS
    <3>1. Running = {}
      BY <2>1, QuietEnd
    <3>2. x # None /\ x \in Samples
      BY <1>1, <2>1
    <3> QED BY <1>1, <3>1, <3>2 DEF Running, In
  <2> QED BY <1>0, <1>6, <2>2, <2>3 DEF AccountInv
<1>7. CASE ~stopping /\ d = 0
  <2>1. Consumed' = Consumed
    BY <1>2, <1>3, <1>4, <1>7 DEF Consumed, In
  <2>2. \A s \in Samples : stage[s] = "failed" => stage'[s] = "failed"
    BY <1>2, <1>3
  <2>3. dropped_samples' = dropped_samples
    BY <1>4, <1>5, <1>7
  <2> QED BY <1>0, <2>1, <2>2, <2>3, AccountFrame
<1>8. CASE ~stopping /\ d = 1
  <2>1. Len(queue) = MaxRequired /\ 1 \in 1..Len(queue)
    BY <1>4, <1>8, ConstantTypes
  <2>2. queue[1] # None
    <3> SUFFICES ASSUME queue[1] = None PROVE FALSE
      OBVIOUS
    <3>1. mainPc \in {"stop", "done"}
      BY <2>1 DEF SignalInv
    <3>2. x \in Running
      BY <1>1, <3>1 DEF Running, In
    <3>3. PICK p \in 1..Len(queue) :
            /\ queue[p] = None
            /\ (Len(queue) - p) + Cardinality(Running) < MaxRequired
      BY <1>8, <3>1 DEF SignalInv
    <3>4. p = 1
      BY <2>1, <3>3 DEF SignalInv
    <3>5. Cardinality(Running) > 0 /\ Cardinality(Running) \in Nat
      <4>1. Running \in SUBSET Samples /\ {} \in SUBSET Running
        BY SetTypes
      <4>2. Cardinality({}) < Cardinality(Running)
        BY <3>2, <4>1, CardinalityStrict
      <4> QED BY <4>1, <4>2, FS_EmptySet, SampleSets
    <3> QED BY <1>4, <2>1, <3>3, <3>4, <3>5, ConstantTypes
  <2>3. Head(queue) \in Samples /\ stage[Head(queue)] = "queued"
    <3>1. queue[1] \in Samples
      BY <2>1, <2>2 DEF IInv, TypeOK
    <3> QED BY <1>4, <1>8, <2>1, <2>2, <3>1 DEF IInv, QueueInv
  <2>4. stage'[Head(queue)] = "lost"
    BY <1>1, <1>4, <1>8, <2>3 DEF PutSample
  <2>5. Consumed' = Consumed \cup {Head(queue)} /\ Head(queue) \notin Consumed
    BY <1>2, <1>3, <2>3, <2>4 DEF Consumed, In
  <2>6. Consumed \in SUBSET Samples
    BY DEF Consumed, In
  <2>7. Cardinality(Consumed') = Cardinality(Consumed) + 1 /\ Cardinality(Consumed) \in Nat
    BY <2>3, <2>5, <2>6, CardinalityAdd, SampleSets
  <2>8. Cardinality(Consumed) = trained * RequiredSamples + collected + dropped_samples
    BY <1>8 DEF AccountInv
  <2>9. trained * RequiredSamples + collected \in Nat
    BY ParameterAssumption DEF IInv, TypeOK
  <2>10. Cardinality(Consumed') = trained * RequiredSamples + collected + dropped_samples'
    <3> DEFINE b == trained * RequiredSamples + collected
    <3>1. b \in Nat /\ Cardinality(Consumed) = b + dropped_samples
      BY <2>8, <2>9
    <3> HIDE DEF b, Consumed
    <3>2. Cardinality(Consumed') = b + dropped_samples'
      BY <1>4, <1>5, <1>8, <2>7, <3>1
    <3> QED BY <3>2 DEF b
  <2> HIDE DEF Consumed
  <2> QED BY <1>0, <1>8, <2>10 DEF AccountInv
<1> QED BY <1>4, <1>6, <1>7, <1>8

\* The trainer: a sample taken is collected, a batch trained on is counted, and
\* what is left when the end signal arrives is less than a batch.
LEMMA AccountTrainer ==
  ASSUME IInv, SupplyInv, SignalInv, AccountInv, TrainerNext
  PROVE  AccountInv'
<1>0. /\ RequiredSamples \in Nat \ {0} /\ trained \in Nat /\ collected \in 0..RequiredSamples
      /\ dropped_samples \in Nat /\ trained * RequiredSamples \in Nat
  <2>1. RequiredSamples \in Nat \ {0} /\ trained \in Nat
    BY ParameterAssumption DEF IInv, TypeOK
  <2>2. trained * RequiredSamples \in Nat
    BY <2>1
  <2> QED BY <2>1, <2>2 DEF IInv, TypeOK
<1>1. \A t \in Samples : stage'[t] = stage[t]
                           \/ (stage[t] = "queued" /\ stage'[t] = "taken")
  BY TrainerStages
<1>2. trainPc \in {"collect", "train"} => ~stopping
  BY DEF SignalInv
<1> DEFINE b == trained * RequiredSamples
<1>3. CASE SyncWeights \/ ResetReturned \/ SaveCheckpoint
  <2>1. UNCHANGED <<stage, trained, collected, dropped_samples, stopping>>
    BY <1>3 DEF SyncWeights, ResetReturned, SaveCheckpoint, shared, mqVars
  <2>2. Consumed' = Consumed
    BY <2>1 DEF Consumed, In
  <2> QED BY <2>1, <2>2, AccountFrame
<1>4. CASE TrainStep
  <2>1. /\ UNCHANGED <<stage, dropped_samples, stopping>> /\ trained' = trained + 1
        /\ collected' = 0 /\ collected = RequiredSamples /\ ~stopping
    BY <1>2, <1>4 DEF TrainStep, shared, mqVars, IInv, TakenInv
  <2>2. Consumed' = Consumed
    BY <2>1 DEF Consumed, In
  <2>3. trained' * RequiredSamples = b + RequiredSamples
    BY <1>0, <2>1
  <2>4. Cardinality(Consumed) = b + collected + dropped_samples
    BY <2>1 DEF AccountInv
  <2> HIDE DEF b, Consumed
  <2>5. b \in Nat
    BY <1>0 DEF b
  <2>6. Cardinality(Consumed') = trained' * RequiredSamples + collected' + dropped_samples'
    BY <1>0, <2>1, <2>2, <2>3, <2>4, <2>5
  <2> QED BY <2>1, <2>6 DEF AccountInv
<1>5. CASE CollectSample
  <2>1. /\ UNCHANGED <<trained, dropped_samples, stopping>> /\ collected' = collected + 1
        /\ ~stopping /\ stage' = [stage EXCEPT ![Head(queue)] = "taken"]
    BY <1>2, <1>5 DEF CollectSample
  <2>2. Head(queue) \in Samples /\ stage[Head(queue)] = "queued"
    <3>1. queue # <<>> /\ queue \in Seq(Samples \cup {None}) /\ Head(queue) # None
      BY <1>5 DEF CollectSample, IInv, TypeOK
    <3>2. /\ 1 \in 1..Len(queue) /\ Head(queue) = queue[1]
          /\ Head(queue) \in Samples \cup {None}
      BY <3>1
    <3> QED BY <3>1, <3>2 DEF IInv, QueueInv
  <2>3. Consumed' = Consumed \cup {Head(queue)} /\ Head(queue) \notin Consumed
    BY <2>1, <2>2 DEF Consumed, In, IInv, TypeOK
  <2>4. Consumed \in SUBSET Samples
    BY DEF Consumed, In
  <2>5. Cardinality(Consumed') = Cardinality(Consumed) + 1
    BY <2>2, <2>3, <2>4, CardinalityAdd
  <2>6. Cardinality(Consumed) = b + collected + dropped_samples
    BY <2>1 DEF AccountInv
  <2>7. b \in Nat /\ trained' * RequiredSamples = b
    BY <1>0, <2>1
  <2> HIDE DEF b, Consumed
  <2>8. Cardinality(Consumed') = trained' * RequiredSamples + collected' + dropped_samples'
    BY <1>0, <2>1, <2>5, <2>6, <2>7
  <2> QED BY <2>1, <2>8 DEF AccountInv
<1>6. CASE CollectNone
  <2>1. /\ UNCHANGED <<stage, trained, dropped_samples>> /\ stopping' = TRUE /\ ~stopping
        /\ collected < RequiredSamples
    BY <1>2, <1>6 DEF CollectNone, IInv, TakenInv
  <2>2. In({"failed"})' = In({"failed"})
    BY <2>1 DEF In
  <2>3. In({"failed"}) = {} => TotalRolloutSteps = dropped_samples + b + collected
    <3> SUFFICES ASSUME In({"failed"}) = {}
                 PROVE  TotalRolloutSteps = dropped_samples + b + collected
      OBVIOUS
    <3>1. Consumed = Samples
      BY <1>6, AllConsumed
    <3>2. Cardinality(Samples) = TotalRolloutSteps
      <4>1. TotalRolloutSteps \in Nat \ {0}
        BY ParameterAssumption
      <4>2. Cardinality(1..TotalRolloutSteps)
              = IF 1 > TotalRolloutSteps THEN 0 ELSE TotalRolloutSteps - 1 + 1
        BY <4>1, FS_Interval
      <4> QED BY <4>1, <4>2 DEF Samples
    <3>3. Cardinality(Consumed) = b + collected + dropped_samples
      BY <2>1 DEF AccountInv
    <3>4. b \in Nat
      BY <1>0
    <3> HIDE DEF b, Consumed
    <3> QED BY <1>0, <3>1, <3>2, <3>3, <3>4
  <2>4. collected \in 0..(RequiredSamples - 1)
    BY <1>0, <2>1
  <2>5. In({"failed"}) = {} => \E rest \in 0..(RequiredSamples - 1) :
          TotalRolloutSteps = dropped_samples + trained * RequiredSamples + rest
    BY <2>3, <2>4
  <2> QED BY <2>1, <2>2, <2>5 DEF AccountInv
<1> QED BY <1>3, <1>4, <1>5, <1>6 DEF TrainerNext

\* Every step keeps the account.
LEMMA AccountStep ==
  IInv /\ SupplyInv /\ SignalInv /\ AccountInv /\ [Next]_vars => AccountInv'
<1> SUFFICES ASSUME IInv, SupplyInv, SignalInv, AccountInv, [Next]_vars PROVE AccountInv'
  OBVIOUS
<1>1. CASE RollouterNext /\ UNCHANGED trainerVars
  <2>0. UNCHANGED <<trained, collected, stopping>>
    BY <1>1 DEF trainerVars
  <2>1. CASE MainSentinel \/ \E s \in Samples : TaskPut(s)
    BY <1>1, <2>1, AccountPut
  <2>2. CASE \/ ProcTop \/ ProcCheck \/ ProcPause \/ ProcDrainCollect \/ ProcDrainResume
             \/ ProcLimit \/ ProcFinish \/ ProcWaited \/ FeedEnd \/ MonStep \/ MainCollect
             \/ MainStop \/ ResetBegin \/ ResetQuery
    <3>1. UNCHANGED <<stage, dropped_samples>>
      BY <2>2 DEF ProcTop, ProcCheck, ProcPause, ProcDrainCollect, ProcDrainResume, ProcLimit,
        ProcFinish, ProcWaited, FeedEnd, MonStep, MonHead, MonWake, MonCheck, MonResume,
        MainCollect, MainStop, ResetBegin, ResetQuery, shared, mqVars
    <3>2. Consumed' = Consumed
      BY <3>1 DEF Consumed, In
    <3> QED BY <2>0, <3>1, <3>2, AccountFrame
  <2>3. CASE ProcGet \/ ProcSubmit \/ FeedStart \/ FeedPut
             \/ \E s \in Samples : TaskGenerated(s) \/ TaskFailed(s)
    <3>1. UNCHANGED dropped_samples
      BY <2>3 DEF ProcGet, ProcSubmit, FeedStart, FeedPut, TaskGenerated, TaskFailed, mqVars
    <3>2. \A s \in Samples : \/ stage'[s] = stage[s]
                             \/ /\ stage[s] \in {"unfed", "drawn", "pending", "hand", "gen"}
                                /\ stage'[s] \in {"drawn", "pending", "hand", "gen", "ready", "failed"}
      <4>1. CASE ProcGet
        <5>1. pending_queue # <<>> /\ pending_queue \in Seq(Samples \cup {None})
          BY <4>1 DEF ProcGet, IInv, TypeOK
        <5>2. 1 \in 1..Len(pending_queue) /\ Head(pending_queue) = pending_queue[1]
          BY <5>1
        <5>3. Head(pending_queue) # None => stage[Head(pending_queue)] = "pending"
          BY <5>2 DEF IInv, FeedInv
        <5>4. \/ UNCHANGED stage
              \/ /\ Head(pending_queue) # None
                 /\ stage' = [stage EXCEPT ![Head(pending_queue)] = "hand"]
          BY <4>1 DEF ProcGet
        <5> QED BY <5>3, <5>4 DEF IInv, TypeOK
      <4>2. CASE ProcSubmit
        BY <4>2 DEF ProcSubmit, In, IInv, TypeOK
      <4>3. CASE FeedStart \/ FeedPut
        BY <4>3, FeedStages
      <4>4. CASE \E s \in Samples : TaskGenerated(s) \/ TaskFailed(s)
        BY <4>4 DEF TaskGenerated, TaskFailed, IInv, TypeOK
      <4> QED BY <2>3, <4>1, <4>2, <4>3, <4>4
    <3>3. Consumed' = Consumed
      BY <3>2 DEF Consumed, In
    <3> QED BY <2>0, <3>1, <3>2, <3>3, AccountFrame
  <2>4. CASE ResetEnd
    <3>1. UNCHANGED dropped_samples
      BY <2>4 DEF ResetEnd, mqVars
    <3>2. \A s \in Samples : stage'[s] = IF stage[s] \in {"taken", "lost"} THEN "spent"
                                         ELSE stage[s]
      BY <2>4 DEF ResetEnd
    <3>3. Consumed' = Consumed
      BY <3>2 DEF Consumed, In
    <3> QED BY <2>0, <3>1, <3>2, <3>3, AccountFrame
  <2> QED BY <1>1, <2>1, <2>2, <2>3, <2>4 DEF RollouterNext, ProcStep, FeedStep, MainStep,
            ResetStep, TaskStep
<1>2. CASE TrainerNext /\ UNCHANGED rollouterVars
  BY <1>2, AccountTrainer
<1>3. CASE RunnerClear
  <2>1. /\ UNCHANGED <<trained, collected, dropped_samples, stopping>> /\ stopping
        /\ \A s \in Samples : stage'[s] = IF stage[s] = "queued" THEN "spent" ELSE stage[s]
    BY <1>3 DEF RunnerClear, TrainerDone, trainerVars, SignalInv
  <2>2. In({"failed"})' = {} => In({"failed"}) = {}
    BY <2>1 DEF In
  <2> QED BY <2>1, <2>2 DEF AccountInv
<1>4. CASE UNCHANGED vars
  <2>1. UNCHANGED <<stage, dropped_samples, trained, collected, stopping>>
    BY <1>4 DEF vars, shared, mqVars, trainerVars
  <2>2. Consumed' = Consumed
    BY <2>1 DEF Consumed, In
  <2> QED BY <2>1, <2>2, AccountFrame
<1>5. CASE Finished
  BY <1>4, <1>5 DEF Finished
<1> QED BY <1>1, <1>2, <1>3, <1>4, <1>5 DEF Next

-----------------------------------------------------------------------------
(* The theorems *)

\* The conjunction of the invariants.
EndInv == VersionInv /\ SupplyInv /\ ChargeInv /\ SignalInv /\ DropBound /\ AccountInv

\* They hold when both actors start.
LEMMA InitImpliesEndInv == Init => EndInv
<1> SUFFICES ASSUME Init PROVE EndInv
  OBVIOUS
<1>1. /\ \A s \in Samples : stage[s] = "unfed"
      /\ queue = <<>> /\ pending_queue = <<>> /\ active_tasks = {} /\ staleness_samples = 0
      /\ feedPc = "start" /\ procPc = "top" /\ mainPc = "wait" /\ global_steps = 1
      /\ trainPc = "collect" /\ collected = 0 /\ local_trigger_step = 1
      /\ current_param_version = 0 /\ trained = 0 /\ ~stopping /\ dropped_samples = 0
      /\ last_ckpt_version = 0 /\ savedTrained = 0
  <2>1. ~stopping
    BY Zenon DEF Init, TrainerInit
  <2> QED BY <2>1 DEF Init, SharedInit, RollouterInit, TrainerInit
<1>2. /\ Outstanding = {} /\ Charged = {} /\ Running = {} /\ Consumed = {}
      /\ In({"lost"}) = {}
  BY <1>1 DEF Outstanding, Charged, Running, Consumed, In
<1>3. Cardinality({}) = 0
  BY FS_EmptySet
<1>4. 1..Len(queue) = {} /\ 1..Len(pending_queue) = {}
  BY <1>1
<1>5. VersionInv
  <2>1. TriggerStep \in Nat \ {0}
    BY ParameterAssumption
  <2>2. 0 * TriggerStep = 0 /\ 0 \in 0..(TriggerStep - 1)
    BY <2>1
  <2> QED BY <1>1, <2>2 DEF VersionInv, CheckpointLabel, ResumeSteps, StopSavesVersion,
            TrainerDone
<1>6. SupplyInv
  <2>1. \A s \in Samples : s >= 1
    BY DEF Samples
  <2> QED BY <1>1, <1>4, <2>1 DEF SupplyInv
<1>7. ChargeInv /\ DropBound
  <2>1. /\ Cardinality(Charged) = 0 /\ Cardinality(Outstanding) = 0
        /\ Cardinality(In({"lost"})) = 0
    BY <1>2, <1>3
  <2>2. DropBound
    BY <2>1 DEF DropBound
  <2>3. ChargeInv
    BY <1>1, <2>1, ConstantTypes DEF ChargeInv
  <2> QED BY <2>2, <2>3
<1>8. SignalInv
  BY <1>1, <1>4 DEF SignalInv
<1>9. AccountInv
  <2>1. 0 = 0 * RequiredSamples + 0 + 0
    BY ParameterAssumption
  <2> QED BY <1>1, <1>2, <1>3, <2>1 DEF AccountInv
<1> QED BY <1>5, <1>6, <1>7, <1>8, <1>9 DEF EndInv

\* The invariants of the end of a run hold in every reachable state.
THEOREM EndInvHolds == Spec => []EndInv
<1>1. IInv /\ EndInv /\ [Next]_vars => EndInv'
  BY VersionStep, SupplyStep, ChargeStep, SignalStep, DropStep, AccountStep DEF EndInv
<1> QED BY <1>1, InitImpliesEndInv, InvariantHolds, PTL DEF Spec

\* A checkpoint that save_freq asks for holds exactly the training steps after
\* which load_checkpoint resumes, and one that should_save_ckpt_esi or the end of
\* the run forces holds those and fewer than trigger_parameter_sync_step more.
THEOREM CheckpointLabelHolds == Spec => []CheckpointLabel
<1>1. EndInv => CheckpointLabel
  BY DEF EndInv, VersionInv
<1> QED BY <1>1, EndInvHolds, PTL

\* When fit has returned, its last version is saved.
THEOREM StopSavesVersionHolds == Spec => []StopSavesVersion
<1>1. EndInv => StopSavesVersion
  BY DEF EndInv, VersionInv
<1> QED BY <1>1, EndInvHolds, PTL

\* A full message queue costs at most one sample per parameter version.
THEOREM DropBoundHolds == Spec => []DropBound
<1>1. EndInv => DropBound
  BY DEF EndInv
<1> QED BY <1>1, EndInvHolds, PTL

\* The end signal that _streaming_generation_main puts stays in the queue until
\* the trainer takes it, whatever tasks outlive a failed processor.
THEOREM SentinelKeptHolds == Spec => []SentinelKept
<1>1. EndInv => SentinelKept
  BY DEF EndInv, SignalInv, SentinelKept
<1> QED BY <1>1, EndInvHolds, PTL

\* Without a failure the trainer has trained on every full batch when it stops.
THEOREM NothingLeftBehindHolds == Spec => []NothingLeftBehind
<1>1. IInv /\ EndInv => NothingLeftBehind
  <2> SUFFICES ASSUME IInv, EndInv, stopping, In({"failed"}) = {}
               PROVE  trained = (TotalRolloutSteps - dropped_samples) \div RequiredSamples
    BY DEF NothingLeftBehind
  <2>1. PICK rest \in 0..(RequiredSamples - 1) :
          TotalRolloutSteps = dropped_samples + trained * RequiredSamples + rest
    BY DEF EndInv, AccountInv
  <2>2. /\ RequiredSamples \in Nat \ {0} /\ trained \in Nat /\ dropped_samples \in Nat
        /\ TotalRolloutSteps \in Nat
    BY ParameterAssumption DEF IInv, TypeOK
  <2> DEFINE b == RequiredSamples * trained
             n == TotalRolloutSteps - dropped_samples
  <2>3. b \in Nat /\ trained * RequiredSamples = b
    BY <2>2
  <2>4. n \in Nat /\ b <= n /\ n < b + RequiredSamples
    <3> HIDE DEF b
    <3>1. TotalRolloutSteps = dropped_samples + b + rest
      BY <2>1, <2>3
    <3> QED BY <2>1, <2>2, <2>3, <3>1
  <2> HIDE DEF n
  <2>5. n \div RequiredSamples = trained
    BY <2>2, <2>4, Quotient
  <2> QED BY <2>5 DEF n
<1> QED BY <1>1, InvariantHolds, EndInvHolds, PTL

\* A restart from a checkpoint skips no more prompts than the one that the feed
\* waits to put, the pending queue and the staleness budget hold, and one.
THEOREM ResumeLossBoundHolds == Spec => []ResumeLossBound
<1>1. IInv /\ EndInv => ResumeLossBound
  <2> SUFFICES ASSUME IInv, EndInv PROVE ResumeLossBound
    OBVIOUS
  <2> DEFINE Drawn == In({"drawn"})
             Pending == In({"pending"})
             Under == In({"hand", "gen", "ready", "queued"})
             I == {i \in 1..Len(pending_queue) : pending_queue[i] # None}
             f == [i \in I |-> pending_queue[i]]
  <2>1. /\ Pending \in SUBSET Samples /\ Under \in SUBSET Outstanding
        /\ Under \in SUBSET Samples /\ Outstanding \in SUBSET Samples
        /\ Drawn \in SUBSET Samples
        /\ In({"drawn", "pending", "hand", "gen", "ready", "queued"})
             = Drawn \cup (Pending \cup Under)
    BY DEF In, Outstanding
  <2>2. Len(pending_queue) \in Nat /\ Len(pending_queue) <= PendingCapacity
        /\ pending_queue \in Seq(Samples \cup {None})
    BY DEF IInv, TypeOK
  <2>3. IsFiniteSet(1..Len(pending_queue))
        /\ Cardinality(1..Len(pending_queue)) = Len(pending_queue)
    <3>1. /\ IsFiniteSet(1..Len(pending_queue))
          /\ Cardinality(1..Len(pending_queue))
               = IF 1 > Len(pending_queue) THEN 0 ELSE Len(pending_queue) - 1 + 1
      BY <2>2, FS_Interval
    <3> QED BY <2>2, <3>1
  <2>4. IsFiniteSet(I) /\ Cardinality(I) <= Len(pending_queue)
    BY <2>3, FS_Subset
  <2>5. f \in [I -> Pending]
    <3> SUFFICES ASSUME NEW i \in I PROVE pending_queue[i] \in Pending
      OBVIOUS
    <3>1. pending_queue[i] \in Samples
      BY <2>2
    <3> QED BY <3>1 DEF IInv, FeedInv, In
  <2>6. \A s \in Pending : \E i \in I : f[i] = s
    BY NoneAssumption DEF EndInv, SupplyInv, In, Samples
  <2>7. f \in Surjection(I, Pending)
    BY <2>5, <2>6 DEF Surjection
  <2>8. Cardinality(Pending) <= Cardinality(I)
    BY <2>4, <2>7, FS_Surjection
  <2>0. Cardinality(Drawn) <= 1
    BY <2>1, CardinalityAtMostOne DEF IInv, FeedInv, In
  <2> HIDE DEF I, f, Drawn, Pending, Under
  <2>9. /\ Cardinality(Pending \cup Under) <= Cardinality(Pending) + Cardinality(Under)
        /\ Cardinality(Drawn \cup (Pending \cup Under))
             <= Cardinality(Drawn) + Cardinality(Pending \cup Under)
        /\ Cardinality(Under) <= Cardinality(Outstanding)
    <3>1. Pending \cup Under \in SUBSET Samples
      BY <2>1
    <3> QED BY <2>1, <3>1, CardinalityUnion, CardinalityMonotone
  <2>10. Cardinality(Outstanding) <= MaxRequired + 1
    BY DEF IInv, BudgetInv
  <2>11. /\ Cardinality(I) \in Nat /\ Cardinality(Pending) \in Nat
         /\ Cardinality(Under) \in Nat /\ Cardinality(Outstanding) \in Nat
         /\ Cardinality(Pending \cup Under) \in Nat /\ Cardinality(Drawn) \in Nat
         /\ Cardinality(Drawn \cup (Pending \cup Under)) \in Nat
    <3>1. /\ Pending \cup Under \in SUBSET Samples
          /\ Drawn \cup (Pending \cup Under) \in SUBSET Samples
      BY <2>1
    <3> QED BY <2>1, <2>4, <3>1, FS_CardinalityType, SampleSets
  <2>12. Cardinality(Drawn \cup (Pending \cup Under)) <= 1 + PendingCapacity + MaxRequired + 1
    BY <2>0, <2>2, <2>4, <2>8, <2>9, <2>10, <2>11, ConstantTypes, ParameterAssumption
  <2> QED BY <2>1, <2>12 DEF ResumeLossBound
<1> QED BY <1>1, InvariantHolds, EndInvHolds, PTL

\* The counter never runs ahead of the samples of the version by more than the
\* tasks there can be.
THEOREM RoomInvHolds == Spec => []RoomInv
<1>1. Init => RoomInv
  <2> SUFFICES ASSUME Init PROVE RoomInv
    OBVIOUS
  <2>1. /\ staleness_samples = 0 /\ reset = "idle"
        /\ \A s \in Samples : stage[s] = "unfed"
    BY DEF Init, SharedInit, RollouterInit
  <2>2. Backed = {} /\ In({"lost"}) = {}
    BY <2>1 DEF Backed, In
  <2>3. Cardinality(Backed) = 0
    BY <2>2, FS_EmptySet
  <2> QED BY <2>1, <2>2, <2>3, ConstantTypes DEF RoomInv
<1>2. IInv /\ EndInv /\ RoomInv /\ [Next]_vars => RoomInv'
  <2> SUFFICES ASSUME IInv, EndInv, RoomInv, [Next]_vars PROVE RoomInv'
    OBVIOUS
  <2>1. IInv' /\ SupplyInv /\ SignalInv
    BY NextPreservesIInv DEF EndInv
  <2> QED BY <2>1, CounterStep, LossStep DEF RoomInv
<1> QED BY <1>1, <1>2, InvariantHolds, EndInvHolds, PTL DEF Spec

\* With no more concurrent tasks than the staleness budget, finished tasks that
\* reset_staleness counts can never use up the whole of max_required_samples
\* while the trainer waits: generation is not paused for good.
THEOREM RoomWhenStarvedHolds == Spec => []RoomWhenStarved
<1>1. IInv /\ EndInv /\ RoomInv => RoomWhenStarved
  <2> SUFFICES ASSUME IInv, EndInv, RoomInv, MaxConcurrent <= StaleBudget, Starved
               PROVE  staleness_samples < MaxRequired
    BY DEF RoomWhenStarved
  <2>1. /\ trainPc = "collect" /\ queue = <<>> /\ InLoop /\ collected < RequiredSamples
        /\ ~stopping /\ reset = "idle" /\ collected \in Nat
    BY DEF Starved, IInv, TakenInv, EndInv, SignalInv, LockInv, TypeOK
  <2>2. Cardinality(Taken) = RequiredSamples * (local_trigger_step - 1) + collected
    BY <2>1 DEF IInv, TakenInv, SyncOpen
  <2>3. RequiredSamples * (local_trigger_step - 1) + RequiredSamples <= SamplesPerVersion
    <3>1. /\ RequiredSamples \in Nat \ {0} /\ TriggerStep \in Nat \ {0}
          /\ local_trigger_step \in 1..TriggerStep
      BY ParameterAssumption DEF IInv, TypeOK
    <3> DEFINE k == TriggerStep - local_trigger_step
    <3>2. k \in Nat /\ TriggerStep = (local_trigger_step - 1) + 1 + k
      BY <3>1
    <3>3. RequiredSamples * ((local_trigger_step - 1) + 1 + k)
            = RequiredSamples * (local_trigger_step - 1) + RequiredSamples + RequiredSamples * k
      BY <3>1, <3>2
    <3>4. RequiredSamples * k \in Nat /\ RequiredSamples * (local_trigger_step - 1) \in Nat
      BY <3>1, <3>2
    <3>5. SamplesPerVersion = RequiredSamples * (local_trigger_step - 1) + RequiredSamples
                                + RequiredSamples * k
      BY <3>2, <3>3 DEF SamplesPerVersion
    <3> QED BY <3>1, <3>4, <3>5
  <2>4. /\ Cardinality(Taken) < SamplesPerVersion /\ Cardinality(Taken) \in Nat
    <3>1. /\ RequiredSamples * (local_trigger_step - 1) \in Nat /\ RequiredSamples \in Nat
      BY ParameterAssumption DEF IInv, TypeOK
    <3> QED BY <2>1, <2>2, <2>3, <3>1, SetTypes, SampleSets, ConstantTypes
  <2>5. In({"lost"}) = {}
    <3>1. Len(queue) = 0
      BY <2>1
    <3> QED BY <2>1, <2>4, <3>1, ConstantTypes DEF RoomInv
  <2>6. Queued = {}
    BY <2>1 DEF IInv, QueueInv, Queued, In
  <2>7. Backed = Taken
    BY <2>5, <2>6 DEF Starved, Backed, Taken, Queued, In
  <2>8. staleness_samples <= Cardinality(Taken) + MaxConcurrent
    BY <2>1, <2>7 DEF RoomInv
  <2>9. staleness_samples \in Nat
    BY DEF IInv, TypeOK
  <2> QED BY <2>4, <2>8, <2>9, ConstantTypes
<1> QED BY <1>1, InvariantHolds, EndInvHolds, RoomInvHolds, PTL
===============================================================================
