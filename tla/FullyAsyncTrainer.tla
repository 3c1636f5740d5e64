-------------------------- MODULE FullyAsyncTrainer --------------------------
(***************************************************************************)
(* FullyAsyncTrainer.fit: collect required_samples from the queue, train,  *)
(* and after every trigger_parameter_sync_step-th step publish the weights *)
(* and call the rollouter's reset_staleness; save when due; leave the loop *)
(* on the end signal, after a last publication and a last save.            *)
(***************************************************************************)
EXTENDS FullyAsyncState

VARIABLES
  trainPc,
  collected,              \* len(queue_samples)
  local_trigger_step,
  current_param_version,
  trained,                \* training steps done (global_steps - 1)
  stopping,               \* TrainingStopException has been caught
  last_ckpt_version,
  savedTrained            \* training steps contained in the last checkpoint

trainerVars == <<trainPc, collected, local_trigger_step, current_param_version,
                 trained, stopping, last_ckpt_version, savedTrained>>

TrainerInit ==
  /\ trainPc = "collect"
  /\ collected = 0
  /\ local_trigger_step = 1
  /\ current_param_version = 0
  /\ trained = 0
  /\ stopping = FALSE
  /\ last_ckpt_version = 0
  /\ savedTrained = 0

\* One turn of the loop of _get_samples_from_queue.
CollectSample ==
  /\ trainPc = "collect"
  /\ queue # <<>>
  /\ Head(queue) # None
  /\ stage' = [stage EXCEPT ![Head(queue)] = "taken"]
  /\ queue' = Tail(queue)
  /\ collected' = collected + 1
  /\ trainPc' = IF collected + 1 < RequiredSamples THEN "collect" ELSE "train"
  /\ UNCHANGED <<dropped_samples, reset, local_trigger_step, current_param_version, trained, stopping,
                 last_ckpt_version, savedTrained>>

\* None: the partial batch is given up, fit leaves its loop and goes on to the
\* last _fit_update_weights, which does nothing in the middle of a version.
CollectNone ==
  /\ trainPc = "collect"
  /\ queue # <<>>
  /\ Head(queue) = None
  /\ queue' = Tail(queue)
  /\ collected' = 0
  /\ stopping' = TRUE
  /\ trainPc' = IF current_param_version % TestFreq # 0 /\ local_trigger_step = 1
                THEN "sync" ELSE "save"
  /\ UNCHANGED <<stage, dropped_samples, reset, local_trigger_step, current_param_version, trained,
                 last_ckpt_version, savedTrained>>

\* Defect: the version is one training step short.
TrainStepEarly ==
  /\ trainPc = "train"
  /\ trained' = trained + 1
  /\ collected' = 0
  /\ \/ /\ local_trigger_step + 1 < TriggerStep
        /\ local_trigger_step' = local_trigger_step + 1
        /\ trainPc' = "save"
        /\ UNCHANGED current_param_version
     \/ /\ local_trigger_step + 1 >= TriggerStep
        /\ current_param_version' = current_param_version + 1
        /\ local_trigger_step' = 1
        /\ trainPc' = "sync"
  /\ UNCHANGED <<shared, stopping, last_ckpt_version, savedTrained>>

\* The compute and update phases of fit_step, then _fit_update_local_step.
TrainStep ==
  /\ trainPc = "train"
  /\ trained' = trained + 1
  /\ collected' = 0
  /\ \/ /\ local_trigger_step < TriggerStep
        /\ local_trigger_step' = local_trigger_step + 1
        /\ trainPc' = "save"
        /\ UNCHANGED current_param_version
     \/ /\ local_trigger_step >= TriggerStep
        /\ current_param_version' = current_param_version + 1
        /\ local_trigger_step' = 1
        /\ trainPc' = "sync"
  /\ UNCHANGED <<shared, stopping, last_ckpt_version, savedTrained>>

\* Defect: the weights are published but the rollouter is not told.
SyncWeightsOnly ==
  /\ trainPc = "sync"
  /\ trainPc' = "reset"
  /\ UNCHANGED <<shared, collected, local_trigger_step, current_param_version,
                 trained, stopping, last_ckpt_version, savedTrained>>

\* checkpoint_manager.update_weights returned; reset_staleness.remote() is sent.
SyncWeights ==
  /\ trainPc = "sync"
  /\ reset' = "called"
  /\ trainPc' = "reset"
  /\ UNCHANGED <<stage, mqVars, collected, local_trigger_step, current_param_version,
                 trained, stopping, last_ckpt_version, savedTrained>>

ResetReturned ==
  /\ trainPc = "reset"
  /\ reset = "idle"
  /\ trainPc' = "save"
  /\ UNCHANGED <<shared, collected, local_trigger_step, current_param_version,
                 trained, stopping, last_ckpt_version, savedTrained>>

\* Defect: force is ignored.
SaveDueUnforced(force, esi) ==
  /\ current_param_version # last_ckpt_version
  /\ SaveFreq > 0
  /\ current_param_version % SaveFreq = 0 \/ esi

\* _fit_save_checkpoint(force): esi is the answer of should_save_ckpt_esi.
SaveDue(force, esi) ==
  /\ current_param_version # last_ckpt_version
  /\ SaveFreq > 0
  /\ force \/ current_param_version % SaveFreq = 0 \/ esi

SaveCheckpoint ==
  /\ trainPc = "save"
  /\ \E esi \in BOOLEAN :
       IF SaveDue(stopping, esi)
       THEN last_ckpt_version' = current_param_version /\ savedTrained' = trained
       ELSE UNCHANGED <<last_ckpt_version, savedTrained>>
  /\ trainPc' = IF stopping THEN "done" ELSE "collect"
  /\ UNCHANGED <<shared, collected, local_trigger_step, current_param_version,
                 trained, stopping>>

TrainerNext ==
  CollectSample \/ CollectNone \/ TrainStep \/ SyncWeights \/ ResetReturned
  \/ SaveCheckpoint

TrainerDone == trainPc = "done"
=============================================================================
