--------------------------- MODULE CheckpointResume ---------------------------
(***************************************************************************)
(* Checkpoints and resumption of RayPPOTrainer ("ppo"), of PPOTrainer in   *)
(* main_ppo_sync ("sync") and of the SFT trainers with their               *)
(* CheckpointHandler ("sft"): the epoch loop, what a save writes and       *)
(* removes in which order, the tracker file, and a restart after a crash   *)
(* at any point.                                                           *)
(***************************************************************************)
EXTENDS Integers, Sequences, FiniteSets

CONSTANTS
  Programs,       \* subset of {"ppo", "sync", "sft"}
  StepsPerEpoch,  \* len(train_dataloader)
  Epochs,         \* total_epochs
  CkptFreq,       \* trainer.save_freq
  MaxToKeep,      \* max_*_ckpt_to_keep; 0: no limit
  NoStep,         \* no tracker file, no dataloader state
  Torn,           \* a tracker file that has been opened and not written
  MaxCrashes      \* bound: crashes

ASSUME CheckpointAssumption ==
  /\ Programs # {} /\ Programs \subseteq {"ppo", "sync", "sft"}
  /\ {StepsPerEpoch, Epochs, CkptFreq} \subseteq Nat \ {0}
  /\ MaxToKeep \in Nat /\ MaxCrashes \in Nat
  /\ {NoStep, Torn} \cap Nat = {} /\ NoStep # Torn

Total == StepsPerEpoch * Epochs
GlobalSteps == 0..Total

VARIABLES
  program,
  \* on disk
  folders,   \* the global_step_* folders that exist
  parts,     \* per step, the parts completely written
  position,  \* per step, the position of the dataloader in data.pt
  lineage,   \* per step, the batches that the saved model was trained on
  tracker,   \* latest_checkpointed_iteration.txt: a step, NoStep or Torn
  \* in memory
  pc,
  step,      \* global_steps
  epoch,
  drawn,     \* batches drawn from the dataloader in this epoch
  batches,   \* history: the batches that the model was trained on
  part,      \* index of the part that is being saved
  paths,     \* per part, previous_saved_paths of its checkpoint manager
  crashes

disk == <<folders, parts, position, lineage, tracker>>
loop == <<step, epoch, drawn, batches>>
resumeVars == <<program, disk, pc, loop, part, paths, crashes>>

\* What one save writes, each part with a checkpoint manager of its own.
Parts == IF program = "sft" THEN <<"model">> ELSE <<"actor", "critic">>
PartNames == {"actor", "critic", "model"}

NoPaths == [p \in PartNames |-> <<>>]

ResumeInit ==
  /\ program \in Programs
  /\ folders = {}
  /\ parts = [s \in GlobalSteps |-> {}]
  /\ position = [s \in GlobalSteps |-> NoStep]
  /\ lineage = [s \in GlobalSteps |-> <<>>]
  /\ tracker = NoStep
  /\ pc = "down"
  /\ step = 0 /\ epoch = 0 /\ drawn = 0 /\ batches = <<>>
  /\ part = 1 /\ paths = NoPaths
  /\ crashes = 0

-----------------------------------------------------------------------------
(* Start: load_checkpoint *)

\* Defect: the newest folder is taken, not the one that the tracker names.
LatestFolder == IF folders = {} THEN 0 ELSE CHOOSE s \in folders : \A t \in folders : t <= s

\* find_latest_ckpt_path: a tracker whose folder is gone counts for nothing.
Latest == IF tracker \in folders THEN tracker ELSE 0

\* Defect: the state of an exhausted dataloader is restored too.
RestoredAlways(s) ==
  IF position[s] = NoStep THEN 0 ELSE position[s]

\* The position of the dataloader after a restart; only RayPPOTrainer begins
\* anew after a checkpoint at the end of an epoch.
Restored(s) ==
  IF position[s] = NoStep \/ (program = "ppo" /\ s % StepsPerEpoch = 0)
  THEN 0 ELSE position[s]

\* An empty tracker file cannot be parsed, a missing part cannot be loaded.
Start ==
  /\ pc = "down"
  /\ \/ /\ tracker = Torn \/ (Latest # 0 /\ Len(Parts) # Cardinality(parts[Latest]))
        /\ pc' = "failed"
        /\ UNCHANGED loop
     \/ /\ tracker # Torn
        /\ Latest = 0 \/ Len(Parts) = Cardinality(parts[Latest])
        /\ step' = Latest
        /\ batches' = lineage[Latest]
        /\ epoch' = Latest \div StepsPerEpoch
        /\ drawn' = IF Latest = 0 THEN 0 ELSE Restored(Latest)
        /\ pc' = "draw"
  /\ UNCHANGED <<program, disk, part, paths, crashes>>

-----------------------------------------------------------------------------
(* The epoch loop of fit *)

DrawBatch ==
  /\ pc = "draw"
  /\ \/ /\ epoch < Epochs /\ drawn < StepsPerEpoch
        /\ drawn' = drawn + 1
        /\ step' = step + 1
        /\ pc' = "train"
        /\ UNCHANGED <<epoch, batches>>
     \/ /\ epoch < Epochs /\ drawn = StepsPerEpoch
        /\ epoch' = epoch + 1
        /\ drawn' = 0
        /\ UNCHANGED <<step, batches, pc>>
     \/ /\ epoch >= Epochs
        /\ pc' = "done"
        /\ UNCHANGED loop
  /\ UNCHANGED <<program, disk, part, paths, crashes>>

IsLastStep == step >= Total

AfterStep == IF IsLastStep THEN "done" ELSE "draw"

\* esi: the capacity block of the machine is about to expire (ppo only).
SaveStep(esi) == IsLastStep \/ step % CkptFreq = 0 \/ (esi /\ program = "ppo")

TrainBatch ==
  /\ pc = "train"
  /\ batches' = Append(batches, drawn)
  /\ \E esi \in BOOLEAN : pc' = IF SaveStep(esi) THEN "ensure" ELSE AfterStep
  /\ part' = 1
  /\ UNCHANGED <<program, disk, step, epoch, drawn, paths, crashes>>

-----------------------------------------------------------------------------
(* _save_checkpoint: every part, the dataloader, the tracker *)

\* remove_previous_save_local_path: the folder of the part; in "sft" the part
\* is written into the folder of the step itself, which goes with all of it.
RemovePrevious(p, gone) ==
  /\ parts' = [s \in GlobalSteps |-> IF s \in gone THEN parts[s] \ {p} ELSE parts[s]]
  /\ IF program = "sft"
     THEN /\ folders' = folders \ gone
          /\ position' = [s \in GlobalSteps |-> IF s \in gone THEN NoStep ELSE position[s]]
     ELSE UNCHANGED <<folders, position>>

Removable(list, keep) == {list[i] : i \in 1..(Len(list) - keep)}

Kept(list, keep) ==
  IF Len(list) > keep THEN SubSeq(list, Len(list) - keep + 1, Len(list)) ELSE list

\* Defect: no room is kept for the newest complete checkpoint.
KeepBeforeSaveNone(list) ==
  IF MaxToKeep > 1 /\ Len(list) >= MaxToKeep THEN 0 ELSE Len(list)

\* How many older checkpoints ensure_checkpoint_capacity keeps.
KeepBeforeSave(list) ==
  IF MaxToKeep > 1 /\ Len(list) >= MaxToKeep THEN MaxToKeep - 1 ELSE Len(list)

EnsureCapacity ==
  LET p == Parts[part] IN
  LET keep == KeepBeforeSave(paths[p]) IN
  /\ pc = "ensure"
  /\ RemovePrevious(p, Removable(paths[p], keep))
  /\ paths' = [paths EXCEPT ![p] = Kept(@, keep)]
  /\ pc' = "write"
  /\ UNCHANGED <<program, lineage, tracker, loop, part, crashes>>

\* The files of the part are opened, over those of an earlier run if any.
WritePart ==
  /\ pc = "write"
  /\ folders' = folders \cup {step}
  /\ parts' = [parts EXCEPT ![step] = @ \ {Parts[part]}]
  /\ pc' = "written"
  /\ UNCHANGED <<program, position, lineage, tracker, loop, part, paths, crashes>>

\* All ranks have written their shards.
PartWritten ==
  /\ pc = "written"
  /\ parts' = [parts EXCEPT ![step] = @ \cup {Parts[part]}]
  /\ lineage' = [lineage EXCEPT ![step] = batches]
  /\ pc' = "register"
  /\ UNCHANGED <<program, folders, position, tracker, loop, part, paths, crashes>>

\* register_checkpoint
RegisterPart ==
  LET p == Parts[part] IN
  LET list == Append(paths[p], step) IN
  LET keep == IF MaxToKeep > 0 THEN MaxToKeep ELSE Len(list) IN
  /\ pc = "register"
  /\ RemovePrevious(p, Removable(list, keep))
  /\ paths' = [paths EXCEPT ![p] = Kept(list, keep)]
  /\ IF part < Len(Parts) THEN part' = part + 1 /\ pc' = "ensure"
                          ELSE part' = part /\ pc' = "data"
  /\ UNCHANGED <<program, lineage, tracker, loop, crashes>>

SaveDataloader ==
  /\ pc = "data"
  /\ position' = [position EXCEPT ![step] = drawn]
  /\ pc' = IF program = "sft" THEN "tracker" ELSE "truncate"
  /\ UNCHANGED <<program, folders, parts, lineage, tracker, loop, part, paths, crashes>>

\* open(..., "w") empties the file; the handler of "sft" writes another file
\* and renames it.
TruncateTracker ==
  /\ pc = "truncate"
  /\ tracker' = Torn
  /\ pc' = "tracker"
  /\ UNCHANGED <<program, folders, parts, position, lineage, loop, part, paths, crashes>>

WriteTracker ==
  /\ pc = "tracker"
  /\ tracker' = step
  /\ pc' = AfterStep
  /\ UNCHANGED <<program, folders, parts, position, lineage, loop, part, paths, crashes>>

-----------------------------------------------------------------------------
\* The process dies, or ends and is started again; what is not on disk is gone.
\* A write that still fails after its retries raises and ends the process too.
Crash ==
  /\ pc \notin {"down", "failed"}
  /\ crashes < MaxCrashes
  /\ crashes' = crashes + 1
  /\ pc' = "down"
  /\ step' = 0 /\ epoch' = 0 /\ drawn' = 0 /\ batches' = <<>>
  /\ part' = 1 /\ paths' = NoPaths
  /\ UNCHANGED <<program, disk>>

Ended == pc \in {"done", "failed"} /\ UNCHANGED resumeVars

Run ==
  \/ Start \/ DrawBatch \/ TrainBatch \/ EnsureCapacity \/ WritePart \/ PartWritten
  \/ RegisterPart \/ SaveDataloader \/ TruncateTracker \/ WriteTracker

ResumeNext == Run \/ Crash \/ Ended

ResumeSpec == ResumeInit /\ [][ResumeNext]_resumeVars

-----------------------------------------------------------------------------
(* Properties *)

\* However often it crashed, at step g the model has been trained on the first
\* g batches of the epochs, each once and in order.
EveryBatchOnce ==
  pc \in {"train", "done"} =>
    LET n == IF pc = "train" THEN step - 1 ELSE Total IN
    /\ Len(batches) = n
    /\ \A i \in 1..n : batches[i] = ((i - 1) % StepsPerEpoch) + 1

\* The checkpoint that the tracker names is complete at any moment, whatever
\* save is under way and whatever it removes: a crash never needs an older one.
LatestComplete ==
  tracker \in GlobalSteps =>
    /\ tracker \in folders
    /\ Cardinality(parts[tracker]) = Len(Parts)
    /\ position[tracker] # NoStep

\* Training that has begun ends after all its steps, however often it crashes,
\* unless a crash hits the moment in which the tracker file is empty.
TrainingCompletes == pc = "draw" ~> pc = "done" \/ (pc = "failed" /\ tracker = Torn)
=============================================================================
