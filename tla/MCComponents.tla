---------------------------- MODULE MCComponents ----------------------------
(***************************************************************************)
(* The components that do not share state with one another, for TLC: each  *)
(* behaviour is a behaviour of one of them, the subject, while the others  *)
(* stay in an initial state.                                               *)
(***************************************************************************)
EXTENDS CheckpointResume, ReplayBuffer, WeightTransfer, ToolAgentLoop, TokenBucket

CONSTANT Subjects

VARIABLE subject

\* Weights that share a bucket, fill one exactly, and need two or three.
MCModels == {<<1, 1, 2, 1>>, <<3, 1, 2>>, <<1, 5>>, <<2, 4, 3, 1>>, <<1, 3, 3, 2>>}

\* The first choice of a component's initial values, while it is not the subject.
Idle(s, condition) == subject # s => condition

ComponentsInit ==
  /\ subject \in Subjects
  /\ ResumeInit /\ Idle("resume", program = CHOOSE p \in Programs : TRUE)
  /\ ReplayInit
  /\ TransferInit /\ Idle("transfer", /\ sizes = CHOOSE m \in Models : TRUE
                                      /\ ipcBucket = CHOOSE b \in IpcBuckets : TRUE)
  /\ ToolInit
  /\ BucketInit /\ Idle("limiter", demand = CHOOSE d \in [Calls -> Demands] : TRUE)

allVars == <<subject, resumeVars, replayVars, transferVars, toolVars, bucketVars>>

ResumeStep ==
  subject = "resume" /\ ResumeNext /\ UNCHANGED <<subject, replayVars, transferVars, toolVars, bucketVars>>

ReplayStep ==
  subject = "replay" /\ ReplayNext /\ UNCHANGED <<subject, resumeVars, transferVars, toolVars, bucketVars>>

TransferStep ==
  subject = "transfer" /\ TransferNext /\ UNCHANGED <<subject, resumeVars, replayVars, toolVars, bucketVars>>

ToolStep ==
  subject = "tools" /\ ToolNext /\ UNCHANGED <<subject, resumeVars, replayVars, transferVars, bucketVars>>

BucketStep ==
  subject = "limiter" /\ BucketNext /\ UNCHANGED <<subject, resumeVars, replayVars, transferVars, toolVars>>

\* A round of calls has come to its end within the bound of the clock.
BucketEnds ==
  subject = "limiter" /\ now = MaxTime /\ UNCHANGED allVars

\* The other programs that come to an end.
ComponentEnds ==
  /\ \/ subject = "transfer" /\ sndPc = "done" /\ rcvPc = "done" /\ received
     \/ subject = "replay" /\ fitPc = "done"
  /\ UNCHANGED allVars

ComponentsNext ==
  ResumeStep \/ ReplayStep \/ TransferStep \/ ToolStep \/ BucketStep \/ BucketEnds \/ ComponentEnds

\* Trainer, poll thread, workers, device, collective and both ends of a socket
\* go on; crashes, the clock and calls are not forced.
ComponentsSpec ==
  /\ ComponentsInit /\ [][ComponentsNext]_allVars
  /\ WF_resumeVars(subject = "resume" /\ Run)
  /\ WF_replayVars(subject = "replay" /\ FitStep)
  /\ WF_replayVars(subject = "replay" /\ WorkerStep)
  /\ WF_replayVars(subject = "replay" /\ PollStep)
  /\ WF_transferVars(subject = "transfer" /\ SendStep)
  /\ WF_transferVars(subject = "transfer" /\ Broadcast)
  /\ WF_transferVars(subject = "transfer" /\ ReceiveStep)
  /\ WF_transferVars(subject = "transfer" /\ RunCopy)
  /\ WF_transferVars(subject = "transfer" /\ Load)
=============================================================================
