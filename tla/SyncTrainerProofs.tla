-------------------------- MODULE SyncTrainerProofs --------------------------
(***************************************************************************)
(* The synchronous trainers.                                               *)
(*                                                                         *)
(* CheckpointResume: the checkpoint that the tracker file names, and the   *)
(* batches that a model is trained on, for every number of steps, epochs   *)
(* and crashes, every save frequency and every number of checkpoints to    *)
(* keep but one.                                                           *)
(*                                                                         *)
(* ReplayBuffer: what sample returns, for every number of steps,           *)
(* validation batches, prompts and sessions, and however late the poll     *)
(* thread copies what the workers have reported.                           *)
(***************************************************************************)
EXTENDS CheckpointResume, ReplayBuffer, SequenceTheorems, FiniteSetTheorems, TLAPS

-----------------------------------------------------------------------------
(* CheckpointResume: the invariants *)

PartSet == {Parts[i] : i \in 1..Len(Parts)}

Saving == {"ensure", "write", "written", "register", "data", "truncate", "tracker"}

\* The shape of the state.
ResumeTypeOK ==
  /\ program \in Programs
  /\ folders \in SUBSET (1..Total)
  /\ parts \in [GlobalSteps -> SUBSET PartSet]
  /\ position \in [GlobalSteps -> {NoStep} \cup (1..StepsPerEpoch)]
  /\ lineage \in [GlobalSteps -> Seq(Nat)]
  /\ tracker \in (1..Total) \cup {NoStep, Torn}
  /\ pc \in {"down", "failed", "draw", "train", "done"} \cup Saving
  /\ step \in GlobalSteps /\ epoch \in 0..Epochs /\ drawn \in 0..StepsPerEpoch
  /\ batches \in Seq(Nat)
  /\ part \in 1..Len(Parts)
  /\ paths \in [PartNames -> Seq(1..Total)]

\* A position of the dataloader belongs to its step: whole epochs lie before it.
Fits(s, n, last) == \E e \in 0..last : s = e * StepsPerEpoch + n

\* A dataloader that was exhausted when it was saved may have skipped epochs,
\* but whole ones.
LoopInv ==
  /\ Fits(step, drawn, epoch)
  /\ pc \in Saving \cup {"train"} => drawn >= 1
  /\ \A s \in GlobalSteps : position[s] # NoStep => Fits(s, position[s], Epochs)

\* The step that the tracker names.
Named == IF tracker \in GlobalSteps THEN tracker ELSE 0

\* Training is ahead of the tracker, and a save never touches its checkpoint.
TrackerInv ==
  /\ LatestComplete
  /\ tracker = Torn => pc \in {"tracker", "down", "failed"}
  /\ pc = "draw" => Named <= step
  /\ pc \in Saving \cup {"train"} => Named < step

\* What the save under way has written.
SavedInv ==
  /\ pc \in {"ensure", "write", "written", "register"} =>
       \A i \in 1..(part - 1) : Parts[i] \in parts[step] /\ step \in folders
  /\ pc \in {"written", "register"} => step \in folders
  /\ pc = "register" => Parts[part] \in parts[step]
  /\ pc \in {"data", "truncate", "tracker"} => step \in folders /\ PartSet \subseteq parts[step]
  /\ pc \in {"truncate", "tracker"} => position[step] # NoStep

\* The parts that the save under way has registered.
Registered(p) ==
  \/ pc \in {"data", "truncate"}
  \/ pc \in {"ensure", "write", "written", "register"} /\ \E i \in 1..(part - 1) : p = Parts[i]

Increasing(list) == \A i, j \in 1..Len(list) : i < j => list[i] < list[j]

\* The list of a checkpoint manager is ordered, and nothing in it is newer than
\* the checkpoint that the tracker names but the save under way.
PathsInv ==
  /\ pc = "down" => paths = NoPaths
  /\ \A p \in PartNames :
       /\ Increasing(paths[p])
       /\ \A i \in 1..Len(paths[p]) :
            /\ paths[p][i] <= step
            /\ pc # "tracker" => paths[p][i] <= Named \/ (paths[p][i] = step /\ Registered(p))

\* The inductive invariant behind LatestComplete.
ResumeInv == ResumeTypeOK /\ LoopInv /\ TrackerInv /\ SavedInv /\ PathsInv

\* The batches of the epochs, in order.
InOrder(b) == \A i \in 1..Len(b) : b[i] = ((i - 1) % StepsPerEpoch) + 1

\* A step from which the dataloader is restored where it was.
Restorable(s) == program = "ppo" \/ s % StepsPerEpoch # 0 \/ s = Total

\* The inductive invariant behind EveryBatchOnce.
BatchInv ==
  /\ lineage[0] = <<>>
  /\ \A s \in GlobalSteps : parts[s] # {} => Len(lineage[s]) = s /\ InOrder(lineage[s])
  /\ tracker \in GlobalSteps => Restorable(tracker)
  /\ pc \in Saving => Restorable(step)
  /\ pc \in Saving \cup {"draw"} => Len(batches) = step /\ InOrder(batches)
  /\ pc = "train" => Len(batches) = step - 1 /\ InOrder(batches)
  /\ pc = "done" => Len(batches) = Total /\ InOrder(batches)
  /\ pc \in Saving \cup {"train"} => epoch < Epochs /\ step = epoch * StepsPerEpoch + drawn
  /\ pc = "draw" =>
       \/ epoch < Epochs /\ step = epoch * StepsPerEpoch + drawn
       \/ epoch = Epochs /\ step = Total

\* No checkpoint at the end of an epoch but the last, unless the trainer
\* begins a new epoch there.
NoBoundarySave ==
  \/ Programs = {"ppo"}
  \/ \A s \in 1..(Total - 1) : s % CkptFreq = 0 => s % StepsPerEpoch # 0

-----------------------------------------------------------------------------
(* Steps and epochs *)

\* The constants as numbers.
LEMMA ResumeConstants ==
  /\ StepsPerEpoch \in Nat /\ StepsPerEpoch >= 1 /\ Epochs \in Nat /\ Epochs >= 1
  /\ CkptFreq \in Nat /\ CkptFreq >= 1 /\ MaxToKeep \in Nat
  /\ NoStep \notin Nat /\ Torn \notin Nat /\ NoStep # Torn
  /\ Programs \subseteq {"ppo", "sync", "sft"}
BY CheckpointAssumption

\* A product of naturals, and its growth.
LEMMA ProductParts ==
  ASSUME NEW a \in Nat, NEW b \in Nat, NEW c \in Nat
  PROVE  /\ a * c \in Nat /\ (a + 1) * c = a * c + c
         /\ a <= b => a * c <= b * c
<1>1. a * c \in Nat /\ (a + 1) * c = a * c + c
  OBVIOUS
<1>2. a <= b => a * c <= b * c
  OBVIOUS
<1> QED BY <1>1, <1>2

\* Quotient and remainder are the only ones.
LEMMA DivisionUnique ==
  ASSUME NEW n \in Nat, NEW d \in Nat, d >= 1, NEW q \in Nat, NEW r \in Nat, r < d, n = q * d + r
  PROVE  n \div d = q /\ n % d = r
<1> DEFINE x == n \div d
           y == n % d
<1>1. x \in Nat /\ y \in Nat /\ y < d /\ n = x * d + y
  OBVIOUS
<1> HIDE DEF x, y
<1>2. ~(x < q)
  <2> SUFFICES ASSUME x < q PROVE FALSE
    OBVIOUS
  <2>1. x + 1 \in Nat /\ x + 1 <= q
    BY <1>1
  <2>2. (x + 1) * d <= q * d /\ (x + 1) * d = x * d + d /\ x * d \in Nat /\ q * d \in Nat
    BY <1>1, <2>1, ProductParts
  <2> QED BY <1>1, <2>2
<1>3. ~(q < x)
  <2> SUFFICES ASSUME q < x PROVE FALSE
    OBVIOUS
  <2>1. q + 1 \in Nat /\ q + 1 <= x
    BY <1>1
  <2>2. (q + 1) * d <= x * d /\ (q + 1) * d = q * d + d /\ x * d \in Nat /\ q * d \in Nat
    BY <1>1, <2>1, ProductParts
  <2> QED BY <1>1, <2>2
<1>4. x = q
  BY <1>1, <1>2, <1>3
<1>5. y = r
  <2>1. q * d \in Nat
    BY ProductParts
  <2> QED BY <1>1, <1>4, <2>1
<1> QED BY <1>4, <1>5 DEF x, y

\* The steps of all epochs.
LEMMA TotalParts ==
  /\ Total \in Nat /\ Total >= 1 /\ Total = Epochs * StepsPerEpoch
  /\ Total \div StepsPerEpoch = Epochs /\ Total % StepsPerEpoch = 0
<1>1. Total = Epochs * StepsPerEpoch /\ Total \in Nat
  BY ResumeConstants DEF Total
<1>2. 1 * StepsPerEpoch <= Epochs * StepsPerEpoch /\ 1 * StepsPerEpoch = StepsPerEpoch
  BY ResumeConstants, ProductParts
<1>3. Total >= 1
  BY <1>1, <1>2, ResumeConstants
<1>4. Total = Epochs * StepsPerEpoch + 0
  BY <1>1
<1> QED BY <1>1, <1>3, <1>4, DivisionUnique, ResumeConstants

\* A step within an epoch is one of the steps.
LEMMA StepInRange ==
  ASSUME NEW e \in Nat, e < Epochs, NEW n \in 0..StepsPerEpoch
  PROVE  e * StepsPerEpoch + n \in GlobalSteps /\ e * StepsPerEpoch \in Nat
<1>1. (e + 1) * StepsPerEpoch <= Epochs * StepsPerEpoch
  BY ResumeConstants, ProductParts
<1>2. (e + 1) * StepsPerEpoch = e * StepsPerEpoch + StepsPerEpoch /\ e * StepsPerEpoch \in Nat
  BY ResumeConstants, ProductParts
<1>3. Epochs * StepsPerEpoch = Total /\ Total \in Nat
  BY TotalParts
<1> QED BY <1>1, <1>2, <1>3, ResumeConstants DEF GlobalSteps

\* Whole epochs and a remainder of a step.
LEMMA StepDivision ==
  ASSUME NEW s \in GlobalSteps
  PROVE  /\ s \in Nat /\ s <= Total
         /\ s \div StepsPerEpoch \in 0..Epochs /\ s % StepsPerEpoch \in 0..(StepsPerEpoch - 1)
         /\ s \div StepsPerEpoch = Epochs => s = Total
<1> DEFINE x == s \div StepsPerEpoch
           y == s % StepsPerEpoch
<1>0. s \in Nat /\ s <= Total
  BY TotalParts DEF GlobalSteps
<1>1. x \in Nat /\ y \in Nat /\ y < StepsPerEpoch /\ s = x * StepsPerEpoch + y
  BY <1>0, ResumeConstants
<1> HIDE DEF x, y
<1>2. x <= Epochs
  <2> SUFFICES ASSUME Epochs + 1 <= x PROVE FALSE
    BY <1>1, ResumeConstants
  <2>1. (Epochs + 1) * StepsPerEpoch <= x * StepsPerEpoch
        /\ (Epochs + 1) * StepsPerEpoch = Epochs * StepsPerEpoch + StepsPerEpoch
        /\ x * StepsPerEpoch \in Nat
    BY <1>1, ProductParts, ResumeConstants
  <2> DEFINE u == x * StepsPerEpoch
             t == Epochs * StepsPerEpoch
  <2>2. t = Total /\ t + StepsPerEpoch <= u /\ u \in Nat /\ s = u + y /\ Total \in Nat
    BY <1>1, <2>1, TotalParts
  <2> HIDE DEF u, t
  <2> QED BY <1>0, <1>1, <2>2, ResumeConstants
<1>3. x = Epochs => s = Total
  BY <1>0, <1>1, TotalParts
<1>4. x \in 0..Epochs /\ y \in 0..(StepsPerEpoch - 1)
  BY <1>1, <1>2, ResumeConstants
<1> QED BY <1>0, <1>3, <1>4 DEF x, y

\* The dataloader after a restart stands at a position of the step; but for the
\* boundary of an epoch in the trainers that do not look for it, at its own.
LEMMA RestoredFits ==
  ASSUME NEW s \in GlobalSteps, s >= 1, position[s] \in 1..StepsPerEpoch,
         Fits(s, position[s], Epochs)
  PROVE  /\ Restored(s) \in 0..StepsPerEpoch
         /\ Fits(s, Restored(s), s \div StepsPerEpoch)
         /\ Restorable(s) =>
              \/ s \div StepsPerEpoch < Epochs /\ s = (s \div StepsPerEpoch) * StepsPerEpoch + Restored(s)
              \/ s \div StepsPerEpoch = Epochs /\ s = Total
<1> DEFINE S == StepsPerEpoch
           x == s \div S
           y == s % S
           n == position[s]
<1>1. /\ s \in Nat /\ x \in 0..Epochs /\ y \in 0..(S - 1)
      /\ x = Epochs => s = Total
  BY StepDivision
<1>0. s = x * S + y
  BY <1>1, ResumeConstants
<1>2. PICK e \in 0..Epochs : s = e * S + n
  BY DEF Fits
<1>3. S \in Nat /\ S >= 1 /\ Epochs \in Nat /\ n \in Nat /\ n >= 1 /\ n <= S /\ position[s] # NoStep
  BY ResumeConstants
<1>4. Restored(s) = IF program = "ppo" /\ y = 0 THEN 0 ELSE n
  BY <1>3 DEF Restored
<1>5. n < S => x = e /\ y = n
  <2>1. e \in Nat
    BY <1>3
  <2>2. n < S => s \div S = e /\ s % S = n
    <3> HIDE DEF S, n
    <3> QED BY <1>1, <1>2, <1>3, <2>1, DivisionUnique
  <2> QED BY <2>2, Zenon
<1>6. n = S => x = e + 1 /\ y = 0
  <2> SUFFICES ASSUME n = S PROVE x = e + 1 /\ y = 0
    OBVIOUS
  <2>1. (e + 1) * S = e * S + S /\ e * S \in Nat
    BY <1>2, <1>3, ProductParts
  <2>2. s = (e + 1) * S + 0 /\ e + 1 \in Nat
    BY <1>2, <2>1
  <2> QED BY <1>1, <1>3, <2>2, DivisionUnique
<1>7. (n < S \/ n = S) /\ x \in Nat /\ y \in Nat /\ (x < Epochs \/ x = Epochs) /\ x * S \in Nat
  BY <1>1, <1>3, ProductParts
<1> HIDE DEF S, x, y, n
<1>8. Restored(s) \in 0..S
  BY <1>3, <1>4
<1>9. Fits(s, Restored(s), x)
  <2>1. CASE program = "ppo" /\ y = 0
    <3>1. x \in 0..x /\ s = x * S + 0 /\ Restored(s) = 0
      BY <1>0, <1>1, <1>4, <1>7, <2>1
    <3> QED BY <3>1 DEF Fits, S
  <2>2. CASE ~(program = "ppo" /\ y = 0)
    <3>1. e \in 0..x /\ s = e * S + Restored(s)
      BY <1>2, <1>4, <1>5, <1>6, <1>7, <2>2
    <3> QED BY <3>1 DEF Fits, S
  <2> QED BY <2>1, <2>2
<1>10. Restorable(s) => (x < Epochs /\ s = x * S + Restored(s)) \/ (x = Epochs /\ s = Total)
  <2> SUFFICES ASSUME Restorable(s), x < Epochs PROVE s = x * S + Restored(s)
    BY <1>1, <1>7
  <2>1. s # Total
    BY <1>7, TotalParts DEF x, S
  <2>2. CASE y = 0
    <3>1. Restored(s) = 0
      BY <1>4, <2>1, <2>2 DEF Restorable, y, S
    <3> QED BY <1>0, <1>1, <1>7, <2>2, <3>1
  <2>3. CASE y # 0
    <3>1. n < S
      BY <1>6, <1>7, <2>3
    <3> QED BY <1>2, <1>4, <1>5, <2>3, <3>1
  <2> QED BY <2>2, <2>3
<1> QED BY <1>8, <1>9, <1>10 DEF x, S

-----------------------------------------------------------------------------
(* Parts and lists *)

\* What one save consists of.
LEMMA PartsParts ==
  ASSUME program \in {"ppo", "sync", "sft"}
  PROVE  /\ Len(Parts) \in {1, 2} /\ PartSet \subseteq PartNames
         /\ \A i \in 1..Len(Parts) : Parts[i] \in PartSet
         /\ \A i, j \in 1..Len(Parts) : i # j => Parts[i] # Parts[j]
         /\ Cardinality(PartSet) = Len(Parts)
         /\ program = "sft" => Len(Parts) = 1
<1>1. CASE program = "sft"
  <2>1. Parts = <<"model">> /\ Len(Parts) = 1 /\ 1..Len(Parts) = {1}
    BY <1>1 DEF Parts
  <2>2. PartSet = {"model"}
    BY <2>1 DEF PartSet
  <2>3. Cardinality({"model"}) = 1
    BY FS_Singleton
  <2> QED BY <2>1, <2>2, <2>3 DEF PartNames
<1>2. CASE program # "sft"
  <2>1. Parts = <<"actor", "critic">> /\ Len(Parts) = 2 /\ 1..Len(Parts) = {1, 2}
    BY <1>2 DEF Parts
  <2>2. PartSet = {"actor", "critic"}
    BY <2>1 DEF PartSet
  <2>3. Cardinality({"actor"}) = 1 /\ IsFiniteSet({"actor"})
    BY FS_Singleton
  <2>4. Cardinality({"actor"} \cup {"critic"}) = Cardinality({"actor"}) + 1
    BY <2>3, FS_AddElement
  <2>5. {"actor"} \cup {"critic"} = {"actor", "critic"}
    OBVIOUS
  <2> QED BY <1>2, <2>1, <2>2, <2>3, <2>4, <2>5 DEF PartNames
<1> QED BY <1>1, <1>2

\* Cutting an ordered list: what is kept is ordered, and what is removed is
\* older than every entry that is kept.
LEMMA ListCut ==
  ASSUME NEW list \in Seq(1..Total), Increasing(list), NEW keep \in 0..Len(list)
  PROVE  /\ Kept(list, keep) \in Seq(1..Total) /\ Increasing(Kept(list, keep))
         /\ \A i \in 1..Len(Kept(list, keep)) : \E j \in 1..Len(list) : Kept(list, keep)[i] = list[j]
         /\ Removable(list, keep) \subseteq 1..Total
         /\ \A x \in Removable(list, keep) : \A j \in 1..Len(list) :
              j > Len(list) - keep => x < list[j]
<1> DEFINE n == Len(list)
           m == n - keep
<1>1. n \in Nat /\ keep \in Nat /\ m \in Nat /\ keep <= n /\ m <= n /\ m + keep = n /\ Total \in Nat
  BY LenProperties, TotalParts
<1>2. \A i \in 1..n : list[i] \in 1..Total
  BY ElementOfSeq
<1>3. \A i, j \in 1..n : i < j => list[i] < list[j]
  BY DEF Increasing
<1>4. Removable(list, keep) = {list[i] : i \in 1..m}
  BY DEF Removable
<1>5. Kept(list, keep) = IF n > keep THEN SubSeq(list, m + 1, n) ELSE list
  BY DEF Kept
<1> HIDE DEF n, m
<1>6. \A i \in 1..m : i \in 1..n
  BY <1>1
<1>7. Removable(list, keep) \subseteq 1..Total
  BY <1>2, <1>4, <1>6
<1>8. \A i \in 1..m : \A j \in 1..n : j > m => list[i] < list[j]
  <2>1. \A i \in 1..m : \A j \in 1..n : j > m => i < j
    BY <1>1
  <2> QED BY <1>3, <1>6, <2>1
<1>9. CASE n > keep
  <2> DEFINE k == SubSeq(list, m + 1, n)
  <2>1. \A i \in (m + 1)..n : list[i] \in 1..Total
    BY <1>1, <1>2
  <2>2. m + 1 \in Int /\ n \in Int
    BY <1>1
  <2>3. /\ k \in Seq(1..Total)
        /\ Len(k) = IF m + 1 <= n THEN n - (m + 1) + 1 ELSE 0
        /\ \A i \in 1..(n - (m + 1) + 1) : k[i] = list[(m + 1) + i - 1]
    BY <2>1, <2>2, SubSeqProperties
  <2> HIDE DEF k
  <2>4. n - (m + 1) + 1 = keep /\ Len(k) = keep /\ \A i \in 1..keep : (m + 1) + i - 1 = m + i /\ m + i \in 1..n
    BY <1>1, <2>3
  <2>5. \A i \in 1..keep : k[i] = list[m + i]
    BY <2>3, <2>4
  <2>6. \A i, j \in 1..keep : i < j => m + i < m + j
    BY <1>1
  <2>7. Increasing(k)
    BY <1>3, <2>4, <2>5, <2>6 DEF Increasing
  <2>8. \A i \in 1..Len(k) : \E j \in 1..n : k[i] = list[j]
    BY <2>4, <2>5
  <2>9. Kept(list, keep) = k
    BY <1>5, <1>9 DEF k
  <2> QED BY <1>4, <1>7, <1>8, <2>3, <2>7, <2>8, <2>9 DEF n, m
<1>10. CASE ~(n > keep)
  <2>1. Kept(list, keep) = list
    BY <1>5, <1>10
  <2> QED BY <1>4, <1>7, <1>8, <2>1 DEF n, m
<1> QED BY <1>9, <1>10

-----------------------------------------------------------------------------
(* The actions and the tracker's checkpoint *)

\* Numbers of the state.
LEMMA ResumeNumbers ==
  ASSUME ResumeTypeOK
  PROVE  /\ Total \in Nat /\ GlobalSteps = 0..Total /\ step \in Nat /\ step <= Total
         /\ Named \in 0..Total /\ program \in {"ppo", "sync", "sft"}
         /\ tracker \in GlobalSteps => Named = tracker /\ tracker \in 1..Total
         /\ tracker \notin GlobalSteps => Named = 0
BY TotalParts, ResumeConstants DEF ResumeTypeOK, GlobalSteps, Named

\* Removing checkpoints that are older than the one the tracker names touches
\* neither that one nor the save under way.
LEMMA RemovalKeeps ==
  ASSUME ResumeInv, pc \in Saving, NEW p, NEW gone \in SUBSET (1..Total),
         \A x \in gone : x < Named, RemovePrevious(p, gone), UNCHANGED <<program, tracker>>
  PROVE  /\ folders' \subseteq folders
         /\ parts' \in [GlobalSteps -> SUBSET PartSet]
         /\ position' \in [GlobalSteps -> {NoStep} \cup (1..StepsPerEpoch)]
         /\ \A s \in GlobalSteps : parts'[s] \subseteq parts[s]
         /\ \A s \in GlobalSteps : position'[s] # NoStep => position'[s] = position[s]
         /\ parts'[step] = parts[step] /\ position'[step] = position[step]
         /\ step \in folders => step \in folders'
         /\ LatestComplete'
<1>1. /\ Total \in Nat /\ GlobalSteps = 0..Total /\ step \in Nat /\ step \in GlobalSteps
      /\ Named \in 0..Total /\ Named < step
      /\ tracker \in GlobalSteps => Named = tracker
  BY ResumeNumbers DEF ResumeInv, ResumeTypeOK, TrackerInv
<1>2. step \notin gone /\ (tracker \in GlobalSteps => tracker \notin gone)
  BY <1>1
<1>3. /\ parts' = [s \in GlobalSteps |-> IF s \in gone THEN parts[s] \ {p} ELSE parts[s]]
      /\ \/ folders' = folders \ gone
            /\ position' = [s \in GlobalSteps |-> IF s \in gone THEN NoStep ELSE position[s]]
         \/ UNCHANGED <<folders, position>>
  BY DEF RemovePrevious
<1>4. /\ parts \in [GlobalSteps -> SUBSET PartSet]
      /\ position \in [GlobalSteps -> {NoStep} \cup (1..StepsPerEpoch)]
  BY DEF ResumeInv, ResumeTypeOK
<1>5. folders' \subseteq folders /\ (step \in folders => step \in folders')
  BY <1>2, <1>3
<1>6. /\ parts' \in [GlobalSteps -> SUBSET PartSet]
      /\ \A s \in GlobalSteps : parts'[s] \subseteq parts[s]
      /\ \A s \in GlobalSteps : s \notin gone => parts'[s] = parts[s]
  BY <1>3, <1>4
<1>7. /\ position' \in [GlobalSteps -> {NoStep} \cup (1..StepsPerEpoch)]
      /\ \A s \in GlobalSteps : position'[s] # NoStep => position'[s] = position[s]
      /\ \A s \in GlobalSteps : s \notin gone => position'[s] = position[s]
  BY <1>3, <1>4
<1>8. LatestComplete'
  <2>1. tracker \in GlobalSteps => tracker \in folders'
    BY <1>2, <1>3 DEF ResumeInv, TrackerInv, LatestComplete
  <2>2. Parts' = Parts
    BY DEF Parts
  <2> QED BY <1>2, <1>6, <1>7, <2>1, <2>2 DEF ResumeInv, TrackerInv, LatestComplete
<1> QED BY <1>1, <1>2, <1>5, <1>6, <1>7, <1>8

\* What the capacity check may remove is older than the tracker's checkpoint.
LEMMA EnsurePreserves ==
  ASSUME MaxToKeep # 1, ResumeInv, EnsureCapacity
  PROVE  ResumeInv'
<1> DEFINE p == Parts[part]
           keep == KeepBeforeSave(paths[p])
           gone == Removable(paths[p], keep)
           kept == Kept(paths[p], keep)
<1>1. /\ pc = "ensure" /\ pc' = "write"
      /\ RemovePrevious(p, gone)
      /\ paths' = [paths EXCEPT ![p] = kept]
      /\ UNCHANGED <<program, lineage, tracker, step, epoch, drawn, batches, part>>
  BY DEF EnsureCapacity, loop
<1>2. ResumeTypeOK /\ program \in {"ppo", "sync", "sft"} /\ pc \in Saving
  BY <1>1, ResumeNumbers DEF ResumeInv, Saving
<1>3. p \in PartNames /\ ~Registered(p)
  <2>1. part \in 1..Len(Parts) /\ Len(Parts) \in {1, 2}
    BY <1>2, PartsParts DEF ResumeTypeOK
  <2>2. \A i \in 1..(part - 1) : i \in 1..Len(Parts) /\ i # part
    BY <2>1
  <2>3. \A i \in 1..(part - 1) : Parts[i] # p
    BY <1>2, <2>1, <2>2, PartsParts
  <2> QED BY <1>1, <1>2, <2>1, <2>3, PartsParts DEF Registered
<1> DEFINE list == paths[p]
           n == Len(list)
<1>4. /\ list \in Seq(1..Total) /\ Increasing(list) /\ n \in Nat
      /\ \A i \in 1..n : list[i] <= Named
  BY <1>1, <1>2, <1>3, LenProperties DEF ResumeTypeOK, ResumeInv, PathsInv
<1> HIDE DEF p, list, n
<1>5. keep \in 0..n /\ (keep = n \/ keep >= 1)
  BY <1>4, ResumeConstants DEF KeepBeforeSave, list, n
<1> HIDE DEF keep
<1>6. /\ kept \in Seq(1..Total) /\ Increasing(kept)
      /\ \A i \in 1..Len(kept) : \E j \in 1..n : kept[i] = list[j]
      /\ gone \subseteq 1..Total
      /\ \A x \in gone : \A j \in 1..n : j > n - keep => x < list[j]
  BY <1>4, <1>5, ListCut DEF list, n
<1>7. \A x \in gone : x < Named
  <2>1. CASE keep = n
    <3>1. 1..(n - keep) = {}
      BY <1>4, <2>1
    <3>2. gone = {}
      BY <3>1 DEF Removable, list, n
    <3> QED BY <3>2
  <2>2. CASE keep # n
    <3>1. n \in 1..n /\ n > n - keep
      BY <1>4, <1>5, <2>2
    <3>2. list[n] \in 1..Total /\ list[n] <= Named /\ Total \in Nat /\ Named \in 0..Total
      BY <1>2, <1>4, <3>1, ElementOfSeq, ResumeNumbers DEF n
    <3>3. \A x \in gone : x \in 1..Total /\ x < list[n]
      BY <1>6, <3>1
    <3> QED BY <3>2, <3>3
  <2> QED BY <2>1, <2>2
<1> HIDE DEF gone, kept
<1>8. /\ folders' \subseteq folders
      /\ parts' \in [GlobalSteps -> SUBSET PartSet]
      /\ position' \in [GlobalSteps -> {NoStep} \cup (1..StepsPerEpoch)]
      /\ \A s \in GlobalSteps : position'[s] # NoStep => position'[s] = position[s]
      /\ parts'[step] = parts[step]
      /\ step \in folders => step \in folders'
      /\ LatestComplete'
  BY <1>1, <1>2, <1>6, <1>7, RemovalKeeps
<1>9. Parts' = Parts /\ PartSet' = PartSet /\ Named' = Named
  BY <1>1 DEF Parts, PartSet, Named
<1>10. /\ \A q \in PartNames : q # p => paths'[q] = paths[q]
       /\ paths'[p] = kept /\ paths' \in [PartNames -> Seq(1..Total)]
  BY <1>1, <1>2, <1>3, <1>6 DEF ResumeTypeOK
<1>11. ResumeTypeOK'
  BY <1>1, <1>2, <1>8, <1>9, <1>10 DEF ResumeTypeOK, Saving
<1>12. LoopInv'
  BY <1>1, <1>8 DEF ResumeInv, LoopInv, Fits, Saving
<1>13. TrackerInv'
  BY <1>1, <1>2, <1>8, <1>9, ResumeConstants DEF ResumeInv, TrackerInv, Saving
<1>14. SavedInv'
  BY <1>1, <1>8, <1>9 DEF ResumeInv, SavedInv
<1>15. PathsInv'
  <2> SUFFICES ASSUME NEW q \in PartNames
               PROVE  /\ Increasing(paths'[q])
                      /\ \A i \in 1..Len(paths'[q]) :
                           /\ paths'[q][i] <= step
                           /\ paths'[q][i] <= Named \/ (paths'[q][i] = step /\ Registered(q)')
    BY <1>1, <1>9 DEF PathsInv, Increasing
  <2>1. CASE q = p
    BY <1>1, <1>3, <1>4, <1>6, <1>10, <2>1 DEF ResumeInv, PathsInv, list, n
  <2>2. CASE q # p
    <3>1. Registered(q)' = Registered(q)
      BY <1>1, <1>9 DEF Registered
    <3> QED BY <1>1, <1>10, <2>2, <3>1 DEF ResumeInv, PathsInv
  <2> QED BY <2>1, <2>2
<1> QED BY <1>11, <1>12, <1>13, <1>14, <1>15 DEF ResumeInv

\* Adding the save under way to an ordered list of older ones.
LEMMA ListGrows ==
  ASSUME NEW list \in Seq(1..Total), NEW s \in 1..Total, Total \in Nat, Increasing(list),
         \A i \in 1..Len(list) : list[i] < s
  PROVE  /\ Append(list, s) \in Seq(1..Total) /\ Increasing(Append(list, s))
         /\ Len(Append(list, s)) = Len(list) + 1
         /\ Append(list, s)[Len(list) + 1] = s
         /\ \A i \in 1..Len(list) : Append(list, s)[i] = list[i]
<1>1. /\ Append(list, s) \in Seq(1..Total) /\ Len(Append(list, s)) = Len(list) + 1
      /\ \A i \in 1..Len(list) : Append(list, s)[i] = list[i]
      /\ Append(list, s)[Len(list) + 1] = s
  BY AppendProperties
<1> DEFINE n == Len(list)
           long == Append(list, s)
<1>2. n \in Nat /\ Len(long) = n + 1 /\ (\A i \in 1..n : long[i] = list[i]) /\ long[n + 1] = s
  BY <1>1, LenProperties
<1>3. /\ \A i, j \in 1..n : i < j => list[i] < list[j]
      /\ \A i \in 1..n : list[i] < s
  BY DEF Increasing
<1> HIDE DEF n, long
<1>4. \A i, j \in 1..(n + 1) : i < j => i \in 1..n /\ (j \in 1..n \/ j = n + 1)
  BY <1>2
<1>5. Increasing(long)
  BY <1>2, <1>3, <1>4 DEF Increasing
<1> QED BY <1>1, <1>5 DEF long, n

\* Registering a part keeps the checkpoint that was registered before it, which
\* is the tracker's, as two or more are kept.
LEMMA RegisterPreserves ==
  ASSUME MaxToKeep # 1, ResumeInv, RegisterPart
  PROVE  ResumeInv'
<1> DEFINE p == Parts[part]
           old == paths[p]
           list == Append(old, step)
           keep == IF MaxToKeep > 0 THEN MaxToKeep ELSE Len(list)
           gone == Removable(list, keep)
           kept == Kept(list, keep)
<1>1. /\ pc = "register"
      /\ RemovePrevious(p, gone)
      /\ paths' = [paths EXCEPT ![p] = kept]
      /\ \/ part < Len(Parts) /\ part' = part + 1 /\ pc' = "ensure"
         \/ ~(part < Len(Parts)) /\ part' = part /\ pc' = "data"
      /\ UNCHANGED <<program, lineage, tracker, step, epoch, drawn, batches>>
  BY DEF RegisterPart, loop
<1>2. ResumeTypeOK /\ program \in {"ppo", "sync", "sft"} /\ pc \in Saving
  BY <1>1, ResumeNumbers DEF ResumeInv, Saving
<1>0. part \in 1..Len(Parts) /\ Len(Parts) \in {1, 2}
  BY <1>2, PartsParts DEF ResumeTypeOK
<1>3. p \in PartNames /\ ~Registered(p)
  <2>2. \A i \in 1..(part - 1) : i \in 1..Len(Parts) /\ i # part
    BY <1>0
  <2>3. \A i \in 1..(part - 1) : Parts[i] # p
    BY <1>0, <1>2, <2>2, PartsParts
  <2> QED BY <1>0, <1>1, <1>2, <2>3, PartsParts DEF Registered
<1>4. /\ old \in Seq(1..Total) /\ Increasing(old) /\ Len(old) \in Nat
      /\ \A i \in 1..Len(old) : old[i] <= Named
  BY <1>1, <1>2, <1>3, LenProperties DEF ResumeTypeOK, ResumeInv, PathsInv
<1>5. Total \in Nat /\ step \in 1..Total /\ Named < step /\ Named \in Nat
  BY <1>2, ResumeNumbers DEF ResumeInv, TrackerInv
<1> HIDE DEF p, old
<1>6. \A i \in 1..Len(old) : old[i] \in 1..Total /\ old[i] < step
  <2>1. \A i \in 1..Len(old) : old[i] \in 1..Total /\ old[i] <= Named
    BY <1>4, ElementOfSeq
  <2> QED BY <1>5, <2>1
<1> DEFINE n == Len(old)
<1>7. /\ list \in Seq(1..Total) /\ Increasing(list) /\ Len(list) = n + 1
      /\ list[n + 1] = step /\ \A i \in 1..n : list[i] = old[i]
  BY <1>4, <1>5, <1>6, ListGrows
<1> HIDE DEF list, n
<1>8. \A j \in 1..(n + 1) : j \in 1..n \/ (j = n + 1 /\ list[j] = step)
  BY <1>4, <1>7 DEF n
<1>9. /\ kept \in Seq(1..Total) /\ Increasing(kept)
      /\ \A i \in 1..Len(kept) : \E j \in 1..(n + 1) : kept[i] = list[j]
      /\ gone \subseteq 1..Total /\ \A x \in gone : x < Named
  <2>0. n \in Nat /\ keep \in Nat /\ (keep = n + 1 \/ keep >= 2)
    BY <1>4, <1>7, ResumeConstants DEF n
  <2>1. CASE keep > n + 1
    <3>1. 1..(Len(list) - keep) = {}
      BY <1>7, <2>0, <2>1
    <3>2. gone = {}
      BY <3>1 DEF Removable
    <3>3. kept = list
      BY <1>7, <2>0, <2>1 DEF Kept
    <3> QED BY <1>7, <3>2, <3>3, Zenon
  <2>2. CASE keep <= n + 1
    <3> HIDE DEF keep
    <3>1. keep \in 0..Len(list)
      BY <1>7, <2>0, <2>2
    <3>2. /\ kept \in Seq(1..Total) /\ Increasing(kept)
          /\ \A i \in 1..Len(kept) : \E j \in 1..Len(list) : kept[i] = list[j]
          /\ gone \subseteq 1..Total
          /\ \A x \in gone : \A j \in 1..Len(list) : j > Len(list) - keep => x < list[j]
      BY <1>7, <3>1, ListCut
    <3>3. CASE keep = n + 1
      <4>1. 1..(Len(list) - keep) = {}
        BY <1>7, <2>0, <3>3
      <4>2. gone = {}
        BY <4>1 DEF Removable
      <4> QED BY <1>7, <3>2, <4>2
    <3>4. CASE keep # n + 1
      <4>1. n \in 1..n /\ n \in 1..(n + 1) /\ n > (n + 1) - keep
        BY <2>0, <2>2, <3>4
      <4>2. list[n] \in 1..Total /\ list[n] <= Named
        BY <1>4, <1>6, <1>7, <4>1 DEF n
      <4>3. \A x \in gone : x \in 1..Total /\ x < list[n]
        BY <1>7, <3>2, <4>1
      <4>4. \A x \in gone : x < Named
        BY <1>5, <4>2, <4>3
      <4> QED BY <1>7, <3>2, <4>4
    <3> QED BY <3>3, <3>4
  <2> QED BY <1>4, <1>7, <2>0, <2>1, <2>2
<1> HIDE DEF gone, kept, keep
<1>10. /\ folders' \subseteq folders
       /\ parts' \in [GlobalSteps -> SUBSET PartSet]
       /\ position' \in [GlobalSteps -> {NoStep} \cup (1..StepsPerEpoch)]
       /\ \A s \in GlobalSteps : position'[s] # NoStep => position'[s] = position[s]
       /\ parts'[step] = parts[step]
       /\ step \in folders => step \in folders'
       /\ LatestComplete'
  BY <1>1, <1>2, <1>9, RemovalKeeps
<1>11. Parts' = Parts /\ PartSet' = PartSet /\ Named' = Named
  BY <1>1 DEF Parts, PartSet, Named
<1>12. /\ \A q \in PartNames : q # p => paths'[q] = paths[q]
       /\ paths'[p] = kept /\ paths' \in [PartNames -> Seq(1..Total)]
  BY <1>1, <1>2, <1>3, <1>9 DEF ResumeTypeOK
<1>13. part' \in 1..Len(Parts) /\ pc' \in {"ensure", "data"}
  BY <1>0, <1>1
<1>14. ResumeTypeOK'
  BY <1>1, <1>2, <1>10, <1>11, <1>12, <1>13 DEF ResumeTypeOK, Saving
<1>15. LoopInv'
  BY <1>1, <1>10, <1>13 DEF ResumeInv, LoopInv, Fits, Saving
<1>16. TrackerInv'
  BY <1>1, <1>2, <1>10, <1>11, <1>13 DEF ResumeInv, TrackerInv, Saving
<1>17. SavedInv'
  <2>1. step \in folders' /\ p \in parts'[step] /\ \A i \in 1..(part - 1) : Parts[i] \in parts'[step]
    BY <1>1, <1>10 DEF ResumeInv, SavedInv, p
  <2>2. \A i \in 1..part : Parts[i] \in parts'[step]
    <3>1. \A i \in 1..part : i \in 1..(part - 1) \/ i = part
      BY <1>0
    <3> QED BY <2>1, <3>1 DEF p
  <2>3. CASE part' = part + 1 /\ pc' = "ensure"
    <3>1. part' - 1 = part
      BY <1>0, <2>3
    <3> QED BY <1>1, <1>11, <2>1, <2>2, <2>3, <3>1 DEF SavedInv
  <2>4. CASE ~(part < Len(Parts)) /\ part' = part /\ pc' = "data"
    <3>1. 1..part = 1..Len(Parts)
      BY <1>0, <2>4
    <3>2. PartSet \subseteq parts'[step]
      BY <2>2, <3>1 DEF PartSet
    <3> QED BY <1>1, <1>11, <2>1, <2>4, <3>2 DEF SavedInv
  <2> QED BY <1>1, <2>3, <2>4
<1>18. PathsInv'
  <2> SUFFICES ASSUME NEW q \in PartNames
               PROVE  /\ Increasing(paths'[q])
                      /\ \A i \in 1..Len(paths'[q]) :
                           /\ paths'[q][i] <= step
                           /\ paths'[q][i] <= Named \/ (paths'[q][i] = step /\ Registered(q)')
    BY <1>1, <1>11, <1>13 DEF PathsInv, Increasing
  <2>1. CASE q = p
    <3>1. Registered(q)'
      <4>1. part' = part + 1 => part \in 1..(part' - 1)
        BY <1>0
      <4>2. q = Parts'[part]
        BY <1>11, <2>1 DEF p
      <4> QED BY <1>1, <4>1, <4>2 DEF Registered
    <3>2. \A j \in 1..(n + 1) : list[j] <= step /\ (list[j] <= Named \/ list[j] = step)
      BY <1>4, <1>5, <1>6, <1>7, <1>8, SMTT(30) DEF n
    <3>3. paths'[q] = kept
      BY <1>12, <2>1
    <3>4. \A i \in 1..Len(kept) : kept[i] <= step /\ (kept[i] <= Named \/ kept[i] = step)
      BY <1>9, <3>2
    <3>5. Increasing(kept)
      BY <1>9
    <3> QED BY <3>1, <3>3, <3>4, <3>5, Zenon
  <2>2. CASE q # p
    <3>1. Registered(q) => Registered(q)'
      <4> SUFFICES ASSUME Registered(q) PROVE Registered(q)'
        OBVIOUS
      <4>1. PICK i \in 1..(part - 1) : q = Parts[i]
        BY <1>1 DEF Registered
      <4>2. CASE part' = part + 1 /\ pc' = "ensure"
        <5>1. i \in 1..(part' - 1)
          BY <1>0, <4>2
        <5> QED BY <1>11, <4>1, <4>2, <5>1 DEF Registered
      <4>3. CASE pc' = "data"
        BY <4>3 DEF Registered
      <4> QED BY <1>1, <4>2, <4>3
    <3>2. paths'[q] = paths[q]
      BY <1>12, <2>2
    <3>3. /\ Increasing(paths[q])
          /\ \A i \in 1..Len(paths[q]) :
               paths[q][i] <= step /\ (paths[q][i] <= Named \/ (paths[q][i] = step /\ Registered(q)))
      BY <1>1 DEF ResumeInv, PathsInv
    <3> QED BY <3>1, <3>2, <3>3, Zenon
  <2> QED BY <2>1, <2>2
<1> QED BY <1>14, <1>15, <1>16, <1>17, <1>18 DEF ResumeInv

\* The lists of the managers stay as they should be when the tracker, or the
\* save under way, does.
LEMMA PathsFrame ==
  ASSUME ResumeInv, UNCHANGED paths, pc # "down", pc' # "down", step' \in Nat, step <= step',
         \/ pc' = "tracker"
         \/ step <= Named' /\ Named' \in Nat
         \/ pc # "tracker" /\ Named' = Named
            /\ \A p \in PartNames : Registered(p) => step' = step /\ Registered(p)'
  PROVE  PathsInv'
<1> SUFFICES ASSUME NEW p \in PartNames
             PROVE  /\ Increasing(paths'[p])
                    /\ \A i \in 1..Len(paths'[p]) :
                         /\ paths'[p][i] <= step'
                         /\ pc' # "tracker" =>
                              paths'[p][i] <= Named' \/ (paths'[p][i] = step' /\ Registered(p)')
  BY DEF PathsInv, Increasing
<1>0. paths' = paths
  OBVIOUS
<1>1. ResumeTypeOK /\ paths[p] \in Seq(1..Total) /\ step \in Nat /\ Total \in Nat /\ Named \in Nat
  <2>1. ResumeTypeOK
    BY DEF ResumeInv
  <2>2. Total \in Nat /\ step \in Nat /\ Named \in 0..Total
    BY <2>1, ResumeNumbers
  <2>3. paths[p] \in Seq(1..Total)
    BY <2>1 DEF ResumeTypeOK
  <2> QED BY <2>1, <2>2, <2>3
<1>2. Increasing(paths[p])
  BY DEF ResumeInv, PathsInv
<1>3. ASSUME NEW i \in 1..Len(paths[p])
      PROVE  /\ paths[p][i] <= step'
             /\ pc' # "tracker" => paths[p][i] <= Named' \/ (paths[p][i] = step' /\ Registered(p)')
  <2> DEFINE x == paths[p][i]
  <2>1. /\ x <= step
        /\ pc # "tracker" => x <= Named \/ (x = step /\ Registered(p))
    BY DEF ResumeInv, PathsInv
  <2>2. x \in Nat
    BY <1>1, ElementOfSeq
  <2> HIDE DEF x
  <2>3. x <= step'
    BY <1>1, <2>1, <2>2
  <2>4. ASSUME pc' # "tracker" PROVE x <= Named' \/ (x = step' /\ Registered(p)')
    <3>1. CASE step <= Named' /\ Named' \in Nat
      BY <1>1, <2>1, <2>2, <3>1
    <3>2. CASE pc # "tracker" /\ Named' = Named
               /\ \A q \in PartNames : Registered(q) => step' = step /\ Registered(q)'
      BY <2>1, <3>2
    <3> QED BY <2>4, <3>1, <3>2
  <2> QED BY <2>3, <2>4 DEF x
<1> QED BY <1>0, <1>2, <1>3

\* The tracker's checkpoint does not depend on another step.
LEMMA LatestFrame ==
  ASSUME ResumeInv, UNCHANGED <<program, tracker>>, folders \subseteq folders',
         tracker \in GlobalSteps => /\ parts'[tracker] = parts[tracker]
                                    /\ position'[tracker] = position[tracker]
  PROVE  LatestComplete' /\ Named' = Named /\ Parts' = Parts /\ PartSet' = PartSet
<1>1. Named' = Named /\ Parts' = Parts /\ PartSet' = PartSet
  BY DEF Named, Parts, PartSet
<1>2. LatestComplete'
  BY <1>1 DEF ResumeInv, TrackerInv, LatestComplete
<1> QED BY <1>1, <1>2

\* Writing a part touches the step of the save under way, which is newer than
\* the tracker's.
LEMMA WritePreserves ==
  ASSUME ResumeInv, WritePart \/ PartWritten
  PROVE  ResumeInv'
<1>1. /\ UNCHANGED <<program, position, tracker, step, epoch, drawn, batches, part, paths>>
      /\ pc \in {"write", "written"}
      /\ \/ /\ pc = "write" /\ pc' = "written" /\ lineage' = lineage
            /\ folders' = folders \cup {step}
            /\ parts' = [parts EXCEPT ![step] = @ \ {Parts[part]}]
         \/ /\ pc = "written" /\ pc' = "register" /\ folders' = folders
            /\ parts' = [parts EXCEPT ![step] = @ \cup {Parts[part]}]
            /\ lineage' = [lineage EXCEPT ![step] = batches]
  BY DEF WritePart, PartWritten, loop
<1>2. /\ ResumeTypeOK /\ step \in GlobalSteps /\ step \in Nat /\ step \in 1..Total /\ Total \in Nat
      /\ Named < step /\ (tracker \in GlobalSteps => tracker # step)
      /\ program \in {"ppo", "sync", "sft"}
  <2>1. ResumeTypeOK /\ step \in GlobalSteps /\ program \in Programs /\ Named < step
    BY <1>1 DEF ResumeInv, ResumeTypeOK, TrackerInv, Saving
  <2>2. program \in {"ppo", "sync", "sft"}
    BY <2>1, ResumeConstants
  <2>3. step \in Nat /\ Total \in Nat /\ Named \in Nat /\ step \in 1..Total
    BY <2>1, ResumeNumbers DEF ResumeInv
  <2>4. tracker \in GlobalSteps => tracker # step
    BY <2>1, <2>3 DEF Named
  <2> QED BY <2>1, <2>2, <2>3, <2>4
<1>3. part \in 1..Len(Parts) /\ Len(Parts) \in {1, 2} /\ Parts[part] \in PartSet
  BY <1>2, PartsParts DEF ResumeTypeOK
<1>4. \A i \in 1..(part - 1) : Parts[i] # Parts[part]
  <2>1. \A i \in 1..(part - 1) : i \in 1..Len(Parts) /\ i # part
    BY <1>3
  <2> QED BY <1>2, <1>3, <2>1, PartsParts
<1>5. /\ parts' \in [GlobalSteps -> SUBSET PartSet]
      /\ \A s \in GlobalSteps : s # step => parts'[s] = parts[s]
      /\ pc' = "written" => parts'[step] = parts[step] \ {Parts[part]} /\ step \in folders'
      /\ pc' = "register" => parts'[step] = parts[step] \cup {Parts[part]}
      /\ folders \subseteq folders' /\ folders' \in SUBSET (1..Total)
      /\ lineage' \in [GlobalSteps -> Seq(Nat)]
  <2>1. /\ parts \in [GlobalSteps -> SUBSET PartSet] /\ folders \in SUBSET (1..Total)
        /\ lineage \in [GlobalSteps -> Seq(Nat)] /\ batches \in Seq(Nat)
    BY <1>2 DEF ResumeTypeOK
  <2>2. CASE pc = "write"
    <3>1. /\ pc' = "written" /\ lineage' = lineage /\ folders' = folders \cup {step}
          /\ parts' = [parts EXCEPT ![step] = @ \ {Parts[part]}]
      BY <1>1, <2>2
    <3> QED BY <1>2, <1>3, <2>1, <3>1
  <2>3. CASE pc = "written"
    <3>1. /\ pc' = "register" /\ folders' = folders
          /\ parts' = [parts EXCEPT ![step] = @ \cup {Parts[part]}]
          /\ lineage' = [lineage EXCEPT ![step] = batches]
      BY <1>1, <2>3
    <3>2. lineage' \in [GlobalSteps -> Seq(Nat)]
      BY <2>1, <3>1
    <3> QED BY <1>2, <1>3, <2>1, <3>1, <3>2
  <2> QED BY <1>1, <2>2, <2>3
<1>6. LatestComplete' /\ Named' = Named /\ Parts' = Parts /\ PartSet' = PartSet
  BY <1>1, <1>2, <1>5, LatestFrame
<1>7. pc' \in {"written", "register"}
  BY <1>1
<1>8. ResumeTypeOK'
  BY <1>1, <1>2, <1>5, <1>6, <1>7 DEF ResumeTypeOK, Saving
<1>9. LoopInv'
  BY <1>1, <1>7 DEF ResumeInv, LoopInv, Fits, Saving
<1>10. TrackerInv'
  BY <1>1, <1>2, <1>6, <1>7 DEF ResumeInv, TrackerInv, Saving
<1>11. SavedInv'
  <2>1. \A i \in 1..(part - 1) : Parts[i] \in parts'[step] /\ step \in folders'
    BY <1>1, <1>4, <1>5 DEF ResumeInv, SavedInv
  <2>2. pc' = "register" => step \in folders' /\ Parts[part] \in parts'[step]
    BY <1>1, <1>5 DEF ResumeInv, SavedInv
  <2> QED BY <1>1, <1>5, <1>6, <1>7, <2>1, <2>2 DEF SavedInv
<1>12. PathsInv'
  <2>1. \A p \in PartNames : Registered(p) => Registered(p)'
    BY <1>1, <1>6 DEF Registered
  <2> QED BY <1>1, <1>2, <1>6, <1>7, <2>1, PathsFrame
<1> QED BY <1>8, <1>9, <1>10, <1>11, <1>12 DEF ResumeInv

\* Saving the dataloader and the tracker: the tracker names a checkpoint whose
\* parts and position are on disk.
LEMMA TrackPreserves ==
  ASSUME ResumeInv, SaveDataloader \/ TruncateTracker \/ WriteTracker
  PROVE  ResumeInv'
<1>0. /\ ResumeTypeOK /\ step \in GlobalSteps /\ step \in Nat /\ Total \in Nat /\ step <= Total
      /\ program \in {"ppo", "sync", "sft"} /\ GlobalSteps = 0..Total
  BY ResumeNumbers DEF ResumeInv, ResumeTypeOK
<1>00. UNCHANGED <<program, folders, parts, lineage, step, epoch, drawn, batches, part, paths>>
  BY DEF SaveDataloader, TruncateTracker, WriteTracker, loop
<1>1. CASE SaveDataloader
  <2>1. /\ pc = "data" /\ pc' \in {"tracker", "truncate"}
        /\ position' = [position EXCEPT ![step] = drawn] /\ UNCHANGED tracker
    BY <1>1 DEF SaveDataloader
  <2>2. Named < step /\ (tracker \in GlobalSteps => tracker # step)
    BY <1>0, <2>1, ResumeNumbers DEF ResumeInv, TrackerInv, Saving
  <2>3. drawn \in 1..StepsPerEpoch /\ drawn # NoStep
    BY <2>1, ResumeConstants DEF ResumeInv, ResumeTypeOK, LoopInv, Saving
  <2>4. /\ position' \in [GlobalSteps -> {NoStep} \cup (1..StepsPerEpoch)]
        /\ \A s \in GlobalSteps : s # step => position'[s] = position[s]
        /\ position'[step] = drawn
    BY <1>0, <2>1, <2>3 DEF ResumeTypeOK
  <2>5. LatestComplete' /\ Named' = Named /\ Parts' = Parts /\ PartSet' = PartSet
    BY <1>00, <2>1, <2>2, <2>4, LatestFrame
  <2>6. ResumeTypeOK'
    BY <1>0, <1>00, <2>1, <2>4, <2>5 DEF ResumeTypeOK, Saving
  <2>7. LoopInv'
    <3>1. Fits(step, drawn, Epochs)
      <4>1. \A e \in 0..epoch : e \in 0..Epochs
        BY <1>0, ResumeConstants DEF ResumeTypeOK
      <4> QED BY <4>1 DEF ResumeInv, LoopInv, Fits
    <3>2. \A s \in GlobalSteps : position'[s] # NoStep => Fits(s, position'[s], Epochs)
      BY <2>4, <3>1 DEF ResumeInv, LoopInv
    <3> QED BY <1>00, <2>3, <3>2, ResumeConstants DEF ResumeInv, LoopInv, Fits
  <2>8. TrackerInv'
    BY <1>00, <2>1, <2>2, <2>5 DEF ResumeInv, TrackerInv, Saving
  <2>9. SavedInv'
    BY <1>00, <2>1, <2>3, <2>4, <2>5 DEF ResumeInv, SavedInv
  <2>10. PathsInv'
    <3>1. pc' = "truncate" => \A p \in PartNames : Registered(p)'
      BY DEF Registered
    <3> QED BY <1>0, <1>00, <2>1, <2>5, <3>1, PathsFrame
  <2> QED BY <2>6, <2>7, <2>8, <2>9, <2>10 DEF ResumeInv
<1>2. CASE TruncateTracker
  <2>1. pc = "truncate" /\ pc' = "tracker" /\ tracker' = Torn /\ position' = position
    BY <1>2 DEF TruncateTracker
  <2>2. Torn \notin GlobalSteps /\ Parts' = Parts /\ PartSet' = PartSet
    BY <1>0, <1>00, ResumeConstants DEF Parts, PartSet
  <2>3. Named < step /\ Named \in Nat /\ Named' = 0
    BY <1>0, <2>1, <2>2, ResumeNumbers DEF ResumeInv, TrackerInv, Saving, Named
  <2>4. ResumeTypeOK'
    BY <1>0, <1>00, <2>1, <2>2 DEF ResumeTypeOK, Saving
  <2>5. LoopInv'
    BY <1>00, <2>1 DEF ResumeInv, LoopInv, Fits, Saving
  <2>6. TrackerInv'
    BY <1>0, <2>1, <1>00, <2>2, <2>3 DEF TrackerInv, LatestComplete
  <2>7. SavedInv'
    BY <1>00, <2>1, <2>2 DEF ResumeInv, SavedInv
  <2>8. PathsInv'
    BY <1>0, <1>00, <2>1, PathsFrame
  <2> QED BY <2>4, <2>5, <2>6, <2>7, <2>8 DEF ResumeInv
<1>3. CASE WriteTracker
  <2>1. pc = "tracker" /\ pc' \in {"done", "draw"} /\ tracker' = step /\ position' = position
    BY <1>3 DEF WriteTracker, AfterStep
  <2>2. Parts' = Parts /\ PartSet' = PartSet /\ Named' = step
    BY <1>0, <1>00, <2>1 DEF Parts, PartSet, Named
  <2>3. step \in 1..Total
    BY <1>0, <2>1, ResumeNumbers DEF ResumeInv, TrackerInv, Saving
  <2>4. ResumeTypeOK'
    BY <1>0, <1>00, <2>1, <2>2, <2>3 DEF ResumeTypeOK
  <2>5. LoopInv'
    BY <1>00, <2>1 DEF ResumeInv, LoopInv, Fits, Saving
  <2>6. LatestComplete'
    <3>1. step \in folders /\ PartSet \subseteq parts[step] /\ position[step] # NoStep
      BY <2>1 DEF ResumeInv, SavedInv
    <3>2. parts[step] = PartSet
      BY <1>0, <3>1 DEF ResumeTypeOK
    <3>3. Cardinality(parts[step]) = Len(Parts)
      BY <1>0, <3>2, PartsParts
    <3> QED BY <1>00, <2>1, <2>2, <3>1, <3>3 DEF LatestComplete
  <2>7. TrackerInv'
    BY <1>0, <1>00, <2>1, <2>2, <2>6, ResumeConstants DEF TrackerInv, Saving
  <2>8. SavedInv'
    BY <2>1 DEF SavedInv
  <2>9. PathsInv'
    BY <1>0, <1>00, <2>1, <2>2, PathsFrame
  <2> QED BY <2>4, <2>5, <2>7, <2>8, <2>9 DEF ResumeInv
<1> QED BY <1>1, <1>2, <1>3

\* A start finds the step that the tracker names, and there the parts and the
\* position of the dataloader.
LEMMA LatestFound ==
  ASSUME ResumeInv
  PROVE  /\ Latest = Named /\ Latest \in GlobalSteps
         /\ Latest # 0 => /\ Latest = tracker /\ tracker \in GlobalSteps /\ Latest >= 1
                          /\ position[Latest] \in 1..StepsPerEpoch
                          /\ Fits(Latest, position[Latest], Epochs)
                          /\ parts[Latest] # {}
<1>0. /\ ResumeTypeOK /\ Total \in Nat /\ GlobalSteps = 0..Total
      /\ (tracker \in GlobalSteps => Named = tracker /\ tracker \in 1..Total)
      /\ (tracker \notin GlobalSteps => Named = 0)
      /\ program \in {"ppo", "sync", "sft"}
  BY ResumeNumbers DEF ResumeInv
<1>1. CASE tracker \in GlobalSteps
  <2>1. tracker \in folders /\ Cardinality(parts[tracker]) = Len(Parts) /\ position[tracker] # NoStep
    BY <1>1 DEF ResumeInv, TrackerInv, LatestComplete
  <2>2. Latest = tracker /\ Latest = Named /\ Latest >= 1
    BY <1>0, <1>1, <2>1 DEF Latest
  <2>3. position[tracker] \in 1..StepsPerEpoch /\ Fits(tracker, position[tracker], Epochs)
    BY <1>0, <1>1, <2>1 DEF ResumeTypeOK, ResumeInv, LoopInv
  <2>4. parts[tracker] # {}
    <3>1. Len(Parts) \in {1, 2}
      BY <1>0, PartsParts
    <3>2. Len(Parts) # 0
      BY <3>1
    <3>3. Cardinality({}) = 0
      BY FS_EmptySet
    <3> QED BY <2>1, <3>2, <3>3, Zenon
  <2> QED BY <1>1, <2>2, <2>3, <2>4
<1>2. CASE tracker \notin GlobalSteps
  <2>1. tracker \notin folders
    BY <1>0, <1>2 DEF ResumeTypeOK
  <2> QED BY <1>0, <1>2, <2>1 DEF Latest
<1> QED BY <1>1, <1>2

\* A start resumes from the tracker's checkpoint, which is complete, or from
\* the beginning.
LEMMA StartPreserves ==
  ASSUME ResumeInv, Start
  PROVE  ResumeInv'
<1>0. /\ ResumeTypeOK /\ Total \in Nat /\ GlobalSteps = 0..Total
      /\ (tracker \in GlobalSteps => Named = tracker /\ tracker \in 1..Total)
      /\ (tracker \notin GlobalSteps => Named = 0)
  BY ResumeNumbers DEF ResumeInv
<1>1. /\ UNCHANGED <<program, folders, parts, position, lineage, tracker, part, paths>>
      /\ pc = "down" /\ pc' \in {"failed", "draw"}
  BY DEF Start, disk
<1>2. LatestComplete' /\ Named' = Named /\ Parts' = Parts /\ PartSet' = PartSet
  BY <1>1, LatestFrame
<1>3. CASE pc' = "failed" /\ UNCHANGED loop
  <2>1. UNCHANGED <<step, epoch, drawn, batches>>
    BY <1>3 DEF loop
  <2>2. ResumeTypeOK'
    BY <1>0, <1>1, <1>2, <1>3, <2>1 DEF ResumeTypeOK
  <2>3. LoopInv'
    BY <1>1, <1>3, <2>1 DEF ResumeInv, LoopInv, Fits, Saving
  <2>4. TrackerInv' /\ SavedInv'
    BY <1>1, <1>2, <1>3 DEF TrackerInv, SavedInv, Saving
  <2>5. PathsInv'
    <3>1. paths' = NoPaths
      BY <1>1 DEF ResumeInv, PathsInv
    <3>2. \A p \in PartNames : Len(paths'[p]) = 0 /\ 1..Len(paths'[p]) = {}
      BY <3>1 DEF NoPaths
    <3> QED BY <1>3, <3>2 DEF PathsInv, Increasing
  <2> QED BY <2>2, <2>3, <2>4, <2>5 DEF ResumeInv
<1>4. CASE pc' = "draw"
  <2>1. /\ tracker # Torn
        /\ step' = Latest /\ batches' = lineage[Latest]
        /\ epoch' = Latest \div StepsPerEpoch
        /\ drawn' = IF Latest = 0 THEN 0 ELSE Restored(Latest)
    BY <1>4 DEF Start
  <2>2. Latest = Named /\ Latest \in GlobalSteps
    BY LatestFound
  <2>3. epoch' \in 0..Epochs
    BY <2>1, <2>2, StepDivision
  <2>4. drawn' \in 0..StepsPerEpoch /\ Fits(step, drawn, epoch)'
    <3>1. CASE Latest = 0
      <4>1. step' = 0 /\ drawn' = 0 /\ 0 \in 0..epoch'
        BY <2>1, <2>3, <3>1, ResumeConstants
      <4>2. 0 = 0 * StepsPerEpoch + 0 /\ 0 \in 0..StepsPerEpoch
        BY ResumeConstants
      <4> QED BY <4>1, <4>2 DEF Fits
    <3>2. CASE Latest # 0
      <4>1. /\ Latest >= 1 /\ position[Latest] \in 1..StepsPerEpoch
            /\ Fits(Latest, position[Latest], Epochs)
        BY <3>2, LatestFound
      <4>4. Restored(Latest) \in 0..StepsPerEpoch
            /\ Fits(Latest, Restored(Latest), Latest \div StepsPerEpoch)
        BY <2>2, <4>1, RestoredFits
      <4>5. drawn' = Restored(Latest)
        BY <2>1, <3>2
      <4> QED BY <2>1, <4>4, <4>5 DEF Fits
    <3> QED BY <3>1, <3>2
  <2>5. batches' \in Seq(Nat)
    BY <1>0, <2>1, <2>2 DEF ResumeTypeOK
  <2>6. ResumeTypeOK'
    BY <1>0, <1>1, <1>2, <1>4, <2>1, <2>2, <2>3, <2>4, <2>5 DEF ResumeTypeOK
  <2>7. LoopInv'
    BY <1>1, <1>4, <2>4 DEF ResumeInv, LoopInv, Fits, Saving
  <2>8. TrackerInv' /\ SavedInv'
    <3>1. Named' <= step'
      BY <1>0, <1>2, <2>1, <2>2
    <3> QED BY <1>1, <1>2, <1>4, <2>1, <3>1 DEF TrackerInv, SavedInv, Saving
  <2>9. PathsInv'
    <3>1. paths' = NoPaths
      BY <1>1 DEF ResumeInv, PathsInv
    <3>2. \A p \in PartNames : Len(paths'[p]) = 0 /\ 1..Len(paths'[p]) = {}
      BY <3>1 DEF NoPaths
    <3> QED BY <1>4, <3>2 DEF PathsInv, Increasing
  <2> QED BY <2>6, <2>7, <2>8, <2>9 DEF ResumeInv
<1> QED BY <1>1, <1>3, <1>4 DEF Start, loop

\* Drawing a batch: a step more of the same epoch, or the next epoch.
LEMMA DrawPreserves ==
  ASSUME ResumeInv, DrawBatch
  PROVE  ResumeInv'
<1>0. /\ ResumeTypeOK /\ Total \in Nat /\ GlobalSteps = 0..Total /\ step \in Nat /\ Named \in Nat
      /\ epoch \in Nat /\ drawn \in Nat /\ epoch <= Epochs /\ drawn <= StepsPerEpoch
      /\ tracker # Torn /\ Named <= step
  <2>1. ResumeTypeOK /\ pc = "draw"
    BY DEF ResumeInv, DrawBatch
  <2>2. Total \in Nat /\ GlobalSteps = 0..Total /\ step \in Nat /\ Named \in 0..Total
    BY <2>1, ResumeNumbers
  <2>3. tracker # Torn /\ Named <= step
    BY <2>1 DEF ResumeInv, TrackerInv
  <2>4. epoch \in Nat /\ drawn \in Nat /\ epoch <= Epochs /\ drawn <= StepsPerEpoch
    BY <2>1, ResumeConstants DEF ResumeTypeOK
  <2> QED BY <2>1, <2>2, <2>3, <2>4
<1>1. /\ UNCHANGED <<program, folders, parts, position, lineage, tracker, batches, part, paths>>
      /\ pc = "draw"
      /\ \/ /\ epoch < Epochs /\ drawn < StepsPerEpoch
            /\ drawn' = drawn + 1 /\ step' = step + 1 /\ epoch' = epoch /\ pc' = "train"
         \/ /\ epoch < Epochs /\ drawn = StepsPerEpoch
            /\ epoch' = epoch + 1 /\ drawn' = 0 /\ step' = step /\ pc' = "draw"
         \/ pc' = "done" /\ UNCHANGED <<step, epoch, drawn>>
  BY DEF DrawBatch, disk, loop
<1>2. LatestComplete' /\ Named' = Named /\ Parts' = Parts /\ PartSet' = PartSet
  BY <1>1, LatestFrame
<1>3. PICK e \in 0..epoch : step = e * StepsPerEpoch + drawn
  BY DEF ResumeInv, LoopInv, Fits
<1>4. e \in Nat /\ e <= epoch /\ e * StepsPerEpoch \in Nat /\ (e + 1) * StepsPerEpoch = e * StepsPerEpoch + StepsPerEpoch
  BY <1>0, <1>3, ProductParts, ResumeConstants
<1>5. /\ step' \in GlobalSteps /\ epoch' \in 0..Epochs /\ drawn' \in 0..StepsPerEpoch
      /\ Fits(step, drawn, epoch)' /\ step <= step'
      /\ pc' = "train" => drawn' >= 1 /\ step < step'
  <2>1. CASE /\ epoch < Epochs /\ drawn < StepsPerEpoch
             /\ drawn' = drawn + 1 /\ step' = step + 1 /\ epoch' = epoch /\ pc' = "train"
    <3>1. e < Epochs /\ drawn + 1 \in 0..StepsPerEpoch /\ epoch' \in 0..Epochs
      BY <1>0, <1>4, <2>1, ResumeConstants
    <3>2. e * StepsPerEpoch + (drawn + 1) \in GlobalSteps
      BY <1>4, <3>1, StepInRange
    <3> DEFINE m == e * StepsPerEpoch
    <3>3. step = m + drawn /\ m \in Nat /\ m + (drawn + 1) \in GlobalSteps
      BY <1>3, <1>4, <3>2
    <3> HIDE DEF m
    <3>4. step' = m + drawn' /\ step' \in GlobalSteps /\ drawn' >= 1 /\ step < step'
      BY <1>0, <2>1, <3>3
    <3>5. Fits(step, drawn, epoch)'
      BY <1>3, <2>1, <3>4 DEF Fits, m
    <3> QED BY <1>0, <2>1, <3>1, <3>4, <3>5
  <2>2. CASE /\ epoch < Epochs /\ drawn = StepsPerEpoch
             /\ epoch' = epoch + 1 /\ drawn' = 0 /\ step' = step /\ pc' = "draw"
    <3>1. e + 1 \in 0..(epoch + 1) /\ epoch' \in 0..Epochs /\ 0 \in 0..StepsPerEpoch
      BY <1>0, <1>4, <2>2, ResumeConstants
    <3>2. step' = (e + 1) * StepsPerEpoch + 0
      BY <1>3, <1>4, <2>2, ResumeConstants
    <3>3. Fits(step, drawn, epoch)'
      BY <2>2, <3>1, <3>2 DEF Fits
    <3> QED BY <1>0, <2>2, <3>1, <3>3 DEF ResumeTypeOK
  <2>3. CASE pc' = "done" /\ UNCHANGED <<step, epoch, drawn>>
    BY <1>0, <2>3 DEF ResumeTypeOK, ResumeInv, LoopInv, Fits
  <2> QED BY <1>1, <2>1, <2>2, <2>3
<1>6. pc' \in {"draw", "train", "done"}
  BY <1>1
<1>7. ResumeTypeOK'
  BY <1>0, <1>1, <1>2, <1>5, <1>6 DEF ResumeTypeOK
<1>8. LoopInv'
  <2>1. \A s \in GlobalSteps : position[s] # NoStep => Fits(s, position[s], Epochs)
    BY DEF ResumeInv, LoopInv
  <2> QED BY <1>1, <1>5, <1>6, <2>1 DEF LoopInv, Saving
<1>9. TrackerInv'
  <2>1. Named' <= step' /\ (pc' = "train" => Named' < step')
    <3>1. step' \in Nat
      BY <1>0, <1>5
    <3> QED BY <1>0, <1>2, <1>5, <3>1
  <2> QED BY <1>0, <1>1, <1>2, <1>6, <2>1 DEF TrackerInv, Saving
<1>10. SavedInv'
  BY <1>6 DEF SavedInv
<1>11. PathsInv'
  <2>1. \A p \in PartNames : ~Registered(p)
    BY <1>1 DEF Registered
  <2>2. step' \in Nat
    BY <1>0, <1>5
  <2> QED BY <1>1, <1>2, <1>5, <1>6, <2>1, <2>2, PathsFrame
<1> QED BY <1>7, <1>8, <1>9, <1>10, <1>11 DEF ResumeInv

\* Training a batch may begin a save.
LEMMA TrainPreserves ==
  ASSUME ResumeInv, TrainBatch
  PROVE  ResumeInv'
<1>1. /\ UNCHANGED <<program, folders, parts, position, lineage, tracker, step, epoch, drawn, paths>>
      /\ pc = "train" /\ pc' \in {"ensure", "done", "draw"} /\ part' = 1
      /\ batches' = Append(batches, drawn)
  BY DEF TrainBatch, AfterStep, disk
<1>2. LatestComplete' /\ Named' = Named /\ Parts' = Parts /\ PartSet' = PartSet
  BY <1>1, LatestFrame
<1>3. /\ ResumeTypeOK /\ step \in Nat /\ Named \in Nat /\ Named < step /\ tracker # Torn
      /\ Len(Parts) \in {1, 2}
  <2>1. ResumeTypeOK
    BY DEF ResumeInv
  <2>2. step \in Nat /\ Named \in Nat /\ program \in {"ppo", "sync", "sft"}
    BY <2>1, ResumeNumbers
  <2>3. Named < step /\ tracker # Torn
    BY <1>1 DEF ResumeInv, TrackerInv
  <2> QED BY <2>1, <2>2, <2>3, PartsParts
<1>4. batches' \in Seq(Nat)
  BY <1>1, <1>3, ResumeConstants DEF ResumeTypeOK
<1>5. ResumeTypeOK'
  BY <1>1, <1>2, <1>3, <1>4 DEF ResumeTypeOK, Saving
<1>6. LoopInv'
  BY <1>1 DEF ResumeInv, LoopInv, Fits, Saving
<1>7. TrackerInv'
  BY <1>1, <1>2, <1>3 DEF TrackerInv, Saving
<1>8. SavedInv'
  <2>1. 1..(part' - 1) = {}
    BY <1>1
  <2> QED BY <1>1, <2>1 DEF SavedInv
<1>9. PathsInv'
  <2>1. \A p \in PartNames : ~Registered(p)
    BY <1>1 DEF Registered
  <2> QED BY <1>1, <1>2, <1>3, <2>1, PathsFrame
<1> QED BY <1>5, <1>6, <1>7, <1>8, <1>9 DEF ResumeInv

\* A crash loses the memory and leaves the disk.
LEMMA CrashPreserves ==
  ASSUME ResumeInv, Crash
  PROVE  ResumeInv'
<1>1. /\ UNCHANGED <<program, folders, parts, position, lineage, tracker>>
      /\ pc' = "down" /\ step' = 0 /\ epoch' = 0 /\ drawn' = 0 /\ batches' = <<>>
      /\ part' = 1 /\ paths' = NoPaths
  BY DEF Crash, disk
<1>2. LatestComplete' /\ Named' = Named /\ Parts' = Parts /\ PartSet' = PartSet
  BY <1>1, LatestFrame
<1>3. ResumeTypeOK /\ Total \in Nat /\ GlobalSteps = 0..Total /\ Len(Parts) \in {1, 2}
  <2>1. ResumeTypeOK
    BY DEF ResumeInv
  <2> QED BY <2>1, ResumeNumbers, PartsParts
<1>4. paths' \in [PartNames -> Seq(1..Total)]
      /\ \A p \in PartNames : Len(paths'[p]) = 0 /\ 1..Len(paths'[p]) = {}
  BY <1>1 DEF NoPaths
<1>5. ResumeTypeOK'
  BY <1>1, <1>2, <1>3, <1>4, ResumeConstants DEF ResumeTypeOK
<1>6. LoopInv'
  <2>1. 0 = 0 * StepsPerEpoch + 0 /\ 0 \in 0..0
    BY ResumeConstants
  <2>2. Fits(step, drawn, epoch)'
    BY <1>1, <2>1 DEF Fits
  <2>3. \A s \in GlobalSteps : position[s] # NoStep => Fits(s, position[s], Epochs)
    BY DEF ResumeInv, LoopInv
  <2> QED BY <1>1, <2>2, <2>3 DEF LoopInv, Saving
<1>7. TrackerInv' /\ SavedInv'
  BY <1>1, <1>2 DEF TrackerInv, SavedInv, Saving
<1>8. PathsInv'
  BY <1>1, <1>4 DEF PathsInv, Increasing, NoPaths
<1> QED BY <1>5, <1>6, <1>7, <1>8 DEF ResumeInv

\* The invariant holds at the first start.
LEMMA ResumeStarts ==
  ASSUME ResumeInit
  PROVE  ResumeInv
<1>1. Total \in Nat /\ GlobalSteps = 0..Total /\ program \in {"ppo", "sync", "sft"}
  BY TotalParts, ResumeConstants DEF GlobalSteps, ResumeInit
<1>2. Len(Parts) \in {1, 2} /\ NoStep \notin GlobalSteps
  BY <1>1, PartsParts, ResumeConstants
<1>3. paths \in [PartNames -> Seq(1..Total)]
      /\ \A p \in PartNames : Len(paths[p]) = 0 /\ 1..Len(paths[p]) = {}
  BY DEF ResumeInit, NoPaths
<1>4. ResumeTypeOK
  <2>1. /\ parts \in [GlobalSteps -> SUBSET PartSet]
        /\ position \in [GlobalSteps -> {NoStep} \cup (1..StepsPerEpoch)]
    BY DEF ResumeInit
  <2>2. lineage \in [GlobalSteps -> Seq(Nat)] /\ batches \in Seq(Nat)
    BY DEF ResumeInit
  <2>3. /\ step \in GlobalSteps /\ epoch \in 0..Epochs /\ drawn \in 0..StepsPerEpoch
        /\ part \in 1..Len(Parts)
    BY <1>1, <1>2, ResumeConstants, SMTT(30) DEF ResumeInit
  <2> QED BY <1>3, <2>1, <2>2, <2>3 DEF ResumeInit, ResumeTypeOK
<1>5. LoopInv
  <2>1. 0 = 0 * StepsPerEpoch + 0 /\ 0 \in 0..0
    BY ResumeConstants
  <2> QED BY <2>1 DEF ResumeInit, LoopInv, Fits, Saving
<1>6. TrackerInv /\ SavedInv
  BY <1>2, ResumeConstants DEF ResumeInit, TrackerInv, LatestComplete, SavedInv, Saving
<1>7. PathsInv
  BY <1>3 DEF ResumeInit, PathsInv, Increasing
<1> QED BY <1>4, <1>5, <1>6, <1>7 DEF ResumeInv

\* The invariant holds, wherever the crashes hit, when not exactly one
\* checkpoint is to be kept.
THEOREM ResumeInvHolds ==
  ASSUME MaxToKeep # 1
  PROVE  ResumeSpec => []ResumeInv
<1>1. ResumeInit => ResumeInv
  BY ResumeStarts
<1>2. ResumeInv /\ [ResumeNext]_resumeVars => ResumeInv'
  <2> SUFFICES ASSUME ResumeInv, [ResumeNext]_resumeVars PROVE ResumeInv'
    OBVIOUS
  <2>1. CASE Run
    BY <2>1, StartPreserves, DrawPreserves, TrainPreserves, EnsurePreserves, WritePreserves,
       RegisterPreserves, TrackPreserves DEF Run
  <2>2. CASE Crash
    BY <2>2, CrashPreserves
  <2>3. CASE UNCHANGED resumeVars
    BY <2>3 DEF resumeVars, disk, loop, ResumeInv, ResumeTypeOK, LoopInv, Fits, TrackerInv,
                LatestComplete, Named, SavedInv, PathsInv, Increasing, Registered, Parts, PartSet
  <2> QED BY <2>1, <2>2, <2>3 DEF ResumeNext, Ended
<1> QED BY <1>1, <1>2, PTL DEF ResumeSpec

\* The checkpoint that the tracker names is complete at any moment, whatever
\* save or crash is under way.  (With one checkpoint to keep it is not: the one
\* before is removed when the parts of the next are registered, and the tracker
\* is rewritten later.)
THEOREM LatestCompleteHolds ==
  ASSUME MaxToKeep # 1
  PROVE  ResumeSpec => []LatestComplete
<1>1. ResumeInv => LatestComplete
  BY DEF ResumeInv, TrackerInv
<1> QED BY <1>1, ResumeInvHolds, PTL

-----------------------------------------------------------------------------
(* The batches *)

\* A step that is saved can be restored.
LEMMA SavedRestorable ==
  ASSUME NoBoundarySave, ResumeTypeOK, step >= 1, NEW esi \in BOOLEAN, SaveStep(esi)
  PROVE  Restorable(step)
<1>1. Total \in Nat /\ step \in Nat /\ step <= Total /\ program \in Programs
  BY ResumeNumbers DEF ResumeTypeOK
<1>2. CASE step = Total \/ program = "ppo"
  BY <1>2 DEF Restorable
<1>3. CASE step # Total /\ program # "ppo"
  <2>1. step \in 1..(Total - 1) /\ ~(step >= Total)
    BY <1>1, <1>3
  <2>2. step % CkptFreq = 0
    BY <1>3, <2>1 DEF SaveStep, IsLastStep
  <2>3. step % StepsPerEpoch # 0
    BY <1>1, <1>3, <2>1, <2>2 DEF NoBoundarySave
  <2> QED BY <2>3 DEF Restorable
<1> QED BY <1>2, <1>3

\* The next batch of an epoch keeps the order.
LEMMA InOrderGrows ==
  ASSUME NEW b \in Seq(Nat), InOrder(b), NEW e \in Nat, NEW n \in 1..StepsPerEpoch,
         Len(b) + 1 = e * StepsPerEpoch + n
  PROVE  InOrder(Append(b, n)) /\ Len(Append(b, n)) = Len(b) + 1
<1>1. n \in Nat /\ n >= 1 /\ n <= StepsPerEpoch /\ StepsPerEpoch \in Nat /\ StepsPerEpoch >= 1
      /\ Len(b) \in Nat /\ e * StepsPerEpoch \in Nat
  BY ResumeConstants, LenProperties, ProductParts
<1>2. /\ Len(Append(b, n)) = Len(b) + 1
      /\ \A i \in 1..Len(b) : Append(b, n)[i] = b[i]
      /\ Append(b, n)[Len(b) + 1] = n
  BY <1>1, AppendProperties
<1>3. Len(b) = e * StepsPerEpoch + (n - 1) /\ n - 1 \in Nat /\ n - 1 < StepsPerEpoch
  <2> DEFINE m == e * StepsPerEpoch
  <2>1. Len(b) + 1 = m + n /\ m \in Nat
    BY <1>1
  <2> HIDE DEF m
  <2>2. Len(b) = m + (n - 1)
    BY <1>1, <2>1
  <2> QED BY <1>1, <2>2 DEF m
<1>4. Len(b) % StepsPerEpoch = n - 1
  BY <1>1, <1>3, DivisionUnique
<1>5. \A i \in 1..(Len(b) + 1) : i \in 1..Len(b) \/ (i = Len(b) + 1 /\ i - 1 = Len(b))
  BY <1>1
<1>6. n = (n - 1) + 1
  BY <1>1
<1>7. ASSUME NEW i \in 1..(Len(b) + 1) PROVE Append(b, n)[i] = ((i - 1) % StepsPerEpoch) + 1
  <2>1. CASE i \in 1..Len(b)
    BY <1>2, <2>1 DEF InOrder
  <2>2. CASE i = Len(b) + 1 /\ i - 1 = Len(b)
    BY <1>2, <1>4, <1>6, <2>2, Zenon
  <2> QED BY <1>5, <2>1, <2>2
<1> QED BY <1>2, <1>7 DEF InOrder

\* A restart continues where the checkpoint was saved.
LEMMA StartBatches ==
  ASSUME ResumeInv, BatchInv, Start
  PROVE  BatchInv'
<1>1. /\ UNCHANGED <<program, folders, parts, position, lineage, tracker>>
      /\ pc = "down" /\ pc' \in {"failed", "draw"}
  BY DEF Start, disk
<1>2. CASE pc' = "failed"
  BY <1>1, <1>2 DEF BatchInv, Restorable, InOrder, Saving
<1>3. CASE pc' = "draw"
  <2>1. /\ step' = Latest /\ batches' = lineage[Latest]
        /\ epoch' = Latest \div StepsPerEpoch
        /\ drawn' = IF Latest = 0 THEN 0 ELSE Restored(Latest)
    BY <1>3 DEF Start
  <2>2. /\ lineage[0] = <<>>
        /\ \A s \in GlobalSteps : parts[s] # {} => Len(lineage[s]) = s /\ InOrder(lineage[s])
        /\ tracker \in GlobalSteps => Restorable(tracker)
    BY DEF BatchInv
  <2>3. /\ Len(batches') = step' /\ InOrder(batches')
        /\ \/ epoch' < Epochs /\ step' = epoch' * StepsPerEpoch + drawn'
           \/ epoch' = Epochs /\ step' = Total
    <3>1. CASE Latest = 0
      <4>1. batches' = <<>> /\ step' = 0 /\ drawn' = 0
        BY <2>1, <2>2, <3>1
      <4>2. Len(<<>>) = 0 /\ 1..0 = {}
        OBVIOUS
      <4>3. Len(batches') = step' /\ InOrder(batches')
        BY <4>1, <4>2 DEF InOrder
      <4>4. 0 = 0 * StepsPerEpoch + 0
        BY ResumeConstants
      <4>5. 0 \div StepsPerEpoch = 0
        BY <4>4, DivisionUnique, ResumeConstants
      <4>6. epoch' = 0 /\ 0 < Epochs
        BY <2>1, <3>1, <4>5, ResumeConstants
      <4> QED BY <4>1, <4>3, <4>4, <4>6
    <3>2. CASE Latest # 0
      <4>1. /\ Latest = tracker /\ tracker \in GlobalSteps /\ Latest >= 1 /\ parts[Latest] # {}
            /\ position[Latest] \in 1..StepsPerEpoch
            /\ Fits(Latest, position[Latest], Epochs)
        BY <3>2, LatestFound
      <4>2. Restorable(Latest) /\ Latest \in GlobalSteps
        BY <2>2, <4>1
      <4>3. \/ /\ Latest \div StepsPerEpoch < Epochs
               /\ Latest = (Latest \div StepsPerEpoch) * StepsPerEpoch + Restored(Latest)
            \/ Latest \div StepsPerEpoch = Epochs /\ Latest = Total
        BY <4>1, <4>2, RestoredFits
      <4>4. drawn' = Restored(Latest)
        BY <2>1, <3>2
      <4>5. Len(batches') = step' /\ InOrder(batches')
        BY <2>1, <2>2, <4>1, <4>2
      <4> QED BY <2>1, <4>3, <4>4, <4>5, Zenon
    <3> QED BY <3>1, <3>2
  <2>4. /\ lineage'[0] = <<>>
        /\ \A s \in GlobalSteps : parts'[s] # {} => Len(lineage'[s]) = s /\ InOrder(lineage'[s])
        /\ tracker' \in GlobalSteps => Restorable(tracker)'
    BY <1>1, <2>2 DEF Restorable
  <2> QED BY <1>3, <2>3, <2>4 DEF BatchInv, InOrder, Saving
<1> QED BY <1>1, <1>2, <1>3

\* The next batch is drawn in its epoch, and the last epoch ends at the last
\* step.
LEMMA DrawBatches ==
  ASSUME ResumeInv, BatchInv, DrawBatch
  PROVE  BatchInv'
<1>0. /\ step \in Nat /\ epoch \in Nat /\ epoch <= Epochs /\ drawn \in Nat
      /\ StepsPerEpoch \in Nat /\ Epochs \in Nat
  BY ResumeNumbers, ResumeConstants DEF ResumeInv, ResumeTypeOK
<1>1. /\ UNCHANGED <<program, parts, lineage, tracker, batches>>
      /\ pc = "draw"
      /\ \/ /\ epoch < Epochs /\ drawn < StepsPerEpoch
            /\ drawn' = drawn + 1 /\ step' = step + 1 /\ epoch' = epoch /\ pc' = "train"
         \/ /\ epoch < Epochs /\ drawn = StepsPerEpoch
            /\ epoch' = epoch + 1 /\ drawn' = 0 /\ step' = step /\ pc' = "draw"
         \/ epoch >= Epochs /\ pc' = "done" /\ UNCHANGED <<step, epoch, drawn>>
  BY DEF DrawBatch, disk, loop
<1>2. /\ Len(batches) = step /\ InOrder(batches)
      /\ epoch < Epochs => step = epoch * StepsPerEpoch + drawn
      /\ epoch >= Epochs => step = Total
  BY <1>0, <1>1 DEF BatchInv
<1>3. /\ lineage'[0] = <<>>
      /\ \A s \in GlobalSteps : parts'[s] # {} => Len(lineage'[s]) = s /\ InOrder(lineage'[s])
      /\ tracker' \in GlobalSteps => Restorable(tracker)'
  BY <1>1 DEF BatchInv, Restorable
<1>4. InOrder(batches')
  BY <1>1, <1>2
<1>5. CASE /\ epoch < Epochs /\ drawn < StepsPerEpoch
           /\ drawn' = drawn + 1 /\ step' = step + 1 /\ epoch' = epoch /\ pc' = "train"
  <2>1. Len(batches') = step' - 1 /\ epoch' < Epochs
    BY <1>0, <1>1, <1>2, <1>5
  <2> DEFINE m == epoch * StepsPerEpoch
  <2>2. step = m + drawn /\ m \in Nat
    BY <1>0, <1>2, <1>5, ProductParts
  <2> HIDE DEF m
  <2>3. step' = m + drawn'
    BY <1>0, <1>5, <2>2
  <2>4. step' = epoch' * StepsPerEpoch + drawn'
    BY <1>5, <2>3 DEF m
  <2> QED BY <1>3, <1>4, <1>5, <2>1, <2>4 DEF BatchInv, InOrder, Saving
<1>6. CASE /\ epoch < Epochs /\ drawn = StepsPerEpoch
           /\ epoch' = epoch + 1 /\ drawn' = 0 /\ step' = step /\ pc' = "draw"
  <2>1. (epoch + 1) * StepsPerEpoch = epoch * StepsPerEpoch + StepsPerEpoch
        /\ (epoch + 1) * StepsPerEpoch \in Nat
    BY <1>0, ProductParts
  <2>2. step' = epoch' * StepsPerEpoch
    BY <1>2, <1>6, <2>1
  <2>3. step' = epoch' * StepsPerEpoch + drawn'
    BY <1>6, <2>1, <2>2
  <2>4. epoch' < Epochs \/ epoch' = Epochs
    BY <1>0, <1>6
  <2>5. epoch' = Epochs => step' = Total
    BY <2>2, TotalParts
  <2>6. Len(batches') = step'
    BY <1>1, <1>2, <1>6
  <2> QED BY <1>3, <1>4, <1>6, <2>3, <2>4, <2>5, <2>6 DEF BatchInv, InOrder, Saving
<1>7. CASE epoch >= Epochs /\ pc' = "done" /\ UNCHANGED <<step, epoch, drawn>>
  <2>1. Len(batches') = Total
    BY <1>1, <1>2, <1>7
  <2> QED BY <1>3, <1>4, <1>7, <2>1 DEF BatchInv, InOrder, Saving
<1> QED BY <1>1, <1>5, <1>6, <1>7

\* Training adds the batch that was drawn, and saves only steps that can be
\* restored.
LEMMA TrainBatches ==
  ASSUME NoBoundarySave, ResumeInv, BatchInv, TrainBatch
  PROVE  BatchInv'
<1>0. /\ ResumeTypeOK /\ step \in Nat /\ step <= Total /\ Total \in Nat /\ step >= 1
      /\ epoch \in Nat /\ drawn \in 1..StepsPerEpoch /\ batches \in Seq(Nat)
  <2>1. ResumeTypeOK /\ pc = "train"
    BY DEF ResumeInv, TrainBatch
  <2>2. step \in Nat /\ step <= Total /\ Total \in Nat /\ Named \in 0..Total
    BY <2>1, ResumeNumbers
  <2>3. Named < step /\ drawn >= 1
    BY <2>1 DEF ResumeInv, TrackerInv, LoopInv
  <2> QED BY <2>1, <2>2, <2>3, ResumeConstants DEF ResumeTypeOK
<1>1. /\ UNCHANGED <<program, parts, lineage, tracker, step, epoch, drawn>>
      /\ pc = "train" /\ batches' = Append(batches, drawn)
  BY DEF TrainBatch, disk
<1>2. PICK esi \in BOOLEAN : pc' = IF SaveStep(esi) THEN "ensure" ELSE AfterStep
  BY DEF TrainBatch
<1>3. /\ Len(batches) = step - 1 /\ InOrder(batches)
      /\ epoch < Epochs /\ step = epoch * StepsPerEpoch + drawn
  BY <1>1 DEF BatchInv
<1>4. Len(batches') = step' /\ InOrder(batches')
  <2>1. Len(batches) + 1 = step
    BY <1>0, <1>3
  <2>2. InOrder(Append(batches, drawn)) /\ Len(Append(batches, drawn)) = Len(batches) + 1
    BY <1>0, <1>3, <2>1, InOrderGrows
  <2> QED BY <1>1, <2>1, <2>2
<1>5. /\ lineage'[0] = <<>>
      /\ \A s \in GlobalSteps : parts'[s] # {} => Len(lineage'[s]) = s /\ InOrder(lineage'[s])
      /\ tracker' \in GlobalSteps => Restorable(tracker)'
  BY <1>1 DEF BatchInv, Restorable
<1>6. /\ epoch' < Epochs /\ step' = epoch' * StepsPerEpoch + drawn'
  BY <1>1, <1>3
<1>7. CASE SaveStep(esi)
  <2>1. pc' = "ensure"
    BY <1>2, <1>7
  <2>2. Restorable(step)'
    <3>1. Restorable(step)
      BY <1>0, <1>7, SavedRestorable
    <3> QED BY <1>1, <3>1 DEF Restorable
  <2> QED BY <1>4, <1>5, <1>6, <2>1, <2>2 DEF BatchInv, InOrder, Saving
<1>8. CASE ~SaveStep(esi)
  <2>1. pc' = "draw"
    BY <1>2, <1>8 DEF SaveStep, AfterStep
  <2> QED BY <1>4, <1>5, <1>6, <2>1 DEF BatchInv, InOrder, Saving
<1> QED BY <1>7, <1>8

\* The steps of a save keep the batches; a part is written with the model that
\* was trained on them.
LEMMA SaveBatches ==
  ASSUME ResumeInv, BatchInv,
         EnsureCapacity \/ WritePart \/ PartWritten \/ RegisterPart \/ SaveDataloader
         \/ TruncateTracker \/ WriteTracker
  PROVE  BatchInv'
<1>0. /\ ResumeTypeOK /\ step \in Nat /\ step \in GlobalSteps /\ step <= Total /\ Total \in Nat
      /\ GlobalSteps = 0..Total /\ Torn \notin GlobalSteps
  <2>1. ResumeTypeOK
    BY DEF ResumeInv
  <2>2. step \in Nat /\ step <= Total /\ Total \in Nat /\ GlobalSteps = 0..Total
    BY <2>1, ResumeNumbers
  <2>3. step \in GlobalSteps /\ Torn \notin GlobalSteps
    BY <2>2, ResumeConstants
  <2> QED BY <2>1, <2>2, <2>3
<1>1. UNCHANGED <<program, step, epoch, drawn, batches>> /\ pc \in Saving
  BY DEF EnsureCapacity, WritePart, PartWritten, RegisterPart, SaveDataloader, TruncateTracker,
         WriteTracker, loop, Saving
<1>2. /\ Len(batches') = step' /\ InOrder(batches') /\ Restorable(step)'
      /\ epoch' < Epochs /\ step' = epoch' * StepsPerEpoch + drawn'
  BY <1>1 DEF BatchInv, Restorable
<1>3. \/ pc' \in Saving
      \/ pc' = "draw"
      \/ pc' = "done" /\ step' = Total
  BY <1>0, <1>1 DEF EnsureCapacity, WritePart, PartWritten, RegisterPart, SaveDataloader,
         TruncateTracker, WriteTracker, AfterStep, IsLastStep, Saving
<1>4. tracker' \in GlobalSteps => Restorable(tracker)'
  <2>1. tracker' \in {tracker, Torn, step}
    BY DEF EnsureCapacity, WritePart, PartWritten, RegisterPart, SaveDataloader, TruncateTracker,
           WriteTracker
  <2>2. CASE tracker' = tracker
    BY <1>1, <2>2 DEF BatchInv, Restorable
  <2>3. CASE tracker' = step
    BY <1>1, <1>2, <2>3 DEF Restorable
  <2> QED BY <1>0, <2>1, <2>2, <2>3
<1>5. /\ lineage'[0] = <<>>
      /\ \A s \in GlobalSteps : parts'[s] # {} => Len(lineage'[s]) = s /\ InOrder(lineage'[s])
  <2>0. /\ parts \in [GlobalSteps -> SUBSET PartSet] /\ lineage \in [GlobalSteps -> Seq(Nat)]
    BY <1>0 DEF ResumeTypeOK
  <2>1. CASE PartWritten
    <3>1. /\ parts' = [parts EXCEPT ![step] = @ \cup {Parts[part]}]
          /\ lineage' = [lineage EXCEPT ![step] = batches]
      BY <2>1 DEF PartWritten
    <3>2. step # 0
      BY <1>0, <1>1, ResumeNumbers DEF ResumeInv, TrackerInv
    <3>3. /\ lineage'[step] = batches
          /\ \A s \in GlobalSteps : s # step => parts'[s] = parts[s] /\ lineage'[s] = lineage[s]
      BY <1>0, <2>0, <3>1
    <3>4. Len(batches) = step /\ InOrder(batches) /\ 0 \in GlobalSteps
      BY <1>0, <1>1, <1>2
    <3> QED BY <3>2, <3>3, <3>4 DEF BatchInv
  <2>2. CASE ~PartWritten
    <3>1. lineage' = lineage
      BY <2>2 DEF EnsureCapacity, WritePart, RegisterPart, SaveDataloader, TruncateTracker,
             WriteTracker
    <3>2. \A s \in GlobalSteps : parts'[s] \subseteq parts[s]
      <4>1. ASSUME NEW p, NEW gone, RemovePrevious(p, gone)
            PROVE  \A s \in GlobalSteps : parts'[s] \subseteq parts[s]
        BY <2>0, <4>1 DEF RemovePrevious
      <4>2. CASE EnsureCapacity
        <5> DEFINE p == Parts[part]
        <5>1. RemovePrevious(p, Removable(paths[p], KeepBeforeSave(paths[p])))
          BY <4>2 DEF EnsureCapacity
        <5> QED BY <4>1, <5>1
      <4>5. CASE RegisterPart
        <5> DEFINE p == Parts[part]
                   list == Append(paths[p], step)
        <5>1. RemovePrevious(p, Removable(list, IF MaxToKeep > 0 THEN MaxToKeep ELSE Len(list)))
          BY <4>5 DEF RegisterPart
        <5> QED BY <4>1, <5>1
      <4>3. CASE WritePart
        BY <1>0, <2>0, <4>3 DEF WritePart
      <4>4. CASE SaveDataloader \/ TruncateTracker \/ WriteTracker
        <5>1. parts' = parts
          BY <4>4 DEF SaveDataloader, TruncateTracker, WriteTracker
        <5> QED BY <5>1
      <4> QED BY <2>2, <4>2, <4>3, <4>4, <4>5
    <3> QED BY <3>1, <3>2 DEF BatchInv
  <2> QED BY <2>1, <2>2
<1> QED BY <1>2, <1>3, <1>4, <1>5 DEF BatchInv, InOrder, Saving

\* Every step keeps the batches in order.
LEMMA BatchStep ==
  ASSUME NoBoundarySave, ResumeInv, BatchInv, [ResumeNext]_resumeVars
  PROVE  BatchInv'
<1>1. CASE Run
  BY <1>1, StartBatches, DrawBatches, TrainBatches, SaveBatches DEF Run
<1>2. CASE Crash
  <2>1. UNCHANGED <<program, parts, lineage, tracker>> /\ pc' = "down"
    BY <1>2 DEF Crash, disk
  <2> QED BY <2>1 DEF BatchInv, Restorable, InOrder, Saving
<1>3. CASE UNCHANGED resumeVars
  BY <1>3 DEF resumeVars, disk, loop, BatchInv, Restorable, InOrder
<1> QED BY <1>1, <1>2, <1>3 DEF ResumeNext, Ended

\* However often and wherever it crashes, the model is trained on every batch of
\* every epoch once and in order, when no checkpoint is saved at the end of an
\* epoch before the last (or the trainer is RayPPOTrainer, which looks for
\* that), and not exactly one checkpoint is to be kept.
THEOREM EveryBatchOnceHolds ==
  ASSUME MaxToKeep # 1, NoBoundarySave
  PROVE  ResumeSpec => []EveryBatchOnce
<1>1. ResumeInit => BatchInv
  <2> SUFFICES ASSUME ResumeInit PROVE BatchInv
    OBVIOUS
  <2>1. 0 \in GlobalSteps /\ NoStep \notin GlobalSteps
    BY TotalParts, ResumeConstants DEF GlobalSteps
  <2> QED BY <2>1 DEF ResumeInit, BatchInv, Saving
<1>2. ResumeInv /\ BatchInv /\ [ResumeNext]_resumeVars => BatchInv'
  BY BatchStep
<1>3. BatchInv => EveryBatchOnce
  BY DEF BatchInv, EveryBatchOnce, InOrder
<1> QED BY <1>1, <1>2, <1>3, ResumeInvHolds, PTL DEF ResumeSpec

-----------------------------------------------------------------------------
(* ReplayBuffer: the invariants *)

\* The shape of the state.
ReplayTypeOK ==
  /\ fitPc \in {"dispatch", "sample", "use", "clear", "remove", "done"}
  /\ round \in Rounds
  /\ sampled \in [Rounds -> SUBSET Keys]
  /\ sessions \in [Keys -> {"none", "run", "ended", "raised"}]
  /\ prompts \in [Uids -> {"none", "run", "finished", "failure"}]
  /\ tqKeys \in SUBSET Keys /\ tqEnded \in SUBSET Uids
  /\ running \in SUBSET Uids /\ known \in SUBSET Keys
  /\ listed \in [keys : SUBSET Keys, ended : SUBSET Uids]
  /\ toAdd \in SUBSET Partitions

\* The rounds that fit has not dispatched yet.
Future(r) ==
  \/ r[1] > round[1]
  \/ (r = round /\ fitPc = "dispatch")
  \/ /\ r[1] = round[1] /\ r[2] > round[2]
     /\ (round[2] # 0 \/ fitPc \in {"dispatch", "sample", "use"})

\* Every round is dispatched once: its prompts and agent loops have not begun.
FreshInv ==
  /\ \A u \in Uids : Future(u[1]) => prompts[u] = "none"
  /\ \A k \in Keys : prompts[UidOf(k)] = "none" => sessions[k] = "none"

\* A key is on its way, or anywhere, only after its agent loop has ended, so it
\* is put once; and a prompt that finished has no agent loop left.
OnceInv ==
  /\ \A k \in Keys :
       k \in tqKeys \/ k \in known \/ k \in listed.keys \/ (\E r \in Rounds : k \in sampled[r])
         => sessions[k] = "ended"
  /\ \A k \in Keys : prompts[UidOf(k)] = "finished" => sessions[k] # "run"

\* The buffer learns of the end of a prompt from a list that also holds all
\* of its outputs.
BufferInv ==
  /\ \A u \in Uids : prompts[u] = "run" => u \in running
  /\ \A u \in tqEnded : prompts[u] \in {"finished", "failure"}
  /\ \A u \in listed.ended : prompts[u] \in {"finished", "failure"}
  /\ \A k \in tqKeys :
       prompts[UidOf(k)] = "finished" =>
         /\ UidOf(k) \in listed.ended /\ PartitionOf(k[1]) \in toAdd => k \in listed.keys
         /\ UidOf(k) \notin running => k \in known
  /\ fitPc = "remove" => sampled[round] \cap tqKeys = {}
  /\ fitPc = "use" => \A u \in Uids : u[1] = round => prompts[u] # "run"

\* The inductive invariant behind SampleComplete.
SampleInv == ReplayTypeOK /\ FreshInv /\ OnceInv /\ BufferInv /\ SampleComplete

\* The rounds whose outputs are still needed.
Needed(r) ==
  \/ (r = round /\ fitPc \in {"sample", "use", "clear"})
  \/ (round[2] # 0 /\ r = <<round[1], 0>>)

\* With at most one validation batch after a step, a round has the step and the
\* partition for itself, and what is known of a needed round can be read.
ReadableInv ==
  /\ \A k \in Keys : (k \in known \/ k \in listed.keys) /\ Needed(k[1]) => k \in tqKeys
  /\ \A r \in Rounds : \A k \in sampled[r] : k[1] = r
  /\ SampleReadable

-----------------------------------------------------------------------------
(* Rounds, prompts and keys *)

\* The parts of a round.
LEMMA RoundParts ==
  ASSUME NEW r \in Rounds
  PROVE  /\ r[1] \in 1..TrainSteps /\ r[2] \in 0..ValBatches /\ r = <<r[1], r[2]>>
         /\ r[1] \in Nat /\ r[2] \in Nat
BY ReplayAssumption DEF Rounds

\* A pair of the right parts is a round.
LEMMA RoundOf ==
  ASSUME NEW s \in 1..TrainSteps, NEW b \in 0..ValBatches
  PROVE  <<s, b>> \in Rounds /\ <<s, b>>[1] = s /\ <<s, b>>[2] = b
BY DEF Rounds

\* The prompt of a key.
LEMMA KeyParts ==
  ASSUME NEW k \in Keys
  PROVE  /\ UidOf(k) \in Uids /\ UidOf(k)[1] = k[1] /\ k[1] \in Rounds
         /\ k \in KeysOf(UidOf(k))
BY DEF Keys, Uids, UidOf, KeysOf

\* The round of a prompt.
LEMMA UidParts ==
  ASSUME NEW u \in Uids
  PROVE  u[1] \in Rounds
BY DEF Uids

-----------------------------------------------------------------------------
(* The poll thread *)

\* Taking a list, and adding a partition of it to the buffer, keep the
\* invariant.
LEMMA PollPreserves ==
  ASSUME SampleInv, PollStep
  PROVE  SampleInv'
<1> USE DEF SampleInv
<1>0. UNCHANGED <<fitPc, round, sampled, sessions, prompts, tqEnded, tqKeys>>
  BY DEF PollStep, PollList, PollAdd, fitVars, workerVars
<1>1. CASE PollList
  <2>1. /\ listed' = [keys |-> tqKeys, ended |-> tqEnded] /\ toAdd' = Partitions
        /\ UNCHANGED <<running, known>>
    BY <1>1 DEF PollList
  <2>2. listed'.keys = tqKeys /\ listed'.ended = tqEnded
    BY <2>1
  <2>3. ReplayTypeOK'
    BY <1>0, <2>1 DEF ReplayTypeOK
  <2>4. FreshInv' /\ SampleComplete'
    BY <1>0 DEF FreshInv, Future, SampleComplete
  <2>5. OnceInv'
    BY <1>0, <2>1, <2>2 DEF OnceInv
  <2>6. BufferInv'
    BY <1>0, <2>1, <2>2 DEF BufferInv
  <2> QED BY <2>3, <2>4, <2>5, <2>6
<1>2. ASSUME NEW p \in Partitions, PollAdd(p) PROVE SampleInv'
  <2>1. /\ p \in toAdd
        /\ running' = running \ {u \in listed.ended : PartitionOf(u[1]) = p}
        /\ known' = known \cup {k \in listed.keys : PartitionOf(k[1]) = p}
        /\ toAdd' = toAdd \ {p}
        /\ listed' = [keys |-> {}, ended |-> {}] \/ listed' = listed
    BY <1>2 DEF PollAdd
  <2>2. /\ listed.keys \in SUBSET Keys /\ listed.ended \in SUBSET Uids
        /\ listed'.keys \subseteq listed.keys /\ listed'.ended \subseteq listed.ended
        /\ \A k \in listed.keys : k \in listed'.keys \/ listed'.ended = {}
    BY <2>1 DEF ReplayTypeOK
  <2>3. ReplayTypeOK'
    <3>1. listed' \in [keys : SUBSET Keys, ended : SUBSET Uids]
      BY <2>1 DEF ReplayTypeOK
    <3> QED BY <1>0, <2>1, <2>2, <3>1 DEF ReplayTypeOK
  <2>4. FreshInv' /\ SampleComplete'
    BY <1>0 DEF FreshInv, Future, SampleComplete
  <2>5. OnceInv'
    BY <1>0, <2>1, <2>2 DEF OnceInv
  <2>6. \A u \in Uids : prompts[u] = "run" => u \in running'
    BY <2>1 DEF BufferInv
  <2>7. ASSUME NEW k \in tqKeys, prompts[UidOf(k)] = "finished"
        PROVE  /\ UidOf(k) \in listed'.ended /\ PartitionOf(k[1]) \in toAdd' => k \in listed'.keys
               /\ UidOf(k) \notin running' => k \in known'
    <3>1. k \in Keys /\ UidOf(k)[1] = k[1]
      BY KeyParts DEF ReplayTypeOK
    <3>2. /\ UidOf(k) \in listed.ended /\ PartitionOf(k[1]) \in toAdd => k \in listed.keys
          /\ UidOf(k) \notin running => k \in known
      BY <2>7 DEF BufferInv
    <3> QED BY <2>1, <2>2, <3>1, <3>2
  <2>8. BufferInv'
    BY <1>0, <2>2, <2>6, <2>7 DEF BufferInv
  <2> QED BY <2>3, <2>4, <2>5, <2>8
<1> QED BY <1>1, <1>2 DEF PollStep

-----------------------------------------------------------------------------
(* The agent loop workers *)

\* The end of an agent loop, and the report of a prompt, keep the invariant.
LEMMA WorkerPreserves ==
  ASSUME SampleInv, WorkerStep
  PROVE  SampleInv'
<1> USE DEF SampleInv
<1>1. ASSUME NEW s \in Keys, SessionEnds(s) PROVE SampleInv'
  <2>1. /\ UNCHANGED <<fitPc, round, sampled, prompts, tqEnded, running, known, listed, toAdd>>
        /\ sessions[s] = "run"
        /\ tqKeys \subseteq tqKeys'
        /\ \/ sessions' = [sessions EXCEPT ![s] = "ended"] /\ tqKeys' \subseteq tqKeys \cup {s}
           \/ sessions' = [sessions EXCEPT ![s] = "raised"] /\ tqKeys' = tqKeys
    BY <1>1 DEF SessionEnds, fitVars, pollVars
  <2>2. /\ \A k \in Keys : k # s => sessions'[k] = sessions[k]
        /\ sessions'[s] \in {"ended", "raised"}
        /\ s \in tqKeys' => sessions'[s] = "ended"
        /\ s \notin tqKeys
    BY <2>1 DEF ReplayTypeOK, OnceInv
  <2>3. UidOf(s) \in Uids /\ prompts[UidOf(s)] # "finished" /\ prompts[UidOf(s)] # "none"
    BY <2>1, KeyParts DEF OnceInv, FreshInv
  <2>4. tqKeys' \subseteq tqKeys \cup {s}
    BY <2>1
  <2>5. ReplayTypeOK'
    BY <2>1, <2>4 DEF ReplayTypeOK
  <2>6. FreshInv'
    BY <2>1, <2>2, <2>3 DEF FreshInv, Future
  <2>7. OnceInv'
    <3>1. \A k \in Keys : sessions[k] = "ended" => sessions'[k] = "ended"
      BY <2>1, <2>2
    <3>2. \A k \in Keys : sessions[k] # "run" => sessions'[k] # "run"
      BY <2>2
    <3> QED BY <2>1, <2>2, <2>4, <3>1, <3>2 DEF OnceInv
  <2>8. BufferInv'
    <3>1. fitPc = "remove" => sampled[round] \cap tqKeys' = {}
      <4>1. s \notin sampled[round]
        BY <2>1 DEF OnceInv, ReplayTypeOK
      <4> QED BY <2>4, <4>1 DEF BufferInv
    <3> QED BY <2>1, <2>3, <2>4, <3>1 DEF BufferInv
  <2>9. SampleComplete'
    BY <2>1, <2>3, <2>4 DEF SampleComplete
  <2> QED BY <2>5, <2>6, <2>7, <2>8, <2>9
<1>2. ASSUME NEW u \in Uids, PromptEnds(u) PROVE SampleInv'
  <2>1. /\ UNCHANGED <<fitPc, round, sampled, sessions, tqKeys, running, known, listed, toAdd>>
        /\ prompts[u] = "run"
        /\ tqEnded' = tqEnded \cup {u}
        /\ prompts' = [prompts EXCEPT ![u] = Outcome(u)]
        /\ Outcome(u) # "run"
    BY <1>2 DEF PromptEnds, fitVars, pollVars
  <2>2. /\ Outcome(u) \in {"finished", "failure"}
        /\ Outcome(u) = "finished" => \A k \in KeysOf(u) : sessions[k] # "run"
    BY <2>1 DEF Outcome
  <2>3. /\ \A v \in Uids : v # u => prompts'[v] = prompts[v]
        /\ prompts'[u] = Outcome(u)
    BY <2>1 DEF ReplayTypeOK
  <2>4. \A k \in Keys : UidOf(k) \in Uids /\ (UidOf(k) = u => k \in KeysOf(u))
    BY KeyParts
  <2>5. u \in running
    BY <2>1 DEF BufferInv
  <2>6. u \notin listed.ended /\ ~Future(u[1])
    BY <2>1 DEF BufferInv, FreshInv
  <2> HIDE DEF Outcome
  <2>7. ReplayTypeOK'
    BY <2>1, <2>2 DEF ReplayTypeOK
  <2>8. FreshInv'
    <3>1. \A v \in Uids : Future(v[1]) => prompts'[v] = "none"
      BY <2>3, <2>6 DEF FreshInv
    <3>2. \A k \in Keys : prompts'[UidOf(k)] = "none" => sessions[k] = "none"
      BY <2>2, <2>3, <2>4 DEF FreshInv
    <3> QED BY <2>1, <3>1, <3>2 DEF FreshInv, Future
  <2>9. OnceInv'
    <3>1. \A k \in Keys : prompts'[UidOf(k)] = "finished" => sessions[k] # "run"
      BY <2>2, <2>3, <2>4 DEF OnceInv
    <3> QED BY <2>1, <3>1 DEF OnceInv
  <2>10. BufferInv'
    <3>1. \A v \in Uids : prompts'[v] = "run" => v \in running
      BY <2>2, <2>3 DEF BufferInv
    <3>2. \A v \in tqEnded' : prompts'[v] \in {"finished", "failure"}
      BY <2>1, <2>2, <2>3 DEF BufferInv, ReplayTypeOK
    <3>3. \A v \in listed.ended : prompts'[v] \in {"finished", "failure"}
      BY <2>2, <2>3 DEF BufferInv, ReplayTypeOK
    <3>4. ASSUME NEW k \in tqKeys, prompts'[UidOf(k)] = "finished"
          PROVE  /\ UidOf(k) \in listed.ended /\ PartitionOf(k[1]) \in toAdd => k \in listed.keys
                 /\ UidOf(k) \notin running => k \in known
      <4>1. k \in Keys /\ UidOf(k) \in Uids
        BY KeyParts DEF ReplayTypeOK
      <4>2. CASE UidOf(k) = u
        BY <2>5, <2>6, <4>2
      <4>3. CASE UidOf(k) # u
        BY <2>3, <3>4, <4>1, <4>3 DEF BufferInv
      <4> QED BY <4>2, <4>3
    <3>5. fitPc = "use" => \A v \in Uids : v[1] = round => prompts'[v] # "run"
      BY <2>2, <2>3 DEF BufferInv
    <3>6. fitPc = "remove" => sampled[round] \cap tqKeys = {}
      BY DEF BufferInv
    <3> QED BY <2>1, <3>1, <3>2, <3>3, <3>4, <3>5, <3>6 DEF BufferInv
  <2>11. SampleComplete'
    <3> SUFFICES ASSUME fitPc = "use", NEW k \in tqKeys, k[1] = round,
                        prompts'[UidOf(k)] = "finished"
                 PROVE  k \in sampled[round]
      BY <2>1 DEF SampleComplete
    <3>1. k \in Keys /\ UidOf(k) \in Uids /\ UidOf(k)[1] = k[1]
      BY KeyParts DEF ReplayTypeOK
    <3>2. UidOf(k) # u
      BY <2>1, <3>1 DEF BufferInv
    <3> QED BY <2>3, <3>1, <3>2 DEF SampleComplete
  <2> QED BY <2>7, <2>8, <2>9, <2>10, <2>11
<1> QED BY <1>1, <1>2 DEF WorkerStep

-----------------------------------------------------------------------------
(* fit *)

\* Dispatching a round keeps the invariant: none of its prompts had begun, so
\* none of its outputs is anywhere.
LEMMA DispatchPreserves ==
  ASSUME SampleInv, Dispatch
  PROVE  SampleInv'
<1> USE DEF SampleInv
<1>1. /\ fitPc = "dispatch" /\ fitPc' = "sample"
      /\ UNCHANGED <<round, sampled, tqKeys, tqEnded, known, listed, toAdd>>
      /\ running' = running \cup {u \in Uids : u[1] = round}
      /\ prompts' = [u \in Uids |-> IF u[1] = round THEN "run" ELSE prompts[u]]
      /\ sessions' = [k \in Keys |-> IF k[1] = round THEN "run" ELSE sessions[k]]
  BY DEF Dispatch, pollVars
<1>2. /\ \A u \in Uids : u[1] # round => prompts'[u] = prompts[u]
      /\ \A u \in Uids : u[1] = round => prompts'[u] = "run" /\ prompts[u] = "none" /\ u \in running'
  BY <1>1 DEF FreshInv, Future
<1>3. /\ \A k \in Keys : UidOf(k) \in Uids /\ UidOf(k)[1] = k[1]
      /\ \A k \in Keys : k[1] # round => sessions'[k] = sessions[k]
      /\ \A k \in Keys : k[1] = round => sessions'[k] = "run" /\ sessions[k] = "none"
  BY <1>1, <1>2, KeyParts DEF FreshInv
<1>4. ReplayTypeOK'
  BY <1>1 DEF ReplayTypeOK
<1>5. FreshInv'
  <2>1. ASSUME NEW u \in Uids, Future(u[1])' PROVE prompts'[u] = "none"
    <3>1. round \in Rounds /\ u[1] \in Rounds
      BY UidParts DEF ReplayTypeOK
    <3>2. /\ round[1] \in Nat /\ round[2] \in Nat /\ u[1][1] \in Nat /\ u[1][2] \in Nat
      BY <3>1, RoundParts
    <3>3. Future(u[1]) /\ u[1] # round
      BY <1>1, <2>1, <3>2 DEF Future
    <3> QED BY <1>2, <3>3 DEF FreshInv
  <2> QED BY <1>2, <1>3, <2>1 DEF FreshInv
<1>6. OnceInv'
  <2>1. ASSUME NEW k \in Keys, sessions[k] = "ended" PROVE sessions'[k] = "ended"
    BY <1>3, <2>1
  <2>2. ASSUME NEW k \in Keys, prompts'[UidOf(k)] = "finished" PROVE sessions'[k] # "run"
    BY <1>2, <1>3, <2>2 DEF OnceInv
  <2> QED BY <1>1, <2>1, <2>2 DEF OnceInv
<1>7. BufferInv'
  <2>1. \A u \in Uids : prompts'[u] = "run" => u \in running'
    BY <1>1, <1>2 DEF BufferInv
  <2>2. \A u \in tqEnded : prompts'[u] \in {"finished", "failure"}
    BY <1>2 DEF BufferInv, ReplayTypeOK
  <2>3. \A u \in listed.ended : prompts'[u] \in {"finished", "failure"}
    BY <1>2 DEF BufferInv, ReplayTypeOK
  <2>4. ASSUME NEW k \in tqKeys, prompts'[UidOf(k)] = "finished"
        PROVE  /\ prompts[UidOf(k)] = "finished"
               /\ UidOf(k) \notin running' => UidOf(k) \notin running
    <3>1. k \in Keys
      BY DEF ReplayTypeOK
    <3> QED BY <1>1, <1>2, <1>3, <2>4, <3>1
  <2> QED BY <1>1, <2>1, <2>2, <2>3, <2>4 DEF BufferInv
<1>8. SampleComplete'
  BY <1>1 DEF SampleComplete
<1> QED BY <1>4, <1>5, <1>6, <1>7, <1>8

\* Sampling keeps the invariant, and establishes SampleComplete: no prompt of
\* the round is running in the buffer, which therefore knows the outputs of
\* those that finished.
LEMMA SamplePreserves ==
  ASSUME SampleInv, Sample
  PROVE  SampleInv'
<1> USE DEF SampleInv
<1>1. /\ fitPc = "sample" /\ fitPc' = "use"
      /\ UNCHANGED <<round, sessions, prompts, tqKeys, tqEnded, running, known, listed, toAdd>>
      /\ \A u \in running : ~OfStep(u[1])
      /\ sampled' = [sampled EXCEPT ![round] = {k \in known : OfStep(k[1])}]
  BY DEF Sample, workerVars, pollVars
<1>2. /\ round \in Rounds /\ OfStep(round)
      /\ sampled'[round] = {k \in known : OfStep(k[1])}
      /\ \A r \in Rounds : sampled'[r] \subseteq sampled[r] \cup known
  BY <1>1 DEF OfStep, ReplayTypeOK
<1> HIDE DEF OfStep
<1>3. ReplayTypeOK'
  BY <1>1, <1>2 DEF ReplayTypeOK
<1>4. FreshInv'
  BY <1>1 DEF FreshInv, Future
<1>5. OnceInv'
  BY <1>1, <1>2 DEF OnceInv
<1>6. \A u \in Uids : u[1] = round => u \notin running /\ prompts[u] # "run"
  BY <1>1, <1>2 DEF BufferInv
<1>7. BufferInv'
  BY <1>1, <1>6 DEF BufferInv
<1>8. SampleComplete'
  <2> SUFFICES ASSUME NEW k \in tqKeys, k[1] = round, prompts[UidOf(k)] = "finished"
               PROVE  k \in sampled'[round]
    BY <1>1 DEF SampleComplete
  <2>1. UidOf(k) \in Uids /\ UidOf(k)[1] = k[1]
    BY KeyParts DEF ReplayTypeOK
  <2>2. k \in known
    BY <1>6, <2>1 DEF BufferInv
  <2> QED BY <1>2, <2>2
<1> QED BY <1>3, <1>4, <1>5, <1>7, <1>8

\* Going on to the cleanup or to another round keeps the invariant when it
\* forgets nothing of the transfer queue and dispatches nothing again.
LEMMA MovePreserves ==
  ASSUME SampleInv,
         UNCHANGED <<sessions, prompts, tqEnded, running, listed, toAdd>>,
         fitPc' \in {"dispatch", "clear", "remove", "done"}, round' \in Rounds,
         sampled' \in [Rounds -> SUBSET Keys],
         \A r \in Rounds : sampled'[r] \subseteq sampled[r],
         \A r \in Rounds : Future(r)' => Future(r),
         tqKeys' \subseteq tqKeys, known' \subseteq known,
         known \cap tqKeys' \subseteq known',
         fitPc' = "remove" => sampled'[round'] \cap tqKeys' = {}
  PROVE  SampleInv'
<1> USE DEF SampleInv
<1>1. ReplayTypeOK'
  BY DEF ReplayTypeOK
<1>2. FreshInv'
  <2>1. \A u \in Uids : Future(u[1])' => prompts[u] = "none"
    BY UidParts DEF FreshInv
  <2> QED BY <2>1 DEF FreshInv
<1>3. OnceInv'
  BY DEF OnceInv
<1>4. BufferInv'
  BY DEF BufferInv
<1>5. SampleComplete'
  BY DEF SampleComplete
<1> QED BY <1>1, <1>2, <1>3, <1>4, <1>5

\* Using and cleaning up a batch keeps the invariant.
LEMMA CleanupPreserves ==
  ASSUME SampleInv, Use \/ ClearSampled \/ RemoveSampled
  PROVE  SampleInv'
<1> USE DEF SampleInv
<1>0. /\ round \in Rounds /\ round[1] \in 1..TrainSteps /\ round[2] \in 0..ValBatches
      /\ round = <<round[1], round[2]>> /\ round[1] \in Nat /\ round[2] \in Nat
      /\ ValBatches \in Nat /\ TrainSteps \in Nat
  BY RoundParts, ReplayAssumption DEF ReplayTypeOK
<1>00. \A r \in Rounds : r[1] \in Nat /\ r[2] \in Nat /\ r = <<r[1], r[2]>> /\ r[2] <= ValBatches
  BY RoundParts, ReplayAssumption
<1>1. CASE Use
  <2>1. /\ UNCHANGED <<sampled, sessions, prompts, tqEnded, tqKeys, running, known, listed, toAdd>>
        /\ fitPc = "use"
        /\ \/ round[2] = 0 /\ ValBatches > 0 /\ round' = <<round[1], 1>> /\ fitPc' = "dispatch"
           \/ round' = round /\ fitPc' = "clear"
    BY <1>1 DEF Use, workerVars, pollVars
  <2>2. round' \in Rounds /\ (fitPc' = "dispatch" => round'[1] = round[1] /\ round'[2] = 1)
    BY <1>0, <2>1, RoundOf
  <2>3. ASSUME NEW r \in Rounds, Future(r)' PROVE Future(r)
    <3>1. CASE round' = round /\ fitPc' = "clear"
      BY <2>1, <2>3, <3>1 DEF Future
    <3>2. CASE fitPc' = "dispatch"
      <4>1. r[1] > round[1] \/ (r[1] = round[1] /\ r[2] >= 1)
        BY <1>0, <1>00, <2>2, <2>3, <3>2 DEF Future
      <4> QED BY <1>0, <1>00, <2>1, <3>2, <4>1 DEF Future
    <3> QED BY <2>1, <3>1, <3>2
  <2> QED BY <2>1, <2>2, <2>3, MovePreserves DEF ReplayTypeOK
<1>2. CASE ClearSampled
  <2>1. /\ UNCHANGED <<round, sampled, sessions, prompts, tqEnded, running, known, listed, toAdd>>
        /\ fitPc = "clear" /\ fitPc' = "remove"
        /\ tqKeys' = tqKeys \ sampled[round]
    BY <1>2 DEF ClearSampled, workerVars, pollVars
  <2>2. \A r \in Rounds : Future(r)' => Future(r)
    BY <2>1 DEF Future
  <2> QED BY <2>1, <2>2, MovePreserves DEF ReplayTypeOK
<1>3. CASE RemoveSampled
  <2>1. /\ UNCHANGED <<sessions, prompts, tqEnded, tqKeys, running, listed, toAdd>>
        /\ fitPc = "remove"
        /\ known' = known \ sampled[round]
        /\ sampled' = [sampled EXCEPT ![round] = {}]
        /\ \/ /\ round[2] > 0 /\ round[2] < ValBatches
              /\ round' = <<round[1], round[2] + 1>> /\ fitPc' = "dispatch"
           \/ round[2] > 0 /\ round' = <<round[1], 0>> /\ fitPc' = "clear"
           \/ /\ round[2] = 0 /\ round[1] < TrainSteps
              /\ round' = <<round[1] + 1, 0>> /\ fitPc' = "dispatch"
           \/ round' = round /\ fitPc' = "done"
    BY <1>3 DEF RemoveSampled, workerVars, pollVars
  <2>2. /\ sampled' \in [Rounds -> SUBSET Keys]
        /\ \A r \in Rounds : sampled'[r] \subseteq sampled[r]
    BY <2>1 DEF ReplayTypeOK
  <2>3. known' \subseteq known /\ known \cap tqKeys' \subseteq known'
    BY <2>1 DEF BufferInv
  <2>4. round' \in Rounds /\ \A r \in Rounds : Future(r)' => Future(r)
    <3>1. CASE round[2] > 0 /\ round[2] < ValBatches
               /\ round' = <<round[1], round[2] + 1>> /\ fitPc' = "dispatch"
      <4>1. round' \in Rounds /\ round'[1] = round[1] /\ round'[2] = round[2] + 1
        BY <1>0, <3>1, RoundOf
      <4>2. \A r \in Rounds : Future(r)' => r[1] > round[1] \/ (r[1] = round[1] /\ r[2] > round[2])
        BY <1>0, <1>00, <4>1 DEF Future
      <4> QED BY <1>0, <1>00, <3>1, <4>1, <4>2 DEF Future
    <3>2. CASE round[2] > 0 /\ round' = <<round[1], 0>> /\ fitPc' = "clear"
      <4>1. round' \in Rounds /\ round'[1] = round[1] /\ round'[2] = 0
        BY <1>0, <3>2, RoundOf
      <4>2. \A r \in Rounds : Future(r)' => r[1] > round[1]
        BY <1>0, <1>00, <3>2, <4>1 DEF Future
      <4> QED BY <4>1, <4>2 DEF Future
    <3>3. CASE round[2] = 0 /\ round[1] < TrainSteps
               /\ round' = <<round[1] + 1, 0>> /\ fitPc' = "dispatch"
      <4>1. round' \in Rounds /\ round'[1] = round[1] + 1 /\ round'[2] = 0
        BY <1>0, <3>3, RoundOf
      <4>2. \A r \in Rounds : Future(r)' => r[1] > round[1]
        BY <1>0, <1>00, <3>3, <4>1 DEF Future
      <4> QED BY <4>1, <4>2 DEF Future
    <3>4. CASE round' = round /\ fitPc' = "done"
      BY <1>0, <2>1, <3>4 DEF Future
    <3> QED BY <2>1, <3>1, <3>2, <3>3, <3>4
  <2>5. fitPc' \in {"dispatch", "clear", "done"}
    BY <2>1
  <2> QED BY <2>1, <2>2, <2>3, <2>4, <2>5, MovePreserves
<1> QED BY <1>1, <1>2, <1>3

-----------------------------------------------------------------------------
(* What sample returns *)

\* The invariant holds, whatever the interleaving of fit, the workers and the
\* poll thread.
THEOREM SampleInvHolds == ReplaySpec => []SampleInv
<1>1. ReplayInit => SampleInv
  <2> SUFFICES ASSUME ReplayInit PROVE SampleInv
    OBVIOUS
  <2>1. <<1, 0>> \in Rounds
    BY ReplayAssumption, RoundOf
  <2>2. ReplayTypeOK
    BY <2>1 DEF ReplayInit, ReplayTypeOK
  <2>3. FreshInv
    BY KeyParts DEF ReplayInit, FreshInv
  <2>4. OnceInv
    BY KeyParts DEF ReplayInit, OnceInv
  <2>5. BufferInv /\ SampleComplete
    BY DEF ReplayInit, BufferInv, SampleComplete
  <2> QED BY <2>2, <2>3, <2>4, <2>5 DEF SampleInv
<1>2. SampleInv /\ [ReplayNext]_replayVars => SampleInv'
  <2> SUFFICES ASSUME SampleInv, [ReplayNext]_replayVars PROVE SampleInv'
    OBVIOUS
  <2>1. CASE FitStep
    BY <2>1, DispatchPreserves, SamplePreserves, CleanupPreserves DEF FitStep
  <2>2. CASE WorkerStep \/ PollStep
    BY <2>2, WorkerPreserves, PollPreserves
  <2>3. CASE UNCHANGED replayVars
    BY <2>3 DEF SampleInv, ReplayTypeOK, FreshInv, Future, OnceInv, BufferInv, SampleComplete,
                replayVars, fitVars, workerVars, pollVars
  <2> QED BY <2>1, <2>2, <2>3 DEF ReplayNext
<1> QED BY <1>1, <1>2, PTL DEF ReplaySpec

\* When sample returns, it returns every output of every prompt of the round
\* that finished: the list that told the buffer of the end of the prompt held
\* all of its outputs.
THEOREM SampleCompleteHolds == ReplaySpec => []SampleComplete
<1>1. SampleInv => SampleComplete
  BY DEF SampleInv
<1> QED BY <1>1, SampleInvHolds, PTL

-----------------------------------------------------------------------------
(* What sample returns can be read *)

\* With at most one validation batch after a step, sample looks at one round.
LEMMA OneRound ==
  ASSUME ValBatches <= 1, NEW r \in Rounds, round \in Rounds, OfStep(r)
  PROVE  r = round
<1>1. /\ r = <<r[1], r[2]>> /\ round = <<round[1], round[2]>>
      /\ r[2] \in 0..ValBatches /\ round[2] \in 0..ValBatches /\ ValBatches \in Nat
  BY RoundParts, ReplayAssumption
<1>2. r[1] = round[1] /\ (r[2] = 0 <=> round[2] = 0)
  BY DEF OfStep, PartitionOf
<1>3. r[2] = round[2]
  BY <1>1, <1>2
<1> QED BY <1>1, <1>2, <1>3

\* The poll thread adds to the buffer what the transfer queue held.
LEMMA PollReadable ==
  ASSUME SampleInv, ReadableInv, PollStep
  PROVE  ReadableInv'
<1>0. UNCHANGED <<fitPc, round, sampled, sessions, prompts, tqEnded, tqKeys>>
  BY DEF PollStep, PollList, PollAdd, fitVars, workerVars
<1>1. (known' \cup listed'.keys) \subseteq (known \cup listed.keys \cup tqKeys)
  BY DEF PollStep, PollList, PollAdd, SampleInv, ReplayTypeOK
<1> QED BY <1>0, <1>1 DEF ReadableInv, Needed, SampleReadable

\* The workers only add to the transfer queue.
LEMMA WorkerReadable ==
  ASSUME SampleInv, ReadableInv, WorkerStep
  PROVE  ReadableInv'
<1>0. UNCHANGED <<fitPc, round, sampled, known, listed>> /\ tqKeys \subseteq tqKeys'
  BY DEF WorkerStep, SessionEnds, PromptEnds, fitVars, pollVars
<1> QED BY <1>0 DEF ReadableInv, Needed, SampleReadable

\* Dispatching a round makes it needed, when nothing is known of it; and what
\* sample returns is known of the round.
LEMMA RoundReadable ==
  ASSUME ValBatches <= 1, SampleInv, ReadableInv, Dispatch \/ Sample
  PROVE  ReadableInv'
<1>1. CASE Dispatch
  <2>1. /\ fitPc = "dispatch" /\ fitPc' = "sample"
        /\ UNCHANGED <<round, sampled, tqKeys, known, listed>>
    BY <1>1 DEF Dispatch, pollVars
  <2>2. ASSUME NEW k \in Keys, k \in known \/ k \in listed.keys PROVE k[1] # round
    <3>1. UidOf(k) \in Uids /\ UidOf(k)[1] = k[1] /\ sessions[k] = "ended"
      BY <2>2, KeyParts DEF SampleInv, OnceInv
    <3>2. ~Future(UidOf(k)[1])
      BY <3>1 DEF SampleInv, FreshInv
    <3> QED BY <2>1, <3>1, <3>2 DEF Future
  <2>3. ASSUME NEW k \in Keys, k \in known \/ k \in listed.keys, Needed(k[1])' PROVE k \in tqKeys
    <3>1. Needed(k[1])
      BY <2>1, <2>2, <2>3 DEF Needed
    <3> QED BY <2>3, <3>1 DEF ReadableInv
  <2> QED BY <2>1, <2>3 DEF ReadableInv, SampleReadable
<1>2. CASE Sample
  <2>1. /\ fitPc = "sample" /\ fitPc' = "use"
        /\ UNCHANGED <<round, tqKeys, known, listed>>
        /\ sampled' = [sampled EXCEPT ![round] = {k \in known : OfStep(k[1])}]
    BY <1>2 DEF Sample, workerVars, pollVars
  <2>2. round \in Rounds /\ known \subseteq Keys /\ sampled \in [Rounds -> SUBSET Keys]
    BY DEF SampleInv, ReplayTypeOK
  <2>3. \A k \in Keys : k \in sampled'[round] => k \in known /\ k[1] = round
    BY <2>1, <2>2, OneRound, KeyParts
  <2>4. \A k \in sampled'[round] : k \in Keys
    BY <2>1, <2>2
  <2>5. \A r \in Rounds : \A k \in sampled'[r] : k[1] = r
    BY <2>1, <2>2, <2>3, <2>4 DEF ReadableInv
  <2>6. sampled'[round] \subseteq tqKeys
    BY <2>1, <2>3, <2>4 DEF ReadableInv, Needed
  <2>7. \A r \in Rounds : Needed(r)' <=> Needed(r)
    BY <2>1 DEF Needed
  <2>8. \A k \in Keys : (k \in known' \/ k \in listed'.keys) /\ Needed(k[1])' => k \in tqKeys'
    BY <2>1, <2>7, KeyParts DEF ReadableInv
  <2> QED BY <2>1, <2>5, <2>6, <2>8 DEF ReadableInv, SampleReadable
<1> QED BY <1>1, <1>2

\* The cleanup removes the outputs of the round and makes no other needed.
LEMMA CleanupReadable ==
  ASSUME SampleInv, ReadableInv, Use \/ ClearSampled \/ RemoveSampled
  PROVE  ReadableInv'
<1>0. /\ round \in Rounds /\ round = <<round[1], round[2]>> /\ round[2] \in Nat /\ ValBatches \in Nat
      /\ sampled \in [Rounds -> SUBSET Keys]
  BY RoundParts, ReplayAssumption DEF SampleInv, ReplayTypeOK
<1>1. CASE Use
  <2>1. /\ UNCHANGED <<sampled, tqKeys, known, listed>>
        /\ fitPc = "use"
        /\ \/ round[2] = 0 /\ round' = <<round[1], 1>> /\ fitPc' = "dispatch"
           \/ round' = round /\ fitPc' = "clear"
    BY <1>1 DEF Use, workerVars, pollVars
  <2>2. \A r \in Rounds : Needed(r)' => Needed(r)
    BY <1>0, <2>1 DEF Needed
  <2>3. \A k \in Keys : (k \in known' \/ k \in listed'.keys) /\ Needed(k[1])' => k \in tqKeys'
    BY <2>1, <2>2, KeyParts DEF ReadableInv
  <2> QED BY <2>1, <2>3 DEF ReadableInv, SampleReadable
<1>2. CASE ClearSampled
  <2>1. /\ UNCHANGED <<round, sampled, known, listed>>
        /\ fitPc = "clear" /\ fitPc' = "remove"
        /\ tqKeys' = tqKeys \ sampled[round]
    BY <1>2 DEF ClearSampled, workerVars, pollVars
  <2>2. \A r \in Rounds : Needed(r)' => Needed(r) /\ r # round
    BY <1>0, <2>1 DEF Needed
  <2>3. \A k \in Keys : (k \in known' \/ k \in listed'.keys) /\ Needed(k[1])' => k \in tqKeys'
    BY <1>0, <2>1, <2>2, KeyParts DEF ReadableInv
  <2> QED BY <2>1, <2>3 DEF ReadableInv, SampleReadable
<1>3. CASE RemoveSampled
  <2>1. /\ UNCHANGED <<tqKeys, listed>>
        /\ fitPc = "remove"
        /\ known' = known \ sampled[round]
        /\ sampled' = [sampled EXCEPT ![round] = {}]
        /\ \/ round[2] > 0 /\ round' = <<round[1], round[2] + 1>> /\ fitPc' = "dispatch"
           \/ round[2] > 0 /\ round' = <<round[1], 0>> /\ fitPc' = "clear"
           \/ round' = <<round[1] + 1, 0>> /\ fitPc' = "dispatch"
           \/ round[2] = 0 /\ round' = round /\ fitPc' = "done"
    BY <1>3 DEF RemoveSampled, workerVars, pollVars
  <2>2. \A r \in Rounds : Needed(r)' => Needed(r)
    BY <1>0, <2>1 DEF Needed
  <2>3. \A k \in Keys : (k \in known' \/ k \in listed'.keys) /\ Needed(k[1])' => k \in tqKeys'
    BY <2>1, <2>2, KeyParts DEF ReadableInv
  <2>4. \A r \in Rounds : \A k \in sampled'[r] : k[1] = r
    BY <1>0, <2>1 DEF ReadableInv
  <2> QED BY <2>1, <2>3, <2>4 DEF ReadableInv, SampleReadable
<1> QED BY <1>1, <1>2, <1>3

\* With at most one validation batch after a step, what sample returns can be
\* read from the transfer queue, and is of the round that was dispatched.  With
\* two, it cannot: a list of the poll thread brings back the keys of the first.
THEOREM SampleReadableHolds ==
  ASSUME ValBatches <= 1
  PROVE  ReplaySpec => []SampleReadable
<1>1. ReplayInit => ReadableInv
  BY DEF ReplayInit, ReadableInv, SampleReadable
<1>2. SampleInv /\ ReadableInv /\ [ReplayNext]_replayVars => ReadableInv'
  <2> SUFFICES ASSUME SampleInv, ReadableInv, [ReplayNext]_replayVars PROVE ReadableInv'
    OBVIOUS
  <2>1. CASE FitStep
    BY <2>1, RoundReadable, CleanupReadable DEF FitStep
  <2>2. CASE WorkerStep \/ PollStep
    BY <2>2, WorkerReadable, PollReadable
  <2>3. CASE UNCHANGED replayVars
    BY <2>3 DEF ReadableInv, Needed, SampleReadable, replayVars, fitVars, workerVars, pollVars
  <2> QED BY <2>1, <2>2, <2>3 DEF ReplayNext
<1>3. ReadableInv => SampleReadable
  BY DEF ReadableInv
<1> QED BY <1>1, <1>2, <1>3, SampleInvHolds, PTL DEF ReplaySpec
==============================================================================
