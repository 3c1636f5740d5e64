-------------------------- MODULE MessageQueueProofs --------------------------
(***************************************************************************)
(* The message queue actor, for any number of consumers, any capacity and  *)
(* any number of samples: its safety properties, and that it implements    *)
(* SampleQueue, the queue that FullyAsync is built on.                     *)
(***************************************************************************)
EXTENDS MessageQueue, TLAPS

\* A put drops the oldest item exactly when the deque is full.
LEMMA PushType ==
  ASSUME NEW q \in Seq(Samples), NEW x \in Samples, Len(q) <= MaxQueueSize
  PROVE  /\ PushDropOldest(q, MaxQueueSize, x) \in Seq(Samples)
         /\ PushDropOldest(q, MaxQueueSize, x) # <<>>
         /\ Len(PushDropOldest(q, MaxQueueSize, x)) <= MaxQueueSize
         /\ Len(PushDropOldest(q, MaxQueueSize, x))
              + (IF IsFull(q, MaxQueueSize) THEN 1 ELSE 0) = Len(q) + 1
  <1>1. CASE IsFull(q, MaxQueueSize)
    <2>1. q # <<>>  BY <1>1, CapacityAssumption DEF IsFull
    <2>2. Tail(q) \in Seq(Samples) /\ Len(Tail(q)) = Len(q) - 1  BY <2>1
    <2>3. Append(Tail(q), x) \in Seq(Samples) /\ Len(Append(Tail(q), x)) = Len(q)
      BY <2>2
    <2> QED  BY <1>1, <2>3, CapacityAssumption DEF PushDropOldest, IsFull
  <1>2. CASE ~IsFull(q, MaxQueueSize)
    <2>1. Append(q, x) \in Seq(Samples) /\ Len(Append(q, x)) = Len(q) + 1
      OBVIOUS
    <2> QED  BY <1>2, <2>1, CapacityAssumption DEF PushDropOldest, IsFull
  <1> QED  BY <1>1, <1>2

Safety == TypeOK /\ NoLostWakeup /\ Conservation

\* put_sample notifies after the append: nobody stays parked next to a sample.
LEMMA PutPreserves ==
  ASSUME Safety, NEW x \in Samples, PutSample(x)
  PROVE  Safety'
  <1> DEFINE d == IF IsFull(queue, MaxQueueSize) THEN 1 ELSE 0
  <1>1. /\ queue \in Seq(Samples) /\ Len(queue) <= MaxQueueSize /\ Len(queue) \in Nat
        /\ total_produced \in Nat /\ total_consumed \in Nat
        /\ dropped_samples \in Nat /\ cleared \in Nat /\ d \in Nat
    BY DEF Safety, TypeOK
  <1>2. /\ queue' = PushDropOldest(queue, MaxQueueSize, x)
        /\ dropped_samples' = dropped_samples + d
        /\ total_produced' = total_produced + 1
        /\ UNCHANGED <<val_queue, running, total_consumed, cleared, reply>>
    BY DEF PutSample
  <1>3. /\ queue' \in Seq(Samples) /\ queue' # <<>> /\ Len(queue') <= MaxQueueSize
        /\ Len(queue') \in Nat /\ Len(queue') + d = Len(queue) + 1
    <2> DEFINE p == PushDropOldest(queue, MaxQueueSize, x)
    <2>1. /\ p \in Seq(Samples) /\ p # <<>> /\ Len(p) <= MaxQueueSize
          /\ Len(p) + d = Len(queue) + 1
      BY <1>1, PushType, Zenon
    <2> HIDE DEF p, d
    <2>2. queue' = p  BY <1>2 DEF p
    <2> QED  BY <2>1, <2>2
  <1> HIDE DEF d
  <1>4. call' \in [Consumers -> {"idle", "woken"}]
    BY DEF Safety, TypeOK, PutSample, NotifyAll
  <1>5. TypeOK'  BY <1>1, <1>2, <1>3, <1>4 DEF Safety, TypeOK
  <1>6. NoLostWakeup'  BY <1>4 DEF NoLostWakeup
  <1>7. Conservation'  BY <1>1, <1>2, <1>3 DEF Safety, Conservation
  <1> QED  BY <1>5, <1>6, <1>7 DEF Safety

\* A get_sample call that returns, first time or after a wakeup.
LEMMA TakePreserves ==
  ASSUME Safety, NEW c \in Consumers, TakeOrClose(c)
  PROVE  Safety'
  <1>1. call \in [Consumers -> {"idle", "woken"}]
    BY DEF Safety, TypeOK, NoLostWakeup, TakeOrClose
  <1>2. call' \in [Consumers -> {"idle", "woken"}]  BY <1>1 DEF TakeOrClose
  <1>3. NoLostWakeup'  BY <1>2 DEF NoLostWakeup
  <1>4. CASE queue # <<>>
    <2>1. /\ Head(queue) \in Samples /\ Tail(queue) \in Seq(Samples)
          /\ Len(Tail(queue)) = Len(queue) - 1
      BY <1>4 DEF Safety, TypeOK
    <2>2. /\ queue' = Tail(queue) /\ total_consumed' = total_consumed + 1
          /\ reply' = [reply EXCEPT ![c] = Head(queue)]
      BY <1>4 DEF TakeOrClose
    <2>3. UNCHANGED <<val_queue, running, total_produced, dropped_samples, cleared>>
      BY DEF TakeOrClose
    <2>4. /\ Len(queue) \in Nat /\ Len(queue) <= MaxQueueSize
          /\ total_produced \in Nat /\ total_consumed \in Nat
          /\ dropped_samples \in Nat /\ cleared \in Nat
      BY DEF Safety, TypeOK
    <2>5. Len(queue') <= MaxQueueSize  BY <2>1, <2>2, <2>4, CapacityAssumption
    <2>6. reply' \in [Consumers -> Samples \cup {Closed, NoReply}]
      BY <2>1, <2>2 DEF Safety, TypeOK
    <2>7. TypeOK'  BY <1>2, <2>1, <2>2, <2>3, <2>5, <2>6 DEF Safety, TypeOK
    <2>8. Conservation'
      BY <2>1, <2>2, <2>3, <2>4 DEF Safety, Conservation
    <2> QED  BY <1>3, <2>7, <2>8 DEF Safety
  <1>5. CASE queue = <<>>
    <2>1. /\ UNCHANGED <<queue, total_consumed>>
          /\ reply' = [reply EXCEPT ![c] = Closed]
      BY <1>5 DEF TakeOrClose
    <2>2. TypeOK'  BY <1>2, <2>1 DEF Safety, TypeOK, TakeOrClose
    <2>3. Conservation'  BY <2>1 DEF Safety, Conservation, TakeOrClose
    <2> QED  BY <1>3, <2>2, <2>3 DEF Safety
  <1> QED  BY <1>4, <1>5

\* The other steps: a call parks only where there is nothing to take, the rest
\* never adds a sample without a notification.
LEMMA OtherPreserves ==
  ASSUME Safety,
         \/ \E c \in Consumers : Park(c)
         \/ ClearQueue \/ Shutdown \/ GetValidate
         \/ \E x \in Samples : PutValidate(x)
         \/ UNCHANGED vars
  PROVE  Safety'
  <1>1. CASE \E c \in Consumers : Park(c)
    BY <1>1 DEF Park, counters, MustWait, Safety, TypeOK, NoLostWakeup, Conservation
  <1>2. CASE ClearQueue
    <2>1. queue' = <<>> /\ cleared' = cleared + Len(queue)
          /\ UNCHANGED <<val_queue, running, total_produced, total_consumed,
                         dropped_samples, call, reply>>
      BY <1>2 DEF ClearQueue
    <2>2. queue' \in Seq(Samples) /\ Len(queue') = 0 /\ cleared' \in Nat
      BY <2>1 DEF Safety, TypeOK
    <2>3. TypeOK'  BY <2>1, <2>2, CapacityAssumption DEF Safety, TypeOK
    <2>4. NoLostWakeup'  BY <2>1 DEF Safety, NoLostWakeup, MustWait
    <2>5. Conservation'  BY <2>1, <2>2 DEF Safety, TypeOK, Conservation
    <2> QED  BY <2>3, <2>4, <2>5 DEF Safety
  <1>3. CASE Shutdown
    <2>1. call' \in [Consumers -> {"idle", "woken"}]
      BY <1>3 DEF Safety, TypeOK, Shutdown, NotifyAll
    <2>2. TypeOK'  BY <1>3, <2>1 DEF Shutdown, counters, Safety, TypeOK
    <2>3. NoLostWakeup'  BY <2>1 DEF NoLostWakeup
    <2>4. Conservation'  BY <1>3 DEF Shutdown, counters, Safety, Conservation
    <2> QED  BY <2>2, <2>3, <2>4 DEF Safety
  <1>4. CASE GetValidate \/ \E x \in Samples : PutValidate(x)
    <2>1. UNCHANGED <<queue, running, counters, call, reply>>
      BY <1>4 DEF GetValidate, PutValidate
    <2>2. val_queue' \in Seq(Samples)
      <3>1. val_queue \in Seq(Samples)  BY DEF Safety, TypeOK
      <3>2. CASE GetValidate  BY <3>1, <3>2 DEF GetValidate
      <3>3. ASSUME NEW x \in Samples, PutValidate(x)  PROVE val_queue' \in Seq(Samples)
        BY <3>1, <3>3 DEF PutValidate
      <3> QED  BY <1>4, <3>2, <3>3
    <2>3. TypeOK'  BY <2>1, <2>2 DEF counters, Safety, TypeOK
    <2> QED  BY <2>1, <2>3 DEF counters, Safety, NoLostWakeup, MustWait, Conservation
  <1>5. CASE UNCHANGED vars
    BY <1>5 DEF vars, Safety, TypeOK, NoLostWakeup, MustWait, Conservation
  <1> QED  BY <1>1, <1>2, <1>3, <1>4, <1>5

\* The three safety properties hold together in every reachable state.
THEOREM SafetyHolds == Spec => []Safety
  <1>1. Init => Safety
    <2> SUFFICES ASSUME Init  PROVE Safety
      OBVIOUS
    <2>1. TypeOK  BY CapacityAssumption DEF Init, TypeOK
    <2>2. NoLostWakeup  BY DEF Init, NoLostWakeup
    <2>3. Conservation  BY DEF Init, Conservation
    <2> QED  BY <2>1, <2>2, <2>3 DEF Safety
  <1>2. Safety /\ [Next]_vars => Safety'
    <2> SUFFICES ASSUME Safety, [Next]_vars  PROVE Safety'
      OBVIOUS
    <2>1. CASE \E x \in Samples : PutSample(x)  BY <2>1, PutPreserves
    <2>2. CASE \E c \in Consumers : TakeOrClose(c)  BY <2>2, TakePreserves
    <2>3. CASE \/ \E c \in Consumers : Park(c)
               \/ ClearQueue \/ Shutdown \/ GetValidate
               \/ \E x \in Samples : PutValidate(x)
               \/ UNCHANGED vars
      BY <2>3, OtherPreserves
    <2> QED  BY <2>1, <2>2, <2>3 DEF Next, GetSample, Resume
  <1> QED  BY <1>1, <1>2, PTL DEF Spec

\* The deque never exceeds max_queue_size.
THEOREM QueueTypeCorrect == Spec => []TypeOK
  <1>1. Safety => TypeOK  BY DEF Safety
  <1> QED  BY <1>1, SafetyHolds, PTL

\* No get_sample call sleeps next to a sample or after shutdown, whatever the
\* number of consumers that compete for the lock.
THEOREM WakeupsHold == Spec => []NoLostWakeup
  <1>1. Safety => NoLostWakeup  BY DEF Safety
  <1> QED  BY <1>1, SafetyHolds, PTL

\* get_statistics accounts for every sample ever put.
THEOREM ConservationHolds == Spec => []Conservation
  <1>1. Safety => Conservation  BY DEF Safety
  <1> QED  BY <1>1, SafetyHolds, PTL

\* Every step of the actor is a step of the atomic drop-oldest queue or leaves
\* it unchanged: parking, waking and re-testing are invisible to the clients.
THEOREM QueueRefinement == Spec => ImplementsSampleQueue
  <1>1. Init => Abstract!Init  BY DEF Init, Abstract!Init
  <1>2. [Next]_vars => [Abstract!Next]_(Abstract!aVars)
    <2> SUFFICES ASSUME [Next]_vars  PROVE [Abstract!Next]_(Abstract!aVars)
      OBVIOUS
    <2>1. ASSUME NEW x \in Samples, PutSample(x)  PROVE Abstract!Put(x)
      BY <2>1 DEF PutSample, Abstract!Put, PushDropOldest, IsFull,
                  Abstract!PushDropOldest, Abstract!IsFull
    <2>2. ASSUME NEW c \in Consumers, TakeOrClose(c)
          PROVE  Abstract!Get(c) \/ Abstract!GetClosed(c)
      BY <2>2 DEF TakeOrClose, MustWait, Abstract!Get, Abstract!GetClosed
    <2>3. CASE \E c \in Consumers : Park(c)
      BY <2>3 DEF Park, Abstract!aVars
    <2>4. CASE ClearQueue  BY <2>4 DEF ClearQueue, Abstract!Clear, Abstract!Next
    <2>5. CASE Shutdown  BY <2>5 DEF Shutdown, Abstract!Shutdown, Abstract!Next
    <2>6. CASE GetValidate \/ \E x \in Samples : PutValidate(x)
      BY <2>6 DEF GetValidate, PutValidate, Abstract!aVars
    <2>7. CASE UNCHANGED vars  BY <2>7 DEF vars, Abstract!aVars
    <2> QED
      BY <2>1, <2>2, <2>3, <2>4, <2>5, <2>6, <2>7
      DEF Next, GetSample, Resume, Abstract!Next
  <1> QED  BY <1>1, <1>2, PTL DEF Spec, ImplementsSampleQueue, Abstract!Spec
=============================================================================
