---------------------------- MODULE MessageQueue ----------------------------
(***************************************************************************)
(* The Ray actor of message_queue.py.  Every method runs its critical      *)
(* section under one asyncio lock and only get_sample awaits inside it, on *)
(* a Condition of that lock, which releases the lock.  So a method body is *)
(* one atomic step, except that a get_sample call that finds nothing       *)
(* parks ("waiting"), is notified ("woken") and re-tests later, after any  *)
(* number of other calls have run.                                         *)
(***************************************************************************)
EXTENDS BoundedDeque

CONSTANTS
  Consumers,     \* get_sample calls that may be open at the same time
  Samples,       \* payloads of the sample queue
  MaxQueueSize,  \* max_queue_size
  Closed,        \* get_sample's None
  NoReply,       \* no call of this consumer has returned yet
  MaxProduced,   \* bound: put_sample calls
  MaxValidate    \* bound: length of val_queue

ASSUME CapacityAssumption == MaxQueueSize \in Nat \ {0}

ASSUME BoundsAssumption == MaxProduced \in Nat /\ MaxValidate \in Nat

ASSUME RepliesAssumption == Closed \notin Samples /\ NoReply \notin Samples

VARIABLES
  queue, val_queue, running,
  total_produced, total_consumed, dropped_samples,
  cleared,  \* sum of clear_queue's cleared_count
  call,     \* state of each consumer's get_sample call
  reply     \* what its last finished call returned

vars == <<queue, val_queue, running, total_produced, total_consumed,
          dropped_samples, cleared, call, reply>>

counters == <<total_produced, total_consumed, dropped_samples, cleared>>

Init ==
  /\ queue = <<>>
  /\ val_queue = <<>>
  /\ running = TRUE
  /\ total_produced = 0
  /\ total_consumed = 0
  /\ dropped_samples = 0
  /\ cleared = 0
  /\ call = [c \in Consumers |-> "idle"]
  /\ reply = [c \in Consumers |-> NoReply]

\* Defect: notify() where the code has notify_all().
NotifyOne ==
  IF \E c \in Consumers : call[c] = "waiting"
  THEN [call EXCEPT ![CHOOSE c \in Consumers : call[c] = "waiting"] = "woken"]
  ELSE call

\* Defect: the notification is forgotten.
NotifyNone == call

\* _consumer_condition.notify_all(): every parked call becomes runnable.
NotifyAll == [c \in Consumers |-> IF call[c] = "waiting" THEN "woken" ELSE call[c]]

\* Defect: the deque's own maxlen discards the oldest item, uncounted.
PutSampleUncounted(x) ==
  /\ total_produced < MaxProduced
  /\ queue' = PushDropOldest(queue, MaxQueueSize, x)
  /\ total_produced' = total_produced + 1
  /\ call' = NotifyAll
  /\ UNCHANGED <<val_queue, running, total_consumed, dropped_samples, cleared, reply>>

PutSample(x) ==
  /\ total_produced < MaxProduced
  /\ dropped_samples' = dropped_samples + (IF IsFull(queue, MaxQueueSize) THEN 1 ELSE 0)
  /\ queue' = PushDropOldest(queue, MaxQueueSize, x)
  /\ total_produced' = total_produced + 1
  /\ call' = NotifyAll
  /\ UNCHANGED <<val_queue, running, total_consumed, cleared, reply>>

\* The while test of get_sample: nothing to return yet.
MustWait == queue = <<>> /\ running

\* Defect: pop() where the code has popleft().
TakeNewest(c) ==
  /\ queue # <<>>
  /\ call' = [call EXCEPT ![c] = "idle"]
  /\ reply' = [reply EXCEPT ![c] = queue[Len(queue)]]
  /\ queue' = SubSeq(queue, 1, Len(queue) - 1)
  /\ total_consumed' = total_consumed + 1
  /\ UNCHANGED <<val_queue, running, total_produced, dropped_samples, cleared>>

\* The tail of get_sample, with its two returns.
TakeOrClose(c) ==
  /\ ~MustWait
  /\ call' = [call EXCEPT ![c] = "idle"]
  /\ \/ /\ queue # <<>>
        /\ reply' = [reply EXCEPT ![c] = Head(queue)]
        /\ queue' = Tail(queue)
        /\ total_consumed' = total_consumed + 1
     \/ /\ queue = <<>>
        /\ reply' = [reply EXCEPT ![c] = Closed]
        /\ UNCHANGED <<queue, total_consumed>>
  /\ UNCHANGED <<val_queue, running, total_produced, dropped_samples, cleared>>

Park(c) ==
  /\ MustWait
  /\ call' = [call EXCEPT ![c] = "waiting"]
  /\ UNCHANGED <<queue, val_queue, running, counters, reply>>

GetSample(c) == call[c] = "idle" /\ (Park(c) \/ TakeOrClose(c))

\* A notified call takes the lock again and re-tests its condition.
Resume(c) == call[c] = "woken" /\ (Park(c) \/ TakeOrClose(c))

ClearQueue ==
  /\ queue' = <<>>
  /\ cleared' = cleared + Len(queue)
  /\ UNCHANGED <<val_queue, running, total_produced, total_consumed,
                 dropped_samples, call, reply>>

\* Defect: shutdown does not wake the parked calls.
ShutdownSilently ==
  /\ running' = FALSE
  /\ UNCHANGED <<queue, val_queue, counters, call, reply>>

Shutdown ==
  /\ running' = FALSE
  /\ call' = NotifyAll
  /\ UNCHANGED <<queue, val_queue, counters, reply>>

PutValidate(x) ==
  /\ Len(val_queue) < MaxValidate
  /\ val_queue' = Append(val_queue, x)
  /\ UNCHANGED <<queue, running, counters, call, reply>>

\* get_validate on an empty val_queue returns None and changes nothing.
GetValidate ==
  /\ val_queue # <<>>
  /\ val_queue' = Tail(val_queue)
  /\ UNCHANGED <<queue, running, counters, call, reply>>

Next ==
  \/ \E x \in Samples : PutSample(x) \/ PutValidate(x)
  \/ \E c \in Consumers : GetSample(c) \/ Resume(c)
  \/ ClearQueue
  \/ Shutdown
  \/ GetValidate

\* The event loop eventually runs a coroutine whose future is resolved.
Fairness == \A c \in Consumers : WF_vars(Resume(c))

Spec == Init /\ [][Next]_vars /\ Fairness

-----------------------------------------------------------------------------
(* Properties *)

\* The shape of the actor's state: the sample deque never exceeds
\* max_queue_size whatever put_sample does.
TypeOK ==
  /\ queue \in Seq(Samples) /\ Len(queue) <= MaxQueueSize
  /\ val_queue \in Seq(Samples)
  /\ running \in BOOLEAN
  /\ total_produced \in Nat /\ total_consumed \in Nat
  /\ dropped_samples \in Nat /\ cleared \in Nat
  /\ call \in [Consumers -> {"idle", "waiting", "woken"}]
  /\ reply \in [Consumers -> Samples \cup {Closed, NoReply}]

\* No lost wakeup: no get_sample call is parked on the condition while there
\* is a sample to take or after shutdown; every such call has been notified.
NoLostWakeup == ~MustWait => \A c \in Consumers : call[c] # "waiting"

\* The counters of get_statistics account for every sample ever put: taken,
\* dropped by a put into a full queue, removed by clear_queue, or still here.
Conservation ==
  total_produced = total_consumed + dropped_samples + cleared + Len(queue)

Abstract == INSTANCE SampleQueue

\* With its lock, condition and wakeups the actor implements the atomic
\* drop-oldest queue that its clients assume.
ImplementsSampleQueue == Abstract!Spec

\* shutdown ("Notify all waiting coroutines so they can exit") releases every
\* blocked get_sample call.
ShutdownReleases ==
  \A c \in Consumers : (~running /\ call[c] # "idle") ~> call[c] = "idle"

\* A blocked consumer is served, or another consumer (or clear_queue) has
\* emptied the queue in the meantime.
BlockedIsServed ==
  \A c \in Consumers :
    (call[c] # "idle" /\ queue # <<>>) ~> (call[c] = "idle" \/ queue = <<>>)
=============================================================================
