----------------------------- MODULE SampleQueue -----------------------------
(***************************************************************************)
(* What MessageQueue promises its clients, with no lock, no condition and  *)
(* no waiting set: put never blocks and loses at most the oldest item, get *)
(* takes the oldest item in one step, and the closed empty queue answers   *)
(* Closed.  FullyAsync uses the queue at this level of detail.             *)
(***************************************************************************)
EXTENDS BoundedDeque

CONSTANTS
  Consumers,     \* concurrent get_sample calls
  Samples,       \* payloads
  MaxQueueSize,  \* capacity of the deque
  Closed,        \* the None that get_sample returns after shutdown
  NoReply        \* a consumer that has received nothing yet

VARIABLES queue, running, reply

aVars == <<queue, running, reply>>

Init ==
  /\ queue = <<>>
  /\ running = TRUE
  /\ reply = [c \in Consumers |-> NoReply]

Put(x) ==
  /\ queue' = PushDropOldest(queue, MaxQueueSize, x)
  /\ UNCHANGED <<running, reply>>

Get(c) ==
  /\ queue # <<>>
  /\ reply' = [reply EXCEPT ![c] = Head(queue)]
  /\ queue' = Tail(queue)
  /\ UNCHANGED running

GetClosed(c) ==
  /\ queue = <<>>
  /\ ~running
  /\ reply' = [reply EXCEPT ![c] = Closed]
  /\ UNCHANGED <<queue, running>>

Clear ==
  /\ queue' = <<>>
  /\ UNCHANGED <<running, reply>>

Shutdown ==
  /\ running' = FALSE
  /\ UNCHANGED <<queue, reply>>

Next ==
  \/ \E x \in Samples : Put(x)
  \/ \E c \in Consumers : Get(c) \/ GetClosed(c)
  \/ Clear
  \/ Shutdown

Spec == Init /\ [][Next]_aVars
=============================================================================
