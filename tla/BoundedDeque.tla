---------------------------- MODULE BoundedDeque ----------------------------
(***************************************************************************)
(* The drop-oldest deque under MessageQueue (message_queue.py): a deque of *)
(* max_queue_size items in which a put never blocks; when the deque is     *)
(* full the oldest item is removed first.                                  *)
(***************************************************************************)
EXTENDS Naturals, Sequences

\* Defect: one item too many fits.
IsFullOffByOne(q, cap) == Len(q) > cap

\* len(self.queue) >= self.max_queue_size
IsFull(q, cap) == Len(q) >= cap

\* The queue after put_sample(x): popleft when full, then append.
PushDropOldest(q, cap, x) == Append(IF IsFull(q, cap) THEN Tail(q) ELSE q, x)
=============================================================================
