---------------------------- MODULE TokenBucket ----------------------------
(***************************************************************************)
(* AsyncTokenBucket.acquire, the rate limiter that the calls of            *)
(* RateLimitedRewardManager share.  The unit of time is that in which one  *)
(* token accrues, so rate_limit is 1.                                      *)
(***************************************************************************)
EXTENDS Integers, FiniteSets, Functions

CONSTANTS
  Calls,     \* calls of acquire
  Demands,   \* values of num_tokens
  MaxTokens, \* max_tokens
  Unset,     \* last_update is None
  MaxTime    \* bound: the clock

ASSUME BucketAssumption ==
  /\ IsFiniteSet(Calls) /\ Demands \subseteq Nat \ {0}
  /\ MaxTokens \in Nat \ {0} /\ MaxTime \in Nat /\ Unset \notin Nat

VARIABLES
  now,
  tokens, lastUpdate,
  demand,    \* per call, num_tokens
  call,      \* per call: "new", "sleep" (to try again), "drain" (to return), "returned"
  wakeAt,    \* per call, the end of its sleep
  returnedAt

bucketVars == <<now, tokens, lastUpdate, demand, call, wakeAt, returnedAt>>

BucketInit ==
  /\ now = 0
  /\ tokens = MaxTokens /\ lastUpdate = Unset
  /\ demand \in [Calls -> Demands]
  /\ call = [c \in Calls |-> "new"]
  /\ wakeAt = [c \in Calls |-> 0] /\ returnedAt = [c \in Calls |-> 0]

\* Defect: what accrues is not capped.
RefilledUncapped == tokens + (IF lastUpdate = Unset THEN 0 ELSE now - lastUpdate)

\* tokens after the refill for the time since last_update.
Refilled ==
  LET t == tokens + (IF lastUpdate = Unset THEN 0 ELSE now - lastUpdate) IN
  IF t < MaxTokens THEN t ELSE MaxTokens

\* The clock advances; a sleeper wakes at its time or later.
Tick ==
  /\ now < MaxTime
  /\ now' = now + 1
  /\ UNCHANGED <<tokens, lastUpdate, demand, call, wakeAt, returnedAt>>

Returns(c) ==
  /\ call' = [call EXCEPT ![c] = "returned"]
  /\ returnedAt' = [returnedAt EXCEPT ![c] = now]
  /\ UNCHANGED wakeAt

Sleeps(c, how, time) ==
  /\ call' = [call EXCEPT ![c] = how]
  /\ wakeAt' = [wakeAt EXCEPT ![c] = now + time]
  /\ UNCHANGED returnedAt

\* One round of the loop, under the lock: takes the tokens or sleeps.
Acquire(c) ==
  /\ demand[c] <= MaxTokens
  /\ call[c] = "new" \/ (call[c] = "sleep" /\ wakeAt[c] <= now)
  /\ lastUpdate' = now
  /\ \/ /\ Refilled >= demand[c]
        /\ tokens' = Refilled - demand[c]
        /\ Returns(c)
     \/ /\ Refilled < demand[c]
        /\ tokens' = Refilled
        /\ Sleeps(c, "sleep", demand[c] - Refilled)
  /\ UNCHANGED <<now, demand>>

\* num_tokens > max_tokens: the balance goes negative at once, and the call
\* sleeps for what is missing.
AcquireOversized(c) ==
  /\ demand[c] > MaxTokens /\ call[c] = "new"
  /\ lastUpdate' = now
  /\ tokens' = Refilled - demand[c]
  /\ Sleeps(c, "drain", demand[c] - Refilled)
  /\ UNCHANGED <<now, demand>>

Drained(c) ==
  /\ call[c] = "drain" /\ wakeAt[c] <= now
  /\ Returns(c)
  /\ UNCHANGED <<now, tokens, lastUpdate, demand>>

CallStep == \E c \in Calls : Acquire(c) \/ AcquireOversized(c) \/ Drained(c)

BucketNext == Tick \/ CallStep

BucketSpec == BucketInit /\ [][BucketNext]_bucketVars

-----------------------------------------------------------------------------
(* Properties *)

Granted(who, from) ==
  SumFunctionOnSet(demand, {c \in who : call[c] = "returned" /\ returnedAt[c] >= from})

\* The limit holds over any window of time for the calls of ordinary size,
\* whatever oversized calls come between, and since the start for all calls.
RateHeld ==
  /\ \A from \in 0..now :
       Granted({c \in Calls : demand[c] <= MaxTokens}, from) <= MaxTokens + (now - from)
  /\ Granted(Calls, 0) <= MaxTokens + now
=============================================================================
