------------------------------ MODULE Generation ------------------------------
(***************************************************************************)
(* What FullyAsyncLLMServerClient.generate promises to an agent loop: one  *)
(* generation that nothing interrupts.  A response only grows, by one      *)
(* token at a time, each computed with one version of the weights that is  *)
(* not older than the version of the token before it, and an answer that   *)
(* has been returned never changes.                                        *)
(***************************************************************************)
EXTENDS Naturals, Sequences, SequencesExt

CONSTANTS Requests, Versions

VARIABLES response, returned

vars == <<response, returned>>

Init ==
  /\ response = [r \in Requests |-> <<>>]
  /\ returned = [r \in Requests |-> FALSE]

\* One token of r is computed with version v; it may be the last one.
Grow(r, v) ==
  /\ ~returned[r]
  /\ response[r] = <<>> \/ Last(response[r]) <= v
  /\ response' = [response EXCEPT ![r] = Append(@, v)]
  /\ returned' \in {returned, [returned EXCEPT ![r] = TRUE]}

Next == \E r \in Requests, v \in Versions : Grow(r, v)

Spec == Init /\ [][Next]_vars
=============================================================================
