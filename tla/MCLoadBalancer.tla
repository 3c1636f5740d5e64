---------------------------- MODULE MCLoadBalancer ----------------------------
(* HybridValidation, with its LoadBalancer, for TLC.  Requests, and hybrid    *)
(* servers, are interchangeable in every property.                            *)
EXTENDS HybridValidation, TLC

Symmetry == Permutations(Requests) \cup Permutations(Hybrid)
=============================================================================
