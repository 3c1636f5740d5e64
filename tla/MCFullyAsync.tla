----------------------------- MODULE MCFullyAsync -----------------------------
(* FullyAsync for TLC. *)
EXTENDS FullyAsync
=============================================================================
