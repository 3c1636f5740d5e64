--------------------------- MODULE MCPartialRollout ---------------------------
(* PartialRollout for TLC.  The first request has a prompt shorter than       *)
(* prompt_length, the second one a prompt that fills it.                      *)
EXTENDS PartialRollout, TLC

CONSTANTS Short, Long

MCPrompt == (Short :> 1) @@ (Long :> PromptLength)
=============================================================================
