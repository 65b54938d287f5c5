------------------------------- MODULE MCChat -------------------------------
(* Two tabs on one session and two requests: enough for a submit held back  *)
(* behind another, for a retry after an error, and for a handler that goes  *)
(* on after its tab has turned to the next request.  ChatProofs proves the  *)
(* safety properties for any number of each.                                *)
EXTENDS Chat, TLC
=============================================================================
