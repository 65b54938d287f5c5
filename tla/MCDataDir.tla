----------------------------- MODULE MCDataDir ------------------------------
(* Three crashes in a new directory or one of the old name, with two        *)
(* workers: one may be in the old main file and the other in its log.       *)
EXTENDS DataDir
=============================================================================
