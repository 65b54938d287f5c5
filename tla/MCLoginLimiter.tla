--------------------------- MODULE MCLoginLimiter ---------------------------
(* Two concurrent logins from two addresses, a limit of two attempts and a  *)
(* window of two ticks.  Three marks are enough: AttemptsBounded says that  *)
(* no Vec ever holds more than MaxAttempts - 1 + |Client| entries.          *)
EXTENDS LoginLimiter, TLC
=============================================================================
