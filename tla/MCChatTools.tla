---------------------------- MODULE MCChatTools -----------------------------
(* Two polls at a time can overtake each other, two models can be selected  *)
(* in turn, and two messages fill the window that a listing has.            *)
EXTENDS ChatTools

CONSTANTS m1, m2

MCModel == {m1, m2}
MCContext == [m \in MCModel |-> IF m = m1 THEN 1 ELSE 0]
=============================================================================
