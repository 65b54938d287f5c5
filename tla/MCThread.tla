------------------------------ MODULE MCThread ------------------------------
(* Two messages arrive while the page is open: listings with 0, 1 and 2     *)
(* messages can overtake each other, and the window of one message cuts the *)
(* first one off until an older listing brings it back.                     *)
EXTENDS Thread
=============================================================================
