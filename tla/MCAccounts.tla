----------------------------- MODULE MCAccounts -----------------------------
(* Requests, usernames and session tokens are interchangeable: nothing in   *)
(* the handlers compares them with anything but each other.  Invites are    *)
(* not, since only some of them are unreadable.  Two tokens let an admin    *)
(* and a member be signed in at the same time.                              *)
EXTENDS Accounts, TLC

AccountSymmetry ==
    Permutations(Request) \cup Permutations(Username) \cup Permutations(Token)
=============================================================================
