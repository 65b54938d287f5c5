------------------------------ MODULE Registry ------------------------------
(***************************************************************************)
(* What the workers table promises to an admin: a table whose operations   *)
(* are atomic.  A worker is added under an identity that was never used, a *)
(* change replaces its description and, if it brings one, its password,    *)
(* and a worker that was removed never comes back.                         *)
(***************************************************************************)
CONSTANTS
    Id,       \* identities of workers
    Meta,     \* descriptions: name, kind, url and username
    Secret    \* passwords

VARIABLES
    workers,  \* the row of each registered worker
    issued    \* the identities used so far

vars == <<workers, issued>>

Row == [meta : Meta, secret : Secret]

Init == workers = [id \in {} |-> 0] /\ issued = {}

Add(id) ==
    /\ id \notin issued
    /\ issued' = issued \cup {id}
    /\ \E row \in Row :
         workers' = [k \in DOMAIN workers \cup {id} |->
                       IF k = id THEN row ELSE workers[k]]

Change(id) ==
    /\ id \in DOMAIN workers
    /\ \E meta \in Meta, secret \in Secret \cup {workers[id].secret} :
         workers' = [workers EXCEPT ![id] = [meta |-> meta, secret |-> secret]]
    /\ UNCHANGED issued

Remove(id) ==
    /\ id \in DOMAIN workers
    /\ workers' = [k \in DOMAIN workers \ {id} |-> workers[k]]
    /\ UNCHANGED issued

Next == \E id \in Id : Add(id) \/ Change(id) \/ Remove(id)

Spec == Init /\ [][Next]_vars
=============================================================================
