----------------------------- MODULE MCWorkers ------------------------------
(* Two requests race for two workers with two descriptions and passwords:   *)
(* an update can overlap a delete, another update and a call.               *)
EXTENDS Workers, TLC

WorkersSymmetry ==
    Permutations(Id) \cup Permutations(Meta) \cup Permutations(Secret)
      \cup Permutations(Request)
=============================================================================
