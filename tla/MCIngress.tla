------------------------------ MODULE MCIngress ------------------------------
(* Small instances of Ingress: a read command, a mutation and an API caller.   *)
EXTENDS Ingress, TLC

CONSTANTS read, mutate, invalid, key, w1, w2, c1, c2

SomeCommand == read :> "read" @@ mutate :> "mutate" @@ invalid :> "invalid"
Symmetry == Permutations({w1, w2}) \cup Permutations({c1, c2})

=============================================================================
