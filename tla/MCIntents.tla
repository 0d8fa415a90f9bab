------------------------------ MODULE MCIntents ------------------------------
(* Small instances of Intents: a pipeline of two folders, a request for its first *)
(* step, one for its second or for all folders, and two confirmations.         *)
EXTENDS Intents, TLC

CONSTANTS r1, r2, a, b, c1, c2

SomeSteps == r1 :> {1} @@ r2 :> {0, 2}
Symmetry == Permutations({a, b}) \cup Permutations({c1, c2})

=============================================================================
