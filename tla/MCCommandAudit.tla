--------------------------- MODULE MCCommandAudit ---------------------------
(* A small instance of CommandAudit: two writers of rows for three deliveries. *)
EXTENDS CommandAudit, TLC

CONSTANTS w1, w2, d1, d2, d3

Symmetry == Permutations({w1, w2}) \cup Permutations({d1, d2, d3})

=============================================================================
