----------------------------- MODULE MCRunLocks -----------------------------
(* Small instances of RunLocks. *)
EXTENDS RunLocks, TLC

\* Runs and folders are interchangeable: the specification only compares them.
Symmetry == Permutations(Runs) \cup Permutations(Folders)

=============================================================================
