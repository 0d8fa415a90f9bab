----------------------------- MODULE MCFolderRun -----------------------------
(* Small instances of FolderRun. *)
EXTENDS FolderRun, TLC

CONSTANTS f1, f2

\* A pipeline of two steps, and a run without a pipeline.
TwoSteps == [f \in Folders |-> IF f = f1 THEN 1 ELSE 2]
OneStep  == [f \in Folders |-> 1]

\* Sound for OneStep only.
FolderSymmetry == Permutations(Folders)

=============================================================================
