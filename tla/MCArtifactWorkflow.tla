-------------------------- MODULE MCArtifactWorkflow --------------------------
(* Small instances of ArtifactWorkflow for TLC.  Processes are             *)
(* interchangeable: nothing in the workflow tells two of them apart.       *)
EXTENDS ArtifactWorkflow, TLC

Symmetry == Permutations(Procs)

=============================================================================
