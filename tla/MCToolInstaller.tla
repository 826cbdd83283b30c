-------------------------- MODULE MCToolInstaller --------------------------
(* Instances of ToolInstaller for TLC.                                     *)
EXTENDS ToolInstallerProps, TLC

CONSTANTS j1, j2
JobSymmetry == Permutations(Jobs)
=============================================================================
