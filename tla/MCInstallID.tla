---------------------------- MODULE MCInstallID ----------------------------
(* InstallID for TLC: a few runs of one CLI, interchangeable.              *)
EXTENDS InstallID, TLC

RunSymmetry == Permutations(Processes)
=============================================================================
