-------------------------- MODULE MC_UpgradeNodes --------------------------
(* A small instance of UpgradeNodes for TLC.                               *)
EXTENDS UpgradeNodes, TLC

CONSTANTS n1, n2

NodeSymmetry == Permutations({n1, n2})
=============================================================================
