-------------------------- MODULE MCNodeMaintenance --------------------------
(* Instances of NodeMaintenance for TLC.                                   *)
EXTENDS NodeMaintenance, TLC

Symmetry == Permutations(DPUs)
=============================================================================
