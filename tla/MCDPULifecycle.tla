---------------------------- MODULE MCDPULifecycle ----------------------------
(* DPULifecycle for TLC. *)
EXTENDS DPULifecycle, TLC

(* The DPUs are interchangeable: sound for the runs that check invariants. *)
Symmetry == Permutations(DPUs)
=============================================================================
