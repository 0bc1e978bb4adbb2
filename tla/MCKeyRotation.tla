---------------------------- MODULE MCKeyRotation ----------------------------
EXTENDS KeyRotation, TLC

CONSTANTS s1, s2, r1, r2, old, new, copy

(* Two Secrets hold the same key, a third one another. *)
MCMaterial == [s \in {old, new, copy} |-> IF s = new THEN "m2" ELSE "m1"]
Symmetric == Permutations({s1, s2}) \cup Permutations({r1, r2})
=============================================================================
