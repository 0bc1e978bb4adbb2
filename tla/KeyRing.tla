------------------------------- MODULE KeyRing -------------------------------
(***************************************************************************)
(* What a key rotation promises to the objects that are stored encrypted,  *)
(* without any of its mechanism: there is a ring of keys with which every  *)
(* reader can decrypt, an object is only ever written under a key of the   *)
(* ring, and a key leaves the ring only when no object needs it.           *)
(***************************************************************************)
CONSTANTS Objects, Keys

VARIABLES ring,   \* the keys that every reader has
          data    \* the key under which each object is stored

vars == <<ring, data>>

Init == /\ ring \in SUBSET Keys
        /\ data \in [Objects -> ring]

(* An object is written under a key that every reader has. *)
Write(o) == /\ \E k \in ring : data' = [data EXCEPT ![o] = k]
            /\ UNCHANGED ring

(* The ring changes, and keeps every key that an object is stored under. *)
Turn == /\ ring' \in SUBSET Keys
        /\ \A o \in Objects : data[o] \in ring'
        /\ UNCHANGED data

Next == Turn \/ \E o \in Objects : Write(o)

Spec == Init /\ [][Next]_vars
=============================================================================
