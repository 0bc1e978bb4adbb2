------------------------------ MODULE HostLease ------------------------------
(***************************************************************************)
(* What a node maintenance promises to the DPUs of a host, without objects *)
(* and controllers.  The host is leased to its DPUs together: the lease is *)
(* asked for, granted, closed and free again, in this order.  A DPU works  *)
(* under the node effect only if it came while the lease was granted, and  *)
(* the effect is put on the host before the lease is granted and taken     *)
(* away after it is closed and the last of them has left.                  *)
(***************************************************************************)
CONSTANT DPUs

VARIABLES stage,    \* of the lease: "free", "asked", "granted" or "closing"
          holders,  \* the DPUs that work under the node effect
          placed,   \* something of the node effect is on the host
          inForce   \* the node effect is in place

vars == <<stage, holders, placed, inForce>>

Init ==
    /\ stage = "free" /\ holders = {} /\ ~placed
    /\ inForce \in BOOLEAN

Ask ==
    /\ stage = "free" /\ stage' = "asked"
    /\ UNCHANGED <<holders, placed, inForce>>

\* The effect is put on the host.  What is in place stays in place.
Place ==
    /\ stage \in {"asked", "closing"}
    /\ placed' = TRUE
    /\ inForce => inForce'
    /\ UNCHANGED <<stage, holders>>

Grant ==
    /\ stage = "asked" /\ inForce
    /\ stage' = "granted"
    /\ UNCHANGED <<holders, placed, inForce>>

Enter(d) ==
    /\ stage = "granted"
    /\ holders' = holders \cup {d}
    /\ UNCHANGED <<stage, placed, inForce>>

\* DPUs go on, fail or are deleted; several at once when the manager restarts.
Leave ==
    /\ holders' \subseteq holders
    /\ UNCHANGED <<stage, placed, inForce>>

\* A lease may be closed while it is held: the holders keep the effect.
Close ==
    /\ stage \in {"asked", "granted"} /\ stage' = "closing"
    /\ UNCHANGED <<holders, placed, inForce>>

Withdraw ==
    /\ stage = "closing" /\ holders = {}
    /\ placed' = FALSE
    /\ UNCHANGED <<stage, holders>>

Free ==
    /\ stage \in {"asked", "closing"} /\ holders = {} /\ ~placed
    /\ stage' = "free"
    /\ UNCHANGED <<holders, placed, inForce>>

Next ==
    \/ Ask \/ Place \/ Grant \/ Leave \/ Close \/ Withdraw \/ Free
    \/ \E d \in DPUs : Enter(d)

Spec == Init /\ [][Next]_vars
=============================================================================
