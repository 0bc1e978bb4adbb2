------------------------ MODULE NodeMaintenanceProofs ------------------------
(***************************************************************************)
(* Machine-checked proofs about NodeMaintenance, for any set of DPUs.      *)
(***************************************************************************)
EXTENDS NodeMaintenance, TLAPS

(* What the DPUNodeMaintenance controller knows of the object: during a    *)
(* reconcile the finalizer keeps it, the removal only runs on a deleted    *)
(* object, and nothing is on the host before the finalizer is.             *)
ObjectInv ==
    /\ ctl # "idle" => dnm.exists /\ dnm.finalizer
    /\ ctl \in {"remove", "unfinalize"} => dnm.deleting
    /\ dnm.deleting => dnm.finalizer
    /\ ~dnm.exists => ~dnm.deleting /\ ~dnm.finalizer /\ dnm.requestor = {}
    /\ ~dnm.finalizer => dnm.applied = "nil" /\ effect = "none"
    /\ ctl = "unfinalize" => effect = "none"
    /\ kind \in {"NoEffect", "Hold"} => effect = "none"

\* How the phase of a DPU, its reconcile and its DPUNode go together.
PhaseInv ==
    /\ \A d \in DPUs :
          /\ pc[d] \in {"join", "joinApplied", "complete"} => phase[d] = "NodeEffect"
          /\ phase[d] \in {"Deleting", "Gone"} => d \in deleting
    /\ ~dpuNode => \A d \in DPUs : phase[d] \in {"Deleting", "Gone"}

(* When the condition is True or about to become True the effect is there, *)
(* and a reconcile that applies the effect works on an unapplied object.   *)
AppliedInv ==
    /\ IsNodeEffectApplied(dnm) /\ ~dnm.deleting => InForce
    /\ ctl = "applied" => InForce
    /\ ctl \in {"apply", "applied", "processing", "failed"}
          => ~IsNodeEffectApplied(dnm)

(* The strengthening of EffectHeld: a committed DPU is covered and the     *)
(* withdrawal of the effect has not begun.                                 *)
HeldInv ==
    \A d \in DPUs : Committed(d) =>
        Covered(d) /\ ctl \notin {"remove", "unfinalize"}

IndInv ==
    /\ TypeOK /\ ObjectInv /\ PhaseInv /\ AppliedInv /\ HeldInv
    /\ NoOrphanRequestor /\ ~svc.busy

-----------------------------------------------------------------------------
(* Type correctness.                                                       *)

\* No object at all is a value of the object's type.
LEMMA AbsentType == Absent \in DNM
  BY Zenon DEF Absent, DNM, Requestors

\* What UpdateDPUNodeMaintenanceRequestors writes is well typed.
LEMMA UpdateType ==
  ASSUME NEW m \in DNM, NEW d \in DPUs,
         NEW r \in SUBSET Requestors, NEW w \in SUBSET Services
  PROVE  [m EXCEPT !.requestor = r, !.lastApplied[d] = w] \in DNM
  BY Zenon DEF DNM

\* What addRequestorAndUpdateForce writes is well typed.
LEMMA JoinType ==
  ASSUME NEW m \in DNM, NEW d \in DPUs, NEW r \in SUBSET Requestors,
         NEW a \in SUBSET DPUs, NEW w \in SUBSET Services
  PROVE  [m EXCEPT !.requestor = r, !.annotated = a, !.lastApplied[d] = w] \in DNM
  BY Zenon DEF DNM

\* Every step of either controller and of the environment keeps the types.
LEMMA TypeStep == TypeOK /\ [Next]_vars => TypeOK'
  <1> SUFFICES ASSUME TypeOK, [Next]_vars, kind' = kind
               PROVE  TypeOK'
    BY Zenon DEF Next, vars
  <1>1. ASSUME NEW d \in DPUs, Reconcile(d) PROVE TypeOK'
    <2> DEFINE r == want[d] \cup findOutDPURequestors(dnm.lastApplied[d], dnm.requestor)
    <2>1. want[d] \in SUBSET Services /\ r \in SUBSET Requestors
      BY Zenon DEF TypeOK, DNM, Requestors, findOutDPURequestors
    <2>2. [dnm EXCEPT !.requestor = r, !.lastApplied[d] = want[d]] \in DNM
      BY Zenon, <2>1, UpdateType DEF TypeOK
    <2> QED
      BY Zenon, <1>1, <2>2 DEF Reconcile, UpdateDPUNodeMaintenanceRequestors, TypeOK
  <1>2. ASSUME NEW d \in DPUs, ToDeleting(d) PROVE TypeOK'
    BY Zenon, <1>2
       DEF ToDeleting, NextPhase, objVars, dpuVars, TypeOK, Phases,
           Requestors
  <1>3. ASSUME NEW d \in DPUs, Pending(d) PROVE TypeOK'
    BY <1>3
       DEF Pending, NextPhase, Handling, objVars, dpuVars, TypeOK, Phases,
           Requestors
  <1>4. ASSUME NEW d \in DPUs, NodeEffect(d) PROVE TypeOK'
    <2>1. want[d] \in SUBSET Services /\ want[d] \cup {d} \in SUBSET Requestors
      BY Zenon DEF TypeOK, Requestors
    <2>2. [Absent EXCEPT !.exists = TRUE, !.requestor = want[d] \cup {d},
                         !.annotated = {d}, !.lastApplied[d] = want[d]] \in DNM
      BY Zenon, <2>1, AbsentType DEF DNM
    <2>3. dnm' \in DNM
      BY Zenon, <1>4, <2>2 DEF NodeEffect, createDPUNodeMaintenance, TypeOK
    <2> QED
      BY <1>4, <2>3 DEF NodeEffect, NextPhase, Handling, TypeOK, Phases
  <1>5. ASSUME NEW d \in DPUs, addRequestorAndUpdateForce(d) PROVE TypeOK'
    <2>1. /\ want[d] \in SUBSET Services
          /\ dnm.requestor \cup {d} \cup want[d] \in SUBSET Requestors
          /\ dnm.annotated \cup {d} \in SUBSET DPUs
      BY ZenonT(40) DEF TypeOK, DNM, Requestors
    <2>2. [dnm EXCEPT !.requestor = @ \cup {d} \cup want[d],
                      !.annotated = @ \cup {d},
                      !.lastApplied[d] = want[d]] \in DNM
      BY Zenon, <2>1, JoinType DEF TypeOK
    <2>3. dnm' \in DNM
      BY Zenon, <1>5, <2>2 DEF addRequestorAndUpdateForce, TypeOK
    <2> QED
      BY <1>5, <2>3
         DEF addRequestorAndUpdateForce, NextPhase, TypeOK, Phases
  <1>6. ASSUME NEW d \in DPUs, handleNodeEffectCompletion(d) PROVE TypeOK'
    BY Zenon, <1>6
       DEF handleNodeEffectCompletion, NextPhase, objVars, dpuVars, TypeOK,
           Phases, Requestors
  <1>7. ASSUME NEW d \in DPUs, Provision(d) PROVE TypeOK'
    BY <1>7
       DEF Provision, NextPhase, objVars, dpuVars, TypeOK, Phases,
           Requestors
  <1>7a. ASSUME NEW d \in DPUs, StartInPlaceReconfig(d) PROVE TypeOK'
    BY Zenon, <1>7a
       DEF StartInPlaceReconfig, NextPhase, objVars, dpuVars, TypeOK, Phases,
           Requestors
  <1>8. ASSUME NEW d \in DPUs, NodeEffectRemoval(d) PROVE TypeOK'
    BY <1>8
       DEF NodeEffectRemoval, NextPhase, Handling,
           RemoveRequestorFromDPUNodeMaintenance, objVars, dpuVars, TypeOK,
           Phases, Requestors, DNM
  <1>9. ASSUME NEW d \in DPUs, Ready(d) PROVE TypeOK'
    BY <1>9
       DEF Ready, NextPhase, Handling, objVars, dpuVars, TypeOK, Phases,
           Requestors
  <1>10. ASSUME NEW d \in DPUs, Error(d) PROVE TypeOK'
    BY <1>10
       DEF Error, NextPhase, Handling,
           RemoveRequestorFromDPUNodeMaintenance, objVars, dpuVars, TypeOK,
           Phases, Requestors, DNM
  <1>11. ASSUME NEW d \in DPUs, Deleting(d) PROVE TypeOK'
    BY <1>11
       DEF Deleting, NextPhase, Handling,
           RemoveRequestorFromDPUNodeMaintenance, objVars, dpuVars, TypeOK,
           Phases, Requestors, DNM
  <1>12. ASSUME NEW d \in DPUs, ReconcileFails(d) PROVE TypeOK'
    BY Zenon, <1>12
       DEF ReconcileFails, objVars, dpuVars, TypeOK, Phases, Requestors
  <1>13. ASSUME NEW d \in DPUs, DeleteDPU(d) PROVE TypeOK'
    BY Zenon, <1>13
       DEF DeleteDPU, objVars, dpuVars, TypeOK, Phases, Requestors
  <1>14. ASSUME NEW d \in DPUs, CreateDPU(d) PROVE TypeOK'
    BY Zenon, <1>14
       DEF CreateDPU, objVars, dpuVars, TypeOK, Phases, Requestors
  <1>15. ASSUME NEW d \in DPUs, SetAdditionalRequestors(d) PROVE TypeOK'
    BY <1>15
       DEF SetAdditionalRequestors, objVars, dpuVars, TypeOK, Phases,
           Requestors
  <1>16. CASE ctlAddFinalizer
    BY Zenon, <1>16
       DEF ctlAddFinalizer, ctlFrame, objVars, dpuVars, TypeOK, Phases,
           Requestors, DNM
  <1>17. CASE ctlRead
    BY Zenon, <1>17
       DEF ctlRead, IsNodeEffectApplied, ctlFrame, objVars, dpuVars,
           TypeOK, Phases, Requestors
  <1>18. CASE ctlDelete
    BY Zenon, <1>18
       DEF ctlDelete, ctlFrame, objVars, dpuVars, TypeOK, Phases,
           Requestors, DNM
  <1>19. CASE checkMaxUnavailableAndSyncWaitTime
    BY Zenon, <1>19
       DEF checkMaxUnavailableAndSyncWaitTime, ctlFrame, objVars, dpuVars,
           TypeOK, Phases, Requestors, DNM
  <1>20. CASE reconcileEffect
    BY Zenon, <1>20
       DEF reconcileEffect, ctlFrame, objVars, dpuVars, TypeOK, Phases,
           Requestors
  <1>21. CASE ctlPatch
    BY Zenon, <1>21
       DEF ctlPatch, ctlFrame, objVars, dpuVars, TypeOK, Phases,
           Requestors, DNM
  <1>22. CASE handleNodeEffectRemoval
    BY Zenon, <1>22
       DEF handleNodeEffectRemoval, ctlFrame, objVars, dpuVars, TypeOK,
           Phases, Requestors
  <1>23. CASE ctlRemoveFinalizer
    BY <1>23, AbsentType
       DEF ctlRemoveFinalizer, ctlFrame, objVars, dpuVars, TypeOK, Phases,
           Requestors, DNM
  <1>24. CASE reconcileDeleteWithoutNode
    BY Zenon, <1>24, AbsentType
       DEF reconcileDeleteWithoutNode, ctlFrame, objVars, dpuVars, TypeOK,
           Phases, Requestors, DNM
  <1>25. CASE ctlFails
    BY Zenon, <1>25
       DEF ctlFails, ctlFrame, objVars, dpuVars, TypeOK, Phases, Requestors
  <1>26. CASE svcRead
    <2>1. dnm.requestor \in SUBSET Requestors
      BY Zenon DEF TypeOK, DNM
    <2> QED
      BY <1>26, <2>1 DEF svcRead, objVars, dpuVars, TypeOK
  <1>27. CASE patchDPUNodeMaintenanceObjects
    BY Zenon, <1>27
       DEF patchDPUNodeMaintenanceObjects, objVars, dpuVars, TypeOK,
           Phases, Requestors, DNM
  <1>28. CASE EffectProgress
    BY Zenon, <1>28
       DEF EffectProgress, objVars, dpuVars, TypeOK, Phases, Requestors
  <1>29. CASE ReleaseHold
    BY Zenon, <1>29
       DEF ReleaseHold, objVars, dpuVars, TypeOK, Phases, Requestors, DNM
  <1>30. CASE DeleteMaintenance
    BY ZenonT(40), <1>30, AbsentType
       DEF DeleteMaintenance, objVars, dpuVars, TypeOK, Phases, Requestors,
           DNM
  <1>31. CASE DeleteDPUNode
    BY Zenon, <1>31 DEF DeleteDPUNode, dpuVars, TypeOK
  <1>32. CASE CreateDPUNode
    BY Zenon, <1>32
       DEF CreateDPUNode, objVars, dpuVars, TypeOK, Phases, Requestors
  <1>33. CASE Upgrade
    BY Zenon, <1>33
       DEF Upgrade, objVars, dpuVars, TypeOK, Phases, Requestors
  <1>34. CASE Restart
    BY Zenon, <1>34
       DEF Restart, objVars, dpuVars, TypeOK, Phases, Requestors
  <1>35. CASE UNCHANGED stateVars
    BY Zenon, <1>35 DEF stateVars, TypeOK
  <1> QED
    BY Zenon, <1>1, <1>2, <1>3, <1>4, <1>5, <1>6, <1>7, <1>7a, <1>8, <1>9, <1>10, <1>11,
       <1>12, <1>13, <1>14, <1>15, <1>16, <1>17, <1>18, <1>19, <1>20,
       <1>21, <1>22, <1>23, <1>24, <1>25, <1>26, <1>27, <1>28, <1>29,
       <1>30, <1>31, <1>32, <1>33, <1>34, <1>35
       DEF Next, DPUStep, CtlStep, EnvStep, vars, stateVars

\* Everything starts well typed.
LEMMA InitType == Init => TypeOK
  <1> SUFFICES ASSUME Init PROVE TypeOK
    OBVIOUS
  <1>1. kind \in Kinds /\ dnm \in DNM
    BY Zenon, AbsentType, ConstantsAssumption DEF Init
  <1>2. /\ phase \in [DPUs -> Phases]
        /\ pc \in [DPUs -> {"idle", "handle", "join", "joinApplied", "complete"}]
        /\ want \in [DPUs -> SUBSET Services]
    BY Zenon DEF Init, Phases
  <1> QED
    BY Zenon, <1>1, <1>2 DEF Init, TypeOK

(* Every reachable state is well typed: no interleaving of reconciles      *)
(* writes a phase, condition or requestor the API types do not have.       *)
THEOREM TypeCorrect == Spec => []TypeOK
  BY InitType, TypeStep, PTL DEF Spec

-----------------------------------------------------------------------------
(* The object, its finalizer and the effect on the host.                   *)

\* Every step keeps what the DPUNodeMaintenance controller relies on.
LEMMA ObjectStep == TypeOK /\ ObjectInv /\ [Next]_vars => ObjectInv'
  <1> SUFFICES ASSUME TypeOK, ObjectInv, [Next]_vars, kind' = kind
               PROVE  ObjectInv'
    BY Zenon DEF Next, vars
  <1>1. ASSUME NEW d \in DPUs, Reconcile(d) PROVE ObjectInv'
    BY Zenon, <1>1
       DEF Reconcile, UpdateDPUNodeMaintenanceRequestors,
           findOutDPURequestors, objVars, dpuVars, ObjectInv, TypeOK, DNM
  <1>2. ASSUME NEW d \in DPUs, ToDeleting(d) PROVE ObjectInv'
    BY Zenon, <1>2
       DEF ToDeleting, objVars, dpuVars, ObjectInv
  <1>3. ASSUME NEW d \in DPUs, Pending(d) PROVE ObjectInv'
    BY Zenon, <1>3
       DEF Pending, objVars, dpuVars, ObjectInv
  <1>4. ASSUME NEW d \in DPUs, NodeEffect(d) PROVE ObjectInv'
    BY ZenonT(40), <1>4
       DEF NodeEffect, createDPUNodeMaintenance, Absent,
           IsNodeEffectApplied, objVars, dpuVars, ObjectInv, TypeOK, DNM
  <1>5. ASSUME NEW d \in DPUs, addRequestorAndUpdateForce(d) PROVE ObjectInv'
    BY Zenon, <1>5
       DEF addRequestorAndUpdateForce, IsNodeEffectApplied, objVars,
           dpuVars, ObjectInv, TypeOK, DNM
  <1>6. ASSUME NEW d \in DPUs, handleNodeEffectCompletion(d) PROVE ObjectInv'
    BY Zenon, <1>6
       DEF handleNodeEffectCompletion, objVars, dpuVars, ObjectInv
  <1>7. ASSUME NEW d \in DPUs, Provision(d) PROVE ObjectInv'
    BY Zenon, <1>7
       DEF Provision, objVars, dpuVars, ObjectInv
  <1>7a. ASSUME NEW d \in DPUs, StartInPlaceReconfig(d) PROVE ObjectInv'
    BY Zenon, <1>7a
       DEF StartInPlaceReconfig, objVars, dpuVars, ObjectInv
  <1>8. ASSUME NEW d \in DPUs, NodeEffectRemoval(d) PROVE ObjectInv'
    BY Zenon, <1>8
       DEF NodeEffectRemoval, RemoveRequestorFromDPUNodeMaintenance,
           objVars, dpuVars, ObjectInv, TypeOK, DNM
  <1>9. ASSUME NEW d \in DPUs, Ready(d) PROVE ObjectInv'
    BY Zenon, <1>9
       DEF Ready, objVars, dpuVars, ObjectInv
  <1>10. ASSUME NEW d \in DPUs, Error(d) PROVE ObjectInv'
    BY <1>10
       DEF Error, RemoveRequestorFromDPUNodeMaintenance, objVars, dpuVars,
           ObjectInv, TypeOK, DNM
  <1>11. ASSUME NEW d \in DPUs, Deleting(d) PROVE ObjectInv'
    BY Zenon, <1>11
       DEF Deleting, RemoveRequestorFromDPUNodeMaintenance, objVars,
           dpuVars, ObjectInv, TypeOK, DNM
  <1>12. ASSUME NEW d \in DPUs, ReconcileFails(d) PROVE ObjectInv'
    BY Zenon, <1>12
       DEF ReconcileFails, objVars, dpuVars, ObjectInv
  <1>13. ASSUME NEW d \in DPUs, DeleteDPU(d) PROVE ObjectInv'
    BY Zenon, <1>13
       DEF DeleteDPU, objVars, dpuVars, ObjectInv
  <1>14. ASSUME NEW d \in DPUs, CreateDPU(d) PROVE ObjectInv'
    BY Zenon, <1>14
       DEF CreateDPU, objVars, dpuVars, ObjectInv
  <1>15. ASSUME NEW d \in DPUs, SetAdditionalRequestors(d) PROVE ObjectInv'
    BY Zenon, <1>15
       DEF SetAdditionalRequestors, objVars, dpuVars, ObjectInv
  <1>16. CASE ctlAddFinalizer
    BY Zenon, <1>16
       DEF ctlAddFinalizer, ctlFrame, objVars, dpuVars, ObjectInv, TypeOK,
           DNM
  <1>17. CASE ctlRead
    BY Zenon, <1>17
       DEF ctlRead, IsNodeEffectApplied, ctlFrame, objVars, dpuVars,
           ObjectInv
  <1>18. CASE ctlDelete
    BY Zenon, <1>18
       DEF ctlDelete, ctlFrame, objVars, dpuVars, ObjectInv, TypeOK, DNM
  <1>19. CASE checkMaxUnavailableAndSyncWaitTime
    BY Zenon, <1>19
       DEF checkMaxUnavailableAndSyncWaitTime, ctlFrame, objVars, dpuVars,
           ObjectInv, TypeOK, DNM
  <1>20. CASE reconcileEffect
    BY Zenon, <1>20
       DEF reconcileEffect, ctlFrame, objVars, dpuVars, ObjectInv
  <1>21. CASE ctlPatch
    BY Zenon, <1>21
       DEF ctlPatch, ctlFrame, objVars, dpuVars, ObjectInv, TypeOK, DNM
  <1>22. CASE handleNodeEffectRemoval
    BY Zenon, <1>22
       DEF handleNodeEffectRemoval, ctlFrame, objVars, dpuVars, ObjectInv
  <1>23. CASE ctlRemoveFinalizer
    BY Zenon, <1>23
       DEF ctlRemoveFinalizer, Absent, ctlFrame, objVars, dpuVars,
           ObjectInv, TypeOK, DNM
  <1>24. CASE reconcileDeleteWithoutNode
    BY Zenon, <1>24
       DEF reconcileDeleteWithoutNode, Absent, ctlFrame, objVars, dpuVars,
           ObjectInv, TypeOK, DNM
  <1>25. CASE ctlFails
    BY Zenon, <1>25
       DEF ctlFails, ctlFrame, objVars, dpuVars, ObjectInv
  <1>26. CASE svcRead
    BY Zenon, <1>26
       DEF svcRead, objVars, dpuVars, ObjectInv
  <1>27. CASE patchDPUNodeMaintenanceObjects
    BY Zenon, <1>27
       DEF patchDPUNodeMaintenanceObjects, objVars, dpuVars, ObjectInv,
           TypeOK, DNM
  <1>28. CASE EffectProgress
    BY Zenon, <1>28
       DEF EffectProgress, objVars, dpuVars, ObjectInv
  <1>29. CASE ReleaseHold
    BY Zenon, <1>29
       DEF ReleaseHold, objVars, dpuVars, ObjectInv, TypeOK, DNM
  <1>30. CASE DeleteMaintenance
    BY Zenon, <1>30
       DEF DeleteMaintenance, Absent, objVars, dpuVars, ObjectInv, TypeOK,
           DNM
  <1>31. CASE DeleteDPUNode
    BY Zenon, <1>31
       DEF DeleteDPUNode, objVars, dpuVars, ObjectInv
  <1>32. CASE CreateDPUNode
    BY Zenon, <1>32
       DEF CreateDPUNode, objVars, dpuVars, ObjectInv
  <1>33. CASE Upgrade
    BY Zenon, <1>33
       DEF Upgrade, objVars, dpuVars, ObjectInv
  <1>34. CASE Restart
    BY Zenon, <1>34
       DEF Restart, objVars, dpuVars, ObjectInv
  <1>35. CASE UNCHANGED stateVars
    BY Zenon, <1>35 DEF stateVars, ObjectInv
  <1> QED
    BY Zenon, <1>1, <1>2, <1>3, <1>4, <1>5, <1>6, <1>7, <1>7a, <1>8, <1>9, <1>10, <1>11,
       <1>12, <1>13, <1>14, <1>15, <1>16, <1>17, <1>18, <1>19, <1>20,
       <1>21, <1>22, <1>23, <1>24, <1>25, <1>26, <1>27, <1>28, <1>29,
       <1>30, <1>31, <1>32, <1>33, <1>34, <1>35
       DEF Next, DPUStep, CtlStep, EnvStep, vars, stateVars

(* No node effect outlives its DPUNodeMaintenance: whatever fails, is      *)
(* restarted or deleted in between, the finalizer is only removed after    *)
(* the drain, taint, label or Job was.  For any DPUs, services and effects.*)
THEOREM EffectNeverLeft == Spec => []NoEffectLeft
  <1>1. Init => ObjectInv
    BY DEF Init, ObjectInv, Absent
  <1>2. ObjectInv => NoEffectLeft
    BY Zenon DEF ObjectInv, NoEffectLeft
  <1> QED
    BY <1>1, <1>2, TypeCorrect, ObjectStep, PTL DEF Spec

-----------------------------------------------------------------------------
(* The DPUs, their reconciles and the DPUNode.                             *)

\* Every step keeps phase, reconcile and DPUNode together.
LEMMA PhaseStep == TypeOK /\ PhaseInv /\ [Next]_vars => PhaseInv'
  <1> SUFFICES ASSUME TypeOK, PhaseInv, [Next]_vars
               PROVE  PhaseInv'
    OBVIOUS
  <1>1. ASSUME NEW d \in DPUs, Reconcile(d) PROVE PhaseInv'
    BY Zenon, <1>1
       DEF Reconcile, objVars, dpuVars, PhaseInv, TypeOK
  <1>2. ASSUME NEW d \in DPUs, ToDeleting(d) PROVE PhaseInv'
    BY Zenon, <1>2
       DEF ToDeleting, NextPhase, objVars, dpuVars, PhaseInv, TypeOK
  <1>3. ASSUME NEW d \in DPUs, Pending(d) PROVE PhaseInv'
    BY <1>3
       DEF Pending, NextPhase, Handling, objVars, dpuVars, PhaseInv, TypeOK
  <1>4. ASSUME NEW d \in DPUs, NodeEffect(d) PROVE PhaseInv'
    BY <1>4
       DEF NodeEffect, NextPhase, Handling, objVars, dpuVars, PhaseInv,
           TypeOK
  <1>5. ASSUME NEW d \in DPUs, addRequestorAndUpdateForce(d) PROVE PhaseInv'
    BY <1>5
       DEF addRequestorAndUpdateForce, NextPhase, objVars, dpuVars,
           PhaseInv, TypeOK
  <1>6. ASSUME NEW d \in DPUs, handleNodeEffectCompletion(d) PROVE PhaseInv'
    BY Zenon, <1>6
       DEF handleNodeEffectCompletion, NextPhase, objVars, dpuVars,
           PhaseInv, TypeOK
  <1>7. ASSUME NEW d \in DPUs, Provision(d) PROVE PhaseInv'
    BY <1>7
       DEF Provision, NextPhase, objVars, dpuVars, PhaseInv, TypeOK
  <1>7a. ASSUME NEW d \in DPUs, StartInPlaceReconfig(d) PROVE PhaseInv'
    BY Zenon, <1>7a
       DEF StartInPlaceReconfig, NextPhase, objVars, dpuVars, PhaseInv, TypeOK
  <1>8. ASSUME NEW d \in DPUs, NodeEffectRemoval(d) PROVE PhaseInv'
    BY <1>8
       DEF NodeEffectRemoval, NextPhase, Handling, objVars, dpuVars,
           PhaseInv, TypeOK
  <1>9. ASSUME NEW d \in DPUs, Ready(d) PROVE PhaseInv'
    BY <1>9
       DEF Ready, NextPhase, Handling, objVars, dpuVars, PhaseInv, TypeOK
  <1>10. ASSUME NEW d \in DPUs, Error(d) PROVE PhaseInv'
    BY Zenon, <1>10
       DEF Error, NextPhase, Handling, objVars, dpuVars, PhaseInv, TypeOK
  <1>11. ASSUME NEW d \in DPUs, Deleting(d) PROVE PhaseInv'
    BY <1>11
       DEF Deleting, NextPhase, Handling, objVars, dpuVars, PhaseInv,
           TypeOK
  <1>12. ASSUME NEW d \in DPUs, ReconcileFails(d) PROVE PhaseInv'
    BY Zenon, <1>12
       DEF ReconcileFails, objVars, dpuVars, PhaseInv, TypeOK
  <1>13. ASSUME NEW d \in DPUs, DeleteDPU(d) PROVE PhaseInv'
    BY Zenon, <1>13
       DEF DeleteDPU, objVars, dpuVars, PhaseInv, TypeOK
  <1>14. ASSUME NEW d \in DPUs, CreateDPU(d) PROVE PhaseInv'
    BY Zenon, <1>14
       DEF CreateDPU, objVars, dpuVars, PhaseInv, TypeOK
  <1>15. ASSUME NEW d \in DPUs, SetAdditionalRequestors(d) PROVE PhaseInv'
    BY Zenon, <1>15
       DEF SetAdditionalRequestors, objVars, dpuVars, PhaseInv, TypeOK
  <1>16. CASE ctlAddFinalizer
    BY Zenon, <1>16
       DEF ctlAddFinalizer, ctlFrame, objVars, dpuVars, PhaseInv, TypeOK
  <1>17. CASE ctlRead
    BY Zenon, <1>17
       DEF ctlRead, ctlFrame, objVars, dpuVars, PhaseInv, TypeOK
  <1>18. CASE ctlDelete
    BY Zenon, <1>18
       DEF ctlDelete, ctlFrame, objVars, dpuVars, PhaseInv, TypeOK
  <1>19. CASE checkMaxUnavailableAndSyncWaitTime
    BY Zenon, <1>19
       DEF checkMaxUnavailableAndSyncWaitTime, ctlFrame, objVars, dpuVars,
           PhaseInv, TypeOK
  <1>20. CASE reconcileEffect
    BY Zenon, <1>20
       DEF reconcileEffect, ctlFrame, objVars, dpuVars, PhaseInv, TypeOK
  <1>21. CASE ctlPatch
    BY Zenon, <1>21
       DEF ctlPatch, ctlFrame, objVars, dpuVars, PhaseInv, TypeOK
  <1>22. CASE handleNodeEffectRemoval
    BY Zenon, <1>22
       DEF handleNodeEffectRemoval, ctlFrame, objVars, dpuVars, PhaseInv,
           TypeOK
  <1>23. CASE ctlRemoveFinalizer
    BY Zenon, <1>23
       DEF ctlRemoveFinalizer, ctlFrame, objVars, dpuVars, PhaseInv, TypeOK
  <1>24. CASE reconcileDeleteWithoutNode
    BY Zenon, <1>24
       DEF reconcileDeleteWithoutNode, ctlFrame, objVars, dpuVars,
           PhaseInv, TypeOK
  <1>25. CASE ctlFails
    BY Zenon, <1>25
       DEF ctlFails, ctlFrame, objVars, dpuVars, PhaseInv, TypeOK
  <1>26. CASE svcRead
    BY Zenon, <1>26
       DEF svcRead, objVars, dpuVars, PhaseInv, TypeOK
  <1>27. CASE patchDPUNodeMaintenanceObjects
    BY Zenon, <1>27
       DEF patchDPUNodeMaintenanceObjects, objVars, dpuVars, PhaseInv,
           TypeOK
  <1>28. CASE EffectProgress
    BY Zenon, <1>28
       DEF EffectProgress, objVars, dpuVars, PhaseInv, TypeOK
  <1>29. CASE ReleaseHold
    BY Zenon, <1>29
       DEF ReleaseHold, objVars, dpuVars, PhaseInv, TypeOK
  <1>30. CASE DeleteMaintenance
    BY Zenon, <1>30
       DEF DeleteMaintenance, objVars, dpuVars, PhaseInv, TypeOK
  <1>31. CASE DeleteDPUNode
    BY Zenon, <1>31
       DEF DeleteDPUNode, objVars, dpuVars, PhaseInv, TypeOK
  <1>32. CASE CreateDPUNode
    BY Zenon, <1>32
       DEF CreateDPUNode, objVars, dpuVars, PhaseInv, TypeOK
  <1>33. CASE Upgrade
    BY Zenon, <1>33
       DEF Upgrade, objVars, dpuVars, PhaseInv, TypeOK
  <1>34. CASE Restart
    BY Zenon, <1>34
       DEF Restart, objVars, dpuVars, PhaseInv, TypeOK
  <1>35. CASE UNCHANGED stateVars
    BY Zenon, <1>35 DEF stateVars, PhaseInv
  <1> QED
    BY Zenon, <1>1, <1>2, <1>3, <1>4, <1>5, <1>6, <1>7, <1>7a, <1>8, <1>9, <1>10, <1>11,
       <1>12, <1>13, <1>14, <1>15, <1>16, <1>17, <1>18, <1>19, <1>20,
       <1>21, <1>22, <1>23, <1>24, <1>25, <1>26, <1>27, <1>28, <1>29,
       <1>30, <1>31, <1>32, <1>33, <1>34, <1>35
       DEF Next, DPUStep, CtlStep, EnvStep, vars, stateVars

-----------------------------------------------------------------------------
(* The condition and the effect on the host.                               *)

\* Every step keeps a True condition true.
LEMMA AppliedStep ==
    TypeOK /\ ObjectInv /\ AppliedInv /\ [Next]_vars => AppliedInv'
  <1> SUFFICES ASSUME TypeOK, ObjectInv, AppliedInv, [Next]_vars, kind' = kind
               PROVE  AppliedInv'
    BY Zenon DEF Next, vars
  <1>1. ASSUME NEW d \in DPUs, Reconcile(d) PROVE AppliedInv'
    BY Zenon, <1>1
       DEF Reconcile, UpdateDPUNodeMaintenanceRequestors,
           findOutDPURequestors, objVars, dpuVars, AppliedInv, InForce,
           IsNodeEffectApplied, ObjectInv, TypeOK, DNM
  <1>2. ASSUME NEW d \in DPUs, ToDeleting(d) PROVE AppliedInv'
    BY Zenon, <1>2
       DEF ToDeleting, objVars, dpuVars, AppliedInv, InForce,
           IsNodeEffectApplied
  <1>3. ASSUME NEW d \in DPUs, Pending(d) PROVE AppliedInv'
    BY Zenon, <1>3
       DEF Pending, objVars, dpuVars, AppliedInv, InForce,
           IsNodeEffectApplied
  <1>4. ASSUME NEW d \in DPUs, NodeEffect(d) PROVE AppliedInv'
    BY Zenon, <1>4
       DEF NodeEffect, createDPUNodeMaintenance, Absent,
           IsNodeEffectApplied, objVars, dpuVars, AppliedInv, InForce,
           ObjectInv, TypeOK, DNM
  <1>5. ASSUME NEW d \in DPUs, addRequestorAndUpdateForce(d) PROVE AppliedInv'
    BY Zenon, <1>5
       DEF addRequestorAndUpdateForce, IsNodeEffectApplied, objVars,
           dpuVars, AppliedInv, InForce, ObjectInv, TypeOK, DNM
  <1>6. ASSUME NEW d \in DPUs, handleNodeEffectCompletion(d) PROVE AppliedInv'
    BY Zenon, <1>6
       DEF handleNodeEffectCompletion, objVars, dpuVars, AppliedInv,
           InForce, IsNodeEffectApplied
  <1>7. ASSUME NEW d \in DPUs, Provision(d) PROVE AppliedInv'
    BY Zenon, <1>7
       DEF Provision, objVars, dpuVars, AppliedInv, InForce,
           IsNodeEffectApplied
  <1>7a. ASSUME NEW d \in DPUs, StartInPlaceReconfig(d) PROVE AppliedInv'
    BY Zenon, <1>7a
       DEF StartInPlaceReconfig, objVars, dpuVars, AppliedInv, InForce,
           IsNodeEffectApplied
  <1>8. ASSUME NEW d \in DPUs, NodeEffectRemoval(d) PROVE AppliedInv'
    BY Zenon, <1>8
       DEF NodeEffectRemoval, RemoveRequestorFromDPUNodeMaintenance,
           objVars, dpuVars, AppliedInv, InForce, IsNodeEffectApplied,
           ObjectInv, TypeOK, DNM
  <1>9. ASSUME NEW d \in DPUs, Ready(d) PROVE AppliedInv'
    BY Zenon, <1>9
       DEF Ready, objVars, dpuVars, AppliedInv, InForce,
           IsNodeEffectApplied
  <1>10. ASSUME NEW d \in DPUs, Error(d) PROVE AppliedInv'
    BY Zenon, <1>10
       DEF Error, RemoveRequestorFromDPUNodeMaintenance, objVars, dpuVars,
           AppliedInv, InForce, IsNodeEffectApplied, ObjectInv, TypeOK, DNM
  <1>11. ASSUME NEW d \in DPUs, Deleting(d) PROVE AppliedInv'
    BY Zenon, <1>11
       DEF Deleting, RemoveRequestorFromDPUNodeMaintenance, objVars,
           dpuVars, AppliedInv, InForce, IsNodeEffectApplied, ObjectInv,
           TypeOK, DNM
  <1>12. ASSUME NEW d \in DPUs, ReconcileFails(d) PROVE AppliedInv'
    BY Zenon, <1>12
       DEF ReconcileFails, objVars, dpuVars, AppliedInv, InForce,
           IsNodeEffectApplied
  <1>13. ASSUME NEW d \in DPUs, DeleteDPU(d) PROVE AppliedInv'
    BY Zenon, <1>13
       DEF DeleteDPU, objVars, dpuVars, AppliedInv, InForce,
           IsNodeEffectApplied
  <1>14. ASSUME NEW d \in DPUs, CreateDPU(d) PROVE AppliedInv'
    BY Zenon, <1>14
       DEF CreateDPU, objVars, dpuVars, AppliedInv, InForce,
           IsNodeEffectApplied
  <1>15. ASSUME NEW d \in DPUs, SetAdditionalRequestors(d) PROVE AppliedInv'
    BY Zenon, <1>15
       DEF SetAdditionalRequestors, objVars, dpuVars, AppliedInv, InForce,
           IsNodeEffectApplied
  <1>16. CASE ctlAddFinalizer
    BY Zenon, <1>16
       DEF ctlAddFinalizer, ctlFrame, objVars, dpuVars, AppliedInv,
           InForce, IsNodeEffectApplied, ObjectInv, TypeOK, DNM
  <1>17. CASE ctlRead
    BY Zenon, <1>17
       DEF ctlRead, IsNodeEffectApplied, ctlFrame, objVars, dpuVars,
           AppliedInv, InForce
  <1>18. CASE ctlDelete
    BY Zenon, <1>18
       DEF ctlDelete, ctlFrame, objVars, dpuVars, AppliedInv, InForce,
           IsNodeEffectApplied, ObjectInv, TypeOK, DNM
  <1>19. CASE checkMaxUnavailableAndSyncWaitTime
    BY Zenon, <1>19
       DEF checkMaxUnavailableAndSyncWaitTime, ctlFrame, objVars, dpuVars,
           AppliedInv, InForce, IsNodeEffectApplied, ObjectInv, TypeOK, DNM
  <1>20. CASE reconcileEffect
    BY Zenon, <1>20
       DEF reconcileEffect, ctlFrame, objVars, dpuVars, AppliedInv,
           InForce, IsNodeEffectApplied
  <1>21. CASE ctlPatch
    BY Zenon, <1>21
       DEF ctlPatch, ctlFrame, objVars, dpuVars, AppliedInv, InForce,
           IsNodeEffectApplied, ObjectInv, TypeOK, DNM
  <1>22. CASE handleNodeEffectRemoval
    BY Zenon, <1>22
       DEF handleNodeEffectRemoval, ctlFrame, dpuVars, AppliedInv, InForce,
           IsNodeEffectApplied, ObjectInv
  <1>23. CASE ctlRemoveFinalizer
    BY Zenon, <1>23
       DEF ctlRemoveFinalizer, Absent, ctlFrame, objVars, dpuVars,
           AppliedInv, InForce, IsNodeEffectApplied, ObjectInv, TypeOK, DNM
  <1>24. CASE reconcileDeleteWithoutNode
    BY Zenon, <1>24
       DEF reconcileDeleteWithoutNode, Absent, ctlFrame, objVars, dpuVars,
           AppliedInv, InForce, IsNodeEffectApplied, ObjectInv, TypeOK, DNM
  <1>25. CASE ctlFails
    BY Zenon, <1>25
       DEF ctlFails, ctlFrame, objVars, dpuVars, AppliedInv, InForce,
           IsNodeEffectApplied
  <1>26. CASE svcRead
    BY Zenon, <1>26
       DEF svcRead, objVars, dpuVars, AppliedInv, InForce,
           IsNodeEffectApplied
  <1>27. CASE patchDPUNodeMaintenanceObjects
    BY Zenon, <1>27
       DEF patchDPUNodeMaintenanceObjects, objVars, dpuVars, AppliedInv,
           InForce, IsNodeEffectApplied, ObjectInv, TypeOK, DNM
  <1>28. CASE EffectProgress
    BY Zenon, <1>28
       DEF EffectProgress, objVars, dpuVars, AppliedInv, InForce,
           IsNodeEffectApplied
  <1>29. CASE ReleaseHold
    BY Zenon, <1>29
       DEF ReleaseHold, objVars, dpuVars, AppliedInv, InForce,
           IsNodeEffectApplied, ObjectInv, TypeOK, DNM
  <1>30. CASE DeleteMaintenance
    BY Zenon, <1>30
       DEF DeleteMaintenance, Absent, objVars, dpuVars, AppliedInv,
           InForce, IsNodeEffectApplied, ObjectInv, TypeOK, DNM
  <1>31. CASE DeleteDPUNode
    BY Zenon, <1>31
       DEF DeleteDPUNode, objVars, dpuVars, AppliedInv, InForce,
           IsNodeEffectApplied
  <1>32. CASE CreateDPUNode
    BY Zenon, <1>32
       DEF CreateDPUNode, objVars, dpuVars, AppliedInv, InForce,
           IsNodeEffectApplied
  <1>33. CASE Upgrade
    BY Zenon, <1>33
       DEF Upgrade, objVars, dpuVars, AppliedInv, InForce,
           IsNodeEffectApplied
  <1>34. CASE Restart
    BY Zenon, <1>34
       DEF Restart, objVars, dpuVars, AppliedInv, InForce,
           IsNodeEffectApplied
  <1>35. CASE UNCHANGED stateVars
    BY Zenon, <1>35 DEF stateVars, AppliedInv, InForce, IsNodeEffectApplied
  <1> QED
    BY Zenon, <1>1, <1>2, <1>3, <1>4, <1>5, <1>6, <1>7, <1>7a, <1>8, <1>9, <1>10, <1>11,
       <1>12, <1>13, <1>14, <1>15, <1>16, <1>17, <1>18, <1>19, <1>20,
       <1>21, <1>22, <1>23, <1>24, <1>25, <1>26, <1>27, <1>28, <1>29,
       <1>30, <1>31, <1>32, <1>33, <1>34, <1>35
       DEF Next, DPUStep, CtlStep, EnvStep, vars, stateVars


-----------------------------------------------------------------------------
(* The node effect is held.  Without services nobody writes the requestors *)
(* unlocked, which is what the rest of the argument needs.                 *)

\* The start of a reconcile changes nothing when there are no services.
LEMMA NoServices ==
  ASSUME Services = {}, TypeOK
  PROVE  /\ \A d \in DPUs :
               /\ want[d] = {}
               /\ UpdateDPUNodeMaintenanceRequestors(d) => dnm' = dnm
         /\ ~svcRead
  <1>1. \A d \in DPUs : want[d] = {} /\ dnm.lastApplied[d] = {}
    BY Zenon DEF TypeOK, DNM
  <1>2. ~svcRead
    BY Zenon DEF svcRead
  <1> QED
    BY Zenon, <1>1, <1>2 DEF UpdateDPUNodeMaintenanceRequestors

\* Every step keeps a committed DPU covered.
LEMMA HeldStep ==
  ASSUME Services = {}, IndInv, [Next]_vars
  PROVE  HeldInv'
  <1> USE DEF IndInv
  <1>0. kind' = kind
    BY Zenon DEF Next, vars
  <1>1. ASSUME NEW d \in DPUs, Reconcile(d) PROVE HeldInv'
    BY <1>0, NoServices, <1>1
       DEF Reconcile, objVars, dpuVars, HeldInv, Committed, Covered,
           InForce, IsNodeEffectApplied, TypeOK, ObjectInv, PhaseInv,
           AppliedInv, DNM
  <1>2. ASSUME NEW d \in DPUs, ToDeleting(d) PROVE HeldInv'
    BY <1>0, NoServices, <1>2
       DEF ToDeleting, NextPhase, objVars, dpuVars, HeldInv, Committed,
           Covered, InForce, IsNodeEffectApplied, TypeOK, ObjectInv,
           PhaseInv, AppliedInv
  <1>3. ASSUME NEW d \in DPUs, Pending(d) PROVE HeldInv'
    BY <1>0, NoServices, <1>3
       DEF Pending, NextPhase, Handling, objVars, dpuVars, HeldInv,
           Committed, Covered, InForce, IsNodeEffectApplied, TypeOK,
           ObjectInv, PhaseInv, AppliedInv
  <1>4. ASSUME NEW d \in DPUs, NodeEffect(d) PROVE HeldInv'
    BY <1>0, NoServices, <1>4
       DEF NodeEffect, NextPhase, Handling, createDPUNodeMaintenance,
           Absent, IsNodeEffectApplied, objVars, dpuVars, HeldInv,
           Committed, Covered, InForce, TypeOK, ObjectInv, PhaseInv,
           AppliedInv, DNM
  <1>5. ASSUME NEW d \in DPUs, addRequestorAndUpdateForce(d) PROVE HeldInv'
    BY <1>0, NoServices, <1>5
       DEF addRequestorAndUpdateForce, NextPhase, IsNodeEffectApplied,
           objVars, dpuVars, HeldInv, Committed, Covered, InForce, TypeOK,
           ObjectInv, PhaseInv, AppliedInv, DNM
  <1>6. ASSUME NEW d \in DPUs, handleNodeEffectCompletion(d) PROVE HeldInv'
    BY <1>0, NoServices, <1>6
       DEF handleNodeEffectCompletion, NextPhase, objVars, dpuVars,
           HeldInv, Committed, Covered, InForce, IsNodeEffectApplied,
           TypeOK, ObjectInv, PhaseInv, AppliedInv
  <1>7. ASSUME NEW d \in DPUs, Provision(d) PROVE HeldInv'
    BY <1>0, NoServices, <1>7
       DEF Provision, NextPhase, objVars, dpuVars, HeldInv, Committed,
           Covered, InForce, IsNodeEffectApplied, TypeOK, ObjectInv,
           PhaseInv, AppliedInv
  <1>7a. ASSUME NEW d \in DPUs, StartInPlaceReconfig(d) PROVE HeldInv'
    BY <1>0, NoServices, <1>7a
       DEF StartInPlaceReconfig, NextPhase, objVars, dpuVars, HeldInv, Committed,
           Covered, InForce, IsNodeEffectApplied, TypeOK, ObjectInv,
           PhaseInv, AppliedInv
  <1>8. ASSUME NEW d \in DPUs, NodeEffectRemoval(d) PROVE HeldInv'
    BY <1>0, NoServices, <1>8
       DEF NodeEffectRemoval, NextPhase, Handling,
           RemoveRequestorFromDPUNodeMaintenance, objVars, dpuVars,
           HeldInv, Committed, Covered, InForce, IsNodeEffectApplied,
           TypeOK, ObjectInv, PhaseInv, AppliedInv, DNM
  <1>9. ASSUME NEW d \in DPUs, Ready(d) PROVE HeldInv'
    BY <1>0, NoServices, <1>9
       DEF Ready, NextPhase, Handling, objVars, dpuVars, HeldInv,
           Committed, Covered, InForce, IsNodeEffectApplied, TypeOK,
           ObjectInv, PhaseInv, AppliedInv
  <1>10. ASSUME NEW d \in DPUs, Error(d) PROVE HeldInv'
    BY <1>0, NoServices, <1>10
       DEF Error, NextPhase, Handling,
           RemoveRequestorFromDPUNodeMaintenance, objVars, dpuVars,
           HeldInv, Committed, Covered, InForce, IsNodeEffectApplied,
           TypeOK, ObjectInv, PhaseInv, AppliedInv, DNM
  <1>11. ASSUME NEW d \in DPUs, Deleting(d) PROVE HeldInv'
    BY <1>0, NoServices, <1>11
       DEF Deleting, NextPhase, Handling,
           RemoveRequestorFromDPUNodeMaintenance, objVars, dpuVars,
           HeldInv, Committed, Covered, InForce, IsNodeEffectApplied,
           TypeOK, ObjectInv, PhaseInv, AppliedInv, DNM
  <1>12. ASSUME NEW d \in DPUs, ReconcileFails(d) PROVE HeldInv'
    BY <1>0, NoServices, <1>12
       DEF ReconcileFails, objVars, dpuVars, HeldInv, Committed, Covered,
           InForce, IsNodeEffectApplied, TypeOK, ObjectInv, PhaseInv,
           AppliedInv
  <1>13. ASSUME NEW d \in DPUs, DeleteDPU(d) PROVE HeldInv'
    BY Zenon, <1>0, NoServices, <1>13
       DEF DeleteDPU, objVars, dpuVars, HeldInv, Committed, Covered,
           InForce, IsNodeEffectApplied, TypeOK, ObjectInv, PhaseInv,
           AppliedInv
  <1>14. ASSUME NEW d \in DPUs, CreateDPU(d) PROVE HeldInv'
    BY Zenon, <1>0, NoServices, <1>14
       DEF CreateDPU, objVars, dpuVars, HeldInv, Committed, Covered,
           InForce, IsNodeEffectApplied, TypeOK, ObjectInv, PhaseInv,
           AppliedInv
  <1>15. ASSUME NEW d \in DPUs, SetAdditionalRequestors(d) PROVE HeldInv'
    BY Zenon, <1>0, NoServices, <1>15
       DEF SetAdditionalRequestors, objVars, dpuVars, HeldInv, Committed,
           Covered, InForce, IsNodeEffectApplied, TypeOK, ObjectInv,
           PhaseInv, AppliedInv
  <1>16. CASE ctlAddFinalizer
    BY Zenon, <1>0, NoServices, <1>16
       DEF ctlAddFinalizer, ctlFrame, objVars, dpuVars, HeldInv, Committed,
           Covered, InForce, IsNodeEffectApplied, TypeOK, ObjectInv,
           PhaseInv, AppliedInv, DNM
  <1>17. CASE ctlRead
    BY Zenon, <1>0, NoServices, <1>17
       DEF ctlRead, IsNodeEffectApplied, ctlFrame, objVars, dpuVars,
           HeldInv, Committed, Covered, InForce, TypeOK, ObjectInv,
           PhaseInv, AppliedInv
  <1>18. CASE ctlDelete
    BY Zenon, <1>0, NoServices, <1>18
       DEF ctlDelete, ctlFrame, objVars, dpuVars, HeldInv, Committed,
           Covered, InForce, IsNodeEffectApplied, TypeOK, ObjectInv,
           PhaseInv, AppliedInv, DNM
  <1>19. CASE checkMaxUnavailableAndSyncWaitTime
    BY Zenon, <1>0, NoServices, <1>19
       DEF checkMaxUnavailableAndSyncWaitTime, ctlFrame, objVars, dpuVars,
           HeldInv, Committed, Covered, InForce, IsNodeEffectApplied,
           TypeOK, ObjectInv, PhaseInv, AppliedInv, DNM
  <1>20. CASE reconcileEffect
    BY Zenon, <1>0, NoServices, <1>20
       DEF reconcileEffect, ctlFrame, objVars, dpuVars, HeldInv, Committed,
           Covered, InForce, IsNodeEffectApplied, TypeOK, ObjectInv,
           PhaseInv, AppliedInv
  <1>21. CASE ctlPatch
    BY Zenon, <1>0, NoServices, <1>21
       DEF ctlPatch, ctlFrame, objVars, dpuVars, HeldInv, Committed,
           Covered, InForce, IsNodeEffectApplied, TypeOK, ObjectInv,
           PhaseInv, AppliedInv, DNM
  <1>22. CASE handleNodeEffectRemoval
    BY Zenon, <1>0, NoServices, <1>22
       DEF handleNodeEffectRemoval, ctlFrame, objVars, dpuVars, HeldInv,
           Committed, Covered, InForce, IsNodeEffectApplied, TypeOK,
           ObjectInv, PhaseInv, AppliedInv
  <1>23. CASE ctlRemoveFinalizer
    BY Zenon, <1>0, NoServices, <1>23
       DEF ctlRemoveFinalizer, Absent, ctlFrame, objVars, dpuVars, HeldInv,
           Committed, Covered, InForce, IsNodeEffectApplied, TypeOK,
           ObjectInv, PhaseInv, AppliedInv, DNM
  <1>24. CASE reconcileDeleteWithoutNode
    BY Zenon, <1>0, NoServices, <1>24
       DEF reconcileDeleteWithoutNode, Absent, ctlFrame, objVars, dpuVars,
           HeldInv, Committed, Covered, InForce, IsNodeEffectApplied,
           TypeOK, ObjectInv, PhaseInv, AppliedInv, DNM
  <1>25. CASE ctlFails
    BY Zenon, <1>0, NoServices, <1>25
       DEF ctlFails, ctlFrame, objVars, dpuVars, HeldInv, Committed,
           Covered, InForce, IsNodeEffectApplied, TypeOK, ObjectInv,
           PhaseInv, AppliedInv
  <1>26. CASE svcRead
    BY Zenon, <1>0, NoServices, <1>26
       DEF svcRead, objVars, dpuVars, HeldInv, Committed, Covered, InForce,
           IsNodeEffectApplied, TypeOK, ObjectInv, PhaseInv, AppliedInv
  <1>27. CASE patchDPUNodeMaintenanceObjects
    BY Zenon, <1>0, NoServices, <1>27
       DEF patchDPUNodeMaintenanceObjects, objVars, dpuVars, HeldInv,
           Committed, Covered, InForce, IsNodeEffectApplied, TypeOK,
           ObjectInv, PhaseInv, AppliedInv, DNM
  <1>28. CASE EffectProgress
    BY Zenon, <1>0, NoServices, <1>28
       DEF EffectProgress, objVars, dpuVars, HeldInv, Committed, Covered,
           InForce, IsNodeEffectApplied, TypeOK, ObjectInv, PhaseInv,
           AppliedInv
  <1>29. CASE ReleaseHold
    BY Zenon, <1>0, NoServices, <1>29
       DEF ReleaseHold, objVars, dpuVars, HeldInv, Committed, Covered,
           InForce, IsNodeEffectApplied, TypeOK, ObjectInv, PhaseInv,
           AppliedInv, DNM
  <1>30. CASE DeleteMaintenance
    BY Zenon, <1>0, NoServices, <1>30
       DEF DeleteMaintenance, Absent, objVars, dpuVars, HeldInv, Committed,
           Covered, InForce, IsNodeEffectApplied, TypeOK, ObjectInv,
           PhaseInv, AppliedInv, DNM
  <1>31. CASE DeleteDPUNode
    BY Zenon, <1>0, NoServices, <1>31
       DEF DeleteDPUNode, objVars, dpuVars, HeldInv, Committed, Covered,
           InForce, IsNodeEffectApplied, TypeOK, ObjectInv, PhaseInv,
           AppliedInv
  <1>32. CASE CreateDPUNode
    BY Zenon, <1>0, NoServices, <1>32
       DEF CreateDPUNode, objVars, dpuVars, HeldInv, Committed, Covered,
           InForce, IsNodeEffectApplied, TypeOK, ObjectInv, PhaseInv,
           AppliedInv
  <1>33. CASE Upgrade
    BY Zenon, <1>0, NoServices, <1>33
       DEF Upgrade, objVars, dpuVars, HeldInv, Committed, Covered, InForce,
           IsNodeEffectApplied, TypeOK, ObjectInv, PhaseInv, AppliedInv
  <1>34. CASE Restart
    BY Zenon, <1>0, NoServices, <1>34
       DEF Restart, objVars, dpuVars, HeldInv, Committed, Covered, InForce,
           IsNodeEffectApplied, TypeOK, ObjectInv, PhaseInv, AppliedInv
  <1>35. CASE UNCHANGED stateVars
    BY Zenon, <1>0, NoServices, <1>35 DEF stateVars, HeldInv, Committed, Covered, InForce, IsNodeEffectApplied
  <1> QED
    BY Zenon, <1>0, NoServices, <1>1, <1>2, <1>3, <1>4, <1>5, <1>6, <1>7, <1>7a, <1>8, <1>9, <1>10, <1>11,
       <1>12, <1>13, <1>14, <1>15, <1>16, <1>17, <1>18, <1>19, <1>20,
       <1>21, <1>22, <1>23, <1>24, <1>25, <1>26, <1>27, <1>28, <1>29,
       <1>30, <1>31, <1>32, <1>33, <1>34, <1>35
       DEF Next, DPUStep, CtlStep, EnvStep, vars, stateVars

\* The services' patches never start.
LEMMA ServiceIdle ==
  ASSUME Services = {}, IndInv, [Next]_vars
  PROVE  ~svc'.busy
  <1>1. ~svcRead
    BY Zenon, NoServices DEF IndInv
  <1>2. ASSUME NEW d \in DPUs, DPUStep(d) PROVE svc' = svc
    BY Zenon, <1>2 DEF DPUStep, Reconcile, ToDeleting, Pending, NodeEffect,
       addRequestorAndUpdateForce, handleNodeEffectCompletion,
       StartInPlaceReconfig, Provision, NodeEffectRemoval, Ready, Error,
       Deleting, ReconcileFails
  <1>3. CASE CtlStep
    BY Zenon, <1>3 DEF CtlStep, ctlFrame, ctlAddFinalizer, ctlRead, ctlDelete,
       checkMaxUnavailableAndSyncWaitTime, reconcileEffect, ctlPatch,
       handleNodeEffectRemoval, ctlRemoveFinalizer, reconcileDeleteWithoutNode,
       ctlFails, IndInv
  <1>4. CASE patchDPUNodeMaintenanceObjects
    BY Zenon, <1>4 DEF patchDPUNodeMaintenanceObjects
  <1>5. CASE EnvStep
    BY Zenon, <1>5 DEF EnvStep, EffectProgress, ReleaseHold, DeleteMaintenance,
       DeleteDPUNode, CreateDPUNode, Upgrade, Restart, DeleteDPU, CreateDPU,
       SetAdditionalRequestors, IndInv
  <1>6. CASE UNCHANGED vars
    BY Zenon, <1>6 DEF vars, IndInv
  <1> QED
    BY Zenon, <1>1, <1>2, <1>3, <1>4, <1>5, <1>6 DEF Next, IndInv

\* Every step leaves the requestors to DPUs that can still withdraw.
LEMMA OrphanStep ==
  ASSUME Services = {}, IndInv, [Next]_vars
  PROVE  NoOrphanRequestor'
  <1> USE DEF IndInv
  <1>1. ASSUME NEW d \in DPUs, Reconcile(d) PROVE NoOrphanRequestor'
    BY Zenon, NoServices, <1>1
       DEF Reconcile, objVars, dpuVars, NoOrphanRequestor, TypeOK,
           ObjectInv, PhaseInv, DNM
  <1>2. ASSUME NEW d \in DPUs, ToDeleting(d) PROVE NoOrphanRequestor'
    BY Zenon, NoServices, <1>2
       DEF ToDeleting, NextPhase, objVars, dpuVars, NoOrphanRequestor,
           TypeOK, ObjectInv, PhaseInv
  <1>3. ASSUME NEW d \in DPUs, Pending(d) PROVE NoOrphanRequestor'
    BY NoServices, <1>3
       DEF Pending, NextPhase, Handling, objVars, dpuVars,
           NoOrphanRequestor, TypeOK, ObjectInv, PhaseInv
  <1>4. ASSUME NEW d \in DPUs, NodeEffect(d) PROVE NoOrphanRequestor'
    <2>1. want[d] = {}
      BY Zenon, NoServices
    <2>2. dnm'.requestor \subseteq dnm.requestor \cup {d}
      BY Zenon, <1>4, <2>1 DEF NodeEffect, createDPUNodeMaintenance, Absent
    <2>3. /\ phase'[d] \in {"NodeEffect", "Error"}
          /\ \A e \in DPUs \ {d} : phase'[e] = phase[e]
      BY Zenon, <1>4 DEF NodeEffect, NextPhase, Handling, TypeOK
    <2> QED
      BY Zenon, <2>2, <2>3 DEF NoOrphanRequestor
  <1>5. ASSUME NEW d \in DPUs, addRequestorAndUpdateForce(d) PROVE NoOrphanRequestor'
    BY NoServices, <1>5
       DEF addRequestorAndUpdateForce, NextPhase, objVars, dpuVars,
           NoOrphanRequestor, TypeOK, ObjectInv, PhaseInv, DNM
  <1>6. ASSUME NEW d \in DPUs, handleNodeEffectCompletion(d) PROVE NoOrphanRequestor'
    BY Zenon, NoServices, <1>6
       DEF handleNodeEffectCompletion, NextPhase, objVars, dpuVars,
           NoOrphanRequestor, TypeOK, ObjectInv, PhaseInv
  <1>7. ASSUME NEW d \in DPUs, Provision(d) PROVE NoOrphanRequestor'
    BY NoServices, <1>7
       DEF Provision, NextPhase, objVars, dpuVars, NoOrphanRequestor,
           TypeOK, ObjectInv, PhaseInv
  <1>7a. ASSUME NEW d \in DPUs, StartInPlaceReconfig(d) PROVE NoOrphanRequestor'
    BY Zenon, NoServices, <1>7a
       DEF StartInPlaceReconfig, NextPhase, objVars, dpuVars, NoOrphanRequestor,
           TypeOK, ObjectInv, PhaseInv
  <1>8. ASSUME NEW d \in DPUs, NodeEffectRemoval(d) PROVE NoOrphanRequestor'
    BY NoServices, <1>8
       DEF NodeEffectRemoval, NextPhase, Handling,
           RemoveRequestorFromDPUNodeMaintenance, objVars, dpuVars,
           NoOrphanRequestor, TypeOK, ObjectInv, PhaseInv, DNM
  <1>9. ASSUME NEW d \in DPUs, Ready(d) PROVE NoOrphanRequestor'
    BY NoServices, <1>9
       DEF Ready, NextPhase, Handling, objVars, dpuVars, NoOrphanRequestor,
           TypeOK, ObjectInv, PhaseInv
  <1>10. ASSUME NEW d \in DPUs, Error(d) PROVE NoOrphanRequestor'
    BY NoServices, <1>10
       DEF Error, NextPhase, Handling,
           RemoveRequestorFromDPUNodeMaintenance, objVars, dpuVars,
           NoOrphanRequestor, TypeOK, ObjectInv, PhaseInv, DNM
  <1>11. ASSUME NEW d \in DPUs, Deleting(d) PROVE NoOrphanRequestor'
    BY NoServices, <1>11
       DEF Deleting, NextPhase, Handling,
           RemoveRequestorFromDPUNodeMaintenance, objVars, dpuVars,
           NoOrphanRequestor, TypeOK, ObjectInv, PhaseInv, DNM
  <1>12. ASSUME NEW d \in DPUs, ReconcileFails(d) PROVE NoOrphanRequestor'
    BY Zenon, NoServices, <1>12
       DEF ReconcileFails, objVars, dpuVars, NoOrphanRequestor, TypeOK,
           ObjectInv, PhaseInv
  <1>13. ASSUME NEW d \in DPUs, DeleteDPU(d) PROVE NoOrphanRequestor'
    BY Zenon, NoServices, <1>13
       DEF DeleteDPU, objVars, dpuVars, NoOrphanRequestor, TypeOK,
           ObjectInv, PhaseInv
  <1>14. ASSUME NEW d \in DPUs, CreateDPU(d) PROVE NoOrphanRequestor'
    BY ZenonT(40), NoServices, <1>14
       DEF CreateDPU, objVars, dpuVars, NoOrphanRequestor, TypeOK,
           ObjectInv, PhaseInv
  <1>15. ASSUME NEW d \in DPUs, SetAdditionalRequestors(d) PROVE NoOrphanRequestor'
    BY Zenon, NoServices, <1>15
       DEF SetAdditionalRequestors, objVars, dpuVars, NoOrphanRequestor,
           TypeOK, ObjectInv, PhaseInv
  <1>16. CASE ctlAddFinalizer
    BY Zenon, NoServices, <1>16
       DEF ctlAddFinalizer, ctlFrame, objVars, dpuVars, NoOrphanRequestor,
           TypeOK, ObjectInv, PhaseInv, DNM
  <1>17. CASE ctlRead
    BY Zenon, NoServices, <1>17
       DEF ctlRead, ctlFrame, objVars, dpuVars, NoOrphanRequestor, TypeOK,
           ObjectInv, PhaseInv
  <1>18. CASE ctlDelete
    BY Zenon, NoServices, <1>18
       DEF ctlDelete, ctlFrame, objVars, dpuVars, NoOrphanRequestor,
           TypeOK, ObjectInv, PhaseInv, DNM
  <1>19. CASE checkMaxUnavailableAndSyncWaitTime
    BY Zenon, NoServices, <1>19
       DEF checkMaxUnavailableAndSyncWaitTime, ctlFrame, objVars, dpuVars,
           NoOrphanRequestor, TypeOK, ObjectInv, PhaseInv, DNM
  <1>20. CASE reconcileEffect
    BY Zenon, NoServices, <1>20
       DEF reconcileEffect, ctlFrame, objVars, dpuVars, NoOrphanRequestor,
           TypeOK, ObjectInv, PhaseInv
  <1>21. CASE ctlPatch
    BY Zenon, NoServices, <1>21
       DEF ctlPatch, ctlFrame, objVars, dpuVars, NoOrphanRequestor, TypeOK,
           ObjectInv, PhaseInv, DNM
  <1>22. CASE handleNodeEffectRemoval
    BY Zenon, NoServices, <1>22
       DEF handleNodeEffectRemoval, ctlFrame, objVars, dpuVars,
           NoOrphanRequestor, TypeOK, ObjectInv, PhaseInv
  <1>23. CASE ctlRemoveFinalizer
    BY Zenon, NoServices, <1>23
       DEF ctlRemoveFinalizer, Absent, ctlFrame, objVars, dpuVars,
           NoOrphanRequestor, TypeOK, ObjectInv, PhaseInv, DNM
  <1>24. CASE reconcileDeleteWithoutNode
    BY Zenon, NoServices, <1>24
       DEF reconcileDeleteWithoutNode, Absent, ctlFrame, objVars, dpuVars,
           NoOrphanRequestor, TypeOK, ObjectInv, PhaseInv, DNM
  <1>25. CASE ctlFails
    BY Zenon, NoServices, <1>25
       DEF ctlFails, ctlFrame, objVars, dpuVars, NoOrphanRequestor, TypeOK,
           ObjectInv, PhaseInv
  <1>26. CASE svcRead
    BY Zenon, NoServices, <1>26
       DEF svcRead, objVars, dpuVars, NoOrphanRequestor, TypeOK, ObjectInv,
           PhaseInv
  <1>27. CASE patchDPUNodeMaintenanceObjects
    BY Zenon, NoServices, <1>27
       DEF patchDPUNodeMaintenanceObjects, objVars, dpuVars,
           NoOrphanRequestor, TypeOK, ObjectInv, PhaseInv, DNM
  <1>28. CASE EffectProgress
    BY Zenon, NoServices, <1>28
       DEF EffectProgress, objVars, dpuVars, NoOrphanRequestor, TypeOK,
           ObjectInv, PhaseInv
  <1>29. CASE ReleaseHold
    BY Zenon, NoServices, <1>29
       DEF ReleaseHold, objVars, dpuVars, NoOrphanRequestor, TypeOK,
           ObjectInv, PhaseInv, DNM
  <1>30. CASE DeleteMaintenance
    BY Zenon, NoServices, <1>30
       DEF DeleteMaintenance, Absent, objVars, dpuVars, NoOrphanRequestor,
           TypeOK, ObjectInv, PhaseInv, DNM
  <1>31. CASE DeleteDPUNode
    BY Zenon, NoServices, <1>31
       DEF DeleteDPUNode, objVars, dpuVars, NoOrphanRequestor, TypeOK,
           ObjectInv, PhaseInv
  <1>32. CASE CreateDPUNode
    BY Zenon, NoServices, <1>32
       DEF CreateDPUNode, objVars, dpuVars, NoOrphanRequestor, TypeOK,
           ObjectInv, PhaseInv
  <1>33. CASE Upgrade
    BY Zenon, NoServices, <1>33
       DEF Upgrade, objVars, dpuVars, NoOrphanRequestor, TypeOK, ObjectInv,
           PhaseInv
  <1>34. CASE Restart
    BY Zenon, NoServices, <1>34
       DEF Restart, objVars, dpuVars, NoOrphanRequestor, TypeOK, ObjectInv,
           PhaseInv
  <1>35. CASE UNCHANGED stateVars
    BY Zenon, NoServices, <1>35 DEF stateVars, NoOrphanRequestor
  <1> QED
    BY Zenon, NoServices, <1>1, <1>2, <1>3, <1>4, <1>5, <1>6, <1>7, <1>7a, <1>8, <1>9, <1>10, <1>11,
       <1>12, <1>13, <1>14, <1>15, <1>16, <1>17, <1>18, <1>19, <1>20,
       <1>21, <1>22, <1>23, <1>24, <1>25, <1>26, <1>27, <1>28, <1>29,
       <1>30, <1>31, <1>32, <1>33, <1>34, <1>35
       DEF Next, DPUStep, CtlStep, EnvStep, vars, stateVars

(* The inductive invariant.  EffectHeld alone is not preserved: it needs   *)
(* to know that a withdrawal of the effect only begins when no committed   *)
(* DPU is left, which is HeldInv, and what the controllers know meanwhile. *)
LEMMA Inductive ==
  ASSUME Services = {}
  PROVE  Spec => []IndInv
  <1>1. Init => IndInv
    <2> SUFFICES ASSUME Init PROVE IndInv
      OBVIOUS
    <2>1. TypeOK
      BY Zenon, InitType
    <2>2. ObjectInv /\ NoOrphanRequestor /\ ~svc.busy
      BY Zenon DEF Init, ObjectInv, NoOrphanRequestor, Absent
    <2>3. PhaseInv /\ AppliedInv
      BY Zenon DEF Init, PhaseInv, AppliedInv, IsNodeEffectApplied, Absent
    <2>4. HeldInv
      BY Zenon DEF Init, HeldInv, Committed
    <2> QED
      BY Zenon, <2>1, <2>2, <2>3, <2>4 DEF IndInv
  <1>2. IndInv /\ [Next]_vars => IndInv'
    <2> SUFFICES ASSUME IndInv, [Next]_vars PROVE IndInv'
      OBVIOUS
    <2>1. TypeOK' /\ ObjectInv' /\ PhaseInv' /\ AppliedInv'
      BY Zenon, TypeStep, ObjectStep, PhaseStep, AppliedStep DEF IndInv
    <2>2. HeldInv' /\ NoOrphanRequestor'
      BY Zenon, HeldStep, OrphanStep
    <2>3. ~svc'.busy
      BY Zenon, ServiceIdle
    <2> QED
      BY Zenon, <2>1, <2>2, <2>3 DEF IndInv
  <1> QED
    BY <1>1, <1>2, PTL DEF Spec

(* A DPU in the provisioning phases keeps the node effect it was promised, *)
(* except after a join that came too late (staleJoin), for any number of   *)
(* DPUs on the node, any node effect, failures, restarts and deletions.    *)
THEOREM EffectIsHeld ==
  ASSUME Services = {}
  PROVE  Spec => []EffectHeld
  <1>1. IndInv => EffectHeld
    BY Zenon DEF IndInv, HeldInv, Committed, EffectHeld
  <1> QED
    BY <1>1, Inductive, PTL

(* A DPU among the requestors is in a phase from which it withdraws, so no *)
(* finished or vanished DPU keeps the node in maintenance.                 *)
THEOREM RequestorsCanWithdraw ==
  ASSUME Services = {}
  PROVE  Spec => []NoOrphanRequestor
  <1>1. IndInv => NoOrphanRequestor
    BY Zenon DEF IndInv
  <1> QED
    BY <1>1, Inductive, PTL

-----------------------------------------------------------------------------
(* The node maintenance as a lease of the host.                            *)

\* The stages exclude each other.
LEMMA Stages ==
  /\ ~dnm.exists => Stage = "free"
  /\ dnm.exists /\ dnm.deleting => Stage = "closing"
  /\ dnm.exists /\ ~dnm.deleting /\ IsNodeEffectApplied(dnm) => Stage = "granted"
  /\ dnm.exists /\ ~dnm.deleting /\ ~IsNodeEffectApplied(dnm) => Stage = "asked"
  BY Zenon DEF Stage

\* The stage depends on three fields of the object.
LEMMA StageKept ==
  ASSUME dnm'.exists = dnm.exists, dnm'.deleting = dnm.deleting, dnm'.applied = dnm.applied
  PROVE  Stage' = Stage
  BY Zenon DEF Stage, IsNodeEffectApplied

(* A DPU whose phase is written goes on, or leaves; it does not enter the  *)
(* lease this way.                                                         *)
LEMMA PhaseLeaves ==
  ASSUME TypeOK, NEW d \in DPUs, NEW p, NextPhase(d, p),
         p = "Provisioning" => phase[d] = "Provisioning" \/ pc[d] = "complete"
  PROVE  Holders' \subseteq Holders
  <1>1. PICK q \in {p, "Error"} : /\ phase' = [phase EXCEPT ![d] = q]
                                  /\ staleJoin' = IF q = "Provisioning" THEN staleJoin ELSE staleJoin \ {d}
    BY Zenon DEF NextPhase
  <1>2. pc' = [pc EXCEPT ![d] = "idle"]
    BY Zenon DEF NextPhase
  <1>3. ASSUME NEW e \in DPUs, Committed(e)' PROVE Committed(e)
    <2>1. CASE e = d
      BY Zenon, <1>1, <1>2, <1>3, <2>1 DEF Committed, TypeOK
    <2>2. CASE e # d
      BY Zenon, <1>1, <1>2, <1>3, <2>2 DEF Committed, TypeOK
    <2> QED
      BY Zenon, <2>1, <2>2
  <1> QED
    BY Zenon, <1>3 DEF Holders

\* A step that leaves the object and the host alone, and lets nobody enter.
LEMMA LeaseLeave ==
  ASSUME kind' = kind, effect' = effect, Stage' = Stage, Holders' \subseteq Holders
  PROVE  L!Next
  BY Zenon DEF L!Next, L!Leave, InForce

\* The steps of the DPU controller.
LEMMA LeaseDPU ==
  ASSUME Services = {}, IndInv, kind' = kind, NEW d \in DPUs, DPUStep(d)
  PROVE  L!Next
  <1>0. TypeOK
    BY Zenon DEF IndInv
  <1>1. CASE Reconcile(d)
    <2>1. dnm' = dnm
      BY Zenon, <1>0, <1>1, NoServices DEF Reconcile
    <2>2. Holders' \subseteq Holders
      BY Zenon, <1>0, <1>1 DEF Reconcile, Holders, Committed, TypeOK
    <2> QED
      BY Zenon, <1>1, <2>1, <2>2, StageKept, LeaseLeave DEF Reconcile
  <1>2. CASE ToDeleting(d) \/ Pending(d) \/ handleNodeEffectCompletion(d) \/ StartInPlaceReconfig(d)
             \/ Provision(d) \/ Ready(d)
    <2>1. dnm' = dnm /\ effect' = effect
      BY Zenon, <1>2 DEF ToDeleting, Pending, handleNodeEffectCompletion, StartInPlaceReconfig, Provision,
         Ready, objVars
    <2>2. \E p : NextPhase(d, p) /\ (p = "Provisioning" => phase[d] = "Provisioning" \/ pc[d] = "complete")
      BY <1>2 DEF ToDeleting, Pending, handleNodeEffectCompletion, StartInPlaceReconfig, Provision, Ready
    <2>3. Holders' \subseteq Holders
      BY Zenon, <1>0, <2>2, PhaseLeaves
    <2> QED
      BY Zenon, <2>1, <2>3, StageKept, LeaseLeave
  <1>3. CASE NodeEffectRemoval(d) \/ Error(d) \/ Deleting(d)
    <2>1. dnm' = dnm \/ dnm' = [dnm EXCEPT !.requestor = @ \ {d}]
      BY Zenon, <1>3 DEF NodeEffectRemoval, Error, Deleting, RemoveRequestorFromDPUNodeMaintenance
    <2>2. dnm'.exists = dnm.exists /\ dnm'.deleting = dnm.deleting /\ dnm'.applied = dnm.applied
      BY Zenon, <1>0, <2>1 DEF TypeOK, DNM
    <2>3. \E p : NextPhase(d, p) /\ p # "Provisioning"
      BY <1>3 DEF NodeEffectRemoval, Error, Deleting
    <2>4. Holders' \subseteq Holders
      BY Zenon, <1>0, <2>3, PhaseLeaves
    <2>5. effect' = effect
      BY Zenon, <1>3 DEF NodeEffectRemoval, Error, Deleting
    <2> QED
      BY Zenon, <2>2, <2>4, <2>5, StageKept, LeaseLeave
  <1>4. CASE ReconcileFails(d)
    <2>1. Holders' \subseteq Holders
      BY Zenon, <1>0, <1>4 DEF ReconcileFails, Holders, Committed, TypeOK
    <2> QED
      BY Zenon, <1>4, <2>1, StageKept, LeaseLeave DEF ReconcileFails, objVars
  <1>5. CASE NodeEffect(d)
    <2>0. effect' = effect /\ phase[d] = "NodeEffect"
      BY Zenon, <1>5 DEF NodeEffect, Handling
    <2>1. CASE createDPUNodeMaintenance(d) /\ ~dnm.exists /\ NextPhase(d, "NodeEffect")
      <3>1. dnm'.exists /\ ~dnm'.deleting /\ dnm'.applied = "nil"
        BY Zenon, <2>1 DEF createDPUNodeMaintenance, Absent
      <3>2. Stage = "free" /\ Stage' = "asked"
        BY Zenon, <2>1, <3>1 DEF Stage, IsNodeEffectApplied
      <3>3. Holders' \subseteq Holders
        BY Zenon, <1>0, <2>1, PhaseLeaves
      <3>4. Holders = {}
        BY Zenon, <2>1 DEF IndInv, HeldInv, Covered, Holders
      <3> QED
        BY Zenon, <2>0, <3>2, <3>3, <3>4 DEF L!Next, L!Ask, InForce
    <2>2. CASE dnm' = dnm /\ NextPhase(d, "NodeEffect")
      <3>1. Holders' \subseteq Holders
        BY Zenon, <1>0, <2>2, PhaseLeaves
      <3> QED
        BY Zenon, <2>0, <2>2, <3>1, StageKept, LeaseLeave
    <2>3. CASE /\ dnm.exists /\ ~dnm.deleting
               /\ pc' = [pc EXCEPT ![d] = IF d \in dnm.requestor THEN "complete"
                                         ELSE IF IsNodeEffectApplied(dnm) THEN "joinApplied"
                                         ELSE "join"]
               /\ d \notin dnm.requestor \/ IsNodeEffectApplied(dnm)
               /\ UNCHANGED <<dnm, phase, staleJoin>>
      <3>1. Stage' = Stage /\ InForce' = InForce
        BY Zenon, <2>0, <2>3, StageKept DEF InForce
      <3>2. CASE d \in dnm.requestor
        <4>1. Stage = "granted"
          BY Zenon, <2>3, <3>2, Stages
        <4>2. Holders' = Holders \cup {d} \/ Holders' \subseteq Holders
          BY <1>0, <2>3, <3>2 DEF Holders, Committed, TypeOK
        <4> QED
          BY Zenon, <2>0, <3>1, <4>1, <4>2, LeaseLeave DEF L!Next, L!Enter
      <3>3. CASE d \notin dnm.requestor
        <4>1. Holders' \subseteq Holders
          BY Zenon, <1>0, <2>3, <3>3 DEF Holders, Committed, TypeOK
        <4> QED
          BY Zenon, <2>0, <3>1, <4>1, LeaseLeave
      <3> QED
        BY Zenon, <3>2, <3>3
    <2> QED
      BY Zenon, <1>5, <2>1, <2>2, <2>3 DEF NodeEffect
  <1>6. CASE addRequestorAndUpdateForce(d)
    <2>1. dnm'.exists = dnm.exists /\ dnm'.deleting = dnm.deleting /\ dnm'.applied = dnm.applied
      BY Zenon, <1>0, <1>6 DEF addRequestorAndUpdateForce, TypeOK, DNM
    <2>2. effect' = effect /\ Stage' = Stage /\ InForce' = InForce /\ dnm.exists
      BY Zenon, <1>6, <2>1, StageKept DEF addRequestorAndUpdateForce, InForce
    <2>3. CASE pc[d] # "joinApplied"
      <3>1. NextPhase(d, "NodeEffect")
        BY Zenon, <1>6, <2>3 DEF addRequestorAndUpdateForce
      <3>2. Holders' \subseteq Holders
        BY Zenon, <1>0, <3>1, PhaseLeaves
      <3> QED
        BY Zenon, <2>2, <3>2, LeaseLeave
    <2>4. CASE pc[d] = "joinApplied"
      <3>1. /\ pc' = [pc EXCEPT ![d] = "complete"] /\ phase' = phase
            /\ staleJoin' = IF dnm.deleting \/ ~IsNodeEffectApplied(dnm) THEN staleJoin \cup {d} ELSE staleJoin
        BY Zenon, <1>6, <2>4 DEF addRequestorAndUpdateForce
      <3>2. CASE dnm.deleting \/ ~IsNodeEffectApplied(dnm)
        <4>1. Holders' \subseteq Holders
          BY Zenon, <1>0, <3>1, <3>2 DEF Holders, Committed, TypeOK
        <4> QED
          BY Zenon, <2>2, <4>1, LeaseLeave
      <3>3. CASE ~dnm.deleting /\ IsNodeEffectApplied(dnm)
        <4>1. Stage = "granted"
          BY Zenon, <2>2, <3>3, Stages
        <4>2. Holders' = Holders \cup {d} \/ Holders' \subseteq Holders
          BY <1>0, <3>1, <3>3 DEF Holders, Committed, TypeOK
        <4> QED
          BY Zenon, <2>2, <4>1, <4>2, LeaseLeave DEF L!Next, L!Enter
      <3> QED
        BY Zenon, <3>2, <3>3
    <2> QED
      BY Zenon, <2>3, <2>4
  <1> QED
    BY Zenon, <1>1, <1>2, <1>3, <1>4, <1>5, <1>6 DEF DPUStep

\* Who holds the lease is decided by the DPU controller alone.
LEMMA SameHolders ==
  ASSUME UNCHANGED <<phase, pc, staleJoin>>
  PROVE  Holders' = Holders
  BY Zenon DEF Holders, Committed

(* The steps of the DPUNodeMaintenance controller.  What it decided from   *)
(* the object it had read is carried out on a later object.                *)
LEMMA LeaseCtl ==
  ASSUME IndInv, kind' = kind, CtlStep
  PROVE  [L!Next]_(L!vars)
  <1> USE DEF ctlFrame, objVars, dpuVars
  <1>0. TypeOK /\ ObjectInv /\ PhaseInv /\ AppliedInv /\ HeldInv
    BY Zenon DEF IndInv
  <1>h. UNCHANGED <<phase, pc, staleJoin>>
    BY Zenon DEF CtlStep, ctlAddFinalizer, ctlRead, ctlDelete, checkMaxUnavailableAndSyncWaitTime,
       reconcileEffect, ctlPatch, handleNodeEffectRemoval, ctlRemoveFinalizer,
       reconcileDeleteWithoutNode, ctlFails
  <1>s. Holders' = Holders
    BY Zenon, <1>h, SameHolders
  <1>1. CASE ctlAddFinalizer
    <2>1. dnm'.exists = dnm.exists /\ dnm'.deleting = dnm.deleting /\ dnm'.applied = dnm.applied
      BY Zenon, <1>0, <1>1 DEF ctlAddFinalizer, TypeOK, DNM
    <2> QED
      BY Zenon, <1>1, <1>s, <2>1, StageKept, LeaseLeave DEF ctlAddFinalizer
  <1>2. CASE ctlRead \/ ctlFails
    <2>1. dnm' = dnm /\ effect' = effect
      BY Zenon, <1>2 DEF ctlRead, ctlFails
    <2> QED
      BY Zenon, <1>s, <2>1, StageKept, LeaseLeave
  <1>3. CASE ctlDelete
    <2>1. dnm.exists /\ dnm'.exists /\ dnm'.deleting /\ effect' = effect
      BY Zenon, <1>0, <1>3 DEF ctlDelete, ObjectInv, TypeOK, DNM
    <2>2. Stage' = "closing" /\ Stage \in {"closing", "asked", "granted"}
      BY Zenon, <2>1 DEF Stage
    <2> QED
      BY Zenon, <1>s, <2>1, <2>2 DEF L!Next, L!Close, L!vars, InForce
  <1>4. CASE checkMaxUnavailableAndSyncWaitTime
    <2>1. /\ dnm'.exists = dnm.exists /\ dnm'.deleting = dnm.deleting /\ dnm'.applied = "False"
          /\ ~IsNodeEffectApplied(dnm) /\ effect' = effect
      BY Zenon, <1>0, <1>4 DEF checkMaxUnavailableAndSyncWaitTime, ObjectInv, AppliedInv, TypeOK, DNM
    <2>2. Stage' = Stage
      BY Zenon, <2>1 DEF Stage, IsNodeEffectApplied
    <2> QED
      BY Zenon, <1>s, <2>1, <2>2, LeaseLeave
  <1>5. CASE reconcileEffect
    <2>1. /\ dnm' = dnm /\ dnm.exists /\ ~IsNodeEffectApplied(dnm)
          /\ effect' = effect \/ (effect' # "none" /\ (InForce => InForce'))
      BY Zenon, <1>0, <1>5 DEF reconcileEffect, ObjectInv, AppliedInv, InForce
    <2>2. Stage' = Stage /\ Stage \in {"asked", "closing"}
      BY Zenon, <2>1 DEF Stage
    <2>3. CASE effect' = effect
      BY Zenon, <1>s, <2>2, <2>3, LeaseLeave
    <2>4. CASE effect' # "none" /\ (InForce => InForce')
      BY Zenon, <1>s, <2>2, <2>4 DEF L!Next, L!Place
    <2> QED
      BY Zenon, <2>1, <2>3, <2>4
  <1>6. CASE ctlPatch
    <2>1. /\ dnm.exists /\ dnm'.exists /\ dnm'.deleting = dnm.deleting /\ effect' = effect
          /\ ~IsNodeEffectApplied(dnm)
          /\ IsNodeEffectApplied(dnm)' => InForce
      BY Zenon, <1>0, <1>6 DEF ctlPatch, ObjectInv, AppliedInv, TypeOK, DNM, IsNodeEffectApplied
    <2>2. Stage' = Stage \/ (Stage = "asked" /\ Stage' = "granted" /\ InForce)
      BY Zenon, <2>1 DEF Stage
    <2>3. CASE Stage' = Stage
      BY Zenon, <1>s, <2>1, <2>3, LeaseLeave
    <2>4. CASE Stage = "asked" /\ Stage' = "granted" /\ InForce
      BY Zenon, <1>s, <2>1, <2>4 DEF L!Next, L!Grant, InForce
    <2> QED
      BY Zenon, <2>2, <2>3, <2>4
  <1>7. CASE handleNodeEffectRemoval
    <2>1. dnm' = dnm /\ dnm.exists /\ dnm.deleting /\ effect' = "none" /\ Holders = {}
      BY Zenon, <1>0, <1>7 DEF handleNodeEffectRemoval, ObjectInv, HeldInv, Holders
    <2>2. Stage' = "closing" /\ Stage = "closing"
      BY Zenon, <2>1 DEF Stage
    <2> QED
      BY Zenon, <1>s, <2>1, <2>2 DEF L!Next, L!Withdraw
  <1>8. CASE ctlRemoveFinalizer
    <2>1. dnm.exists /\ dnm.deleting /\ ~dnm'.exists /\ effect' = effect /\ effect = "none" /\ Holders = {}
      BY Zenon, <1>0, <1>8 DEF ctlRemoveFinalizer, ObjectInv, HeldInv, Holders, Absent
    <2>2. Stage' = "free" /\ Stage = "closing"
      BY Zenon, <2>1 DEF Stage
    <2> QED
      BY Zenon, <1>s, <2>1, <2>2 DEF L!Next, L!Free, InForce
  <1>9. CASE reconcileDeleteWithoutNode
    <2>1. dnm.exists /\ dnm.deleting /\ effect' = effect
      BY Zenon, <1>9 DEF reconcileDeleteWithoutNode
    <2>2. CASE kind \in {"NoEffect", "Hold"}
      <3>1. ~dnm'.exists /\ effect = "none"
        BY Zenon, <1>0, <1>9, <2>2 DEF reconcileDeleteWithoutNode, ObjectInv, Absent
      <3>2. Holders = {}
        <4>1. \A d \in DPUs : phase[d] \in {"Deleting", "Gone"}
          BY Zenon, <1>0, <1>9 DEF reconcileDeleteWithoutNode, PhaseInv
        <4> QED
          BY Zenon, <1>0, <4>1 DEF PhaseInv, Holders, Committed
      <3>3. Stage' = "free" /\ Stage = "closing"
        BY Zenon, <2>1, <3>1 DEF Stage
      <3> QED
        BY Zenon, <1>s, <2>1, <3>1, <3>2, <3>3 DEF L!Next, L!Free, InForce
    <2>3. CASE kind \notin {"NoEffect", "Hold"}
      <3>1. dnm'.exists = dnm.exists /\ dnm'.deleting = dnm.deleting /\ dnm'.applied = dnm.applied
        BY Zenon, <1>0, <1>9, <2>3 DEF reconcileDeleteWithoutNode, TypeOK, DNM
      <3> QED
        BY Zenon, <1>s, <2>1, <3>1, StageKept, LeaseLeave
    <2> QED
      BY Zenon, <2>2, <2>3
  <1> QED
    BY Zenon, <1>1, <1>2, <1>3, <1>4, <1>5, <1>6, <1>7, <1>8, <1>9 DEF CtlStep

\* The steps of users, of the host and of the cluster.
LEMMA LeaseEnv ==
  ASSUME IndInv, kind' = kind, EnvStep
  PROVE  [L!Next]_(L!vars)
  <1> USE DEF objVars, dpuVars
  <1>0. TypeOK /\ ObjectInv /\ PhaseInv /\ AppliedInv /\ HeldInv
    BY Zenon DEF IndInv
  <1>1. CASE EffectProgress
    <2>1. /\ dnm' = dnm /\ effect = "pending" /\ effect' # "none" /\ ~InForce
          /\ UNCHANGED <<phase, pc, staleJoin>>
      BY Zenon, <1>0, <1>1 DEF EffectProgress, InForce, ObjectInv
    <2>2. Holders' = Holders /\ Stage' = Stage
      BY Zenon, <2>1, SameHolders, StageKept
    <2>3. dnm.exists
      BY Zenon, <1>0, <2>1 DEF ObjectInv
    <2>4. Stage \in {"asked", "closing"}
      BY Zenon, <1>0, <2>1, <2>3 DEF Stage, AppliedInv
    <2> QED
      BY Zenon, <2>1, <2>2, <2>4 DEF L!Next, L!Place
  <1>2. CASE ReleaseHold
    <2>1. dnm'.exists = dnm.exists /\ dnm'.deleting = dnm.deleting /\ dnm'.applied = dnm.applied
      BY Zenon, <1>0, <1>2 DEF ReleaseHold, TypeOK, DNM
    <2>2. Holders' = Holders
      BY Zenon, <1>2, SameHolders DEF ReleaseHold
    <2> QED
      BY Zenon, <1>2, <2>1, <2>2, StageKept, LeaseLeave DEF ReleaseHold
  <1>3. CASE DeleteMaintenance
    <2>1. dnm.exists /\ ~dnm.deleting /\ effect' = effect /\ Holders' = Holders
      BY Zenon, <1>3, SameHolders DEF DeleteMaintenance
    <2>2. CASE dnm.finalizer
      <3>1. dnm'.exists /\ dnm'.deleting
        BY Zenon, <1>0, <1>3, <2>2 DEF DeleteMaintenance, TypeOK, DNM
      <3>2. Stage' = "closing" /\ Stage \in {"asked", "granted"}
        BY Zenon, <2>1, <3>1 DEF Stage
      <3> QED
        BY Zenon, <2>1, <3>2 DEF L!Next, L!Close, InForce
    <2>3. CASE ~dnm.finalizer
      <3>1. ~dnm'.exists /\ effect = "none" /\ dnm.applied = "nil"
        BY Zenon, <1>0, <1>3, <2>3 DEF DeleteMaintenance, ObjectInv, Absent
      <3>2. Stage' = "free" /\ Stage = "asked"
        BY Zenon, <2>1, <3>1 DEF Stage, IsNodeEffectApplied
      <3>3. Holders = {}
        BY Zenon, <1>0, <3>1 DEF HeldInv, Covered, IsNodeEffectApplied, Holders
      <3> QED
        BY Zenon, <2>1, <3>1, <3>2, <3>3 DEF L!Next, L!Free, InForce
    <2> QED
      BY Zenon, <2>2, <2>3
  <1>4. CASE \/ DeleteDPUNode \/ CreateDPUNode \/ Upgrade
             \/ \E d \in DPUs : DeleteDPU(d) \/ SetAdditionalRequestors(d)
    <2>1. UNCHANGED <<dnm, effect, phase, pc, staleJoin>>
      BY Zenon, <1>4 DEF DeleteDPUNode, CreateDPUNode, Upgrade, DeleteDPU, SetAdditionalRequestors
    <2> QED
      BY Zenon, <2>1, SameHolders, StageKept, LeaseLeave
  <1>5. ASSUME NEW d \in DPUs, CreateDPU(d) PROVE L!Next
    <2>1. Holders' \subseteq Holders
      BY Zenon, <1>0, <1>5 DEF CreateDPU, Holders, Committed, TypeOK
    <2> QED
      BY Zenon, <1>5, <2>1, StageKept, LeaseLeave DEF CreateDPU
  <1>6. CASE Restart
    <2>1. Holders' \subseteq Holders
      BY Zenon, <1>0, <1>6 DEF Restart, Holders, Committed, TypeOK
    <2> QED
      BY Zenon, <1>6, <2>1, StageKept, LeaseLeave DEF Restart
  <1> QED
    BY Zenon, <1>1, <1>2, <1>3, <1>4, <1>5, <1>6 DEF EnvStep

(* The DPUNodeMaintenance of a host, with the DPUs that come and go, is a  *)
(* lease of the host: granted only with the effect in place, entered only  *)
(* while it is granted, never taken back but by a deletion, and withdrawn  *)
(* only from nobody.  Services would take DPUs out of the requestors.      *)
THEOREM MaintenanceImplementsLease ==
  ASSUME Services = {}
  PROVE  Spec => MaintenanceIsLease
  <1>1. Init => L!Init
    <2> SUFFICES ASSUME Init PROVE L!Init
      OBVIOUS
    <2>1. Stage = "free"
      BY Zenon DEF Init, Absent, Stage
    <2>2. Holders = {}
      BY Zenon DEF Init, Holders, Committed
    <2>3. effect = "none" /\ InForce \in BOOLEAN
      BY Zenon DEF Init, InForce
    <2> QED
      BY Zenon, <2>1, <2>2, <2>3 DEF L!Init
  <1>2. IndInv /\ [Next]_vars => [L!Next]_(L!vars)
    <2> SUFFICES ASSUME IndInv, [Next]_vars PROVE [L!Next]_(L!vars)
      OBVIOUS
    <2>1. CASE UNCHANGED vars
      BY Zenon, <2>1, SameHolders, StageKept DEF vars, L!vars, InForce
    <2>2. CASE Next
      <3>1. kind' = kind
        BY Zenon, <2>2 DEF Next
      <3>2. ~svcRead /\ ~patchDPUNodeMaintenanceObjects
        BY Zenon, NoServices DEF IndInv, patchDPUNodeMaintenanceObjects
      <3> QED
        BY Zenon, <2>2, <3>1, <3>2, LeaseDPU, LeaseCtl, LeaseEnv DEF Next
    <2> QED
      BY Zenon, <2>1, <2>2
  <1>3. Spec => []IndInv
    BY Zenon, Inductive
  <1> QED
    BY <1>1, <1>2, <1>3, PTL DEF Spec, MaintenanceIsLease, L!Spec
=============================================================================
