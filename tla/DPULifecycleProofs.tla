-------------------------- MODULE DPULifecycleProofs --------------------------
(***************************************************************************)
(* Proofs about DPULifecycle, for any number of DPUs and any limit.        *)
(*                                                                         *)
(* LifeInv says what the conditions and flags of a DPU are in each phase;  *)
(* it holds across restarts, and ServesOnlyInstalled follows from it.      *)
(* SlotInv ties the map to the phases.  It holds as long as the process    *)
(* does not restart, and gives Capacity and SlotOwners.                    *)
(***************************************************************************)
EXTENDS DPULifecycle, FiniteSetTheorems, TLAPS

(* What is known of one DPU in its phase. *)
Life(d) ==
    /\ phase[d] \in {"Absent", "Gone"} => os[d] = "none"
    /\ phase[d] = "Initializing" =>
          os[d] = IF label[d] = "skip" THEN "preinstalled" ELSE "none"
    /\ phase[d] \in {"Pending", "InitializeInterface", "ConfigFWParameters",
                     "PrepareBFB"} => os[d] = "none"
    /\ phase[d] = "NodeEffect" /\ post[d] = "none" => os[d] = "none"
    /\ phase[d] = "OSInstalling" => os[d] # "preinstalled"
    /\ phase[d] = "Rebooting" =>
          \/ prev[d] = "InitializeInterface" /\ os[d] = "none"
                /\ label[d] # "skipHW"
          \/ prev[d] = "DPUConfig" /\ AgentRuns(d)
    /\ phase[d] \in {"DPUConfig", "HostNetworkConfiguration", "ClusterConfig",
                     "ServiceReadiness", "NodeEffectRemoval", "Ready"} =>
          AgentRuns(d)
    /\ post[d] # "none" => AgentRuns(d)
    /\ d \in patching =>
          phase[d] = "Pending" \/ (phase[d] = "OSInstalling" /\ os[d] = "yes")

LifeInv == \A d \in DPUs : Life(d)

(* What is known of the slot of one DPU while the process runs. *)
SlotOf(d) ==
    /\ InProvisioning(d) => d \in slots
    /\ d \in patching /\ phase[d] = "Pending" => d \in slots
    /\ d \in patching /\ phase[d] = "OSInstalling" => d \notin slots
    /\ d \in slots =>
          \/ InProvisioning(d)
          \/ phase[d] \in {"Pending", "OSInstalling", "Error", "Deleting"}

SlotInv == initialized = TRUE /\ \A d \in DPUs : SlotOf(d)


(* Every action keeps the types. *)
LEMMA TypeStep == ASSUME TypeOK, [Next]_vars PROVE TypeOK'
<1> USE LifecycleAssumption
<1>1. ASSUME NEW d \in DPUs, Initializing(d)
      PROVE  TypeOK'
  BY <1>1 DEF Initializing, Waits, DeletionOr, Reconcile, UpdateDPUStatus,
       objVars, mapVars, TypeOK, Phases, DeviceLabels
<1>2. ASSUME NEW d \in DPUs, Pending(d)
      PROVE  TypeOK'
  BY <1>2 DEF Pending, DeletionOr, CanProceed, Reconcile, UpdateDPUStatus,
       objVars, mapVars, TypeOK, Phases, DeviceLabels
<1>3. ASSUME NEW d \in DPUs, NodeEffect(d)
      PROVE  TypeOK'
  BY <1>3 DEF NodeEffect, armInPlaceNodeEffect, handleNodeEffectCompletion,
       Reconcile, UpdateDPUStatus, objVars, mapVars, TypeOK, Phases,
       DeviceLabels
<1>4. ASSUME NEW d \in DPUs, InitializeInterface(d)
      PROVE  TypeOK'
  BY <1>4 DEF InitializeInterface, Waits, DeletionOr, Reconcile,
       UpdateDPUStatus, objVars, mapVars, TypeOK, Phases, DeviceLabels
<1>5. ASSUME NEW d \in DPUs, ConfigFWParameters(d)
      PROVE  TypeOK'
  BY <1>5 DEF ConfigFWParameters, Waits, DeletionOr, Reconcile,
       UpdateDPUStatus, objVars, mapVars, TypeOK, Phases, DeviceLabels
<1>6. ASSUME NEW d \in DPUs, PrepareBFB(d)
      PROVE  TypeOK'
  BY Zenon, <1>6 DEF PrepareBFB, Reconcile, UpdateDPUStatus, objVars, mapVars,
       TypeOK, Phases, DeviceLabels
<1>7. ASSUME NEW d \in DPUs, Installing(d)
      PROVE  TypeOK'
  BY <1>7 DEF Installing, CheckInstallationTimeout, Remove, Reconcile,
       UpdateDPUStatus, objVars, mapVars, TypeOK, Phases, DeviceLabels
<1>8. ASSUME NEW d \in DPUs, DPUConfig(d)
      PROVE  TypeOK'
  BY <1>8 DEF DPUConfig, Waits, DeletionOr, Reconcile, UpdateDPUStatus,
       objVars, mapVars, TypeOK, Phases, DeviceLabels
<1>9. ASSUME NEW d \in DPUs, Rebooting(d)
      PROVE  TypeOK'
  BY <1>9 DEF Rebooting, Waits, DeletionOr, CompleteRebooting, Reconcile,
       UpdateDPUStatus, objVars, mapVars, TypeOK, Phases, DeviceLabels
<1>10. ASSUME NEW d \in DPUs, SetupNetwork(d)
      PROVE  TypeOK'
  BY <1>10 DEF SetupNetwork, Waits, DeletionOr, Reconcile, UpdateDPUStatus,
       objVars, mapVars, TypeOK, Phases, DeviceLabels
<1>11. ASSUME NEW d \in DPUs, ClusterConfig(d)
      PROVE  TypeOK'
  BY <1>11 DEF ClusterConfig, Waits, DeletionOr, Reconcile, UpdateDPUStatus,
       objVars, mapVars, TypeOK, Phases, DeviceLabels
<1>12. ASSUME NEW d \in DPUs, ServiceReadiness(d)
      PROVE  TypeOK'
  BY <1>12 DEF ServiceReadiness, Waits, DeletionOr, Reconcile,
       UpdateDPUStatus, objVars, mapVars, TypeOK, Phases, DeviceLabels
<1>13. ASSUME NEW d \in DPUs, NodeEffectRemoval(d)
      PROVE  TypeOK'
  BY <1>13 DEF NodeEffectRemoval, Waits, DeletionOr, Reconcile,
       UpdateDPUStatus, objVars, mapVars, TypeOK, Phases, DeviceLabels
<1>14. ASSUME NEW d \in DPUs, Ready(d)
      PROVE  TypeOK'
  BY <1>14 DEF Ready, DeletionOr, Reconcile, UpdateDPUStatus, objVars,
       mapVars, TypeOK, Phases, DeviceLabels
<1>15. ASSUME NEW d \in DPUs, Error(d)
      PROVE  TypeOK'
  BY <1>15 DEF Error, Remove, Reconcile, UpdateDPUStatus, objVars, mapVars,
       TypeOK, Phases, DeviceLabels
<1>16. ASSUME NEW d \in DPUs, Deleting(d)
      PROVE  TypeOK'
  BY <1>16 DEF Deleting, Remove, Finalized, Reconcile, UpdateDPUStatus,
       objVars, mapVars, TypeOK, Phases, DeviceLabels
<1>17. ASSUME NEW d \in DPUs, StartInPlaceReconfig(d)
      PROVE  TypeOK'
  BY Zenon, <1>17 DEF StartInPlaceReconfig, UpdateDPUStatus, objVars, mapVars,
       TypeOK, Phases, DeviceLabels
<1>18. ASSUME NEW d \in DPUs, setErrorPhaseFromCondition(d)
      PROVE  TypeOK'
  BY Zenon, <1>18 DEF setErrorPhaseFromCondition, UpdateDPUStatus, objVars, mapVars,
       TypeOK, Phases, DeviceLabels
<1>19. ASSUME NEW d \in DPUs, Patch(d)
      PROVE  TypeOK'
  BY Zenon, <1>19 DEF Patch, UpdateDPUStatus, objVars, mapVars, TypeOK, Phases,
       DeviceLabels
<1>20. ASSUME NEW d \in DPUs, PatchFails(d)
      PROVE  TypeOK'
  BY Zenon, <1>20 DEF PatchFails, UpdateDPUStatus, objVars, mapVars, TypeOK, Phases,
       DeviceLabels
<1>21. ASSUME NEW d \in DPUs, InstallTask(d)
      PROVE  TypeOK'
  BY <1>21 DEF InstallTask, UpdateDPUStatus, objVars, mapVars, TypeOK,
       Phases, DeviceLabels
<1>22. ASSUME NEW d \in DPUs, CreateDPU(d)
      PROVE  TypeOK'
  BY <1>22 DEF CreateDPU, UpdateDPUStatus, objVars, mapVars, TypeOK, Phases,
       DeviceLabels
<1>23. ASSUME NEW d \in DPUs, DeleteDPU(d)
      PROVE  TypeOK'
  BY Zenon, <1>23 DEF DeleteDPU, UpdateDPUStatus, objVars, mapVars, TypeOK, Phases,
       DeviceLabels
<1>24. CASE Initialize
  BY Zenon, <1>24 DEF Initialize, Counted, IsDPUInProvisioningPhase, objVars,
       TypeOK, Phases, DeviceLabels
<1>25. CASE Restart
  BY <1>25 DEF Restart, Counted, IsDPUInProvisioningPhase, objVars, TypeOK,
       Phases, DeviceLabels
<1>26. CASE UNCHANGED vars
  BY Zenon, <1>26 DEF vars, TypeOK, Phases, DeviceLabels
<1> QED
  BY Zenon, <1>1, <1>2, <1>3, <1>4, <1>5, <1>6, <1>7, <1>8, <1>9, <1>10, <1>11,
     <1>12, <1>13, <1>14, <1>15, <1>16, <1>17, <1>18, <1>19, <1>20, <1>21,
     <1>22, <1>23, <1>24, <1>25, <1>26 DEF Next, handlers

(* The status of a DPU is always of its declared type (dpu_types.go). *)
THEOREM LifecycleTypeCorrect == Spec => []TypeOK
<1>1. Init => TypeOK
  BY LifecycleAssumption DEF Init, TypeOK, Phases, DeviceLabels
<1> QED
  BY <1>1, TypeStep, PTL DEF Spec

(* Every action keeps what is known of the DPUs. *)
LEMMA LifeStep == ASSUME TypeOK, LifeInv, [Next]_vars PROVE LifeInv'
<1> USE LifecycleAssumption
<1>1. ASSUME NEW d \in DPUs, Initializing(d)
      PROVE  LifeInv'
  BY <1>1 DEF Initializing, Waits, DeletionOr, Reconcile, UpdateDPUStatus,
       objVars, mapVars, LifeInv, Life, AgentRuns, TypeOK, Phases,
       DeviceLabels
<1>2. ASSUME NEW d \in DPUs, Pending(d)
      PROVE  LifeInv'
  BY <1>2 DEF Pending, DeletionOr, CanProceed, Reconcile, UpdateDPUStatus,
       objVars, mapVars, LifeInv, Life, AgentRuns, TypeOK, Phases,
       DeviceLabels
<1>3. ASSUME NEW d \in DPUs, NodeEffect(d)
      PROVE  LifeInv'
  BY <1>3 DEF NodeEffect, armInPlaceNodeEffect, handleNodeEffectCompletion,
       Reconcile, UpdateDPUStatus, objVars, mapVars, LifeInv, Life,
       AgentRuns, TypeOK, Phases, DeviceLabels
<1>4. ASSUME NEW d \in DPUs, InitializeInterface(d)
      PROVE  LifeInv'
  BY <1>4 DEF InitializeInterface, Waits, DeletionOr, Reconcile,
       UpdateDPUStatus, objVars, mapVars, LifeInv, Life, AgentRuns, TypeOK,
       Phases, DeviceLabels
<1>5. ASSUME NEW d \in DPUs, ConfigFWParameters(d)
      PROVE  LifeInv'
  BY <1>5 DEF ConfigFWParameters, Waits, DeletionOr, Reconcile,
       UpdateDPUStatus, objVars, mapVars, LifeInv, Life, AgentRuns, TypeOK,
       Phases, DeviceLabels
<1>6. ASSUME NEW d \in DPUs, PrepareBFB(d)
      PROVE  LifeInv'
  BY <1>6 DEF PrepareBFB, Reconcile, UpdateDPUStatus, objVars, mapVars,
       LifeInv, Life, AgentRuns, TypeOK, Phases, DeviceLabels
<1>7. ASSUME NEW d \in DPUs, Installing(d)
      PROVE  LifeInv'
  BY <1>7 DEF Installing, CheckInstallationTimeout, Remove, Reconcile,
       UpdateDPUStatus, objVars, mapVars, LifeInv, Life, AgentRuns, TypeOK,
       Phases, DeviceLabels
<1>8. ASSUME NEW d \in DPUs, DPUConfig(d)
      PROVE  LifeInv'
  BY <1>8 DEF DPUConfig, Waits, DeletionOr, Reconcile, UpdateDPUStatus,
       objVars, mapVars, LifeInv, Life, AgentRuns, TypeOK, Phases,
       DeviceLabels
<1>9. ASSUME NEW d \in DPUs, Rebooting(d)
      PROVE  LifeInv'
  BY <1>9 DEF Rebooting, Waits, DeletionOr, CompleteRebooting, Reconcile,
       UpdateDPUStatus, objVars, mapVars, LifeInv, Life, AgentRuns, TypeOK,
       Phases, DeviceLabels
<1>10. ASSUME NEW d \in DPUs, SetupNetwork(d)
      PROVE  LifeInv'
  BY <1>10 DEF SetupNetwork, Waits, DeletionOr, Reconcile, UpdateDPUStatus,
       objVars, mapVars, LifeInv, Life, AgentRuns, TypeOK, Phases,
       DeviceLabels
<1>11. ASSUME NEW d \in DPUs, ClusterConfig(d)
      PROVE  LifeInv'
  BY <1>11 DEF ClusterConfig, Waits, DeletionOr, Reconcile, UpdateDPUStatus,
       objVars, mapVars, LifeInv, Life, AgentRuns, TypeOK, Phases,
       DeviceLabels
<1>12. ASSUME NEW d \in DPUs, ServiceReadiness(d)
      PROVE  LifeInv'
  BY <1>12 DEF ServiceReadiness, Waits, DeletionOr, Reconcile,
       UpdateDPUStatus, objVars, mapVars, LifeInv, Life, AgentRuns, TypeOK,
       Phases, DeviceLabels
<1>13. ASSUME NEW d \in DPUs, NodeEffectRemoval(d)
      PROVE  LifeInv'
  BY <1>13 DEF NodeEffectRemoval, Waits, DeletionOr, Reconcile,
       UpdateDPUStatus, objVars, mapVars, LifeInv, Life, AgentRuns, TypeOK,
       Phases, DeviceLabels
<1>14. ASSUME NEW d \in DPUs, Ready(d)
      PROVE  LifeInv'
  BY <1>14 DEF Ready, DeletionOr, Reconcile, UpdateDPUStatus, objVars,
       mapVars, LifeInv, Life, AgentRuns, TypeOK, Phases, DeviceLabels
<1>15. ASSUME NEW d \in DPUs, Error(d)
      PROVE  LifeInv'
  BY <1>15 DEF Error, Remove, Reconcile, UpdateDPUStatus, objVars, mapVars,
       LifeInv, Life, AgentRuns, TypeOK, Phases, DeviceLabels
<1>16. ASSUME NEW d \in DPUs, Deleting(d)
      PROVE  LifeInv'
  BY <1>16 DEF Deleting, Remove, Finalized, Reconcile, UpdateDPUStatus,
       objVars, mapVars, LifeInv, Life, AgentRuns, TypeOK, Phases,
       DeviceLabels
<1>17. ASSUME NEW d \in DPUs, StartInPlaceReconfig(d)
      PROVE  LifeInv'
  BY <1>17 DEF StartInPlaceReconfig, UpdateDPUStatus, objVars, mapVars,
       LifeInv, Life, AgentRuns, TypeOK, Phases, DeviceLabels
<1>18. ASSUME NEW d \in DPUs, setErrorPhaseFromCondition(d)
      PROVE  LifeInv'
  BY <1>18 DEF setErrorPhaseFromCondition, UpdateDPUStatus, objVars, mapVars,
       LifeInv, Life, AgentRuns, TypeOK, Phases, DeviceLabels
<1>19. ASSUME NEW d \in DPUs, Patch(d)
      PROVE  LifeInv'
  BY <1>19 DEF Patch, UpdateDPUStatus, objVars, mapVars, LifeInv, Life,
       AgentRuns, TypeOK, Phases, DeviceLabels
<1>20. ASSUME NEW d \in DPUs, PatchFails(d)
      PROVE  LifeInv'
  BY Zenon, <1>20 DEF PatchFails, UpdateDPUStatus, objVars, mapVars, LifeInv, Life,
       AgentRuns, TypeOK, Phases, DeviceLabels
<1>21. ASSUME NEW d \in DPUs, InstallTask(d)
      PROVE  LifeInv'
  BY <1>21 DEF InstallTask, UpdateDPUStatus, objVars, mapVars, LifeInv, Life,
       AgentRuns, TypeOK, Phases, DeviceLabels
<1>22. ASSUME NEW d \in DPUs, CreateDPU(d)
      PROVE  LifeInv'
  BY <1>22 DEF CreateDPU, UpdateDPUStatus, objVars, mapVars, LifeInv, Life,
       AgentRuns, TypeOK, Phases, DeviceLabels
<1>23. ASSUME NEW d \in DPUs, DeleteDPU(d)
      PROVE  LifeInv'
  BY Zenon, <1>23 DEF DeleteDPU, UpdateDPUStatus, objVars, mapVars, LifeInv, Life,
       AgentRuns, TypeOK, Phases, DeviceLabels
<1>24. CASE Initialize
  BY Zenon, <1>24 DEF Initialize, Counted, IsDPUInProvisioningPhase, objVars,
       LifeInv, Life, AgentRuns, TypeOK, Phases, DeviceLabels
<1>25. CASE Restart
  BY Zenon, <1>25 DEF Restart, Counted, IsDPUInProvisioningPhase, objVars, LifeInv,
       Life, AgentRuns, TypeOK, Phases, DeviceLabels
<1>26. CASE UNCHANGED vars
  BY Zenon, <1>26 DEF vars, LifeInv, Life, AgentRuns, TypeOK, Phases, DeviceLabels
<1> QED
  BY Zenon, <1>1, <1>2, <1>3, <1>4, <1>5, <1>6, <1>7, <1>8, <1>9, <1>10, <1>11,
     <1>12, <1>13, <1>14, <1>15, <1>16, <1>17, <1>18, <1>19, <1>20, <1>21,
     <1>22, <1>23, <1>24, <1>25, <1>26 DEF Next, handlers

(* A DPU is configured, joined and made Ready only with an installed OS,   *)
(* for any number of DPUs and restarts of the manager.                     *)
THEOREM OnlyInstalledServe == Spec => []ServesOnlyInstalled
<1>1. Init => LifeInv
  BY DEF Init, LifeInv, Life
<1>2. LifeInv => ServesOnlyInstalled
  BY Zenon DEF LifeInv, Life, ServesOnlyInstalled
<1> QED
  BY <1>1, <1>2, LifecycleTypeCorrect, LifeStep, PTL DEF Spec

(* Without a restart every action keeps the map in step with the phases. *)
LEMMA SlotStep ==
    ASSUME TypeOK, LifeInv, SlotInv, MaxRestarts = 0, [Next]_vars
    PROVE  SlotInv'
<1>1. ASSUME NEW d \in DPUs, Initializing(d)
      PROVE  SlotInv'
  BY <1>1 DEF Initializing, Waits, DeletionOr, Reconcile, UpdateDPUStatus,
       objVars, mapVars, SlotInv, SlotOf, InProvisioning,
       IsDPUInProvisioningPhase, LifeInv, Life, AgentRuns, TypeOK, Phases
<1>2. ASSUME NEW d \in DPUs, Pending(d)
      PROVE  SlotInv'
  BY <1>2 DEF Pending, DeletionOr, CanProceed, Reconcile, UpdateDPUStatus,
       objVars, mapVars, SlotInv, SlotOf, InProvisioning,
       IsDPUInProvisioningPhase, LifeInv, Life, AgentRuns, TypeOK, Phases
<1>3. ASSUME NEW d \in DPUs, NodeEffect(d)
      PROVE  SlotInv'
  BY <1>3 DEF NodeEffect, armInPlaceNodeEffect, handleNodeEffectCompletion,
       Reconcile, UpdateDPUStatus, objVars, mapVars, SlotInv, SlotOf,
       InProvisioning, IsDPUInProvisioningPhase, LifeInv, Life, AgentRuns,
       TypeOK, Phases
<1>4. ASSUME NEW d \in DPUs, InitializeInterface(d)
      PROVE  SlotInv'
  BY <1>4 DEF InitializeInterface, Waits, DeletionOr, Reconcile,
       UpdateDPUStatus, objVars, mapVars, SlotInv, SlotOf, InProvisioning,
       IsDPUInProvisioningPhase, LifeInv, Life, AgentRuns, TypeOK, Phases
<1>5. ASSUME NEW d \in DPUs, ConfigFWParameters(d)
      PROVE  SlotInv'
  BY <1>5 DEF ConfigFWParameters, Waits, DeletionOr, Reconcile,
       UpdateDPUStatus, objVars, mapVars, SlotInv, SlotOf, InProvisioning,
       IsDPUInProvisioningPhase, LifeInv, Life, AgentRuns, TypeOK, Phases
<1>6. ASSUME NEW d \in DPUs, PrepareBFB(d)
      PROVE  SlotInv'
  BY <1>6 DEF PrepareBFB, Reconcile, UpdateDPUStatus, objVars, mapVars,
       SlotInv, SlotOf, InProvisioning, IsDPUInProvisioningPhase, LifeInv,
       Life, AgentRuns, TypeOK, Phases
<1>7. ASSUME NEW d \in DPUs, Installing(d)
      PROVE  SlotInv'
  BY <1>7 DEF Installing, CheckInstallationTimeout, Remove, Reconcile,
       UpdateDPUStatus, objVars, mapVars, SlotInv, SlotOf, InProvisioning,
       IsDPUInProvisioningPhase, LifeInv, Life, AgentRuns, TypeOK, Phases
<1>8. ASSUME NEW d \in DPUs, DPUConfig(d)
      PROVE  SlotInv'
  BY <1>8 DEF DPUConfig, Waits, DeletionOr, Reconcile, UpdateDPUStatus,
       objVars, mapVars, SlotInv, SlotOf, InProvisioning,
       IsDPUInProvisioningPhase, LifeInv, Life, AgentRuns, TypeOK, Phases
<1>9. ASSUME NEW d \in DPUs, Rebooting(d)
      PROVE  SlotInv'
  BY <1>9 DEF Rebooting, Waits, DeletionOr, CompleteRebooting, Reconcile,
       UpdateDPUStatus, objVars, mapVars, SlotInv, SlotOf, InProvisioning,
       IsDPUInProvisioningPhase, LifeInv, Life, AgentRuns, TypeOK, Phases
<1>10. ASSUME NEW d \in DPUs, SetupNetwork(d)
      PROVE  SlotInv'
  BY <1>10 DEF SetupNetwork, Waits, DeletionOr, Reconcile, UpdateDPUStatus,
       objVars, mapVars, SlotInv, SlotOf, InProvisioning,
       IsDPUInProvisioningPhase, LifeInv, Life, AgentRuns, TypeOK, Phases
<1>11. ASSUME NEW d \in DPUs, ClusterConfig(d)
      PROVE  SlotInv'
  BY <1>11 DEF ClusterConfig, Waits, DeletionOr, Reconcile, UpdateDPUStatus,
       objVars, mapVars, SlotInv, SlotOf, InProvisioning,
       IsDPUInProvisioningPhase, LifeInv, Life, AgentRuns, TypeOK, Phases
<1>12. ASSUME NEW d \in DPUs, ServiceReadiness(d)
      PROVE  SlotInv'
  BY <1>12 DEF ServiceReadiness, Waits, DeletionOr, Reconcile,
       UpdateDPUStatus, objVars, mapVars, SlotInv, SlotOf, InProvisioning,
       IsDPUInProvisioningPhase, LifeInv, Life, AgentRuns, TypeOK, Phases
<1>13. ASSUME NEW d \in DPUs, NodeEffectRemoval(d)
      PROVE  SlotInv'
  BY <1>13 DEF NodeEffectRemoval, Waits, DeletionOr, Reconcile,
       UpdateDPUStatus, objVars, mapVars, SlotInv, SlotOf, InProvisioning,
       IsDPUInProvisioningPhase, LifeInv, Life, AgentRuns, TypeOK, Phases
<1>14. ASSUME NEW d \in DPUs, Ready(d)
      PROVE  SlotInv'
  BY <1>14 DEF Ready, DeletionOr, Reconcile, UpdateDPUStatus, objVars,
       mapVars, SlotInv, SlotOf, InProvisioning, IsDPUInProvisioningPhase,
       LifeInv, Life, AgentRuns, TypeOK, Phases
<1>15. ASSUME NEW d \in DPUs, Error(d)
      PROVE  SlotInv'
  BY <1>15 DEF Error, Remove, Reconcile, UpdateDPUStatus, objVars, mapVars,
       SlotInv, SlotOf, InProvisioning, IsDPUInProvisioningPhase, LifeInv,
       Life, AgentRuns, TypeOK, Phases
<1>16. ASSUME NEW d \in DPUs, Deleting(d)
      PROVE  SlotInv'
  BY <1>16 DEF Deleting, Remove, Finalized, Reconcile, UpdateDPUStatus,
       objVars, mapVars, SlotInv, SlotOf, InProvisioning,
       IsDPUInProvisioningPhase, LifeInv, Life, AgentRuns, TypeOK, Phases
<1>17. ASSUME NEW d \in DPUs, StartInPlaceReconfig(d)
      PROVE  SlotInv'
  BY <1>17 DEF StartInPlaceReconfig, UpdateDPUStatus, objVars, mapVars,
       SlotInv, SlotOf, InProvisioning, IsDPUInProvisioningPhase, LifeInv,
       Life, AgentRuns, TypeOK, Phases
<1>18. ASSUME NEW d \in DPUs, setErrorPhaseFromCondition(d)
      PROVE  SlotInv'
  BY <1>18 DEF setErrorPhaseFromCondition, UpdateDPUStatus, objVars, mapVars,
       SlotInv, SlotOf, InProvisioning, IsDPUInProvisioningPhase, LifeInv,
       Life, AgentRuns, TypeOK, Phases
<1>19. ASSUME NEW d \in DPUs, Patch(d)
      PROVE  SlotInv'
  BY <1>19 DEF Patch, UpdateDPUStatus, objVars, mapVars, SlotInv, SlotOf,
       InProvisioning, IsDPUInProvisioningPhase, LifeInv, Life, AgentRuns,
       TypeOK, Phases
<1>20. ASSUME NEW d \in DPUs, PatchFails(d)
      PROVE  SlotInv'
  BY Zenon, <1>20 DEF PatchFails, UpdateDPUStatus, objVars, mapVars, SlotInv,
       SlotOf, InProvisioning, IsDPUInProvisioningPhase, LifeInv, Life,
       AgentRuns, TypeOK, Phases
<1>21. ASSUME NEW d \in DPUs, InstallTask(d)
      PROVE  SlotInv'
  BY <1>21 DEF InstallTask, UpdateDPUStatus, objVars, mapVars, SlotInv,
       SlotOf, InProvisioning, IsDPUInProvisioningPhase, LifeInv, Life,
       AgentRuns, TypeOK, Phases
<1>22. ASSUME NEW d \in DPUs, CreateDPU(d)
      PROVE  SlotInv'
  BY <1>22 DEF CreateDPU, UpdateDPUStatus, objVars, mapVars, SlotInv, SlotOf,
       InProvisioning, IsDPUInProvisioningPhase, LifeInv, Life, AgentRuns,
       TypeOK, Phases
<1>23. ASSUME NEW d \in DPUs, DeleteDPU(d)
      PROVE  SlotInv'
  BY Zenon, <1>23 DEF DeleteDPU, UpdateDPUStatus, objVars, mapVars, SlotInv, SlotOf,
       InProvisioning, IsDPUInProvisioningPhase, LifeInv, Life, AgentRuns,
       TypeOK, Phases
<1>24. CASE Initialize
  BY Zenon, <1>24 DEF Initialize, Counted, IsDPUInProvisioningPhase, objVars,
       SlotInv, SlotOf, InProvisioning, LifeInv, Life, AgentRuns, TypeOK,
       Phases
<1>25. CASE Restart
  BY <1>25 DEF Restart, Counted, IsDPUInProvisioningPhase, objVars, SlotInv,
       SlotOf, InProvisioning, LifeInv, Life, AgentRuns, TypeOK, Phases
<1>26. CASE UNCHANGED vars
  BY Zenon, <1>26 DEF vars, SlotInv, SlotOf, InProvisioning,
       IsDPUInProvisioningPhase, LifeInv, Life, AgentRuns, TypeOK, Phases
<1> QED
  BY ZenonT(40), <1>1, <1>2, <1>3, <1>4, <1>5, <1>6, <1>7, <1>8, <1>9, <1>10, <1>11,
     <1>12, <1>13, <1>14, <1>15, <1>16, <1>17, <1>18, <1>19, <1>20, <1>21,
     <1>22, <1>23, <1>24, <1>25, <1>26 DEF Next, handlers

(* Without a restart no slot of DPUInProvisioningMap is lost to a DPU that *)
(* has moved on, whatever fails, times out or is deleted.                  *)
THEOREM SlotsAreReturned ==
    ASSUME MaxRestarts = 0 PROVE Spec => []SlotOwners
<1>1. Init => LifeInv
  BY Zenon DEF Init, LifeInv, Life
<1>2. Init => SlotInv
  BY Zenon DEF Init, SlotInv, SlotOf, InProvisioning, IsDPUInProvisioningPhase
<1>3. TypeOK /\ SlotInv => SlotOwners
  BY Zenon DEF TypeOK, SlotInv, SlotOf, SlotOwners, InProvisioning,
         IsDPUInProvisioningPhase
<1> QED
  BY <1>1, <1>2, <1>3, LifecycleTypeCorrect, LifeStep, SlotStep, PTL DEF Spec

(* The map never holds more than Max DPUs, unless Initialize put them      *)
(* there: CanProceed inserts only below the limit.                         *)
LEMMA SizeStep ==
    ASSUME TypeOK, initialized, MaxRestarts = 0,
           Cardinality(slots) <= Max, [Next]_vars
    PROVE  Cardinality(slots') <= Max
<1>1. IsFiniteSet(slots)
  BY Zenon, LifecycleAssumption, FS_Subset DEF TypeOK
<1>2. CASE slots' = slots
  BY Zenon, <1>2
<1>3. ASSUME NEW d \in DPUs, CanProceed(d)
      PROVE  Cardinality(slots') <= Max
  <2>1. CASE d \in slots
    <3>1. slots' = slots
      BY Zenon, <1>3, <2>1 DEF CanProceed
    <3> QED
      BY Zenon, <3>1
  <2>2. CASE d \notin slots
    <3>1. Cardinality(slots) < Max /\ slots' = slots \cup {d}
      BY Zenon, <1>3, <2>2 DEF CanProceed
    <3>2. Cardinality(slots') = Cardinality(slots) + 1
      BY Zenon, <1>1, <2>2, <3>1, FS_AddElement
    <3>3. Cardinality(slots) \in Nat
      BY Zenon, <1>1, FS_CardinalityType
    <3> QED
      BY <3>1, <3>2, <3>3, LifecycleAssumption
  <2> QED
    BY Zenon, <2>1, <2>2
<1>4. ASSUME NEW d \in DPUs, Remove(d)
      PROVE  Cardinality(slots') <= Max
  <2>1. slots' \subseteq slots
    BY Zenon, <1>4 DEF Remove
  <2>2. Cardinality(slots') <= Cardinality(slots) /\ IsFiniteSet(slots')
    BY Zenon, <1>1, <2>1, FS_Subset
  <2>3. Cardinality(slots') \in Nat /\ Cardinality(slots) \in Nat
    BY Zenon, <1>1, <2>2, FS_CardinalityType
  <2> QED
    BY <2>2, <2>3, LifecycleAssumption
<1>5. ~Restart /\ ~Initialize
  BY DEF TypeOK, Restart, Initialize
<1>6. ASSUME NEW d \in DPUs, handlers(d)
      PROVE  slots' = slots \/ CanProceed(d) \/ Remove(d)
  BY Zenon, <1>6 DEF handlers, Initializing, Pending, NodeEffect,
       InitializeInterface, ConfigFWParameters, PrepareBFB, Installing,
       CheckInstallationTimeout, DPUConfig, Rebooting, SetupNetwork,
       ClusterConfig, ServiceReadiness, NodeEffectRemoval, Ready, Error,
       Deleting, Waits, mapVars
<1>7. CASE UNCHANGED vars
  BY Zenon, <1>2, <1>7 DEF vars
<1> QED
  BY Zenon, <1>2, <1>3, <1>4, <1>5, <1>6, <1>7 DEF Next, StartInPlaceReconfig,
     setErrorPhaseFromCondition, Patch, PatchFails, InstallTask, CreateDPU,
     DeleteDPU, mapVars

(* Without a restart no more than maxDPUParallelInstallations DPUs are on  *)
(* their way to an OS installation, for any number of DPUs and any limit.  *)
THEOREM CapacityHolds ==
    ASSUME MaxRestarts = 0 PROVE Spec => []Capacity
<1> DEFINE Size == Cardinality(slots) <= Max
<1>1. Init => LifeInv
  BY Zenon DEF Init, LifeInv, Life
<1>2. Init => SlotInv
  BY Zenon DEF Init, SlotInv, SlotOf, InProvisioning, IsDPUInProvisioningPhase
<1>3. Init => Size
  BY FS_EmptySet, LifecycleAssumption DEF Init
<1>4. TypeOK /\ SlotInv /\ Size /\ [Next]_vars => Size'
  BY Zenon, SizeStep DEF SlotInv
<1>5. TypeOK /\ SlotInv /\ Size => Capacity
  <2> SUFFICES ASSUME TypeOK, SlotInv, Size PROVE Capacity
    OBVIOUS
  <2> DEFINE P == {d \in DPUs : InProvisioning(d)}
  <2>1. P \subseteq slots
    BY Zenon DEF SlotInv, SlotOf
  <2>2. IsFiniteSet(slots)
    BY Zenon, LifecycleAssumption, FS_Subset DEF TypeOK
  <2>3. Cardinality(P) <= Cardinality(slots) /\ IsFiniteSet(P)
    BY Zenon, <2>1, <2>2, FS_Subset
  <2>4. Cardinality(P) \in Nat /\ Cardinality(slots) \in Nat
    BY Zenon, <2>2, <2>3, FS_CardinalityType
  <2> QED
    BY <2>3, <2>4, LifecycleAssumption DEF Capacity
<1> HIDE DEF Size
<1> QED
  BY <1>1, <1>2, <1>3, <1>4, <1>5, LifecycleTypeCorrect, LifeStep, SlotStep,
     PTL DEF Spec

(* Every action keeps the map free of DPUs that are gone. *)
LEMMA AliveStep == ASSUME TypeOK, SlotsAlive, LifeInv, [Next]_vars PROVE SlotsAlive'
<1> USE DEF Counted, IsDPUInProvisioningPhase, LifeInv, Life
<1>1. ASSUME NEW d \in DPUs, Initializing(d)
      PROVE  SlotsAlive'
  BY <1>1 DEF Initializing, Waits, DeletionOr, Reconcile, UpdateDPUStatus,
       objVars, mapVars, SlotsAlive, TypeOK, Phases
<1>2. ASSUME NEW d \in DPUs, Pending(d)
      PROVE  SlotsAlive'
  BY <1>2 DEF Pending, DeletionOr, CanProceed, Reconcile, UpdateDPUStatus,
       objVars, mapVars, SlotsAlive, TypeOK, Phases
<1>3. ASSUME NEW d \in DPUs, NodeEffect(d)
      PROVE  SlotsAlive'
  BY <1>3 DEF NodeEffect, armInPlaceNodeEffect, handleNodeEffectCompletion,
       Reconcile, UpdateDPUStatus, objVars, mapVars, SlotsAlive, TypeOK,
       Phases
<1>4. ASSUME NEW d \in DPUs, InitializeInterface(d)
      PROVE  SlotsAlive'
  BY <1>4 DEF InitializeInterface, Waits, DeletionOr, Reconcile,
       UpdateDPUStatus, objVars, mapVars, SlotsAlive, TypeOK, Phases
<1>5. ASSUME NEW d \in DPUs, ConfigFWParameters(d)
      PROVE  SlotsAlive'
  BY <1>5 DEF ConfigFWParameters, Waits, DeletionOr, Reconcile,
       UpdateDPUStatus, objVars, mapVars, SlotsAlive, TypeOK, Phases
<1>6. ASSUME NEW d \in DPUs, PrepareBFB(d)
      PROVE  SlotsAlive'
  BY Zenon, <1>6 DEF PrepareBFB, Reconcile, UpdateDPUStatus, objVars, mapVars,
       SlotsAlive, TypeOK, Phases
<1>7. ASSUME NEW d \in DPUs, Installing(d)
      PROVE  SlotsAlive'
  BY <1>7 DEF Installing, CheckInstallationTimeout, Remove, Reconcile,
       UpdateDPUStatus, objVars, mapVars, SlotsAlive, TypeOK, Phases
<1>8. ASSUME NEW d \in DPUs, DPUConfig(d)
      PROVE  SlotsAlive'
  BY <1>8 DEF DPUConfig, Waits, DeletionOr, Reconcile, UpdateDPUStatus,
       objVars, mapVars, SlotsAlive, TypeOK, Phases
<1>9. ASSUME NEW d \in DPUs, Rebooting(d)
      PROVE  SlotsAlive'
  BY <1>9 DEF Rebooting, Waits, DeletionOr, CompleteRebooting, Reconcile,
       UpdateDPUStatus, objVars, mapVars, SlotsAlive, TypeOK, Phases
<1>10. ASSUME NEW d \in DPUs, SetupNetwork(d)
      PROVE  SlotsAlive'
  BY <1>10 DEF SetupNetwork, Waits, DeletionOr, Reconcile, UpdateDPUStatus,
       objVars, mapVars, SlotsAlive, TypeOK, Phases
<1>11. ASSUME NEW d \in DPUs, ClusterConfig(d)
      PROVE  SlotsAlive'
  BY <1>11 DEF ClusterConfig, Waits, DeletionOr, Reconcile, UpdateDPUStatus,
       objVars, mapVars, SlotsAlive, TypeOK, Phases
<1>12. ASSUME NEW d \in DPUs, ServiceReadiness(d)
      PROVE  SlotsAlive'
  BY <1>12 DEF ServiceReadiness, Waits, DeletionOr, Reconcile,
       UpdateDPUStatus, objVars, mapVars, SlotsAlive, TypeOK, Phases
<1>13. ASSUME NEW d \in DPUs, NodeEffectRemoval(d)
      PROVE  SlotsAlive'
  BY <1>13 DEF NodeEffectRemoval, Waits, DeletionOr, Reconcile,
       UpdateDPUStatus, objVars, mapVars, SlotsAlive, TypeOK, Phases
<1>14. ASSUME NEW d \in DPUs, Ready(d)
      PROVE  SlotsAlive'
  BY <1>14 DEF Ready, DeletionOr, Reconcile, UpdateDPUStatus, objVars,
       mapVars, SlotsAlive, TypeOK, Phases
<1>15. ASSUME NEW d \in DPUs, Error(d)
      PROVE  SlotsAlive'
  BY <1>15 DEF Error, Remove, Reconcile, UpdateDPUStatus, objVars, mapVars,
       SlotsAlive, TypeOK, Phases
<1>16. ASSUME NEW d \in DPUs, Deleting(d)
      PROVE  SlotsAlive'
  BY <1>16 DEF Deleting, Remove, Finalized, Reconcile, UpdateDPUStatus,
       objVars, mapVars, SlotsAlive, TypeOK, Phases
<1>17. ASSUME NEW d \in DPUs, StartInPlaceReconfig(d)
      PROVE  SlotsAlive'
  BY Zenon, <1>17 DEF StartInPlaceReconfig, UpdateDPUStatus, objVars, mapVars,
       SlotsAlive, TypeOK, Phases
<1>18. ASSUME NEW d \in DPUs, setErrorPhaseFromCondition(d)
      PROVE  SlotsAlive'
  BY Zenon, <1>18 DEF setErrorPhaseFromCondition, UpdateDPUStatus, objVars, mapVars,
       SlotsAlive, TypeOK, Phases
<1>19. ASSUME NEW d \in DPUs, Patch(d)
      PROVE  SlotsAlive'
  BY Zenon, <1>19 DEF Patch, UpdateDPUStatus, objVars, mapVars, SlotsAlive, TypeOK,
       Phases
<1>20. ASSUME NEW d \in DPUs, PatchFails(d)
      PROVE  SlotsAlive'
  BY Zenon, <1>20 DEF PatchFails, UpdateDPUStatus, objVars, mapVars, SlotsAlive,
       TypeOK, Phases
<1>21. ASSUME NEW d \in DPUs, InstallTask(d)
      PROVE  SlotsAlive'
  BY Zenon, <1>21 DEF InstallTask, UpdateDPUStatus, objVars, mapVars, SlotsAlive,
       TypeOK, Phases
<1>22. ASSUME NEW d \in DPUs, CreateDPU(d)
      PROVE  SlotsAlive'
  BY Zenon, <1>22 DEF CreateDPU, UpdateDPUStatus, objVars, mapVars, SlotsAlive,
       TypeOK, Phases
<1>23. ASSUME NEW d \in DPUs, DeleteDPU(d)
      PROVE  SlotsAlive'
  BY Zenon, <1>23 DEF DeleteDPU, UpdateDPUStatus, objVars, mapVars, SlotsAlive,
       TypeOK, Phases
<1>24. CASE Initialize
  BY Zenon, <1>24 DEF Initialize, Counted, IsDPUInProvisioningPhase, objVars,
       SlotsAlive, TypeOK, Phases
<1>25. CASE Restart
  BY Zenon, <1>25 DEF Restart, Counted, IsDPUInProvisioningPhase, objVars,
       SlotsAlive, TypeOK, Phases
<1>26. CASE UNCHANGED vars
  BY Zenon, <1>26 DEF vars, SlotsAlive, TypeOK, Phases
<1> QED
  BY ZenonT(40), <1>1, <1>2, <1>3, <1>4, <1>5, <1>6, <1>7, <1>8, <1>9, <1>10, <1>11,
     <1>12, <1>13, <1>14, <1>15, <1>16, <1>17, <1>18, <1>19, <1>20, <1>21,
     <1>22, <1>23, <1>24, <1>25, <1>26 DEF Next, handlers

(* The map never remembers a DPU that is gone, for any number of DPUs and  *)
(* restarts: Deleting and Initialize do not leave an entry nobody removes. *)
THEOREM MapForgetsDeleted == Spec => []SlotsAlive
<1>1. Init => LifeInv /\ SlotsAlive
  BY Zenon DEF Init, LifeInv, Life, SlotsAlive
<1> QED
  BY <1>1, LifecycleTypeCorrect, LifeStep, AliveStep, PTL DEF Spec

=============================================================================
