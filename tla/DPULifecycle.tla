----------------------------- MODULE DPULifecycle -----------------------------
(***************************************************************************)
(* The phases of the DPUs of a deployment that installs them through the   *)
(* host agent (trusted host), and the in-memory DPUInProvisioningMap that  *)
(* bounds how many of them are provisioned at once.                        *)
(*                                                                         *)
(* A reconcile reads the DPU, runs the handler of its phase and writes the *)
(* new status in a deferred patch.  The map changes while the handler      *)
(* runs, the phase only with the patch, so the two handlers that do both   *)
(* (Pending and Installing) take two steps; a patch may fail, or be lost   *)
(* with the process.  The other handlers touch nothing but the status: a   *)
(* failed patch of theirs leaves no trace, and they are one step.          *)
(*                                                                         *)
(* Conditions other controllers report (host agent, DPU agent, node        *)
(* effect, DPU cluster) are inputs: a handler that waits for one may take  *)
(* its step whenever the condition could be there.                         *)
(***************************************************************************)
EXTENDS Naturals, FiniteSets

CONSTANTS
    DPUs,         \* UIDs of DPU objects
    Max,          \* maxDPUParallelInstallations
    MaxRestarts,  \* how often the manager restarts
    InitRaces,    \* whether controllers may run before Initialize does
    Labels,       \* the labels the DPUDevices may carry
    Recreate      \* whether deleted DPUs are replaced by new ones

DeviceLabels == {"none", "skip", "skipHW"}

ASSUME LifecycleAssumption ==
    /\ IsFiniteSet(DPUs)
    /\ Max \in Nat
    /\ MaxRestarts \in Nat
    /\ InitRaces \in BOOLEAN
    /\ Labels \subseteq DeviceLabels
    /\ Recreate \in BOOLEAN

VARIABLES
    phase,        \* status.phase of each DPU
    prev,         \* status.previousPhase
    post,         \* the postProvisioning flag: where NodeEffect exits to
    os,           \* what the OSInstalled condition says
    label,        \* the skip label of the DPUDevice
    deleting,     \* the DPUs with a deletionTimestamp
    patching,     \* handlers that changed the map and have not patched yet
    slots,        \* DPUInProvisioningMap.dpus
    initialized,  \* DPUInProvisioningMap.Initialize has run
    restarts      \* restarts so far

objVars == <<post, os, label, deleting>>
mapVars == <<patching, slots, initialized, restarts>>
vars == <<phase, prev, post, os, label, deleting, patching, slots, initialized,
          restarts>>

Phases == {"Absent", "Initializing", "Pending", "NodeEffect",
           "InitializeInterface", "ConfigFWParameters", "PrepareBFB",
           "OSInstalling", "DPUConfig", "Rebooting",
           "HostNetworkConfiguration", "ClusterConfig", "ServiceReadiness",
           "NodeEffectRemoval", "Ready", "Error", "Deleting", "Gone"}

Init ==
    /\ phase = [d \in DPUs |-> "Absent"]
    /\ prev = [d \in DPUs |-> "none"]
    /\ post = [d \in DPUs |-> "none"]
    /\ os = [d \in DPUs |-> "none"]
    /\ label = [d \in DPUs |-> "none"]
    /\ deleting = {}
    /\ patching = {}
    /\ slots = {}
    /\ initialized = TRUE
    /\ restarts = 0

-----------------------------------------------------------------------------
(* The map of DPUs in provisioning                                         *)

IsDPUInProvisioningPhase(p) ==
    p \in {"NodeEffect", "InitializeInterface", "ConfigFWParameters",
           "PrepareBFB", "OSInstalling"}

(* Fault: one DPU too many is let through *)
CanProceedAtMax(d) ==
    /\ d \in slots \/ Cardinality(slots) <= Max
    /\ slots' = slots \cup {d}

CanProceed(d) ==
    /\ d \in slots \/ Cardinality(slots) < Max
    /\ slots' = slots \cup {d}

Remove(d) == slots' = slots \ {d}

Counted == {d \in DPUs : IsDPUInProvisioningPhase(phase[d])}

(* Runs beside the controllers, some time after the process started.       *)
Initialize ==
    /\ ~initialized
    /\ initialized' = TRUE
    /\ slots' = Counted
    /\ UNCHANGED <<phase, prev, objVars, patching, restarts>>

-----------------------------------------------------------------------------
(* The reconcile of a DPU                                                  *)

Reconcile(d, p) == phase[d] = p /\ d \notin patching

(* Fault: a handler that reports an error returns an empty status *)
UpdateDPUStatusZero(d, p) ==
    /\ phase' = [phase EXCEPT ![d] = IF p = "Error" THEN "" ELSE p]
    /\ prev' = [prev EXCEPT ![d] = phase[d]]

(* No handler ever sets the phase Initializing: it stands for the empty    *)
(* phase, which is not recorded as a previous one.                         *)
UpdateDPUStatus(d, p) ==
    /\ phase' = [phase EXCEPT ![d] = p]
    /\ prev' = IF phase[d] = "Initializing" THEN prev
               ELSE [prev EXCEPT ![d] = phase[d]]

(* The check at the head of a handler, and the way out it leads to.        *)
DeletionOr(d, Otherwise) ==
    \/ d \in deleting /\ UpdateDPUStatus(d, "Deleting")
    \/ d \notin deleting /\ Otherwise

(* A handler that waits for something, then moves to one of the phases.    *)
Waits(d, p, targets) ==
    /\ Reconcile(d, p)
    /\ DeletionOr(d, \E q \in targets : UpdateDPUStatus(d, q))
    /\ UNCHANGED <<objVars, mapVars>>

Initializing(d) ==
    Waits(d, "Initializing",
          {"Error"} \cup (IF label[d] = "skip" THEN {"Ready"} ELSE {"Pending"}))

(* An upgrade, a missing BFB or flavor, or a full map keep the DPU here.   *)
Pending(d) ==
    /\ Reconcile(d, "Pending")
    /\ \/ /\ DeletionOr(d, UpdateDPUStatus(d, "Error"))
          /\ UNCHANGED <<patching, slots>>
       \/ /\ d \notin deleting
          /\ CanProceed(d)
          /\ patching' = patching \cup {d}
          /\ UNCHANGED <<phase, prev>>
    /\ UNCHANGED <<objVars, initialized, restarts>>

(* Only a DPU whose agent runs the installed OS takes part in an in-place  *)
(* round: the mark needs agentStatus.version.                              *)
AgentRuns(d) == os[d] \in {"yes", "preinstalled"}

armInPlaceNodeEffect(d) ==
    /\ AgentRuns(d) /\ post[d] # "config"
    /\ post' = [post EXCEPT ![d] = "config"]
    /\ UNCHANGED <<phase, prev>>

handleNodeEffectCompletion(d) ==
    /\ UpdateDPUStatus(d, CASE post[d] = "config"  -> "DPUConfig"
                            [] post[d] = "cluster" -> "ClusterConfig"
                            [] OTHER               -> "InitializeInterface")
    /\ post' = [post EXCEPT ![d] = "none"]

NodeEffect(d) ==
    /\ Reconcile(d, "NodeEffect")
    /\ \/ d \in deleting /\ UpdateDPUStatus(d, "Deleting") /\ UNCHANGED post
       \/ d \notin deleting /\ armInPlaceNodeEffect(d)
       \/ d \notin deleting /\ handleNodeEffectCompletion(d)
    /\ UNCHANGED <<os, label, deleting, mapVars>>

(* A mode update needs a power cycle, once: afterwards the DPU has the     *)
(* Rebooted condition, which here means it comes from Rebooting.  The      *)
(* simulated hardware of skip-hw-provisioning has no mode to update.       *)
InitializeInterface(d) ==
    Waits(d, "InitializeInterface",
          {"Error", "ConfigFWParameters"} \cup
          (IF prev[d] # "Rebooting" /\ label[d] # "skipHW"
           THEN {"Rebooting"} ELSE {}))

ConfigFWParameters(d) == Waits(d, "ConfigFWParameters", {"PrepareBFB"})

(* There is no deletion check.                                             *)
PrepareBFB(d) ==
    /\ Reconcile(d, "PrepareBFB")
    /\ UpdateDPUStatus(d, "OSInstalling")
    /\ UNCHANGED <<objVars, mapVars>>

CheckInstallationTimeout(d) ==
    /\ UpdateDPUStatus(d, "Error")
    /\ UNCHANGED <<patching, slots>>

(* Fault: the slot is kept when the installation is done *)
InstallingKeepsSlot(d) ==
    /\ Reconcile(d, "OSInstalling")
    /\ \/ CheckInstallationTimeout(d)
       \/ /\ d \notin deleting /\ os[d] = "yes"
          /\ patching' = patching \cup {d}
          /\ UNCHANGED <<phase, prev, slots>>
    /\ UNCHANGED <<objVars, initialized, restarts>>

(* A DPU that is being deleted waits for bfb-install to end; the timeout   *)
(* is checked first.                                                       *)
Installing(d) ==
    /\ Reconcile(d, "OSInstalling")
    /\ \/ CheckInstallationTimeout(d)
       \/ /\ d \in deleting /\ os[d] \in {"yes", "terminated"}
          /\ UpdateDPUStatus(d, "Deleting")
          /\ UNCHANGED <<patching, slots>>
       \/ /\ d \notin deleting /\ os[d] = "terminated"
          /\ UpdateDPUStatus(d, "Error")
          /\ UNCHANGED <<patching, slots>>
       \/ /\ d \notin deleting /\ os[d] = "yes"
          /\ Remove(d)
          /\ patching' = patching \cup {d}
          /\ UNCHANGED <<phase, prev>>
    /\ UNCHANGED <<objVars, initialized, restarts>>

DPUConfig(d) == Waits(d, "DPUConfig", {"HostNetworkConfiguration", "Rebooting"})

(* Fault: the phase the reboot was requested from is not looked at *)
CompleteRebootingForgetsPhase(d) == {"HostNetworkConfiguration"}

(* The phases a completed reboot may lead to, by the phase that asked for  *)
(* it; DPUConfig again when the agent discovers the method by query.       *)
CompleteRebooting(d) ==
    IF prev[d] = "InitializeInterface" THEN {"InitializeInterface"}
    ELSE {"DPUConfig", "HostNetworkConfiguration"}

(* Error: the DPUNode has no reboot method the host agent supports.        *)
Rebooting(d) ==
    Waits(d, "Rebooting",
          {"Error"} \cup (IF label[d] = "skipHW" THEN {"HostNetworkConfiguration"}
                          ELSE CompleteRebooting(d)))

SetupNetwork(d) == Waits(d, "HostNetworkConfiguration", {"ClusterConfig"})

ClusterConfig(d) == Waits(d, "ClusterConfig", {"ServiceReadiness"})

ServiceReadiness(d) == Waits(d, "ServiceReadiness", {"NodeEffectRemoval"})

(* ClusterConfig: labels to update; Error: the removal timed out.          *)
NodeEffectRemoval(d) ==
    Waits(d, "NodeEffectRemoval", {"Ready", "ClusterConfig", "Error"})

(* New node labels are applied in ClusterConfig, after another node effect *)
(* when applyOnLabelChange is set.                                         *)
Ready(d) ==
    /\ Reconcile(d, "Ready")
    /\ \/ /\ DeletionOr(d, UpdateDPUStatus(d, "ClusterConfig"))
          /\ UNCHANGED post
       \/ /\ d \notin deleting
          /\ UpdateDPUStatus(d, "NodeEffect")
          /\ post' = [post EXCEPT ![d] = "cluster"]
    /\ UNCHANGED <<os, label, deleting, mapVars>>

Error(d) ==
    /\ Reconcile(d, "Error")
    /\ \/ /\ d \in deleting
          /\ UpdateDPUStatus(d, "Deleting")
          /\ UNCHANGED slots
       \/ /\ d \notin deleting
          /\ Remove(d)
          /\ UNCHANGED <<phase, prev>>
    /\ UNCHANGED <<objVars, patching, initialized, restarts>>

(* The object with its status is gone once its finalizer is.               *)
Finalized(d) ==
    /\ phase' = [phase EXCEPT ![d] = "Gone"]
    /\ prev' = [prev EXCEPT ![d] = "none"]
    /\ post' = [post EXCEPT ![d] = "none"]
    /\ os' = [os EXCEPT ![d] = "none"]
    /\ label' = [label EXCEPT ![d] = "none"]
    /\ deleting' = deleting \ {d}

(* Fault: a DPU is deleted without leaving the map *)
DeletingKeepsSlot(d) ==
    /\ Reconcile(d, "Deleting")
    /\ Finalized(d)
    /\ UNCHANGED mapVars

(* The finalizer goes in a later pass when objects are left to delete.     *)
Deleting(d) ==
    /\ Reconcile(d, "Deleting")
    /\ Remove(d)
    /\ \/ Finalized(d)
       \/ UNCHANGED <<phase, prev, objVars>>
    /\ UNCHANGED <<patching, initialized, restarts>>

(* The round is marked by the DPUSet controller and jumps in one status    *)
(* patch under an optimistic lock.                                         *)
StartInPlaceReconfig(d) ==
    /\ d \notin patching \cup deleting
    /\ phase[d] \in {"Ready", "HostNetworkConfiguration", "ClusterConfig",
                     "ServiceReadiness", "NodeEffectRemoval"}
    /\ AgentRuns(d)
    /\ UpdateDPUStatus(d, "NodeEffect")
    /\ post' = [post EXCEPT ![d] = "config"]
    /\ UNCHANGED <<os, label, deleting, mapVars>>

(* Fault: the Error condition also stops a DPU that is being deleted *)
errorPhaseOfDeleting(d) ==
    /\ phase[d] \notin {"Absent", "Gone", "Error"}
    /\ d \notin patching
    /\ UpdateDPUStatus(d, "Error")
    /\ UNCHANGED <<objVars, mapVars>>

(* The Error condition of the DPU agent, whatever the handler decided.     *)
setErrorPhaseFromCondition(d) ==
    /\ phase[d] \notin {"Absent", "Gone", "Error"}
    /\ d \notin patching \cup deleting
    /\ UpdateDPUStatus(d, "Error")
    /\ UNCHANGED <<objVars, mapVars>>

(* The deferred patch of Pending and Installing.                           *)
Patch(d) ==
    /\ d \in patching
    /\ UpdateDPUStatus(d, IF phase[d] = "Pending" THEN "NodeEffect"
                          ELSE "DPUConfig")
    /\ patching' = patching \ {d}
    /\ UNCHANGED <<objVars, slots, initialized, restarts>>

PatchFails(d) ==
    /\ d \in patching
    /\ patching' = patching \ {d}
    /\ UNCHANGED <<phase, prev, objVars, slots, initialized, restarts>>

-----------------------------------------------------------------------------
(* The host agent, users and the manager's process                         *)

(* The host agent's install task ends: OS written, or retries used up.     *)
InstallTask(d) ==
    /\ phase[d] = "OSInstalling" /\ os[d] = "none"
    /\ \E r \in {"yes", "terminated"} : os' = [os EXCEPT ![d] = r]
    /\ UNCHANGED <<phase, prev, post, label, deleting, mapVars>>

(* A UID no map knows stands for a new one.                                *)
CreateDPU(d) ==
    /\ phase[d] = "Absent" \/ (Recreate /\ phase[d] = "Gone" /\ d \notin slots)
    /\ phase' = [phase EXCEPT ![d] = "Initializing"]
    /\ \E l \in Labels :
          /\ label' = [label EXCEPT ![d] = l]
          /\ os' = [os EXCEPT ![d] = IF l = "skip" THEN "preinstalled" ELSE "none"]
    /\ UNCHANGED <<prev, post, deleting, mapVars>>

DeleteDPU(d) ==
    /\ phase[d] \notin {"Absent", "Gone"}
    /\ d \notin deleting
    /\ deleting' = deleting \cup {d}
    /\ UNCHANGED <<phase, prev, post, os, label, mapVars>>

(* The map is lost with the process and counted again by Initialize, which *)
(* nothing orders before the controllers; InitRaces = FALSE looks at the   *)
(* starts in which it comes first.                                         *)
Restart ==
    /\ restarts < MaxRestarts
    /\ restarts' = restarts + 1
    /\ slots' = IF InitRaces THEN {} ELSE Counted
    /\ initialized' = ~InitRaces
    /\ patching' = {}
    /\ UNCHANGED <<phase, prev, objVars>>

handlers(d) ==
    \/ Initializing(d) \/ Pending(d) \/ NodeEffect(d)
    \/ InitializeInterface(d) \/ ConfigFWParameters(d) \/ PrepareBFB(d)
    \/ Installing(d) \/ DPUConfig(d) \/ Rebooting(d) \/ SetupNetwork(d)
    \/ ClusterConfig(d) \/ ServiceReadiness(d) \/ NodeEffectRemoval(d)
    \/ Ready(d) \/ Error(d) \/ Deleting(d)

Next ==
    \/ \E d \in DPUs :
          \/ handlers(d) \/ StartInPlaceReconfig(d)
          \/ setErrorPhaseFromCondition(d) \/ Patch(d) \/ PatchFails(d)
          \/ InstallTask(d) \/ CreateDPU(d) \/ DeleteDPU(d)
    \/ Initialize \/ Restart

Spec == Init /\ [][Next]_vars

(* What a handler waits for happens in the end, and every phase but Ready  *)
(* and Error is requeued until it does: a step that leaves the phase other *)
(* than into Error is taken eventually.  The map is asked again on every   *)
(* requeue; an installation ends or times out; a patch that keeps being    *)
(* retried gets through; entering Error or Deleting triggers a reconcile.  *)
Fairness ==
    /\ WF_vars(Initialize)
    /\ \A d \in DPUs :
          /\ WF_vars(handlers(d) /\ phase'[d] \notin {phase[d], "Error"})
          /\ WF_vars(Pending(d) /\ patching' # patching)
          /\ WF_vars(Installing(d) /\ phase'[d] = "Error")
          /\ WF_vars(Installing(d) /\ patching' # patching)
          /\ WF_vars(Error(d) /\ slots' # slots)
          /\ SF_vars(Patch(d))

FairSpec == Spec /\ Fairness

-----------------------------------------------------------------------------
(* Properties                                                              *)

(* Every variable has its type. *)
TypeOK ==
    /\ phase \in [DPUs -> Phases]
    /\ prev \in [DPUs -> Phases \cup {"none"}]
    /\ post \in [DPUs -> {"none", "config", "cluster"}]
    /\ os \in [DPUs -> {"none", "yes", "terminated", "preinstalled"}]
    /\ label \in [DPUs -> DeviceLabels]
    /\ deleting \subseteq DPUs
    /\ patching \subseteq DPUs
    /\ slots \subseteq DPUs
    /\ initialized \in BOOLEAN
    /\ restarts \in 0..MaxRestarts

(* A DPU on its way to a first OS installation, the power cycle of a mode  *)
(* update included.                                                        *)
InProvisioning(d) ==
    \/ /\ IsDPUInProvisioningPhase(phase[d])
       /\ post[d] = "none" /\ os[d] # "yes"
    \/ phase[d] = "Rebooting" /\ prev[d] = "InitializeInterface"

(* No more DPUs are on their way to an OS installation than                *)
(* maxDPUParallelInstallations allows, whatever fails, times out or is     *)
(* deleted in between (DPUInProvisioningMap.max).                          *)
Capacity == Cardinality({d \in DPUs : InProvisioning(d)}) <= Max

(* A slot of the map is held only by a DPU in a provisioning phase or in   *)
(* the power cycle of a mode update, by one that waits for its patch out   *)
(* of Pending, or in a phase whose handler gives the slot back: none is    *)
(* lost to a DPU that has moved on (DPUInProvisioningMap.dpus).            *)
SlotOwners ==
    \A d \in slots :
        \/ IsDPUInProvisioningPhase(phase[d])
        \/ phase[d] = "Rebooting" /\ prev[d] = "InitializeInterface"
        \/ phase[d] \in {"Pending", "Error", "Deleting"}

(* The map never remembers a DPU that no longer exists, restarts included: *)
(* nothing would ever remove such an entry.                                *)
SlotsAlive == \A d \in slots : phase[d] \notin {"Absent", "Gone"}

(* A DPU is configured, joined to its cluster and made Ready only with an  *)
(* installed OS, although Node Effect and Rebooting are entered from       *)
(* before and from after the installation.                                 *)
ServesOnlyInstalled ==
    \A d \in DPUs :
        \/ phase[d] \in {"DPUConfig", "HostNetworkConfiguration",
                         "ClusterConfig", "ServiceReadiness",
                         "NodeEffectRemoval", "Ready"}
        \/ phase[d] = "Rebooting" /\ prev[d] = "DPUConfig"
        => AgentRuns(d)

(* A DPU that is waiting in Pending gets its turn, because slots are given *)
(* back on every way out of provisioning, as long as the manager is not    *)
(* restarted (Initialize may then count a DPU that never gives back).      *)
PendingProceeds ==
    \A d \in DPUs :
        phase[d] = "Pending" ~> (phase[d] # "Pending" \/ restarts > 0)

(* A deletion is carried out from every phase, also when the DPU agent has *)
(* reported an error (comment of setErrorPhaseFromCondition) and when the  *)
(* manager restarts.                                                       *)
DeletionCompletes ==
    \A d \in DPUs : d \in deleting ~> phase[d] = "Gone"
=============================================================================
