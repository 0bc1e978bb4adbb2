---------------------------- MODULE NodeMaintenance ----------------------------
(***************************************************************************)
(* The DPUs of one DPUNode share one DPUNodeMaintenance object.  The DPU   *)
(* controller adds a DPU to its requestors in the NodeEffect phase and     *)
(* removes it in NodeEffectRemoval, Error and Deleting.  The               *)
(* DPUNodeMaintenance controller applies the node effect while there are   *)
(* requestors and deletes the object, then withdraws the effect, once      *)
(* there are none.  Two controllers of the DPUService manager take the     *)
(* additional (service) requestors out of the list with an unlocked merge  *)
(* patch.                                                                  *)
(*                                                                         *)
(* A reconcile is a sequence of API calls, so every handler that reads the *)
(* object and writes it later is split into its read and its write.  A     *)
(* write under an optimistic lock acts on the current object: a conflict   *)
(* is retried or ends the reconcile, which is ReconcileFails.              *)
(***************************************************************************)
EXTENDS Naturals

CONSTANTS
    DPUs,           \* the DPUs of the DPUNode
    Services,       \* names DPUDeployment may add as additional requestors
    Effects,        \* the node effects the DPUs may be given
    ExternalDelete  \* whether someone else may delete the object

Kinds == {"NoEffect", "Drain", "Taint", "CustomLabel", "CustomAction", "Hold"}

ASSUME ConstantsAssumption ==
    /\ DPUs \cap Services = {}
    /\ Effects \subseteq Kinds
    /\ ExternalDelete \in BOOLEAN

VARIABLES
    kind,       \* the node effect of these DPUs; it names the object
    dnm,        \* the DPUNodeMaintenance object in the API server
    effect,     \* what is on the host: NodeMaintenance, Job, taint or label
    dpuNode,    \* the DPUNode object exists
    upgrade,    \* the DPFOperatorConfig reports an upgrade in progress
    phase,      \* status.phase of each DPU
    deleting,   \* the DPUs with a deletionTimestamp
    want,       \* spec...nodeMaintenanceAdditionalRequestors of each DPU
    pc,         \* where the reconcile of each DPU stands
    ctl,        \* where the DPUNodeMaintenance reconcile stands
    svc,        \* a requestor list computed by a DPUService controller
    staleJoin   \* history: DPUs that go on although the object they joined was
                \* being deleted or not applied, unlike the one they had read

objVars == <<dnm, effect, dpuNode>>
dpuVars == <<phase, deleting, want, pc, staleJoin>>
stateVars == <<dnm, effect, dpuNode, upgrade, phase, deleting, want, pc, ctl, svc,
               staleJoin>>
vars == <<kind, dnm, effect, dpuNode, upgrade, phase, deleting, want, pc, ctl, svc,
          staleJoin>>

Requestors == DPUs \cup Services

(* "Provisioning" stands for the phases from the exit of NodeEffect to     *)
(* ServiceReadiness; "ClusterConfig" for the same phases entered from      *)
(* Ready or NodeEffectRemoval, without a node effect of their own.         *)
Phases == {"Pending", "NodeEffect", "Provisioning", "ClusterConfig",
           "NodeEffectRemoval", "Ready", "Error", "Deleting", "Gone"}

DNM == [exists : BOOLEAN, deleting : BOOLEAN, finalizer : BOOLEAN,
        requestor : SUBSET Requestors,
        annotated : SUBSET DPUs, lastApplied : [DPUs -> SUBSET Services],
        applied : {"nil", "False", "Processing", "True"},
        hold : {"absent", "true", "false"}]

Absent == [exists |-> FALSE, deleting |-> FALSE, finalizer |-> FALSE,
           requestor |-> {},
           annotated |-> {}, lastApplied |-> [d \in DPUs |-> {}],
           applied |-> "nil", hold |-> "absent"]

Init ==
    /\ kind \in Effects
    /\ dnm = Absent
    /\ effect = "none"
    /\ dpuNode = TRUE
    /\ upgrade = FALSE
    /\ phase = [d \in DPUs |-> "Pending"]
    /\ deleting = {}
    /\ want \in [DPUs -> SUBSET Services]
    /\ pc = [d \in DPUs |-> "idle"]
    /\ ctl = "idle"
    /\ svc = [busy |-> FALSE, list |-> {}]
    /\ staleJoin = {}

-----------------------------------------------------------------------------
(* The DPU controller.                                                     *)

IsNodeEffectApplied(m) == m.applied = "True"

\* findOutDPURequestors: what is not a service requestor of this DPU is kept.
findOutDPURequestors(lastApplied, current) == current \ lastApplied

(* The start of every reconcile: the requestors this DPU contributed are   *)
(* brought in line with its spec.                                          *)
UpdateDPUNodeMaintenanceRequestors(d) ==
    IF dnm.exists /\ d \in dnm.annotated /\ dnm.lastApplied[d] # want[d]
    THEN dnm' = [dnm EXCEPT
                   !.requestor = want[d] \cup
                       findOutDPURequestors(dnm.lastApplied[d], @),
                   !.lastApplied[d] = want[d]]
    ELSE dnm' = dnm

Reconcile(d) ==
    /\ pc[d] = "idle"
    /\ phase[d] # "Gone"
    /\ UpdateDPUNodeMaintenanceRequestors(d)
    /\ pc' = [pc EXCEPT ![d] = "handle"]
    /\ UNCHANGED <<effect, dpuNode, upgrade, phase, deleting, want, ctl, svc,
                   staleJoin>>

(* The phase a reconcile writes: the handler's, or Error when the DPU's    *)
(* Error condition is True and the DPU is not being deleted.               *)
NextPhase(d, p) ==
    /\ \E q \in IF d \in deleting THEN {p} ELSE {p, "Error"} :
          /\ phase' = [phase EXCEPT ![d] = q]
          /\ staleJoin' = IF q = "Provisioning" THEN staleJoin
                          ELSE staleJoin \ {d}
    /\ pc' = [pc EXCEPT ![d] = "idle"]

Handling(d, p) ==
    /\ pc[d] = "handle"
    /\ phase[d] = p

\* The deletion check every handler of this model but Deleting starts with.
ToDeleting(d) ==
    /\ pc[d] = "handle"
    /\ phase[d] \notin {"Deleting", "Gone"}
    /\ d \in deleting
    /\ NextPhase(d, "Deleting")
    /\ UNCHANGED <<objVars, upgrade, deleting, want, ctl, svc>>

Pending(d) ==
    /\ Handling(d, "Pending")
    /\ d \notin deleting
    /\ \/ ~upgrade /\ NextPhase(d, "NodeEffect")
       \/ NextPhase(d, "Pending")
    /\ UNCHANGED <<objVars, upgrade, deleting, want, ctl, svc>>

\* A hold node effect does not start or join while an upgrade runs.
holdForUpgrade(d) ==
    /\ kind = "Hold" /\ upgrade
    /\ \/ ~dnm.exists
       \/ dnm.deleting
       \/ d \notin dnm.requestor
       \/ ~IsNodeEffectApplied(dnm)

createDPUNodeMaintenance(d) ==
    dnm' = [Absent EXCEPT !.exists = TRUE,
                          !.requestor = want[d] \cup {d},
                          !.annotated = {d},
                          !.lastApplied[d] = want[d]]

(* The NodeEffect handler up to its read of the object.  A missing object  *)
(* is created, one that is being deleted is waited for, and a DPU that is  *)
(* not a requestor goes on to join with the condition it has just read.    *)
NodeEffect(d) ==
    /\ Handling(d, "NodeEffect")
    /\ d \notin deleting
    /\ \/ /\ ~holdForUpgrade(d) /\ dpuNode
          /\ ~dnm.exists
          /\ createDPUNodeMaintenance(d)
          /\ NextPhase(d, "NodeEffect")
       \/ /\ \/ holdForUpgrade(d)
             \/ ~dpuNode
             \/ dnm.exists /\ dnm.deleting
             \/ d \in dnm.requestor /\ ~IsNodeEffectApplied(dnm)
          /\ NextPhase(d, "NodeEffect")
          /\ UNCHANGED dnm
       \/ /\ ~holdForUpgrade(d) /\ dpuNode
          /\ dnm.exists /\ ~dnm.deleting
          /\ d \notin dnm.requestor \/ IsNodeEffectApplied(dnm)
          /\ pc' = [pc EXCEPT ![d] =
                      IF d \in dnm.requestor THEN "complete"
                      ELSE IF IsNodeEffectApplied(dnm) THEN "joinApplied"
                      ELSE "join"]
          /\ UNCHANGED <<dnm, phase, staleJoin>>
    /\ UNCHANGED <<effect, dpuNode, upgrade, deleting, want, ctl, svc>>

(* The object is read again and patched under its resourceVersion; whether *)
(* it is being deleted by now is not looked at.                            *)
addRequestorAndUpdateForce(d) ==
    /\ pc[d] \in {"join", "joinApplied"}
    /\ dnm.exists
    /\ dnm' = IF d \in dnm.requestor THEN dnm
              ELSE [dnm EXCEPT !.requestor = @ \cup {d} \cup want[d],
                               !.annotated = @ \cup {d},
                               !.lastApplied[d] = want[d]]
    /\ IF pc[d] = "joinApplied"
       THEN /\ pc' = [pc EXCEPT ![d] = "complete"]
            /\ staleJoin' = IF dnm.deleting \/ ~IsNodeEffectApplied(dnm)
                            THEN staleJoin \cup {d} ELSE staleJoin
            /\ UNCHANGED phase
       ELSE NextPhase(d, "NodeEffect")
    /\ UNCHANGED <<effect, dpuNode, upgrade, deleting, want, ctl, svc>>

handleNodeEffectCompletion(d) ==
    /\ pc[d] = "complete"
    /\ NextPhase(d, "Provisioning")
    /\ UNCHANGED <<objVars, upgrade, deleting, want, ctl, svc>>

(* A DPU marked for an in-place round jumps to NodeEffect instead of       *)
(* running its handler, also from the phases that follow DPUConfig, where  *)
(* it may still be a requestor.                                            *)
StartInPlaceReconfig(d) ==
    /\ pc[d] = "handle"
    /\ d \notin deleting
    /\ phase[d] \in {"Provisioning", "ClusterConfig", "NodeEffectRemoval", "Ready"}
    /\ NextPhase(d, "NodeEffect")
    /\ UNCHANGED <<objVars, upgrade, deleting, want, ctl, svc>>

(* The phases between the node effect and its removal, or after Ready.     *)
(* PrepareBFB and OSInstalling carry on while the DPU is being deleted.    *)
Provision(d) ==
    /\ pc[d] = "handle"
    /\ phase[d] \in {"Provisioning", "ClusterConfig"}
    /\ \/ NextPhase(d, phase[d])
       \/ NextPhase(d, "NodeEffectRemoval")
    /\ UNCHANGED <<objVars, upgrade, deleting, want, ctl, svc>>

\* Fault: the list is emptied instead of filtered.
RemoveEveryRequestor(d) ==
    dnm' = [dnm EXCEPT !.requestor = {}]

RemoveRequestorFromDPUNodeMaintenance(d) ==
    dnm' = [dnm EXCEPT !.requestor = @ \ {d}]

(* Labels that differ send the DPU back to cluster config; with no object  *)
(* left the DPU is Ready; otherwise it leaves the requestors and waits for *)
(* the object to go, and a wait on an object that is not being deleted may *)
(* time out.                                                               *)
NodeEffectRemoval(d) ==
    /\ Handling(d, "NodeEffectRemoval")
    /\ d \notin deleting
    /\ \/ NextPhase(d, "ClusterConfig") /\ UNCHANGED dnm
       \/ ~dnm.exists /\ NextPhase(d, "Ready") /\ UNCHANGED dnm
       \/ /\ dnm.exists
          /\ RemoveRequestorFromDPUNodeMaintenance(d)
          /\ \/ NextPhase(d, "NodeEffectRemoval")
             \/ ~dnm.deleting /\ NextPhase(d, "Error")
    /\ UNCHANGED <<effect, dpuNode, upgrade, deleting, want, ctl, svc>>

(* New node labels send a Ready DPU to NodeEffect when applyOnLabelChange  *)
(* is set, and to ClusterConfig when it is not.                            *)
Ready(d) ==
    /\ Handling(d, "Ready")
    /\ d \notin deleting
    /\ \E p \in {"Ready", "NodeEffect", "ClusterConfig"} : NextPhase(d, p)
    /\ UNCHANGED <<objVars, upgrade, deleting, want, ctl, svc>>

Error(d) ==
    /\ Handling(d, "Error")
    /\ d \notin deleting
    /\ RemoveRequestorFromDPUNodeMaintenance(d)
    /\ NextPhase(d, "Error")
    /\ UNCHANGED <<effect, dpuNode, upgrade, deleting, want, ctl, svc>>

\* Fault: the DPU goes without leaving the requestors.
DeletingKeepsRequestor(d) ==
    /\ Handling(d, "Deleting")
    /\ \E p \in {"Deleting", "Gone"} : NextPhase(d, p)
    /\ UNCHANGED <<objVars, upgrade, deleting, want, ctl, svc>>

\* The DPU object is gone once everything it owns is.
Deleting(d) ==
    /\ Handling(d, "Deleting")
    /\ RemoveRequestorFromDPUNodeMaintenance(d)
    /\ \E p \in {"Deleting", "Gone"} : NextPhase(d, p)
    /\ UNCHANGED <<effect, dpuNode, upgrade, deleting, want, ctl, svc>>

\* An API error, or a conflict that outlasts the retries, ends a reconcile.
ReconcileFails(d) ==
    /\ pc[d] # "idle"
    /\ pc' = [pc EXCEPT ![d] = "idle"]
    /\ staleJoin' = IF phase[d] = "Provisioning" THEN staleJoin
                    ELSE staleJoin \ {d}
    /\ UNCHANGED <<objVars, upgrade, phase, deleting, want, ctl, svc>>

-----------------------------------------------------------------------------
(* The DPUNodeMaintenance controller: one worker, so one reconcile.        *)

ctlFrame == UNCHANGED <<upgrade, dpuVars, svc>>

ctlAddFinalizer ==
    /\ ctl = "idle"
    /\ dnm.exists /\ ~dnm.deleting /\ ~dnm.finalizer
    /\ dnm' = [dnm EXCEPT !.finalizer = TRUE]
    /\ UNCHANGED <<effect, dpuNode, ctl>> /\ ctlFrame

\* Fault: an object without requestors is only deleted once it is applied.
ctlReadDeletesApplied ==
    /\ ctl = "idle"
    /\ dnm.exists
    /\ \/ dnm.deleting /\ dnm.requestor = {} /\ ctl' = "remove"
       \/ /\ ~dnm.deleting /\ dnm.finalizer /\ dnm.requestor = {}
          /\ IsNodeEffectApplied(dnm)
          /\ ctl' = "delete"
       \/ /\ ~dnm.deleting /\ dnm.finalizer
          /\ ~IsNodeEffectApplied(dnm)
          /\ dpuNode
          /\ ctl' = "apply"
    /\ UNCHANGED objVars /\ ctlFrame

\* Fault: a node effect that is applied already is applied again.
ctlReadReapplies ==
    /\ ctl = "idle"
    /\ dnm.exists
    /\ \/ dnm.deleting /\ dnm.requestor = {} /\ ctl' = "remove"
       \/ ~dnm.deleting /\ dnm.finalizer /\ dnm.requestor = {} /\ ctl' = "delete"
       \/ ~dnm.deleting /\ dnm.finalizer /\ dnm.requestor # {} /\ dpuNode /\ ctl' = "apply"
    /\ UNCHANGED objVars /\ ctlFrame

(* What the reconcile is going to do is decided from the object it has     *)
(* read; the object may have changed when it does it.                      *)
ctlRead ==
    /\ ctl = "idle"
    /\ dnm.exists
    /\ \/ dnm.deleting /\ dnm.requestor = {} /\ ctl' = "remove"
       \/ ~dnm.deleting /\ dnm.finalizer /\ dnm.requestor = {} /\ ctl' = "delete"
       \/ /\ ~dnm.deleting /\ dnm.finalizer /\ dnm.requestor # {}
          /\ ~IsNodeEffectApplied(dnm)
          /\ dpuNode
          /\ ctl' = "apply"
    /\ UNCHANGED objVars /\ ctlFrame

\* The object is only marked: it has a finalizer when this is reached.
ctlDelete ==
    /\ ctl = "delete"
    /\ ctl' = "idle"
    /\ dnm' = [dnm EXCEPT !.deleting = TRUE]
    /\ UNCHANGED <<effect, dpuNode>> /\ ctlFrame

\* Too many unavailable nodes, or the wait for the node's other DPUs.
checkMaxUnavailableAndSyncWaitTime ==
    /\ ctl = "apply"
    /\ ctl' = "idle"
    /\ dnm' = IF dnm.exists THEN [dnm EXCEPT !.applied = "False"] ELSE dnm
    /\ UNCHANGED <<effect, dpuNode>> /\ ctlFrame

(* The node effect itself: applied at once (label, taint), requested from  *)
(* the maintenance operator or a Job and waited for (drain, custom         *)
(* action), waited for on the object (hold), or nothing at all.            *)
reconcileEffect ==
    /\ ctl = "apply"
    /\ \/ kind = "NoEffect" /\ ctl' = "applied" /\ UNCHANGED effect
       \/ kind \in {"Taint", "CustomLabel"} /\ effect' = "on" /\ ctl' = "applied"
       \/ /\ kind \in {"Drain", "CustomAction"}
          /\ effect' = IF effect = "none" THEN "pending" ELSE effect
          /\ ctl' = CASE effect = "on" -> "applied"
                      [] effect = "failed" -> "failed"
                      [] OTHER -> "processing"
       \/ kind = "CustomAction" /\ effect = "pending"  \* the Job timed out
          /\ ctl' = "failed" /\ UNCHANGED effect
       \/ /\ kind = "Hold"
          /\ ctl' = IF dnm.hold = "false" THEN "applied" ELSE "processing"
          /\ UNCHANGED effect
    /\ UNCHANGED <<dnm, dpuNode>> /\ ctlFrame

\* Fault: the outcome is written to the condition as it is.
ctlPatchRaw ==
    /\ ctl \in {"applied", "processing", "failed"}
    /\ ctl' = "idle"
    /\ dnm' = [dnm EXCEPT !.applied = ctl]
    /\ UNCHANGED <<effect, dpuNode>> /\ ctlFrame

\* The deferred patch of the condition, and of the hold annotation.
ctlPatch ==
    /\ ctl \in {"applied", "processing", "failed"}
    /\ ctl' = "idle"
    /\ dnm' = [dnm EXCEPT !.applied = CASE ctl = "applied" -> "True"
                                        [] ctl = "processing" -> "Processing"
                                        [] OTHER -> "False",
                          !.hold = IF kind = "Hold" /\ @ = "absent"
                                   THEN "true" ELSE @]
    /\ UNCHANGED <<effect, dpuNode>> /\ ctlFrame

\* Fault: a missing DPUNode counts as nothing to remove.
removalIgnoresMissingNode ==
    /\ ctl = "remove"
    /\ effect' = IF dpuNode THEN "none" ELSE effect
    /\ ctl' = "unfinalize"
    /\ UNCHANGED <<dnm, dpuNode>> /\ ctlFrame

\* Without its DPUNode only an effect with nothing to remove can be removed.
handleNodeEffectRemoval ==
    /\ ctl = "remove"
    /\ dpuNode \/ kind \in {"NoEffect", "Hold"}
    /\ effect' = "none"
    /\ ctl' = "unfinalize"
    /\ UNCHANGED <<dnm, dpuNode>> /\ ctlFrame

\* The deferred patch that takes the finalizer away; the object is gone.
ctlRemoveFinalizer ==
    /\ ctl = "unfinalize"
    /\ ctl' = "idle"
    /\ dnm' = Absent
    /\ UNCHANGED <<effect, dpuNode>> /\ ctlFrame

(* With the DPUNode gone the requestors of a deleted object are dropped.   *)
(* The removal then succeeds for NoEffect and Hold and fails for the rest. *)
reconcileDeleteWithoutNode ==
    /\ ctl = "idle"
    /\ dnm.exists /\ dnm.deleting /\ dnm.requestor # {}
    /\ ~dpuNode
    /\ dnm' = IF kind \in {"NoEffect", "Hold"} THEN Absent
              ELSE [dnm EXCEPT !.requestor = {}]
    /\ UNCHANGED <<effect, dpuNode, ctl>> /\ ctlFrame

ctlFails ==
    /\ ctl # "idle"
    /\ ctl' = "idle"
    /\ UNCHANGED objVars /\ ctlFrame

-----------------------------------------------------------------------------
(* The DPUService manager: once the node effect is applied, the requestors *)
(* of the services that are ready are taken out of the list that was read, *)
(* and the list is written back with a merge patch that carries no         *)
(* resourceVersion.                                                        *)

svcRead ==
    /\ ~svc.busy
    /\ dnm.exists /\ IsNodeEffectApplied(dnm)
    /\ \E ready \in (SUBSET (dnm.requestor \cap Services)) \ {{}} :
          svc' = [busy |-> TRUE, list |-> dnm.requestor \ ready]
    /\ UNCHANGED <<objVars, upgrade, dpuVars, ctl>>

patchDPUNodeMaintenanceObjects ==
    /\ svc.busy
    /\ svc' = [busy |-> FALSE, list |-> {}]
    /\ dnm' = IF dnm.exists THEN [dnm EXCEPT !.requestor = svc.list] ELSE dnm
    /\ UNCHANGED <<effect, dpuNode, upgrade, dpuVars, ctl>>

-----------------------------------------------------------------------------
(* The environment.                                                        *)

\* The maintenance operator or the Job finishes, or the Job fails.
EffectProgress ==
    /\ effect = "pending"
    /\ \/ effect' = "on"
       \/ kind = "CustomAction" /\ effect' = "failed"
    /\ UNCHANGED <<dnm, dpuNode, upgrade, dpuVars, ctl, svc>>

ReleaseHold ==
    /\ dnm.hold = "true"
    /\ dnm' = [dnm EXCEPT !.hold = "false"]
    /\ UNCHANGED <<effect, dpuNode, upgrade, dpuVars, ctl, svc>>

(* The DPU object is read when a reconcile starts, so what happens to it   *)
(* during the reconcile is seen by the next one.                           *)
DeleteDPU(d) ==
    /\ pc[d] = "idle"
    /\ phase[d] # "Gone" /\ d \notin deleting
    /\ deleting' = deleting \cup {d}
    /\ UNCHANGED <<objVars, upgrade, phase, want, pc, staleJoin, ctl, svc>>

\* DPUSet creates a new DPU under the same name.
CreateDPU(d) ==
    /\ phase[d] = "Gone" /\ dpuNode
    /\ phase' = [phase EXCEPT ![d] = "Pending"]
    /\ deleting' = deleting \ {d}
    /\ UNCHANGED <<objVars, upgrade, want, pc, staleJoin, ctl, svc>>

\* DPUDeployment rewrites the additional requestors of a DPU.
SetAdditionalRequestors(d) ==
    /\ pc[d] = "idle"
    /\ phase[d] # "Gone"
    /\ \E s \in SUBSET Services : s # want[d] /\ want' = [want EXCEPT ![d] = s]
    /\ UNCHANGED <<objVars, upgrade, phase, deleting, pc, staleJoin, ctl, svc>>

\* kubectl delete; an object without a finalizer disappears.
DeleteMaintenance ==
    /\ ExternalDelete
    /\ dnm.exists /\ ~dnm.deleting
    /\ dnm' = IF dnm.finalizer THEN [dnm EXCEPT !.deleting = TRUE] ELSE Absent
    /\ UNCHANGED <<effect, dpuNode, upgrade, dpuVars, ctl, svc>>

\* A DPUNode goes once the DPUs on it have released their devices.
DeleteDPUNode ==
    /\ dpuNode
    /\ \A d \in DPUs : phase[d] \in {"Deleting", "Gone"}
    /\ dpuNode' = FALSE
    /\ UNCHANGED <<dnm, effect, upgrade, dpuVars, ctl, svc>>

\* The host is registered again under the same name.
CreateDPUNode ==
    /\ ~dpuNode
    /\ dpuNode' = TRUE
    /\ UNCHANGED <<dnm, effect, upgrade, dpuVars, ctl, svc>>

Upgrade ==
    /\ kind = "Hold"
    /\ upgrade' = ~upgrade
    /\ UNCHANGED <<objVars, dpuVars, ctl, svc>>

\* The provisioning manager restarts: reconciles end where they are.
Restart ==
    /\ ctl # "idle" \/ \E d \in DPUs : pc[d] # "idle"
    /\ pc' = [d \in DPUs |-> "idle"]
    /\ ctl' = "idle"
    /\ staleJoin' = {d \in staleJoin : phase[d] = "Provisioning"}
    /\ UNCHANGED <<objVars, upgrade, phase, deleting, want, svc>>

DPUStep(d) ==
    \/ Reconcile(d) \/ ToDeleting(d) \/ Pending(d) \/ NodeEffect(d)
    \/ addRequestorAndUpdateForce(d) \/ handleNodeEffectCompletion(d)
    \/ StartInPlaceReconfig(d)
    \/ Provision(d) \/ NodeEffectRemoval(d) \/ Ready(d) \/ Error(d)
    \/ Deleting(d) \/ ReconcileFails(d)

CtlStep ==
    \/ ctlAddFinalizer \/ ctlRead \/ ctlDelete
    \/ checkMaxUnavailableAndSyncWaitTime \/ reconcileEffect \/ ctlPatch
    \/ handleNodeEffectRemoval \/ ctlRemoveFinalizer
    \/ reconcileDeleteWithoutNode \/ ctlFails

EnvStep ==
    \/ EffectProgress \/ ReleaseHold \/ DeleteMaintenance \/ DeleteDPUNode
    \/ CreateDPUNode \/ Upgrade \/ Restart
    \/ \E d \in DPUs : DeleteDPU(d) \/ CreateDPU(d) \/ SetAdditionalRequestors(d)

Next ==
    /\ \/ \E d \in DPUs : DPUStep(d)
       \/ CtlStep
       \/ svcRead \/ patchDPUNodeMaintenanceObjects
       \/ EnvStep
    /\ UNCHANGED kind

Spec == Init /\ [][Next]_vars

(* Both controllers requeue what they have not finished and retry what     *)
(* failed with back-off, so each keeps taking steps (WF), and a call that  *)
(* is attempted again and again succeeds in the end (SF).                  *)
Fairness ==
    /\ WF_stateVars(CtlStep)
    /\ SF_stateVars(ctlDelete)
    /\ SF_stateVars(handleNodeEffectRemoval)
    /\ SF_stateVars(ctlRemoveFinalizer)
    /\ \A d \in DPUs : WF_stateVars(DPUStep(d)) /\ SF_stateVars(NodeEffect(d))

FairSpec == Spec /\ Fairness

-----------------------------------------------------------------------------
(* Properties.                                                             *)

\* The variables have the types the code gives them.
TypeOK ==
    /\ kind \in Kinds
    /\ dnm \in DNM
    /\ effect \in {"none", "pending", "on", "failed"}
    /\ dpuNode \in BOOLEAN
    /\ upgrade \in BOOLEAN
    /\ phase \in [DPUs -> Phases]
    /\ deleting \in SUBSET DPUs
    /\ want \in [DPUs -> SUBSET Services]
    /\ pc \in [DPUs -> {"idle", "handle", "join", "joinApplied", "complete"}]
    /\ ctl \in {"idle", "delete", "apply", "applied", "processing", "failed",
                "remove", "unfinalize"}
    /\ svc \in [busy : BOOLEAN, list : SUBSET Requestors]
    /\ staleJoin \in SUBSET DPUs

\* The node effect is in place; NoEffect and Hold put nothing on the host.
InForce == kind \in {"NoEffect", "Hold"} \/ effect = "on"

\* DPU d works under a node effect that cannot be withdrawn from under it.
Covered(d) ==
    /\ dnm.exists
    /\ d \in dnm.requestor
    /\ IsNodeEffectApplied(dnm)
    /\ InForce

(* While a DPU is being provisioned it is a requestor of the existing      *)
(* DPUNodeMaintenance, whose node effect is applied and in place, provided *)
(* the DPU did not go on after joining an object that was being deleted    *)
(* or not applied.                                                         *)
EffectHeld ==
    \A d \in DPUs \ staleJoin : phase[d] = "Provisioning" => Covered(d)

(* The same without the proviso: a DPUNodeMaintenance is only deleted once *)
(* all DPUs that share it have left it (holdForUpgrade's comment).         *)
EffectHeldByAll == \A d \in DPUs : phase[d] = "Provisioning" => Covered(d)

(* When the object is gone nothing of its node effect is left on the host: *)
(* no drained node, taint, label or Job outlives the reconciles that made  *)
(* it, wherever the manager was restarted.                                 *)
NoEffectLeft == ~dnm.exists => effect = "none"

(* A requestor that is a DPU can still withdraw: it never belongs to a DPU *)
(* that has finished, has gone or has not started, which would keep the    *)
(* node effect on the node for good.                                       *)
NoOrphanRequestor ==
    \A d \in DPUs : d \in dnm.requestor =>
        phase[d] \notin {"Pending", "Ready", "Gone"}

(* The stage of the node maintenance, and the DPUs that are provisioned    *)
(* under it or have decided to be, on an object they joined in time.       *)
Stage ==
    CASE ~dnm.exists -> "free"
      [] dnm.exists /\ dnm.deleting -> "closing"
      [] dnm.exists /\ ~dnm.deleting /\ IsNodeEffectApplied(dnm) -> "granted"
      [] OTHER -> "asked"

Committed(d) ==
    /\ d \notin staleJoin
    /\ phase[d] = "Provisioning" \/ pc[d] = "complete"

Holders == {d \in DPUs : Committed(d)}

L == INSTANCE HostLease WITH
       stage <- Stage, holders <- Holders,
       placed <- (effect # "none"), inForce <- InForce

(* The DPUNodeMaintenance is a lease of the host: a node effect that was   *)
(* reported as applied is not taken back before the object is deleted, a   *)
(* DPU goes on only on an object that is applied and not being deleted,    *)
(* and the effect is withdrawn, and the object gone, only after the DPUs   *)
(* that went on are finished.                                              *)
MaintenanceIsLease == L!Spec

(* Once its requestors are gone the object goes too and the node effect    *)
(* with it, unless somebody joins or the DPUNode disappears: no order of   *)
(* failures, restarts and retries leaves a node in maintenance for nobody. *)
EmptyMaintenanceReleased ==
    (dnm.exists /\ dnm.requestor = {})
        ~> (~dnm.exists \/ dnm.requestor # {} \/ ~dpuNode)
=============================================================================
