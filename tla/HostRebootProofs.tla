-------------------------- MODULE HostRebootProofs --------------------------
(***************************************************************************)
(* Proofs about HostReboot, for any set of DPUs of a host, any of the      *)
(* three reboot methods and any number of failures: a DPU leaves Rebooting *)
(* only after the host was rebooted for it, a Job is deleted only after it *)
(* has ended, and none is created that no DPU needs unless a call failed.  *)
(*                                                                         *)
(* A DPU goes on when the cache shows it as Succeeded.  That status comes  *)
(* from the host agent, which has seen a boot ID change, or from a         *)
(* reconcile of the DPUNode, which infers the reboot from what is left in  *)
(* the API: an annotation that is gone while the DPUs are marked, or a     *)
(* Job that is complete while one of them records that it waits.  The      *)
(* invariant says that whatever such a reconcile may infer the reboot from *)
(* is there only when every DPU that waits has been served.                *)
(***************************************************************************)
EXTENDS HostReboot, FiniteSetTheorems, TLAPS

(* The host was rebooted for the DPU, or it is one of those that an        *)
(* earlier reboot is taken for.                                            *)
Served(d) == rebooted[d] \/ d \in excused

(* What a DPU, or the cached copy x of one, says of its reboot.            *)
Waits(d) == dpu[d].phase = "Rebooting"
Told(x) == x.phase = "Rebooting" /\ x.rs.phase = "Succeeded"
Scripted(x) == x.phase = "Rebooting" /\ scriptRebootLifecycleActive(x.rs)
Marks(x) == x.phase = "Rebooting" /\ x.rs = Manual

(* The Job has rebooted the host, and this is known or about to be.        *)
Over == job \in {"rebooted", "complete"} \/ seenJob \in {"rebooted", "complete"}

(* A reconcile of the DPUNode that may reboot: no DPU can join it any      *)
(* more.                                                                   *)
Closed == node.pc # "idle" /\ "Provisioning" \notin node.phases

(* The user is asked for a reboot that has not happened.                   *)
Asked == annotation /\ ~answered

(* A reconcile is about to write a status with this reason.                *)
Pending(reason) == node.pc = "write" /\ node.status.reason = reason

(* A deleted Job has ended, and the cache is at most one change behind.    *)
JobInv ==
  /\ RunningJobKept
  /\ \/ seenJob = job
     \/ seenJob = "none" /\ job = "active"
     \/ seenJob = "active" /\ job \in {"rebooted", "failed"}
     \/ seenJob = "rebooted" /\ job \in {"complete", "failed"}
     \/ seenJob \in {"complete", "failed"} /\ job = "none"

(* What a reconcile has read and is about to write.                        *)
NodeInv ==
  /\ node.pc # "idle" => node.ann \/ ~annotation
  /\ {"Rebooting", "Provisioning"} \subseteq node.phases => Cardinality(DPUs) > 1
  /\ node.pc = "write" =>
       /\ "Provisioning" \notin node.phases
       /\ \/ method = "script" /\ node.status \in {Waiting, Failed, Succeeded}
          \/ method = "external" /\ node.status \in {Manual, Succeeded, Refused}
       /\ node.status = Manual => node.ann

(* What is said to have had its reboot has had it.                         *)
ServedInv(d) ==
  /\ Told(dpu[d]) \/ Told(seen[d]) => Served(d)
  /\ node.pc = "write" /\ node.status = Succeeded /\ d \in node.todo => Served(d)
  /\ file[d] = "rebooted" => rebooted[d]

(* With no reboot asked for and outstanding, the marks are of a reboot that *)
(* has happened.                                                           *)
ExternalInv(d) ==
  method = "external" /\ ~Asked =>
    /\ annotation => Served(d)
    /\ Closed /\ node.ann => Served(d)
    /\ Marks(dpu[d]) \/ Marks(seen[d]) => Served(d)

(* Once the Job has rebooted the host, a recorded wait is for that reboot. *)
ScriptInv(d) ==
  method = "script" /\ Over =>
    /\ \A e \in DPUs : Scripted(dpu[e]) \/ Scripted(seen[e]) => Served(d)
    /\ Pending("script") => Served(d)

DPUInv(d) ==
  Waits(d) =>
    /\ seen[d].phase \in {"Provisioning", "Rebooting"}
    /\ Closed => seen[d].phase = "Rebooting"
    /\ ServedInv(d) /\ ExternalInv(d) /\ ScriptInv(d)

IInv == TypeOK /\ JobInv /\ NodeInv /\ \A d \in DPUs : DPUInv(d)
-----------------------------------------------------------------------------
(* The statuses the code writes, and the resting reconcile, are of their   *)
(* types.                                                                  *)
LEMMA StatusTypes ==
  /\ {NoStatus, Requested, Shutdown, Waiting, Failed, Manual, Refused, Succeeded} \subseteq Statuses
  /\ Idle \in NodeReconcile
BY DEF Statuses, Status, NoStatus, Requested, Shutdown, Waiting, Failed, Manual, Refused, Succeeded,
       Idle, NodeReconcile

(* A merge patch of a status leaves a status.                              *)
LEMMA PatchedType ==
  ASSUME TypeOK, NEW d \in DPUs, NEW rs \in Statuses
  PROVE  Patched(d, rs) \in Statuses
BY Zenon DEF TypeOK, Patched, Statuses

(* Moving on and starting an update keep the reconcile's type.             *)
LEMMA ReconcileTypes ==
  ASSUME node \in NodeReconcile
  PROVE  /\ \A pc \in {"idle", "sync", "write", "ready", "patch"} : Go(pc) => node' \in NodeReconcile
         /\ \A status \in Statuses, pc \in {"ready", "patch"}, progress \in {"none", "true", "false"} :
              Update(status, pc, progress) => node' \in NodeReconcile
<1>1. InScope \subseteq DPUs
  BY Zenon DEF InScope
<1>2. ASSUME NEW pc \in {"idle", "sync", "write", "ready", "patch"}, Go(pc)
      PROVE  node' \in NodeReconcile
  BY Zenon, <1>2 DEF Go, NodeReconcile
<1>3. ASSUME NEW status \in Statuses, NEW pc \in {"ready", "patch"},
             NEW progress \in {"none", "true", "false"}, Update(status, pc, progress)
      PROVE  node' \in NodeReconcile
  BY Zenon, <1>1, <1>3 DEF Update, NodeReconcile
<1> QED
  BY Zenon, <1>2, <1>3

(* Every step of a reconcile of the DPUNode keeps the types.               *)
LEMMA NodeSteps ==
  ASSUME TypeOK,
         \/ Read \/ HandleRebootSync \/ processExternalReboot \/ reconcileScriptJob \/ DeleteStaleJob
         \/ handleJobNotFound \/ FetchFails \/ UpdateFails \/ noneDPUInNodeEffectOrRebooting
         \/ Patch \/ Crash
  PROVE  TypeOK'
<1>n. node \in NodeReconcile
  BY Zenon DEF TypeOK
<1>1. CASE Read
  <2>1. {seen[d].phase : d \in DPUs} \subseteq Phases
    BY DEF TypeOK
  <2>2. node' \in NodeReconcile
    BY ZenonT(40), <1>1, <2>1, StatusTypes DEF Read, TypeOK, NodeReconcile, Idle
  <2> QED
    BY Zenon, <1>1, <2>2 DEF Read, TypeOK, envVars
<1>2. CASE HandleRebootSync
  <2>1. node' \in NodeReconcile
    BY Zenon, <1>2, <1>n, ReconcileTypes DEF HandleRebootSync
  <2> QED
    BY Zenon, <1>2, <2>1 DEF HandleRebootSync, TypeOK, envVars
<1>3. CASE processExternalReboot
  <2>0. InScope \subseteq DPUs
    BY Zenon DEF InScope
  <2>1. node' \in NodeReconcile
    <3>1. CASE node' = [node EXCEPT !.pc = "ready", !.inProgress = "true"]
      BY Zenon, <1>n, <3>1 DEF NodeReconcile
    <3>2. CASE node' = [node EXCEPT !.pc = "ready", !.ask = TRUE, !.inProgress = "true",
                                    !.scope = InScope]
      BY Zenon, <1>n, <2>0, <3>2 DEF NodeReconcile
    <3>3. CASE Update(Succeeded, "ready", "false") \/ Update(Manual, "ready", "true")
      BY Zenon, <1>n, <3>3, ReconcileTypes, StatusTypes
    <3> QED
      BY <1>3, <3>1, <3>2, <3>3, Zenon DEF processExternalReboot
  <2> QED
    BY Zenon, <1>3, <2>1 DEF processExternalReboot, TypeOK, envVars
<1>4. CASE reconcileScriptJob
  <2>1. node' \in NodeReconcile
    BY Zenon, <1>4, <1>n, ReconcileTypes, StatusTypes DEF reconcileScriptJob
  <2> QED
    BY Zenon, <1>4, <2>1 DEF reconcileScriptJob, TypeOK, envVars
<1>5. CASE DeleteStaleJob
  <2>1. node' \in NodeReconcile
    BY Zenon, <1>5, <1>n, ReconcileTypes DEF DeleteStaleJob
  <2> QED
    BY Zenon, <1>5, <2>1 DEF DeleteStaleJob, TypeOK, envVars
<1>6. CASE handleJobNotFound
  <2>1. node' \in NodeReconcile
    BY Zenon, <1>6, <1>n, ReconcileTypes, StatusTypes DEF handleJobNotFound
  <2>2. job' \in Jobs
    BY Zenon, <1>6 DEF handleJobNotFound, Jobs, TypeOK
  <2> QED
    BY Zenon, <1>6, <2>1, <2>2 DEF handleJobNotFound, TypeOK, envVars
<1>7. CASE FetchFails
  <2>1. node' \in NodeReconcile
    BY <1>7, <1>n, ReconcileTypes, StatusTypes DEF FetchFails, NodeReconcile
  <2>2. excused' \in SUBSET DPUs
    BY Zenon, <1>7 DEF FetchFails, InScope, TypeOK
  <2> QED
    BY <1>7, <2>1, <2>2, HostAssumption DEF FetchFails, TypeOK, Upset
<1>8. CASE UpdateFails
  <2>1. node' \in NodeReconcile
    <3>1. CASE node' = [node EXCEPT !.todo = node.scope, !.status = Refused,
                                    !.then = [pc |-> "patch", inProgress |-> node.inProgress]]
      BY Zenon, <1>n, <3>1, StatusTypes DEF NodeReconcile
    <3>2. CASE node' = [node EXCEPT !.pc = "patch", !.todo = {},
                                    !.inProgress = IF node.status \in {Succeeded, Failed}
                                                   THEN node.then.inProgress ELSE @]
      BY Zenon, <1>n, <3>2 DEF NodeReconcile
    <3> QED
      BY Zenon, <1>8, <3>1, <3>2 DEF UpdateFails
  <2> QED
    BY <1>8, <2>1, HostAssumption DEF UpdateFails, TypeOK, Upset
<1>9. CASE noneDPUInNodeEffectOrRebooting
  <2>1. node' \in NodeReconcile
    <3>1. CASE node' = [node EXCEPT !.pc = "patch",
                                    !.inProgress = IF @ = "true" /\ "Rebooting" \notin node.phases
                                                   THEN "none" ELSE @]
      BY Zenon, <1>n, <3>1 DEF NodeReconcile
    <3> QED
      BY Zenon, <1>9, <1>n, <3>1, ReconcileTypes DEF noneDPUInNodeEffectOrRebooting
  <2> QED
    BY <1>9, <2>1, HostAssumption DEF noneDPUInNodeEffectOrRebooting, TypeOK, Upset
<1>10. CASE Patch
  <2>1. node' \in NodeReconcile /\ inProgress' \in {"none", "true", "false"}
    BY <1>10, <1>n, StatusTypes DEF Patch, NodeReconcile
  <2>2. annotation' \in BOOLEAN /\ answered' \in BOOLEAN
    BY <1>10, Zenon DEF Patch, TypeOK
  <2> QED
    BY Zenon, <1>10, <2>1, <2>2 DEF Patch, TypeOK
<1>11. CASE Crash
  BY <1>11, HostAssumption, StatusTypes DEF Crash, TypeOK, Upset
<1> QED
  BY Zenon, <1>1, <1>2, <1>3, <1>4, <1>5, <1>6, <1>7, <1>8, <1>9, <1>10, <1>11

(* Every step for one DPU keeps the types.                                 *)
LEMMA DPUSteps ==
  ASSUME TypeOK, NEW d \in DPUs,
         \/ CacheSync(d) \/ Provision(d) \/ Request(d) \/ ArmIsOff(d) \/ CompleteRebooting(d)
         \/ Delete(d) \/ UpdateDPURebootStatus(d)
         \/ PersistBootID(d) \/ RecordFailure(d) \/ Handle(d) \/ housekeeping(d)
  PROVE  TypeOK'
<1> USE HostAssumption, StatusTypes, PatchedType
<1>1. CASE CacheSync(d)
  BY Zenon, <1>1 DEF CacheSync, TypeOK, ctlVars, envVars
<1>2. CASE Provision(d)
  BY SMTT(30), <1>2 DEF Provision, TypeOK, ctlVars, Enter, Leave, Move, Phases
<1>3. CASE Request(d)
  BY <1>3 DEF Request, TypeOK, ctlVars, Move, Phases
<1>4. CASE ArmIsOff(d)
  BY Zenon, <1>4 DEF ArmIsOff, TypeOK, ctlVars, envVars, Move, Phases
<1>5. CASE CompleteRebooting(d)
  BY SMTT(30), <1>5 DEF CompleteRebooting, TypeOK, ctlVars, Enter, Leave, Move, Phases
<1>6. CASE Delete(d)
  BY <1>6 DEF Delete, TypeOK, ctlVars, Move, Phases, Upset
<1>7. CASE UpdateDPURebootStatus(d)
  BY ZenonT(40), <1>7 DEF UpdateDPURebootStatus, NodeReconcile, TypeOK, envVars
<1>8. CASE PersistBootID(d)
  BY Zenon, <1>8 DEF PersistBootID, AgentLoop, TypeOK, ctlVars, envVars
<1>9. CASE RecordFailure(d)
  BY SMTT(30), <1>9 DEF RecordFailure, AgentLoop, TypeOK, ctlVars, envVars, AgentIdle
<1>10. CASE Handle(d)
  BY Zenon, <1>10 DEF Handle, TypeOK, ctlVars, envVars
<1>11. CASE housekeeping(d)
  BY Zenon, <1>11 DEF housekeeping, TypeOK, ctlVars, envVars
<1> QED
  BY Zenon, <1>1, <1>2, <1>3, <1>4, <1>5, <1>6, <1>7, <1>8, <1>9, <1>10, <1>11

(* A reboot of the host keeps the types of what it changes.                *)
LEMMA RebootTypes ==
  ASSUME TypeOK, HostReboots
  PROVE  /\ rebooted' \in [DPUs -> BOOLEAN] /\ agent' \in AgentLoop
         /\ file' \in [DPUs -> {"none", "old", "written", "rebooted"}]
BY Zenon DEF HostReboots, TypeOK, AgentIdle, AgentLoop

(* Every step of the host, its Job, its user and its agent keeps the       *)
(* types.                                                                  *)
LEMMA HostSteps ==
  ASSUME TypeOK,
         \/ JobSync \/ RunJob \/ JobGone \/ User \/ HostRestarts
         \/ AgentLists \/ AgentReboots \/ RebootFails
  PROVE  TypeOK'
<1>1. CASE JobSync
  BY Zenon, <1>1 DEF JobSync, TypeOK, ctlVars, envVars
<1>2. CASE RunJob
  <2>1. /\ rebooted' \in [DPUs -> BOOLEAN] /\ agent' \in AgentLoop
        /\ file' \in [DPUs -> {"none", "old", "written", "rebooted"}]
    BY Zenon, <1>2, RebootTypes DEF RunJob, TypeOK
  <2>2. job' \in Jobs
    BY Zenon, <1>2 DEF RunJob, Jobs
  <2>3. upsets' \in 0..MaxUpsets
    BY <1>2, HostAssumption DEF RunJob, Upset, TypeOK
  <2> QED
    BY Zenon, <1>2, <2>1, <2>2, <2>3 DEF RunJob, TypeOK, ctlVars
<1>3. CASE JobGone
  <2>1. job' \in Jobs
    BY Zenon, <1>3 DEF JobGone, Jobs
  <2>2. upsets' \in 0..MaxUpsets
    BY <1>3, HostAssumption DEF JobGone, Upset, TypeOK
  <2> QED
    BY Zenon, <1>3, <2>1, <2>2 DEF JobGone, TypeOK, ctlVars
<1>4. CASE User
  <2>1. /\ rebooted' \in [DPUs -> BOOLEAN] /\ agent' \in AgentLoop
        /\ file' \in [DPUs -> {"none", "old", "written", "rebooted"}]
    BY Zenon, <1>4, RebootTypes DEF User, TypeOK
  <2>2. annotation' \in BOOLEAN /\ answered' \in BOOLEAN
    BY <1>4, Zenon DEF User, TypeOK
  <2> QED
    BY Zenon, <1>4, <2>1, <2>2 DEF User, TypeOK
<1>5. CASE HostRestarts
  BY <1>5, RebootTypes, HostAssumption DEF HostRestarts, TypeOK, ctlVars, Upset
<1>6. CASE AgentLists
  BY Zenon, <1>6 DEF AgentLists, AgentLoop, NeedRebooting, TypeOK, ctlVars, envVars
<1>7. CASE AgentReboots
  BY Zenon, <1>7, RebootTypes DEF AgentReboots, TypeOK, ctlVars
<1>8. CASE RebootFails
  <2>1. agent' \in AgentLoop
    BY Zenon, <1>8 DEF RebootFails, AgentLoop, TypeOK
  <2> QED
    BY <1>8, <2>1, HostAssumption DEF RebootFails, TypeOK, ctlVars, Upset
<1> QED
  BY Zenon, <1>1, <1>2, <1>3, <1>4, <1>5, <1>6, <1>7, <1>8

-----------------------------------------------------------------------------
(* The Job and the reconcile of the DPUNode.                               *)
(* Only an ended Job is marked as deleted, whatever the cache still shows. *)
LEMMA JobStep ==
  ASSUME IInv, Next
  PROVE  JobInv'
<1> USE DEF JobInv, RunningJobKept
<1>1. CASE Read \/ HandleRebootSync \/ processExternalReboot \/ reconcileScriptJob
           \/ noneDPUInNodeEffectOrRebooting \/ Patch \/ FetchFails \/ UpdateFails \/ Crash
           \/ User \/ HostRestarts \/ AgentLists \/ AgentReboots \/ RebootFails
  <2>1. UNCHANGED <<job, doomed, seenJob>>
    BY <1>1, Zenon DEF Read, HandleRebootSync, processExternalReboot, reconcileScriptJob,
         noneDPUInNodeEffectOrRebooting, Patch, FetchFails, UpdateFails, Crash, User, HostRestarts,
         AgentLists, AgentReboots, RebootFails
  <2> QED
    BY Zenon, <2>1 DEF IInv
<1>2. CASE \E d \in DPUs : \/ CacheSync(d) \/ Provision(d) \/ Request(d) \/ ArmIsOff(d)
                          \/ CompleteRebooting(d) \/ Delete(d) \/ UpdateDPURebootStatus(d)
                          \/ PersistBootID(d) \/ RecordFailure(d) \/ Handle(d) \/ housekeeping(d)
  BY <1>2 DEF IInv, CacheSync, Provision, Request, ArmIsOff, CompleteRebooting, Delete,
       UpdateDPURebootStatus, PersistBootID, RecordFailure, Handle, housekeeping
<1>3. CASE DeleteStaleJob
  BY Zenon, <1>3 DEF IInv, DeleteStaleJob, isStale, isJobTerminal
<1>4. CASE handleJobNotFound
  BY Zenon, <1>4 DEF IInv, handleJobNotFound
<1>5. CASE JobSync
  BY Zenon, <1>5 DEF IInv, JobSync
<1>6. CASE RunJob
  BY Zenon, <1>6 DEF IInv, RunJob, Settled
<1>7. CASE JobGone
  BY Zenon, <1>7 DEF IInv, JobGone, Settled
<1> QED
  BY <1>1, <1>2, <1>3, <1>4, <1>5, <1>6, <1>7, Zenon DEF Next, Controller

(* Moving on keeps what the reconcile has read.                            *)
LEMMA GoEffect ==
  ASSUME node \in NodeReconcile, NEW pc, Go(pc)
  PROVE  /\ node'.pc = pc /\ node'.phases = node.phases /\ node'.ann = node.ann
         /\ node'.scope = node.scope
BY Zenon DEF Go, NodeReconcile

(* An update is for the DPUs that the second read finds in Rebooting.      *)
LEMMA UpdateEffect ==
  ASSUME node \in NodeReconcile, NEW status, NEW pc, NEW progress, Update(status, pc, progress)
  PROVE  /\ node'.pc = "write" /\ node'.phases = node.phases /\ node'.ann = node.ann
         /\ node'.scope = InScope /\ node'.todo = InScope /\ node'.status = status
BY Zenon DEF Update, NodeReconcile

(* Asking the user, or waiting for them, keeps what the reconcile has      *)
(* read.                                                                   *)
LEMMA AskEffect ==
  ASSUME node \in NodeReconcile,
         \/ node' = [node EXCEPT !.pc = "ready", !.inProgress = "true"]
         \/ node' = [node EXCEPT !.pc = "ready", !.ask = TRUE, !.inProgress = "true", !.scope = InScope]
  PROVE  node'.pc = "ready" /\ node'.phases = node.phases /\ node'.ann = node.ann
BY ZenonT(40) DEF NodeReconcile

(* A failed update ends the work, or is recorded once as refused.          *)
LEMMA UpdateFailsEffect ==
  ASSUME node \in NodeReconcile, UpdateFails
  PROVE  /\ node'.phases = node.phases /\ node'.ann = node.ann
         /\ \/ node'.pc = "patch"
            \/ /\ node'.pc = "write" /\ node'.status = Refused /\ node'.todo = node.scope
               /\ method = "external"
<1>1. CASE method = "external" /\ node.status # Refused
  BY Zenon, <1>1 DEF UpdateFails, NodeReconcile
<1>2. CASE ~(method = "external" /\ node.status # Refused)
  BY Zenon, <1>2 DEF UpdateFails, NodeReconcile
<1> QED
  BY Zenon, <1>1, <1>2

(* A reboot is due only when no DPU is being provisioned, and then every   *)
(* DPU that waits is in its scope.                                         *)
LEMMA DueScope ==
  ASSUME IInv, RebootDue
  PROVE  /\ "Provisioning" \notin node.phases
         /\ \A d \in DPUs : Waits(d) => d \in InScope
BY Zenon DEF IInv, NodeInv, RebootDue, DPUInv, Closed, Waits, InScope

(* DPUs in two different phases are two DPUs.                              *)
LEMMA SeveralPhases ==
  ASSUME TypeOK, {"Rebooting", "Provisioning"} \subseteq {seen[d].phase : d \in DPUs}
  PROVE  Cardinality(DPUs) > 1
<1>1. PICK a \in DPUs, b \in DPUs : a # b
  OBVIOUS
<1>2. Cardinality({a}) = 1 /\ IsFiniteSet({a}) /\ b \notin {a}
  BY Zenon, <1>1, FS_Singleton
<1>3. Cardinality({a} \cup {b}) = 2
  BY SMTT(30), <1>2, FS_AddElement
<1>4. {a} \cup {b} \subseteq DPUs
  OBVIOUS
<1> QED
  BY <1>3, <1>4, HostAssumption, FS_Subset, FS_CardinalityType

(* Every step keeps what is known of a reconcile.                          *)
LEMMA NodeStep ==
  ASSUME IInv, Next, TypeOK'
  PROVE  NodeInv'
<1> USE DEF NodeInv
<1>n. node \in NodeReconcile
  BY Zenon DEF IInv, TypeOK
<1>1. CASE Read
  BY Zenon, <1>1, SeveralPhases DEF IInv, Read, Idle
<1>2. CASE HandleRebootSync
  BY <1>2 DEF IInv, HandleRebootSync, Go, TypeOK, NodeReconcile
<1>3. CASE processExternalReboot
  <2>1. "Provisioning" \notin node.phases
    BY Zenon, <1>3, DueScope DEF processExternalReboot
  <2>2. method = "external" /\ method' = method /\ annotation' = annotation /\ node.pc = "sync"
    BY Zenon, <1>3 DEF processExternalReboot, RebootDue
  <2>3. CASE Update(Succeeded, "ready", "false")
    BY <1>n, <2>1, <2>2, <2>3, UpdateEffect DEF IInv, Succeeded, Manual, Status
  <2>4. CASE Update(Manual, "ready", "true") /\ node.ann
    BY Zenon, <1>n, <2>1, <2>2, <2>4, UpdateEffect DEF IInv
  <2>5. CASE \/ node' = [node EXCEPT !.pc = "ready", !.inProgress = "true"]
             \/ node' = [node EXCEPT !.pc = "ready", !.ask = TRUE, !.inProgress = "true", !.scope = InScope]
    BY Zenon, <1>n, <2>2, <2>5, AskEffect DEF IInv
  <2> QED
    BY <1>3, <2>3, <2>4, <2>5, Zenon DEF processExternalReboot
<1>4. CASE reconcileScriptJob \/ DeleteStaleJob \/ handleJobNotFound \/ FetchFails
  <2>1. "Provisioning" \notin node.phases
    BY Zenon, <1>4, DueScope DEF reconcileScriptJob, DeleteStaleJob, handleJobNotFound, FetchFails, ScriptDue
  <2>2. method = "script" /\ method' = method /\ annotation' = annotation /\ node.pc = "sync"
    BY Zenon, <1>4 DEF reconcileScriptJob, DeleteStaleJob, handleJobNotFound, FetchFails, ScriptDue, RebootDue
  <2>3. CASE Go("ready") \/ Go("patch")
    BY <1>n, <2>2, <2>3, GoEffect DEF IInv
  <2>4. ASSUME NEW status \in {Waiting, Failed, Succeeded}, NEW pc, NEW progress,
               Update(status, pc, progress)
        PROVE  NodeInv'
    BY <1>n, <2>1, <2>2, <2>4, UpdateEffect DEF IInv, Succeeded, Waiting, Failed, Manual, Status
  <2> QED
    BY <1>4, <2>3, <2>4, Zenon DEF reconcileScriptJob, DeleteStaleJob, handleJobNotFound, FetchFails
<1>8. CASE UpdateFails
  BY <1>n, <1>8, UpdateFailsEffect DEF IInv, UpdateFails, Refused, Manual, Status
<1>9. CASE noneDPUInNodeEffectOrRebooting
  BY ZenonT(40), <1>9 DEF IInv, noneDPUInNodeEffectOrRebooting, Go, TypeOK, NodeReconcile
<1>10. CASE Patch \/ Crash
  <2>1. node' = Idle
    BY <1>10, Zenon DEF Patch, Crash
  <2> QED
    BY Zenon, <2>1 DEF Idle
<1>11. CASE \E d \in DPUs : UpdateDPURebootStatus(d)
  BY <1>11 DEF IInv, UpdateDPURebootStatus, TypeOK, NodeReconcile
<1>12. CASE User
  BY Zenon, <1>12 DEF IInv, User
<1>13. CASE JobSync \/ RunJob \/ JobGone \/ HostRestarts \/ AgentLists \/ AgentReboots \/ RebootFails
  BY <1>13 DEF IInv, JobSync, RunJob, JobGone, HostRestarts, AgentLists, AgentReboots, RebootFails, ctlVars
<1>14. CASE \E d \in DPUs : \/ CacheSync(d) \/ Provision(d) \/ Request(d) \/ ArmIsOff(d)
                           \/ CompleteRebooting(d) \/ Delete(d)
                           \/ PersistBootID(d) \/ RecordFailure(d) \/ Handle(d) \/ housekeeping(d)
  BY <1>14 DEF IInv, CacheSync, Provision, Request, ArmIsOff, CompleteRebooting, Delete,
       PersistBootID, RecordFailure, Handle, housekeeping, ctlVars
<1> QED
  BY <1>1, <1>2, <1>3, <1>4, <1>8, <1>9, <1>10, <1>11, <1>12, <1>13, <1>14, Zenon
     DEF Next, Controller

-----------------------------------------------------------------------------
(* The DPUs.                                                               *)
(* A patch computed from a copy that is up to date writes what it says.    *)
LEMMA ExactPatch ==
  ASSUME TypeOK, NEW d \in DPUs, seen[d] = dpu[d], NEW rs \in Statuses
  PROVE  Patched(d, rs) = rs
BY Zenon DEF TypeOK, Patched, Statuses

(* A step that leaves the DPUs and the reboots alone keeps the invariant   *)
(* of a DPU when what it adds to the API or to the reconcile is justified. *)
LEMMA NodeFrame ==
  ASSUME IInv, NEW d \in DPUs, Waits(d), UNCHANGED <<method, dpu, seen, file, rebooted>>,
         Over' => Over,
         Served(d) => Served(d)',
         Closed' => Closed,
         node'.pc = "write" /\ node'.status = Succeeded /\ d \in node'.todo => Served(d)',
         method = "external" /\ ~Asked' =>
           /\ annotation' => Served(d)'
           /\ Closed' /\ node'.ann => Served(d)'
           /\ ~Asked \/ Served(d)',
         method = "script" /\ Over' /\ Pending("script")' => Served(d)'
  PROVE  DPUInv(d)'
<1>1. DPUInv(d)
  BY Zenon DEF IInv
<1>2. seen'[d].phase \in {"Provisioning", "Rebooting"} /\ (Closed' => seen'[d].phase = "Rebooting")
  BY Zenon, <1>1 DEF DPUInv
<1>3. ServedInv(d)'
  BY Zenon, <1>1 DEF DPUInv, ServedInv, Told
<1>4. ExternalInv(d)'
  BY Zenon, <1>1 DEF DPUInv, ExternalInv, Marks
<1>5. ScriptInv(d)'
  BY Zenon, <1>1 DEF DPUInv, ScriptInv, Scripted
<1> QED
  BY Zenon, <1>2, <1>3, <1>4, <1>5 DEF DPUInv

(* That is so when a reconcile only moves on.                              *)
LEMMA GoFrame ==
  ASSUME IInv, NEW d \in DPUs, Waits(d), UNCHANGED <<method, dpu, seen, file, rebooted, annotation, answered>>,
         Over' => Over, excused \subseteq excused', node.pc # "idle",
         node'.phases = node.phases, node'.ann = node.ann, node'.pc # "write"
  PROVE  DPUInv(d)'
<1>1. DPUInv(d)
  BY Zenon DEF IInv
<1>2. (Served(d) => Served(d)') /\ (Closed' => Closed) /\ (Asked' <=> Asked)
  BY Zenon DEF Served, Closed, Asked
<1>3. ~Pending("script")'
  BY Zenon DEF Pending
<1>4. method = "external" /\ ~Asked' =>
           /\ annotation' => Served(d)'
           /\ Closed' /\ node'.ann => Served(d)'
           /\ ~Asked \/ Served(d)'
  BY Zenon, <1>1, <1>2 DEF DPUInv, ExternalInv
<1> QED
  BY Zenon, <1>2, <1>3, <1>4, NodeFrame

(* It is so when an update is started for DPUs that have been served, or   *)
(* with a status that claims nothing.                                      *)
LEMMA UpdateFrame ==
  ASSUME IInv, NEW d \in DPUs, Waits(d), UNCHANGED <<method, dpu, seen, file, rebooted, annotation, answered>>,
         Over' => Over, excused \subseteq excused', node.pc = "sync",
         NEW status, NEW pc, NEW progress, Update(status, pc, progress),
         status = Succeeded => Served(d)',
         method = "script" /\ Over' /\ status.reason = "script" => Served(d)'
  PROVE  DPUInv(d)'
<1>1. DPUInv(d) /\ node \in NodeReconcile
  BY Zenon DEF IInv, TypeOK
<1>2. /\ node'.pc = "write" /\ node'.phases = node.phases /\ node'.ann = node.ann
      /\ node'.status = status
  BY Zenon, <1>1, UpdateEffect
<1>3. (Served(d) => Served(d)') /\ (Closed' => Closed) /\ (Asked' <=> Asked)
  BY Zenon, <1>2 DEF Served, Closed, Asked
<1>4. method = "script" /\ Over' /\ Pending("script")' => Served(d)'
  BY Zenon, <1>2 DEF Pending
<1>5. method = "external" /\ ~Asked' =>
           /\ annotation' => Served(d)'
           /\ Closed' /\ node'.ann => Served(d)'
           /\ ~Asked \/ Served(d)'
  BY Zenon, <1>1, <1>2, <1>3 DEF DPUInv, ExternalInv
<1> QED
  BY Zenon, <1>2, <1>3, <1>4, <1>5, NodeFrame

(* Every step of a reconcile but the writes themselves keeps the invariant *)
(* of a DPU that waits.                                                    *)
LEMMA ReconcileServed ==
  ASSUME IInv, NEW d \in DPUs, Waits(d),
         \/ Read \/ HandleRebootSync \/ processExternalReboot \/ reconcileScriptJob \/ DeleteStaleJob
         \/ handleJobNotFound \/ FetchFails \/ UpdateFails \/ noneDPUInNodeEffectOrRebooting
         \/ Patch \/ Crash
  PROVE  DPUInv(d)'
<1>d. DPUInv(d) /\ node \in NodeReconcile
  BY Zenon DEF IInv, TypeOK
<1>1. CASE Read
  <2>1. /\ UNCHANGED <<method, dpu, seen, job, seenJob, file, rebooted, excused, annotation, answered>>
        /\ node'.pc = "sync" /\ node'.ann = annotation /\ node'.phases = {seen[e].phase : e \in DPUs}
    BY Zenon, <1>1 DEF Read, Idle, envVars
  <2>2. Closed' => seen[d].phase = "Rebooting"
    BY Zenon, <1>d, <2>1 DEF Closed, DPUInv
  <2>3. ServedInv(d)'
    BY Zenon, <1>d, <2>1 DEF DPUInv, ServedInv, Told, Served
  <2>4. ExternalInv(d)'
    BY Zenon, <1>d, <2>1 DEF DPUInv, ExternalInv, Marks, Served, Asked
  <2>5. ScriptInv(d)'
    BY Zenon, <1>d, <2>1 DEF DPUInv, ScriptInv, Scripted, Served, Over, Pending
  <2> QED
    BY Zenon, <1>d, <2>1, <2>2, <2>3, <2>4, <2>5 DEF DPUInv
<1>2. CASE HandleRebootSync
  BY <1>d, <1>2, GoFrame, GoEffect DEF HandleRebootSync, Over, envVars
<1>3. CASE processExternalReboot
  <2>1. /\ UNCHANGED <<method, dpu, seen, job, seenJob, file, rebooted, excused, annotation, answered>>
        /\ method = "external" /\ RebootDue /\ node.pc = "sync"
    BY Zenon, <1>3 DEF processExternalReboot, RebootDue, envVars
  <2>2. (Served(d) => Served(d)') /\ (Over' => Over)
    BY Zenon, <2>1 DEF Served, Over
  <2>3. CASE Update(Succeeded, "ready", "false") /\ ~node.ann
             /\ \A e \in InScope : seen[e].rs.phase = "Succeeded" \/ seen[e].rs = Manual
    <3>1. d \in InScope /\ seen[d].phase = "Rebooting"
      BY Zenon, <2>1, DueScope DEF InScope
    <3>2. ~Asked
      BY Zenon, <2>1, <2>3 DEF IInv, NodeInv, Asked
    <3>3. Told(seen[d]) \/ Marks(seen[d])
      BY Zenon, <2>3, <3>1 DEF Told, Marks
    <3>4. Served(d)
      BY Zenon, <1>d, <2>1, <3>2, <3>3 DEF DPUInv, ServedInv, ExternalInv
    <3> QED
      BY Zenon, <2>1, <2>2, <2>3, <3>4, UpdateFrame
  <2>4. CASE Update(Manual, "ready", "true")
    BY Zenon, <2>1, <2>2, <2>4, UpdateFrame DEF Manual, Succeeded, Status
  <2>5. CASE \/ node' = [node EXCEPT !.pc = "ready", !.inProgress = "true"]
             \/ node' = [node EXCEPT !.pc = "ready", !.ask = TRUE, !.inProgress = "true", !.scope = InScope]
    BY Zenon, <1>d, <2>1, <2>2, <2>5, AskEffect, GoFrame
  <2> QED
    BY <1>3, <2>3, <2>4, <2>5, Zenon DEF processExternalReboot
<1>4. CASE reconcileScriptJob
  <2>1. /\ UNCHANGED <<method, dpu, seen, job, seenJob, file, rebooted, excused, annotation, answered>>
        /\ method = "script" /\ RebootDue /\ node.pc = "sync"
    BY Zenon, <1>4 DEF reconcileScriptJob, RebootDue, ScriptDue, envVars
  <2>2. (Served(d) => Served(d)') /\ (Over' => Over)
    BY Zenon, <2>1 DEF Served, Over
  <2>3. CASE Go("ready") \/ Go("patch")
    BY SMTT(30), <1>d, <2>1, <2>2, <2>3, GoEffect, GoFrame
  <2>4. ASSUME ~isStale, isJobTerminal, Over
        PROVE  Served(d)
    BY Zenon, <1>d, <2>1, <2>4 DEF isStale, lifecycleActive, InScope, DPUInv, ScriptInv, Scripted
  <2>5. CASE ~isStale /\ seenJob = "complete" /\ Update(Succeeded, "ready", "false")
    BY Zenon, <2>1, <2>2, <2>4, <2>5, UpdateFrame DEF isJobTerminal, Over
  <2>6. CASE ~isStale /\ seenJob = "failed" /\ Update(Failed, "ready", "false")
    BY Zenon, <2>1, <2>2, <2>4, <2>6, UpdateFrame DEF isJobTerminal, Failed, Succeeded, Status
  <2> QED
    BY Zenon, <1>4, <2>3, <2>5, <2>6 DEF reconcileScriptJob
<1>5. CASE DeleteStaleJob
  BY <1>d, <1>5, GoFrame, GoEffect DEF DeleteStaleJob, ScriptDue, RebootDue, Over, envVars
<1>6. CASE handleJobNotFound
  <2>1. /\ UNCHANGED <<method, dpu, seen, seenJob, file, rebooted, excused, annotation, answered>>
        /\ node.pc = "sync" /\ seenJob = "none"
    BY Zenon, <1>6 DEF handleJobNotFound, RebootDue, ScriptDue, envVars
  <2>2. CASE job' = "active" /\ Update(Waiting, "patch", "true")
    BY Zenon, <2>1, <2>2, UpdateFrame DEF Over, Waiting, Succeeded, Status
  <2>3. CASE job' = job /\ Go("patch")
    BY <1>d, <2>1, <2>3, GoFrame, GoEffect DEF Over
  <2> QED
    BY Zenon, <1>6, <2>2, <2>3 DEF handleJobNotFound
<1>7. CASE FetchFails
  <2>1. /\ UNCHANGED <<method, dpu, seen, job, seenJob, file, rebooted, annotation, answered>>
        /\ node.pc = "sync" /\ RebootDue
        /\ excused' = IF {job, seenJob} \cap {"rebooted", "complete"} # {} THEN excused \cup InScope ELSE excused
    BY Zenon, <1>7 DEF FetchFails, RebootDue, ScriptDue
  <2>2. Over' => Over
    BY Zenon, <2>1 DEF Over
  <2>3. Over => Served(d)'
    BY Zenon, <2>1, DueScope DEF Over, Served
  <2>4. excused \subseteq excused'
    BY Zenon, <2>1
  <2>5. Update(Failed, "patch", node.inProgress)
    BY Zenon, <1>7 DEF FetchFails
  <2> QED
    BY Zenon, <2>1, <2>2, <2>3, <2>4, <2>5, UpdateFrame DEF Failed, Succeeded, Status
<1>8. CASE UpdateFails
  <2>1. /\ UNCHANGED <<method, dpu, seen, job, seenJob, file, rebooted, excused, annotation, answered>>
        /\ node.pc = "write"
    BY Zenon, <1>8 DEF UpdateFails
  <2>2. (Served(d) => Served(d)') /\ (Over' => Over) /\ (Asked' <=> Asked)
    BY Zenon, <2>1 DEF Served, Over, Asked
  <2>3. CASE node'.pc = "patch"
    BY Zenon, <1>d, <1>8, <2>1, <2>2, <2>3, UpdateFailsEffect, GoFrame
  <2>4. CASE node'.pc = "write" /\ node'.status = Refused /\ method = "external"
    <3>1. (Closed' => Closed) /\ node'.ann = node.ann
      BY Zenon, <1>d, <1>8, <2>1, <2>4, UpdateFailsEffect DEF Closed
    <3>2. method = "external" /\ ~Asked' =>
             /\ annotation' => Served(d)'
             /\ Closed' /\ node'.ann => Served(d)'
             /\ ~Asked \/ Served(d)'
      BY Zenon, <1>d, <2>1, <2>2, <3>1 DEF DPUInv, ExternalInv
    <3> QED
      BY <2>1, <2>2, <2>4, <3>1, <3>2, NodeFrame DEF Refused, Succeeded, Status
  <2> QED
    BY Zenon, <1>d, <1>8, <2>3, <2>4, UpdateFailsEffect
<1>9. CASE noneDPUInNodeEffectOrRebooting
  <2>1. /\ UNCHANGED <<method, dpu, seen, job, seenJob, file, rebooted, excused, annotation, answered>>
        /\ node.pc = "ready"
    BY Zenon, <1>9 DEF noneDPUInNodeEffectOrRebooting
  <2>2. node'.pc = "patch" /\ node'.phases = node.phases /\ node'.ann = node.ann
    BY Zenon, <1>d, <1>9 DEF noneDPUInNodeEffectOrRebooting, Go, NodeReconcile
  <2> QED
    BY Zenon, <2>1, <2>2, GoFrame DEF Over
<1>10. CASE Patch \/ Crash
  <2>1. /\ UNCHANGED <<method, dpu, seen, job, seenJob, file, rebooted, excused>>
        /\ node' = Idle
    BY <1>10, Zenon DEF Patch, Crash
  <2>2. (Served(d) => Served(d)') /\ (Over' => Over) /\ ~Closed'
    BY Zenon, <2>1 DEF Served, Over, Closed, Idle
  <2>3. ~Asked' => ~Asked /\ annotation' = annotation
    <3>1. annotation \in BOOLEAN /\ node.ask \in BOOLEAN
      BY Zenon, <1>d DEF IInv, TypeOK, NodeReconcile
    <3>2. CASE Crash
      BY <3>2, Zenon DEF Crash, Asked
    <3>3. CASE Patch /\ node.ask
      BY <3>3, Zenon DEF Patch, Asked
    <3>4. CASE Patch /\ ~node.ask
      BY <3>1, <3>4, ZenonT(40) DEF Patch, Asked
    <3> QED
      BY Zenon, <1>10, <3>2, <3>3, <3>4
  <2>4. method = "external" /\ ~Asked' => /\ annotation' => Served(d)'
                                          /\ ~Asked
    BY Zenon, <1>d, <2>2, <2>3 DEF DPUInv, ExternalInv
  <2> QED
    BY Zenon, <2>1, <2>2, <2>4, NodeFrame DEF Pending, Idle
<1> QED
  BY <1>1, <1>2, <1>3, <1>4, <1>5, <1>6, <1>7, <1>8, <1>9, <1>10, Zenon

(* So does the write of one DPU's status, merged into what is there.       *)
LEMMA WriteServed ==
  ASSUME IInv, NEW d \in DPUs, Waits(d), NEW e \in DPUs, UpdateDPURebootStatus(e)
  PROVE  DPUInv(d)'
<1>d. DPUInv(d) /\ DPUInv(e) /\ node \in NodeReconcile
  BY Zenon DEF IInv, TypeOK
<1>1. /\ UNCHANGED <<method, seen, job, seenJob, file, rebooted, excused, annotation, answered>>
      /\ node.pc = "write" /\ e \in node.todo
  BY Zenon DEF UpdateDPURebootStatus, envVars
<1>2. /\ node'.phases = node.phases /\ node'.ann = node.ann /\ node'.status = node.status
      /\ node'.todo \subseteq node.todo
  BY Zenon, <1>d DEF UpdateDPURebootStatus, NodeReconcile
<1>3. /\ dpu'[e].phase = dpu[e].phase
      /\ dpu'[e].rs.phase \in {dpu[e].rs.phase, node.status.phase}
      /\ dpu'[e].rs.reason \in {dpu[e].rs.reason, node.status.reason}
      /\ \A f \in DPUs \ {e} : dpu'[f] = dpu[f]
  BY DEF UpdateDPURebootStatus, Patched, IInv, TypeOK
<1>4. (Served(d)' <=> Served(d)) /\ (Over' <=> Over) /\ (Asked' <=> Asked) /\ (Closed' => Closed)
  BY Zenon, <1>1, <1>2 DEF Served, Over, Asked, Closed
<1>5. /\ "Provisioning" \notin node.phases /\ Closed
      /\ \/ method = "script" /\ node.status \in {Waiting, Failed, Succeeded}
         \/ method = "external" /\ node.status \in {Manual, Succeeded, Refused} /\ (node.status = Manual => node.ann)
  BY Zenon, <1>1 DEF IInv, NodeInv, Closed
<1>6. ServedInv(d)'
  <2>1. Told(dpu'[d]) => Told(dpu[d]) \/ (d = e /\ node.status = Succeeded)
    BY <1>3, <1>5 DEF Told, Succeeded, Waiting, Failed, Manual, Refused, Status
  <2> QED
    BY Zenon, <1>d, <1>1, <1>2, <1>4, <2>1 DEF DPUInv, ServedInv, Told
<1>7. ExternalInv(d)'
  <2>1. ASSUME method = "external", Marks(dpu'[d])
        PROVE  Marks(dpu[d]) \/ node.ann
    <3>1. CASE d # e
      BY Zenon, <1>3, <2>1, <3>1 DEF Marks
    <3>2. CASE node.status = Manual
      BY Zenon, <1>5, <2>1, <3>2
    <3>3. CASE d = e /\ node.status \in {Succeeded, Refused}
      <4>1. /\ dpu[d].rs.phase = "Pending" /\ dpu[d].rs.reason = "manual"
            /\ dpu[d].phase = "Rebooting" /\ dpu[d].rs \in Statuses
        BY <1>3, <2>1, <3>3 DEF Marks, Succeeded, Refused, Manual, Status, IInv, TypeOK
      <4>2. dpu[d].rs = Manual
        BY Zenon, <4>1 DEF Statuses, Manual, Status
      <4> QED
        BY Zenon, <4>1, <4>2 DEF Marks
    <3> QED
      BY Zenon, <1>5, <2>1, <3>1, <3>2, <3>3
  <2>2. Marks(seen[d])' <=> Marks(seen[d])
    BY Zenon, <1>1 DEF Marks
  <2> QED
    BY Zenon, <1>d, <1>1, <1>2, <1>4, <1>5, <2>1, <2>2 DEF DPUInv, ExternalInv
<1>8. ScriptInv(d)'
  <2>1. ASSUME method = "script", NEW f \in DPUs, Scripted(dpu'[f])
        PROVE  Scripted(dpu[f]) \/ Pending("script")
    BY <1>1, <1>3, <1>5, <2>1 DEF Scripted, scriptRebootLifecycleActive, Pending, Succeeded, Waiting,
         Failed, Manual, Refused, Status
  <2>2. Pending("script")' => Pending("script")
    BY Zenon, <1>1, <1>2 DEF Pending
  <2> QED
    BY Zenon, <1>d, <1>1, <1>4, <2>1, <2>2 DEF DPUInv, ScriptInv, Scripted
<1> QED
  BY Zenon, <1>d, <1>1, <1>4, <1>6, <1>7, <1>8 DEF DPUInv

(* A step that changes one DPU keeps the invariant when the new status     *)
(* claims no reboot that has not happened.                                 *)
LEMMA MoveFrame ==
  ASSUME IInv, NEW d \in DPUs, Waits(d), NEW e \in DPUs, NEW x,
         UNCHANGED <<method, seen, job, seenJob, node, annotation, answered>>,
         rebooted'[d] = rebooted[d], d \in excused' <=> d \in excused,
         file'[d] = "rebooted" => file[d] = "rebooted",
         dpu' = [dpu EXCEPT ![e] = x], ~Scripted(x), ~Marks(x),
         e = d /\ Told(x) => Served(d)
  PROVE  DPUInv(d)'
<1>1. DPUInv(d)
  BY Zenon DEF IInv
<1>2. (Served(d)' <=> Served(d)) /\ (Over' <=> Over) /\ (Asked' <=> Asked) /\ (Closed' <=> Closed)
  BY Zenon DEF Served, Over, Asked, Closed
<1>3. dpu'[e] = x /\ \A f \in DPUs \ {e} : dpu'[f] = dpu[f]
  BY Zenon DEF IInv, TypeOK
<1>4. ServedInv(d)'
  BY Zenon, <1>1, <1>2, <1>3 DEF DPUInv, ServedInv, Told
<1>5. ExternalInv(d)'
  <2>1. (Marks(dpu[d])' => Marks(dpu[d])) /\ (Marks(seen[d])' <=> Marks(seen[d]))
    BY Zenon, <1>3 DEF Marks
  <2> QED
    BY Zenon, <1>1, <1>2, <2>1 DEF DPUInv, ExternalInv
<1>6. ScriptInv(d)'
  <2>1. \A f \in DPUs : (Scripted(dpu[f])' => Scripted(dpu[f])) /\ (Scripted(seen[f])' <=> Scripted(seen[f]))
    BY ZenonT(40), <1>3 DEF Scripted
  <2> QED
    BY Zenon, <1>1, <1>2, <2>1 DEF DPUInv, ScriptInv, Pending
<1> QED
  BY Zenon, <1>1, <1>2, <1>4, <1>5, <1>6 DEF DPUInv

(* A DPU that begins to wait finds nothing in the API that a reboot could  *)
(* be inferred from, or is excused.                                        *)
LEMMA RequestServed ==
  ASSUME IInv, NEW d \in DPUs, Request(d)
  PROVE  DPUInv(d)'
<1>1. /\ UNCHANGED <<method, seen, job, seenJob, node, annotation, answered>>
      /\ seen[d] = dpu[d] /\ dpu[d].phase = "Provisioning"
      /\ node.pc = "idle" \/ "Provisioning" \in node.phases
  BY Zenon DEF Request, ctlVars
<1>2. /\ dpu'[d].phase = "Rebooting" /\ dpu'[d].rs \in {Requested, Shutdown}
      /\ \A f \in DPUs \ {d} : dpu'[f] = dpu[f]
  <2>1. \A rs \in {Requested, Shutdown} : Patched(d, rs) = rs
    BY Zenon, <1>1, ExactPatch, StatusTypes DEF IInv
  <2> QED
    BY <2>1 DEF Request, Move, IInv, TypeOK
<1>3. file'[d] # "rebooted"
  BY Zenon DEF Request, IInv, TypeOK
<1>4. ~Closed' /\ node'.pc # "write"
  BY Zenon, <1>1 DEF Closed, IInv, NodeInv
<1>5. ~Told(dpu'[d]) /\ ~Marks(dpu'[d]) /\ ~Scripted(dpu'[d])
  BY <1>2 DEF Told, Marks, Scripted, scriptRebootLifecycleActive, Requested, Shutdown, Manual, Status
<1>6. ~Told(seen'[d]) /\ ~Marks(seen'[d]) /\ ~Scripted(seen'[d])
  BY Zenon, <1>1 DEF Told, Marks, Scripted
<1>7. annotation /\ answered => d \in excused'
  BY Zenon DEF Request
<1>8. ASSUME Over, NEW e \in DPUs, Scripted(dpu'[e]) \/ Scripted(seen'[e])
      PROVE  d \in excused'
  <2>1. e \in DPUs \ {d} /\ (Scripted(dpu[e]) \/ Scripted(seen[e]))
    BY Zenon, <1>1, <1>2, <1>5, <1>6, <1>8
  <2>2. {job, seenJob} \cap {"rebooted", "complete"} # {}
    BY Zenon, <1>8 DEF Over
  <2>3. \E x \in {dpu[e], seen[e]} : x.phase = "Rebooting" /\ scriptRebootLifecycleActive(x.rs)
    BY Zenon, <2>1 DEF Scripted
  <2> QED
    BY Zenon, <2>1, <2>2, <2>3 DEF Request
<1>9. ServedInv(d)'
  BY Zenon, <1>3, <1>4, <1>5, <1>6 DEF ServedInv, Told
<1>10. ExternalInv(d)'
  <2>1. ~Marks(dpu[d])' /\ ~Marks(seen[d])'
    BY Zenon, <1>5, <1>6 DEF Marks
  <2> QED
    BY Zenon, <1>1, <1>4, <1>7, <2>1 DEF ExternalInv, Asked, Served
<1>11. ScriptInv(d)'
  <2>1. \A e \in DPUs : (Scripted(dpu[e])' <=> Scripted(dpu'[e])) /\ (Scripted(seen[e])' <=> Scripted(seen'[e]))
    BY Zenon DEF Scripted
  <2>2. Over' <=> Over
    BY Zenon, <1>1 DEF Over
  <2> QED
    BY Zenon, <1>4, <1>8, <2>1, <2>2 DEF ScriptInv, Pending, Served
<1> QED
  BY Zenon, <1>1, <1>4, <1>9, <1>10, <1>11 DEF DPUInv

(* Every step for one DPU keeps the invariant of each DPU that waits.      *)
LEMMA DPUServed ==
  ASSUME IInv, NEW d \in DPUs, Waits(d)', NEW e \in DPUs,
         \/ CacheSync(e) \/ Provision(e) \/ Request(e) \/ ArmIsOff(e) \/ CompleteRebooting(e)
         \/ Delete(e) \/ PersistBootID(e) \/ RecordFailure(e) \/ Handle(e) \/ housekeeping(e)
  PROVE  DPUInv(d)'
<1>d. DPUInv(d) /\ DPUInv(e)
  BY Zenon DEF IInv
<1>1. CASE CacheSync(e)
  <2>1. /\ UNCHANGED <<method, dpu, job, seenJob, node, annotation, answered, file, rebooted, excused>>
        /\ seen'[e] = dpu[e] /\ \A f \in DPUs \ {e} : seen'[f] = seen[f]
    BY Zenon, <1>1 DEF CacheSync, ctlVars, envVars, IInv, TypeOK
  <2>2. /\ Waits(d)
        /\ (Served(d)' <=> Served(d)) /\ (Over' <=> Over) /\ (Asked' <=> Asked) /\ (Closed' <=> Closed)
    BY Zenon, <2>1 DEF Waits, Served, Over, Asked, Closed
  <2>3. seen'[d].phase \in {"Provisioning", "Rebooting"} /\ (Closed' => seen'[d].phase = "Rebooting")
    BY Zenon, <1>d, <2>1, <2>2 DEF DPUInv, Waits
  <2>4. ServedInv(d)'
    BY Zenon, <1>d, <2>1, <2>2 DEF DPUInv, ServedInv, Told
  <2>5. ExternalInv(d)'
    <3>1. (Marks(dpu[d])' <=> Marks(dpu[d])) /\ (Marks(seen[d])' => Marks(seen[d]) \/ Marks(dpu[d]))
      BY Zenon, <2>1 DEF Marks
    <3> QED
      BY Zenon, <1>d, <2>1, <2>2, <3>1 DEF DPUInv, ExternalInv
  <2>6. ScriptInv(d)'
    <3>1. \A f \in DPUs : /\ Scripted(dpu[f])' <=> Scripted(dpu[f])
                          /\ Scripted(seen[f])' => Scripted(seen[f]) \/ Scripted(dpu[f])
      BY Zenon, <2>1 DEF Scripted
    <3> QED
      BY Zenon, <1>d, <2>1, <2>2, <3>1 DEF DPUInv, ScriptInv, Pending
  <2> QED
    BY Zenon, <2>3, <2>4, <2>5, <2>6 DEF DPUInv
<1>2. CASE Provision(e) \/ CompleteRebooting(e) \/ Delete(e)
  <2>1. PICK x : dpu' = [dpu EXCEPT ![e] = x] /\ x.phase # "Rebooting"
    <3>0. PICK phase \in {"Idle", "Provisioning"} : \E rs : Move(e, phase, rs)
      BY <1>2, Zenon DEF Provision, CompleteRebooting, Delete, Enter, Leave
    <3>1. PICK rs : Move(e, phase, rs)
      BY Zenon, <3>0
    <3> DEFINE y == [phase |-> phase, rs |-> rs]
    <3>2. dpu' = [dpu EXCEPT ![e] = y]
      BY <3>1, Zenon DEF Move
    <3>3. y.phase # "Rebooting"
      OBVIOUS
    <3> HIDE DEF y
    <3> QED
      BY Zenon, <3>2, <3>3
  <2>2. e # d /\ Waits(d)
    BY Zenon, <2>1 DEF Waits, IInv, TypeOK
  <2>3. ~Scripted(x) /\ ~Marks(x)
    BY Zenon, <2>1 DEF Scripted, Marks
  <2>4. /\ UNCHANGED <<method, seen, job, seenJob, node, annotation, answered, rebooted, excused>>
        /\ file'[d] = file[d]
    BY Zenon, <1>2, <2>2 DEF Provision, CompleteRebooting, Delete, ctlVars, IInv, TypeOK
  <2> QED
    BY Zenon, <2>1, <2>2, <2>3, <2>4, MoveFrame
<1>3. CASE Request(e)
  <2>1. CASE e = d
    BY Zenon, <1>3, <2>1, RequestServed
  <2>2. CASE e # d
    <3>1. \A rs \in {Requested, Shutdown} : Patched(e, rs) = rs
      BY Zenon, <1>3, ExactPatch, StatusTypes DEF IInv, Request
    <3>2. PICK rs \in {Requested, Shutdown} : dpu' = [dpu EXCEPT ![e] = [phase |-> "Rebooting", rs |-> rs]]
      BY Zenon, <1>3, <3>1 DEF Request, Move
    <3>3. ~Scripted([phase |-> "Rebooting", rs |-> rs]) /\ ~Marks([phase |-> "Rebooting", rs |-> rs])
      BY DEF Scripted, Marks, scriptRebootLifecycleActive, Requested, Shutdown, Manual, Status
    <3>4. /\ UNCHANGED <<method, seen, job, seenJob, node, annotation, answered>>
          /\ file'[d] = file[d] /\ rebooted'[d] = rebooted[d] /\ (d \in excused' <=> d \in excused)
      BY Zenon, <1>3, <2>2 DEF Request, ctlVars, IInv, TypeOK
    <3>5. Waits(d)
      BY Zenon, <2>2, <3>2 DEF Waits, IInv, TypeOK
    <3> QED
      BY ZenonT(40), <2>2, <3>2, <3>3, <3>4, <3>5, MoveFrame
  <2> QED
    BY Zenon, <2>1, <2>2
<1>4. CASE ArmIsOff(e)
  <2>1. Patched(e, Requested) = Requested
    BY Zenon, <1>4, ExactPatch, StatusTypes DEF IInv, ArmIsOff
  <2>2. dpu' = [dpu EXCEPT ![e] = [phase |-> "Rebooting", rs |-> Requested]]
    BY Zenon, <1>4, <2>1 DEF ArmIsOff, Move
  <2>3. /\ ~Scripted([phase |-> "Rebooting", rs |-> Requested])
        /\ ~Marks([phase |-> "Rebooting", rs |-> Requested])
        /\ ~Told([phase |-> "Rebooting", rs |-> Requested])
    BY Zenon DEF Scripted, Marks, Told, scriptRebootLifecycleActive, Requested, Manual, Status
  <2>4. UNCHANGED <<method, seen, job, seenJob, node, annotation, answered, rebooted, excused, file>>
    BY Zenon, <1>4 DEF ArmIsOff, ctlVars, envVars
  <2>5. Waits(d)
    BY ZenonT(40), <1>4, <2>2 DEF ArmIsOff, Waits, IInv, TypeOK
  <2> QED
    BY Zenon, <2>2, <2>3, <2>4, <2>5, MoveFrame
<1>5. CASE PersistBootID(e) \/ housekeeping(e)
  <2>1. /\ UNCHANGED <<method, dpu, seen, job, seenJob, node, annotation, answered, rebooted, excused>>
        /\ file'[d] = "rebooted" => file[d] = "rebooted"
    BY Zenon, <1>5 DEF PersistBootID, housekeeping, ctlVars, envVars, IInv, TypeOK
  <2>2. Waits(d) /\ (Over' <=> Over) /\ (Served(d)' <=> Served(d)) /\ (Asked' <=> Asked) /\ (Closed' <=> Closed)
    BY Zenon, <2>1 DEF Waits, Served, Over, Asked, Closed
  <2>3. ServedInv(d)'
    BY ZenonT(40), <1>d, <2>1, <2>2 DEF DPUInv, ServedInv, Told
  <2>4. ExternalInv(d)'
    BY ZenonT(40), <1>d, <2>1, <2>2 DEF DPUInv, ExternalInv, Marks
  <2>5. ScriptInv(d)'
    BY Zenon, <1>d, <2>1, <2>2 DEF DPUInv, ScriptInv, Scripted, Pending
  <2> QED
    BY Zenon, <1>d, <2>1, <2>2, <2>3, <2>4, <2>5 DEF DPUInv
<1>6. CASE RecordFailure(e) \/ Handle(e)
  <2>1. PICK rs \in Statuses : /\ dpu' = [dpu EXCEPT ![e].rs = rs]
                               /\ dpu[e].phase # "Rebooting" \/ rs = Refused \/ (rs = Succeeded /\ Handle(e))
    <3>1. CASE RecordFailure(e)
      <4> DEFINE recorded == IF dpu[e].phase = "Rebooting" THEN Refused ELSE dpu[e].rs
      <4>1. dpu' = [dpu EXCEPT ![e].rs = recorded]
        BY <3>1, Zenon DEF RecordFailure
      <4>2. recorded \in Statuses /\ (dpu[e].phase # "Rebooting" \/ recorded = Refused)
        BY Zenon, StatusTypes DEF IInv, TypeOK
      <4> HIDE DEF recorded
      <4> QED
        BY <4>1, <4>2, Zenon
    <3>2. CASE Handle(e)
      BY Zenon, <3>2, StatusTypes DEF Handle
    <3> QED
      BY Zenon, <1>6, <3>1, <3>2
  <2> DEFINE x == [dpu[e] EXCEPT !.rs = rs]
  <2>2. dpu' = [dpu EXCEPT ![e] = x] /\ x.phase = dpu[e].phase /\ x.rs = rs
    BY Zenon, <2>1 DEF IInv, TypeOK
  <2>3. Waits(d)
    BY Zenon, <2>2 DEF Waits, IInv, TypeOK
  <2>4. UNCHANGED <<method, seen, job, seenJob, node, annotation, answered, rebooted, excused, file>>
    BY Zenon, <1>6 DEF RecordFailure, Handle, ctlVars, envVars
  <2>5. ~Scripted(x) /\ ~Marks(x)
    BY <2>1, <2>2 DEF Scripted, Marks, scriptRebootLifecycleActive, Refused, Succeeded, Manual, Status
  <2>6. ASSUME e = d, Told(x)
        PROVE  Served(d)
    <3>1. rs # Refused /\ dpu[e].phase = "Rebooting"
      BY <2>2, <2>6 DEF Told, Refused, Status
    <3>2. file[d] = "rebooted"
      BY Zenon, <2>1, <2>6, <3>1 DEF Handle, IsRebootFinished
    <3> QED
      BY Zenon, <1>d, <2>3, <3>2 DEF DPUInv, ServedInv, Served
  <2> QED
    BY Zenon, <2>2, <2>3, <2>4, <2>5, <2>6, MoveFrame
<1> QED
  BY <1>1, <1>2, <1>3, <1>4, <1>5, <1>6, Zenon

(* After a reboot of the host every DPU that waits is served.              *)
LEMMA RebootServed ==
  ASSUME IInv, NEW d \in DPUs, Waits(d), HostReboots,
         UNCHANGED <<method, dpu, seen, node, excused>>
  PROVE  DPUInv(d)'
<1>1. rebooted'[d] /\ Served(d)'
  BY Zenon DEF HostReboots, Waits, Served
<1>2. ~Closed' /\ seen'[d].phase = "Rebooting"
  BY Zenon DEF HostReboots, Settled, Closed, Waits
<1> QED
  BY Zenon, <1>1, <1>2 DEF DPUInv, ServedInv, ExternalInv, ScriptInv

(* Every step of the host, its Job, its user and its agent keeps the       *)
(* invariant of a DPU that waits.                                          *)
LEMMA HostServed ==
  ASSUME IInv, NEW d \in DPUs, Waits(d),
         \/ JobSync \/ RunJob \/ JobGone \/ User \/ HostRestarts \/ AgentLists \/ AgentReboots
         \/ RebootFails
  PROVE  DPUInv(d)'
<1>d. DPUInv(d)
  BY Zenon DEF IInv
<1>1. ASSUME UNCHANGED <<method, dpu, seen, node, file, rebooted, excused, annotation, answered>>,
             Over' => Over
      PROVE  DPUInv(d)'
  <2>1. (Served(d)' <=> Served(d)) /\ (Asked' <=> Asked) /\ (Closed' <=> Closed)
    BY Zenon, <1>1 DEF Served, Asked, Closed
  <2>2. ServedInv(d)'
    BY Zenon, <1>d, <1>1, <2>1 DEF DPUInv, ServedInv, Told
  <2>3. ExternalInv(d)'
    BY Zenon, <1>d, <1>1, <2>1 DEF DPUInv, ExternalInv, Marks
  <2>4. ScriptInv(d)'
    BY Zenon, <1>d, <1>1, <2>1 DEF DPUInv, ScriptInv, Scripted, Pending
  <2> QED
    BY Zenon, <1>d, <1>1, <2>1, <2>2, <2>3, <2>4 DEF DPUInv
<1>2. CASE JobSync
  BY Zenon, <1>1, <1>2 DEF JobSync, ctlVars, envVars, Over
<1>3. CASE RunJob
  <2>1. CASE HostReboots
    BY Zenon, <1>3, <2>1, RebootServed DEF RunJob, ctlVars
  <2>2. CASE ~HostReboots
    <3>1. UNCHANGED <<method, dpu, seen, node, file, rebooted, excused, annotation, answered>>
      BY Zenon, <1>3, <2>2 DEF RunJob, ctlVars
    <3>2. Over' => Over
      BY Zenon, <1>3, <2>2 DEF RunJob, Over, Settled
    <3> QED
      BY Zenon, <1>1, <3>1, <3>2
  <2> QED
    BY Zenon, <2>1, <2>2
<1>4. CASE JobGone
  BY Zenon, <1>1, <1>4 DEF JobGone, ctlVars, Over, Settled
<1>5. CASE User
  <2>1. CASE HostReboots
    BY Zenon, <1>5, <2>1, RebootServed DEF User
  <2>2. CASE ~HostReboots
    <3>1. /\ UNCHANGED <<method, dpu, seen, job, seenJob, node, file, rebooted, excused>>
          /\ annotation /\ answered /\ ~annotation'
      BY Zenon, <1>5, <2>2 DEF User
    <3>2. (Served(d) => Served(d)') /\ (Over' => Over) /\ (Closed' => Closed) /\ ~Asked
      BY Zenon, <3>1 DEF Served, Over, Asked, Closed
    <3>3. method = "external" => Served(d)
      BY Zenon, <1>d, <3>1, <3>2 DEF DPUInv, ExternalInv
    <3>4. node.pc = "write" /\ node.status = Succeeded /\ d \in node.todo => Served(d)
      BY Zenon, <1>d DEF DPUInv, ServedInv
    <3>5. method = "script" /\ Over /\ Pending("script") => Served(d)
      BY Zenon, <1>d DEF DPUInv, ScriptInv
    <3>6. Pending("script")' <=> Pending("script")
      BY Zenon, <3>1 DEF Pending
    <3> QED
      BY Zenon, <3>1, <3>2, <3>3, <3>4, <3>5, <3>6, NodeFrame
  <2> QED
    BY Zenon, <2>1, <2>2
<1>6. CASE HostRestarts \/ AgentReboots
  BY Zenon, <1>6, RebootServed DEF HostRestarts, AgentReboots, ctlVars
<1>7. CASE AgentLists \/ RebootFails
  BY Zenon, <1>1, <1>7 DEF AgentLists, RebootFails, ctlVars, envVars, Over
<1> QED
  BY <1>2, <1>3, <1>4, <1>5, <1>6, <1>7, Zenon

-----------------------------------------------------------------------------
(* The theorems.                                                           *)
(* The invariant is preserved by every step.                               *)
LEMMA Inductive ==
  ASSUME IInv, Next
  PROVE  IInv'
<1>1. TypeOK'
  BY NodeSteps, DPUSteps, HostSteps, Zenon DEF IInv, Next, Controller
<1>2. JobInv' /\ NodeInv'
  BY Zenon, <1>1, JobStep, NodeStep
<1>3. ASSUME NEW d \in DPUs
      PROVE  DPUInv(d)'
  <2>1. CASE Waits(d)'
    <3>1. CASE \E e \in DPUs : \/ CacheSync(e) \/ Provision(e) \/ Request(e) \/ ArmIsOff(e)
                               \/ CompleteRebooting(e) \/ Delete(e)
                               \/ PersistBootID(e) \/ RecordFailure(e) \/ Handle(e) \/ housekeeping(e)
      BY Zenon, <2>1, <3>1, DPUServed
    <3>2. CASE \E e \in DPUs : UpdateDPURebootStatus(e)
      <4>1. PICK e \in DPUs : UpdateDPURebootStatus(e)
        BY Zenon, <3>2
      <4>2. Waits(d)
        BY <2>1, <4>1 DEF UpdateDPURebootStatus, Waits, IInv, TypeOK
      <4> QED
        BY Zenon, <4>1, <4>2, WriteServed
    <3>3. CASE \/ Read \/ HandleRebootSync \/ processExternalReboot \/ reconcileScriptJob \/ DeleteStaleJob
               \/ handleJobNotFound \/ FetchFails \/ UpdateFails \/ noneDPUInNodeEffectOrRebooting
               \/ Patch \/ Crash
      <4>1. UNCHANGED dpu
        BY <3>3, Zenon DEF Read, HandleRebootSync, processExternalReboot, reconcileScriptJob, DeleteStaleJob,
             handleJobNotFound, FetchFails, UpdateFails, noneDPUInNodeEffectOrRebooting, Patch, Crash
      <4> QED
        BY <2>1, <3>3, <4>1, ReconcileServed, Zenon DEF Waits
    <3>4. CASE \/ JobSync \/ RunJob \/ JobGone \/ User \/ HostRestarts \/ AgentLists \/ AgentReboots
               \/ RebootFails
      <4>1. UNCHANGED dpu
        BY <3>4, Zenon DEF JobSync, RunJob, JobGone, User, HostRestarts, AgentLists, AgentReboots, RebootFails
      <4> QED
        BY <2>1, <3>4, <4>1, HostServed, Zenon DEF Waits
    <3> QED
      BY <3>1, <3>2, <3>3, <3>4, Zenon DEF Next, Controller
  <2>2. CASE ~Waits(d)'
    BY Zenon, <2>2 DEF DPUInv, Waits
  <2> QED
    BY Zenon, <2>1, <2>2
<1> QED
  BY Zenon, <1>1, <1>2, <1>3 DEF IInv

(* It holds initially.                                                     *)
LEMMA Initial ==
  ASSUME Init
  PROVE  IInv
<1>1. TypeOK
  <2>1. method \in Methods /\ job \in Jobs /\ seenJob \in Jobs /\ stages \in 0..MaxStages /\ upsets \in 0..MaxUpsets
        /\ inProgress \in {"none", "true", "false"} /\ excused \in SUBSET DPUs
    BY HostAssumption DEF Init, Jobs
  <2>2. doomed \in BOOLEAN /\ annotation \in BOOLEAN /\ answered \in BOOLEAN
    BY Zenon DEF Init
  <2>3. dpu \in [DPUs -> [phase : Phases, rs : Statuses]] /\ seen \in [DPUs -> [phase : Phases, rs : Statuses]]
    BY Zenon, StatusTypes DEF Init, Phases
  <2>4. /\ node \in NodeReconcile /\ agent \in AgentLoop
        /\ file \in [DPUs -> {"none", "old", "written", "rebooted"}]
    BY Zenon, StatusTypes DEF Init, AgentIdle, AgentLoop
  <2>5. rebooted \in [DPUs -> BOOLEAN]
    BY Zenon DEF Init
  <2> QED
    BY Zenon, <2>1, <2>2, <2>3, <2>4, <2>5 DEF TypeOK
<1>2. JobInv /\ NodeInv
  BY Zenon DEF Init, JobInv, RunningJobKept, NodeInv, Idle
<1>3. \A d \in DPUs : DPUInv(d)
  BY Zenon DEF Init, DPUInv, Waits
<1> QED
  BY Zenon, <1>1, <1>2, <1>3 DEF IInv

(* It is preserved when nothing changes.                                   *)
LEMMA Stutter ==
  ASSUME IInv, UNCHANGED vars
  PROVE  IInv'
<1>1. UNCHANGED <<method, dpu, seen, job, doomed, seenJob, annotation, inProgress, node, agent, file,
                  answered, rebooted, excused, stages, upsets>>
  BY Zenon DEF vars, ctlVars, envVars
<1>2. TypeOK' /\ JobInv' /\ NodeInv'
  BY ZenonT(90), <1>1 DEF IInv, TypeOK, JobInv, RunningJobKept, NodeInv
<1>3. ASSUME NEW d \in DPUs
      PROVE  DPUInv(d)'
  BY Zenon, <1>1 DEF IInv, DPUInv, ServedInv, ExternalInv, ScriptInv, Served, Waits, Told, Marks, Scripted,
       Over, Closed, Asked, Pending
<1> QED
  BY Zenon, <1>2, <1>3 DEF IInv

(* It is an invariant.                                                     *)
THEOREM Invariance == Spec => []IInv
<1>1. Init => IInv
  BY Zenon, Initial
<1>2. IInv /\ [Next]_vars => IInv'
  BY Zenon, Inductive, Stutter
<1> QED
  BY <1>1, <1>2, PTL DEF Spec

(* Every reachable state is well typed, for every number of DPUs, stages   *)
(* and upsets.                                                             *)
THEOREM RebootTypeCorrect == Spec => []TypeOK
<1>1. IInv => TypeOK
  BY Zenon DEF IInv
<1> QED
  BY <1>1, Invariance, PTL

(* DeleteStaleJob never hits a Job that is about to reboot the host or has *)
(* not reported yet, however late the controller's copy of it is.          *)
THEOREM RunningJobStays == Spec => []RunningJobKept
<1>1. IInv => RunningJobKept
  BY Zenon DEF IInv, JobInv
<1> QED
  BY <1>1, Invariance, PTL

(* Only CompleteRebooting takes a DPU out of Rebooting with its status,    *)
(* and it has read that the reboot succeeded.                              *)
LEMMA LeavesServed ==
  ASSUME IInv, Next, NEW d \in DPUs, Leaves(d)
  PROVE  rebooted[d] \/ d \in excused
<1>1. dpu[d].phase = "Rebooting" /\ dpu'[d].phase # "Rebooting" /\ dpu'[d].rs # NoStatus
  BY Zenon DEF Leaves
<1>2. \E e \in DPUs : \/ CacheSync(e) \/ Provision(e) \/ Request(e) \/ ArmIsOff(e)
                      \/ CompleteRebooting(e) \/ Delete(e) \/ UpdateDPURebootStatus(e)
                      \/ PersistBootID(e) \/ RecordFailure(e) \/ Handle(e) \/ housekeeping(e)
  <2>1. dpu' # dpu
    BY Zenon, <1>1
  <2> QED
    BY <2>1, Zenon DEF Next, Controller, Read, HandleRebootSync, processExternalReboot, reconcileScriptJob,
       DeleteStaleJob, handleJobNotFound, FetchFails, UpdateFails, noneDPUInNodeEffectOrRebooting, Patch,
       Crash, JobSync, RunJob, JobGone, User, HostRestarts, AgentLists, AgentReboots, RebootFails
<1>3. PICK e \in DPUs : \/ CacheSync(e) \/ Provision(e) \/ Request(e) \/ ArmIsOff(e)
                        \/ CompleteRebooting(e) \/ Delete(e) \/ UpdateDPURebootStatus(e)
                        \/ PersistBootID(e) \/ RecordFailure(e) \/ Handle(e) \/ housekeeping(e)
  BY Zenon, <1>2
<1>4. CompleteRebooting(e) /\ e = d
  <2>1. CASE CacheSync(e) \/ PersistBootID(e) \/ housekeeping(e)
    BY Zenon, <1>1, <2>1 DEF CacheSync, PersistBootID, housekeeping
  <2>2. CASE UpdateDPURebootStatus(e) \/ RecordFailure(e) \/ Handle(e)
    BY SMTT(30), <1>1, <2>2 DEF UpdateDPURebootStatus, RecordFailure, Handle, IInv, TypeOK
  <2>3. CASE Request(e) \/ ArmIsOff(e)
    BY <1>1, <2>3 DEF Request, ArmIsOff, Move, IInv, TypeOK
  <2>4. CASE Provision(e)
    BY Zenon, <1>1, <2>4 DEF Provision, Enter, Leave, Move, IInv, TypeOK
  <2>5. CASE Delete(e)
    BY Zenon, <1>1, <2>5 DEF Delete, Move, IInv, TypeOK
  <2>6. CASE CompleteRebooting(e)
    BY Zenon, <1>1, <2>6 DEF CompleteRebooting, Enter, Leave, Move, IInv, TypeOK
  <2> QED
    BY <1>3, <2>1, <2>2, <2>3, <2>4, <2>5, <2>6, Zenon
<1>5. Told(seen[d])
  BY Zenon, <1>4 DEF CompleteRebooting, Told
<1> QED
  BY Zenon, <1>1, <1>5 DEF IInv, DPUInv, Waits, ServedInv, Served

(* A DPU goes on only when the host was rebooted after it had asked, or it *)
(* is excused: by script, by the user or by the agent, with lagging        *)
(* caches, failed writes and crashes of the controller in any order.       *)
THEOREM DPUsLeaveRebooted == Spec => LeavesRebooted
<1>1. IInv /\ [Next]_vars => [\A d \in DPUs : Leaves(d) => rebooted[d] \/ d \in excused]_vars
  BY Zenon, LeavesServed
<1> QED
  BY <1>1, Invariance, PTL DEF Spec, LeavesRebooted
-----------------------------------------------------------------------------
(* No Job without need.  What follows is kept as long as no call has       *)
(* failed and the host is rebooted by a script.                            *)
Calm == method = "script" /\ upsets = 0

(* x records that its DPU waits for the Job.                               *)
Records(x) == x.phase = "Rebooting" /\ x.rs = Waiting

Writes(status) == node.pc = "write" /\ node.status = status

(* The DPU has had its reboot, which is still to be recorded.              *)
Owed(d) == Waits(d) /\ rebooted[d] /\ dpu[d].rs.phase # "Succeeded"

(* The Job has rebooted the host.                                          *)
Done == job \in {"rebooted", "complete"}

(* A DPU for which the Job was created, and which it does not miss.        *)
Holds(e) ==
  /\ seen[e].phase = "Rebooting" /\ seen[e].rs # Succeeded
  /\ Records(dpu[e]) \/ (Writes(Waiting) /\ e \in node.todo /\ Waits(e))

(* What there is of the three ways to reboot is the script's; a wait is    *)
(* written while the Job is new, a success while it is complete; and a Job *)
(* that has not rebooted yet is waited for.                                *)
CalmNode ==
  /\ ~annotation /\ ~node.ask /\ agent.pc = "idle" /\ job # "failed" /\ seenJob # "failed"
  /\ node.pc = "write" =>
       \/ node.status = Waiting /\ job = "active"
       \/ node.status = Succeeded /\ job = "complete" /\ ~doomed
  /\ job = "active" => \E e \in DPUs : Holds(e)

(* The statuses of a DPU, and of those that a write is still to come for.  *)
CalmStatus(d) ==
  /\ {dpu[d].rs, seen[d].rs} \subseteq {NoStatus, Requested, Shutdown, Waiting, Succeeded}
  /\ Waits(d) => dpu[d].rs # NoStatus
  /\ seen[d].phase = "Rebooting" => seen[d].rs # NoStatus
  /\ seen[d].rs # NoStatus => dpu[d].rs # NoStatus
  /\ node.pc = "write" /\ d \in node.todo => seen[d].rs # NoStatus
  /\ Writes(Waiting) /\ d \in node.todo => dpu[d].rs = seen[d].rs /\ seen[d].rs \in {Requested, Succeeded}

(* A Job whose end is awaited stays, and once it has rebooted the host the *)
(* cache shows who awaits it.                                              *)
CalmRecord(d) ==
  /\ Records(dpu[d]) \/ Records(seen[d]) => job # "none" /\ ~doomed
  /\ Done /\ Records(dpu[d]) => Records(seen[d])

(* Without a Job the cache is behind only with the DPU's own steps.        *)
CalmCache(d) ==
  job = "none" /\ seen[d].phase = "Rebooting" =>
    /\ seen[d].rs = Succeeded => dpu[d].rs = Succeeded
    /\ seen[d].rs # Succeeded => Waits(d) /\ dpu[d].rs \in {seen[d].rs, Requested}

(* A reboot that is still to be recorded has a Job, and is recorded before *)
(* the last record of the wait for that Job is overwritten.                *)
CalmOwed(d) ==
  Owed(d) =>
    /\ job # "none"
    /\ Done => /\ seen[d].phase = "Rebooting" /\ seen[d].rs # Succeeded
               /\ IF Writes(Succeeded) THEN d \in node.todo ELSE \E e \in DPUs : Records(dpu[e])

CalmDPU(d) == CalmStatus(d) /\ CalmRecord(d) /\ CalmCache(d) /\ CalmOwed(d)

CalmInv == Calm => CalmNode /\ \A d \in DPUs : CalmDPU(d)

(* With the invariant of the other proofs, what holds in such a state.     *)
CalmState == IInv /\ Calm /\ CalmNode /\ \A d \in DPUs : CalmDPU(d)

CalmAgain == CalmNode' /\ \A d \in DPUs : CalmDPU(d)'

-----------------------------------------------------------------------------
(* The statuses of a script differ.                                        *)
LEMMA StatusesDiffer ==
  /\ NoStatus \notin {Requested, Shutdown, Waiting, Succeeded}
  /\ Requested \notin {Shutdown, Waiting, Succeeded}
  /\ Shutdown \notin {Waiting, Succeeded} /\ Waiting # Succeeded
BY Zenon DEF NoStatus, Requested, Shutdown, Waiting, Succeeded, Status

(* What the controllers test tells them apart.                             *)
LEMMA ScriptStatuses ==
  ASSUME NEW rs \in {NoStatus, Requested, Shutdown, Waiting, Succeeded}
  PROVE  /\ rs.phase = "Succeeded" <=> rs = Succeeded
         /\ rs.phase = "WaitForShutdown" <=> rs = Shutdown
         /\ scriptRebootLifecycleActive(rs) <=> rs = Waiting
BY SMTT(30) DEF NoStatus, Requested, Shutdown, Waiting, Succeeded, Status, scriptRebootLifecycleActive

(* The parts of what holds, and how the tests read there.                  *)
LEMMA CalmParts ==
  ASSUME CalmState, NEW d \in DPUs
  PROVE  /\ CalmStatus(d) /\ CalmRecord(d) /\ CalmCache(d) /\ CalmOwed(d)
         /\ dpu[d].rs.phase = "Succeeded" <=> dpu[d].rs = Succeeded
         /\ seen[d].rs.phase = "Succeeded" <=> seen[d].rs = Succeeded
         /\ seen[d].rs.phase = "WaitForShutdown" <=> seen[d].rs = Shutdown
         /\ scriptRebootLifecycleActive(seen[d].rs) <=> seen[d].rs = Waiting
<1>1. CalmStatus(d) /\ CalmRecord(d) /\ CalmCache(d) /\ CalmOwed(d)
  BY Zenon DEF CalmState, CalmDPU
<1>2. /\ dpu[d].rs \in {NoStatus, Requested, Shutdown, Waiting, Succeeded}
      /\ seen[d].rs \in {NoStatus, Requested, Shutdown, Waiting, Succeeded}
  BY Zenon, <1>1 DEF CalmStatus
<1> QED
  BY Zenon, <1>1, <1>2, ScriptStatuses

(* A success is written in full, or was there in the cache.                *)
LEMMA SuccessPatch ==
  ASSUME TypeOK, NEW d \in DPUs, CalmStatus(d), seen[d].rs # NoStatus
  PROVE  Patched(d, Succeeded) = IF seen[d].rs = Succeeded THEN dpu[d].rs ELSE Succeeded
<1>1. dpu[d].rs \in Statuses
  BY Zenon DEF TypeOK
<1>2. dpu[d].rs = [phase |-> dpu[d].rs.phase, reason |-> dpu[d].rs.reason]
  BY Zenon, <1>1 DEF Statuses
<1>3. seen[d].rs \in {Requested, Shutdown, Waiting, Succeeded}
  BY Zenon DEF CalmStatus
<1> QED
  BY SMTT(30), <1>2, <1>3 DEF Patched, NoStatus, Requested, Shutdown, Waiting, Succeeded, Status

(* A wait is written in full where the cache is right about the status.    *)
LEMMA WaitPatch ==
  ASSUME TypeOK, NEW d \in DPUs, seen[d].rs = dpu[d].rs
  PROVE  Patched(d, Waiting) = Waiting
BY Zenon DEF TypeOK, Patched, Statuses, Waiting, Status

(* A step of the reconcile outside of the writes.                          *)
LEMMA CalmFrame ==
  ASSUME CalmState, UNCHANGED <<dpu, seen, job, doomed, rebooted>>, agent'.pc = "idle",
         seenJob' # "failed", ~annotation', ~node'.ask,
         \/ node.pc # "write" /\ node'.pc # "write"
         \/ UNCHANGED node
  PROVE  CalmAgain
<1> USE DEF CalmState, CalmAgain
<1>1. ASSUME NEW e \in DPUs, Holds(e)
      PROVE  Holds(e)'
  BY Zenon, <1>1 DEF Holds, Records, Writes, Waits
<1>2. CalmNode'
  BY Zenon, <1>1 DEF CalmNode
<1>3. ASSUME NEW d \in DPUs
      PROVE  CalmDPU(d)'
  <2>1. CalmStatus(d)'
    BY Zenon DEF CalmDPU, CalmStatus, Waits, Writes
  <2>2. CalmRecord(d)'
    BY Zenon DEF CalmDPU, CalmRecord, Records, Done
  <2>3. CalmCache(d)'
    BY Zenon DEF CalmDPU, CalmCache, Waits
  <2>4. CalmOwed(d)'
    BY Zenon DEF CalmDPU, CalmOwed, Owed, Waits, Done, Writes, Records
  <2> QED
    BY Zenon, <2>1, <2>2, <2>3, <2>4 DEF CalmDPU
<1> QED
  BY Zenon, <1>2, <1>3

(* The cache of a DPU catches up.                                          *)
LEMMA CalmSync ==
  ASSUME CalmState, NEW e \in DPUs, CacheSync(e)
  PROVE  CalmAgain
<1> USE DEF CalmState, CalmAgain
<1>0. /\ UNCHANGED <<dpu, job, doomed, seenJob, annotation, node, agent, rebooted>>
      /\ seen'[e] = dpu[e] /\ \A f \in DPUs \ {e} : seen'[f] = seen[f]
  BY Zenon DEF CacheSync, ctlVars, envVars, IInv, TypeOK
<1>s. \A d \in DPUs : /\ CalmStatus(d) /\ CalmRecord(d) /\ CalmCache(d) /\ CalmOwed(d)
                      /\ dpu[d].rs.phase = "Succeeded" <=> dpu[d].rs = Succeeded
                      /\ seen[d].rs.phase = "Succeeded" <=> seen[d].rs = Succeeded
  BY Zenon, CalmParts
<1>1. ASSUME NEW d \in DPUs, Holds(d)
      PROVE  Holds(d)'
  BY ZenonT(40), <1>0, <1>1, <1>s, StatusesDiffer DEF Holds, Records, Writes, Waits, CalmStatus
<1>2. CalmNode'
  BY Zenon, <1>0, <1>1 DEF CalmNode
<1>3. ASSUME NEW d \in DPUs
      PROVE  CalmDPU(d)'
  <2>1. CalmStatus(d)'
    BY ZenonT(40), <1>0, <1>s DEF CalmStatus, Waits, Writes
  <2>2. CalmRecord(d)'
    BY Zenon, <1>0, <1>s DEF CalmRecord, Records, Done
  <2>3. CalmCache(d)'
    BY Zenon, <1>0, <1>s DEF CalmCache, Waits
  <2>4. CalmOwed(d)'
    <3>1. CalmOwed(d) /\ (dpu[d].rs.phase = "Succeeded" <=> dpu[d].rs = Succeeded)
      BY Zenon, <1>s
    <3>2. CASE d = e
      BY Zenon, <1>0, <3>1, <3>2 DEF CalmOwed, Owed, Waits, Done, Writes, Records
    <3>3. CASE d # e
      BY Zenon, <1>0, <3>1, <3>3 DEF CalmOwed, Owed, Waits, Done, Writes, Records
    <3> QED
      BY Zenon, <3>2, <3>3
  <2> QED
    BY Zenon, <2>1, <2>2, <2>3, <2>4 DEF CalmDPU
<1> QED
  BY Zenon, <1>2, <1>3

(* A DPU that was not waiting, or has succeeded, changes its phase.        *)
LEMMA CalmLeave ==
  ASSUME CalmState, NEW e \in DPUs, Provision(e) \/ CompleteRebooting(e)
  PROVE  CalmAgain
<1> USE DEF CalmState, CalmAgain
<1>s. \A d \in DPUs : /\ CalmStatus(d) /\ CalmRecord(d) /\ CalmCache(d) /\ CalmOwed(d)
                      /\ dpu[d].rs.phase = "Succeeded" <=> dpu[d].rs = Succeeded
                      /\ seen[d].rs.phase = "Succeeded" <=> seen[d].rs = Succeeded
  BY Zenon, CalmParts
<1>0. /\ UNCHANGED <<seen, job, doomed, seenJob, annotation, node, agent, rebooted>>
      /\ dpu'[e].phase # "Rebooting" /\ dpu'[e].rs = dpu[e].rs /\ \A f \in DPUs \ {e} : dpu'[f] = dpu[f]
  <2>1. UNCHANGED <<seen, job, doomed, seenJob, annotation, node, agent, rebooted>>
    BY Zenon DEF Provision, CompleteRebooting, ctlVars
  <2>2. \E phase \in {"Provisioning", "Idle"} : Move(e, phase, dpu[e].rs)
    BY Zenon DEF Provision, CompleteRebooting, Enter, Leave
  <2>3. TypeOK
    BY Zenon DEF IInv
  <2> QED
    BY <2>1, <2>2, <2>3 DEF Move, TypeOK
<1>r. seen[e].phase = dpu[e].phase /\ (seen[e].phase # "Rebooting" \/ seen[e].rs = Succeeded)
  BY Zenon, <1>s, StatusesDiffer DEF Provision, CompleteRebooting, CalmStatus
<1>1. ASSUME NEW d \in DPUs, Holds(d)
      PROVE  Holds(d)'
  BY Zenon, <1>0, <1>r, <1>1 DEF Holds, Records, Writes, Waits
<1>2. CalmNode'
  BY Zenon, <1>0, <1>1 DEF CalmNode
<1>4. ASSUME NEW d \in DPUs, Done, Records(dpu[d])
      PROVE  dpu'[d] = dpu[d]
  BY Zenon, <1>0, <1>r, <1>4, <1>s, StatusesDiffer DEF CalmRecord, Records
<1>3. ASSUME NEW d \in DPUs
      PROVE  CalmDPU(d)'
  <2>1. CalmStatus(d)'
    BY ZenonT(40), <1>0, <1>s DEF CalmStatus, Waits, Writes
  <2>2. CalmRecord(d)'
    <3>1. CalmRecord(d)
      BY Zenon, <1>s
    <3>2. CASE d = e
      BY Zenon, <1>0, <3>1, <3>2 DEF CalmRecord, Records, Done
    <3>3. CASE d # e
      BY Zenon, <1>0, <3>1, <3>3 DEF CalmRecord, Records, Done
    <3> QED
      BY Zenon, <3>2, <3>3
  <2>3. CalmCache(d)'
    BY ZenonT(40), <1>0, <1>r, <1>s DEF CalmCache, Waits
  <2>4. CalmOwed(d)'
    BY ZenonT(40), <1>0, <1>s, <1>4 DEF CalmOwed, Owed, Waits, Done, Writes, Records
  <2> QED
    BY Zenon, <2>1, <2>2, <2>3, <2>4 DEF CalmDPU
<1> QED
  BY Zenon, <1>2, <1>3

(* A DPU begins to wait, or goes on waiting when its Arm is off.           *)
LEMMA CalmRequest ==
  ASSUME CalmState, NEW e \in DPUs, Request(e) \/ ArmIsOff(e)
  PROVE  CalmAgain
<1> USE DEF CalmState, CalmAgain
<1>s. \A d \in DPUs : /\ CalmStatus(d) /\ CalmRecord(d) /\ CalmCache(d) /\ CalmOwed(d)
                      /\ dpu[d].rs.phase = "Succeeded" <=> dpu[d].rs = Succeeded
                      /\ seen[d].rs.phase = "Succeeded" <=> seen[d].rs = Succeeded
                      /\ seen[d].rs.phase = "WaitForShutdown" <=> seen[d].rs = Shutdown
  BY Zenon, CalmParts
<1>t. TypeOK /\ NodeInv
  BY Zenon DEF IInv
<1>e. seen[e] = dpu[e]
  BY Zenon DEF Request, ArmIsOff
<1>p. \A rs \in {Requested, Shutdown} : Patched(e, rs) = rs
  BY Zenon, <1>t, <1>e, ExactPatch, StatusTypes
<1>0. /\ UNCHANGED <<seen, job, doomed, seenJob, annotation, node, agent>>
      /\ \A f \in DPUs \ {e} : dpu'[f] = dpu[f]
      /\ dpu'[e].phase = "Rebooting" /\ dpu'[e].rs \in {Requested, Shutdown}
  <2>1. UNCHANGED <<seen, job, doomed, seenJob, annotation, node, agent>>
    BY Zenon DEF Request, ArmIsOff, ctlVars
  <2>2. \E rs \in {Requested, Shutdown} : Move(e, "Rebooting", rs)
    BY Zenon, <1>p DEF Request, ArmIsOff
  <2> QED
    BY SMTT(30), <1>t, <2>1, <2>2 DEF Move, TypeOK
<1>r. /\ \A f \in DPUs \ {e} : rebooted'[f] = rebooted[f]
      /\ \/ dpu[e].phase = "Provisioning" /\ rebooted'[e] = FALSE /\ node.pc # "write"
         \/ dpu[e].phase = "Rebooting" /\ dpu[e].rs = Shutdown /\ rebooted'[e] = rebooted[e]
            /\ dpu'[e].rs = Requested
  <2>1. CASE Request(e)
    <3>1. rebooted' = [rebooted EXCEPT ![e] = FALSE]
      BY Zenon, <2>1 DEF Request
    <3>2. rebooted'[e] = FALSE /\ \A f \in DPUs \ {e} : rebooted'[f] = rebooted[f]
      BY Zenon, <1>t, <3>1 DEF TypeOK
    <3>3. dpu[e].phase = "Provisioning" /\ node.pc # "write"
      BY Zenon, <1>t, <2>1 DEF Request, NodeInv
    <3> QED
      BY Zenon, <3>2, <3>3
  <2>2. CASE ArmIsOff(e)
    <3>1. UNCHANGED rebooted /\ dpu[e].phase = "Rebooting" /\ dpu[e].rs.phase = "WaitForShutdown"
      BY Zenon, <1>e, <2>2 DEF ArmIsOff, envVars
    <3>2. dpu[e].rs = Shutdown
      BY Zenon, <1>e, <1>s, <3>1
    <3>3. dpu'[e].rs = Requested
      BY Zenon, <1>t, <1>p, <2>2 DEF ArmIsOff, Move, TypeOK
    <3> QED
      BY Zenon, <3>1, <3>2, <3>3
  <2> QED
    BY Zenon, <2>1, <2>2
<1>4. ASSUME NEW d \in DPUs, Records(dpu[d])
      PROVE  dpu'[d] = dpu[d]
  BY Zenon, <1>0, <1>r, <1>4, StatusesDiffer DEF Records
<1>1. ASSUME NEW d \in DPUs, Holds(d)
      PROVE  Holds(d)'
  BY Zenon, <1>0, <1>r, <1>1, <1>4, <1>s, StatusesDiffer DEF Holds, Records, Writes, Waits, CalmStatus
<1>2. CalmNode'
  BY Zenon, <1>0, <1>1 DEF CalmNode
<1>3. ASSUME NEW d \in DPUs
      PROVE  CalmDPU(d)'
  <2>1. CalmStatus(d)'
    BY ZenonT(40), <1>0, <1>r, <1>s, StatusesDiffer DEF CalmStatus, Waits, Writes
  <2>2. CalmRecord(d)'
    BY Zenon, <1>0, <1>s, StatusesDiffer DEF CalmRecord, Records, Done
  <2>3. CalmCache(d)'
    BY ZenonT(40), <1>0, <1>e, <1>r, <1>s, StatusesDiffer DEF CalmCache, Waits
  <2>4. CalmOwed(d)'
    <3>1. Owed(d)' => Owed(d)
      BY Zenon, <1>0, <1>r, <1>s, StatusesDiffer DEF Owed, Waits
    <3> QED
      BY ZenonT(40), <1>0, <1>s, <1>4, <3>1 DEF CalmOwed, Done, Writes, Records
  <2> QED
    BY Zenon, <2>1, <2>2, <2>3, <2>4 DEF CalmDPU
<1> QED
  BY Zenon, <1>2, <1>3

(* One DPU gets the status that is being written.                          *)
LEMMA CalmUpdate ==
  ASSUME CalmState, NEW e \in DPUs, UpdateDPURebootStatus(e)
  PROVE  CalmAgain
<1> USE DEF CalmState, CalmAgain
<1>s. \A d \in DPUs : /\ CalmStatus(d) /\ CalmRecord(d) /\ CalmCache(d) /\ CalmOwed(d)
                      /\ dpu[d].rs.phase = "Succeeded" <=> dpu[d].rs = Succeeded
                      /\ seen[d].rs.phase = "Succeeded" <=> seen[d].rs = Succeeded
  BY Zenon, CalmParts
<1>n. node \in NodeReconcile /\ node.pc = "write" /\ e \in node.todo
  BY Zenon DEF UpdateDPURebootStatus, IInv, TypeOK
<1>0. /\ UNCHANGED <<seen, job, doomed, seenJob, annotation, agent, rebooted>>
      /\ dpu'[e].phase = dpu[e].phase /\ dpu'[e].rs = Patched(e, node.status)
      /\ \A f \in DPUs \ {e} : dpu'[f] = dpu[f]
  BY Zenon DEF UpdateDPURebootStatus, envVars, IInv, TypeOK
<1>5. /\ node'.todo = node.todo \ {e} /\ node'.status = node.status /\ node'.ask = node.ask
      /\ IF node.todo = {e} THEN node'.pc \in {"ready", "patch"} ELSE node'.pc = "write"
  BY Zenon, <1>n DEF UpdateDPURebootStatus, NodeReconcile
<1>6. CASE node.status = Waiting /\ job = "active"
  <2>1. dpu'[e].rs = Waiting /\ node.status # Succeeded
    BY Zenon, <1>0, <1>6, <1>n, <1>s, WaitPatch, StatusesDiffer DEF CalmStatus, Writes, IInv
  <2>2. ASSUME NEW d \in DPUs, Holds(d)
        PROVE  Holds(d)'
    BY Zenon, <1>0, <1>5, <1>6, <2>1, <2>2 DEF Holds, Records, Writes, Waits
  <2>3. CalmNode'
    BY Zenon, <1>0, <1>5, <1>6, <2>2 DEF CalmNode
  <2>4. ASSUME NEW d \in DPUs
        PROVE  CalmDPU(d)'
    <3>1. CalmStatus(d)'
      <4>1. CalmStatus(d)
        BY Zenon, <1>s
      <4>2. CASE d = e
        BY Zenon, <1>0, <1>5, <2>1, <4>1, <4>2, StatusesDiffer DEF CalmStatus, Waits, Writes
      <4>3. CASE d # e
        BY Zenon, <1>0, <1>5, <1>n, <4>1, <4>3 DEF CalmStatus, Waits, Writes
      <4> QED
        BY Zenon, <4>2, <4>3
    <3>2. CalmRecord(d)'
      <4>1. ~doomed
        BY Zenon, <1>6 DEF IInv, JobInv, RunningJobKept
      <4> QED
        BY Zenon, <1>0, <1>6, <4>1 DEF CalmRecord, Done
    <3>3. CalmCache(d)' /\ CalmOwed(d)'
      BY Zenon, <1>0, <1>6 DEF CalmCache, CalmOwed, Done
    <3> QED
      BY Zenon, <3>1, <3>2, <3>3 DEF CalmDPU
  <2> QED
    BY Zenon, <2>3, <2>4
<1>7. CASE node.status = Succeeded /\ job = "complete" /\ ~doomed
  <2>1. dpu'[e].rs = IF seen[e].rs = Succeeded THEN dpu[e].rs ELSE Succeeded
    BY Zenon, <1>0, <1>7, <1>n, <1>s, SuccessPatch DEF CalmStatus, IInv
  <2>2. Waiting # Succeeded
    BY Zenon, StatusesDiffer
  <2>3. CalmNode'
    BY ZenonT(40), <1>0, <1>5, <1>7 DEF CalmNode
  <2>4. ASSUME NEW d \in DPUs
        PROVE  CalmDPU(d)'
    <3>1. CalmStatus(d)'
      <4>1. CalmStatus(d)
        BY Zenon, <1>s
      <4>2. CASE d = e
        <5>1. dpu'[e].rs \in {dpu[e].rs, Succeeded}
          BY Zenon, <2>1
        <5> QED
          BY Zenon, <1>0, <1>5, <4>1, <4>2, <5>1, StatusesDiffer DEF CalmStatus, Waits, Writes
      <4>3. CASE d # e
        BY Zenon, <1>0, <1>5, <1>n, <4>1, <4>3 DEF CalmStatus, Waits, Writes
      <4> QED
        BY Zenon, <4>2, <4>3
    <3>2. CalmRecord(d)'
      <4>1. CalmRecord(d)
        BY Zenon, <1>s
      <4>2. Records(dpu[d])' => Records(dpu[d])
        <5>1. CASE d = e
          BY Zenon, <1>0, <2>1, <2>2, <5>1 DEF Records
        <5>2. CASE d # e
          BY Zenon, <1>0, <5>2 DEF Records
        <5> QED
          BY Zenon, <5>1, <5>2
      <4> QED
        BY Zenon, <1>0, <1>7, <4>1, <4>2 DEF CalmRecord, Records, Done
    <3>3. CalmCache(d)'
      BY Zenon, <1>0, <1>7 DEF CalmCache
    <3>4. CalmOwed(d)'
      <4>1. SUFFICES ASSUME Owed(d)'
                     PROVE  /\ seen[d].phase = "Rebooting" /\ seen[d].rs # Succeeded
                            /\ node'.pc = "write" /\ d \in node'.todo
        BY Zenon, <1>0, <1>5, <1>7 DEF CalmOwed, Writes
      <4>s. Succeeded.phase = "Succeeded"
        BY Zenon DEF Succeeded, Status
      <4>2. Owed(d)
        <5>1. CASE d = e
          BY Zenon, <1>0, <2>1, <4>1, <4>s, <5>1 DEF Owed, Waits
        <5>2. CASE d # e
          BY Zenon, <1>0, <4>1, <5>2 DEF Owed, Waits
        <5> QED
          BY Zenon, <5>1, <5>2
      <4>3. seen[d].phase = "Rebooting" /\ seen[d].rs # Succeeded /\ d \in node.todo
        BY Zenon, <1>7, <1>n, <1>s, <4>2 DEF CalmOwed, Done, Writes
      <4>4. d # e
        BY Zenon, <2>1, <4>1, <4>3, <4>s DEF Owed
      <4> QED
        BY Zenon, <1>5, <4>3, <4>4
    <3> QED
      BY Zenon, <3>1, <3>2, <3>3, <3>4 DEF CalmDPU
  <2> QED
    BY Zenon, <2>3, <2>4
<1> QED
  BY Zenon, <1>n, <1>6, <1>7 DEF CalmNode

(* The Job that is complete is the one whose end is awaited, and all that  *)
(* wait get to know of it.                                                 *)
LEMMA CalmSucceed ==
  ASSUME CalmState, ScriptDue, ~isStale, seenJob = "complete", Update(Succeeded, "ready", "false"),
         UNCHANGED <<dpu, seen, job, doomed, seenJob, annotation, agent, rebooted>>
  PROVE  CalmAgain
<1> USE DEF CalmState, CalmAgain
<1>s. \A d \in DPUs : /\ CalmStatus(d) /\ CalmRecord(d) /\ CalmCache(d) /\ CalmOwed(d)
                      /\ dpu[d].rs.phase = "Succeeded" <=> dpu[d].rs = Succeeded
                      /\ seen[d].rs.phase = "Succeeded" <=> seen[d].rs = Succeeded
                      /\ scriptRebootLifecycleActive(seen[d].rs) <=> seen[d].rs = Waiting
  BY Zenon, CalmParts
<1>n. node \in NodeReconcile /\ node.pc = "sync"
  BY Zenon DEF IInv, TypeOK, ScriptDue, RebootDue
<1>0. /\ node'.pc = "write" /\ node'.todo = InScope /\ node'.status = Succeeded /\ node'.ask = node.ask
  BY Zenon, <1>n DEF Update, NodeReconcile
<1>1. job = "complete" /\ ~doomed
  <2>1. PICK e \in InScope : scriptRebootLifecycleActive(seen[e].rs)
    BY Zenon DEF isStale, isJobTerminal, lifecycleActive
  <2>2. e \in DPUs /\ Records(seen[e])
    BY Zenon, <1>s, <2>1 DEF InScope, Records
  <2> QED
    BY Zenon, <1>s, <2>2 DEF CalmRecord, IInv, JobInv
<1>w. Waiting # Succeeded
  BY Zenon, StatusesDiffer
<1>2. CalmNode'
  BY Zenon, <1>0, <1>1 DEF CalmNode
<1>3. ASSUME NEW d \in DPUs
      PROVE  CalmDPU(d)'
  <2>1. CalmStatus(d)'
    BY Zenon, <1>0, <1>s, <1>w DEF CalmStatus, Waits, Writes, InScope
  <2>2. CalmRecord(d)'
    BY Zenon, <1>s DEF CalmRecord, Records, Done
  <2>3. CalmCache(d)'
    BY Zenon, <1>s DEF CalmCache, Waits
  <2>4. CalmOwed(d)'
    BY Zenon, <1>0, <1>1, <1>s DEF CalmOwed, Owed, Waits, Done, Writes, InScope
  <2> QED
    BY Zenon, <2>1, <2>2, <2>3, <2>4 DEF CalmDPU
<1> QED
  BY Zenon, <1>2, <1>3

(* A Job is created for a DPU that has not had its reboot: one that had it *)
(* would not be without a Job.                                             *)
LEMMA CreatedForSome ==
  ASSUME CalmState, ScriptDue, job = "none"
  PROVE  \E d \in InScope : /\ seen[d].rs = Requested /\ Waits(d) /\ dpu[d].rs = Requested
                            /\ ~rebooted[d]
<1> USE DEF CalmState
<1>1. PICK d \in InScope : seen[d].rs.phase # "Succeeded"
  BY Zenon DEF ScriptDue, allRebootingDPUsSucceeded
<1>2. d \in DPUs /\ seen[d].phase = "Rebooting" /\ seen[d].rs.phase # "WaitForShutdown"
  BY Zenon DEF InScope, ScriptDue, RebootDue
<1>s. /\ CalmStatus(d) /\ CalmRecord(d) /\ CalmCache(d) /\ CalmOwed(d)
      /\ dpu[d].rs.phase = "Succeeded" <=> dpu[d].rs = Succeeded
      /\ seen[d].rs.phase = "Succeeded" <=> seen[d].rs = Succeeded
      /\ seen[d].rs.phase = "WaitForShutdown" <=> seen[d].rs = Shutdown
  BY Zenon, <1>2, CalmParts
<1>3. seen[d].rs = Requested
  BY Zenon, <1>1, <1>2, <1>s, StatusesDiffer DEF CalmStatus, CalmRecord, Records
<1>4. Waits(d) /\ dpu[d].rs = Requested
  BY Zenon, <1>2, <1>3, <1>s, StatusesDiffer DEF CalmCache
<1>5. ~rebooted[d]
  BY Zenon, <1>4, <1>s, StatusesDiffer DEF CalmOwed, Owed
<1> QED
  BY Zenon, <1>3, <1>4, <1>5

(* So the new Job is waited for by one that it does not miss.              *)
LEMMA CalmCreate ==
  ASSUME CalmState, ScriptDue, job = "none", job' = "active", Update(Waiting, "patch", "true"),
         UNCHANGED <<dpu, seen, doomed, seenJob, annotation, agent, rebooted>>
  PROVE  CalmAgain
<1> USE DEF CalmState, CalmAgain
<1>s. \A d \in DPUs : /\ CalmStatus(d) /\ CalmRecord(d) /\ CalmCache(d) /\ CalmOwed(d)
                      /\ dpu[d].rs.phase = "Succeeded" <=> dpu[d].rs = Succeeded
                      /\ seen[d].rs.phase = "Succeeded" <=> seen[d].rs = Succeeded
                      /\ seen[d].rs.phase = "WaitForShutdown" <=> seen[d].rs = Shutdown
  BY Zenon, CalmParts
<1>n. node \in NodeReconcile /\ node.pc = "sync" /\ ~doomed
  BY Zenon DEF IInv, TypeOK, ScriptDue, RebootDue, JobInv, RunningJobKept
<1>0. /\ node'.pc = "write" /\ node'.todo = InScope /\ node'.status = Waiting /\ node'.ask = node.ask
  BY Zenon, <1>n DEF Update, NodeReconcile
<1>1. PICK e \in InScope : seen[e].rs = Requested /\ Waits(e)
  BY Zenon, CreatedForSome
<1>2. e \in DPUs /\ Holds(e)'
  BY Zenon, <1>0, <1>1, StatusesDiffer DEF Holds, InScope, Writes, Waits
<1>3. CalmNode'
  BY Zenon, <1>0, <1>2 DEF CalmNode
<1>4. ASSUME NEW d \in DPUs
      PROVE  CalmDPU(d)'
  <2>0. d \in InScope => seen[d].rs.phase # "WaitForShutdown" /\ seen[d].phase = "Rebooting"
    BY Zenon DEF ScriptDue, RebootDue, InScope
  <2>1. CalmStatus(d)'
    <3>1. d \in InScope => dpu[d].rs = seen[d].rs /\ seen[d].rs \in {Requested, Succeeded}
      <4>1. SUFFICES ASSUME d \in InScope
                     PROVE  dpu[d].rs = seen[d].rs /\ seen[d].rs \in {Requested, Succeeded}
        BY Zenon
      <4>2. seen[d].rs \in {Requested, Waiting, Succeeded}
        BY Zenon, <1>s, <2>0, <4>1 DEF CalmStatus
      <4>3. seen[d].rs # Waiting
        BY Zenon, <1>s, <2>0, <4>1 DEF CalmRecord, Records
      <4> QED
        BY Zenon, <1>s, <2>0, <4>1, <4>2, <4>3, StatusesDiffer DEF CalmCache
    <3> QED
      BY Zenon, <1>0, <1>s, <2>0, <3>1 DEF CalmStatus, Waits, Writes
  <2>2. CalmRecord(d)' /\ CalmCache(d)' /\ CalmOwed(d)'
    BY Zenon, <1>n DEF CalmRecord, CalmCache, CalmOwed, Done
  <2> QED
    BY Zenon, <2>1, <2>2 DEF CalmDPU
<1> QED
  BY Zenon, <1>3, <1>4

(* A Job that is deleted is not awaited by any DPU.                        *)
LEMMA CalmDelete ==
  ASSUME CalmState, DeleteStaleJob
  PROVE  CalmAgain
<1> USE DEF CalmState, CalmAgain
<1>s. \A d \in DPUs : /\ CalmStatus(d) /\ CalmRecord(d) /\ CalmCache(d) /\ CalmOwed(d)
                      /\ dpu[d].rs.phase = "Succeeded" <=> dpu[d].rs = Succeeded
                      /\ seen[d].rs.phase = "Succeeded" <=> seen[d].rs = Succeeded
                      /\ scriptRebootLifecycleActive(seen[d].rs) <=> seen[d].rs = Waiting
  BY Zenon, CalmParts
<1>n. node \in NodeReconcile /\ node.pc = "sync"
  BY Zenon DEF DeleteStaleJob, IInv, TypeOK, ScriptDue, RebootDue
<1>0. /\ UNCHANGED <<dpu, seen, job, seenJob, annotation, agent, rebooted>>
      /\ node'.pc = "patch" /\ node'.ask = node.ask
  BY Zenon, <1>n DEF DeleteStaleJob, Go, NodeReconcile, envVars
<1>1. job \in {"complete", "none"}
  BY Zenon DEF DeleteStaleJob, isStale, isJobTerminal, CalmNode, IInv, JobInv
<1>2. ASSUME NEW d \in DPUs
      PROVE  ~Records(dpu[d]) /\ ~Records(seen[d])
  <2>1. ~Records(seen[d])
    BY Zenon, <1>s DEF DeleteStaleJob, isStale, lifecycleActive, InScope, Records
  <2> QED
    BY Zenon, <1>1, <1>s, <2>1 DEF CalmRecord, Done
<1>3. CalmNode'
  BY Zenon, <1>0, <1>1 DEF CalmNode
<1>4. ASSUME NEW d \in DPUs
      PROVE  CalmDPU(d)'
  <2>1. CalmStatus(d)'
    BY Zenon, <1>0, <1>s DEF CalmStatus, Waits, Writes
  <2>2. CalmRecord(d)'
    BY Zenon, <1>0, <1>2 DEF CalmRecord, Records
  <2>3. CalmCache(d)'
    BY Zenon, <1>0, <1>s DEF CalmCache, Waits
  <2>4. CalmOwed(d)'
    BY Zenon, <1>0, <1>n, <1>s DEF CalmOwed, Owed, Waits, Done, Writes, Records
  <2> QED
    BY Zenon, <2>1, <2>2, <2>3, <2>4 DEF CalmDPU
<1> QED
  BY Zenon, <1>3, <1>4

(* The Job reboots the host or reports.  Those it served and who do not    *)
(* know it yet include one that it was created for.                        *)
LEMMA CalmRun ==
  ASSUME CalmState, Calm', RunJob
  PROVE  CalmAgain
<1> USE DEF CalmState, CalmAgain
<1>s. \A d \in DPUs : /\ CalmStatus(d) /\ CalmRecord(d) /\ CalmCache(d) /\ CalmOwed(d)
                      /\ dpu[d].rs.phase = "Succeeded" <=> dpu[d].rs = Succeeded
                      /\ seen[d].rs.phase = "Succeeded" <=> seen[d].rs = Succeeded
  BY Zenon, CalmParts
<1>u. ~Upset
  BY DEF Calm, Upset
<1>c. agent.pc = "idle"
  BY Zenon DEF CalmNode
<1>0. /\ UNCHANGED <<dpu, seen, doomed, seenJob, annotation, node>>
      /\ seen = dpu /\ node.pc = "idle" /\ agent'.pc = "idle"
      /\ \/ job = "active" /\ job' = "rebooted"
         \/ job = "rebooted" /\ job' = "complete" /\ UNCHANGED rebooted
  <2>1. UNCHANGED <<dpu, seen, doomed, seenJob, annotation, node>>
    BY Zenon DEF RunJob, ctlVars
  <2>2. seen = dpu /\ node.pc = "idle"
    BY Zenon DEF RunJob, Settled
  <2>3. CASE job = "active" /\ HostReboots /\ job' = "rebooted"
    BY Zenon, <2>1, <2>2, <2>3 DEF HostReboots, AgentIdle
  <2>4. CASE job = "rebooted" /\ job' = "complete" /\ UNCHANGED <<rebooted, agent>>
    BY Zenon, <1>c, <2>1, <2>2, <2>4
  <2> QED
    BY Zenon, <1>u, <2>3, <2>4 DEF RunJob
<1>1. CalmNode'
  BY Zenon, <1>0 DEF CalmNode
<1>2. job = "active" => \E e \in DPUs : Records(dpu[e])
  BY Zenon, <1>0 DEF CalmNode, Holds, Writes
<1>3. ASSUME NEW d \in DPUs
      PROVE  CalmDPU(d)'
  <2>1. CalmStatus(d)'
    BY Zenon, <1>0, <1>s DEF CalmStatus, Waits, Writes
  <2>2. CalmRecord(d)'
    BY Zenon, <1>0, <1>s DEF CalmRecord, Records, Done
  <2>3. CalmCache(d)'
    BY Zenon, <1>0 DEF CalmCache
  <2>4. CalmOwed(d)'
    <3>1. CASE job = "active" /\ job' = "rebooted"
      BY Zenon, <1>0, <1>2, <1>s, <3>1, StatusesDiffer DEF CalmOwed, CalmStatus, Owed, Waits, Writes, Records
    <3>2. CASE job = "rebooted" /\ job' = "complete" /\ UNCHANGED rebooted
      BY Zenon, <1>0, <1>s, <3>2 DEF CalmOwed, Owed, Waits, Done, Writes, Records
    <3> QED
      BY Zenon, <1>0, <3>1, <3>2
  <2> QED
    BY Zenon, <2>1, <2>2, <2>3, <2>4 DEF CalmDPU
<1> QED
  BY Zenon, <1>1, <1>3

(* The Job goes only when no DPU awaits its end; then no reboot is still   *)
(* to be recorded either.                                                  *)
LEMMA CalmGone ==
  ASSUME CalmState, Calm', JobGone
  PROVE  CalmAgain
<1> USE DEF CalmState, CalmAgain
<1>s. \A d \in DPUs : /\ CalmStatus(d) /\ CalmRecord(d) /\ CalmCache(d) /\ CalmOwed(d)
                      /\ dpu[d].rs.phase = "Succeeded" <=> dpu[d].rs = Succeeded
                      /\ seen[d].rs.phase = "Succeeded" <=> seen[d].rs = Succeeded
  BY Zenon, CalmParts
<1>0. /\ UNCHANGED <<dpu, seen, seenJob, annotation, node, agent, rebooted>>
      /\ seen = dpu /\ node.pc = "idle" /\ job' = "none" /\ doomed' = FALSE
  BY Zenon DEF JobGone, Settled, ctlVars
<1>u. ~Upset
  BY DEF Calm, Upset
<1>1. job = "complete"
  BY Zenon, <1>u DEF JobGone, CalmNode, IInv, JobInv, RunningJobKept
<1>2. ASSUME NEW d \in DPUs
      PROVE  ~Records(dpu[d]) /\ ~Records(seen[d])
  <2>1. dpu[d] = [phase |-> dpu[d].phase, rs |-> dpu[d].rs]
    BY Zenon DEF IInv, TypeOK
  <2>2. CASE doomed
    BY Zenon, <1>s, <2>2 DEF CalmRecord
  <2>3. CASE ~doomed
    <3>1. dpu[d] # [phase |-> "Rebooting", rs |-> Waiting]
      BY Zenon, <1>u, <2>3 DEF JobGone
    <3> QED
      BY Zenon, <1>0, <2>1, <3>1 DEF Records
  <2> QED
    BY Zenon, <2>2, <2>3
<1>3. CalmNode'
  BY Zenon, <1>0 DEF CalmNode
<1>4. ASSUME NEW d \in DPUs
      PROVE  CalmDPU(d)'
  <2>1. CalmStatus(d)'
    BY Zenon, <1>0, <1>s DEF CalmStatus, Waits, Writes
  <2>2. CalmRecord(d)'
    BY Zenon, <1>0, <1>2 DEF CalmRecord, Records, Done
  <2>3. CalmCache(d)'
    BY Zenon, <1>0 DEF CalmCache, Waits
  <2>4. CalmOwed(d)'
    <3>1. ~Owed(d)
      BY Zenon, <1>0, <1>1, <1>2, <1>s DEF CalmOwed, Done, Writes
    <3> QED
      BY Zenon, <1>0, <3>1 DEF CalmOwed, Owed, Waits
  <2> QED
    BY Zenon, <2>1, <2>2, <2>3, <2>4 DEF CalmDPU
<1> QED
  BY Zenon, <1>3, <1>4

(* Every step that is no upset keeps what holds.                           *)
LEMMA CalmStep ==
  ASSUME CalmState, Calm', Next
  PROVE  CalmAgain
<1> USE DEF CalmState
<1>u. upsets = 0 /\ upsets' = 0 /\ ~Upset /\ method = "script"
  BY SMTT(30) DEF Calm, Upset
<1>c. node \in NodeReconcile /\ ~annotation /\ ~node.ask /\ agent.pc = "idle" /\ job # "failed" /\ seenJob # "failed"
  BY Zenon DEF IInv, TypeOK, CalmNode
<1>1. CASE Read \/ noneDPUInNodeEffectOrRebooting \/ Patch \/ HandleRebootSync
  <2>1. UNCHANGED <<dpu, seen, job, doomed, seenJob, agent, rebooted>>
    BY Zenon, <1>1 DEF Read, noneDPUInNodeEffectOrRebooting, Patch, HandleRebootSync, envVars
  <2>2. ~annotation'
    <3>1. CASE Patch
      BY Zenon, <1>c, <3>1 DEF Patch
    <3>2. CASE UNCHANGED annotation
      BY Zenon, <1>c, <3>2
    <3> QED
      BY Zenon, <1>1, <3>1, <3>2 DEF Read, noneDPUInNodeEffectOrRebooting, HandleRebootSync
  <2>3. node.pc # "write"
    BY Zenon, <1>1 DEF Read, noneDPUInNodeEffectOrRebooting, Patch, HandleRebootSync
  <2>4. ~node'.ask /\ node'.pc # "write"
    <3>1. CASE Read
      BY Zenon, <3>1 DEF Read, Idle
    <3>2. CASE Patch
      BY Zenon, <3>2 DEF Patch, Idle
    <3>3. CASE HandleRebootSync
      BY Zenon, <1>c, <3>3 DEF HandleRebootSync, Go, NodeReconcile
    <3>4. CASE noneDPUInNodeEffectOrRebooting
      BY ZenonT(40), <1>c, <3>4 DEF noneDPUInNodeEffectOrRebooting, Go, NodeReconcile
    <3> QED
      BY ZenonT(40), <1>1, <3>1, <3>2, <3>3, <3>4
  <2> QED
    BY ZenonT(40), <1>c, <2>1, <2>2, <2>3, <2>4, CalmFrame
<1>2. CASE reconcileScriptJob
  <2>1. UNCHANGED <<dpu, seen, job, doomed, seenJob, annotation, agent, rebooted>> /\ node.pc = "sync"
    BY Zenon, <1>2 DEF reconcileScriptJob, envVars, ScriptDue, RebootDue
  <2>2. CASE Go("ready") \/ Go("patch")
    <3>1. ~node'.ask /\ node'.pc # "write"
      BY ZenonT(40), <1>c, <2>2 DEF Go, NodeReconcile
    <3> QED
      BY ZenonT(40), <1>c, <2>1, <3>1, CalmFrame
  <2>3. CASE ScriptDue /\ ~isStale /\ seenJob = "complete" /\ Update(Succeeded, "ready", "false")
    BY Zenon, <2>1, <2>3, CalmSucceed
  <2> QED
    BY Zenon, <1>2, <1>c, <2>2, <2>3 DEF reconcileScriptJob
<1>3. CASE handleJobNotFound
  <2>1. UNCHANGED <<dpu, seen, doomed, seenJob, annotation, agent, rebooted>> /\ ScriptDue /\ node.pc = "sync"
    BY Zenon, <1>3 DEF handleJobNotFound, envVars, ScriptDue, RebootDue
  <2>2. CASE job = "none" /\ job' = "active" /\ Update(Waiting, "patch", "true")
    BY Zenon, <2>1, <2>2, CalmCreate
  <2>3. CASE UNCHANGED job /\ Go("patch")
    <3>1. ~node'.ask /\ node'.pc # "write"
      BY Zenon, <1>c, <2>3 DEF Go, NodeReconcile
    <3> QED
      BY Zenon, <1>c, <2>1, <2>3, <3>1, CalmFrame
  <2> QED
    BY ZenonT(40), <1>3, <2>2, <2>3 DEF handleJobNotFound
<1>4. CASE JobSync
  <2>1. UNCHANGED <<dpu, seen, job, doomed, annotation, node, agent, rebooted>> /\ seenJob' # "failed"
    BY Zenon, <1>c, <1>4 DEF JobSync, ctlVars, envVars
  <2> QED
    BY Zenon, <1>c, <2>1, CalmFrame
<1>5. CASE DeleteStaleJob \/ RunJob \/ JobGone
  BY Zenon, <1>5, CalmDelete, CalmRun, CalmGone
<1>6. CASE \E d \in DPUs : \/ CacheSync(d) \/ Provision(d) \/ Request(d) \/ ArmIsOff(d)
                          \/ CompleteRebooting(d) \/ UpdateDPURebootStatus(d)
  BY ZenonT(40), <1>6, CalmSync, CalmLeave, CalmRequest, CalmUpdate
<1>7. CASE FetchFails \/ UpdateFails \/ Crash \/ HostRestarts \/ RebootFails \/ \E d \in DPUs : Delete(d)
  BY <1>u, <1>7, ZenonT(40) DEF FetchFails, UpdateFails, Crash, HostRestarts, RebootFails, Delete
<1>8. CASE \/ processExternalReboot \/ User \/ AgentLists \/ AgentReboots
           \/ \E d \in DPUs : PersistBootID(d) \/ RecordFailure(d) \/ Handle(d) \/ housekeeping(d)
  BY ZenonT(40), <1>u, <1>c, <1>8 DEF processExternalReboot, User, AgentLists, AgentReboots, PersistBootID,
       RecordFailure, Handle, housekeeping
<1> QED
  BY <1>1, <1>2, <1>3, <1>4, <1>5, <1>6, <1>7, <1>8, ZenonT(40) DEF Next, Controller

(* It holds initially and is kept: once a call has failed, or with another *)
(* method, nothing is claimed.                                             *)
THEOREM CalmInvariance == Spec => []CalmInv
<1>1. Init => CalmInv
  <2> SUFFICES ASSUME Init PROVE CalmNode /\ \A d \in DPUs : CalmDPU(d)
    BY Zenon DEF CalmInv
  <2>1. CalmNode
    BY Zenon DEF Init, CalmNode, Idle, AgentIdle
  <2>2. ASSUME NEW d \in DPUs
        PROVE  CalmDPU(d)
    <3>1. dpu[d] = [phase |-> "Idle", rs |-> NoStatus] /\ seen[d] = dpu[d] /\ node.pc = "idle"
      BY Zenon DEF Init, Idle
    <3> QED
      BY SMTT(30), <3>1 DEF CalmDPU, CalmStatus, CalmRecord, CalmCache, CalmOwed, Owed, Waits, Records, Writes
  <2> QED
    BY Zenon, <2>1, <2>2
<1>2. IInv /\ CalmInv /\ [Next]_vars => CalmInv'
  <2> SUFFICES ASSUME IInv, CalmInv, [Next]_vars, Calm' PROVE CalmAgain
    BY Zenon DEF CalmInv, CalmAgain
  <2>1. Calm
    <3>1. CASE Next
      <4>1. method' = method
        BY <3>1, ZenonT(40) DEF Next, Controller, Read, HandleRebootSync, processExternalReboot, reconcileScriptJob,
             DeleteStaleJob, handleJobNotFound, FetchFails, UpdateFails, UpdateDPURebootStatus,
             noneDPUInNodeEffectOrRebooting, Patch, Crash, JobSync, RunJob, JobGone, User, HostRestarts,
             AgentLists, AgentReboots, RebootFails, CacheSync, Provision, Request, ArmIsOff,
             CompleteRebooting, Delete, PersistBootID, RecordFailure, Handle, housekeeping
      <4>2. upsets' = upsets \/ Upset
        BY <3>1, ZenonT(40) DEF Next, Controller, Read, HandleRebootSync, processExternalReboot, reconcileScriptJob,
             DeleteStaleJob, handleJobNotFound, FetchFails, UpdateFails, UpdateDPURebootStatus,
             noneDPUInNodeEffectOrRebooting, Patch, Crash, JobSync, RunJob, JobGone, User, HostRestarts,
             AgentLists, AgentReboots, RebootFails, CacheSync, Provision, Request, ArmIsOff,
             CompleteRebooting, Delete, PersistBootID, RecordFailure, Handle, housekeeping, envVars
      <4> QED
        BY SMTT(30), <4>1, <4>2 DEF Calm, Upset, IInv, TypeOK
    <3>2. CASE UNCHANGED vars
      BY Zenon, <3>2 DEF vars, envVars, Calm
    <3> QED
      BY Zenon, <3>1, <3>2
  <2>2. CalmState
    BY Zenon, <2>1 DEF CalmState, CalmInv
  <2>3. CASE UNCHANGED vars
    BY Zenon, <2>2, <2>3, CalmFrame DEF vars, ctlVars, envVars, CalmState, CalmNode
  <2> QED
    BY Zenon, <2>2, <2>3, CalmStep
<1> QED
  BY <1>1, <1>2, Invariance, PTL DEF Spec

(* handleJobNotFound creates no Job that nobody needs: as long as no call  *)
(* fails, one of the DPUs in scope still lacks its reboot, however late    *)
(* the cache shows what the last Job has done and that it is gone.         *)
THEOREM JobsAreNeeded == Spec => NoNeedlessJob
<1>1. IInv /\ CalmInv /\ [Next]_vars =>
        [job = "none" /\ job' = "active" /\ upsets = 0 => \E d \in node'.scope : ~rebooted[d]]_vars
  <2> SUFFICES ASSUME IInv, CalmInv, Next, job = "none", job' = "active", upsets = 0
               PROVE  \E d \in node'.scope : ~rebooted[d]
    BY Zenon
  <2>1. handleJobNotFound
    BY ZenonT(40) DEF Next, Controller, Read, HandleRebootSync, processExternalReboot, reconcileScriptJob,
         DeleteStaleJob, FetchFails, UpdateFails, UpdateDPURebootStatus,
         noneDPUInNodeEffectOrRebooting, Patch, Crash, JobSync, RunJob, JobGone, User, HostRestarts,
         AgentLists, AgentReboots, RebootFails, CacheSync, Provision, Request, ArmIsOff,
         CompleteRebooting, Delete, PersistBootID, RecordFailure, Handle, housekeeping
  <2>2. ScriptDue /\ Update(Waiting, "patch", "true") /\ node \in NodeReconcile
    BY Zenon, <2>1 DEF handleJobNotFound, IInv, TypeOK
  <2>3. node'.scope = InScope
    BY Zenon, <2>2, UpdateEffect
  <2>4. CalmState
    BY Zenon, <2>2 DEF CalmState, CalmInv, Calm, ScriptDue
  <2> QED
    BY Zenon, <2>2, <2>3, <2>4, CreatedForSome
<1> QED
  BY <1>1, Invariance, CalmInvariance, PTL DEF Spec, NoNeedlessJob
=============================================================================
