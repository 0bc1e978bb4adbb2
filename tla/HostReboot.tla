----------------------------- MODULE HostReboot -----------------------------
(***************************************************************************)
(* The reboot of a host for its DPUs.  A DPU that needs one waits in phase *)
(* Rebooting until its rebootStatus says Succeeded; one reboot serves all  *)
(* DPUs of the host that wait.  Who reboots depends on the DPUNode:        *)
(*   script     the DPUNode controller runs a Job, of a fixed name;        *)
(*   external   it asks the user, with an annotation the user removes;     *)
(*   hostAgent  the agent on the host does, and finds out afterwards from  *)
(*              a file with the boot ID of before.                         *)
(*                                                                         *)
(* The DPU controller and the DPUNode controller run in one process and    *)
(* read one informer cache.  Their patches have no resourceVersion: they   *)
(* write the fields in which the result differs from what was read.        *)
(*                                                                         *)
(* "Provisioning" stands for the phases Prepare BFB to DPU Config, "Idle"  *)
(* for those that are neither these nor Rebooting.                         *)
(***************************************************************************)
EXTENDS Naturals, FiniteSets

CONSTANTS DPUs,         \* spec.dpus of the DPUNode
          Methods,      \* the values of nodeRebootMethod
          MaxStages,    \* bound on entries into the provisioning phases
          MaxUpsets     \* bound on failed calls, crashes and deletions

ASSUME HostAssumption == IsFiniteSet(DPUs) /\ MaxStages \in Nat /\ MaxUpsets \in Nat

VARIABLES method,      \* how this host is rebooted
          dpu,         \* phase and rebootStatus of each DPU
          seen,        \* the informer copy of it
          job,         \* the script Job
          doomed,      \* it has a deletionTimestamp
          seenJob,     \* the informer copy of it
          annotation,  \* dpunode-external-reboot-required
          inProgress,  \* the RebootInProgress condition
          node,        \* the reconcile of the DPUNode
          agent,       \* the reboot loop of the host agent
          file,        \* the reboot request file of each DPU
          answered,    \* the user has rebooted the host for the annotation
          rebooted,    \* the host was rebooted since the DPU asked for it
          excused,     \* DPUs that an earlier reboot is known to be taken for
          stages, upsets

envVars == <<answered, rebooted, excused, stages, upsets>>
ctlVars == <<annotation, inProgress, node>>
vars == <<method, dpu, seen, job, doomed, seenJob, ctlVars, agent, file, envVars>>

-----------------------------------------------------------------------------
Phases == {"Idle", "Provisioning", "Rebooting"}
Jobs == {"none", "active", "rebooted", "complete", "failed"}

Status(phase, reason) == [phase |-> phase, reason |-> reason]
NoStatus  == Status("none", "none")
Requested == Status("Pending", "requested")
Shutdown  == Status("WaitForShutdown", "requested")
Waiting   == Status("Pending", "script")
Failed    == Status("Failed", "script")
Manual    == Status("Pending", "manual")
Refused   == Status("Failed", "other")
Succeeded == Status("Succeeded", "none")

Statuses == [phase : {"none", "WaitForShutdown", "Pending", "Failed", "Succeeded"},
             reason : {"none", "requested", "script", "manual", "other"}]

NodeReconcile ==
  [pc : {"idle", "sync", "write", "ready", "patch"}, phases : SUBSET Phases,
   ask : BOOLEAN, ann : BOOLEAN, inProgress : {"none", "true", "false"},
   scope : SUBSET DPUs, todo : SUBSET DPUs, status : Statuses,
   then : [pc : {"ready", "patch"}, inProgress : {"none", "true", "false"}]]

AgentLoop == [pc : {"idle", "persist", "fail"}, scope : SUBSET DPUs, todo : SUBSET DPUs]

TypeOK ==
  /\ method \in Methods
  /\ dpu  \in [DPUs -> [phase : Phases, rs : Statuses]]
  /\ seen \in [DPUs -> [phase : Phases, rs : Statuses]]
  /\ job \in Jobs /\ seenJob \in Jobs /\ doomed \in BOOLEAN
  /\ annotation \in BOOLEAN /\ answered \in BOOLEAN
  /\ inProgress \in {"none", "true", "false"}
  /\ node \in NodeReconcile /\ agent \in AgentLoop
  /\ file \in [DPUs -> {"none", "old", "written", "rebooted"}]
  /\ rebooted \in [DPUs -> BOOLEAN]
  /\ excused \in SUBSET DPUs
  /\ stages \in 0..MaxStages /\ upsets \in 0..MaxUpsets

Idle == [pc |-> "idle", phases |-> {}, ask |-> FALSE, ann |-> FALSE, inProgress |-> "none",
         scope |-> {}, todo |-> {}, status |-> NoStatus,
         then |-> [pc |-> "patch", inProgress |-> "none"]]
AgentIdle == [pc |-> "idle", scope |-> {}, todo |-> {}]

Init ==
  /\ method \in Methods
  /\ dpu = [d \in DPUs |-> [phase |-> "Idle", rs |-> NoStatus]] /\ seen = dpu
  /\ job = "none" /\ seenJob = "none" /\ doomed = FALSE
  /\ annotation = FALSE /\ inProgress = "none" /\ node = Idle
  /\ agent = AgentIdle /\ file = [d \in DPUs |-> "none"]
  /\ answered = FALSE /\ rebooted = [d \in DPUs |-> FALSE] /\ excused = {}
  /\ stages = 0 /\ upsets = 0

Upset == upsets < MaxUpsets /\ upsets' = upsets + 1

(* Mutant: reason and phase change places.                                 *)
PatchedSwapped(d, rs) == [phase |-> rs.reason, reason |-> rs.phase]

(* A merge patch of rebootStatus that was computed from the cached DPU.    *)
Patched(d, rs) ==
  [phase  |-> IF rs.phase  # seen[d].rs.phase  THEN rs.phase  ELSE dpu[d].rs.phase,
   reason |-> IF rs.reason # seen[d].rs.reason THEN rs.reason ELSE dpu[d].rs.reason]

CacheSync(d) ==
  /\ seen[d] # dpu[d]
  /\ seen' = [seen EXCEPT ![d] = dpu[d]]
  /\ UNCHANGED <<method, dpu, job, doomed, seenJob, ctlVars, agent, file, envVars>>

JobSync ==
  /\ seenJob # job
  /\ seenJob' = job
  /\ UNCHANGED <<method, dpu, seen, job, doomed, ctlVars, agent, file, envVars>>

(* What takes minutes happens neither within a reconcile nor before the    *)
(* caches have caught up with its updates.                                 *)
Settled == seen = dpu /\ seenJob = job /\ node.pc = "idle"

-----------------------------------------------------------------------------
(* The DPU controller, which sees what it wrote itself.                    *)

scriptRebootLifecycleActive(rs) == rs.reason = "script" /\ rs.phase \in {"Pending", "Failed"}

Move(d, phase, rs) == dpu' = [dpu EXCEPT ![d] = [phase |-> phase, rs |-> rs]]

(* A DPU enters the provisioning phases, or leaves them without a reboot.  *)
Enter(d) == Move(d, "Provisioning", dpu[d].rs) /\ stages < MaxStages /\ stages' = stages + 1
Leave(d) == Move(d, "Idle", dpu[d].rs) /\ UNCHANGED stages

Provision(d) ==
  /\ seen[d].phase = dpu[d].phase
  /\ \/ dpu[d].phase = "Idle" /\ Enter(d)
     \/ dpu[d].phase = "Provisioning" /\ Leave(d)
  /\ UNCHANGED <<method, seen, job, doomed, seenJob, ctlVars, agent, file,
                 answered, rebooted, excused, upsets>>

(* InitializeDPURebootStatus: with a System Level Reset of a Zero Trust    *)
(* host the DPU first has to shut down.  The request file of an earlier    *)
(* reboot does not match this one: previous phase, sequence count or round *)
(* differ.  Provisioning takes minutes: a reconcile of the DPUNode that is *)
(* still running has read it, and the cache has it.                        *)
Request(d) ==
  /\ dpu[d].phase = "Provisioning" /\ seen[d] = dpu[d]
  /\ node.pc = "idle" \/ "Provisioning" \in node.phases
  /\ \E rs \in {Requested} \cup (IF method = "hostAgent" THEN {} ELSE {Shutdown}) :
       Move(d, "Rebooting", Patched(d, rs))
  /\ file' = [file EXCEPT ![d] = IF @ = "none" THEN "none" ELSE "old"]
  /\ rebooted' = [rebooted EXCEPT ![d] = FALSE]
  /\ excused' = IF \/ annotation /\ answered
                   \/ /\ {job, seenJob} \cap {"rebooted", "complete"} # {}
                      /\ \E e \in DPUs \ {d} : \E x \in {dpu[e], seen[e]} :
                           x.phase = "Rebooting" /\ scriptRebootLifecycleActive(x.rs)
                THEN excused \cup {d} ELSE excused \ {d}
  /\ UNCHANGED <<method, seen, job, doomed, seenJob, ctlVars, agent, answered, stages, upsets>>

(* reconcileWaitForArmShutdown: the Arm is off, or does not answer.        *)
ArmIsOff(d) ==
  /\ seen[d].phase = "Rebooting" /\ seen[d].rs.phase = "WaitForShutdown"
  /\ seen[d] = dpu[d]
  /\ Move(d, "Rebooting", Patched(d, Requested))
  /\ UNCHANGED <<method, seen, job, doomed, seenJob, ctlVars, agent, file, envVars>>

(* CompleteRebooting: back to the phase that asked, or on.                 *)
CompleteRebooting(d) ==
  /\ seen[d].phase = "Rebooting" /\ seen[d].phase = dpu[d].phase
  /\ seen[d].rs.phase = "Succeeded"
  /\ Enter(d) \/ Leave(d)
  /\ UNCHANGED <<method, seen, job, doomed, seenJob, ctlVars, agent, file,
                 answered, rebooted, excused, upsets>>

(* A DPU is deleted and created again.                                     *)
Delete(d) ==
  /\ dpu[d].phase # "Idle" /\ Upset
  /\ Move(d, "Idle", NoStatus)
  /\ file' = [file EXCEPT ![d] = "none"]
  /\ UNCHANGED <<method, seen, job, doomed, seenJob, ctlVars, agent, answered, rebooted, excused, stages>>

-----------------------------------------------------------------------------
(* The DPUNode controller.                                                 *)

(* Reconcile reads the DPUNode and the phases of its DPUs.                 *)
Read ==
  /\ node.pc = "idle"
  /\ node' = [Idle EXCEPT !.pc = "sync", !.phases = {seen[d].phase : d \in DPUs},
                          !.ann = annotation, !.inProgress = inProgress]
  /\ UNCHANGED <<method, dpu, seen, job, doomed, seenJob, annotation, inProgress, agent, file, envVars>>

(* GetDPUsWithPhase, a second read.                                        *)
InScope == {d \in DPUs : seen[d].phase = "Rebooting"}

Go(pc) == node' = [node EXCEPT !.pc = pc]

Update(status, pc, progress) ==
  node' = [node EXCEPT !.pc = "write", !.scope = InScope, !.todo = InScope, !.status = status,
                       !.then = [pc |-> pc, inProgress |-> progress]]

(* HandleRebootSync, up to the reboot of the node: nothing to do for it,   *)
(* or not yet.                                                             *)
HandleRebootSync ==
  /\ node.pc = "sync"
  /\ \/ /\ method = "hostAgent" \/ "Rebooting" \notin node.phases
        /\ Go("ready")
     \/ /\ method # "hostAgent" /\ "Rebooting" \in node.phases
        /\ \/ Cardinality(DPUs) > 1 /\ "Provisioning" \in node.phases
           \/ InScope = {}
           \/ \E d \in InScope : seen[d].rs.phase = "WaitForShutdown"
        /\ Go("patch")
  /\ UNCHANGED <<method, dpu, seen, job, doomed, seenJob, annotation, inProgress, agent, file, envVars>>

RebootDue ==
  /\ node.pc = "sync" /\ "Rebooting" \in node.phases
  /\ ~(Cardinality(DPUs) > 1 /\ "Provisioning" \in node.phases)
  /\ InScope # {}
  /\ \A d \in InScope : seen[d].rs.phase # "WaitForShutdown"

(* processExternalReboot: the annotation first, then the DPUs, then wait   *)
(* for the user to remove it.                                              *)
processExternalReboot ==
  /\ method = "external" /\ RebootDue
  /\ LET condExists == \A d \in InScope : seen[d].rs.phase = "Succeeded" \/ seen[d].rs = Manual
     IN  CASE condExists /\ node.ann ->
                node' = [node EXCEPT !.pc = "ready", !.inProgress = "true"]
           [] condExists /\ ~node.ann -> Update(Succeeded, "ready", "false")
           [] ~condExists /\ ~node.ann ->
                node' = [node EXCEPT !.pc = "ready", !.ask = TRUE, !.inProgress = "true",
                                     !.scope = InScope]
           [] ~condExists /\ node.ann -> Update(Manual, "ready", "true")
  /\ UNCHANGED <<method, dpu, seen, job, doomed, seenJob, annotation, inProgress, agent, file, envVars>>

(* Mutant: a recorded success does not end the work on the Job.            *)
NoneSucceeded == FALSE

allRebootingDPUsSucceeded == \A d \in InScope : seen[d].rs.phase = "Succeeded"
lifecycleActive == \E d \in InScope : scriptRebootLifecycleActive(seen[d].rs)
isJobTerminal == seenJob \in {"complete", "failed"}

(* Mutant: any Job counts as the one of this reboot.                       *)
NeverStale == FALSE

(* Mutant: a Job without a recorded wait is deleted even when it runs.     *)
StaleWhenUnrecorded == ~lifecycleActive /\ seenJob # "none"

isStale == ~lifecycleActive /\ isJobTerminal

ScriptDue == method = "script" /\ RebootDue /\ ~allRebootingDPUsSucceeded

(* reconcileScriptJob, when the Job is left alone: it runs, or it has      *)
(* ended and its end is recorded.  When all have succeeded, nothing is     *)
(* done any more.                                                          *)
reconcileScriptJob ==
  /\ \/ method = "script" /\ RebootDue /\ allRebootingDPUsSucceeded /\ Go("ready")
     \/ ScriptDue /\ ~isStale /\ seenJob \in {"active", "rebooted"} /\ Go("patch")
     \/ ScriptDue /\ ~isStale /\ seenJob = "complete" /\ Update(Succeeded, "ready", "false")
     \/ ScriptDue /\ ~isStale /\ seenJob = "failed" /\ Update(Failed, "ready", "false")
  /\ UNCHANGED <<method, dpu, seen, job, doomed, seenJob, annotation, inProgress, agent, file, envVars>>

(* The Job of an earlier reboot is deleted, in the foreground: it goes when *)
(* its pods have gone.                                                     *)
DeleteStaleJob ==
  /\ ScriptDue /\ isStale
  /\ doomed' = (job # "none")
  /\ Go("patch")
  /\ UNCHANGED <<method, dpu, seen, job, seenJob, annotation, inProgress, agent, file, envVars>>

(* Mutant: a Job that is gone while it is waited for is not created again. *)
JobNotCreatedAgain ==
  /\ ScriptDue /\ seenJob = "none"
  /\ \/ job = "none" /\ ~lifecycleActive /\ job' = "active" /\ Update(Waiting, "patch", "true")
     \/ (job # "none" \/ lifecycleActive) /\ UNCHANGED job /\ Go("patch")
  /\ UNCHANGED <<method, dpu, seen, doomed, seenJob, annotation, inProgress, agent, file, envVars>>

(* handleJobNotFound: the Job is created, unless there is one by now.      *)
handleJobNotFound ==
  /\ ScriptDue /\ seenJob = "none"
  /\ \/ job = "none" /\ job' = "active" /\ Update(Waiting, "patch", "true")
     \/ job # "none" /\ UNCHANGED job /\ Go("patch")
  /\ UNCHANGED <<method, dpu, seen, doomed, seenJob, annotation, inProgress, agent, file, envVars>>

(* The Job cannot be read, which is recorded as a failure of the script.   *)
FetchFails ==
  /\ ScriptDue /\ Upset
  /\ Update(Failed, "patch", node.inProgress)
  /\ excused' = IF {job, seenJob} \cap {"rebooted", "complete"} # {} THEN excused \cup InScope ELSE excused
  /\ UNCHANGED <<method, dpu, seen, job, doomed, seenJob, annotation, inProgress, agent, file,
                 answered, rebooted, stages>>

(* updateDPURebootStatus, one DPU after the other.                         *)
UpdateDPURebootStatus(d) ==
  /\ node.pc = "write" /\ d \in node.todo
  /\ dpu' = [dpu EXCEPT ![d].rs = Patched(d, node.status)]
  /\ node' = IF node.todo = {d}
             THEN [node EXCEPT !.todo = {}, !.pc = node.then.pc,
                               !.inProgress = node.then.inProgress]
             ELSE [node EXCEPT !.todo = @ \ {d}]
  /\ UNCHANGED <<method, seen, job, doomed, seenJob, annotation, inProgress, agent, file, envVars>>

(* An update fails.  The outcome of a Job is in memory already; a failed   *)
(* external reboot is recorded at the DPUs.                                *)
UpdateFails ==
  /\ node.pc = "write" /\ Upset
  /\ node' = IF method = "external" /\ node.status # Refused
             THEN [node EXCEPT !.todo = node.scope, !.status = Refused,
                               !.then = [pc |-> "patch", inProgress |-> node.inProgress]]
             ELSE [node EXCEPT !.pc = "patch", !.todo = {},
                               !.inProgress = IF node.status \in {Succeeded, Failed}
                                              THEN node.then.inProgress ELSE @]
  /\ UNCHANGED <<method, dpu, seen, job, doomed, seenJob, annotation, inProgress, agent, file,
                 answered, rebooted, excused, stages>>

(* Mutant: the condition is left as it is.                                 *)
StaleProgressKept ==
  /\ node.pc = "ready"
  /\ Go("patch")
  /\ UNCHANGED <<method, dpu, seen, job, doomed, seenJob, annotation, inProgress, agent, file,
                 envVars>>

(* noneDPUInNodeEffectOrRebooting: a condition that no DPU stands behind   *)
(* goes, but not while a node effect is in progress.                       *)
noneDPUInNodeEffectOrRebooting ==
  /\ node.pc = "ready"
  /\ \/ /\ node' = [node EXCEPT !.pc = "patch",
                                !.inProgress = IF @ = "true" /\ "Rebooting" \notin node.phases
                                               THEN "none" ELSE @]
        /\ UNCHANGED upsets
     \/ Go("patch") /\ Upset
  /\ UNCHANGED <<method, dpu, seen, job, doomed, seenJob, annotation, inProgress, agent, file,
                 answered, rebooted, excused, stages>>

(* The deferred patch of the DPUNode.                                      *)
Patch ==
  /\ node.pc = "patch"
  /\ annotation' = (annotation \/ node.ask)
  /\ answered' = IF node.ask THEN FALSE ELSE answered
  /\ inProgress' = node.inProgress
  /\ node' = Idle
  /\ UNCHANGED <<method, dpu, seen, job, doomed, seenJob, agent, file, rebooted, excused, stages, upsets>>

(* The patch fails, or the process stops.                                  *)
Crash ==
  /\ node.pc # "idle" /\ Upset
  /\ node' = Idle
  /\ UNCHANGED <<method, dpu, seen, job, doomed, seenJob, annotation, inProgress, agent, file,
                 answered, rebooted, excused, stages>>

-----------------------------------------------------------------------------
(* The host.                                                               *)

HostReboots ==
  /\ Settled
  /\ rebooted' = [d \in DPUs |-> rebooted[d] \/ dpu[d].phase = "Rebooting"]
  /\ file' = [d \in DPUs |-> IF file[d] = "written" THEN "rebooted" ELSE file[d]]
  /\ agent' = AgentIdle

(* The Job reboots the host, and ends.  It may give up before or after.    *)
RunJob ==
  /\ \/ job = "active" /\ HostReboots /\ job' = "rebooted" /\ UNCHANGED upsets
     \/ job = "rebooted" /\ job' = "complete" /\ UNCHANGED <<rebooted, file, agent, upsets>>
     \/ job \in {"active", "rebooted"} /\ job' = "failed" /\ Upset
        /\ UNCHANGED <<rebooted, file, agent>>
  /\ Settled
  /\ UNCHANGED <<method, dpu, seen, doomed, seenJob, ctlVars, answered, excused, stages>>

(* Its time to live is over, which is long enough to record the outcome    *)
(* unless the DPUNode waits for a DPU, or it was deleted, here or by the   *)
(* user.                                                                   *)
JobGone ==
  /\ job # "none" /\ Settled
  /\ \/ doomed /\ UNCHANGED upsets
     \/ /\ job \in {"complete", "failed"}
        /\ \A d \in DPUs : dpu[d] # [phase |-> "Rebooting", rs |-> Waiting]
        /\ UNCHANGED upsets
     \/ job \in {"complete", "failed"} /\ Upset
  /\ job' = "none" /\ doomed' = FALSE
  /\ UNCHANGED <<method, dpu, seen, seenJob, ctlVars, agent, file, answered, rebooted, excused,
                 stages>>

(* The user reboots the host when asked, and then removes the annotation.  *)
(* By then the DPUs are marked, or the DPUNode waits for one of them.      *)
Marked ==
  \/ \E d \in DPUs : dpu[d].phase = "Provisioning" \/ dpu[d].rs = Shutdown
  \/ \A d \in DPUs : dpu[d].phase = "Rebooting" => dpu[d].rs \in {Manual, Succeeded}

User ==
  /\ annotation
  /\ \/ ~answered /\ Marked /\ HostReboots /\ answered' = TRUE /\ UNCHANGED annotation
     \/ answered /\ annotation' = FALSE /\ answered' = FALSE /\ UNCHANGED <<rebooted, file, agent>>
  /\ UNCHANGED <<method, dpu, seen, job, doomed, seenJob, inProgress, node, excused, stages, upsets>>

(* It restarts for a reason of its own.                                    *)
HostRestarts ==
  /\ Upset /\ HostReboots
  /\ UNCHANGED <<method, dpu, seen, job, doomed, seenJob, ctlVars, answered, excused, stages>>

-----------------------------------------------------------------------------
(* The host agent.                                                         *)

IsRebootFinished(d) == file[d] = "rebooted"
NeedRebooting == {d \in DPUs : dpu[d].phase = "Rebooting" /\ ~IsRebootFinished(d)}
Blockers == {d \in DPUs : dpu[d].phase = "Provisioning"}

(* run: with a DPU that is still being provisioned, the others are marked  *)
(* as failed and have to wait.                                             *)
AgentLists ==
  /\ method = "hostAgent" /\ agent.pc = "idle"
  /\ NeedRebooting # {}
  /\ agent' = [pc |-> IF Blockers = {} THEN "persist" ELSE "fail",
               scope |-> NeedRebooting, todo |-> NeedRebooting]
  /\ UNCHANGED <<method, dpu, seen, job, doomed, seenJob, ctlVars, file, envVars>>

PersistBootID(d) ==
  /\ agent.pc = "persist" /\ d \in agent.todo
  /\ file' = [file EXCEPT ![d] = IF dpu[d].phase = "Rebooting" THEN "written" ELSE @]
  /\ agent' = [agent EXCEPT !.todo = @ \ {d}]
  /\ UNCHANGED <<method, dpu, seen, job, doomed, seenJob, ctlVars, envVars>>

AgentReboots ==
  /\ agent.pc = "persist" /\ agent.todo = {}
  /\ HostReboots
  /\ UNCHANGED <<method, dpu, seen, job, doomed, seenJob, ctlVars, answered, excused, stages, upsets>>

(* A file cannot be written, an Arm not shut down or the command fails.    *)
RebootFails ==
  /\ agent.pc = "persist" /\ Upset
  /\ agent' = [agent EXCEPT !.pc = "fail", !.todo = agent.scope]
  /\ UNCHANGED <<method, dpu, seen, job, doomed, seenJob, ctlVars, file, answered, rebooted, excused,
                 stages>>

RecordFailure(d) ==
  /\ agent.pc = "fail" /\ d \in agent.todo
  /\ dpu' = [dpu EXCEPT ![d].rs = IF dpu[d].phase = "Rebooting" THEN Refused ELSE @]
  /\ agent' = IF agent.todo = {d} THEN AgentIdle ELSE [agent EXCEPT !.todo = @ \ {d}]
  /\ UNCHANGED <<method, seen, job, doomed, seenJob, ctlVars, file, envVars>>

(* Handle: after a reboot.                                                 *)
Handle(d) ==
  /\ method = "hostAgent" /\ dpu[d].phase = "Rebooting"
  /\ IsRebootFinished(d) /\ dpu[d].rs # Succeeded
  /\ dpu' = [dpu EXCEPT ![d].rs = Succeeded]
  /\ UNCHANGED <<method, seen, job, doomed, seenJob, ctlVars, agent, file, envVars>>

(* housekeeping: the file of a DPU that is ready again is removed.         *)
housekeeping(d) ==
  /\ method = "hostAgent" /\ dpu[d].phase = "Idle" /\ file[d] # "none"
  /\ file' = [file EXCEPT ![d] = "none"]
  /\ UNCHANGED <<method, dpu, seen, job, doomed, seenJob, ctlVars, agent, envVars>>

-----------------------------------------------------------------------------
Controller == \/ Read \/ HandleRebootSync \/ processExternalReboot \/ reconcileScriptJob
              \/ DeleteStaleJob \/ handleJobNotFound \/ noneDPUInNodeEffectOrRebooting \/ Patch
              \/ \E d \in DPUs : UpdateDPURebootStatus(d)

Next ==
  \/ Controller \/ FetchFails \/ UpdateFails \/ Crash
  \/ JobSync \/ RunJob \/ JobGone \/ User \/ HostRestarts
  \/ AgentLists \/ AgentReboots \/ RebootFails
  \/ \E d \in DPUs : \/ CacheSync(d) \/ Provision(d) \/ Request(d) \/ ArmIsOff(d)
                     \/ CompleteRebooting(d) \/ Delete(d)
                     \/ PersistBootID(d) \/ RecordFailure(d) \/ Handle(d) \/ housekeeping(d)

Spec == Init /\ [][Next]_vars

Fairness ==
  /\ WF_vars(Controller) /\ WF_vars(JobSync) /\ SF_vars(RunJob) /\ SF_vars(JobGone)
  /\ SF_vars(User) /\ WF_vars(AgentLists) /\ SF_vars(AgentReboots)
  /\ \A d \in DPUs : /\ WF_vars(CacheSync(d)) /\ WF_vars(ArmIsOff(d)) /\ WF_vars(Handle(d))
                     /\ WF_vars(CompleteRebooting(d)) /\ WF_vars(PersistBootID(d))
                     /\ WF_vars(RecordFailure(d))
                     /\ WF_vars(dpu[d].phase = "Provisioning" /\ (Request(d) \/ Provision(d)))

FairSpec == Spec /\ Fairness

-----------------------------------------------------------------------------
(* Properties.                                                             *)

Leaves(d) == /\ dpu[d].phase = "Rebooting" /\ dpu'[d].phase # "Rebooting"
             /\ dpu'[d].rs # NoStatus

(* A DPU goes on only when the host was rebooted after it had asked for    *)
(* it, whoever reboots and whatever is left of earlier reboots.  Excepted  *)
(* are the DPUs that begin to wait when the host has been rebooted for     *)
(* others and this is not yet recorded, or whose Job could not be read.    *)
LeavesRebooted == [][\A d \in DPUs : Leaves(d) => rebooted[d] \/ d \in excused]_vars

(* A Job that is about to reboot the host, or has not reported yet, is not *)
(* deleted.                                                                *)
RunningJobKept == doomed => job \in {"complete", "failed"}

(* As long as no call fails, a Job is created only if a DPU that it is for *)
(* has not had the reboot it waits for.                                    *)
NoNeedlessJob ==
  [][job = "none" /\ job' = "active" /\ upsets = 0 => \E d \in node'.scope : ~rebooted[d]]_vars

(* A RebootInProgress without a DPU that waits is taken back.              *)
StaleProgressEnds ==
  inProgress = "true" /\ (\A d \in DPUs : dpu[d].phase # "Rebooting")
    ~> inProgress # "true" \/ \E d \in DPUs : dpu[d].phase = "Rebooting"

(* Every DPU that waits for a reboot gets on.                              *)
RebootCompletes == \A d \in DPUs : dpu[d].phase = "Rebooting" ~> dpu[d].phase # "Rebooting"
=============================================================================
