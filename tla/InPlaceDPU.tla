----------------------------- MODULE InPlaceDPU -----------------------------
(***************************************************************************)
(* The DPU controller's part of an in-place reconfiguration, as functions  *)
(* from the status of a DPU to the status its phase handler returns.       *)
(*                                                                         *)
(* Four phases between DPU Config and Ready (Host Network Configuration,   *)
(* DPU Cluster Config, Service Readiness and Node Effect Removal) are the  *)
(* one phase "Converge": the in-place code treats them alike.  "Install"   *)
(* stands for the phases from Initialize Interface to OS Installing.       *)
(*                                                                         *)
(* The fields of a status:                                                 *)
(*   phase, ready  the phase and whether the Ready condition is True       *)
(*   since         when Ready became True: before the round was started,   *)
(*                 after it, or "now", in the current second               *)
(*   inProgress, round, completed  status.dpuReconfig                      *)
(*   reconfiguring the DPUReconfiguring condition and the round in its     *)
(*                 message                                                 *)
(*   exit          where Node Effect leads: the two postProvisioning flags *)
(*   start, seen   agentStatus.lastStartupTime, and the copy of it that    *)
(*                 DPU Config last accepted; only their equality is used   *)
(*   method        agentStatus.rebootMethod                                *)
(***************************************************************************)
EXTENDS Naturals

Phases == {"Install", "Node Effect", "DPU Config", "Rebooting", "Converge", "Ready"}

Status(Rounds, Starts) ==
  [phase : Phases, ready : BOOLEAN, since : {"before", "now", "after"},
   inProgress : BOOLEAN, round : Rounds, completed : Rounds,
   reconfiguring : [status : {"none", "true", "returned"}, round : Rounds],
   exit : {"install", "config", "cluster"},
   start : Starts, seen : Starts, method : {"unknown", "none", "host", "os"}]

(* A DPU that was created and has not met its agent yet.                   *)
NewStatus(phase) ==
  [phase |-> phase, ready |-> FALSE, since |-> "before",
   inProgress |-> FALSE, round |-> 0, completed |-> 0,
   reconfiguring |-> [status |-> "none", round |-> 0],
   exit |-> "install", start |-> 0, seen |-> 0, method |-> "unknown"]

NotReady(dpu) == [dpu EXCEPT !.ready = FALSE, !.since = "before"]

-----------------------------------------------------------------------------
(* inPlaceRoundInFlight and inPlaceAlreadyReturned: the round has already  *)
(* left for Node Effect, or has come back to Ready.                        *)
Begun(dpu) ==
  /\ dpu.reconfiguring.status \in {"true", "returned"}
  /\ dpu.reconfiguring.round = dpu.round

(* StartInPlaceReconfig leaves for Node Effect instead of running the      *)
(* handler of the phase.                                                   *)
JumpDue(dpu) ==
  /\ dpu.inProgress
  /\ dpu.phase \in {"Ready", "Converge"}
  /\ ~Begun(dpu)

Reconfiguring(dpu) ==
  [dpu EXCEPT !.reconfiguring = [status |-> "true", round |-> dpu.round],
              !.exit = "config"]

StartInPlaceReconfig(dpu) ==
  [NotReady(Reconfiguring(dpu)) EXCEPT !.phase = "Node Effect"]

(* Mutant: the startup time is not copied on the way to DPU Config.        *)
NodeEffectKeepsSeen(dpu, applied) ==
  LET armed == IF dpu.inProgress THEN Reconfiguring(dpu) ELSE dpu
  IN  CASE ~applied -> armed
        [] applied /\ armed.exit = "config"  -> [armed EXCEPT !.exit = "install", !.phase = "DPU Config"]
        [] applied /\ armed.exit = "cluster" -> [armed EXCEPT !.exit = "install", !.phase = "Converge"]
        [] applied /\ armed.exit = "install" -> [armed EXCEPT !.phase = "Install"]

(* NodeEffect: a mark that arrives in this phase only changes its exit.    *)
NodeEffect(dpu, applied) ==
  LET armed == IF dpu.inProgress THEN Reconfiguring(dpu) ELSE dpu
  IN  CASE ~applied -> armed
        [] applied /\ armed.exit = "config"  ->
             [armed EXCEPT !.exit = "install", !.phase = "DPU Config", !.seen = armed.start]
        [] applied /\ armed.exit = "cluster" -> [armed EXCEPT !.exit = "install", !.phase = "Converge"]
        [] applied /\ armed.exit = "install" -> [armed EXCEPT !.phase = "Install"]

(* DPUConfig waits for a report that it has not accepted before.           *)
DPUConfig(dpu) ==
  CASE dpu.method = "unknown" \/ dpu.start = dpu.seen -> dpu
    [] OTHER -> [dpu EXCEPT !.seen  = dpu.start,
                            !.phase = CASE dpu.method = "none" -> "Converge"
                                        [] dpu.method = "host" -> "Rebooting"
                                        [] dpu.method = "os"   -> "DPU Config"]

(* Ready ends DPUReconfiguring with the round that the DPU carries now,    *)
(* keeps the Ready condition up with the Node of the DPU and, unless a     *)
(* round is in progress, leaves when the metadata of the Node has changed. *)
Ready(dpu, nodeReady, changed) ==
  LET returned == IF dpu.reconfiguring.status = "true"
                  THEN [dpu EXCEPT !.reconfiguring = [status |-> "returned", round |-> dpu.round]]
                  ELSE dpu
      serving  == IF returned.ready THEN returned
                  ELSE [returned EXCEPT !.ready = TRUE, !.since = "now"]
  IN  CASE ~nodeReady                             -> NotReady(returned)
        [] nodeReady /\ changed # "no" /\ ~dpu.inProgress
             -> [NotReady(serving) EXCEPT
                   !.exit  = IF changed = "effect" THEN "cluster" ELSE @,
                   !.phase = IF changed = "effect" THEN "Node Effect" ELSE "Converge"]
        [] OTHER                                  -> serving
=============================================================================
