---------------------------- MODULE AgentReconfig ----------------------------
(***************************************************************************)
(* One DPU through in-place rounds: the DPUSet controller marks it, the    *)
(* DPU controller takes it through Node Effect and DPU Config, and the DPU *)
(* agent, which follows the DPU by a watch, has to notice each return to   *)
(* DPU Config and run its configuration pipeline once more.  Nobody tells  *)
(* the agent to do so: it infers it from the phases it happens to observe, *)
(* while its own Run blocks the watch.                                     *)
(*                                                                         *)
(*   dpu, cache   the status in the API server and the DPU controller's    *)
(*                informer copy of it                                      *)
(*   flavor       metadata.generation of the DPUFlavor                     *)
(*   arm          the agent's reconfigState                                *)
(*   run          the agent's Run: its stage, whether it is the one of     *)
(*                process start, the round it serves, the flavor it loaded *)
(*   watching, queue  whether the watch is open, and the events in it:     *)
(*                TRUE for one that arms a Run, because it shows a phase   *)
(*                after DPU Config and its resourceVersion is still above  *)
(*                seenResourceVersion                                      *)
(*   rebooted     whether the host has rebooted since DPU Config asked     *)
(*   marked       the flavor when the DPU was last marked                  *)
(*   reported     the flavor of the last Run that reported NoAction        *)
(*   served       the last round this process finished a Run for           *)
(*   lost         whether an event was dropped, a reset did not come, or a *)
(*                process was replaced or a reboot asked for when DPU      *)
(*                Config was not waiting for it                            *)
(***************************************************************************)
EXTENDS InPlaceDPU, Sequences

CONSTANTS
  MaxRounds,    \* rounds that mark the DPU
  MaxEdits,     \* edits of the DPUFlavor
  MaxLate,      \* pipeline restarts of a Run that has reported already
  MaxUpsets     \* everything that gets in between: reboots, changes of the
                \* Node's metadata, failed Runs, lost events, new processes

ASSUME BoundAssumption == {MaxRounds, MaxEdits, MaxLate, MaxUpsets} \subseteq Nat

VARIABLES dpu, cache, flavor, arm, run, watching, queue, rebooted,
          marked, reported, served,
          lost, late, upsets

process == <<arm, run, watching, queue, served, lost>>
bounds  == <<late, upsets>>
vars    == <<dpu, cache, flavor, process, rebooted, marked, reported, bounds>>

Off   == [stage |-> "off", boot |-> FALSE, round |-> 0, flavor |-> 0]
Boot  == [stage |-> "begun", boot |-> TRUE, round |-> 0, flavor |-> 0]

(* Mutant: the Run takes itself for the one of the next round.             *)
InPlaceRunAhead(round) == [stage |-> "begun", boot |-> FALSE, round |-> round + 1, flavor |-> 0]

InPlaceRun(round) == [stage |-> "begun", boot |-> FALSE, round |-> round, flavor |-> 0]

Stages == {"off", "begun", "restarted", "started", "loaded", "reported", "blocked"}

(* Every stage of the model is a state the code can be in.                 *)
TypeOK ==
  /\ {dpu, cache} \subseteq Status(0 .. MaxRounds, 0 .. 5)
  /\ flavor \in 1 .. MaxEdits + 1
  /\ arm \in {"idle", "armed"}
  /\ run \in [stage : Stages, boot : BOOLEAN, round : 0 .. MaxRounds, flavor : 0 .. MaxEdits + 1]
  /\ watching \in BOOLEAN
  /\ queue \in Seq(BOOLEAN)
  /\ rebooted \in BOOLEAN
  /\ {marked, reported} \subseteq 0 .. MaxEdits + 1
  /\ served \in 0 .. MaxRounds
  /\ lost \in BOOLEAN
  /\ late \in 0 .. MaxLate
  /\ upsets \in 0 .. MaxUpsets

(* The operating system has just been installed: the agent starts.         *)
Init ==
  /\ dpu = NewStatus("DPU Config")
  /\ cache = dpu
  /\ flavor = 1
  /\ arm = "idle"
  /\ run = Boot
  /\ watching = FALSE
  /\ queue = <<>>
  /\ rebooted = FALSE
  /\ marked = 0
  /\ reported = 0
  /\ served = 0
  /\ lost = FALSE
  /\ late = 0
  /\ upsets = 0

Upset == upsets < MaxUpsets /\ upsets' = upsets + 1

LeftDPUConfig(phase) == phase \in {"Ready", "Converge", "Node Effect"}

(* A write of the status, and the event it causes on an open watch.  Of    *)
(* two equal events in a row the second adds nothing: the GET after the    *)
(* first sees as much.                                                     *)
Put(next) ==
  LET event == LeftDPUConfig(next.phase)
  IN  /\ dpu' = next
      /\ queue' = IF ~watching \/ next = dpu \/ (queue # <<>> /\ queue[Len(queue)] = event)
                  THEN queue
                  ELSE Append(queue, event)

-----------------------------------------------------------------------------
(* The DPUSet controller and the user.                                     *)

(* planInPlaceStart for the next round.  A DPU in the middle of DPU Config *)
(* or of a reboot is not marked.                                           *)
Mark ==
  /\ dpu.round < MaxRounds
  /\ ~dpu.inProgress
  /\ dpu.completed = dpu.round
  /\ dpu.start # 0
  /\ dpu.ready \/ dpu.phase \in {"Converge", "Node Effect"}
  /\ Put([dpu EXCEPT !.inProgress = TRUE, !.round = @ + 1, !.since = "before"])
  /\ marked' = flavor
  /\ UNCHANGED <<cache, flavor, arm, run, watching, served, lost, rebooted, reported, bounds>>

(* planInPlaceCompletion: the DPU has become Ready since the round started. *)
Complete ==
  /\ dpu.inProgress
  /\ dpu.phase = "Ready" /\ dpu.ready /\ dpu.since # "before"
  /\ Put([dpu EXCEPT !.inProgress = FALSE, !.completed = dpu.round])
  /\ UNCHANGED <<cache, flavor, arm, run, watching, served, lost, rebooted, marked, reported, bounds>>

EditFlavor ==
  /\ flavor <= MaxEdits
  /\ flavor' = flavor + 1
  /\ UNCHANGED <<dpu, cache, process, rebooted, marked, reported, bounds>>

-----------------------------------------------------------------------------
(* The DPU controller.  A handler works on the informer's copy, which has  *)
(* its own last write but may miss later ones of the other two; the fields *)
(* it changed are merged into the status.                                  *)

CacheSync ==
  /\ cache # dpu
  /\ cache' = dpu
  /\ UNCHANGED <<dpu, flavor, process, rebooted, marked, reported, bounds>>

Merge(next) == [f \in DOMAIN dpu |-> IF next[f] = cache[f] THEN dpu[f] ELSE next[f]]

Patch(next) ==
  /\ next # cache
  /\ Put(Merge(next))
  /\ cache' = dpu'
  /\ UNCHANGED <<flavor, arm, run, watching, served, lost, marked, reported, late>>

(* patchInPlaceJump fails unless the copy is the current object.           *)
Jump ==
  /\ JumpDue(cache)
  /\ cache = dpu
  /\ Patch(StartInPlaceReconfig(cache))
  /\ UNCHANGED <<rebooted, upsets>>

Handle(phase, next) ==
  /\ ~JumpDue(cache)
  /\ cache.phase = phase
  /\ Patch(next)

HandleNodeEffect ==
  /\ \E applied \in BOOLEAN : Handle("Node Effect", NodeEffect(cache, applied))
  /\ UNCHANGED <<rebooted, upsets>>

(* DPU Config removes the Rebooted condition on the way to Rebooting.      *)
HandleDPUConfig ==
  /\ Handle("DPU Config", DPUConfig(cache))
  /\ rebooted' = (rebooted /\ DPUConfig(cache).phase # "Rebooting")
  /\ UNCHANGED upsets

HandleRebooting ==
  /\ rebooted
  /\ Handle("Rebooting", [cache EXCEPT !.phase = "DPU Config"])
  /\ UNCHANGED <<rebooted, upsets>>

HandleConverge ==
  /\ Handle("Converge", [cache EXCEPT !.phase = "Ready"])
  /\ UNCHANGED <<rebooted, upsets>>

HandleReady ==
  /\ \E changed \in {"no", "cluster", "effect"} :
       /\ IF changed = "no" THEN UNCHANGED upsets ELSE Upset
       /\ Handle("Ready", Ready(cache, TRUE, changed))
  /\ UNCHANGED rebooted

Controller ==
  Jump \/ HandleNodeEffect \/ HandleDPUConfig \/ HandleRebooting \/ HandleConverge \/ HandleReady

-----------------------------------------------------------------------------
(* The DPU agent: what the watch sees.                                     *)

(* Mutant: only the version of an event itself is remembered.              *)
ObservedNothing(events) == events

(* A live GET raises seenResourceVersion above every event still queued.   *)
Observed(events) == IF events = <<>> THEN <<>> ELSE <<FALSE>>

(* maybeReconfigRun, with armed the state after the event was looked at.   *)
MaybeReconfigRun(armed) ==
  \/ /\ LeftDPUConfig(dpu.phase)
     /\ arm' = "armed"
     /\ UNCHANGED run
  \/ /\ dpu.phase = "DPU Config" /\ armed = "armed"
     /\ run' = InPlaceRun(dpu.round)
     /\ arm' = armed
  \/ /\ ~LeftDPUConfig(dpu.phase)
     /\ dpu.phase # "DPU Config" \/ armed = "idle"
     /\ arm' = armed
     /\ UNCHANGED run

Quiet == UNCHANGED <<dpu, cache, flavor, rebooted, marked, reported>>

(* The reconcile before a watch session and the start of the session.  A   *)
(* stream that has expired has delivered all its events.                   *)
OpenWatch ==
  /\ run.stage = "off"
  /\ queue = <<>>
  /\ MaybeReconfigRun(arm)
  /\ watching' = TRUE
  /\ UNCHANGED <<queue, served, lost, bounds>>
  /\ Quiet

WatchEvent ==
  /\ run.stage = "off" /\ watching /\ queue # <<>>
  /\ MaybeReconfigRun(IF Head(queue) THEN "armed" ELSE arm)
  /\ queue' = Observed(Tail(queue))
  /\ UNCHANGED <<watching, served, lost, bounds>>
  /\ Quiet

(* The GET of the reconcile fails: the event is dropped unseen.            *)
WatchEventGetFails ==
  /\ run.stage = "off" /\ watching /\ queue # <<>>
  /\ Upset
  /\ queue' = Tail(queue)
  /\ lost' = TRUE
  /\ UNCHANGED <<arm, run, watching, served, late>>
  /\ Quiet

-----------------------------------------------------------------------------
(* The DPU agent: a Run.                                                   *)

(* Startup times are told apart by the controllers only through equality.  *)
FreshStart == CHOOSE n \in 1 .. 5 : n \notin {dpu.start, dpu.seen, cache.start, cache.seen}

(* The first status that a Run pushes.  resetStatusForRun has put Unknown  *)
(* in it; a pipeline that was restarted keeps what its Run had reported.   *)
ReportStart ==
  /\ run.stage \in {"begun", "restarted"}
  /\ Put([dpu EXCEPT !.start  = FreshStart,
                     !.method = IF run.stage = "begun" THEN "unknown" ELSE @])
  /\ run' = [run EXCEPT !.stage = "started"]
  /\ UNCHANGED <<cache, flavor, arm, watching, served, lost, rebooted, marked, reported, bounds>>

LoadFlavor ==
  /\ run.stage = "started"
  /\ run' = [run EXCEPT !.stage = "loaded", !.flavor = flavor]
  /\ UNCHANGED <<arm, watching, queue, served, lost, bounds>>
  /\ Quiet

(* HandleReboot without a reboot: the Run has more operations after this.  *)
ReportNoAction ==
  /\ run.stage = "loaded"
  /\ Put([dpu EXCEPT !.method = "none"])
  /\ run' = [run EXCEPT !.stage = "reported"]
  /\ reported' = run.flavor
  /\ UNCHANGED <<cache, flavor, arm, watching, served, lost, rebooted, marked, bounds>>

(* HandleReboot asking for a reboot.  For a SystemReboot it does not wait. *)
(* Nobody acts on the answer unless DPU Config waits for it.               *)
ReportReboot ==
  /\ run.stage = "loaded"
  /\ Upset
  /\ \E method \in {"host", "os"}, stage \in {"reported", "blocked"} :
       /\ method = "os" => stage = "blocked"
       /\ Put([dpu EXCEPT !.method = method])
       /\ run' = [run EXCEPT !.stage = stage]
  /\ lost' = (lost \/ dpu.start = dpu.seen \/ dpu.phase \notin {"DPU Config", "Rebooting"})
  /\ UNCHANGED <<cache, flavor, arm, watching, served, rebooted, marked, reported, late>>

(* The reset does not come: blockUntilReset gives up and HandleReboot is   *)
(* tried again.                                                            *)
BlockTimesOut ==
  /\ run.stage = "blocked"
  /\ run' = [run EXCEPT !.stage = "loaded"]
  /\ lost' = TRUE
  /\ UNCHANGED <<arm, watching, queue, served, bounds>>
  /\ Quiet

(* A retry of an operation finds a newer flavor.                           *)
RestartPipeline ==
  /\ run.stage \in {"loaded", "reported"}
  /\ run.flavor # flavor
  /\ run.stage = "reported" => late < MaxLate
  /\ late' = IF run.stage = "reported" THEN late + 1 ELSE late
  /\ run' = [run EXCEPT !.stage = "restarted"]
  /\ UNCHANGED <<arm, watching, queue, served, lost, upsets>>
  /\ Quiet

(* Mutant: the round is not looked at after the Run.                       *)
RunEndsIdle ==
  /\ run.stage = "reported"
  /\ run' = Off
  /\ IF run.boot
     THEN UNCHANGED <<arm, queue, served>>
     ELSE /\ queue' = Observed(queue)
          /\ served' = run.round
          /\ arm' = IF LeftDPUConfig(dpu.phase) THEN "armed" ELSE "idle"
  /\ UNCHANGED <<watching, lost, bounds>>
  /\ Quiet

(* The Run of process start only hands over to the watch loop; after a Run *)
(* of the watch the live round decides what comes next.                    *)
RunEnds ==
  /\ run.stage = "reported"
  /\ IF run.boot
     THEN run' = Off /\ UNCHANGED <<arm, queue, served>>
     ELSE /\ queue' = Observed(queue)
          /\ served' = run.round
          /\ \/ /\ dpu.inProgress /\ dpu.round > run.round /\ dpu.phase = "DPU Config"
                /\ run' = InPlaceRun(dpu.round)
                /\ UNCHANGED arm
             \/ /\ ~(dpu.inProgress /\ dpu.round > run.round /\ dpu.phase = "DPU Config")
                /\ run' = Off
                /\ arm' = IF LeftDPUConfig(dpu.phase) THEN "armed" ELSE "idle"
  /\ UNCHANGED <<watching, lost, bounds>>
  /\ Quiet

(* The process is gone with its state, and the next one starts its Run.    *)
(* That Run is as good as any while DPU Config waits for a report.         *)
NewProcess ==
  /\ run' = Boot
  /\ arm' = "idle"
  /\ watching' = FALSE
  /\ queue' = <<>>
  /\ served' = 0
  /\ lost' = (lost \/ dpu.phase \notin {"DPU Config", "Rebooting"})

(* A Run that fails, or the GET after it: the agent stays armed.  The Run  *)
(* of process start takes the process with it.                             *)
RunFails ==
  /\ run.stage \in {"begun", "restarted", "started", "loaded", "reported"}
  /\ Upset
  /\ IF run.boot
     THEN NewProcess
     ELSE /\ run' = Off
          /\ arm' = "armed"
          /\ UNCHANGED <<watching, queue, served, lost>>
  /\ UNCHANGED late
  /\ Quiet

-----------------------------------------------------------------------------
(* The machines.                                                           *)

(* The host reboots because the DPU is in Rebooting, or the DPU resets     *)
(* itself.                                                                 *)
Reboot ==
  /\ \/ dpu.phase = "Rebooting" /\ ~rebooted /\ rebooted' = TRUE
     \/ run.stage = "blocked" /\ dpu.method = "os" /\ UNCHANGED rebooted
  /\ NewProcess
  /\ UNCHANGED <<dpu, cache, flavor, marked, reported, bounds>>

RestartProcess ==
  /\ Upset
  /\ NewProcess
  /\ UNCHANGED late
  /\ Quiet

Run == ReportStart \/ LoadFlavor \/ ReportNoAction \/ RunEnds
Watch == OpenWatch \/ WatchEvent

Next ==
  \/ Mark \/ Complete \/ EditFlavor
  \/ CacheSync \/ Controller
  \/ Watch \/ WatchEventGetFails
  \/ Run \/ ReportReboot \/ BlockTimesOut \/ RestartPipeline \/ RunFails
  \/ Reboot \/ RestartProcess

Spec == Init /\ [][Next]_vars

FairSpec ==
  /\ Spec
  /\ WF_vars(Complete) /\ WF_vars(CacheSync) /\ WF_vars(Controller)
  /\ WF_vars(OpenWatch) /\ WF_vars(WatchEvent)
  /\ WF_vars(Run) /\ WF_vars(Reboot) /\ WF_vars(BlockTimesOut)

-----------------------------------------------------------------------------
(* A round is complete only after a Run that loaded the flavor the round   *)
(* was started for, or a later one, has reported that no reboot is needed. *)
(* The jump, the copy of the startup time that Node Effect takes and the   *)
(* comparison in DPU Config are there for this: an earlier report must not *)
(* be taken for the one of this round.  A Run whose pipeline was restarted *)
(* after its report is excepted: its second report repeats the first one   *)
(* before it has loaded the new flavor.                                    *)
CompletedConfigured ==
  late = 0 /\ dpu.round > 0 /\ dpu.completed = dpu.round => reported >= marked

(* Events that queued up behind a Run do not start another one for a round *)
(* that the agent has served: maybeReconfigRun compares resource versions  *)
(* and rounds for this.                                                    *)
NoSecondRun ==
  [][run'.stage = "begun" /\ ~run'.boot /\ run.stage \in {"off", "reported"}
       => run'.round > served']_vars

(* Once the agent has noticed the Node Effect of a round, it takes the DPU *)
(* out of the DPU Config that follows, whatever becomes of the Run it may  *)
(* be in, of the events behind it and of the reboots, unless on the way an *)
(* event is dropped, a reset does not come, the process is replaced or a   *)
(* reboot asked for too late.                                              *)
ArmedConfigEnds ==
  (dpu.phase = "Node Effect" /\ arm = "armed" /\ ~lost)
    ~> (dpu.phase \notin {"Node Effect", "DPU Config"} \/ lost)

(* A DPU that joins a round completes it, as the in-place guide says of    *)
(* one that is past DPU Config in its first install.                       *)
JoinedRoundCompletes == dpu.inProgress ~> ~dpu.inProgress
=============================================================================
