---------------------------- MODULE DPUSetRollout ----------------------------
(***************************************************************************)
(* The DPUSet controller with the DPUs of one DPUSet: rolling updates,     *)
(* which delete and recreate the DPUs that drifted from the template, and  *)
(* in-place rounds, which reconfigure the others.  Both take DPUs out of   *)
(* service and share one budget, MaxUnavailableDPUNodes.                   *)
(*                                                                         *)
(*   life, dpu    whether the DPU of a device exists or is being deleted,  *)
(*                and its status                                           *)
(*   spec         the template a DPU was created from and whether its      *)
(*                status says Outdated                                     *)
(*   config       the flavor that is applied on a DPU                      *)
(*   born         whether a DPU was created after the round was started    *)
(*   flavor       what the user last wrote in the DPUFlavor                *)
(*   set          the DPUSet: its template, its annotation and its         *)
(*                status.dpuReconfig                                       *)
(*   fresh        whether the second in which the round started still runs *)
(*   cached       the controller's informer copy of the DPUs               *)
(*   pc, mem, plan, blocking  the reconcile under way: where it is, its    *)
(*                DPUSet object, what it is about to write and which DPUs  *)
(*                keep the round open with and without that write          *)
(*   member, target  the DPUs that were Ready when the round was started,  *)
(*                and the flavor of that moment                            *)
(*   raced        whether a DPU became Ready between the plan to mark it   *)
(*                and the mark                                             *)
(*   unsaved      whether a round was started and lost by a crash          *)
(*   flapped      the DPUs whose Node has been NotReady meanwhile          *)
(***************************************************************************)
EXTENDS InPlaceDPU, FiniteSets

CONSTANTS
  N,               \* number of DPUDevices, in the order of their names
  MaxUnavailable,  \* MaxUnavailableDPUNodes
  Lag,             \* whether the informer may be behind
  MaxTemplates,    \* versions of the template
  MaxFlavors,      \* versions of the flavor
  MaxRounds,       \* rounds that are started
  MaxUpsets        \* edits, aborted rounds, Nodes that become NotReady,
                   \* failed calls and crashes of the controller, together

Devices == 1 .. N

ASSUME BoundAssumption ==
  /\ N \in Nat \ {0}
  /\ {MaxTemplates, MaxFlavors} \subseteq Nat \ {0}
  /\ {MaxUnavailable, MaxRounds, MaxUpsets} \subseteq Nat
  /\ Lag \in BOOLEAN

VARIABLES life, dpu, spec, config, born, flavor, set, fresh, cached,
          pc, mem, plan, blocking, member, target, flapped, upsets, unsaved, raced

objects == <<life, dpu, spec, config, born>>
world   == <<flavor, fresh, member, target, flapped>>
process == <<pc, mem, plan, blocking>>
faults  == <<upsets, unsaved, raced>>
vars    == <<objects, world, set, cached, process, faults>>

Plans  == {"none", "complete", "stamp", "clear", "start"}
DPUSet == [requested : BOOLEAN, active : BOOLEAN, round : 0 .. MaxRounds,
           template : 1 .. MaxTemplates, cleared : BOOLEAN]
NoDPUSet == [requested |-> FALSE, active |-> FALSE, round |-> 0, template |-> 1, cleared |-> FALSE]
NoPlan == [d \in Devices |-> "none"]

TypeOK ==
  /\ life \in [Devices -> {"none", "live", "deleting"}]
  /\ dpu \in [Devices -> Status(0 .. MaxRounds, 0 .. 2)]
  /\ spec \in [Devices -> [template : 1 .. MaxTemplates, outdated : BOOLEAN]]
  /\ config \in [Devices -> 0 .. MaxFlavors]
  /\ born \in [Devices -> {"before", "after"}]
  /\ flavor \in 1 .. MaxFlavors
  /\ {set, mem} \subseteq DPUSet
  /\ fresh \in BOOLEAN
  /\ pc \in {"idle", "roll", "plan", "complete", "start", "metadata", "status"}
  /\ plan \in [Devices -> Plans]
  /\ blocking \in [before : SUBSET Devices, after : SUBSET Devices]
  /\ member \subseteq Devices /\ target \in 0 .. MaxFlavors
  /\ flapped \subseteq Devices
  /\ upsets \in 0 .. MaxUpsets /\ {unsaved, raced} \subseteq BOOLEAN

-----------------------------------------------------------------------------
(* Every DPU is Ready, and has been for a while.                           *)
Serving ==
  [NewStatus("Ready") EXCEPT !.ready = TRUE, !.start = 1, !.seen = 1, !.method = "none"]

Init ==
  /\ life = [d \in Devices |-> "live"]
  /\ dpu = [d \in Devices |-> Serving]
  /\ spec = [d \in Devices |-> [template |-> 1, outdated |-> FALSE]]
  /\ config = [d \in Devices |-> 1]
  /\ born = [d \in Devices |-> "before"]
  /\ flavor = 1
  /\ set = NoDPUSet
  /\ mem = NoDPUSet
  /\ fresh = FALSE
  /\ cached = [life |-> life, dpu |-> dpu, spec |-> spec, born |-> born]
  /\ pc = "idle"
  /\ plan = NoPlan
  /\ blocking = [before |-> {}, after |-> {}]
  /\ member = {} /\ target = 0
  /\ flapped = {}
  /\ upsets = 0 /\ unsaved = FALSE /\ raced = FALSE

(* GetDPUsMap reads the informer.                                          *)
Current == [life |-> life, dpu |-> dpu, spec |-> spec, born |-> born]
Listed  == IF Lag THEN cached ELSE Current

CacheSync ==
  /\ Lag /\ cached # Current
  /\ cached' = Current
  /\ UNCHANGED <<objects, world, set, process, faults>>

-----------------------------------------------------------------------------
(* The budget, on a list of DPUs.                                          *)

Owned(list) == {d \in Devices : list.life[d] # "none"}

isUnavailable(list, d) == list.life[d] = "deleting" \/ ~list.dpu[d].ready

inProgressStillReady(list, d) == list.dpu[d].inProgress /\ ~isUnavailable(list, d)

MaxSlots ==
  IF MaxUnavailable < 1 THEN 1 ELSE IF MaxUnavailable > N THEN N ELSE MaxUnavailable

(* Mutant: a marked DPU that still shows Ready is not counted.             *)
TakenIgnoresMarks(list) ==
  (Devices \ Owned(list)) \cup {d \in Owned(list) : isUnavailable(list, d)}

Taken(list) ==
  (Devices \ Owned(list))
    \cup {d \in Owned(list) : isUnavailable(list, d) \/ inProgressStillReady(list, d)}

Slots(unavailable) == IF unavailable >= MaxSlots THEN 0 ELSE MaxSlots - unavailable

-----------------------------------------------------------------------------
(* A reconcile, up to the strategy.                                        *)

(* createMissingDPUs.  A DPU that the list does not show yet exists        *)
(* already, and the Create of it is ignored.                               *)
Begin ==
  /\ pc = "idle"
  /\ mem' = set
  /\ LET missing == {d \in Devices \ Owned(Listed) : life[d] = "none"}
     IN  /\ life' = [d \in Devices |-> IF d \in missing THEN "live" ELSE life[d]]
         /\ dpu' = [d \in Devices |-> IF d \in missing THEN NewStatus("Install") ELSE dpu[d]]
         /\ spec' = [d \in Devices |-> IF d \in missing
                                       THEN [template |-> set.template, outdated |-> FALSE]
                                       ELSE spec[d]]
         /\ config' = [d \in Devices |-> IF d \in missing THEN 0 ELSE config[d]]
         /\ born' = [d \in Devices |-> IF d \notin missing THEN born[d]
                                       ELSE IF set.active /\ ~fresh THEN "after" ELSE "before"]
  /\ pc' = "roll"
  /\ UNCHANGED <<world, set, cached, plan, blocking, faults>>

Drifted(list) == {d \in Owned(list) : list.spec[d].template # mem.template}

(* What rolloutRolling may delete: the drifted DPUs that are out of        *)
(* service anyway, and as many of the others as there are slots, in the    *)
(* order of a Go map.                                                      *)
Deletes(list) ==
  LET available == Drifted(list) \ Taken(list)
      slots     == Slots(Cardinality(Taken(list)))
  IN  {(Drifted(list) \cap Taken(list)) \cup chosen : chosen \in
         {c \in SUBSET available :
            Cardinality(c) = IF slots < Cardinality(available) THEN slots
                             ELSE Cardinality(available)}}

Delete(gone) ==
  /\ member' = member \ gone
  /\ life' = [d \in Devices |-> IF d \in gone /\ life[d] = "live" THEN "deleting" ELSE life[d]]

Upset == upsets < MaxUpsets /\ upsets' = upsets + 1

(* rolloutRolling and reconcileDPUOutdatedStatus.                          *)
Roll ==
  /\ pc = "roll"
  /\ \E gone \in Deletes(Listed) : Delete(gone)
  /\ spec' = [d \in Devices |->
                IF d \in Owned(Listed) /\ life[d] # "none"
                THEN [spec[d] EXCEPT !.outdated = d \in Drifted(Listed)]
                ELSE spec[d]]
  /\ pc' = "plan"
  /\ UNCHANGED <<dpu, config, born, flavor, fresh, target, flapped, set, cached, mem, plan,
                 blocking, faults>>

(* One of the calls fails: what was done stays, and the rest is skipped.   *)
RollFails ==
  /\ pc = "roll"
  /\ Upset
  /\ \E gone \in Deletes(Listed) : \E part \in SUBSET gone : Delete(part)
  /\ pc' = "metadata"
  /\ UNCHANGED <<dpu, spec, config, born, flavor, fresh, target, flapped, set, cached, mem, plan,
                 blocking, unsaved, raced>>

-----------------------------------------------------------------------------
(* A reconcile: the in-place round.                                        *)

readyAtOrAfter(s)   == s.phase = "Ready" /\ s.ready /\ s.since # "before"
readyBeforeRound(s) == s.phase = "Ready" /\ s.ready /\ s.since = "before"

phaseJoinsWithoutNewSlot(s) == s.phase \in {"Converge", "Node Effect"}

(* Not being deleted, and with an agent that knows in-place rounds.        *)
Capable(list, d) == list.life[d] = "live" /\ list.dpu[d].start # 0

(* Mutant: nothing is completed once the annotation is gone.               *)
CompletionNeedsRequest(list, d, round) ==
  LET s        == list.dpu[d]
      outdated == list.spec[d].outdated
      back     == ~outdated /\ readyAtOrAfter(s) /\ mem.requested
  IN  CASE ~Capable(list, d)                                      -> "none"
        [] Capable(list, d) /\ outdated /\ s.inProgress           -> "clear"
        [] Capable(list, d) /\ back /\ s.inProgress               -> "complete"
        [] Capable(list, d) /\ back /\ ~s.inProgress /\ s.completed < round -> "stamp"
        [] OTHER                                                  -> "none"

planInPlaceCompletion(list, d, round) ==
  LET s        == list.dpu[d]
      outdated == list.spec[d].outdated
      back     == ~outdated /\ readyAtOrAfter(s)
  IN  CASE ~Capable(list, d)                                      -> "none"
        [] Capable(list, d) /\ outdated /\ s.inProgress           -> "clear"
        [] Capable(list, d) /\ back /\ s.inProgress               -> "complete"
        [] Capable(list, d) /\ back /\ ~s.inProgress /\ mem.requested
             /\ s.completed < round                               -> "stamp"
        [] OTHER                                                  -> "none"

(* The DPUs of a list that still have to be started.                       *)
Startable(list, round) ==
  {d \in Devices : /\ mem.requested /\ Capable(list, d) /\ ~list.spec[d].outdated
                   /\ ~list.dpu[d].inProgress /\ list.dpu[d].completed < round
                   /\ list.born[d] = "before"
                   /\ planInPlaceCompletion(list, d, round) = "none"}

Planned(list, round) ==
  LET done    == [d \in Devices |-> planInPlaceCompletion(list, d, round)]
      freed   == {d \in Devices : done[d] # "none" /\ inProgressStillReady(list, d)}
      slots   == Slots(Cardinality(Taken(list)) - Cardinality(freed))
      waiting == {d \in Startable(list, round) : readyBeforeRound(list.dpu[d])}
      starts  == {d \in waiting : Cardinality({e \in waiting : e < d}) < slots}
      joins   == {d \in Startable(list, round) : phaseJoinsWithoutNewSlot(list.dpu[d])}
  IN  [d \in Devices |-> IF d \in starts \cup joins THEN "start" ELSE done[d]]

(* The status that a planned write leaves, whatever else was written.      *)
Written(s, p, round) ==
  CASE p = "none"     -> s
    [] p = "complete" -> [s EXCEPT !.inProgress = FALSE, !.completed = round]
    [] p = "stamp"    -> [s EXCEPT !.completed = round]
    [] p = "clear"    -> [s EXCEPT !.inProgress = FALSE]
    [] p = "start"    -> [s EXCEPT !.inProgress = TRUE, !.round = round]

(* Mutant: a DPU that was not started yet does not keep the round open.    *)
BlocksOnlyInProgress(list, d, s, round) == list.life[d] = "live" /\ s.inProgress

(* blocksRound, or roundHasInProgress once the annotation is gone.         *)
Blocks(list, d, s, round) ==
  IF ~mem.requested THEN list.life[d] = "live" /\ s.inProgress
  ELSE /\ Capable(list, d) /\ ~list.spec[d].outdated
       /\ \/ s.inProgress
          \/ /\ s.completed # round /\ list.born[d] = "before"
             /\ s.completed # 0 \/ s.phase = "Ready" \/ phaseJoinsWithoutNewSlot(s)

(* ensureInPlaceRound: the times of the DPUs are compared with the new     *)
(* startedAt from now on.                                                  *)
Opens   == mem.requested /\ ~mem.active

(* Mutant: a round is opened although one is active.                       *)
OpenedAgain == IF mem.requested THEN [mem EXCEPT !.active = TRUE, !.round = @ + 1] ELSE mem

Opened == IF Opens THEN [mem EXCEPT !.active = TRUE, !.round = @ + 1] ELSE mem
Rebased(s) == [d \in Devices |-> IF s[d].since = "now" THEN s[d] ELSE [s[d] EXCEPT !.since = "before"]]
Against(list) ==
  IF Opens THEN [list EXCEPT !.dpu = Rebased(@), !.born = [d \in Devices |-> "before"]] ELSE list

Plan ==
  /\ pc = "plan"
  /\ mem.requested \/ mem.active
  /\ Opens => mem.round < MaxRounds
  /\ mem' = Opened
  /\ dpu' = Against(Current).dpu
  /\ born' = Against(Current).born
  /\ cached' = Against(cached)
  /\ LET list  == Against(Listed)
         round == Opened.round
     IN  /\ plan' = Planned(list, round)
         /\ blocking' =
              [before |-> {d \in Devices : Blocks(list, d, list.dpu[d], round)},
               after  |-> {d \in Devices : Blocks(list, d, Written(list.dpu[d], plan'[d], round), round)}]
  /\ IF Opens
     THEN /\ fresh' = TRUE
          /\ target' = flavor
          /\ member' = {d \in Devices : /\ Capable(Current, d) /\ ~spec[d].outdated
                                        /\ readyBeforeRound(dpu'[d])}
     ELSE UNCHANGED <<fresh, target, member>>
  /\ pc' = IF \E d \in Devices : plan'[d] \in {"complete", "stamp", "clear"} THEN "complete" ELSE "start"
  /\ UNCHANGED <<life, spec, config, flavor, flapped, set, faults>>

(* The end of a reconcile: nothing of it is kept.                          *)
Idle == pc' = "idle" /\ mem' = NoDPUSet /\ plan' = NoPlan /\ blocking' = [before |-> {}, after |-> {}]

NoRound ==
  /\ pc = "plan" /\ ~mem.requested /\ ~mem.active
  /\ Idle
  /\ UNCHANGED <<objects, world, set, cached, faults>>

Write(some) ==
  dpu' = [d \in Devices |-> IF d \in some /\ life[d] # "none"
                            THEN Written(dpu[d], plan[d], mem.round) ELSE dpu[d]]

Forget == pc' = "metadata" /\ plan' = NoPlan /\ blocking' = [before |-> {}, after |-> {}]

Race(marked) == raced' = (raced \/ \E d \in marked : readyAtOrAfter(dpu[d]))

Completions == {d \in Devices : plan[d] \in {"complete", "stamp", "clear"}}
Starts      == {d \in Devices : plan[d] = "start"}

PatchCompletions ==
  /\ pc = "complete"
  /\ Write(Completions)
  /\ pc' = "start"
  /\ UNCHANGED <<life, spec, config, born, world, set, cached, mem, plan, blocking, faults>>

(* The marks, and finishInPlaceRound.  The plan of a DPU that is gone does *)
(* not count.                                                              *)
PatchStarts ==
  /\ pc = "start"
  /\ Write(Starts)
  /\ Race(Starts)
  /\ LET open == \E d \in Devices : d \in IF life[d] = "none" THEN blocking.before
                                          ELSE blocking.after
     IN  mem' = IF open THEN mem
                ELSE [mem EXCEPT !.active = FALSE, !.cleared = mem.requested, !.requested = FALSE]
  /\ Forget
  /\ UNCHANGED <<life, spec, config, born, world, set, cached, upsets, unsaved>>

(* A patch fails after some others, in the order of the names.             *)
PatchFails ==
  /\ pc \in {"complete", "start"}
  /\ Upset
  /\ \E d \in Devices :
       LET all == IF pc = "complete" THEN Completions ELSE Starts
       IN  /\ d \in all /\ Write({e \in all : e < d})
           /\ Race({e \in Starts : pc = "start" /\ e < d})
  /\ Forget
  /\ UNCHANGED <<life, spec, config, born, world, set, cached, mem, unsaved>>

-----------------------------------------------------------------------------
(* A reconcile: the deferred patch of the DPUSet, metadata before status.  *)

PatchMetadata ==
  /\ pc = "metadata"
  /\ set' = IF mem.cleared THEN [set EXCEPT !.requested = FALSE] ELSE set
  /\ pc' = "status"
  /\ UNCHANGED <<objects, world, cached, mem, plan, blocking, faults>>

PatchStatus ==
  /\ pc = "status"
  /\ set' = [set EXCEPT !.active = mem.active, !.round = mem.round]
  /\ Idle
  /\ UNCHANGED <<objects, world, cached, faults>>

(* The controller stops, or the deferred patch fails.                      *)
Crash ==
  /\ pc # "idle"
  /\ Upset
  /\ unsaved' = (unsaved \/ mem.round # set.round)
  /\ Idle
  /\ UNCHANGED <<objects, world, set, cached, raced>>

-----------------------------------------------------------------------------
(* The DPUs, each with its controller and its agent.                       *)

PutDPU(d, s) == s # dpu[d] /\ dpu' = [dpu EXCEPT ![d] = s]

HandleDPU(d) ==
  /\ life[d] = "live"
  /\ LET s == dpu[d]
     IN  \/ JumpDue(s) /\ PutDPU(d, StartInPlaceReconfig(s))
         \/ /\ ~JumpDue(s)
            /\ \/ s.phase = "Install" /\ PutDPU(d, [s EXCEPT !.phase = "DPU Config"])
               \/ s.phase = "Node Effect" /\ PutDPU(d, NodeEffect(s, TRUE))
               \/ s.phase = "Converge" /\ PutDPU(d, [s EXCEPT !.phase = "Ready"])
               \/ s.phase = "Ready" /\ PutDPU(d, Ready(s, TRUE, "no"))
  /\ UNCHANGED <<life, spec, config, born, world, set, cached, process, faults>>

(* The Run of the agent, and DPU Config accepting its report.              *)
Configure(d) ==
  /\ life[d] = "live" /\ dpu[d].phase = "DPU Config"
  /\ PutDPU(d, DPUConfig([dpu[d] EXCEPT !.start = IF dpu[d].seen = 1 THEN 2 ELSE 1,
                                        !.method = "none"]))
  /\ config' = [config EXCEPT ![d] = flavor]
  /\ UNCHANGED <<life, spec, born, world, set, cached, process, faults>>

NodeNotReady(d) ==
  /\ life[d] = "live" /\ dpu[d].phase = "Ready" /\ ~JumpDue(dpu[d])
  /\ Upset
  /\ PutDPU(d, Ready(dpu[d], FALSE, "no"))
  /\ flapped' = flapped \cup {d}
  /\ UNCHANGED <<life, spec, config, born, flavor, fresh, member, target, set, cached, process,
                 unsaved, raced>>

Gone(d) ==
  /\ life[d] = "deleting"
  /\ life' = [life EXCEPT ![d] = "none"]
  /\ dpu' = [dpu EXCEPT ![d] = NewStatus("Install")]
  /\ config' = [config EXCEPT ![d] = 0]
  /\ spec' = [spec EXCEPT ![d] = [template |-> 1, outdated |-> FALSE]]
  /\ born' = [born EXCEPT ![d] = "before"]
  /\ UNCHANGED <<world, set, cached, process, faults>>

(* The clock of the API objects has seconds.                               *)
Tick ==
  /\ fresh \/ \E d \in Devices : dpu[d].since = "now"
  /\ fresh' = FALSE
  /\ LET later == IF set.active \/ mem.active THEN "after" ELSE "before"
         Later(s) == [d \in Devices |-> IF s[d].since = "now" THEN [s[d] EXCEPT !.since = later]
                                        ELSE s[d]]
     IN  dpu' = Later(dpu) /\ cached' = [cached EXCEPT !.dpu = Later(@)]
  /\ UNCHANGED <<life, spec, config, born, flavor, member, target, flapped, set, process, faults>>

-----------------------------------------------------------------------------
(* The user.                                                               *)

EditTemplate ==
  /\ set.template < MaxTemplates
  /\ Upset
  /\ set' = [set EXCEPT !.template = @ + 1]
  /\ UNCHANGED <<objects, world, cached, process, unsaved, raced>>

EditFlavor ==
  /\ flavor < MaxFlavors
  /\ Upset
  /\ flavor' = flavor + 1
  /\ UNCHANGED <<objects, fresh, member, target, flapped, set, cached, process, unsaved, raced>>

Annotate ==
  /\ ~set.requested /\ set.round < MaxRounds /\ mem.round < MaxRounds
  /\ set' = [set EXCEPT !.requested = TRUE]
  /\ UNCHANGED <<objects, world, cached, process, faults>>

Abort ==
  /\ set.requested
  /\ Upset
  /\ set' = [set EXCEPT !.requested = FALSE]
  /\ UNCHANGED <<objects, world, cached, process, unsaved, raced>>

Reconcile ==
  Begin \/ Roll \/ Plan \/ NoRound \/ PatchCompletions \/ PatchStarts \/ PatchMetadata \/ PatchStatus

Next ==
  \/ Reconcile \/ RollFails \/ PatchFails \/ Crash
  \/ \E d \in Devices : HandleDPU(d) \/ Configure(d) \/ NodeNotReady(d) \/ Gone(d)
  \/ Tick
  \/ EditTemplate \/ EditFlavor \/ Annotate \/ Abort

Spec    == Init /\ [][Next]_vars
LagSpec == Init /\ [][Next \/ CacheSync]_vars

FairSpec ==
  /\ Spec
  /\ WF_vars(Reconcile) /\ WF_vars(Tick)
  /\ \A d \in Devices : WF_vars(HandleDPU(d)) /\ WF_vars(Configure(d)) /\ WF_vars(Gone(d))

-----------------------------------------------------------------------------
(* A DPU that serves is deleted by the rolling update, or marked by the    *)
(* round, only if that leaves no more than MaxUnavailableDPUNodes DPUs     *)
(* that either of them has out of service, though the two are separate     *)
(* passes over separate lists and calls fail between them.  It assumes     *)
(* that no DPU became Ready between the list and its mark.                 *)
Out == {d \in Devices : life[d] # "live" \/ dpu[d].inProgress \/ dpu[d].phase # "Ready"}

TakesOut(d) ==
  /\ life[d] = "live" /\ dpu[d].ready /\ ~dpu[d].inProgress
  /\ life'[d] = "deleting" \/ dpu'[d].inProgress

TakenWithinBudget ==
  [][(~raced' /\ \E d \in Devices : TakesOut(d)) => Cardinality(Out') <= MaxSlots]_vars

(* When the controller removes the annotation, every DPU that was Ready at *)
(* the start of the round, was not replaced and stayed Ready up to its     *)
(* turn runs the flavor of that moment or a newer one, unless the          *)
(* controller was stopped before it had saved that it started the round.   *)
Finishing == set.requested /\ ~set'.requested /\ mem.cleared
Applied(d) == spec[d].outdated \/ config[d] >= target

RoundFinished ==
  [][Finishing /\ ~unsaved => \A d \in member \ flapped : Applied(d)]_vars

(* A round ends, whatever the rolling update deletes meanwhile, unless the *)
(* controller was stopped before it had saved the round.                   *)
RoundEnds == (set.active /\ ~unsaved) ~> (~set.active \/ unsaved)
=============================================================================
