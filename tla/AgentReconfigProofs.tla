------------------------ MODULE AgentReconfigProofs ------------------------
(***************************************************************************)
(* Proofs about the rounds of one DPU and its agent, for every number of   *)
(* rounds, edits, late restarts and upsets.                                *)
(*                                                                         *)
(* The two properties need more than they say.  That a complete round was  *)
(* configured (CompletedConfigured) depends on which report DPU Config may *)
(* take for the report of the round: every report that it has not seen     *)
(* before has to come from a Run that loaded the flavor after the mark     *)
(* (ReportInv).  That a served round is not run again (NoSecondRun)        *)
(* depends on every way in which the agent can become armed: in DPU Config *)
(* with the round already served, the agent is idle and no queued event    *)
(* can arm it (RunInv).  Both rest on how far the informer copy of the DPU *)
(* controller may lag (CacheInv), because its handlers decide from the     *)
(* copy and write to the object.                                           *)
(***************************************************************************)
EXTENDS AgentReconfig, TLAPS

(* The DPU is in a round that its controller has taken up.                 *)
InRound == dpu.inProgress /\ Begun(dpu)

(* The Run of the round in progress is still to come: no agent can have    *)
(* started it, because the DPU has not left for DPU Config yet.            *)
Awaited == dpu.inProgress /\ (dpu.phase = "Node Effect" \/ ~Begun(dpu))

(* The informer copy has every field that only the DPU controller writes,  *)
(* and lags in the others by at most one mark; once a round has begun it   *)
(* shows the mark.  A copied startup time is the current one if DPU Config *)
(* would refuse it.                                                        *)
CacheInv ==
  /\ cache.phase = dpu.phase /\ cache.ready = dpu.ready /\ cache.reconfiguring = dpu.reconfiguring
  /\ cache.exit = dpu.exit /\ cache.seen = dpu.seen
  /\ dpu.reconfiguring.round <= cache.round /\ cache.round <= dpu.round
  /\ dpu.inProgress /\ cache.round = dpu.round => cache.inProgress
  /\ cache.inProgress /\ cache.phase # "Ready" => dpu.inProgress /\ cache.round = dpu.round
  /\ cache.round # dpu.round => dpu.ready \/ dpu.phase \in {"Converge", "Node Effect"}
  /\ dpu.start = dpu.seen => cache.start = dpu.start

(* What the mark, the jump and the completion keep: a round in progress    *)
(* that was not taken up has a Ready time before it, and is in a phase     *)
(* from which it will be taken up.                                         *)
RoundInv ==
  /\ dpu.ready => dpu.phase = "Ready"
  /\ dpu.completed <= dpu.round
  /\ dpu.inProgress => dpu.completed < dpu.round
  /\ dpu.inProgress /\ ~Begun(dpu) =>
       dpu.since = "before" /\ dpu.phase \in {"Ready", "Converge", "Node Effect"}
  /\ dpu.phase = "Node Effect" => dpu.exit # "install" /\ (dpu.exit = "config" => InRound)

(* A Run of the watch belongs to a round that is not served and not newer  *)
(* than the DPU's; a round that is awaited is neither served nor run; in   *)
(* DPU Config with the round served nothing can arm the agent.             *)
RunInv ==
  /\ run.stage # "off" /\ ~run.boot => served < run.round /\ run.round <= dpu.round
  /\ Awaited => /\ served < dpu.round
                /\ run.stage # "off" /\ ~run.boot => run.round < dpu.round
  /\ dpu.phase \in {"DPU Config", "Rebooting"} /\ dpu.round = served =>
       arm = "idle" /\ \A i \in 1 .. Len(queue) : queue[i] = FALSE
  /\ served <= dpu.round

(* The flavors that were marked, reported and loaded are not ahead of the  *)
(* user, and a Run loads no older flavor than the last report's.           *)
FlavorInv ==
  /\ marked <= flavor /\ reported <= flavor
  /\ run.stage \in {"loaded", "reported", "blocked"} => reported <= run.flavor /\ run.flavor <= flavor

(* While DPU Config waits in a round, a report that it may accept, in the  *)
(* object or in the informer copy, is one of a Run that loaded the marked  *)
(* flavor; after DPU Config that Run has reported.  In Node Effect the     *)
(* same holds of what was pushed after the copy was taken, because Node    *)
(* Effect copies the startup time from the copy.                           *)
ReportInv ==
  /\ run.stage \in {"started", "restarted", "loaded", "blocked"} => dpu.method # "none"
  /\ InRound /\ dpu.phase \in {"DPU Config", "Rebooting"} =>
       /\ dpu.start # dpu.seen /\ dpu.method = "none" => marked <= reported
       /\ cache.start # cache.seen /\ cache.method = "none" => marked <= reported
       /\ dpu.start # dpu.seen /\ run.stage \in {"loaded", "blocked"} => marked <= run.flavor
  /\ dpu.inProgress /\ cache.inProgress /\ dpu.phase = "Node Effect" /\ dpu.start # cache.start =>
       /\ dpu.method = "none" => marked <= reported
       /\ run.stage \in {"loaded", "blocked"} => marked <= run.flavor
  /\ InRound /\ dpu.phase \in {"Converge", "Ready"} => marked <= reported

(* The inductive invariant.  A late pipeline restart repeats an old        *)
(* report, so the last two parts are kept only while there was none.       *)
IInv == /\ TypeOK /\ CacheInv /\ RoundInv /\ RunInv /\ FlavorInv
        /\ late = 0 => ReportInv /\ CompletedConfigured

-----------------------------------------------------------------------------
(* Types.                                                                  *)

(* The statuses.                                                           *)
St == Status(0 .. MaxRounds, 0 .. 5)

(* The fields that a handler of the DPU controller does not write.         *)
SameOwn(next, x) ==
  /\ next.inProgress = x.inProgress /\ next.round = x.round /\ next.completed = x.completed
  /\ next.start = x.start /\ next.method = x.method

(* The merge of a handler's changes into the object is a status.           *)
LEMMA MergeType ==
  ASSUME dpu \in St, cache \in St, NEW next \in St
  PROVE  Merge(next) \in St
BY DEF St, Status, Merge

(* Merge keeps the fields of the others and takes those of the handler.    *)
LEMMA MergeFields ==
  ASSUME dpu \in St, cache \in St, CacheInv, NEW next \in St, SameOwn(next, cache)
  PROVE  /\ SameOwn(Merge(next), dpu)
         /\ Merge(next).phase = next.phase /\ Merge(next).ready = next.ready
         /\ Merge(next).reconfiguring = next.reconfiguring /\ Merge(next).exit = next.exit
         /\ Merge(next).seen = next.seen
         /\ Merge(next).since = IF next.since = cache.since THEN dpu.since ELSE next.since
BY ZenonT(40) DEF St, Status, Merge, SameOwn, CacheInv

(* TypeOK, one variable at a time.                                         *)
LEMMA Types ==
  TypeOK <=> /\ dpu \in St /\ cache \in St
             /\ flavor \in 1 .. MaxEdits + 1
             /\ arm \in {"idle", "armed"}
             /\ run \in [stage : Stages, boot : BOOLEAN, round : 0 .. MaxRounds, flavor : 0 .. MaxEdits + 1]
             /\ watching \in BOOLEAN
             /\ queue \in Seq(BOOLEAN)
             /\ rebooted \in BOOLEAN
             /\ marked \in 0 .. MaxEdits + 1 /\ reported \in 0 .. MaxEdits + 1
             /\ served \in 0 .. MaxRounds
             /\ lost \in BOOLEAN
             /\ late \in 0 .. MaxLate
             /\ upsets \in 0 .. MaxUpsets
BY Zenon DEF TypeOK, St

(* There is a startup time that nobody holds.                              *)
LEMMA Fresh ==
  ASSUME dpu \in St, cache \in St
  PROVE  FreshStart \in (1 .. 5) \ {dpu.start, dpu.seen, cache.start, cache.seen}
<1>1. \E n \in 1 .. 5 : n \notin {dpu.start, dpu.seen, cache.start, cache.seen}
  <2> DEFINE a == dpu.start  b == dpu.seen  c == cache.start  d == cache.seen
  <2>1. \E n \in {1, 2, 3, 4, 5} : n \notin {a, b, c, d}
    <3> HIDE DEF a, b, c, d
    <3> QED OBVIOUS
  <2> QED
    BY <2>1
<1> QED
  BY Zenon, <1>1 DEF FreshStart

(* StartInPlaceReconfig, field by field.                                   *)
LEMMA JumpFields ==
  ASSUME NEW x \in St, NEW y, y = StartInPlaceReconfig(x)
  PROVE  /\ y \in St /\ SameOwn(y, x) /\ y.phase = "Node Effect" /\ y.ready = FALSE /\ y.since = "before"
         /\ y.reconfiguring = [status |-> "true", round |-> x.round] /\ y.exit = "config" /\ y.seen = x.seen
<1> DEFINE r == Reconfiguring(x)
<1>1. /\ r \in St /\ SameOwn(r, x) /\ r.reconfiguring = [status |-> "true", round |-> x.round]
      /\ r.exit = "config" /\ r.seen = x.seen
  BY Zenon DEF St, Status, Reconfiguring, SameOwn
<1>2. y = [NotReady(r) EXCEPT !.phase = "Node Effect"]
  BY Zenon DEF StartInPlaceReconfig
<1> HIDE DEF r
<1>3. y \in St
  BY Zenon, <1>1, <1>2 DEF St, Status, NotReady, Phases
<1>4. y.phase = "Node Effect" /\ y.ready = FALSE /\ y.since = "before"
  BY Zenon, <1>1, <1>2 DEF St, Status, NotReady
<1>5. y.reconfiguring = r.reconfiguring /\ y.exit = r.exit /\ y.seen = r.seen /\ SameOwn(y, r)
  BY Zenon, <1>1, <1>2 DEF St, Status, NotReady, SameOwn
<1> QED
  BY Zenon, <1>1, <1>3, <1>4, <1>5 DEF SameOwn

(* What NodeEffect does: a round in progress always goes to DPU Config     *)
(* with the copied startup time.                                           *)
NodeEffectTo(x, y) ==
  /\ y.ready = x.ready /\ y.since = x.since
  /\ x.inProgress => y.reconfiguring = [status |-> "true", round |-> x.round]
  /\ ~x.inProgress => y.reconfiguring = x.reconfiguring
  /\ \/ /\ y.phase = "Node Effect" /\ y.seen = x.seen
        /\ y.exit = IF x.inProgress THEN "config" ELSE x.exit
     \/ /\ y.phase = "DPU Config" /\ y.seen = x.start
        /\ x.inProgress \/ x.exit = "config"
     \/ /\ y.phase = "Converge" \/ (y.phase = "Install" /\ x.exit = "install")
        /\ y.seen = x.seen /\ ~x.inProgress

(* NodeEffect does NodeEffectTo.                                           *)
LEMMA NodeEffectFields ==
  ASSUME NEW x \in St, NEW applied \in BOOLEAN, NEW y, y = NodeEffect(x, applied), x.phase = "Node Effect"
  PROVE  y \in St /\ SameOwn(y, x) /\ NodeEffectTo(x, y)
<1> DEFINE armed == IF x.inProgress THEN Reconfiguring(x) ELSE x
<1>1. /\ armed \in St /\ SameOwn(armed, x) /\ armed.phase = "Node Effect"
      /\ armed.ready = x.ready /\ armed.since = x.since /\ armed.seen = x.seen
      /\ armed.exit = IF x.inProgress THEN "config" ELSE x.exit
      /\ armed.reconfiguring = IF x.inProgress THEN [status |-> "true", round |-> x.round] ELSE x.reconfiguring
  BY ZenonT(40) DEF St, Status, Reconfiguring, SameOwn
<1>2. y = CASE ~applied -> armed
            [] applied /\ armed.exit = "config"  ->
                 [armed EXCEPT !.exit = "install", !.phase = "DPU Config", !.seen = armed.start]
            [] applied /\ armed.exit = "cluster" -> [armed EXCEPT !.exit = "install", !.phase = "Converge"]
            [] applied /\ armed.exit = "install" -> [armed EXCEPT !.phase = "Install"]
  BY Zenon DEF NodeEffect
<1> HIDE DEF armed
<1>3. armed.exit \in {"install", "config", "cluster"} /\ x.inProgress \in BOOLEAN
  BY Zenon, <1>1 DEF St, Status
<1>4. CASE ~applied
  <2>1. y = armed
    BY Zenon, <1>2, <1>4
  <2> QED
    BY Zenon, <1>1, <1>3, <2>1 DEF NodeEffectTo
<1>5. CASE applied /\ armed.exit = "config"
  <2>1. y = [armed EXCEPT !.exit = "install", !.phase = "DPU Config", !.seen = armed.start]
    BY Zenon, <1>2, <1>5
  <2>2. y \in St /\ y.phase = "DPU Config" /\ y.seen = armed.start
    BY ZenonT(40), <1>1, <2>1 DEF St, Status, Phases
  <2>3. SameOwn(y, armed) /\ y.ready = armed.ready /\ y.since = armed.since /\ y.reconfiguring = armed.reconfiguring
    BY ZenonT(40), <1>1, <2>1 DEF St, Status, SameOwn
  <2> QED
    BY Zenon, <1>1, <1>3, <1>5, <2>2, <2>3 DEF SameOwn, NodeEffectTo
<1>6. CASE applied /\ armed.exit = "cluster"
  <2>1. y = [armed EXCEPT !.exit = "install", !.phase = "Converge"]
    BY Zenon, <1>2, <1>6
  <2>2. y \in St /\ y.phase = "Converge" /\ y.seen = armed.seen
    BY Zenon, <1>1, <2>1 DEF St, Status, Phases
  <2>3. SameOwn(y, armed) /\ y.ready = armed.ready /\ y.since = armed.since /\ y.reconfiguring = armed.reconfiguring
    BY Zenon, <1>1, <2>1 DEF St, Status, SameOwn
  <2> QED
    BY Zenon, <1>1, <1>3, <1>6, <2>2, <2>3 DEF SameOwn, NodeEffectTo
<1>7. CASE applied /\ armed.exit = "install"
  <2>1. y = [armed EXCEPT !.phase = "Install"]
    BY Zenon, <1>2, <1>7
  <2>2. y \in St /\ y.phase = "Install" /\ y.seen = armed.seen
    BY Zenon, <1>1, <2>1 DEF St, Status, Phases
  <2>3. SameOwn(y, armed) /\ y.ready = armed.ready /\ y.since = armed.since /\ y.reconfiguring = armed.reconfiguring
    BY Zenon, <1>1, <2>1 DEF St, Status, SameOwn
  <2> QED
    BY Zenon, <1>1, <1>3, <1>7, <2>2, <2>3 DEF SameOwn, NodeEffectTo
<1> QED
  BY Zenon, <1>3, <1>4, <1>5, <1>6, <1>7

(* The fields that DPU Config, Rebooting and Converge leave alone.         *)
Kept(y, x) == /\ SameOwn(y, x) /\ y.ready = x.ready /\ y.since = x.since
              /\ y.reconfiguring = x.reconfiguring /\ y.exit = x.exit

(* DPUConfig either waits or accepts a new report and leaves as its reboot *)
(* method says.                                                            *)
LEMMA ConfigFields ==
  ASSUME NEW x \in St, NEW y, y = DPUConfig(x), y # x
  PROVE  /\ y \in St /\ Kept(y, x) /\ y.seen = x.start /\ x.start # x.seen
         /\ \/ y.phase = "Converge" /\ x.method = "none"
            \/ y.phase = "Rebooting" /\ x.method = "host"
            \/ y.phase = "DPU Config" /\ x.method = "os"
<1>1. x.method # "unknown" /\ x.start # x.seen
  BY Zenon DEF DPUConfig
<1> DEFINE p == CASE x.method = "none" -> "Converge"
                  [] x.method = "host" -> "Rebooting"
                  [] x.method = "os"   -> "DPU Config"
<1>2. y = [x EXCEPT !.seen  = x.start, !.phase = p]
  BY Zenon, <1>1 DEF DPUConfig
<1>3. \/ p = "Converge" /\ x.method = "none"
      \/ p = "Rebooting" /\ x.method = "host"
      \/ p = "DPU Config" /\ x.method = "os"
  BY Zenon, <1>1 DEF St, Status
<1> HIDE DEF p
<1>4. y \in St /\ y.phase = p /\ y.seen = x.start
  BY Zenon, <1>2, <1>3 DEF St, Status, Phases
<1>5. Kept(y, x)
  BY Zenon, <1>2 DEF St, Status, Kept, SameOwn
<1> QED
  BY Zenon, <1>1, <1>3, <1>4, <1>5

(* A change of the phase alone.                                            *)
LEMMA PhaseFields ==
  ASSUME NEW x \in St, NEW phase \in Phases, NEW y, y = [x EXCEPT !.phase = phase]
  PROVE  y \in St /\ Kept(y, x) /\ y.seen = x.seen /\ y.phase = phase
BY Zenon DEF St, Status, Kept, SameOwn

(* What Ready does: DPUReconfiguring ends with the round of the DPU, and   *)
(* the DPU leaves Ready only outside a round.                              *)
ReadyTo(x, y) ==
  /\ y.seen = x.seen
  /\ y.reconfiguring = IF x.reconfiguring.status = "true"
                       THEN [status |-> "returned", round |-> x.round] ELSE x.reconfiguring
  /\ \/ /\ y.phase = "Ready" /\ y.ready /\ y.exit = x.exit
        /\ y.since = IF x.ready THEN x.since ELSE "now"
     \/ /\ y.phase \in {"Node Effect", "Converge"} /\ ~y.ready /\ y.since = "before" /\ ~x.inProgress
        /\ y.phase = "Node Effect" => y.exit = "cluster"

(* Ready does ReadyTo.                                                     *)
LEMMA ReadyFields ==
  ASSUME NEW x \in St, NEW changed \in {"no", "cluster", "effect"}, NEW y, y = Ready(x, TRUE, changed),
         x.phase = "Ready"
  PROVE  y \in St /\ SameOwn(y, x) /\ ReadyTo(x, y)
<1> DEFINE returned == IF x.reconfiguring.status = "true"
                       THEN [x EXCEPT !.reconfiguring = [status |-> "returned", round |-> x.round]]
                       ELSE x
           serving  == IF returned.ready THEN returned
                       ELSE [returned EXCEPT !.ready = TRUE, !.since = "now"]
<1>1. y = CASE changed # "no" /\ ~x.inProgress
             -> [NotReady(serving) EXCEPT
                   !.exit  = IF changed = "effect" THEN "cluster" ELSE @,
                   !.phase = IF changed = "effect" THEN "Node Effect" ELSE "Converge"]
          [] OTHER -> serving
  BY Zenon DEF Ready
<1>2. /\ returned \in St /\ SameOwn(returned, x) /\ returned.seen = x.seen /\ returned.phase = x.phase
      /\ returned.ready = x.ready /\ returned.since = x.since /\ returned.exit = x.exit
      /\ returned.reconfiguring = IF x.reconfiguring.status = "true"
                              THEN [status |-> "returned", round |-> x.round] ELSE x.reconfiguring
  BY ZenonT(40) DEF St, Status, SameOwn
<1>3. x.ready \in BOOLEAN /\ x.inProgress \in BOOLEAN
  BY Zenon DEF St, Status
<1>4. /\ serving \in St /\ SameOwn(serving, returned) /\ serving.seen = returned.seen /\ serving.phase = returned.phase
      /\ serving.ready /\ serving.since = (IF returned.ready THEN returned.since ELSE "now")
      /\ serving.exit = returned.exit /\ serving.reconfiguring = returned.reconfiguring
  <2> HIDE DEF returned
  <2> QED
    BY ZenonT(40), <1>2 DEF St, Status, SameOwn
<1> HIDE DEF serving, returned
<1>5. CASE changed # "no" /\ ~x.inProgress
  <2>1. y = [NotReady(serving) EXCEPT
                   !.exit  = IF changed = "effect" THEN "cluster" ELSE @,
                   !.phase = IF changed = "effect" THEN "Node Effect" ELSE "Converge"]
    BY Zenon, <1>1, <1>5
  <2>2. y \in St
    BY ZenonT(90), <1>4, <2>1 DEF St, Status, NotReady, Phases
  <2>3. SameOwn(y, serving) /\ y.seen = serving.seen /\ y.reconfiguring = serving.reconfiguring
    BY ZenonT(40), <1>4, <2>1 DEF St, Status, NotReady, SameOwn
  <2>4. /\ y.phase \in {"Node Effect", "Converge"} /\ y.since = "before" /\ y.ready = FALSE
        /\ y.phase = "Node Effect" => y.exit = "cluster"
    BY ZenonT(40), <1>4, <2>1 DEF St, Status, NotReady
  <2> QED
    BY ZenonT(40), <1>2, <1>4, <1>5, <2>2, <2>3, <2>4 DEF SameOwn, ReadyTo
<1>6. CASE ~(changed # "no" /\ ~x.inProgress)
  <2>1. y = serving
    BY Zenon, <1>1, <1>6
  <2> QED
    BY Zenon, <1>2, <1>3, <1>4, <2>1 DEF SameOwn, ReadyTo
<1> QED
  BY Zenon, <1>5, <1>6

-----------------------------------------------------------------------------
(* The DPU controller's handlers.                                          *)

(* At most one event is queued, that of the phase written.                 *)
Event(phase) == \/ queue' = queue
                \/ queue' = Append(queue, LeftDPUConfig(phase))

(* A write queues at most its own event.                                   *)
LEMMA PutStep ==
  ASSUME NEW next, Put(next)
  PROVE  dpu' = next /\ Event(next.phase)
BY Zenon DEF Put, Event

(* The queue stays a sequence of events.                                   *)
LEMMA EventType ==
  ASSUME queue \in Seq(BOOLEAN), NEW phase, Event(phase)
  PROVE  queue' \in Seq(BOOLEAN)
<1>1. LeftDPUConfig(phase) \in BOOLEAN
  BY DEF LeftDPUConfig
<1> QED
  BY <1>1 DEF Event

(* What a handler that returned y leaves: its own fields are those of y,   *)
(* the others those of the object, and the copy is the new object.         *)
Effect(y) ==
  /\ y \in St /\ SameOwn(y, cache)
  /\ cache' = dpu' /\ dpu' \in St /\ SameOwn(dpu', dpu)
  /\ dpu'.phase = y.phase /\ dpu'.ready = y.ready /\ dpu'.reconfiguring = y.reconfiguring
  /\ dpu'.exit = y.exit /\ dpu'.seen = y.seen
  /\ dpu'.since = IF y.since = cache.since THEN dpu.since ELSE y.since
  /\ Event(y.phase)
  /\ UNCHANGED <<flavor, arm, run, watching, served, lost, marked, reported, late>>

(* A patch of y has that effect.                                           *)
LEMMA PatchStep ==
  ASSUME TypeOK, CacheInv, NEW y \in St, SameOwn(y, cache), Patch(y)
  PROVE  Effect(y)
<1>1. dpu \in St /\ cache \in St
  BY Zenon, Types
<1>2. Put(Merge(y)) /\ cache' = dpu'
  BY Zenon DEF Patch
<1>3. dpu' = Merge(y) /\ Event(Merge(y).phase)
  BY Zenon, <1>2, PutStep
<1>4. UNCHANGED <<flavor, arm, run, watching, served, lost, marked, reported, late>>
  BY Zenon DEF Patch
<1> QED
  BY Zenon, <1>1, <1>2, <1>3, <1>4, MergeType, MergeFields DEF Effect

(* The five ways in which the DPU controller moves a DPU, as relations     *)
(* between the copy it read and the status it returned.  First the jump.   *)
JumpStep(y) ==
  /\ cache = dpu /\ JumpDue(dpu)
  /\ y.phase = "Node Effect" /\ y.ready = FALSE /\ y.since = "before"
  /\ y.reconfiguring = [status |-> "true", round |-> cache.round] /\ y.exit = "config" /\ y.seen = cache.seen

(* Node Effect, with or without its exit.                                  *)
NodeEffectStep(y) == cache.phase = "Node Effect" /\ NodeEffectTo(cache, y)

(* DPU Config accepts a report.                                            *)
ConfigStep(y) ==
  /\ cache.phase = "DPU Config" /\ Kept(y, cache) /\ y.seen = cache.start /\ cache.start # cache.seen
  /\ \/ y.phase = "Converge" /\ cache.method = "none"
     \/ y.phase = "Rebooting" /\ cache.method = "host"
     \/ y.phase = "DPU Config" /\ cache.method = "os"

(* Rebooting and Converge go to the next phase.                            *)
PhaseStep(y) ==
  /\ ~JumpDue(cache) /\ Kept(y, cache) /\ y.seen = cache.seen
  /\ \/ cache.phase = "Rebooting" /\ y.phase = "DPU Config"
     \/ cache.phase = "Converge" /\ y.phase = "Ready"

(* Ready.                                                                  *)
ReadyStep(y) == ~JumpDue(cache) /\ cache.phase = "Ready" /\ ReadyTo(cache, y)

(* Every step of the DPU controller is one of the five.                    *)
LEMMA ControllerCases ==
  ASSUME TypeOK, CacheInv, Controller
  PROVE  /\ rebooted' \in BOOLEAN /\ upsets' \in 0 .. MaxUpsets
         /\ \E y : Effect(y) /\ (JumpStep(y) \/ NodeEffectStep(y) \/ ConfigStep(y) \/ PhaseStep(y) \/ ReadyStep(y))
<1>t. dpu \in St /\ cache \in St /\ rebooted \in BOOLEAN /\ upsets \in 0 .. MaxUpsets
  BY Zenon, Types
<1>1. CASE Jump
  <2>1. PICK y : y = StartInPlaceReconfig(cache)
    OBVIOUS
  <2>2. Patch(y) /\ cache = dpu /\ JumpDue(dpu)
    BY Zenon, <1>1, <2>1 DEF Jump
  <2>3. y \in St /\ SameOwn(y, cache) /\ JumpStep(y)
    BY ZenonT(90), <1>t, <2>1, <2>2, JumpFields DEF JumpStep
  <2>4. Effect(y)
    BY Zenon, <2>2, <2>3, PatchStep
  <2> QED
    BY Zenon, <1>1, <1>t, <2>3, <2>4 DEF Jump
<1>2. CASE HandleNodeEffect
  <2>1. PICK applied \in BOOLEAN : Handle("Node Effect", NodeEffect(cache, applied))
    BY Zenon, <1>2 DEF HandleNodeEffect
  <2>2. PICK y : y = NodeEffect(cache, applied)
    OBVIOUS
  <2>3. Patch(y) /\ cache.phase = "Node Effect"
    BY Zenon, <2>1, <2>2 DEF Handle
  <2>4. y \in St /\ SameOwn(y, cache) /\ NodeEffectStep(y)
    BY Zenon, <1>t, <2>2, <2>3, NodeEffectFields DEF NodeEffectStep
  <2>5. Effect(y)
    BY Zenon, <2>3, <2>4, PatchStep
  <2> QED
    BY Zenon, <1>2, <1>t, <2>4, <2>5 DEF HandleNodeEffect
<1>3. CASE HandleDPUConfig
  <2>1. PICK y : y = DPUConfig(cache)
    OBVIOUS
  <2>2. Patch(y) /\ cache.phase = "DPU Config" /\ y # cache
    BY Zenon, <1>3, <2>1 DEF HandleDPUConfig, Handle, Patch
  <2>3. y \in St /\ SameOwn(y, cache) /\ ConfigStep(y)
    BY ZenonT(40), <1>t, <2>1, <2>2, ConfigFields DEF ConfigStep, Kept
  <2>4. Effect(y)
    BY Zenon, <2>2, <2>3, PatchStep
  <2>5. rebooted' \in BOOLEAN
    BY <1>3, <1>t, Zenon DEF HandleDPUConfig
  <2>6. upsets' = upsets
    BY Zenon, <1>3 DEF HandleDPUConfig
  <2> QED
    BY Zenon, <1>t, <2>3, <2>4, <2>5, <2>6
<1>4. CASE HandleRebooting \/ HandleConverge
  <2>1. PICK phase \in {"DPU Config", "Ready"} : /\ ~JumpDue(cache) /\ Patch([cache EXCEPT !.phase = phase])
                                                 /\ \/ cache.phase = "Rebooting" /\ phase = "DPU Config"
                                                    \/ cache.phase = "Converge" /\ phase = "Ready"
    BY Zenon, <1>4 DEF HandleRebooting, HandleConverge, Handle
  <2>2. PICK y : y = [cache EXCEPT !.phase = phase]
    BY Zenon
  <2>3. y \in St /\ Kept(y, cache) /\ y.seen = cache.seen /\ y.phase = phase
    BY ZenonT(90), <1>t, <2>2, PhaseFields DEF Phases
  <2>4. SameOwn(y, cache) /\ PhaseStep(y)
    BY Zenon, <2>1, <2>3 DEF Kept, PhaseStep
  <2>5. Effect(y)
    BY Zenon, <2>1, <2>2, <2>3, <2>4, PatchStep
  <2> QED
    BY Zenon, <1>4, <1>t, <2>4, <2>5 DEF HandleRebooting, HandleConverge
<1>5. CASE HandleReady
  <2>1. PICK changed \in {"no", "cluster", "effect"} :
          /\ IF changed = "no" THEN UNCHANGED upsets ELSE Upset
          /\ Handle("Ready", Ready(cache, TRUE, changed))
    BY Zenon, <1>5 DEF HandleReady
  <2>2. PICK y : y = Ready(cache, TRUE, changed)
    BY Zenon
  <2>3. Patch(y) /\ cache.phase = "Ready" /\ ~JumpDue(cache)
    BY Zenon, <2>1, <2>2 DEF Handle
  <2>4. y \in St /\ SameOwn(y, cache) /\ ReadyStep(y)
    BY Zenon, <1>t, <2>2, <2>3, ReadyFields DEF ReadyStep
  <2>5. Effect(y)
    BY Zenon, <2>3, <2>4, PatchStep
  <2>6. upsets' \in 0 .. MaxUpsets
    BY <1>t, <2>1, BoundAssumption DEF Upset
  <2>7. rebooted' = rebooted
    BY Zenon, <1>5 DEF HandleReady
  <2> QED
    BY Zenon, <1>t, <2>4, <2>5, <2>6, <2>7
<1> QED
  BY <1>1, <1>2, <1>3, <1>4, <1>5, Zenon DEF Controller

(* The five ways together.                                                 *)
Steps(y) == JumpStep(y) \/ NodeEffectStep(y) \/ ConfigStep(y) \/ PhaseStep(y) \/ ReadyStep(y)

(* The fields of a status that are compared.                               *)
LEMMA Ints ==
  ASSUME NEW x \in St
  PROVE  /\ x.round \in Nat /\ x.completed \in Nat /\ x.reconfiguring.round \in Nat
         /\ x.inProgress \in BOOLEAN /\ x.ready \in BOOLEAN
         /\ x.reconfiguring.status \in {"none", "true", "returned"}
         /\ x.phase \in Phases
BY BoundAssumption DEF St, Status

(* The copy shows the mark of a round that has begun.                      *)
LEMMA MarkSeen ==
  ASSUME TypeOK, CacheInv
  PROVE  /\ dpu.inProgress /\ Begun(dpu) => cache.round = dpu.round /\ cache.inProgress
         /\ dpu.inProgress /\ Begun(dpu) => Begun(cache)
<1>1. dpu \in St /\ cache \in St
  BY Zenon, Types
<1>2. dpu.round \in Nat /\ cache.round \in Nat /\ dpu.reconfiguring.round \in Nat
  BY Zenon, <1>1, Ints
<1>3. /\ cache.reconfiguring = dpu.reconfiguring
      /\ dpu.reconfiguring.round <= cache.round /\ cache.round <= dpu.round
      /\ dpu.inProgress /\ cache.round = dpu.round => cache.inProgress
  BY Zenon DEF CacheInv
<1>4. ASSUME dpu.inProgress, Begun(dpu) PROVE cache.round = dpu.round
  BY <1>2, <1>3, <1>4 DEF Begun
<1> QED
  BY Zenon, <1>3, <1>4 DEF Begun

(* A handler of Ready or Converge runs in a round only after the jump.     *)
LEMMA JumpFirst ==
  ASSUME ~JumpDue(cache), cache.phase \in {"Ready", "Converge"}, cache.inProgress
  PROVE  Begun(cache)
BY Zenon DEF JumpDue

(* The DPU controller keeps CacheInv.                                      *)
LEMMA CacheHandled ==
  ASSUME TypeOK, CacheInv, NEW y, Effect(y), Steps(y)
  PROVE  CacheInv'
<1>1. /\ dpu \in St /\ cache \in St /\ dpu' \in St /\ cache' = dpu' /\ dpu'.round = dpu.round
      /\ dpu'.reconfiguring = y.reconfiguring
  BY Zenon, Types DEF Effect, SameOwn
<1>2. y.reconfiguring = cache.reconfiguring \/ y.reconfiguring.round = cache.round
  <2>0. ASSUME NEW s, y.reconfiguring = [status |-> s, round |-> cache.round]
        PROVE  y.reconfiguring.round = cache.round
    BY <2>0
  <2>1. CASE JumpStep(y)
    <3>1. y.reconfiguring = [status |-> "true", round |-> cache.round]
      BY Zenon, <2>1 DEF JumpStep
    <3> QED
      BY Zenon, <2>0, <3>1
  <2>2. CASE NodeEffectStep(y)
    <3>1. y.reconfiguring = cache.reconfiguring \/ y.reconfiguring = [status |-> "true", round |-> cache.round]
      BY Zenon, <2>2 DEF NodeEffectStep, NodeEffectTo
    <3> QED
      BY Zenon, <2>0, <3>1
  <2>3. CASE ConfigStep(y) \/ PhaseStep(y)
    BY Zenon, <2>3 DEF ConfigStep, PhaseStep, Kept
  <2>4. CASE ReadyStep(y)
    <3>1. y.reconfiguring = cache.reconfiguring \/ y.reconfiguring = [status |-> "returned", round |-> cache.round]
      BY Zenon, <2>4 DEF ReadyStep, ReadyTo
    <3> QED
      BY Zenon, <2>0, <3>1
  <2> QED
    BY Zenon, <2>1, <2>2, <2>3, <2>4 DEF Steps
<1>3. dpu'.reconfiguring.round <= dpu'.round
  <2>1. /\ dpu.round \in Nat /\ cache.round \in Nat /\ dpu.reconfiguring.round \in Nat
        /\ cache.reconfiguring = dpu.reconfiguring
        /\ dpu.reconfiguring.round <= cache.round /\ cache.round <= dpu.round
    BY Zenon, <1>1, Ints DEF CacheInv
  <2> QED
    BY <1>1, <1>2, <2>1
<1>4. cache'.round <= dpu'.round
  BY <1>1, Ints
<1> QED
  BY Zenon, <1>1, <1>3, <1>4 DEF CacheInv

(* A handler does not undo the begin of a round, and only the jump and     *)
(* Node Effect begin one.                                                  *)
LEMMA BegunHandled ==
  ASSUME TypeOK, CacheInv, NEW y, Effect(y), Steps(y), dpu.inProgress
  PROVE  /\ Begun(dpu) => Begun(dpu')
         /\ ~JumpStep(y) /\ Begun(dpu') => Begun(dpu) \/ (cache.phase = "Node Effect" /\ cache.inProgress)
<1>t. dpu \in St /\ cache \in St /\ dpu' \in St
  BY Zenon, Types DEF Effect
<1>1. dpu'.round = dpu.round /\ dpu'.reconfiguring = y.reconfiguring /\ cache.reconfiguring = dpu.reconfiguring
  BY Zenon DEF Effect, SameOwn, CacheInv
<1>2. CASE JumpStep(y)
  <2>1. y.reconfiguring = [status |-> "true", round |-> dpu.round] /\ cache = dpu /\ JumpDue(dpu)
    BY Zenon, <1>2 DEF JumpStep
  <2>2. ~Begun(dpu) /\ dpu.phase \in {"Ready", "Converge"} /\ Begun(dpu')
    BY <1>1, <2>1 DEF Begun, JumpDue
  <2> QED
    BY Zenon, <1>2, <2>1, <2>2
<1>3. CASE NodeEffectStep(y)
  <2>1. cache.phase = "Node Effect" /\ cache.inProgress \in BOOLEAN
    BY Zenon, <1>3, <1>t, Ints DEF NodeEffectStep
  <2>2. CASE cache.inProgress
    <3>1. y.reconfiguring = [status |-> "true", round |-> cache.round]
      BY Zenon, <1>3, <2>2 DEF NodeEffectStep, NodeEffectTo
    <3>2. cache.round = dpu.round
      BY Zenon, <2>1, <2>2 DEF CacheInv
    <3>3. Begun(dpu')
      BY <1>1, <3>1, <3>2 DEF Begun
    <3> QED
      BY Zenon, <2>1, <2>2, <3>3
  <2>3. CASE ~cache.inProgress
    BY Zenon, <1>1, <1>3, <2>1, <2>3 DEF NodeEffectStep, NodeEffectTo, Begun
  <2> QED
    BY Zenon, <2>2, <2>3
<1>4. CASE ConfigStep(y) \/ PhaseStep(y)
  BY Zenon, <1>1, <1>4 DEF ConfigStep, PhaseStep, Kept, Begun
<1>5. CASE ReadyStep(y)
  <2>1. cache.phase = "Ready" /\ ~JumpDue(cache)
    BY Zenon, <1>5 DEF ReadyStep
  <2>2. CASE cache.reconfiguring.status = "true"
    <3>1. y.reconfiguring = [status |-> "returned", round |-> cache.round]
      BY Zenon, <1>5, <2>2 DEF ReadyStep, ReadyTo
    <3>2. Begun(dpu) => Begun(dpu')
      BY <1>1, <3>1, MarkSeen DEF Begun
    <3>3. ASSUME Begun(dpu')
          PROVE  Begun(dpu)
      <4>1. cache.round = dpu.round
        BY <1>1, <3>1, <3>3 DEF Begun
      <4>2. cache.inProgress
        BY Zenon, <4>1 DEF CacheInv
      <4>3. Begun(cache)
        BY Zenon, <2>1, <4>2, JumpFirst
      <4> QED
        BY Zenon, <1>1, <4>1, <4>3 DEF Begun
    <3> QED
      BY Zenon, <2>1, <3>2, <3>3
  <2>3. CASE cache.reconfiguring.status # "true"
    BY Zenon, <1>1, <1>5, <2>1, <2>3 DEF ReadyStep, ReadyTo, Begun
  <2> QED
    BY Zenon, <2>2, <2>3
<1> QED
  BY Zenon, <1>2, <1>3, <1>4, <1>5 DEF Steps

(* The DPU controller keeps RoundInv.                                      *)
LEMMA RoundHandled ==
  ASSUME TypeOK, CacheInv, RoundInv, NEW y, Effect(y), Steps(y)
  PROVE  RoundInv'
<1>t. dpu \in St /\ cache \in St /\ dpu' \in St
  BY Zenon, Types DEF Effect
<1>1. /\ dpu'.round = dpu.round /\ dpu'.completed = dpu.completed /\ dpu'.inProgress = dpu.inProgress
      /\ dpu'.phase = y.phase /\ dpu'.ready = y.ready /\ dpu'.exit = y.exit
      /\ dpu'.since = IF y.since = cache.since THEN dpu.since ELSE y.since
  BY Zenon DEF Effect, SameOwn
<1>2. dpu'.ready => dpu'.phase = "Ready"
  <2>1. dpu.ready => dpu.phase = "Ready"
    BY Zenon DEF RoundInv
  <2>2. cache.ready = dpu.ready /\ cache.phase = dpu.phase
    BY Zenon DEF CacheInv
  <2>3. CASE JumpStep(y)
    BY Zenon, <1>1, <2>3 DEF JumpStep
  <2>4. CASE NodeEffectStep(y)
    BY Zenon, <1>1, <2>1, <2>2, <2>4 DEF NodeEffectStep, NodeEffectTo
  <2>5. CASE ConfigStep(y) \/ PhaseStep(y)
    BY Zenon, <1>1, <2>1, <2>2, <2>5 DEF ConfigStep, PhaseStep, Kept
  <2>6. CASE ReadyStep(y)
    BY Zenon, <1>1, <2>6 DEF ReadyStep, ReadyTo
  <2> QED
    BY Zenon, <2>3, <2>4, <2>5, <2>6 DEF Steps
<1>3. ASSUME dpu.inProgress, ~Begun(dpu')
      PROVE  dpu'.since = "before" /\ dpu'.phase \in {"Ready", "Converge", "Node Effect"}
  <2>1. ~Begun(dpu) /\ dpu.since = "before" /\ dpu.phase \in {"Ready", "Converge", "Node Effect"}
    BY Zenon, <1>3, BegunHandled DEF RoundInv
  <2>2. cache.phase = dpu.phase /\ cache.ready = dpu.ready
    BY Zenon DEF CacheInv
  <2>3. CASE JumpStep(y)
    BY Zenon, <1>1, <2>1, <2>3 DEF JumpStep
  <2>4. CASE NodeEffectStep(y)
    <3>1. ~cache.inProgress
      <4>1. ASSUME cache.inProgress PROVE FALSE
        <5>1. cache.phase = "Node Effect" /\ y.reconfiguring = [status |-> "true", round |-> cache.round]
          BY Zenon, <2>4, <4>1 DEF NodeEffectStep, NodeEffectTo
        <5>2. cache.round = dpu.round
          BY Zenon, <4>1, <5>1 DEF CacheInv
        <5>3. dpu'.reconfiguring = [status |-> "true", round |-> dpu'.round]
          BY Zenon, <1>1, <5>1, <5>2 DEF Effect
        <5> QED
          BY <1>3, <5>3 DEF Begun
      <4> QED
        BY Zenon, <4>1
    <3>2. cache.exit # "config"
      BY Zenon, <1>3, <2>1, <2>2, <2>4 DEF NodeEffectStep, RoundInv, InRound, CacheInv
    <3>3. y.since = cache.since /\ y.phase \in {"Node Effect", "Converge"}
      BY Zenon, <2>2, <2>4, <3>1, <3>2 DEF NodeEffectStep, NodeEffectTo, RoundInv, CacheInv
    <3> QED
      BY Zenon, <1>1, <2>1, <3>3
  <2>5. CASE ConfigStep(y)
    BY Zenon, <2>1, <2>2, <2>5 DEF ConfigStep
  <2>6. CASE PhaseStep(y)
    BY Zenon, <1>1, <2>1, <2>2, <2>6 DEF PhaseStep, Kept
  <2>7. CASE ReadyStep(y)
    <3>1. cache.ready \/ y.phase # "Ready"
      <4>1. ASSUME ~cache.ready, y.phase = "Ready" PROVE FALSE
        <5>1. cache.round = dpu.round /\ cache.inProgress
          BY Zenon, <1>3, <2>2, <2>7, <4>1 DEF CacheInv, ReadyStep
        <5>2. Begun(cache)
          BY Zenon, <2>7, <5>1, JumpFirst DEF ReadyStep
        <5> QED
          BY Zenon, <2>1, <5>1, <5>2 DEF Begun, CacheInv
      <4> QED
        BY Zenon, <4>1
    <3>2. y.phase \in {"Ready", "Converge", "Node Effect"} /\ y.since \in {cache.since, "before"}
      BY Zenon, <3>1, <2>7 DEF ReadyStep, ReadyTo
    <3> QED
      BY Zenon, <1>1, <2>1, <3>2
  <2> QED
    BY Zenon, <1>3, <2>3, <2>4, <2>5, <2>6, <2>7 DEF Steps
<1>4. ASSUME dpu'.phase = "Node Effect"
      PROVE  dpu'.exit # "install" /\ (dpu'.exit = "config" => dpu.inProgress /\ Begun(dpu'))
  <2>2. cache.phase = dpu.phase /\ cache.exit = dpu.exit
    BY Zenon DEF CacheInv
  <2>3. CASE JumpStep(y)
    <3>1. dpu.inProgress /\ y.reconfiguring = [status |-> "true", round |-> dpu.round] /\ y.exit = "config"
      BY Zenon, <2>3 DEF JumpStep, JumpDue
    <3> QED
      BY <1>1, <3>1 DEF Begun, Effect
  <2>4. CASE NodeEffectStep(y)
    <3>1. y.exit = (IF cache.inProgress THEN "config" ELSE cache.exit) /\ cache.phase = "Node Effect"
      BY Zenon, <1>1, <1>4, <2>4 DEF NodeEffectStep, NodeEffectTo
    <3>2. CASE cache.inProgress
      <4>1. dpu.inProgress /\ cache.round = dpu.round
        BY Zenon, <3>1, <3>2 DEF CacheInv
      <4>2. y.reconfiguring = [status |-> "true", round |-> cache.round]
        BY Zenon, <2>4, <3>2 DEF NodeEffectStep, NodeEffectTo
      <4>3. dpu'.reconfiguring = [status |-> "true", round |-> dpu'.round]
        BY Zenon, <1>1, <4>1, <4>2 DEF Effect
      <4>4. dpu'.exit = "config"
        BY Zenon, <1>1, <3>1, <3>2
      <4> QED
        BY <4>1, <4>3, <4>4 DEF Begun
    <3>3. CASE ~cache.inProgress
      <4>1. y.exit = dpu.exit /\ dpu.phase = "Node Effect"
        BY Zenon, <2>2, <3>1, <3>3
      <4> QED
        BY Zenon, <1>1, <4>1, BegunHandled DEF RoundInv, InRound
    <3> QED
      BY Zenon, <3>2, <3>3
  <2>5. CASE ConfigStep(y) \/ PhaseStep(y)
    BY Zenon, <1>1, <1>4, <2>5 DEF ConfigStep, PhaseStep
  <2>6. CASE ReadyStep(y)
    BY Zenon, <1>1, <1>4, <2>6 DEF ReadyStep, ReadyTo
  <2> QED
    BY Zenon, <2>3, <2>4, <2>5, <2>6 DEF Steps
<1>5. dpu'.completed <= dpu'.round /\ (dpu'.inProgress => dpu'.completed < dpu'.round)
  BY Zenon, <1>1 DEF RoundInv
<1> QED
  BY Zenon, <1>1, <1>2, <1>3, <1>4, <1>5 DEF RoundInv, InRound

(* An event either arms a Run or does not.                                 *)
LEMMA EventBool ==
  ASSUME NEW phase
  PROVE  LeftDPUConfig(phase) \in BOOLEAN
BY DEF LeftDPUConfig

(* The events of DPU Config and Rebooting do not.                          *)
LEMMA ConfigEvent ==
  ASSUME NEW phase \in {"DPU Config", "Rebooting"}
  PROVE  LeftDPUConfig(phase) = FALSE
<1>1. ~LeftDPUConfig(phase)
  BY Zenon DEF LeftDPUConfig
<1> QED
  BY <1>1, EventBool, Zenon

(* A queue without arming events stays so when one of those is added.      *)
LEMMA QuietAppend ==
  ASSUME NEW q \in Seq(BOOLEAN), \A i \in 1 .. Len(q) : q[i] = FALSE
  PROVE  \A i \in 1 .. Len(Append(q, FALSE)) : Append(q, FALSE)[i] = FALSE
OBVIOUS

(* The DPU controller keeps RunInv: it enters DPU Config with an unserved  *)
(* round only.                                                             *)
LEMMA RunHandled ==
  ASSUME TypeOK, CacheInv, RoundInv, RunInv, NEW y, Effect(y), Steps(y)
  PROVE  RunInv'
<1>t. dpu \in St /\ cache \in St /\ dpu' \in St /\ served \in Nat /\ dpu.round \in Nat
  BY Types, Ints, BoundAssumption DEF Effect
<1>q. queue \in Seq(BOOLEAN)
  BY Zenon, Types
<1>1. /\ dpu'.round = dpu.round /\ dpu'.inProgress = dpu.inProgress /\ dpu'.phase = y.phase
      /\ UNCHANGED <<run, served, arm>>
  BY Zenon DEF Effect, SameOwn
<1>2. cache.phase = dpu.phase
  BY Zenon DEF CacheInv
<1>3. Awaited' => Awaited
  <2>1. ASSUME dpu.inProgress, ~Begun(dpu') PROVE ~Begun(dpu)
    BY Zenon, <2>1, BegunHandled
  <2>2. ASSUME dpu.inProgress, y.phase = "Node Effect", dpu.phase # "Node Effect"
        PROVE  ~Begun(dpu)
    <3>1. JumpStep(y) \/ ReadyStep(y)
      BY Zenon, <1>2, <2>2 DEF Steps, NodeEffectStep, ConfigStep, PhaseStep
    <3>2. CASE JumpStep(y)
      BY Zenon, <3>2 DEF JumpStep, JumpDue
    <3>3. CASE ReadyStep(y)
      <4>1. ~cache.inProgress
        BY Zenon, <2>2, <3>3 DEF ReadyStep, ReadyTo
      <4> QED
        BY Zenon, <2>2, <4>1, MarkSeen
    <3> QED
      BY Zenon, <3>1, <3>2, <3>3
  <2> QED
    BY Zenon, <1>1, <2>1, <2>2 DEF Awaited
<1>4. ASSUME dpu'.phase \in {"DPU Config", "Rebooting"}, dpu'.round = served
      PROVE  arm = "idle" /\ \A i \in 1 .. Len(queue') : queue'[i] = FALSE
  <2>1. dpu.phase \in {"DPU Config", "Rebooting"}
    <3>1. CASE NodeEffectStep(y)
      <4>1. cache.inProgress \/ cache.exit = "config"
        BY Zenon, <1>1, <1>4, <3>1 DEF NodeEffectStep, NodeEffectTo
      <4>2. dpu.phase = "Node Effect" /\ dpu.inProgress
        BY Zenon, <1>2, <3>1, <4>1 DEF NodeEffectStep, CacheInv, RoundInv, InRound
      <4>3. served < dpu.round
        BY Zenon, <4>2 DEF RunInv, Awaited
      <4>4. served = dpu.round
        BY Zenon, <1>1, <1>4
      <4>5. FALSE
        BY <1>t, <4>3, <4>4
      <4> QED
        BY Zenon, <4>5
    <3>2. CASE ConfigStep(y) \/ PhaseStep(y)
      BY Zenon, <1>1, <1>2, <1>4, <3>2 DEF ConfigStep, PhaseStep
    <3>3. CASE JumpStep(y) \/ ReadyStep(y)
      BY Zenon, <1>1, <1>4, <3>3 DEF JumpStep, ReadyStep, ReadyTo
    <3> QED
      BY Zenon, <3>1, <3>2, <3>3 DEF Steps
  <2>2. arm = "idle" /\ \A i \in 1 .. Len(queue) : queue[i] = FALSE
    BY Zenon, <1>1, <1>4, <2>1 DEF RunInv
  <2>3. queue' = queue \/ queue' = Append(queue, FALSE)
    <3>1. LeftDPUConfig(y.phase) = FALSE
      BY Zenon, <1>1, <1>4, ConfigEvent
    <3> QED
      BY <3>1, Zenon DEF Effect, Event
  <2>4. \A i \in 1 .. Len(queue') : queue'[i] = FALSE
    BY Zenon, <1>q, <2>2, <2>3, QuietAppend
  <2> QED
    BY Zenon, <2>2, <2>4
<1> QED
  BY Zenon, <1>1, <1>3, <1>4 DEF RunInv

(* The DPU controller keeps ReportInv: Node Effect makes every report that *)
(* its copy shows an old one, and DPU Config accepts only a new one.       *)
LEMMA ReportHandled ==
  ASSUME TypeOK, CacheInv, RoundInv, ReportInv, NEW y, Effect(y), Steps(y)
  PROVE  ReportInv'
<1>t. /\ dpu \in St /\ cache \in St /\ dpu' \in St
  BY Zenon, Types DEF Effect
<1>1. /\ dpu'.round = dpu.round /\ dpu'.inProgress = dpu.inProgress /\ dpu'.phase = y.phase /\ dpu'.seen = y.seen
      /\ dpu'.start = dpu.start /\ dpu'.method = dpu.method /\ cache' = dpu'
      /\ UNCHANGED <<run, marked, reported>>
  BY Zenon DEF Effect, SameOwn
<1>2. cache.phase = dpu.phase /\ cache.seen = dpu.seen
  BY Zenon DEF CacheInv
<1>3. ASSUME dpu.inProgress, Begun(dpu'), dpu'.phase \in {"DPU Config", "Rebooting"}, dpu'.start # dpu'.seen
      PROVE  /\ dpu.method = "none" => marked <= reported
             /\ run.stage \in {"loaded", "blocked"} => marked <= run.flavor
  <2>1. CASE NodeEffectStep(y)
    <3>1. dpu.phase = "Node Effect" /\ y.seen = cache.start
      BY Zenon, <1>1, <1>2, <1>3, <2>1 DEF NodeEffectStep, NodeEffectTo
    <3>2. cache.inProgress \/ cache.exit = "config"
      BY Zenon, <1>1, <1>3, <2>1 DEF NodeEffectStep, NodeEffectTo
    <3>3. cache.inProgress
      BY Zenon, <3>1, <3>2, MarkSeen DEF RoundInv, InRound, CacheInv
    <3> QED
      BY Zenon, <1>1, <1>3, <3>1, <3>3 DEF ReportInv
  <2>2. CASE ConfigStep(y) \/ PhaseStep(y)
    <3>1. dpu.phase \in {"DPU Config", "Rebooting"} /\ InRound
      BY Zenon, <1>1, <1>2, <1>3, <2>2, BegunHandled DEF ConfigStep, PhaseStep, InRound, JumpStep, JumpDue
    <3>2. dpu.start # dpu.seen
      BY Zenon, <1>1, <1>2, <1>3, <2>2 DEF ConfigStep, PhaseStep, CacheInv
    <3> QED
      BY Zenon, <3>1, <3>2 DEF ReportInv
  <2>3. CASE JumpStep(y) \/ ReadyStep(y)
    BY Zenon, <1>1, <1>3, <2>3 DEF JumpStep, ReadyStep, ReadyTo
  <2> QED
    BY Zenon, <2>1, <2>2, <2>3 DEF Steps
<1>4. ASSUME dpu.inProgress, Begun(dpu'), dpu'.phase \in {"Converge", "Ready"}
      PROVE  marked <= reported
  <2>1. CASE NodeEffectStep(y)
    <3>1. ~cache.inProgress
      BY Zenon, <1>1, <1>4, <2>1 DEF NodeEffectStep, NodeEffectTo
    <3>2. Begun(dpu)
      <4>1. ~JumpStep(y)
        BY Zenon, <2>1 DEF NodeEffectStep, JumpStep, JumpDue
      <4> QED
        BY Zenon, <1>4, <3>1, <4>1, BegunHandled
    <3> QED
      BY Zenon, <1>4, <3>1, <3>2, MarkSeen
  <2>2. CASE ConfigStep(y) \/ PhaseStep(y) \/ ReadyStep(y)
    <3>1. Begun(dpu)
      <4>1. ~JumpStep(y)
        BY Zenon, <1>1, <1>4 DEF JumpStep
      <4> QED
        BY Zenon, <1>2, <1>4, <2>2, <4>1, BegunHandled DEF ConfigStep, PhaseStep, ReadyStep
    <3>2. CASE ConfigStep(y)
      BY Zenon, <1>1, <1>2, <1>4, <3>1, <3>2 DEF ConfigStep, ReportInv, InRound
    <3>3. CASE PhaseStep(y) \/ ReadyStep(y)
      BY Zenon, <1>1, <1>2, <1>4, <3>1, <3>3 DEF PhaseStep, ReadyStep, ReportInv, InRound
    <3> QED
      BY Zenon, <2>2, <3>2, <3>3
  <2>3. CASE JumpStep(y)
    BY Zenon, <1>1, <1>4, <2>3 DEF JumpStep
  <2> QED
    BY Zenon, <2>1, <2>2, <2>3 DEF Steps
<1>5. run'.stage \in {"started", "restarted", "loaded", "blocked"} => dpu'.method # "none"
  BY Zenon, <1>1 DEF ReportInv
<1> QED
  BY Zenon, <1>1, <1>3, <1>4, <1>5 DEF ReportInv, InRound

(* The DPU controller keeps the invariant.                                 *)
LEMMA ControllerStep ==
  ASSUME IInv, Controller
  PROVE  IInv'
<1>i. TypeOK /\ CacheInv /\ RoundInv /\ RunInv /\ FlavorInv /\ (late = 0 => ReportInv /\ CompletedConfigured)
  BY Zenon DEF IInv
<1>1. PICK y : Effect(y) /\ Steps(y)
  BY Zenon, <1>i, ControllerCases DEF Steps
<1>2. TypeOK'
  <2>1. rebooted' \in BOOLEAN /\ upsets' \in 0 .. MaxUpsets
    BY Zenon, <1>i, ControllerCases
  <2>2. dpu' \in St /\ cache' \in St /\ UNCHANGED <<flavor, arm, run, watching, served, lost, marked, reported, late>>
    BY Zenon, <1>1 DEF Effect
  <2>3. queue' \in Seq(BOOLEAN)
    BY Zenon, <1>1, <1>i, EventType, Types DEF Effect
  <2> QED
    BY Zenon, <1>i, <2>1, <2>2, <2>3 DEF TypeOK, St
<1>3. CacheInv' /\ RoundInv' /\ RunInv'
  BY Zenon, <1>1, <1>i, CacheHandled, RoundHandled, RunHandled
<1>4. UNCHANGED <<flavor, run, marked, reported, late>> /\ dpu'.round = dpu.round /\ dpu'.completed = dpu.completed
  BY Zenon, <1>1 DEF Effect, SameOwn
<1>5. FlavorInv'
  BY Zenon, <1>i, <1>4 DEF FlavorInv
<1>6. late' = 0 => ReportInv' /\ CompletedConfigured'
  BY Zenon, <1>1, <1>i, <1>4, ReportHandled DEF CompletedConfigured
<1> QED
  BY Zenon, <1>2, <1>3, <1>5, <1>6 DEF IInv

-----------------------------------------------------------------------------
(* What the agent leaves alone.                                            *)

(* The fields that the agent does not write.                               *)
SameCtl(y, x) ==
  /\ y.phase = x.phase /\ y.ready = x.ready /\ y.since = x.since
  /\ y.inProgress = x.inProgress /\ y.round = x.round /\ y.completed = x.completed
  /\ y.reconfiguring = x.reconfiguring /\ y.exit = x.exit /\ y.seen = x.seen

(* A report of a reboot method.                                            *)
LEMMA MethodFields ==
  ASSUME NEW x \in St, NEW y, NEW m \in {"unknown", "none", "host", "os"}, y = [x EXCEPT !.method = m]
  PROVE  y \in St /\ SameCtl(y, x) /\ y.start = x.start /\ y.method = m
BY Zenon DEF St, Status, SameCtl

(* A push of the agent keeps what is said of the other fields.             *)
LEMMA AgentFrame ==
  ASSUME CacheInv, RoundInv, SameCtl(dpu', dpu), UNCHANGED cache,
         dpu'.start = dpu.start \/ dpu'.start # dpu.seen
  PROVE  CacheInv' /\ RoundInv'
<1>1. CacheInv'
  BY Zenon DEF CacheInv, SameCtl
<1>2. Begun(dpu') <=> Begun(dpu)
  BY Zenon DEF Begun, SameCtl
<1>3. RoundInv'
  BY Zenon, <1>2 DEF RoundInv, SameCtl, InRound
<1> QED
  BY Zenon, <1>1, <1>3

(* The states of a Run.                                                    *)
Runs == [stage : Stages, boot : BOOLEAN, round : 0 .. MaxRounds, flavor : 0 .. MaxEdits + 1]

(* The Runs that the agent starts are among them.                          *)
LEMMA RunTypes ==
  /\ Off \in Runs /\ Boot \in Runs
  /\ \A round \in 0 .. MaxRounds : InPlaceRun(round) \in Runs
  /\ run \in Runs => \A stage \in Stages : [run EXCEPT !.stage = stage] \in Runs
<1>1. 0 \in 0 .. MaxRounds /\ 0 \in 0 .. MaxEdits + 1
  BY BoundAssumption
<1>2. Off \in Runs /\ Boot \in Runs
  BY Zenon, <1>1 DEF Off, Boot, Runs, Stages
<1>3. ASSUME NEW round \in 0 .. MaxRounds PROVE InPlaceRun(round) \in Runs
  BY Zenon, <1>1, <1>3 DEF InPlaceRun, Runs, Stages
<1>4. ASSUME run \in Runs, NEW stage \in Stages PROVE [run EXCEPT !.stage = stage] \in Runs
  BY Zenon, <1>4 DEF Runs
<1> QED
  BY Zenon, <1>2, <1>3, <1>4

(* A Run that goes to its next stage.                                      *)
LEMMA StageFields ==
  ASSUME run \in Runs, NEW stage, run' = [run EXCEPT !.stage = stage]
  PROVE  run'.stage = stage /\ run'.boot = run.boot /\ run'.round = run.round /\ run'.flavor = run.flavor
BY Zenon DEF Runs

(* A push of the agent keeps RunInv.                                       *)
LEMMA QueueEvent ==
  ASSUME TypeOK, RunInv, SameCtl(dpu', dpu), Event(dpu'.phase), UNCHANGED <<arm, served>>,
         run'.stage # "off" /\ ~run'.boot => run.stage # "off" /\ ~run.boot /\ run'.round = run.round
  PROVE  RunInv'
<1>1. dpu'.round = dpu.round /\ dpu'.phase = dpu.phase /\ dpu'.inProgress = dpu.inProgress
  BY Zenon DEF SameCtl
<1>2. Awaited' <=> Awaited
  BY Zenon DEF Awaited, Begun, SameCtl
<1>3. ASSUME dpu.phase \in {"DPU Config", "Rebooting"}, dpu.round = served
      PROVE  \A i \in 1 .. Len(queue') : queue'[i] = FALSE
  <2>1. LeftDPUConfig(dpu'.phase) = FALSE
    BY Zenon, <1>1, <1>3, ConfigEvent
  <2>2. queue' = queue \/ queue' = Append(queue, FALSE)
    BY <2>1, Zenon DEF Event
  <2>3. queue \in Seq(BOOLEAN) /\ \A i \in 1 .. Len(queue) : queue[i] = FALSE
    BY Zenon, <1>3, Types DEF RunInv
  <2> QED
    BY Zenon, <2>2, <2>3, QuietAppend
<1> QED
  BY Zenon, <1>1, <1>2, <1>3 DEF RunInv

-----------------------------------------------------------------------------
(* The DPUSet controller, the user and the informer.                       *)

(* A mark keeps the invariant: the new round is not served and not run,    *)
(* and no report of it can exist.                                          *)
LEMMA MarkStep ==
  ASSUME IInv, Mark
  PROVE  IInv'
<1>i. TypeOK /\ CacheInv /\ RoundInv /\ RunInv /\ FlavorInv /\ (late = 0 => ReportInv /\ CompletedConfigured)
  BY Zenon DEF IInv
<1>t. dpu \in St /\ cache \in St /\ queue \in Seq(BOOLEAN)
  BY Zenon, <1>i, Types
<1>1. /\ dpu.round < MaxRounds /\ ~dpu.inProgress /\ dpu.completed = dpu.round
      /\ dpu.ready \/ dpu.phase \in {"Converge", "Node Effect"}
  BY Zenon DEF Mark
<1>u. /\ marked' = flavor
      /\ UNCHANGED <<cache, flavor, arm, run, watching, served, lost, rebooted, reported, late, upsets>>
  BY Zenon DEF Mark, bounds
<1>2. dpu' = [dpu EXCEPT !.inProgress = TRUE, !.round = @ + 1, !.since = "before"] /\ Event(dpu'.phase)
  BY Zenon, PutStep DEF Mark
<1>3. dpu.round \in 0 .. MaxRounds /\ dpu.round + 1 \in 0 .. MaxRounds
  <2>1. dpu.round \in 0 .. MaxRounds
    BY Zenon, <1>t DEF St, Status
  <2>2. MaxRounds \in Nat /\ dpu.round < MaxRounds
    BY Zenon, <1>1, BoundAssumption
  <2> QED
    BY <2>1, <2>2
<1>4. dpu' \in St
  BY Zenon, <1>t, <1>2, <1>3 DEF St, Status
<1>5. /\ dpu'.inProgress = TRUE /\ dpu'.round = dpu.round + 1 /\ dpu'.since = "before"
      /\ dpu'.phase = dpu.phase /\ dpu'.ready = dpu.ready /\ dpu'.completed = dpu.completed
      /\ dpu'.reconfiguring = dpu.reconfiguring /\ dpu'.exit = dpu.exit
      /\ dpu'.start = dpu.start /\ dpu'.seen = dpu.seen /\ dpu'.method = dpu.method
  BY Zenon, <1>t, <1>2 DEF St, Status
<1>6. dpu.round \in Nat /\ cache.round \in Nat /\ dpu.reconfiguring.round \in Nat /\ run.round \in Nat /\ served \in Nat
  <2>1. dpu.round \in Nat /\ cache.round \in Nat /\ dpu.reconfiguring.round \in Nat
    BY Zenon, <1>t, Ints
  <2> QED
    BY SMTT(30), <1>i, <2>1, BoundAssumption, Types
<1>r. /\ dpu.reconfiguring.round <= cache.round /\ cache.round <= dpu.round
      /\ dpu.reconfiguring.round < dpu'.round /\ cache.round < dpu'.round
  <2>1. dpu.reconfiguring.round <= cache.round /\ cache.round <= dpu.round
    BY Zenon, <1>i DEF CacheInv
  <2>2. dpu'.round = dpu.round + 1
    BY Zenon, <1>5
  <2> QED
    BY SMTT(30), <1>6, <2>1, <2>2
<1>7. ~Begun(dpu')
  <2>1. dpu'.reconfiguring.round = dpu.reconfiguring.round /\ dpu'.round \in Nat
    BY Zenon, <1>4, <1>5, Ints
  <2> QED
    BY SMTT(30), <1>6, <1>r, <2>1 DEF Begun
<1>8. cache.inProgress /\ dpu.phase # "Ready" => FALSE
  BY Zenon, <1>i, <1>1 DEF CacheInv
<1>9. dpu.phase \in {"Ready", "Converge", "Node Effect"}
  BY Zenon, <1>i, <1>1 DEF RoundInv
<1>10. TypeOK'
  <2>1. queue' \in Seq(BOOLEAN)
    BY Zenon, <1>t, <1>2, EventType
  <2>2. marked' \in 0 .. MaxEdits + 1
    <3>1. flavor \in 1 .. MaxEdits + 1
      BY Zenon, <1>i, Types
    <3> QED
      BY <1>u, <3>1, BoundAssumption
  <2> QED
    BY Zenon, <1>u, <1>i, <1>4, <2>1, <2>2 DEF TypeOK, St
<1>11. CacheInv'
  <2>1. dpu.reconfiguring.round <= cache.round /\ cache.round <= dpu'.round /\ cache.round # dpu'.round
    <3>1. dpu'.round = dpu.round + 1
      BY Zenon, <1>5
    <3> QED
      BY SMTT(30), <1>6, <1>r, <3>1
  <2> QED
    BY Zenon, <1>i, <1>1, <1>u, <1>5, <1>8, <2>1 DEF CacheInv
<1>12. RoundInv'
  <2>1. dpu'.completed <= dpu'.round /\ dpu'.completed < dpu'.round
    <3>1. dpu'.completed = dpu.round /\ dpu'.round = dpu.round + 1
      BY Zenon, <1>1, <1>5
    <3> QED
      BY <1>6, <3>1
  <2>2. dpu.phase = "Node Effect" => dpu.exit # "install" /\ dpu.exit # "config"
    BY Zenon, <1>i, <1>1 DEF RoundInv, InRound
  <2> QED
    BY Zenon, <1>i, <1>5, <1>9, <2>1, <2>2 DEF RoundInv
<1>13. RunInv'
  <2>1. dpu.phase \notin {"DPU Config", "Rebooting"}
    BY Zenon, <1>9
  <2>2. served < dpu'.round /\ (run.stage # "off" /\ ~run.boot => served < run.round /\ run.round < dpu'.round)
    <3>1. /\ served <= dpu.round /\ dpu'.round = dpu.round + 1
          /\ run.stage # "off" /\ ~run.boot => served < run.round /\ run.round <= dpu.round
      BY Zenon, <1>i, <1>5 DEF RunInv
    <3> QED
      BY <1>6, <3>1
  <2>3. served <= dpu'.round /\ (run.round < dpu'.round => run.round <= dpu'.round)
    <3>1. dpu'.round = dpu.round + 1
      BY Zenon, <1>5
    <3> QED
      BY SMTT(30), <1>6, <2>2, <3>1
  <2> QED
    BY Zenon, <1>u, <1>5, <2>1, <2>2, <2>3 DEF RunInv
<1>14. FlavorInv'
  <2>1. flavor \in Nat /\ flavor <= flavor
    BY SMTT(30), <1>i, Types
  <2> QED
    BY Zenon, <1>u, <1>i, <2>1 DEF FlavorInv
<1>15. late' = 0 => ReportInv' /\ CompletedConfigured'
  <2>1. late' = late
    BY Zenon, <1>u
  <2>2. dpu'.completed # dpu'.round
    <3>1. dpu'.completed = dpu.round /\ dpu'.round = dpu.round + 1
      BY Zenon, <1>1, <1>5
    <3> QED
      BY SMTT(30), <1>6, <3>1
  <2>3. ~InRound'
    BY Zenon, <1>7 DEF InRound
  <2> QED
    BY Zenon, <1>i, <1>1, <1>u, <1>5, <1>8, <2>1, <2>2, <2>3 DEF ReportInv, CompletedConfigured
<1> QED
  BY Zenon, <1>10, <1>11, <1>12, <1>13, <1>14, <1>15 DEF IInv

(* The completion keeps the invariant: the DPU is Ready in the round, so   *)
(* its Run has reported.                                                   *)
LEMMA CompleteStep ==
  ASSUME IInv, Complete
  PROVE  IInv'
<1>i. TypeOK /\ CacheInv /\ RoundInv /\ RunInv /\ FlavorInv /\ (late = 0 => ReportInv /\ CompletedConfigured)
  BY Zenon DEF IInv
<1>t. dpu \in St /\ cache \in St /\ queue \in Seq(BOOLEAN)
  BY Zenon, <1>i, Types
<1>1. /\ dpu.inProgress /\ dpu.phase = "Ready" /\ dpu.ready /\ dpu.since # "before"
      /\ Put([dpu EXCEPT !.inProgress = FALSE, !.completed = dpu.round])
      /\ UNCHANGED <<cache, flavor, arm, run, watching, served, lost, rebooted, marked, reported, bounds>>
  BY Zenon DEF Complete
<1>2. dpu' = [dpu EXCEPT !.inProgress = FALSE, !.completed = dpu.round] /\ Event(dpu'.phase)
  BY Zenon, <1>1, PutStep
<1>4. dpu' \in St
  BY Zenon, <1>t, <1>2 DEF St, Status
<1>5. /\ dpu'.inProgress = FALSE /\ dpu'.round = dpu.round /\ dpu'.since = dpu.since
      /\ dpu'.phase = dpu.phase /\ dpu'.ready = dpu.ready /\ dpu'.completed = dpu.round
      /\ dpu'.reconfiguring = dpu.reconfiguring /\ dpu'.exit = dpu.exit
      /\ dpu'.start = dpu.start /\ dpu'.seen = dpu.seen /\ dpu'.method = dpu.method
  BY Zenon, <1>t, <1>2 DEF St, Status
<1>6. dpu.round \in Nat /\ cache.round \in Nat /\ dpu.reconfiguring.round \in Nat /\ run.round \in Nat /\ served \in Nat
  BY <1>i, Ints, Types
<1>7. InRound
  BY Zenon, <1>i, <1>1 DEF RoundInv, InRound
<1>10. TypeOK'
  <2>1. queue' \in Seq(BOOLEAN)
    BY Zenon, <1>t, <1>2, EventType
  <2> QED
    BY Zenon, <1>1, <1>i, <1>4, <2>1 DEF TypeOK, St, bounds
<1>11. CacheInv'
  BY Zenon, <1>i, <1>1, <1>5, <1>6 DEF CacheInv
<1>12. RoundInv'
  BY SMTT(30), <1>i, <1>1, <1>5, <1>6 DEF RoundInv
<1>13. RunInv'
  <2>1. ~Awaited'
    BY Zenon, <1>5 DEF Awaited
  <2> QED
    BY Zenon, <1>i, <1>1, <1>5, <1>6, <2>1 DEF RunInv
<1>14. FlavorInv'
  BY Zenon, <1>1, <1>i DEF FlavorInv
<1>15. late' = 0 => ReportInv' /\ CompletedConfigured'
  <2>1. late' = late
    BY Zenon, <1>1 DEF bounds
  <2>2. late = 0 => marked <= reported
    BY Zenon, <1>i, <1>1, <1>7 DEF ReportInv
  <2>3. ~InRound'
    BY Zenon, <1>5 DEF InRound
  <2>4. marked' = marked /\ reported' = reported /\ marked \in Nat /\ reported \in Nat
    BY <1>i, <1>1, Types
  <2>5. late' = 0 => CompletedConfigured'
    BY Zenon, <2>1, <2>2, <2>4 DEF CompletedConfigured
  <2> QED
    BY Zenon, <1>i, <1>1, <1>5, <2>1, <2>3, <2>5 DEF ReportInv
<1> QED
  BY Zenon, <1>10, <1>11, <1>12, <1>13, <1>14, <1>15 DEF IInv

(* An edit of the flavor keeps the invariant.                              *)
LEMMA EditFlavorStep ==
  ASSUME IInv, EditFlavor
  PROVE  IInv'
<1>i. TypeOK /\ CacheInv /\ RoundInv /\ RunInv /\ FlavorInv /\ (late = 0 => ReportInv /\ CompletedConfigured)
  BY Zenon DEF IInv
<1>1. /\ flavor <= MaxEdits /\ flavor' = flavor + 1
      /\ UNCHANGED <<dpu, cache, arm, run, watching, queue, served, lost, rebooted, marked, reported, late, upsets>>
  BY Zenon DEF EditFlavor, process, bounds
<1>2. flavor \in 1 .. MaxEdits + 1 /\ MaxEdits \in Nat /\ marked \in Nat /\ reported \in Nat
      /\ run.flavor \in Nat
  BY SMTT(30), <1>i, BoundAssumption, Types
<1>3. TypeOK'
  <2>1. flavor' \in 1 .. MaxEdits + 1
    BY <1>1, <1>2
  <2> QED
    BY Zenon, <1>i, <1>1, <2>1 DEF TypeOK
<1>4. CacheInv' /\ RoundInv'
  BY Zenon, <1>i, <1>1, AgentFrame DEF SameCtl
<1>5. RunInv'
  BY Zenon, <1>i, <1>1 DEF RunInv, Awaited
<1>6. FlavorInv'
  BY SMTT(30), <1>i, <1>1, <1>2 DEF FlavorInv
<1>7. late' = 0 => ReportInv' /\ CompletedConfigured'
  BY Zenon, <1>i, <1>1 DEF ReportInv, CompletedConfigured, InRound
<1> QED
  BY Zenon, <1>3, <1>4, <1>5, <1>6, <1>7 DEF IInv

(* The informer catching up keeps the invariant.                           *)
LEMMA CacheSyncStep ==
  ASSUME IInv, CacheSync
  PROVE  IInv'
<1>i. TypeOK /\ CacheInv /\ RoundInv /\ RunInv /\ FlavorInv /\ (late = 0 => ReportInv /\ CompletedConfigured)
  BY Zenon DEF IInv
<1>1. /\ cache' = dpu
      /\ UNCHANGED <<dpu, flavor, arm, run, watching, queue, served, lost, rebooted, marked, reported, late, upsets>>
  BY Zenon DEF CacheSync, process, bounds
<1>2. TypeOK'
  BY Zenon, <1>i, <1>1 DEF TypeOK
<1>3. CacheInv'
  <2>1. dpu \in St /\ cache \in St
    BY Zenon, <1>i, Types
  <2>2. dpu.round \in Nat /\ cache.round \in Nat /\ dpu.reconfiguring.round \in Nat
    BY Zenon, <2>1, Ints
  <2>3. dpu.reconfiguring.round <= dpu.round /\ dpu.round <= dpu.round
    <3>1. dpu.reconfiguring.round <= cache.round /\ cache.round <= dpu.round
      BY Zenon, <1>i DEF CacheInv
    <3> QED
      BY SMTT(30), <2>2, <3>1
  <2> QED
    BY Zenon, <1>1, <2>3 DEF CacheInv
<1>4. RoundInv'
  BY Zenon, <1>i, <1>1 DEF RoundInv, InRound
<1>5. RunInv'
  BY Zenon, <1>i, <1>1 DEF RunInv, Awaited
<1>6. FlavorInv'
  BY Zenon, <1>i, <1>1 DEF FlavorInv
<1>7. late' = 0 => ReportInv' /\ CompletedConfigured'
  BY Zenon, <1>i, <1>1 DEF ReportInv, CompletedConfigured, InRound
<1> QED
  BY Zenon, <1>2, <1>3, <1>4, <1>5, <1>6, <1>7 DEF IInv

-----------------------------------------------------------------------------
(* The agent's watch.                                                      *)

(* While no Run has loaded a flavor, what is said of reports stays.        *)
LEMMA IdleReport ==
  ASSUME IInv, UNCHANGED <<dpu, cache, flavor, marked, reported, late>>, run'.stage \in {"off", "begun"}
  PROVE  CacheInv' /\ RoundInv' /\ FlavorInv' /\ (late' = 0 => ReportInv' /\ CompletedConfigured')
<1>i. TypeOK /\ CacheInv /\ RoundInv /\ RunInv /\ FlavorInv /\ (late = 0 => ReportInv /\ CompletedConfigured)
  BY Zenon DEF IInv
<1>1. CacheInv' /\ RoundInv'
  BY Zenon, <1>i, AgentFrame DEF SameCtl
<1>2. FlavorInv'
  BY Zenon, <1>i DEF FlavorInv
<1>3. late' = 0 => ReportInv' /\ CompletedConfigured'
  BY Zenon, <1>i DEF ReportInv, CompletedConfigured, InRound
<1> QED
  BY Zenon, <1>1, <1>2, <1>3

(* Nothing is awaited in DPU Config.                                       *)
LEMMA AwaitedPhase ==
  ASSUME RoundInv, dpu.phase = "DPU Config"
  PROVE  ~Awaited
BY Zenon DEF RoundInv, Awaited

(* A live GET leaves no event that arms, and the rest of a queue without   *)
(* such events has none.                                                   *)
LEMMA QuietQueue ==
  ASSUME NEW q \in Seq(BOOLEAN)
  PROVE  /\ Observed(q) \in Seq(BOOLEAN) /\ \A i \in 1 .. Len(Observed(q)) : Observed(q)[i] = FALSE
         /\ q # <<>> => /\ Tail(q) \in Seq(BOOLEAN)
                        /\ (\A i \in 1 .. Len(q) : q[i] = FALSE) =>
                             /\ Head(q) = FALSE
                             /\ \A i \in 1 .. Len(Tail(q)) : Tail(q)[i] = FALSE
<1>1. Observed(q) \in Seq(BOOLEAN) /\ \A i \in 1 .. Len(Observed(q)) : Observed(q)[i] = FALSE
  <2>1. CASE q = <<>>
    BY <2>1 DEF Observed
  <2>2. CASE q # <<>>
    <3>1. Observed(q) = <<FALSE>>
      BY Zenon, <2>2 DEF Observed
    <3>2. <<FALSE>> \in Seq(BOOLEAN) /\ Len(<<FALSE>>) = 1 /\ <<FALSE>>[1] = FALSE
      OBVIOUS
    <3>3. \A i \in 1 .. 1 : i = 1
      OBVIOUS
    <3> QED
      BY Zenon, <3>1, <3>2, <3>3
  <2> QED
    BY Zenon, <2>1, <2>2
<1>2. ASSUME q # <<>>
      PROVE  Tail(q) \in Seq(BOOLEAN)
  BY <1>2
<1>3. ASSUME q # <<>>, \A i \in 1 .. Len(q) : q[i] = FALSE
      PROVE  Head(q) = FALSE /\ \A i \in 1 .. Len(Tail(q)) : Tail(q)[i] = FALSE
  <2>1. Len(q) \in Nat /\ Len(q) >= 1 /\ Len(Tail(q)) = Len(q) - 1
    BY <1>3
  <2>2. Head(q) = q[1] /\ \A i \in 1 .. Len(Tail(q)) : Tail(q)[i] = q[i + 1]
    BY <1>3
  <2>3. 1 \in 1 .. Len(q) /\ \A i \in 1 .. Len(Tail(q)) : i + 1 \in 1 .. Len(q)
    BY <2>1
  <2> QED
    BY Zenon, <1>3, <2>2, <2>3
<1> QED
  BY Zenon, <1>1, <1>2, <1>3

(* Rounds are natural numbers.                                             *)
LEMMA RoundBound ==
  ASSUME NEW n \in 0 .. MaxRounds
  PROVE  n \in Nat
BY BoundAssumption

(* Of two different numbers the lesser one is strictly less.               *)
LEMMA Strict ==
  ASSUME NEW m \in Nat, NEW n \in Nat, m <= n, m # n
  PROVE  m < n /\ n <= n
OBVIOUS

(* A strict order, both ways round.                                        *)
LEMMA Greater ==
  ASSUME NEW m \in Nat, NEW n \in Nat, n > m
  PROVE  m < n /\ n <= n /\ n # m
OBVIOUS

(* maybeReconfigRun keeps RunInv if a served round in DPU Config finds the *)
(* agent idle.                                                             *)
LEMMA MaybeRun ==
  ASSUME IInv, run.stage = "off", NEW armed \in {"idle", "armed"}, MaybeReconfigRun(armed),
         UNCHANGED <<dpu, cache, served>>,
         dpu.phase \in {"DPU Config", "Rebooting"} /\ dpu.round = served =>
           armed = "idle" /\ \A i \in 1 .. Len(queue') : queue'[i] = FALSE
  PROVE  RunInv' /\ run' \in Runs /\ run'.stage \in {"off", "begun"} /\ arm' \in {"idle", "armed"}
<1>i. TypeOK /\ RoundInv /\ RunInv
  BY Zenon DEF IInv
<1>1. dpu \in St /\ run \in Runs /\ served \in 0 .. MaxRounds
  BY Zenon, <1>i, Types DEF Runs
<1>2. dpu.round \in 0 .. MaxRounds /\ dpu.round \in Nat /\ served \in Nat
  <2>1. dpu.round \in 0 .. MaxRounds
    BY Zenon, <1>1 DEF St, Status
  <2> QED
    BY Zenon, <1>1, <2>1, RoundBound
<1>a. Awaited' <=> Awaited
  BY Zenon DEF Awaited
<1>3. CASE run' = run /\ arm' = "armed" /\ LeftDPUConfig(dpu.phase)
  <2>1. dpu.phase \notin {"DPU Config", "Rebooting"}
    BY Zenon, <1>3 DEF LeftDPUConfig
  <2> QED
    BY Zenon, <1>i, <1>1, <1>3, <1>a, <2>1 DEF RunInv
<1>4. CASE run' = run /\ arm' = armed
  BY Zenon, <1>i, <1>1, <1>4, <1>a DEF RunInv
<1>5. CASE dpu.phase = "DPU Config" /\ armed = "armed" /\ run' = InPlaceRun(dpu.round) /\ arm' = armed
  <2>1. run' \in Runs /\ run'.stage = "begun" /\ run'.round = dpu.round
    BY Zenon, <1>2, <1>5, RunTypes DEF InPlaceRun
  <2>2. dpu.round # served /\ served <= dpu.round
    BY Zenon, <1>i, <1>5 DEF RunInv
  <2>3. served < dpu.round /\ dpu.round <= dpu.round
    BY Zenon, <1>2, <2>2, Strict
  <2>4. ~Awaited
    BY Zenon, <1>i, <1>5, AwaitedPhase
  <2>5. RunInv'
    BY Zenon, <1>a, <2>1, <2>2, <2>3, <2>4 DEF RunInv
  <2> QED
    BY Zenon, <1>5, <2>1, <2>5
<1> QED
  BY Zenon, <1>3, <1>4, <1>5 DEF MaybeReconfigRun

(* An upset stays within its bound.                                        *)
LEMMA UpsetBound ==
  ASSUME upsets \in 0 .. MaxUpsets, Upset
  PROVE  upsets' \in 0 .. MaxUpsets
BY BoundAssumption DEF Upset

(* The start of a watch session keeps the invariant.                       *)
LEMMA OpenWatchStep ==
  ASSUME IInv, OpenWatch
  PROVE  IInv'
<1>i. TypeOK /\ RunInv
  BY Zenon DEF IInv
<1>1. /\ run.stage = "off" /\ MaybeReconfigRun(arm) /\ watching' = TRUE
      /\ UNCHANGED <<dpu, cache, flavor, rebooted, marked, reported, queue, served, lost, late, upsets>>
  BY Zenon DEF OpenWatch, Quiet, bounds
<1>2. arm \in {"idle", "armed"}
  BY Zenon, <1>i, Types
<1>3. dpu.phase \in {"DPU Config", "Rebooting"} /\ dpu.round = served =>
        arm = "idle" /\ \A i \in 1 .. Len(queue') : queue'[i] = FALSE
  BY Zenon, <1>i, <1>1 DEF RunInv
<1>4. RunInv' /\ run' \in Runs /\ run'.stage \in {"off", "begun"} /\ arm' \in {"idle", "armed"}
  BY Zenon, <1>1, <1>2, <1>3, MaybeRun
<1>5. TypeOK'
  BY Zenon, <1>i, <1>1, <1>4 DEF TypeOK, Runs
<1> QED
  BY Zenon, <1>1, <1>4, <1>5, IdleReport DEF IInv

(* An event keeps the invariant.                                           *)
LEMMA WatchEventStep ==
  ASSUME IInv, WatchEvent
  PROVE  IInv'
<1>i. TypeOK /\ RunInv
  BY Zenon DEF IInv
<1> DEFINE armed == IF Head(queue) THEN "armed" ELSE arm
<1>1. /\ run.stage = "off" /\ queue # <<>> /\ MaybeReconfigRun(armed)
      /\ queue' = Observed(Tail(queue))
      /\ UNCHANGED <<dpu, cache, flavor, rebooted, marked, reported, watching, served, lost, late, upsets>>
  BY Zenon DEF WatchEvent, Quiet, bounds
<1>2. queue \in Seq(BOOLEAN) /\ arm \in {"idle", "armed"} /\ armed \in {"idle", "armed"}
  BY Zenon, <1>i, Types
<1>3. Tail(queue) \in Seq(BOOLEAN)
  BY Zenon, <1>1, <1>2, QuietQueue
<1>4. queue' \in Seq(BOOLEAN) /\ \A i \in 1 .. Len(queue') : queue'[i] = FALSE
  BY Zenon, <1>1, <1>3, QuietQueue
<1>5. ASSUME dpu.phase \in {"DPU Config", "Rebooting"}, dpu.round = served
      PROVE  armed = "idle"
  <2>1. arm = "idle" /\ \A i \in 1 .. Len(queue) : queue[i] = FALSE
    BY Zenon, <1>i, <1>5 DEF RunInv
  <2>2. Head(queue) = FALSE
    BY Zenon, <1>1, <1>2, <2>1, QuietQueue
  <2> QED
    BY Zenon, <2>1, <2>2
<1> HIDE DEF armed
<1>6. RunInv' /\ run' \in Runs /\ run'.stage \in {"off", "begun"} /\ arm' \in {"idle", "armed"}
  BY Zenon, <1>1, <1>2, <1>4, <1>5, MaybeRun
<1>7. TypeOK'
  BY Zenon, <1>i, <1>1, <1>4, <1>6 DEF TypeOK, Runs
<1> QED
  BY Zenon, <1>1, <1>6, <1>7, IdleReport DEF IInv

(* A dropped event keeps the invariant.                                    *)
LEMMA WatchEventGetFailsStep ==
  ASSUME IInv, WatchEventGetFails
  PROVE  IInv'
<1>i. TypeOK /\ RunInv
  BY Zenon DEF IInv
<1>1. /\ run.stage = "off" /\ queue # <<>> /\ queue' = Tail(queue) /\ lost' = TRUE
      /\ UNCHANGED <<dpu, cache, flavor, rebooted, marked, reported, arm, run, watching, served, late>>
  BY Zenon DEF WatchEventGetFails, Quiet
<1>2. queue \in Seq(BOOLEAN)
  BY Zenon, <1>i, Types
<1>3. queue' \in Seq(BOOLEAN)
  BY Zenon, <1>1, <1>2, QuietQueue
<1>4. upsets' \in 0 .. MaxUpsets
  BY Zenon, <1>i, UpsetBound, Types DEF WatchEventGetFails
<1>5. RunInv'
  <2>1. dpu.phase \in {"DPU Config", "Rebooting"} /\ dpu.round = served =>
          arm = "idle" /\ \A i \in 1 .. Len(queue') : queue'[i] = FALSE
    BY Zenon, <1>i, <1>1, <1>2, QuietQueue DEF RunInv
  <2> QED
    BY Zenon, <1>i, <1>1, <2>1 DEF RunInv, Awaited
<1>6. TypeOK'
  BY Zenon, <1>i, <1>1, <1>3, <1>4 DEF TypeOK
<1> QED
  BY Zenon, <1>1, <1>5, <1>6, IdleReport DEF IInv

-----------------------------------------------------------------------------
(* The agent's Run.                                                        *)

(* The first push of a Run keeps the invariant: its startup time is new,   *)
(* and no method is reported with it.                                      *)
LEMMA ReportStartStep ==
  ASSUME IInv, ReportStart
  PROVE  IInv'
<1>i. TypeOK /\ CacheInv /\ RoundInv /\ RunInv /\ FlavorInv /\ (late = 0 => ReportInv /\ CompletedConfigured)
  BY Zenon DEF IInv
<1>t. dpu \in St /\ cache \in St /\ queue \in Seq(BOOLEAN) /\ run \in Runs
  BY Zenon, <1>i, Types DEF Runs
<1> DEFINE method == IF run.stage = "begun" THEN "unknown" ELSE dpu.method
<1>1. run.stage \in {"begun", "restarted"}
  BY Zenon DEF ReportStart
<1>u. UNCHANGED <<cache, flavor, arm, watching, served, lost, rebooted, marked, reported, late, upsets>>
  BY Zenon DEF ReportStart, bounds
<1>2. dpu' = [dpu EXCEPT !.start = FreshStart, !.method = method] /\ Event(dpu'.phase)
  BY Zenon, PutStep DEF ReportStart
<1>s. PICK start : start = FreshStart
  OBVIOUS
<1>3. start \in 0 .. 5 /\ start \notin {dpu.start, dpu.seen}
  BY SMTT(30), <1>t, <1>s, Fresh
<1>4. method \in {"unknown", "none", "host", "os"}
  BY Zenon, <1>t DEF St, Status
<1>m. run.stage = "restarted" => method = dpu.method
  OBVIOUS
<1>n. run.stage = "begun" => method # "none"
  OBVIOUS
<1> HIDE DEF method
<1>e. dpu' = [dpu EXCEPT !.start = start, !.method = method]
  BY Zenon, <1>2, <1>s
<1>5. dpu' \in St /\ SameCtl(dpu', dpu) /\ dpu'.start = start /\ dpu'.method = method
  <2>1. dpu \in St /\ start \in 0 .. 5
    BY Zenon, <1>t, <1>3
  <2>2. dpu' \in St
    BY Zenon, <1>e, <1>4, <2>1 DEF St, Status
  <2>3. SameCtl(dpu', dpu) /\ dpu'.start = start /\ dpu'.method = method
    BY Zenon, <1>e, <1>4, <2>1 DEF St, Status, SameCtl
  <2> QED
    BY Zenon, <2>2, <2>3
<1>6. run' = [run EXCEPT !.stage = "started"]
  BY Zenon DEF ReportStart
<1>7. run'.stage = "started" /\ run'.boot = run.boot /\ run'.round = run.round
  BY Zenon, <1>t, <1>6, StageFields
<1>8. TypeOK'
  <2>1. queue' \in Seq(BOOLEAN)
    BY Zenon, <1>t, <1>2, EventType
  <2>2. run' \in Runs
    BY Zenon, <1>t, <1>6, RunTypes DEF Stages
  <2> QED
    BY Zenon, <1>i, <1>u, <1>5, <2>1, <2>2 DEF TypeOK, St, Runs
<1>9. CacheInv' /\ RoundInv'
  BY Zenon, <1>i, <1>u, <1>3, <1>5, AgentFrame
<1>10. RunInv'
  <2>1. run.stage # "off"
    BY Zenon, <1>1
  <2> QED
    BY Zenon, <1>i, <1>u, <1>2, <1>5, <1>7, <2>1, QueueEvent
<1>11. FlavorInv'
  BY Zenon, <1>i, <1>u, <1>7 DEF FlavorInv
<1>12. late' = 0 => ReportInv' /\ CompletedConfigured'
  <2>1. late = 0 => method # "none"
    BY Zenon, <1>i, <1>1, <1>m, <1>n DEF ReportInv
  <2>2. InRound' <=> InRound
    BY Zenon, <1>5 DEF InRound, Begun, SameCtl
  <2>3. dpu'.phase = dpu.phase /\ dpu'.round = dpu.round /\ dpu'.completed = dpu.completed /\ dpu'.seen = dpu.seen
    BY Zenon, <1>5 DEF SameCtl
  <2> QED
    BY Zenon, <1>i, <1>u, <1>5, <1>7, <2>1, <2>2, <2>3 DEF ReportInv, CompletedConfigured
<1> QED
  BY Zenon, <1>8, <1>9, <1>10, <1>11, <1>12 DEF IInv

(* Loading the flavor keeps the invariant: it is loaded after the mark of  *)
(* the round that DPU Config waits for.                                    *)
LEMMA LoadFlavorStep ==
  ASSUME IInv, LoadFlavor
  PROVE  IInv'
<1>i. TypeOK /\ CacheInv /\ RoundInv /\ RunInv /\ FlavorInv /\ (late = 0 => ReportInv /\ CompletedConfigured)
  BY Zenon DEF IInv
<1>t. run \in Runs /\ flavor \in 1 .. MaxEdits + 1 /\ flavor \in Nat
  BY <1>i, Types DEF Runs
<1>1. /\ run.stage = "started" /\ run' = [run EXCEPT !.stage = "loaded", !.flavor = flavor]
      /\ UNCHANGED <<dpu, cache, flavor, rebooted, marked, reported, arm, watching, queue, served, lost, late, upsets>>
  BY Zenon DEF LoadFlavor, Quiet, bounds
<1>2. /\ run'.stage = "loaded" /\ run'.boot = run.boot /\ run'.round = run.round /\ run'.flavor = flavor
  BY Zenon, <1>t, <1>1 DEF Runs
<1>3. run' \in Runs
  <2>1. flavor \in 0 .. MaxEdits + 1
    BY <1>t, BoundAssumption
  <2> QED
    BY Zenon, <1>t, <1>1, <2>1 DEF Runs, Stages
<1>4. TypeOK'
  BY Zenon, <1>i, <1>1, <1>3 DEF TypeOK, Runs
<1>5. CacheInv' /\ RoundInv'
  BY Zenon, <1>i, <1>1, AgentFrame DEF SameCtl
<1>6. RunInv'
  BY Zenon, <1>i, <1>1, <1>2 DEF RunInv, Awaited
<1>7. FlavorInv'
  <2>1. flavor <= flavor
    BY <1>t
  <2> QED
    BY Zenon, <1>i, <1>1, <1>2, <2>1 DEF FlavorInv
<1>8. late' = 0 => ReportInv' /\ CompletedConfigured'
  <2>1. marked <= flavor
    BY Zenon, <1>i DEF FlavorInv
  <2> QED
    BY Zenon, <1>i, <1>1, <1>2, <2>1 DEF ReportInv, CompletedConfigured, InRound
<1> QED
  BY Zenon, <1>4, <1>5, <1>6, <1>7, <1>8 DEF IInv

(* The report keeps the invariant.                                         *)
LEMMA ReportNoActionStep ==
  ASSUME IInv, ReportNoAction
  PROVE  IInv'
<1>i. TypeOK /\ CacheInv /\ RoundInv /\ RunInv /\ FlavorInv /\ (late = 0 => ReportInv /\ CompletedConfigured)
  BY Zenon DEF IInv
<1>t. dpu \in St /\ cache \in St /\ queue \in Seq(BOOLEAN) /\ run \in Runs
  BY Zenon, <1>i, Types DEF Runs
<1>1. run.stage = "loaded" /\ reported' = run.flavor
  BY Zenon DEF ReportNoAction
<1>u. UNCHANGED <<cache, flavor, arm, watching, served, lost, rebooted, marked, late, upsets>>
  BY Zenon DEF ReportNoAction, bounds
<1>2. dpu' = [dpu EXCEPT !.method = "none"] /\ Event(dpu'.phase)
  BY Zenon, PutStep DEF ReportNoAction
<1>5. dpu' \in St /\ SameCtl(dpu', dpu) /\ dpu'.start = dpu.start /\ dpu'.method = "none"
  BY Zenon, <1>t, <1>2, MethodFields
<1>6. run' = [run EXCEPT !.stage = "reported"]
  BY Zenon DEF ReportNoAction
<1>7. run'.stage = "reported" /\ run'.boot = run.boot /\ run'.round = run.round /\ run'.flavor = run.flavor
  BY Zenon, <1>t, <1>6, StageFields
<1>8. TypeOK'
  <2>1. queue' \in Seq(BOOLEAN)
    BY Zenon, <1>t, <1>2, EventType
  <2>2. run' \in Runs
    BY Zenon, <1>t, <1>6, RunTypes DEF Stages
  <2>3. reported' \in 0 .. MaxEdits + 1
    BY Zenon, <1>1, <1>t DEF Runs
  <2> QED
    BY Zenon, <1>i, <1>u, <1>5, <2>1, <2>2, <2>3 DEF TypeOK, St, Runs
<1>9. CacheInv' /\ RoundInv'
  BY Zenon, <1>i, <1>u, <1>5, AgentFrame
<1>10. RunInv'
  <2>1. run.stage # "off"
    BY Zenon, <1>1
  <2> QED
    BY Zenon, <1>i, <1>u, <1>2, <1>5, <1>7, <2>1, QueueEvent
<1>n. run.flavor \in Nat /\ marked \in Nat /\ reported \in Nat /\ flavor \in Nat
  BY SMTT(30), <1>i, Types, BoundAssumption
<1>f. reported <= run.flavor /\ run.flavor <= flavor /\ marked <= flavor
  BY Zenon, <1>i, <1>1 DEF FlavorInv
<1>11. FlavorInv'
  <2>1. run.flavor <= run.flavor
    BY <1>n
  <2> QED
    BY Zenon, <1>u, <1>1, <1>7, <1>f, <2>1 DEF FlavorInv
<1>12. late' = 0 => ReportInv' /\ CompletedConfigured'
  <2>1. marked <= reported => marked <= reported'
    BY SMTT(30), <1>1, <1>n, <1>f
  <2>2. InRound' <=> InRound
    BY Zenon, <1>5 DEF InRound, Begun, SameCtl
  <2>3. /\ dpu'.phase = dpu.phase /\ dpu'.round = dpu.round /\ dpu'.completed = dpu.completed /\ dpu'.seen = dpu.seen
        /\ dpu'.inProgress = dpu.inProgress
    BY Zenon, <1>5 DEF SameCtl
  <2>4. late' = 0 => ReportInv'
    BY Zenon, <1>i, <1>u, <1>1, <1>5, <1>7, <2>1, <2>2, <2>3 DEF ReportInv
  <2>5. late' = 0 => CompletedConfigured'
    <3>1. \A a, b \in Nat : a >= b <=> b <= a
      OBVIOUS
    <3> QED
      BY Zenon, <1>i, <1>u, <1>1, <1>n, <2>1, <2>3, <3>1 DEF CompletedConfigured
  <2> QED
    BY Zenon, <2>4, <2>5
<1> QED
  BY Zenon, <1>8, <1>9, <1>10, <1>11, <1>12 DEF IInv

(* Asking for a reboot keeps the invariant.                                *)
LEMMA ReportRebootStep ==
  ASSUME IInv, ReportReboot
  PROVE  IInv'
<1>i. TypeOK /\ CacheInv /\ RoundInv /\ RunInv /\ FlavorInv /\ (late = 0 => ReportInv /\ CompletedConfigured)
  BY Zenon DEF IInv
<1>t. dpu \in St /\ cache \in St /\ queue \in Seq(BOOLEAN) /\ run \in Runs /\ lost \in BOOLEAN
  BY Zenon, <1>i, Types DEF Runs
<1>1. run.stage = "loaded" /\ upsets' \in 0 .. MaxUpsets
  BY Zenon, <1>i, Types, UpsetBound DEF ReportReboot
<1>u. UNCHANGED <<cache, flavor, arm, watching, served, rebooted, marked, reported, late>>
  BY Zenon DEF ReportReboot
<1>p. PICK method \in {"host", "os"}, stage \in {"reported", "blocked"} :
        Put([dpu EXCEPT !.method = method]) /\ run' = [run EXCEPT !.stage = stage]
  BY Zenon DEF ReportReboot
<1>2. dpu' = [dpu EXCEPT !.method = method] /\ Event(dpu'.phase)
  BY Zenon, <1>p, PutStep
<1>5. dpu' \in St /\ SameCtl(dpu', dpu) /\ dpu'.start = dpu.start /\ dpu'.method = method
  BY <1>t, <1>2, MethodFields
<1>7. run'.stage = stage /\ run'.boot = run.boot /\ run'.round = run.round /\ run'.flavor = run.flavor
  BY Zenon, <1>t, <1>p, StageFields
<1>8. TypeOK'
  <2>1. queue' \in Seq(BOOLEAN)
    BY Zenon, <1>t, <1>2, EventType
  <2>2. run' \in Runs
    BY Zenon, <1>t, <1>p, RunTypes DEF Stages
  <2>3. lost' \in BOOLEAN
    BY Zenon DEF ReportReboot
  <2> QED
    BY Zenon, <1>i, <1>u, <1>1, <1>5, <2>1, <2>2, <2>3 DEF TypeOK, St, Runs
<1>9. CacheInv' /\ RoundInv'
  BY Zenon, <1>i, <1>u, <1>5, AgentFrame
<1>10. RunInv'
  <2>1. run.stage # "off"
    BY Zenon, <1>1
  <2> QED
    BY Zenon, <1>i, <1>u, <1>2, <1>5, <1>7, <2>1, QueueEvent
<1>11. FlavorInv'
  BY Zenon, <1>i, <1>u, <1>1, <1>7 DEF FlavorInv
<1>12. late' = 0 => ReportInv' /\ CompletedConfigured'
  <2>2. InRound' <=> InRound
    BY Zenon, <1>5 DEF InRound, Begun, SameCtl
  <2>3. /\ dpu'.phase = dpu.phase /\ dpu'.round = dpu.round /\ dpu'.completed = dpu.completed /\ dpu'.seen = dpu.seen
        /\ dpu'.inProgress = dpu.inProgress
    BY Zenon, <1>5 DEF SameCtl
  <2>4. dpu'.method # "none"
    BY Zenon, <1>5
  <2> QED
    BY Zenon, <1>i, <1>u, <1>1, <1>5, <1>7, <2>2, <2>3, <2>4 DEF ReportInv, CompletedConfigured
<1> QED
  BY Zenon, <1>8, <1>9, <1>10, <1>11, <1>12 DEF IInv

(* A Run that goes back to an earlier stage keeps the invariant, unless it *)
(* had reported; then the restart was late.                                *)
LEMMA StageStep ==
  ASSUME IInv, NEW stage \in {"loaded", "restarted"}, run' = [run EXCEPT !.stage = stage],
         \/ stage = "loaded" /\ run.stage = "blocked" /\ late' = late
         \/ stage = "restarted" /\ run.stage = "loaded" /\ late' = late
         \/ stage = "restarted" /\ run.stage = "reported" /\ late' # 0,
         UNCHANGED <<dpu, cache, flavor, marked, reported, arm, queue, served>>
  PROVE  /\ CacheInv' /\ RoundInv' /\ RunInv' /\ FlavorInv' /\ (late' = 0 => ReportInv' /\ CompletedConfigured')
         /\ run' \in Runs
<1>i. TypeOK /\ CacheInv /\ RoundInv /\ RunInv /\ FlavorInv /\ (late = 0 => ReportInv /\ CompletedConfigured)
  BY Zenon DEF IInv
<1>t. run \in Runs
  BY Zenon, <1>i, Types DEF Runs
<1>2. run'.stage = stage /\ run'.boot = run.boot /\ run'.round = run.round /\ run'.flavor = run.flavor
  BY Zenon, <1>t, StageFields
<1>3. run' \in Runs
  BY Zenon, <1>t, RunTypes DEF Stages
<1>4. CacheInv' /\ RoundInv'
  BY Zenon, <1>i, AgentFrame DEF SameCtl
<1>5. RunInv'
  <2>1. run.stage # "off"
    OBVIOUS
  <2> QED
    BY Zenon, <1>i, <1>2, <2>1 DEF RunInv, Awaited
<1>6. FlavorInv'
  BY Zenon, <1>i, <1>2 DEF FlavorInv
<1>7. late' = 0 => ReportInv' /\ CompletedConfigured'
  BY Zenon, <1>i, <1>2 DEF ReportInv, CompletedConfigured, InRound
<1> QED
  BY Zenon, <1>3, <1>4, <1>5, <1>6, <1>7

(* Giving up the wait for a reset keeps the invariant.                     *)
LEMMA BlockTimesOutStep ==
  ASSUME IInv, BlockTimesOut
  PROVE  IInv'
<1>1. /\ run.stage = "blocked" /\ run' = [run EXCEPT !.stage = "loaded"] /\ lost' = TRUE
      /\ UNCHANGED <<dpu, cache, flavor, rebooted, marked, reported, arm, watching, queue, served, late, upsets>>
  BY Zenon DEF BlockTimesOut, Quiet, bounds
<1>2. /\ CacheInv' /\ RoundInv' /\ RunInv' /\ FlavorInv' /\ (late' = 0 => ReportInv' /\ CompletedConfigured')
      /\ run' \in Runs
  BY Zenon, <1>1, StageStep
<1>3. TypeOK'
  BY Zenon, <1>1, <1>2 DEF IInv, TypeOK, Runs
<1> QED
  BY Zenon, <1>2, <1>3 DEF IInv

(* A restart of the pipeline keeps the invariant.                          *)
LEMMA RestartPipelineStep ==
  ASSUME IInv, RestartPipeline
  PROVE  IInv'
<1>1. /\ run.stage \in {"loaded", "reported"} /\ run' = [run EXCEPT !.stage = "restarted"]
      /\ UNCHANGED <<dpu, cache, flavor, rebooted, marked, reported, arm, watching, queue, served, lost, upsets>>
  BY Zenon DEF RestartPipeline, Quiet
<1>2. late \in 0 .. MaxLate /\ MaxLate \in Nat
  BY Zenon, BoundAssumption, Types DEF IInv
<1>3. /\ run.stage = "loaded" => late' = late
      /\ run.stage = "reported" => late < MaxLate /\ late' = late + 1
  BY Zenon DEF RestartPipeline
<1>4. late' \in 0 .. MaxLate /\ (run.stage = "reported" => late' # 0)
  BY <1>1, <1>2, <1>3
<1>5. /\ CacheInv' /\ RoundInv' /\ RunInv' /\ FlavorInv' /\ (late' = 0 => ReportInv' /\ CompletedConfigured')
      /\ run' \in Runs
  BY Zenon, <1>1, <1>3, <1>4, StageStep
<1>6. TypeOK'
  BY Zenon, <1>1, <1>4, <1>5 DEF IInv, TypeOK, Runs
<1> QED
  BY Zenon, <1>5, <1>6 DEF IInv

(* The end of a Run keeps the invariant: the next Run is of a later round, *)
(* or the agent is idle in DPU Config and Rebooting.                       *)
LEMMA RunEndsStep ==
  ASSUME IInv, RunEnds
  PROVE  IInv'
<1>i. TypeOK /\ RoundInv /\ RunInv
  BY Zenon DEF IInv
<1>t. dpu \in St /\ queue \in Seq(BOOLEAN) /\ run \in Runs /\ served \in 0 .. MaxRounds
  BY Zenon, <1>i, Types DEF Runs
<1>n. dpu.round \in 0 .. MaxRounds /\ run.round \in 0 .. MaxRounds
  BY Zenon, <1>t DEF St, Status, Runs
<1>1. /\ run.stage = "reported"
      /\ UNCHANGED <<dpu, cache, flavor, rebooted, marked, reported, watching, lost, late, upsets>>
  BY Zenon DEF RunEnds, Quiet, bounds
<1>a. Awaited' <=> Awaited
  BY Zenon, <1>1 DEF Awaited
<1>2. CASE run.boot /\ run' = Off /\ UNCHANGED <<arm, queue, served>>
  <2>1. run' \in Runs /\ run'.stage = "off"
    BY Zenon, <1>2, RunTypes DEF Off
  <2>2. RunInv'
    BY Zenon, <1>i, <1>1, <1>2, <1>a, <2>1 DEF RunInv
  <2>3. TypeOK'
    BY Zenon, <1>i, <1>1, <1>2, <2>1 DEF TypeOK, Runs
  <2> QED
    BY Zenon, <1>1, <2>1, <2>2, <2>3, IdleReport DEF IInv
<1>3. CASE ~run.boot /\ queue' = Observed(queue) /\ served' = run.round
  <2>1. queue' \in Seq(BOOLEAN) /\ \A i \in 1 .. Len(queue') : queue'[i] = FALSE
    BY Zenon, <1>t, <1>3, QuietQueue
  <2>2. run.round <= dpu.round /\ (Awaited => run.round < dpu.round)
    BY Zenon, <1>i, <1>1, <1>3 DEF RunInv
  <2>3. served' \in 0 .. MaxRounds
    BY Zenon, <1>n, <1>3
  <2>4. CASE /\ dpu.round > run.round /\ dpu.phase = "DPU Config"
             /\ run' = InPlaceRun(dpu.round) /\ UNCHANGED arm
    <3>1. run' \in Runs /\ run'.stage = "begun" /\ run'.round = dpu.round
      BY Zenon, <1>n, <2>4, RunTypes DEF InPlaceRun
    <3>2. ~Awaited
      BY Zenon, <1>i, <2>4, AwaitedPhase
    <3>3. run.round < dpu.round /\ dpu.round <= dpu.round /\ dpu.round # run.round
      BY Zenon, <1>n, <2>4, RoundBound, Greater
    <3>4. RunInv'
      BY Zenon, <1>1, <1>3, <1>a, <2>2, <3>1, <3>2, <3>3 DEF RunInv
    <3>5. TypeOK'
      BY Zenon, <1>i, <1>1, <2>1, <2>3, <2>4, <3>1 DEF TypeOK, Runs
    <3> QED
      BY Zenon, <1>1, <3>1, <3>4, <3>5, IdleReport DEF IInv
  <2>5. CASE run' = Off /\ arm' = IF LeftDPUConfig(dpu.phase) THEN "armed" ELSE "idle"
    <3>1. run' \in Runs /\ run'.stage = "off"
      BY Zenon, <2>5, RunTypes DEF Off
    <3>2. arm' \in {"idle", "armed"} /\ (dpu.phase \in {"DPU Config", "Rebooting"} => arm' = "idle")
      BY Zenon, <2>5 DEF LeftDPUConfig
    <3>3. RunInv'
      BY Zenon, <1>1, <1>3, <1>a, <2>1, <2>2, <3>1, <3>2 DEF RunInv
    <3>4. TypeOK'
      BY Zenon, <1>i, <1>1, <2>1, <2>3, <3>1, <3>2 DEF TypeOK, Runs
    <3> QED
      BY Zenon, <1>1, <3>1, <3>3, <3>4, IdleReport DEF IInv
  <2> QED
    BY Zenon, <1>3, <2>4, <2>5 DEF RunEnds
<1> QED
  BY Zenon, <1>2, <1>3 DEF RunEnds

(* A new process keeps the invariant: it has served nothing.               *)
LEMMA NewProcessStep ==
  ASSUME IInv, NewProcess, UNCHANGED <<dpu, cache, flavor, marked, reported, late>>,
         rebooted' \in BOOLEAN, upsets' \in 0 .. MaxUpsets
  PROVE  IInv'
<1>i. TypeOK /\ RunInv
  BY Zenon DEF IInv
<1>1. /\ run' = Boot /\ arm' = "idle" /\ watching' = FALSE /\ queue' = <<>> /\ served' = 0
  BY Zenon DEF NewProcess
<1>2. lost' \in BOOLEAN
  BY Zenon DEF NewProcess
<1>3. run' \in Runs /\ run'.stage = "begun" /\ run'.boot = TRUE
  BY Zenon, <1>1, RunTypes DEF Boot
<1>4. served \in 0 .. MaxRounds /\ dpu \in St
  BY Zenon, <1>i, Types
<1>5. dpu.round \in Nat /\ served \in Nat
  BY Zenon, <1>4, Ints, RoundBound
<1>6. 0 <= dpu.round /\ (served < dpu.round => 0 < dpu.round)
  BY <1>5
<1>7. <<>> \in Seq(BOOLEAN) /\ \A i \in 1 .. Len(<<>>) : <<>>[i] = FALSE
  OBVIOUS
<1>8. RunInv'
  <2>1. Awaited' <=> Awaited
    BY Zenon DEF Awaited
  <2>2. Awaited => 0 < dpu.round
    BY Zenon, <1>i, <1>6 DEF RunInv
  <2> QED
    BY Zenon, <1>1, <1>3, <1>6, <1>7, <2>1, <2>2 DEF RunInv
<1>9. TypeOK'
  <2>1. 0 \in 0 .. MaxRounds
    BY BoundAssumption
  <2> QED
    BY Zenon, <1>i, <1>1, <1>2, <1>3, <1>7, <2>1 DEF TypeOK, Runs
<1> QED
  BY Zenon, <1>3, <1>8, <1>9, IdleReport DEF IInv

(* A failed Run keeps the invariant.                                       *)
LEMMA RunFailsStep ==
  ASSUME IInv, RunFails
  PROVE  IInv'
<1>i. TypeOK /\ RunInv
  BY Zenon DEF IInv
<1>1. /\ run.stage # "off"
      /\ UNCHANGED <<dpu, cache, flavor, rebooted, marked, reported, late>>
  BY Zenon DEF RunFails, Quiet
<1>2. upsets' \in 0 .. MaxUpsets /\ rebooted \in BOOLEAN
  BY Zenon, <1>i, Types, UpsetBound DEF RunFails
<1>3. CASE NewProcess
  BY Zenon, <1>1, <1>2, <1>3, NewProcessStep
<1>4. CASE ~run.boot /\ run' = Off /\ arm' = "armed" /\ UNCHANGED <<watching, queue, served, lost>>
  <2>1. run' \in Runs /\ run'.stage = "off"
    BY Zenon, <1>4, RunTypes DEF Off
  <2>2. served \in 0 .. MaxRounds /\ dpu \in St /\ run.round \in 0 .. MaxRounds
    BY Zenon, <1>i, Types
  <2>3. dpu.round \in Nat /\ served \in Nat /\ run.round \in Nat
    BY Zenon, <2>2, Ints, RoundBound
  <2>4. served < run.round /\ run.round <= dpu.round
    BY Zenon, <1>i, <1>1, <1>4 DEF RunInv
  <2>5. dpu.round # served
    BY SMTT(30), <2>3, <2>4
  <2>6. RunInv'
    BY Zenon, <1>i, <1>1, <1>4, <2>1, <2>5 DEF RunInv, Awaited
  <2>7. TypeOK'
    BY Zenon, <1>i, <1>1, <1>2, <1>4, <2>1 DEF TypeOK, Runs
  <2> QED
    BY Zenon, <1>1, <2>1, <2>6, <2>7, IdleReport DEF IInv
<1> QED
  BY Zenon, <1>3, <1>4 DEF RunFails

(* A reboot keeps the invariant.                                           *)
LEMMA RebootStep ==
  ASSUME IInv, Reboot
  PROVE  IInv'
<1>1. NewProcess /\ UNCHANGED <<dpu, cache, flavor, marked, reported, late, upsets>>
  BY Zenon DEF Reboot, bounds
<1>2. rebooted' \in BOOLEAN /\ upsets \in 0 .. MaxUpsets
  BY Zenon, Types DEF Reboot, IInv
<1> QED
  BY Zenon, <1>1, <1>2, NewProcessStep

(* A restart of the process keeps the invariant.                           *)
LEMMA RestartProcessStep ==
  ASSUME IInv, RestartProcess
  PROVE  IInv'
<1>1. NewProcess /\ UNCHANGED <<dpu, cache, flavor, rebooted, marked, reported, late>>
  BY Zenon DEF RestartProcess, Quiet
<1>2. rebooted \in BOOLEAN /\ upsets' \in 0 .. MaxUpsets
  BY Zenon, Types, UpsetBound DEF RestartProcess, IInv
<1> QED
  BY Zenon, <1>1, <1>2, NewProcessStep

-----------------------------------------------------------------------------
(* The invariant holds when the agent starts for the first time.           *)
LEMMA Initially ==
  ASSUME Init
  PROVE  IInv
<1>1. /\ dpu = NewStatus("DPU Config") /\ cache = dpu /\ flavor = 1 /\ arm = "idle" /\ run = Boot
      /\ watching = FALSE /\ queue = <<>> /\ rebooted = FALSE /\ marked = 0 /\ reported = 0 /\ served = 0
      /\ lost = FALSE /\ late = 0 /\ upsets = 0
  BY Zenon DEF Init
<1>0. /\ 0 \in 0 .. MaxRounds /\ 1 \in 1 .. MaxEdits + 1 /\ 0 \in 0 .. MaxEdits + 1
      /\ 0 \in 0 .. MaxLate /\ 0 \in 0 .. MaxUpsets /\ 0 \in 0 .. 5
  BY SMTT(30), BoundAssumption
<1>2. /\ dpu \in St /\ dpu.phase = "DPU Config" /\ dpu.ready = FALSE /\ dpu.inProgress = FALSE
      /\ dpu.round = 0 /\ dpu.completed = 0 /\ dpu.reconfiguring = [status |-> "none", round |-> 0]
  BY Zenon, <1>0, <1>1 DEF NewStatus, St, Status, Phases
<1>3. dpu.reconfiguring.round = 0
  <2>1. [status |-> "none", round |-> 0].round = 0
    OBVIOUS
  <2> QED
    BY Zenon, <1>2, <2>1
<1>4. run \in Runs /\ run.stage = "begun" /\ run.boot = TRUE
  BY Zenon, <1>1, RunTypes DEF Boot
<1>5. queue \in Seq(BOOLEAN) /\ \A i \in 1 .. Len(queue) : queue[i] = FALSE
  <2>1. queue = <<>>
    BY Zenon, <1>1
  <2> QED
    BY <2>1
<1>6. TypeOK
  BY Zenon, <1>0, <1>1, <1>2, <1>4, <1>5 DEF TypeOK, St, Runs
<1>z. 0 <= 0 /\ 0 <= 1
  OBVIOUS
<1>c. cache = dpu
  BY Zenon, <1>1
<1>m. marked = 0 /\ reported = 0 /\ flavor = 1 /\ served = 0 /\ arm = "idle"
  BY Zenon, <1>1
<1>7. CacheInv
  BY Zenon, <1>c, <1>2, <1>3, <1>z DEF CacheInv
<1>8. RoundInv
  BY Zenon, <1>2, <1>z DEF RoundInv
<1>9. RunInv
  BY Zenon, <1>m, <1>2, <1>4, <1>5, <1>z DEF RunInv, Awaited
<1>10. FlavorInv
  BY Zenon, <1>m, <1>4, <1>z DEF FlavorInv
<1>11. ReportInv /\ CompletedConfigured
  <2>1. ReportInv
    BY Zenon, <1>2, <1>4 DEF ReportInv, InRound
  <2>2. dpu.round = 0
    BY Zenon, <1>2
  <2>3. ~(0 > 0)
    OBVIOUS
  <2> QED
    BY Zenon, <2>1, <2>2, <2>3 DEF CompletedConfigured
<1> QED
  BY Zenon, <1>6, <1>7, <1>8, <1>9, <1>10, <1>11 DEF IInv

(* Nothing happens.                                                        *)
LEMMA Stuttering ==
  ASSUME IInv, UNCHANGED vars
  PROVE  IInv'
<1>1. UNCHANGED <<dpu, cache, flavor, arm, run, watching, queue, rebooted, marked, reported, served, lost, late, upsets>>
  BY Zenon DEF vars, process, bounds
<1>2. TypeOK'
  BY Zenon, <1>1 DEF IInv, TypeOK
<1>3. CacheInv'
  BY Zenon, <1>1 DEF IInv, CacheInv
<1>4. RoundInv'
  BY Zenon, <1>1 DEF IInv, RoundInv, InRound
<1>5. RunInv'
  BY Zenon, <1>1 DEF IInv, RunInv, Awaited
<1>6. FlavorInv'
  BY Zenon, <1>1 DEF IInv, FlavorInv
<1>7. late' = 0 => ReportInv' /\ CompletedConfigured'
  BY Zenon, <1>1 DEF IInv, ReportInv, CompletedConfigured, InRound
<1> QED
  BY Zenon, <1>2, <1>3, <1>4, <1>5, <1>6, <1>7 DEF IInv

(* Every step keeps the invariant.                                         *)
LEMMA Inductive ==
  ASSUME IInv, [Next]_vars
  PROVE  IInv'
<1>1. CASE Mark \/ Complete \/ EditFlavor \/ CacheSync
  BY Zenon, <1>1, MarkStep, CompleteStep, EditFlavorStep, CacheSyncStep
<1>2. CASE Controller
  BY Zenon, <1>2, ControllerStep
<1>3. CASE Watch \/ WatchEventGetFails
  BY Zenon, <1>3, OpenWatchStep, WatchEventStep, WatchEventGetFailsStep DEF Watch
<1>4. CASE Run
  BY Zenon, <1>4, ReportStartStep, LoadFlavorStep, ReportNoActionStep, RunEndsStep DEF Run
<1>5. CASE ReportReboot \/ BlockTimesOut \/ RestartPipeline \/ RunFails
  BY Zenon, <1>5, ReportRebootStep, BlockTimesOutStep, RestartPipelineStep, RunFailsStep
<1>6. CASE Reboot \/ RestartProcess
  BY Zenon, <1>6, RebootStep, RestartProcessStep
<1>7. CASE UNCHANGED vars
  BY Zenon, <1>7, Stuttering
<1> QED
  BY Zenon, <1>1, <1>2, <1>3, <1>4, <1>5, <1>6, <1>7 DEF Next

(* The inductive invariant holds in every reachable state.                 *)
THEOREM Invariance == Spec => []IInv
<1>1. Init => IInv
  BY Zenon, Initially
<1>2. IInv /\ [Next]_vars => IInv'
  BY Zenon, Inductive
<1> QED
  BY <1>1, <1>2, PTL DEF Spec

(* Every reachable state is well typed, whatever the bounds.               *)
THEOREM AgentTypeCorrect == Spec => []TypeOK
<1>1. IInv => TypeOK
  BY Zenon DEF IInv
<1> QED
  BY <1>1, Invariance, PTL

(* A round that the DPUSet controller has completed was configured with    *)
(* the flavor it was started for, or a later one, for every number of      *)
(* rounds, edits and upsets: DPU Config never takes an earlier report for  *)
(* the one of the round, however far the informer lags.                    *)
THEOREM RoundsAreConfigured == Spec => []CompletedConfigured
<1>1. IInv => CompletedConfigured
  BY Zenon DEF IInv, CompletedConfigured
<1> QED
  BY <1>1, Invariance, PTL

(* maybeReconfigRun never starts a Run for a round that this process has   *)
(* served, however many events queue up behind a Run.                      *)
THEOREM ServedRoundsStayServed == Spec => NoSecondRun
<1> DEFINE Once == run'.stage = "begun" /\ ~run'.boot /\ run.stage \in {"off", "reported"}
                     => run'.round > served'
<1>1. ASSUME IInv'
      PROVE  Once
  <2>1. run'.round \in 0 .. MaxRounds /\ served' \in 0 .. MaxRounds
    BY Zenon, <1>1 DEF IInv, TypeOK
  <2>2. run'.round \in Nat /\ served' \in Nat
    BY Zenon, <2>1, RoundBound
  <2>3. run'.stage # "off" /\ ~run'.boot => served' < run'.round
    BY Zenon, <1>1 DEF IInv, RunInv
  <2>4. served' < run'.round => run'.round > served'
    BY Zenon, <2>2
  <2> QED
    BY Zenon, <2>3, <2>4
<1>2. IInv' => [Once]_vars
  BY Zenon, <1>1
<1> QED
  BY <1>2, Invariance, PTL DEF NoSecondRun
=============================================================================
