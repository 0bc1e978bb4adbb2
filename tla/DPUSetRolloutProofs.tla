------------------------ MODULE DPUSetRolloutProofs ------------------------
(***************************************************************************)
(* Proofs about the rolling updates and in-place rounds of one DPUSet, for *)
(* every number of DPUs and every MaxUnavailableDPUNodes.  They assume     *)
(* that the DPUSet controller reads the current DPUs (Lag = FALSE): with   *)
(* an older list the budget is exceeded, and a round is closed over a DPU  *)
(* that the list does not show.                                            *)
(*                                                                         *)
(* The budget (TakenWithinBudget) is decided in one step and spent in      *)
(* later ones, so the invariant has to carry it from the plan to the       *)
(* marks: as long as a planned mark would still take a serving DPU, the    *)
(* DPUs out of service, those to be marked and without those to be         *)
(* completed first, are within the budget (BudgetInv).  That what the plan *)
(* counts as freed is really back in service needs that a DPU in a round   *)
(* that is Ready since the round started has been through it (DPUInv).     *)
(*                                                                         *)
(* That a finished round has reached its DPUs (RoundFinished) needs an     *)
(* account of every DPU the round began with: it either runs the flavor or *)
(* is still waiting, marked or on its way, and then it keeps the round     *)
(* open (Member); and it needs that a mark of an earlier round cannot be   *)
(* taken for one of this round (RoundInv).                                 *)
(***************************************************************************)
EXTENDS DPUSetRollout, FiniteSetTheorems, TLAPS

(* The statuses.                                                           *)
St == Status(0 .. MaxRounds, 0 .. 2)

(* The lists of DPUs that a reconcile may work from.                       *)
Lists == [life : [Devices -> {"none", "live", "deleting"}], dpu : [Devices -> St],
          spec : [Devices -> [template : 1 .. MaxTemplates, outdated : BOOLEAN]],
          born : [Devices -> {"before", "after"}]]

(* A reconcile has planned its writes and not done all of them.            *)
Planning == pc \in {"complete", "start"}

(* The types, with that of the informer copy.                              *)
Types == TypeOK /\ cached \in Lists

(* A serving DPU is Ready; a marked one has met its agent; the rolling     *)
(* update has taken a marked DPU that drifted; and one that is marked, was *)
(* not taken up by its controller and serves has served since before the   *)
(* round.                                                                  *)
DPUInv(d) ==
  /\ dpu[d].ready => dpu[d].phase = "Ready"
  /\ dpu[d].inProgress => dpu[d].start # 0
  /\ life[d] = "live" /\ spec[d].outdated => ~dpu[d].inProgress
  /\ ~raced /\ life[d] = "live" /\ dpu[d].inProgress /\ ~Begun(dpu[d]) /\ dpu[d].ready => dpu[d].since = "before"

(* What a plan still says of its DPU when it is carried out, though DPUs   *)
(* move on meanwhile.                                                      *)
PlanInv(d) ==
  Planning =>
    /\ plan[d] # "clear"
    /\ plan[d] # "none" => life[d] = "live" /\ ~spec[d].outdated /\ dpu[d].start # 0
    /\ plan[d] = "start" => ~dpu[d].inProgress
    /\ pc = "complete" /\ plan[d] = "stamp" => ~dpu[d].inProgress /\ dpu[d].phase = "Ready"
    /\ pc = "complete" /\ plan[d] = "complete" /\ ~raced => Begun(dpu[d]) /\ dpu[d].phase = "Ready"

(* The DPUs whose completion is written before the marks.                  *)
Pending == IF pc = "complete" THEN Completions ELSE {}

(* The budget that a plan was made with still holds while it is carried    *)
(* out, as long as one of its marks would take a serving DPU.              *)
BudgetInv ==
  ~raced /\ Planning /\ (\E d \in Starts : dpu[d].ready /\ dpu[d].since = "before")
    => Cardinality((Out \ Pending) \cup Starts) <= MaxSlots

(* How the DPUSet object of the reconcile under way differs from the one   *)
(* in the API server: by at most one round, which is then active or was    *)
(* just closed.                                                            *)
SetInv ==
  /\ ~set.cleared
  /\ pc = "idle" => mem = NoDPUSet
  /\ pc \in {"roll", "plan"} => mem.active = set.active /\ mem.round = set.round /\ ~mem.cleared
  /\ Planning => mem.active /\ ~mem.cleared
  /\ pc # "idle" /\ mem.round # set.round => mem.round = set.round + 1
  /\ mem.active /\ ~set.active => mem.round # set.round

(* The round as the controller knows it: a reconcile is ahead of the API   *)
(* server.                                                                 *)
CurRound  == IF pc = "idle" THEN set.round ELSE mem.round

(* Whether it is active.                                                   *)
CurActive == IF pc = "idle" THEN set.active ELSE mem.active

(* No DPU is ahead of the round; none is in progress outside a round; and  *)
(* a DPU that the plan does not expect to keep the round open will not be  *)
(* in progress after its writes.                                           *)
RoundInv(d) ==
  /\ dpu[d].completed <= CurRound /\ dpu[d].round <= CurRound
  /\ dpu[d].reconfiguring.round <= dpu[d].round
  /\ ~CurActive /\ life[d] = "live" => ~dpu[d].inProgress
  /\ Planning /\ life[d] = "live" /\ d \notin blocking.after =>
       /\ plan[d] # "start"
       /\ ~dpu[d].inProgress \/ (pc = "complete" /\ plan[d] = "complete")

(* A member of the round that was not marked yet.                          *)
Waiting(d) ==
  /\ ~dpu[d].inProgress /\ dpu[d].phase = "Ready" /\ dpu[d].ready /\ dpu[d].since = "before"
  /\ dpu[d].completed < CurRound /\ dpu[d].round < CurRound

(* One that was marked, with its controller still to notice.               *)
Marked(d) ==
  /\ dpu[d].inProgress /\ dpu[d].phase = "Ready" /\ dpu[d].ready /\ dpu[d].since = "before"
  /\ ~Begun(dpu[d])

(* One on its way to its agent's Run.                                      *)
Leaving(d) ==
  dpu[d].inProgress /\ dpu[d].phase \in {"Node Effect", "DPU Config"} /\ Begun(dpu[d])

(* A member that does not run the flavor of the round yet.                 *)
Unserved(d) == Waiting(d) \/ Marked(d) \/ Leaving(d)

(* A DPU that the round began with: it runs the flavor or is unserved, and *)
(* unserved it is neither completed nor passed over when the round is      *)
(* closed.                                                                 *)
Member(d) ==
  /\ life[d] = "live" /\ dpu[d].start # 0 /\ born[d] = "before"
  /\ config[d] >= target \/ (Unserved(d) /\ (Planning => plan[d] \in {"none", "start"}))
  /\ Planning /\ mem.requested => d \in blocking.after \/ Applied(d)
  /\ mem.cleared => Applied(d)

(* The inductive invariant.  What is said of rounds is lost with a round   *)
(* that a crash kept from being saved.                                     *)
IInv ==
  /\ Types /\ SetInv
  /\ \A d \in Devices : DPUInv(d) /\ PlanInv(d)
  /\ BudgetInv
  /\ target <= flavor
  /\ ~unsaved => /\ \A d \in Devices : RoundInv(d)
                 /\ \A d \in member \ flapped : Member(d)

-----------------------------------------------------------------------------
(* Sets of devices and the budget.                                         *)

(* Sets of DPUs are finite.                                                *)
LEMMA FiniteDevices ==
  ASSUME NEW S \in SUBSET Devices
  PROVE  IsFiniteSet(S) /\ Cardinality(S) \in Nat
<1>1. IsFiniteSet(Devices)
  BY BoundAssumption, FS_Interval DEF Devices
<1> QED
  BY Zenon, <1>1, FS_Subset, FS_CardinalityType

(* A union is not larger than its parts together.                          *)
LEMMA UnionBound ==
  ASSUME NEW S \in SUBSET Devices, NEW T \in SUBSET Devices
  PROVE  Cardinality(S \cup T) <= Cardinality(S) + Cardinality(T)
<1>1. /\ IsFiniteSet(S) /\ Cardinality(S) \in Nat /\ IsFiniteSet(T) /\ Cardinality(T) \in Nat
      /\ Cardinality(S \cap T) \in Nat
  BY Zenon, FiniteDevices
<1>2. Cardinality(S \cup T) = Cardinality(S) + Cardinality(T) - Cardinality(S \cap T)
  BY Zenon, <1>1, FS_Union
<1> QED
  BY <1>1, <1>2

(* A subset is not larger.                                                 *)
LEMMA SubsetBound ==
  ASSUME NEW S \in SUBSET Devices, NEW T \in SUBSET S
  PROVE  Cardinality(T) <= Cardinality(S)
BY Zenon, FiniteDevices, FS_Subset

(* The slots fill up the budget, and no more.                              *)
LEMMA SlotsBound ==
  ASSUME NEW u \in Nat
  PROVE  /\ MaxSlots \in Nat /\ Slots(u) \in Nat
         /\ Slots(u) > 0 => u + Slots(u) = MaxSlots
<1>1. MaxUnavailable \in Nat /\ N \in Nat
  BY Zenon, BoundAssumption
<1>2. MaxSlots \in Nat
  BY Zenon, <1>1 DEF MaxSlots
<1> QED
  BY <1>2 DEF Slots

(* Taking those with fewer than n before them, in the order of their       *)
(* names, takes at most n.  In-place starts are chosen like that.          *)
LEMMA FirstOnes ==
  ASSUME NEW W \in SUBSET Devices, NEW n \in Nat
  PROVE  Cardinality({d \in W : Cardinality({e \in W : e < d}) < n}) <= n
<1> DEFINE before(d) == {e \in W : e < d}
           S == {d \in W : Cardinality(before(d)) < n}
           T == 0 .. n - 1
           f == [d \in S |-> Cardinality(before(d))]
<1>1. IsFiniteSet(S) /\ Cardinality(S) \in Nat
  BY Zenon, FiniteDevices
<1>2. IsFiniteSet(T) /\ Cardinality(T) = n
  BY FS_Interval
<1>3. f \in [S -> T]
  <2>1. ASSUME NEW d \in S PROVE Cardinality(before(d)) \in T
    <3>1. Cardinality(before(d)) \in Nat
      BY Zenon, FiniteDevices
    <3> QED
      BY <2>1, <3>1
  <2> QED
    BY Zenon, <2>1
<1>4. ASSUME NEW x \in S, NEW y \in S, x < y
      PROVE  f[x] # f[y]
  <2>1. x \in Int /\ y \in Int
    BY DEF Devices
  <2>2. before(x) \subseteq before(y) /\ x \in before(y) /\ x \notin before(x)
    <3>1. x \in W /\ y \in W /\ \A e \in W : e \in Int
      BY DEF Devices
    <3>2. ~(x < x) /\ \A e \in W : e < x => e < y
      BY <1>4, <2>1, <3>1
    <3> QED
      BY Zenon, <1>4, <3>1, <3>2
  <2>3. IsFiniteSet(before(y))
    BY Zenon, FiniteDevices
  <2>4. Cardinality(before(y)) # Cardinality(before(x))
    BY Zenon, <2>2, <2>3, FS_Subset
  <2> QED
    BY Zenon, <2>4
<1>5. \A x, y \in S : x # y => f[x] # f[y]
  <2>1. \A x, y \in S : x \in Int /\ y \in Int
    BY DEF Devices
  <2>2. \A x, y \in S : x # y => x < y \/ y < x
    BY <2>1
  <2> HIDE DEF f, S
  <2> QED
    BY Zenon, <1>4, <2>2
<1>6. ~(n < Cardinality(S))
  <2> HIDE DEF f, S, T
  <2> QED
    BY Zenon, <1>1, <1>2, <1>3, <1>5, FS_PigeonHole
<1> QED
  BY <1>1, <1>6

(* A rolling update that takes a serving DPU stays within the budget.      *)
LEMMA RollBudget ==
  ASSUME NEW list, NEW gone \in Deletes(list), NEW U \in SUBSET (Taken(list) \cup gone),
         NEW d \in gone, d \notin Taken(list)
  PROVE  Cardinality(U) <= MaxSlots
<1> DEFINE available == Drifted(list) \ Taken(list)
           slots     == Slots(Cardinality(Taken(list)))
<1>1. Taken(list) \in SUBSET Devices /\ Drifted(list) \in SUBSET Devices
  BY Zenon DEF Taken, Drifted, Owned
<1>2. PICK c \in SUBSET available :
        /\ Cardinality(c) = IF slots < Cardinality(available) THEN slots ELSE Cardinality(available)
        /\ gone = (Drifted(list) \cap Taken(list)) \cup c
  BY Zenon DEF Deletes
<1>3. Cardinality(Taken(list)) \in Nat /\ Cardinality(c) \in Nat /\ Cardinality(available) \in Nat /\ IsFiniteSet(c)
  BY Zenon, <1>1, FiniteDevices
<1>4. slots \in Nat /\ MaxSlots \in Nat /\ (slots > 0 => Cardinality(Taken(list)) + slots = MaxSlots)
  BY Zenon, <1>3, SlotsBound
<1>5. Cardinality(c) <= slots
  <2> HIDE DEF slots, available
  <2> QED
    BY <1>2, <1>3, <1>4
<1>6. Cardinality(c) # 0
  <2>1. d \in c
    BY Zenon, <1>2
  <2> QED
    BY Zenon, <1>3, <2>1, FS_EmptySet
<1>7. U \subseteq Taken(list) \cup c
  BY Zenon, <1>2
<1>8. Taken(list) \cup c \in SUBSET Devices
  BY Zenon, <1>1
<1>9. Cardinality(U) <= Cardinality(Taken(list) \cup c) /\ Cardinality(U) \in Nat /\ Cardinality(Taken(list) \cup c) \in Nat
  BY Zenon, <1>7, <1>8, SubsetBound, FiniteDevices
<1>10. Cardinality(Taken(list) \cup c) <= Cardinality(Taken(list)) + Cardinality(c)
  BY Zenon, <1>1, UnionBound
<1> HIDE DEF slots, available
<1> QED
  BY <1>3, <1>4, <1>5, <1>6, <1>9, <1>10

-----------------------------------------------------------------------------
(* What a reconcile plans.                                                 *)

(* What planInPlaceCompletion looks at, plan by plan.                      *)
CompletionFacts(list, d, round) ==
  LET p == planInPlaceCompletion(list, d, round)
      s == list.dpu[d]
  IN  /\ p \in {"none", "complete", "stamp", "clear"}
      /\ p # "none" => Capable(list, d)
      /\ p = "clear" => list.spec[d].outdated /\ s.inProgress
      /\ p = "complete" => ~list.spec[d].outdated /\ readyAtOrAfter(s) /\ s.inProgress
      /\ p = "stamp" => ~list.spec[d].outdated /\ readyAtOrAfter(s) /\ ~s.inProgress

(* planInPlaceCompletion, whose cases exclude each other.                  *)
LEMMA Completion ==
  ASSUME NEW list, NEW d, NEW round
  PROVE  CompletionFacts(list, d, round)
<1> DEFINE s        == list.dpu[d]
           outdated == list.spec[d].outdated
           back     == ~outdated /\ readyAtOrAfter(s)
           A == ~Capable(list, d)
           B == Capable(list, d) /\ outdated /\ s.inProgress
           C == Capable(list, d) /\ back /\ s.inProgress
           E == Capable(list, d) /\ back /\ ~s.inProgress /\ mem.requested /\ s.completed < round
<1> DEFINE p == planInPlaceCompletion(list, d, round)
<1>1. p = CASE A -> "none" [] B -> "clear" [] C -> "complete" [] E -> "stamp" [] OTHER -> "none"
  BY Zenon DEF planInPlaceCompletion
<1>2. /\ A => ~B /\ ~C /\ ~E
      /\ B => ~C /\ ~E
      /\ C => ~E
  OBVIOUS
<1>3. /\ A => p = "none"
      /\ B => p = "clear"
      /\ C => p = "complete"
      /\ E => p = "stamp"
      /\ ~A /\ ~B /\ ~C /\ ~E => p = "none"
  <2> HIDE DEF A, B, C, E, p
  <2> QED
    BY Zenon, <1>1, <1>2
<1>4. p = "clear" => B
  <2> HIDE DEF A, B, C, E, p
  <2> QED
    BY Zenon, <1>3
<1>5. p = "complete" => C
  <2> HIDE DEF A, B, C, E, p
  <2> QED
    BY Zenon, <1>3
<1>6. p = "stamp" => E
  <2> HIDE DEF A, B, C, E, p
  <2> QED
    BY Zenon, <1>3
<1>7. p \in {"none", "complete", "stamp", "clear"} /\ (p # "none" => ~A)
  <2> HIDE DEF A, B, C, E, p
  <2> QED
    BY Zenon, <1>3
<1> HIDE DEF p
<1>8. p = "clear" => list.spec[d].outdated /\ list.dpu[d].inProgress
  BY Zenon, <1>4
<1>9. p = "complete" => ~list.spec[d].outdated /\ readyAtOrAfter(list.dpu[d]) /\ list.dpu[d].inProgress
  BY Zenon, <1>5
<1>10. p = "stamp" => ~list.spec[d].outdated /\ readyAtOrAfter(list.dpu[d]) /\ ~list.dpu[d].inProgress
  BY Zenon, <1>6
<1>11. p # "none" => Capable(list, d)
  BY Zenon, <1>7
<1> USE DEF p
<1> QED
  BY <1>7, <1>8, <1>9, <1>10, <1>11, Zenon DEF CompletionFacts

(* A start is planned only for a DPU that may be started; otherwise the    *)
(* completion's plan stands.                                               *)
PlannedFacts(list, d, round) ==
  LET p == Planned(list, round)[d]
  IN  /\ p = "start" => /\ d \in Startable(list, round)
                        /\ readyBeforeRound(list.dpu[d]) \/ phaseJoinsWithoutNewSlot(list.dpu[d])
      /\ p # "start" => p = planInPlaceCompletion(list, d, round)

(* Planned, for one DPU.                                                   *)
LEMMA PlannedCases ==
  ASSUME NEW list, NEW round, NEW d \in Devices
  PROVE  PlannedFacts(list, d, round)
<1> DEFINE done    == [e \in Devices |-> planInPlaceCompletion(list, e, round)]
           freed   == {e \in Devices : done[e] # "none" /\ inProgressStillReady(list, e)}
           slots   == Slots(Cardinality(Taken(list)) - Cardinality(freed))
           waiting == {e \in Startable(list, round) : readyBeforeRound(list.dpu[e])}
           starts  == {e \in waiting : Cardinality({g \in waiting : g < e}) < slots}
           joins   == {e \in Startable(list, round) : phaseJoinsWithoutNewSlot(list.dpu[e])}
<1>1. Planned(list, round) = [e \in Devices |-> IF e \in starts \cup joins THEN "start" ELSE done[e]]
  BY Zenon DEF Planned
<1>2. d \in starts \cup joins => /\ d \in Startable(list, round)
                                 /\ readyBeforeRound(list.dpu[d]) \/ phaseJoinsWithoutNewSlot(list.dpu[d])
  OBVIOUS
<1>3. done[d] = planInPlaceCompletion(list, d, round) /\ done[d] # "start"
  <2>1. CompletionFacts(list, d, round)
    BY Zenon, Completion
  <2>2. planInPlaceCompletion(list, d, round) # "start"
    BY Zenon, <2>1 DEF CompletionFacts
  <2> QED
    BY Zenon, <2>2
<1> HIDE DEF starts, joins, done
<1>4. Planned(list, round)[d] = IF d \in starts \cup joins THEN "start" ELSE done[d]
  BY Zenon, <1>1
<1> QED
  BY Zenon, <1>2, <1>3, <1>4 DEF PlannedFacts

(* A plan that would mark a serving DPU keeps the DPUs taken, without      *)
(* those it completes and with those it starts, within the budget.         *)
LEMMA PlanBudget ==
  ASSUME NEW list, NEW round, NEW U \in SUBSET Devices, NEW d \in Devices,
         Planned(list, round)[d] = "start", readyBeforeRound(list.dpu[d]),
         \A e \in U : \/ e \in Taken(list) /\ Planned(list, round)[e] \notin {"complete", "stamp", "clear"}
                      \/ Planned(list, round)[e] = "start",
         \A e \in Devices : Planned(list, round)[e] = "start" /\ ~readyBeforeRound(list.dpu[e]) => e \in Taken(list)
  PROVE  Cardinality(U) <= MaxSlots
<1> DEFINE done    == [e \in Devices |-> planInPlaceCompletion(list, e, round)]
           freed   == {e \in Devices : done[e] # "none" /\ inProgressStillReady(list, e)}
           slots   == Slots(Cardinality(Taken(list)) - Cardinality(freed))
           waiting == {e \in Startable(list, round) : readyBeforeRound(list.dpu[e])}
           starts  == {e \in waiting : Cardinality({g \in waiting : g < e}) < slots}
           joins   == {e \in Startable(list, round) : phaseJoinsWithoutNewSlot(list.dpu[e])}
           P       == Planned(list, round)
<1>1. P = [e \in Devices |-> IF e \in starts \cup joins THEN "start" ELSE done[e]]
  BY Zenon DEF Planned
<1>2. \A e \in Devices : done[e] = planInPlaceCompletion(list, e, round)
  OBVIOUS
<1>3. \A e \in Devices : CompletionFacts(list, e, round)
  BY Zenon, Completion
<1>4. \A e \in Devices : done[e] \in {"none", "complete", "stamp", "clear"} /\ (done[e] # "none" => Capable(list, e))
  BY Zenon, <1>2, <1>3 DEF CompletionFacts
<1>5. Taken(list) \in SUBSET Devices /\ waiting \in SUBSET Devices
  BY Zenon DEF Taken, Owned, Startable
<1>6. freed \in SUBSET Taken(list)
  BY Zenon, <1>4 DEF Taken, Owned, inProgressStillReady, Capable
<1>7. \A e \in starts \cup joins : e \in Devices /\ done[e] = "none"
  BY Zenon, <1>2 DEF Startable
<1>8. \A e \in Devices : P[e] = IF e \in starts \cup joins THEN "start" ELSE done[e]
  <2> HIDE DEF starts, joins, done, P
  <2> QED
    BY Zenon, <1>1
<1>9. \A e \in joins : ~readyBeforeRound(list.dpu[e])
  BY Zenon DEF phaseJoinsWithoutNewSlot, readyBeforeRound
<1>10. \A e \in freed : e \in Devices /\ done[e] # "none"
  OBVIOUS
<1>s. starts \in SUBSET Devices
  BY Zenon, <1>5
<1>f. Cardinality(freed) \in Nat /\ Cardinality(Taken(list)) \in Nat /\ Cardinality(Taken(list) \cap freed) \in Nat
      /\ IsFiniteSet(Taken(list)) /\ Cardinality(starts) \in Nat /\ IsFiniteSet(starts) /\ Cardinality(U) \in Nat
  BY Zenon, <1>5, <1>6, <1>s, FiniteDevices
<1>11. Cardinality(Taken(list) \ freed) = Cardinality(Taken(list)) - Cardinality(freed)
  <2>1. Taken(list) \cap freed = freed
    BY Zenon, <1>6
  <2> QED
    BY Zenon, <1>f, <2>1, FS_Difference
<1>12. Cardinality(Taken(list)) - Cardinality(freed) \in Nat
  <2>1. Taken(list) \ freed \in SUBSET Devices
    BY Zenon, <1>5
  <2>2. Cardinality(Taken(list) \ freed) \in Nat
    BY Zenon, <2>1, FiniteDevices
  <2> QED
    BY Zenon, <1>11, <2>2
<1>13. /\ slots \in Nat /\ MaxSlots \in Nat
       /\ slots > 0 => (Cardinality(Taken(list)) - Cardinality(freed)) + slots = MaxSlots
  BY Zenon, <1>12, SlotsBound
<1>14. Cardinality(starts) <= slots
  <2> HIDE DEF slots, waiting
  <2> QED
    BY Zenon, <1>5, <1>13, FirstOnes
<1> HIDE DEF done, freed, slots, waiting, starts, joins, P
<1>15. d \in starts
  BY Zenon, <1>4, <1>8, <1>9 DEF P
<1>16. Cardinality(starts) # 0
  BY Zenon, <1>f, <1>15, FS_EmptySet
<1>17. U \subseteq (Taken(list) \ freed) \cup starts
  <2>1. ASSUME NEW e \in U, e \notin starts
        PROVE  e \in Taken(list) /\ e \notin freed
    <3>1. CASE P[e] = "start"
      <4>1. e \in joins
        BY Zenon, <1>4, <1>8, <2>1, <3>1
      <4> QED
        BY Zenon, <1>7, <1>9, <1>10, <3>1, <4>1 DEF P
    <3>2. CASE P[e] # "start"
      <4>1. e \in Taken(list) /\ P[e] \notin {"complete", "stamp", "clear"}
        BY Zenon, <3>2 DEF P
      <4>2. P[e] = done[e]
        BY Zenon, <1>8, <3>2
      <4> QED
        BY Zenon, <1>4, <1>10, <4>1, <4>2
    <3> QED
      BY Zenon, <3>1, <3>2
  <2> QED
    BY Zenon, <2>1
<1>18. /\ Taken(list) \ freed \in SUBSET Devices
       /\ (Taken(list) \ freed) \cup starts \in SUBSET Devices
  BY Zenon, <1>5, <1>s
<1>19. /\ Cardinality(U) <= Cardinality((Taken(list) \ freed) \cup starts)
       /\ Cardinality((Taken(list) \ freed) \cup starts) \in Nat
  BY Zenon, <1>17, <1>18, SubsetBound, FiniteDevices
<1>20. Cardinality((Taken(list) \ freed) \cup starts) <= Cardinality(Taken(list) \ freed) + Cardinality(starts)
  BY Zenon, <1>18, <1>s, UnionBound
<1> QED
  BY <1>f, <1>11, <1>12, <1>13, <1>14, <1>16, <1>19, <1>20

-----------------------------------------------------------------------------
(* What the DPU controller and the agent do to a status.                   *)

(* What the DPU controller and the agent may do to a status from the       *)
(* DPUSet controller's point of view.                                      *)
Evolve(x, y) ==
  /\ y.inProgress = x.inProgress /\ y.round = x.round /\ y.completed = x.completed
  /\ x.start # 0 => y.start # 0
  /\ y.ready => y.phase = "Ready"
  /\ Begun(x) => Begun(y)
  /\ y.reconfiguring = x.reconfiguring \/ y.reconfiguring.round = x.round
  /\ x.phase = "Ready" /\ (~x.inProgress \/ Begun(x)) => y.phase = "Ready"
  /\ x.inProgress /\ ~Begun(x) /\ ~Begun(y) /\ y.ready => x.ready /\ (x.since = "before" => y.since = "before")

(* A DPU that serves since before the round did so already.                *)
Old(x, y) == y.ready /\ y.since = "before" => x.ready /\ x.since = "before"

(* A status with a type, Ready only in the phase Ready.                    *)
Sound(x) == x \in St /\ (x.ready => x.phase = "Ready")

(* The fields of the DPUReconfiguring condition.                           *)
LEMMA ConditionFields ==
  ASSUME NEW r, NEW status, NEW round, r = [status |-> status, round |-> round]
  PROVE  r.round = round /\ r.status = status
OBVIOUS

(* The startup time of the next Run differs from the accepted one.         *)
LEMMA OtherStart ==
  ASSUME NEW seen, NEW start, start = IF seen = 1 THEN 2 ELSE 1
  PROVE  start \in 0 .. 2 /\ start # 0 /\ start # seen
OBVIOUS

(* The jump evolves the status.                                            *)
LEMMA JumpEvolves ==
  ASSUME NEW x, Sound(x), JumpDue(x), NEW y, y = StartInPlaceReconfig(x)
  PROVE  y \in St /\ Evolve(x, y) /\ Old(x, y) /\ y.phase = "Node Effect" /\ Begun(y)
<1>0. x \in St
  BY Zenon DEF Sound
<1> DEFINE r == Reconfiguring(x)
<1>1. /\ r \in St /\ r.inProgress = x.inProgress /\ r.round = x.round /\ r.completed = x.completed /\ r.start = x.start
      /\ r.reconfiguring = [status |-> "true", round |-> x.round]
  BY Zenon, <1>0 DEF St, Status, Reconfiguring
<1>2. y = [NotReady(r) EXCEPT !.phase = "Node Effect"]
  BY Zenon DEF StartInPlaceReconfig
<1> HIDE DEF r
<1>3. y \in St
  BY Zenon, <1>1, <1>2 DEF St, Status, NotReady, Phases
<1>4. y.phase = "Node Effect" /\ y.ready = FALSE
  BY Zenon, <1>1, <1>2 DEF St, Status, NotReady
<1>5. /\ y.reconfiguring = r.reconfiguring /\ y.inProgress = r.inProgress /\ y.round = r.round
      /\ y.completed = r.completed /\ y.start = r.start
  BY Zenon, <1>1, <1>2 DEF St, Status, NotReady
<1>6. y.reconfiguring = [status |-> "true", round |-> x.round]
  BY Zenon, <1>1, <1>5
<1>7. y.reconfiguring.round = x.round /\ y.reconfiguring.status = "true"
  BY <1>6
<1>8. Begun(y)
  BY Zenon, <1>1, <1>5, <1>7 DEF Begun
<1>9. x.inProgress /\ ~Begun(x)
  BY Zenon DEF JumpDue
<1> QED
  BY Zenon, <1>1, <1>3, <1>4, <1>5, <1>7, <1>8, <1>9 DEF Evolve, Old

(* A change of the phase alone does.                                       *)
LEMMA PhaseEvolves ==
  ASSUME NEW x, Sound(x), ~JumpDue(x), NEW phase \in Phases, NEW y, y = [x EXCEPT !.phase = phase],
         x.phase \in {"Install", "Converge"}
  PROVE  y \in St /\ Evolve(x, y) /\ Old(x, y) /\ y.phase = phase /\ y.ready = FALSE
<1>1. x \in St /\ ~x.ready
  BY Zenon DEF Sound
<1>2. y \in St /\ y.phase = phase
  BY Zenon, <1>1 DEF St, Status
<1>3. /\ y.inProgress = x.inProgress /\ y.round = x.round /\ y.completed = x.completed /\ y.start = x.start
      /\ y.reconfiguring = x.reconfiguring /\ y.ready = x.ready
  BY Zenon, <1>1 DEF St, Status
<1>4. x.ready = FALSE
  BY Zenon, <1>1 DEF St, Status
<1> QED
  BY Zenon, <1>2, <1>3, <1>4 DEF Evolve, Old, Begun

(* NodeEffect does.                                                        *)
LEMMA NodeEffectEvolves ==
  ASSUME NEW x, Sound(x), x.phase = "Node Effect", NEW y, y = NodeEffect(x, TRUE)
  PROVE  /\ y \in St /\ Evolve(x, y) /\ Old(x, y)
         /\ x.inProgress => y.phase = "DPU Config" /\ Begun(y)
<1>0. x \in St /\ x.ready = FALSE /\ x.inProgress \in BOOLEAN
  BY Zenon DEF Sound, St, Status
<1> DEFINE armed == IF x.inProgress THEN Reconfiguring(x) ELSE x
<1>1. /\ armed \in St /\ armed.inProgress = x.inProgress /\ armed.round = x.round /\ armed.completed = x.completed
      /\ armed.start = x.start /\ armed.ready = x.ready
      /\ armed.exit = IF x.inProgress THEN "config" ELSE x.exit
      /\ armed.reconfiguring = IF x.inProgress THEN [status |-> "true", round |-> x.round] ELSE x.reconfiguring
  BY Zenon, <1>0 DEF St, Status, Reconfiguring
<1>2. y = CASE ~TRUE -> armed
            [] TRUE /\ armed.exit = "config"  ->
                 [armed EXCEPT !.exit = "install", !.phase = "DPU Config", !.seen = armed.start]
            [] TRUE /\ armed.exit = "cluster" -> [armed EXCEPT !.exit = "install", !.phase = "Converge"]
            [] TRUE /\ armed.exit = "install" -> [armed EXCEPT !.phase = "Install"]
  BY Zenon DEF NodeEffect
<1> HIDE DEF armed
<1>3. armed.exit \in {"install", "config", "cluster"}
  BY Zenon, <1>1 DEF St, Status
<1> DEFINE Same == /\ y.inProgress = armed.inProgress /\ y.round = armed.round /\ y.completed = armed.completed
                   /\ y.start = armed.start /\ y.ready = armed.ready /\ y.reconfiguring = armed.reconfiguring
<1>4. y \in St /\ Same /\ (armed.exit = "config" => y.phase = "DPU Config")
  <2>1. CASE armed.exit = "config"
    <3>1. y = [armed EXCEPT !.exit = "install", !.phase = "DPU Config", !.seen = armed.start]
      BY Zenon, <1>2, <2>1
    <3>2. y \in St /\ y.phase = "DPU Config"
      BY ZenonT(40), <1>1, <3>1 DEF St, Status, Phases
    <3>3. Same
      BY Zenon, <1>1, <3>1 DEF St, Status
    <3> QED
      BY Zenon, <3>2, <3>3
  <2>2. CASE armed.exit = "cluster"
    <3>1. y = [armed EXCEPT !.exit = "install", !.phase = "Converge"]
      BY Zenon, <1>2, <2>2
    <3>2. y \in St
      BY ZenonT(40), <1>1, <3>1 DEF St, Status, Phases
    <3>3. Same
      BY Zenon, <1>1, <3>1 DEF St, Status
    <3> QED
      BY Zenon, <2>2, <3>2, <3>3
  <2>3. CASE armed.exit = "install"
    <3>1. y = [armed EXCEPT !.phase = "Install"]
      BY Zenon, <1>2, <2>3
    <3>2. y \in St
      BY Zenon, <1>1, <3>1 DEF St, Status, Phases
    <3>3. Same
      BY Zenon, <1>1, <3>1 DEF St, Status
    <3> QED
      BY Zenon, <2>3, <3>2, <3>3
  <2> QED
    BY Zenon, <1>3, <2>1, <2>2, <2>3
<1>5. x.inProgress => y.reconfiguring.round = x.round /\ y.reconfiguring.status = "true"
  <2>1. x.inProgress => y.reconfiguring = [status |-> "true", round |-> x.round]
    BY Zenon, <1>1, <1>4
  <2>2. ASSUME x.inProgress
        PROVE  y.reconfiguring.round = x.round /\ y.reconfiguring.status = "true"
    <3>1. y.reconfiguring = [status |-> "true", round |-> x.round]
      BY Zenon, <2>1, <2>2
    <3> QED
      BY ZenonT(90), <3>1, ConditionFields
  <2> QED
    BY Zenon, <2>2
<1>6. x.inProgress => Begun(y)
  BY Zenon, <1>1, <1>4, <1>5 DEF Begun
<1>7. ~x.inProgress => y.reconfiguring = x.reconfiguring /\ (Begun(x) => Begun(y))
  BY Zenon, <1>1, <1>4 DEF Begun
<1> QED
  BY Zenon, <1>0, <1>1, <1>4, <1>5, <1>6, <1>7 DEF Evolve, Old

(* Ready does.                                                             *)
LEMMA ReadyEvolves ==
  ASSUME NEW x, Sound(x), x.phase = "Ready", ~JumpDue(x), NEW nodeReady \in BOOLEAN, NEW y, y = Ready(x, nodeReady, "no")
  PROVE  /\ y \in St /\ Evolve(x, y) /\ Old(x, y) /\ y.phase = "Ready"
         /\ x.ready /\ nodeReady => y.ready /\ y.since = x.since
<1>0. x \in St /\ x.inProgress \in BOOLEAN /\ x.ready \in BOOLEAN
  BY Zenon DEF Sound, St, Status
<1> DEFINE returned == IF x.reconfiguring.status = "true"
                       THEN [x EXCEPT !.reconfiguring = [status |-> "returned", round |-> x.round]]
                       ELSE x
           serving  == IF returned.ready THEN returned
                       ELSE [returned EXCEPT !.ready = TRUE, !.since = "now"]
<1>1. y = IF nodeReady THEN serving ELSE NotReady(returned)
  BY Zenon DEF Ready
<1>2. /\ returned \in St /\ returned.inProgress = x.inProgress /\ returned.round = x.round
      /\ returned.completed = x.completed /\ returned.start = x.start /\ returned.phase = x.phase
      /\ returned.ready = x.ready /\ returned.since = x.since
      /\ returned.reconfiguring = IF x.reconfiguring.status = "true"
                                  THEN [status |-> "returned", round |-> x.round] ELSE x.reconfiguring
  BY <1>0 DEF St, Status
<1>3. /\ serving \in St /\ serving.inProgress = returned.inProgress /\ serving.round = returned.round
      /\ serving.completed = returned.completed /\ serving.start = returned.start /\ serving.phase = returned.phase
      /\ serving.ready = TRUE /\ serving.since = (IF returned.ready THEN returned.since ELSE "now")
      /\ serving.reconfiguring = returned.reconfiguring
  <2> HIDE DEF returned
  <2> QED
    BY Zenon, <1>2 DEF St, Status
<1> DEFINE off == NotReady(returned)
<1>4. /\ off \in St /\ off.inProgress = returned.inProgress /\ off.round = returned.round
      /\ off.completed = returned.completed /\ off.start = returned.start /\ off.phase = returned.phase
      /\ off.ready = FALSE /\ off.reconfiguring = returned.reconfiguring
  <2> HIDE DEF returned
  <2> QED
    BY Zenon, <1>2 DEF St, Status, NotReady
<1> HIDE DEF serving, returned, off
<1>5. /\ y \in St /\ y.inProgress = x.inProgress /\ y.round = x.round
      /\ y.completed = x.completed /\ y.start = x.start /\ y.phase = "Ready"
      /\ y.reconfiguring = IF x.reconfiguring.status = "true"
                           THEN [status |-> "returned", round |-> x.round] ELSE x.reconfiguring
  BY <1>1, <1>2, <1>3, <1>4, Zenon DEF off
<1>6. y.ready /\ y.since = "before" => x.ready /\ x.since = "before"
  BY Zenon, <1>0, <1>1, <1>2, <1>3, <1>4 DEF off
<1>7. x.ready /\ nodeReady => y.ready /\ y.since = x.since
  BY Zenon, <1>1, <1>2, <1>3
<1>8. \/ y.reconfiguring = x.reconfiguring
      \/ y.reconfiguring.round = x.round /\ y.reconfiguring.status = "returned"
  <2>1. CASE x.reconfiguring.status = "true"
    <3>1. y.reconfiguring = [status |-> "returned", round |-> x.round]
      BY Zenon, <1>5, <2>1
    <3> QED
      BY <3>1
  <2>2. CASE x.reconfiguring.status # "true"
    BY Zenon, <1>5, <2>2
  <2> QED
    BY Zenon, <2>1, <2>2
<1>9. Begun(x) => Begun(y)
  BY Zenon, <1>5, <1>8 DEF Begun
<1>10. x.inProgress => Begun(x)
  BY Zenon DEF JumpDue
<1> QED
  BY Zenon, <1>5, <1>6, <1>7, <1>8, <1>9, <1>10 DEF Evolve, Old

(* A Run of the agent that DPU Config accepts does.                        *)
LEMMA ConfigureEvolves ==
  ASSUME NEW x, Sound(x), x.phase = "DPU Config", NEW y,
         y = DPUConfig([x EXCEPT !.start = IF x.seen = 1 THEN 2 ELSE 1, !.method = "none"])
  PROVE  y \in St /\ Evolve(x, y) /\ Old(x, y) /\ y.phase = "Converge"
<1>0. x \in St /\ x.ready = FALSE
  BY Zenon DEF Sound, St, Status
<1> DEFINE start == IF x.seen = 1 THEN 2 ELSE 1
           z == [x EXCEPT !.start = start, !.method = "none"]
<1>1. start \in 0 .. 2 /\ start # 0 /\ start # x.seen
  BY Zenon, OtherStart
<1> HIDE DEF start
<1>2. /\ z \in St /\ z.start = start /\ z.seen = x.seen /\ z.method = "none"
  BY Zenon, <1>0, <1>1 DEF St, Status
<1>3. /\ z.inProgress = x.inProgress /\ z.round = x.round /\ z.completed = x.completed
      /\ z.reconfiguring = x.reconfiguring /\ z.ready = x.ready
  BY Zenon, <1>0, <1>1 DEF St, Status
<1>4. y = DPUConfig(z)
  BY Zenon DEF start
<1> HIDE DEF z
<1>5. y = [z EXCEPT !.seen = z.start, !.phase = "Converge"]
  <2>1. ~(z.method = "unknown" \/ z.start = z.seen)
    BY Zenon, <1>1, <1>2
  <2> QED
    BY Zenon, <1>2, <1>4, <2>1 DEF DPUConfig
<1>6. y \in St /\ y.phase = "Converge" /\ y.start = start
  BY Zenon, <1>2, <1>5 DEF St, Status, Phases
<1>7. /\ y.inProgress = z.inProgress /\ y.round = z.round /\ y.completed = z.completed
      /\ y.reconfiguring = z.reconfiguring /\ y.ready = z.ready
  BY Zenon, <1>2, <1>5 DEF St, Status
<1>8. Begun(x) => Begun(y)
  BY Zenon, <1>3, <1>7 DEF Begun
<1> QED
  BY Zenon, <1>0, <1>1, <1>3, <1>6, <1>7, <1>8 DEF Evolve, Old

(* The clock does.                                                         *)
LEMMA SinceEvolves ==
  ASSUME NEW x, Sound(x), NEW since \in {"before", "now", "after"}, NEW y,
         y = [x EXCEPT !.since = since], x.since = "before" => since = "before"
  PROVE  /\ y \in St /\ Evolve(x, y) /\ y.since = since /\ y.ready = x.ready /\ y.phase = x.phase
         /\ y.start = x.start /\ y.reconfiguring = x.reconfiguring
         /\ since # "before" => Old(x, y)
<1>0. x \in St
  BY Zenon DEF Sound
<1>1. y \in St /\ y.since = since
  BY Zenon, <1>0 DEF St, Status
<1>2. /\ y.inProgress = x.inProgress /\ y.round = x.round /\ y.completed = x.completed /\ y.start = x.start
      /\ y.reconfiguring = x.reconfiguring /\ y.ready = x.ready /\ y.phase = x.phase
  BY Zenon, <1>0 DEF St, Status
<1> QED
  BY Zenon, <1>1, <1>2 DEF Evolve, Old, Begun, Sound

(* Staying the same does.                                                  *)
LEMMA SameEvolves ==
  ASSUME NEW x, Sound(x)
  PROVE  Evolve(x, x) /\ Old(x, x)
BY Zenon DEF Evolve, Old, Sound

-----------------------------------------------------------------------------
(* Steps of the DPUs.                                                      *)

(* The types, one variable at a time.                                      *)
LEMMA Typed ==
  Types <=> /\ life \in [Devices -> {"none", "live", "deleting"}]
            /\ dpu \in [Devices -> St]
            /\ spec \in [Devices -> [template : 1 .. MaxTemplates, outdated : BOOLEAN]]
            /\ config \in [Devices -> 0 .. MaxFlavors]
            /\ born \in [Devices -> {"before", "after"}]
            /\ flavor \in 1 .. MaxFlavors
            /\ set \in DPUSet /\ mem \in DPUSet
            /\ fresh \in BOOLEAN
            /\ pc \in {"idle", "roll", "plan", "complete", "start", "metadata", "status"}
            /\ plan \in [Devices -> Plans]
            /\ blocking \in [before : SUBSET Devices, after : SUBSET Devices]
            /\ member \subseteq Devices /\ target \in 0 .. MaxFlavors
            /\ flapped \subseteq Devices
            /\ upsets \in 0 .. MaxUpsets /\ unsaved \in BOOLEAN /\ raced \in BOOLEAN
            /\ cached \in Lists
BY Zenon DEF Types, TypeOK, St

(* Rounds are natural numbers.                                             *)
LEMMA StatusInts ==
  ASSUME NEW x \in St
  PROVE  x.round \in Nat /\ x.completed \in Nat /\ x.reconfiguring.round \in Nat
<1>1. x.round \in 0 .. MaxRounds /\ x.completed \in 0 .. MaxRounds /\ x.reconfiguring.round \in 0 .. MaxRounds
  BY Zenon DEF St, Status
<1> QED
  BY <1>1, BoundAssumption

(* Every status is sound.                                                  *)
LEMMA Sounds ==
  ASSUME IInv, NEW d \in Devices
  PROVE  Sound(dpu[d])
<1>1. dpu \in [Devices -> St] /\ DPUInv(d)
  BY Zenon, Typed DEF IInv
<1> QED
  BY Zenon, <1>1 DEF Sound, DPUInv

(* A DPU that evolves keeps RoundInv.                                      *)
LEMMA EvolveRound ==
  ASSUME NEW d \in Devices, RoundInv(d), dpu[d] \in St, Evolve(dpu[d], dpu'[d]),
         UNCHANGED <<life, set, pc, mem, plan, blocking>>
  PROVE  RoundInv(d)'
<1>1. CurRound' = CurRound /\ CurActive' = CurActive /\ Planning' = Planning
  BY Zenon DEF CurRound, CurActive, Planning
<1>2. dpu'[d].inProgress = dpu[d].inProgress /\ dpu'[d].round = dpu[d].round /\ dpu'[d].completed = dpu[d].completed
  BY Zenon DEF Evolve
<1>3. dpu'[d].reconfiguring.round <= dpu[d].round
  <2>1. dpu[d].round \in Nat /\ dpu[d].round <= dpu[d].round
    BY StatusInts
  <2> QED
    BY Zenon, <2>1 DEF Evolve, RoundInv
<1> QED
  BY Zenon, <1>1, <1>2, <1>3 DEF RoundInv

(* A DPU that evolves keeps DPUInv and PlanInv.                            *)
LEMMA EvolveDPU ==
  ASSUME NEW d \in Devices, DPUInv(d), PlanInv(d), Evolve(dpu[d], dpu'[d]),
         UNCHANGED <<life, spec, pc, plan, raced>>
  PROVE  DPUInv(d)' /\ PlanInv(d)'
<1>1. DPUInv(d)'
  BY Zenon DEF DPUInv, Evolve
<1>2. PlanInv(d)'
  BY Zenon DEF PlanInv, Planning, Evolve
<1> QED
  BY Zenon, <1>1, <1>2

(* DPUs that evolve do not leave service by themselves, and none becomes   *)
(* one that serves since before the round.                                 *)
LEMMA EvolveBudget ==
  ASSUME BudgetInv, \A d \in Devices : Evolve(dpu[d], dpu'[d]), \A d \in Devices : DPUInv(d),
         Planning => \A d \in Devices : Old(dpu[d], dpu'[d]),
         UNCHANGED <<life, pc, plan, raced>>
  PROVE  BudgetInv'
<1>1. SUFFICES ASSUME ~raced, Planning, NEW d \in Starts, dpu'[d].ready, dpu'[d].since = "before"
               PROVE  Cardinality((Out' \ Pending) \cup Starts) <= MaxSlots
  BY Zenon DEF BudgetInv, Planning, Pending, Completions, Starts
<1>2. d \in Devices /\ dpu[d].ready /\ dpu[d].since = "before"
  BY Zenon, <1>1 DEF Old, Starts
<1>3. Cardinality((Out \ Pending) \cup Starts) <= MaxSlots
  BY Zenon, <1>1, <1>2 DEF BudgetInv
<1>4. Out' \subseteq Out
  <2>1. ASSUME NEW e \in Devices, e \in Out', e \notin Out PROVE FALSE
    <3>1. life[e] = "live" /\ ~dpu[e].inProgress /\ dpu[e].phase = "Ready"
      BY Zenon, <2>1 DEF Out
    <3>2. ~dpu'[e].inProgress /\ dpu'[e].phase = "Ready"
      BY Zenon, <3>1 DEF Evolve
    <3> QED
      BY Zenon, <2>1, <3>1, <3>2 DEF Out
  <2> QED
    BY Zenon, <2>1 DEF Out
<1>5. /\ (Out' \ Pending) \cup Starts \subseteq (Out \ Pending) \cup Starts
      /\ (Out \ Pending) \cup Starts \in SUBSET Devices
  BY Zenon, <1>4 DEF Out, Starts
<1>6. /\ Cardinality((Out' \ Pending) \cup Starts) <= Cardinality((Out \ Pending) \cup Starts)
      /\ Cardinality((Out' \ Pending) \cup Starts) \in Nat /\ Cardinality((Out \ Pending) \cup Starts) \in Nat
  <2>1. (Out' \ Pending) \cup Starts \in SUBSET Devices
    BY Zenon, <1>5
  <2> QED
    BY Zenon, <1>5, <2>1, SubsetBound, FiniteDevices
<1>7. MaxSlots \in Nat
  BY Zenon, SlotsBound
<1> QED
  BY <1>3, <1>6, <1>7

(* SetInv is about the controller alone.                                   *)
LEMMA SetKept ==
  ASSUME SetInv, UNCHANGED <<set, pc, mem>>
  PROVE  SetInv'
BY Zenon DEF SetInv, Planning

(* Steps in which DPUs evolve keep all that is not said of members.        *)
LEMMA EvolveStep ==
  ASSUME IInv, \A d \in Devices : Evolve(dpu[d], dpu'[d]),
         Planning => \A d \in Devices : Old(dpu[d], dpu'[d]),
         UNCHANGED <<life, spec, set, pc, mem, plan, blocking, raced, unsaved>>
  PROVE  /\ \A d \in Devices : DPUInv(d)' /\ PlanInv(d)'
         /\ SetInv' /\ BudgetInv'
         /\ ~unsaved' => \A d \in Devices : RoundInv(d)'
<1>1. /\ SetInv /\ BudgetInv /\ \A d \in Devices : DPUInv(d) /\ PlanInv(d)
      /\ dpu \in [Devices -> St]
      /\ ~unsaved => \A d \in Devices : RoundInv(d)
  BY Zenon, Typed DEF IInv
<1>2. ASSUME NEW d \in Devices PROVE DPUInv(d)' /\ PlanInv(d)'
  BY Zenon, <1>1, EvolveDPU
<1>3. BudgetInv'
  BY Zenon, <1>1, EvolveBudget
<1>4. SetInv'
  BY Zenon, <1>1, SetKept
<1>5. ASSUME ~unsaved, NEW d \in Devices PROVE RoundInv(d)'
  <2>1. dpu[d] \in St /\ RoundInv(d)
    BY Zenon, <1>1, <1>5
  <2> QED
    BY Zenon, <2>1, EvolveRound
<1> QED
  BY Zenon, <1>2, <1>3, <1>4, <1>5

(* A DPU that does not move stays a member.                                *)
LEMMA MemberKept ==
  ASSUME NEW d, Member(d), dpu'[d] = dpu[d], config'[d] = config[d],
         UNCHANGED <<life, spec, born, set, pc, mem, plan, blocking, target>>
  PROVE  Member(d)'
BY Zenon DEF Member, Unserved, Waiting, Marked, Leaving, CurRound, Planning, Applied

(* Writing the status of one DPU leaves the others alone.                  *)
LEMMA PutFrame ==
  ASSUME IInv, NEW d \in Devices, NEW y \in St, dpu' = [dpu EXCEPT ![d] = y], Evolve(dpu[d], y), Old(dpu[d], y)
  PROVE  /\ dpu' \in [Devices -> St] /\ dpu'[d] = y
         /\ \A e \in Devices \ {d} : dpu'[e] = dpu[e]
         /\ \A e \in Devices : Evolve(dpu[e], dpu'[e]) /\ Old(dpu[e], dpu'[e])
<1>1. dpu \in [Devices -> St]
  BY Zenon, Typed DEF IInv
<1>2. dpu' \in [Devices -> St] /\ dpu'[d] = y /\ \A e \in Devices \ {d} : dpu'[e] = dpu[e]
  BY Zenon, <1>1
<1>3. ASSUME NEW e \in Devices, e # d PROVE Evolve(dpu[e], dpu'[e]) /\ Old(dpu[e], dpu'[e])
  <2>1. dpu'[e] = dpu[e] /\ Sound(dpu[e])
    BY Zenon, <1>2, <1>3, Sounds
  <2>2. Evolve(dpu[e], dpu[e]) /\ Old(dpu[e], dpu[e])
    BY Zenon, <2>1, SameEvolves
  <2> QED
    BY Zenon, <2>1, <2>2
<1> QED
  BY Zenon, <1>2, <1>3

(* What a handler does to an unserved DPU: one that waits keeps waiting,   *)
(* and a marked one leaves for its agent's Run.                            *)
MemberMove(x, y) ==
  /\ ~x.inProgress /\ x.phase = "Ready" /\ x.ready /\ x.since = "before" =>
       y.phase = "Ready" /\ y.ready /\ y.since = "before"
  /\ x.inProgress /\ x.phase = "Ready" /\ ~Begun(x) => y.phase = "Node Effect" /\ Begun(y)
  /\ x.inProgress /\ x.phase \in {"Node Effect", "DPU Config"} => y.phase \in {"Node Effect", "DPU Config"} /\ Begun(y)

(* The handlers of the DPU controller evolve a status and move an unserved *)
(* DPU on.                                                                 *)
LEMMA HandleCases ==
  ASSUME IInv, NEW d \in Devices, HandleDPU(d)
  PROVE  \E y \in St : /\ dpu' = [dpu EXCEPT ![d] = y]
                       /\ Evolve(dpu[d], y) /\ Old(dpu[d], y) /\ MemberMove(dpu[d], y)
<1>1. PICK x : x = dpu[d]
  OBVIOUS
<1>2. Sound(x)
  BY Zenon, <1>1, Sounds
<1>3. CASE JumpDue(x) /\ PutDPU(d, StartInPlaceReconfig(x))
  <2>1. PICK y : y = StartInPlaceReconfig(x)
    OBVIOUS
  <2>2. y \in St /\ Evolve(x, y) /\ Old(x, y) /\ y.phase = "Node Effect" /\ Begun(y)
    BY Zenon, <1>2, <1>3, <2>1, JumpEvolves
  <2>3. dpu' = [dpu EXCEPT ![d] = y]
    BY Zenon, <1>3, <2>1 DEF PutDPU
  <2>4. MemberMove(x, y)
    BY Zenon, <1>3, <2>2 DEF MemberMove, JumpDue
  <2> QED
    BY Zenon, <1>1, <2>2, <2>3, <2>4
<1>4. CASE ~JumpDue(x) /\ x.phase = "Install" /\ PutDPU(d, [x EXCEPT !.phase = "DPU Config"])
  <2>1. PICK y : y = [x EXCEPT !.phase = "DPU Config"]
    BY Zenon
  <2>2. y \in St /\ Evolve(x, y) /\ Old(x, y)
    BY Zenon, <1>2, <1>4, <2>1, PhaseEvolves DEF Phases
  <2>3. dpu' = [dpu EXCEPT ![d] = y]
    BY Zenon, <1>4, <2>1 DEF PutDPU
  <2>4. MemberMove(x, y)
    BY Zenon, <1>4 DEF MemberMove
  <2> QED
    BY Zenon, <1>1, <2>2, <2>3, <2>4
<1>5. CASE ~JumpDue(x) /\ x.phase = "Node Effect" /\ PutDPU(d, NodeEffect(x, TRUE))
  <2>1. PICK y : y = NodeEffect(x, TRUE)
    BY Zenon
  <2>2. y \in St /\ Evolve(x, y) /\ Old(x, y) /\ (x.inProgress => y.phase = "DPU Config" /\ Begun(y))
    BY Zenon, <1>2, <1>5, <2>1, NodeEffectEvolves
  <2>3. dpu' = [dpu EXCEPT ![d] = y]
    BY Zenon, <1>5, <2>1 DEF PutDPU
  <2>4. MemberMove(x, y)
    BY Zenon, <1>5, <2>2 DEF MemberMove
  <2> QED
    BY Zenon, <1>1, <2>2, <2>3, <2>4
<1>6. CASE ~JumpDue(x) /\ x.phase = "Converge" /\ PutDPU(d, [x EXCEPT !.phase = "Ready"])
  <2>1. PICK y : y = [x EXCEPT !.phase = "Ready"]
    BY Zenon
  <2>2. y \in St /\ Evolve(x, y) /\ Old(x, y)
    BY Zenon, <1>2, <1>6, <2>1, PhaseEvolves DEF Phases
  <2>3. dpu' = [dpu EXCEPT ![d] = y]
    BY Zenon, <1>6, <2>1 DEF PutDPU
  <2>4. MemberMove(x, y)
    BY Zenon, <1>6 DEF MemberMove
  <2> QED
    BY Zenon, <1>1, <2>2, <2>3, <2>4
<1>7. CASE ~JumpDue(x) /\ x.phase = "Ready" /\ PutDPU(d, Ready(x, TRUE, "no"))
  <2>1. PICK y : y = Ready(x, TRUE, "no")
    BY Zenon
  <2>2. y \in St /\ Evolve(x, y) /\ Old(x, y) /\ y.phase = "Ready" /\ (x.ready => y.ready /\ y.since = x.since)
    BY Zenon, <1>2, <1>7, <2>1, ReadyEvolves
  <2>3. dpu' = [dpu EXCEPT ![d] = y]
    BY Zenon, <1>7, <2>1 DEF PutDPU
  <2>4. MemberMove(x, y)
    BY Zenon, <1>7, <2>2 DEF MemberMove, JumpDue
  <2> QED
    BY Zenon, <1>1, <2>2, <2>3, <2>4
<1> QED
  BY Zenon, <1>1, <1>3, <1>4, <1>5, <1>6, <1>7 DEF HandleDPU

(* A DPU that moves like that stays a member.                              *)
LEMMA MemberMoves ==
  ASSUME NEW d, Member(d), Evolve(dpu[d], dpu'[d]), MemberMove(dpu[d], dpu'[d]), config'[d] = config[d],
         UNCHANGED <<life, spec, born, set, pc, mem, plan, blocking, target>>
  PROVE  Member(d)'
<1>1. CurRound' = CurRound /\ Planning' = Planning
  BY Zenon DEF CurRound, Planning
<1>2. Applied(d) => Applied(d)'
  BY Zenon DEF Applied
<1>3. Unserved(d) => Unserved(d)'
  <2>1. /\ dpu'[d].inProgress = dpu[d].inProgress /\ dpu'[d].round = dpu[d].round
        /\ dpu'[d].completed = dpu[d].completed
    BY Zenon DEF Evolve
  <2>2. Waiting(d) => Waiting(d)'
    BY Zenon, <1>1, <2>1 DEF Waiting, MemberMove
  <2>3. Marked(d) \/ Leaving(d) => Leaving(d)'
    BY Zenon, <2>1 DEF Marked, Leaving, MemberMove
  <2> QED
    BY Zenon, <2>2, <2>3 DEF Unserved
<1>4. dpu'[d].start # 0
  BY Zenon DEF Evolve, Member
<1> QED
  BY Zenon, <1>1, <1>2, <1>3, <1>4 DEF Member

(* The DPU controller keeps the invariant.                                 *)
LEMMA HandleStep ==
  ASSUME IInv, NEW d \in Devices, HandleDPU(d)
  PROVE  IInv'
<1>1. PICK y \in St : /\ dpu' = [dpu EXCEPT ![d] = y]
                      /\ Evolve(dpu[d], y) /\ Old(dpu[d], y) /\ MemberMove(dpu[d], y)
  BY Zenon, HandleCases
<1>2. /\ dpu' \in [Devices -> St] /\ dpu'[d] = y
      /\ \A e \in Devices \ {d} : dpu'[e] = dpu[e]
      /\ \A e \in Devices : Evolve(dpu[e], dpu'[e]) /\ Old(dpu[e], dpu'[e])
  BY ZenonT(40), <1>1, PutFrame
<1>3. UNCHANGED <<life, spec, config, born, flavor, fresh, member, target, flapped, set, cached, pc, mem, plan,
                  blocking, upsets, unsaved, raced>>
  BY Zenon DEF HandleDPU, world, process, faults
<1>4. Types'
  BY Zenon, <1>2, <1>3, Typed DEF IInv, Types, TypeOK, St
<1>5. /\ \A e \in Devices : DPUInv(e)' /\ PlanInv(e)'
      /\ SetInv' /\ BudgetInv'
      /\ ~unsaved' => \A e \in Devices : RoundInv(e)'
  BY Zenon, <1>2, <1>3, EvolveStep
<1>6. ASSUME ~unsaved, NEW e \in member \ flapped PROVE Member(e)'
  <2>1. Member(e) /\ e \in Devices
    BY Zenon, <1>6, Typed DEF IInv
  <2>2. CASE e = d
    BY Zenon, <1>1, <1>2, <1>3, <2>1, <2>2, MemberMoves
  <2>3. CASE e # d
    BY Zenon, <1>2, <1>3, <2>1, <2>3, MemberKept
  <2> QED
    BY Zenon, <2>2, <2>3
<1>7. target' <= flavor'
  BY Zenon, <1>3 DEF IInv
<1> QED
  BY Zenon, <1>3, <1>4, <1>5, <1>6, <1>7 DEF IInv

(* The agent's Run keeps the invariant: it applies the current flavor.     *)
LEMMA ConfigureStep ==
  ASSUME IInv, NEW d \in Devices, Configure(d)
  PROVE  IInv'
<1>x. PICK x : x = dpu[d]
  OBVIOUS
<1>y. PICK y : y = DPUConfig([x EXCEPT !.start = IF x.seen = 1 THEN 2 ELSE 1, !.method = "none"])
  OBVIOUS
<1>1. x.phase = "DPU Config" /\ dpu' = [dpu EXCEPT ![d] = y] /\ config' = [config EXCEPT ![d] = flavor]
  BY ZenonT(40), <1>x, <1>y DEF Configure, PutDPU
<1>2. Sound(x)
  BY Zenon, <1>x, Sounds
<1>3. y \in St /\ Evolve(x, y) /\ Old(x, y)
  BY Zenon, <1>1, <1>2, <1>y, ConfigureEvolves
<1>4. /\ dpu' \in [Devices -> St] /\ dpu'[d] = y
      /\ \A e \in Devices \ {d} : dpu'[e] = dpu[e]
      /\ \A e \in Devices : Evolve(dpu[e], dpu'[e]) /\ Old(dpu[e], dpu'[e])
  BY Zenon, <1>x, <1>1, <1>3, PutFrame
<1>5. UNCHANGED <<life, spec, born, flavor, fresh, member, target, flapped, set, cached, pc, mem, plan,
                  blocking, upsets, unsaved, raced>>
  BY Zenon DEF Configure, world, process, faults
<1>6. config \in [Devices -> 0 .. MaxFlavors] /\ flavor \in 1 .. MaxFlavors /\ target \in 0 .. MaxFlavors
  BY Zenon, Typed DEF IInv
<1>7. config' \in [Devices -> 0 .. MaxFlavors] /\ config'[d] = flavor /\ \A e \in Devices \ {d} : config'[e] = config[e]
  <2>1. flavor \in 0 .. MaxFlavors
    BY <1>6
  <2> QED
    BY Zenon, <1>1, <1>6, <2>1
<1>8. Types'
  BY Zenon, <1>4, <1>5, <1>7, Typed DEF IInv, Types, TypeOK, St
<1>9. /\ \A e \in Devices : DPUInv(e)' /\ PlanInv(e)'
      /\ SetInv' /\ BudgetInv'
      /\ ~unsaved' => \A e \in Devices : RoundInv(e)'
  BY Zenon, <1>4, <1>5, EvolveStep
<1>10. target <= flavor /\ target' <= flavor' /\ flavor >= target
  <2>1. target <= flavor
    BY Zenon DEF IInv
  <2> QED
    BY Zenon, <1>5, <1>6, <2>1
<1>11. ASSUME ~unsaved, NEW e \in member \ flapped PROVE Member(e)'
  <2>1. Member(e) /\ e \in Devices
    BY Zenon, <1>11, Typed DEF IInv
  <2>2. CASE e = d
    <3>1. config'[d] >= target' /\ Applied(d)'
      BY Zenon, <1>5, <1>7, <1>10 DEF Applied
    <3>2. dpu'[d].start # 0
      BY Zenon, <1>4, <2>1, <2>2 DEF Member, Evolve
    <3> QED
      BY Zenon, <1>5, <2>1, <2>2, <3>1, <3>2 DEF Member
  <2>3. CASE e # d
    BY Zenon, <1>4, <1>5, <1>7, <2>1, <2>3, MemberKept
  <2> QED
    BY Zenon, <2>2, <2>3
<1> QED
  BY Zenon, <1>5, <1>8, <1>9, <1>10, <1>11 DEF IInv

(* An upset stays within its bound.                                        *)
LEMMA UpsetBound ==
  ASSUME upsets \in 0 .. MaxUpsets, Upset
  PROVE  upsets' \in 0 .. MaxUpsets
BY BoundAssumption DEF Upset

(* A Node that becomes NotReady keeps the invariant.                       *)
LEMMA NotReadyStep ==
  ASSUME IInv, NEW d \in Devices, NodeNotReady(d)
  PROVE  IInv'
<1>x. PICK x : x = dpu[d]
  OBVIOUS
<1>y. PICK y : y = Ready(x, FALSE, "no")
  BY Zenon
<1>1. x.phase = "Ready" /\ ~JumpDue(x) /\ dpu' = [dpu EXCEPT ![d] = y] /\ flapped' = flapped \cup {d}
  BY Zenon, <1>x, <1>y DEF NodeNotReady, PutDPU
<1>2. Sound(x)
  BY Zenon, <1>x, Sounds
<1>3. y \in St /\ Evolve(x, y) /\ Old(x, y)
  BY Zenon, <1>1, <1>2, <1>y, ReadyEvolves
<1>4. /\ dpu' \in [Devices -> St] /\ dpu'[d] = y
      /\ \A e \in Devices \ {d} : dpu'[e] = dpu[e]
      /\ \A e \in Devices : Evolve(dpu[e], dpu'[e]) /\ Old(dpu[e], dpu'[e])
  BY Zenon, <1>x, <1>1, <1>3, PutFrame
<1>5. UNCHANGED <<life, spec, config, born, flavor, fresh, member, target, set, cached, pc, mem, plan,
                  blocking, unsaved, raced>>
  BY Zenon DEF NodeNotReady, process
<1>6. upsets' \in 0 .. MaxUpsets /\ flapped' \subseteq Devices
  BY Zenon, <1>1, UpsetBound, Typed DEF IInv, NodeNotReady
<1>8. Types'
  BY Zenon, <1>4, <1>5, <1>6, Typed DEF IInv, Types, TypeOK, St
<1>9. /\ \A e \in Devices : DPUInv(e)' /\ PlanInv(e)'
      /\ SetInv' /\ BudgetInv'
      /\ ~unsaved' => \A e \in Devices : RoundInv(e)'
  BY Zenon, <1>4, <1>5, EvolveStep
<1>11. ASSUME ~unsaved, NEW e \in member \ flapped' PROVE Member(e)'
  <2>1. Member(e) /\ e \in Devices /\ e # d
    BY Zenon, <1>1, <1>11, Typed DEF IInv
  <2> QED
    BY Zenon, <1>4, <1>5, <2>1, MemberKept
<1>12. target' <= flavor'
  BY Zenon, <1>5 DEF IInv
<1> QED
  BY Zenon, <1>5, <1>8, <1>9, <1>11, <1>12 DEF IInv

(* Changing the time of Ready gives a status.                              *)
LEMMA SinceTyped ==
  ASSUME NEW s \in [Devices -> St], NEW later \in {"before", "now", "after"}, NEW d \in Devices
  PROVE  [s[d] EXCEPT !.since = later] \in St
<1>1. PICK x : x = s[d]
  OBVIOUS
<1>2. x \in St
  BY Zenon, <1>1
<1>3. [x EXCEPT !.since = later] \in St
  BY Zenon, <1>2 DEF St, Status
<1> QED
  BY Zenon, <1>1, <1>3

(* The clock keeps the invariant: while writes are planned a round is      *)
(* active, so nothing becomes older than the round.                        *)
LEMMA TickStep ==
  ASSUME IInv, Tick
  PROVE  IInv'
<1> DEFINE later == IF set.active \/ mem.active THEN "after" ELSE "before"
           Later(s) == [d \in Devices |-> IF s[d].since = "now" THEN [s[d] EXCEPT !.since = later] ELSE s[d]]
<1>1. dpu' = Later(dpu) /\ cached' = [cached EXCEPT !.dpu = Later(cached.dpu)] /\ fresh' = FALSE
  BY Zenon DEF Tick
<1>2. UNCHANGED <<life, spec, config, born, flavor, member, target, flapped, set, pc, mem, plan, blocking,
                  upsets, unsaved, raced>>
  BY Zenon DEF Tick, process, faults
<1>3. later \in {"before", "now", "after"} /\ later # "now"
  OBVIOUS
<1>a. Planning => later = "after"
  BY Zenon DEF IInv, SetInv
<1> HIDE DEF later
<1>4. \A s \in [Devices -> St] : Later(s) \in [Devices -> St]
  BY Zenon, <1>3, SinceTyped
<1>5. dpu \in [Devices -> St] /\ cached \in Lists
  BY Zenon, Typed DEF IInv
<1>6. dpu' \in [Devices -> St] /\ cached' \in Lists
  <2>1. dpu' \in [Devices -> St]
    BY Zenon, <1>1, <1>4, <1>5
  <2>2. cached.dpu \in [Devices -> St]
    BY Zenon, <1>5 DEF Lists
  <2>3. Later(cached.dpu) \in [Devices -> St]
    BY Zenon, <1>4, <2>2
  <2> HIDE DEF Later
  <2>4. cached' \in Lists
    BY Zenon, <1>1, <1>5, <2>3 DEF Lists
  <2> QED
    BY Zenon, <2>1, <2>4
<1>7. Types'
  BY Zenon, <1>1, <1>2, <1>6, Typed DEF IInv, Types, TypeOK, St
<1>8. \A d \in Devices : dpu'[d] = IF dpu[d].since = "now" THEN [dpu[d] EXCEPT !.since = later] ELSE dpu[d]
  BY Zenon, <1>1
<1>9. ASSUME NEW d \in Devices
      PROVE  /\ Evolve(dpu[d], dpu'[d])
             /\ Planning => Old(dpu[d], dpu'[d])
             /\ \/ dpu'[d] = dpu[d]
                \/ /\ dpu[d].since = "now" /\ dpu'[d].phase = dpu[d].phase /\ dpu'[d].start = dpu[d].start
                   /\ dpu'[d].reconfiguring = dpu[d].reconfiguring
  <2>1. PICK x : x = dpu[d]
    OBVIOUS
  <2>2. PICK y : y = dpu'[d]
    OBVIOUS
  <2>3. Sound(x)
    BY Zenon, <2>1, Sounds
  <2>4. CASE x.since = "now"
    <3>1. y = [x EXCEPT !.since = later]
      BY Zenon, <1>8, <2>1, <2>2, <2>4
    <3>2. /\ Evolve(x, y) /\ y.phase = x.phase /\ y.start = x.start /\ y.reconfiguring = x.reconfiguring
          /\ later # "before" => Old(x, y)
      BY <1>3, <2>3, <2>4, <3>1, SinceEvolves
    <3> QED
      BY Zenon, <1>a, <2>1, <2>2, <2>4, <3>2
  <2>5. CASE x.since # "now"
    <3>1. y = x
      BY ZenonT(40), <1>8, <2>1, <2>2, <2>5
    <3> QED
      BY Zenon, <2>1, <2>2, <2>3, <3>1, SameEvolves
  <2> QED
    BY Zenon, <2>4, <2>5
<1>10. /\ \A e \in Devices : DPUInv(e)' /\ PlanInv(e)'
       /\ SetInv' /\ BudgetInv'
       /\ ~unsaved' => \A e \in Devices : RoundInv(e)'
  BY Zenon, <1>2, <1>9, EvolveStep
<1>11. ASSUME ~unsaved, NEW d \in member \ flapped PROVE Member(d)'
  <2>1. Member(d) /\ d \in Devices
    BY Zenon, <1>11, Typed DEF IInv
  <2>2. CASE dpu'[d] = dpu[d]
    BY Zenon, <1>2, <2>1, <2>2, MemberKept
  <2>3. CASE /\ dpu[d].since = "now" /\ dpu'[d].phase = dpu[d].phase /\ dpu'[d].start = dpu[d].start
             /\ dpu'[d].reconfiguring = dpu[d].reconfiguring
    <3>1. ~Waiting(d) /\ ~Marked(d)
      BY Zenon, <2>3 DEF Waiting, Marked
    <3>2. Leaving(d) => Leaving(d)'
      BY Zenon, <1>9, <2>1, <2>3 DEF Leaving, Evolve
    <3> QED
      BY Zenon, <1>2, <2>1, <2>3, <3>1, <3>2 DEF Member, Unserved, Planning, Applied
  <2> QED
    BY Zenon, <1>9, <2>1, <2>2, <2>3
<1>12. target' <= flavor'
  BY Zenon, <1>2 DEF IInv
<1> QED
  BY Zenon, <1>2, <1>7, <1>10, <1>11, <1>12 DEF IInv

(* A DPU that is left alone keeps DPUInv and PlanInv.                      *)
LEMMA DeviceKept ==
  ASSUME NEW d, DPUInv(d), PlanInv(d), dpu'[d] = dpu[d], life'[d] = life[d], spec'[d] = spec[d],
         UNCHANGED <<pc, plan, raced>>
  PROVE  DPUInv(d)' /\ PlanInv(d)'
BY Zenon DEF DPUInv, PlanInv, Planning

(* A new DPU, field by field.                                              *)
LEMMA NewFields ==
  ASSUME NEW phase \in Phases
  PROVE  /\ NewStatus(phase) \in St
         /\ NewStatus(phase).phase = phase /\ NewStatus(phase).ready = FALSE /\ NewStatus(phase).inProgress = FALSE
         /\ NewStatus(phase).round = 0 /\ NewStatus(phase).completed = 0
         /\ NewStatus(phase).reconfiguring.round = 0
<1>1. 0 \in 0 .. MaxRounds /\ 0 \in 0 .. 2
  BY BoundAssumption
<1> QED
  BY Zenon, <1>1 DEF NewStatus, St, Status

(* Rounds are natural numbers.                                             *)
LEMMA CurRoundNat ==
  ASSUME IInv
  PROVE  CurRound \in Nat /\ set.round \in Nat /\ mem.round \in Nat
<1>1. set.round \in 0 .. MaxRounds /\ mem.round \in 0 .. MaxRounds
  BY Zenon, Typed DEF IInv, DPUSet
<1> QED
  BY <1>1, BoundAssumption DEF CurRound

(* The end of a deletion keeps the invariant: nothing was planned for that *)
(* DPU, and it was out of service before.                                  *)
LEMMA GoneStep ==
  ASSUME IInv, NEW d \in Devices, Gone(d)
  PROVE  IInv'
<1>i. /\ SetInv /\ BudgetInv /\ \A e \in Devices : DPUInv(e) /\ PlanInv(e)
  BY Zenon DEF IInv
<1>t. /\ life \in [Devices -> {"none", "live", "deleting"}] /\ dpu \in [Devices -> St]
      /\ spec \in [Devices -> [template : 1 .. MaxTemplates, outdated : BOOLEAN]]
      /\ config \in [Devices -> 0 .. MaxFlavors] /\ born \in [Devices -> {"before", "after"}]
      /\ set \in DPUSet
  BY Zenon, Typed DEF IInv
<1>1. /\ life[d] = "deleting" /\ life' = [life EXCEPT ![d] = "none"]
      /\ dpu' = [dpu EXCEPT ![d] = NewStatus("Install")]
      /\ config' = [config EXCEPT ![d] = 0]
      /\ spec' = [spec EXCEPT ![d] = [template |-> 1, outdated |-> FALSE]]
      /\ born' = [born EXCEPT ![d] = "before"]
  BY Zenon DEF Gone
<1>2. UNCHANGED <<flavor, fresh, member, target, flapped, set, cached, pc, mem, plan, blocking, upsets, unsaved, raced>>
  BY Zenon DEF Gone, world, process, faults
<1>3. PICK y : y = NewStatus("Install")
  OBVIOUS
<1>4. /\ y \in St /\ y.ready = FALSE /\ y.inProgress = FALSE /\ y.round = 0 /\ y.completed = 0 /\ y.reconfiguring.round = 0
  BY Zenon, <1>3, NewFields DEF Phases
<1>5. dpu' \in [Devices -> St] /\ dpu'[d] = y /\ \A e \in Devices \ {d} : dpu'[e] = dpu[e]
  BY Zenon, <1>t, <1>1, <1>3, <1>4
<1>6. life' \in [Devices -> {"none", "live", "deleting"}] /\ life'[d] = "none" /\ \A e \in Devices \ {d} : life'[e] = life[e]
  BY Zenon, <1>t, <1>1
<1>7. /\ spec' \in [Devices -> [template : 1 .. MaxTemplates, outdated : BOOLEAN]]
      /\ \A e \in Devices \ {d} : spec'[e] = spec[e]
  <2>1. set.template \in 1 .. MaxTemplates
    BY Zenon, <1>t DEF DPUSet
  <2>2. 1 \in 1 .. MaxTemplates
    BY <2>1, BoundAssumption
  <2>3. [template |-> 1, outdated |-> FALSE] \in [template : 1 .. MaxTemplates, outdated : BOOLEAN]
    BY Zenon, <2>2
  <2> QED
    BY Zenon, <1>t, <1>1, <2>3
<1>8. config' \in [Devices -> 0 .. MaxFlavors] /\ \A e \in Devices \ {d} : config'[e] = config[e]
  <2>1. 0 \in 0 .. MaxFlavors
    BY BoundAssumption
  <2> QED
    BY Zenon, <1>t, <1>1, <2>1
<1>9. born' \in [Devices -> {"before", "after"}] /\ \A e \in Devices \ {d} : born'[e] = born[e]
  BY Zenon, <1>t, <1>1
<1>10. Types'
  BY Zenon, <1>2, <1>5, <1>6, <1>7, <1>8, <1>9, Typed DEF IInv, Types, TypeOK, St
<1>11. SetInv'
  BY Zenon, <1>i, <1>2, SetKept
<1>12. Planning => plan[d] = "none"
  BY Zenon, <1>i, <1>1 DEF PlanInv
<1>13. ASSUME NEW e \in Devices PROVE DPUInv(e)' /\ PlanInv(e)'
  <2>1. CASE e = d
    <3>1. DPUInv(d)'
      BY Zenon, <1>4, <1>5, <1>6 DEF DPUInv
    <3>2. PlanInv(d)'
      BY Zenon, <1>2, <1>12 DEF PlanInv, Planning
    <3> QED
      BY Zenon, <2>1, <3>1, <3>2
  <2>2. CASE e # d
    BY Zenon, <1>i, <1>2, <1>5, <1>6, <1>7, <2>2, DeviceKept
  <2> QED
    BY Zenon, <2>1, <2>2
<1>14. BudgetInv'
  <2>1. Out' = Out
    <3>1. d \in Out /\ d \in Out'
      BY Zenon, <1>1, <1>6 DEF Out
    <3>2. \A e \in Devices \ {d} : e \in Out <=> e \in Out'
      BY Zenon, <1>5, <1>6 DEF Out
    <3> QED
      BY Zenon, <3>1, <3>2 DEF Out
  <2>2. Planning => \A e \in Starts : e \in Devices /\ e # d
    BY Zenon, <1>12 DEF Starts
  <2>3. Planning' = Planning /\ Starts' = Starts /\ Pending' = Pending
    BY Zenon, <1>2 DEF Planning, Starts, Pending, Completions
  <2> QED
    BY Zenon, <1>i, <1>2, <1>5, <2>1, <2>2, <2>3 DEF BudgetInv
<1>15. ASSUME ~unsaved, NEW e \in Devices PROVE RoundInv(e)'
  <2>1. CurRound' = CurRound /\ CurActive' = CurActive /\ Planning' = Planning
    BY Zenon, <1>2 DEF CurRound, CurActive, Planning
  <2>2. RoundInv(e)
    BY Zenon, <1>15 DEF IInv
  <2>3. CASE e = d
    <3>1. 0 <= CurRound /\ 0 <= 0
      BY CurRoundNat
    <3> QED
      BY SMTT(30), <1>2, <1>4, <1>5, <1>6, <2>1, <2>3, <3>1 DEF RoundInv
  <2>4. CASE e # d
    BY Zenon, <1>2, <1>5, <1>6, <2>1, <2>2, <2>4 DEF RoundInv
  <2> QED
    BY Zenon, <2>3, <2>4
<1>16. ASSUME ~unsaved, NEW e \in member \ flapped PROVE Member(e)'
  <2>1. Member(e) /\ e \in Devices
    BY Zenon, <1>16, Typed DEF IInv
  <2>2. e # d
    BY Zenon, <1>1, <2>1 DEF Member
  <2>3. /\ dpu'[e] = dpu[e] /\ config'[e] = config[e] /\ life'[e] = life[e] /\ spec'[e] = spec[e] /\ born'[e] = born[e]
    BY Zenon, <1>5, <1>6, <1>7, <1>8, <1>9, <2>1, <2>2
  <2> QED
    BY ZenonT(40), <1>2, <2>1, <2>3 DEF Member, Unserved, Waiting, Marked, Leaving, CurRound, Planning, Applied
<1>17. target' <= flavor'
  BY Zenon, <1>2 DEF IInv
<1> QED
  BY Zenon, <1>2, <1>10, <1>11, <1>13, <1>14, <1>15, <1>16, <1>17 DEF IInv

-----------------------------------------------------------------------------
(* Steps that leave the DPUs alone.                                        *)

(* Steps that leave the DPUs alone, and either the plan too or no plan at  *)
(* all.                                                                    *)
LEMMA ObjectsKept ==
  ASSUME IInv, UNCHANGED <<life, dpu, spec, config, born, target, member, flapped, raced>>,
         (UNCHANGED <<pc, plan, blocking, mem>>) \/ ~Planning',
         ~unsaved' => ~unsaved /\ CurRound' = CurRound /\ (~CurActive' => ~CurActive),
         mem'.cleared => mem.cleared
  PROVE  /\ \A d \in Devices : DPUInv(d)' /\ PlanInv(d)'
         /\ BudgetInv'
         /\ ~unsaved' => /\ \A d \in Devices : RoundInv(d)'
                         /\ \A d \in member' \ flapped' : Member(d)'
<1>i. /\ BudgetInv /\ \A d \in Devices : DPUInv(d) /\ PlanInv(d)
      /\ ~unsaved => (\A d \in Devices : RoundInv(d)) /\ (\A d \in member \ flapped : Member(d))
  BY Zenon DEF IInv
<1>1. ASSUME NEW d \in Devices PROVE DPUInv(d)' /\ PlanInv(d)'
  <2>1. DPUInv(d)'
    BY Zenon, <1>i DEF DPUInv
  <2>2. PlanInv(d)'
    BY Zenon, <1>i DEF PlanInv, Planning
  <2> QED
    BY Zenon, <2>1, <2>2
<1>2. BudgetInv'
  BY Zenon, <1>i DEF BudgetInv, Planning, Pending, Starts, Completions, Out
<1>3. ASSUME ~unsaved', NEW d \in Devices PROVE RoundInv(d)'
  <2>1. RoundInv(d) /\ CurRound' = CurRound /\ (~CurActive' => ~CurActive)
    BY Zenon, <1>i, <1>3
  <2> QED
    BY Zenon, <2>1 DEF RoundInv, Planning
<1>4. ASSUME ~unsaved', NEW d \in member \ flapped PROVE Member(d)'
  <2>1. Member(d) /\ CurRound' = CurRound
    BY Zenon, <1>i, <1>4
  <2>2. Unserved(d)' <=> Unserved(d)
    BY Zenon, <2>1 DEF Unserved, Waiting, Marked, Leaving
  <2>3. Applied(d)' <=> Applied(d)
    BY Zenon DEF Applied
  <2> QED
    BY Zenon, <2>1, <2>2, <2>3 DEF Member, Planning
<1> QED
  BY Zenon, <1>1, <1>2, <1>3, <1>4

(* An edit of the user keeps the invariant.                                *)
LEMMA SetStep ==
  ASSUME IInv, UNCHANGED <<life, dpu, spec, config, born, fresh, target, member, flapped, raced, unsaved,
                           cached, pc, plan, blocking, mem>>,
         set' \in DPUSet, set'.active = set.active, set'.round = set.round, set'.cleared = set.cleared,
         upsets' \in 0 .. MaxUpsets, flavor' \in 1 .. MaxFlavors, target <= flavor'
  PROVE  IInv'
<1>1. Types'
  BY Zenon, Typed DEF IInv, Types, TypeOK
<1>2. SetInv'
  BY Zenon DEF IInv, SetInv, Planning
<1>3. CurRound' = CurRound /\ CurActive' = CurActive
  BY Zenon DEF CurRound, CurActive
<1>4. /\ \A d \in Devices : DPUInv(d)' /\ PlanInv(d)'
      /\ BudgetInv'
      /\ ~unsaved' => /\ \A d \in Devices : RoundInv(d)'
                      /\ \A d \in member' \ flapped' : Member(d)'
  BY Zenon, <1>3, ObjectsKept
<1> QED
  BY Zenon, <1>1, <1>2, <1>4 DEF IInv

(* The fields of a DPUSet.                                                 *)
LEMMA SetFields ==
  ASSUME NEW s \in DPUSet
  PROVE  /\ s.round \in 0 .. MaxRounds /\ s.template \in 1 .. MaxTemplates
         /\ s.active \in BOOLEAN /\ s.requested \in BOOLEAN /\ s.cleared \in BOOLEAN
BY Zenon DEF DPUSet

(* The user keeps the invariant.                                           *)
LEMMA UserStep ==
  ASSUME IInv, EditTemplate \/ EditFlavor \/ Annotate \/ Abort
  PROVE  IInv'
<1>t. set \in DPUSet /\ upsets \in 0 .. MaxUpsets /\ flavor \in 1 .. MaxFlavors /\ target \in 0 .. MaxFlavors
  BY Zenon, Typed DEF IInv
<1>u. target <= flavor
  BY Zenon DEF IInv
<1>1. CASE EditTemplate
  <2>1. /\ set.template < MaxTemplates /\ set' = [set EXCEPT !.template = @ + 1]
        /\ UNCHANGED <<life, dpu, spec, config, born, flavor, fresh, target, member, flapped, raced, unsaved,
                       cached, pc, plan, blocking, mem>>
    BY Zenon, <1>1 DEF EditTemplate, objects, world, process
  <2>2. upsets' \in 0 .. MaxUpsets
    BY Zenon, <1>t, <1>1, UpsetBound DEF EditTemplate
  <2>3. set.template + 1 \in 1 .. MaxTemplates
    BY <1>t, <2>1, SetFields, BoundAssumption
  <2>4. set' \in DPUSet /\ set'.active = set.active /\ set'.round = set.round /\ set'.cleared = set.cleared
    BY Zenon, <1>t, <2>1, <2>3 DEF DPUSet
  <2> QED
    BY Zenon, <1>t, <1>u, <2>1, <2>2, <2>4, SetStep
<1>2. CASE EditFlavor
  <2>1. /\ flavor < MaxFlavors /\ flavor' = flavor + 1
        /\ UNCHANGED <<life, dpu, spec, config, born, fresh, target, member, flapped, raced, unsaved, set,
                       cached, pc, plan, blocking, mem>>
    BY Zenon, <1>2 DEF EditFlavor, objects, process
  <2>2. upsets' \in 0 .. MaxUpsets
    BY Zenon, <1>t, <1>2, UpsetBound DEF EditFlavor
  <2>3. flavor' \in 1 .. MaxFlavors /\ target <= flavor'
    <3>1. MaxFlavors \in Nat /\ flavor < MaxFlavors /\ flavor' = flavor + 1
      BY Zenon, <2>1, BoundAssumption
    <3> QED
      BY <1>t, <1>u, <3>1
  <2> QED
    BY Zenon, <1>t, <2>1, <2>2, <2>3, SetStep
<1>3. CASE Annotate
  <2>1. /\ set' = [set EXCEPT !.requested = TRUE]
        /\ UNCHANGED <<life, dpu, spec, config, born, flavor, fresh, target, member, flapped, raced, unsaved, upsets,
                       cached, pc, plan, blocking, mem>>
    BY Zenon, <1>3 DEF Annotate, objects, world, process, faults
  <2>4. set' \in DPUSet /\ set'.active = set.active /\ set'.round = set.round /\ set'.cleared = set.cleared
    BY Zenon, <1>t, <2>1 DEF DPUSet
  <2> QED
    BY Zenon, <1>t, <1>u, <2>1, <2>4, SetStep
<1>4. CASE Abort
  <2>1. /\ set' = [set EXCEPT !.requested = FALSE]
        /\ UNCHANGED <<life, dpu, spec, config, born, flavor, fresh, target, member, flapped, raced, unsaved,
                       cached, pc, plan, blocking, mem>>
    BY Zenon, <1>4 DEF Abort, objects, world, process
  <2>2. upsets' \in 0 .. MaxUpsets
    BY Zenon, <1>t, <1>4, UpsetBound DEF Abort
  <2>4. set' \in DPUSet /\ set'.active = set.active /\ set'.round = set.round /\ set'.cleared = set.cleared
    BY Zenon, <1>t, <2>1 DEF DPUSet
  <2> QED
    BY Zenon, <1>t, <1>u, <2>1, <2>2, <2>4, SetStep
<1> QED
  BY Zenon, <1>1, <1>2, <1>3, <1>4

(* The DPUSet object when no reconcile runs.                               *)
LEMMA NoDPUSetType ==
  /\ set \in DPUSet => NoDPUSet \in DPUSet
  /\ NoDPUSet.round = 0 /\ NoDPUSet.active = FALSE /\ NoDPUSet.cleared = FALSE /\ NoDPUSet.requested = FALSE
<1>1. set \in DPUSet => 1 \in 1 .. MaxTemplates
  <2>1. set \in DPUSet => set.template \in 1 .. MaxTemplates
    BY Zenon, SetFields
  <2> QED
    BY <2>1, BoundAssumption
<1>2. 0 \in 0 .. MaxRounds
  BY BoundAssumption
<1> QED
  BY Zenon, <1>1, <1>2 DEF NoDPUSet, DPUSet

(* The plan when there is none.                                            *)
LEMMA NoPlanType ==
  /\ NoPlan \in [Devices -> Plans]
  /\ [before |-> {}, after |-> {}] \in [before : SUBSET Devices, after : SUBSET Devices]
BY Zenon DEF NoPlan, Plans

(* The end of a reconcile, however it comes, keeps the invariant if the    *)
(* round was saved or is known to be lost.                                 *)
LEMMA IdleStep ==
  ASSUME IInv, Idle, UNCHANGED <<life, dpu, spec, config, born, flavor, fresh, target, member, flapped, cached, raced>>,
         set' \in DPUSet, set'.cleared = set.cleared,
         unsaved' \in BOOLEAN, upsets' \in 0 .. MaxUpsets,
         ~unsaved' => ~unsaved /\ set'.round = CurRound /\ (~set'.active => ~CurActive)
  PROVE  IInv'
<1>1. pc' = "idle" /\ mem' = NoDPUSet /\ plan' = NoPlan /\ blocking' = [before |-> {}, after |-> {}]
  BY Zenon DEF Idle
<1>2. mem' \in DPUSet /\ plan' \in [Devices -> Plans] /\ blocking' \in [before : SUBSET Devices, after : SUBSET Devices]
  BY Zenon, <1>1, NoDPUSetType, NoPlanType, Typed DEF IInv
<1>3. Types'
  BY Zenon, <1>1, <1>2, Typed DEF IInv, Types, TypeOK
<1>4. ~Planning' /\ mem'.cleared = FALSE /\ mem'.active = FALSE
  BY Zenon, <1>1, NoDPUSetType DEF Planning
<1>5. SetInv'
  BY ZenonT(40), <1>1, <1>4 DEF IInv, SetInv
<1>6. CurRound' = set'.round /\ CurActive' = set'.active
  BY Zenon, <1>1 DEF CurRound, CurActive
<1>7. /\ \A d \in Devices : DPUInv(d)' /\ PlanInv(d)'
      /\ BudgetInv'
      /\ ~unsaved' => /\ \A d \in Devices : RoundInv(d)'
                      /\ \A d \in member' \ flapped' : Member(d)'
  BY Zenon, <1>4, <1>6, ObjectsKept
<1>8. target' <= flavor'
  BY Zenon DEF IInv
<1> QED
  BY Zenon, <1>3, <1>5, <1>7, <1>8 DEF IInv

(* A reconcile without a round ends.                                       *)
LEMMA NoRoundStep ==
  ASSUME IInv, NoRound
  PROVE  IInv'
<1>1. /\ pc = "plan" /\ Idle
      /\ UNCHANGED <<life, dpu, spec, config, born, flavor, fresh, target, member, flapped, set, cached, raced, unsaved, upsets>>
  BY Zenon DEF NoRound, objects, world, faults
<1>2. set \in DPUSet /\ unsaved \in BOOLEAN /\ upsets \in 0 .. MaxUpsets
  BY Zenon, Typed DEF IInv
<1>3. set.round = CurRound /\ (~set.active => ~CurActive)
  BY Zenon, <1>1 DEF IInv, SetInv, CurRound, CurActive
<1> QED
  BY Zenon, <1>1, <1>2, <1>3, IdleStep

(* A crash keeps the invariant: a round that was opened and not saved is   *)
(* noted as lost, and one that was closed and not saved is open again.     *)
LEMMA CrashStep ==
  ASSUME IInv, Crash
  PROVE  IInv'
<1>1. /\ pc # "idle" /\ Idle /\ unsaved' = (unsaved \/ mem.round # set.round)
      /\ UNCHANGED <<life, dpu, spec, config, born, flavor, fresh, target, member, flapped, set, cached, raced>>
  BY Zenon DEF Crash, objects, world
<1>2. set \in DPUSet /\ unsaved \in BOOLEAN /\ upsets \in 0 .. MaxUpsets
  BY Zenon, Typed DEF IInv
<1>3. unsaved' \in BOOLEAN
  BY Zenon, <1>1
<1>4. upsets' \in 0 .. MaxUpsets
  BY Zenon, <1>2, UpsetBound DEF Crash
<1>5. ~unsaved' => ~unsaved /\ set.round = CurRound /\ (~set.active => ~CurActive)
  BY Zenon, <1>1 DEF IInv, SetInv, CurRound, CurActive
<1> QED
  BY Zenon, <1>1, <1>2, <1>3, <1>4, <1>5, IdleStep

(* The patch of the annotation keeps the invariant.                        *)
LEMMA PatchMetadataStep ==
  ASSUME IInv, PatchMetadata
  PROVE  IInv'
<1>1. /\ pc = "metadata" /\ pc' = "status"
      /\ UNCHANGED <<life, dpu, spec, config, born, flavor, fresh, target, member, flapped, cached, mem, plan, blocking,
                     raced, unsaved, upsets>>
  BY Zenon DEF PatchMetadata, objects, world, faults
<1>2. set \in DPUSet
  BY Zenon, Typed DEF IInv
<1>3. set' \in DPUSet /\ set'.active = set.active /\ set'.round = set.round /\ set'.cleared = set.cleared
  BY ZenonT(40), <1>2 DEF PatchMetadata, DPUSet
<1>4. Types'
  BY Zenon, <1>1, <1>3, Typed DEF IInv, Types, TypeOK
<1>5. SetInv'
  BY Zenon, <1>1, <1>3 DEF IInv, SetInv, Planning
<1>6. ~Planning' /\ CurRound' = CurRound /\ CurActive' = CurActive
  BY Zenon, <1>1 DEF Planning, CurRound, CurActive
<1>7. /\ \A d \in Devices : DPUInv(d)' /\ PlanInv(d)'
      /\ BudgetInv'
      /\ ~unsaved' => /\ \A d \in Devices : RoundInv(d)'
                      /\ \A d \in member' \ flapped' : Member(d)'
  BY Zenon, <1>1, <1>6, ObjectsKept
<1>8. target' <= flavor'
  BY Zenon, <1>1 DEF IInv
<1> QED
  BY Zenon, <1>4, <1>5, <1>7, <1>8 DEF IInv

(* The patch of the status keeps the invariant: what the reconcile knew is *)
(* now saved.                                                              *)
LEMMA PatchStatusStep ==
  ASSUME IInv, PatchStatus
  PROVE  IInv'
<1>1. /\ pc = "status" /\ set' = [set EXCEPT !.active = mem.active, !.round = mem.round] /\ Idle
      /\ UNCHANGED <<life, dpu, spec, config, born, flavor, fresh, target, member, flapped, cached, raced, unsaved, upsets>>
  BY Zenon DEF PatchStatus, objects, world, faults
<1>2. set \in DPUSet /\ mem \in DPUSet /\ unsaved \in BOOLEAN /\ upsets \in 0 .. MaxUpsets
  BY Zenon, Typed DEF IInv
<1>3. set' \in DPUSet /\ set'.cleared = set.cleared /\ set'.round = mem.round /\ set'.active = mem.active
  BY Zenon, <1>1, <1>2 DEF DPUSet
<1>4. set'.round = CurRound /\ (~set'.active => ~CurActive)
  BY Zenon, <1>1, <1>3 DEF CurRound, CurActive
<1> QED
  BY Zenon, <1>1, <1>2, <1>3, <1>4, IdleStep

-----------------------------------------------------------------------------
(* A reconcile up to the strategy.                                         *)

(* createMissingDPUs keeps the invariant: new DPUs are in no round.        *)
LEMMA BeginStep ==
  ASSUME IInv, Begin
  PROVE  IInv'
<1>i. SetInv /\ \A d \in Devices : DPUInv(d)
  BY Zenon DEF IInv
<1>t. /\ life \in [Devices -> {"none", "live", "deleting"}] /\ dpu \in [Devices -> St]
      /\ spec \in [Devices -> [template : 1 .. MaxTemplates, outdated : BOOLEAN]]
      /\ config \in [Devices -> 0 .. MaxFlavors] /\ born \in [Devices -> {"before", "after"}]
      /\ set \in DPUSet /\ member \subseteq Devices
  BY Zenon, Typed DEF IInv
<1> DEFINE missing == {d \in Devices \ Owned(Listed) : life[d] = "none"}
           new     == NewStatus("Install")
           made    == [template |-> set.template, outdated |-> FALSE]
           when    == IF set.active /\ ~fresh THEN "after" ELSE "before"
<1>1. /\ life' = [d \in Devices |-> IF d \in missing THEN "live" ELSE life[d]]
      /\ dpu' = [d \in Devices |-> IF d \in missing THEN new ELSE dpu[d]]
      /\ spec' = [d \in Devices |-> IF d \in missing THEN made ELSE spec[d]]
      /\ config' = [d \in Devices |-> IF d \in missing THEN 0 ELSE config[d]]
      /\ born' = [d \in Devices |-> IF d \notin missing THEN born[d] ELSE when]
  BY Zenon DEF Begin
<1>2. /\ pc = "idle" /\ pc' = "roll" /\ mem' = set
      /\ UNCHANGED <<flavor, fresh, member, target, flapped, set, cached, plan, blocking, upsets, unsaved, raced>>
  BY Zenon DEF Begin, world, faults
<1>3. /\ new \in St /\ new.ready = FALSE /\ new.inProgress = FALSE /\ new.round = 0 /\ new.completed = 0
      /\ new.reconfiguring.round = 0
  BY Zenon, NewFields DEF Phases
<1>4. made \in [template : 1 .. MaxTemplates, outdated : BOOLEAN]
  <2>1. set.template \in 1 .. MaxTemplates
    BY Zenon, <1>t, SetFields
  <2> QED
    BY Zenon, <2>1
<1>5. when \in {"before", "after"} /\ 0 \in 0 .. MaxFlavors
  BY BoundAssumption
<1>6. \A d \in missing : life[d] = "none"
  BY Zenon
<1> HIDE DEF missing, new, made, when
<1>7. Types'
  <2>1. dpu' \in [Devices -> St]
    BY Zenon, <1>t, <1>1, <1>3
  <2>2. spec' \in [Devices -> [template : 1 .. MaxTemplates, outdated : BOOLEAN]]
    BY Zenon, <1>t, <1>1, <1>4
  <2>3. config' \in [Devices -> 0 .. MaxFlavors]
    BY Zenon, <1>t, <1>1, <1>5
  <2>4. born' \in [Devices -> {"before", "after"}]
    BY Zenon, <1>t, <1>1, <1>5
  <2>5. life' \in [Devices -> {"none", "live", "deleting"}]
    BY Zenon, <1>t, <1>1
  <2> QED
    BY ZenonT(40), <1>t, <1>2, <2>1, <2>2, <2>3, <2>4, <2>5, Typed DEF IInv, Types, TypeOK, St
<1>8. ASSUME NEW d \in Devices, d \notin missing
      PROVE  /\ life'[d] = life[d] /\ dpu'[d] = dpu[d] /\ spec'[d] = spec[d] /\ config'[d] = config[d]
             /\ born'[d] = born[d]
  BY Zenon, <1>1, <1>8
<1>9. ASSUME NEW d \in Devices, d \in missing
      PROVE  dpu'[d] = new
  BY Zenon, <1>1, <1>9
<1>10. ~Planning' /\ CurRound' = CurRound /\ CurActive' = CurActive
  BY Zenon, <1>2 DEF Planning, CurRound, CurActive
<1>11. SetInv'
  BY Zenon, <1>i, <1>2 DEF SetInv, Planning
<1>12. ASSUME NEW d \in Devices PROVE DPUInv(d)' /\ PlanInv(d)'
  <2>1. PlanInv(d)'
    BY Zenon, <1>10 DEF PlanInv
  <2>2. CASE d \in missing
    <3>1. dpu'[d].ready = FALSE /\ dpu'[d].inProgress = FALSE
      BY Zenon, <1>3, <1>9, <2>2
    <3> QED
      BY Zenon, <2>1, <3>1 DEF DPUInv
  <2>3. CASE d \notin missing
    BY Zenon, <1>i, <1>2, <1>8, <2>1, <2>3 DEF DPUInv
  <2> QED
    BY Zenon, <2>2, <2>3
<1>13. BudgetInv'
  BY Zenon, <1>10 DEF BudgetInv
<1>14. ASSUME ~unsaved, NEW d \in Devices PROVE RoundInv(d)'
  <2>1. RoundInv(d)
    BY Zenon, <1>14 DEF IInv
  <2>2. CASE d \in missing
    <3>1. /\ dpu'[d].inProgress = FALSE /\ dpu'[d].round = 0 /\ dpu'[d].completed = 0
          /\ dpu'[d].reconfiguring.round = 0
      BY Zenon, <1>3, <1>9, <2>2
    <3>2. 0 <= CurRound /\ 0 <= 0
      BY CurRoundNat
    <3> QED
      BY Zenon, <1>10, <3>1, <3>2 DEF RoundInv
  <2>3. CASE d \notin missing
    BY ZenonT(40), <1>8, <1>10, <2>1, <2>3 DEF RoundInv
  <2> QED
    BY Zenon, <2>2, <2>3
<1>15. ASSUME ~unsaved, NEW d \in member \ flapped PROVE Member(d)'
  <2>1. Member(d) /\ d \in Devices
    BY Zenon, <1>t, <1>15 DEF IInv
  <2>2. d \notin missing
    BY Zenon, <1>6, <2>1 DEF Member
  <2>3. /\ life'[d] = life[d] /\ dpu'[d] = dpu[d] /\ config'[d] = config[d] /\ born'[d] = born[d] /\ target' = target
    BY Zenon, <1>2, <1>8, <2>1, <2>2
  <2>4. Unserved(d)' <=> Unserved(d)
    BY Zenon, <1>10, <2>3 DEF Unserved, Waiting, Marked, Leaving
  <2>5. ~mem'.cleared
    BY Zenon, <1>i, <1>2 DEF SetInv
  <2> QED
    BY Zenon, <1>10, <2>1, <2>3, <2>4, <2>5 DEF Member
<1>16. target' <= flavor'
  BY Zenon, <1>2 DEF IInv
<1> QED
  BY ZenonT(40), <1>2, <1>7, <1>11, <1>12, <1>13, <1>14, <1>15, <1>16 DEF IInv

(* Deletions keep the invariant.                                           *)
LEMMA LifeStep ==
  ASSUME IInv, pc = "roll", pc' \in {"plan", "metadata"},
         UNCHANGED <<dpu, config, born, flavor, fresh, target, flapped, set, cached, mem, plan, blocking, unsaved, raced>>,
         life' \in [Devices -> {"none", "live", "deleting"}],
         spec' \in [Devices -> [template : 1 .. MaxTemplates, outdated : BOOLEAN]],
         upsets' \in 0 .. MaxUpsets,
         member' \subseteq member, \A d \in member' : life'[d] = life[d],
         \A d \in Devices : life'[d] = "live" => life[d] = "live" /\ (spec'[d].outdated => ~dpu[d].inProgress)
  PROVE  IInv'
<1>1. ~Planning' /\ CurRound' = CurRound /\ CurActive' = CurActive
  BY Zenon DEF Planning, CurRound, CurActive
<1>2. SetInv'
  BY Zenon DEF IInv, SetInv, Planning
<1>3. Types'
  BY Zenon, Typed DEF IInv, Types, TypeOK
<1>4. ASSUME NEW d \in Devices PROVE DPUInv(d)' /\ PlanInv(d)'
  <2>1. DPUInv(d)
    BY ZenonT(40) DEF IInv
  <2> QED
    BY ZenonT(40), <1>1, <2>1 DEF PlanInv, DPUInv
<1>5. BudgetInv'
  BY Zenon, <1>1 DEF BudgetInv
<1>6. ASSUME ~unsaved, NEW d \in Devices PROVE RoundInv(d)'
  <2>1. RoundInv(d)
    BY Zenon, <1>6 DEF IInv
  <2> QED
    BY Zenon, <1>1, <2>1 DEF RoundInv
<1>7. ASSUME ~unsaved, NEW d \in member' \ flapped PROVE Member(d)'
  <2>1. Member(d)
    BY Zenon, <1>7 DEF IInv
  <2>2. Unserved(d)' <=> Unserved(d)
    BY Zenon, <1>1 DEF Unserved, Waiting, Marked, Leaving
  <2>3. ~mem'.cleared
    BY Zenon DEF IInv, SetInv
  <2> QED
    BY ZenonT(40), <1>1, <2>1, <2>2, <2>3 DEF Member
<1>8. target' <= flavor'
  BY Zenon DEF IInv
<1> QED
  BY Zenon, <1>2, <1>3, <1>4, <1>5, <1>6, <1>7, <1>8 DEF IInv

(* What a set of deletions leaves.                                         *)
LEMMA DeleteFacts ==
  ASSUME IInv, NEW gone, Delete(gone)
  PROVE  /\ life' \in [Devices -> {"none", "live", "deleting"}]
         /\ member' \subseteq member /\ member' \cap gone = {}
         /\ \A d \in member' : life'[d] = life[d]
         /\ \A d \in Devices : /\ life'[d] = IF d \in gone /\ life[d] = "live" THEN "deleting" ELSE life[d]
                               /\ life'[d] = "live" => life[d] = "live" /\ d \notin gone
<1>1. life \in [Devices -> {"none", "live", "deleting"}] /\ member \subseteq Devices
  BY Zenon, Typed DEF IInv
<1>2. /\ member' = member \ gone
      /\ life' = [d \in Devices |-> IF d \in gone /\ life[d] = "live" THEN "deleting" ELSE life[d]]
  BY Zenon DEF Delete
<1>3. \A d \in Devices : life'[d] = IF d \in gone /\ life[d] = "live" THEN "deleting" ELSE life[d]
  BY Zenon, <1>2
<1> QED
  BY Zenon, <1>1, <1>2, <1>3

(* The current list.                                                       *)
LEMMA CurrentFields ==
  Current.life = life /\ Current.dpu = dpu /\ Current.spec = spec /\ Current.born = born
BY Zenon DEF Current

(* A marked DPU counts against the budget.                                 *)
LEMMA InProgressTaken ==
  ASSUME NEW d \in Devices, life[d] # "none", dpu[d].inProgress
  PROVE  d \in Taken(Current)
BY Zenon, CurrentFields DEF Taken, Owned, inProgressStillReady

(* rolloutRolling and the Outdated status keep the invariant: a marked DPU *)
(* that drifted counts as taken already, so it is deleted in the same      *)
(* pass.                                                                   *)
LEMMA RollStep ==
  ASSUME IInv, Lag = FALSE, Roll
  PROVE  IInv'
<1>l. Listed = Current
  BY Zenon DEF Listed
<1>1. PICK gone \in Deletes(Current) : Delete(gone)
  BY Zenon, <1>l DEF Roll
<1>2. Drifted(Current) \cap Taken(Current) \subseteq gone
  BY Zenon DEF Deletes
<1>3. /\ pc = "roll" /\ pc' = "plan"
      /\ spec' = [d \in Devices |-> IF d \in Owned(Current) /\ life[d] # "none"
                                    THEN [spec[d] EXCEPT !.outdated = d \in Drifted(Current)]
                                    ELSE spec[d]]
      /\ UNCHANGED <<dpu, config, born, flavor, fresh, target, flapped, set, cached, mem, plan, blocking,
                     upsets, unsaved, raced>>
  BY <1>l, Zenon DEF Roll, faults
<1>4. spec \in [Devices -> [template : 1 .. MaxTemplates, outdated : BOOLEAN]] /\ upsets \in 0 .. MaxUpsets
  BY Zenon, Typed DEF IInv
<1>5. \A d \in Devices : (d \in Owned(Current) /\ life[d] # "none") <=> life[d] # "none"
  BY Zenon, CurrentFields DEF Owned
<1>6. ASSUME NEW d \in Devices
      PROVE  /\ [spec[d] EXCEPT !.outdated = d \in Drifted(Current)] \in [template : 1 .. MaxTemplates, outdated : BOOLEAN]
             /\ [spec[d] EXCEPT !.outdated = d \in Drifted(Current)].outdated = (d \in Drifted(Current))
  <2>1. PICK x : x = spec[d]
    OBVIOUS
  <2>2. x \in [template : 1 .. MaxTemplates, outdated : BOOLEAN]
    BY Zenon, <1>4, <2>1
  <2>3. (d \in Drifted(Current)) \in BOOLEAN
    OBVIOUS
  <2>4. PICK b \in BOOLEAN : b = (d \in Drifted(Current))
    BY Zenon, <2>3
  <2>5. [x EXCEPT !.outdated = b] \in [template : 1 .. MaxTemplates, outdated : BOOLEAN] /\ [x EXCEPT !.outdated = b].outdated = b
    BY Zenon, <2>2
  <2> QED
    BY <2>1, <2>4, <2>5, Zenon
<1>7. spec' \in [Devices -> [template : 1 .. MaxTemplates, outdated : BOOLEAN]]
  BY <1>3, <1>4, <1>6, Zenon
<1>8. /\ life' \in [Devices -> {"none", "live", "deleting"}]
      /\ member' \subseteq member
      /\ \A d \in member' : life'[d] = life[d]
      /\ \A d \in Devices : life'[d] = "live" => life[d] = "live" /\ d \notin gone
  BY Zenon, <1>1, DeleteFacts
<1>9. ASSUME NEW d \in Devices, life'[d] = "live", spec'[d].outdated, dpu[d].inProgress
      PROVE  FALSE
  <2>1. life[d] = "live" /\ d \notin gone
    BY Zenon, <1>8, <1>9
  <2>2. spec'[d] = [spec[d] EXCEPT !.outdated = d \in Drifted(Current)]
    BY Zenon, <1>3, <1>5, <2>1
  <2>3. d \in Drifted(Current)
    BY <1>6, <1>9, <2>2, Zenon
  <2>4. d \in Taken(Current)
    BY Zenon, <1>9, <2>1, InProgressTaken
  <2> QED
    BY Zenon, <1>2, <2>1, <2>3, <2>4
<1> QED
  BY Zenon, <1>3, <1>4, <1>7, <1>8, <1>9, LifeStep

(* A failing rollout keeps the invariant.                                  *)
LEMMA RollFailsStep ==
  ASSUME IInv, RollFails
  PROVE  IInv'
<1>1. PICK part : Delete(part)
  BY Zenon DEF RollFails
<1>3. /\ pc = "roll" /\ pc' = "metadata"
      /\ UNCHANGED <<dpu, spec, config, born, flavor, fresh, target, flapped, set, cached, mem, plan, blocking,
                     unsaved, raced>>
  BY Zenon DEF RollFails
<1>4. spec \in [Devices -> [template : 1 .. MaxTemplates, outdated : BOOLEAN]] /\ upsets \in 0 .. MaxUpsets
  BY Zenon, Typed DEF IInv
<1>5. upsets' \in 0 .. MaxUpsets
  BY Zenon, <1>4, UpsetBound DEF RollFails
<1>8. /\ life' \in [Devices -> {"none", "live", "deleting"}]
      /\ member' \subseteq member
      /\ \A d \in member' : life'[d] = life[d]
      /\ \A d \in Devices : life'[d] = "live" => life[d] = "live"
  BY Zenon, <1>1, DeleteFacts
<1>9. \A d \in Devices : life[d] = "live" /\ spec[d].outdated => ~dpu[d].inProgress
  BY Zenon DEF IInv, DPUInv
<1> QED
  BY Zenon, <1>3, <1>4, <1>5, <1>8, <1>9, LifeStep

-----------------------------------------------------------------------------
(* The patches of a round.                                                 *)

(* A planned write, field by field.                                        *)
WrittenFacts(s, p, round, w) ==
  /\ w.phase = s.phase /\ w.ready = s.ready /\ w.since = s.since /\ w.start = s.start
  /\ w.reconfiguring = s.reconfiguring
  /\ p = "complete" => w.inProgress = FALSE /\ w.completed = round /\ w.round = s.round
  /\ p = "stamp" => w.inProgress = s.inProgress /\ w.completed = round /\ w.round = s.round
  /\ p = "start" => w.inProgress = TRUE /\ w.completed = s.completed /\ w.round = round

(* Written does that.                                                      *)
LEMMA WrittenTyped ==
  ASSUME NEW s \in St, NEW p \in {"complete", "stamp", "start"}, NEW round \in 0 .. MaxRounds,
         NEW w, w = Written(s, p, round)
  PROVE  w \in St /\ WrittenFacts(s, p, round, w)
<1>1. CASE p = "complete"
  <2>1. w = [s EXCEPT !.inProgress = FALSE, !.completed = round]
    BY Zenon, <1>1 DEF Written
  <2>2. w \in St
    BY Zenon, <2>1 DEF St, Status
  <2>3. WrittenFacts(s, p, round, w)
    BY ZenonT(40), <1>1, <2>1 DEF St, Status, WrittenFacts
  <2> QED
    BY Zenon, <2>2, <2>3
<1>2. CASE p = "stamp"
  <2>1. w = [s EXCEPT !.completed = round]
    BY Zenon, <1>2 DEF Written
  <2>2. w \in St
    BY Zenon, <2>1 DEF St, Status
  <2>3. WrittenFacts(s, p, round, w)
    BY ZenonT(40), <1>2, <2>1 DEF St, Status, WrittenFacts
  <2> QED
    BY Zenon, <2>2, <2>3
<1>3. CASE p = "start"
  <2>1. w = [s EXCEPT !.inProgress = TRUE, !.round = round]
    BY Zenon, <1>3 DEF Written
  <2>2. w \in St
    BY ZenonT(40), <2>1 DEF St, Status
  <2>3. WrittenFacts(s, p, round, w)
    BY Zenon, <1>3, <2>1 DEF St, Status, WrittenFacts
  <2> QED
    BY Zenon, <2>2, <2>3
<1> QED
  BY Zenon, <1>1, <1>2, <1>3

(* Carrying out a part of a plan writes just those DPUs, which still       *)
(* exist.                                                                  *)
LEMMA WriteFacts ==
  ASSUME IInv, Planning, NEW some \in SUBSET Devices, \A d \in some : plan[d] # "none", Write(some)
  PROVE  /\ dpu' \in [Devices -> St]
         /\ \A d \in Devices \ some : dpu'[d] = dpu[d]
         /\ \A d \in some : WrittenFacts(dpu[d], plan[d], mem.round, dpu'[d])
<1>1. dpu \in [Devices -> St] /\ mem \in DPUSet /\ plan \in [Devices -> Plans] /\ \A d \in Devices : PlanInv(d)
  BY Zenon, Typed DEF IInv
<1>2. mem.round \in 0 .. MaxRounds
  BY Zenon, <1>1, SetFields
<1>3. \A d \in some : d \in Devices /\ life[d] = "live" /\ plan[d] \in {"complete", "stamp", "start"}
  BY Zenon, <1>1 DEF PlanInv, Plans
<1>4. dpu' = [d \in Devices |-> IF d \in some /\ life[d] # "none" THEN Written(dpu[d], plan[d], mem.round) ELSE dpu[d]]
  BY Zenon DEF Write
<1>5. ASSUME NEW d \in some
      PROVE  /\ dpu'[d] = Written(dpu[d], plan[d], mem.round)
             /\ dpu'[d] \in St /\ WrittenFacts(dpu[d], plan[d], mem.round, dpu'[d])
  <2>1. dpu'[d] = Written(dpu[d], plan[d], mem.round)
    BY Zenon, <1>3, <1>4
  <2>2. dpu[d] \in St
    BY Zenon, <1>1
  <2> QED
    BY Zenon, <1>2, <1>3, <2>1, <2>2, WrittenTyped
<1>6. \A d \in Devices \ some : dpu'[d] = dpu[d]
  BY Zenon, <1>4
<1>7. dpu' \in [Devices -> St]
  <2>1. \A d \in Devices : dpu'[d] \in St
    BY Zenon, <1>1, <1>5, <1>6
  <2>2. dpu' = [d \in Devices |-> dpu'[d]]
    BY Zenon, <1>4
  <2> QED
    BY Zenon, <2>1, <2>2
<1> QED
  BY Zenon, <1>5, <1>6, <1>7

(* The part of RoundInv that does not speak of the plan.                   *)
RoundBounds(d) ==
  /\ dpu[d].completed <= CurRound /\ dpu[d].round <= CurRound
  /\ dpu[d].reconfiguring.round <= dpu[d].round
  /\ ~CurActive /\ life[d] = "live" => ~dpu[d].inProgress

(* The completions take no DPU out of service; what they complete was in   *)
(* no round or has been through it.                                        *)
LEMMA CompletionsPatched ==
  ASSUME IInv, pc = "complete", pc' # "idle", NEW some \in SUBSET Completions, Write(some),
         UNCHANGED <<life, spec, mem, raced>>
  PROVE  /\ dpu' \in [Devices -> St]
         /\ \A d \in Devices \ some : dpu'[d] = dpu[d]
         /\ \A d \in some : /\ ~dpu'[d].inProgress /\ plan[d] # "start" /\ life[d] = "live"
                            /\ dpu'[d].start = dpu[d].start
                            /\ ~raced => dpu'[d].phase = "Ready"
         /\ \A d \in Devices : DPUInv(d)'
         /\ ~unsaved => \A d \in Devices : RoundBounds(d)'
<1>p. Planning
  BY Zenon DEF Planning
<1>i. \A d \in Devices : DPUInv(d) /\ PlanInv(d)
  BY Zenon DEF IInv
<1>1. some \in SUBSET Devices /\ \A d \in some : plan[d] \in {"complete", "stamp", "clear"}
  BY Zenon DEF Completions
<1>2. /\ dpu' \in [Devices -> St]
      /\ \A d \in Devices \ some : dpu'[d] = dpu[d]
      /\ \A d \in some : WrittenFacts(dpu[d], plan[d], mem.round, dpu'[d])
  BY Zenon, <1>p, <1>1, WriteFacts
<1>3. ASSUME NEW d \in some
      PROVE  /\ ~dpu'[d].inProgress /\ plan[d] # "start" /\ life[d] = "live" /\ dpu'[d].start = dpu[d].start
             /\ ~raced => dpu'[d].phase = "Ready"
             /\ dpu'[d].completed = mem.round /\ dpu'[d].round = dpu[d].round
             /\ dpu'[d].reconfiguring = dpu[d].reconfiguring
             /\ dpu'[d].ready = dpu[d].ready /\ dpu'[d].phase = dpu[d].phase
  <2>1. WrittenFacts(dpu[d], plan[d], mem.round, dpu'[d]) /\ PlanInv(d)
    BY Zenon, <1>i, <1>1, <1>2
  <2>2. plan[d] \in {"complete", "stamp"}
    BY Zenon, <1>p, <1>1, <2>1 DEF PlanInv
  <2> QED
    BY Zenon, <1>p, <2>1, <2>2 DEF PlanInv, WrittenFacts
<1>4. ASSUME NEW d \in Devices PROVE DPUInv(d)'
  <2>1. DPUInv(d)
    BY Zenon, <1>i
  <2>2. CASE d \in some
    BY Zenon, <1>3, <2>1, <2>2 DEF DPUInv
  <2>3. CASE d \notin some
    BY Zenon, <1>2, <2>1, <2>3 DEF DPUInv
  <2> QED
    BY Zenon, <2>2, <2>3
<1>5. ASSUME ~unsaved, NEW d \in Devices PROVE RoundBounds(d)'
  <2>1. RoundInv(d)
    BY Zenon, <1>5 DEF IInv
  <2>2. CurRound = mem.round /\ CurRound' = mem.round /\ CurActive' = CurActive /\ mem.round <= mem.round
    BY SMTT(30), CurRoundNat DEF CurRound, CurActive
  <2>3. CASE d \in some
    <3>1. /\ ~dpu'[d].inProgress /\ dpu'[d].completed = mem.round /\ dpu'[d].round = dpu[d].round
          /\ dpu'[d].reconfiguring = dpu[d].reconfiguring
      BY Zenon, <1>3, <2>3
    <3> QED
      BY Zenon, <2>1, <2>2, <3>1 DEF RoundInv, RoundBounds
  <2>4. CASE d \notin some
    BY Zenon, <1>2, <2>1, <2>2, <2>4 DEF RoundInv, RoundBounds
  <2> QED
    BY Zenon, <2>3, <2>4
<1> QED
  BY Zenon, <1>2, <1>3, <1>4, <1>5

(* They complete no unserved member.                                       *)
LEMMA CompletionsMember ==
  ASSUME IInv, pc = "complete", pc' # "idle", NEW some \in SUBSET Completions, Write(some),
         UNCHANGED <<life, spec, config, born, mem, target, raced>>,
         (plan' = plan /\ blocking' = blocking) \/ ~Planning',
         NEW d \in Devices, Member(d)
  PROVE  Member(d)'
<1>p. Planning
  BY Zenon DEF Planning
<1>1. /\ \A e \in Devices \ some : dpu'[e] = dpu[e]
      /\ \A e \in some : dpu'[e].start = dpu[e].start
  BY Zenon, CompletionsPatched
<1>2. CurRound' = CurRound
  BY Zenon DEF CurRound
<1>3. Applied(d) <=> Applied(d)'
  BY Zenon DEF Applied
<1>4. dpu'[d].start # 0
  BY Zenon, <1>1 DEF Member
<1>5. config[d] >= target \/ Unserved(d)'
  <2>1. CASE d \in some
    BY Zenon, <1>p, <2>1 DEF Member, Completions
  <2>2. CASE d \notin some
    BY ZenonT(40), <1>1, <1>2, <2>2 DEF Member, Unserved, Waiting, Marked, Leaving
  <2> QED
    BY Zenon, <2>1, <2>2
<1>6. ~mem.cleared
  BY ZenonT(40), <1>p DEF IInv, SetInv
<1> QED
  BY ZenonT(40), <1>p, <1>3, <1>4, <1>5, <1>6 DEF Member

(* The completions keep the invariant: what the plan counted as freed is   *)
(* in service again.                                                       *)
LEMMA PatchCompletionsStep ==
  ASSUME IInv, PatchCompletions
  PROVE  IInv'
<1>1. /\ pc = "complete" /\ pc' = "start" /\ Write(Completions)
      /\ UNCHANGED <<life, spec, config, born, flavor, fresh, member, target, flapped, set, cached, mem, plan, blocking,
                     upsets, unsaved, raced>>
  BY Zenon DEF PatchCompletions, world, faults
<1>2. /\ dpu' \in [Devices -> St]
      /\ \A d \in Devices \ Completions : dpu'[d] = dpu[d]
      /\ \A d \in Completions : /\ ~dpu'[d].inProgress /\ plan[d] # "start" /\ life[d] = "live"
                                /\ dpu'[d].start = dpu[d].start
                                /\ ~raced => dpu'[d].phase = "Ready"
      /\ \A d \in Devices : DPUInv(d)'
      /\ ~unsaved => \A d \in Devices : RoundBounds(d)'
  BY Zenon, <1>1, CompletionsPatched
<1>p. Planning /\ Planning'
  BY Zenon, <1>1 DEF Planning
<1>3. Types'
  BY ZenonT(40), <1>1, <1>2, Typed DEF IInv, Types, TypeOK, St
<1>4. SetInv'
  BY ZenonT(40), <1>1, <1>p DEF IInv, SetInv
<1>5. ASSUME NEW d \in Devices PROVE PlanInv(d)'
  <2>1. PlanInv(d)
    BY Zenon DEF IInv
  <2>2. CASE d \in Completions
    BY ZenonT(40), <1>1, <1>2, <1>p, <2>1, <2>2 DEF PlanInv
  <2>3. CASE d \notin Completions
    <3>1. dpu'[d] = dpu[d]
      BY Zenon, <1>2, <2>3
    <3> QED
      BY ZenonT(40), <1>1, <1>p, <2>1, <3>1 DEF PlanInv
  <2> QED
    BY Zenon, <2>2, <2>3
<1>6. BudgetInv'
  <2>1. SUFFICES ASSUME ~raced, NEW d \in Starts, dpu'[d].ready, dpu'[d].since = "before"
                 PROVE  Cardinality(Out' \cup Starts) <= MaxSlots
    <3>1. Starts' = Starts /\ Pending' = {} /\ Out' \ {} = Out' /\ raced' = raced
      BY Zenon, <1>1 DEF Starts, Pending
    <3> QED
      BY Zenon, <3>1 DEF BudgetInv
  <2>2. d \in Devices /\ d \notin Completions
    BY Zenon DEF Starts, Completions
  <2>3. dpu'[d] = dpu[d]
    BY Zenon, <1>2, <2>2
  <2>4. Cardinality((Out \ Completions) \cup Starts) <= MaxSlots
    <3>1. BudgetInv /\ Pending = Completions
      BY Zenon, <1>1 DEF IInv, Pending
    <3> QED
      BY Zenon, <1>p, <2>1, <2>3, <3>1 DEF BudgetInv
  <2>5. Out' \subseteq Out \ Completions
    <3>1. ASSUME NEW e \in Out' PROVE e \in Out \ Completions
      <4>1. e \in Devices
        BY Zenon DEF Out
      <4>2. e \notin Completions
        BY Zenon, <1>1, <1>2, <2>1, <3>1 DEF Out
      <4>3. dpu'[e] = dpu[e] /\ life' = life
        BY Zenon, <1>1, <1>2, <4>1, <4>2
      <4> QED
        BY Zenon, <3>1, <4>1, <4>2, <4>3 DEF Out
    <3> QED
      BY Zenon, <3>1
  <2>6. /\ Out' \cup Starts \subseteq (Out \ Completions) \cup Starts
        /\ (Out \ Completions) \cup Starts \in SUBSET Devices
    BY Zenon, <2>5 DEF Out, Starts
  <2>7. Out' \cup Starts \in SUBSET Devices
    BY Zenon, <2>6
  <2>8. /\ Cardinality(Out' \cup Starts) <= Cardinality((Out \ Completions) \cup Starts)
        /\ Cardinality(Out' \cup Starts) \in Nat /\ Cardinality((Out \ Completions) \cup Starts) \in Nat
    BY Zenon, <2>6, <2>7, SubsetBound, FiniteDevices
  <2>9. MaxSlots \in Nat
    BY Zenon, SlotsBound
  <2> QED
    BY SMTT(30), <2>4, <2>8, <2>9
<1>7. ASSUME ~unsaved, NEW d \in Devices PROVE RoundInv(d)'
  <2>1. RoundInv(d) /\ RoundBounds(d)'
    BY Zenon, <1>2, <1>7 DEF IInv
  <2>2. CASE d \in Completions
    BY Zenon, <1>1, <1>2, <2>1, <2>2 DEF RoundInv, RoundBounds
  <2>3. CASE d \notin Completions
    <3>1. dpu'[d] = dpu[d] /\ plan[d] # "complete"
      BY Zenon, <1>2, <2>3 DEF Completions
    <3> QED
      BY ZenonT(40), <1>1, <1>p, <2>1, <3>1 DEF RoundInv, RoundBounds
  <2> QED
    BY Zenon, <2>2, <2>3
<1>8. ASSUME ~unsaved, NEW d \in member \ flapped PROVE Member(d)'
  <2>1. Member(d) /\ d \in Devices
    BY Zenon, <1>8, Typed DEF IInv
  <2> QED
    BY ZenonT(40), <1>1, <2>1, CompletionsMember
<1>9. target' <= flavor'
  BY ZenonT(40), <1>1 DEF IInv
<1> QED
  BY ZenonT(40), <1>1, <1>2, <1>3, <1>4, <1>5, <1>6, <1>7, <1>8, <1>9 DEF IInv

(* The marks.  A marked DPU serves since before the round unless it became *)
(* Ready after the plan.                                                   *)
LEMMA StartsPatched ==
  ASSUME IInv, pc = "start", NEW some \in SUBSET Starts, Write(some), Race(some),
         UNCHANGED <<life, spec>>
  PROVE  /\ dpu' \in [Devices -> St] /\ raced' \in BOOLEAN
         /\ \A d \in Devices \ some : dpu'[d] = dpu[d]
         /\ \A d \in some : /\ WrittenFacts(dpu[d], "start", mem.round, dpu'[d])
                            /\ plan[d] = "start" /\ life[d] = "live" /\ ~dpu[d].inProgress
         /\ \A d \in Devices : DPUInv(d)'
<1>p. Planning
  BY Zenon DEF Planning
<1>i. (\A d \in Devices : DPUInv(d) /\ PlanInv(d)) /\ raced \in BOOLEAN
  BY Zenon, Typed DEF IInv
<1>1. some \in SUBSET Devices /\ \A d \in some : plan[d] = "start"
  BY Zenon DEF Starts
<1>2. /\ dpu' \in [Devices -> St]
      /\ \A d \in Devices \ some : dpu'[d] = dpu[d]
      /\ \A d \in some : WrittenFacts(dpu[d], plan[d], mem.round, dpu'[d])
  BY Zenon, <1>p, <1>1, WriteFacts
<1>3. raced' = (raced \/ \E d \in some : readyAtOrAfter(dpu[d]))
  BY Zenon DEF Race
<1>r. raced' \in BOOLEAN
  BY Zenon, <1>3
<1>4. ASSUME NEW d \in some
      PROVE  /\ WrittenFacts(dpu[d], "start", mem.round, dpu'[d])
             /\ plan[d] = "start" /\ life[d] = "live" /\ ~dpu[d].inProgress /\ ~spec[d].outdated /\ dpu[d].start # 0
  <2>1. PlanInv(d) /\ plan[d] = "start"
    BY Zenon, <1>i, <1>1
  <2> QED
    BY Zenon, <1>p, <1>2, <2>1 DEF PlanInv
<1>5. ASSUME NEW d \in Devices PROVE DPUInv(d)'
  <2>1. DPUInv(d)
    BY Zenon, <1>i
  <2>2. CASE d \in some
    <3>1. /\ dpu'[d].phase = dpu[d].phase /\ dpu'[d].ready = dpu[d].ready /\ dpu'[d].since = dpu[d].since
          /\ dpu'[d].start = dpu[d].start /\ dpu[d].start # 0 /\ ~spec[d].outdated
      BY ZenonT(40), <1>4, <2>2 DEF WrittenFacts
    <3>2. ~raced' /\ dpu[d].ready => dpu[d].since = "before"
      BY Zenon, <1>3, <2>1, <2>2 DEF readyAtOrAfter, DPUInv
    <3> QED
      BY Zenon, <2>1, <3>1, <3>2 DEF DPUInv
  <2>3. CASE d \notin some
    <3>1. dpu'[d] = dpu[d] /\ (~raced' => ~raced)
      BY Zenon, <1>2, <1>3, <2>3
    <3> QED
      BY Zenon, <2>1, <3>1 DEF DPUInv
  <2> QED
    BY Zenon, <2>2, <2>3
<1> QED
  BY ZenonT(40), <1>r, <1>2, <1>4, <1>5

(* A round before an earlier one is not the latest.                        *)
LEMMA MarkedLater ==
  ASSUME NEW a \in Nat, NEW b \in Nat, NEW c \in Nat, a <= b, b < c
  PROVE  a # c
OBVIOUS

(* The order of rounds.                                                    *)
LEMMA AtMostRound ==
  ASSUME NEW a \in Nat, NEW b \in Nat, NEW c \in Nat, a <= b, b <= c
  PROVE  a <= c /\ c <= c
OBVIOUS

(* The marks keep RoundInv, and the round is closed only when no DPU will  *)
(* be in progress.                                                         *)
LEMMA StartsRound ==
  ASSUME IInv, pc = "start", pc' # "idle", ~unsaved, NEW some \in SUBSET Starts, Write(some), Race(some),
         UNCHANGED <<life, spec>>, mem'.round = mem.round, ~Planning', NEW d \in Devices,
         ~mem'.active => mem.active = FALSE \/ life[d] # "live" \/ d \notin blocking.after
  PROVE  RoundInv(d)'
<1>p. Planning
  BY Zenon DEF Planning
<1>1. /\ dpu' \in [Devices -> St] /\ dpu \in [Devices -> St]
      /\ \A e \in Devices \ some : dpu'[e] = dpu[e]
      /\ \A e \in some : WrittenFacts(dpu[e], "start", mem.round, dpu'[e]) /\ plan[e] = "start"
  BY ZenonT(40), StartsPatched, Typed DEF IInv
<1>2. RoundInv(d) /\ SetInv
  BY ZenonT(40) DEF IInv
<1>3. CurRound = mem.round /\ CurRound' = mem.round /\ CurActive' = mem'.active /\ CurActive = mem.active
  BY Zenon DEF CurRound, CurActive
<1>4. mem.active
  BY Zenon, <1>p, <1>2 DEF SetInv
<1>5. ~mem'.active /\ life[d] = "live" => d \notin some /\ ~dpu[d].inProgress
  <2>1. ASSUME ~mem'.active, life[d] = "live" PROVE plan[d] # "start" /\ ~dpu[d].inProgress
    BY Zenon, <1>p, <1>2, <1>4, <2>1 DEF RoundInv
  <2> QED
    BY Zenon, <1>1, <2>1
<1>6. CASE d \in some
  <2>1. /\ dpu'[d].reconfiguring = dpu[d].reconfiguring /\ dpu'[d].completed = dpu[d].completed
        /\ dpu'[d].round = mem.round
    BY Zenon, <1>1, <1>6 DEF WrittenFacts
  <2>2. /\ dpu[d].reconfiguring.round \in Nat /\ dpu[d].round \in Nat /\ mem.round \in Nat
    BY Zenon, <1>1, StatusInts, CurRoundNat
  <2>3. dpu[d].reconfiguring.round <= mem.round /\ mem.round <= mem.round
    BY ZenonT(40), <1>2, <1>3, <2>2, AtMostRound DEF RoundInv
  <2> QED
    BY ZenonT(40), <1>2, <1>3, <1>5, <1>6, <2>1, <2>3 DEF RoundInv
<1>7. CASE d \notin some
  <2>1. dpu'[d] = dpu[d]
    BY Zenon, <1>1, <1>7
  <2> QED
    BY Zenon, <1>2, <1>3, <1>5, <2>1 DEF RoundInv
<1> QED
  BY Zenon, <1>6, <1>7

(* The marks keep Member: the mark of this round is not taken for one that *)
(* was served, because earlier rounds have lower numbers.                  *)
LEMMA StartsMember ==
  ASSUME IInv, pc = "start", pc' # "idle", ~unsaved, NEW some \in SUBSET Starts, Write(some), Race(some),
         UNCHANGED <<life, spec, config, born, target>>, mem'.round = mem.round, ~Planning',
         NEW d \in Devices, Member(d),
         mem'.cleared => mem.cleared \/ (mem.requested /\ d \notin blocking.after)
  PROVE  Member(d)'
<1>p. Planning
  BY Zenon DEF Planning
<1>1. /\ dpu' \in [Devices -> St] /\ dpu \in [Devices -> St]
      /\ \A e \in Devices \ some : dpu'[e] = dpu[e]
      /\ \A e \in some : WrittenFacts(dpu[e], "start", mem.round, dpu'[e]) /\ ~dpu[e].inProgress
  BY ZenonT(40), StartsPatched, Typed DEF IInv
<1>2. CurRound = mem.round /\ CurRound' = mem.round
  BY Zenon DEF CurRound
<1>3. Applied(d) <=> Applied(d)'
  BY Zenon DEF Applied
<1>4. dpu'[d].start # 0
  BY ZenonT(40), <1>1 DEF Member, WrittenFacts
<1>5. Unserved(d) => Unserved(d)'
  <2>1. CASE d \in some
    <3>1. ~Marked(d) /\ ~Leaving(d)
      BY Zenon, <1>1, <2>1 DEF Marked, Leaving
    <3>2. ASSUME Waiting(d) PROVE Marked(d)'
      <4>1. /\ dpu'[d].phase = dpu[d].phase /\ dpu'[d].ready = dpu[d].ready /\ dpu'[d].since = dpu[d].since
            /\ dpu'[d].reconfiguring = dpu[d].reconfiguring /\ dpu'[d].inProgress = TRUE /\ dpu'[d].round = mem.round
        BY ZenonT(40), <1>1, <2>1 DEF WrittenFacts
      <4>2. /\ dpu[d].reconfiguring.round \in Nat /\ dpu[d].round \in Nat /\ mem.round \in Nat
        BY ZenonT(40), <1>1, StatusInts, CurRoundNat
      <4>3. dpu[d].reconfiguring.round <= dpu[d].round /\ dpu[d].round < mem.round
        BY ZenonT(40), <1>2, <3>2 DEF IInv, RoundInv, Waiting
      <4>4. dpu[d].reconfiguring.round # mem.round
        BY ZenonT(40), <4>2, <4>3, MarkedLater
      <4>5. ~Begun(dpu'[d])
        BY Zenon, <4>1, <4>4 DEF Begun
      <4> QED
        BY ZenonT(40), <3>2, <4>1, <4>5 DEF Marked, Waiting
    <3> QED
      BY ZenonT(40), <3>1, <3>2 DEF Unserved
  <2>2. CASE d \notin some
    <3>1. dpu'[d] = dpu[d]
      BY Zenon, <1>1, <2>2
    <3> QED
      BY Zenon, <1>2, <3>1 DEF Unserved, Waiting, Marked, Leaving
  <2> QED
    BY Zenon, <2>1, <2>2
<1>6. mem'.cleared => Applied(d)
  BY Zenon, <1>p DEF Member
<1> QED
  BY ZenonT(40), <1>3, <1>4, <1>5, <1>6 DEF Member

(* After the last write the plan is forgotten.                             *)
LEMMA ForgetTypes ==
  ASSUME IInv, Forget, dpu' \in [Devices -> St], mem' \in DPUSet, raced' \in BOOLEAN, upsets' \in 0 .. MaxUpsets,
         UNCHANGED <<life, spec, config, born, flavor, fresh, member, target, flapped, set, cached, unsaved>>
  PROVE  /\ Types' /\ ~Planning' /\ pc' = "metadata" /\ BudgetInv' /\ target' <= flavor'
         /\ \A d \in Devices : PlanInv(d)'
<1>1. pc' = "metadata" /\ plan' = NoPlan /\ blocking' = [before |-> {}, after |-> {}]
  BY Zenon DEF Forget
<1>2. plan' \in [Devices -> Plans] /\ blocking' \in [before : SUBSET Devices, after : SUBSET Devices]
  BY Zenon, <1>1, NoPlanType
<1>3. Types'
  BY Zenon, <1>1, <1>2, Typed DEF IInv, Types, TypeOK, St
<1>4. ~Planning'
  BY Zenon, <1>1 DEF Planning
<1>5. target' <= flavor'
  BY Zenon DEF IInv
<1> QED
  BY ZenonT(40), <1>1, <1>3, <1>4, <1>5 DEF BudgetInv, PlanInv

(* The marks and finishInPlaceRound keep the invariant.                    *)
LEMMA PatchStartsStep ==
  ASSUME IInv, PatchStarts
  PROVE  IInv'
<1> DEFINE open == \E d \in Devices : d \in IF life[d] = "none" THEN blocking.before ELSE blocking.after
<1>1. /\ pc = "start" /\ Write(Starts) /\ Race(Starts) /\ Forget
      /\ UNCHANGED <<life, spec, config, born, flavor, fresh, member, target, flapped, set, cached, upsets, unsaved>>
  BY Zenon DEF PatchStarts, world
<1>2. mem' = IF open THEN mem ELSE [mem EXCEPT !.active = FALSE, !.cleared = mem.requested, !.requested = FALSE]
  BY Zenon DEF PatchStarts
<1>3. ~open => \A d \in Devices : life[d] = "live" => d \notin blocking.after
  OBVIOUS
<1> HIDE DEF open
<1>t. mem \in DPUSet /\ upsets \in 0 .. MaxUpsets /\ member \subseteq Devices
  BY Zenon, Typed DEF IInv
<1>p. Planning
  BY Zenon, <1>1 DEF Planning
<1>s. SetInv /\ mem.active /\ ~mem.cleared
  BY Zenon, <1>p DEF IInv, SetInv
<1>4. /\ mem' \in DPUSet /\ mem'.round = mem.round
      /\ ~open => mem'.active = FALSE /\ mem'.cleared = mem.requested
      /\ open => mem' = mem
  BY ZenonT(40), <1>t, <1>2 DEF DPUSet
<1>5. /\ dpu' \in [Devices -> St] /\ raced' \in BOOLEAN /\ \A d \in Devices : DPUInv(d)'
  BY Zenon, <1>1, StartsPatched
<1>6. /\ Types' /\ ~Planning' /\ pc' = "metadata" /\ BudgetInv' /\ target' <= flavor'
      /\ \A d \in Devices : PlanInv(d)'
  BY ZenonT(40), <1>1, <1>4, <1>5, <1>t, ForgetTypes
<1>7. SetInv'
  <2>1. mem'.active /\ ~set.active => mem'.round # set.round
    BY Zenon, <1>4, <1>s DEF SetInv
  <2> QED
    BY ZenonT(40), <1>1, <1>4, <1>6, <1>s, <2>1 DEF SetInv
<1>8. ASSUME ~unsaved, NEW d \in Devices PROVE RoundInv(d)'
  <2>1. ~mem'.active => life[d] # "live" \/ d \notin blocking.after
    BY ZenonT(40), <1>3, <1>4, <1>s
  <2> QED
    BY ZenonT(40), <1>1, <1>4, <1>6, <1>8, <2>1, StartsRound
<1>9. ASSUME ~unsaved, NEW d \in member \ flapped PROVE Member(d)'
  <2>1. Member(d) /\ d \in Devices
    BY Zenon, <1>9, <1>t DEF IInv
  <2>2. mem'.cleared => mem.requested /\ d \notin blocking.after
    BY Zenon, <1>3, <1>4, <1>s, <2>1 DEF Member
  <2> QED
    BY ZenonT(40), <1>1, <1>4, <1>6, <1>9, <2>1, <2>2, StartsMember
<1> QED
  BY ZenonT(40), <1>1, <1>5, <1>6, <1>7, <1>8, <1>9 DEF IInv

(* A failing patch keeps the invariant.                                    *)
LEMMA PatchFailsStep ==
  ASSUME IInv, PatchFails
  PROVE  IInv'
<1>1. /\ pc \in {"complete", "start"} /\ Forget
      /\ UNCHANGED <<life, spec, config, born, flavor, fresh, member, target, flapped, set, cached, mem, unsaved>>
  BY Zenon DEF PatchFails, world
<1>t. mem \in DPUSet /\ upsets \in 0 .. MaxUpsets /\ member \subseteq Devices /\ raced \in BOOLEAN
  BY Zenon, Typed DEF IInv
<1>u. upsets' \in 0 .. MaxUpsets
  BY Zenon, <1>t, UpsetBound DEF PatchFails
<1>m. pc' = "metadata" /\ ~Planning'
  BY Zenon, <1>1 DEF Forget, Planning
<1>p. Planning
  BY Zenon, <1>1 DEF Planning
<1>s. SetInv /\ mem.active /\ ~mem.cleared
  BY Zenon, <1>p DEF IInv, SetInv
<1>2. SetInv'
  BY Zenon, <1>1, <1>m, <1>s DEF SetInv
<1>3. CASE pc = "complete"
  <2>1. PICK d \in Devices : Write({e \in Completions : e < d}) /\ Race({})
    <3>1. PICK d \in Devices : /\ Write({e \in Completions : e < d})
                               /\ Race({e \in Starts : pc = "start" /\ e < d})
      BY Zenon, <1>3 DEF PatchFails
    <3>2. {e \in Starts : pc = "start" /\ e < d} = {}
      BY Zenon, <1>3
    <3> QED
      BY Zenon, <3>1, <3>2
  <2>2. PICK some : some = {e \in Completions : e < d}
    BY Zenon
  <2>3. some \in SUBSET Completions /\ Write(some)
    BY Zenon, <2>1, <2>2
  <2>4. raced' = raced
    BY Zenon, <1>t, <2>1 DEF Race
  <2>5. /\ dpu' \in [Devices -> St] /\ (\A e \in Devices : DPUInv(e)')
        /\ ~unsaved => \A e \in Devices : RoundBounds(e)'
    BY ZenonT(40), <1>1, <1>3, <1>m, <2>3, <2>4, CompletionsPatched
  <2>6. /\ Types' /\ BudgetInv' /\ target' <= flavor'
        /\ \A e \in Devices : PlanInv(e)'
    BY ZenonT(40), <1>1, <1>t, <1>u, <2>4, <2>5, ForgetTypes
  <2>7. ASSUME ~unsaved, NEW e \in Devices PROVE RoundInv(e)'
    BY Zenon, <1>m, <2>5, <2>7 DEF RoundInv, RoundBounds
  <2>8. ASSUME ~unsaved, NEW e \in member \ flapped PROVE Member(e)'
    <3>1. Member(e) /\ e \in Devices
      BY Zenon, <1>t, <2>8 DEF IInv
    <3> QED
      BY ZenonT(40), <1>1, <1>3, <1>m, <2>3, <2>4, <3>1, CompletionsMember
  <2> QED
    BY ZenonT(40), <1>1, <1>2, <2>5, <2>6, <2>7, <2>8 DEF IInv
<1>4. CASE pc = "start"
  <2>1. PICK d \in Devices : Write({e \in Starts : e < d}) /\ Race({e \in Starts : e < d})
    <3>1. PICK d \in Devices : /\ Write({e \in Starts : e < d})
                               /\ Race({e \in Starts : pc = "start" /\ e < d})
      BY Zenon, <1>4 DEF PatchFails
    <3>2. {e \in Starts : pc = "start" /\ e < d} = {e \in Starts : e < d}
      BY Zenon, <1>4
    <3> QED
      BY Zenon, <3>1, <3>2
  <2>2. PICK some : some = {e \in Starts : e < d}
    BY Zenon
  <2>3. some \in SUBSET Starts /\ Write(some) /\ Race(some)
    BY Zenon, <2>1, <2>2
  <2>5. dpu' \in [Devices -> St] /\ raced' \in BOOLEAN /\ (\A e \in Devices : DPUInv(e)')
    BY ZenonT(40), <1>1, <1>4, <2>3, StartsPatched
  <2>6. /\ Types' /\ BudgetInv' /\ target' <= flavor'
        /\ \A e \in Devices : PlanInv(e)'
    BY ZenonT(40), <1>1, <1>t, <1>u, <2>5, ForgetTypes
  <2>7. ASSUME ~unsaved, NEW e \in Devices PROVE RoundInv(e)'
    BY ZenonT(40), <1>1, <1>4, <1>m, <1>s, <2>3, <2>7, StartsRound
  <2>8. ASSUME ~unsaved, NEW e \in member \ flapped PROVE Member(e)'
    <3>1. Member(e) /\ e \in Devices
      BY Zenon, <1>t, <2>8 DEF IInv
    <3> QED
      BY ZenonT(40), <1>1, <1>4, <1>m, <1>s, <2>3, <2>8, <3>1, StartsMember
  <2> QED
    BY ZenonT(40), <1>1, <1>2, <2>5, <2>6, <2>7, <2>8 DEF IInv
<1> QED
  BY Zenon, <1>1, <1>3, <1>4

-----------------------------------------------------------------------------
(* The plan of a round.                                                    *)

(* Comparing the times with a new start gives statuses.                    *)
LEMMA RebasedTyped ==
  ASSUME NEW s \in [Devices -> St]
  PROVE  Rebased(s) \in [Devices -> St]
<1>1. ASSUME NEW d \in Devices PROVE [s[d] EXCEPT !.since = "before"] \in St /\ s[d] \in St
  BY Zenon, SinceTyped
<1> QED
  BY Zenon, <1>1 DEF Rebased

(* The list against the new start.                                         *)
LEMMA AgainstTyped ==
  ASSUME NEW list \in Lists
  PROVE  /\ Against(list) \in Lists
         /\ Against(list).life = list.life /\ Against(list).spec = list.spec
         /\ Against(list).dpu = IF Opens THEN Rebased(list.dpu) ELSE list.dpu
         /\ Against(list).born = IF Opens THEN [d \in Devices |-> "before"] ELSE list.born
<1>1. PICK s : s = Rebased(list.dpu)
  OBVIOUS
<1>2. PICK b : b = [d \in Devices |-> "before"]
  BY Zenon
<1>3. s \in [Devices -> St] /\ b \in [Devices -> {"before", "after"}]
  BY Zenon, <1>1, <1>2, RebasedTyped DEF Lists
<1>4. Against(list) = IF Opens THEN [list EXCEPT !.dpu = s, !.born = b] ELSE list
  BY Zenon, <1>1, <1>2 DEF Against
<1>5. CASE Opens
  <2>1. Against(list) = [list EXCEPT !.dpu = s, !.born = b]
    BY Zenon, <1>4, <1>5
  <2>2. Against(list) \in Lists
    BY Zenon, <1>3, <2>1 DEF Lists
  <2>3. /\ Against(list).life = list.life /\ Against(list).spec = list.spec
        /\ Against(list).dpu = s /\ Against(list).born = b
    BY Zenon, <1>3, <2>1 DEF Lists
  <2> QED
    BY Zenon, <1>1, <1>2, <1>5, <2>2, <2>3
<1>6. CASE ~Opens
  BY Zenon, <1>4, <1>6
<1> QED
  BY Zenon, <1>5, <1>6

(* The DPUSet object after ensureInPlaceRound.                             *)
OpenedFacts ==
  /\ mem' \in DPUSet /\ mem'.active /\ mem'.cleared = FALSE /\ mem'.requested = mem.requested
  /\ Opens => mem'.round = mem.round + 1
  /\ ~Opens => mem' = mem

(* Opened does that.                                                       *)
LEMMA OpenedTyped ==
  ASSUME IInv, pc = "plan", mem.requested \/ mem.active, Opens => mem.round < MaxRounds, mem' = Opened
  PROVE  OpenedFacts
<1>1. mem \in DPUSet /\ SetInv
  BY Zenon, Typed DEF IInv
<1>2. ~mem.cleared
  BY Zenon, <1>1 DEF SetInv
<1>c. mem.cleared = FALSE
  BY Zenon, <1>1, <1>2, SetFields
<1>3. CASE Opens
  <2>1. PICK r : r = mem.round + 1
    OBVIOUS
  <2>2. mem.round \in 0 .. MaxRounds /\ mem.round < MaxRounds
    BY Zenon, <1>1, <1>3, SetFields
  <2>3. r \in 0 .. MaxRounds
    BY <2>1, <2>2, BoundAssumption
  <2>4. mem' = [mem EXCEPT !.active = TRUE, !.round = r]
    BY Zenon, <1>3, <2>1 DEF Opened
  <2>5. mem' \in DPUSet /\ mem'.active = TRUE /\ mem'.cleared = mem.cleared /\ mem'.requested = mem.requested /\ mem'.round = r
    BY Zenon, <1>1, <2>3, <2>4 DEF DPUSet
  <2> QED
    BY Zenon, <1>c, <1>3, <2>1, <2>5 DEF OpenedFacts
<1>4. CASE ~Opens
  <2>1. mem' = mem /\ mem.active
    BY Zenon, <1>4 DEF Opened, Opens
  <2> QED
    BY Zenon, <1>1, <1>c, <1>4, <2>1 DEF OpenedFacts
<1> QED
  BY Zenon, <1>3, <1>4

(* The status of a DPU once its times are compared with the new start of   *)
(* the round.                                                              *)
Compared(x, y) ==
  /\ y.phase = x.phase /\ y.ready = x.ready /\ y.start = x.start /\ y.inProgress = x.inProgress
  /\ y.round = x.round /\ y.completed = x.completed /\ y.reconfiguring = x.reconfiguring
  /\ Begun(y) <=> Begun(x)
  /\ y.since = "before" \/ y.since = x.since

(* Rebased does that.                                                      *)
LEMMA ComparedRebase ==
  ASSUME NEW x \in St, NEW y, y = IF x.since = "now" THEN x ELSE [x EXCEPT !.since = "before"]
  PROVE  Compared(x, y)
<1>1. CASE x.since = "now"
  BY Zenon, <1>1 DEF Compared
<1>2. CASE x.since # "now"
  <2>1. y = [x EXCEPT !.since = "before"]
    BY Zenon, <1>2
  <2>2. /\ y.phase = x.phase /\ y.ready = x.ready /\ y.start = x.start /\ y.inProgress = x.inProgress
        /\ y.round = x.round /\ y.completed = x.completed /\ y.reconfiguring = x.reconfiguring
        /\ y.since = "before"
    BY Zenon, <2>1 DEF St, Status
  <2> QED
    BY Zenon, <2>2 DEF Compared, Begun
<1> QED
  BY Zenon, <1>1, <1>2

(* What a Plan leaves, as facts about the list it worked from, which is    *)
(* that of the state it leaves.                                            *)
PlanFacts(list) ==
  /\ list.life = life /\ list.spec = spec /\ list.dpu = dpu' /\ list.born = born'
  /\ \A d \in Devices : Compared(dpu[d], dpu'[d])
  /\ dpu' \in [Devices -> St] /\ born' \in [Devices -> {"before", "after"}] /\ cached' \in Lists
  /\ Opens => \A d \in Devices : born'[d] = "before"
  /\ ~Opens => dpu' = dpu /\ born' = born
  /\ plan' = Planned(list, mem'.round)
  /\ \A d \in Devices : d \in blocking'.after <=> Blocks(list, d, Written(dpu'[d], plan'[d], mem'.round), mem'.round)
  /\ blocking' \in [before : SUBSET Devices, after : SUBSET Devices]
  /\ pc' \in {"complete", "start"}
  /\ pc' = "complete" <=> \E d \in Devices : plan'[d] \in {"complete", "stamp", "clear"}

(* A plan that is made from the current DPUs.                              *)
LEMMA PlanList ==
  ASSUME IInv, Lag = FALSE, Plan
  PROVE  PlanFacts(Against(Current))
<1>t. /\ life \in [Devices -> {"none", "live", "deleting"}] /\ dpu \in [Devices -> St]
      /\ spec \in [Devices -> [template : 1 .. MaxTemplates, outdated : BOOLEAN]]
      /\ born \in [Devices -> {"before", "after"}] /\ cached \in Lists
  BY Zenon, Typed DEF IInv
<1>c. Current \in Lists /\ Listed = Current
  BY Zenon, <1>t DEF Current, Lists, Listed
<1>1. PICK list : list = Against(Current)
  BY Zenon
<1>2. /\ list \in Lists /\ list.life = life /\ list.spec = spec
      /\ list.dpu = (IF Opens THEN Rebased(dpu) ELSE dpu)
      /\ list.born = IF Opens THEN [d \in Devices |-> "before"] ELSE born
  BY ZenonT(40), <1>c, <1>1, AgainstTyped, CurrentFields
<1>3. /\ mem' = Opened /\ dpu' = list.dpu /\ born' = list.born /\ cached' = Against(cached)
      /\ plan' = Planned(list, Opened.round)
      /\ blocking' = [before |-> {d \in Devices : Blocks(list, d, list.dpu[d], Opened.round)},
                      after  |-> {d \in Devices : Blocks(list, d, Written(list.dpu[d], plan'[d], Opened.round), Opened.round)}]
      /\ pc' = IF \E d \in Devices : plan'[d] \in {"complete", "stamp", "clear"} THEN "complete" ELSE "start"
  BY Zenon, <1>c, <1>1 DEF Plan
<1>4. ASSUME NEW d \in Devices PROVE Compared(dpu[d], dpu'[d])
  <2>1. dpu[d] \in St
    BY Zenon, <1>t
  <2>2. CASE Opens
    <3>1. dpu'[d] = IF dpu[d].since = "now" THEN dpu[d] ELSE [dpu[d] EXCEPT !.since = "before"]
      BY ZenonT(40), <1>2, <1>3, <2>2 DEF Rebased
    <3> QED
      BY Zenon, <2>1, <3>1, ComparedRebase
  <2>3. CASE ~Opens
    <3>1. dpu'[d] = dpu[d]
      BY Zenon, <1>2, <1>3, <2>3
    <3> QED
      BY Zenon, <3>1 DEF Compared
  <2> QED
    BY Zenon, <2>2, <2>3
<1>5. dpu' \in [Devices -> St] /\ born' \in [Devices -> {"before", "after"}]
  BY Zenon, <1>2, <1>3 DEF Lists
<1>6. cached' \in Lists
  BY ZenonT(40), <1>t, <1>3, AgainstTyped
<1>7. (Opens => \A d \in Devices : born'[d] = "before") /\ (~Opens => dpu' = dpu /\ born' = born)
  BY Zenon, <1>2, <1>3
<1>8. blocking' \in [before : SUBSET Devices, after : SUBSET Devices]
  <2>1. PICK before : before = {d \in Devices : Blocks(list, d, list.dpu[d], Opened.round)}
    BY Zenon
  <2>2. PICK after : after = {d \in Devices : Blocks(list, d, Written(list.dpu[d], plan'[d], Opened.round), Opened.round)}
    BY Zenon
  <2>3. before \in SUBSET Devices /\ after \in SUBSET Devices
    BY Zenon, <2>1, <2>2
  <2>4. blocking' = [before |-> before, after |-> after]
    BY <1>3, <2>1, <2>2, Zenon
  <2> QED
    BY Zenon, <2>3, <2>4
<1>9. ASSUME NEW d \in Devices
      PROVE  d \in blocking'.after <=> Blocks(list, d, Written(dpu'[d], plan'[d], mem'.round), mem'.round)
  <2>1. blocking'.after = {e \in Devices : Blocks(list, e, Written(list.dpu[e], plan'[e], Opened.round), Opened.round)}
    BY <1>3, Zenon
  <2> QED
    BY <1>3, <2>1, Zenon
<1>10. plan' = Planned(list, mem'.round)
  BY <1>3, ZenonT(40)
<1>11. /\ pc' \in {"complete", "start"}
       /\ pc' = "complete" <=> \E d \in Devices : plan'[d] \in {"complete", "stamp", "clear"}
  BY Zenon, <1>3
<1>12. PlanFacts(list)
  BY <1>2, <1>3, <1>4, <1>5, <1>6, <1>7, <1>8, <1>9, <1>10, <1>11, ZenonT(40) DEF PlanFacts
<1> QED
  BY Zenon, <1>1, <1>12

(* What is planned for one DPU.                                            *)
PlanChoice(list, d) ==
  /\ plan'[d] \in Plans \ {"clear"}
  /\ plan'[d] # "none" => life[d] = "live" /\ ~spec[d].outdated /\ dpu'[d].start # 0
  /\ plan'[d] = "start" => /\ ~dpu'[d].inProgress /\ mem.requested
                           /\ readyBeforeRound(dpu'[d]) \/ phaseJoinsWithoutNewSlot(dpu'[d])
  /\ plan'[d] = "complete" => readyAtOrAfter(dpu'[d]) /\ dpu'[d].inProgress
  /\ plan'[d] = "stamp" => readyAtOrAfter(dpu'[d]) /\ ~dpu'[d].inProgress

(* A new start keeps DPUInv.                                               *)
LEMMA ComparedDPU ==
  ASSUME NEW d \in Devices, DPUInv(d), Compared(dpu[d], dpu'[d]), UNCHANGED <<life, spec, raced>>
  PROVE  DPUInv(d)'
BY Zenon DEF DPUInv, Compared

(* What Planned chooses for a DPU of which DPUInv holds: nothing has to be *)
(* cleared.                                                                *)
LEMMA PlanChoices ==
  ASSUME NEW list, PlanFacts(list), NEW d \in Devices, DPUInv(d), UNCHANGED <<life, spec>>
  PROVE  PlanChoice(list, d)
<1>1. PlannedFacts(list, d, mem'.round) /\ CompletionFacts(list, d, mem'.round)
  BY Zenon, PlannedCases, Completion
<1>2. /\ list.life = life /\ list.spec = spec /\ list.dpu = dpu' /\ Compared(dpu[d], dpu'[d])
      /\ plan' = Planned(list, mem'.round)
  BY Zenon DEF PlanFacts
<1>3. PICK p : p = planInPlaceCompletion(list, d, mem'.round)
  BY Zenon
<1>4. /\ plan'[d] = "start" => /\ d \in Startable(list, mem'.round)
                               /\ readyBeforeRound(dpu'[d]) \/ phaseJoinsWithoutNewSlot(dpu'[d])
      /\ plan'[d] # "start" => plan'[d] = p
  BY ZenonT(40), <1>1, <1>2, <1>3 DEF PlannedFacts
<1>5. /\ p \in {"none", "complete", "stamp", "clear"}
      /\ p # "none" => Capable(list, d)
      /\ p = "clear" => spec[d].outdated /\ dpu'[d].inProgress
      /\ p = "complete" => ~spec[d].outdated /\ readyAtOrAfter(dpu'[d]) /\ dpu'[d].inProgress
      /\ p = "stamp" => ~spec[d].outdated /\ readyAtOrAfter(dpu'[d]) /\ ~dpu'[d].inProgress
  BY <1>1, <1>2, <1>3, ZenonT(40) DEF CompletionFacts
<1>6. Capable(list, d) <=> life[d] = "live" /\ dpu'[d].start # 0
  BY Zenon, <1>2 DEF Capable
<1>7. p # "clear"
  BY ZenonT(40), <1>2, <1>5, <1>6 DEF DPUInv, Compared
<1>8. d \in Startable(list, mem'.round) => mem.requested /\ Capable(list, d) /\ ~spec[d].outdated /\ ~dpu'[d].inProgress
  BY Zenon, <1>2 DEF Startable
<1>9. plan'[d] \in Plans \ {"clear"}
  BY ZenonT(40), <1>4, <1>5, <1>7 DEF Plans
<1>10. plan'[d] # "none" => life[d] = "live" /\ ~spec[d].outdated /\ dpu'[d].start # 0
  BY ZenonT(40), <1>4, <1>5, <1>6, <1>7, <1>8
<1> QED
  BY ZenonT(40), <1>4, <1>5, <1>8, <1>9, <1>10 DEF PlanChoice

(* A DPU out of service counts as taken.                                   *)
LEMMA OutTaken ==
  ASSUME NEW list, list.life = life, list.dpu = dpu', UNCHANGED life,
         NEW d \in Devices, life[d] \in {"none", "live", "deleting"}, dpu'[d].ready => dpu'[d].phase = "Ready",
         d \in Out' \/ dpu'[d].phase # "Ready"
  PROVE  d \in Taken(list)
BY Zenon DEF Out, Taken, Owned, isUnavailable, inProgressStillReady

(* The plan is within the budget.                                          *)
LEMMA PlanBudgetKept ==
  ASSUME NEW list, PlanFacts(list), \A d \in Devices : PlanChoice(list, d), \A d \in Devices : DPUInv(d)',
         UNCHANGED <<life, spec>>, life \in [Devices -> {"none", "live", "deleting"}]
  PROVE  BudgetInv'
<1>f. /\ list.life = life /\ list.dpu = dpu' /\ plan' = Planned(list, mem'.round)
      /\ pc' \in {"complete", "start"}
      /\ pc' = "complete" <=> \E d \in Devices : plan'[d] \in {"complete", "stamp", "clear"}
  BY ZenonT(40) DEF PlanFacts
<1>1. SUFFICES ASSUME NEW d \in Starts', dpu'[d].ready, dpu'[d].since = "before"
               PROVE  Cardinality((Out' \ Pending') \cup Starts') <= MaxSlots
  BY Zenon DEF BudgetInv
<1>2. PICK U : U = (Out' \ Pending') \cup Starts'
  BY ZenonT(40)
<1>3. U \in SUBSET Devices /\ d \in Devices /\ plan'[d] = "start"
  BY Zenon, <1>2 DEF Out, Starts
<1>4. readyBeforeRound(list.dpu[d])
  BY ZenonT(40), <1>f, <1>1, <1>3 DEF readyBeforeRound, DPUInv
<1>5. \A e \in Devices : dpu'[e].ready => dpu'[e].phase = "Ready"
  BY Zenon DEF DPUInv
<1>6. ASSUME NEW e \in U
      PROVE  \/ e \in Taken(list) /\ plan'[e] \notin {"complete", "stamp", "clear"}
             \/ plan'[e] = "start"
  <2>1. CASE e \in Starts'
    BY Zenon, <2>1 DEF Starts
  <2>2. CASE e \notin Starts'
    <3>1. e \in Devices /\ e \in Out' /\ e \notin Pending'
      BY ZenonT(40), <1>2, <1>3, <2>2
    <3>2. e \in Taken(list)
      BY ZenonT(40), <1>f, <1>5, <3>1, OutTaken
    <3>3. plan'[e] \notin {"complete", "stamp", "clear"}
      BY ZenonT(40), <1>f, <3>1 DEF Pending, Completions
    <3> QED
      BY ZenonT(40), <3>2, <3>3
  <2> QED
    BY Zenon, <2>1, <2>2
<1>7. ASSUME NEW e \in Devices, plan'[e] = "start", ~readyBeforeRound(list.dpu[e])
      PROVE  e \in Taken(list)
  <2>1. PlanChoice(list, e)
    BY Zenon, SMTT(30)
  <2>2. dpu'[e].phase # "Ready"
    BY ZenonT(40), <1>f, <1>7, <2>1 DEF PlanChoice, phaseJoinsWithoutNewSlot
  <2> QED
    BY ZenonT(40), <1>f, <1>5, <2>2, OutTaken
<1>8. Cardinality(U) <= MaxSlots
  BY ZenonT(40), <1>f, <1>3, <1>4, <1>6, <1>7, PlanBudget
<1> QED
  BY Zenon, <1>2, <1>8

(* A write that completes nothing.                                         *)
LEMMA WrittenKeeps ==
  ASSUME NEW s \in St, NEW p \in {"none", "start"}, NEW round \in 0 .. MaxRounds, NEW w, w = Written(s, p, round)
  PROVE  /\ w.phase = s.phase /\ w.completed = s.completed
         /\ w.inProgress = (IF p = "start" THEN TRUE ELSE s.inProgress)
<1>1. CASE p = "none"
  BY Zenon, <1>1 DEF Written
<1>2. CASE p = "start"
  <2>1. WrittenFacts(s, p, round, w)
    BY Zenon, <1>2, WrittenTyped
  <2> QED
    BY ZenonT(40), <1>2, <2>1 DEF WrittenFacts
<1> QED
  BY Zenon, <1>1, <1>2

(* A DPU that is or will be in progress after the writes keeps the round   *)
(* open.                                                                   *)
LEMMA PlanBlocks ==
  ASSUME NEW list, PlanFacts(list), NEW d \in Devices, PlanChoice(list, d), DPUInv(d)', UNCHANGED <<life, spec>>,
         mem' \in DPUSet, life[d] = "live", plan'[d] \in {"none", "start"}, dpu'[d].inProgress \/ plan'[d] = "start"
  PROVE  d \in blocking'.after
<1>f. /\ list.life = life /\ list.dpu = dpu' /\ list.spec = spec /\ dpu' \in [Devices -> St]
      /\ d \in blocking'.after <=> Blocks(list, d, Written(dpu'[d], plan'[d], mem'.round), mem'.round)
  BY Zenon DEF PlanFacts
<1>1. PICK w : w = Written(dpu'[d], plan'[d], mem'.round)
  BY Zenon
<1>2. dpu'[d] \in St /\ mem'.round \in 0 .. MaxRounds
  BY Zenon, <1>f, SetFields
<1>3. w.inProgress = IF plan'[d] = "start" THEN TRUE ELSE dpu'[d].inProgress
  BY ZenonT(40), <1>1, <1>2, WrittenKeeps
<1>4. w.inProgress
  BY Zenon, <1>3
<1>5. dpu'[d].start # 0 /\ ~spec[d].outdated
  BY Zenon DEF PlanChoice, DPUInv
<1>6. Blocks(list, d, w, mem'.round)
  BY Zenon, <1>f, <1>4, <1>5 DEF Blocks, Capable
<1> QED
  BY Zenon, <1>f, <1>1, <1>6

(* A member of the round that was not served yet is not completed, and     *)
(* keeps the round open.                                                   *)
LEMMA PlanUnserved ==
  ASSUME NEW list, PlanFacts(list), NEW d \in Devices, PlanChoice(list, d), DPUInv(d)', UNCHANGED <<life, spec>>,
         mem' \in DPUSet, pc' # "idle", life[d] = "live", dpu'[d].start # 0, born'[d] = "before", Unserved(d)'
  PROVE  /\ plan'[d] \in {"none", "start"}
         /\ mem.requested => d \in blocking'.after \/ spec[d].outdated
<1>f. /\ list.life = life /\ list.dpu = dpu' /\ list.spec = spec /\ list.born = born' /\ dpu' \in [Devices -> St]
      /\ d \in blocking'.after <=> Blocks(list, d, Written(dpu'[d], plan'[d], mem'.round), mem'.round)
  BY ZenonT(40) DEF PlanFacts
<1>1. ~readyAtOrAfter(dpu'[d])
  BY Zenon DEF readyAtOrAfter, Unserved, Waiting, Marked, Leaving
<1>2. plan'[d] \in {"none", "start"}
  BY Zenon, <1>1 DEF PlanChoice, Plans
<1>3. ASSUME mem.requested, ~spec[d].outdated PROVE d \in blocking'.after
  <2>1. CASE dpu'[d].inProgress \/ plan'[d] = "start"
    BY Zenon, <1>2, <2>1, PlanBlocks
  <2>2. CASE ~dpu'[d].inProgress /\ plan'[d] = "none"
    <3>1. Waiting(d)'
      BY Zenon, <2>2 DEF Unserved, Marked, Leaving
    <3>2. dpu'[d].phase = "Ready" /\ dpu'[d].completed < mem'.round
      BY Zenon, <3>1 DEF Waiting, CurRound
    <3>3. dpu'[d].completed \in Nat /\ mem'.round \in 0 .. MaxRounds
      BY ZenonT(40), <1>f, StatusInts, SetFields
    <3>4. dpu'[d].completed # mem'.round
      BY SMTT(30), <3>2, <3>3, BoundAssumption
    <3>5. Written(dpu'[d], plan'[d], mem'.round) = dpu'[d]
      BY Zenon, <2>2 DEF Written
    <3>6. Blocks(list, d, dpu'[d], mem'.round)
      BY ZenonT(40), <1>3, <1>f, <3>2, <3>4 DEF Blocks, Capable
    <3> QED
      BY Zenon, <1>f, <3>5, <3>6
  <2> QED
    BY Zenon, <1>2, <2>1, <2>2
<1> QED
  BY Zenon, <1>2, <1>3

(* The next number is larger.                                              *)
LEMMA OneMore ==
  ASSUME NEW a \in Nat, NEW b \in Nat, a <= b
  PROVE  a <= b + 1 /\ a < b + 1
BY SMTT(30)

(* The plan keeps RoundInv.                                                *)
LEMMA PlanRound ==
  ASSUME NEW list, PlanFacts(list), OpenedFacts, NEW d \in Devices, PlanChoice(list, d), DPUInv(d)', RoundInv(d),
         UNCHANGED <<life, spec>>, pc = "plan", dpu \in [Devices -> St], mem.round \in Nat
  PROVE  RoundInv(d)'
<1>f. /\ pc' \in {"complete", "start"} /\ Compared(dpu[d], dpu'[d])
      /\ pc' = "complete" <=> \E e \in Devices : plan'[e] \in {"complete", "stamp", "clear"}
  BY ZenonT(40) DEF PlanFacts
<1>1. CurRound = mem.round /\ CurRound' = mem'.round /\ CurActive'
  BY ZenonT(40), <1>f DEF CurRound, CurActive, OpenedFacts
<1>2. /\ dpu'[d].completed = dpu[d].completed /\ dpu'[d].round = dpu[d].round
      /\ dpu'[d].reconfiguring = dpu[d].reconfiguring
  BY Zenon, <1>f DEF Compared
<1>3. dpu[d].completed \in Nat /\ dpu[d].round \in Nat
  BY Zenon, StatusInts
<1>4. dpu[d].completed <= mem.round /\ dpu[d].round <= mem.round /\ dpu[d].reconfiguring.round <= dpu[d].round
  BY Zenon, <1>1 DEF RoundInv
<1>5. dpu[d].completed <= mem'.round /\ dpu[d].round <= mem'.round
  BY Zenon, <1>3, <1>4, OneMore DEF OpenedFacts
<1>6. ASSUME life[d] = "live", d \notin blocking'.after
      PROVE  /\ plan'[d] # "start"
             /\ ~dpu'[d].inProgress \/ (pc' = "complete" /\ plan'[d] = "complete")
  <2>1. mem' \in DPUSet
    BY Zenon DEF OpenedFacts
  <2>2. plan'[d] \in {"none", "start"} => ~dpu'[d].inProgress /\ plan'[d] # "start"
    BY Zenon, <1>6, <2>1, PlanBlocks
  <2>3. plan'[d] \in {"none", "start", "complete", "stamp"} /\ (plan'[d] = "stamp" => ~dpu'[d].inProgress)
    BY Zenon DEF PlanChoice, Plans
  <2>4. plan'[d] = "complete" => pc' = "complete"
    BY Zenon, <1>f
  <2> QED
    BY ZenonT(40), <2>2, <2>3, <2>4
<1> QED
  BY ZenonT(40), <1>1, <1>2, <1>4, <1>5, <1>6 DEF RoundInv

(* The plan keeps the invariant: the DPUs a new round begins with wait for *)
(* it, because none is in progress and none has its number.                *)
LEMMA PlanStep ==
  ASSUME IInv, Lag = FALSE, Plan
  PROVE  IInv'
<1>l. PICK list : list = Against(Current)
  OBVIOUS
<1>f. PlanFacts(list)
  BY Zenon, <1>l, PlanList
<1>1. /\ pc = "plan" /\ (mem.requested \/ mem.active) /\ (Opens => mem.round < MaxRounds) /\ mem' = Opened
      /\ UNCHANGED <<life, spec, config, flavor, flapped, set, upsets, unsaved, raced>>
  BY Zenon DEF Plan, faults
<1>2. IF Opens
      THEN /\ fresh' = TRUE /\ target' = flavor
           /\ member' = {d \in Devices : Capable(Current, d) /\ ~spec[d].outdated /\ readyBeforeRound(dpu'[d])}
      ELSE UNCHANGED <<fresh, target, member>>
  BY Zenon DEF Plan
<1>o. OpenedFacts
  BY Zenon, <1>1, OpenedTyped
<1>t. /\ life \in [Devices -> {"none", "live", "deleting"}] /\ dpu \in [Devices -> St]
      /\ flavor \in 1 .. MaxFlavors /\ member \subseteq Devices /\ target \in 0 .. MaxFlavors /\ fresh \in BOOLEAN
  BY Zenon, Typed DEF IInv
<1>i. SetInv /\ \A d \in Devices : DPUInv(d)
  BY Zenon DEF IInv
<1>n. mem.round \in Nat /\ set.round \in Nat
  BY Zenon, CurRoundNat
<1>3. /\ dpu' \in [Devices -> St] /\ born' \in [Devices -> {"before", "after"}] /\ cached' \in Lists
      /\ blocking' \in [before : SUBSET Devices, after : SUBSET Devices]
      /\ pc' \in {"complete", "start"} /\ plan' = Planned(list, mem'.round)
      /\ \A d \in Devices : Compared(dpu[d], dpu'[d])
  BY Zenon, <1>f DEF PlanFacts
<1>4. \A d \in Devices : DPUInv(d)'
  BY ZenonT(40), <1>i, <1>1, <1>3, ComparedDPU
<1>5. \A d \in Devices : PlanChoice(list, d)
  BY ZenonT(40), <1>f, <1>i, <1>1, PlanChoices
<1>6. fresh' \in BOOLEAN /\ member' \subseteq Devices /\ target' \in 0 .. MaxFlavors /\ target' <= flavor'
  <2>1. CASE Opens
    <3>1. fresh' = TRUE /\ target' = flavor /\ member' \subseteq Devices /\ flavor' = flavor
      BY ZenonT(40), <1>1, <1>2, <2>1
    <3>2. flavor \in 0 .. MaxFlavors /\ flavor <= flavor
      BY SMTT(30), <1>t
    <3> QED
      BY ZenonT(40), <3>1, <3>2
  <2>2. CASE ~Opens
    BY ZenonT(40), <1>t, <1>1, <1>2, <2>2 DEF IInv
  <2> QED
    BY Zenon, <2>1, <2>2
<1>7. plan' \in [Devices -> Plans]
  <2>1. \A d \in Devices : plan'[d] \in Plans
    BY Zenon, <1>5 DEF PlanChoice
  <2>2. plan' = [d \in Devices |-> plan'[d]]
    BY ZenonT(40), <1>3 DEF Planned
  <2> QED
    BY Zenon, <2>1, <2>2
<1>8. Types'
  BY ZenonT(40), <1>1, <1>3, <1>6, <1>7, <1>o, Typed DEF IInv, Types, TypeOK, St, OpenedFacts
<1>p. Planning'
  BY Zenon, <1>3 DEF Planning
<1>9. SetInv'
  <2>1. mem.active = set.active /\ mem.round = set.round
    BY Zenon, <1>1, <1>i DEF SetInv
  <2>2. mem'.round = set.round \/ mem'.round = set.round + 1
    BY Zenon, <1>o, <2>1 DEF OpenedFacts
  <2>3. mem'.active /\ ~set.active => mem'.round # set.round
    <3>1. ~set.active => mem'.round = set.round + 1
      BY ZenonT(40), <1>1, <1>o, <2>1 DEF OpenedFacts, Opens
    <3> QED
      BY SMTT(30), <1>n, <3>1
  <2> QED
    BY ZenonT(40), <1>1, <1>3, <1>i, <1>o, <2>2, <2>3 DEF SetInv, OpenedFacts
<1>10. ASSUME NEW d \in Devices PROVE PlanInv(d)'
  <2>1. PlanChoice(list, d) /\ DPUInv(d)'
    BY Zenon, <1>4, <1>5
  <2>2. /\ plan'[d] # "clear"
        /\ plan'[d] # "none" => life'[d] = "live" /\ ~spec'[d].outdated /\ dpu'[d].start # 0
        /\ plan'[d] = "start" => ~dpu'[d].inProgress
        /\ plan'[d] = "stamp" => ~dpu'[d].inProgress /\ dpu'[d].phase = "Ready"
    BY ZenonT(40), <1>1, <2>1 DEF PlanChoice, readyAtOrAfter
  <2>3. plan'[d] = "complete" /\ ~raced' => Begun(dpu'[d]) /\ dpu'[d].phase = "Ready"
    BY ZenonT(40), <2>1, <2>2 DEF PlanChoice, readyAtOrAfter, DPUInv
  <2> QED
    BY Zenon, <2>2, <2>3 DEF PlanInv
<1>11. BudgetInv'
  BY ZenonT(40), <1>f, <1>1, <1>4, <1>5, <1>t, PlanBudgetKept
<1>12. ASSUME ~unsaved, NEW d \in Devices PROVE RoundInv(d)'
  <2>1. RoundInv(d)
    BY Zenon, <1>12 DEF IInv
  <2> QED
    BY ZenonT(40), <1>f, <1>o, <1>1, <1>4, <1>5, <1>t, <1>n, <2>1, PlanRound
<1>13. ASSUME ~unsaved, NEW d \in member' \ flapped PROVE Member(d)'
  <2>0. d \in Devices /\ mem' \in DPUSet /\ ~mem'.cleared /\ mem'.requested = mem.requested /\ pc' # "idle"
    BY ZenonT(40), <1>3, <1>6, <1>13, <1>o DEF OpenedFacts
  <2>u. ASSUME life[d] = "live", dpu'[d].start # 0, born'[d] = "before", Unserved(d)'
        PROVE  Member(d)'
    <3>1. plan'[d] \in {"none", "start"} /\ (mem.requested => d \in blocking'.after \/ spec[d].outdated)
      BY ZenonT(40), <1>f, <1>1, <1>4, <1>5, <2>0, <2>u, PlanUnserved
    <3> QED
      BY ZenonT(40), <1>1, <2>0, <2>u, <3>1 DEF Member, Applied
  <2>1. CASE Opens
    <3>1. Capable(Current, d) /\ readyBeforeRound(dpu'[d])
      BY ZenonT(40), <1>2, <1>13, <2>1
    <3>2. life[d] = "live" /\ dpu[d].start # 0
      BY Zenon, <3>1, CurrentFields DEF Capable
    <3>3. dpu'[d].start # 0 /\ born'[d] = "before"
      BY ZenonT(40), <1>f, <2>0, <2>1, <3>2 DEF PlanFacts, Compared
    <3>4. RoundInv(d) /\ ~CurActive /\ CurRound = mem.round /\ CurRound' = mem.round + 1
      BY ZenonT(40), <1>1, <1>13, <1>o, <2>0, <2>1 DEF IInv, CurActive, CurRound, OpenedFacts, Opens
    <3>5. ~dpu'[d].inProgress /\ dpu'[d].completed = dpu[d].completed /\ dpu'[d].round = dpu[d].round
      BY ZenonT(40), <1>3, <2>0, <3>2, <3>4 DEF RoundInv, Compared
    <3>6. dpu[d].completed < mem.round + 1 /\ dpu[d].round < mem.round + 1
      <4>1. dpu[d].completed \in Nat /\ dpu[d].round \in Nat
        BY ZenonT(40), <1>t, <2>0, StatusInts
      <4>2. dpu[d].completed <= mem.round /\ dpu[d].round <= mem.round
        BY Zenon, <3>4 DEF RoundInv
      <4> QED
        BY ZenonT(40), <1>n, <4>1, <4>2, OneMore
    <3>7. Waiting(d)'
      BY ZenonT(40), <3>1, <3>4, <3>5, <3>6 DEF Waiting, readyBeforeRound
    <3> QED
      BY ZenonT(40), <2>u, <3>2, <3>3, <3>7 DEF Unserved
  <2>2. CASE ~Opens
    <3>1. dpu' = dpu /\ born' = born /\ member' = member /\ target' = target /\ mem' = mem
      BY ZenonT(40), <1>f, <1>o, <1>2, <2>2 DEF PlanFacts, OpenedFacts
    <3>2. Member(d)
      BY ZenonT(40), <1>13, <3>1 DEF IInv
    <3>3. CurRound' = CurRound
      BY ZenonT(40), <1>1, <2>0, <3>1 DEF CurRound
    <3>4. CASE config[d] >= target
      BY ZenonT(40), <1>1, <2>0, <3>1, <3>2, <3>4 DEF Member, Applied
    <3>5. CASE ~(config[d] >= target)
      <4>1. Unserved(d)
        BY Zenon, <3>2, <3>5 DEF Member
      <4>2. Unserved(d)'
        BY ZenonT(40), <3>1, <3>3, <4>1 DEF Unserved, Waiting, Marked, Leaving
      <4> QED
        BY ZenonT(40), <2>u, <3>1, <3>2, <4>2 DEF Member
    <3> QED
      BY Zenon, <3>4, <3>5
  <2> QED
    BY Zenon, <2>1, <2>2
<1> QED
  BY SMTT(30), <1>1, <1>4, <1>6, <1>8, <1>9, <1>10, <1>11, <1>12, <1>13 DEF IInv

-----------------------------------------------------------------------------
(* The invariant.                                                          *)

(* The status that DPUs have at first.                                     *)
LEMMA ServingFields ==
  ASSUME MaxRounds \in Nat
  PROVE  /\ Serving \in St
         /\ Serving.ready = TRUE /\ Serving.phase = "Ready" /\ Serving.inProgress = FALSE
         /\ Serving.round = 0 /\ Serving.completed = 0 /\ Serving.reconfiguring.round = 0
<1>1. PICK x : x = NewStatus("Ready")
  OBVIOUS
<1>2. /\ x \in St /\ x.phase = "Ready" /\ x.inProgress = FALSE /\ x.round = 0 /\ x.completed = 0
      /\ x.reconfiguring.round = 0
  BY Zenon, <1>1, NewFields DEF Phases
<1>3. Serving = [x EXCEPT !.ready = TRUE, !.start = 1, !.seen = 1, !.method = "none"]
  BY Zenon, <1>1 DEF Serving
<1>4. 1 \in 0 .. 2
  OBVIOUS
<1>5. Serving \in St
  BY ZenonT(40), <1>2, <1>3, <1>4 DEF St, Status
<1>6. /\ Serving.ready = TRUE /\ Serving.phase = x.phase /\ Serving.inProgress = x.inProgress
      /\ Serving.round = x.round /\ Serving.completed = x.completed /\ Serving.reconfiguring = x.reconfiguring
  BY ZenonT(40), <1>2, <1>3 DEF St, Status
<1> QED
  BY Zenon, <1>2, <1>5, <1>6

(* The invariant holds at first.                                           *)
LEMMA Initial ==
  ASSUME Init
  PROVE  IInv
<1>b. /\ MaxRounds \in Nat /\ MaxFlavors \in Nat /\ MaxTemplates \in Nat /\ MaxUpsets \in Nat
      /\ 1 \in 1 .. MaxTemplates /\ 1 \in 1 .. MaxFlavors /\ 1 \in 0 .. MaxFlavors /\ 0 \in 0 .. MaxFlavors
      /\ 0 \in 0 .. MaxRounds /\ 0 \in 0 .. MaxUpsets
  BY BoundAssumption
<1>s. PICK s : s = Serving
  OBVIOUS
<1>1. /\ s \in St /\ s.ready = TRUE /\ s.phase = "Ready" /\ s.inProgress = FALSE
      /\ s.round = 0 /\ s.completed = 0 /\ s.reconfiguring.round = 0
  BY ZenonT(40), <1>b, <1>s, ServingFields
<1>2. NoDPUSet \in DPUSet
  BY Zenon, <1>b DEF NoDPUSet, DPUSet
<1>3. /\ life = [d \in Devices |-> "live"] /\ dpu = [d \in Devices |-> s]
      /\ spec = [d \in Devices |-> [template |-> 1, outdated |-> FALSE]]
      /\ config = [d \in Devices |-> 1] /\ born = [d \in Devices |-> "before"] /\ flavor = 1
      /\ set = NoDPUSet /\ mem = NoDPUSet /\ fresh = FALSE
      /\ cached = [life |-> life, dpu |-> dpu, spec |-> spec, born |-> born]
      /\ pc = "idle" /\ plan = NoPlan /\ blocking = [before |-> {}, after |-> {}]
      /\ member = {} /\ target = 0 /\ flapped = {}
      /\ upsets = 0 /\ unsaved = FALSE /\ raced = FALSE
  BY Zenon, <1>s DEF Init
<1>4. /\ life \in [Devices -> {"none", "live", "deleting"}] /\ dpu \in [Devices -> St]
      /\ config \in [Devices -> 0 .. MaxFlavors] /\ born \in [Devices -> {"before", "after"}]
  BY ZenonT(40), <1>b, <1>1, <1>3
<1>5. spec \in [Devices -> [template : 1 .. MaxTemplates, outdated : BOOLEAN]]
  BY Zenon, <1>b, <1>3
<1>6. cached \in Lists
  BY ZenonT(40), <1>3, <1>4, <1>5 DEF Lists
<1>7. plan \in [Devices -> Plans] /\ blocking \in [before : SUBSET Devices, after : SUBSET Devices]
  BY Zenon, <1>3, NoPlanType
<1>8. Types
  BY ZenonT(40), <1>b, <1>2, <1>3, <1>4, <1>5, <1>6, <1>7, Typed
<1>9. SetInv
  BY Zenon, <1>3, NoDPUSetType DEF SetInv, Planning
<1>10. ~Planning /\ CurRound = 0
  BY Zenon, <1>3, NoDPUSetType DEF Planning, CurRound
<1>11. ASSUME NEW d \in Devices PROVE DPUInv(d) /\ PlanInv(d) /\ RoundInv(d)
  <2>1. dpu[d] = s
    BY Zenon, <1>3
  <2>2. 0 <= 0
    BY SMTT(30)
  <2> QED
    BY ZenonT(40), <1>1, <1>10, <2>1, <2>2 DEF DPUInv, PlanInv, RoundInv
<1>12. target <= flavor
  BY <1>3
<1> QED
  BY SMTT(30), <1>3, <1>8, <1>9, <1>10, <1>11, <1>12 DEF IInv, BudgetInv

(* Nothing happens.                                                        *)
LEMMA Stutter ==
  ASSUME IInv, UNCHANGED vars
  PROVE  IInv'
<1>1. UNCHANGED <<life, dpu, spec, config, born, flavor, fresh, member, target, flapped, set, cached, pc, mem, plan,
                  blocking, upsets, unsaved, raced>>
  BY Zenon DEF vars, objects, world, process, faults
<1>2. Types' /\ set' \in DPUSet /\ upsets' \in 0 .. MaxUpsets /\ flavor' \in 1 .. MaxFlavors /\ target <= flavor'
  BY ZenonT(40), <1>1, Typed DEF IInv, Types, TypeOK
<1> QED
  BY Zenon, <1>1, <1>2, SetStep

(* Every step keeps the invariant.                                         *)
LEMMA Inductive ==
  ASSUME IInv, Lag = FALSE, [Next]_vars
  PROVE  IInv'
<1>1. CASE Reconcile
  BY ZenonT(40), <1>1, BeginStep, RollStep, PlanStep, NoRoundStep, PatchCompletionsStep, PatchStartsStep, PatchMetadataStep,
     PatchStatusStep DEF Reconcile
<1>2. CASE RollFails \/ PatchFails \/ Crash
  BY ZenonT(40), <1>2, RollFailsStep, PatchFailsStep, CrashStep
<1>3. CASE \E d \in Devices : HandleDPU(d) \/ Configure(d) \/ NodeNotReady(d) \/ Gone(d)
  BY ZenonT(40), <1>3, HandleStep, ConfigureStep, NotReadyStep, GoneStep
<1>4. CASE Tick
  BY Zenon, <1>4, TickStep
<1>5. CASE EditTemplate \/ EditFlavor \/ Annotate \/ Abort
  BY Zenon, <1>5, UserStep
<1>6. CASE UNCHANGED vars
  BY Zenon, <1>6, Stutter
<1> QED
  BY SMTT(30), <1>1, <1>2, <1>3, <1>4, <1>5, <1>6 DEF Next

(* The inductive invariant holds in every reachable state.                 *)
THEOREM Invariance ==
  ASSUME Lag = FALSE
  PROVE  Spec => []IInv
<1>1. Init => IInv
  BY Zenon, Initial
<1>2. IInv /\ [Next]_vars => IInv'
  BY Zenon, Inductive
<1> QED
  BY <1>1, <1>2, PTL DEF Spec

(* Every reachable state is well typed, for every number of DPUs and every *)
(* bound.                                                                  *)
THEOREM RolloutTypeCorrect ==
  ASSUME Lag = FALSE
  PROVE  Spec => []TypeOK
<1>1. IInv => TypeOK
  BY Zenon DEF IInv, Types
<1>2. Spec => []IInv
  BY ZenonT(40), Invariance
<1> QED
  BY <1>1, <1>2, PTL

(* The annotation is removed only when every DPU that the round began      *)
(* with, was not replaced and did not flap runs the flavor of that moment, *)
(* for every number of DPUs, rounds, failed calls and crashes that leave   *)
(* the round saved.                                                        *)
THEOREM FinishedRoundsApplied ==
  ASSUME Lag = FALSE
  PROVE  Spec => RoundFinished
<1>1. IInv => [Finishing /\ ~unsaved => \A d \in member \ flapped : Applied(d)]_vars
  BY ZenonT(40) DEF IInv, Member, Finishing
<1>2. Spec => []IInv
  BY Zenon, Invariance
<1> QED
  BY <1>1, <1>2, PTL DEF RoundFinished

-----------------------------------------------------------------------------
(* The budget.                                                             *)

(* A DPU that is about to be taken was not counted before.                 *)
LEMMA NotTaken ==
  ASSUME NEW d \in Devices, TakesOut(d)
  PROVE  d \notin Taken(Current)
BY ZenonT(40), CurrentFields DEF TakesOut, Taken, Owned, isUnavailable, inProgressStillReady

(* One that is out of service was.                                         *)
LEMMA OutIsTaken ==
  ASSUME IInv, NEW d \in Out
  PROVE  d \in Taken(Current)
<1>1. d \in Devices /\ life[d] \in {"none", "live", "deleting"} /\ DPUInv(d)
  BY Zenon, Typed DEF IInv, Out
<1> QED
  BY Zenon, <1>1, CurrentFields DEF Out, Taken, Owned, isUnavailable, inProgressStillReady, DPUInv

(* The rolling update takes a serving DPU within the budget, whether or    *)
(* not its calls succeed.                                                  *)
LEMMA RollTakes ==
  ASSUME IInv, NEW gone \in Deletes(Current), NEW part \in SUBSET gone, Delete(part), UNCHANGED dpu,
         NEW d \in Devices, TakesOut(d)
  PROVE  Cardinality(Out') <= MaxSlots
<1>1. \A e \in Devices : life'[e] = IF e \in part /\ life[e] = "live" THEN "deleting" ELSE life[e]
  BY Zenon, DeleteFacts
<1>2. d \in gone /\ d \notin Taken(Current)
  BY ZenonT(40), <1>1, NotTaken DEF TakesOut
<1>3. \A e \in Out' : e \in Out \/ e \in gone
  BY Zenon, <1>1 DEF Out
<1>4. Out' \in SUBSET (Taken(Current) \cup gone)
  BY ZenonT(40), <1>3, OutIsTaken
<1> QED
  BY ZenonT(40), <1>2, <1>4, RollBudget

(* The marks do.                                                           *)
LEMMA MarkTakes ==
  ASSUME IInv, pc = "start", NEW some \in SUBSET Starts, Write(some), Race(some), ~raced', UNCHANGED <<life, spec>>,
         NEW d \in Devices, TakesOut(d)
  PROVE  Cardinality(Out') <= MaxSlots
<1>1. /\ \A e \in Devices \ some : dpu'[e] = dpu[e]
      /\ \A e \in some : WrittenFacts(dpu[e], "start", mem.round, dpu'[e])
  BY Zenon, StartsPatched
<1>2. d \in some
  BY ZenonT(40), <1>1 DEF TakesOut
<1>3. dpu[d].ready /\ dpu[d].phase = "Ready"
  BY Zenon DEF IInv, DPUInv, TakesOut
<1>4. dpu[d].since = "before" /\ ~raced
  BY Zenon, <1>2, <1>3 DEF Race, readyAtOrAfter
<1>5. Cardinality((Out \ {}) \cup Starts) <= MaxSlots
  <2>1. BudgetInv /\ Pending = {} /\ Planning /\ d \in Starts
    BY Zenon, <1>2 DEF IInv, Pending, Planning
  <2> QED
    BY ZenonT(40), <1>3, <1>4, <2>1 DEF BudgetInv
<1>6. PICK U : U = (Out \ {}) \cup Starts
  BY ZenonT(40)
<1>7. U \in SUBSET Devices /\ Out' \in SUBSET U
  <2>1. \A e \in some : e \in Starts
    BY Zenon
  <2>2. \A e \in Out' : e \in Out \/ e \in some
    BY Zenon, <1>1 DEF Out
  <2> QED
    BY ZenonT(40), <1>6, <2>1, <2>2 DEF Out, Starts
<1>8. Out' \in SUBSET Devices
  BY Zenon, <1>7
<1>9. Cardinality(Out') <= Cardinality(U) /\ Cardinality(Out') \in Nat /\ Cardinality(U) \in Nat /\ MaxSlots \in Nat
  BY ZenonT(40), <1>7, <1>8, SubsetBound, FiniteDevices, SlotsBound
<1> QED
  BY SMTT(30), <1>5, <1>6, <1>9

(* Nothing else takes a serving DPU.                                       *)
LEMMA OthersTakeNone ==
  ASSUME IInv, Next, NEW d \in Devices, TakesOut(d)
  PROVE  Roll \/ RollFails \/ PatchStarts \/ (PatchFails /\ pc = "start")
<1>0. life[d] = "live" /\ ~dpu[d].inProgress /\ (life'[d] = "deleting" \/ dpu'[d].inProgress)
  BY Zenon DEF TakesOut
<1>s. dpu[d] \in St
  BY Zenon, Typed DEF IInv
<1>1. ~Begin
  <2>1. SUFFICES ASSUME Begin PROVE life'[d] = life[d] /\ dpu'[d] = dpu[d]
    BY Zenon, <1>0
  <2> QED
    BY ZenonT(40), <1>0, <2>1 DEF Begin
<1>2. ~Plan
  <2>1. SUFFICES ASSUME Plan PROVE life' = life /\ dpu'[d].inProgress = dpu[d].inProgress
    BY Zenon, <1>0
  <2>2. life' = life /\ dpu' = Against(Current).dpu
    BY Zenon, <2>1 DEF Plan
  <2>3. Current \in Lists /\ Current.dpu = dpu
    BY Zenon, Typed, CurrentFields DEF IInv, Current, Lists
  <2>4. dpu' = IF Opens THEN Rebased(dpu) ELSE dpu
    BY ZenonT(40), <2>2, <2>3, AgainstTyped
  <2>5. dpu'[d] = dpu[d] \/ dpu'[d] = IF dpu[d].since = "now" THEN dpu[d] ELSE [dpu[d] EXCEPT !.since = "before"]
    BY Zenon, <2>4 DEF Rebased
  <2>6. dpu'[d] = dpu[d] \/ Compared(dpu[d], dpu'[d])
    BY ZenonT(40), <1>s, <2>5, ComparedRebase
  <2> QED
    BY Zenon, <2>2, <2>6 DEF Compared
<1>3. ~PatchCompletions /\ ~(PatchFails /\ pc = "complete")
  <2>1. SUFFICES ASSUME NEW some \in SUBSET Completions, Write(some), pc = "complete", pc' # "idle",
                        UNCHANGED <<life, spec, mem, raced>>
                 PROVE  FALSE
    <3>1. ASSUME PatchCompletions
          PROVE  /\ Write(Completions) /\ pc = "complete" /\ pc' # "idle" /\ UNCHANGED <<life, spec, mem, raced>>
      BY Zenon, <3>1 DEF PatchCompletions, faults
    <3>2. ASSUME PatchFails, pc = "complete"
          PROVE  /\ \E e \in Devices : Write({g \in Completions : g < e})
                 /\ pc' # "idle" /\ UNCHANGED <<life, spec, mem, raced>>
      <4>1. PICK e \in Devices : /\ Write({g \in Completions : g < e})
                                 /\ Race({g \in Starts : pc = "start" /\ g < e})
        BY Zenon, <3>2 DEF PatchFails
      <4>2. raced' = raced
        <5>1. {g \in Starts : pc = "start" /\ g < e} = {}
          BY Zenon, <3>2
        <5>2. raced \in BOOLEAN
          BY Zenon, Typed DEF IInv
        <5> QED
          BY ZenonT(40), <4>1, <5>1, <5>2 DEF Race
      <4> QED
        BY ZenonT(40), <3>2, <4>1, <4>2 DEF PatchFails, Forget
    <3>3. \A e \in Devices : {g \in Completions : g < e} \in SUBSET Completions
      BY Zenon
    <3> QED
      BY ZenonT(40), <3>1, <3>2, <3>3
  <2>2. /\ \A e \in Devices \ some : dpu'[e] = dpu[e]
        /\ \A e \in some : ~dpu'[e].inProgress
    BY Zenon, <2>1, CompletionsPatched
  <2> QED
    BY ZenonT(40), <1>0, <2>1, <2>2
<1>4. ASSUME NEW e \in Devices, HandleDPU(e) PROVE FALSE
  <2>1. PICK y \in St : dpu' = [dpu EXCEPT ![e] = y] /\ Evolve(dpu[e], y) /\ Old(dpu[e], y)
    BY Zenon, <1>4, HandleCases
  <2>2. Evolve(dpu[d], dpu'[d]) /\ life' = life
    BY ZenonT(40), <1>4, <2>1, PutFrame DEF HandleDPU
  <2> QED
    BY Zenon, <1>0, <2>2 DEF Evolve
<1>5. ASSUME NEW e \in Devices, Configure(e) PROVE FALSE
  <2>x. PICK x : x = dpu[e]
    OBVIOUS
  <2>y. PICK y : y = DPUConfig([x EXCEPT !.start = IF x.seen = 1 THEN 2 ELSE 1, !.method = "none"])
    OBVIOUS
  <2>1. x.phase = "DPU Config" /\ dpu' = [dpu EXCEPT ![e] = y] /\ life' = life /\ Sound(x)
    BY ZenonT(40), <1>5, <2>x, <2>y, Sounds DEF Configure, PutDPU
  <2>2. y \in St /\ Evolve(x, y) /\ Old(x, y)
    BY ZenonT(40), <2>1, <2>y, ConfigureEvolves
  <2>3. Evolve(dpu[d], dpu'[d])
    BY ZenonT(40), <2>x, <2>1, <2>2, PutFrame
  <2> QED
    BY ZenonT(40), <1>0, <2>1, <2>3 DEF Evolve
<1>6. ASSUME NEW e \in Devices, NodeNotReady(e) PROVE FALSE
  <2>x. PICK x : x = dpu[e]
    OBVIOUS
  <2>y. PICK y : y = Ready(x, FALSE, "no")
    BY ZenonT(40)
  <2>1. x.phase = "Ready" /\ ~JumpDue(x) /\ dpu' = [dpu EXCEPT ![e] = y] /\ life' = life /\ Sound(x)
    BY ZenonT(40), <1>6, <2>x, <2>y, Sounds DEF NodeNotReady, PutDPU
  <2>2. y \in St /\ Evolve(x, y) /\ Old(x, y)
    BY ZenonT(40), <2>1, <2>y, ReadyEvolves
  <2>3. Evolve(dpu[d], dpu'[d])
    BY ZenonT(40), <2>x, <2>1, <2>2, PutFrame
  <2> QED
    BY ZenonT(40), <1>0, <2>1, <2>3 DEF Evolve
<1>7. ASSUME NEW e \in Devices, Gone(e) PROVE FALSE
  <2>1. e # d /\ life' = [life EXCEPT ![e] = "none"] /\ dpu' = [dpu EXCEPT ![e] = NewStatus("Install")]
    BY ZenonT(40), <1>0, <1>7 DEF Gone
  <2>2. life'[d] = life[d] /\ dpu'[d] = dpu[d]
    BY ZenonT(40), <2>1, Typed DEF IInv
  <2> QED
    BY Zenon, <1>0, <2>2
<1>8. ~Tick
  <2>1. SUFFICES ASSUME Tick PROVE life' = life /\ dpu'[d].inProgress = dpu[d].inProgress
    BY Zenon, <1>0
  <2>2. PICK later : dpu'[d] = IF dpu[d].since = "now" THEN [dpu[d] EXCEPT !.since = later] ELSE dpu[d]
    BY Zenon, <2>1 DEF Tick
  <2>3. PICK x : x = dpu[d]
    OBVIOUS
  <2>4. [x EXCEPT !.since = later].inProgress = x.inProgress
    BY Zenon, <1>s, <2>3 DEF St, Status
  <2> QED
    BY SMTT(30), <2>1, <2>2, <2>3, <2>4 DEF Tick
<1>9. ~(UNCHANGED <<life, dpu>>)
  BY Zenon, <1>0
<1>10. /\ ~NoRound /\ ~PatchMetadata /\ ~PatchStatus /\ ~Crash
       /\ ~EditTemplate /\ ~EditFlavor /\ ~Annotate /\ ~Abort
  BY Zenon, <1>9 DEF NoRound, PatchMetadata, PatchStatus, Crash, EditTemplate, EditFlavor, Annotate, Abort, objects
<1>11. PatchFails => pc \in {"complete", "start"}
  BY Zenon DEF PatchFails
<1> QED
  BY ZenonT(40), <1>1, <1>2, <1>3, <1>4, <1>5, <1>6, <1>7, <1>8, <1>10, <1>11 DEF Next, Reconcile

(* Every step that takes a serving DPU leaves the budget kept.             *)
LEMMA BudgetStep ==
  ASSUME IInv, Lag = FALSE, [Next]_vars, ~raced', NEW d \in Devices, TakesOut(d)
  PROVE  Cardinality(Out') <= MaxSlots
<1>l. Listed = Current
  BY Zenon DEF Listed
<1>1. Next
  <2>1. ~(UNCHANGED <<life, dpu>>)
    BY Zenon DEF TakesOut
  <2> QED
    BY Zenon, <2>1 DEF vars, objects
<1>2. CASE Roll \/ RollFails
  <2>1. PICK gone \in Deletes(Current) : \E part \in SUBSET gone : Delete(part)
    BY Zenon, <1>l, <1>2 DEF Roll, RollFails
  <2>2. PICK part \in SUBSET gone : Delete(part)
    BY Zenon, <2>1
  <2>3. UNCHANGED dpu
    BY Zenon, <1>2 DEF Roll, RollFails
  <2> QED
    BY ZenonT(40), <2>2, <2>3, RollTakes
<1>3. CASE PatchStarts
  <2>1. pc = "start" /\ Write(Starts) /\ Race(Starts) /\ UNCHANGED <<life, spec>>
    BY Zenon, <1>3 DEF PatchStarts
  <2> QED
    BY Zenon, <2>1, MarkTakes
<1>4. CASE PatchFails /\ pc = "start"
  <2>1. PICK e \in Devices : Write({g \in Starts : g < e}) /\ Race({g \in Starts : pc = "start" /\ g < e})
    BY Zenon, <1>4 DEF PatchFails
  <2>2. PICK some : some = {g \in Starts : g < e}
    BY Zenon
  <2>3. {g \in Starts : pc = "start" /\ g < e} = some
    BY Zenon, <1>4, <2>2
  <2>4. some \in SUBSET Starts /\ Write(some) /\ Race(some)
    BY ZenonT(40), <2>1, <2>2, <2>3
  <2>5. UNCHANGED <<life, spec>>
    BY Zenon, <1>4 DEF PatchFails
  <2> QED
    BY ZenonT(40), <1>4, <2>4, <2>5, MarkTakes
<1> QED
  BY ZenonT(40), <1>1, <1>2, <1>3, <1>4, OthersTakeNone

(* Rolling update and round together never take more DPUs out of service   *)
(* than MaxUnavailableDPUNodes allows, for every number of DPUs and every  *)
(* value of it.                                                            *)
THEOREM BudgetHolds ==
  ASSUME Lag = FALSE
  PROVE  Spec => TakenWithinBudget
<1>1. IInv /\ [Next]_vars => [(~raced' /\ \E d \in Devices : TakesOut(d)) => Cardinality(Out') <= MaxSlots]_vars
  BY Zenon, BudgetStep
<1>2. Spec => []IInv
  BY Zenon, Invariance
<1> QED
  BY <1>1, <1>2, PTL DEF Spec, TakenWithinBudget
=============================================================================
