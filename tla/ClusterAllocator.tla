-------------------------- MODULE ClusterAllocator --------------------------
(***************************************************************************)
(* The allocator that assigns DPUs to DPUClusters, the part of the DPU     *)
(* controller that calls it, and the DPUCluster controller.                *)
(*                                                                         *)
(* The allocator counts the DPUs of a cluster in memory, since the         *)
(* informers lag behind.  Its mutex is held during every call, including   *)
(* the patch that assigns a DPU, so a call is one step.  A reconcile of a  *)
(* DPU makes one such call: SaveAssignedDPU does nothing for a DPU that    *)
(* has no cluster or is being deleted, and only those are allocated or     *)
(* released.                                                               *)
(*                                                                         *)
(* A DPU stands for one object with its UID.  A DPUCluster that is created *)
(* again under its name is the next generation of it.                      *)
(***************************************************************************)
EXTENDS Integers, FiniteSets

CONSTANTS DPUs, Names, None, MaxGen, MaxRestarts,
          Preassigned, \* DPUs that may be created with a cluster
          Stable,     \* clusters that are Ready from the start and stay so
          MaxNodes,   \* spec.maxNodes of each cluster
          Selects     \* the clusters that match the selector of each DPU

ASSUME AllocatorAssumption ==
  /\ IsFiniteSet(DPUs)
  /\ None \notin Names
  /\ Stable \subseteq Names /\ Preassigned \subseteq DPUs
  /\ MaxGen \in Nat \ {0} /\ MaxRestarts \in Nat
  /\ MaxNodes \in [Names -> Nat \ {0}]
  /\ Selects \in [DPUs -> SUBSET Names]

VARIABLES
  dpu, seen,       \* the DPUs in the API server, and in the informer
  cluster, cseen,  \* the same for the DPUClusters
  gens,            \* how often each DPUCluster has been created
  info, idx,       \* clusterInfoMap by name and generation, idxByName
  synced,          \* the allocator has listed what was assigned before
  pending,         \* the cluster a failed Allocate left in the DPU it was given
  going,           \* the DPUCluster being deleted by its controller, as it read it
  restarts,
  home,            \* history: the generation that Allocate reported for the DPU
  missed,          \* history: DPUs whose cluster went before the informer showed them there
  hasty            \* history: DPUs deleted before they had a finalizer

vars == <<dpu, seen, cluster, cseen, gens, info, idx, synced, pending, going,
          restarts, home, missed, hasty>>

Gens == 1..MaxGen

-----------------------------------------------------------------------------
(* Objects.                                                                *)
NoDPU ==
  [exists |-> FALSE, cluster |-> None, deleting |-> FALSE, finalizer |-> FALSE,
   phase |-> "Initializing"]

NoCluster == [gen |-> 0, deleting |-> FALSE, finalizer |-> FALSE, phase |-> "Pending"]

ReadyCluster == [gen |-> 1, deleting |-> FALSE, finalizer |-> TRUE, phase |-> "Ready"]

DPURecord ==
  [exists : BOOLEAN, cluster : Names \cup {None}, deleting : BOOLEAN, finalizer : BOOLEAN,
   phase : {"Initializing", "Later", "Deleting"}]

ClusterRecord ==
  [gen : 0..MaxGen, deleting : BOOLEAN, finalizer : BOOLEAN,
   phase : {"Pending", "Creating", "Ready", "NotReady"}]

ClusterInfo == [known : BOOLEAN, deleting : BOOLEAN, ready : BOOLEAN, dpus : SUBSET DPUs]

NoInfo == [known |-> FALSE, deleting |-> FALSE, ready |-> FALSE, dpus |-> {}]

newCache == [c \in Names |-> [g \in Gens |-> NoInfo]]

Init ==
  /\ dpu = [d \in DPUs |-> NoDPU] /\ seen = dpu
  /\ cluster = [c \in Names |-> IF c \in Stable THEN ReadyCluster ELSE NoCluster]
  /\ cseen = cluster
  /\ gens = [c \in Names |-> cluster[c].gen]
  /\ info = newCache /\ idx = [c \in Names |-> 0] /\ synced = FALSE
  /\ pending = [d \in DPUs |-> None]
  /\ going = [name |-> None, copy |-> NoCluster]
  /\ restarts = 0
  /\ home = [d \in DPUs |-> 0] /\ missed = {} /\ hasty = {}

-----------------------------------------------------------------------------
(* The cache of the allocator.                                             *)

(* Mutant: the phase of a known cluster is not refreshed.                  *)
SavedKeepsPhase(entry, copy) ==
  [known |-> TRUE, deleting |-> copy.deleting,
   ready |-> IF entry.known THEN entry.ready ELSE copy.phase = "Ready", dpus |-> entry.dpus]

(* The entry of a cluster after saveCluster: its DPUs stay.                *)
Saved(entry, copy) ==
  [known |-> TRUE, deleting |-> copy.deleting, ready |-> copy.phase = "Ready",
   dpus |-> entry.dpus]

saveCluster(c, copy) ==
  /\ info' = [info EXCEPT ![c][copy.gen] = Saved(@, copy)]
  /\ idx' = IF info[c][copy.gen].known THEN idx ELSE [idx EXCEPT ![c] = copy.gen]

removeCluster(c, g) ==
  /\ info' = [info EXCEPT ![c][g] = NoInfo]
  /\ idx' = [idx EXCEPT ![c] = 0]

(* Mutant: a DPU that is being deleted is counted again.                   *)
CountsDeleting(copy) == copy.exists /\ copy.cluster # None

(* saveDPU takes a DPU that has a cluster and is not being deleted.        *)
Counts(copy) == copy.exists /\ copy.cluster # None /\ ~copy.deleting

saveDPU(d, copy) ==
  info' = IF Counts(copy) /\ idx[copy.cluster] # 0
          THEN [info EXCEPT ![copy.cluster][idx[copy.cluster]].dpus = @ \cup {d}]
          ELSE info

(* ReleaseDPU finds the cluster by the name in the DPU.                    *)
ReleaseDPU(d, copy) ==
  info' = IF copy.cluster # None /\ idx[copy.cluster] # 0
          THEN [info EXCEPT ![copy.cluster][idx[copy.cluster]].dpus = @ \ {d}]
          ELSE info

(* syncAssignedDPUs: the clusters and then the DPUs of the informers.      *)
SyncedIdx ==
  [c \in Names |-> IF cseen[c].gen = 0 \/ info[c][cseen[c].gen].known
                   THEN idx[c] ELSE cseen[c].gen]

SyncedInfo ==
  [c \in Names |->
     [g \in Gens |->
        LET entry == IF g = cseen[c].gen THEN Saved(info[c][g], cseen[c]) ELSE info[c][g]
        IN  IF g = SyncedIdx[c]
            THEN [entry EXCEPT !.dpus = @ \cup {d \in DPUs : Counts(seen[d]) /\ seen[d].cluster = c}]
            ELSE entry]]

(* Mutant: one DPU more than the cluster may have.                         *)
RoomForOneMore(entry, c) ==
  entry.known /\ ~entry.deleting /\ entry.ready /\ Cardinality(entry.dpus) <= MaxNodes[c]

(* Mutant: a DPUCluster that is being deleted still takes DPUs.            *)
FeasibleDeleting(entry, c) ==
  entry.known /\ entry.ready /\ Cardinality(entry.dpus) < MaxNodes[c]

Feasible(entry, c) ==
  entry.known /\ ~entry.deleting /\ entry.ready /\ Cardinality(entry.dpus) < MaxNodes[c]

(* The feasible clusters with the highest ratio of DPUs to maxNodes; the   *)
(* order of a Go map decides between equal ones.                           *)
getFeasibleClusterBinPacking(d) ==
  LET feasible == {u \in Selects[d] \X Gens : Feasible(info[u[1]][u[2]], u[1])}
      count(u) == Cardinality(info[u[1]][u[2]].dpus)
  IN  {u \in feasible :
         \A v \in feasible : count(u) * MaxNodes[v[1]] >= count(v) * MaxNodes[u[1]]}

-----------------------------------------------------------------------------
(* The DPU controller.  A reconcile works on the copy of the informer; it  *)
(* starts when the deferred patch of the one before is done.               *)
Reconciles(d) == seen[d].exists /\ pending[d] = None

Objects  == <<cluster, cseen, gens>>
Cache    == <<info, idx, synced>>
History  == <<home, missed, hasty>>

AddFinalizer(d) ==
  /\ Reconciles(d) /\ ~seen[d].deleting /\ ~seen[d].finalizer
  /\ dpu[d].exists
  /\ dpu' = [dpu EXCEPT ![d].finalizer = TRUE]
  /\ UNCHANGED <<seen, Objects, Cache, pending, going, restarts, History>>

(* A DPU that has its cluster: SaveAssignedDPU, and in Initializing the    *)
(* check that the cluster exists.                                          *)
SaveAssignedDPU(d) ==
  /\ Reconciles(d) /\ ~seen[d].deleting /\ seen[d].finalizer /\ seen[d].cluster # None
  /\ saveDPU(d, seen[d])
  /\ LET c == cseen[seen[d].cluster]
     IN  \/ /\ seen[d].phase = "Initializing" /\ c.gen # 0 /\ ~c.deleting
            /\ dpu[d].exists
            /\ dpu' = [dpu EXCEPT ![d].phase = "Later"]
         \/ UNCHANGED dpu
  /\ UNCHANGED <<seen, Objects, idx, synced, pending, going, restarts, History>>

(* The patch of spec.cluster: the name is immutable once it is set.        *)
Assignable(d, c) == dpu[d].exists /\ dpu[d].cluster \in {None, c}

Unassigned(d) ==
  /\ Reconciles(d) /\ ~seen[d].deleting /\ seen[d].finalizer /\ seen[d].cluster = None
  /\ seen[d].phase = "Initializing"

(* The first Allocate of a process syncs before it goes on.  This is a     *)
(* step of its own, as if that call then ended with an error.              *)
syncAssignedDPUs(d) ==
  /\ Unassigned(d) /\ ~synced
  /\ info' = SyncedInfo /\ idx' = SyncedIdx /\ synced' = TRUE
  /\ UNCHANGED <<dpu, seen, Objects, pending, going, restarts, History>>

Allocate(d) ==
  /\ Unassigned(d) /\ synced
  /\ \E u \in getFeasibleClusterBinPacking(d) :
       /\ Assignable(d, u[1])
       /\ dpu' = [dpu EXCEPT ![d].cluster = u[1]]
       /\ info' = [info EXCEPT ![u[1]][u[2]].dpus = @ \cup {d}]
       /\ home' = [home EXCEPT ![d] = u[2]]
  /\ missed' = missed \ {d}
  /\ UNCHANGED <<seen, Objects, idx, synced, pending, going, restarts, hasty>>

(* The patch fails, whether or not the API server has applied it.  The DPU *)
(* is not counted, but the name of the cluster stays in the object that    *)
(* the deferred patch of the reconcile writes.                             *)
AllocateFails(d) ==
  /\ Unassigned(d) /\ synced
  /\ \E u \in getFeasibleClusterBinPacking(d) :
       /\ pending' = [pending EXCEPT ![d] = u[1]]
       /\ \/ UNCHANGED dpu
          \/ Assignable(d, u[1]) /\ dpu' = [dpu EXCEPT ![d].cluster = u[1]]
  /\ UNCHANGED <<seen, Objects, Cache, going, restarts, History>>

DeferredPatch(d) ==
  /\ pending[d] # None
  /\ \/ Assignable(d, pending[d]) /\ dpu' = [dpu EXCEPT ![d].cluster = pending[d]]
     \/ UNCHANGED dpu
  /\ pending' = [pending EXCEPT ![d] = None]
  /\ UNCHANGED <<seen, Objects, Cache, going, restarts, History>>

(* Every handler first sends a DPU that is being deleted to Deleting.      *)
ToDeleting(d) ==
  /\ Reconciles(d) /\ seen[d].deleting /\ seen[d].phase # "Deleting"
  /\ dpu[d].exists
  /\ dpu' = [dpu EXCEPT ![d].phase = "Deleting"]
  /\ UNCHANGED <<seen, Objects, Cache, pending, going, restarts, History>>

(* Deleting releases the DPU first; the rest may fail and is repeated.     *)
Deleting(d) ==
  /\ Reconciles(d) /\ seen[d].deleting /\ seen[d].phase = "Deleting"
  /\ ReleaseDPU(d, seen[d])
  /\ dpu' \in {dpu, [dpu EXCEPT ![d] = NoDPU]}
  /\ UNCHANGED <<seen, Objects, idx, synced, pending, going, restarts, History>>

-----------------------------------------------------------------------------
(* The DPUCluster controller; one reconcile at a time.                     *)

(* Mutant: a failed health check ends in a phase that nobody handles.      *)
NextPhasesFailed(phase) == {"Creating", "Ready", "Failed"}

(* The phase that follows from the conditions and the health check, which  *)
(* are inputs.                                                             *)
NextPhases(phase) ==
  CASE phase = "Pending"  -> {"Creating"}
    [] phase = "Creating" -> {"Creating", "Ready", "NotReady"}
    [] OTHER              -> {"Ready", "NotReady"}

(* A reconcile of a cluster that is not being deleted.  The finalizer and  *)
(* the status are updates, refused when the copy is out of date.           *)
ReconcileCluster(c) ==
  /\ going.name = None /\ cseen[c].gen # 0 /\ ~cseen[c].deleting
  /\ cseen[c].finalizer \/ cluster[c] = cseen[c]
  /\ saveCluster(c, cseen[c])
  /\ \/ /\ cluster[c] = cseen[c]
        /\ \E p \in NextPhases(cseen[c].phase) :
             /\ c \in Stable => p = "Ready"
             /\ cluster' = [cluster EXCEPT ![c].finalizer = TRUE, ![c].phase = p]
     \/ /\ cluster[c] = cseen[c]
        /\ cluster' = [cluster EXCEPT ![c].finalizer = TRUE]
     \/ cseen[c].finalizer /\ UNCHANGED cluster
  /\ UNCHANGED <<dpu, seen, cseen, gens, synced, pending, going, restarts, History>>

(* reconcileDelete, first part: from now on the cluster takes no DPU.      *)
SaveDeleting(c) ==
  /\ going.name = None /\ cseen[c].gen # 0 /\ cseen[c].deleting
  /\ saveCluster(c, cseen[c])
  /\ going' = [name |-> c, copy |-> cseen[c]]
  /\ UNCHANGED <<dpu, seen, Objects, synced, pending, restarts, History>>

DPUsOf(view, c) == {d \in DPUs : view[d].exists /\ view[d].cluster = c}

(* Mutant: all DPUs are counted.                                           *)
CountsAll(view, c) == {d \in DPUs : view[d].exists}

(* The DPUs that the list of reconcileDelete shows on the cluster.         *)
dpuCountOfCluster(view, c) == DPUsOf(view, c)

(* Second part: no DPU may be listed on the cluster.  It leaves the cache, *)
(* and then the API server if the update is accepted.                      *)
RemoveCluster ==
  /\ going.name # None
  /\ LET c == going.name
     IN  /\ dpuCountOfCluster(seen, c) = {}
         /\ removeCluster(c, going.copy.gen)
         /\ \/ /\ cluster[c] = going.copy
               /\ cluster' = [cluster EXCEPT ![c] = NoCluster]
               /\ missed' = missed \cup DPUsOf(dpu, c)
            \/ UNCHANGED <<cluster, missed>>
  /\ going' = [name |-> None, copy |-> NoCluster]
  /\ UNCHANGED <<dpu, seen, cseen, gens, synced, pending, restarts, home, hasty>>

(* There are still DPUs in the cluster, or a call fails.                   *)
RemovalFails ==
  /\ going.name # None
  /\ going' = [name |-> None, copy |-> NoCluster]
  /\ UNCHANGED <<dpu, seen, Objects, Cache, pending, restarts, History>>

-----------------------------------------------------------------------------
(* Informers, users and the process.                                       *)
DPUEvent(d) ==
  /\ seen[d] # dpu[d]
  /\ seen' = [seen EXCEPT ![d] = dpu[d]]
  /\ UNCHANGED <<dpu, Objects, Cache, pending, going, restarts, History>>

ClusterEvent(c) ==
  /\ cseen[c] # cluster[c]
  /\ cseen' = [cseen EXCEPT ![c] = cluster[c]]
  /\ UNCHANGED <<dpu, seen, cluster, gens, Cache, pending, going, restarts, History>>

(* A DPU is created, usually without a cluster.  Nothing remembers an      *)
(* earlier object that d stood for.                                        *)
CreateDPU(d) ==
  /\ ~dpu[d].exists /\ ~seen[d].exists /\ pending[d] = None
  /\ \A c \in Names, g \in Gens : d \notin info[c][g].dpus
  /\ \E c \in (IF d \in Preassigned THEN Selects[d] ELSE {}) \cup {None} :
       dpu' = [dpu EXCEPT ![d].exists = TRUE, ![d].cluster = c]
  /\ home' = [home EXCEPT ![d] = 0]
  /\ missed' = missed \ {d} /\ hasty' = hasty \ {d}
  /\ UNCHANGED <<seen, Objects, Cache, pending, going, restarts>>

DeleteDPU(d) ==
  /\ dpu[d].exists /\ ~dpu[d].deleting
  /\ dpu' = [dpu EXCEPT ![d] = IF @.finalizer THEN [@ EXCEPT !.deleting = TRUE] ELSE NoDPU]
  /\ hasty' = IF dpu[d].finalizer THEN hasty ELSE hasty \cup {d}
  /\ UNCHANGED <<seen, Objects, Cache, pending, going, restarts, home, missed>>

CreateCluster(c) ==
  /\ cluster[c].gen = 0 /\ gens[c] < MaxGen
  /\ gens' = [gens EXCEPT ![c] = @ + 1]
  /\ cluster' = [cluster EXCEPT ![c] = [NoCluster EXCEPT !.gen = gens[c] + 1]]
  /\ UNCHANGED <<dpu, seen, cseen, Cache, pending, going, restarts, History>>

DeleteCluster(c) ==
  /\ c \notin Stable /\ cluster[c].gen # 0 /\ ~cluster[c].deleting
  /\ cluster' = [cluster EXCEPT ![c] = IF @.finalizer THEN [@ EXCEPT !.deleting = TRUE] ELSE NoCluster]
  /\ UNCHANGED <<dpu, seen, cseen, gens, Cache, pending, going, restarts, History>>

(* The manager starts again, with nothing in memory and synced informers.  *)
Restart ==
  /\ restarts < MaxRestarts
  /\ restarts' = restarts + 1
  /\ info' = newCache /\ idx' = [c \in Names |-> 0] /\ synced' = FALSE
  /\ pending' = [d \in DPUs |-> None]
  /\ going' = [name |-> None, copy |-> NoCluster]
  /\ seen' = dpu /\ cseen' = cluster
  /\ UNCHANGED <<dpu, cluster, gens, History>>

ReconcileDPU(d) ==
  \/ AddFinalizer(d) \/ SaveAssignedDPU(d)
  \/ syncAssignedDPUs(d) \/ Allocate(d) \/ AllocateFails(d) \/ DeferredPatch(d)
  \/ ToDeleting(d) \/ Deleting(d)

Next ==
  \/ \E d \in DPUs : ReconcileDPU(d) \/ DPUEvent(d) \/ CreateDPU(d) \/ DeleteDPU(d)
  \/ \E c \in Names : \/ ReconcileCluster(c) \/ SaveDeleting(c) \/ ClusterEvent(c)
                      \/ CreateCluster(c) \/ DeleteCluster(c)
  \/ RemoveCluster \/ RemovalFails \/ Restart

(* Reconciles are repeated until they succeed: a DPU that is not Ready     *)
(* every five seconds, a cluster after an event or an error.  A call that  *)
(* is repeated for ever succeeds some time.  Nothing is assumed about the  *)
(* health of a cluster.                                                    *)
Fairness ==
  /\ \A d \in DPUs : /\ WF_vars(DPUEvent(d)) /\ WF_vars(AddFinalizer(d))
                     /\ WF_vars(DeferredPatch(d))
                     /\ SF_vars(syncAssignedDPUs(d) \/ Allocate(d))
  /\ \A c \in Names : /\ WF_vars(ClusterEvent(c))
                      /\ SF_vars((ReconcileCluster(c) /\ UNCHANGED cluster) \/ SaveDeleting(c))
                      /\ SF_vars(RemoveCluster /\ cluster'[c] # cluster[c])
  /\ WF_vars(RemoveCluster \/ RemovalFails)

Spec == Init /\ [][Next]_vars

FairSpec == Spec /\ Fairness

-----------------------------------------------------------------------------
(* Properties.                                                             *)

(* Every variable has its type.                                            *)
TypeOK ==
  /\ dpu \in [DPUs -> DPURecord] /\ seen \in [DPUs -> DPURecord]
  /\ cluster \in [Names -> ClusterRecord] /\ cseen \in [Names -> ClusterRecord]
  /\ gens \in [Names -> 0..MaxGen]
  /\ info \in [Names -> [Gens -> ClusterInfo]] /\ idx \in [Names -> 0..MaxGen]
  /\ synced \in BOOLEAN
  /\ pending \in [DPUs -> Names \cup {None}]
  /\ going \in [name : Names \cup {None}, copy : ClusterRecord]
  /\ restarts \in 0..MaxRestarts
  /\ home \in [DPUs -> 0..MaxGen] /\ missed \subseteq DPUs /\ hasty \subseteq DPUs

Live(d) == dpu[d].exists /\ ~dpu[d].deleting

AllocatedTo(c, g) == {d \in DPUs : Live(d) /\ dpu[d].cluster = c /\ home[d] = g}

(* No DPUCluster is given more DPUs than its maxNodes, whatever the        *)
(* informers show, across restarts, failed patches and DPUs that come with *)
(* a cluster of their own: Allocate counts all DPUs that it, or a process  *)
(* before it, has reported as allocated.                                   *)
Capacity ==
  \A c \in Names, g \in Gens :
    Cardinality(AllocatedTo(c, g)) <= MaxNodes[c]

(* The DPUCluster that Allocate reported for a DPU stays as long as the    *)
(* DPU, also when it is deleted at the same time: reconcileDelete closes   *)
(* the cluster in the allocator before it lists the DPUs.  Only a DPU that *)
(* its list does not show yet can lose its cluster.                        *)
AllocatedExists ==
  \A d \in DPUs :
    dpu[d].exists /\ home[d] # 0 /\ d \notin missed => cluster[dpu[d].cluster].gen = home[d]

(* A slot of a cluster is only held by a DPU that exists and belongs to    *)
(* it.  Deleting returns it before the finalizer goes, and no later pass   *)
(* over an old copy takes it again.  Excepted is a DPU that was deleted    *)
(* before it had a finalizer.                                              *)
NoSlotLost ==
  \A c \in Names, g \in Gens, d \in DPUs :
    d \in info[c][g].dpus /\ cluster[c].gen = g /\ idx[c] = g /\ d \notin hasty
      => dpu[d].exists /\ dpu[d].cluster = c

Room(d, c) ==
  /\ c \in Selects[d] /\ cluster[c].phase = "Ready" /\ ~cluster[c].deleting
  /\ Cardinality(DPUsOf(dpu, c) \cup hasty) < MaxNodes[c]

(* No DPU waits for ever for a cluster while one that it selects is Ready  *)
(* and has room.                                                           *)
RoomIsUsed ==
  \A d \in DPUs, c \in Names :
    ~<>[](Live(d) /\ dpu[d].cluster = None /\ Room(d, c))

(* A DPUCluster that is deleted goes once no DPU belongs to it.            *)
ClusterGoes ==
  \A c \in Names : ~<>[](cluster[c].deleting /\ DPUsOf(dpu, c) = {})
=============================================================================
