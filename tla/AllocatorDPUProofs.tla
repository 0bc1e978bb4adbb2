------------------------- MODULE AllocatorDPUProofs -------------------------
(***************************************************************************)
(* The inductive invariant of ClusterAllocator, the facts about its        *)
(* records and its cache that the proofs use, and the proof that the steps *)
(* of the DPU controller and of a DPU keep the invariant.                  *)
(***************************************************************************)
EXTENDS ClusterAllocator, FiniteSetTheorems, TLAPS

(* The DPUClusters and the copies of them that the informer and the        *)
(* controller have: an older copy of the same cluster is less advanced,    *)
(* and a cluster with a finalizer stays until it is seen to be deleted.    *)
ClusterOK(c) ==
  /\ cluster[c].gen \in {0, gens[c]} /\ cseen[c].gen <= gens[c]
  /\ cluster[c].gen = 0 => cluster[c] = NoCluster
  /\ cluster[c].phase = "Ready" => cluster[c].finalizer
  /\ cseen[c].phase = "Ready" => cseen[c].finalizer
  /\ cseen[c].gen # 0 /\ cseen[c].gen = cluster[c].gen
       => /\ cseen[c].deleting => cluster[c].deleting
          /\ cseen[c].finalizer => cluster[c].finalizer
  /\ cseen[c].gen # 0 /\ cseen[c].finalizer /\ ~cseen[c].deleting
       => cluster[c].gen = cseen[c].gen
  /\ going.name = c
       => /\ going.copy.deleting /\ going.copy.gen \in Gens /\ going.copy.gen <= gens[c]
          /\ cluster[c].gen = going.copy.gen => cluster[c].deleting
          /\ cseen[c].gen = going.copy.gen => cseen[c].deleting

ObjectInv == \A c \in Names : ClusterOK(c)

(* The entries of the cache: an entry is known to be deleted only if the   *)
(* cluster is, an open entry belongs to the present cluster, and before    *)
(* the allocator has synced the index points to it.                        *)
EntryOK(c, g) ==
  /\ ~info[c][g].known => info[c][g] = NoInfo
  /\ idx[c] = g => info[c][g].known
  /\ info[c][g].known
       => /\ g <= gens[c]
          /\ info[c][g].deleting /\ cluster[c].gen = g => cluster[c].deleting
          /\ info[c][g].deleting /\ cseen[c].gen = g => cseen[c].deleting
          /\ info[c][g].ready /\ ~info[c][g].deleting
               => cluster[c].gen = g /\ cluster[c].finalizer
          /\ cluster[c].gen = g => cseen[c].gen = g
          /\ ~synced /\ cluster[c].gen = g
               => idx[c] = g /\ (going.name = c => going.copy.gen = g)

CacheInv == \A c \in Names, g \in Gens : EntryOK(c, g)

(* The DPUs and the copies of them that the informer has.                  *)
DPUInv ==
  \A d \in DPUs :
    /\ seen[d].exists /\ dpu[d].exists
         => /\ seen[d].cluster # None => dpu[d].cluster = seen[d].cluster
            /\ seen[d].deleting => dpu[d].deleting
    /\ seen[d].exists /\ ~dpu[d].exists /\ d \notin hasty => seen[d].deleting

(* The cluster is not closed yet, or not everyone knows.                   *)
Openish(c, g) ==
  /\ cluster[c].gen = g
  /\ \/ ~cluster[c].deleting
     \/ cseen[c].gen = g /\ ~cseen[c].deleting
     \/ info[c][g].known /\ ~info[c][g].deleting

(* An allocated DPU: its cluster is there unless the list missed the DPU,  *)
(* and the DPU is counted, or will be found when the allocator syncs.      *)
At(d, c, g) ==
  /\ c \in Names /\ g <= gens[c]
  /\ d \notin missed => cluster[c].gen = g /\ cluster[c].finalizer
  /\ d \in missed => cluster[c].gen # g
  /\ cluster[c].gen = g => cseen[c].gen = g
  /\ ~synced /\ ~dpu[d].deleting => seen[d].exists /\ seen[d].cluster = c
  /\ synced /\ ~dpu[d].deleting /\ Openish(c, g) => d \in info[c][g].dpus

HomeInv ==
  \A d \in DPUs : dpu[d].exists /\ home[d] # 0 => At(d, dpu[d].cluster, home[d])

(* A DPU that holds a slot is on the cluster, and the informer shows it    *)
(* there by the time it shows the deletion.                                *)
SlotInv ==
  \A c \in Names, g \in Gens, d \in DPUs :
    d \in info[c][g].dpus /\ cluster[c].gen = g /\ idx[c] = g /\ d \notin hasty
      => /\ dpu[d].exists /\ dpu[d].cluster = c
         /\ seen[d].exists /\ seen[d].deleting => seen[d].cluster = c

IInv == TypeOK /\ ObjectInv /\ CacheInv /\ DPUInv /\ HomeInv /\ SlotInv /\ Capacity

-----------------------------------------------------------------------------
(* Facts about the records and the cache.                                  *)

(* The updates of a record that the actions make keep its type.            *)
LEMMA RecordTypes ==
  /\ NoDPU \in DPURecord /\ NoCluster \in ClusterRecord /\ NoInfo \in ClusterInfo
  /\ \A r \in DPURecord :
       /\ [r EXCEPT !.finalizer = TRUE] \in DPURecord
       /\ [r EXCEPT !.deleting = TRUE] \in DPURecord
       /\ [r EXCEPT !.phase = "Later"] \in DPURecord
       /\ [r EXCEPT !.phase = "Deleting"] \in DPURecord
       /\ \A c \in Names : [r EXCEPT !.cluster = c] \in DPURecord
  /\ \A r \in ClusterRecord :
       /\ [r EXCEPT !.deleting = TRUE] \in ClusterRecord
       /\ [r EXCEPT !.finalizer = TRUE] \in ClusterRecord
       /\ \A p \in {"Creating", "Ready", "NotReady"} :
            [r EXCEPT !.finalizer = TRUE, !.phase = p] \in ClusterRecord
  /\ \A r \in ClusterInfo, x \in DPUs :
       /\ [r EXCEPT !.dpus = @ \cup {x}] \in ClusterInfo
       /\ [r EXCEPT !.dpus = @ \ {x}] \in ClusterInfo
  /\ \A r \in ClusterInfo, copy \in ClusterRecord : Saved(r, copy) \in ClusterInfo
<1>1. NoDPU \in DPURecord /\ NoCluster \in ClusterRecord /\ NoInfo \in ClusterInfo
  BY AllocatorAssumption DEF NoDPU, DPURecord, NoCluster, ClusterRecord, NoInfo, ClusterInfo
<1>2. ASSUME NEW r \in DPURecord
      PROVE  /\ [r EXCEPT !.finalizer = TRUE] \in DPURecord
             /\ [r EXCEPT !.deleting = TRUE] \in DPURecord
             /\ [r EXCEPT !.phase = "Later"] \in DPURecord
             /\ [r EXCEPT !.phase = "Deleting"] \in DPURecord
             /\ \A c \in Names : [r EXCEPT !.cluster = c] \in DPURecord
  BY Zenon DEF DPURecord
<1>3. ASSUME NEW r \in ClusterRecord
      PROVE  /\ [r EXCEPT !.deleting = TRUE] \in ClusterRecord
             /\ [r EXCEPT !.finalizer = TRUE] \in ClusterRecord
             /\ \A p \in {"Creating", "Ready", "NotReady"} :
                  [r EXCEPT !.finalizer = TRUE, !.phase = p] \in ClusterRecord
  BY Zenon DEF ClusterRecord
<1>4. ASSUME NEW r \in ClusterInfo, NEW x \in DPUs
      PROVE  /\ [r EXCEPT !.dpus = @ \cup {x}] \in ClusterInfo
             /\ [r EXCEPT !.dpus = @ \ {x}] \in ClusterInfo
  BY Zenon DEF ClusterInfo
<1>5. ASSUME NEW r \in ClusterInfo, NEW copy \in ClusterRecord
      PROVE  Saved(r, copy) \in ClusterInfo
  BY Zenon DEF ClusterInfo, ClusterRecord, Saved
<1> QED
  BY Zenon, <1>1, <1>2, <1>3, <1>4, <1>5

(* The generations are the positive numbers up to MaxGen.                  *)
LEMMA GenNumbers ==
  /\ \A g \in Gens : g \in Nat /\ g # 0 /\ g \in 0 .. MaxGen
  /\ \A g \in 0 .. MaxGen : g \in Nat /\ 0 <= g /\ (g # 0 => g \in Gens)
  /\ 0 \in 0 .. MaxGen
BY AllocatorAssumption DEF Gens

(* The generations that the objects and their copies have.                 *)
LEMMA CopyGens ==
  ASSUME TypeOK
  PROVE  /\ going.copy.gen \in 0 .. MaxGen
         /\ \A k \in Names : /\ cluster[k].gen \in 0 .. MaxGen /\ cseen[k].gen \in 0 .. MaxGen
                             /\ gens[k] \in 0 .. MaxGen
BY Zenon DEF TypeOK, ClusterRecord

(* A DPUCluster is not younger than the last one created with its name.    *)
LEMMA ClusterGen ==
  ASSUME TypeOK, NEW k \in Names, ClusterOK(k)
  PROVE  cluster[k].gen <= gens[k]
<1>1. cluster[k].gen \in {0, gens[k]}
  BY Zenon DEF ClusterOK
<1>2. gens[k] \in Nat
  BY Zenon, CopyGens, GenNumbers
<1> QED
  BY <1>1, <1>2

(* What is known of an allocated DPU.                                      *)
LEMMA HomeFacts ==
  ASSUME TypeOK, HomeInv, NEW x \in DPUs, dpu[x].exists, home[x] # 0
  PROVE  /\ At(x, dpu[x].cluster, home[x])
         /\ dpu[x].cluster \in Names /\ home[x] \in Gens
<1>1. At(x, dpu[x].cluster, home[x])
  BY Zenon DEF HomeInv
<1>2. home[x] \in Gens
  BY Zenon, GenNumbers DEF TypeOK
<1> QED
  BY Zenon, <1>1, <1>2 DEF At

(* What is known of a DPU that holds a slot.                               *)
LEMMA SlotFacts ==
  ASSUME SlotInv, NEW k \in Names, NEW g \in Gens, NEW x \in DPUs, x \in info[k][g].dpus,
         cluster[k].gen = g, idx[k] = g, x \notin hasty
  PROVE  /\ dpu[x].exists /\ dpu[x].cluster = k
         /\ seen[x].exists /\ seen[x].deleting => seen[x].cluster = k
BY DEF SlotInv

Entries == [Names -> [Gens -> ClusterInfo]]

(* The entry (k, g) of the cache changes in nothing but the DPUs it counts. *)
SameEntry(k, g) ==
  /\ info'[k][g].known = info[k][g].known
  /\ info'[k][g].deleting = info[k][g].deleting
  /\ info'[k][g].ready = info[k][g].ready

(* An entry of the cache gets another set of DPUs.                         *)
LEMMA CountedDPUs ==
  ASSUME info \in Entries, NEW c \in Names, NEW h \in Gens, NEW S \in SUBSET DPUs,
         info' = [info EXCEPT ![c][h].dpus = S]
  PROVE  /\ info' \in Entries
         /\ \A k \in Names, g \in Gens :
              /\ SameEntry(k, g)
              /\ info'[k][g].dpus = IF k = c /\ g = h THEN S ELSE info[k][g].dpus
              /\ ~(k = c /\ g = h) => info'[k][g] = info[k][g]
<1> DEFINE r == [info[c][h] EXCEPT !.dpus = S]
           q == [info[c] EXCEPT ![h] = r]
<1>1. info' = [info EXCEPT ![c] = q]
  OBVIOUS
<1>2. info[c] \in [Gens -> ClusterInfo] /\ info[c][h] \in ClusterInfo
  BY Zenon DEF Entries
<1>3. r \in ClusterInfo /\ r.known = info[c][h].known /\ r.deleting = info[c][h].deleting
      /\ r.ready = info[c][h].ready /\ r.dpus = S
  BY Zenon, <1>2 DEF ClusterInfo
<1> HIDE DEF r
<1>4. q \in [Gens -> ClusterInfo] /\ \A g \in Gens : q[g] = IF g = h THEN r ELSE info[c][g]
  BY Zenon, <1>2, <1>3
<1> HIDE DEF q
<1>5. info' \in Entries /\ \A k \in Names : info'[k] = IF k = c THEN q ELSE info[k]
  BY Zenon, <1>1, <1>4 DEF Entries
<1> QED
  BY <1>3, <1>4, <1>5 DEF SameEntry

(* An entry of the cache is replaced.                                      *)
LEMMA ReplacedEntry ==
  ASSUME info \in Entries, NEW c \in Names, NEW h \in Gens, NEW r \in ClusterInfo,
         info' = [info EXCEPT ![c][h] = r]
  PROVE  /\ info' \in Entries
         /\ \A k \in Names, g \in Gens : info'[k][g] = IF k = c /\ g = h THEN r ELSE info[k][g]
<1> DEFINE q == [info[c] EXCEPT ![h] = r]
<1>1. info' = [info EXCEPT ![c] = q]
  OBVIOUS
<1>2. q \in [Gens -> ClusterInfo] /\ \A g \in Gens : q[g] = IF g = h THEN r ELSE info[c][g]
  BY Zenon DEF Entries
<1> HIDE DEF q
<1>3. info' \in Entries /\ \A k \in Names : info'[k] = IF k = c THEN q ELSE info[k]
  BY Zenon, <1>1, <1>2 DEF Entries
<1> QED
  BY <1>2, <1>3

(* A cluster with fewer allocated DPUs than before is still within         *)
(* maxNodes.                                                               *)
LEMMA CapacityShrinks ==
  ASSUME Capacity,
         \A c \in Names, g \in Gens : AllocatedTo(c, g)' \subseteq AllocatedTo(c, g)
  PROVE  Capacity'
<1> SUFFICES ASSUME NEW c \in Names, NEW g \in Gens
             PROVE  Cardinality(AllocatedTo(c, g)') <= MaxNodes[c]
  BY Zenon DEF Capacity
<1>1. IsFiniteSet(AllocatedTo(c, g))
  BY Zenon, FS_Subset, AllocatorAssumption DEF AllocatedTo
<1>2. Cardinality(AllocatedTo(c, g)') <= Cardinality(AllocatedTo(c, g))
  BY Zenon, <1>1, FS_Subset
<1> QED
  BY <1>1, <1>2, FS_CardinalityType, FS_Subset, AllocatorAssumption DEF Capacity

-----------------------------------------------------------------------------
(* The steps of the DPU controller and of a DPU.                           *)

(* What a reconcile or the deletion of a DPU may do to a DPU x: it keeps   *)
(* its cluster, and it goes only if the informer has shown its deletion    *)
(* or it had no finalizer.                                                 *)
DPUAdvances(x) ==
  /\ dpu'[x].exists
       => /\ dpu[x].exists
          /\ dpu[x].cluster # None => dpu'[x].cluster = dpu[x].cluster
          /\ dpu[x].deleting => dpu'[x].deleting
  /\ dpu[x].exists /\ ~dpu'[x].exists => seen[x].deleting \/ x \in hasty'

(* The steps of a DPU that do not allocate keep everything but SlotInv,    *)
(* which is about the step, if they release only DPUs that are deleted.    *)
LEMMA DPUStep ==
  ASSUME IInv,
         dpu' \in [DPUs -> DPURecord], info' \in Entries,
         pending' \in [DPUs -> Names \cup {None}], hasty' \subseteq DPUs,
         hasty \subseteq hasty',
         UNCHANGED <<seen, cluster, cseen, gens, idx, synced, going, restarts, home, missed>>,
         \A x \in DPUs : DPUAdvances(x),
         \A k \in Names, g \in Gens :
           /\ SameEntry(k, g)
           /\ ~info[k][g].known => info'[k][g] = info[k][g]
           /\ \A x \in info[k][g].dpus \ info'[k][g].dpus : ~dpu'[x].exists \/ dpu'[x].deleting,
         SlotInv'
  PROVE  IInv'
<1> USE DEF IInv
<1>1. TypeOK'
  BY Zenon DEF TypeOK, Entries
<1>2. ObjectInv'
  BY Zenon DEF ObjectInv, ClusterOK
<1>3. CacheInv'
  BY DEF CacheInv, EntryOK, SameEntry
<1>4. DPUInv'
  <2> SUFFICES ASSUME NEW x \in DPUs, seen[x].exists
               PROVE  /\ dpu'[x].exists => /\ seen[x].cluster # None => dpu'[x].cluster = seen[x].cluster
                                           /\ seen[x].deleting => dpu'[x].deleting
                      /\ ~dpu'[x].exists /\ x \notin hasty' => seen[x].deleting
    BY Zenon DEF DPUInv
  <2> QED
    BY Zenon DEF DPUInv, DPUAdvances
<1>5. HomeInv'
  <2> SUFFICES ASSUME NEW x \in DPUs, NEW k, NEW g, k = dpu'[x].cluster, g = home[x],
                      dpu'[x].exists, g # 0
               PROVE  At(x, k, g)'
    BY Zenon DEF HomeInv
  <2>1. dpu[x].exists /\ k = dpu[x].cluster /\ k \in Names
    BY Zenon, AllocatorAssumption DEF DPUAdvances, HomeInv, At
  <2>2. dpu[x].deleting => dpu'[x].deleting
    BY Zenon DEF DPUAdvances
  <2>3. g \in Gens
    BY Zenon, GenNumbers DEF TypeOK
  <2>4. Openish(k, g)' => Openish(k, g)
    BY ZenonT(90), <2>1, <2>3 DEF Openish, SameEntry
  <2>5. At(x, k, g)
    BY Zenon, <2>1 DEF HomeInv
  <2> QED
    BY Zenon, <2>1, <2>2, <2>3, <2>4, <2>5 DEF At
<1>6. Capacity'
  <2>1. \A k \in Names, g \in Gens : AllocatedTo(k, g)' \subseteq AllocatedTo(k, g)
    BY AllocatorAssumption DEF AllocatedTo, Live, DPUAdvances, HomeInv, At, Gens
  <2> QED
    BY Zenon, <2>1, CapacityShrinks
<1> QED
  BY Zenon, <1>1, <1>2, <1>3, <1>4, <1>5, <1>6

(* The finalizer changes nothing that the invariant mentions.              *)
LEMMA AddFinalizerStep ==
  ASSUME IInv, NEW d \in DPUs, AddFinalizer(d)
  PROVE  IInv'
<1> USE DEF IInv
<1>1. dpu' \in [DPUs -> DPURecord]
  <2>1. [dpu[d] EXCEPT !.finalizer = TRUE] \in DPURecord
    BY Zenon, RecordTypes DEF TypeOK
  <2> QED
    BY Zenon, <2>1 DEF AddFinalizer, TypeOK
<1>2. \A x \in DPUs : dpu'[x].exists = dpu[x].exists /\ dpu'[x].cluster = dpu[x].cluster
                      /\ dpu'[x].deleting = dpu[x].deleting
  BY DEF AddFinalizer, TypeOK, DPURecord
<1>3. UNCHANGED <<seen, cluster, cseen, gens, info, idx, synced, pending, going, restarts, home, missed, hasty>>
  BY Zenon DEF AddFinalizer, Objects, Cache, History
<1>4. SlotInv'
  BY <1>2, <1>3 DEF SlotInv
<1>5. \A x \in DPUs : DPUAdvances(x)
  BY Zenon, <1>2, <1>3 DEF DPUAdvances
<1> QED
  BY Zenon, <1>1, <1>3, <1>4, <1>5, DPUStep DEF SameEntry, TypeOK, Entries

(* Neither does the phase of a DPU that is being deleted.                  *)
LEMMA ToDeletingStep ==
  ASSUME IInv, NEW d \in DPUs, ToDeleting(d)
  PROVE  IInv'
<1> USE DEF IInv
<1>1. dpu' \in [DPUs -> DPURecord]
  <2>1. [dpu[d] EXCEPT !.phase = "Deleting"] \in DPURecord
    BY Zenon, RecordTypes DEF TypeOK
  <2> QED
    BY Zenon, <2>1 DEF ToDeleting, TypeOK
<1>2. \A x \in DPUs : dpu'[x].exists = dpu[x].exists /\ dpu'[x].cluster = dpu[x].cluster
                      /\ dpu'[x].deleting = dpu[x].deleting
  BY DEF ToDeleting, TypeOK, DPURecord
<1>3. UNCHANGED <<seen, cluster, cseen, gens, info, idx, synced, pending, going, restarts, home, missed, hasty>>
  BY Zenon DEF ToDeleting, Objects, Cache, History
<1>4. SlotInv'
  BY <1>2, <1>3 DEF SlotInv
<1>5. \A x \in DPUs : DPUAdvances(x)
  BY Zenon, <1>2, <1>3 DEF DPUAdvances
<1> QED
  BY Zenon, <1>1, <1>3, <1>4, <1>5, DPUStep DEF SameEntry, TypeOK, Entries

(* A patch of spec.cluster that is not reported as an allocation.          *)
LEMMA AssignStep ==
  ASSUME IInv, NEW d \in DPUs, NEW c \in Names,
         \/ UNCHANGED dpu
         \/ Assignable(d, c) /\ dpu' = [dpu EXCEPT ![d].cluster = c],
         pending' \in [DPUs -> Names \cup {None}],
         UNCHANGED <<seen, cluster, cseen, gens, info, idx, synced, going, restarts, home, missed, hasty>>
  PROVE  IInv'
<1> USE DEF IInv
<1>1. dpu' \in [DPUs -> DPURecord]
  <2>1. [dpu[d] EXCEPT !.cluster = c] \in DPURecord
    BY Zenon, RecordTypes DEF TypeOK
  <2> QED
    BY Zenon, <2>1 DEF TypeOK
<1>2. \A x \in DPUs : dpu'[x].exists = dpu[x].exists /\ dpu'[x].deleting = dpu[x].deleting
                      /\ (dpu[x].cluster # None => dpu'[x].cluster = dpu[x].cluster)
  <2>1. CASE UNCHANGED dpu
    BY Zenon, <2>1
  <2>2. CASE Assignable(d, c) /\ dpu' = [dpu EXCEPT ![d].cluster = c]
    <3> DEFINE r == [dpu[d] EXCEPT !.cluster = c]
    <3>1. dpu[d] \in DPURecord
      BY Zenon DEF TypeOK
    <3>2. r.exists = dpu[d].exists /\ r.deleting = dpu[d].deleting /\ r.cluster = c
      BY Zenon, <3>1 DEF DPURecord
    <3>3. \A x \in DPUs : dpu'[x] = IF x = d THEN r ELSE dpu[x]
      BY Zenon, <2>2 DEF TypeOK
    <3> HIDE DEF r
    <3> QED
      BY Zenon, <2>2, <3>2, <3>3 DEF Assignable
  <2> QED
    BY Zenon, <2>1, <2>2
<1>3. SlotInv'
  BY <1>2, AllocatorAssumption DEF SlotInv
<1>4. \A x \in DPUs : DPUAdvances(x)
  BY Zenon, <1>2 DEF DPUAdvances
<1> QED
  BY Zenon, <1>1, <1>3, <1>4, DPUStep DEF SameEntry, TypeOK, Entries

(* A patch of Allocate that fails, applied or not.                         *)
LEMMA AllocateFailsStep ==
  ASSUME IInv, NEW d \in DPUs, AllocateFails(d)
  PROVE  IInv'
<1>1. PICK u \in getFeasibleClusterBinPacking(d) :
        /\ pending' = [pending EXCEPT ![d] = u[1]]
        /\ \/ UNCHANGED dpu
           \/ Assignable(d, u[1]) /\ dpu' = [dpu EXCEPT ![d].cluster = u[1]]
  BY Zenon DEF AllocateFails
<1>2. u[1] \in Names
  BY Zenon, AllocatorAssumption DEF getFeasibleClusterBinPacking
<1>3. pending' \in [DPUs -> Names \cup {None}]
  BY Zenon, <1>1, <1>2 DEF IInv, TypeOK
<1> QED
  BY Zenon, <1>1, <1>2, <1>3, AssignStep DEF AllocateFails, Objects, Cache, History

(* The deferred patch after a failed Allocate.                             *)
LEMMA DeferredPatchStep ==
  ASSUME IInv, NEW d \in DPUs, DeferredPatch(d)
  PROVE  IInv'
<1>1. pending[d] \in Names
  BY Zenon DEF DeferredPatch, IInv, TypeOK
<1>2. pending' \in [DPUs -> Names \cup {None}]
  BY Zenon DEF DeferredPatch, IInv, TypeOK
<1> QED
  BY Zenon, <1>1, <1>2, AssignStep DEF DeferredPatch, Objects, Cache, History

(* SaveAssignedDPU counts a DPU on the cluster that the informer shows.    *)
LEMMA SaveAssignedDPUStep ==
  ASSUME IInv, NEW d \in DPUs, SaveAssignedDPU(d)
  PROVE  IInv'
<1> DEFINE c == seen[d].cluster
<1> USE DEF IInv
<1>0. c \in Names /\ seen[d].exists /\ ~seen[d].deleting
  BY Zenon DEF SaveAssignedDPU, Reconciles, TypeOK, DPURecord
<1>1. dpu' \in [DPUs -> DPURecord]
  <2>1. [dpu[d] EXCEPT !.phase = "Later"] \in DPURecord
    BY Zenon, RecordTypes DEF TypeOK
  <2> QED
    BY Zenon, <2>1 DEF SaveAssignedDPU, TypeOK
<1>2. \A x \in DPUs : dpu'[x].exists = dpu[x].exists /\ dpu'[x].cluster = dpu[x].cluster
                      /\ dpu'[x].deleting = dpu[x].deleting
  <2>1. dpu' = dpu \/ dpu' = [dpu EXCEPT ![d].phase = "Later"]
    BY Zenon DEF SaveAssignedDPU
  <2>2. CASE dpu' = [dpu EXCEPT ![d].phase = "Later"]
    BY <2>2 DEF TypeOK, DPURecord
  <2> QED
    BY Zenon, <2>1, <2>2
<1>3. UNCHANGED <<seen, cluster, cseen, gens, idx, synced, pending, going, restarts, home, missed, hasty>>
  BY Zenon DEF SaveAssignedDPU, Objects, History
<1>4. info' = IF idx[c] # 0
              THEN [info EXCEPT ![c][idx[c]].dpus = @ \cup {d}] ELSE info
  BY Zenon, <1>0, AllocatorAssumption DEF SaveAssignedDPU, saveDPU, Counts
<1>5. info' \in Entries /\ \A k \in Names, g \in Gens :
        /\ SameEntry(k, g)
        /\ info'[k][g].dpus = IF k = c /\ g = idx[c] THEN info[k][g].dpus \cup {d} ELSE info[k][g].dpus
        /\ ~(k = c /\ g = idx[c]) => info'[k][g] = info[k][g]
  <2>0. info \in Entries
    BY Zenon DEF TypeOK, Entries
  <2>1. CASE ~(idx[c] # 0)
    BY <2>0, <2>1, <1>4, AllocatorAssumption DEF SameEntry, Gens
  <2>2. CASE idx[c] # 0
    <3>1. c \in Names /\ idx[c] \in Gens
      BY <2>2, <1>0 DEF TypeOK, Gens
    <3> DEFINE h == idx[c]
               S == info[c][h].dpus \cup {d}
    <3>2. S \in SUBSET DPUs
      BY SMTT(30), <3>1, <2>0 DEF Entries, ClusterInfo
    <3>3. info' = [info EXCEPT ![c][h].dpus = S]
      BY Zenon, <1>4, <2>2
    <3>4. info' \in Entries /\ \A k \in Names, g \in Gens :
            /\ SameEntry(k, g)
            /\ info'[k][g].dpus = IF k = c /\ g = h THEN S ELSE info[k][g].dpus
            /\ ~(k = c /\ g = h) => info'[k][g] = info[k][g]
      <4> HIDE DEF S, h, c
      <4> QED
        BY ZenonT(90), <3>1, <3>2, <3>3, <2>0, CountedDPUs DEF h
    <3> QED
      BY ZenonT(40), <3>4
  <2> QED
    BY Zenon, <2>1, <2>2
<1>6. SlotInv'
  <2> SUFFICES ASSUME NEW k \in Names, NEW g \in Gens, NEW x \in DPUs, x \in info'[k][g].dpus,
                      cluster[k].gen = g, idx[k] = g, x \notin hasty
               PROVE  /\ dpu'[x].exists /\ dpu'[x].cluster = k
                      /\ seen[x].exists /\ seen[x].deleting => seen[x].cluster = k
    BY <1>3 DEF SlotInv
  <2>1. d \notin hasty => dpu[d].exists /\ dpu[d].cluster = c
    BY Zenon, <1>0, AllocatorAssumption DEF DPUInv
  <2>2. x \in info[k][g].dpus \/ (x = d /\ k = c)
    <3>1. CASE k = c /\ g = idx[c]
      BY ZenonT(90), <1>5, <3>1
    <3>2. CASE ~(k = c /\ g = idx[c])
      BY Zenon, <1>5, <3>2
    <3> QED
      BY Zenon, <3>1, <3>2
  <2> QED
    BY <1>0, <1>2, <2>1, <2>2 DEF SlotInv
<1>7. \A x \in DPUs : DPUAdvances(x)
  BY Zenon, <1>2, <1>3 DEF DPUAdvances
<1>8. \A k \in Names, g \in Gens :
        /\ SameEntry(k, g)
        /\ ~info[k][g].known => info'[k][g] = info[k][g]
        /\ \A x \in info[k][g].dpus \ info'[k][g].dpus : ~dpu'[x].exists \/ dpu'[x].deleting
  <2>1. \A k \in Names, g \in Gens : idx[k] = g => info[k][g].known
    BY Zenon DEF CacheInv, EntryOK
  <2> SUFFICES ASSUME NEW k \in Names, NEW g \in Gens
               PROVE  /\ SameEntry(k, g)
                      /\ ~info[k][g].known => info'[k][g] = info[k][g]
                      /\ \A x \in info[k][g].dpus \ info'[k][g].dpus :
                           ~dpu'[x].exists \/ dpu'[x].deleting
    OBVIOUS
  <2> HIDE DEF c
  <2>3. CASE k = c /\ g = idx[c]
    BY ZenonT(40), <1>5, <2>1, <2>3
  <2>4. CASE ~(k = c /\ g = idx[c])
    BY Zenon, <1>5, <2>4
  <2> QED
    BY Zenon, <2>3, <2>4
<1>9. pending' \in [DPUs -> Names \cup {None}] /\ hasty' \subseteq DPUs /\ hasty \subseteq hasty'
  BY Zenon, <1>3 DEF TypeOK
<1> HIDE DEF c
<1> QED
  BY Zenon, <1>1, <1>3, <1>5, <1>6, <1>7, <1>8, <1>9, DPUStep

(* Deleting returns the slot before the finalizer goes.                    *)
LEMMA DeletingStep ==
  ASSUME IInv, NEW d \in DPUs, Deleting(d)
  PROVE  IInv'
<1> DEFINE c == seen[d].cluster
<1> USE DEF IInv
<1>0. c \in Names \cup {None} /\ seen[d].exists /\ seen[d].deleting
  BY Zenon DEF Deleting, Reconciles, TypeOK, DPURecord
<1>1. dpu' \in [DPUs -> DPURecord]
  <2>1. NoDPU \in DPURecord
    BY Zenon DEF NoDPU, DPURecord
  <2> QED
    BY Zenon, <2>1 DEF Deleting, TypeOK
<1>2. \A x \in DPUs : dpu'[x] = dpu[x] \/ (x = d /\ ~dpu'[x].exists)
  BY DEF Deleting, TypeOK, NoDPU
<1>3. UNCHANGED <<seen, cluster, cseen, gens, idx, synced, pending, going, restarts, home, missed, hasty>>
  BY Zenon DEF Deleting, Objects, History
<1>4. info' = IF c # None /\ idx[c] # 0
              THEN [info EXCEPT ![c][idx[c]].dpus = @ \ {d}] ELSE info
  BY Zenon DEF Deleting, ReleaseDPU
<1>5. info' \in Entries /\ \A k \in Names, g \in Gens :
        /\ SameEntry(k, g)
        /\ info'[k][g].dpus = IF k = c /\ g = idx[c] THEN info[k][g].dpus \ {d} ELSE info[k][g].dpus
        /\ ~(k = c /\ g = idx[c]) => info'[k][g] = info[k][g]
  <2>0. info \in Entries
    BY Zenon DEF TypeOK, Entries
  <2>1. CASE ~(c # None /\ idx[c] # 0)
    <3>1. \A k \in Names, g \in Gens : ~(k = c /\ g = idx[c])
      BY <2>1, AllocatorAssumption DEF Gens
    <3>2. info' = info
      BY Zenon, <2>1, <1>4
    <3> QED
      BY Zenon, <2>0, <3>1, <3>2 DEF SameEntry
  <2>2. CASE c # None /\ idx[c] # 0
    <3>1. c \in Names /\ idx[c] \in Gens
      BY <2>2, <1>0 DEF TypeOK, Gens
    <3> DEFINE h == idx[c]
               S == info[c][h].dpus \ {d}
    <3>2. S \in SUBSET DPUs
      BY SMTT(30), <3>1, <2>0 DEF Entries, ClusterInfo
    <3>3. info' = [info EXCEPT ![c][h].dpus = S]
      BY Zenon, <1>4, <2>2
    <3>4. info' \in Entries /\ \A k \in Names, g \in Gens :
            /\ SameEntry(k, g)
            /\ info'[k][g].dpus = IF k = c /\ g = h THEN S ELSE info[k][g].dpus
            /\ ~(k = c /\ g = h) => info'[k][g] = info[k][g]
      <4> HIDE DEF S, h, c
      <4> QED
        BY Zenon, <3>1, <3>2, <3>3, <2>0, CountedDPUs DEF h
    <3> QED
      BY ZenonT(40), <3>4
  <2> QED
    BY Zenon, <2>1, <2>2
<1>6. SlotInv'
  <2> SUFFICES ASSUME NEW k \in Names, NEW g \in Gens, NEW x \in DPUs, x \in info'[k][g].dpus,
                      cluster[k].gen = g, idx[k] = g, x \notin hasty
               PROVE  /\ dpu'[x].exists /\ dpu'[x].cluster = k
                      /\ seen[x].exists /\ seen[x].deleting => seen[x].cluster = k
    BY <1>3 DEF SlotInv
  <2>1. x \in info[k][g].dpus /\ ~(x = d /\ k = c)
    BY ZenonT(40), <1>5
  <2>2. /\ dpu[x].exists /\ dpu[x].cluster = k
        /\ seen[x].exists /\ seen[x].deleting => seen[x].cluster = k
    BY <2>1 DEF SlotInv
  <2> QED
    BY Zenon, <1>0, <1>2, <2>1, <2>2
<1>7. \A x \in DPUs : DPUAdvances(x)
  BY Zenon, <1>0, <1>2, <1>3 DEF DPUAdvances
<1>8. \A k \in Names, g \in Gens :
        /\ SameEntry(k, g)
        /\ ~info[k][g].known => info'[k][g] = info[k][g]
        /\ \A x \in info[k][g].dpus \ info'[k][g].dpus : ~dpu'[x].exists \/ dpu'[x].deleting
  <2>1. \A k \in Names, g \in Gens : idx[k] = g => info[k][g].known
    BY Zenon DEF CacheInv, EntryOK
  <2>2. ~dpu'[d].exists \/ dpu'[d].deleting
    BY Zenon, <1>0, <1>2 DEF DPUInv
  <2> SUFFICES ASSUME NEW k \in Names, NEW g \in Gens
               PROVE  /\ SameEntry(k, g)
                      /\ ~info[k][g].known => info'[k][g] = info[k][g]
                      /\ \A x \in info[k][g].dpus \ info'[k][g].dpus :
                           ~dpu'[x].exists \/ dpu'[x].deleting
    OBVIOUS
  <2> HIDE DEF c
  <2>3. CASE k = c /\ g = idx[c]
    BY ZenonT(90), <1>5, <2>1, <2>2, <2>3
  <2>4. CASE ~(k = c /\ g = idx[c])
    BY Zenon, <1>5, <2>4
  <2> QED
    BY Zenon, <2>3, <2>4
<1>9. pending' \in [DPUs -> Names \cup {None}] /\ hasty' \subseteq DPUs /\ hasty \subseteq hasty'
  BY Zenon, <1>3 DEF TypeOK
<1> HIDE DEF c
<1> QED
  BY Zenon, <1>1, <1>3, <1>5, <1>6, <1>7, <1>8, <1>9, DPUStep

(* A DPU that goes at once had no finalizer, and is hasty.                 *)
LEMMA DeleteDPUStep ==
  ASSUME IInv, NEW d \in DPUs, DeleteDPU(d)
  PROVE  IInv'
<1> USE DEF IInv
<1>1. dpu' \in [DPUs -> DPURecord] /\ hasty' \subseteq DPUs /\ hasty \subseteq hasty'
  <2>1. NoDPU \in DPURecord /\ [dpu[d] EXCEPT !.deleting = TRUE] \in DPURecord
    BY Zenon, RecordTypes DEF TypeOK
  <2> QED
    BY Zenon, <2>1 DEF DeleteDPU, TypeOK
<1>2. UNCHANGED <<seen, cluster, cseen, gens, info, idx, synced, pending, going, restarts, home, missed>>
  BY Zenon DEF DeleteDPU, Objects, Cache
<1>3. \A x \in DPUs : /\ DPUAdvances(x)
                      /\ dpu'[x].exists \/ x \in hasty' \/ dpu'[x] = dpu[x]
                      /\ dpu'[x].exists => dpu'[x].cluster = dpu[x].cluster
  BY <1>2 DEF DeleteDPU, DPUAdvances, TypeOK, DPURecord, NoDPU
<1>4. SlotInv'
  BY <1>1, <1>2, <1>3 DEF SlotInv
<1> QED
  BY Zenon, <1>1, <1>2, <1>3, <1>4, DPUStep DEF SameEntry, TypeOK, Entries

(* A new DPU is on no list and in no entry of the cache.                   *)
LEMMA CreateDPUStep ==
  ASSUME IInv, NEW d \in DPUs, CreateDPU(d)
  PROVE  IInv'
<1> USE DEF IInv
<1>1. PICK c \in Names \cup {None} : dpu' = [dpu EXCEPT ![d].exists = TRUE, ![d].cluster = c]
  BY Zenon, AllocatorAssumption DEF CreateDPU
<1>2. UNCHANGED <<seen, cluster, cseen, gens, info, idx, synced, pending, going, restarts>>
  BY Zenon DEF CreateDPU, Objects, Cache
<1>3. /\ dpu' \in [DPUs -> DPURecord] /\ \A x \in DPUs : x # d => dpu'[x] = dpu[x]
      /\ dpu'[d].exists
  <2> DEFINE r == [dpu[d] EXCEPT !.exists = TRUE, !.cluster = c]
  <2>1. r \in DPURecord /\ r.exists
    <3>1. dpu[d] \in DPURecord
      BY Zenon DEF TypeOK
    <3> QED
      BY Zenon, <3>1 DEF DPURecord
  <2>2. dpu' = [dpu EXCEPT ![d] = r]
    BY Zenon, <1>1
  <2> QED
    BY Zenon, <2>1, <2>2 DEF TypeOK
<1>4. /\ ~seen[d].exists /\ home' = [home EXCEPT ![d] = 0]
      /\ missed' = missed \ {d} /\ hasty' = hasty \ {d}
      /\ \A k \in Names, g \in Gens : d \notin info[k][g].dpus
  BY Zenon DEF CreateDPU
<1>5. TypeOK'
  <2>1. home' \in [DPUs -> 0..MaxGen]
    BY <1>4, AllocatorAssumption DEF TypeOK
  <2> QED
    BY Zenon, <1>2, <1>3, <1>4, <2>1 DEF TypeOK
<1>6. ObjectInv' /\ CacheInv'
  BY <1>2 DEF ObjectInv, ClusterOK, CacheInv, EntryOK
<1>7. DPUInv'
  BY Zenon, <1>2, <1>3, <1>4 DEF DPUInv
<1>8. \A x \in DPUs : home'[x] # 0 => x # d /\ dpu'[x] = dpu[x] /\ home'[x] = home[x]
  BY Zenon, <1>3, <1>4 DEF TypeOK
<1>9. HomeInv'
  <2> SUFFICES ASSUME NEW x \in DPUs, NEW k, NEW g, k = dpu'[x].cluster, g = home'[x],
                      dpu'[x].exists, g # 0
               PROVE  At(x, k, g)'
    BY Zenon DEF HomeInv
  <2>1. At(x, k, g)
    BY Zenon, <1>8 DEF HomeInv
  <2>2. x \in missed <=> x \in missed'
    BY Zenon, <1>4, <1>8
  <2> QED
    BY Zenon, <1>2, <1>8, <2>1, <2>2 DEF At, Openish
<1>10. SlotInv'
  BY <1>2, <1>3, <1>4 DEF SlotInv
<1>11. Capacity'
  <2>1. \A k \in Names, g \in Gens : AllocatedTo(k, g)' \subseteq AllocatedTo(k, g)
    BY <1>8 DEF AllocatedTo, Live, Gens
  <2> QED
    BY Zenon, <2>1, CapacityShrinks
<1> QED
  BY Zenon, <1>5, <1>6, <1>7, <1>9, <1>10, <1>11

(* The informer catches up with a DPU.                                     *)
LEMMA DPUEventStep ==
  ASSUME IInv, NEW d \in DPUs, DPUEvent(d)
  PROVE  IInv'
<1> USE DEF IInv
<1>1. UNCHANGED <<dpu, cluster, cseen, gens, info, idx, synced, pending, going, restarts, home, missed, hasty>>
  BY Zenon DEF DPUEvent, Objects, Cache, History
<1>2. \A x \in DPUs : seen'[x] = seen[x] \/ seen'[x] = dpu[x]
  BY Zenon DEF DPUEvent, TypeOK
<1>3. TypeOK'
  BY ZenonT(40), <1>1 DEF DPUEvent, TypeOK
<1>4. ObjectInv' /\ CacheInv' /\ Capacity'
  BY <1>1 DEF ObjectInv, ClusterOK, CacheInv, EntryOK, Capacity, AllocatedTo, Live
<1>5. DPUInv'
  BY ZenonT(40), <1>1, <1>2 DEF DPUInv
<1>6. HomeInv'
  <2> SUFFICES ASSUME NEW x \in DPUs, NEW k, NEW g, k = dpu[x].cluster, g = home[x],
                      dpu[x].exists, g # 0
               PROVE  At(x, k, g)'
    BY Zenon, <1>1 DEF HomeInv
  <2>1. At(x, k, g)
    BY Zenon DEF HomeInv
  <2> QED
    BY ZenonT(40), <1>1, <1>2, <2>1 DEF At, Openish
<1>7. SlotInv'
  BY <1>1, <1>2 DEF SlotInv
<1> QED
  BY Zenon, <1>3, <1>4, <1>5, <1>6, <1>7

(* The first Allocate of a process counts every DPU that was allocated     *)
(* before: the informer shows them all, and the index points to the        *)
(* present cluster.                                                        *)
LEMMA SyncStep ==
  ASSUME IInv, NEW d \in DPUs, syncAssignedDPUs(d)
  PROVE  IInv'
<1> USE DEF IInv
<1>1. /\ UNCHANGED <<dpu, seen, cluster, cseen, gens, pending, going, restarts, home, missed, hasty>>
      /\ ~synced /\ synced'
  BY Zenon DEF syncAssignedDPUs, Objects, History
<1>2. \A c \in Names : /\ idx'[c] = IF cseen[c].gen = 0 \/ info[c][cseen[c].gen].known
                                    THEN idx[c] ELSE cseen[c].gen
                       /\ idx'[c] \in 0..MaxGen
  BY Zenon DEF syncAssignedDPUs, SyncedIdx, TypeOK, ClusterRecord
<1> DEFINE entry(c, g) == IF g = cseen[c].gen THEN Saved(info[c][g], cseen[c]) ELSE info[c][g]
           found(c) == {x \in DPUs : Counts(seen[x]) /\ seen[x].cluster = c}
<1>3. \A c \in Names, g \in Gens :
        info'[c][g] = IF g = idx'[c] THEN [entry(c, g) EXCEPT !.dpus = @ \cup found(c)]
                                     ELSE entry(c, g)
  BY ZenonT(40) DEF syncAssignedDPUs, SyncedInfo
<1>4. \A c \in Names, g \in Gens :
        /\ entry(c, g) \in ClusterInfo
        /\ entry(c, g).dpus = info[c][g].dpus
        /\ g = cseen[c].gen => /\ entry(c, g).known
                               /\ entry(c, g).deleting = cseen[c].deleting
                               /\ entry(c, g).ready => cseen[c].phase = "Ready"
        /\ g # cseen[c].gen => entry(c, g) = info[c][g]
  <2> TAKE c \in Names, g \in Gens
  <2>1. info[c][g] \in ClusterInfo /\ cseen[c] \in ClusterRecord
    BY DEF TypeOK
  <2> QED
    BY Zenon, <2>1, RecordTypes DEF Saved
<1> HIDE DEF entry
<1>5. \A c \in Names, g \in Gens :
        /\ info'[c][g] \in ClusterInfo
        /\ info'[c][g].known = entry(c, g).known
        /\ info'[c][g].deleting = entry(c, g).deleting
        /\ info'[c][g].ready = entry(c, g).ready
        /\ g = idx'[c] => info'[c][g].dpus = info[c][g].dpus \cup found(c)
        /\ g # idx'[c] => info'[c][g] = entry(c, g)
  <2> TAKE c \in Names, g \in Gens
  <2> DEFINE e == entry(c, g)
             S == e.dpus \cup found(c)
             r == [e EXCEPT !.dpus = S]
  <2>1. e \in ClusterInfo /\ e.dpus = info[c][g].dpus
    BY Zenon, <1>4
  <2>2. S \in SUBSET DPUs
    BY Zenon, <2>1 DEF ClusterInfo
  <2>3. g = idx'[c] => info'[c][g] = r
    BY Zenon, <1>3
  <2>4. g # idx'[c] => info'[c][g] = e
    BY Zenon, <1>3
  <2>5. r \in ClusterInfo /\ r.known = e.known /\ r.deleting = e.deleting /\ r.ready = e.ready
        /\ r.dpus = S
    <3> HIDE DEF e, S
    <3> QED
      BY Zenon, <2>1, <2>2 DEF ClusterInfo
  <2> HIDE DEF r
  <2> QED
    BY Zenon, <2>1, <2>3, <2>4, <2>5
<1>6. \A c \in Names, g \in Gens :
        cluster[c].gen = g /\ cseen[c].gen = g => idx'[c] = g
  <2> SUFFICES ASSUME NEW c \in Names, NEW g \in Gens, cluster[c].gen = g, cseen[c].gen = g
               PROVE  idx'[c] = g
    OBVIOUS
  <2>1. g # 0 /\ (info[c][g].known => idx[c] = g)
    BY <1>1 DEF CacheInv, EntryOK, Gens
  <2> QED
    BY Zenon, <1>2, <2>1
<1>7. TypeOK'
  <2>1. info' \in [Names -> [Gens -> ClusterInfo]] /\ idx' \in [Names -> 0..MaxGen]
    BY Zenon, <1>2, <1>5 DEF syncAssignedDPUs, SyncedInfo, SyncedIdx
  <2> QED
    BY Zenon, <1>1, <2>1 DEF TypeOK
<1>8. ObjectInv'
  BY Zenon, <1>1 DEF ObjectInv, ClusterOK
<1>9. CacheInv'
  <2> SUFFICES ASSUME NEW c \in Names, NEW g \in Gens
               PROVE  EntryOK(c, g)'
    BY Zenon DEF CacheInv
  <2>a. EntryOK(c, g) /\ ClusterOK(c)
    BY Zenon DEF CacheInv, ObjectInv
  <2>1. g # 0
    BY DEF Gens
  <2>2. idx'[c] = g => info'[c][g].known
    <3>1. CASE g = cseen[c].gen
      BY SMTT(30), <1>4, <1>5, <3>1
    <3>2. CASE g # cseen[c].gen
      BY SMTT(30), <1>2, <1>4, <1>5, <3>2, <2>1, <2>a DEF EntryOK
    <3> QED
      BY Zenon, <3>1, <3>2, <1>1, <2>a DEF EntryOK
  <2>3. CASE g = cseen[c].gen
    <3>1. /\ info'[c][g].known /\ info'[c][g].deleting = cseen[c].deleting
          /\ info'[c][g].ready => cseen[c].phase = "Ready"
      BY SMTT(30), <1>4, <1>5, <2>3
    <3> QED
      BY ZenonT(40), <2>1, <2>2, <2>3, <3>1, <1>1, <2>a DEF ClusterOK, EntryOK
  <2>4. CASE g # cseen[c].gen
    <3>1. ~info'[c][g].known => info'[c][g] = entry(c, g)
      BY Zenon, <1>5, <2>2
    <3> QED
      BY SMTT(30), <1>4, <1>5, <2>2, <2>4, <3>1, <1>1, <2>a DEF EntryOK
  <2> QED
    BY Zenon, <2>3, <2>4
<1>10. DPUInv'
  BY Zenon, <1>1 DEF DPUInv
<1>11. HomeInv'
  <2> SUFFICES ASSUME NEW x \in DPUs, NEW k, NEW g, k = dpu[x].cluster, g = home[x],
                      dpu[x].exists, g # 0
               PROVE  At(x, k, g)'
    BY ZenonT(40), <1>1 DEF HomeInv
  <2>1. At(x, k, g) /\ k \in Names /\ g \in Gens
    BY ZenonT(40), HomeFacts
  <2>2. ASSUME ~dpu[x].deleting, Openish(k, g)'
        PROVE  x \in info'[k][g].dpus
    <3>1. cluster[k].gen = g /\ cseen[k].gen = g
      BY Zenon, <1>1, <2>1, <2>2 DEF Openish, At
    <3>2. x \in found(k)
      BY Zenon, <1>1, <2>1, <2>2, AllocatorAssumption DEF At, Counts, DPUInv
    <3> HIDE DEF found
    <3> QED
      BY SMTT(30), <1>5, <1>6, <2>1, <3>1, <3>2
  <2> QED
    BY ZenonT(40), <1>1, <2>1, <2>2 DEF At
<1>12. SlotInv'
  <2> SUFFICES ASSUME NEW k \in Names, NEW g \in Gens, NEW x \in DPUs, x \in info'[k][g].dpus,
                      cluster[k].gen = g, idx'[k] = g, x \notin hasty
               PROVE  /\ dpu[x].exists /\ dpu[x].cluster = k
                      /\ seen[x].exists /\ seen[x].deleting => seen[x].cluster = k
    BY <1>1 DEF SlotInv
  <2>1. x \in info[k][g].dpus \/ x \in found(k)
    <3> HIDE DEF found
    <3> QED
      BY Zenon, <1>5
  <2>2. CASE x \in info[k][g].dpus
    <3>1. info[k][g].known
      BY SMTT(30), <2>2 DEF CacheInv, EntryOK, NoInfo
    <3>2. idx[k] = g
      BY Zenon, <1>1, <3>1 DEF CacheInv, EntryOK
    <3> QED
      BY ZenonT(90), <2>2, <3>2 DEF SlotInv
  <2>3. CASE x \in found(k)
    BY Zenon, <2>3, AllocatorAssumption DEF Counts, DPUInv
  <2> QED
    BY Zenon, <2>1, <2>2, <2>3
<1>13. Capacity'
  BY Zenon, <1>1 DEF Capacity, AllocatedTo, Live
<1> QED
  BY Zenon, <1>7, <1>8, <1>9, <1>10, <1>11, <1>12, <1>13

(* Allocate: all DPUs that were reported as allocated to the cluster are   *)
(* counted, since the cluster is open, so there is room for one more.      *)
LEMMA AllocateStep ==
  ASSUME IInv, NEW d \in DPUs, Allocate(d)
  PROVE  IInv'
<1> USE DEF IInv
<1>1. PICK u \in getFeasibleClusterBinPacking(d) :
        /\ Assignable(d, u[1])
        /\ dpu' = [dpu EXCEPT ![d].cluster = u[1]]
        /\ info' = [info EXCEPT ![u[1]][u[2]].dpus = @ \cup {d}]
        /\ home' = [home EXCEPT ![d] = u[2]]
  BY Zenon DEF Allocate
<1> DEFINE c == u[1]
           h == u[2]
           S == info[c][h].dpus \cup {d}
<1>2. c \in Names /\ h \in Gens /\ Feasible(info[c][h], c)
  BY Zenon, AllocatorAssumption DEF getFeasibleClusterBinPacking
<1>3. /\ UNCHANGED <<seen, cluster, cseen, gens, idx, synced, pending, going, restarts, hasty>>
      /\ missed' = missed \ {d} /\ synced /\ ~seen[d].deleting
  BY Zenon DEF Allocate, Unassigned, Objects
<1>4. /\ dpu' \in [DPUs -> DPURecord] /\ \A x \in DPUs : x # d => dpu'[x] = dpu[x]
      /\ dpu'[d].exists /\ dpu[d].exists /\ dpu'[d].cluster = c /\ dpu[d].cluster \in {None, c}
      /\ dpu'[d].deleting = dpu[d].deleting
  <2> HIDE DEF c
  <2> DEFINE r == [dpu[d] EXCEPT !.cluster = c]
  <2>1. dpu[d] \in DPURecord
    BY Zenon DEF TypeOK
  <2>2. r \in DPURecord /\ r.exists = dpu[d].exists /\ r.deleting = dpu[d].deleting /\ r.cluster = c
    BY Zenon, <1>2, <2>1 DEF DPURecord
  <2>3. dpu' = [dpu EXCEPT ![d] = r] /\ dpu[d].exists /\ dpu[d].cluster \in {None, c}
    BY Zenon, <1>1 DEF Assignable, c
  <2> HIDE DEF r
  <2> QED
    BY Zenon, <2>2, <2>3 DEF TypeOK
<1>5. info' \in Entries /\ \A k \in Names, g \in Gens :
        /\ SameEntry(k, g)
        /\ info'[k][g].dpus = IF k = c /\ g = h THEN S ELSE info[k][g].dpus
        /\ ~(k = c /\ g = h) => info'[k][g] = info[k][g]
  <2>1. info \in Entries
    BY Zenon DEF TypeOK, Entries
  <2>2. S \in SUBSET DPUs
    BY <1>2, <2>1 DEF Entries, ClusterInfo
  <2>3. info' = [info EXCEPT ![c][h].dpus = S]
    BY Zenon, <1>1
  <2> HIDE DEF c, h, S
  <2> QED
    BY ZenonT(90), <1>2, <2>1, <2>2, <2>3, CountedDPUs
<1>6. \A x \in DPUs : home'[x] = IF x = d THEN h ELSE home[x]
  BY Zenon, <1>1 DEF TypeOK
<1>7. /\ info[c][h].known /\ info[c][h].ready /\ ~info[c][h].deleting
      /\ Cardinality(info[c][h].dpus) < MaxNodes[c]
  BY Zenon, <1>2 DEF Feasible
<1>8. cluster[c].gen = h /\ cluster[c].finalizer /\ cseen[c].gen = h /\ h <= gens[c]
  BY ZenonT(40), <1>2, <1>7 DEF CacheInv, EntryOK
<1>9. home' \in [DPUs -> 0..MaxGen]
  BY SMTT(30), <1>1, <1>2 DEF TypeOK, Gens
<1> HIDE DEF c, h, S
<1>10. TypeOK'
  BY Zenon, <1>3, <1>4, <1>5, <1>9 DEF TypeOK, Entries
<1>11. ObjectInv'
  BY ZenonT(40), <1>3 DEF ObjectInv, ClusterOK
<1>12. CacheInv'
  <2>1. \A k \in Names, g \in Gens : ~info[k][g].known => info'[k][g] = info[k][g]
    BY Zenon, <1>5, <1>7
  <2> QED
    BY <1>3, <1>5, <2>1 DEF CacheInv, EntryOK, SameEntry
<1>13. DPUInv'
  BY Zenon, <1>3, <1>4, AllocatorAssumption DEF DPUInv
<1>14. \A x \in DPUs, k \in Names, g \in Gens :
         x # d /\ dpu'[x].exists /\ dpu'[x].cluster = k /\ home'[x] = g
           => dpu[x] = dpu'[x] /\ home[x] = g /\ At(x, k, g)
  BY <1>4, <1>6 DEF HomeInv, Gens
<1>15. HomeInv'
  <2> SUFFICES ASSUME NEW x \in DPUs, NEW k, NEW g, k = dpu'[x].cluster, g = home'[x],
                      dpu'[x].exists, g # 0
               PROVE  At(x, k, g)'
    BY SMTT(30) DEF HomeInv
  <2>1. CASE x = d
    <3>1. k = c /\ g = h /\ d \in info'[c][h].dpus /\ d \notin missed'
      BY ZenonT(40), <2>1, <1>2, <1>3, <1>4, <1>5, <1>6 DEF S
    <3> QED
      BY ZenonT(40), <2>1, <3>1, <1>2, <1>3, <1>8 DEF At
  <2>2. CASE x # d
    <3>0. dpu[x] = dpu'[x] /\ home[x] = home'[x]
      BY Zenon, <2>2, <1>4, <1>6
    <3>1. At(x, k, g) /\ dpu[x] = dpu'[x] /\ k \in Names /\ g \in Gens
      BY Zenon, <3>0, HomeFacts
    <3>2. Openish(k, g)' => Openish(k, g)
      BY ZenonT(90), <3>1, <1>3, <1>5 DEF Openish, SameEntry
    <3>3. x \in info[k][g].dpus => x \in info'[k][g].dpus
      BY <3>1, <1>5 DEF S
    <3>4. x \in missed <=> x \in missed'
      BY Zenon, <1>3, <2>2
    <3> QED
      BY ZenonT(40), <3>1, <3>2, <3>3, <3>4, <1>3 DEF At
  <2> QED
    BY Zenon, <2>1, <2>2
<1>16. SlotInv'
  <2> SUFFICES ASSUME NEW k \in Names, NEW g \in Gens, NEW x \in DPUs, x \in info'[k][g].dpus,
                      cluster[k].gen = g, idx[k] = g, x \notin hasty
               PROVE  /\ dpu'[x].exists /\ dpu'[x].cluster = k
                      /\ seen[x].exists /\ seen[x].deleting => seen[x].cluster = k
    BY <1>3 DEF SlotInv
  <2>1. x \in info[k][g].dpus \/ (x = d /\ k = c)
    <3>1. CASE k = c /\ g = h
      BY ZenonT(40), <1>5, <3>1 DEF S
    <3>2. CASE ~(k = c /\ g = h)
      BY Zenon, <1>5, <3>2
    <3> QED
      BY Zenon, <3>1, <3>2
  <2>2. CASE x = d /\ k = c
    BY Zenon, <2>2, <1>3, <1>4
  <2>3. CASE x \in info[k][g].dpus
    <3>1. /\ dpu[x].exists /\ dpu[x].cluster = k
          /\ seen[x].exists /\ seen[x].deleting => seen[x].cluster = k
      BY <2>3 DEF SlotInv
    <3> QED
      BY Zenon, <3>1, <1>4, AllocatorAssumption
  <2> QED
    BY Zenon, <2>1, <2>2, <2>3
<1>17. Capacity'
  <2> SUFFICES ASSUME NEW k \in Names, NEW g \in Gens
               PROVE  Cardinality(AllocatedTo(k, g)') <= MaxNodes[k]
    BY Zenon DEF Capacity
  <2>1. CASE k = c /\ g = h
    <3>1. AllocatedTo(c, h)' \subseteq S
      <4> SUFFICES ASSUME NEW x \in DPUs, x # d, dpu'[x].exists, ~dpu'[x].deleting,
                          dpu'[x].cluster = c, home'[x] = h
                   PROVE  x \in info[c][h].dpus
        BY Zenon DEF AllocatedTo, Live, S
      <4>1. At(x, c, h) /\ ~dpu[x].deleting
        BY Zenon, <1>2, <1>14
      <4>2. Openish(c, h)
        BY Zenon, <1>7, <1>8 DEF Openish
      <4> QED
        BY Zenon, <1>3, <4>1, <4>2 DEF At
    <3>2. IsFiniteSet(info[c][h].dpus)
      BY <1>2, FS_Subset, AllocatorAssumption DEF TypeOK, ClusterInfo
    <3>3. IsFiniteSet(S) /\ Cardinality(S) <= Cardinality(info[c][h].dpus) + 1
      <4> DEFINE D == info[c][h].dpus
      <4>1. Cardinality(D \cup {d}) = IF d \in D THEN Cardinality(D) ELSE Cardinality(D) + 1
        BY Zenon, <3>2, FS_AddElement
      <4>2. IsFiniteSet(D \cup {d}) /\ Cardinality(D) \in Nat
        BY Zenon, <3>2, FS_AddElement, FS_CardinalityType
      <4> HIDE DEF D
      <4>3. Cardinality(D \cup {d}) <= Cardinality(D) + 1
        BY <4>1, <4>2
      <4> QED
        BY Zenon, <4>2, <4>3 DEF S, D
    <3>4. Cardinality(AllocatedTo(c, h)') <= Cardinality(S)
      BY Zenon, <3>1, <3>3, FS_Subset
    <3>5. Cardinality(AllocatedTo(c, h)') \in Nat /\ Cardinality(S) \in Nat
          /\ Cardinality(info[c][h].dpus) \in Nat /\ MaxNodes[c] \in Nat
      BY Zenon, <1>2, <3>1, <3>2, <3>3, FS_Subset, FS_CardinalityType, AllocatorAssumption
    <3> QED
      BY <1>7, <2>1, <3>3, <3>4, <3>5
  <2>2. CASE ~(k = c /\ g = h)
    <3>1. AllocatedTo(k, g)' \subseteq AllocatedTo(k, g)
      BY Zenon, <2>2, <1>4, <1>6, <1>14 DEF AllocatedTo, Live
    <3>2. IsFiniteSet(AllocatedTo(k, g))
      BY Zenon, FS_Subset, AllocatorAssumption DEF AllocatedTo
    <3> QED
      BY <3>1, <3>2, FS_Subset, FS_CardinalityType, AllocatorAssumption DEF Capacity
  <2> QED
    BY Zenon, <2>1, <2>2
<1> QED
  BY Zenon, <1>10, <1>11, <1>12, <1>13, <1>15, <1>16, <1>17
=============================================================================
