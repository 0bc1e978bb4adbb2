----------------------- MODULE ClusterAllocatorProofs -----------------------
(***************************************************************************)
(* For every number of DPUs, DPUClusters, generations and restarts: the    *)
(* allocator keeps to maxNodes, a cluster stays as long as the DPUs that   *)
(* were allocated to it, and every slot is returned.                       *)
(***************************************************************************)
EXTENDS AllocatorDPUProofs

-----------------------------------------------------------------------------
(* The steps of the DPUCluster controller, of a DPUCluster and of the      *)
(* process.                                                                *)

(* saveCluster refreshes the entry of the cluster and keeps its DPUs.      *)
LEMMA SaveClusterStep ==
  ASSUME IInv, NEW c \in Names, cseen[c].gen # 0, saveCluster(c, cseen[c])
  PROVE  /\ cseen[c].gen \in Gens
         /\ info' \in Entries /\ idx' \in [Names -> 0..MaxGen]
         /\ \A k \in Names, g \in Gens :
              /\ info'[k][g].dpus = info[k][g].dpus
              /\ ~(k = c /\ g = cseen[c].gen) => info'[k][g] = info[k][g]
         /\ info'[c][cseen[c].gen].known
         /\ info'[c][cseen[c].gen].deleting = cseen[c].deleting
         /\ info'[c][cseen[c].gen].ready => cseen[c].phase = "Ready"
         /\ \A k \in Names : k # c => idx'[k] = idx[k]
         /\ idx'[c] = IF info[c][cseen[c].gen].known THEN idx[c] ELSE cseen[c].gen
<1> DEFINE h == cseen[c].gen
           r == Saved(info[c][h], cseen[c])
<1> USE DEF IInv
<1>1. h \in Gens
  BY DEF TypeOK, ClusterRecord, Gens
<1>2. info \in Entries
  BY Zenon DEF TypeOK, Entries
<1>3. r \in ClusterInfo
  BY Zenon, <1>1, RecordTypes DEF TypeOK
<1>4. /\ r.known /\ r.deleting = cseen[c].deleting /\ r.dpus = info[c][h].dpus
      /\ r.ready => cseen[c].phase = "Ready"
  BY Zenon DEF Saved
<1>5. info' = [info EXCEPT ![c][h] = r]
  BY Zenon DEF saveCluster
<1>6. idx' = IF info[c][h].known THEN idx ELSE [idx EXCEPT ![c] = h]
  BY Zenon DEF saveCluster
<1> HIDE DEF r
<1>7. info' \in Entries /\ \A k \in Names, g \in Gens :
        info'[k][g] = IF k = c /\ g = h THEN r ELSE info[k][g]
  <2> HIDE DEF h
  <2> QED
    BY ZenonT(40), <1>1, <1>2, <1>3, <1>5, ReplacedEntry
<1>8. /\ idx' \in [Names -> 0..MaxGen]
      /\ \A k \in Names : k # c => idx'[k] = idx[k]
      /\ idx'[c] = IF info[c][h].known THEN idx[c] ELSE h
  BY <1>1, <1>6 DEF TypeOK, Gens
<1> QED
  BY <1>1, <1>4, <1>7, <1>8

(* A slot was counted before saveCluster under the same index.             *)
LEMMA SaveClusterKeepsSlots ==
  ASSUME IInv, NEW c \in Names, cseen[c].gen # 0, saveCluster(c, cseen[c]),
         UNCHANGED <<dpu, seen, hasty>>,
         \A k \in Names : cluster'[k].gen = cluster[k].gen
  PROVE  SlotInv'
<1> USE DEF IInv
<1> SUFFICES ASSUME NEW k \in Names, NEW g \in Gens, NEW x \in DPUs, x \in info'[k][g].dpus,
                    cluster[k].gen = g, idx'[k] = g, x \notin hasty
             PROVE  /\ dpu[x].exists /\ dpu[x].cluster = k
                    /\ seen[x].exists /\ seen[x].deleting => seen[x].cluster = k
  BY DEF SlotInv
<1>1. x \in info[k][g].dpus
  BY SaveClusterStep
<1>2. info[k][g].known
  BY <1>1 DEF CacheInv, EntryOK, NoInfo
<1>3. idx[k] = g
  <2>1. CASE k # c
    BY ZenonT(40), <2>1, SaveClusterStep
  <2>2. CASE k = c
    BY <1>2, <2>2, SaveClusterStep
  <2> QED
    BY Zenon, <2>1, <2>2
<1> QED
  BY <1>1, <1>3 DEF SlotInv

(* A reconcile of a cluster that is not being deleted: the copy it works   *)
(* on is one of the present cluster.                                       *)
LEMMA ReconcileClusterStep ==
  ASSUME IInv, NEW c \in Names, ReconcileCluster(c)
  PROVE  IInv'
<1> USE DEF IInv
<1> DEFINE h == cseen[c].gen
<1>1. /\ UNCHANGED <<dpu, seen, cseen, gens, synced, pending, going, restarts, home, missed, hasty>>
      /\ going.name = None /\ h # 0 /\ ~cseen[c].deleting /\ saveCluster(c, cseen[c])
  BY Zenon DEF ReconcileCluster, History
<1>2. /\ cluster' \in [Names -> ClusterRecord] /\ \A k \in Names : k # c => cluster'[k] = cluster[k]
      /\ cluster'[c].gen = cluster[c].gen /\ cluster'[c].deleting = cluster[c].deleting
      /\ cluster[c].gen = h /\ cluster'[c].finalizer
  <2>1. cluster[c] \in ClusterRecord
    BY Zenon DEF TypeOK
  <2>2. cluster[c].gen = h
    BY Zenon, <1>1 DEF ReconcileCluster, ObjectInv, ClusterOK
  <2>3. CASE UNCHANGED cluster /\ cseen[c].finalizer
    BY Zenon, <1>1, <2>2, <2>3 DEF TypeOK, ObjectInv, ClusterOK
  <2>4. ASSUME NEW p \in NextPhases(cseen[c].phase),
               cluster' = [cluster EXCEPT ![c].finalizer = TRUE, ![c].phase = p]
        PROVE  <1>2
    <3> DEFINE r == [cluster[c] EXCEPT !.finalizer = TRUE, !.phase = p]
    <3>1. p \in {"Creating", "Ready", "NotReady"}
      BY Zenon DEF NextPhases
    <3>2. r \in ClusterRecord /\ r.gen = cluster[c].gen /\ r.deleting = cluster[c].deleting /\ r.finalizer
      BY Zenon, <2>1, <3>1 DEF ClusterRecord
    <3>3. cluster' = [cluster EXCEPT ![c] = r]
      BY Zenon, <2>4
    <3> HIDE DEF r
    <3> QED
      BY Zenon, <2>2, <3>2, <3>3 DEF TypeOK
  <2>5. CASE cluster' = [cluster EXCEPT ![c].finalizer = TRUE]
    <3> DEFINE r == [cluster[c] EXCEPT !.finalizer = TRUE]
    <3>2. r \in ClusterRecord /\ r.gen = cluster[c].gen /\ r.deleting = cluster[c].deleting /\ r.finalizer
      BY Zenon, <2>1 DEF ClusterRecord
    <3>3. cluster' = [cluster EXCEPT ![c] = r]
      BY Zenon, <2>5
    <3> HIDE DEF r
    <3> QED
      BY Zenon, <2>2, <3>2, <3>3 DEF TypeOK
  <2> QED
    BY Zenon, <2>3, <2>4, <2>5 DEF ReconcileCluster
<1>3. TypeOK'
  BY Zenon, <1>1, <1>2, SaveClusterStep DEF TypeOK, Entries
<1>4. ObjectInv'
  <2> SUFFICES ASSUME NEW k \in Names
               PROVE  ClusterOK(k)'
    BY Zenon DEF ObjectInv
  <2>a. ClusterOK(k)
    BY Zenon DEF ObjectInv
  <2>1. CASE k = c
    BY Zenon, <2>1, <1>1, <1>2, AllocatorAssumption, <2>a DEF ClusterOK
  <2>2. CASE k # c
    BY Zenon, <2>2, <1>2, <1>1, AllocatorAssumption, <2>a DEF ClusterOK
  <2> QED
    BY Zenon, <2>1, <2>2
<1>5. CacheInv'
  <2> SUFFICES ASSUME NEW k \in Names, NEW g \in Gens
               PROVE  EntryOK(k, g)'
    BY Zenon DEF CacheInv
  <2>a. EntryOK(k, g) /\ ClusterOK(k)
    BY Zenon DEF CacheInv, ObjectInv
  <2>1. CASE k = c /\ g = h
    <3>1. info'[c][h].known /\ ~info'[c][h].deleting /\ h <= gens[c]
      BY Zenon, <2>1, <1>1, SaveClusterStep, <2>a DEF ClusterOK, EntryOK
    <3>2. ~synced => idx'[c] = h
      BY Zenon, <2>1, <1>1, <1>2, SaveClusterStep, <2>a DEF EntryOK
    <3> QED
      BY Zenon, <2>1, <3>1, <3>2, <1>2, <1>1, AllocatorAssumption, <2>a DEF EntryOK
  <2>2. CASE ~(k = c /\ g = h)
    <3>1. info'[k][g] = info[k][g] /\ (idx'[k] = g \/ k # c => idx[k] = idx'[k])
      BY <2>2, <1>1, SaveClusterStep
    <3> QED
      BY Zenon, <2>2, <3>1, <1>2, <1>1, AllocatorAssumption, <2>a DEF EntryOK
  <2> QED
    BY Zenon, <2>1, <2>2
<1>6. DPUInv'
  BY Zenon, <1>1 DEF DPUInv
<1>7. HomeInv'
  <2> SUFFICES ASSUME NEW x \in DPUs, NEW k, NEW g, k = dpu[x].cluster, g = home[x],
                      dpu[x].exists, g # 0
               PROVE  At(x, k, g)'
    BY Zenon, <1>1 DEF HomeInv
  <2>1. At(x, k, g) /\ k \in Names /\ g \in Gens
    BY Zenon, HomeFacts
  <2>2. Openish(k, g)' => Openish(k, g)
    <3>1. CASE k = c /\ g = h
      BY Zenon, <1>1, <1>2, <3>1 DEF Openish
    <3>2. CASE ~(k = c /\ g = h)
      <4>1. info'[k][g] = info[k][g]
        BY <1>1, <2>1, <3>2, SaveClusterStep
      <4>2. cluster'[k].gen = cluster[k].gen /\ cluster'[k].deleting = cluster[k].deleting
        BY ZenonT(40), <1>2, <2>1
      <4> QED
        BY Zenon, <1>1, <4>1, <4>2 DEF Openish
    <3> QED
      BY Zenon, <3>1, <3>2
  <2>3. x \in info[k][g].dpus => x \in info'[k][g].dpus
    BY <1>1, <2>1, SaveClusterStep
  <2>4. cluster'[k].gen = cluster[k].gen /\ (cluster[k].finalizer => cluster'[k].finalizer)
    BY Zenon, <1>2, <2>1
  <2> QED
    BY Zenon, <1>1, <2>1, <2>2, <2>3, <2>4 DEF At
<1>8. SlotInv'
  BY Zenon, <1>1, <1>2, SaveClusterKeepsSlots
<1>9. Capacity'
  BY Zenon, <1>1 DEF Capacity, AllocatedTo, Live
<1> QED
  BY Zenon, <1>3, <1>4, <1>5, <1>6, <1>7, <1>8, <1>9

(* The deletion is saved in the cache before the DPUs are listed.          *)
LEMMA SaveDeletingStep ==
  ASSUME IInv, NEW c \in Names, SaveDeleting(c)
  PROVE  IInv'
<1> USE DEF IInv
<1> DEFINE h == cseen[c].gen
<1>1. /\ UNCHANGED <<dpu, seen, cluster, cseen, gens, synced, pending, restarts, home, missed, hasty>>
      /\ going' = [name |-> c, copy |-> cseen[c]]
      /\ h # 0 /\ cseen[c].deleting /\ saveCluster(c, cseen[c])
  BY Zenon DEF SaveDeleting, Objects, History
<1>2. going'.name = c /\ going'.copy = cseen[c]
  BY Zenon, <1>1
<1>3. TypeOK'
  BY ZenonT(40), <1>1, SaveClusterStep DEF TypeOK, Entries
<1>4. ObjectInv'
  <2>1. h \in Gens
    BY Zenon, <1>1, SaveClusterStep
  <2> QED
    BY <1>1, <1>2, <2>1 DEF ObjectInv, ClusterOK
<1>5. CacheInv'
  <2> SUFFICES ASSUME NEW k \in Names, NEW g \in Gens
               PROVE  EntryOK(k, g)'
    BY Zenon DEF CacheInv
  <2>a. EntryOK(k, g) /\ ClusterOK(k)
    BY Zenon DEF CacheInv, ObjectInv
  <2>1. CASE k = c /\ g = h
    <3>1. info'[c][h].known /\ info'[c][h].deleting /\ h <= gens[c]
      BY Zenon, <2>1, <1>1, SaveClusterStep, <2>a DEF ClusterOK, EntryOK
    <3>2. ~synced /\ cluster[c].gen = h => idx'[c] = h
      BY Zenon, <2>1, <1>1, SaveClusterStep, <2>a DEF EntryOK
    <3> QED
      BY Zenon, <2>1, <3>1, <3>2, <1>1, <1>2, <2>a DEF ClusterOK, EntryOK
  <2>2. CASE ~(k = c /\ g = h)
    <3>1. info'[k][g] = info[k][g] /\ (idx'[k] = g \/ k # c => idx[k] = idx'[k])
      BY <2>2, <1>1, SaveClusterStep
    <3> QED
      BY ZenonT(40), <2>2, <3>1, <1>1, <1>2, <2>a DEF EntryOK
  <2> QED
    BY Zenon, <2>1, <2>2
<1>6. DPUInv'
  BY Zenon, <1>1 DEF DPUInv
<1>7. HomeInv'
  <2> SUFFICES ASSUME NEW x \in DPUs, NEW k, NEW g, k = dpu[x].cluster, g = home[x],
                      dpu[x].exists, g # 0
               PROVE  At(x, k, g)'
    BY Zenon, <1>1 DEF HomeInv
  <2>1. At(x, k, g) /\ k \in Names /\ g \in Gens
    BY Zenon, HomeFacts
  <2>2. Openish(k, g)' => Openish(k, g)
    <3>1. CASE k = c /\ g = h
      BY Zenon, <1>1, <3>1, SaveClusterStep DEF Openish
    <3>2. CASE ~(k = c /\ g = h)
      <4>0. \A m \in Names, f \in Gens : ~(m = c /\ f = h) => info'[m][f] = info[m][f]
        BY <1>1, SaveClusterStep
      <4>1. info'[k][g] = info[k][g]
        BY ZenonT(40), <2>1, <3>2, <4>0
      <4> QED
        BY ZenonT(40), <1>1, <4>1 DEF Openish
    <3> QED
      BY Zenon, <3>1, <3>2
  <2>3. x \in info[k][g].dpus => x \in info'[k][g].dpus
    BY <1>1, <2>1, SaveClusterStep
  <2> QED
    BY Zenon, <1>1, <2>1, <2>2, <2>3 DEF At
<1>8. SlotInv'
  BY Zenon, <1>1, SaveClusterKeepsSlots
<1>9. Capacity'
  BY Zenon, <1>1 DEF Capacity, AllocatedTo, Live
<1> QED
  BY Zenon, <1>3, <1>4, <1>5, <1>6, <1>7, <1>8, <1>9

(* The informer catches up with a DPUCluster.                              *)
LEMMA ClusterEventStep ==
  ASSUME IInv, NEW c \in Names, ClusterEvent(c)
  PROVE  IInv'
<1> USE DEF IInv
<1>1. UNCHANGED <<dpu, seen, cluster, gens, info, idx, synced, pending, going, restarts, home, missed, hasty>>
  BY Zenon DEF ClusterEvent, Cache, History
<1>2. \A k \in Names : cseen'[k] = cseen[k] \/ cseen'[k] = cluster[k]
  BY Zenon DEF ClusterEvent, TypeOK
<1>3. TypeOK'
  BY Zenon, <1>1 DEF ClusterEvent, TypeOK
<1>4. ObjectInv'
  <2> SUFFICES ASSUME NEW k \in Names
               PROVE  ClusterOK(k)'
    BY Zenon DEF ObjectInv
  <2>a. ClusterOK(k)
    BY Zenon DEF ObjectInv
  <2>1. CASE cseen'[k] = cseen[k]
    BY Zenon, <2>1, <1>1, <2>a DEF ClusterOK
  <2>2. CASE cseen'[k] = cluster[k]
    <3>1. cluster[k].gen <= gens[k]
      BY Zenon, <2>a, ClusterGen
    <3> QED
      BY Zenon, <2>2, <3>1, <1>1, <2>a DEF ClusterOK
  <2> QED
    BY Zenon, <1>2, <2>1, <2>2
<1>5. CacheInv'
  <2> SUFFICES ASSUME NEW k \in Names, NEW g \in Gens
               PROVE  EntryOK(k, g)'
    BY Zenon DEF CacheInv
  <2>1. EntryOK(k, g)
    BY Zenon DEF CacheInv
  <2>2. CASE cseen'[k] = cseen[k]
    BY <1>1, <2>1, <2>2 DEF EntryOK
  <2>3. CASE cseen'[k] = cluster[k]
    BY ZenonT(40), <1>1, <2>1, <2>3 DEF EntryOK
  <2> QED
    BY Zenon, <1>2, <2>2, <2>3
<1>6. DPUInv' /\ SlotInv' /\ Capacity'
  BY SMTT(30), <1>1 DEF DPUInv, SlotInv, Capacity, AllocatedTo, Live
<1>7. HomeInv'
  <2> SUFFICES ASSUME NEW x \in DPUs, NEW k, NEW g, k = dpu[x].cluster, g = home[x],
                      dpu[x].exists, g # 0
               PROVE  At(x, k, g)'
    BY Zenon, <1>1 DEF HomeInv
  <2>1. At(x, k, g) /\ k \in Names
    BY Zenon DEF HomeInv, At
  <2>2. Openish(k, g)' => Openish(k, g)
    BY Zenon, <1>1, <1>2, <2>1 DEF Openish
  <2> QED
    BY Zenon, <1>1, <1>2, <2>1, <2>2 DEF At
<1> QED
  BY Zenon, <1>3, <1>4, <1>5, <1>6, <1>7

(* A cluster that is created again has a generation that nobody knows.     *)
LEMMA CreateClusterStep ==
  ASSUME IInv, NEW c \in Names, CreateCluster(c)
  PROVE  IInv'
<1> USE DEF IInv
<1> DEFINE n == gens[c] + 1
<1>1. /\ UNCHANGED <<dpu, seen, cseen, info, idx, synced, pending, going, restarts, home, missed, hasty>>
      /\ cluster[c].gen = 0
  BY Zenon DEF CreateCluster, Cache, History
<1>2. n \in Gens /\ gens[c] \in Nat /\ gens' = [gens EXCEPT ![c] = n]
  <2>1. gens[c] \in Nat /\ gens[c] < MaxGen
    BY Zenon, CopyGens, GenNumbers DEF CreateCluster
  <2>2. n \in Gens
    BY <2>1, AllocatorAssumption DEF Gens
  <2> QED
    BY Zenon, <2>1, <2>2 DEF CreateCluster
<1>3. /\ cluster' \in [Names -> ClusterRecord] /\ \A k \in Names : k # c => cluster'[k] = cluster[k]
      /\ cluster'[c].gen = n /\ cluster'[c].phase = "Pending" /\ ~cluster'[c].deleting
  <2> DEFINE r == [NoCluster EXCEPT !.gen = n]
  <2>1. r \in ClusterRecord /\ r.gen = n /\ r.phase = "Pending" /\ ~r.deleting
    <3>1. NoCluster \in ClusterRecord /\ NoCluster.phase = "Pending" /\ ~NoCluster.deleting
      BY Zenon, RecordTypes DEF NoCluster
    <3>2. n \in 0..MaxGen
      BY <1>2 DEF Gens
    <3> HIDE DEF n
    <3> QED
      BY Zenon, <3>1, <3>2 DEF ClusterRecord
  <2>2. cluster' = [cluster EXCEPT ![c] = r]
    BY Zenon DEF CreateCluster
  <2> HIDE DEF r
  <2> QED
    BY Zenon, <2>1, <2>2 DEF TypeOK
<1>4. /\ gens' \in [Names -> 0..MaxGen] /\ gens'[c] = n
      /\ \A k \in Names : k # c => gens'[k] = gens[k]
  BY <1>2 DEF TypeOK, Gens
<1>5. /\ cseen[c].gen < n /\ cseen[c].gen \in Nat
      /\ going.name = c => going.copy.gen < n
      /\ \A g \in Gens : info[c][g].known => g < n
      /\ ~(cseen[c].gen # 0 /\ cseen[c].finalizer /\ ~cseen[c].deleting)
  <2>1. cseen[c].gen \in Nat /\ (going.name = c => going.copy.gen \in Nat) /\ \A g \in Gens : g \in Nat
    BY Zenon, CopyGens, GenNumbers
  <2>2. cseen[c].gen <= gens[c] /\ (going.name = c => going.copy.gen <= gens[c])
        /\ ~(cseen[c].gen # 0 /\ cseen[c].finalizer /\ ~cseen[c].deleting)
    BY Zenon, <1>1 DEF ObjectInv, ClusterOK
  <2>3. \A g \in Gens : info[c][g].known => g <= gens[c]
    BY Zenon DEF CacheInv, EntryOK
  <2> QED
    BY <1>2, <2>1, <2>2, <2>3
<1> HIDE DEF n
<1>6. TypeOK'
  BY ZenonT(40), <1>1, <1>3, <1>4 DEF TypeOK
<1>7. ObjectInv'
  <2> SUFFICES ASSUME NEW k \in Names
               PROVE  ClusterOK(k)'
    BY Zenon DEF ObjectInv
  <2>a. ClusterOK(k)
    BY Zenon DEF ObjectInv
  <2>1. CASE k = c
    <3>1. n \in Nat /\ n # 0 /\ (going.name = c => going.copy.gen \in Nat)
      BY Zenon, <1>2, CopyGens, GenNumbers
    <3>2. cseen[c].gen <= n /\ cseen[c].gen # n
      BY <1>5, <3>1
    <3>3. going.name = c => going.copy.gen <= n /\ going.copy.gen # n
      BY <1>5, <3>1
    <3> QED
      BY ZenonT(40), <2>1, <3>1, <3>2, <3>3, <1>3, <1>4, <1>5, <1>1, <2>a DEF ClusterOK
  <2>2. CASE k # c
    BY Zenon, <2>2, <1>3, <1>4, <1>1, <2>a DEF ClusterOK
  <2> QED
    BY Zenon, <2>1, <2>2
<1>8. CacheInv'
  <2> SUFFICES ASSUME NEW k \in Names, NEW g \in Gens
               PROVE  EntryOK(k, g)'
    BY Zenon DEF CacheInv
  <2>a. EntryOK(k, g) /\ ClusterOK(k)
    BY Zenon DEF CacheInv, ObjectInv
  <2>1. CASE k = c
    <3>1. info[k][g].known => g < n /\ g # n /\ g <= n /\ g # 0
      BY <2>1, <1>2, <1>5, AllocatorAssumption DEF Gens
    <3> QED
      BY Zenon, <2>1, <3>1, <1>1, <1>3, <1>4, <2>a DEF EntryOK
  <2>2. CASE k # c
    BY Zenon, <2>2, <1>3, <1>4, <1>1, <2>a DEF EntryOK
  <2> QED
    BY Zenon, <2>1, <2>2
<1>9. DPUInv' /\ Capacity'
  BY Zenon, <1>1 DEF DPUInv, Capacity, AllocatedTo, Live
<1>10. HomeInv'
  <2> SUFFICES ASSUME NEW x \in DPUs, NEW k, NEW g, k = dpu[x].cluster, g = home[x],
                      dpu[x].exists, g # 0
               PROVE  At(x, k, g)'
    BY Zenon, <1>1 DEF HomeInv
  <2>1. At(x, k, g) /\ k \in Names /\ g \in Gens
    BY Zenon, HomeFacts
  <2>2. CASE k = c
    <3>1. g <= gens[c] /\ x \in missed
      BY Zenon, <2>1, <2>2, <1>1 DEF At
    <3>2. g <= n /\ g # n
      BY SMTT(30), <2>1, <3>1, <1>2, AllocatorAssumption DEF Gens, n
    <3> QED
      BY ZenonT(40), <2>1, <2>2, <3>1, <3>2, <1>1, <1>3, <1>4 DEF At, Openish
  <2>3. CASE k # c
    BY Zenon, <2>1, <2>3, <1>1, <1>3, <1>4 DEF At, Openish
  <2> QED
    BY Zenon, <2>2, <2>3
<1>11. SlotInv'
  <2>1. idx[c] # n
    <3>1. ~(n < n)
      BY <1>2, GenNumbers
    <3>2. idx[c] = n => info[c][n].known
      BY Zenon, <1>2 DEF CacheInv, EntryOK
    <3> QED
      BY Zenon, <1>2, <1>5, <3>1, <3>2
  <2> SUFFICES ASSUME NEW k \in Names, NEW g \in Gens, NEW x \in DPUs, x \in info[k][g].dpus,
                      cluster'[k].gen = g, idx[k] = g, x \notin hasty
               PROVE  /\ dpu[x].exists /\ dpu[x].cluster = k
                      /\ seen[x].exists /\ seen[x].deleting => seen[x].cluster = k
    BY <1>1 DEF SlotInv
  <2>2. k # c
    BY Zenon, <2>1, <1>3
  <2>3. cluster[k].gen = g
    BY Zenon, <1>3, <2>2
  <2> QED
    BY <2>3, SlotFacts
<1> QED
  BY Zenon, <1>6, <1>7, <1>8, <1>9, <1>10, <1>11

(* Only a cluster without finalizer goes at once, and nobody was allocated *)
(* to it.                                                                  *)
LEMMA DeleteClusterStep ==
  ASSUME IInv, NEW c \in Names, DeleteCluster(c)
  PROVE  IInv'
<1> USE DEF IInv
<1>1. /\ UNCHANGED <<dpu, seen, cseen, gens, info, idx, synced, pending, going, restarts, home, missed, hasty>>
      /\ cluster[c].gen # 0
  BY Zenon DEF DeleteCluster, Cache, History
<1>2. /\ cluster' \in [Names -> ClusterRecord] /\ \A k \in Names : k # c => cluster'[k] = cluster[k]
      /\ \/ /\ cluster[c].finalizer /\ cluster'[c].finalizer /\ cluster'[c].deleting
            /\ cluster'[c].gen = cluster[c].gen
         \/ ~cluster[c].finalizer /\ cluster'[c] = NoCluster
  <2> DEFINE r == [cluster[c] EXCEPT !.deleting = TRUE]
  <2>1. cluster[c] \in ClusterRecord
    BY Zenon DEF TypeOK
  <2>2. r \in ClusterRecord /\ r.gen = cluster[c].gen /\ r.deleting /\ r.finalizer = cluster[c].finalizer
    BY Zenon, <2>1 DEF ClusterRecord
  <2>3. cluster' = [cluster EXCEPT ![c] = IF cluster[c].finalizer THEN r ELSE NoCluster]
    BY Zenon DEF DeleteCluster
  <2>4. NoCluster \in ClusterRecord
    BY Zenon, RecordTypes
  <2> HIDE DEF r
  <2> QED
    BY Zenon, <2>2, <2>3, <2>4 DEF TypeOK
<1>3. TypeOK'
  BY Zenon, <1>1, <1>2 DEF TypeOK
<1>4. NoCluster.gen = 0 /\ NoCluster.phase = "Pending"
  BY Zenon DEF NoCluster
<1>5. ObjectInv'
  <2> SUFFICES ASSUME NEW k \in Names
               PROVE  ClusterOK(k)'
    BY Zenon DEF ObjectInv
  <2>a. ClusterOK(k)
    BY Zenon DEF ObjectInv
  <2>1. CASE k = c
    <3>1. going.copy.gen \in Gens => going.copy.gen # 0
      BY DEF Gens
    <3> QED
      BY Zenon, <2>1, <3>1, <1>1, <1>2, <1>4, <2>a DEF ClusterOK
  <2>2. CASE k # c
    BY Zenon, <2>2, <1>2, <1>1, <2>a DEF ClusterOK
  <2> QED
    BY Zenon, <2>1, <2>2
<1>6. CacheInv'
  <2> SUFFICES ASSUME NEW k \in Names, NEW g \in Gens
               PROVE  EntryOK(k, g)'
    BY Zenon DEF CacheInv
  <2>a. EntryOK(k, g) /\ ClusterOK(k)
    BY Zenon DEF CacheInv, ObjectInv
  <2>1. CASE k = c
    <3>1. g # 0
      BY DEF Gens
    <3> QED
      BY Zenon, <2>1, <3>1, <1>2, <1>4, <1>1, <2>a DEF EntryOK
  <2>2. CASE k # c
    BY Zenon, <2>2, <1>2, <1>1, <2>a DEF EntryOK
  <2> QED
    BY Zenon, <2>1, <2>2
<1>7. DPUInv' /\ Capacity'
  BY Zenon, <1>1 DEF DPUInv, Capacity, AllocatedTo, Live
<1>8. HomeInv'
  <2> SUFFICES ASSUME NEW x \in DPUs, NEW k, NEW g, k = dpu[x].cluster, g = home[x],
                      dpu[x].exists, g # 0
               PROVE  At(x, k, g)'
    BY Zenon, <1>1 DEF HomeInv
  <2>1. At(x, k, g) /\ k \in Names /\ g \in Gens
    BY Zenon, HomeFacts
  <2>2. CASE k = c
    BY ZenonT(40), <2>1, <2>2, <1>1, <1>2, <1>4 DEF At, Openish
  <2>3. CASE k # c
    BY Zenon, <2>1, <2>3, <1>1, <1>2 DEF At, Openish
  <2> QED
    BY Zenon, <2>2, <2>3
<1>9. SlotInv'
  <2>1. \A g \in Gens : g # 0
    BY DEF Gens
  <2> QED
    BY <2>1, <1>1, <1>2, <1>4 DEF SlotInv
<1> QED
  BY Zenon, <1>3, <1>5, <1>6, <1>7, <1>8, <1>9

(* removeCluster: nobody is allocated to the cluster any more, or the list *)
(* has missed them; the entry was closed before.                           *)
LEMMA RemoveClusterStep ==
  ASSUME IInv, RemoveCluster
  PROVE  IInv'
<1> USE DEF IInv
<1> DEFINE c == going.name
           h == going.copy.gen
<1>1. /\ UNCHANGED <<dpu, seen, cseen, gens, synced, pending, restarts, home, hasty>>
      /\ going' = [name |-> None, copy |-> NoCluster]
      /\ c \in Names /\ h \in Gens
      /\ going.copy.deleting
      /\ cluster[c].gen = h => cluster[c].deleting
      /\ cseen[c].gen = h => cseen[c].deleting
  BY Zenon DEF RemoveCluster, TypeOK, ObjectInv, ClusterOK
<1>2. going'.name = None /\ going'.copy = NoCluster /\ NoCluster.gen = 0 /\ NoCluster.phase = "Pending"
      /\ NoCluster \in ClusterRecord
  BY Zenon, <1>1, RecordTypes DEF NoCluster
<1>3. \/ UNCHANGED <<cluster, missed>>
      \/ /\ cluster[c] = going.copy /\ cluster' = [cluster EXCEPT ![c] = NoCluster]
         /\ missed' = missed \cup DPUsOf(dpu, c)
  BY Zenon DEF RemoveCluster
<1>4. info' \in Entries /\ \A k \in Names, g \in Gens :
        info'[k][g] = IF k = c /\ g = h THEN NoInfo ELSE info[k][g]
  <2>1. info \in Entries /\ NoInfo \in ClusterInfo
    BY Zenon, RecordTypes DEF TypeOK, Entries
  <2>2. info' = [info EXCEPT ![c][h] = NoInfo]
    BY Zenon DEF RemoveCluster, removeCluster
  <2> HIDE DEF c, h
  <2> QED
    BY ZenonT(90), <1>1, <2>1, <2>2, ReplacedEntry
<1>5. idx' \in [Names -> 0..MaxGen] /\ idx'[c] = 0 /\ \A k \in Names : k # c => idx'[k] = idx[k]
  BY <1>1, AllocatorAssumption DEF RemoveCluster, removeCluster, TypeOK
<1>6. /\ cluster' \in [Names -> ClusterRecord] /\ missed' \subseteq DPUs
      /\ \A k \in Names : k # c => cluster'[k] = cluster[k]
      /\ cluster'[c] = cluster[c] \/ (cluster[c].gen = h /\ cluster'[c] = NoCluster)
  BY ZenonT(90), <1>1, <1>2, <1>3 DEF TypeOK, DPUsOf
<1>7. ~NoInfo.known /\ NoInfo.dpus = {}
  BY Zenon DEF NoInfo
<1>8. TypeOK'
  BY Zenon, <1>1, <1>2, <1>4, <1>5, <1>6 DEF TypeOK, Entries
<1>9. ObjectInv'
  <2> SUFFICES ASSUME NEW k \in Names
               PROVE  ClusterOK(k)'
    BY Zenon DEF ObjectInv
  <2>a. ClusterOK(k)
    BY Zenon DEF ObjectInv
  <2>1. CASE k = c /\ cluster'[c] = NoCluster /\ cluster[c].gen = h
    BY Zenon, <2>1, <1>1, <1>2, AllocatorAssumption, <2>a DEF ClusterOK
  <2>2. CASE cluster'[k] = cluster[k]
    BY Zenon, <2>2, <1>1, <1>2, AllocatorAssumption, <2>a DEF ClusterOK
  <2> QED
    BY Zenon, <1>6, <2>1, <2>2
<1>10. CacheInv'
  <2> SUFFICES ASSUME NEW k \in Names, NEW g \in Gens
               PROVE  EntryOK(k, g)'
    BY Zenon DEF CacheInv
  <2>a. EntryOK(k, g) /\ ClusterOK(k)
    BY Zenon DEF CacheInv, ObjectInv
  <2>0. g # 0
    BY DEF Gens
  <2>1. CASE k = c /\ g = h
    BY ZenonT(40), <2>0, <2>1, <1>4, <1>5, <1>7, <1>1, <1>2, AllocatorAssumption, <2>a DEF EntryOK
  <2>2. CASE k = c /\ g # h
    <3>1. info'[k][g] = info[k][g] /\ idx'[k] # g
      BY Zenon, <2>0, <2>2, <1>4, <1>5
    <3>2. cluster'[k].gen = g => cluster'[k] = cluster[k]
      BY Zenon, <2>0, <2>2, <1>2, <1>6
    <3>3. cluster[k].gen = g => cluster'[k] = cluster[k]
      BY Zenon, <2>2, <1>6
    <3>4. ~synced /\ info[k][g].known => cluster[k].gen # g
      BY Zenon, <2>2, <2>a DEF EntryOK
    <3> QED
      BY Zenon, <3>1, <3>2, <3>3, <3>4, <1>1, <1>2, AllocatorAssumption, <2>a DEF EntryOK
  <2>3. CASE k # c
    <3>1. info'[k][g] = info[k][g] /\ idx'[k] = idx[k] /\ cluster'[k] = cluster[k]
      BY Zenon, <2>3, <1>4, <1>5, <1>6
    <3> QED
      BY Zenon, <3>1, <1>1, <1>2, AllocatorAssumption, <2>a DEF EntryOK
  <2> QED
    BY Zenon, <2>1, <2>2, <2>3
<1>11. DPUInv' /\ Capacity'
  BY Zenon, <1>1 DEF DPUInv, Capacity, AllocatedTo, Live
<1>12. HomeInv'
  <2> SUFFICES ASSUME NEW x \in DPUs, NEW k, NEW g, k = dpu[x].cluster, g = home[x],
                      dpu[x].exists, g # 0
               PROVE  At(x, k, g)'
    BY ZenonT(40), <1>1 DEF HomeInv
  <2>1. At(x, k, g) /\ k \in Names /\ g \in Gens
    BY Zenon, HomeFacts
  <2>2. Openish(k, g)' => Openish(k, g) /\ info'[k][g] = info[k][g]
    <3>1. CASE k = c /\ g = h
      <4>1. ~info'[c][h].known
        BY Zenon, <1>1, <1>4, <1>7
      <4>2. cluster'[c].gen = h => cluster'[c].deleting
        BY ZenonT(40), <1>1, <1>2, <1>6, <2>1, <3>1
      <4> HIDE DEF c, h
      <4> QED
        BY Zenon, <1>1, <3>1, <4>1, <4>2 DEF Openish
    <3>2. CASE ~(k = c /\ g = h)
      <4>1. info'[k][g] = info[k][g]
        BY Zenon, <1>4, <2>1, <3>2
      <4>2. cluster'[k].gen = g => cluster'[k] = cluster[k]
        BY Zenon, <1>2, <1>6, <2>1
      <4> QED
        BY Zenon, <1>1, <4>1, <4>2 DEF Openish
    <3> QED
      BY Zenon, <3>1, <3>2
  <2>3. CASE UNCHANGED <<cluster, missed>>
    BY Zenon, <1>1, <2>1, <2>2, <2>3 DEF At
  <2>4. CASE cluster' = [cluster EXCEPT ![c] = NoCluster] /\ missed' = missed \cup DPUsOf(dpu, c)
    <3>1. CASE k = c
      <4>1. x \in missed' /\ cluster'[k].gen = 0
        BY ZenonT(40), <2>1, <2>4, <3>1, <1>2 DEF DPUsOf, TypeOK
      <4> QED
        BY Zenon, <1>1, <2>1, <2>2, <4>1 DEF At
    <3>2. CASE k # c
      <4>1. (x \in missed' <=> x \in missed) /\ cluster'[k] = cluster[k]
        BY Zenon, <2>1, <2>4, <3>2 DEF DPUsOf, TypeOK
      <4> QED
        BY Zenon, <1>1, <2>1, <2>2, <4>1 DEF At
    <3> QED
      BY Zenon, <3>1, <3>2
  <2> QED
    BY Zenon, <1>3, <2>3, <2>4
<1>13. SlotInv'
  <2> SUFFICES ASSUME NEW k \in Names, NEW g \in Gens, NEW x \in DPUs, x \in info'[k][g].dpus,
                      cluster'[k].gen = g, idx'[k] = g, x \notin hasty
               PROVE  /\ dpu[x].exists /\ dpu[x].cluster = k
                      /\ seen[x].exists /\ seen[x].deleting => seen[x].cluster = k
    BY <1>1 DEF SlotInv
  <2>1. k # c
    BY <1>5 DEF Gens
  <2>2. info'[k][g] = info[k][g] /\ idx[k] = g /\ cluster[k].gen = g
    BY Zenon, <2>1, <1>4, <1>5, <1>6
  <2>3. x \in info[k][g].dpus
    BY Zenon, <2>2
  <2> QED
    BY <2>2, <2>3, SlotFacts
<1> QED
  BY Zenon, <1>8, <1>9, <1>10, <1>11, <1>12, <1>13

(* The controller gives the deletion up for now.                           *)
LEMMA RemovalFailsStep ==
  ASSUME IInv, RemovalFails
  PROVE  IInv'
<1> USE DEF IInv
<1>1. /\ UNCHANGED <<dpu, seen, cluster, cseen, gens, info, idx, synced, pending, restarts, home, missed, hasty>>
      /\ going' = [name |-> None, copy |-> NoCluster]
  BY Zenon DEF RemovalFails, Objects, Cache, History
<1>2. going'.name = None /\ going' \in [name : Names \cup {None}, copy : ClusterRecord]
  BY Zenon, <1>1, RecordTypes
<1>3. TypeOK'
  BY Zenon, <1>1, <1>2 DEF TypeOK
<1>4. ObjectInv' /\ CacheInv'
  <2>1. \A k \in Names : going'.name # k
    BY Zenon, <1>2, AllocatorAssumption DEF AllocatorAssumption
  <2>2. ASSUME NEW k \in Names PROVE ClusterOK(k)'
    BY Zenon, <1>1, <2>1 DEF ObjectInv, ClusterOK
  <2>3. ASSUME NEW k \in Names, NEW g \in Gens PROVE EntryOK(k, g)'
    BY ZenonT(40), <1>1, <2>1 DEF CacheInv, EntryOK
  <2> QED
    BY Zenon, <2>2, <2>3 DEF ObjectInv, CacheInv, Gens
<1>5. DPUInv' /\ SlotInv'
  BY SMTT(30), <1>1 DEF DPUInv, SlotInv
<1>6. HomeInv'
  BY ZenonT(40), <1>1 DEF HomeInv, At, Openish
<1>7. Capacity'
  BY Zenon, <1>1 DEF Capacity, AllocatedTo, Live
<1> QED
  BY Zenon, <1>3, <1>4, <1>5, <1>6, <1>7

(* After a restart the informers show all DPUs that were allocated.        *)
LEMMA RestartStep ==
  ASSUME IInv, Restart
  PROVE  IInv'
<1> USE DEF IInv
<1>1. /\ UNCHANGED <<dpu, cluster, gens, home, missed, hasty>>
      /\ seen' = dpu /\ cseen' = cluster /\ synced' = FALSE
      /\ info' = newCache /\ idx' = [k \in Names |-> 0]
      /\ pending' = [x \in DPUs |-> None]
      /\ going' = [name |-> None, copy |-> NoCluster]
  BY Zenon DEF Restart, History
<1>2. going'.name = None /\ going' \in [name : Names \cup {None}, copy : ClusterRecord]
  BY Zenon, <1>1, RecordTypes
<1>3. info' \in Entries /\ \A k \in Names, g \in Gens : info'[k][g] = NoInfo
  BY Zenon, <1>1, RecordTypes DEF newCache, Entries
<1>4. ~NoInfo.known /\ NoInfo.dpus = {} /\ \A g \in Gens : g # 0
  BY DEF NoInfo, Gens
<1>5. restarts' \in 0..MaxRestarts
  BY AllocatorAssumption DEF Restart, TypeOK
<1>6. idx' \in [Names -> 0..MaxGen] /\ pending' \in [DPUs -> Names \cup {None}]
  BY <1>1, AllocatorAssumption
<1>7. TypeOK'
  BY ZenonT(40), <1>1, <1>2, <1>3, <1>5, <1>6 DEF TypeOK, Entries
<1>8. ObjectInv'
  <2>1. \A k \in Names : cluster[k].gen <= gens[k]
    BY Zenon, ClusterGen DEF ObjectInv
  <2> QED
    BY Zenon, <1>1, <1>2, <2>1, AllocatorAssumption DEF ObjectInv, ClusterOK
<1>9. CacheInv'
  <2> SUFFICES ASSUME NEW k \in Names, NEW g \in Gens
               PROVE  EntryOK(k, g)'
    BY Zenon DEF CacheInv
  <2>1. info'[k][g] = NoInfo /\ idx'[k] # g
    BY Zenon, <1>1, <1>3, <1>4
  <2> QED
    BY Zenon, <1>4, <2>1 DEF EntryOK
<1>10. DPUInv' /\ Capacity'
  BY Zenon, <1>1 DEF DPUInv, Capacity, AllocatedTo, Live
<1>11. HomeInv'
  BY ZenonT(40), <1>1 DEF HomeInv, At
<1>12. SlotInv'
  BY Zenon, <1>3, <1>4 DEF SlotInv
<1> QED
  BY Zenon, <1>7, <1>8, <1>9, <1>10, <1>11, <1>12

-----------------------------------------------------------------------------
(* The theorems.                                                           *)

(* The invariant holds at the start.                                       *)
LEMMA InitIInv == Init => IInv
<1> SUFFICES ASSUME Init PROVE IInv
  OBVIOUS
<1>1. /\ \A x \in DPUs : dpu[x] = NoDPU /\ seen[x] = NoDPU /\ home[x] = 0 /\ pending[x] = None
      /\ \A k \in Names : /\ cluster[k] \in {ReadyCluster, NoCluster} /\ cseen[k] = cluster[k]
                          /\ gens[k] = cluster[k].gen /\ idx[k] = 0
      /\ \A k \in Names, g \in Gens : info[k][g] = NoInfo
      /\ going.name = None
  BY Zenon DEF Init, newCache
<1>2. /\ ~NoDPU.exists /\ ~NoInfo.known /\ NoInfo.dpus = {} /\ \A g \in Gens : g # 0
      /\ NoCluster.gen = 0 /\ NoCluster.phase = "Pending"
      /\ ReadyCluster.gen = 1 /\ ReadyCluster.finalizer /\ ~ReadyCluster.deleting
  BY DEF NoDPU, NoInfo, Gens, NoCluster, ReadyCluster
<1>3. TypeOK
  <2>1. ReadyCluster \in ClusterRecord
    BY AllocatorAssumption DEF ReadyCluster, ClusterRecord
  <2>2. dpu \in [DPUs -> DPURecord] /\ seen \in [DPUs -> DPURecord]
    BY Zenon, RecordTypes DEF Init
  <2>3. cluster \in [Names -> ClusterRecord] /\ cseen \in [Names -> ClusterRecord]
    BY Zenon, <2>1, RecordTypes DEF Init
  <2>4. gens \in [Names -> 0..MaxGen]
    BY <1>1, <1>2, AllocatorAssumption DEF Init
  <2>5. info \in [Names -> [Gens -> ClusterInfo]]
    BY Zenon, RecordTypes DEF Init, newCache
  <2>6. going \in [name : Names \cup {None}, copy : ClusterRecord]
    BY Zenon, RecordTypes DEF Init
  <2>7. /\ idx \in [Names -> 0..MaxGen] /\ home \in [DPUs -> 0..MaxGen]
        /\ pending \in [DPUs -> Names \cup {None}]
    BY Zenon, GenNumbers DEF Init
  <2>8. synced \in BOOLEAN /\ missed \subseteq DPUs /\ hasty \subseteq DPUs
    BY Zenon DEF Init
  <2>9. restarts \in 0..MaxRestarts
    BY AllocatorAssumption DEF Init
  <2> QED
    BY Zenon, <2>2, <2>3, <2>4, <2>5, <2>6, <2>7, <2>8, <2>9 DEF TypeOK
<1>4. ObjectInv
  BY SMTT(30), <1>1, <1>2, AllocatorAssumption DEF ObjectInv, ClusterOK
<1>5. CacheInv /\ DPUInv /\ HomeInv /\ SlotInv
  BY <1>1, <1>2 DEF CacheInv, EntryOK, DPUInv, HomeInv, SlotInv
<1>6. Capacity
  <2>1. \A k \in Names, g \in Gens : AllocatedTo(k, g) = {}
    BY <1>1, <1>2 DEF AllocatedTo, Live
  <2>2. Cardinality({}) = 0
    BY Zenon, FS_EmptySet
  <2>3. \A k \in Names : 0 <= MaxNodes[k]
    BY AllocatorAssumption
  <2> QED
    BY ZenonT(40), <2>1, <2>2, <2>3 DEF Capacity
<1> QED
  BY Zenon, <1>3, <1>4, <1>5, <1>6 DEF IInv

(* Every step keeps the invariant.                                         *)
LEMMA NextIInv == IInv /\ [Next]_vars => IInv'
<1> SUFFICES ASSUME IInv, [Next]_vars PROVE IInv'
  OBVIOUS
<1>1. ASSUME NEW d \in DPUs, ReconcileDPU(d) PROVE IInv'
  BY Zenon, <1>1, AddFinalizerStep, SaveAssignedDPUStep, SyncStep, AllocateStep, AllocateFailsStep,
     DeferredPatchStep, ToDeletingStep, DeletingStep DEF ReconcileDPU
<1>2. ASSUME NEW d \in DPUs, DPUEvent(d) \/ CreateDPU(d) \/ DeleteDPU(d) PROVE IInv'
  BY Zenon, <1>2, DPUEventStep, CreateDPUStep, DeleteDPUStep
<1>3. ASSUME NEW c \in Names, \/ ReconcileCluster(c) \/ SaveDeleting(c) \/ ClusterEvent(c)
                              \/ CreateCluster(c) \/ DeleteCluster(c)
      PROVE  IInv'
  BY Zenon, <1>3, ReconcileClusterStep, SaveDeletingStep, ClusterEventStep, CreateClusterStep,
     DeleteClusterStep
<1>4. ASSUME RemoveCluster \/ RemovalFails \/ Restart PROVE IInv'
  BY Zenon, <1>4, RemoveClusterStep, RemovalFailsStep, RestartStep
<1>5. CASE UNCHANGED vars
  <2> USE <1>5 DEF vars, IInv
  <2>1. TypeOK'
    BY ZenonT(40) DEF TypeOK
  <2>2. ObjectInv'
    BY ZenonT(40) DEF ObjectInv, ClusterOK
  <2>3. CacheInv'
    BY ZenonT(40) DEF CacheInv, EntryOK
  <2>4. DPUInv'
    BY ZenonT(40) DEF DPUInv
  <2>5. SlotInv'
    BY ZenonT(40) DEF SlotInv
  <2>6. HomeInv'
    BY Zenon DEF HomeInv, At, Openish
  <2>7. Capacity'
    BY Zenon DEF Capacity, AllocatedTo, Live
  <2> QED
    BY Zenon, <2>1, <2>2, <2>3, <2>4, <2>5, <2>6, <2>7
<1> QED
  BY Zenon, <1>1, <1>2, <1>3, <1>4, <1>5 DEF Next

(* The allocator, the DPU and the DPUCluster controllers keep IInv.        *)
THEOREM Invariance == Spec => []IInv
<1> QED
  BY InitIInv, NextIInv, PTL DEF Spec

(* Every variable has its type: no entry of the cache, and no copy that a  *)
(* controller works on, gets another shape.                                *)
THEOREM TypeCorrect == Spec => []TypeOK
<1>1. IInv => TypeOK
  BY Zenon DEF IInv
<1> QED
  BY <1>1, Invariance, PTL

(* Allocate never reports more DPUs for a DPUCluster than its maxNodes,    *)
(* for any number of DPUs, clusters and restarts.                          *)
THEOREM CapacityHolds == Spec => []Capacity
<1>1. IInv => Capacity
  BY Zenon DEF IInv
<1> QED
  BY <1>1, Invariance, PTL

(* reconcileDelete removes no DPUCluster that a DPU has been allocated to, *)
(* unless its list of the DPUs misses the DPU.                             *)
THEOREM AllocatedExistsHolds == Spec => []AllocatedExists
<1>1. IInv => AllocatedExists
  BY Zenon DEF IInv, HomeInv, At, AllocatedExists
<1> QED
  BY <1>1, Invariance, PTL

(* Every slot that is held belongs to a DPU of the cluster.                *)
THEOREM NoSlotLostHolds == Spec => []NoSlotLost
<1>1. IInv => NoSlotLost
  BY Zenon DEF IInv, SlotInv, NoSlotLost
<1> QED
  BY <1>1, Invariance, PTL
=============================================================================
