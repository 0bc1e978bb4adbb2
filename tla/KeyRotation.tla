----------------------------- MODULE KeyRotation -----------------------------
(***************************************************************************)
(* Rotation of the static key with which the API servers of a Kamaji       *)
(* DPUCluster encrypt Secrets and ConfigMaps in etcd                       *)
(* (internal/clustermanager/kamaji).  The state of a rotation is one       *)
(* Secret: the list of keys that is mounted into the API servers, and a    *)
(* phase.  The controller moves it Idle -> Prepared (the new key can be    *)
(* read) -> Promoted (the new key is written) -> Finalized (the old key is *)
(* dropped) -> Idle.  Between two phases it asks every API server over     *)
(* HTTP which list it has loaded, and before it drops the old key it has   *)
(* every object rewritten by a StorageVersionMigration.                    *)
(*                                                                         *)
(* A reconcile reads the Secret from an informer cache that lags, takes    *)
(* several steps, and saves under the resourceVersion it read.  Kubelet    *)
(* mounts lag, API servers reload when they notice, pods are replaced, the *)
(* controller crashes, and users write objects all the while.              *)
(***************************************************************************)
EXTENDS Naturals, Sequences, FiniteSets

CONSTANTS Servers,          \* the kube-apiserver replicas
          Resources,        \* the encrypted resource types, one stored object each
          Sources,          \* observed versions of the source Secret
          Material,         \* the key material of each source
          NoSource,         \* no such Secret, or no such data key in it
          MaxNames,         \* bound on generated key names
          MaxVersions,      \* bound on versions of the Secret; a rotation writes four
          MaxReplacements,  \* bound on pod replacements
          MaxFaults         \* bound on failed calls and controller crashes

ASSUME SourceAssumption == NoSource \notin Sources
ASSUME BoundAssumption == /\ MaxNames \in Nat
                          /\ MaxVersions \in Nat
                          /\ MaxReplacements \in Nat
                          /\ MaxFaults \in Nat

VARIABLES secret,        \* the encryption config Secret
          cache,         \* the controller's informer copy of it
          desired,       \* the source the operator configuration names
          disabled,      \* automatic rotation is off, or staticKey not configured
          names,         \* key names generated so far
          pc,            \* where the reconcile is
          cfg,           \* the configuration this reconcile loaded
          next,          \* the configuration it is about to save
          scraped,       \* API servers whose metrics showed cfg's hash
          todo,          \* resources its migration loop still visits
          verdict,       \* what that loop found so far
          svms,          \* StorageVersionMigrations in the tenant cluster
          up,            \* API server pods that are running
          mounted,       \* the key list in each pod's volume
          loaded,        \* the key list each API server uses
          data,          \* the name of the key each object is stored under
          replacements,
          faults

ctlVars == <<pc, cfg, next, scraped, todo, verdict>>
serverVars == <<up, mounted, loaded>>
envVars == <<desired, disabled>>
vars == <<secret, cache, envVars, names, ctlVars, svms, serverVars, data,
          replacements, faults>>

Phases == {"Idle", "Prepared", "Promoted", "Finalized"}
SvmStates == {"running", "rewritten", "succeeded", "failed", "deleting"}

Entry == [name : Nat, mat : {Material[s] : s \in Sources}]
KeyLists == {keys \in Seq(Entry) : Len(keys) \in 1..2}
Config == [rv : Nat, phase : Phases, keys : KeyLists,
           active : Sources, target : Sources \cup {NoSource}]
RotationIDs == Nat \X Nat

(* The first key of the list encrypts; all of them decrypt. *)
WriteKey(keys) == keys[1].name
Names(keys) == {keys[i].name : i \in DOMAIN keys}

TypeOK == /\ secret \in Config /\ cache \in Config
          /\ cfg \in Config /\ next \in Config
          /\ desired \in Sources \cup {NoSource}
          /\ disabled \in BOOLEAN
          /\ names \in Nat
          /\ pc \in {"start", "scrape", "migrate", "cleanup", "save"}
          /\ scraped \in SUBSET Servers
          /\ todo \in SUBSET Resources
          /\ verdict \in {"done", "pending", "blocked"}
          /\ svms \in SUBSET [res : Resources, id : RotationIDs, st : SvmStates]
          /\ up \in [Servers -> BOOLEAN]
          /\ mounted \in [Servers -> KeyLists]
          /\ loaded \in [Servers -> KeyLists]
          /\ data \in [Resources -> Nat]
          /\ replacements \in Nat
          /\ faults \in Nat

-----------------------------------------------------------------------------
(* The transitions of a configuration. *)

(* newStaticKeyConfig: the list a cluster is created with. *)
NewStaticKeyConfig(src) ==
    [rv |-> 1, phase |-> "Idle", keys |-> <<[name |-> 1, mat |-> Material[src]]>>,
     active |-> src, target |-> NoSource]

SameMaterial(c, src) == c.keys[1].mat = Material[src]

(* The same key from another Secret version only refreshes the reference;
   another key is added behind the one that encrypts. *)
TransitionToPrepared(c, src) ==
    IF SameMaterial(c, src)
    THEN [c EXCEPT !.active = src]
    ELSE [c EXCEPT !.phase = "Prepared", !.target = src,
                   !.keys = <<c.keys[1], [name |-> names + 1, mat |-> Material[src]]>>]

(* Mutant: the reference is not moved with the key. *)
PromotedKeepsRef(c) == [c EXCEPT !.phase = "Promoted", !.keys = <<c.keys[2], c.keys[1]>>]

TransitionToPromoted(c) ==
    [c EXCEPT !.phase = "Promoted", !.active = c.target,
              !.keys = <<c.keys[2], c.keys[1]>>]

TransitionToFinalized(c) ==
    [c EXCEPT !.phase = "Finalized", !.active = c.target, !.keys = <<c.keys[1]>>]

(* Mutant: the wrong reference is cleared. *)
IdleClearsActive(c) == [c EXCEPT !.phase = "Idle", !.active = NoSource]

TransitionToIdle(c) == [c EXCEPT !.phase = "Idle", !.target = NoSource]

(* The StorageVersionMigrations of a rotation carry the names of both keys. *)
RotationID(c) == <<c.keys[2].name, c.keys[1].name>>

-----------------------------------------------------------------------------
Init == \E src \in Sources :
        /\ secret = NewStaticKeyConfig(src)
        /\ cache = secret /\ cfg = secret /\ next = secret
        /\ desired = src
        /\ disabled = FALSE
        /\ names = 1
        /\ pc = "start"
        /\ scraped = {} /\ todo = {} /\ verdict = "done"
        /\ svms = {}
        /\ up = [s \in Servers |-> TRUE]
        /\ mounted = [s \in Servers |-> secret.keys]
        /\ loaded = mounted
        /\ data = [r \in Resources |-> 1]
        /\ replacements = 0
        /\ faults = 0

(* A call that fails, or a crash. *)
Fault == faults < MaxFaults /\ faults' = faults + 1

-----------------------------------------------------------------------------
(* The controller. *)

(* reconcileStableStaticKey: an Idle list is compared with the desired key.
   Without a source, or with rotation disabled, nothing is done. *)
ReconcileStable ==
    /\ pc = "start" /\ ~disabled
    /\ cache.phase = "Idle"
    /\ desired # NoSource
    /\ SameMaterial(cache, desired) \/ names < MaxNames
    /\ cache.rv + 4 <= MaxVersions
    /\ cfg' = cache
    /\ next' = TransitionToPrepared(cache, desired)
    /\ names' = IF SameMaterial(cache, desired) THEN names ELSE names + 1
    /\ pc' = "save"
    /\ UNCHANGED <<secret, cache, envVars, scraped, todo, verdict, svms, serverVars,
                   data, replacements, faults>>

(* Mutant: the desired source is resolved in every phase. *)
InFlightNeedsSource ==
    /\ pc = "start" /\ ~disabled
    /\ cache.phase # "Idle"
    /\ desired # NoSource
    /\ cfg' = cache
    /\ scraped' = {}
    /\ pc' = "scrape"
    /\ UNCHANGED <<secret, cache, envVars, names, next, todo, verdict, svms, serverVars,
                   data, replacements, faults>>

(* reconcileInFlightStaticKey: every other phase begins by asking the API
   servers which list they have loaded. *)
ReconcileInFlight ==
    /\ pc = "start" /\ ~disabled
    /\ cache.phase # "Idle"
    /\ cfg' = cache
    /\ scraped' = {}
    /\ pc' = "scrape"
    /\ UNCHANGED <<secret, cache, envVars, names, next, todo, verdict, svms, serverVars,
                   data, replacements, faults>>

(* Mutant: any answer counts, whatever hash it shows. *)
ScrapeAny(s) ==
    /\ pc = "scrape" /\ s \notin scraped
    /\ up[s]
    /\ scraped' = scraped \cup {s}
    /\ UNCHANGED <<secret, cache, envVars, names, pc, cfg, next, todo, verdict, svms,
                   serverVars, data, replacements, faults>>

(* scrapeReloadState: the metrics of one pod show the hash of cfg. *)
Scrape(s) ==
    /\ pc = "scrape" /\ s \notin scraped
    /\ up[s] /\ loaded[s] = cfg.keys
    /\ scraped' = scraped \cup {s}
    /\ UNCHANGED <<secret, cache, envVars, names, pc, cfg, next, todo, verdict, svms,
                   serverVars, data, replacements, faults>>

(* A pod is not there or shows another hash, a request fails, or the pods
   listed again are not the ones listed before: come back later. *)
ScrapeFails ==
    /\ pc = "scrape"
    /\ \/ (\E s \in Servers \ scraped : ~up[s] \/ loaded[s] # cfg.keys) /\ UNCHANGED faults
       \/ Fault
    /\ pc' = "start"
    /\ UNCHANGED <<secret, cache, envVars, names, cfg, next, scraped, todo, verdict, svms,
                   serverVars, data, replacements>>

(* Every pod has been seen with the list.  The pods are listed from the
   informer cache, so a replacement since then may go unnoticed. *)
Verified ==
    /\ pc = "scrape" /\ scraped = Servers
    /\ \/ /\ cfg.phase = "Prepared"
          /\ next' = TransitionToPromoted(cfg)
          /\ pc' = "save" /\ UNCHANGED <<todo, verdict>>
       \/ /\ cfg.phase = "Promoted"
          /\ pc' = "migrate" /\ todo' = Resources /\ verdict' = "done"
          /\ UNCHANGED next
       \/ /\ cfg.phase = "Finalized"
          /\ next' = TransitionToIdle(cfg)
          /\ pc' = "save" /\ UNCHANGED <<todo, verdict>>
    /\ UNCHANGED <<secret, cache, envVars, names, cfg, scraped, svms, serverVars, data,
                   replacements, faults>>

Svm(r, st) == [res |-> r, id |-> RotationID(cfg), st |-> st]
HasSvm(r) == \E v \in svms : v.res = r /\ v.id = RotationID(cfg)

(* Mutant: an object that exists counts, whether it has succeeded or not. *)
MigrateSeesAny(r) ==
    /\ pc = "migrate" /\ r \in todo
    /\ todo' = todo \ {r}
    /\ \/ ~HasSvm(r) /\ svms' = svms \cup {Svm(r, "running")}
       \/ HasSvm(r) /\ UNCHANGED svms
    /\ verdict' = IF HasSvm(r) THEN verdict ELSE "pending"
    /\ UNCHANGED <<secret, cache, envVars, names, pc, cfg, next, scraped, serverVars, data,
                   replacements, faults>>

(* reconcileStorageVersionMigration for one resource: create the object when
   it is missing, otherwise see how far it is. *)
MigrateResource(r) ==
    /\ pc = "migrate" /\ r \in todo
    /\ todo' = todo \ {r}
    /\ \/ ~HasSvm(r) /\ svms' = svms \cup {Svm(r, "running")}
       \/ HasSvm(r) /\ UNCHANGED svms
    /\ verdict' = IF Svm(r, "failed") \in svms THEN "blocked"
                  ELSE IF Svm(r, "succeeded") \in svms THEN verdict
                  ELSE IF verdict = "blocked" THEN "blocked" ELSE "pending"
    /\ UNCHANGED <<secret, cache, envVars, names, pc, cfg, next, scraped, serverVars, data,
                   replacements, faults>>

(* The loop over the resources ends: blocked and pending return, the latter
   to be tried again; otherwise the finished objects are cleaned up. *)
MigrateEnds ==
    /\ pc = "migrate" /\ todo = {}
    /\ pc' = IF verdict = "done" THEN "cleanup" ELSE "start"
    /\ todo' = IF verdict = "done" THEN Resources ELSE {}
    /\ UNCHANGED <<secret, cache, envVars, names, cfg, next, scraped, verdict, svms,
                   serverVars, data, replacements, faults>>

(* cleanupStaticKeyStorageMigrations: a delete may fail, which is logged
   only, or may leave an object that goes later. *)
CleanUp(r) ==
    /\ pc = "cleanup" /\ r \in todo
    /\ todo' = todo \ {r}
    /\ LET others == {v \in svms : ~(v.res = r /\ v.id = RotationID(cfg))}
       IN  svms' \in {svms, others, others \cup {Svm(r, "deleting")}}
    /\ UNCHANGED <<secret, cache, envVars, names, pc, cfg, next, scraped, verdict,
                   serverVars, data, replacements, faults>>

CleanUpEnds ==
    /\ pc = "cleanup" /\ todo = {}
    /\ next' = TransitionToFinalized(cfg)
    /\ pc' = "save"
    /\ UNCHANGED <<secret, cache, envVars, names, cfg, scraped, todo, verdict, svms,
                   serverVars, data, replacements, faults>>

(* Store.Save: nothing to write when the cache already holds this; otherwise
   an update that the API server refuses when the Secret has changed since it
   was loaded.  The read-back that follows may time out, so the next reconcile
   may still see the old Secret. *)
Save ==
    /\ pc = "save"
    /\ secret' = IF cache = next \/ secret.rv # next.rv THEN secret
                 ELSE [next EXCEPT !.rv = next.rv + 1]
    /\ pc' = "start"
    /\ UNCHANGED <<cache, envVars, names, cfg, next, scraped, todo, verdict, svms,
                   serverVars, data, replacements, faults>>

(* A call of the reconcile fails, or the controller crashes: what it holds in
   memory is gone, what it has written stays. *)
Crash ==
    /\ pc # "start" /\ Fault
    /\ pc' = "start"
    /\ UNCHANGED <<secret, cache, envVars, names, cfg, next, scraped, todo, verdict, svms,
                   serverVars, data, replacements>>

CacheSync ==
    /\ cache # secret
    /\ cache' = secret
    /\ UNCHANGED <<secret, envVars, names, ctlVars, svms, serverVars, data, replacements,
                   faults>>

-----------------------------------------------------------------------------
(* The tenant control plane: kubelet, API servers, migrator, users. *)

Mount(s) ==
    /\ up[s] /\ mounted[s] # secret.keys
    /\ mounted' = [mounted EXCEPT ![s] = secret.keys]
    /\ UNCHANGED <<secret, cache, envVars, names, ctlVars, svms, up, loaded, data,
                   replacements, faults>>

(* The API server polls the file, or its container restarts. *)
Reload(s) ==
    /\ up[s] /\ loaded[s] # mounted[s]
    /\ loaded' = [loaded EXCEPT ![s] = mounted[s]]
    /\ UNCHANGED <<secret, cache, envVars, names, ctlVars, svms, up, mounted, data,
                   replacements, faults>>

PodStops(s) ==
    /\ up[s] /\ replacements < MaxReplacements
    /\ up' = [up EXCEPT ![s] = FALSE]
    /\ replacements' = replacements + 1
    /\ UNCHANGED <<secret, cache, envVars, names, ctlVars, svms, mounted, loaded, data,
                   faults>>

(* A new pod mounts the Secret as it is now. *)
PodStarts(s) ==
    /\ ~up[s]
    /\ up' = [up EXCEPT ![s] = TRUE]
    /\ mounted' = [mounted EXCEPT ![s] = secret.keys]
    /\ loaded' = [loaded EXCEPT ![s] = secret.keys]
    /\ UNCHANGED <<secret, cache, envVars, names, ctlVars, svms, data, replacements, faults>>

UserWrites(r) ==
    /\ \E s \in Servers : up[s] /\ data' = [data EXCEPT ![r] = WriteKey(loaded[s])]
    /\ UNCHANGED <<secret, cache, envVars, names, ctlVars, svms, serverVars, replacements,
                   faults>>

SetSvm(v, st) == svms' = (svms \ {v}) \cup {[v EXCEPT !.st = st]}

(* The migrator rewrites the object through some API server ... *)
Rewrite(v) ==
    /\ v.st = "running" /\ SetSvm(v, "rewritten")
    /\ \E s \in Servers : up[s] /\ data' = [data EXCEPT ![v.res] = WriteKey(loaded[s])]
    /\ UNCHANGED <<secret, cache, envVars, names, ctlVars, serverVars, replacements, faults>>

(* ... and then reports success; or it gives up. *)
MigratorReports(v) ==
    /\ \/ v.st = "rewritten" /\ SetSvm(v, "succeeded") /\ UNCHANGED faults
       \/ v.st = "running" /\ SetSvm(v, "failed") /\ Fault
    /\ UNCHANGED <<secret, cache, envVars, names, ctlVars, serverVars, data, replacements>>

(* A deletion completes, or an administrator removes a failed migration. *)
SvmGone(v) ==
    /\ v.st \in {"deleting", "failed"}
    /\ svms' = svms \ {v}
    /\ UNCHANGED <<secret, cache, envVars, names, ctlVars, serverVars, data, replacements,
                   faults>>

Configure ==
    /\ desired' \in Sources \cup {NoSource}
    /\ disabled' \in BOOLEAN
    /\ envVars' # envVars
    /\ UNCHANGED <<secret, cache, names, ctlVars, svms, serverVars, data, replacements, faults>>

-----------------------------------------------------------------------------
Controller == \/ ReconcileStable \/ ReconcileInFlight
              \/ \E s \in Servers : Scrape(s)
              \/ ScrapeFails \/ Verified
              \/ \E r \in Resources : MigrateResource(r) \/ CleanUp(r)
              \/ MigrateEnds \/ CleanUpEnds \/ Save \/ CacheSync

Tenant == \/ \E s \in Servers : Mount(s) \/ Reload(s) \/ PodStops(s) \/ PodStarts(s)
          \/ \E r \in Resources : UserWrites(r)
          \/ \E v \in svms : Rewrite(v) \/ MigratorReports(v) \/ SvmGone(v)

Next == Controller \/ Tenant \/ Crash \/ Configure

Spec == Init /\ [][Next]_vars

(* The controller resyncs every ten minutes and retries what failed; informer,
   kubelet, API server and migrator do their work in the end.  Nothing is
   assumed of users, administrators and faults. *)
Fairness == /\ WF_vars(ReconcileInFlight) /\ WF_vars(ScrapeFails) /\ WF_vars(Verified)
            /\ WF_vars(MigrateEnds) /\ WF_vars(CleanUpEnds) /\ WF_vars(Save)
            /\ WF_vars(CacheSync)
            /\ \A s \in Servers : /\ WF_vars(Scrape(s)) /\ WF_vars(Mount(s))
                                  /\ WF_vars(Reload(s)) /\ WF_vars(PodStarts(s))
            /\ \A r \in Resources : WF_vars(MigrateResource(r)) /\ WF_vars(CleanUp(r))
            /\ WF_vars(\E v \in svms : Rewrite(v))
            /\ WF_vars(\E v \in svms : v.st = "rewritten" /\ MigratorReports(v))
            /\ WF_vars(\E v \in svms : v.st = "deleting" /\ SvmGone(v))

FairSpec == Spec /\ Fairness

-----------------------------------------------------------------------------
(* Properties. *)

(* Every API server that runs can decrypt every stored object, whatever the
   phase, however far its mount lags and whoever wrote the object. *)
AllReadable == \A s \in Servers, r \in Resources : up[s] => data[r] \in Names(loaded[s])

(* The reference published as the active key names the Secret whose key
   encrypts (validateStaticKeyShape, ActiveKeyRef). *)
ActiveRefTrue == Material[secret.active] = secret.keys[1].mat

(* The keys that every API server can read; a pod that is being replaced will
   read the Secret. *)
Uses(s) == IF up[s] THEN loaded[s] ELSE secret.keys
Ring == {k \in 1..names : \A s \in Servers : k \in Names(Uses(s))}

(* The rotation implements a key ring: an object is only written under a key
   that every API server has, and a key is taken from the first API server
   only when no object is stored under it. *)
R == INSTANCE KeyRing WITH Objects <- Resources, Keys <- Nat, ring <- Ring, data <- data
RotationIsKeyRing == R!Spec

(* A rotation that is under way ends, unless it is disabled or a migration
   has failed. *)
RotationCompletes ==
    secret.phase # "Idle" ~> \/ secret.phase = "Idle"
                             \/ disabled
                             \/ \E v \in svms : v.st = "failed"
=============================================================================
