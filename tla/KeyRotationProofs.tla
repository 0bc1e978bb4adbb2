-------------------------- MODULE KeyRotationProofs --------------------------
(***************************************************************************)
(* Proofs about KeyRotation, for any number of API servers, resources,     *)
(* sources and rotations.                                                  *)
(***************************************************************************)
EXTENDS KeyRotation, TLAPS

-----------------------------------------------------------------------------
(* The inductive invariant.                                                *)

(* One key when no rotation is under way or the old key was dropped, two   *)
(* different ones in between.                                              *)
Shaped(c) ==
  /\ c.phase \in {"Idle", "Finalized"} => Len(c.keys) = 1
  /\ c.phase \in {"Prepared", "Promoted"} => Len(c.keys) = 2 /\ c.keys[1].name # c.keys[2].name
  /\ c.phase # "Idle" => c.target \in Sources

(* The names of a list were generated before.                              *)
Known(c) == \A i \in DOMAIN c.keys : c.keys[i].name \in 1 .. names

(* A copy of the Secret is the current one or the one before it.           *)
Near(c) ==
  \/ c = secret
  \/ c.rv + 1 = secret.rv /\ (c.phase = "Promoted" => secret.phase = "Finalized")

(* The lists an API server can have in a phase.                            *)
Allowed(l) ==
  \/ l = secret.keys
  \/ secret.phase = "Prepared"  /\ l = <<secret.keys[1]>>
  \/ secret.phase = "Promoted"  /\ l = <<secret.keys[2], secret.keys[1]>>
  \/ secret.phase = "Finalized" /\ Len(l) = 2 /\ l[1] = secret.keys[1]

Settled(s) == up[s] => loaded[s] = secret.keys /\ mounted[s] = secret.keys

AllSettled == \A s \in Servers : Settled(s)

ServerInv ==
  \A s \in Servers : up[s] => /\ Allowed(loaded[s]) /\ Allowed(mounted[s])
                              /\ loaded[s] = secret.keys => mounted[s] = secret.keys

(* Only between Promoted and Finalized are there objects under two keys.   *)
Rewritten(r) == data[r] = WriteKey(secret.keys)

DataInv ==
  \A r \in Resources : IF secret.phase = "Promoted" THEN data[r] \in Names(secret.keys)
                       ELSE Rewritten(r)

(* What the reconcile has established when it saves.                       *)
SavesIdle ==
  /\ cfg.phase = "Idle" /\ next.phase = "Idle"
  /\ next.rv = cfg.rv /\ next.keys = cfg.keys

SavesPrepared ==
  /\ cfg.phase = "Idle" /\ next.phase = "Prepared" /\ next.rv = cfg.rv
  /\ next.keys = <<cfg.keys[1], next.keys[2]>>
  /\ next.keys[2].name = names
  /\ cfg.keys[1].name < names
  /\ \A v \in svms : v.id[2] < names

SavesPromoted ==
  /\ cfg.phase = "Prepared" /\ next = TransitionToPromoted(cfg)
  /\ cfg = secret => AllSettled

SavesFinalized ==
  /\ cfg.phase = "Promoted" /\ next = TransitionToFinalized(cfg)
  /\ cfg = secret => AllSettled /\ \A r \in Resources : Rewritten(r)

SavesFinished ==
  /\ cfg.phase = "Finalized" /\ next = TransitionToIdle(cfg)
  /\ cfg = secret => AllSettled

Saves == SavesIdle \/ SavesPrepared \/ SavesPromoted \/ SavesFinalized \/ SavesFinished

ProcessInv ==
  /\ pc # "start" => Near(cfg) /\ cfg.rv <= cache.rv
  /\ pc = "scrape" => (cfg = secret => \A s \in scraped : Settled(s))
  /\ pc \in {"migrate", "cleanup"} => cfg.phase = "Promoted" /\ (cfg = secret => AllSettled)
  /\ pc = "migrate" /\ cfg = secret /\ verdict = "done"
       => \A r \in Resources \ todo : Rewritten(r)
  /\ pc = "cleanup" /\ cfg = secret => \A r \in Resources : Rewritten(r)
  /\ pc = "save" => Saves

(* A migration of this rotation was created when every API server wrote    *)
(* the new key; one of an earlier rotation has another name.               *)
SvmInv ==
  \A v \in svms :
    /\ v.id[2] <= names
    /\ secret.phase = "Prepared" => v.id[2] # secret.keys[2].name
    /\ secret.phase = "Promoted" /\ v.id = RotationID(secret)
         => AllSettled /\ (v.st \in {"rewritten", "succeeded"} => Rewritten(v.res))

ConfigInv ==
  /\ \A c \in {secret, cache, cfg, next} : Shaped(c) /\ Known(c)
  /\ Near(cache)
  /\ secret.phase = "Idle" => AllSettled

IInv == TypeOK /\ ConfigInv /\ ServerInv /\ DataInv /\ ProcessInv /\ SvmInv

-----------------------------------------------------------------------------
(* Lists of keys.                                                          *)

(* The entries of a list of keys are keys.                                 *)
LEMMA KeysType ==
  ASSUME NEW l \in KeyLists
  PROVE  /\ l \in Seq(Entry) /\ Len(l) \in {1, 2} /\ DOMAIN l = 1 .. Len(l)
         /\ \A i \in 1 .. Len(l) : l[i] \in Entry /\ l[i].name \in Nat
         /\ l[1] \in Entry /\ l[1].name \in Nat
         /\ Len(l) = 2 => l[2] \in Entry /\ l[2].name \in Nat
<1>1. l \in Seq(Entry) /\ Len(l) \in 1 .. 2
  BY Zenon DEF KeyLists
<1>2. DOMAIN l = 1 .. Len(l) /\ Len(l) \in {1, 2}
  BY <1>1
<1>3. \A i \in 1 .. Len(l) : l[i] \in Entry
  BY <1>1
<1>4. \A e \in Entry : e.name \in Nat
  BY Zenon DEF Entry
<1>5. 1 \in 1 .. Len(l) /\ (Len(l) = 2 => 2 \in 1 .. Len(l))
  BY <1>2
<1> QED BY Zenon, <1>1, <1>2, <1>3, <1>4, <1>5

(* A list of one key.                                                      *)
LEMMA OneKey ==
  ASSUME NEW e \in Entry
  PROVE  <<e>> \in KeyLists /\ Len(<<e>>) = 1 /\ Names(<<e>>) = {e.name}
<1>1. <<e>> \in Seq(Entry) /\ Len(<<e>>) = 1 /\ DOMAIN <<e>> = {1} /\ <<e>>[1] = e
  OBVIOUS
<1> QED BY <1>1 DEF KeyLists, Names

(* A list of two keys.                                                     *)
LEMMA TwoKeys ==
  ASSUME NEW e \in Entry, NEW f \in Entry
  PROVE  /\ <<e, f>> \in KeyLists /\ Len(<<e, f>>) = 2
         /\ Names(<<e, f>>) = {e.name, f.name}
<1>1. /\ <<e, f>> \in Seq(Entry) /\ Len(<<e, f>>) = 2 /\ DOMAIN <<e, f>> = {1, 2}
      /\ <<e, f>>[1] = e /\ <<e, f>>[2] = f
  OBVIOUS
<1> QED BY <1>1 DEF KeyLists, Names

(* The names in a list, by its length.                                     *)
LEMMA NamesOf ==
  ASSUME NEW l \in KeyLists
  PROVE  /\ Len(l) = 1 => Names(l) = {l[1].name}
         /\ Len(l) = 2 => Names(l) = {l[1].name, l[2].name}
<1>1. Len(l) = 1 => DOMAIN l = {1}
  BY KeysType
<1>2. Len(l) = 2 => DOMAIN l = {1, 2}
  BY KeysType
<1> QED BY Zenon, <1>1, <1>2 DEF Names

-----------------------------------------------------------------------------
(* Type correctness.                                                       *)

(* A cluster is created with a typed configuration.                        *)
LEMMA InitType == Init => TypeOK
<1> SUFFICES ASSUME Init PROVE TypeOK
  OBVIOUS
<1>1. PICK src \in Sources : /\ secret = NewStaticKeyConfig(src)
                             /\ cache = secret /\ cfg = secret /\ next = secret
                             /\ desired = src
  BY Zenon DEF Init
<1>2. [name |-> 1, mat |-> Material[src]] \in Entry
  BY Zenon DEF Entry
<1>3. <<[name |-> 1, mat |-> Material[src]]>> \in KeyLists
  BY Zenon, <1>2, OneKey
<1>4. secret \in Config
  BY Zenon, <1>1, <1>3 DEF NewStaticKeyConfig, Config, Phases
<1>5. secret.keys \in KeyLists
  BY Zenon, <1>4 DEF Config
<1>6. mounted \in [Servers -> KeyLists] /\ loaded \in [Servers -> KeyLists]
  BY Zenon, <1>5 DEF Init
<1>7. up \in [Servers -> BOOLEAN] /\ data \in [Resources -> Nat]
  BY DEF Init
<1>8. /\ secret \in Config /\ cache \in Config /\ cfg \in Config /\ next \in Config
      /\ desired \in Sources \cup {NoSource}
  BY Zenon, <1>1, <1>4
<1>0. disabled \in BOOLEAN
  BY Zenon DEF Init
<1>9. /\ names \in Nat /\ replacements \in Nat /\ faults \in Nat
      /\ pc \in {"start", "scrape", "migrate", "cleanup", "save"}
      /\ scraped \in SUBSET Servers /\ todo \in SUBSET Resources
      /\ verdict \in {"done", "pending", "blocked"}
  BY DEF Init
<1>10. svms \in SUBSET [res : Resources, id : RotationIDs, st : SvmStates]
  BY Zenon DEF Init
<1> QED BY Zenon, <1>0, <1>6, <1>7, <1>8, <1>9, <1>10 DEF TypeOK

(* What a transition returns is well typed.                                *)
LEMMA TransitionType ==
  ASSUME NEW c \in Config, Shaped(c), names \in Nat
  PROVE  /\ \A src \in Sources : TransitionToPrepared(c, src) \in Config
         /\ c.phase = "Prepared" => TransitionToPromoted(c) \in Config
         /\ c.phase = "Promoted" => TransitionToFinalized(c) \in Config
         /\ TransitionToIdle(c) \in Config
<1>0. c.keys \in KeyLists /\ c.keys[1] \in Entry
  BY Zenon, KeysType DEF Config
<1>1. ASSUME NEW src \in Sources PROVE TransitionToPrepared(c, src) \in Config
  <2>1. [name |-> names + 1, mat |-> Material[src]] \in Entry
    BY DEF Entry
  <2>2. <<c.keys[1], [name |-> names + 1, mat |-> Material[src]]>> \in KeyLists
    BY Zenon, <1>0, <2>1, TwoKeys
  <2> QED BY Zenon, <2>2 DEF TransitionToPrepared, Config, Phases
<1>2. ASSUME c.phase = "Prepared" PROVE TransitionToPromoted(c) \in Config
  <2>1. Len(c.keys) = 2 /\ c.target \in Sources
    BY Zenon, <1>2 DEF Shaped
  <2>2. <<c.keys[2], c.keys[1]>> \in KeyLists
    BY Zenon, <1>0, <2>1, TwoKeys, KeysType
  <2> QED BY Zenon, <2>1, <2>2 DEF TransitionToPromoted, Config, Phases
<1>3. ASSUME c.phase = "Promoted" PROVE TransitionToFinalized(c) \in Config
  <2>1. c.target \in Sources
    BY Zenon, <1>3 DEF Shaped
  <2>2. <<c.keys[1]>> \in KeyLists
    BY Zenon, <1>0, OneKey
  <2> QED BY Zenon, <2>1, <2>2 DEF TransitionToFinalized, Config, Phases
<1>4. TransitionToIdle(c) \in Config
  BY Zenon DEF TransitionToIdle, Config, Phases
<1> QED BY Zenon, <1>1, <1>2, <1>3, <1>4

(* Every step keeps the types; the transitions keep the key lists short.   *)
LEMMA TypeStep == IInv /\ [Next]_vars => TypeOK'
<1> SUFFICES ASSUME IInv, [Next]_vars PROVE TypeOK'
  OBVIOUS
<1> USE DEF ctlVars, serverVars, envVars
<1>0. TypeOK /\ ConfigInv /\ ProcessInv
  BY Zenon DEF IInv
<1>1. CASE ReconcileStable
  <2>1. cache \in Config /\ desired \in Sources /\ names \in Nat
    BY Zenon, <1>0, <1>1 DEF TypeOK, ReconcileStable
  <2>2. next' \in Config
    BY Zenon, <1>0, <1>1, <2>1, TransitionType DEF ConfigInv, ReconcileStable
  <2> QED BY <1>0, <1>1, <2>1, <2>2 DEF TypeOK, ReconcileStable
<1>2. CASE ReconcileInFlight
  BY Zenon, <1>0, <1>2 DEF TypeOK, ReconcileInFlight
<1>3. ASSUME NEW s \in Servers, Scrape(s) PROVE TypeOK'
  BY Zenon, <1>0, <1>3 DEF TypeOK, Scrape
<1>4. CASE ScrapeFails
  BY <1>0, <1>4 DEF TypeOK, ScrapeFails, Fault
<1>5. CASE Verified
  <2>1. cfg \in Config /\ next \in Config /\ names \in Nat
    BY Zenon, <1>0 DEF TypeOK
  <2>2. next' \in Config
    BY Zenon, <1>0, <1>5, <2>1, TransitionType DEF ConfigInv, Verified
  <2>3. /\ todo' \in SUBSET Resources /\ verdict' \in {"done", "pending", "blocked"}
        /\ pc' \in {"start", "scrape", "migrate", "cleanup", "save"}
    BY Zenon, <1>0, <1>5 DEF TypeOK, Verified
  <2> QED BY Zenon, <1>0, <1>5, <2>2, <2>3 DEF TypeOK, Verified
<1>6. ASSUME NEW r \in Resources, MigrateResource(r) PROVE TypeOK'
  <2>1. cfg \in Config /\ pc = "migrate"
    BY Zenon, <1>0, <1>6 DEF TypeOK, MigrateResource
  <2>2. Shaped(cfg) /\ cfg.phase = "Promoted"
    BY Zenon, <1>0, <2>1 DEF ConfigInv, ProcessInv
  <2>3. RotationID(cfg) \in RotationIDs
    <3>1. cfg.keys \in KeyLists /\ Len(cfg.keys) = 2
      BY Zenon, <2>1, <2>2 DEF Config, Shaped
    <3> QED BY Zenon, <3>1, KeysType DEF RotationID, RotationIDs
  <2>4. Svm(r, "running") \in [res : Resources, id : RotationIDs, st : SvmStates]
    BY Zenon, <2>3 DEF Svm, SvmStates
  <2>5. svms' \in SUBSET [res : Resources, id : RotationIDs, st : SvmStates]
    BY Zenon, <1>0, <1>6, <2>4 DEF TypeOK, MigrateResource
  <2>6. todo' \in SUBSET Resources /\ verdict' \in {"done", "pending", "blocked"}
    BY Zenon, <1>0, <1>6 DEF TypeOK, MigrateResource
  <2> QED BY Zenon, <1>0, <1>6, <2>5, <2>6 DEF TypeOK, MigrateResource
<1>7. ASSUME NEW r \in Resources, CleanUp(r) PROVE TypeOK'
  <2>1. cfg \in Config /\ pc = "cleanup"
    BY Zenon, <1>0, <1>7 DEF TypeOK, CleanUp
  <2>2. Shaped(cfg) /\ cfg.phase = "Promoted"
    BY Zenon, <1>0, <2>1 DEF ConfigInv, ProcessInv
  <2>3. RotationID(cfg) \in RotationIDs
    <3>1. cfg.keys \in KeyLists /\ Len(cfg.keys) = 2
      BY Zenon, <2>1, <2>2 DEF Config, Shaped
    <3> QED BY Zenon, <3>1, KeysType DEF RotationID, RotationIDs
  <2>4. Svm(r, "deleting") \in [res : Resources, id : RotationIDs, st : SvmStates]
    BY Zenon, <2>3 DEF Svm, SvmStates
  <2>5. svms' \in SUBSET [res : Resources, id : RotationIDs, st : SvmStates]
    BY Zenon, <1>0, <1>7, <2>4 DEF TypeOK, CleanUp
  <2> QED BY Zenon, <1>0, <1>7, <2>5 DEF TypeOK, CleanUp
<1>8. CASE MigrateEnds
  BY Zenon, <1>0, <1>8 DEF TypeOK, MigrateEnds
<1>9. CASE CleanUpEnds
  <2>1. cfg \in Config /\ names \in Nat /\ cfg.phase = "Promoted"
    BY Zenon, <1>0, <1>9 DEF TypeOK, CleanUpEnds, ProcessInv
  <2>2. next' \in Config
    BY Zenon, <1>0, <1>9, <2>1, TransitionType DEF ConfigInv, CleanUpEnds
  <2> QED BY Zenon, <1>0, <1>9, <2>2 DEF TypeOK, CleanUpEnds
<1>10. CASE Save
  <2>1. secret' \in Config
    BY <1>0, <1>10 DEF TypeOK, Save, Config
  <2> QED BY Zenon, <1>0, <1>10, <2>1 DEF TypeOK, Save
<1>11. CASE CacheSync
  BY Zenon, <1>0, <1>11 DEF TypeOK, CacheSync
<1>12. ASSUME NEW s \in Servers, Mount(s) \/ Reload(s) \/ PodStops(s) \/ PodStarts(s) PROVE TypeOK'
  <2>1. secret.keys \in KeyLists
    BY Zenon, <1>0 DEF TypeOK, Config
  <2>2. mounted' \in [Servers -> KeyLists] /\ loaded' \in [Servers -> KeyLists]
    BY Zenon, <1>0, <1>12, <2>1 DEF TypeOK, Mount, Reload, PodStops, PodStarts
  <2>3. up' \in [Servers -> BOOLEAN]
    BY Zenon, <1>0, <1>12 DEF TypeOK, Mount, Reload, PodStops, PodStarts
  <2>4. replacements' \in Nat
    BY <1>0, <1>12 DEF TypeOK, Mount, Reload, PodStops, PodStarts
  <2> QED BY Zenon, <1>0, <1>12, <2>2, <2>3, <2>4 DEF TypeOK, Mount, Reload, PodStops, PodStarts
<1>13. ASSUME NEW r \in Resources, UserWrites(r) PROVE TypeOK'
  <2>1. \A s \in Servers : WriteKey(loaded[s]) \in Nat
    BY Zenon, <1>0, KeysType DEF TypeOK, WriteKey
  <2> QED BY Zenon, <1>0, <1>13, <2>1 DEF TypeOK, UserWrites
<1>14. ASSUME NEW v \in svms, Rewrite(v) PROVE TypeOK'
  <2>1. \A s \in Servers : WriteKey(loaded[s]) \in Nat
    BY Zenon, <1>0, KeysType DEF TypeOK, WriteKey
  <2>2. data' \in [Resources -> Nat]
    BY Zenon, <1>0, <1>14, <2>1 DEF TypeOK, Rewrite
  <2>3. svms' \in SUBSET [res : Resources, id : RotationIDs, st : SvmStates]
    BY Zenon, <1>0, <1>14 DEF TypeOK, Rewrite, SetSvm, SvmStates
  <2> QED BY Zenon, <1>0, <1>14, <2>2, <2>3 DEF TypeOK, Rewrite
<1>15. ASSUME NEW v \in svms, MigratorReports(v) PROVE TypeOK'
  <2>1. svms' \in SUBSET [res : Resources, id : RotationIDs, st : SvmStates]
    BY <1>0, <1>15 DEF TypeOK, MigratorReports, SetSvm, SvmStates
  <2>2. faults' \in Nat
    BY <1>0, <1>15 DEF TypeOK, MigratorReports, Fault
  <2> QED BY Zenon, <1>0, <1>15, <2>1, <2>2 DEF TypeOK, MigratorReports
<1>16. ASSUME NEW v \in svms, SvmGone(v) PROVE TypeOK'
  BY Zenon, <1>0, <1>16 DEF TypeOK, SvmGone
<1>17. CASE Crash
  BY <1>0, <1>17 DEF TypeOK, Crash, Fault
<1>18. CASE Configure
  BY Zenon, <1>0, <1>18 DEF TypeOK, Configure
<1>19. CASE UNCHANGED vars
  BY Zenon, <1>0, <1>19 DEF TypeOK, vars
<1> QED
  BY Zenon, <1>1, <1>2, <1>3, <1>4, <1>5, <1>6, <1>7, <1>8, <1>9, <1>10, <1>11, <1>12, <1>13,
     <1>14, <1>15, <1>16, <1>17, <1>18, <1>19 DEF Next, Controller, Tenant

-----------------------------------------------------------------------------
(* The other conjuncts, action by action.                                  *)

Inv == ConfigInv /\ ServerInv /\ DataInv /\ ProcessInv /\ SvmInv

(* The invariant holds of a cluster that has just been created.            *)
LEMMA InitInv == Init => Inv
<1> SUFFICES ASSUME Init PROVE Inv
  OBVIOUS
<1>1. PICK src \in Sources : /\ secret = NewStaticKeyConfig(src)
                             /\ cache = secret /\ cfg = secret /\ next = secret
                             /\ names = 1 /\ pc = "start" /\ svms = {}
                             /\ mounted = [s \in Servers |-> secret.keys] /\ loaded = mounted
                             /\ data = [r \in Resources |-> 1]
  BY Zenon DEF Init
<1>2. /\ secret.phase = "Idle" /\ secret.keys = <<[name |-> 1, mat |-> Material[src]]>>
      /\ Len(secret.keys) = 1 /\ DOMAIN secret.keys = {1} /\ secret.keys[1].name = 1
  BY <1>1 DEF NewStaticKeyConfig
<1>3. AllSettled
  BY Zenon, <1>1 DEF AllSettled, Settled
<1>4. ConfigInv
  BY SMTT(30), <1>1, <1>2, <1>3 DEF ConfigInv, Shaped, Known, Near
<1>5. ServerInv
  BY Zenon, <1>1 DEF ServerInv, Allowed
<1>6. DataInv
  BY Zenon, <1>1, <1>2 DEF DataInv, Rewritten, WriteKey
<1>7. ProcessInv
  BY Zenon, <1>1 DEF ProcessInv
<1>8. SvmInv
  BY Zenon, <1>1 DEF SvmInv
<1> QED BY Zenon, <1>4, <1>5, <1>6, <1>7, <1>8 DEF Inv

(* What the reconcile only holds in memory concerns ProcessInv alone.      *)
LEMMA Frame ==
  ASSUME IInv, UNCHANGED <<secret, cache, names, cfg, next, svms, serverVars, data>>
  PROVE  ConfigInv' /\ ServerInv' /\ DataInv' /\ SvmInv'
<1> USE DEF serverVars
<1>1. ConfigInv'
  BY DEF IInv, ConfigInv, Shaped, Known, Near, AllSettled, Settled
<1>2. ServerInv'
  BY Zenon DEF IInv, ServerInv, Allowed
<1>3. DataInv'
  BY Zenon DEF IInv, DataInv, Rewritten
<1>4. SvmInv'
  BY Zenon DEF IInv, SvmInv, AllSettled, Settled, Rewritten
<1> QED BY Zenon, <1>1, <1>2, <1>3, <1>4

(* A reconcile that ends leaves nothing to show.                           *)
LEMMA Stops ==
  ASSUME IInv, pc' = "start",
         UNCHANGED <<secret, cache, names, cfg, next, svms, serverVars, data>>
  PROVE  Inv'
<1>1. ProcessInv'
  BY Zenon DEF ProcessInv
<1> QED BY Zenon, <1>1, Frame DEF Inv

(* A prepared list still reads everything that is stored.                  *)
LEMMA ReconcileStableInv == ASSUME IInv, ReconcileStable PROVE Inv'
<1> USE DEF envVars, serverVars
<1>0. TypeOK /\ ConfigInv /\ ServerInv /\ DataInv /\ ProcessInv /\ SvmInv
  BY Zenon DEF IInv
<1>1. /\ cache \in Config /\ desired \in Sources /\ names \in Nat
      /\ cache.phase = "Idle" /\ Shaped(cache) /\ Known(cache) /\ Near(cache)
  BY Zenon, <1>0 DEF TypeOK, ReconcileStable, ConfigInv
<1>2. /\ cache.keys \in KeyLists /\ Len(cache.keys) = 1 /\ DOMAIN cache.keys = {1}
      /\ cache.keys[1] \in Entry /\ cache.keys[1].name \in 1 .. names
  BY <1>1, KeysType DEF Config, Shaped, Known
<1>3. UNCHANGED <<secret, cache, up, mounted, loaded, data, svms>> /\ cfg' = cache /\ pc' = "save"
  BY Zenon DEF ReconcileStable
<1>4. names' \in Nat /\ names <= names'
  BY <1>1 DEF ReconcileStable
<1>5. /\ next'.rv = cache.rv
      /\ \/ next'.phase = "Idle" /\ next'.keys = cache.keys
         \/ /\ next'.phase = "Prepared" /\ next'.target \in Sources
            /\ next'.keys = <<cache.keys[1], [name |-> names + 1, mat |-> Material[desired]]>>
            /\ names' = names + 1
  BY Zenon, <1>1 DEF ReconcileStable, TransitionToPrepared, Config
<1>6. Shaped(next')
  BY <1>1, <1>2, <1>5 DEF Shaped
<1>7. \A i \in DOMAIN next'.keys : next'.keys[i].name \in 1 .. names'
  <2>1. CASE next'.keys = cache.keys
    BY <1>1, <1>2, <1>4, <2>1
  <2>2. CASE /\ next'.keys = <<cache.keys[1], [name |-> names + 1, mat |-> Material[desired]]>>
             /\ names' = names + 1
    <3>1. /\ DOMAIN next'.keys = {1, 2} /\ next'.keys[1] = cache.keys[1]
          /\ next'.keys[2].name = names + 1
      BY <2>2
    <3> QED BY <1>1, <1>2, <2>2, <3>1
  <2> QED BY Zenon, <1>5, <2>1, <2>2
<1>8. ConfigInv'
  <2>1. \A c \in {secret, cache} : Shaped(c) /\ Known(c)'
    BY <1>0, <1>1, <1>3, <1>4 DEF ConfigInv, Known
  <2>2. Known(next)'
    BY Zenon, <1>7 DEF Known
  <2>3. \A c \in {secret, cache, cfg, next}' : Shaped(c) /\ Known(c)'
    BY Zenon, <1>3, <1>6, <2>1, <2>2
  <2>4. Near(cache)' /\ (secret.phase = "Idle" => AllSettled)'
    BY Zenon, <1>0, <1>3 DEF ConfigInv, Near, AllSettled, Settled
  <2> QED BY Zenon, <2>3, <2>4 DEF ConfigInv, Shaped
<1>9. ServerInv'
  BY Zenon, <1>0, <1>3 DEF ServerInv, Allowed
<1>10. DataInv'
  BY Zenon, <1>0, <1>3 DEF DataInv, Rewritten
<1>11. Saves'
  <2>1. CASE next'.phase = "Idle" /\ next'.keys = cache.keys
    BY Zenon, <1>1, <1>3, <1>5, <2>1 DEF Saves, SavesIdle
  <2>2. CASE /\ next'.phase = "Prepared"
             /\ next'.keys = <<cache.keys[1], [name |-> names + 1, mat |-> Material[desired]]>>
             /\ names' = names + 1
    <3>1. next'.keys[2].name = names' /\ next'.keys = <<cache.keys[1], next'.keys[2]>>
      BY <2>2
    <3>2. cache.keys[1].name < names'
      BY <1>1, <1>2, <2>2
    <3>3. \A v \in svms : v.id[2] < names'
      <4> SUFFICES ASSUME NEW v \in svms PROVE v.id[2] < names'
        OBVIOUS
      <4>1. v.id[2] \in Nat /\ v.id[2] <= names
        BY Zenon, <1>0 DEF TypeOK, RotationIDs, SvmInv
      <4> QED BY <1>1, <2>2, <4>1
    <3> QED BY Zenon, <1>1, <1>3, <1>5, <2>2, <3>1, <3>2, <3>3 DEF Saves, SavesPrepared
  <2> QED BY Zenon, <1>5, <2>1, <2>2
<1>12. ProcessInv'
  <2>1. Near(cfg)' /\ (cfg.rv <= cache.rv)'
    BY <1>1, <1>3 DEF Near, Config
  <2> QED BY Zenon, <1>3, <1>11, <2>1 DEF ProcessInv
<1>13. SvmInv'
  <2> SUFFICES ASSUME NEW v \in svms
               PROVE  /\ v.id[2] <= names'
                      /\ secret.phase = "Prepared" => v.id[2] # secret.keys[2].name
                      /\ secret.phase = "Promoted" /\ v.id = RotationID(secret)
                           => AllSettled' /\ (v.st \in {"rewritten", "succeeded"} => Rewritten(v.res)')
    BY Zenon, <1>3 DEF SvmInv, RotationID
  <2>1. v.id[2] \in Nat /\ v.id[2] <= names
    BY Zenon, <1>0 DEF TypeOK, RotationIDs, SvmInv
  <2>2. v.id[2] <= names'
    BY <1>1, <1>4, <2>1
  <2> QED BY Zenon, <1>0, <1>3, <2>2 DEF SvmInv, AllSettled, Settled, Rewritten
<1> QED BY Zenon, <1>8, <1>9, <1>10, <1>12, <1>13 DEF Inv

(* The key that encrypts has a name that was generated.                    *)
LEMMA FirstKnown ==
  ASSUME NEW c, c.keys \in KeyLists, Known(c)
  PROVE  c.keys[1].name \in 1 .. names /\ c.keys[1].name <= names
<1>1. 1 \in DOMAIN c.keys
  BY KeysType
<1>2. c.keys[1].name \in 1 .. names
  BY Zenon, <1>1 DEF Known
<1> QED BY <1>2

(* ConfigInv depends on the copy that the reconcile works on only by its   *)
(* shape.                                                                  *)
LEMMA ReconcileInFlightInv == ASSUME IInv, ReconcileInFlight PROVE Inv'
<1> USE DEF envVars, serverVars
<1>0. TypeOK /\ ConfigInv /\ ServerInv /\ DataInv /\ SvmInv
  BY Zenon DEF IInv
<1>1. /\ UNCHANGED <<secret, cache, names, next, svms, up, mounted, loaded, data>>
      /\ cfg' = cache /\ pc' = "scrape" /\ scraped' = {}
  BY Zenon DEF ReconcileInFlight
<1>2. ConfigInv'
  BY <1>0, <1>1 DEF ConfigInv, Shaped, Known, Near, AllSettled, Settled
<1>3. ServerInv' /\ DataInv'
  BY Zenon, <1>0, <1>1 DEF ServerInv, Allowed, DataInv, Rewritten
<1>4. SvmInv'
  BY Zenon, <1>0, <1>1 DEF SvmInv, AllSettled, Settled, Rewritten
<1>5. Near(cache) /\ cache \in Config
  BY Zenon, <1>0 DEF ConfigInv, TypeOK
<1>6. Near(cfg)' /\ (cfg.rv <= cache.rv)'
  BY <1>1, <1>5 DEF Near, Config
<1>7. ProcessInv'
  BY Zenon, <1>1, <1>6 DEF ProcessInv
<1> QED BY Zenon, <1>2, <1>3, <1>4, <1>7 DEF Inv

(* A pod that shows the hash of the current list is settled on it.         *)
LEMMA ScrapeInv == ASSUME IInv, NEW s \in Servers, Scrape(s) PROVE Inv'
<1> USE DEF envVars, serverVars
<1>0. ServerInv /\ ProcessInv
  BY Zenon DEF IInv
<1>1. /\ UNCHANGED <<secret, cache, names, pc, cfg, next, svms, serverVars, data>>
      /\ pc = "scrape" /\ up[s] /\ loaded[s] = cfg.keys /\ scraped' = scraped \cup {s}
  BY Zenon DEF Scrape
<1>2. cfg = secret => Settled(s)
  BY Zenon, <1>0, <1>1 DEF ServerInv, Settled
<1>3. ProcessInv'
  BY Zenon, <1>0, <1>1, <1>2 DEF ProcessInv, Near, Settled
<1> QED BY Zenon, <1>1, <1>3, Frame DEF Inv

(* Once all pods have answered, all of them are settled.                   *)
LEMMA VerifiedInv == ASSUME IInv, Verified PROVE Inv'
<1> USE DEF envVars, serverVars
<1>0. TypeOK /\ ConfigInv /\ ServerInv /\ DataInv /\ ProcessInv /\ SvmInv
  BY Zenon DEF IInv
<1>1. UNCHANGED <<secret, cache, names, cfg, svms, up, mounted, loaded, data>>
  BY Zenon DEF Verified
<1>2. cfg = secret => AllSettled
  BY Zenon, <1>0 DEF Verified, ProcessInv, AllSettled
<1>3. /\ cfg \in Config /\ Shaped(cfg) /\ Known(cfg) /\ Near(cfg) /\ cfg.rv <= cache.rv
      /\ cfg.keys \in KeyLists
  BY Zenon, <1>0 DEF TypeOK, ConfigInv, ProcessInv, Verified, Config
<1>4. Shaped(next') /\ \A i \in DOMAIN next'.keys : next'.keys[i].name \in 1 .. names
  <2>1. CASE cfg.phase = "Prepared" /\ next' = TransitionToPromoted(cfg)
    <3>1. /\ next'.phase = "Promoted" /\ next'.keys = <<cfg.keys[2], cfg.keys[1]>>
          /\ next'.target = cfg.target
      BY Zenon, <1>3, <2>1 DEF TransitionToPromoted, Config
    <3>2. /\ Len(cfg.keys) = 2 /\ DOMAIN cfg.keys = {1, 2}
          /\ cfg.keys[1].name # cfg.keys[2].name /\ cfg.target \in Sources
      BY <1>3, <2>1, KeysType DEF Shaped
    <3>3. /\ Len(next'.keys) = 2 /\ DOMAIN next'.keys = {1, 2}
          /\ next'.keys[1] = cfg.keys[2] /\ next'.keys[2] = cfg.keys[1]
      BY <3>1
    <3> QED BY Zenon, <1>3, <3>1, <3>2, <3>3 DEF Shaped, Known
  <2>2. CASE cfg.phase = "Promoted" /\ UNCHANGED next
    BY Zenon, <1>0, <2>2 DEF ConfigInv, Known, Shaped
  <2>3. CASE cfg.phase = "Finalized" /\ next' = TransitionToIdle(cfg)
    <3>1. next'.phase = "Idle" /\ next'.keys = cfg.keys
      BY Zenon, <1>3, <2>3 DEF TransitionToIdle, Config
    <3> QED BY Zenon, <1>3, <2>3, <3>1 DEF Shaped, Known
  <2> QED BY Zenon, <2>1, <2>2, <2>3 DEF Verified
<1>5. ConfigInv'
  <2>1. \A c \in {secret, cache, cfg}' : Shaped(c) /\ Known(c)'
    BY Zenon, <1>0, <1>1 DEF ConfigInv, Known
  <2>2. \A c \in {secret, cache, cfg, next}' : Shaped(c) /\ Known(c)'
    BY Zenon, <1>1, <1>4, <2>1 DEF Known
  <2>3. Near(cache)' /\ (secret.phase = "Idle" => AllSettled)'
    BY Zenon, <1>0, <1>1 DEF ConfigInv, Near, AllSettled, Settled
  <2> QED BY Zenon, <2>2, <2>3 DEF ConfigInv, Shaped
<1>6. ServerInv' /\ DataInv'
  BY Zenon, <1>0, <1>1 DEF ServerInv, Allowed, DataInv, Rewritten
<1>7. SvmInv'
  BY Zenon, <1>0, <1>1 DEF SvmInv, AllSettled, Settled, Rewritten
<1>8. (cfg = secret => AllSettled)' /\ Near(cfg)' /\ (cfg.rv <= cache.rv)'
  BY Zenon, <1>1, <1>2, <1>3 DEF AllSettled, Settled, Near
<1>9. ProcessInv'
  <2>1. CASE pc' = "save"
    <3>1. Saves'
      BY Zenon, <1>1, <1>8, <2>1 DEF Verified, Saves, SavesPromoted, SavesFinished,
         TransitionToPromoted, TransitionToIdle
    <3> QED BY Zenon, <1>8, <2>1, <3>1 DEF ProcessInv
  <2>2. CASE pc' = "migrate"
    <3>1. cfg'.phase = "Promoted" /\ todo' = Resources
      BY Zenon, <1>1, <2>2 DEF Verified
    <3> QED BY Zenon, <1>8, <2>2, <3>1 DEF ProcessInv
  <2> QED BY Zenon, <2>1, <2>2 DEF Verified
<1> QED BY Zenon, <1>5, <1>6, <1>7, <1>9 DEF Inv

(* A migration of this rotation starts after all pods are settled.         *)
LEMMA MigrateResourceInv == ASSUME IInv, NEW r \in Resources, MigrateResource(r) PROVE Inv'
<1> USE DEF envVars, serverVars
<1>0. TypeOK /\ ConfigInv /\ ServerInv /\ DataInv /\ ProcessInv /\ SvmInv
  BY Zenon DEF IInv
<1>1. /\ UNCHANGED <<secret, cache, names, pc, cfg, next, up, mounted, loaded, data>>
      /\ pc = "migrate" /\ todo' = todo \ {r}
  BY Zenon DEF MigrateResource
<1>2. /\ cfg.phase = "Promoted" /\ Near(cfg) /\ (cfg = secret => AllSettled)
      /\ Shaped(cfg) /\ Known(cfg) /\ cfg.keys \in KeyLists
  BY Zenon, <1>0, <1>1 DEF ProcessInv, ConfigInv, TypeOK, Config
<1>3. RotationID(cfg)[2] = cfg.keys[1].name /\ cfg.keys[1].name <= names
  BY Zenon, <1>2, FirstKnown DEF RotationID
<1>4. ConfigInv'
  BY <1>0, <1>1 DEF ConfigInv, Shaped, Known, Near, AllSettled, Settled
<1>5. ServerInv' /\ DataInv'
  BY Zenon, <1>0, <1>1 DEF ServerInv, Allowed, DataInv, Rewritten
<1>6. SvmInv'
  <2>1. AllSettled' <=> AllSettled
    BY Zenon, <1>1 DEF AllSettled, Settled
  <2>2. \A x : Rewritten(x)' <=> Rewritten(x)
    BY Zenon, <1>1 DEF Rewritten
  <2>3. ASSUME NEW v \in svms
        PROVE  /\ v.id[2] <= names
               /\ secret.phase = "Prepared" => v.id[2] # secret.keys[2].name
               /\ secret.phase = "Promoted" /\ v.id = RotationID(secret)
                    => AllSettled' /\ (v.st \in {"rewritten", "succeeded"} => Rewritten(v.res)')
    BY Zenon, <1>0, <2>1, <2>2 DEF SvmInv
  <2>4. ASSUME NEW v, v = Svm(r, "running")
        PROVE  /\ v.id[2] <= names
               /\ secret.phase = "Prepared" => v.id[2] # secret.keys[2].name
               /\ secret.phase = "Promoted" /\ v.id = RotationID(secret)
                    => AllSettled' /\ (v.st \in {"rewritten", "succeeded"} => Rewritten(v.res)')
    <3>1. v.id = RotationID(cfg) /\ v.st = "running"
      BY Zenon, <2>4 DEF Svm
    <3>2. secret.phase # "Prepared" /\ (secret.phase = "Promoted" => AllSettled)
      BY Zenon, <1>2 DEF Near
    <3> QED BY Zenon, <1>3, <2>1, <3>1, <3>2
  <2>5. \A v \in svms' : v \in svms \/ v = Svm(r, "running")
    BY Zenon DEF MigrateResource
  <2> QED BY Zenon, <1>1, <2>3, <2>4, <2>5 DEF SvmInv, RotationID
<1>7. cfg = secret /\ Svm(r, "succeeded") \in svms => Rewritten(r)
  <2> SUFFICES ASSUME cfg = secret, Svm(r, "succeeded") \in svms PROVE Rewritten(r)
    OBVIOUS
  <2>1. /\ Svm(r, "succeeded").id = RotationID(secret) /\ Svm(r, "succeeded").res = r
        /\ Svm(r, "succeeded").st = "succeeded"
    BY Zenon DEF Svm
  <2> QED BY Zenon, <1>0, <1>2, <2>1 DEF SvmInv
<1>8. verdict' = "done" => verdict = "done" /\ Svm(r, "succeeded") \in svms
  BY Zenon, <1>0 DEF MigrateResource, TypeOK
<1>9. ProcessInv'
  <2>1. /\ Near(cfg)' /\ (cfg.rv <= cache.rv)' /\ (cfg.phase = "Promoted")'
        /\ (cfg = secret => AllSettled)'
    BY Zenon, <1>0, <1>1, <1>2 DEF ProcessInv, Near, AllSettled, Settled
  <2>2. ASSUME cfg' = secret', verdict' = "done", NEW x \in Resources \ todo'
        PROVE  Rewritten(x)'
    <3>1. Rewritten(x)
      BY Zenon, <1>0, <1>1, <1>7, <1>8, <2>2 DEF ProcessInv
    <3> QED BY Zenon, <1>1, <3>1 DEF Rewritten
  <2> QED BY Zenon, <1>1, <2>1, <2>2 DEF ProcessInv
<1> QED BY Zenon, <1>4, <1>5, <1>6, <1>9 DEF Inv

(* The loop ends well only when every resource has been rewritten.         *)
LEMMA MigrateEndsInv == ASSUME IInv, MigrateEnds PROVE Inv'
<1> USE DEF envVars, serverVars
<1>0. ProcessInv
  BY Zenon DEF IInv
<1>1. /\ UNCHANGED <<secret, cache, names, cfg, next, svms, serverVars, data>>
      /\ pc = "migrate" /\ todo = {} /\ pc' \in {"start", "cleanup"}
      /\ pc' = "cleanup" => verdict = "done"
  BY Zenon DEF MigrateEnds
<1>2. ProcessInv'
  BY Zenon, <1>0, <1>1 DEF ProcessInv, Near, AllSettled, Settled, Rewritten
<1> QED BY Zenon, <1>1, <1>2, Frame DEF Inv

(* Removing finished migrations loses nothing that is relied on.           *)
LEMMA CleanUpInv == ASSUME IInv, NEW r \in Resources, CleanUp(r) PROVE Inv'
<1> USE DEF envVars, serverVars
<1>0. TypeOK /\ ConfigInv /\ ServerInv /\ DataInv /\ ProcessInv /\ SvmInv
  BY Zenon DEF IInv
<1>1. /\ UNCHANGED <<secret, cache, names, pc, cfg, next, up, mounted, loaded, data, verdict>>
      /\ pc = "cleanup"
  BY Zenon DEF CleanUp
<1>2. /\ cfg.phase = "Promoted" /\ Near(cfg) /\ (cfg = secret => AllSettled)
      /\ Shaped(cfg) /\ Known(cfg) /\ cfg.keys \in KeyLists
  BY Zenon, <1>0, <1>1 DEF ProcessInv, ConfigInv, TypeOK, Config
<1>3. RotationID(cfg)[2] = cfg.keys[1].name /\ cfg.keys[1].name <= names
  BY Zenon, <1>2, FirstKnown DEF RotationID
<1>4. ConfigInv'
  BY <1>0, <1>1 DEF ConfigInv, Shaped, Known, Near, AllSettled, Settled
<1>5. ServerInv' /\ DataInv'
  BY Zenon, <1>0, <1>1 DEF ServerInv, Allowed, DataInv, Rewritten
<1>6. SvmInv'
  <2>1. AllSettled' <=> AllSettled
    BY Zenon, <1>1 DEF AllSettled, Settled
  <2>2. \A x : Rewritten(x)' <=> Rewritten(x)
    BY Zenon, <1>1 DEF Rewritten
  <2>3. ASSUME NEW v \in svms
        PROVE  /\ v.id[2] <= names
               /\ secret.phase = "Prepared" => v.id[2] # secret.keys[2].name
               /\ secret.phase = "Promoted" /\ v.id = RotationID(secret)
                    => AllSettled' /\ (v.st \in {"rewritten", "succeeded"} => Rewritten(v.res)')
    BY Zenon, <1>0, <2>1, <2>2 DEF SvmInv
  <2>4. ASSUME NEW v, v = Svm(r, "deleting")
        PROVE  /\ v.id[2] <= names
               /\ secret.phase = "Prepared" => v.id[2] # secret.keys[2].name
               /\ secret.phase = "Promoted" /\ v.id = RotationID(secret)
                    => AllSettled' /\ (v.st \in {"rewritten", "succeeded"} => Rewritten(v.res)')
    <3>1. v.id = RotationID(cfg) /\ v.st = "deleting"
      BY Zenon, <2>4 DEF Svm
    <3>2. secret.phase # "Prepared" /\ (secret.phase = "Promoted" => AllSettled)
      BY Zenon, <1>2 DEF Near
    <3> QED BY Zenon, <1>3, <2>1, <3>1, <3>2
  <2>5. \A v \in svms' : v \in svms \/ v = Svm(r, "deleting")
    BY Zenon DEF CleanUp
  <2> QED BY Zenon, <1>1, <2>3, <2>4, <2>5 DEF SvmInv, RotationID
<1>7. ProcessInv'
  BY Zenon, <1>0, <1>1 DEF ProcessInv, Near, AllSettled, Settled, Rewritten
<1> QED BY Zenon, <1>4, <1>5, <1>6, <1>7 DEF Inv

(* The old key is dropped from a list nothing is stored under.             *)
LEMMA CleanUpEndsInv == ASSUME IInv, CleanUpEnds PROVE Inv'
<1> USE DEF envVars, serverVars
<1>0. TypeOK /\ ConfigInv /\ ServerInv /\ DataInv /\ ProcessInv /\ SvmInv
  BY Zenon DEF IInv
<1>1. /\ UNCHANGED <<secret, cache, names, cfg, svms, up, mounted, loaded, data>>
      /\ pc = "cleanup" /\ pc' = "save" /\ next' = TransitionToFinalized(cfg)
  BY Zenon DEF CleanUpEnds
<1>2. /\ cfg.phase = "Promoted" /\ Near(cfg) /\ cfg.rv <= cache.rv
      /\ cfg = secret => AllSettled /\ \A r \in Resources : Rewritten(r)
      /\ cfg \in Config /\ Shaped(cfg) /\ Known(cfg) /\ cfg.keys \in KeyLists
  BY Zenon, <1>0, <1>1 DEF ProcessInv, ConfigInv, TypeOK, Config
<1>3. next'.phase = "Finalized" /\ next'.keys = <<cfg.keys[1]>> /\ next'.target = cfg.target
  BY Zenon, <1>1, <1>2 DEF TransitionToFinalized, Config
<1>4. /\ Len(next'.keys) = 1 /\ DOMAIN next'.keys = {1} /\ next'.keys[1] = cfg.keys[1]
      /\ cfg.keys[1].name \in 1 .. names
  <2>1. cfg.keys[1].name \in 1 .. names
    BY Zenon, <1>2, FirstKnown
  <2>2. Len(<<cfg.keys[1]>>) = 1 /\ DOMAIN <<cfg.keys[1]>> = {1} /\ <<cfg.keys[1]>>[1] = cfg.keys[1]
    OBVIOUS
  <2> QED
    BY Zenon, <1>3, <2>1, <2>2
<1>5. Shaped(next') /\ \A i \in DOMAIN next'.keys : next'.keys[i].name \in 1 .. names
  BY Zenon, <1>2, <1>3, <1>4 DEF Shaped
<1>6. ConfigInv'
  <2>1. \A c \in {secret, cache, cfg}' : Shaped(c) /\ Known(c)'
    BY Zenon, <1>0, <1>1 DEF ConfigInv, Known
  <2>2. \A c \in {secret, cache, cfg, next}' : Shaped(c) /\ Known(c)'
    BY Zenon, <1>1, <1>5, <2>1 DEF Known
  <2>3. Near(cache)' /\ (secret.phase = "Idle" => AllSettled)'
    BY Zenon, <1>0, <1>1 DEF ConfigInv, Near, AllSettled, Settled
  <2> QED BY Zenon, <2>2, <2>3 DEF ConfigInv, Shaped
<1>7. ServerInv' /\ DataInv'
  BY Zenon, <1>0, <1>1 DEF ServerInv, Allowed, DataInv, Rewritten
<1>8. SvmInv'
  BY Zenon, <1>0, <1>1 DEF SvmInv, AllSettled, Settled, Rewritten
<1>9. /\ Near(cfg)' /\ (cfg.rv <= cache.rv)'
      /\ (cfg = secret => AllSettled /\ \A r \in Resources : Rewritten(r))'
  BY Zenon, <1>1, <1>2 DEF AllSettled, Settled, Near, Rewritten
<1>10. Saves'
  BY Zenon, <1>1, <1>2, <1>9 DEF Saves, SavesFinalized, TransitionToFinalized
<1>11. ProcessInv'
  BY Zenon, <1>1, <1>9, <1>10 DEF ProcessInv
<1> QED BY Zenon, <1>6, <1>7, <1>8, <1>11 DEF Inv

(* A newer informer copy is the Secret itself.                             *)
LEMMA CacheSyncInv == ASSUME IInv, CacheSync PROVE Inv'
<1> USE DEF envVars, serverVars, ctlVars
<1>0. TypeOK /\ ConfigInv /\ ServerInv /\ DataInv /\ ProcessInv /\ SvmInv
  BY Zenon DEF IInv
<1>1. /\ UNCHANGED <<secret, names, pc, cfg, next, scraped, todo, verdict, svms,
                     up, mounted, loaded, data>>
      /\ cache' = secret
  BY Zenon DEF CacheSync
<1>2. ConfigInv'
  BY <1>0, <1>1 DEF ConfigInv, Shaped, Known, Near, AllSettled, Settled
<1>3. ServerInv' /\ DataInv'
  BY Zenon, <1>0, <1>1 DEF ServerInv, Allowed, DataInv, Rewritten
<1>4. SvmInv'
  BY Zenon, <1>0, <1>1 DEF SvmInv, AllSettled, Settled, Rewritten
<1>5. pc # "start" => Near(cfg)' /\ cfg'.rv <= cache'.rv
  BY <1>0, <1>1 DEF ProcessInv, Near, TypeOK, Config
<1>6. Saves' <=> Saves
  BY Zenon, <1>1 DEF Saves, SavesIdle, SavesPrepared, SavesPromoted, SavesFinalized, SavesFinished,
     TransitionToPromoted, TransitionToFinalized, TransitionToIdle, AllSettled, Settled, Rewritten
<1>7. ProcessInv'
  BY Zenon, <1>0, <1>1, <1>5, <1>6 DEF ProcessInv, AllSettled, Settled, Rewritten
<1> QED BY Zenon, <1>2, <1>3, <1>4, <1>7 DEF Inv

-----------------------------------------------------------------------------
(* The tenant control plane.                                               *)

(* Mounts, reloads and replaced pods only move towards the Secret.         *)
LEMMA ServersInv ==
  ASSUME IInv, NEW s \in Servers, Mount(s) \/ Reload(s) \/ PodStops(s) \/ PodStarts(s)
  PROVE  Inv'
<1> USE DEF envVars, ctlVars
<1>0. TypeOK /\ ConfigInv /\ ServerInv /\ DataInv /\ ProcessInv /\ SvmInv
  BY Zenon DEF IInv
<1>1. UNCHANGED <<secret, cache, names, pc, cfg, next, scraped, todo, verdict, svms, data>>
  BY Zenon DEF Mount, Reload, PodStops, PodStarts
<1>2. /\ up \in [Servers -> BOOLEAN] /\ mounted \in [Servers -> KeyLists]
      /\ loaded \in [Servers -> KeyLists]
  BY Zenon, <1>0 DEF TypeOK
<1>3. \A x \in Servers : Settled(x) => Settled(x)'
  BY Zenon, <1>1, <1>2 DEF Settled, Mount, Reload, PodStops, PodStarts
<1>4. AllSettled => AllSettled'
  BY Zenon, <1>3 DEF AllSettled
<1>5. ConfigInv'
  BY SMTT(30), <1>0, <1>1, <1>4 DEF ConfigInv, Shaped, Known, Near
<1>6. ServerInv'
  <2> SUFFICES ASSUME NEW x \in Servers, up'[x]
               PROVE  /\ Allowed(loaded'[x]) /\ Allowed(mounted'[x])
                      /\ loaded'[x] = secret.keys => mounted'[x] = secret.keys
    BY Zenon, <1>1 DEF ServerInv, Allowed
  <2>1. Allowed(secret.keys)
    BY Zenon DEF Allowed
  <2>2. CASE x # s
    BY Zenon, <1>0, <1>2, <2>2 DEF ServerInv, Mount, Reload, PodStops, PodStarts
  <2>3. CASE x = s
    BY Zenon, <1>0, <1>2, <2>1, <2>3 DEF ServerInv, Mount, Reload, PodStops, PodStarts
  <2> QED BY Zenon, <2>2, <2>3
<1>7. DataInv'
  BY Zenon, <1>0, <1>1 DEF DataInv, Rewritten
<1>8. \A r : Rewritten(r)' <=> Rewritten(r)
  BY Zenon, <1>1 DEF Rewritten
<1>9. Saves => Saves'
  BY Zenon, <1>1, <1>4, <1>8 DEF Saves, SavesIdle, SavesPrepared, SavesPromoted, SavesFinalized,
     SavesFinished, TransitionToPromoted, TransitionToFinalized, TransitionToIdle
<1>10. ProcessInv'
  <2>1. scraped \in SUBSET Servers
    BY Zenon, <1>0 DEF TypeOK
  <2> QED BY Zenon, <1>0, <1>1, <1>3, <1>4, <1>8, <1>9, <2>1 DEF ProcessInv, Near
<1>11. SvmInv'
  BY ZenonT(40), <1>0, <1>1, <1>4, <1>8 DEF SvmInv, RotationID
<1> QED BY Zenon, <1>5, <1>6, <1>7, <1>10, <1>11 DEF Inv

(* The key an API server writes with: the one every object is stored under *)
(* except in Promoted, and the new one once all servers have settled.      *)
LEMMA WritesWith ==
  ASSUME IInv, NEW s \in Servers, up[s]
  PROVE  /\ secret.phase # "Promoted" => WriteKey(loaded[s]) = WriteKey(secret.keys)
         /\ secret.phase = "Promoted" => WriteKey(loaded[s]) \in Names(secret.keys)
         /\ AllSettled => WriteKey(loaded[s]) = WriteKey(secret.keys)
<1>0. Allowed(loaded[s]) /\ Shaped(secret) /\ secret.keys \in KeyLists
  BY Zenon DEF IInv, ServerInv, ConfigInv, TypeOK, Config
<1>1. ASSUME secret.phase # "Promoted" PROVE WriteKey(loaded[s]) = WriteKey(secret.keys)
  BY <1>0, <1>1 DEF Allowed, WriteKey
<1>2. ASSUME secret.phase = "Promoted" PROVE WriteKey(loaded[s]) \in Names(secret.keys)
  <2>1. Names(secret.keys) = {secret.keys[1].name, secret.keys[2].name}
    BY Zenon, <1>0, <1>2, NamesOf DEF Shaped
  <2> QED BY <1>0, <1>2, <2>1 DEF Allowed, WriteKey
<1>3. AllSettled => WriteKey(loaded[s]) = WriteKey(secret.keys)
  BY Zenon DEF AllSettled, Settled
<1> QED BY Zenon, <1>1, <1>2, <1>3

(* What a write through an API server keeps.                               *)
LEMMA WriteInv ==
  ASSUME IInv, NEW r \in Resources, NEW s \in Servers, up[s],
         data' = [data EXCEPT ![r] = WriteKey(loaded[s])],
         UNCHANGED <<secret, cache, names, ctlVars, serverVars>>,
         \A v \in svms' : \E w \in svms : v.id = w.id
  PROVE  /\ ConfigInv' /\ ServerInv' /\ DataInv' /\ ProcessInv'
         /\ AllSettled' <=> AllSettled
         /\ AllSettled => /\ Rewritten(r)'
                          /\ \A x \in Resources : Rewritten(x) => Rewritten(x)'
<1> USE DEF ctlVars, serverVars
<1>0. TypeOK /\ ConfigInv /\ ServerInv /\ DataInv /\ ProcessInv /\ SvmInv
  BY Zenon DEF IInv
<1>1. /\ data \in [Resources -> Nat]
      /\ \A x \in Resources : data'[x] = IF x = r THEN WriteKey(loaded[s]) ELSE data[x]
  BY Zenon, <1>0 DEF TypeOK
<1>2. AllSettled' <=> AllSettled
  BY Zenon DEF AllSettled, Settled
<1>3. AllSettled => Rewritten(r)' /\ \A x \in Resources : Rewritten(x) => Rewritten(x)'
  BY Zenon, <1>1, WritesWith DEF Rewritten
<1>4. ConfigInv'
  BY <1>0, <1>2 DEF ConfigInv, Shaped, Known, Near
<1>5. ServerInv'
  BY Zenon, <1>0 DEF ServerInv, Allowed
<1>6. DataInv'
  <2> SUFFICES ASSUME NEW x \in Resources
               PROVE  IF secret.phase = "Promoted" THEN data'[x] \in Names(secret.keys)
                      ELSE data'[x] = WriteKey(secret.keys)
    BY Zenon DEF DataInv, Rewritten
  <2> QED BY Zenon, <1>0, <1>1, WritesWith DEF DataInv, Rewritten
<1>7. Saves => Saves'
  <2>1. SavesPrepared => SavesPrepared'
    BY Zenon DEF SavesPrepared
  <2>2. SavesFinalized => SavesFinalized'
    BY Zenon, <1>2, <1>3 DEF SavesFinalized, TransitionToFinalized
  <2>3. (SavesIdle => SavesIdle') /\ (SavesPromoted => SavesPromoted') /\ (SavesFinished => SavesFinished')
    BY Zenon, <1>2 DEF SavesIdle, SavesPromoted, SavesFinished, TransitionToPromoted, TransitionToIdle
  <2> QED BY Zenon, <2>1, <2>2, <2>3 DEF Saves
<1>8. ProcessInv'
  <2>1. \A x \in scraped : Settled(x)' <=> Settled(x)
    BY Zenon DEF Settled
  <2>2. Near(cfg)' <=> Near(cfg)
    BY Zenon DEF Near
  <2> QED BY Zenon, <1>0, <1>2, <1>3, <1>7, <2>1, <2>2 DEF ProcessInv
<1> QED BY Zenon, <1>2, <1>3, <1>4, <1>5, <1>6, <1>8

(* A user writes under a key that all servers can read.                    *)
LEMMA UserWritesInv == ASSUME IInv, NEW r \in Resources, UserWrites(r) PROVE Inv'
<1>0. TypeOK /\ SvmInv
  BY Zenon DEF IInv
<1>1. PICK s \in Servers : up[s] /\ data' = [data EXCEPT ![r] = WriteKey(loaded[s])]
  BY Zenon DEF UserWrites
<1>2. UNCHANGED <<secret, cache, names, ctlVars, serverVars>> /\ svms' = svms
  BY Zenon DEF UserWrites, ctlVars, serverVars
<1>3. /\ ConfigInv' /\ ServerInv' /\ DataInv' /\ ProcessInv'
      /\ AllSettled' <=> AllSettled
      /\ AllSettled => \A x \in Resources : Rewritten(x) => Rewritten(x)'
  BY Zenon, <1>1, <1>2, WriteInv
<1>4. \A v \in svms : v.res \in Resources
  BY Zenon, <1>0 DEF TypeOK
<1>5. SvmInv'
  BY Zenon, <1>0, <1>2, <1>3, <1>4 DEF SvmInv, RotationID
<1> QED BY Zenon, <1>3, <1>5 DEF Inv

(* A rewritten object is stored under the key that encrypts now.           *)
LEMMA RewriteInv == ASSUME IInv, NEW v \in svms, Rewrite(v) PROVE Inv'
<1>0. TypeOK /\ SvmInv
  BY Zenon DEF IInv
<1>1. PICK s \in Servers : up[s] /\ data' = [data EXCEPT ![v.res] = WriteKey(loaded[s])]
  BY Zenon DEF Rewrite
<1>2. UNCHANGED <<secret, cache, names, ctlVars, serverVars>> /\ secret' = secret /\ names' = names
  BY Zenon DEF Rewrite, ctlVars, serverVars
<1>3. \A w \in svms : w.res \in Resources /\ w \in [res : Resources, id : RotationIDs, st : SvmStates]
  BY Zenon, <1>0 DEF TypeOK
<1>4. \A w \in svms' : w \in svms \/ (w = [v EXCEPT !.st = "rewritten"] /\ w.id = v.id /\ w.res = v.res)
  BY Zenon, <1>3 DEF Rewrite, SetSvm
<1>5. \A w \in svms' : \E x \in svms : w.id = x.id
  BY Zenon, <1>4
<1>6. /\ ConfigInv' /\ ServerInv' /\ DataInv' /\ ProcessInv'
      /\ AllSettled' <=> AllSettled
      /\ AllSettled => /\ Rewritten(v.res)'
                       /\ \A x \in Resources : Rewritten(x) => Rewritten(x)'
  BY Zenon, <1>1, <1>2, <1>3, <1>5, WriteInv
<1>7. SvmInv'
  <2> SUFFICES ASSUME NEW w \in svms'
               PROVE  /\ w.id[2] <= names
                      /\ secret.phase = "Prepared" => w.id[2] # secret.keys[2].name
                      /\ secret.phase = "Promoted" /\ w.id = RotationID(secret)
                           => AllSettled' /\ (w.st \in {"rewritten", "succeeded"} => Rewritten(w.res)')
    BY Zenon, <1>2 DEF SvmInv, RotationID
  <2>1. CASE w \in svms
    BY Zenon, <1>0, <1>3, <1>6, <2>1 DEF SvmInv
  <2>2. CASE w.id = v.id /\ w.res = v.res
    BY Zenon, <1>0, <1>6, <2>2 DEF SvmInv
  <2> QED BY Zenon, <1>4, <2>1, <2>2
<1> QED BY Zenon, <1>6, <1>7 DEF Inv

(* The migrator's report, or the end of a migration.                       *)
LEMMA MigratorInv ==
  ASSUME IInv, NEW v \in svms, MigratorReports(v) \/ SvmGone(v)
  PROVE  Inv'
<1> USE DEF envVars, ctlVars, serverVars
<1>0. TypeOK /\ ConfigInv /\ ServerInv /\ DataInv /\ ProcessInv /\ SvmInv
  BY Zenon DEF IInv
<1>1. UNCHANGED <<secret, cache, names, pc, cfg, next, scraped, todo, verdict, up, mounted,
                  loaded, data>>
  BY Zenon DEF MigratorReports, SvmGone
<1>2. v \in [res : Resources, id : RotationIDs, st : SvmStates]
  BY Zenon, <1>0 DEF TypeOK
<1>3. \A w \in svms' : \/ w \in svms
                       \/ /\ w.id = v.id /\ w.res = v.res
                          /\ w.st = "failed" \/ (w.st = "succeeded" /\ v.st = "rewritten")
  BY ZenonT(40), <1>2 DEF MigratorReports, SvmGone, SetSvm
<1>4. AllSettled' <=> AllSettled
  BY Zenon, <1>1 DEF AllSettled, Settled
<1>5. \A x : Rewritten(x)' <=> Rewritten(x)
  BY Zenon, <1>1 DEF Rewritten
<1>6. ConfigInv' /\ ServerInv' /\ DataInv'
  BY SMTT(30), <1>0, <1>1, <1>4 DEF ConfigInv, Shaped, Known, Near, ServerInv, Allowed, DataInv, Rewritten
<1>7. SvmInv'
  <2> SUFFICES ASSUME NEW w \in svms'
               PROVE  /\ w.id[2] <= names
                      /\ secret.phase = "Prepared" => w.id[2] # secret.keys[2].name
                      /\ secret.phase = "Promoted" /\ w.id = RotationID(secret)
                           => AllSettled' /\ (w.st \in {"rewritten", "succeeded"} => Rewritten(w.res)')
    BY Zenon, <1>1 DEF SvmInv, RotationID
  <2>1. CASE w \in svms
    BY Zenon, <1>0, <1>4, <1>5, <2>1 DEF SvmInv
  <2>2. CASE /\ w.id = v.id /\ w.res = v.res
             /\ w.st = "failed" \/ (w.st = "succeeded" /\ v.st = "rewritten")
    BY Zenon, <1>0, <1>4, <1>5, <2>2 DEF SvmInv
  <2> QED BY Zenon, <1>3, <2>1, <2>2
<1>8. Saves => Saves'
  <2>1. SavesPrepared => SavesPrepared'
    BY Zenon, <1>1, <1>3 DEF SavesPrepared
  <2>2. SavesFinalized => SavesFinalized'
    BY Zenon, <1>1, <1>4, <1>5 DEF SavesFinalized, TransitionToFinalized
  <2>3. (SavesIdle => SavesIdle') /\ (SavesPromoted => SavesPromoted') /\ (SavesFinished => SavesFinished')
    BY Zenon, <1>1, <1>4 DEF SavesIdle, SavesPromoted, SavesFinished, TransitionToPromoted, TransitionToIdle
  <2> QED BY Zenon, <2>1, <2>2, <2>3 DEF Saves
<1>9. ProcessInv'
  <2>1. \A x \in scraped : Settled(x)' <=> Settled(x)
    BY Zenon, <1>1 DEF Settled
  <2>2. Near(cfg)' <=> Near(cfg)
    BY Zenon, <1>1 DEF Near
  <2> QED BY Zenon, <1>0, <1>1, <1>4, <1>5, <1>8, <2>1, <2>2 DEF ProcessInv
<1> QED BY Zenon, <1>6, <1>7, <1>9 DEF Inv

-----------------------------------------------------------------------------
(* Saving.                                                                 *)

(* A list is the list of its entries.                                      *)
LEMMA Entries ==
  ASSUME NEW l \in KeyLists
  PROVE  (Len(l) = 1 => l = <<l[1]>>) /\ (Len(l) = 2 => l = <<l[1], l[2]>>)
<1>1. l \in Seq(Entry)
  BY Zenon, KeysType
<1> QED BY <1>1

(* An update that succeeds was computed from the Secret it replaces.       *)
LEMMA SavesCurrent ==
  ASSUME IInv, Save, secret' # secret
  PROVE  /\ Saves /\ cfg = secret /\ cache = secret
         /\ secret'.rv = secret.rv + 1 /\ secret'.phase = next.phase
         /\ secret'.keys = next.keys /\ secret'.target = next.target
<1>0. TypeOK /\ ConfigInv /\ ProcessInv
  BY Zenon DEF IInv
<1>1. /\ secret' = [next EXCEPT !.rv = next.rv + 1] /\ secret.rv = next.rv /\ pc = "save"
  BY Zenon DEF Save
<1>2. /\ secret \in Config /\ cfg \in Config /\ cache \in Config /\ next \in Config
      /\ Saves /\ Near(cfg) /\ cfg.rv <= cache.rv /\ Near(cache)
  BY Zenon, <1>0, <1>1 DEF TypeOK, ConfigInv, ProcessInv
<1>3. next.rv = cfg.rv
  BY Zenon, <1>2 DEF Saves, SavesIdle, SavesPrepared, SavesPromoted, SavesFinalized, SavesFinished,
     TransitionToPromoted, TransitionToFinalized, TransitionToIdle, Config
<1>4. secret.rv \in Nat /\ cfg.rv \in Nat /\ cache.rv \in Nat
  BY Zenon, <1>2 DEF Config
<1>5. cfg = secret
  BY <1>1, <1>2, <1>3, <1>4 DEF Near
<1>6. cache = secret
  BY <1>2, <1>4, <1>5 DEF Near
<1>7. /\ secret'.rv = secret.rv + 1 /\ secret'.phase = next.phase
      /\ secret'.keys = next.keys /\ secret'.target = next.target
  BY Zenon, <1>1, <1>2 DEF Config
<1> QED BY Zenon, <1>2, <1>5, <1>6, <1>7

(* A save that goes through was computed from the current Secret.          *)
LEMMA SaveInv == ASSUME IInv, Save PROVE Inv'
<1> USE DEF envVars, serverVars
<1>0. TypeOK /\ ConfigInv /\ ServerInv /\ DataInv /\ ProcessInv /\ SvmInv
  BY Zenon DEF IInv
<1>1. UNCHANGED <<cache, names, cfg, next, svms, up, mounted, loaded, data>> /\ pc' = "start"
  BY Zenon DEF Save
<1>2. CASE secret' = secret
  BY Zenon, <1>1, <1>2, Stops
<1>3. CASE secret' # secret
  <2>1. /\ Saves /\ cfg = secret /\ cache = secret
        /\ secret'.rv = secret.rv + 1 /\ secret'.phase = next.phase
        /\ secret'.keys = next.keys /\ secret'.target = next.target
    BY Zenon, <1>3, SavesCurrent
  <2>2. /\ secret.keys \in KeyLists /\ Shaped(secret) /\ Shaped(next) /\ Known(next)
        /\ secret \in Config
        /\ \A v \in svms : v.id[2] \in Nat /\ v.id[2] <= names
    BY Zenon, <1>0 DEF TypeOK, Config, ConfigInv, SvmInv, RotationIDs
  <2>3. ProcessInv'
    BY Zenon, <1>1 DEF ProcessInv
  <2>4. Shaped(secret)' /\ Known(secret)'
    BY Zenon, <1>1, <2>1, <2>2 DEF Shaped, Known
  <2>5. (\A c \in {cache, cfg, next} : Shaped(c) /\ Known(c))'
    BY Zenon, <1>0, <1>1 DEF ConfigInv, Shaped, Known
  <2>6. ASSUME next.phase # "Idle", secret.phase = "Promoted" => next.phase = "Finalized"
        PROVE  ConfigInv'
    <3>1. Near(cache)'
      BY Zenon, <1>1, <2>1, <2>6 DEF Near
    <3> QED BY Zenon, <2>1, <2>4, <2>5, <2>6, <3>1 DEF ConfigInv
  <2>7. CASE next.phase = "Idle" /\ next.keys = secret.keys /\ AllSettled
             /\ secret.phase \in {"Idle", "Finalized"}
    <3>1. AllSettled'
      BY Zenon, <1>1, <2>1, <2>7 DEF AllSettled, Settled
    <3>2. Near(cache)'
      BY Zenon, <1>1, <2>1, <2>7 DEF Near
    <3>3. ConfigInv'
      BY Zenon, <2>1, <2>4, <2>5, <3>1, <3>2 DEF ConfigInv
    <3>4. ServerInv'
      BY Zenon, <3>1 DEF ServerInv, Allowed, AllSettled, Settled
    <3>5. DataInv'
      BY Zenon, <1>0, <1>1, <2>1, <2>7 DEF DataInv, Rewritten
    <3>6. SvmInv'
      BY Zenon, <1>0, <1>1, <2>1, <2>7 DEF SvmInv
    <3> QED BY Zenon, <2>3, <3>3, <3>4, <3>5, <3>6 DEF Inv
  <2>8. CASE SavesPrepared
    <3>1. /\ secret.phase = "Idle" /\ secret'.phase = "Prepared" /\ AllSettled
          /\ Len(secret.keys) = 1 /\ secret.keys = <<secret.keys[1]>>
      BY Zenon, <1>0, <2>1, <2>2, <2>8, Entries DEF SavesPrepared, ConfigInv, Shaped
    <3>2. /\ secret'.keys = <<secret.keys[1], next.keys[2]>>
          /\ secret'.keys[2].name = names /\ \A v \in svms : v.id[2] < names
      BY Zenon, <2>1, <2>8 DEF SavesPrepared
    <3>3. Len(secret'.keys) = 2 /\ secret'.keys[1] = secret.keys[1]
      BY <3>2
    <3>4. secret'.keys # secret.keys /\ secret.keys = <<secret'.keys[1]>>
      BY <3>1, <3>3
    <3>5. ConfigInv'
      BY Zenon, <2>1, <2>6, <3>1
    <3>6. ServerInv'
      BY Zenon, <1>1, <3>1, <3>4 DEF ServerInv, Allowed, AllSettled, Settled
    <3>7. DataInv'
      BY Zenon, <1>0, <1>1, <3>1, <3>3 DEF DataInv, Rewritten, WriteKey
    <3>8. SvmInv'
      <4>1. \A v \in svms : v.id[2] # names
        BY <2>2, <3>2
      <4> QED BY Zenon, <1>1, <2>2, <3>1, <3>2, <4>1 DEF SvmInv
    <3> QED BY Zenon, <2>3, <3>5, <3>6, <3>7, <3>8 DEF Inv
  <2>9. CASE SavesPromoted
    <3>1. /\ secret.phase = "Prepared" /\ secret'.phase = "Promoted" /\ AllSettled
          /\ secret'.keys = <<secret.keys[2], secret.keys[1]>>
      BY Zenon, <2>1, <2>2, <2>9 DEF SavesPromoted, TransitionToPromoted, Config
    <3>2. /\ Len(secret.keys) = 2 /\ secret.keys[1].name # secret.keys[2].name
          /\ secret.keys = <<secret.keys[1], secret.keys[2]>>
          /\ secret.keys[1] \in Entry /\ secret.keys[2] \in Entry
      BY Zenon, <2>2, <3>1, Entries, KeysType DEF Shaped
    <3>3. /\ secret'.keys[1] = secret.keys[2] /\ secret'.keys[2] = secret.keys[1]
      BY SMTT(30), <3>1
    <3>4. secret'.keys # secret.keys /\ secret.keys = <<secret'.keys[2], secret'.keys[1]>>
      BY Zenon, <3>2, <3>3
    <3>5. Names(secret'.keys) = {secret.keys[2].name, secret.keys[1].name}
      BY Zenon, <3>1, <3>2, TwoKeys
    <3>6. ConfigInv'
      BY Zenon, <2>1, <2>6, <3>1
    <3>7. ServerInv'
      BY Zenon, <1>1, <3>1, <3>4 DEF ServerInv, Allowed, AllSettled, Settled
    <3>8. DataInv'
      BY Zenon, <1>0, <1>1, <3>1, <3>5 DEF DataInv, Rewritten, WriteKey
    <3>9. SvmInv'
      <4>1. RotationID(secret')[2] = secret.keys[2].name
        BY Zenon, <3>3 DEF RotationID
      <4>2. \A v \in svms : v.id # RotationID(secret')
        BY Zenon, <1>0, <3>1, <4>1 DEF SvmInv
      <4> QED BY Zenon, <1>1, <2>2, <3>1, <4>2 DEF SvmInv, RotationID
    <3> QED BY Zenon, <2>3, <3>6, <3>7, <3>8, <3>9 DEF Inv
  <2>10. CASE SavesFinalized
    <3>1. /\ secret.phase = "Promoted" /\ secret'.phase = "Finalized" /\ AllSettled
          /\ \A r \in Resources : Rewritten(r)
          /\ secret'.keys = <<secret.keys[1]>>
      BY Zenon, <2>1, <2>2, <2>10 DEF SavesFinalized, TransitionToFinalized, Config
    <3>2. Len(secret.keys) = 2
      BY Zenon, <2>2, <3>1 DEF Shaped
    <3>3. Len(secret'.keys) = 1 /\ secret'.keys[1] = secret.keys[1] /\ secret'.keys # secret.keys
      BY <3>1, <3>2
    <3>4. ConfigInv'
      BY Zenon, <2>1, <2>6, <3>1
    <3>5. ServerInv'
      BY Zenon, <1>1, <3>1, <3>2, <3>3 DEF ServerInv, Allowed, AllSettled, Settled
    <3>6. DataInv'
      BY Zenon, <1>1, <3>1, <3>3 DEF DataInv, Rewritten, WriteKey
    <3>7. SvmInv'
      BY Zenon, <1>1, <2>2, <3>1 DEF SvmInv
    <3> QED BY Zenon, <2>3, <3>4, <3>5, <3>6, <3>7 DEF Inv
  <2>11. CASE SavesIdle
    BY Zenon, <1>0, <2>1, <2>7, <2>11 DEF SavesIdle, ConfigInv
  <2>12. CASE SavesFinished
    <3>1. next.phase = "Idle" /\ next.keys = secret.keys
      BY Zenon, <2>1, <2>2, <2>12 DEF SavesFinished, TransitionToIdle, Config
    <3> QED BY Zenon, <2>1, <2>7, <2>12, <3>1 DEF SavesFinished
  <2> QED BY Zenon, <2>1, <2>8, <2>9, <2>10, <2>11, <2>12 DEF Saves
<1> QED BY Zenon, <1>2, <1>3

-----------------------------------------------------------------------------
(* The invariant is inductive.                                             *)
LEMMA InvStep == IInv /\ [Next]_vars => IInv'
<1> SUFFICES ASSUME IInv, [Next]_vars PROVE Inv'
  BY Zenon, TypeStep DEF IInv, Inv
<1> USE DEF ctlVars, serverVars, envVars
<1>1. CASE ScrapeFails \/ Crash
  BY Zenon, <1>1, Stops DEF ScrapeFails, Crash
<1>2. CASE Configure \/ UNCHANGED vars
  <2>1. UNCHANGED <<secret, cache, names, ctlVars, svms, serverVars, data>>
    BY Zenon, <1>2 DEF Configure, vars
  <2>2. ProcessInv
    BY Zenon DEF IInv
  <2>3. Saves' <=> Saves
    BY Zenon, <2>1 DEF Saves, SavesIdle, SavesPrepared, SavesPromoted, SavesFinalized, SavesFinished,
       TransitionToPromoted, TransitionToFinalized, TransitionToIdle, AllSettled, Settled, Rewritten
  <2>4. ProcessInv'
    BY Zenon, <2>1, <2>2, <2>3 DEF ProcessInv, Near, AllSettled, Settled, Rewritten
  <2> QED BY Zenon, <2>1, <2>4, Frame DEF Inv
<1>3. CASE Controller
  BY Zenon, <1>1, <1>3, ReconcileStableInv, ReconcileInFlightInv, ScrapeInv, VerifiedInv,
     MigrateResourceInv, MigrateEndsInv, CleanUpInv, CleanUpEndsInv, SaveInv, CacheSyncInv
     DEF Controller
<1>4. CASE Tenant
  BY Zenon, <1>4, ServersInv, UserWritesInv, RewriteInv, MigratorInv DEF Tenant
<1> QED BY Zenon, <1>1, <1>2, <1>3, <1>4 DEF Next

(* The state is well typed.                                                *)
THEOREM RotationTypeCorrect == Spec => []TypeOK
<1>1. Init => IInv
  BY Zenon, InitType, InitInv DEF IInv, Inv
<1>2. IInv => TypeOK
  BY Zenon DEF IInv
<1> QED BY <1>1, <1>2, InvStep, PTL DEF Spec

(* Every API server that runs can decrypt every stored object, for any     *)
(* number of API servers, of resource types and of rotations.              *)
LEMMA InvReadable == IInv => AllReadable
<1> SUFFICES ASSUME IInv, NEW s \in Servers, NEW r \in Resources, up[s]
             PROVE  data[r] \in Names(loaded[s])
  BY Zenon DEF AllReadable
<1>1. /\ Allowed(loaded[s]) /\ Shaped(secret) /\ secret.keys \in KeyLists
      /\ loaded[s] \in KeyLists /\ secret.phase \in Phases
  BY Zenon DEF IInv, ServerInv, ConfigInv, TypeOK, Config
<1>2. /\ secret.phase = "Promoted" => data[r] \in Names(secret.keys)
      /\ secret.phase # "Promoted" => data[r] = secret.keys[1].name
  BY Zenon DEF IInv, DataInv, Rewritten, WriteKey
<1>3. secret.keys[1].name \in Names(secret.keys)
  BY Zenon, <1>1, NamesOf, KeysType
<1>4. CASE loaded[s] = secret.keys
  BY Zenon, <1>2, <1>3, <1>4
<1>5. CASE secret.phase = "Prepared" /\ loaded[s] = <<secret.keys[1]>>
  <2>1. Names(loaded[s]) = {secret.keys[1].name}
    BY Zenon, <1>1, <1>5, OneKey, KeysType
  <2> QED BY Zenon, <1>2, <1>5, <2>1
<1>6. CASE secret.phase = "Promoted" /\ loaded[s] = <<secret.keys[2], secret.keys[1]>>
  <2>1. Len(secret.keys) = 2
    BY Zenon, <1>1, <1>6 DEF Shaped
  <2>2. secret.keys[1] \in Entry /\ secret.keys[2] \in Entry
    BY Zenon, <1>1, <2>1, KeysType
  <2>3. /\ Names(<<secret.keys[2], secret.keys[1]>>) = {secret.keys[2].name, secret.keys[1].name}
        /\ Names(secret.keys) = {secret.keys[1].name, secret.keys[2].name}
    BY Zenon, <1>1, <2>1, <2>2, TwoKeys, NamesOf
  <2> QED BY Zenon, <1>2, <1>6, <2>3
<1>7. CASE secret.phase = "Finalized" /\ Len(loaded[s]) = 2 /\ loaded[s][1] = secret.keys[1]
  <2>1. secret.keys[1].name \in Names(loaded[s])
    BY Zenon, <1>1, <1>7, NamesOf
  <2> QED BY Zenon, <1>2, <1>7, <2>1
<1> QED BY Zenon, <1>1, <1>4, <1>5, <1>6, <1>7 DEF Allowed

(* Every API server that runs can decrypt every stored object, for any     *)
(* number of API servers, of resource types and of rotations.              *)
THEOREM ObjectsStayReadable == Spec => []AllReadable
<1>1. Init => IInv
  BY Zenon, InitType, InitInv DEF IInv, Inv
<1> QED BY <1>1, InvStep, InvReadable, PTL DEF Spec

-----------------------------------------------------------------------------
(* Every object is stored under a key of the ring.                         *)
LEMMA InvRing == ASSUME IInv PROVE \A r \in Resources : data[r] \in Ring
<1> SUFFICES ASSUME NEW r \in Resources PROVE data[r] \in Ring
  OBVIOUS
<1>1. /\ secret.keys \in KeyLists /\ Known(secret) /\ secret.phase \in Phases
      /\ data \in [Resources -> Nat] /\ up \in [Servers -> BOOLEAN] /\ names \in Nat
  BY Zenon DEF IInv, ConfigInv, TypeOK, Config
<1>2. secret.keys[1].name \in Names(secret.keys)
  BY Zenon, <1>1, NamesOf, KeysType
<1>3. data[r] \in Names(secret.keys)
  BY Zenon, <1>2 DEF IInv, DataInv, Rewritten, WriteKey
<1>4. data[r] \in 1 .. names
  BY Zenon, <1>1, <1>3 DEF Known, Names
<1>5. \A s \in Servers : data[r] \in Names(Uses(s))
  BY Zenon, <1>1, <1>3, InvReadable DEF AllReadable, Uses
<1> QED BY Zenon, <1>4, <1>5 DEF Ring

(* The ring and the objects of a reachable state have their types.         *)
LEMMA InvMaps == IInv => Ring \in SUBSET Nat /\ data \in [Resources -> Ring]
<1> SUFFICES ASSUME IInv PROVE Ring \in SUBSET Nat /\ data \in [Resources -> Ring]
  OBVIOUS
<1>1. ASSUME NEW n \in Nat PROVE 1 .. n \subseteq Nat
  OBVIOUS
<1>2. names \in Nat /\ data \in [Resources -> Nat]
  BY Zenon DEF IInv, TypeOK
<1>3. Ring \in SUBSET Nat
  BY Zenon, <1>1, <1>2 DEF Ring
<1> QED BY Zenon, <1>2, <1>3, InvRing

(* The rotation implements the key ring, for any number of API servers,    *)
(* resource types and rotations: whatever the controller, kubelet, the API *)
(* servers and the migrator do, an object is written under a key that      *)
(* every API server can read, and no key that an object needs leaves the   *)
(* first API server.                                                       *)
THEOREM RotationImplementsRing == Spec => RotationIsKeyRing
<1>1. Init => IInv
  BY Zenon, InitType, InitInv DEF IInv, Inv
<1>2. Init => R!Init
  BY Zenon, <1>1, InvMaps DEF R!Init
<1>3. ASSUME IInv, IInv', [Next]_vars PROVE [R!Next]_(R!vars)
  <2> USE DEF ctlVars, serverVars, envVars
  <2>0. (Ring \in SUBSET Nat /\ data \in [Resources -> Ring])'
    BY <1>3, InvMaps, PTL
  <2>1. CASE data' = data
    <3>1. Ring' \in SUBSET Nat /\ \A r \in Resources : data[r] \in Ring'
      BY Zenon, <2>0, <2>1
    <3> QED BY Zenon, <2>1, <3>1 DEF R!Next, R!Turn
  <2>2. ASSUME NEW r \in Resources, NEW k, data' = [data EXCEPT ![r] = k],
               UNCHANGED <<secret, names, up, loaded>>
        PROVE  R!Next
    <3>1. Ring' = Ring
      BY Zenon, <2>2 DEF Ring, Uses
    <3>2. data \in [Resources -> Nat] /\ data' \in [Resources -> Ring']
      BY Zenon, <1>3, <2>0 DEF IInv, TypeOK
    <3>3. k \in Ring
      BY Zenon, <2>2, <3>1, <3>2
    <3> QED BY Zenon, <2>2, <3>1, <3>3 DEF R!Next, R!Write
  <2>3. CASE \E r \in Resources : UserWrites(r)
    BY Zenon, <2>2, <2>3 DEF UserWrites
  <2>4. CASE \E v \in svms : Rewrite(v)
    <3>1. PICK v \in svms : Rewrite(v)
      BY Zenon, <2>4
    <3>2. v.res \in Resources
      BY Zenon, <1>3 DEF IInv, TypeOK
    <3> QED BY Zenon, <2>2, <3>1, <3>2 DEF Rewrite
  <2>5. CASE UNCHANGED vars
    BY Zenon, <2>1, <2>5 DEF vars
  <2>6. CASE Controller \/ Crash \/ Configure
    BY Zenon, <2>1, <2>6 DEF Controller, ReconcileStable, ReconcileInFlight, Scrape, ScrapeFails, Verified,
       MigrateResource, MigrateEnds, CleanUp, CleanUpEnds, Save, CacheSync, Crash, Configure
  <2>7. CASE \/ \E s \in Servers : Mount(s) \/ Reload(s) \/ PodStops(s) \/ PodStarts(s)
             \/ \E v \in svms : MigratorReports(v) \/ SvmGone(v)
    BY Zenon, <2>1, <2>7 DEF Mount, Reload, PodStops, PodStarts, MigratorReports, SvmGone
  <2> QED BY Zenon, <1>3, <2>3, <2>4, <2>5, <2>6, <2>7 DEF Next, Tenant
<1> QED BY <1>1, <1>2, <1>3, InvStep, PTL DEF Spec, RotationIsKeyRing, R!Spec

-----------------------------------------------------------------------------
(* The references of a configuration name the Secrets its keys came from.  *)
RefTrue(c) ==
  /\ Material[c.active] = c.keys[1].mat
  /\ c.phase = "Prepared" => Material[c.target] = c.keys[2].mat
  /\ c.phase = "Promoted" => Material[c.target] = c.keys[1].mat

RefInv == RefTrue(secret) /\ RefTrue(cache) /\ RefTrue(cfg) /\ RefTrue(next)

(* Every transition keeps the references true.                             *)
LEMMA TransitionRef ==
  ASSUME NEW c \in Config, RefTrue(c)
  PROVE  /\ \A src : c.phase = "Idle" => RefTrue(TransitionToPrepared(c, src))
         /\ c.phase = "Prepared" => RefTrue(TransitionToPromoted(c))
         /\ c.phase = "Promoted" => RefTrue(TransitionToFinalized(c))
         /\ RefTrue(TransitionToIdle(c))
         /\ RefTrue([c EXCEPT !.rv = c.rv + 1])
<1>1. \A src : c.phase = "Idle" => RefTrue(TransitionToPrepared(c, src))
  BY Zenon DEF RefTrue, TransitionToPrepared, SameMaterial, Config
<1>2. c.phase = "Prepared" => RefTrue(TransitionToPromoted(c))
  BY Zenon DEF RefTrue, TransitionToPromoted, Config
<1>3. c.phase = "Promoted" => RefTrue(TransitionToFinalized(c))
  BY Zenon DEF RefTrue, TransitionToFinalized, Config
<1>4. RefTrue(TransitionToIdle(c)) /\ RefTrue([c EXCEPT !.rv = c.rv + 1])
  BY Zenon DEF RefTrue, TransitionToIdle, Config
<1> QED BY Zenon, <1>1, <1>2, <1>3, <1>4

(* Every step keeps the published reference true.                          *)
LEMMA RefStep == IInv /\ RefInv /\ [Next]_vars => RefInv'
<1> SUFFICES ASSUME IInv, RefInv, [Next]_vars PROVE RefInv'
  OBVIOUS
<1> USE DEF ctlVars, serverVars, envVars
<1>0. /\ secret \in Config /\ cache \in Config /\ cfg \in Config /\ next \in Config
      /\ pc = "cleanup" => cfg.phase = "Promoted"
  BY Zenon DEF IInv, TypeOK, ProcessInv
<1>1. CASE UNCHANGED <<secret, cache, cfg, next>>
  BY Zenon, <1>1 DEF RefInv, RefTrue
<1>2. CASE ReconcileStable
  BY SMTT(30), <1>0, <1>2, TransitionRef DEF ReconcileStable, RefInv, RefTrue
<1>3. CASE ReconcileInFlight
  BY Zenon, <1>3 DEF ReconcileInFlight, RefInv, RefTrue
<1>4. CASE Verified
  BY <1>0, <1>4, TransitionRef DEF Verified, RefInv, RefTrue
<1>5. CASE CleanUpEnds
  BY Zenon, <1>0, <1>5, TransitionRef DEF CleanUpEnds, RefInv, RefTrue
<1>6. CASE Save
  BY SMTT(30), <1>0, <1>6, TransitionRef DEF Save, RefInv, RefTrue
<1>7. CASE CacheSync
  BY Zenon, <1>7 DEF CacheSync, RefInv, RefTrue
<1>8. CASE Tenant \/ Crash \/ Configure \/ UNCHANGED vars
  BY Zenon, <1>1, <1>8 DEF Tenant, Mount, Reload, PodStops, PodStarts, UserWrites, Rewrite,
     MigratorReports, SvmGone, Crash, Configure, vars
<1>9. CASE \/ \E s \in Servers : Scrape(s)
           \/ \E r \in Resources : MigrateResource(r) \/ CleanUp(r)
           \/ ScrapeFails \/ MigrateEnds
  BY Zenon, <1>1, <1>9 DEF Scrape, ScrapeFails, MigrateResource, CleanUp, MigrateEnds
<1> QED BY Zenon, <1>2, <1>3, <1>4, <1>5, <1>6, <1>7, <1>8, <1>9 DEF Next, Controller

(* The reference that the cluster publishes as its active key names the    *)
(* Secret whose key encrypts, in every phase and after every crash.        *)
THEOREM ActiveReferenceTrue == Spec => []ActiveRefTrue
<1>1. Init => IInv /\ RefInv
  BY SMTT(30), InitType, InitInv DEF IInv, Inv, Init, RefInv, RefTrue, NewStaticKeyConfig
<1>2. RefInv => ActiveRefTrue
  BY Zenon DEF RefInv, RefTrue, ActiveRefTrue
<1> QED BY <1>1, <1>2, InvStep, RefStep, PTL DEF Spec
=============================================================================
