------------------------ MODULE CommitCoreDNSProofs -------------------------
(***************************************************************************)
(* Proofs about CommitCoreDNS for every set of zones, keys and contents.   *)
(***************************************************************************)
EXTENDS CommitCoreDNS, TLAPS

(* The operators of internal/coredns keep the objects well formed. *)

\* A zone is recovered from its file key.
LEMMA ZoneOfKey ==
  /\ \A z \in Zones : ZoneFileKey[z] \in ZoneKeys /\ ZoneOf(ZoneFileKey[z]) = z
  /\ \A k \in ZoneKeys : ZoneOf(k) \in Zones /\ ZoneFileKey[ZoneOf(k)] = k
  /\ ZoneKeys \subseteq Keys
BY ZoneFileKeyAssumption DEF ZoneKeys, ZoneOf

\* The memory of a reconciler that is not running is well formed.
LEMMA BlankTypes ==
  /\ BlankConfigMap \in ConfigMaps
  /\ BlankPlan \in Plans
BY DEF BlankConfigMap, BlankPlan, BlankCorefile, ConfigMaps, Plans, Corefiles,
       Bases, Markers, NoBlocks, NoFiles, Files, Stanzas

\* The functions of configmap.go return well-formed ConfigMaps.
LEMMA ConfigMapTypes ==
  ASSUME NEW c \in ConfigMaps, NEW files \in Files, NEW f \in Corefiles,
         NEW ks \in SUBSET Keys
  PROVE  /\ SetZoneFiles(c, files) \in ConfigMaps
         /\ SetCorefile(c, f) \in ConfigMaps
         /\ RemoveZoneFiles(c, ks) \in ConfigMaps
         /\ SetManagedZoneKeys(c, ks) \in ConfigMaps
BY DEF ConfigMaps, Files, SetZoneFiles, SetCorefile, RemoveZoneFiles,
       SetManagedZoneKeys

\* The functions of deployment.go return well-formed Deployments.
LEMMA DeploymentTypes ==
  ASSUME NEW d \in Deployments, NEW ks \in SUBSET Keys,
         NEW ps \in SUBSET Keys, NEW h \in Hashes \cup {NoStamp}
  PROVE  /\ EnsureZoneVolumeItems(d, ks, ps) \in Deployments
         /\ MarkRolloutRestart(d, h) \in Deployments
BY DEF Deployments, EnsureZoneVolumeItems, MarkRolloutRestart

\* A zone's directive is a stanza.
LEMMA DirectiveType ==
  ASSUME NEW o \in Outcomes, NEW b \in Stanzas
  PROVE  Directive(o, b) \in Stanzas
<1>1. CASE o.kind = "file"
  BY <1>1 DEF Directive, Stanzas
<1>2. CASE o.kind = "template"
  BY <1>2 DEF Directive, Stanzas, Outcomes, Absent, Invalid, RenderedFile,
              RenderedTemplate
<1>3. CASE o.kind = "invalid"
  BY <1>3 DEF Directive
<1>4. CASE o.kind = "absent"
  BY <1>4 DEF Directive, Stanzas
<1> QED
  BY <1>1, <1>2, <1>3, <1>4 DEF Outcomes, Absent, Invalid, RenderedFile,
                                RenderedTemplate

\* The render loop yields a well-formed plan.
LEMMA PlanType ==
  ASSUME NEW c \in ConfigMaps, NEW outcome \in [Zones -> Outcomes],
         NEW h \in Hashes
  PROVE  Plan(outcome, c, h) \in Plans
<1>1. ExtractZoneBlocks(c.corefile) \in [Zones -> Stanzas]
  BY DEF ExtractZoneBlocks, ConfigMaps, Corefiles, NoBlocks, Stanzas
<1>2. PlanBlocks(outcome, c) \in [Zones -> Stanzas]
  BY <1>1, DirectiveType DEF PlanBlocks
<1>3. PatchCorefile(c.corefile, PlanBlocks(outcome, c)) \in Corefiles
  BY <1>2 DEF PatchCorefile, Corefiles, ConfigMaps, Markers
<1>4. \A o \in Outcomes : o.body \in Contents \cup {NoFile}
  BY DEF Outcomes, Absent, Invalid, RenderedFile, RenderedTemplate
<1>5. PlanFiles(outcome, c) \in Files
  BY <1>4, ZoneOfKey DEF PlanFiles, Files, ConfigMaps
<1>6. Held(outcome, c) \subseteq Zones
  BY DEF Held
<1> QED
  BY <1>3, <1>5, <1>6 DEF Plan, Plans

-----------------------------------------------------------------------------
(* Type correctness *)

\* The keys the steps work with are data keys.
LEMMA KeySetTypes ==
  ASSUME TypeOK
  PROVE  /\ desiredKeys \subseteq Keys
         /\ staleKeys \subseteq Keys
         /\ mountAllKeys \subseteq Keys
BY DEF TypeOK, desiredKeys, staleKeys, mountAllKeys, KeysOf

\* The three ConfigMap writes of a commit write well-formed objects.
LEMMA WriteTypes ==
  ASSUME TypeOK
  PROVE  /\ Expanded \in ConfigMaps
         /\ SwitchedOver \in ConfigMaps
         /\ Contracted \in ConfigMaps
<1>1. want.files \in Files /\ want.corefile \in Corefiles /\ mem \in ConfigMaps
  BY DEF TypeOK, Plans
<1>2. SetZoneFiles(mem, want.files) \in ConfigMaps
  BY <1>1, ConfigMapTypes
<1>3. Expanded \in ConfigMaps
  BY <1>2, <1>1, KeySetTypes, ConfigMapTypes DEF Expanded
<1>4. SwitchedOver \in ConfigMaps
  BY <1>1, ConfigMapTypes DEF SwitchedOver
<1>5. RemoveZoneFiles(mem, staleKeys) \in ConfigMaps
  BY <1>1, KeySetTypes, ConfigMapTypes
<1>6. Contracted \in ConfigMaps
  BY <1>5, <1>1, KeySetTypes, ConfigMapTypes DEF Contracted
<1> QED
  BY <1>3, <1>4, <1>6

\* Every step of the operator and of the administrator keeps the types.
LEMMA TypeStep == TypeOK /\ [Next]_vars => TypeOK'
<1> SUFFICES ASSUME TypeOK, [Next]_vars PROVE TypeOK'
  OBVIOUS
<1>1. CASE Fail /\ UNCHANGED <<cluster, handmade>>
  BY <1>1, BlankTypes DEF Fail, cluster, TypeOK, PCs
<1>2. CASE Begin
  <2>1. PICK outcome \in [Zones -> Outcomes], h \in Hashes :
           want' = Plan(outcome, cm, h)
    BY <1>2 DEF Begin, BeginWith
  <2>2. want' \in Plans
    BY <2>1, PlanType DEF TypeOK
  <2> QED
    BY <1>2, <2>2 DEF Begin, BeginWith, TypeOK, PCs, Active, cluster, ManagedZoneKeys,
                      ConfigMaps
<1>3. CASE Refuse
  BY <1>1, <1>3 DEF Refuse
<1>4. CASE Expand
  BY <1>4, WriteTypes DEF Expand, UpdateConfigMap, TypeOK, PCs, Active
<1>5. CASE Mount
  <2>1. dep' \in Deployments
    BY <1>5, KeySetTypes, DeploymentTypes DEF Mount, TypeOK
  <2> QED
    BY <1>5, <2>1 DEF Mount, TypeOK, PCs, Active, local
<1>6. CASE MountFails
  BY <1>1, <1>6 DEF MountFails
<1>7. CASE Switch
  BY <1>7, WriteTypes DEF Switch, UpdateConfigMap, TypeOK, PCs, Active
<1>8. CASE Contract
  <2>1. dep' \in Deployments
    <3>1. EnsureZoneVolumeItems(dep, desiredKeys, prev) \in Deployments
      BY KeySetTypes, DeploymentTypes, MarkersDistinct DEF TypeOK
    <3>2. want.hash \in Hashes \cup {NoStamp}
      BY DEF TypeOK, Plans
    <3> QED
      BY <1>8, <3>1, <3>2 DEF Contract, MarkRolloutRestart, Deployments
  <2> QED
    BY <1>8, <2>1 DEF Contract, TypeOK, PCs, Active, local
<1>9. CASE Prune
  BY <1>9, WriteTypes DEF Prune, UpdateConfigMap, TypeOK, PCs
<1>10. CASE Conflict
  BY <1>1, <1>10 DEF Conflict
<1>11. CASE Abort
  BY <1>1, <1>11 DEF Abort
<1>12. CASE AdminWritesFile
  BY <1>12, AdminKeysAssumption DEF AdminWritesFile, EditConfigMap, TypeOK,
     ConfigMaps, Files
<1>13. CASE AdminDeletesFile
  BY <1>13 DEF AdminDeletesFile, EditConfigMap, TypeOK, ConfigMaps, Files
<1>14. CASE AdminEditsBase
  BY <1>14 DEF AdminEditsBase, EditConfigMap, TypeOK, ConfigMaps, Corefiles
<1>15. CASE AdminEditsMarkers
  BY <1>15 DEF AdminEditsMarkers, EditConfigMap, TypeOK, ConfigMaps, Corefiles,
     Markers
<1>16. CASE AdminRemovesBlock
  BY <1>16 DEF AdminRemovesBlock, EditConfigMap, TypeOK, ConfigMaps, Corefiles,
     Markers, NoBlocks, Stanzas
<1>17. CASE AdminMounts
  BY <1>17, AdminKeysAssumption DEF AdminMounts, TypeOK, Deployments, local
<1>18. CASE UNCHANGED vars
  BY <1>18 DEF vars, TypeOK
<1> QED
  BY <1>2, <1>3, <1>4, <1>5, <1>6, <1>7, <1>8, <1>9, <1>10, <1>11, <1>12,
     <1>13, <1>14, <1>15, <1>16, <1>17, <1>18 DEF Next, CommitStep, Admin

\* The operator starts well formed.
LEMMA TypeInit == Init => TypeOK
<1>1. ASSUME NEW b \in Bases
      PROVE  [BlankConfigMap EXCEPT !.corefile.base = b] \in ConfigMaps
  BY BlankTypes DEF ConfigMaps, Corefiles
<1>2. \A m \in Mounts :
        [mount |-> m, items |-> {}, stamp |-> NoStamp] \in Deployments
  BY DEF Deployments
<1> QED
  BY <1>1, <1>2, BlankTypes DEF Init, TypeOK, PCs

\* Objects and memory are well formed in every reachable state, for every set
\* of zones, keys, contents and hashes.
THEOREM TypeCorrect == Spec => []TypeOK
BY TypeInit, TypeStep, PTL DEF Spec

-----------------------------------------------------------------------------
(* The inductive invariant *)

\* The hypothesis of the safety theorems: the administrator's own files do not
\* carry the names the operator generates.
AdminKeepsOwnNames == AdminKeys \cap ZoneKeys = {}

\* A stanza names the file of its own zone.
LEMMA NamedKeysFacts ==
  /\ \A b \in [Zones -> Stanzas] : NamedKeys(b) \subseteq ZoneKeys
  /\ NamedKeys(NoBlocks) = {}
BY DEF NamedKeys, NoBlocks, NoStanza, ZoneKeys

\* The plan's Corefile names only files the plan has: a rendered zone brings
\* its file, a held zone re-claims the one the annotation lists.
LEMMA PlanNamesItsFiles ==
  ASSUME NEW c \in ConfigMaps, NEW outcome \in [Zones -> Outcomes],
         c.managed = KeysOf(c.data) \cap ZoneKeys,
         NamedKeys(c.corefile.blocks) \subseteq c.managed
  PROVE  /\ KeysOf(PlanFiles(outcome, c)) \subseteq ZoneKeys
         /\ NamedKeys(PlanBlocks(outcome, c)) \subseteq KeysOf(PlanFiles(outcome, c))
<1>1. KeysOf(PlanFiles(outcome, c)) \subseteq ZoneKeys
  BY DEF KeysOf, PlanFiles
<1>2. ASSUME NEW z \in Zones, PlanBlocks(outcome, c)[z].kind = "file"
      PROVE  ZoneFileKey[z] \in KeysOf(PlanFiles(outcome, c))
  <2>0. outcome[z] \in Outcomes /\ ZoneFileKey[z] \in Keys
    BY ZoneFileKeyAssumption
  <2>1. CASE outcome[z].kind = "file"
    <3>1. outcome[z].body \in Contents
      BY <2>0, <2>1 DEF Outcomes, Absent, Invalid, RenderedFile, RenderedTemplate
    <3>2. PlanFiles(outcome, c)[ZoneFileKey[z]] = outcome[z].body
      BY <2>0, <2>1, ZoneOfKey DEF PlanFiles
    <3> QED
      BY <2>0, <3>1, <3>2, MarkersDistinct DEF KeysOf
  <2>2. CASE outcome[z].kind = "invalid"
    <3>1. ExtractZoneBlocks(c.corefile)[z].kind = "file"
      BY <1>2, <2>2 DEF PlanBlocks, Directive
    <3>2. c.corefile.blocks[z].kind = "file"
      BY <3>1 DEF ExtractZoneBlocks, NoBlocks, NoStanza
    <3>3. ZoneFileKey[z] \in c.managed
      BY <3>2 DEF NamedKeys
    <3>4. c.data[ZoneFileKey[z]] # NoFile
      BY <3>3 DEF KeysOf
    <3>5. z \in Held(outcome, c)
      BY <2>2, <3>1 DEF Held, NoStanza
    <3>6. PlanFiles(outcome, c)[ZoneFileKey[z]] = c.data[ZoneFileKey[z]]
      BY <2>0, <2>2, <3>3, <3>5, ZoneOfKey DEF PlanFiles, ManagedZoneKeys
    <3> QED
      BY <2>0, <3>4, <3>6 DEF KeysOf
  <2>3. CASE outcome[z].kind = "template"
    BY <1>2, <2>3 DEF PlanBlocks, Directive, TemplateStanza
  <2>4. CASE outcome[z].kind = "absent"
    BY <1>2, <2>4 DEF PlanBlocks, Directive, NoStanza
  <2> QED
    BY <2>0, <2>1, <2>2, <2>3, <2>4 DEF Outcomes, Absent, Invalid, RenderedFile,
       RenderedTemplate
<1> QED
  BY <1>1, <1>2 DEF NamedKeys

\* The plan of a held zone is what the ConfigMap has for it.
LEMMA PlanHolds ==
  ASSUME NEW c \in ConfigMaps, NEW outcome \in [Zones -> Outcomes],
         NamedKeys(c.corefile.blocks) \subseteq c.managed,
         NEW z \in Held(outcome, c)
  PROVE  /\ PlanBlocks(outcome, c)[z] = c.corefile.blocks[z]
         /\ PlanBlocks(outcome, c)[z].kind = "file" =>
              PlanFiles(outcome, c)[ZoneFileKey[z]] = c.data[ZoneFileKey[z]]
<1>1. z \in Zones /\ outcome[z].kind = "invalid"
      /\ ExtractZoneBlocks(c.corefile)[z] # NoStanza
  BY DEF Held
<1>2. ExtractZoneBlocks(c.corefile) = c.corefile.blocks
  BY <1>1 DEF ExtractZoneBlocks, NoBlocks
<1>3. PlanBlocks(outcome, c)[z] = c.corefile.blocks[z]
  BY <1>1, <1>2 DEF PlanBlocks, Directive
<1>4. ASSUME c.corefile.blocks[z].kind = "file"
      PROVE  PlanFiles(outcome, c)[ZoneFileKey[z]] = c.data[ZoneFileKey[z]]
  <2>1. ZoneFileKey[z] \in c.managed
    BY <1>1, <1>4 DEF NamedKeys
  <2> QED
    BY <1>1, <2>1, ZoneOfKey DEF PlanFiles, ManagedZoneKeys
<1> QED
  BY <1>3, <1>4

\* A step that ends the reconcile and writes nothing keeps the invariant.
LEMMA FailKeepsInv ==
  ASSUME CommitInv, TypeOK', Fail, UNCHANGED <<cluster, handmade>>
  PROVE  CommitInv'
<1>1. ObjectsInv'
  BY DEF CommitInv, ObjectsInv, ItemsMode, cluster
<1> QED
  BY <1>1 DEF CommitInv, MemoryInv, PlanInv, StepInv, Fail, Active

\* Reading the ConfigMap and planning.
LEMMA BeginKeepsInv ==
  ASSUME CommitInv, TypeOK', Begin
  PROVE  CommitInv'
<1>1. PICK outcome \in [Zones -> Outcomes], h \in Hashes :
         want' = Plan(outcome, cm, h)
  BY DEF Begin, BeginWith
<1>2. cm' = cm /\ dep' = dep /\ handmade' = handmade /\ mem' = cm
      /\ prev' = cm.managed /\ pc' = "expand"
  BY DEF Begin, BeginWith, cluster, ManagedZoneKeys
<1>3. ObjectsInv'
  BY <1>2 DEF CommitInv, ObjectsInv, ItemsMode
<1>4. MemoryInv'
  BY <1>2 DEF MemoryInv
<1>5. PlanInv'
  <2>1. /\ want'.files = PlanFiles(outcome, cm)
        /\ want'.corefile.blocks = PlanBlocks(outcome, cm)
        /\ want'.corefile.base = cm.corefile.base
        /\ want'.held = Held(outcome, cm)
    BY <1>1 DEF Plan, PatchCorefile
  <2>2. /\ cm \in ConfigMaps
        /\ cm.managed = KeysOf(cm.data) \cap ZoneKeys
        /\ NamedKeys(cm.corefile.blocks) \subseteq cm.managed
    BY DEF CommitInv, ObjectsInv, TypeOK
  <2>3. /\ desiredKeys' \subseteq ZoneKeys
        /\ NamedKeys(want'.corefile.blocks) \subseteq desiredKeys'
    BY <2>1, <2>2, PlanNamesItsFiles DEF desiredKeys
  <2>4. \A z \in want'.held :
          /\ want'.corefile.blocks[z] = mem'.corefile.blocks[z]
          /\ want'.corefile.blocks[z].kind = "file" =>
               want'.files[ZoneFileKey[z]] = mem'.data[ZoneFileKey[z]]
    BY <1>2, <2>1, <2>2, PlanHolds
  <2> QED
    BY <1>2, <2>1, <2>2, <2>3, <2>4 DEF PlanInv
<1>6. StepInv'
  BY <1>2 DEF StepInv
<1> QED
  BY <1>3, <1>4, <1>5, <1>6 DEF CommitInv

\* Step 1 adds the plan's files and lists them before anything uses them.
LEMMA ExpandKeepsInv ==
  ASSUME CommitInv, TypeOK', Expand
  PROVE  CommitInv'
<1> DEFINE new == Expanded
<1>1. /\ dep' = dep /\ handmade' = handmade /\ prev' = prev /\ want' = want
      /\ fresh' = fresh /\ pc = "expand" /\ pc' = "mount" /\ mem' = new
      /\ (new = mem /\ cm' = cm) \/ (fresh /\ cm' = new)
  BY DEF Expand, UpdateConfigMap
<1>2. /\ mem.managed = prev
      /\ desiredKeys \subseteq ZoneKeys
      /\ prev \subseteq ZoneKeys
      /\ NamedKeys(want.corefile.blocks) \subseteq desiredKeys
      /\ mem.managed = cm.managed
      /\ fresh => mem = cm
      /\ cm.managed = KeysOf(cm.data) \cap ZoneKeys
      /\ NamedKeys(cm.corefile.blocks) \subseteq NamedKeys(mem.corefile.blocks)
  BY <1>1 DEF CommitInv, StepInv, PlanInv, MemoryInv, ObjectsInv, Active
<1>3. /\ new.managed = prev \cup desiredKeys
      /\ new.corefile = mem.corefile
      /\ \A k \in Keys : new.data[k] = IF k \in desiredKeys THEN want.files[k]
                                       ELSE mem.data[k]
  BY DEF Expanded, SetManagedZoneKeys, SetZoneFiles, mountAllKeys, CommitInv,
         TypeOK, ConfigMaps, desiredKeys, KeysOf
<1>4. \A k \in desiredKeys : want.files[k] # NoFile
  BY DEF desiredKeys, KeysOf
<1>5. PlanInv'
  <2>1. \A z \in want.held :
          want.corefile.blocks[z].kind = "file" =>
            want.files[ZoneFileKey[z]] = new.data[ZoneFileKey[z]]
    BY <1>1, <1>3, ZoneFileKeyAssumption DEF CommitInv, PlanInv, Active, TypeOK, Plans
  <2> QED
    BY <1>1, <1>3, <2>1 DEF CommitInv, PlanInv, Active, desiredKeys
<1>6. StepInv'
  BY <1>1, <1>2, <1>3, ZoneOfKey DEF StepInv, desiredKeys, mountAllKeys
<1>7. CASE new = mem /\ cm' = cm
  <2>1. ObjectsInv'
    BY <1>1, <1>7 DEF CommitInv, ObjectsInv, ItemsMode
  <2>2. MemoryInv'
    BY <1>1, <1>7 DEF CommitInv, MemoryInv, Active
  <2> QED
    BY <1>5, <1>6, <2>1, <2>2 DEF CommitInv
<1>8. CASE fresh /\ cm' = new
  <2>1. KeysOf(new.data) = KeysOf(cm.data) \cup desiredKeys
    BY <1>2, <1>3, <1>4, <1>8, ZoneOfKey DEF KeysOf
  <2>2. ObjectsInv'
    BY <1>1, <1>2, <1>3, <1>8, <2>1 DEF CommitInv, ObjectsInv, ItemsMode
  <2>3. MemoryInv'
    BY <1>1, <1>8 DEF MemoryInv
  <2> QED
    BY <1>5, <1>6, <2>2, <2>3 DEF CommitInv
<1> QED
  BY <1>1, <1>7, <1>8

\* Step 2 mounts keys that the annotation, and so the ConfigMap, has.
LEMMA MountKeepsInv ==
  ASSUME CommitInv, TypeOK', Mount
  PROVE  CommitInv'
<1>1. /\ cm' = cm /\ handmade' = handmade /\ prev' = prev /\ want' = want
      /\ fresh' = fresh /\ mem' = mem /\ pc = "mount" /\ pc' = "switch"
  BY DEF Mount, local
<1>2. cm.managed = prev \cup desiredKeys
  BY <1>1 DEF CommitInv, StepInv, MemoryInv, Active, mountAllKeys
<1>3. /\ dep'.mount = dep.mount
      /\ dep.mount = "items" => dep'.items = dep.items \cup cm.managed
      /\ dep.mount # "items" => dep' = dep
  BY <1>2 DEF Mount, EnsureZoneVolumeItems, mountAllKeys, CommitInv, TypeOK,
     Deployments
<1>4. ObjectsInv'
  BY <1>1, <1>3 DEF CommitInv, ObjectsInv, ItemsMode
<1>5. MemoryInv' /\ PlanInv'
  BY <1>1 DEF CommitInv, MemoryInv, PlanInv, Active, desiredKeys
<1>6. StepInv'
  BY <1>1, <1>2, <1>3 DEF CommitInv, StepInv, ItemsMode, mountAllKeys, desiredKeys
<1> QED
  BY <1>4, <1>5, <1>6 DEF CommitInv

\* Step 3 names files that step 2 mounted.
LEMMA SwitchKeepsInv ==
  ASSUME CommitInv, TypeOK', Switch
  PROVE  CommitInv'
<1> DEFINE new == SwitchedOver
<1>1. /\ dep' = dep /\ handmade' = handmade /\ prev' = prev /\ want' = want
      /\ fresh' = fresh /\ pc = "switch" /\ pc' = "contract" /\ mem' = new
      /\ (new = mem /\ cm' = cm) \/ (fresh /\ cm' = new)
  BY DEF Switch, UpdateConfigMap
<1>2. /\ new.managed = mem.managed
      /\ new.data = mem.data
      /\ new.corefile = want.corefile
  BY DEF SwitchedOver, SetCorefile, CommitInv, TypeOK, ConfigMaps
<1>3. /\ mem.managed = prev \cup desiredKeys
      /\ NamedKeys(want.corefile.blocks) \subseteq desiredKeys
      /\ fresh => mem = cm
      /\ ItemsMode => desiredKeys \subseteq dep.items
  BY <1>1 DEF CommitInv, StepInv, PlanInv, MemoryInv, Active, mountAllKeys
<1>4. ObjectsInv'
  BY <1>1, <1>2, <1>3 DEF CommitInv, ObjectsInv, ItemsMode
<1>5. MemoryInv'
  BY <1>1 DEF CommitInv, MemoryInv, Active
<1>6. PlanInv'
  BY <1>1, <1>2 DEF CommitInv, PlanInv, Active, desiredKeys
<1>7. StepInv'
  BY <1>1, <1>2, <1>3 DEF CommitInv, StepInv, mountAllKeys, desiredKeys
<1> QED
  BY <1>4, <1>5, <1>6, <1>7 DEF CommitInv

\* Step 4 unmounts only keys that the Corefile, now the plan's, does not name.
LEMMA ContractKeepsInv ==
  ASSUME CommitInv, TypeOK', Contract
  PROVE  CommitInv'
<1>1. /\ cm' = cm /\ handmade' = handmade /\ prev' = prev /\ want' = want
      /\ fresh' = fresh /\ mem' = mem /\ pc = "contract" /\ pc' = "prune"
  BY DEF Contract, local
<1>2. /\ cm.managed = prev \cup desiredKeys
      /\ prev \subseteq ZoneKeys
      /\ desiredKeys \subseteq ZoneKeys
      /\ NamedKeys(cm.corefile.blocks) \subseteq desiredKeys
  BY <1>1 DEF CommitInv, StepInv, MemoryInv, PlanInv, Active, mountAllKeys
<1>3. /\ dep'.mount = dep.mount
      /\ dep.mount = "items" =>
           dep'.items = (dep.items \cup desiredKeys) \ (prev \ desiredKeys)
      /\ dep.mount # "items" => dep'.items = dep.items
  BY DEF Contract, EnsureZoneVolumeItems, MarkRolloutRestart, CommitInv, TypeOK,
     Deployments
<1>4. ObjectsInv'
  BY <1>1, <1>2, <1>3 DEF CommitInv, ObjectsInv, ItemsMode
<1>5. MemoryInv' /\ PlanInv'
  BY <1>1 DEF CommitInv, MemoryInv, PlanInv, Active, desiredKeys
<1>6. ItemsMode' => dep'.items \cap ZoneKeys = desiredKeys
  <2>1. handmade \subseteq KeysOf(cm.data) /\ dep.items \subseteq cm.managed \cup handmade
        /\ cm.managed = KeysOf(cm.data) \cap ZoneKeys
    BY DEF CommitInv, ObjectsInv
  <2>2. dep.items \cap ZoneKeys \subseteq cm.managed
    BY <2>1
  <2> QED
    BY <1>2, <1>3, <2>2 DEF ItemsMode
<1>7. StepInv'
  BY <1>1, <1>6 DEF CommitInv, StepInv, mountAllKeys, desiredKeys
<1> QED
  BY <1>4, <1>5, <1>7 DEF CommitInv

\* Step 5 deletes only keys that step 4 unmounted.
LEMMA PruneKeepsInv ==
  ASSUME CommitInv, TypeOK', Prune, AdminKeepsOwnNames
  PROVE  CommitInv'
<1> DEFINE new == Contracted
<1>1. /\ dep' = dep /\ handmade' = handmade /\ prev' = prev /\ want' = want
      /\ fresh' = fresh /\ pc = "prune" /\ pc' = "done" /\ mem' = new
      /\ (new = mem /\ cm' = cm) \/ (fresh /\ cm' = new)
  BY DEF Prune, UpdateConfigMap
<1>2. /\ new.managed = desiredKeys
      /\ new.corefile = mem.corefile
      /\ \A k \in Keys : new.data[k] = IF k \in staleKeys THEN NoFile
                                       ELSE mem.data[k]
  BY DEF Contracted, SetManagedZoneKeys, RemoveZoneFiles, CommitInv, TypeOK,
         ConfigMaps
<1>3. /\ mem.managed = prev \cup desiredKeys
      /\ prev \subseteq ZoneKeys
      /\ desiredKeys \subseteq ZoneKeys
      /\ NamedKeys(want.corefile.blocks) \subseteq desiredKeys
      /\ mem.corefile = want.corefile
      /\ fresh => mem = cm
      /\ ItemsMode => dep.items \cap ZoneKeys = desiredKeys
      /\ cm.managed = KeysOf(cm.data) \cap ZoneKeys
      /\ \A k \in desiredKeys : mem.data[k] = want.files[k]
  BY <1>1 DEF CommitInv, StepInv, PlanInv, MemoryInv, ObjectsInv, Active,
     mountAllKeys
<1>4. PlanInv'
  <2>1. \A z \in want.held :
          want.corefile.blocks[z].kind = "file" =>
            want.files[ZoneFileKey[z]] = new.data[ZoneFileKey[z]]
    <3> TAKE z \in want.held
    <3> HAVE want.corefile.blocks[z].kind = "file"
    <3>1. z \in Zones
      BY DEF CommitInv, TypeOK, Plans
    <3>2. ZoneFileKey[z] \in desiredKeys
      BY <1>3, <3>1 DEF NamedKeys
    <3> QED
      BY <1>2, <1>3, <3>2, ZoneOfKey DEF staleKeys
  <2> QED
    BY <1>1, <1>2, <2>1 DEF CommitInv, PlanInv, Active, desiredKeys
<1>5. StepInv'
  <2>1. \A k \in desiredKeys : new.data[k] = want.files[k]
    BY <1>2, <1>3, ZoneOfKey DEF staleKeys
  <2> QED
    BY <1>1, <1>2, <1>3, <2>1 DEF StepInv, ItemsMode, desiredKeys
<1>6. CASE new = mem /\ cm' = cm
  <2>1. ObjectsInv'
    BY <1>1, <1>6 DEF CommitInv, ObjectsInv, ItemsMode
  <2>2. MemoryInv'
    BY <1>1, <1>6 DEF CommitInv, MemoryInv, Active
  <2> QED
    BY <1>4, <1>5, <2>1, <2>2 DEF CommitInv
<1>7. CASE fresh /\ cm' = new
  <2>1. KeysOf(new.data) = KeysOf(cm.data) \ staleKeys
    BY <1>2, <1>3, <1>7 DEF KeysOf
  <2>2. KeysOf(new.data) \cap ZoneKeys = desiredKeys
    BY <1>3, <1>7, <2>1 DEF staleKeys
  <2>3. handmade \subseteq KeysOf(new.data)
    BY <1>3, <2>1 DEF AdminKeepsOwnNames, CommitInv, ObjectsInv, TypeOK, staleKeys
  <2>4. ObjectsInv'
    BY <1>1, <1>2, <1>3, <1>7, <2>2, <2>3 DEF CommitInv, ObjectsInv, ItemsMode
  <2>5. MemoryInv'
    BY <1>1, <1>7 DEF MemoryInv
  <2> QED
    BY <1>4, <1>5, <2>4, <2>5 DEF CommitInv
<1> QED
  BY <1>1, <1>6, <1>7

\* The administrator edits his own files, the markers and what is outside.
LEMMA AdminKeepsInv ==
  ASSUME CommitInv, TypeOK', Admin, AdminKeepsOwnNames
  PROVE  CommitInv'
<1>1. CASE AdminMounts
  <2>1. /\ cm' = cm /\ handmade' = handmade /\ prev' = prev /\ want' = want
        /\ fresh' = fresh /\ mem' = mem /\ pc' = pc
    BY <1>1 DEF AdminMounts, local
  <2>2. PICK k \in handmade :
          /\ dep'.mount = dep.mount
          /\ dep.mount = "items"
          /\ dep'.items = dep.items \cup {k} \/ dep'.items = dep.items \ {k}
    BY <1>1 DEF AdminMounts, CommitInv, TypeOK, Deployments
  <2>3. k \notin ZoneKeys
    BY DEF AdminKeepsOwnNames, CommitInv, TypeOK
  <2>4. dep'.items \cap ZoneKeys = dep.items \cap ZoneKeys
    BY <2>2, <2>3
  <2>5. /\ NamedKeys(cm.corefile.blocks) \subseteq ZoneKeys
        /\ cm.managed \subseteq ZoneKeys
    BY DEF CommitInv, ObjectsInv
  <2>6. ObjectsInv'
    BY <2>1, <2>2, <2>4, <2>5 DEF CommitInv, ObjectsInv, ItemsMode
  <2>7. MemoryInv' /\ PlanInv'
    BY <2>1 DEF CommitInv, MemoryInv, PlanInv, desiredKeys
  <2>8. StepInv'
    <3>1. pc = "switch" => mountAllKeys \subseteq ZoneKeys
      BY DEF CommitInv, PlanInv, Active, mountAllKeys
    <3> QED
      BY <2>1, <2>2, <2>4, <3>1 DEF CommitInv, StepInv, ItemsMode, desiredKeys,
         mountAllKeys
  <2> QED
    BY <2>6, <2>7, <2>8 DEF CommitInv
<1>2. ASSUME NEW new, EditConfigMap(new),
             new.managed = cm.managed,
             \A k \in ZoneKeys : new.data[k] = cm.data[k],
             NamedKeys(new.corefile.blocks) \subseteq NamedKeys(cm.corefile.blocks),
             handmade' \subseteq KeysOf(new.data),
             dep.items \subseteq cm.managed \cup handmade'
      PROVE  CommitInv'
  <2>1. /\ cm' = new /\ dep' = dep /\ prev' = prev /\ want' = want
        /\ mem' = mem /\ pc' = pc
        /\ fresh' = (pc \notin Active \cup {"done"})
    BY <1>2 DEF EditConfigMap
  <2>2. KeysOf(new.data) \cap ZoneKeys = KeysOf(cm.data) \cap ZoneKeys
    BY <1>2 DEF KeysOf
  <2>3. ObjectsInv'
    BY <1>2, <2>1, <2>2 DEF CommitInv, ObjectsInv, ItemsMode
  <2>4. MemoryInv'
    BY <1>2, <2>1 DEF CommitInv, MemoryInv
  <2>5. PlanInv' /\ StepInv'
    BY <2>1 DEF CommitInv, PlanInv, StepInv, ItemsMode, desiredKeys, mountAllKeys
  <2> QED
    BY <2>3, <2>4, <2>5 DEF CommitInv
<1>3. CASE AdminWritesFile
  <2>1. PICK k \in AdminKeys, c \in Contents :
          /\ EditConfigMap([cm EXCEPT !.data[k] = c])
          /\ handmade' = handmade \cup {k}
    BY <1>3 DEF AdminWritesFile
  <2> DEFINE new == [cm EXCEPT !.data[k] = c]
  <2>2. k \in Keys /\ k \notin ZoneKeys /\ c # NoFile
    BY AdminKeysAssumption, MarkersDistinct DEF AdminKeepsOwnNames
  <2>3. /\ new.managed = cm.managed /\ new.corefile = cm.corefile
        /\ \A j \in Keys : new.data[j] = IF j = k THEN c ELSE cm.data[j]
    BY DEF CommitInv, TypeOK, ConfigMaps, Files
  <2>4. KeysOf(new.data) = KeysOf(cm.data) \cup {k}
    BY <2>2, <2>3 DEF KeysOf
  <2>5. \A j \in ZoneKeys : new.data[j] = cm.data[j]
    BY <2>2, <2>3, ZoneOfKey
  <2>6. /\ handmade' \subseteq KeysOf(new.data)
        /\ dep.items \subseteq cm.managed \cup handmade'
    BY <2>1, <2>4 DEF CommitInv, ObjectsInv
  <2> HIDE DEF new
  <2> QED
    BY <1>2, <2>1, <2>3, <2>5, <2>6 DEF new
<1>4. CASE AdminDeletesFile
  <2>1. PICK k \in handmade :
          /\ k \notin dep.items
          /\ EditConfigMap([cm EXCEPT !.data[k] = NoFile])
          /\ handmade' = handmade \ {k}
    BY <1>4 DEF AdminDeletesFile
  <2> DEFINE new == [cm EXCEPT !.data[k] = NoFile]
  <2>2. k \in Keys /\ k \notin ZoneKeys
    BY AdminKeysAssumption DEF AdminKeepsOwnNames, CommitInv, TypeOK
  <2>3. /\ new.managed = cm.managed /\ new.corefile = cm.corefile
        /\ \A j \in Keys : new.data[j] = IF j = k THEN NoFile ELSE cm.data[j]
    BY DEF CommitInv, TypeOK, ConfigMaps, Files
  <2>4. KeysOf(new.data) = KeysOf(cm.data) \ {k}
    BY <2>2, <2>3 DEF KeysOf
  <2>5. \A j \in ZoneKeys : new.data[j] = cm.data[j]
    BY <2>2, <2>3, ZoneOfKey
  <2>6. /\ handmade' \subseteq KeysOf(new.data)
        /\ dep.items \subseteq cm.managed \cup handmade'
    BY <2>1, <2>4 DEF CommitInv, ObjectsInv
  <2> HIDE DEF new
  <2> QED
    BY <1>2, <2>1, <2>3, <2>5, <2>6 DEF new
<1>5. ASSUME NEW f, EditConfigMap([cm EXCEPT !.corefile = f]), UNCHANGED handmade,
             NamedKeys(f.blocks) \subseteq NamedKeys(cm.corefile.blocks)
      PROVE  CommitInv'
  <2> DEFINE new == [cm EXCEPT !.corefile = f]
  <2>1. new.managed = cm.managed /\ new.data = cm.data /\ new.corefile = f
    BY DEF CommitInv, TypeOK, ConfigMaps
  <2>2. /\ handmade' \subseteq KeysOf(new.data)
        /\ dep.items \subseteq cm.managed \cup handmade'
    BY <1>5, <2>1 DEF CommitInv, ObjectsInv
  <2> HIDE DEF new
  <2> QED
    BY <1>2, <1>5, <2>1, <2>2 DEF new
<1>6. CASE AdminEditsBase
  <2>1. PICK b \in Bases : EditConfigMap([cm EXCEPT !.corefile.base = b])
    BY <1>6 DEF AdminEditsBase
  <2> DEFINE f == [cm.corefile EXCEPT !.base = b]
  <2>2. f.blocks = cm.corefile.blocks
    BY DEF CommitInv, TypeOK, ConfigMaps, Corefiles
  <2> QED
    BY <1>5, <1>6, <2>1, <2>2 DEF AdminEditsBase
<1>7. CASE AdminEditsMarkers
  <2>1. PICK m \in {"intact", "broken"} :
          EditConfigMap([cm EXCEPT !.corefile.markers = m])
    BY <1>7 DEF AdminEditsMarkers
  <2> DEFINE f == [cm.corefile EXCEPT !.markers = m]
  <2>2. f.blocks = cm.corefile.blocks
    BY DEF CommitInv, TypeOK, ConfigMaps, Corefiles
  <2> QED
    BY <1>5, <1>7, <2>1, <2>2 DEF AdminEditsMarkers
<1>8. CASE AdminRemovesBlock
  <2> DEFINE f == [cm.corefile EXCEPT !.markers = "absent", !.blocks = NoBlocks]
  <2>1. f.blocks = NoBlocks
    BY DEF CommitInv, TypeOK, ConfigMaps, Corefiles
  <2>2. [cm EXCEPT !.corefile.markers = "absent", !.corefile.blocks = NoBlocks]
           = [cm EXCEPT !.corefile = f]
    BY DEF CommitInv, TypeOK, ConfigMaps, Corefiles
  <2> QED
    BY <1>5, <1>8, <2>1, <2>2, NamedKeysFacts DEF AdminRemovesBlock
<1> QED
  BY <1>1, <1>3, <1>4, <1>6, <1>7, <1>8 DEF Admin

\* CommitInv is inductive.
LEMMA InvStep ==
  ASSUME CommitInv, [Next]_vars, AdminKeepsOwnNames
  PROVE  CommitInv'
<1>0. TypeOK'
  BY TypeStep DEF CommitInv
<1>1. CASE Refuse \/ MountFails \/ Conflict \/ Abort
  BY <1>0, <1>1, FailKeepsInv DEF Refuse, MountFails, Conflict, Abort
<1>2. CASE UNCHANGED vars
  BY <1>2 DEF vars, CommitInv, TypeOK, ObjectsInv, ItemsMode, MemoryInv, PlanInv,
     StepInv, desiredKeys, mountAllKeys
<1> QED
  BY <1>0, <1>1, <1>2, BeginKeepsInv, ExpandKeepsInv, MountKeepsInv,
     SwitchKeepsInv, ContractKeepsInv, PruneKeepsInv, AdminKeepsInv
     DEF Next, CommitStep

\* The inductive invariant holds in every reachable state.
THEOREM InvHolds == ASSUME AdminKeepsOwnNames PROVE Spec => []CommitInv
<1>1. Init => CommitInv
  <2>1. Init => TypeOK
    BY TypeInit
  <2>2. Init => ObjectsInv
    BY NamedKeysFacts DEF Init, ObjectsInv, BlankConfigMap, BlankCorefile, KeysOf,
       NoFiles
  <2> QED
    BY <2>1, <2>2 DEF CommitInv, Init, MemoryInv, PlanInv, StepInv, Active
<1>2. CommitInv /\ [Next]_vars => CommitInv'
  BY InvStep
<1> QED
  BY <1>1, <1>2, PTL DEF Spec

-----------------------------------------------------------------------------
(* What the operator guarantees after every single write, crash and edit *)

\* CoreDNS pods can always mount the volume: whatever the interleaving of the
\* five writes, crashes, conflicts and edits, no volume item names a missing key.
THEOREM VolumeAlwaysPopulates ==
  ASSUME AdminKeepsOwnNames PROVE Spec => []VolumePopulates
<1>1. CommitInv => VolumePopulates
  BY DEF CommitInv, ObjectsInv, VolumePopulates
<1> QED
  BY <1>1, InvHolds, PTL

\* The Corefile never names a zone file that is not in the container.
THEOREM CorefileAlwaysLoads ==
  ASSUME AdminKeepsOwnNames PROVE Spec => []CorefileLoads
<1>1. CommitInv => CorefileLoads
  BY DEF CommitInv, ObjectsInv, ItemsMode, CorefileLoads
<1> QED
  BY <1>1, InvHolds, PTL

\* The annotation lists everything the operator owns, also after a crash.
THEOREM OwnedKeysAlwaysTracked ==
  ASSUME AdminKeepsOwnNames PROVE Spec => []OwnedKeysTracked
<1>1. CommitInv => OwnedKeysTracked
  BY DEF CommitInv, ObjectsInv, OwnedKeysTracked
<1> QED
  BY <1>1, InvHolds, PTL

\* A finished commit has published its plan and left nothing else behind.
THEOREM CommitAlwaysPublishesPlan ==
  ASSUME AdminKeepsOwnNames PROVE Spec => []CommitPublishesPlan
<1>1. ASSUME CommitInv, pc = "done", fresh
      PROVE  Published
  <2>1. /\ mem = cm
        /\ cm.corefile = want.corefile
        /\ cm.managed = desiredKeys
        /\ \A k \in desiredKeys : cm.data[k] = want.files[k]
        /\ cm.managed = KeysOf(cm.data) \cap ZoneKeys
        /\ ItemsMode => dep.items \cap ZoneKeys = desiredKeys
    BY <1>1 DEF CommitInv, MemoryInv, StepInv, ObjectsInv
  <2>2. \A k \in ZoneKeys : cm.data[k] = want.files[k]
    BY <2>1, ZoneOfKey DEF KeysOf, desiredKeys
  <2> QED
    BY <2>1, <2>2 DEF Published, ItemsMode
<1> QED
  BY <1>1, InvHolds, PTL DEF CommitPublishesPlan

\* No step of the operator touches what an administrator made.
THEOREM HandmadeNeverTouched ==
  ASSUME AdminKeepsOwnNames PROVE Spec => HandmadeUntouched
<1>1. ASSUME CommitInv, CommitInv', Next, pc' # pc
      PROVE  /\ cm'.corefile.base = cm.corefile.base
             /\ \A k \in handmade : /\ cm'.data[k] = cm.data[k]
                                    /\ k \notin cm'.managed
                                    /\ k \in dep'.items <=> k \in dep.items
  <2>1. \A k \in handmade : k \in Keys /\ k \notin ZoneKeys /\ k \notin cm'.managed
    BY <1>1, AdminKeysAssumption DEF AdminKeepsOwnNames, CommitInv, TypeOK, ObjectsInv
  <2>2. ~Admin
    BY <1>1 DEF Admin, AdminWritesFile, AdminDeletesFile, AdminEditsBase,
       AdminEditsMarkers, AdminRemovesBlock, AdminMounts, EditConfigMap
  <2>3. CASE UNCHANGED <<cm, dep>>
    BY <2>1, <2>3
  <2>4. CASE Expand \/ Switch \/ Prune
    <3>1. dep' = dep /\ (cm' = cm \/ (fresh /\ cm' = PendingWrite))
      BY <2>4 DEF Expand, Switch, Prune, UpdateConfigMap, PendingWrite
    <3>2. CASE cm' = cm
      BY <2>1, <3>1, <3>2
    <3>3. CASE fresh /\ cm' = PendingWrite
      <4>1. /\ mem = cm /\ want.corefile.base = mem.corefile.base
            /\ desiredKeys \subseteq ZoneKeys /\ prev \subseteq ZoneKeys
        BY <1>1, <2>4, <3>3 DEF CommitInv, MemoryInv, PlanInv, Active, Expand,
           Switch, Prune
      <4>2. mem \in ConfigMaps
        BY <1>1 DEF CommitInv, TypeOK
      <4>3. CASE Expand
        <5>1. cm' = Expanded
          BY <3>3, <4>3 DEF PendingWrite, Expand
        <5> QED
          BY <2>1, <3>1, <4>1, <4>2, <5>1 DEF Expanded, SetManagedZoneKeys,
             SetZoneFiles, ConfigMaps, desiredKeys, KeysOf
      <4>4. CASE Switch
        <5>1. cm' = SwitchedOver
          BY <3>3, <4>4 DEF PendingWrite, Switch
        <5> QED
          BY <2>1, <3>1, <4>1, <4>2, <5>1 DEF SwitchedOver, SetCorefile, ConfigMaps
      <4>5. CASE Prune
        <5>1. cm' = Contracted
          BY <3>3, <4>5 DEF PendingWrite, Prune
        <5> QED
          BY <2>1, <3>1, <4>1, <4>2, <5>1 DEF Contracted, SetManagedZoneKeys,
             RemoveZoneFiles, staleKeys, ConfigMaps
      <4> QED
        BY <2>4, <4>3, <4>4, <4>5
    <3> QED
      BY <3>1, <3>2, <3>3
  <2>5. CASE Mount \/ Contract
    <3>1. desiredKeys \subseteq ZoneKeys /\ prev \subseteq ZoneKeys
      BY <1>1, <2>5 DEF CommitInv, PlanInv, Active, Mount, Contract
    <3>2. cm' = cm
      BY <2>5 DEF Mount, Contract
    <3>3. \A k \in handmade : k \in dep'.items <=> k \in dep.items
      BY <1>1, <2>1, <2>5, <3>1 DEF Mount, Contract, EnsureZoneVolumeItems,
         MarkRolloutRestart, mountAllKeys, CommitInv, TypeOK, Deployments
    <3> QED
      BY <2>1, <3>2, <3>3
  <2> QED
    BY <1>1, <2>2, <2>3, <2>4, <2>5 DEF Next, CommitStep, Begin, BeginWith, Refuse,
       MountFails, Conflict, Abort, cluster
<1>2. ASSUME CommitInv, CommitInv', [Next]_vars
      PROVE  [pc' # pc =>
               /\ cm'.corefile.base = cm.corefile.base
               /\ \A k \in handmade : /\ cm'.data[k] = cm.data[k]
                                      /\ k \notin cm'.managed
                                      /\ k \in dep'.items <=> k \in dep.items]_vars
  BY <1>1, <1>2 DEF vars
<1> QED
  BY <1>2, InvHolds, PTL DEF Spec, HandmadeUntouched

\* No write of a commit changes what is served for a zone that is held.
THEOREM HoldAlwaysKeepsServing ==
  ASSUME AdminKeepsOwnNames PROVE Spec => HoldKeepsServing
<1>1. ASSUME CommitInv, Next, pc \in Active, pc' # pc, NEW z \in want.held
      PROVE  Served(z)' = Served(z)
  <2>0. z \in Zones /\ ZoneFileKey[z] \in Keys
    BY <1>1, ZoneFileKeyAssumption DEF CommitInv, TypeOK, Plans
  <2>1. CASE cm' = cm
    BY <2>1 DEF Served
  <2>2. CASE fresh /\ cm' = PendingWrite
    <3>1. /\ mem = cm /\ mem \in ConfigMaps
          /\ want.corefile.blocks[z] = cm.corefile.blocks[z]
          /\ want.corefile.blocks[z].kind = "file" =>
               want.files[ZoneFileKey[z]] = cm.data[ZoneFileKey[z]]
          /\ NamedKeys(want.corefile.blocks) \subseteq desiredKeys
      BY <1>1, <2>2 DEF CommitInv, TypeOK, MemoryInv, PlanInv
    <3>2. CASE pc = "expand"
      <4>1. /\ cm'.corefile = cm.corefile
            /\ cm'.data[ZoneFileKey[z]] =
                 IF want.files[ZoneFileKey[z]] # NoFile
                 THEN want.files[ZoneFileKey[z]] ELSE cm.data[ZoneFileKey[z]]
        BY <2>0, <2>2, <3>1, <3>2 DEF PendingWrite, Expanded, SetManagedZoneKeys,
           SetZoneFiles, ConfigMaps
      <4> QED
        BY <3>1, <4>1 DEF Served
    <3>3. CASE pc = "switch"
      <4>1. cm'.corefile = want.corefile /\ cm'.data = cm.data
        BY <2>2, <3>1, <3>3 DEF PendingWrite, SwitchedOver, SetCorefile, ConfigMaps
      <4> QED
        BY <3>1, <4>1 DEF Served
    <3>4. CASE pc = "prune"
      <4>1. /\ cm'.corefile = cm.corefile
            /\ cm'.data[ZoneFileKey[z]] =
                 IF ZoneFileKey[z] \in staleKeys THEN NoFile
                 ELSE cm.data[ZoneFileKey[z]]
        BY <2>0, <2>2, <3>1, <3>4 DEF PendingWrite, Contracted, SetManagedZoneKeys,
           RemoveZoneFiles, ConfigMaps
      <4>2. cm.corefile.blocks[z].kind = "file" => ZoneFileKey[z] \notin staleKeys
        BY <2>0, <3>1 DEF NamedKeys, staleKeys
      <4> QED
        BY <4>1, <4>2 DEF Served
    <3>5. CASE pc \notin {"expand", "switch", "prune"}
      BY <2>1, <2>2, <3>1, <3>5 DEF PendingWrite
    <3> QED
      BY <3>2, <3>3, <3>4, <3>5
  <2>3. cm' = cm \/ (fresh /\ cm' = PendingWrite)
    BY <1>1 DEF Next, CommitStep, Begin, BeginWith, Refuse, MountFails, Conflict, Abort, Mount,
       Contract, Expand, Switch, Prune, UpdateConfigMap, PendingWrite, cluster,
       Admin, AdminWritesFile, AdminDeletesFile, AdminEditsBase,
       AdminEditsMarkers, AdminRemovesBlock, AdminMounts, EditConfigMap
  <2> QED
    BY <2>1, <2>2, <2>3
<1>2. ASSUME CommitInv, [Next]_vars
      PROVE  [(pc \in Active /\ pc' # pc) =>
                \A z \in want.held : Served(z)' = Served(z)]_vars
  BY <1>1, <1>2 DEF vars
<1> QED
  BY <1>2, InvHolds, PTL DEF Spec, HoldKeepsServing

\* A reconcile that finds its plan in place writes nothing.
THEOREM SteadyStateNeverWrites ==
  ASSUME AdminKeepsOwnNames PROVE Spec => SteadyStateWritesNothing
<1>1. ASSUME CommitInv, Next, pc \in Active, pc' # pc, ~switched, Published
      PROVE  UNCHANGED cluster
  <2>0. /\ mem \in ConfigMaps /\ dep \in Deployments /\ want \in Plans
        /\ fresh => mem = cm
        /\ cm.managed = desiredKeys /\ mem.managed = cm.managed
        /\ prev \subseteq desiredKeys
        /\ \A k \in ZoneKeys : cm.data[k] = want.files[k]
        /\ desiredKeys \subseteq ZoneKeys
        /\ cm.corefile = want.corefile
    BY <1>1 DEF CommitInv, TypeOK, MemoryInv, PlanInv, StepInv, Published, Active,
       mountAllKeys
  <2>1. ASSUME fresh PROVE PendingWrite = mem
    <3>1. Expanded = mem
      <4>1. SetZoneFiles(mem, want.files) = mem
        <5>1. \A k \in Keys : (IF want.files[k] # NoFile THEN want.files[k]
                               ELSE mem.data[k]) = mem.data[k]
          BY <2>0, <2>1 DEF desiredKeys, KeysOf
        <5> QED
          BY <2>0, <5>1 DEF SetZoneFiles, ConfigMaps, Files
      <4>2. mountAllKeys = mem.managed
        BY <2>0 DEF mountAllKeys
      <4> QED
        BY <2>0, <4>1, <4>2 DEF Expanded, SetManagedZoneKeys, ConfigMaps
    <3>2. SwitchedOver = mem
      BY <2>0, <2>1 DEF SwitchedOver, SetCorefile, ConfigMaps
    <3>3. Contracted = mem
      <4>1. staleKeys = {}
        BY <2>0 DEF staleKeys
      <4>2. RemoveZoneFiles(mem, staleKeys) = mem
        BY <2>0, <4>1 DEF RemoveZoneFiles, ConfigMaps, Files
      <4> QED
        BY <2>0, <4>2 DEF Contracted, SetManagedZoneKeys, ConfigMaps
    <3> QED
      BY <3>1, <3>2, <3>3 DEF PendingWrite
  <2>2. cm' = cm
    <3>1. cm' = cm \/ (fresh /\ PendingWrite # mem)
      BY <1>1 DEF Next, CommitStep, Begin, BeginWith, Refuse, MountFails, Conflict, Abort,
         Mount, Contract, Expand, Switch, Prune, UpdateConfigMap, PendingWrite,
         cluster, Admin, AdminWritesFile, AdminDeletesFile, AdminEditsBase,
         AdminEditsMarkers, AdminRemovesBlock, AdminMounts, EditConfigMap
    <3> QED
      BY <2>1, <3>1
  <2>3. dep' = dep
    <3>1. EnsureZoneVolumeItems(dep, desiredKeys, prev) = dep
      BY <1>1, <2>0 DEF EnsureZoneVolumeItems, Published, Deployments
    <3>2. mountAllKeys = desiredKeys
      BY <2>0 DEF mountAllKeys
    <3> QED
      BY <1>1, <3>1, <3>2 DEF Next, CommitStep, Begin, BeginWith, Refuse, MountFails, Conflict,
         Abort, Mount, Contract, Restart, Expand, Switch, Prune, cluster, Admin,
         AdminWritesFile, AdminDeletesFile, AdminEditsBase,
         AdminEditsMarkers, AdminRemovesBlock, AdminMounts, EditConfigMap
  <2> QED
    BY <2>2, <2>3 DEF cluster
<1>2. ASSUME CommitInv, [Next]_vars
      PROVE  [(pc \in Active /\ pc' # pc /\ ~switched /\ Published)
                => UNCHANGED cluster]_vars
  BY <1>1, <1>2 DEF vars
<1> QED
  BY <1>2, InvHolds, PTL DEF Spec, SteadyStateWritesNothing

-----------------------------------------------------------------------------
(* Refinement: the five writes implement module ZonePublication *)

\* A file the plan carries is the file of a zone whose new stanza names it, or
\* belongs to a zone that is held; the second conjunct of the inductive
\* invariant the refinement needs on top of CommitInv.
PlanFilesUsed ==
  pc \in Active \cup {"done"} =>
    \A z \in Zones :
      ZoneFileKey[z] \in desiredKeys =>
        want.corefile.blocks[z].kind = "file" \/ z \in want.held

\* Reading the ConfigMap establishes PlanFilesUsed, and no later step changes
\* the plan.
LEMMA PlanFilesUsedStep ==
  ASSUME PlanFilesUsed, [Next]_vars
  PROVE  PlanFilesUsed'
<1>1. CASE Begin
  <2>1. PICK outcome \in [Zones -> Outcomes], h \in Hashes :
           want' = Plan(outcome, cm, h)
    BY <1>1 DEF Begin, BeginWith
  <2>2. /\ want'.files = PlanFiles(outcome, cm)
        /\ want'.corefile.blocks = PlanBlocks(outcome, cm)
        /\ want'.held = Held(outcome, cm)
    BY <2>1 DEF Plan, PatchCorefile
  <2>3. ASSUME NEW z \in Zones, PlanFiles(outcome, cm)[ZoneFileKey[z]] # NoFile
        PROVE  PlanBlocks(outcome, cm)[z].kind = "file" \/ z \in Held(outcome, cm)
    <3>1. ZoneFileKey[z] \in Keys /\ ZoneFileKey[z] \in ZoneKeys
          /\ ZoneOf(ZoneFileKey[z]) = z
      BY ZoneOfKey, ZoneFileKeyAssumption
    <3>2. outcome[z].kind = "file" \/ z \in Held(outcome, cm)
      BY <2>3, <3>1 DEF PlanFiles
    <3>3. outcome[z].kind = "file" => PlanBlocks(outcome, cm)[z].kind = "file"
      BY DEF PlanBlocks, Directive, FileStanza
    <3> QED
      BY <3>2, <3>3
  <2> QED
    BY <2>2, <2>3 DEF PlanFilesUsed, desiredKeys, KeysOf
<1>2. CASE pc' = "failed"
  BY <1>2 DEF PlanFilesUsed, Active
<1>3. CASE UNCHANGED want /\ (pc' = pc \/ pc \in Active)
  BY <1>3 DEF PlanFilesUsed, desiredKeys
<1> QED
  BY <1>1, <1>2, <1>3 DEF Next, CommitStep, Refuse, MountFails, Conflict, Abort,
     Fail, Expand, Mount, Switch, Contract, Prune, Active, local, vars, Admin,
     AdminWritesFile, AdminDeletesFile, AdminEditsBase, AdminEditsMarkers,
     AdminRemovesBlock, AdminMounts, EditConfigMap

\* The abstract view, target and state of a state of the commit.  What is
\* served and what is wanted are the same function of a Corefile and files.
ViewOf(corefile, files) ==
  [z \in Zones |->
     LET b == corefile.blocks[z]
     IN  [kind |-> b.kind,
          body |-> IF b.kind = "file" THEN files[ZoneFileKey[z]] ELSE b.body]]

View == [z \in Zones |-> Served(z)]
Target == [z \in Zones |-> Wanted(z)]
Progress == IF pc \in {"idle", "failed"} THEN pc
            ELSE IF ~fresh THEN "overtaken"
            ELSE IF pc = "done" THEN "done" ELSE "busy"

\* Once the objects hold the plan's Corefile and files, every zone is served
\* as the plan wants it.
LEMMA ServedIsWanted ==
  ASSUME NEW corefile, NEW files, NEW data,
         NamedKeys(corefile.blocks) \subseteq KeysOf(files),
         \A k \in KeysOf(files) : data[k] = files[k]
  PROVE  ViewOf(corefile, data) = ViewOf(corefile, files)
<1>1. ASSUME NEW z \in Zones, corefile.blocks[z].kind = "file"
      PROVE  data[ZoneFileKey[z]] = files[ZoneFileKey[z]]
  BY <1>1 DEF NamedKeys
<1> QED
  BY <1>1 DEF ViewOf

\* A plan without content wants nothing served.
LEMMA BlankTarget == ViewOf(BlankPlan.corefile, BlankPlan.files) = Publication!Nothing
BY DEF ViewOf, BlankPlan, BlankCorefile, NoBlocks, NoStanza,
       Publication!Nothing, Publication!Unserved

\* A plan wants each zone gone, or served from something rendered.
LEMMA TargetType ==
  ASSUME NEW w \in Plans, NamedKeys(w.corefile.blocks) \subseteq KeysOf(w.files)
  PROVE  ViewOf(w.corefile, w.files) \in [Zones -> Publication!Views]
<1>1. ASSUME NEW z \in Zones
      PROVE  ViewOf(w.corefile, w.files)[z] \in Publication!Views
  <2> DEFINE b == w.corefile.blocks[z]
  <2>1. b \in Stanzas /\ w.files \in Files
    BY DEF Plans, Corefiles
  <2>2. CASE b = NoStanza
    BY <2>2 DEF ViewOf, NoStanza, Publication!Views, Publication!Unserved
  <2>3. CASE b = FileStanza
    <3>1. ZoneFileKey[z] \in KeysOf(w.files)
      BY <2>3 DEF FileStanza, NamedKeys
    <3>2. w.files[ZoneFileKey[z]] \in Contents
      BY <2>1, <3>1 DEF KeysOf, Files
    <3> QED
      BY <2>3, <3>2 DEF ViewOf, FileStanza, Publication!Views
  <2>4. ASSUME NEW c \in Contents, b = TemplateStanza(c)
        PROVE  ViewOf(w.corefile, w.files)[z] \in Publication!Views
    BY <2>4 DEF ViewOf, TemplateStanza, Publication!Views
  <2> QED
    BY <2>1, <2>2, <2>3, <2>4 DEF Stanzas
<1>2. ViewOf(w.corefile, w.files) = [z \in Zones |-> ViewOf(w.corefile, w.files)[z]]
  BY DEF ViewOf
<1> QED
  BY <1>1, <1>2

\* Every step of the commit and of the administrator is a step of the abstract
\* publication, or changes nothing in it.
LEMMA PublicationStep ==
  ASSUME CommitInv, CommitInv', PlanFilesUsed, [Next]_vars, AdminKeepsOwnNames
  PROVE  [Publication!Next]_Publication!vars
<1> USE DEF View, Target, Progress
<1>0. /\ View = ViewOf(cm.corefile, cm.data)
      /\ Target = ViewOf(want.corefile, want.files)
      /\ View' = ViewOf(cm'.corefile, cm'.data)
      /\ Target' = ViewOf(want'.corefile, want'.files)
  BY DEF ViewOf, Served, Wanted
<1>1. CASE Begin
  <2>1. want' \in Plans /\ NamedKeys(want'.corefile.blocks) \subseteq desiredKeys'
    BY <1>1 DEF CommitInv, TypeOK, PlanInv, Begin, BeginWith, Active
  <2>2. Target' \in [Zones -> Publication!Views]
    BY <1>0, <2>1, TargetType DEF desiredKeys
  <2>3. Progress # "busy" /\ Progress' = "busy" /\ View' = View
    BY <1>1 DEF Begin, BeginWith, cluster, Served
  <2> QED
    BY <2>2, <2>3 DEF Publication!Next, Publication!Begin
<1>2. CASE Fail /\ UNCHANGED <<cluster, handmade>>
  <2>1. Target' = Publication!Nothing
    BY <1>0, <1>2, BlankTarget DEF Fail
  <2>2. Progress' = "failed" /\ View' = View
    BY <1>2 DEF Fail, cluster, Served
  <2> QED
    BY <2>1, <2>2 DEF Publication!Next, Publication!GiveUp
<1>3. ASSUME UNCHANGED <<cm, want, fresh>>, pc \in Active, 
             pc' \in Active \/ (~fresh /\ pc' = "done")
      PROVE  [Publication!Next]_Publication!vars
  BY <1>3 DEF Publication!vars, Served, Wanted, Active
<1>4. CASE Expand /\ fresh
  <2>1. /\ cm' = Expanded /\ mem = cm /\ want' = want
        /\ NamedKeys(want.corefile.blocks) \subseteq desiredKeys
        /\ PlanFilesUsed
    BY <1>4 DEF Expand, UpdateConfigMap, CommitInv, MemoryInv, PlanInv, Active
  <2>2. /\ cm'.corefile = cm.corefile
        /\ \A k \in Keys : cm'.data[k] = IF want.files[k] # NoFile
                                         THEN want.files[k] ELSE cm.data[k]
    BY <2>1 DEF Expanded, SetManagedZoneKeys, SetZoneFiles, CommitInv, TypeOK,
       ConfigMaps
  <2>3. ASSUME NEW z \in Zones PROVE Served(z)' \in {Served(z), Wanted(z)}
    <3>1. ZoneFileKey[z] \in Keys
      BY ZoneFileKeyAssumption
    <3>2. CASE cm.corefile.blocks[z].kind # "file"
      BY <2>2, <3>2 DEF Served
    <3>3. CASE want.files[ZoneFileKey[z]] = NoFile
      BY <2>2, <3>1, <3>3 DEF Served
    <3>4. CASE /\ cm.corefile.blocks[z].kind = "file"
               /\ want.files[ZoneFileKey[z]] # NoFile
      <4>1. want.corefile.blocks[z].kind = "file" \/ z \in want.held
        BY <1>4, <3>1, <3>4 DEF PlanFilesUsed, Expand, Active, desiredKeys, KeysOf
      <4>2. z \in want.held => want.corefile.blocks[z] = cm.corefile.blocks[z]
        BY <1>4, <2>1 DEF CommitInv, PlanInv, Expand, Active
      <4> QED
        BY <2>2, <3>1, <3>4, <4>1, <4>2 DEF Served, Wanted
    <3> QED
      BY <3>2, <3>3, <3>4
  <2>4. View' = [z \in Zones |-> IF z \in {y \in Zones : Served(y)' = Wanted(y)}
                                 THEN Target[z] ELSE View[z]]
    BY <2>3
  <2>5. Progress = "busy" /\ Progress' = "busy" /\ Target' = Target
    BY <1>4 DEF Expand, Wanted
  <2> QED
    BY <2>4, <2>5 DEF Publication!Next, Publication!Publish
<1>5. CASE Switch /\ fresh
  <2>1. /\ cm' = SwitchedOver /\ mem = cm /\ want' = want
        /\ NamedKeys(want.corefile.blocks) \subseteq desiredKeys
        /\ \A k \in desiredKeys : cm.data[k] = want.files[k]
    BY <1>5 DEF Switch, UpdateConfigMap, CommitInv, MemoryInv, PlanInv, StepInv,
       Active
  <2>2. cm'.corefile = want.corefile /\ cm'.data = cm.data
    BY <2>1 DEF SwitchedOver, SetCorefile, CommitInv, TypeOK, ConfigMaps
  <2>3. View' = Target'
    BY <1>0, <2>1, <2>2, ServedIsWanted DEF desiredKeys
  <2>4. Progress = "busy" /\ Progress' = "busy" /\ Target' = Target
    BY <1>5 DEF Switch, Wanted
  <2>5. View' = [z \in Zones |-> IF z \in Zones THEN Target[z] ELSE View[z]]
    BY <2>3, <2>4
  <2> QED
    BY <2>4, <2>5 DEF Publication!Next, Publication!Publish
<1>6. CASE Prune /\ fresh
  <2>1. /\ cm' = Contracted /\ mem = cm /\ want' = want
        /\ cm.corefile = want.corefile
        /\ NamedKeys(want.corefile.blocks) \subseteq desiredKeys
        /\ \A k \in desiredKeys : cm.data[k] = want.files[k]
    BY <1>6 DEF Prune, UpdateConfigMap, CommitInv, MemoryInv, PlanInv, StepInv,
       Active
  <2>2. /\ cm'.corefile = cm.corefile
        /\ \A k \in Keys : cm'.data[k] = IF k \in staleKeys THEN NoFile
                                         ELSE cm.data[k]
    BY <2>1 DEF Contracted, SetManagedZoneKeys, RemoveZoneFiles, CommitInv, TypeOK,
       ConfigMaps
  <2>3. View = Target
    BY <1>0, <2>1, ServedIsWanted DEF desiredKeys
  <2>4. ASSUME NEW z \in Zones PROVE Served(z)' = Served(z)
    <3>1. ZoneFileKey[z] \in Keys
      BY ZoneFileKeyAssumption
    <3>2. cm.corefile.blocks[z].kind = "file" => ZoneFileKey[z] \notin staleKeys
      BY <2>1 DEF NamedKeys, staleKeys
    <3> QED
      BY <2>2, <3>1, <3>2 DEF Served
  <2>5. Progress = "busy" /\ Progress' = "done" /\ Target' = Target
    BY <1>6 DEF Prune, Wanted
  <2>6. View' = View
    BY <2>4
  <2> QED
    BY <2>3, <2>5, <2>6 DEF Publication!Next, Publication!Finish
<1>7. ASSUME NEW new, EditConfigMap(new),
             \/ \A z \in Zones : Served(z)' = Served(z)
             \/ \A z \in Zones : Served(z)' = Publication!Unserved
      PROVE  Publication!Overtake
  <2>1. View' \in {View, Publication!Nothing}
    BY <1>7 DEF Publication!Nothing
  <2>2. /\ Progress' = IF Progress \in {"busy", "done"} THEN "overtaken" ELSE Progress
        /\ Target' = Target
    BY <1>7 DEF EditConfigMap, Wanted, Active, CommitInv, TypeOK, PCs
  <2> QED
    BY <2>1, <2>2 DEF Publication!Overtake
<1>8. CASE AdminWritesFile \/ AdminDeletesFile
  <2>1. PICK k \in AdminKeys, c \in Contents \cup {NoFile} :
          EditConfigMap([cm EXCEPT !.data[k] = c])
    BY <1>8 DEF AdminWritesFile, AdminDeletesFile, CommitInv, TypeOK
  <2>2. \A z \in Zones : ZoneFileKey[z] \in Keys /\ ZoneFileKey[z] # k
    BY ZoneOfKey, ZoneFileKeyAssumption DEF AdminKeepsOwnNames
  <2>3. /\ cm'.corefile = cm.corefile
        /\ \A j \in Keys : j # k => cm'.data[j] = cm.data[j]
    BY <2>1 DEF EditConfigMap, CommitInv, TypeOK, ConfigMaps, Files
  <2>4. \A z \in Zones : Served(z)' = Served(z)
    BY <2>2, <2>3 DEF Served
  <2> QED
    BY <1>7, <2>1, <2>4 DEF Publication!Next
<1>9. CASE AdminEditsBase \/ AdminEditsMarkers
  <2>1. cm'.data = cm.data /\ cm'.corefile.blocks = cm.corefile.blocks
    BY <1>9 DEF AdminEditsBase, AdminEditsMarkers, EditConfigMap, CommitInv, TypeOK,
       ConfigMaps, Corefiles
  <2>2. \A z \in Zones : Served(z)' = Served(z)
    BY <2>1 DEF Served
  <2> QED
    BY <1>7, <1>9, <2>2 DEF AdminEditsBase, AdminEditsMarkers, Publication!Next
<1>10. CASE AdminRemovesBlock
  <2>1. cm'.corefile.blocks = NoBlocks
    BY <1>10 DEF AdminRemovesBlock, EditConfigMap, CommitInv, TypeOK, ConfigMaps,
       Corefiles
  <2>2. \A z \in Zones : Served(z)' = Publication!Unserved
    BY <2>1 DEF Served, NoBlocks, NoStanza, Publication!Unserved
  <2> QED
    BY <1>7, <1>10, <2>2 DEF AdminRemovesBlock, Publication!Next
<1>11. CASE AdminMounts \/ UNCHANGED vars
  BY <1>11 DEF AdminMounts, local, vars, Publication!vars, Served, Wanted
<1>12. CASE Refuse \/ MountFails \/ Conflict \/ Abort
  BY <1>2, <1>12 DEF Refuse, MountFails, Conflict, Abort
<1>13. CASE Mount \/ Contract
  BY <1>3, <1>13 DEF Mount, Contract, local, Active
<1>14. CASE (Expand \/ Switch \/ Prune) /\ ~fresh
  BY <1>3, <1>14 DEF Expand, Switch, Prune, UpdateConfigMap, Active
<1> QED
  BY <1>1, <1>4, <1>5, <1>6, <1>8, <1>9, <1>10, <1>11, <1>12, <1>13, <1>14
     DEF Next, CommitStep, Admin

\* The five writes of a commit implement the abstract publication: every zone
\* moves at once from what was served to what the running commit wants, a
\* commit that reports success has moved them all, and a commit overtaken by an
\* edit publishes nothing more.
THEOREM CommitImplementsPublication ==
  ASSUME AdminKeepsOwnNames PROVE Spec => PublishesZonesAtomically
<1>1. Init => Publication!Init
  BY DEF Init, Publication!Init, Publication!Nothing, Publication!Unserved, Served,
     Wanted, BlankPlan, BlankCorefile, BlankConfigMap, NoBlocks, NoStanza
<1>2. Init => PlanFilesUsed
  BY DEF Init, PlanFilesUsed, Active
<1>3. PlanFilesUsed /\ [Next]_vars => PlanFilesUsed'
  BY PlanFilesUsedStep
<1>4. CommitInv /\ CommitInv' /\ PlanFilesUsed /\ [Next]_vars
        => [Publication!Next]_Publication!vars
  BY PublicationStep
<1> QED
  BY <1>1, <1>2, <1>3, <1>4, InvHolds, PTL
     DEF Spec, PublishesZonesAtomically, Publication!Spec

-----------------------------------------------------------------------------
(* One process among others.  What a reconcile keeps of its own, and of the *)
(* ConfigMap, without knowing who else writes to either object: nothing     *)
(* here mentions the Deployment or the administrator.                       *)

\* The annotation lists exactly the operator's keys, and the Corefile names
\* only those.
Whole(c) ==
  /\ c.managed = KeysOf(c.data) \cap ZoneKeys
  /\ NamedKeys(c.corefile.blocks) \subseteq c.managed

\* The copy a process works on is whole, and current unless it was overtaken.
CopyInv ==
  pc \in Active \cup {"done"} => Whole(mem) /\ (fresh => mem = cm)

\* Its plan names only files it has, and leaves the stanzas of held zones.
OwnPlanInv ==
  pc \in Active \cup {"done"} =>
    /\ prev \subseteq ZoneKeys
    /\ desiredKeys \subseteq ZoneKeys
    /\ NamedKeys(want.corefile.blocks) \subseteq desiredKeys
    /\ \A z \in want.held : want.corefile.blocks[z] = mem.corefile.blocks[z]

\* How far its copy is on the way from what was read to the plan.
OwnStepInv ==
  /\ pc = "expand" => mem.managed = prev
  /\ pc \in {"mount", "switch", "contract", "prune"} => mem.managed = mountAllKeys
  /\ pc \in {"mount", "switch", "contract", "prune", "done"} =>
       \A k \in desiredKeys : mem.data[k] = want.files[k]
  /\ pc \in {"contract", "prune", "done"} => mem.corefile = want.corefile

ProcessInv ==
  /\ TypeOK
  /\ Whole(cm)
  /\ CopyInv
  /\ OwnPlanInv
  /\ OwnStepInv
  /\ PlanFilesUsed

\* A step of the reconciler itself.
ProcessStep == Begin \/ CommitStep \/ Conflict \/ Abort

\* The three writes of the ConfigMap, applied to a whole copy, give a whole one.
LEMMA WritesKeepWhole ==
  ASSUME TypeOK, Whole(mem), prev \subseteq ZoneKeys, desiredKeys \subseteq ZoneKeys,
         NamedKeys(want.corefile.blocks) \subseteq desiredKeys
  PROVE  /\ mem.managed = prev => Whole(Expanded)
         /\ mem.managed = mountAllKeys => Whole(SwitchedOver)
         /\ mem.managed = mountAllKeys /\ mem.corefile = want.corefile
              => Whole(Contracted)
<1>0. mem \in ConfigMaps /\ \A k \in desiredKeys : want.files[k] # NoFile
  BY DEF TypeOK, desiredKeys, KeysOf
<1>1. ASSUME mem.managed = prev PROVE Whole(Expanded)
  <2>1. /\ Expanded.managed = prev \cup desiredKeys
        /\ Expanded.corefile = mem.corefile
        /\ \A k \in Keys : Expanded.data[k] = IF k \in desiredKeys THEN want.files[k]
                                              ELSE mem.data[k]
    BY <1>0 DEF Expanded, SetManagedZoneKeys, SetZoneFiles, mountAllKeys, ConfigMaps,
       desiredKeys, KeysOf
  <2>2. KeysOf(Expanded.data) \cap ZoneKeys = prev \cup desiredKeys
    BY <1>0, <1>1, <2>1, ZoneOfKey DEF Whole, KeysOf
  <2> QED
    BY <1>1, <2>1, <2>2 DEF Whole
<1>2. ASSUME mem.managed = mountAllKeys PROVE Whole(SwitchedOver)
  <2>1. /\ SwitchedOver.managed = mem.managed
        /\ SwitchedOver.corefile = want.corefile
        /\ SwitchedOver.data = mem.data
    BY <1>0 DEF SwitchedOver, SetCorefile, ConfigMaps
  <2> QED
    BY <1>2, <2>1 DEF Whole, mountAllKeys
<1>3. ASSUME mem.managed = mountAllKeys, mem.corefile = want.corefile
      PROVE  Whole(Contracted)
  <2>1. /\ Contracted.managed = desiredKeys
        /\ Contracted.corefile = mem.corefile
        /\ \A k \in Keys : Contracted.data[k] = IF k \in prev \ desiredKeys THEN NoFile
                                                ELSE mem.data[k]
    BY <1>0 DEF Contracted, SetManagedZoneKeys, RemoveZoneFiles, staleKeys, ConfigMaps
  <2>2. KeysOf(Contracted.data) \cap ZoneKeys = desiredKeys
    BY <1>0, <1>3, <2>1, ZoneOfKey DEF Whole, KeysOf, mountAllKeys
  <2> QED
    BY <1>3, <2>1, <2>2 DEF Whole
<1> QED
  BY <1>1, <1>2, <1>3

\* The process's own steps keep its invariant and the ConfigMap whole.
LEMMA ProcessKeepsInv ==
  ASSUME ProcessInv, ProcessStep
  PROVE  ProcessInv'
<1>0. TypeOK' /\ PlanFilesUsed'
  BY TypeStep, PlanFilesUsedStep DEF ProcessInv, ProcessStep, Next
<1>1. CASE Fail /\ UNCHANGED cm
  BY <1>0, <1>1 DEF ProcessInv, Fail, Whole, CopyInv, OwnPlanInv, OwnStepInv, Active
<1>2. CASE Begin
  <2>1. PICK outcome \in [Zones -> Outcomes], h \in Hashes :
           want' = Plan(outcome, cm, h)
    BY <1>2 DEF Begin, BeginWith
  <2>2. cm' = cm /\ mem' = cm /\ prev' = cm.managed /\ pc' = "expand"
    BY <1>2 DEF Begin, BeginWith, cluster, ManagedZoneKeys
  <2>3. /\ want'.files = PlanFiles(outcome, cm)
        /\ want'.corefile.blocks = PlanBlocks(outcome, cm)
        /\ want'.held = Held(outcome, cm)
    BY <2>1 DEF Plan, PatchCorefile
  <2>4. cm \in ConfigMaps /\ Whole(cm)
    BY DEF ProcessInv, TypeOK
  <2>5. /\ desiredKeys' \subseteq ZoneKeys
        /\ NamedKeys(want'.corefile.blocks) \subseteq desiredKeys'
    BY <2>3, <2>4, PlanNamesItsFiles DEF desiredKeys, Whole
  <2>6. \A z \in want'.held : want'.corefile.blocks[z] = mem'.corefile.blocks[z]
    BY <2>2, <2>3, <2>4, PlanHolds DEF Whole
  <2> QED
    BY <1>0, <2>2, <2>4, <2>5, <2>6 DEF ProcessInv, Whole, CopyInv, OwnPlanInv,
       OwnStepInv
<1>3. CASE Mount \/ Contract
  <2>1. /\ UNCHANGED <<cm, local>>
        /\ \/ pc = "mount" /\ pc' = "switch"
           \/ pc = "contract" /\ pc' = "prune"
    BY <1>3 DEF Mount, Contract
  <2> QED
    BY <1>0, <2>1 DEF local, ProcessInv, Whole, CopyInv, OwnPlanInv, OwnStepInv,
       Active, desiredKeys, mountAllKeys
<1>4. CASE Expand \/ Switch \/ Prune
  <2>1. /\ UNCHANGED <<prev, want, fresh>>
        /\ pc \in Active /\ pc' \in Active \cup {"done"}
        /\ mem' = PendingWrite
        /\ (PendingWrite = mem /\ cm' = cm) \/ (fresh /\ cm' = PendingWrite)
    BY <1>4 DEF Expand, Switch, Prune, UpdateConfigMap, PendingWrite, Active
  <2>2. /\ TypeOK /\ Whole(mem) /\ prev \subseteq ZoneKeys
        /\ desiredKeys \subseteq ZoneKeys
        /\ NamedKeys(want.corefile.blocks) \subseteq desiredKeys
        /\ fresh => mem = cm
    BY <2>1 DEF ProcessInv, CopyInv, OwnPlanInv
  <2>3. mem \in ConfigMaps
    BY <2>2 DEF TypeOK
  <2>4. /\ Whole(PendingWrite)
        /\ pc' \in {"contract", "done"} => PendingWrite.corefile = want.corefile
        /\ pc' \notin {"contract", "done"} => PendingWrite.corefile = mem.corefile
        /\ \A k \in desiredKeys : PendingWrite.data[k] = want.files[k]
        /\ pc' # "done" => PendingWrite.managed = mountAllKeys
    <3>1. CASE Expand
      <4>1. pc = "expand" /\ pc' = "mount" /\ PendingWrite = Expanded
        BY <3>1 DEF Expand, PendingWrite
      <4>2. mem.managed = prev
        BY <4>1 DEF ProcessInv, OwnStepInv
      <4>3. /\ Expanded.corefile = mem.corefile
            /\ Expanded.managed = mountAllKeys
            /\ \A k \in desiredKeys : Expanded.data[k] = want.files[k]
        BY <2>3 DEF Expanded, SetManagedZoneKeys, SetZoneFiles, ConfigMaps,
           desiredKeys, KeysOf
      <4> QED
        BY <2>2, <4>1, <4>2, <4>3, WritesKeepWhole
    <3>2. CASE Switch
      <4>1. pc = "switch" /\ pc' = "contract" /\ PendingWrite = SwitchedOver
        BY <3>2 DEF Switch, PendingWrite
      <4>2. mem.managed = mountAllKeys /\ \A k \in desiredKeys : mem.data[k] = want.files[k]
        BY <4>1 DEF ProcessInv, OwnStepInv
      <4>3. /\ SwitchedOver.corefile = want.corefile
            /\ SwitchedOver.managed = mem.managed
            /\ SwitchedOver.data = mem.data
        BY <2>3 DEF SwitchedOver, SetCorefile, ConfigMaps
      <4> QED
        BY <2>2, <4>1, <4>2, <4>3, WritesKeepWhole
    <3>3. CASE Prune
      <4>1. pc = "prune" /\ pc' = "done" /\ PendingWrite = Contracted
        BY <3>3 DEF Prune, PendingWrite
      <4>2. /\ mem.managed = mountAllKeys /\ mem.corefile = want.corefile
            /\ \A k \in desiredKeys : mem.data[k] = want.files[k]
        BY <4>1 DEF ProcessInv, OwnStepInv
      <4>3. /\ Contracted.corefile = mem.corefile
            /\ \A k \in desiredKeys : Contracted.data[k] = mem.data[k]
        BY <2>3, KeySetTypes, <2>2 DEF Contracted, SetManagedZoneKeys, RemoveZoneFiles,
           staleKeys, ConfigMaps
      <4> QED
        BY <2>2, <4>1, <4>2, <4>3, WritesKeepWhole
    <3> QED
      BY <1>4, <3>1, <3>2, <3>3
  <2>5. Whole(cm')
    BY <2>1, <2>4 DEF ProcessInv
  <2>6. CopyInv'
    BY <2>1, <2>2, <2>4 DEF CopyInv, Whole
  <2>7. OwnPlanInv'
    <3>1. \A z \in want.held : want.corefile.blocks[z] = mem'.corefile.blocks[z]
      BY <2>1, <2>4 DEF ProcessInv, OwnPlanInv
    <3> QED
      BY <2>1, <2>2, <3>1 DEF OwnPlanInv, desiredKeys
  <2>8. OwnStepInv'
    <3>1. \/ pc' = "mount" \/ pc' = "contract" \/ pc' = "done"
      BY <1>4 DEF Expand, Switch, Prune
    <3> QED
      BY <2>1, <2>4, <3>1 DEF OwnStepInv, desiredKeys, mountAllKeys
  <2> QED
    BY <1>0, <2>5, <2>6, <2>7, <2>8 DEF ProcessInv, Whole
<1> QED
  BY <1>1, <1>2, <1>3, <1>4 DEF ProcessStep, CommitStep, MountFails, Conflict, Abort,
     cluster

\* A process that has just been installed.
LEMMA ProcessInit == Init => ProcessInv
<1>1. Init => Whole(cm)
  BY NamedKeysFacts DEF Init, Whole, BlankConfigMap, BlankCorefile, KeysOf, NoFiles
<1> QED
  BY <1>1, TypeInit DEF Init, ProcessInv, CopyInv, OwnPlanInv, OwnStepInv, PlanFilesUsed,
     Active

\* A write of the ConfigMap by somebody else who keeps it whole, or of the
\* Deployment by anybody, keeps the process's invariant: it outdates the copy.
LEMMA OtherKeepsInv ==
  ASSUME ProcessInv, cm' \in ConfigMaps, dep' \in Deployments, Whole(cm'),
         fresh' = (IF cm' = cm THEN fresh ELSE pc \notin Active \cup {"done"}),
         UNCHANGED <<pc, mem, prev, want, switched, handmade>>
  PROVE  ProcessInv'
<1>1. fresh' \in BOOLEAN
  BY DEF ProcessInv, TypeOK
<1>2. TypeOK'
  BY <1>1 DEF ProcessInv, TypeOK
<1>3. CopyInv'
  BY DEF ProcessInv, CopyInv, Whole
<1>4. OwnPlanInv' /\ OwnStepInv' /\ PlanFilesUsed'
  BY DEF ProcessInv, OwnPlanInv, OwnStepInv, PlanFilesUsed, desiredKeys, mountAllKeys
<1> QED
  BY <1>2, <1>3, <1>4 DEF ProcessInv, Whole

\* A step of a process leaves what is served for a zone or moves it, whole, to
\* what the plan wants; a process that was overtaken moves nothing.
LEMMA ProcessMovesWhole ==
  ASSUME ProcessInv, ProcessStep, NEW z \in Zones, Served(z)' # Served(z)
  PROVE  pc \in Active /\ fresh /\ Served(z)' = Wanted(z)
<1>0. /\ cm' # cm /\ ZoneFileKey[z] \in Keys
      /\ Expand \/ Switch \/ Prune
  BY ZoneFileKeyAssumption DEF Served, ProcessStep, CommitStep, Begin, BeginWith,
     MountFails, Conflict, Abort, Mount, Contract, cluster
<1>1. pc \in Active /\ fresh /\ mem = cm /\ mem \in ConfigMaps /\ cm' = PendingWrite
      /\ NamedKeys(want.corefile.blocks) \subseteq desiredKeys
  BY <1>0 DEF Expand, Switch, Prune, UpdateConfigMap, PendingWrite, Active, ProcessInv,
     CopyInv, OwnPlanInv, TypeOK
<1>2. CASE Expand
  <2>1. /\ cm'.corefile = cm.corefile
        /\ cm'.data[ZoneFileKey[z]] = IF want.files[ZoneFileKey[z]] # NoFile
                                      THEN want.files[ZoneFileKey[z]]
                                      ELSE cm.data[ZoneFileKey[z]]
    BY <1>0, <1>1, <1>2 DEF Expand, PendingWrite, Expanded, SetManagedZoneKeys,
       SetZoneFiles, ConfigMaps
  <2>2. /\ cm.corefile.blocks[z].kind = "file"
        /\ want.files[ZoneFileKey[z]] # NoFile
    BY <2>1 DEF Served
  <2>3. want.corefile.blocks[z].kind = "file" \/ z \in want.held
    BY <1>0, <1>1, <2>2 DEF ProcessInv, PlanFilesUsed, desiredKeys, KeysOf
  <2>4. z \in want.held => want.corefile.blocks[z] = cm.corefile.blocks[z]
    BY <1>1 DEF ProcessInv, OwnPlanInv
  <2>5. want.corefile.blocks[z].kind = "file"
    BY <2>2, <2>3, <2>4
  <2> QED
    BY <1>1, <2>1, <2>2, <2>5 DEF Served, Wanted
<1>3. CASE Switch
  <2>1. cm'.corefile = want.corefile /\ cm'.data = cm.data
    BY <1>1, <1>3 DEF Switch, PendingWrite, SwitchedOver, SetCorefile, ConfigMaps
  <2>2. \A k \in desiredKeys : cm.data[k] = want.files[k]
    BY <1>1, <1>3 DEF Switch, ProcessInv, OwnStepInv
  <2>3. want.corefile.blocks[z].kind = "file" => ZoneFileKey[z] \in desiredKeys
    BY <1>1 DEF NamedKeys
  <2> QED
    BY <1>1, <2>1, <2>2, <2>3 DEF Served, Wanted
<1>4. CASE Prune
  <2>1. /\ cm'.corefile = cm.corefile
        /\ ZoneFileKey[z] \notin staleKeys =>
             cm'.data[ZoneFileKey[z]] = cm.data[ZoneFileKey[z]]
    BY <1>0, <1>1, <1>4 DEF Prune, PendingWrite, Contracted, SetManagedZoneKeys,
       RemoveZoneFiles, ConfigMaps
  <2>2. cm.corefile = want.corefile
    BY <1>1, <1>4 DEF Prune, ProcessInv, OwnStepInv
  <2>3. cm.corefile.blocks[z].kind = "file" => ZoneFileKey[z] \notin staleKeys
    BY <1>1, <2>2 DEF NamedKeys, staleKeys
  <2> QED
    BY <2>1, <2>3 DEF Served
<1> QED
  BY <1>0, <1>2, <1>3, <1>4

=============================================================================
