--------------------------- MODULE FailoverProofs ---------------------------
(***************************************************************************)
(* Proofs about Failover for every set of zones, keys and contents.  What  *)
(* one process keeps whatever the others do is proved in module            *)
(* CommitCoreDNSProofs, which is instantiated here for each of the two.    *)
(***************************************************************************)
EXTENDS Failover, TLAPS

PA == INSTANCE CommitCoreDNSProofs WITH
        AdminKeys <- {}, handmade <- {}, pc <- pca, mem <- mema, fresh <- fresha,
        prev <- preva, want <- wanta, switched <- switcheda

PB == INSTANCE CommitCoreDNSProofs WITH
        AdminKeys <- {}, handmade <- {}, pc <- pcb, mem <- memb, fresh <- freshb,
        prev <- prevb, want <- wantb, switched <- switchedb

\* The steps of process a are the ones the lemmas are about: the two instances
\* have the same definitions under two names.
LEMMA StepsOfA == StepA => PA!ProcessStep
<1> USE DEF
     A!SetZoneFiles, PA!SetZoneFiles, A!SetCorefile, PA!SetCorefile,
     A!RemoveZoneFiles, PA!RemoveZoneFiles, A!SetManagedZoneKeys,
     PA!SetManagedZoneKeys, A!ManagedZoneKeys, PA!ManagedZoneKeys,
     A!HasReloadPlugin, PA!HasReloadPlugin, A!ExtractZoneBlocks,
     PA!ExtractZoneBlocks, A!CanPatchCorefile, PA!CanPatchCorefile,
     A!PatchCorefile, PA!PatchCorefile, A!EnsureZoneVolumeItems,
     PA!EnsureZoneVolumeItems, A!MarkRolloutRestart, PA!MarkRolloutRestart,
     A!BlankConfigMap, PA!BlankConfigMap, A!BlankPlan, PA!BlankPlan,
     A!BlankCorefile, PA!BlankCorefile, A!NoBlocks, PA!NoBlocks, A!NoFiles,
     PA!NoFiles, A!NoStanza, PA!NoStanza, A!FileStanza, PA!FileStanza,
     A!TemplateStanza, PA!TemplateStanza, A!ZoneKeys, PA!ZoneKeys, A!ZoneOf,
     PA!ZoneOf, A!KeysOf, PA!KeysOf
<1>1. A!Begin => PA!Begin
  BY DEF A!Begin, PA!Begin, A!BeginWith, PA!BeginWith, A!Outcomes, PA!Outcomes,
     A!Absent, PA!Absent, A!Invalid, PA!Invalid, A!RenderedFile,
     PA!RenderedFile, A!RenderedTemplate, PA!RenderedTemplate, A!Plan, PA!Plan,
     A!PlanFiles, PA!PlanFiles, A!PlanBlocks, PA!PlanBlocks, A!Held, PA!Held,
     A!Directive, PA!Directive, A!cluster, PA!cluster
<1>2. A!Fail => PA!Fail
  BY DEF A!Fail, PA!Fail
<1>3. A!Expanded = PA!Expanded /\ A!SwitchedOver = PA!SwitchedOver
      /\ A!Contracted = PA!Contracted
  BY DEF A!Expanded, PA!Expanded, A!SwitchedOver, PA!SwitchedOver, A!Contracted,
     PA!Contracted, A!desiredKeys, PA!desiredKeys, A!staleKeys, PA!staleKeys,
     A!mountAllKeys, PA!mountAllKeys
<1>4. A!Expand => PA!Expand
  BY <1>3 DEF A!Expand, PA!Expand, A!UpdateConfigMap, PA!UpdateConfigMap
<1>5. A!Switch => PA!Switch
  BY <1>3 DEF A!Switch, PA!Switch, A!UpdateConfigMap, PA!UpdateConfigMap
<1>6. A!Prune => PA!Prune
  BY <1>3 DEF A!Prune, PA!Prune, A!UpdateConfigMap, PA!UpdateConfigMap
<1>7. A!Mount => PA!Mount
  BY DEF A!Mount, PA!Mount, A!mountAllKeys, PA!mountAllKeys, A!desiredKeys,
     PA!desiredKeys, A!local, PA!local
<1>8. A!Contract => PA!Contract
  BY DEF A!Contract, PA!Contract, A!Restart, PA!Restart, A!desiredKeys,
     PA!desiredKeys, A!local, PA!local
<1>9. A!MountFails => PA!MountFails
  BY <1>2 DEF A!MountFails, PA!MountFails, A!cluster, PA!cluster
<1>10. A!Conflict => PA!Conflict
  BY <1>2, <1>3 DEF A!Conflict, PA!Conflict, A!PendingWrite, PA!PendingWrite, A!cluster,
     PA!cluster
<1>11. A!Abort => PA!Abort
  BY <1>2 DEF A!Abort, PA!Abort, A!Active, PA!Active, A!cluster, PA!cluster
<1> QED
  BY <1>1, <1>4, <1>5, <1>6, <1>7, <1>8, <1>9, <1>10, <1>11
     DEF StepA, A!CommitStep, PA!CommitStep, PA!ProcessStep

\* The steps of process b are the ones the lemmas are about: the two instances
\* have the same definitions under two names.
LEMMA StepsOfB == StepB => PB!ProcessStep
<1> USE DEF
     B!SetZoneFiles, PB!SetZoneFiles, B!SetCorefile, PB!SetCorefile,
     B!RemoveZoneFiles, PB!RemoveZoneFiles, B!SetManagedZoneKeys,
     PB!SetManagedZoneKeys, B!ManagedZoneKeys, PB!ManagedZoneKeys,
     B!HasReloadPlugin, PB!HasReloadPlugin, B!ExtractZoneBlocks,
     PB!ExtractZoneBlocks, B!CanPatchCorefile, PB!CanPatchCorefile,
     B!PatchCorefile, PB!PatchCorefile, B!EnsureZoneVolumeItems,
     PB!EnsureZoneVolumeItems, B!MarkRolloutRestart, PB!MarkRolloutRestart,
     B!BlankConfigMap, PB!BlankConfigMap, B!BlankPlan, PB!BlankPlan,
     B!BlankCorefile, PB!BlankCorefile, B!NoBlocks, PB!NoBlocks, B!NoFiles,
     PB!NoFiles, B!NoStanza, PB!NoStanza, B!FileStanza, PB!FileStanza,
     B!TemplateStanza, PB!TemplateStanza, B!ZoneKeys, PB!ZoneKeys, B!ZoneOf,
     PB!ZoneOf, B!KeysOf, PB!KeysOf
<1>1. B!Begin => PB!Begin
  BY DEF B!Begin, PB!Begin, B!BeginWith, PB!BeginWith, B!Outcomes, PB!Outcomes,
     B!Absent, PB!Absent, B!Invalid, PB!Invalid, B!RenderedFile,
     PB!RenderedFile, B!RenderedTemplate, PB!RenderedTemplate, B!Plan, PB!Plan,
     B!PlanFiles, PB!PlanFiles, B!PlanBlocks, PB!PlanBlocks, B!Held, PB!Held,
     B!Directive, PB!Directive, B!cluster, PB!cluster
<1>2. B!Fail => PB!Fail
  BY DEF B!Fail, PB!Fail
<1>3. B!Expanded = PB!Expanded /\ B!SwitchedOver = PB!SwitchedOver
      /\ B!Contracted = PB!Contracted
  BY DEF B!Expanded, PB!Expanded, B!SwitchedOver, PB!SwitchedOver, B!Contracted,
     PB!Contracted, B!desiredKeys, PB!desiredKeys, B!staleKeys, PB!staleKeys,
     B!mountAllKeys, PB!mountAllKeys
<1>4. B!Expand => PB!Expand
  BY <1>3 DEF B!Expand, PB!Expand, B!UpdateConfigMap, PB!UpdateConfigMap
<1>5. B!Switch => PB!Switch
  BY <1>3 DEF B!Switch, PB!Switch, B!UpdateConfigMap, PB!UpdateConfigMap
<1>6. B!Prune => PB!Prune
  BY <1>3 DEF B!Prune, PB!Prune, B!UpdateConfigMap, PB!UpdateConfigMap
<1>7. B!Mount => PB!Mount
  BY DEF B!Mount, PB!Mount, B!mountAllKeys, PB!mountAllKeys, B!desiredKeys,
     PB!desiredKeys, B!local, PB!local
<1>8. B!Contract => PB!Contract
  BY DEF B!Contract, PB!Contract, B!Restart, PB!Restart, B!desiredKeys,
     PB!desiredKeys, B!local, PB!local
<1>9. B!MountFails => PB!MountFails
  BY <1>2 DEF B!MountFails, PB!MountFails, B!cluster, PB!cluster
<1>10. B!Conflict => PB!Conflict
  BY <1>2, <1>3 DEF B!Conflict, PB!Conflict, B!PendingWrite, PB!PendingWrite, B!cluster,
     PB!cluster
<1>11. B!Abort => PB!Abort
  BY <1>2 DEF B!Abort, PB!Abort, B!Active, PB!Active, B!cluster, PB!cluster
<1> QED
  BY <1>1, <1>4, <1>5, <1>6, <1>7, <1>8, <1>9, <1>10, <1>11
     DEF StepB, B!CommitStep, PB!CommitStep, PB!ProcessStep

-----------------------------------------------------------------------------
(* The inductive invariant *)

\* Each process keeps its own invariant over the shared ConfigMap: its copy is
\* whole, and current unless the other has written since it was read.
FInv == PA!ProcessInv /\ PB!ProcessInv /\ leader \in {"a", "b"}

\* Both processes read and write the same kinds of object.
LEMMA SameObjects ==
  /\ PA!ConfigMaps = PB!ConfigMaps
  /\ PA!Deployments = PB!Deployments
  /\ \A c : PA!Whole(c) <=> PB!Whole(c)
  /\ PA!Active = A!Active
  /\ PB!Active = A!Active
<1>1. PA!ConfigMaps = PB!ConfigMaps
  BY DEF PA!ConfigMaps, PB!ConfigMaps, PA!Corefiles, PB!Corefiles, PA!Bases, PB!Bases,
     PA!Markers, PB!Markers, PA!Stanzas, PB!Stanzas, PA!NoStanza, PB!NoStanza,
     PA!FileStanza, PB!FileStanza, PA!TemplateStanza, PB!TemplateStanza, PA!Files,
     PB!Files
<1>2. PA!Deployments = PB!Deployments
  BY DEF PA!Deployments, PB!Deployments, PA!Mounts, PB!Mounts
<1>3. \A c : PA!Whole(c) <=> PB!Whole(c)
  BY DEF PA!Whole, PB!Whole, PA!KeysOf, PB!KeysOf, PA!ZoneKeys, PB!ZoneKeys,
     PA!NamedKeys, PB!NamedKeys
<1>4. PA!Active = A!Active /\ PB!Active = A!Active
  BY DEF PA!Active, PB!Active, A!Active
<1> QED
  BY <1>1, <1>2, <1>3, <1>4

\* FInv is inductive: a step of one process keeps its own invariant, and the
\* other's by outdating its copy.
LEMMA FInvStep ==
  ASSUME FInv, [FNext]_fvars
  PROVE  FInv'
<1>1. CASE StepA
  <2>1. PA!ProcessInv'
    BY <1>1, StepsOfA, PA!ProcessKeepsInv,
       ZoneFileKeyAssumption, MarkersDistinct DEF FInv
  <2>2. cm' \in PB!ConfigMaps /\ dep' \in PB!Deployments /\ PB!Whole(cm')
    BY <2>1, SameObjects DEF PA!ProcessInv, PA!TypeOK
  <2>3. /\ freshb' = (IF cm' = cm THEN freshb ELSE pcb \notin PB!Active \cup {"done"})
        /\ UNCHANGED <<leader, pcb, memb, prevb, wantb, switchedb>>
    BY <1>1, SameObjects DEF StepA, Outdates
  <2>4. PB!ProcessInv'
    BY <2>2, <2>3, PB!OtherKeepsInv,
       ZoneFileKeyAssumption, MarkersDistinct DEF FInv
  <2> QED
    BY <2>1, <2>3, <2>4 DEF FInv
<1>2. CASE StepB
  <2>1. PB!ProcessInv'
    BY <1>2, StepsOfB, PB!ProcessKeepsInv,
       ZoneFileKeyAssumption, MarkersDistinct DEF FInv
  <2>2. cm' \in PA!ConfigMaps /\ dep' \in PA!Deployments /\ PA!Whole(cm')
    BY <2>1, SameObjects DEF PB!ProcessInv, PB!TypeOK
  <2>3. /\ fresha' = (IF cm' = cm THEN fresha ELSE pca \notin PA!Active \cup {"done"})
        /\ UNCHANGED <<leader, pca, mema, preva, wanta, switcheda>>
    BY <1>2, SameObjects DEF StepB, Outdates
  <2>4. PA!ProcessInv'
    BY <2>2, <2>3, PA!OtherKeepsInv,
       ZoneFileKeyAssumption, MarkersDistinct DEF FInv
  <2> QED
    BY <2>1, <2>3, <2>4 DEF FInv
<1>3. ASSUME UNCHANGED <<cm, dep, locala, localb>>
      PROVE  PA!ProcessInv' /\ PB!ProcessInv'
  <2>1. /\ cm' \in PA!ConfigMaps /\ dep' \in PA!Deployments /\ PA!Whole(cm')
        /\ cm' \in PB!ConfigMaps /\ dep' \in PB!Deployments /\ PB!Whole(cm')
    BY <1>3 DEF FInv, PA!ProcessInv, PA!TypeOK, PB!ProcessInv, PB!TypeOK
  <2>2. PA!ProcessInv'
    BY <1>3, <2>1, PA!OtherKeepsInv,
       ZoneFileKeyAssumption, MarkersDistinct DEF FInv, locala
  <2>3. PB!ProcessInv'
    BY <1>3, <2>1, PB!OtherKeepsInv,
       ZoneFileKeyAssumption, MarkersDistinct DEF FInv, localb
  <2> QED
    BY <2>2, <2>3
<1>4. CASE LoseLease
  BY <1>3, <1>4 DEF LoseLease, FInv
<1>5. CASE UNCHANGED fvars
  BY <1>3, <1>5 DEF fvars, FInv
<1> QED
  BY <1>1, <1>2, <1>4, <1>5 DEF FNext

\* FInv holds in every reachable state.
LEMMA FInvHolds == FSpec => []FInv
<1>1. FInit => FInv
  <2>1. A!Init => PA!Init
    BY DEF A!Init, PA!Init, A!Bases, PA!Bases, A!Mounts, PA!Mounts, A!BlankConfigMap,
       PA!BlankConfigMap, A!BlankCorefile, PA!BlankCorefile, A!NoBlocks, PA!NoBlocks,
       A!NoStanza, PA!NoStanza, A!NoFiles, PA!NoFiles, A!BlankPlan, PA!BlankPlan
  <2>2. B!Init => PB!Init
    BY DEF B!Init, PB!Init, B!Bases, PB!Bases, B!Mounts, PB!Mounts, B!BlankConfigMap,
       PB!BlankConfigMap, B!BlankCorefile, PB!BlankCorefile, B!NoBlocks, PB!NoBlocks,
       B!NoStanza, PB!NoStanza, B!NoFiles, PB!NoFiles, B!BlankPlan, PB!BlankPlan
  <2> QED
    BY <2>1, <2>2, PA!ProcessInit, PB!ProcessInit,
       ZoneFileKeyAssumption, MarkersDistinct DEF FInit, FInv
<1>2. FInv /\ [FNext]_fvars => FInv'
  BY FInvStep
<1> QED
  BY <1>1, <1>2, PTL DEF FSpec

-----------------------------------------------------------------------------
(* What holds across a failover *)

\* Objects and memories are well formed, whoever leads.
THEOREM FailoverTypeCorrect == FSpec => []FTypeOK
<1>1. ASSUME FInv PROVE FTypeOK
  <2>1. PA!TypeOK => A!TypeOK
    BY DEF A!TypeOK, PA!TypeOK, A!ConfigMaps, PA!ConfigMaps, A!Corefiles, PA!Corefiles,
       A!Bases, PA!Bases, A!Markers, PA!Markers, A!Stanzas, PA!Stanzas, A!NoStanza,
       PA!NoStanza, A!FileStanza, PA!FileStanza, A!TemplateStanza, PA!TemplateStanza,
       A!Files, PA!Files, A!Deployments, PA!Deployments, A!Mounts, PA!Mounts, A!PCs,
       PA!PCs, A!Active, PA!Active, A!Plans, PA!Plans
  <2>2. PB!TypeOK => B!TypeOK
    BY DEF B!TypeOK, PB!TypeOK, B!ConfigMaps, PB!ConfigMaps, B!Corefiles, PB!Corefiles,
       B!Bases, PB!Bases, B!Markers, PB!Markers, B!Stanzas, PB!Stanzas, B!NoStanza,
       PB!NoStanza, B!FileStanza, PB!FileStanza, B!TemplateStanza, PB!TemplateStanza,
       B!Files, PB!Files, B!Deployments, PB!Deployments, B!Mounts, PB!Mounts, B!PCs,
       PB!PCs, B!Active, PB!Active, B!Plans, PB!Plans
  <2> QED
    BY <1>1, <2>1, <2>2 DEF FInv, PA!ProcessInv, PB!ProcessInv, FTypeOK
<1> QED
  BY <1>1, FInvHolds, PTL

\* Whichever of the two processes writes, and wherever the lease changes hands
\* between their writes, the Corefile names only files the ConfigMap has and the
\* annotation lists every operator key in it.
THEOREM ConfigMapAlwaysWhole == FSpec => []ConfigMapStaysWhole
<1>1. FInv => ConfigMapStaysWhole
  BY DEF FInv, PA!ProcessInv, PA!Whole, PA!NamedKeys, PA!KeysOf, PA!ZoneKeys,
     ConfigMapStaysWhole, NamedKeys, KeysOf, ZoneKeys
<1> QED
  BY <1>1, FInvHolds, PTL

\* What is served for a zone moves at once to what one running process wants, and
\* a process the other has overtaken moves nothing.
THEOREM ServedAlwaysMovesWhole == FSpec => ServedMovesWhole
<1>1. ASSUME FInv, [FNext]_fvars, NEW z \in Zones, A!Served(z)' # A!Served(z)
      PROVE  \/ pca \in A!Active /\ fresha /\ A!Served(z)' = A!Wanted(z)
             \/ pcb \in A!Active /\ freshb /\ A!Served(z)' = B!Wanted(z)
  <2>0. /\ A!Served(z) = PA!Served(z) /\ A!Served(z)' = PA!Served(z)'
        /\ A!Served(z) = PB!Served(z) /\ A!Served(z)' = PB!Served(z)'
        /\ A!Wanted(z) = PA!Wanted(z) /\ B!Wanted(z) = PB!Wanted(z)
    BY DEF A!Served, PA!Served, PB!Served, A!Wanted, PA!Wanted, B!Wanted, PB!Wanted
  <2>1. CASE StepA
    BY <1>1, <2>0, <2>1, StepsOfA, PA!ProcessMovesWhole, SameObjects,
       ZoneFileKeyAssumption, MarkersDistinct DEF FInv
  <2>2. CASE StepB
    BY <1>1, <2>0, <2>2, StepsOfB, PB!ProcessMovesWhole, SameObjects,
       ZoneFileKeyAssumption, MarkersDistinct DEF FInv
  <2>3. CASE LoseLease \/ UNCHANGED fvars
    BY <1>1, <2>3 DEF LoseLease, fvars, A!Served
  <2> QED
    BY <1>1, <2>1, <2>2, <2>3 DEF FNext
<1>2. ASSUME FInv, [FNext]_fvars
      PROVE  [\A z \in Zones : A!Served(z)' # A!Served(z) =>
                \/ pca \in A!Active /\ fresha /\ A!Served(z)' = A!Wanted(z)
                \/ pcb \in A!Active /\ freshb /\ A!Served(z)' = B!Wanted(z)]_fvars
  BY <1>1, <1>2
<1> QED
  BY <1>2, FInvHolds, PTL DEF FSpec, ServedMovesWhole

=============================================================================
