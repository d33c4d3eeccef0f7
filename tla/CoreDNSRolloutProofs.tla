------------------------ MODULE CoreDNSRolloutProofs ------------------------
(***************************************************************************)
(* Proofs about CoreDNSRollout for every set of zones, keys, contents and  *)
(* pods.  The operator's part of the rollout is the commit, so that what   *)
(* CommitCoreDNSProofs shows of the objects holds here too; the pods only  *)
(* ever see a Corefile and files that were projected together.             *)
(***************************************************************************)
EXTENDS CoreDNSRollout, CommitCoreDNSProofs

(* Types *)

PodRecords == [state : PodStates, tmpl : Templates, dir : Directories,
               conf : Corefiles]

\* What a reconcile finds out about a zone is an outcome with a digest.
LEMMA RenderTypes ==
  ASSUME NEW kind \in ZoneKinds, NEW c \in Contents, NEW previous \in Contents \cup {NoFile}
  PROVE  /\ OutcomeOf(kind, c) \in Outcomes
         /\ DigestOf(kind, c, previous) \in Contents \cup {NoFile}
<1>1. CASE kind \in {"gone", "unusable"}
  BY <1>1 DEF OutcomeOf, DigestOf, Outcomes
<1>2. CASE kind = "invalid"
  BY <1>2 DEF OutcomeOf, DigestOf, Outcomes
<1>3. CASE kind = "file"
  BY <1>3 DEF OutcomeOf, DigestOf, Outcomes
<1>4. CASE kind = "template"
  BY <1>4 DEF OutcomeOf, DigestOf, Outcomes
<1> QED
  BY <1>1, <1>2, <1>3, <1>4 DEF ZoneKinds

\* The restart hash of a reconcile is one of Hashes.
LEMMA HashType ==
  ASSUME NEW digests \in Digests
  PROVE  combinedHash(digests) \in Hashes
<1>1. combinedHash(digests) \subseteq Contents
  BY DEF combinedHash, Digests
<1> QED
  BY <1>1, RolloutAssumption

\* A reconcile of the rollout is a reconcile of the commit.
LEMMA BeginTypes ==
  ASSUME applied \in Digests, RBegin
  PROVE  Begin /\ result' \in Digests
<1>1. PICK kind \in [Zones -> Kinds], body \in [Zones -> Contents] :
        LET outcome == [z \in Zones |-> OutcomeOf(kind[z], body[z])]
            digests == [z \in Zones |-> DigestOf(kind[z], body[z], applied[z])]
        IN  /\ BeginWith(outcome, combinedHash(digests))
            /\ result' = digests
  BY DEF RBegin
<1> DEFINE outcome == [z \in Zones |-> OutcomeOf(kind[z], body[z])]
           digests == [z \in Zones |-> DigestOf(kind[z], body[z], applied[z])]
<1>2. \A z \in Zones : /\ OutcomeOf(kind[z], body[z]) \in Outcomes
                       /\ DigestOf(kind[z], body[z], applied[z]) \in Contents \cup {NoFile}
  BY RenderTypes, RolloutAssumption DEF Digests
<1>3. outcome \in [Zones -> Outcomes] /\ digests \in Digests
  BY <1>2 DEF Digests
<1>4. BeginWith(outcome, combinedHash(digests)) /\ result' = digests
  BY <1>1
<1> HIDE DEF outcome, digests
<1> QED
  BY <1>3, <1>4, HashType DEF Begin

\* The operator's steps are steps of the commit; the pods' steps, and the
\* write of the statuses, do not touch its variables.
LEMMA RolloutStepIsCommitStep ==
  ASSUME applied \in Digests, [RNext]_rvars
  PROVE  [Next]_vars
<1>1. CASE RBegin
  BY <1>1, BeginTypes DEF Next
<1>2. CASE RCommit
  BY <1>2 DEF RCommit, Next, CommitStep
<1>3. CASE RAbort
  BY <1>3 DEF RAbort, Next
<1>4. CASE WriteStatuses
  BY <1>4 DEF WriteStatuses
<1>5. ASSUME NEW p \in Pods, PodNext(p) PROVE UNCHANGED vars
  BY <1>5 DEF PodNext, CreatePod, RetirePod, MountVolume, RefreshVolume, StartCoreDNS,
     RestartContainer, Reload, PodStep
<1>6. CASE UNCHANGED rvars
  BY <1>6 DEF rvars
<1> QED
  BY <1>1, <1>2, <1>3, <1>4, <1>5, <1>6 DEF RNext, Operator

\* A pod's template and directory come from the objects.
LEMMA ProjectionTypes ==
  ASSUME TypeOK
  PROVE  /\ template \in Templates
         /\ \A t \in Templates : Projection(t) \in Directories
         /\ BlankPod \in PodRecords
<1>1. template \in Templates
  BY DEF TypeOK, Deployments, template, Templates
<1>2. \A t \in Templates : Projection(t) \in Directories
  BY DEF TypeOK, ConfigMaps, Templates, Projection, Visible, Directories, KeysOf
<1>3. BlankCorefile \in Corefiles
  BY BlankTypes DEF BlankConfigMap, ConfigMaps
<1>4. BlankPod \in PodRecords
  BY <1>3 DEF BlankPod, PodRecords, PodStates, Templates, Directories
<1> QED
  BY <1>1, <1>2, <1>4

\* The steps of a pod keep it well formed and leave the others alone.
LEMMA PodTypes ==
  ASSUME TypeOK, pods \in [Pods -> PodRecords], NEW p \in Pods, PodNext(p)
  PROVE  pods' \in [Pods -> PodRecords]
<1>0. /\ template \in Templates
      /\ \A t \in Templates : Projection(t) \in Directories
      /\ BlankPod \in PodRecords
  BY ProjectionTypes
<1>1. pods[p] \in PodRecords
  OBVIOUS
<1>2. BlankPod.conf \in Corefiles /\ BlankCorefile \in Corefiles
  BY <1>0 DEF BlankPod, PodRecords
<1>3. CASE CreatePod(p)
  <2>1. [BlankPod EXCEPT !.state = "pending", !.tmpl = template] \in PodRecords
    BY <1>0 DEF PodRecords, PodStates
  <2> QED
    BY <1>3, <2>1 DEF CreatePod
<1>4. CASE RetirePod(p)
  BY <1>0, <1>4 DEF RetirePod
<1>5. CASE MountVolume(p)
  BY <1>0, <1>1, <1>5 DEF MountVolume, PodRecords, PodStates
<1>6. CASE RefreshVolume(p)
  BY <1>0, <1>1, <1>6 DEF RefreshVolume, PodRecords
<1>7. CASE StartCoreDNS(p)
  <2>1. pods[p].dir.corefile \in Corefiles
    BY <1>1 DEF PodRecords, Directories
  <2> QED
    BY <1>1, <1>2, <1>7, <2>1 DEF StartCoreDNS, PodRecords, PodStates
<1>8. CASE RestartContainer(p)
  BY <1>1, <1>2, <1>8 DEF RestartContainer, PodRecords, PodStates
<1>9. CASE Reload(p)
  <2>1. pods[p].dir.corefile \in Corefiles
    BY <1>1 DEF PodRecords, Directories
  <2> QED
    BY <1>1, <1>9, <2>1 DEF Reload, PodRecords
<1> QED
  BY <1>3, <1>4, <1>5, <1>6, <1>7, <1>8, <1>9 DEF PodNext

\* Every step of the operator and of the pods keeps the types.
LEMMA RTypeStep ==
  ASSUME RTypeOK, [RNext]_rvars
  PROVE  RTypeOK'
<1>0. /\ TypeOK /\ applied \in Digests /\ result \in Digests /\ saved \in BOOLEAN
      /\ pods \in [Pods -> PodRecords]
  BY DEF RTypeOK, PodRecords
<1>1. TypeOK'
  BY <1>0, RolloutStepIsCommitStep, TypeStep
<1>2. NoDigests \in Digests
  BY DEF NoDigests, Digests
<1>3. CASE RBegin
  <2>1. result' \in Digests
    BY <1>0, <1>3, BeginTypes
  <2> QED
    BY <1>0, <1>1, <1>3, <2>1 DEF RBegin, RTypeOK, PodRecords
<1>4. CASE RCommit
  BY <1>0, <1>1, <1>4 DEF RCommit, RTypeOK, PodRecords
<1>5. CASE WriteStatuses
  BY <1>0, <1>1, <1>5 DEF WriteStatuses, RTypeOK, PodRecords
<1>6. CASE RAbort
  BY <1>0, <1>1, <1>2, <1>6 DEF RAbort, RTypeOK, PodRecords
<1>7. ASSUME NEW p \in Pods, PodNext(p) PROVE RTypeOK'
  <2>1. pods' \in [Pods -> PodRecords]
    BY <1>0, <1>7, PodTypes
  <2>2. UNCHANGED <<applied, result, saved>>
    BY <1>7 DEF PodNext, CreatePod, RetirePod, MountVolume, RefreshVolume, StartCoreDNS,
       RestartContainer, Reload, PodStep
  <2> QED
    BY <1>0, <1>1, <2>1, <2>2 DEF RTypeOK, PodRecords
<1>8. CASE UNCHANGED rvars
  BY <1>0, <1>1, <1>8 DEF rvars, RTypeOK, PodRecords
<1> QED
  BY <1>3, <1>4, <1>5, <1>6, <1>7, <1>8 DEF RNext, Operator

\* Objects, memory, digests and pods are well formed in every reachable state.
THEOREM RolloutTypeCorrect == RSpec => []RTypeOK
<1>1. ASSUME RInit PROVE RTypeOK
  <2>1. TypeOK
    BY <1>1, TypeInit DEF RInit
  <2>2. NoDigests \in Digests
    BY DEF NoDigests, Digests
  <2>3. BlankPod \in PodRecords
    BY <2>1, ProjectionTypes
  <2>4. [BlankPod EXCEPT !.state = "running", !.dir.corefile = cm.corefile,
                         !.conf = cm.corefile] \in PodRecords
    BY <2>1, <2>3 DEF TypeOK, ConfigMaps, PodRecords, PodStates, Directories
  <2>5. pods \in [Pods -> PodRecords]
    BY <1>1, <2>4 DEF RInit
  <2> QED
    BY <1>1, <2>1, <2>2, <2>5 DEF RInit, RTypeOK, PodRecords
<1>2. RTypeOK /\ [RNext]_rvars => RTypeOK'
  BY RTypeStep
<1> QED
  BY <1>1, <1>2, PTL DEF RSpec

-----------------------------------------------------------------------------
(* The operator of the rollout implements the commit *)

\* Whatever the pods do, the operator's steps are those of CommitCoreDNS: the
\* restart hash computed from the statuses is one of the hashes a reconcile may
\* come with, and the pods never write the objects.
THEOREM RolloutImplementsCommit == RSpec => Spec
<1>1. RInit => Init
  BY DEF RInit
<1>2. RTypeOK /\ [RNext]_rvars => [Next]_vars
  BY RolloutStepIsCommitStep DEF RTypeOK
<1> QED
  BY <1>1, <1>2, RolloutTypeCorrect, PTL DEF RSpec, Spec

-----------------------------------------------------------------------------
(* The pods *)

\* A whole-directory mount never holds a Corefile without the files it names.
DirectoriesLoad == dep.mount # "items" => \A p \in Pods : Loads(pods[p].dir)

\* No step of the operator changes how the ConfigMap is mounted.
LEMMA MountKept ==
  ASSUME TypeOK, [RNext]_rvars PROVE dep'.mount = dep.mount
<1>0. \A ks, ps, h :
        /\ EnsureZoneVolumeItems(dep, ks, ps).mount = dep.mount
        /\ MarkRolloutRestart(EnsureZoneVolumeItems(dep, ks, ps), h).mount = dep.mount
  BY DEF EnsureZoneVolumeItems, MarkRolloutRestart, TypeOK, Deployments
<1>1. CASE RBegin
  BY <1>1 DEF RBegin, BeginWith, cluster
<1>2. CASE RCommit
  BY <1>0, <1>2 DEF RCommit, Expand, Mount, Switch, Contract, Prune
<1>3. CASE RAbort
  BY <1>3 DEF RAbort, Abort, cluster
<1>4. CASE UNCHANGED vars
  BY <1>4 DEF vars
<1>5. ASSUME NEW p \in Pods, PodNext(p) PROVE UNCHANGED vars
  BY <1>5 DEF PodNext, CreatePod, RetirePod, MountVolume, RefreshVolume, StartCoreDNS,
     RestartContainer, Reload, PodStep
<1> QED
  BY <1>1, <1>2, <1>3, <1>4, <1>5 DEF RNext, Operator, WriteStatuses, rvars

\* Projecting a whole ConfigMap gives a directory CoreDNS accepts.
LEMMA ProjectionLoads ==
  ASSUME CommitInv
  PROVE  /\ dep.mount # "items" => \A t : Loads(Projection(t))
         /\ dep.mount = "items" => Loads(Projection(template))
         /\ Loads(BlankPod.dir)
<1>1. NamedKeys(cm.corefile.blocks) \subseteq KeysOf(cm.data)
  BY DEF CommitInv, ObjectsInv
<1>2. dep.mount = "items" => NamedKeys(cm.corefile.blocks) \subseteq dep.items
  BY DEF CommitInv, ObjectsInv, ItemsMode
<1>3. Loads(BlankPod.dir)
  BY NamedKeysFacts DEF Loads, BlankPod, BlankCorefile
<1> QED
  BY <1>1, <1>2, <1>3 DEF Loads, Projection, Visible, template

\* DirectoriesLoad is kept by every step.
LEMMA DirectoriesLoadStep ==
  ASSUME RTypeOK, CommitInv, DirectoriesLoad, [RNext]_rvars
  PROVE  DirectoriesLoad'
<1> SUFFICES ASSUME dep'.mount # "items" PROVE \A q \in Pods : Loads(pods'[q].dir)
  BY DEF DirectoriesLoad, Loads
<1>0. /\ dep.mount # "items" /\ pods \in [Pods -> PodRecords]
      /\ \A q \in Pods : Loads(pods[q].dir)
  BY MountKept DEF RTypeOK, DirectoriesLoad, PodRecords
<1>1. CASE UNCHANGED pods
  BY <1>0, <1>1
<1>2. ASSUME NEW p \in Pods, PodNext(p) PROVE \A q \in Pods : Loads(pods'[q].dir)
  <2>1. ASSUME NEW q \in Pods \ {p} PROVE pods'[q] = pods[q]
    BY <1>0, <1>2 DEF PodNext, CreatePod, RetirePod, MountVolume, RefreshVolume,
       StartCoreDNS, RestartContainer, Reload
  <2>2. pods'[p].dir \in {pods[p].dir, BlankPod.dir, Projection(pods[p].tmpl)}
    <3>1. pods[p] \in PodRecords
      BY <1>0
    <3>2. BlankPod \in PodRecords
      BY ProjectionTypes DEF RTypeOK
    <3>3. CASE CreatePod(p) \/ RetirePod(p)
      BY <1>0, <3>2, <3>3 DEF CreatePod, RetirePod, PodRecords
    <3>4. CASE MountVolume(p) \/ RefreshVolume(p)
      BY <1>0, <3>1, <3>4 DEF MountVolume, RefreshVolume, PodRecords
    <3>5. CASE StartCoreDNS(p) \/ RestartContainer(p) \/ Reload(p)
      BY <1>0, <3>1, <3>5 DEF StartCoreDNS, RestartContainer, Reload, PodRecords
    <3> QED
      BY <1>2, <3>3, <3>4, <3>5 DEF PodNext
  <2>3. Loads(pods'[p].dir)
    BY <1>0, <2>2, ProjectionLoads
  <2> QED
    BY <1>0, <2>1, <2>3
<1> QED
  BY <1>1, <1>2 DEF RNext, Operator, RBegin, RCommit, WriteStatuses, RAbort, rvars

\* No pod that sees the objects as they are, and no pod of a whole-directory
\* mount, ever exits for a zone file its Corefile names and it does not see.
THEOREM PodsAlwaysLoadTheirCorefile ==
  ASSUME AdminKeepsOwnNames PROVE RSpec => PodsLoadTheirCorefile
<1>1. ASSUME RInit PROVE DirectoriesLoad
  <2>1. cm.corefile.blocks = NoBlocks
    BY <1>1 DEF RInit, Init, BlankConfigMap, BlankCorefile
  <2>2. ASSUME NEW p \in Pods PROVE pods[p].dir.corefile = cm.corefile
    BY <1>1 DEF RInit, BlankPod
  <2> QED
    BY <2>1, <2>2, NamedKeysFacts DEF DirectoriesLoad, Loads
<1>2. RTypeOK /\ CommitInv /\ DirectoriesLoad /\ [RNext]_rvars => DirectoriesLoad'
  BY DirectoriesLoadStep
<1>3. ASSUME RTypeOK, CommitInv, DirectoriesLoad, [RNext]_rvars, NEW p \in Pods,
             pods[p].state # "broken", pods'[p].state = "broken"
      PROVE  /\ dep.mount = "items"
             /\ \/ pods[p].tmpl # template
                \/ pods[p].dir # Projection(pods[p].tmpl)
  <2>0. pods \in [Pods -> PodRecords]
    BY <1>3 DEF RTypeOK, PodRecords
  <2>1. PICK q \in Pods : PodNext(q)
    BY <1>3 DEF RNext, Operator, RBegin, RCommit, WriteStatuses, RAbort, rvars
  <2>2. p = q
    BY <1>3, <2>0, <2>1 DEF PodNext, CreatePod, RetirePod, MountVolume, RefreshVolume,
       StartCoreDNS, RestartContainer, Reload
  <2>3. StartCoreDNS(p)
    <3>1. pods[p] \in PodRecords /\ BlankPod \in PodRecords
      BY <1>3, <2>0, ProjectionTypes DEF RTypeOK
    <3>2. CASE CreatePod(p)
      BY <1>3, <2>0, <3>1, <3>2 DEF CreatePod, PodRecords
    <3>3. CASE RetirePod(p)
      BY <1>3, <2>0, <3>3 DEF RetirePod, BlankPod
    <3>4. CASE MountVolume(p) \/ RestartContainer(p)
      BY <1>3, <2>0, <3>1, <3>4 DEF MountVolume, RestartContainer, PodRecords
    <3>5. CASE RefreshVolume(p) \/ Reload(p)
      BY <1>3, <2>0, <3>1, <3>5 DEF RefreshVolume, Reload, PodRecords
    <3> QED
      BY <2>1, <2>2, <3>2, <3>3, <3>4, <3>5 DEF PodNext
  <2>4. ~Loads(pods[p].dir)
    BY <1>3, <2>0, <2>3 DEF StartCoreDNS, PodRecords
  <2> QED
    BY <1>3, <2>4, ProjectionLoads DEF DirectoriesLoad
<1>4. ASSUME RTypeOK, CommitInv, DirectoriesLoad, [RNext]_rvars
      PROVE  [\A p \in Pods :
                pods[p].state # "broken" /\ pods'[p].state = "broken" =>
                  /\ dep.mount = "items"
                  /\ \/ pods[p].tmpl # template
                     \/ pods[p].dir # Projection(pods[p].tmpl)]_rvars
  BY <1>3, <1>4
<1> QED
  BY <1>1, <1>2, <1>4, RolloutTypeCorrect, RolloutImplementsCommit, InvHolds, PTL
     DEF RSpec, PodsLoadTheirCorefile

=============================================================================
