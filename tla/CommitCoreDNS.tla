--------------------------- MODULE CommitCoreDNS ----------------------------
(***************************************************************************)
(* One operator process publishing its zones to CoreDNS: the part of       *)
(* PrivateDNSZoneReconciler.Reconcile that reads the ConfigMap and plans,  *)
(* and commitCoreDNS, which carries the plan out in five writes to two     *)
(* objects that no transaction spans.                                      *)
(*                                                                         *)
(* The process may die, or an API call may fail, between any two writes;   *)
(* the ConfigMap is written whole under optimistic concurrency, so an edit *)
(* by an administrator makes the next write fail with a conflict; the      *)
(* Deployment is read again before each of its two writes.                 *)
(*                                                                         *)
(* What each zone renders to is chosen freely at every reconcile: module   *)
(* ZoneSerial and the record modules say how it is computed.               *)
(***************************************************************************)
EXTENDS CoreDNSObjects

CONSTANTS AdminKeys   \* data keys an administrator maintains by hand

ASSUME AdminKeysAssumption == AdminKeys \subseteq Keys

VARIABLES
  cm,       \* the CoreDNS ConfigMap in the API server
  dep,      \* the CoreDNS Deployment in the API server
  pc,       \* the reconciler's next step
  mem,      \* its in-memory copy of the ConfigMap
  fresh,    \* the copy's resourceVersion is still the current one
  prev,     \* previousManagedKeys
  want,     \* the plan: rendered files, Corefile, restart hash, zones held
  switched, \* corefileChanged
  handmade  \* data keys an administrator created (history)

cluster == <<cm, dep>>
local == <<mem, fresh, prev, want, switched>>
vars == <<cm, dep, pc, mem, fresh, prev, want, switched, handmade>>

Active == {"expand", "mount", "switch", "contract", "prune"}
PCs == {"idle", "failed", "done"} \cup Active

\* What rendering decided for a zone: it is gone (terminating, absent or its
\* suffix is invalid), its record set is invalid, or it rendered.
Absent == [kind |-> "absent", body |-> NoFile]
Invalid == [kind |-> "invalid", body |-> NoFile]
RenderedFile(c) == [kind |-> "file", body |-> c]
RenderedTemplate(c) == [kind |-> "template", body |-> c]
Outcomes == {Absent, Invalid} \cup {RenderedFile(c) : c \in Contents}
                              \cup {RenderedTemplate(c) : c \in Contents}

Plans == [files : Files, corefile : Corefiles, hash : Hashes \cup {NoStamp},
          held : SUBSET Zones]

BlankCorefile == [base |-> "plain", markers |-> "absent", blocks |-> NoBlocks]
BlankConfigMap == [corefile |-> BlankCorefile, data |-> NoFiles, managed |-> {}]
BlankPlan == [files |-> NoFiles, corefile |-> BlankCorefile, hash |-> NoStamp,
              held |-> {}]

TypeOK ==
  /\ cm \in ConfigMaps
  /\ dep \in Deployments
  /\ pc \in PCs
  /\ mem \in ConfigMaps
  /\ fresh \in BOOLEAN
  /\ prev \subseteq Keys
  /\ want \in Plans
  /\ switched \in BOOLEAN
  /\ handmade \subseteq AdminKeys

\* The operator is installed on a CoreDNS it has never written to.
Init ==
  /\ \E b \in Bases : cm = [BlankConfigMap EXCEPT !.corefile.base = b]
  /\ \E m \in Mounts : dep = [mount |-> m, items |-> {}, stamp |-> NoStamp]
  /\ pc = "idle"
  /\ mem = BlankConfigMap
  /\ fresh = TRUE
  /\ prev = {}
  /\ want = BlankPlan
  /\ switched = FALSE
  /\ handmade = {}

-----------------------------------------------------------------------------
(* The plan: the render loop of Reconcile and holdLastKnownGood *)

\* The zones whose record set is invalid and that have something to hold.
Held(outcome, c) ==
  {z \in Zones : /\ outcome[z].kind = "invalid"
                 /\ ExtractZoneBlocks(c.corefile)[z] # NoStanza}

\* Mutant: a held zone keeps its stanza but its file is not re-claimed.
PlanFiles_ForgetsHeldFile(outcome, c) ==
  [k \in Keys |->
     IF k \in ZoneKeys /\ outcome[ZoneOf(k)].kind = "file"
     THEN outcome[ZoneOf(k)].body ELSE NoFile]

\* A held zone re-claims its file only if the annotation lists it.
PlanFiles(outcome, c) ==
  [k \in Keys |->
     IF k \notin ZoneKeys THEN NoFile
     ELSE IF outcome[ZoneOf(k)].kind = "file" THEN outcome[ZoneOf(k)].body
     ELSE IF ZoneOf(k) \in Held(outcome, c) /\ k \in ManagedZoneKeys(c)
     THEN c.data[k]
     ELSE NoFile]

\* The server block renderManagedBlock writes for a zone's directive.
Directive(o, previousBlock) ==
  CASE o.kind = "file"     -> FileStanza
    [] o.kind = "template" -> TemplateStanza(o.body)
    [] o.kind = "invalid"  -> previousBlock
    [] o.kind = "absent"   -> NoStanza

PlanBlocks(outcome, c) ==
  [z \in Zones |-> Directive(outcome[z], ExtractZoneBlocks(c.corefile)[z])]

Plan(outcome, c, h) ==
  [files    |-> PlanFiles(outcome, c),
   corefile |-> PatchCorefile(c.corefile, PlanBlocks(outcome, c)),
   hash     |-> h,
   held     |-> Held(outcome, c)]

desiredKeys == KeysOf(want.files)
staleKeys == prev \ desiredKeys
mountAllKeys == prev \cup desiredKeys

-----------------------------------------------------------------------------
(* The reconciler *)

\* Reconcile ends: a returned error, or a process that starts over, has
\* nothing left in memory and is due to run again.
Fail ==
  /\ pc' = "failed"
  /\ mem' = BlankConfigMap
  /\ fresh' = TRUE
  /\ prev' = {}
  /\ want' = BlankPlan
  /\ switched' = FALSE

\* Get the ConfigMap, render every zone (to the given outcome, with the given
\* combined hash), patch the Corefile in memory.
BeginWith(outcome, h) ==
  /\ pc \in {"idle", "failed", "done"}
  /\ CanPatchCorefile(cm.corefile)
  /\ want' = Plan(outcome, cm, h)
  /\ pc' = "expand"
  /\ mem' = cm
  /\ fresh' = TRUE
  /\ prev' = ManagedZoneKeys(cm)
  /\ switched' = FALSE
  /\ UNCHANGED <<cluster, handmade>>

Begin == \E outcome \in [Zones -> Outcomes], h \in Hashes : BeginWith(outcome, h)

\* PatchCorefile returns an error before anything is written.
Refuse ==
  /\ pc \in {"idle", "failed", "done"}
  /\ ~CanPatchCorefile(cm.corefile)
  /\ Fail
  /\ UNCHANGED <<cluster, handmade>>

\* Mutant: writes without a resourceVersion, so the last writer wins.
UpdateConfigMap_Unconditional(new) ==
  /\ cm' = IF new = mem THEN cm ELSE new
  /\ mem' = new

\* Update the ConfigMap unless the edit changed nothing.  The whole object is
\* written, and only over the version that was read.
UpdateConfigMap(new) ==
  /\ \/ new = mem /\ cm' = cm
     \/ new # mem /\ fresh /\ cm' = new
  /\ mem' = new

\* Mutant: one pass over the ConfigMap that adds, removes and narrows.
Expanded_Apply ==
  SetManagedZoneKeys(RemoveZoneFiles(SetZoneFiles(mem, want.files), staleKeys),
                     desiredKeys)

\* Mutant: narrows the annotation before the stale keys are gone.
Expanded_Narrow == SetManagedZoneKeys(SetZoneFiles(mem, want.files), desiredKeys)
Expanded == SetManagedZoneKeys(SetZoneFiles(mem, want.files), mountAllKeys)

SwitchedOver == SetCorefile(mem, want.corefile)

\* Mutant: forgets to narrow the annotation.
Contracted_KeepsAnnotation == RemoveZoneFiles(mem, staleKeys)
Contracted == SetManagedZoneKeys(RemoveZoneFiles(mem, staleKeys), desiredKeys)

\* Step 1: the ConfigMap gains the new files and keeps everything else.
Expand ==
  /\ pc = "expand"
  /\ UpdateConfigMap(Expanded)
  /\ pc' = "mount"
  /\ UNCHANGED <<dep, fresh, prev, want, switched, handmade>>

\* Mutant: mounts only what the new Corefile names.
Mount_DesiredOnly ==
  /\ pc = "mount"
  /\ dep.mount # "none"
  /\ dep' = EnsureZoneVolumeItems(dep, desiredKeys, prev)
  /\ pc' = "switch"
  /\ UNCHANGED <<cm, local, handmade>>

\* Step 2: the Deployment mounts the old and the new files.
Mount ==
  /\ pc = "mount"
  /\ dep.mount # "none"
  /\ dep' = EnsureZoneVolumeItems(dep, mountAllKeys, prev)
  /\ pc' = "switch"
  /\ UNCHANGED <<cm, local, handmade>>

\* EnsureZoneVolumeItems finds no volume of this ConfigMap.
MountFails ==
  /\ pc = "mount"
  /\ dep.mount = "none"
  /\ Fail
  /\ UNCHANGED <<cluster, handmade>>

\* Step 3: the Corefile names the new files.
Switch ==
  /\ pc = "switch"
  /\ UpdateConfigMap(SwitchedOver)
  /\ switched' = (SwitchedOver # mem)
  /\ pc' = "contract"
  /\ UNCHANGED <<dep, fresh, prev, want, handmade>>

\* Mutant: stamps a restart on every reconcile without the reload plugin.
Restart_Always == ~HasReloadPlugin(want.corefile)

Restart == switched /\ ~HasReloadPlugin(want.corefile)

\* Step 4: the Deployment drops the files nothing names any more, and is
\* stamped when CoreDNS cannot pick the new Corefile up by itself.
Contract ==
  /\ pc = "contract"
  /\ LET d == EnsureZoneVolumeItems(dep, desiredKeys, prev)
     IN  dep' = IF Restart THEN MarkRolloutRestart(d, want.hash) ELSE d
  /\ pc' = "prune"
  /\ UNCHANGED <<cm, local, handmade>>

\* Step 5: the ConfigMap drops the files nothing mounts any more.
Prune ==
  /\ pc = "prune"
  /\ UpdateConfigMap(Contracted)
  /\ pc' = "done"
  /\ UNCHANGED <<dep, fresh, prev, want, switched, handmade>>

\* The edit of the step that writes the ConfigMap next.
PendingWrite ==
  CASE pc = "expand" -> Expanded
    [] pc = "switch" -> SwitchedOver
    [] pc = "prune"  -> Contracted
    [] OTHER         -> mem

\* Mutant: repeats the rejected Update instead of returning the error.
Conflict_RetriesInPlace ==
  /\ PendingWrite # mem
  /\ ~fresh
  /\ UNCHANGED vars

\* The API server rejects a write based on an old resourceVersion.
Conflict ==
  /\ PendingWrite # mem
  /\ ~fresh
  /\ Fail
  /\ UNCHANGED <<cluster, handmade>>

\* The process dies or an API call fails.  A call that fails after it was
\* applied is the step followed by this one.
Abort ==
  /\ pc \in Active
  /\ Fail
  /\ UNCHANGED <<cluster, handmade>>

CommitStep == Expand \/ Mount \/ MountFails \/ Switch \/ Contract \/ Prune

-----------------------------------------------------------------------------
(* The administrator, who keeps zone files and server blocks of his own in *)
(* the same objects and leaves the operator's keys alone.                  *)

EditConfigMap(new) ==
  /\ new # cm
  /\ cm' = new
  /\ fresh' = (pc \notin Active \cup {"done"})
  /\ UNCHANGED <<dep, pc, mem, prev, want, switched>>

AdminWritesFile ==
  \E k \in AdminKeys, c \in Contents :
    /\ k \in handmade \/ cm.data[k] = NoFile
    /\ EditConfigMap([cm EXCEPT !.data[k] = c])
    /\ handmade' = handmade \cup {k}

AdminDeletesFile ==
  \E k \in handmade :
    /\ k \notin dep.items
    /\ EditConfigMap([cm EXCEPT !.data[k] = NoFile])
    /\ handmade' = handmade \ {k}

AdminEditsBase ==
  \E b \in Bases :
    /\ EditConfigMap([cm EXCEPT !.corefile.base = b])
    /\ UNCHANGED handmade

\* Damages one of the two marker lines, or puts it back.
AdminEditsMarkers ==
  \E m \in {"intact", "broken"} :
    /\ cm.corefile.markers # "absent"
    /\ EditConfigMap([cm EXCEPT !.corefile.markers = m])
    /\ UNCHANGED handmade

AdminRemovesBlock ==
  /\ EditConfigMap([cm EXCEPT !.corefile.markers = "absent",
                              !.corefile.blocks = NoBlocks])
  /\ UNCHANGED handmade

AdminMounts ==
  /\ dep.mount = "items"
  /\ \E k \in handmade :
       \E i \in {dep.items \cup {k}, dep.items \ {k}} :
          i # dep.items /\ dep' = [dep EXCEPT !.items = i]
  /\ UNCHANGED <<cm, pc, local, handmade>>

Admin == \/ AdminWritesFile \/ AdminDeletesFile \/ AdminEditsBase
         \/ AdminEditsMarkers \/ AdminRemovesBlock \/ AdminMounts

Next == Begin \/ Refuse \/ CommitStep \/ Conflict \/ Abort \/ Admin

Spec == Init /\ [][Next]_vars

\* A failed reconcile is queued again (controller-runtime's rate-limited
\* queue; after a crash, the informers' initial list), and a running one
\* keeps running.  Nobody has to start a reconcile of an idle operator, and
\* neither failures nor administrators are under any obligation.
Fairness ==
  /\ WF_vars(pc = "failed" /\ (Begin \/ Refuse))
  /\ WF_vars(CommitStep \/ Conflict)

FairSpec == Spec /\ Fairness

-----------------------------------------------------------------------------
(* Safety *)

\* Every data key the Deployment's volume items name exists, after every
\* single write: otherwise new CoreDNS pods cannot mount the volume
\* (commitCoreDNS, README "CoreDNS writes are ordered").
VolumePopulates ==
  dep.mount = "items" => dep.items \subseteq KeysOf(cm.data)

\* Every zone file the Corefile names is visible in the container, after
\* every single write: otherwise CoreDNS exits at startup.
CorefileLoads ==
  NamedKeys(cm.corefile.blocks) \subseteq
     IF dep.mount = "items" THEN dep.items ELSE KeysOf(cm.data)

\* The managed-keys annotation lists every operator key that exists, is
\* mounted or is named by the Corefile, so that a reconcile that dies leaves
\* nothing the next one cannot find (comment of ManagedZoneKeysAnnotation).
OwnedKeysTracked ==
  ZoneKeys \cap (KeysOf(cm.data) \cup dep.items
                   \cup NamedKeys(cm.corefile.blocks)) \subseteq cm.managed

\* What CoreDNS serves for a zone from the objects as they are.
Served(z) ==
  LET b == cm.corefile.blocks[z]
  IN  [kind |-> b.kind,
       body |-> IF b.kind = "file" THEN cm.data[ZoneFileKey[z]] ELSE b.body]

\* The objects hold exactly the plan, with no leftover of an earlier one.
Published ==
  /\ cm.corefile = want.corefile
  /\ cm.managed = desiredKeys
  /\ \A k \in ZoneKeys : cm.data[k] = want.files[k]
  /\ dep.mount = "items" => dep.items \cap ZoneKeys = desiredKeys

\* A commit that ends well, with nobody editing the ConfigMap under it, has
\* published its plan exactly, whatever a crashed predecessor left behind.
CommitPublishesPlan == pc = "done" /\ fresh => Published

(* The inductive invariant behind these: what is true of the objects at  *)
(* every moment, and of the reconciler's memory at each of its steps.    *)

ItemsMode == dep.mount = "items"

\* The objects.  The operator's keys are exactly the ones the annotation
\* lists; what is mounted is the operator's or the administrator's.
ObjectsInv ==
  /\ cm.managed = KeysOf(cm.data) \cap ZoneKeys
  /\ NamedKeys(cm.corefile.blocks) \subseteq cm.managed
  /\ handmade \subseteq KeysOf(cm.data)
  /\ dep.items \subseteq cm.managed \cup handmade
  /\ ItemsMode => NamedKeys(cm.corefile.blocks) \subseteq dep.items
  /\ ~ItemsMode => dep.items = {}

\* The copy in memory: current if fresh; if not, it still agrees with the
\* API server on everything the administrator does not edit.
MemoryInv ==
  pc \in Active \cup {"done"} =>
    /\ fresh => mem = cm
    /\ mem.managed = cm.managed
    /\ \A k \in ZoneKeys : mem.data[k] = cm.data[k]
    /\ NamedKeys(cm.corefile.blocks) \subseteq NamedKeys(mem.corefile.blocks)

\* The plan: its Corefile names only files that the plan has and keeps what
\* is outside the managed block; for a held zone it is what was read.
PlanInv ==
  pc \in Active \cup {"done"} =>
    /\ prev \subseteq ZoneKeys
    /\ desiredKeys \subseteq ZoneKeys
    /\ NamedKeys(want.corefile.blocks) \subseteq desiredKeys
    /\ want.corefile.base = mem.corefile.base
    /\ \A z \in want.held :
         /\ want.corefile.blocks[z] = mem.corefile.blocks[z]
         /\ want.corefile.blocks[z].kind = "file" =>
              want.files[ZoneFileKey[z]] = mem.data[ZoneFileKey[z]]

\* The progress: what each step may rely on.
StepInv ==
  /\ pc = "expand" => mem.managed = prev
  /\ pc \in {"mount", "switch", "contract", "prune"} =>
       mem.managed = mountAllKeys
  /\ pc \in {"mount", "switch", "contract", "prune", "done"} =>
       \A k \in desiredKeys : mem.data[k] = want.files[k]
  /\ pc = "switch" /\ ItemsMode => mountAllKeys \subseteq dep.items
  /\ pc \in {"contract", "prune", "done"} => mem.corefile = want.corefile
  /\ pc \in {"prune", "done"} /\ ItemsMode => dep.items \cap ZoneKeys = desiredKeys
  /\ pc = "done" => mem.managed = desiredKeys

CommitInv == TypeOK /\ ObjectsInv /\ MemoryInv /\ PlanInv /\ StepInv

(* Action properties.  The reconciler's steps are the ones that change pc. *)

\* The operator never changes, deletes, unmounts or claims a zone file that
\* an administrator created, nor the Corefile outside the managed block, even
\* when the edit lands between the operator's read and its write.
HandmadeUntouched ==
  [][pc' # pc =>
       /\ cm'.corefile.base = cm.corefile.base
       /\ \A k \in handmade : /\ cm'.data[k] = cm.data[k]
                              /\ k \notin cm'.managed
                              /\ k \in dep'.items <=> k \in dep.items]_vars

\* No step of a commit changes what is served for a zone whose record set is
\* invalid: both its stanza and its file stay (holdLastKnownGood).
HoldKeepsServing ==
  [][(pc \in Active /\ pc' # pc) =>
       \A z \in want.held : Served(z)' = Served(z)]_vars

\* Once the plan is what the objects hold, no step writes either object.
SteadyStateWritesNothing ==
  [][(pc \in Active /\ pc' # pc /\ ~switched /\ Published)
       => UNCHANGED cluster]_vars

(* Refinement *)

\* What the plan makes of a zone.
Wanted(z) ==
  LET b == want.corefile.blocks[z]
  IN  [kind |-> b.kind,
       body |-> IF b.kind = "file" THEN want.files[ZoneFileKey[z]] ELSE b.body]

Publication == INSTANCE ZonePublication WITH
  view   <- [z \in Zones |-> Served(z)],
  target <- [z \in Zones |-> Wanted(z)],
  state  <- IF pc \in {"idle", "failed"} THEN pc
            ELSE IF ~fresh THEN "overtaken"
            ELSE IF pc = "done" THEN "done" ELSE "busy"

\* The five writes implement the abstract publication: no zone passes through
\* a state that is neither its old nor its new one, a finished commit has
\* moved every zone, and a commit whose copy of the ConfigMap is outdated
\* changes nothing that is served.
PublishesZonesAtomically == Publication!Spec

(* Liveness *)

\* A step that is also a conflict or a missing volume is not one of these.
Disturbance == (Abort /\ ~Conflict /\ ~MountFails) \/ Admin

\* When failures and edits cease, a failed reconcile is followed by one that
\* completes, provided the Deployment mounts the ConfigMap and the markers
\* are not left damaged: no leftover of a crash can block the next commit.
FailedCommitRecovers ==
  <>[][~Disturbance]_vars =>
     (/\ pc = "failed"
      /\ dep.mount # "none"
      /\ cm.corefile.markers # "broken") ~>
     (\/ pc = "done"
      \/ cm.corefile.markers = "broken")

=============================================================================
