--------------------------- MODULE CoreDNSRollout ---------------------------
(***************************************************************************)
(* From the objects to the running pods: the commit of CommitCoreDNS, the  *)
(* status field its restart hash is computed from, and CoreDNS's pods as   *)
(* the Deployment controller, the kubelet and the reload plugin move them. *)
(*                                                                         *)
(* A pod has the volume items and the restart stamp of the template it was *)
(* created from, a directory the kubelet projects the ConfigMap into as a  *)
(* whole, and the Corefile its CoreDNS process has loaded.  The Deployment *)
(* controller, the kubelet and CoreDNS are not part of the repository;     *)
(* they are modelled as far as commitCoreDNS relies on them.               *)
(*                                                                         *)
(* Nobody but the operator writes the objects here.                        *)
(***************************************************************************)
EXTENDS CommitCoreDNS

CONSTANTS
  Pods,       \* the Deployment's replicas
  Base,       \* is the reload plugin enabled?
  Kinds,      \* what zones come to: see ZoneKinds
  MayAbort    \* may the operator die, or its API calls fail?

\* A zone is gone, has an unusable suffix, an invalid record set, or renders.
ZoneKinds == {"gone", "unusable", "invalid", "file", "template"}

ASSUME RolloutAssumption ==
  /\ Base \in Bases
  /\ Kinds \subseteq ZoneKinds
  /\ MayAbort \in BOOLEAN
  /\ Hashes = SUBSET Contents   \* combinedHash, see below

VARIABLES
  applied,  \* the zones' status.lastAppliedHash
  result,   \* zoneResults: the lastAppliedHash the reconcile will write
  saved,    \* the statuses of the last commit are written
  pods      \* the pods of the CoreDNS Deployment

rvars == <<vars, applied, result, saved, pods>>

\* The digest of a body is the body; a zone without a status has none.
Digests == [Zones -> Contents \cup {NoFile}]
NoDigests == [z \in Zones |-> NoFile]

template == [items |-> dep.items, stamp |-> dep.stamp]
Templates == [items : SUBSET Keys, stamp : Hashes \cup {NoStamp}]
Directories == [corefile : Corefiles, keys : SUBSET Keys]
PodStates == {"none", "pending", "starting", "running", "broken"}
BlankPod == [state |-> "none", tmpl |-> [items |-> {}, stamp |-> NoStamp],
             dir |-> [corefile |-> BlankCorefile, keys |-> {}],
             conf |-> BlankCorefile]

RTypeOK ==
  /\ TypeOK
  /\ applied \in Digests /\ result \in Digests /\ saved \in BOOLEAN
  /\ pods \in [Pods -> [state : PodStates, tmpl : Templates,
                        dir : Directories, conf : Corefiles]]

\* CoreDNS runs on the untouched objects, and mounts the ConfigMap.
RInit ==
  /\ Init
  /\ cm.corefile.base = Base /\ dep.mount # "none"
  /\ applied = NoDigests /\ result = NoDigests /\ saved = TRUE
  /\ pods = [p \in Pods |->
               [BlankPod EXCEPT !.state = "running", !.dir.corefile = cm.corefile,
                                !.conf = cm.corefile]]

-----------------------------------------------------------------------------
(* The operator *)

OutcomeOf(kind, c) ==
  CASE kind \in {"gone", "unusable"} -> Absent
    [] kind = "invalid"              -> Invalid
    [] kind = "file"                 -> RenderedFile(c)
    [] kind = "template"             -> RenderedTemplate(c)

\* Mutant: a zone that did not render has an empty digest.
DigestOf_Blank(kind, c, previous) ==
  IF kind \in {"file", "template"} THEN c ELSE NoStamp

\* zoneResult.lastAppliedHash: a zone that did not render keeps the one of its
\* status, a zone that is gone has no result.
DigestOf(kind, c, previous) ==
  CASE kind = "gone"                    -> NoFile
    [] kind \in {"unusable", "invalid"} -> previous
    [] kind \in {"file", "template"}    -> c

\* The digests there are, sorted and joined.
combinedHash(digests) == {digests[z] : z \in Zones} \ {NoFile}

\* Only a reconcile that fails leaves statuses unwritten.
RBegin ==
  /\ pc = "done" /\ ~saved => MayAbort
  /\ \E kind \in [Zones -> Kinds], body \in [Zones -> Contents] :
       LET outcome == [z \in Zones |-> OutcomeOf(kind[z], body[z])]
           digests == [z \in Zones |-> DigestOf(kind[z], body[z], applied[z])]
       IN  /\ BeginWith(outcome, combinedHash(digests))
           /\ result' = digests
  /\ saved' = FALSE
  /\ UNCHANGED <<applied, pods>>

RCommit ==
  /\ Expand \/ Mount \/ Switch \/ Contract \/ Prune
  /\ UNCHANGED <<applied, result, saved, pods>>

\* writeZoneStatuses, after the commit.
WriteStatuses ==
  /\ pc = "done" /\ ~saved
  /\ applied' = result /\ saved' = TRUE
  /\ UNCHANGED <<vars, result, pods>>

RAbort ==
  /\ MayAbort
  /\ Abort
  /\ result' = NoDigests
  /\ UNCHANGED <<applied, saved, pods>>

Operator == RBegin \/ RCommit \/ WriteStatuses \/ RAbort

-----------------------------------------------------------------------------
(* The pods *)

\* The keys a template's volume exposes, and whether it populates.
Visible(tmpl) == IF dep.mount = "items" THEN tmpl.items ELSE KeysOf(cm.data)
Populates(tmpl) == Visible(tmpl) \subseteq KeysOf(cm.data)
Projection(tmpl) == [corefile |-> cm.corefile, keys |-> Visible(tmpl)]

\* CoreDNS accepts a Corefile when the zone files it names are there.
Loads(dir) == NamedKeys(dir.corefile.blocks) \subseteq dir.keys

PodStep == UNCHANGED <<vars, applied, result, saved>>

\* The Deployment controller replaces a missing pod, and removes a pod of an
\* earlier template as long as another one is running.
CreatePod(p) ==
  /\ pods[p].state = "none"
  /\ pods' = [pods EXCEPT ![p] = [BlankPod EXCEPT !.state = "pending",
                                                  !.tmpl = template]]
  /\ PodStep

RetirePod(p) ==
  /\ pods[p].state # "none"
  /\ pods[p].tmpl # template
  /\ \/ pods[p].state # "running"
     \/ \E q \in Pods \ {p} : pods[q].state = "running"
  /\ pods' = [pods EXCEPT ![p] = BlankPod]
  /\ PodStep

\* The kubelet mounts the volume of a new pod.
MountVolume(p) ==
  /\ pods[p].state = "pending"
  /\ Populates(pods[p].tmpl)
  /\ pods' = [pods EXCEPT ![p].state = "starting",
                          ![p].dir = Projection(pods[p].tmpl)]
  /\ PodStep

\* The kubelet brings a mounted volume up to date, all files at once.
RefreshVolume(p) ==
  /\ pods[p].state \in {"starting", "running", "broken"}
  /\ Populates(pods[p].tmpl)
  /\ pods[p].dir # Projection(pods[p].tmpl)
  /\ pods' = [pods EXCEPT ![p].dir = Projection(pods[p].tmpl)]
  /\ PodStep

\* CoreDNS starts from its directory, or exits.
StartCoreDNS(p) ==
  /\ pods[p].state = "starting"
  /\ pods' = [pods EXCEPT ![p].state = IF Loads(pods[p].dir) THEN "running"
                                                             ELSE "broken",
                          ![p].conf = IF Loads(pods[p].dir)
                                      THEN pods[p].dir.corefile ELSE BlankCorefile]
  /\ PodStep

\* The kubelet restarts a container that exited, or that fails for a reason of
\* its own.
RestartContainer(p) ==
  /\ pods[p].state \in {"running", "broken"}
  /\ pods' = [pods EXCEPT ![p].state = "starting", ![p].conf = BlankCorefile]
  /\ PodStep

\* The reload plugin loads a changed Corefile, and keeps the old one if the new
\* one does not load.
Reload(p) ==
  /\ pods[p].state = "running"
  /\ HasReloadPlugin(pods[p].conf)
  /\ pods[p].conf # pods[p].dir.corefile
  /\ Loads(pods[p].dir)
  /\ pods' = [pods EXCEPT ![p].conf = pods[p].dir.corefile]
  /\ PodStep

PodNext(p) == \/ CreatePod(p) \/ RetirePod(p) \/ MountVolume(p)
              \/ RefreshVolume(p) \/ StartCoreDNS(p) \/ RestartContainer(p)
              \/ Reload(p)

RNext == Operator \/ \E p \in Pods : PodNext(p)

RSpec == RInit /\ [][RNext]_rvars

\* A started reconcile goes on and a failed one is retried; the Deployment
\* controller, the kubelet and the reload plugin go on forever.  A container
\* that exited is restarted; one that runs need not fail.
RFairness ==
  /\ WF_rvars(RCommit \/ WriteStatuses)
  /\ WF_rvars(pc = "failed" /\ RBegin)
  /\ \A p \in Pods :
       /\ WF_rvars(CreatePod(p)) /\ WF_rvars(RetirePod(p))
       /\ WF_rvars(MountVolume(p)) /\ WF_rvars(RefreshVolume(p))
       /\ WF_rvars(StartCoreDNS(p)) /\ WF_rvars(Reload(p))
       /\ WF_rvars(pods[p].state = "broken" /\ RestartContainer(p))

RFairSpec == RSpec /\ RFairness

-----------------------------------------------------------------------------
(* Properties *)

\* CoreDNS never exits for a zone file its Corefile names and it does not see,
\* whenever a container restarts or a volume is refreshed, if the ConfigMap is
\* mounted whole.  With explicit items only a pod that is about to be replaced or
\* whose volume is out of date can exit: step 3 does not wait for the rollout that
\* step 2 starts (README "Both conditions hold after every individual write").
PodsLoadTheirCorefile ==
  [][\A p \in Pods :
       pods[p].state # "broken" /\ pods'[p].state = "broken" =>
         /\ dep.mount = "items"
         /\ \/ pods[p].tmpl # template
            \/ pods[p].dir # Projection(pods[p].tmpl)]_rvars

UpToDate(p) ==
  /\ pods[p].state = "running"
  /\ pods[p].tmpl = template
  /\ pods[p].conf = cm.corefile

\* When the operator comes to rest and containers cease to fail, every pod runs
\* the current template and has loaded the Corefile that was published, by
\* reload or by restart (README "If `reload` is absent or volume items changed, the
\* CoreDNS Deployment pod template is annotated to trigger a rollout restart").
PodsCatchUp ==
  (<>[](pc = "done" /\ saved)
     /\ <>[][\A p \in Pods : ~(pods[p].state = "running" /\ RestartContainer(p))]_rvars)
  => <>[](\A p \in Pods : UpToDate(p))

=============================================================================
