# A TLA+ model of the private DNS operator

The operator turns `PrivateDNSZone` and `PrivateDNSRecord` objects into CoreDNS
configuration: server blocks in a marked region of the Corefile and zone files
next to it, both in CoreDNS's ConfigMap, and the list of mounted keys in
CoreDNS's Deployment. These modules model how it does that, TLC checks them on
small instances, and TLAPS proves the main results for every number of zones,
keys and contents.

## Inventory

| Part | Source | State | Operations | Interacts through |
|---|---|---|---|---|
| CoreDNS objects | `internal/coredns` | none (pure edits of in-memory objects) | `SetZoneFiles`, `SetCorefile`, `RemoveZoneFiles`, `SetManagedZoneKeys`, `PatchCorefile`, `ExtractZoneBlocks`, `EnsureZoneVolumeItems`, `MarkRolloutRestart` | called by the commit |
| Plan and commit | `Reconcile`, `holdLastKnownGood`, `commitCoreDNS`, `setVolumeItems` | ConfigMap copy, previous managed keys, plan | read, plan, five writes | ConfigMap (optimistic concurrency), Deployment (read again before each write) |
| Serial and status | `internal/dns/render.go`, `writeZoneStatuses`, `failedResult` | `status.serial`, `status.lastAppliedHash`, informer cache | render, write status | zone status, watch |
| Records | `recordsForZone`, `internal/dns/record.go`, `groupTemplateRecords`, `writeRecordStatuses` | the records' `Accepted` conditions | admission, conflicts, deduplication, order, two renderings, status writes | feeds the plan; record objects of several namespaces |
| Zone status | `writeZoneStatuses`, `conditions.go`, `reportCoreDNSUnavailable` | the zone's conditions, `observedGeneration`, `records`, `zoneFileKey` | merge, prune, patch | zone status, cache, watch |
| Zone lifecycle | finalizer claim and release, `reportCoreDNSUnavailable` | finalizers | claim, release | API server |
| Rollout | `MarkRolloutRestart`, reload plugin | pod template, running pods | stamp | Deployment controller, kubelet, CoreDNS |
| Process | `cmd/main.go` | lease | leader election (off by default) | several operators on the same objects |

What is hard here, and a unit test hardly reaches: five writes to two objects
with no transaction and a crash possible after each; a ConfigMap other people
edit; a volume whose items must exist and a Corefile whose files must be
mounted, which pull the order of the writes in opposite directions; a serial
that must grow although its only memory is a status that is written late and
read from a cache; status writes that trigger the reconciler that wrote them;
restarts decided from a flag that a crash forgets; pods that lag behind the
objects; tenants that share a zone and disagree; two operators at once.
`PROJECT.json` lists these as hazards, each at its line.

What makes each part correct:

* objects and commit: after every single write the volume populates and the
  Corefile loads; the annotation covers everything owned; nothing foreign is
  touched; a zone moves from its old to its new output at once; a held zone does
  not move; a finished commit leaves exactly its plan; an unchanged plan writes
  nothing; a failed commit is eventually followed by a complete one;
* serial and status: the serial grows with every change of the records' text and
  only then; the last valid edit reaches CoreDNS; the operator comes to rest;
* records: one record's fault costs that record, a conflict costs its name, the
  answers depend on the set of records only, and the statuses say what is answered;
* zone status: the conditions are always one reconcile's verdict, their times are
  honest, and every field ends up saying what is the case;
* lifecycle: no finalizer is released while the zone is still published, and
  every terminating zone is released in the end;
* rollout: a Corefile change reaches the running pods;
* process: a second operator does not break any of this.

## Modules

`CoreDNSObjects` has the ConfigMap, the Corefile and the Deployment as records
and the functions of `internal/coredns` as operators on them. The Corefile is
its text outside the managed block (does it enable `reload`?), the state of the
two marker lines (absent, intact, broken), and one stanza per zone. Contents of
zone files and of template stanzas are opaque. `ZoneFileKey` is a constant
function, assumed injective: the code appends 24 bits of a SHA-1 to the dashed
suffix. One zone object per suffix is assumed, as the repository's README does.

`CommitCoreDNS` is one operator process. `Begin` reads the ConfigMap, renders
every zone (each comes out absent, invalid, as a file or as a template, freely
chosen) and computes the plan; `Expand`, `Mount`, `Switch`, `Contract` and
`Prune` are the five steps of `commitCoreDNS` in order, each skipping its write
when nothing would change. `mem` is the ConfigMap object the Go code keeps
editing; `fresh` abstracts its `resourceVersion`: a ConfigMap write succeeds only
if nobody has written since. Deployment steps read and write at once, because a
concurrent edit of the Deployment makes that Update fail, which is `Abort`.
`Refuse`, `MountFails`, `Conflict` and `Abort` are the ways a reconcile fails:
damaged markers, a Deployment without the volume, a conflict, and a crash or any
other API error. A call that times out after it was applied is the step followed
by `Abort`. The administrator writes, deletes and mounts files of his own, edits
the Corefile outside the block, damages, repairs or removes the block.

`ZonePublication` is the abstract specification: what is served for each zone
jumps from old to wanted, one zone at a time or several at once. `CommitCoreDNS` is shown to implement it.

`ZoneSerial` is the serial of one NXDOMAIN zone: `nextSerial`, the reuse of the
serial in `RenderZone`, `failedResult`, the commit as one step (the new content
is live from its first write), the status merge patch, the informer cache, and
CoreDNS reloading a file only when its serial grew. A record set has a set of texts
(`Texts`), of which each render picks one: `DeduplicateAndSort` ranges over a map and
sorts by FQDN, type and source name only, so records that tie in these (namesakes of
two namespaces, inline records with two TTLs) come out in any order. The history
variable `lost` records that one of the two ways to forget a serial has happened: a
reconcile ended with a file the status does not know, or rendered from an outdated
status. `origin` remembers which records the file was rendered from.

`ZoneLifecycle` is the life of the zone objects. One reconcile lists the zones
from the informer cache, reads the ConfigMap, sets missing finalizers (`Claim`),
commits, removes the finalizers of terminating zones (`Release`) and patches the
statuses (`WriteStatus`); with the ConfigMap or its Corefile absent it goes
straight to `Release`, with an unreadable one straight to the statuses, and in
both cases ends in an error (`reportCoreDNSUnavailable`). `stale` and `behind`
abstract `resourceVersion`s: an Update of an object that has changed since it was
listed fails, a status patch does not. The five writes of the commit are one step,
or a failure that leaves each zone's stanza old or new, which is what
`CommitCoreDNS` shows; `CommitUnaware` is a commit that has nothing to write and so
does not notice that the ConfigMap has been deleted or replaced. Assumed here:
zones have no finalizer but the operator's and nobody removes it by hand (the
repository's README describes that as a last resort); a deleted ConfigMap is
restored without the managed block; the cache, when it moves, moves to the newest
version. `CommitCoreDNS` in turn starts from a ConfigMap that has a Corefile.

`RecordSet` has the pure part of the records: names (sequences of labels) and
their normalisation and validation, `recordsForZone` (admission, conflicts, what
is kept, excluded or blocking), `DeduplicateAndSort`, the lines of a zone file (the SOA
and NS lines at "@" included, `ApexLine`) and the RRsets of template stanzas, and what CoreDNS answers from either. What the Go
code leaves open is a set of outcomes: `Orders` has every order a sort that is not
stable may leave the records of one RRset in, after they came out of a map. An RRset
of a zone file is a set of lines, since the order of lines shows in no answer. The
sets `PrivateDNSRecordSpec`, `PrivateDNSRecordSpecInline` and `PrivateDNSZoneSpec` are
what the API server admits. The
syntax of values (`validateValue`) is the constant `WellFormed`; lower case of
labels and values and the normal form of a target are the constants `Lower`, `Fold`
and `Target`. Of the six record types three are kept, one for each way values are
compared: `A` for opaque data, `CNAME`, and `TXT`, where case matters.

`ZoneRecords` puts `RecordSet` to work: one zone, delegated records of several
namespaces, authors who edit, delete and create them at any time, and reconciles
that compile and publish (`Publish`, one step for the commit), then report on the
zone (`ReportZone`) and on each record (`ReportRecord`), or report that CoreDNS is
unavailable (`Unavailable`, retried for as long as it is), and may die in between.
`zcache` and `cache` are the statuses in the informer caches: `Report` compares each
verdict with the status it listed and sends no patch where they agree, so that a
reconcile which listed outdated statuses may leave a wrong one stored; `Deliver` is the
watch, which brings a stored status to the cache and queues the next reconcile. An edit
is taken to happen when the cache gets it. A record that is terminating and kept by
somebody's finalizer is still rendered and no longer reported on (`leaving`), as in the
code. The operator starts on any objects, and the authors then make at most `MaxEdits`
edits. `synced` says that the last reconcile published, listed the statuses as they were
stored, ran to its end, and nothing was edited since it listed. Verdicts are compared by
their reason; the code's comparison covers message, FQDN and generation too, so it
sends more patches, all with the same reason.

`ZoneConditions` is a zone's status but for serial and hash, which are in `ZoneSerial`:
the conditions each result tells (`Told`), `observedGeneration`, the number of records
and `zoneFileKey` (`Desired`); `applyConditions`; the merge patch, which carries only the
fields in which the wanted status differs from the listed copy, is applied to the
current object and is not sent at all if none differs (`Patched`); the clock; and the
watch that queues a reconcile for each change it delivers (`Sync`). What a reconcile
finds depends on the zone and its records (`world`, which changes with an edit the cache
gets) and on CoreDNS (`target`). Nothing watches CoreDNS's objects, so `Retarget` queues
nothing: it is noticed with the next event of any zone or the resync (`OtherEvent`), or
because the report that CoreDNS is unavailable always ends in an error and is retried
(`Requeued`). `since` (when a condition last changed its status) and `overrun` (a patch was
based on an outdated copy) are history variables. Record statuses go through the same
functions with one condition.

`CoreDNSRollout` extends `CommitCoreDNS` with CoreDNS's pods. A pod has the items
and the stamp of the template it was made from, a directory the kubelet fills and
refreshes as a whole, and the Corefile its process has loaded. The operator's side
adds `status.lastAppliedHash` and `combinedHash`, from which the stamp is made; the
Deployment controller, the kubelet, the container's restarts and the reload plugin
are external, modelled as far as `commitCoreDNS` relies on them. The digest of a body
is the body, and nobody but the operator writes the objects.

`Failover` has two instances of `CommitCoreDNS`, each with a memory of its own, over
one ConfigMap and one Deployment. A process starts a reconcile only while it holds
the lease; `LoseLease` may happen between any two writes, and the old holder goes on
until it notices. Without leader election, the default, both start when they like;
a lease that may change hands at any moment allows the same interleavings. The ConfigMap write of one makes the
other's copy outdated (`Outdates`), which is what fences it; the Deployment writes
are not fenced.

The theorems about a module `M` are in `MProofs`: there is one for `CommitCoreDNS`,
`ZoneSerial`, `ZoneLifecycle`, `ZoneRecords`, `ZoneConditions`, `CoreDNSRollout` and
`Failover`. The `MC*` modules and the `.cfg` files hold the
instances. Operators named `X_Something` next to an operator `X` are faulty variants
of it; each property is checked to fail when one of them takes the place of the
original.

## Runs

| Run | What it shows |
|---|---|
| `commit` | two zones beside an administrator's file and Corefile text: all interleavings of writes, failures and edits keep CoreDNS mountable and loadable, his edits are neither lost nor undone, a published plan is not written again; the inductive invariant of the proofs; refinement of `ZonePublication`; liveness: once failures and edits cease, a failed commit is followed by a complete one |
| `serial` | unless a serial was lost, the serial grows whenever the text of the records changes, also over clock jumps, full days and invalid phases, and stays put on records that leave no tie to the sort; liveness: the last valid edit reaches CoreDNS unless a serial was lost, and the operator stops, even with interruptions and stale reads, unless the records have two texts |
| `serial_lost` | violation: a reconcile that reads a stale status reuses a serial |
| `serial_unstable` | violation: records that tie in the sort swap lines, and hash and serial change with nothing edited |
| `lifecycle` | one zone object, any sequence of user writes, cache lags, failures and changes of the ConfigMap: no object goes before its stanza, no zone turns Ready unpublished; liveness: every zone settles once edits and failures cease, and a missing CoreDNS does not keep a deleted zone |
| `records` | any two records of two tenants against five kinds of zone: one record costs at most its own name, nothing kept is refused later, so that a conflict of CNAMEs is settled before the file is rendered, statuses tell what is answered after a reconcile that listed them as stored, repeating a reconcile keeps the answers in any order of the records |
| `records_settle` | one tenant and the zone's author, with edits, deletions, failures and cached statuses that lag: output, freshly rendered or held for a zone that turned invalid, never mixes a CNAME with other records but the zone's own SOA and NS; liveness: once edits and failures cease every stored status is for good the verdict on the current objects, although patches were skipped for outdated copies |
| `conditions` | patches against copies that may be outdated: conditions and `observedGeneration` are one verdict, never a mixture, transition times are honest, a stored verdict is not written again; liveness: every field of the status ends up reporting what is the case, an unavailable CoreDNS is retried until it is back, and otherwise the operator rests |
| `rollout` | with `reload`, either mount, crashes included: every pod ends up on the current template and Corefile (liveness); a container exits for a missing file only in a pod that is being replaced or whose volume is out of date, and never if the ConfigMap is mounted whole |
| `rollout_lost_restart` | violation: without `reload`, a crash between Corefile and stamp loses the restart |
| `failover` | two operators, a lease lost at any moment: the ConfigMap stays whole, served output moves only by an operator with a current copy |
| `failover_mount` | violation: a deposed operator mounts a key its successor deleted |

Bounds. Two zones are enough for one to be held, or left alone, while another
moves, and one foreign key for every interference with files, as the code treats
each key separately. `commit` has one content, so that the whole state space with
liveness stays small: a zone changes by appearing, vanishing, moving between file and
template or being held. A file whose body changes in place is in `failover` (two
contents) and in the proofs, which hold for every set of contents. In `serial`, two
bodies allow change and reversal, by an edit or by the sort: one record set has one of
the two texts, the other has either. `serial_lost` has one text per set, so that only
the lost status can be the cause; two days with `SlotsPerDay = 2` let the clock go
back and make the day's counter overflow into the next day; `LastSerial` makes it
saturate. The lifecycle run has one zone object, which may be created again after it
is gone; zones meet only in a shared reconcile, and the safety properties are proved
for any number of them.

In the record runs names have at most `MaxLabels = 2` labels, so that a relative name
can be too long in its zone; the labels have two spellings of one name, another
name and an invalid one, the texts two spellings, a trailing dot, another value and
a malformed one. Two records of the same name in two namespaces, and the zone's own,
are what conflicts, RRsets and the sort can tell apart. `records` starts on every
combination of four records for each tenant and five zones, with no edit after that
(`MaxEdits = 0`) but with failures, outdated caches and another zone's events;
`records_settle` has one tenant, fewer records and zones and one edit (`MaxEdits = 1`), so that
a reconcile is followed, overtaken or interrupted by an edit that brings a conflict
about, lifts it, deletes a record or the zone. The two together take
the place of one run with both, which does not finish in a few minutes; the proofs hold
for any number of edits.

The condition run has a zone that renders and one that holds a file, two generations
(`MaxGen`) of which the second changes the policy, a CoreDNS that is there or not, and
two readings of the clock (`MaxTime = 1`), enough to tell an earlier time from a later one.
The rollout runs have two pods, so that one can be replaced
while another runs, one content, and zones that are gone, a file or a template: a held
zone gives the pods nothing to do. `rollout` has the reload plugin, where the stamp does
not matter; `rollout_lost_restart` has none, and template zones only, so that nothing but the
lost restart can be the cause.

Fairness. The operator's steps and the retry of a failed reconcile are weakly
fair: controller-runtime queues a failed request again and, after a crash, the
informers' first list queues every object. The watch and CoreDNS's polling are
weakly fair in `ZoneSerial`, the watch in `ZoneRecords` and `ZoneConditions` too: informers
deliver every change in the end. In these two the resync and the other zones' events
are not fair, so that the liveness there does not lean on them. In `ZoneLifecycle` the periodic resync of
controller-runtime's informers is weakly fair as well: the operator does not watch
its ConfigMap, so nothing else makes it publish again after the ConfigMap is
replaced. In `CoreDNSRollout` the
Deployment controller, the kubelet (mounting, refreshing, starting, restarting a
container that exited) and the reload plugin are weakly fair, as controllers that
poll forever are; a container that runs need not fail. Failures, edits and the start
of an idle operator are not fair.

## Proofs

All theorems of `CommitCoreDNSProofs` but type correctness assume
`AdminKeepsOwnNames`: nobody hand-makes a key with a generated name. Without it `HandmadeNeverTouched` would
be false, as the next section says. The argument is one
inductive invariant, `CommitInv`, in four parts. `ObjectsInv` says the
annotation is exactly the set of the operator's keys present, and what is named
is mounted; on its own it is not inductive, because steps 2 to 5 act on what an
earlier step is known to have done. `StepInv` records that per step; `MemoryInv`
relates the copy in memory to the API server, also when it is out of date, which
the Deployment steps need because no version check stops them; `PlanInv` says the
plan's Corefile names only the plan's files, which for held zones rests on
`ObjectsInv`. The theorems about single steps (`HandmadeNeverTouched`,
`HoldAlwaysKeepsServing`, `SteadyStateNeverWrites`) follow from the invariant.

`CommitImplementsPublication` is the refinement of `ZonePublication` that the commit run
checks: what is served for the zones is an old plan or the whole new one. Of the five
writes two move the view of the zones: the expansion (step 1) moves those that were a
file and stay one, whose body changes in place under a stanza that does not, and the
switch (step 3) moves all others; each of the two takes a zone from its old output to
the wanted one, and every other write is a stutter. That needs `CommitInv` and one fact more, `PlanFilesUsed`: every file
of a plan is named by one of its stanzas, so that what is served after the switch is
exactly what was wanted.

The last section of the module is about one process among others: `ProcessInv` is what
a process keeps true whatever others write, as long as they leave the ConfigMap `Whole`
and make its copy outdated (`OtherKeepsInv`). It says less than `CommitInv`, because the
Deployment is not fenced. `FailoverProofs` instantiates it for both operators: each
keeps its own `ProcessInv` by its own steps and does to the other's what that one
tolerates. From the two follow `ConfigMapAlwaysWhole` and `ServedAlwaysMovesWhole`, for
any point at which the lease changes hands. `VolumePopulates` is not provable there, and
the run `failover_mount` shows why.

`CoreDNSRolloutProofs` shows that the rollout implements the commit (`RolloutImplementsCommit`:
`RSpec => Spec`), so that all theorems above hold of the composed system, and adds the
pods: `DirectoriesLoad` says that a directory mounted whole holds every file its Corefile
names, however outdated it is. A pod with explicit items that is up to date sees the
current objects, of which `CorefileLoads` speaks. Together they give
`PodsAlwaysLoadTheirCorefile`.

`ZoneSerialProofs` proves, for any relation of record sets to texts, that serials stay
in their width, and that as long as no serial was `lost` the serial grows with the text.
`SerialInv` says that status and file agree between reconciles, that a draft repeats or
outnumbers the status, and that the file is one of the texts of the records it was
rendered from (`origin`). From the last part follows `SerialAlwaysStaysPut`, which has the
proviso that these records leave no tie to the sort (`HasOneText`); without it the
statement is false, as `serial_unstable` shows.

`ZoneLifecycleProofs` proves `NoOrphans` and `ReadyOnlyIfPublished` for every set of
zones, without hypotheses. `LifecycleInv` is needed because the finalizer is
checked on the listed object and not on the current one: `CacheInv` says that the
cache never shows a claimed live zone that was released since (a release needs a
current object, and a current object was listed as terminating), `ListInv` carries
that over to the list until the commit uses it, and `OutputInv` says what is
published at each phase and that all of it carries the finalizer.

`ZoneRecordsProofs` holds for every set of namespaces, records, names and values that
the API server admits (`SpecsAssumption`), and finitely many delegated records.
`OneRecordCostsOneName` and `RenderNeverRefuses` need no invariant but the types, since they
are about what the current objects compile to; the substance is in two lemmas.
`ConflictIsLocal`: the verdict on a name depends on the records at that name only, so that
a record which is added or taken away is felt at its own name and nowhere else.
`ConflictIsMonotone`: fewer records never make a conflict, so that neither withholding
names nor deduplication can.

What is answered is proved from a description of renderings that mentions no order
(`RenderingAnswers`): up to case, a rendering answers at a name with the RRset of the
records that survive deduplication, each with its TTL in a zone file, with the lowest in a
template stanza. It rests on these lemmas: an order of a finite set leaves none of its
members out (`OrderCovers`), `$ORIGIN` puts back what `relativeName` cuts off
(`RelativeNameCompletes`, `NameInZone`), of each value one spelling is kept
(`UniqueValues`), the map in `DeduplicateAndSort` ends with the same records however it is
filled (`OneSurvivor`), and no record takes a delegated one's place in it
(`DelegatedSurvives`; it does not hold of inline records, see the next section).
`CNAMEsAlwaysStandAlone` follows without an invariant about the reconcile.
`StatusAlwaysTellsTheTruth` and `RepublishAlwaysKeepsAnswers` need `RecordsInv`: until
somebody edits, what is served is what the current objects render to or what is held
for them (`ServedInv`), what is about to be reported is the verdict on them
(`ResultInv`), what has been reported or skipped so far is what was to be reported
(`ProgressInv`), and after a completed reconcile the statuses are the verdict
(`SyncInv`). The last two are about reconciles that listed the statuses as they were
stored: a patch is skipped only where the copy, and therefore the object, has the
verdict already. A reconcile that compared with an outdated copy may end with a wrong
status stored, and neither theorem speaks of it; that the watch brings another reconcile
is `StatusesSettle`, which TLC checks.

`ZoneConditionsProofs` proves all safety properties of `ZoneConditions` for every set of
results and every bound. `ConditionsInv` adds to the types that the copies a reconcile
works on are statuses of one verdict each, and that generations move forward from the
status to the copy a reconcile has read, its cache and the object (`CopiesInv`): a patch
that leaves the observed generation out cannot put the verdict on one generation beside
the number of another. That no condition of an older verdict stays is due to
`NothingSurvives`: the operator owns every condition type it writes and replaces them all.

Checked by TLC only: liveness under fairness (`FailedCommitRecovers`,
`RecordsReachCoreDNS`, `OperatorComesToRest`, `EveryZoneSettles`, `TerminatingZonesGo`,
`StatusesSettle`, `StatusCatchesUp`, `PodsCatchUp`), which the prover's backends do not reach. Every safety
invariant and action property of a passing run has a theorem.

## What the violations say

Each is a statement of the repository's documentation that the code does not keep;
`PROJECT.json` quotes the lines.

`serial_lost` needs a reconcile that starts before the watch has delivered the last
status, or one that ends between the commit and the status; the records are then stuck
until their next change.

`serial_unstable` needs two records that tie in `DeduplicateAndSort`. The answers are the
same in either order (`RepublishKeepsAnswers`), but the file, its hash and the serial are
not, against the README's "byte-identical output"; the status write that follows queues
the next render, which may swap the lines again, so that such a zone can keep the
operator busy: it is exempt in `OperatorComesToRest`.

`rollout_lost_restart` leaves CoreDNS on an old Corefile until something else restarts it,
only without the reload plugin. `failover_mount` needs a lease to expire within a commit,
and is permanent; mounting the ConfigMap whole avoids it.

Modelling showed six more disagreements with the documentation that have no run here. A
small change of an instance shows the first three, dropping an exception the fourth:

* A zone file somebody made under the name the operator generates is overwritten,
  claimed, and deleted with the zone (controller line 297; README line 295: "never
  adopted"). `Commit.cfg` with `AdminKeys = {k1, f1}` violates `HandmadeUntouched`.
* Without the reload plugin, a zone that moves from file to template changes the Corefile
  and not the stamp, which is a digest of contents: unless the volume items change after
  step 3, no pod is replaced, although nothing failed (deployment.go line 103; README line
  302). `RolloutLostRestart.cfg` with `Kinds = {"file", "template"}` and `MayAbort = FALSE`
  violates `PodsCatchUp`.
* For the same reason, a zone published, retired and published again within one rollout
  brings back the first stamp, and a pod that started in between counts as current
  (controller line 838). The same file with `Kinds = {"gone", "template"}` and
  `MayAbort = FALSE` violates `PodsCatchUp`.
* A CNAME at "@", which the API accepts and no validation refuses, is published beside the
  SOA and NS lines that `RenderZone` puts there (render.go line 114; README line 202: "the
  only data at its name"). `CNAMEsStandAlone` fails without its exception `AtApex`.
* Of two inline records with one name, type and TTL only the later is published (record.go
  line 189; README line 200: "merged into one RRset"). `StatusTellsTheTruth` speaks of
  delegated records only.
* A status patch carries the fields in which the wanted status differs from the listed
  copy. If that copy has the new spec and not yet the last status, a field that agrees with
  it keeps what is stored: `zoneFileKey` can stay beside `TemplateRendered`, though it is
  documented as "Only set for the NXDOMAIN policy" (privatednszone_types.go line 138), and
  `records` can be another result's; that of `serial` and `lastAppliedHash` is part of what
  `lost` stands for in `ZoneSerial`. The conditions cannot be mixed, since their list is
  replaced as a whole and names the generation (`ConditionsOfOneResult`), and the mixture
  lasts only until the watch delivers the missing patch (`StatusCatchesUp`).

Some weaker promises are built into the properties. `SerialStaysPut` excepts records
that leave a tie to the sort, and `CNAMEsStandAlone` the zone's own lines: the
documentation has no such exceptions, as said above.
`StatusTellsTheTruth` compares values without regard to case, as the code does for every
type, TXT included, and speaks of reconciles that listed current statuses.
`PodsLoadTheirCorefile` excepts pods of a superseded template, since step 3 does not
wait for the rollout of step 2. `ReadyOnlyIfPublished` excepts a ConfigMap that was replaced
after the reconcile read it. `CNAMEsStandAlone` includes held output, which is
served while its records are reported `ZoneNotReady`. That a conflict over one zone's
finalizer can hold up all the others is not exercised: the lifecycle run has one zone
object.

One comment of the code is out of date: the one before `recordsForZone` (lines 583-584 of
the controller) says that an inconsistency between admitted records blocks the zone. It
does so only if an inline record takes part (lines 663-670), as the README says; the
model follows the code.

## Plan

1. Objects, commit, publication and their proofs: done.
2. Serial and lifecycle and their proofs: done.
3. Records, with proofs of what is kept, answered and reported: done.
4. Conditions, rollout, failover and their proofs: done.
5. Left: liveness is model-checked only. The pods' other safety facts (a process runs a
   Corefile that was once stored), several zones in the lifecycle run (one zone's
   conflicts starving another) and the statuses of several zones written by one
   reconcile are worth stating and proving next.

## Not modelled

The text of zone files and stanzas and the syntax of values, log output, flags and
manager wiring, API registration and list types, generated code, Helm charts, manifests and end-to-end
scripts. Two zone objects with one suffix, which the repository's README excludes. An administrator who edits
the operator's own keys or annotation is outside the model: the operator does not
watch its ConfigMap and promises nothing about such edits.
