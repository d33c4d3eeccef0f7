---------------------------- MODULE ZoneRecords -----------------------------
(***************************************************************************)
(* One zone, the delegated records of several namespaces, and the          *)
(* reconciler that compiles them (module RecordSet), publishes the result  *)
(* and then reports each record's fate on its own object.  Authors edit    *)
(* the zone and the records at any time; a reconcile may end after any of  *)
(* its writes.                                                             *)
(*                                                                         *)
(* A status is patched only where the verdict differs from the status of   *)
(* the object as listed, and the lists come from informer caches, which    *)
(* may not yet hold the operator's own last patch.  An edit is taken to    *)
(* happen when the cache gets it: it brings along the status that the      *)
(* object had then.                                                        *)
(*                                                                         *)
(* The writes of commitCoreDNS are one step here (module CommitCoreDNS has *)
(* them one by one).                                                       *)
(***************************************************************************)
EXTENDS RecordSet

CONSTANTS
  ZoneSpecs,    \* what the zone's author may write
  RecordSpecs,  \* what a record's author may write
  NoZone,       \* the zone object is absent or terminating
  MaxEdits      \* bound: edits after the operator has started

ASSUME SpecsAssumption ==
  /\ RecordSpecs \subseteq PrivateDNSRecordSpec
  /\ ZoneSpecs \subseteq PrivateDNSZoneSpec
  /\ NoZone \notin PrivateDNSZoneSpec

ASSUME BoundAssumption == MaxEdits \in Nat

VARIABLES
  zone,     \* the zone's spec
  rec,      \* the delegated records' specs
  leaving,  \* records that are terminating and kept by a finalizer of others
  served,   \* the output CoreDNS has for the zone
  zstat,    \* the zone's status: Ready and the names of RecordsExcluded
  status,   \* the reason in each record's Accepted condition
  zcache, cache, \* zstat and status in the informer caches
  due,      \* a reconcile is queued
  pc,       \* the reconcile's phase
  result,   \* zoneResults: what it will report on the zone, if there is one
  outcomes, \* recordOutcomes: what it will report on the records
  todo,     \* records whose status is still to be patched
  edited,   \* somebody wrote a zone or a record since what is served was listed
  synced,   \* the running or last reconcile published, has not failed, listed
            \* statuses as they were stored, and nothing was edited since
  edits     \* how many edits there have been

inputs == <<zone, rec, leaving>>
statuses == <<zstat, status>>
caches == <<zcache, cache>>
vars == <<zone, rec, leaving, served, zstat, status, zcache, cache, due, pc, result,
          outcomes, todo, edited, synced, edits>>

Reasons == {"Accepted", "ZoneNotFound", "NamespaceNotAllowed", "InvalidRecord",
            "ConflictingRecords", "ZoneNotReady", "unknown"}
ZoneReasons == {"Ready", "InvalidZone", "InvalidRecordSet", "ZoneRenderFailed",
                "CoreDNSUnavailable", "unknown"}
NoResult == [ready |-> "unknown", excluded |-> {}]
NoOutcomes == [id \in Ids |-> "unknown"]

TypeOK ==
  /\ zone \in ZoneSpecs \cup {NoZone}
  /\ rec \in [Ids -> RecordSpecs \cup {NoRecord}]
  /\ leaving \subseteq {id \in Ids : rec[id] # NoRecord}
  /\ served.policy \in {"none", "Forward", "NXDOMAIN"}
  /\ \A z \in {zstat, zcache, result} : z.ready \in ZoneReasons
  /\ \A s \in {status, cache, outcomes} : s \in [Ids -> Reasons]
  /\ due \in BOOLEAN
  /\ pc \in {"idle", "zone", "records"}
  /\ todo \subseteq Ids
  /\ edited \in BOOLEAN /\ synced \in BOOLEAN /\ edits \in 0..MaxEdits

\* The operator starts on whatever has been written before.
Init ==
  /\ zone \in ZoneSpecs \cup {NoZone}
  /\ rec \in [Ids -> RecordSpecs \cup {NoRecord}]
  /\ leaving = {}
  /\ served = NoOutput
  /\ zstat = NoResult /\ zcache = NoResult /\ result = NoResult
  /\ status = NoOutcomes /\ cache = NoOutcomes /\ outcomes = NoOutcomes
  /\ due = TRUE
  /\ pc = "idle"
  /\ todo = {}
  /\ edited = TRUE /\ synced = FALSE /\ edits = 0

-----------------------------------------------------------------------------
(* The reconcile *)

\* What a reconcile finds out about the zone.
ZoneVerdict ==
  CASE zone = NoZone           -> "unknown"
    [] ~ValidZone(zone.suffix) -> "InvalidZone"
    [] Blocking(zone, rec)     -> "InvalidRecordSet"
    [] Refused(zone, rec)      -> "ZoneRenderFailed"
    [] OTHER                   -> "Ready"

\* Mutant: records are not seeded, so those without a zone have no reason.
Outcome_NotSeeded(id, verdict) ==
  CASE rec[id] = NoRecord             -> "unknown"
    [] zone = NoZone \/ ~rec[id].ours -> ""
    [] OTHER                          -> "Accepted"

\* newRecordOutcomes, recordsForZone and markZoneRecordsNotReady: a record's own
\* reason comes before the zone's.
Outcome(id, verdict) ==
  CASE rec[id] = NoRecord                        -> "unknown"
    [] zone = NoZone \/ ~rec[id].ours            -> "ZoneNotFound"
    [] verdict \in {"InvalidZone", "CoreDNSUnavailable"} -> "ZoneNotReady"
    [] ~namespaceAllowed(zone, id.ns)            -> "NamespaceNotAllowed"
    [] ~Admissible(zone, rec, id)                -> "InvalidRecord"
    [] Conflict(Admitted(zone, rec),
                Compiled(zone, rec, id).fqdn)    -> "ConflictingRecords"
    [] verdict # "Ready"                         -> "ZoneNotReady"
    [] OTHER                                     -> "Accepted"

\* A zone whose record set is invalid keeps what its suffix had; one that is
\* gone or whose suffix is unusable has nothing.
Output(verdict) ==
  CASE verdict = "Ready" -> Renderings(zone, rec)
    [] verdict \in {"InvalidRecordSet", "ZoneRenderFailed"} ->
         IF served.zone = NormalizeZone(zone.suffix) THEN {served} ELSE {NoOutput}
    [] OTHER -> {NoOutput}

\* What the reconcile that has just listed the objects is to report, and on which
\* of them: where the verdict is the one listed, no patch is sent.  (Verdicts are
\* compared by reason; the code's comparison covers message, FQDN and
\* observedGeneration too, so that it patches at least these, and what else it
\* patches keeps its reason if the copy is current.)
Report(verdict) ==
  LET report == [ready    |-> verdict,
                 excluded |-> IF verdict = "Ready" THEN Excluded(zone, rec) ELSE {}]
      fate == [id \in Ids |-> Outcome(id, verdict)]
  IN  /\ due' = FALSE
      /\ result' = report /\ outcomes' = fate
      /\ todo' = {id \in Ids \ leaving : rec[id] # NoRecord /\ cache[id] # fate[id]}
      /\ pc' = IF zone # NoZone /\ zcache # report THEN "zone" ELSE "records"

UpToDate == zcache = zstat /\ cache = status

\* List, compile, render and commit.
Publish ==
  /\ pc = "idle" /\ due
  /\ edited' = FALSE /\ synced' = UpToDate
  /\ UNCHANGED <<inputs, statuses, caches, edits>>
  /\ served' \in Output(ZoneVerdict)
  /\ Report(ZoneVerdict)

\* Listing or committing fails, or PatchCorefile refuses: nothing is reported,
\* and the reconcile is queued again.
PublishFails ==
  /\ pc = "idle" /\ due
  /\ synced' = FALSE
  /\ UNCHANGED <<inputs, served, statuses, caches, due, pc, result, outcomes, todo,
                 edited, edits>>

\* reportCoreDNSUnavailable: the ConfigMap or its Corefile is absent or cannot
\* be read; the zone and its records are told, and nothing is published.
Unavailable ==
  /\ pc = "idle" /\ due
  /\ synced' = FALSE
  /\ UNCHANGED <<inputs, served, statuses, caches, edited, edits>>
  /\ Report("CoreDNSUnavailable")

\* writeZoneStatuses; a zone that is gone by now is no error.
ReportZone ==
  /\ pc = "zone"
  /\ zstat' = IF zone = NoZone THEN zstat ELSE result
  /\ pc' = "records"
  /\ UNCHANGED <<inputs, served, status, caches, due, result, outcomes, todo, edited,
                 synced, edits>>

\* writeRecordStatuses, one record at a time.
ReportRecord ==
  /\ pc = "records"
  /\ \E id \in todo :
       /\ status' = IF rec[id] = NoRecord THEN status
                    ELSE [status EXCEPT ![id] = outcomes[id]]
       /\ todo' = todo \ {id}
  /\ UNCHANGED <<inputs, served, zstat, caches, due, pc, result, outcomes, edited,
                 synced, edits>>

Return ==
  /\ pc' = "idle"
  /\ result' = NoResult /\ outcomes' = NoOutcomes /\ todo' = {}

\* reportCoreDNSUnavailable returns an error whatever it could report.
Finish ==
  /\ pc = "records" /\ todo = {}
  /\ due' = (due \/ result.ready = "CoreDNSUnavailable")
  /\ Return
  /\ UNCHANGED <<inputs, served, statuses, caches, edited, synced, edits>>

\* The process dies or a status write fails.
Abort ==
  /\ pc # "idle"
  /\ due' = TRUE
  /\ synced' = FALSE
  /\ Return
  /\ UNCHANGED <<inputs, served, statuses, caches, edited, edits>>

\* Mutant: a change of nothing but the status queues no reconcile.
Deliver_NewGeneration ==
  /\ \/ zcache # zstat /\ zcache' = zstat /\ cache' = cache
     \/ \E id \in Ids : /\ cache[id] # status[id]
                        /\ cache' = [cache EXCEPT ![id] = status[id]]
                        /\ zcache' = zcache
  /\ UNCHANGED <<inputs, served, statuses, due, pc, result, outcomes, todo, edited,
                 synced, edits>>

\* The watches bring the stored status of an object to the cache and queue a
\* reconcile.
Deliver ==
  /\ \/ zcache # zstat /\ zcache' = zstat /\ cache' = cache
     \/ \E id \in Ids : /\ cache[id] # status[id]
                        /\ cache' = [cache EXCEPT ![id] = status[id]]
                        /\ zcache' = zcache
  /\ due' = TRUE
  /\ UNCHANGED <<inputs, served, statuses, pc, result, outcomes, todo, edited, synced,
                 edits>>

\* An event of another zone or of its records: every reconcile is of all zones.
OtherZone ==
  /\ ~due /\ due' = TRUE
  /\ UNCHANGED <<inputs, served, statuses, caches, pc, result, outcomes, todo, edited,
                 synced, edits>>

-----------------------------------------------------------------------------
(* The authors *)

Edit ==
  /\ edits < MaxEdits /\ edits' = edits + 1
  /\ edited' = TRUE /\ synced' = FALSE
  /\ due' = TRUE
  /\ UNCHANGED <<served, pc, result, outcomes, todo>>

EditZone ==
  \E z \in (ZoneSpecs \cup {NoZone}) \ {zone} :
    /\ zone' = z
    /\ zstat' = IF NoZone \in {z, zone} THEN NoResult ELSE zstat
    /\ zcache' = zstat'
    /\ Edit
    /\ UNCHANGED <<rec, leaving, status, cache>>

EditRecord ==
  \E id \in Ids, d \in RecordSpecs :
    /\ d # rec[id]
    /\ rec' = [rec EXCEPT ![id] = d]
    /\ cache' = [cache EXCEPT ![id] = status[id]]
    /\ Edit
    /\ UNCHANGED <<zone, leaving, zstat, zcache, status>>

DeleteRecord ==
  \E id \in Ids :
    /\ rec[id] # NoRecord
    /\ \/ /\ id \notin leaving
          /\ leaving' = leaving \cup {id}
          /\ UNCHANGED <<rec, status>>
       \/ /\ leaving' = leaving \ {id}
          /\ rec' = [rec EXCEPT ![id] = NoRecord]
          /\ status' = [status EXCEPT ![id] = "unknown"]
    /\ cache' = [cache EXCEPT ![id] = status'[id]]
    /\ Edit
    /\ UNCHANGED <<zone, zstat, zcache>>

Reconcile == Publish \/ ReportZone \/ ReportRecord \/ Finish
Failure == PublishFails \/ Unavailable \/ Abort
Authors == EditZone \/ EditRecord \/ DeleteRecord

Next == Reconcile \/ Failure \/ Deliver \/ OtherZone \/ Authors

Spec == Init /\ [][Next]_vars

\* The worker and the watches keep going; nobody has to edit, nothing has to fail,
\* and other zones may be quiet.
FairSpec == Spec /\ WF_vars(Reconcile) /\ WF_vars(Deliver)

-----------------------------------------------------------------------------
(* Properties of every edit *)

HasSpec == zone # NoZone /\ ValidZone(zone.suffix)

Without(id) == [rec EXCEPT ![id] = NoRecord]

\* The records a set has at the names other than one.
Elsewhere(S, n) == {r \in S : r.fqdn # n}

\* One delegated record costs at most its own name.  A record that is denied
\* or malformed changes nothing at all; an admitted one changes nothing at any
\* other name, and makes the zone invalid only by meeting an inline record
\* (comment of recordsForZone; README "Failures are scoped as narrowly").
OneRecordCostsOneName ==
  HasSpec => \A id \in Ids : Refers(rec, id) =>
    LET n == Compiled(zone, rec, id).fqdn IN
    /\ ~Admissible(zone, rec, id) =>
         /\ Kept(zone, rec) = Kept(zone, Without(id))
         /\ Blocking(zone, rec) <=> Blocking(zone, Without(id))
    /\ Elsewhere(Kept(zone, rec), n) = Elsewhere(Kept(zone, Without(id)), n)
    /\ Blocking(zone, rec) /\ ~Blocking(zone, Without(id)) =>
         \E r \in InlineRecords(zone) : r.fqdn = n

\* What recordsForZone keeps, RenderZone accepts: deduplication and the second
\* validation never refuse a zone that was not blocked, so no tenant's record
\* can take the zone down by the back door (ZoneRenderFailed).
RenderNeverRefuses == HasSpec /\ ~Blocking(zone, rec) => ~Refused(zone, rec)

(* Properties of what is served and reported *)

\* The lines of a zone file that the operator writes of its own accord.
AtApex(n, t) == n = served.zone /\ t \in ApexTypes

\* Wherever CoreDNS answers with a CNAME it answers with one target and nothing
\* else, but for the SOA and NS lines a zone file has at the zone's own name; also
\* when an invalid zone is served from held output (ValidateRecordSet,
\* recordsForZone).
CNAMEsStandAlone ==
  \A n \in NamesIn(served) :
    LET c == Answers(served, n, "CNAME")
    IN  /\ c # {} => \A t \in (Types \cup ApexTypes) \ {"CNAME"} :
                       Answers(served, n, t) = {} \/ AtApex(n, t)
        /\ \A a, b \in c : Target[a[2]] = Target[b[2]]

\* The value is answered, in some spelling, at the record's name.
Answered(r, v) ==
  \E a \in Answers(served, r.fqdn, r.type) : Fold[a[2]] = Fold[v]

\* Some record whose status is Accepted, or that is terminating and not
\* reported on, or some inline record, declares the value.
Declared(n, t, v) ==
  \/ \E id \in Ids :
       /\ Refers(rec, id)
       /\ status[id] = "Accepted" \/ id \in leaving
       /\ LET r == Compiled(zone, rec, id)
          IN  r.fqdn = n /\ r.type = t /\ v \in ValuesOf(r)
  \/ \E r \in InlineRecords(zone) :
       r.fqdn = n /\ r.type = t /\ v \in ValuesOf(r)

\* When a reconcile has completed on the current objects, with their stored
\* statuses, and the zone is Ready, what is stored is what CoreDNS answers: every
\* value of an accepted record is answered (case aside), nothing is answered that
\* no inline or accepted record declares, and the names listed as excluded have no
\* records.
StatusTellsTheTruth ==
  synced /\ pc = "idle" /\ zone # NoZone /\ zstat.ready = "Ready" =>
    /\ \A id \in Ids \ leaving : Refers(rec, id) /\ status[id] = "Accepted" =>
         LET r == Compiled(zone, rec, id)
         IN  \A v \in ValuesOf(r) : Answered(r, v)
    /\ \A n \in NamesIn(served), t \in Types :
         \A a \in Answers(served, n, t) : Declared(n, t, a[2])
    /\ \A n \in zstat.excluded, t \in Types : Answers(served, n, t) = {}

\* A reconcile that finds nothing edited publishes the same answers, however
\* the map and the sort in DeduplicateAndSort order the records.
RepublishKeepsAnswers ==
  [][Publish /\ ~edited =>
       \A n \in NamesIn(served) \cup NamesIn(served'), t \in Types :
         {<<a[1], Fold[a[2]]>> : a \in Answers(served', n, t)}
           = {<<a[1], Fold[a[2]]>> : a \in Answers(served, n, t)}]_vars

\* Once edits and failures cease, the stored statuses are for good the verdict on
\* the current objects, whatever outdated copies were compared on the way: a
\* patch that was not sent because an old copy already had the verdict is sent
\* when the watch has delivered the status that copy lacked (writeZoneStatuses,
\* writeRecordStatuses, SetupWithManager).
StatusesSettle ==
  <>[][~(Authors \/ Failure)]_vars =>
     <>[](/\ zone # NoZone => zstat.ready = ZoneVerdict
          /\ \A id \in Ids \ leaving :
               rec[id] # NoRecord => status[id] = Outcome(id, ZoneVerdict))

=============================================================================
