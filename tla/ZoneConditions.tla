--------------------------- MODULE ZoneConditions ---------------------------
(***************************************************************************)
(* A zone's status, but for its serial and hash (module ZoneSerial has     *)
(* those).  A reconcile lists the zone from the informer cache, finds out  *)
(* what became of it, and merges the conditions that say so into the ones  *)
(* it listed (applyConditions); the status is sent as a merge patch        *)
(* against the listed object, without its resourceVersion: a patch of the  *)
(* fields in which the two differ, none at all if they agree.  Every       *)
(* change of a zone or a record, the operator's own included, queues       *)
(* another reconcile when the watch delivers it; the CoreDNS objects are   *)
(* not watched.                                                            *)
(*                                                                         *)
(* What a reconcile finds out about the records is free (modules           *)
(* ZoneRecords and CommitCoreDNS say what it depends on).  Messages are    *)
(* left out.                                                               *)
(***************************************************************************)
EXTENDS Naturals

CONSTANTS
  Worlds,     \* what may come of a zone and its records
  Targets,    \* what CoreDNS may be
  Policy,     \* the effective policy that each generation of the spec asks for
  MaxGen,     \* bound: generations of the spec
  MaxTime     \* bound: readings of the clock

\* The zone renders, with or without names excluded; or it fails for a reason, and
\* holds nothing, a stanza or a zone file.
AllWorlds ==
  [ok : {TRUE}, excluded : BOOLEAN, records : Nat]
  \cup [ok : {FALSE}, held : {"nothing", "stanza", "file"},
        reason : {"InvalidRecordSet", "ZoneRenderFailed"}]
  \cup [ok : {FALSE}, held : {"nothing"}, reason : {"InvalidZone"}]

\* With the reload plugin, without it, or not to be read.
AllTargets == {"reload", "restart", "unavailable"}

ASSUME ConditionsAssumption ==
  /\ Worlds \subseteq AllWorlds /\ Targets \subseteq AllTargets
  /\ MaxGen \in Nat \ {0} /\ MaxTime \in Nat
  /\ Policy \in [1..MaxGen -> {"Forward", "NXDOMAIN"}]

VARIABLES
  gen,     \* the zone's generation in the API server
  status,  \* and its status
  cache,   \* the zone in the informer cache
  due,     \* a reconcile is queued
  world,   \* what a reconcile finds in the caches now
  target,  \* and in CoreDNS
  pc,      \* "idle" or "write", with the statuses to be written
  read,    \* the zone as listed
  result,  \* what this reconcile found out
  clock,
  since,   \* when each condition last changed its status (history)
  overrun  \* a status was patched against a copy that was out of date (history)

vars == <<gen, status, cache, due, world, target, pc, read, result, clock, since,
          overrun>>

zoneConditionTypes ==
  {"TemplateRendered", "ZoneFileRendered", "CorefilePatched", "VolumeMounted",
   "ReloadTriggered", "LastKnownGoodApplied", "RecordsExcluded", "Ready"}

ZoneFileKey == "zonefile"
NoStatus == [observed |-> 0, conds |-> {}, records |-> 0, zoneFileKey |-> ""]
Created == [gen |-> 1, status |-> NoStatus]
Times == 0..MaxTime

-----------------------------------------------------------------------------
(* What is told *)

\* zoneResult, for a listed generation.
Found(w, t, g) ==
  CASE t = "unavailable" ->
         [rendered |-> FALSE, held |-> "nothing", reason |-> "CoreDNSUnavailable"]
    [] t # "unavailable" /\ ~w.ok ->
         [rendered |-> FALSE, held |-> w.held, reason |-> w.reason]
    [] t # "unavailable" /\ w.ok ->
         [rendered |-> TRUE, policy |-> Policy[g], excluded |-> w.excluded,
          records |-> w.records, reloadable |-> t = "reload"]

NoResult == [rendered |-> FALSE, held |-> "nothing", reason |-> "none"]
IsUnavailable(r) == ~r.rendered /\ r.reason = "CoreDNSUnavailable"

condition(type, cstatus, reason) ==
  [type |-> type, status |-> cstatus, reason |-> reason]

\* The desired conditions of a result.
Told(r) ==
  IF r.rendered
  THEN {condition(IF r.policy = "Forward" THEN "TemplateRendered"
                                          ELSE "ZoneFileRendered",
                  "True", "Rendered"),
        condition("CorefilePatched", "True", "Patched"),
        condition("VolumeMounted", "True", "Mounted"),
        condition("ReloadTriggered", "True",
                  IF r.reloadable THEN "ReloadPlugin" ELSE "RolloutRestart"),
        condition("Ready", "True", "Ready")}
       \cup {condition("RecordsExcluded", "True", "ConflictingRecords") :
               e \in {TRUE} \cap {r.excluded}}
  ELSE {condition("Ready", "False", r.reason)}
       \cup {condition("LastKnownGoodApplied", "True", r.reason) :
               h \in {r.held} \ {"nothing"}}

RecordsOf(r) == IF r.rendered THEN r.records ELSE 0
KeyOf(r) ==
  IF \/ r.rendered /\ r.policy = "NXDOMAIN"
     \/ ~r.rendered /\ r.held = "file"
  THEN ZoneFileKey ELSE ""

\* A desired condition of generation g, set at a time.
Stored(d, g, time) ==
  [type |-> d.type, status |-> d.status, reason |-> d.reason, gen |-> g,
   time |-> time]

\* Mutant: every pass stamps a fresh time.
TransitionTime_Fresh(existing, d, now) == now

\* Mutant: the time is kept although the status changes.
TransitionTime_Kept(existing, d, now) ==
  IF \E c \in existing : c.type = d.type
  THEN (CHOOSE c \in existing : c.type = d.type).time
  ELSE now

\* SetStatusCondition: the time is kept while the status is.
TransitionTime(existing, d, now) ==
  IF \E c \in existing : c.type = d.type /\ c.status = d.status
  THEN (CHOOSE c \in existing : c.type = d.type /\ c.status = d.status).time
  ELSE now

\* Mutant: conditions that are no longer desired stay.
applyConditions_NoPrune(existing, desired, g, now) ==
  {Stored(d, g, TransitionTime(existing, d, now)) : d \in desired}
    \cup {c \in existing : \A d \in desired : c.type # d.type}

\* Mutant: a desired condition is added to the one of its type.
applyConditions_Appends(existing, desired, g, now) ==
  {Stored(d, g, TransitionTime(existing, d, now)) : d \in desired}
    \cup {c \in existing : \E d \in desired : c.type = d.type}

\* Merge what is desired and prune what is owned and not desired.
applyConditions(existing, desired, g, now) ==
  {Stored(d, g, TransitionTime(existing, d, now)) : d \in desired}
    \cup {c \in existing : /\ c.type \notin zoneConditionTypes
                           /\ \A d \in desired : c.type # d.type}

-----------------------------------------------------------------------------
(* The operator *)

Init ==
  /\ gen = 1
  /\ status = NoStatus
  /\ cache = Created
  /\ due = TRUE
  /\ world \in Worlds /\ target \in Targets
  /\ pc = "idle"
  /\ read = Created /\ result = NoResult
  /\ clock = 0
  /\ since = [t \in zoneConditionTypes |-> 0]
  /\ overrun = FALSE

\* List, render and commit.
List ==
  /\ pc = "idle" /\ due
  /\ due' = FALSE
  /\ read' = cache /\ result' = Found(world, target, cache.gen)
  /\ pc' = "write"
  /\ UNCHANGED <<gen, status, cache, world, target, clock, since, overrun>>

\* The merge patch that takes one status to another, applied to a third.
Patched(from, to, base) ==
  [observed    |-> IF to.observed = from.observed THEN base.observed ELSE to.observed,
   conds       |-> IF to.conds = from.conds THEN base.conds ELSE to.conds,
   records     |-> IF to.records = from.records THEN base.records ELSE to.records,
   zoneFileKey |-> IF to.zoneFileKey = from.zoneFileKey THEN base.zoneFileKey
                                                         ELSE to.zoneFileKey]

\* The status a reconcile wants.
Desired(zone, r, now) ==
  [observed    |-> zone.gen,
   conds       |-> applyConditions(zone.status.conds, Told(r), zone.gen, now),
   records     |-> RecordsOf(r),
   zoneFileKey |-> KeyOf(r)]

StatusOf(conds, t) == {c.status : c \in {d \in conds : d.type = t}}

Return == pc' = "idle" /\ read' = Created /\ result' = NoResult

\* Mutant: a reconcile that could report why CoreDNS is unavailable is done.
Requeued_Never(r) == FALSE

\* reportCoreDNSUnavailable always ends with an error.
Requeued(r) == IsUnavailable(r)

\* writeZoneStatuses for this zone.
WriteStatus ==
  /\ pc = "write"
  /\ status' = Patched(read.status, Desired(read, result, clock), status)
  /\ since' = [t \in zoneConditionTypes |->
                 IF StatusOf(status'.conds, t) = StatusOf(status.conds, t)
                 THEN since[t] ELSE clock]
  /\ overrun' = (overrun \/ read.status # status)
  /\ due' = (due \/ Requeued(result))
  /\ Return
  /\ UNCHANGED <<gen, cache, world, target, clock>>

\* The reconcile fails or the process dies before the status is written.
Interrupt ==
  /\ pc = "write"
  /\ due' = TRUE
  /\ Return
  /\ UNCHANGED <<gen, status, cache, world, target, clock, since, overrun>>

\* Mutant: only a new generation queues a reconcile.
Delivered_NewGeneration(old, new) == old.gen # new.gen

\* The watch queues a reconcile for every change of the object.
Delivered(old, new) == TRUE

\* A new generation may change what a reconcile finds.
Sync ==
  /\ cache # [gen |-> gen, status |-> status]
  /\ cache' = [gen |-> gen, status |-> status]
  /\ due' = (due \/ Delivered(cache, cache'))
  /\ world' \in IF cache.gen = gen THEN {world} ELSE Worlds
  /\ UNCHANGED <<gen, status, target, pc, read, result, clock, since, overrun>>

-----------------------------------------------------------------------------
(* The environment *)

\* The zone's spec is edited.
EditZone ==
  /\ gen < MaxGen /\ gen' = gen + 1
  /\ UNCHANGED <<status, cache, due, world, target, pc, read, result, clock, since,
                 overrun>>

\* The cache gets an edit of a record.
EditRecords ==
  /\ world' \in Worlds \ {world}
  /\ due' = TRUE
  /\ UNCHANGED <<gen, status, cache, target, pc, read, result, clock, since, overrun>>

\* The ConfigMap appears, disappears or gets another Corefile.
Retarget ==
  /\ target' \in Targets \ {target}
  /\ UNCHANGED <<gen, status, cache, due, world, pc, read, result, clock, since,
                 overrun>>

\* An event of another zone, or the informers' periodic resync.
OtherEvent ==
  /\ ~due /\ due' = TRUE
  /\ UNCHANGED <<gen, status, cache, world, target, pc, read, result, clock, since,
                 overrun>>

Tick ==
  /\ clock < MaxTime
  /\ clock' = clock + 1
  /\ UNCHANGED <<gen, status, cache, due, world, target, pc, read, result, since,
                 overrun>>

Environment == EditZone \/ EditRecords \/ Retarget \/ OtherEvent \/ Tick

Next == List \/ WriteStatus \/ Interrupt \/ Sync \/ Environment

Spec == Init /\ [][Next]_vars

\* The worker and the watch keep going; nobody has to edit or to fail.
FairSpec == Spec /\ WF_vars(List \/ WriteStatus) /\ WF_vars(Sync)

-----------------------------------------------------------------------------
(* Properties *)

Results == {Found(w, t, g) : w \in Worlds, t \in Targets, g \in 1..MaxGen}

Conditions == [type : zoneConditionTypes, status : {"True", "False"},
               reason : {d.reason : d \in UNION {Told(r) : r \in Results}},
               gen : 1..MaxGen, time : Times]

StatusOK(s) ==
  /\ s \in [observed : 0..MaxGen, conds : SUBSET Conditions,
            records : {0} \cup {RecordsOf(r) : r \in Results},
            zoneFileKey : {"", ZoneFileKey}]
  /\ \A c, d \in s.conds : c.type = d.type => c = d

\* Some reconcile of a generation finds this out.
IsFound(r, g) == \E w \in Worlds, t \in Targets : r = Found(w, t, g)

\* The type invariant; conditions are a map keyed by their type
\* (listType=map in the API type), which a patch must not break.
TypeOK ==
  /\ gen \in 1..MaxGen /\ clock \in Times
  /\ StatusOK(status) /\ StatusOK(cache.status) /\ StatusOK(read.status)
  /\ cache.gen \in 1..MaxGen /\ read.gen \in 1..MaxGen
  /\ due \in BOOLEAN /\ pc \in {"idle", "write"}
  /\ world \in Worlds /\ target \in Targets
  /\ pc = "write" => IsFound(result, read.gen)
  /\ since \in [zoneConditionTypes -> Times] /\ overrun \in BOOLEAN

\* What a set of stored conditions says.
Says(conds) == {condition(c.type, c.status, c.reason) : c \in conds}

\* A status that has not been written, or whose conditions are all those of one
\* result on the generation it names.
OneVerdict(s) ==
  \/ s = NoStatus
  \/ /\ \E w \in Worlds, t \in Targets :
          Says(s.conds) = Told(Found(w, t, s.observed))
     /\ \A c \in s.conds : c.gen = s.observed

\* The conditions are always all those of one reconcile on the generation that
\* observedGeneration names, never a mixture of two: no LastKnownGoodApplied
\* beside Ready=True, no ZoneFileRendered beside TemplateRendered or for a
\* generation of the Forward policy, no RecordsExcluded on a zone that fails, though
\* patches are made against copies that may be out of date (comments of
\* zoneConditionTypes and of status.observedGeneration).  The other fields, which
\* are patched one by one, can be mixed with another result's until the watch has
\* delivered what the copy lacked (StatusCatchesUp).
ConditionsOfOneResult == OneVerdict(status)

\* As long as every patch was made against the current status, a condition's time
\* is that of the write that last changed its status, across any number of
\* failures and recoveries in between (SetStatusCondition in applyConditions).
TransitionTimesHonest ==
  ~overrun => \A c \in status.conds : c.time = since[c.type]

\* The status reports a result on a generation, in every field.
Reports(s, r, g) ==
  /\ s.observed = g
  /\ Says(s.conds) = Told(r)
  /\ s.records = RecordsOf(r)
  /\ s.zoneFileKey = KeyOf(r)

\* A reconcile that finds what the status already says writes nothing, however
\* much time has passed (README "Status is written only when it actually
\* changes"; comment of applyConditions).
SteadyStatusKept ==
  [][WriteStatus /\ read.status = status /\ Reports(status, result, read.gen)
       => status' = status]_vars

\* Once edits, failures and other zones' events cease, every field of the status
\* reports what is the case, although a reconcile may compare with an outdated
\* copy and wrongly leave fields out of its patch: the watch's delivery of that very
\* copy's successor brings another reconcile.  CoreDNS is reported as the last
\* reconcile found it, for nothing watches it; but it is reported as unavailable
\* only if it is, since that result is tried again until it changes.  Otherwise the
\* operator comes to rest.
StatusCatchesUp ==
  <>[][~(Environment \/ Interrupt)]_vars =>
    <>[](\E t \in Targets :
           /\ Reports(status, Found(world, t, gen), gen)
           /\ IF t = "unavailable" THEN target = t ELSE pc = "idle" /\ ~due)

=============================================================================
