----------------------------- MODULE ZoneSerial -----------------------------
(***************************************************************************)
(* The SOA serial of one NXDOMAIN zone.  CoreDNS reloads a zone file only  *)
(* when the serial grows, and the only place the operator remembers the    *)
(* last serial is the zone's status, which it writes after the file is     *)
(* live and reads from an informer cache.                                  *)
(*                                                                         *)
(* RenderZone and nextSerial are modelled in full; the commit of the file  *)
(* (module CommitCoreDNS) is one step here, since the new content is live  *)
(* from the first of its writes.                                           *)
(*                                                                         *)
(* What a record set renders to is not always one text: the order of the   *)
(* lines comes from ranging over a map and a sort that leaves ties, so a   *)
(* set may have several texts and each render picks one of them.           *)
(***************************************************************************)
EXTENDS Integers

CONSTANTS
  Records,       \* record sets a zone may have
  NoRecords,
  Bodies,        \* zone file texts, the serial held out (what is hashed)
  NoBody,
  Texts,         \* the texts that each record set may render to
  Days,          \* readings of the clock
  SlotsPerDay,   \* the nn of YYYYMMDDnn: 100 serials separate two days
  MaxSerial      \* math.MaxUint32

\* The "01" serial of a day: now.Format("20060102") + "01".
Candidate(day) == day * SlotsPerDay + 1

ASSUME SerialAssumption ==
  /\ SlotsPerDay \in Nat \ {0}
  /\ MaxSerial \in Nat
  /\ Days \subseteq Nat
  /\ \A d \in Days : Candidate(d) <= MaxSerial
  /\ NoBody \notin Bodies /\ NoRecords \notin Records
  /\ Texts \in [Records -> (SUBSET Bodies) \ {{}}]

VARIABLES
  records, \* the zone's records
  valid,   \* the zone's record set is valid
  day,     \* the clock
  status,  \* status.serial and status.lastAppliedHash in the API server
  cache,   \* the same in the operator's informer cache
  due,     \* a reconcile of the zone is queued
  pc, listed, read, draft,
           \* the reconcile: its step, the records and the status it read, its
           \* result
  file,    \* the zone file in the ConfigMap
  origin,  \* the records that file was rendered from (history)
  served,  \* the zone CoreDNS has loaded
  lost     \* some reconcile ended with a file that the status does not know,
           \* or rendered from an outdated status (history)

env == <<records, valid, day>>
vars == <<records, valid, day, status, cache, due, pc, listed, read, draft, file,
          origin, served, lost>>

\* Serial 0 stands for the empty string: no render produces it.
NoSerial == 0
Serials == 0..MaxSerial
Renders == [serial : Serials, hash : Bodies \cup {NoBody}]
NoRender == [serial |-> NoSerial, hash |-> NoBody]
Drafts == [serial : Serials, hash : Bodies \cup {NoBody}, held : BOOLEAN]
NoDraft == [serial |-> NoSerial, hash |-> NoBody, held |-> TRUE]

TypeOK ==
  /\ records \in Records
  /\ listed \in Records \cup {NoRecords} /\ origin \in Records \cup {NoRecords}
  /\ valid \in BOOLEAN
  /\ day \in Days
  /\ status \in Renders /\ cache \in Renders /\ read \in Renders
  /\ file \in Renders /\ served \in Renders
  /\ draft \in Drafts
  /\ due \in BOOLEAN
  /\ pc \in {"idle", "retry", "commit", "status"}
  /\ lost \in BOOLEAN

Running == pc \in {"commit", "status"}

\* A zone has just been created.
Init ==
  /\ records \in Records
  /\ listed = NoRecords /\ origin = NoRecords
  /\ valid \in BOOLEAN
  /\ day \in Days
  /\ status = NoRender /\ cache = NoRender /\ read = NoRender
  /\ file = NoRender /\ served = NoRender
  /\ draft = NoDraft
  /\ due = TRUE
  /\ pc = "idle"
  /\ lost = FALSE

-----------------------------------------------------------------------------
(* internal/dns/record.go and render.go *)

\* DeduplicateAndSort gathers the records in a map, ranges over it and sorts by
\* FQDN, type and source name only: two records that agree in these (of two
\* namespaces, or inline with two TTLs) come out in either order.
DeduplicateAndSort(set) == Texts[set]

\* Mutant: increments without regard to the 32 bits.
nextSerial_Unbounded(previous, now) ==
  IF previous = NoSerial \/ Candidate(now) > previous THEN Candidate(now)
  ELSE previous + 1

\* Mutant: the serial of the day, whatever was published before.
nextSerial_DateOnly(previous, now) == Candidate(now)

nextSerial(previous, now) ==
  IF previous = NoSerial \/ Candidate(now) > previous THEN Candidate(now)
  ELSE IF previous >= MaxSerial THEN MaxSerial
  ELSE previous + 1

\* Mutant: a new serial for every render, changed or not.
RenderZone_AlwaysNew(set, now, previous) ==
  {[serial |-> nextSerial(previous.serial, now), hash |-> text, held |-> FALSE] :
     text \in DeduplicateAndSort(set)}

\* The renders a record set may get: the serial is reused when the text is the
\* one published before.
RenderZone(set, now, previous) ==
  {[serial |-> IF previous.serial = NoSerial \/ text # previous.hash
               THEN nextSerial(previous.serial, now) ELSE previous.serial,
    hash   |-> text,
    held   |-> FALSE] : text \in DeduplicateAndSort(set)}

\* Mutant: a failed render forgets what was published.
failedResult_Forgets(previous) == NoDraft

\* A failed render keeps the published serial and hash.
failedResult(previous) ==
  [serial |-> previous.serial, hash |-> previous.hash, held |-> TRUE]

-----------------------------------------------------------------------------
(* The reconcile *)

Render ==
  /\ pc \in {"idle", "retry"} /\ due
  /\ due' = FALSE
  /\ listed' = records
  /\ read' = cache
  /\ draft' \in IF valid THEN RenderZone(records, day, cache)
                ELSE {failedResult(cache)}
  /\ pc' = "commit"
  /\ lost' = (lost \/ cache # status)
  /\ UNCHANGED <<env, status, cache, file, origin, served>>

Commit ==
  /\ pc = "commit"
  /\ file' = IF draft.held THEN file
             ELSE [serial |-> draft.serial, hash |-> draft.hash]
  /\ origin' = IF draft.held THEN origin ELSE listed
  /\ pc' = "status"
  /\ UNCHANGED <<env, status, cache, due, listed, read, draft, served, lost>>

EndReconcile == listed' = NoRecords /\ read' = NoRender /\ draft' = NoDraft

\* The merge patch carries the fields that differ from what was read.
Patched ==
  [serial |-> IF draft.serial # read.serial THEN draft.serial ELSE status.serial,
   hash   |-> IF draft.hash # read.hash THEN draft.hash ELSE status.hash]

\* Mutant: patches the status on every pass, changed or not.
WriteStatus_Always ==
  /\ pc = "status"
  /\ status' = Patched
  /\ due' = TRUE
  /\ pc' = "idle"
  /\ EndReconcile
  /\ UNCHANGED <<env, cache, file, origin, served, lost>>

WriteStatus ==
  /\ pc = "status"
  /\ status' = Patched
  /\ pc' = "idle"
  /\ EndReconcile
  /\ UNCHANGED <<env, cache, due, file, origin, served, lost>>

\* The watch delivers the zone's current status and queues a reconcile.
Sync ==
  /\ cache # status
  /\ cache' = status
  /\ due' = TRUE
  /\ UNCHANGED <<env, status, pc, listed, read, draft, file, origin, served, lost>>

\* A reconcile that errs or dies, before or after the file was written, is
\* queued again.
Interrupt ==
  /\ Running
  /\ lost' = (lost \/ file # status)
  /\ due' = TRUE
  /\ pc' = "retry"
  /\ EndReconcile
  /\ UNCHANGED <<env, status, cache, file, origin, served>>

-----------------------------------------------------------------------------
(* The environment *)

\* CoreDNS's file plugin.
Reload ==
  /\ file.serial > served.serial
  /\ served' = file
  /\ UNCHANGED <<env, status, cache, due, pc, listed, read, draft, file, origin,
                 lost>>

EditRecords ==
  /\ \E r \in Records, v \in BOOLEAN :
       <<r, v>> # <<records, valid>> /\ records' = r /\ valid' = v
  /\ due' = TRUE
  /\ UNCHANGED <<day, status, cache, pc, listed, read, draft, file, origin, served,
                 lost>>

\* Time passes, or the clock is set back.
Tick ==
  /\ \E d \in Days \ {day} : day' = d
  /\ UNCHANGED <<records, valid, status, cache, due, pc, listed, read, draft, file,
                 origin, served, lost>>

Environment == EditRecords \/ Tick
Operator == Render \/ Commit \/ WriteStatus

Next == Operator \/ Sync \/ Interrupt \/ Reload \/ Environment

Spec == Init /\ [][Next]_vars

\* The worker, the watch and CoreDNS's polling of the file keep going; nobody
\* has to edit, and nothing has to fail.
FairSpec == Spec /\ WF_vars(Operator) /\ WF_vars(Sync) /\ WF_vars(Reload)

-----------------------------------------------------------------------------
(* Properties *)

\* A record set that leaves no tie to the sort renders to one text.
HasOneText(set) == \A b, c \in DeduplicateAndSort(set) : b = c

\* Unless a serial was lost, the serial in the file grows whenever the text of its
\* records changes, except at the largest serial there is: also if the clock goes
\* back, a day's serials run out, or the record set is invalid in between
\* (RenderZone, nextSerial, failedResult).
SerialAdvances ==
  [][~lost /\ file'.hash # file.hash =>
       file'.serial > file.serial \/ file.serial = MaxSerial]_vars

\* Unless a serial was lost, a file rendered again from the records it has, in
\* between rendered validly or not, keeps text and serial, provided those records
\* leave no tie to the sort (RenderZone's reuse of the serial, failedResult).
SerialStaysPut ==
  [][~lost /\ origin' = origin /\ origin \in Records /\ HasOneText(origin) =>
       file' = file]_vars

\* The README's promise without the proviso, for files of the same records and
\* no serial lost: the serial "deliberately stays put when nothing changed".
UnchangedRecordsKeepSerial ==
  [][~lost /\ origin' = origin /\ origin \in Records =>
       file'.serial = file.serial]_vars

\* The inductive invariant: as long as no serial was lost, status and file agree
\* between reconciles, and a draft either repeats or outnumbers the status.
SerialInv ==
  ~lost =>
    /\ status.serial = NoSerial => status.hash = NoBody
    /\ Running => read = status
    /\ Running /\ draft.held =>
         draft.serial = status.serial /\ draft.hash = status.hash
    /\ Running /\ ~draft.held =>
         /\ draft.serial # NoSerial
         /\ IF draft.hash = status.hash THEN draft.serial = status.serial
            ELSE draft.serial > status.serial \/ status.serial = MaxSerial
    /\ file.hash # NoBody => origin \in Records
    /\ origin \in Records => file.hash \in DeduplicateAndSort(origin)
    /\ Running => listed \in Records
    /\ Running /\ ~draft.held => draft.hash \in DeduplicateAndSort(listed)
    /\ file = IF pc = "status"
              THEN [serial |-> draft.serial, hash |-> draft.hash] ELSE status

\* The README's promise, without reservation: "the SOA serial advances whenever
\* the rendered records change".
ChangedRecordsRaiseSerial ==
  [][file'.hash # file.hash =>
       file'.serial > file.serial \/ file.serial = MaxSerial]_vars

\* Once edits and failures cease and the record set is valid, CoreDNS ends up
\* serving the current records, in one of their texts, unless a serial was lost or
\* they are used up.
RecordsReachCoreDNS ==
  <>[][~(Environment \/ Interrupt)]_vars =>
     <>[](\/ served.hash \in DeduplicateAndSort(records)
          \/ ~valid
          \/ lost
          \/ file.serial = MaxSerial)

\* Once edits and failures cease, the operator comes to rest: its own status
\* writes do not keep it busy (README: "no reconcile churn").  A valid record set
\* with several texts is exempt: each render may write the other text, and the
\* status write queues the next render.
OperatorComesToRest ==
  <>[][~(Environment \/ Interrupt)]_vars =>
     <>[]((pc = "idle" /\ ~due) \/ (valid /\ ~HasOneText(records)))
=============================================================================
