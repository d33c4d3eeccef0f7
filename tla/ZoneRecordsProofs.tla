------------------------- MODULE ZoneRecordsProofs --------------------------
(***************************************************************************)
(* Proofs about ZoneRecords, for every set of namespaces, records and zone *)
(* specs: one delegated record costs at most its own name; what            *)
(* recordsForZone lets through is never refused by RenderZone; a CNAME     *)
(* stands alone in whatever is served; what a completed reconcile reports  *)
(* is what CoreDNS answers; and the order in which records are met and     *)
(* sorted shows in no answer.                                              *)
(***************************************************************************)
EXTENDS ZoneRecords, FiniteSetTheorems, SequenceTheorems,
        WellFoundedInduction, TLAPS

-----------------------------------------------------------------------------
(* Conflicts *)

\* A name's verdict depends on the records at that name only.
LEMMA ConflictIsLocal ==
  ASSUME NEW S, NEW T, NEW n,
         \A r : r.fqdn = n => (r \in S <=> r \in T)
  PROVE  Conflict(S, n) <=> Conflict(T, n)
<1>1. {s \in S : s.fqdn = n /\ s.type = "CNAME"}
        = {s \in T : s.fqdn = n /\ s.type = "CNAME"}
  OBVIOUS
<1>2. Targets(S, n) = Targets(T, n)
  BY <1>1 DEF Targets
<1> QED
  BY <1>2 DEF Conflict

\* More records never resolve a conflict.
LEMMA ConflictIsMonotone ==
  ASSUME NEW S, NEW T, S \subseteq T, NEW n, Conflict(S, n)
  PROVE  Conflict(T, n)
<1>1. Targets(S, n) \subseteq Targets(T, n)
  BY DEF Targets
<1> QED
  BY <1>1 DEF Conflict

\* What is kept is free of conflicts.
LEMMA KeptAgrees ==
  ASSUME NEW spec, NEW r, NEW r1 \in Kept(spec, r)
  PROVE  ~Conflict(Kept(spec, r), r1.fqdn)
<1>1. Kept(spec, r) \subseteq Admitted(spec, r)
  BY DEF Kept
<1>2. ~Conflict(Admitted(spec, r), r1.fqdn)
  BY DEF Kept
<1> QED
  BY <1>1, <1>2, ConflictIsMonotone

-----------------------------------------------------------------------------
(* One record more or less *)

\* The records as functions, which is all the proofs need of TypeOK.
RecordsTyped == rec \in [Ids -> RecordSpecs \cup {NoRecord}]

\* Taking one record away leaves the others as they are, and admits it no more.
LEMMA OthersStay ==
  ASSUME RecordsTyped, NEW id \in Ids
  PROVE  /\ ~Admissible(zone, Without(id), id)
         /\ \A j \in Ids \ {id} :
              /\ Admissible(zone, Without(id), j) <=> Admissible(zone, rec, j)
              /\ Compiled(zone, Without(id), j) = Compiled(zone, rec, j)
<1>1. Without(id)[id] = NoRecord
  BY DEF RecordsTyped, Without
<1>2. \A j \in Ids \ {id} : Without(id)[j] = rec[j]
  BY DEF RecordsTyped, Without
<1>3. \A j \in Ids \ {id} : Compiled(zone, Without(id), j) = Compiled(zone, rec, j)
  BY <1>2 DEF Compiled
<1> QED
  BY <1>1, <1>2, <1>3 DEF Admissible, Refers

\* A record adds at most itself to what is admitted.
LEMMA AdmittedWithout ==
  ASSUME RecordsTyped, NEW id \in Ids
  PROVE  /\ Admitted(zone, Without(id)) \subseteq Admitted(zone, rec)
         /\ \A r \in Admitted(zone, rec) :
              \/ r \in Admitted(zone, Without(id))
              \/ Admissible(zone, rec, id) /\ r = Compiled(zone, rec, id)
<1>1. Admitted(zone, Without(id)) \subseteq Admitted(zone, rec)
  BY OthersStay DEF Admitted
<1>2. ASSUME NEW r \in Admitted(zone, rec)
      PROVE  \/ r \in Admitted(zone, Without(id))
             \/ Admissible(zone, rec, id) /\ r = Compiled(zone, rec, id)
  BY OthersStay DEF Admitted
<1> QED
  BY <1>1, <1>2

\* The property for one record.
LEMMA OneRecord ==
  ASSUME RecordsTyped, NEW id \in Ids, NEW n, n = Compiled(zone, rec, id).fqdn
  PROVE  /\ ~Admissible(zone, rec, id) =>
              /\ Kept(zone, rec) = Kept(zone, Without(id))
              /\ Blocking(zone, rec) <=> Blocking(zone, Without(id))
         /\ Elsewhere(Kept(zone, rec), n) = Elsewhere(Kept(zone, Without(id)), n)
         /\ Blocking(zone, rec) /\ ~Blocking(zone, Without(id)) =>
              \E r \in InlineRecords(zone) : r.fqdn = n
<1> DEFINE S == Admitted(zone, rec)
           T == Admitted(zone, Without(id))
<1>1. T \subseteq S /\ \A r \in S : r \in T \/ (Admissible(zone, rec, id) /\ r.fqdn = n)
  BY AdmittedWithout
<1>2. ASSUME NEW m, m # n PROVE Conflict(S, m) <=> Conflict(T, m)
  <2>1. \A r : r.fqdn = m => (r \in S <=> r \in T)
    BY <1>1, <1>2
  <2> QED
    BY <2>1, ConflictIsLocal
<1>3. ASSUME ~Admissible(zone, rec, id)
      PROVE  /\ Kept(zone, rec) = Kept(zone, Without(id))
             /\ Blocking(zone, rec) <=> Blocking(zone, Without(id))
  <2>1. S = T
    BY <1>1, <1>3
  <2> QED
    BY <2>1 DEF Kept, Blocking
<1>4. Elsewhere(Kept(zone, rec), n) = Elsewhere(Kept(zone, Without(id)), n)
  <2>1. ASSUME NEW r, r.fqdn # n
        PROVE  r \in Kept(zone, rec) <=> r \in Kept(zone, Without(id))
    <3>1. r \in S <=> r \in T
      BY <1>1, <2>1
    <3>2. Conflict(S, r.fqdn) <=> Conflict(T, r.fqdn)
      BY <1>2, <2>1
    <3> QED
      BY <3>1, <3>2 DEF Kept
  <2> QED
    BY <2>1 DEF Elsewhere
<1>5. ASSUME Blocking(zone, rec), ~Blocking(zone, Without(id))
      PROVE  \E r \in InlineRecords(zone) : r.fqdn = n
  <2>1. PICK r \in InlineRecords(zone) : ~ValidateRecord(r) \/ Conflict(S, r.fqdn)
    BY <1>5 DEF Blocking
  <2>2. ValidateRecord(r) /\ ~Conflict(T, r.fqdn)
    BY <1>5 DEF Blocking
  <2>3. r.fqdn = n
    BY <1>2, <2>1, <2>2
  <2> QED
    BY <2>3
<1> QED
  BY <1>3, <1>4, <1>5

-----------------------------------------------------------------------------
(* The second validation *)

\* Deduplication drops records and adds none, and dropping records makes no
\* conflict; the zone's TTL is positive because the API server admits no other.
LEMMA NothingRefused ==
  ASSUME zone \in ZoneSpecs
  PROVE  ~Refused(zone, rec)
<1>1. zone.ttl \in Nat
  BY SpecsAssumption DEF SpecsAssumption, PrivateDNSZoneSpec
<1>2. ASSUME NEW T \in Survivors(Kept(zone, rec)) PROVE ValidateRecords(T)
  <2>1. T \subseteq Kept(zone, rec)
    BY DEF Survivors
  <2>2. \A r \in T : ~Conflict(T, r.fqdn)
    BY <2>1, KeptAgrees, ConflictIsMonotone
  <2>3. \A r \in Kept(zone, rec) : ValidateRecord(r)
    BY DEF Kept, Admitted, Admissible
  <2> QED
    BY <2>1, <2>2, <2>3 DEF ValidateRecords, ValidateRecordSet
<1>3. ~(zoneTTL(zone) <= 0)
  BY <1>1 DEF zoneTTL, DefaultTTL
<1> QED
  BY <1>2, <1>3 DEF Refused

-----------------------------------------------------------------------------
(* Types *)

\* A reconcile's verdicts are reasons, and every output has a known policy.
LEMMA VerdictTyped == ZoneVerdict \in ZoneReasons /\ ZoneVerdict # "CoreDNSUnavailable"
  BY DEF ZoneVerdict, ZoneReasons

LEMMA OutcomeTyped ==
  ASSUME NEW id \in Ids, NEW verdict PROVE Outcome(id, verdict) \in Reasons
  BY DEF Outcome, Reasons

LEMMA OutputTyped ==
  ASSUME TypeOK, NEW out \in Output(ZoneVerdict)
  PROVE  out.policy \in {"none", "Forward", "NXDOMAIN"}
<1>1. CASE ZoneVerdict = "Ready"
  <2>1. zone \in ZoneSpecs
    BY <1>1 DEF ZoneVerdict, TypeOK
  <2>2. effectivePolicy(zone) \in {"Forward", "NXDOMAIN"}
    BY <2>1, SpecsAssumption DEF SpecsAssumption, PrivateDNSZoneSpec, effectivePolicy
  <2>3. out \in Renderings(zone, rec)
    BY <1>1 DEF Output
  <2>4. out.policy = effectivePolicy(zone)
    BY <2>3 DEF Renderings
  <2> QED
    BY <2>2, <2>4
<1>2. CASE ZoneVerdict # "Ready"
  <2>1. out = served \/ out = NoOutput
    BY <1>2 DEF Output
  <2> QED
    BY <2>1 DEF TypeOK, NoOutput
<1> QED
  BY <1>1, <1>2

\* An edit stays within the bound.
LEMMA EditCounted == TypeOK /\ Edit => edits' \in 0..MaxEdits
BY BoundAssumption DEF TypeOK, Edit

\* Every step keeps the types.
LEMMA TypeStep == TypeOK /\ [Next]_vars => TypeOK'
<1> SUFFICES ASSUME TypeOK, [Next]_vars PROVE TypeOK'
  OBVIOUS
<1> USE DEF TypeOK, statuses, caches, inputs
<1>0. ASSUME NEW verdict \in ZoneReasons, Report(verdict)
      PROVE  /\ result'.ready \in ZoneReasons
             /\ outcomes' \in [Ids -> Reasons]
             /\ todo' \subseteq Ids
             /\ pc' \in {"idle", "zone", "records"}
             /\ due' \in BOOLEAN
  BY <1>0, OutcomeTyped DEF Report
<1>none. NoResult.ready \in ZoneReasons /\ NoOutcomes \in [Ids -> Reasons]
  BY DEF NoResult, NoOutcomes, ZoneReasons, Reasons
<1>1. CASE Publish
  <2>1. served'.policy \in {"none", "Forward", "NXDOMAIN"}
    BY <1>1, OutputTyped DEF Publish
  <2>2. Report(ZoneVerdict) /\ ZoneVerdict \in ZoneReasons
    BY <1>1, VerdictTyped DEF Publish
  <2>3. synced' \in BOOLEAN
    BY <1>1 DEF Publish, UpToDate
  <2> QED
    BY <1>0, <1>1, <2>1, <2>2, <2>3 DEF Publish
<1>2. CASE PublishFails
  BY <1>2 DEF PublishFails
<1>3. CASE Unavailable
  <2>1. Report("CoreDNSUnavailable") /\ "CoreDNSUnavailable" \in ZoneReasons
    BY <1>3 DEF Unavailable, ZoneReasons
  <2> QED
    BY <1>0, <1>3, <2>1 DEF Unavailable
<1>4. CASE ReportZone
  BY <1>4 DEF ReportZone
<1>5. CASE ReportRecord
  BY <1>5 DEF ReportRecord
<1>6. CASE Finish
  <2>1. /\ result'.ready \in ZoneReasons /\ outcomes' \in [Ids -> Reasons]
        /\ pc' = "idle" /\ todo' = {} /\ due' \in BOOLEAN
    BY <1>none, <1>6 DEF Finish, Return
  <2> QED
    BY <1>6, <2>1 DEF Finish
<1>7. CASE Abort
  <2>1. /\ result'.ready \in ZoneReasons /\ outcomes' \in [Ids -> Reasons]
        /\ pc' = "idle" /\ todo' = {}
    BY <1>none, <1>7 DEF Abort, Return
  <2> QED
    BY <1>7, <2>1 DEF Abort
<1>8. CASE Deliver
  BY <1>8 DEF Deliver
<1>9. CASE OtherZone
  BY <1>9 DEF OtherZone
<1>10. CASE EditZone
  <2>1. PICK z \in ZoneSpecs \cup {NoZone} :
          zone' = z /\ zstat' \in {NoResult, zstat} /\ zcache' = zstat'
    BY <1>10 DEF EditZone
  <2>2. zstat'.ready \in ZoneReasons
    BY <2>1 DEF NoResult, ZoneReasons
  <2>3. edits' \in 0..MaxEdits
    BY <1>10, EditCounted DEF EditZone
  <2> QED
    BY <1>10, <2>1, <2>2, <2>3 DEF EditZone, Edit
<1>11. CASE EditRecord
  <2>1. edits' \in 0..MaxEdits
    BY <1>11, EditCounted DEF EditRecord
  <2>2. cache' \in [Ids -> Reasons]
    BY <1>11 DEF EditRecord
  <2>3. /\ rec' \in [Ids -> RecordSpecs \cup {NoRecord}]
        /\ leaving' \subseteq {id \in Ids : rec'[id] # NoRecord}
    BY <1>11, SpecsAssumption, IdsAssumption
    DEF SpecsAssumption, IdsAssumption, EditRecord
  <2>4. UNCHANGED <<zone, zstat, zcache, status, served, pc, result, outcomes, todo>>
        /\ due' = TRUE /\ edited' = TRUE /\ synced' = FALSE
    BY <1>11 DEF EditRecord, Edit
  <2> QED
    BY <2>1, <2>2, <2>3, <2>4
<1>12. CASE DeleteRecord
  <2>1. edits' \in 0..MaxEdits
    BY <1>12, EditCounted DEF DeleteRecord
  <2>2. status' \in [Ids -> Reasons]
    BY <1>12 DEF DeleteRecord, Reasons
  <2>3. cache' \in [Ids -> Reasons]
    BY <1>12, <2>2 DEF DeleteRecord
  <2>4. /\ rec' \in [Ids -> RecordSpecs \cup {NoRecord}]
        /\ leaving' \subseteq {id \in Ids : rec'[id] # NoRecord}
    BY <1>12 DEF DeleteRecord
  <2>5. UNCHANGED <<zone, zstat, zcache, served, pc, result, outcomes, todo>>
        /\ due' = TRUE /\ edited' = TRUE /\ synced' = FALSE
    BY <1>12 DEF DeleteRecord, Edit
  <2> QED
    BY <2>1, <2>2, <2>3, <2>4, <2>5
<1>13. CASE UNCHANGED vars
  BY <1>13 DEF vars
<1> QED
  BY <1>1, <1>2, <1>3, <1>4, <1>5, <1>6, <1>7, <1>8, <1>9, <1>10, <1>11, <1>12, <1>13
  DEF Next, Reconcile, Failure, Authors

-----------------------------------------------------------------------------
(* Names *)

\* Lower case changes labels one by one.
LEMMA NormalDomain ==
  ASSUME NEW d \in Seq(Labels)
  PROVE  /\ normalizeDomain(d) \in Seq(Labels)
         /\ Len(normalizeDomain(d)) = Len(d)
         /\ \A i \in 1..Len(d) : normalizeDomain(d)[i] = Lower[d[i]]
<1>1. DOMAIN d = 1..Len(d) /\ Len(d) \in Nat
  OBVIOUS
<1>2. \A i \in 1..Len(d) : Lower[d[i]] \in Labels
  BY LabelsAssumption DEF LabelsAssumption
<1> QED
  BY <1>1, <1>2 DEF normalizeDomain

\* A name that ends in a zone is completed to itself from its relative form:
\* what relativeName cuts off, $ORIGIN puts back.
LEMMA RelativeNameCompletes ==
  ASSUME NEW d \in Seq(Labels), NEW z \in Seq(Labels), HasSuffix(d, z)
  PROVE  Completed(relativeName(d, z), z) = d
<1> DEFINE k == Len(d) - Len(z)
<1>1. k \in 0..Len(d) /\ k + Len(z) = Len(d)
  BY DEF HasSuffix
<1>2. \A i \in 1..Len(z) : z[i] = d[k + i]
  BY <1>1 DEF HasSuffix
<1>3. /\ SubSeq(d, 1, k) \in Seq(Labels) /\ Len(SubSeq(d, 1, k)) = k
      /\ \A i \in 1..k : SubSeq(d, 1, k)[i] = d[i]
  BY <1>1
<1> DEFINE p == SubSeq(d, 1, k)
<1> HIDE DEF p, k
<1>4. /\ p \o z \in Seq(Labels) /\ Len(p \o z) = Len(d)
      /\ \A i \in 1..Len(d) : (p \o z)[i] = IF i <= k THEN p[i] ELSE z[i - k]
  BY <1>1, <1>3, ConcatProperties, SMT DEF p
<1>5. ASSUME NEW i \in 1..Len(d) PROVE (p \o z)[i] = d[i]
  <2>1. CASE i <= k
    BY <1>1, <1>3, <1>4, <2>1 DEF p
  <2>2. CASE ~(i <= k)
    <3>1. i - k \in 1..Len(z) /\ k + (i - k) = i
      BY <1>1, <2>2
    <3> QED
      BY <1>2, <1>4, <2>2, <3>1
  <2> QED
    BY <2>1, <2>2
<1>6. p \o z = d
  BY <1>4, <1>5, SeqEqual
<1> QED
  BY <1>6 DEF Completed, relativeName, p, k

\* FQDN's result is in the zone.
LEMMA NameInZone ==
  ASSUME NEW name \in Names, NEW suffix \in Seq(Labels),
         NEW z, z = NormalizeZone(suffix), FQDN(name, z) # NoName
  PROVE  FQDN(name, z) \in Seq(Labels) /\ HasSuffix(FQDN(name, z), z)
<1>1. /\ z \in Seq(Labels) /\ Len(z) = Len(suffix)
      /\ \A i \in 1..Len(z) : z[i] = Lower[suffix[i]]
  BY NormalDomain DEF NormalizeZone
<1>2. \A i \in 1..Len(z) : Lower[z[i]] = z[i]
  BY <1>1, LabelsAssumption DEF LabelsAssumption
<1>3. name.labels \in Seq(Labels) /\ name.rooted \in BOOLEAN
  BY DEF Names
<1>4. HasSuffix(z, z)
  BY <1>1 DEF HasSuffix
<1> DEFINE full == name.labels \o z
           d == normalizeDomain(full)
<1>5. full \in Seq(Labels) /\ Len(full) = Len(name.labels) + Len(z)
  BY <1>1, <1>3
<1>6. \A i \in 1..Len(z) : full[Len(name.labels) + i] = z[i]
  BY <1>1, <1>3
<1>7. d \in Seq(Labels) /\ HasSuffix(d, z)
  <2>1. /\ d \in Seq(Labels) /\ Len(d) = Len(full)
        /\ \A i \in 1..Len(full) : d[i] = Lower[full[i]]
    BY <1>5, NormalDomain
  <2> HIDE DEF d, full
  <2>2. ASSUME NEW i \in 1..Len(z) PROVE d[Len(name.labels) + i] = z[i]
    <3>1. Len(name.labels) + i \in 1..Len(full)
      BY <1>1, <1>3, <1>5
    <3> QED
      BY <1>2, <1>6, <2>1, <3>1
  <2> DEFINE m == Len(d) - Len(z) + 1
             e == SubSeq(d, m, Len(d))
  <2>3. m \in Int /\ Len(d) \in Int /\ m = Len(name.labels) + 1 /\ m >= 1
    BY <1>1, <1>3, <1>5, <2>1
  <2>4. \A i \in m..Len(d) : d[i] \in Labels
    BY <2>1, <2>3, ElementOfSeq
  <2>5. /\ e \in Seq(Labels)
        /\ Len(e) = IF m <= Len(d) THEN Len(d) - m + 1 ELSE 0
        /\ \A i \in 1..(Len(d) - m + 1) : e[i] = d[m + i - 1]
    BY <2>3, <2>4, SubSeqProperties
  <2>6. Len(e) = Len(z) /\ Len(d) - m + 1 = Len(z)
    BY <1>1, <2>1, <2>3, <2>5
  <2>7. \A i \in 1..Len(z) : e[i] = z[i]
    <3> HIDE DEF e, m
    <3>1. ASSUME NEW i \in 1..Len(z) PROVE m + i - 1 = Len(name.labels) + i
      BY <1>1, <1>3, <2>3
    <3> QED
      BY <2>2, <2>5, <2>6, <3>1
  <2>8. e = z
    BY <1>1, <2>5, <2>6, <2>7, SeqEqual
  <2>9. Len(z) <= Len(d)
    BY <1>1, <1>3, <1>5, <2>1
  <2> QED
    BY <2>1, <2>8, <2>9 DEF HasSuffix
<1>8. CASE name.rooted
  <2>1. /\ FQDN(name, z) = normalizeDomain(name.labels)
        /\ HasSuffix(normalizeDomain(name.labels), z)
    BY <1>8 DEF FQDN
  <2> QED
    BY <1>3, <2>1, NormalDomain
<1>9. CASE ~name.rooted
  <2>1. FQDN(name, z) \in {z, d}
    BY <1>9 DEF FQDN
  <2> QED
    BY <1>1, <1>4, <1>7, <2>1
<1> QED
  BY <1>3, <1>8, <1>9

-----------------------------------------------------------------------------
(* Least elements and finite sets *)

\* A set of numbers has a least element.
LEMMA LeastExists ==
  ASSUME NEW S, S \subseteq Nat, S # {}
  PROVE  \E m \in S : \A n \in S : m <= n
<1>1. \E x \in S : \A y \in S : <<y, x>> \notin OpToRel(<, Nat)
  BY NatLessThanWellFounded, WFMin, Zenon
<1>2. \A x, y \in Nat : y < x => <<y, x>> \in OpToRel(<, Nat)
  BY Zenon DEF OpToRel
<1>3. \E x \in S : \A y \in S : ~(y < x)
  BY <1>1, <1>2, Zenon
<1> QED
  BY <1>3

\* An order names every record it was made from.
LEMMA OrderCovers ==
  ASSUME NEW T, IsFiniteSet(T), NEW f \in Orders(T)
  PROVE  /\ DOMAIN f = 1..Cardinality(T)
         /\ \A i \in DOMAIN f : f[i] \in T
         /\ \A r \in T : \E i \in DOMAIN f : f[i] = r
<1> DEFINE n == Cardinality(T)
           I == 1..n
<1>1. n \in Nat
  BY FS_CardinalityType
<1> HIDE DEF n
<1>2. /\ f \in [I -> T]
      /\ \A i, j \in I : i < j => f[i] # f[j]
  BY DEF Orders, n
<1>3. f \in Injection(I, T)
  <2>1. ASSUME NEW i \in I, NEW j \in I, f[i] = f[j] PROVE i = j
    BY <1>1, <1>2, <2>1
  <2> QED
    BY <1>2, <2>1 DEF Injection, IsInjective
<1>4. Cardinality(I) = Cardinality(T)
  BY <1>1, FS_Interval DEF n
<1>5. f \in Surjection(I, T)
  BY <1>3, <1>4, FS_Injection
<1> QED
  BY <1>2, <1>5 DEF Surjection, n

-----------------------------------------------------------------------------
(* The records that are kept *)

\* The specs a reconcile lists.
Listed(spec, recs) ==
  /\ spec \in PrivateDNSZoneSpec
  /\ recs \in [Ids -> PrivateDNSRecordSpec \cup {NoRecord}]

\* What the provers need of a zone's spec.
LEMMA SpecFields ==
  ASSUME NEW spec \in PrivateDNSZoneSpec
  PROVE  /\ spec.suffix \in Seq(Labels) /\ spec.ttl \in Nat
         /\ Len(spec.records) \in Nat
         /\ DOMAIN spec.records = 1..Len(spec.records)
         /\ \A i \in DOMAIN spec.records :
              i \in Nat /\ spec.records[i] \in PrivateDNSRecordSpecInline
<1>1. spec.suffix \in Seq(Labels) /\ spec.ttl \in Nat
      /\ spec.records \in Seq(PrivateDNSRecordSpecInline)
  BY Zenon DEF PrivateDNSZoneSpec
<1>2. /\ Len(spec.records) \in Nat
      /\ DOMAIN spec.records = 1..Len(spec.records)
      /\ spec.records \in [1..Len(spec.records) -> PrivateDNSRecordSpecInline]
  BY <1>1, LenProperties
<1> QED
  BY <1>1, <1>2

\* What a compiled record's source tells.
LEMMA SourceFields ==
  /\ \A d, spec, i :
       LET s == Compile(d, spec, InlineSource(spec, i)).source
       IN  s.kind = "PrivateDNSZone" /\ s.pos = i
  /\ \A spec, recs, id :
       LET s == Compiled(spec, recs, id).source
       IN  s.kind = "PrivateDNSRecord" /\ s.ns = id.ns /\ s.name = id.name /\ s.pos = 0
<1>1. \A d, spec, src : Compile(d, spec, src).source = src
  BY DEF Compile
<1>2. \A spec, i : /\ InlineSource(spec, i).kind = "PrivateDNSZone"
                   /\ InlineSource(spec, i).pos = i
  BY DEF InlineSource
<1>3. \A id : LET s == RecordSource(id)
              IN  s.kind = "PrivateDNSRecord" /\ s.ns = id.ns /\ s.name = id.name
                  /\ s.pos = 0
  BY DEF RecordSource
<1> QED
  BY <1>1, <1>2, <1>3 DEF Compiled

\* A kept record is one of the zone's own or a delegated one, and nothing else
\* has its source.
LEMMA KeptOrigin ==
  ASSUME NEW spec, NEW recs, NEW r \in Kept(spec, recs)
  PROVE  \/ \E i \in DOMAIN spec.records :
              r = Compile(spec.records[i], spec, InlineSource(spec, i))
         \/ \E id \in Ids : Admissible(spec, recs, id) /\ r = Compiled(spec, recs, id)
BY DEF Kept, Admitted, InlineRecords

\* A kept record is well formed and its name is in the zone.
LEMMA KeptTyped ==
  ASSUME NEW spec, NEW recs, Listed(spec, recs), NEW r \in Kept(spec, recs)
  PROVE  /\ r.type \in Types /\ r.ttl \in Nat /\ r.values \in Seq(Texts)
         /\ Completed(relativeName(r.fqdn, NormalizeZone(spec.suffix)),
                      NormalizeZone(spec.suffix)) = r.fqdn
<1> DEFINE Z == NormalizeZone(spec.suffix)
<1>1. spec.suffix \in Seq(Labels) /\ zoneTTL(spec) \in Nat
      /\ \A i \in DOMAIN spec.records : spec.records[i] \in PrivateDNSRecordSpecInline
  BY SpecFields DEF Listed, zoneTTL, DefaultTTL
<1>2. \E d, src : /\ d \in PrivateDNSRecordSpecInline \cup PrivateDNSRecordSpec
                  /\ r = Compile(d, spec, src)
  <2>1. CASE \E i \in DOMAIN spec.records :
               r = Compile(spec.records[i], spec, InlineSource(spec, i))
    BY <1>1, <2>1
  <2>2. CASE \E id \in Ids : Admissible(spec, recs, id) /\ r = Compiled(spec, recs, id)
    <3>1. PICK id \in Ids : Admissible(spec, recs, id) /\ r = Compiled(spec, recs, id)
      BY <2>2
    <3>2. recs[id] \in PrivateDNSRecordSpec
      BY <3>1 DEF Listed, Admissible, Refers
    <3> QED
      BY <3>1, <3>2 DEF Compiled
  <2> QED
    BY <2>1, <2>2, KeptOrigin
<1>3. PICK d, src : /\ d \in PrivateDNSRecordSpecInline \cup PrivateDNSRecordSpec
                    /\ r = Compile(d, spec, src)
  BY <1>2
<1>4. d.name \in Names /\ d.type \in Types /\ d.ttl \in Nat /\ d.values \in Seq(Texts)
  BY <1>3 DEF PrivateDNSRecordSpecInline, PrivateDNSRecordSpec
<1>5. r.fqdn = FQDN(d.name, Z) /\ r.type = d.type /\ r.values = d.values
      /\ r.ttl = IF d.ttl = 0 THEN zoneTTL(spec) ELSE d.ttl
  BY <1>3 DEF Compile
<1>6. r.fqdn # NoName
  BY DEF Kept, Admitted, Admissible, ValidateRecord
<1>7. Z \in Seq(Labels)
  BY <1>1, NormalDomain DEF NormalizeZone
<1>8. r.fqdn \in Seq(Labels) /\ HasSuffix(r.fqdn, Z)
  BY <1>1, <1>4, <1>5, <1>6, NameInZone
<1>9. Completed(relativeName(r.fqdn, Z), Z) = r.fqdn
  BY <1>7, <1>8, RelativeNameCompletes
<1> QED
  BY <1>1, <1>4, <1>5, <1>9

\* There are finitely many.
LEMMA KeptFinite ==
  ASSUME NEW spec, NEW recs, Listed(spec, recs)
  PROVE  IsFiniteSet(Kept(spec, recs))
<1> DEFINE D == DOMAIN spec.records
           A == {i \in Ids : Admissible(spec, recs, i)}
           F == [i \in D |-> Compile(spec.records[i], spec, InlineSource(spec, i))]
           G == [i \in A |-> Compiled(spec, recs, i)]
           P == {F[i] : i \in D}
           Q == {G[i] : i \in A}
<1>1. IsFiniteSet(D)
  <2>1. D = 1..Len(spec.records) /\ Len(spec.records) \in Nat
    BY SpecFields DEF Listed
  <2> QED
    BY <2>1, FS_Interval
<1>2. IsFiniteSet(A)
  BY FS_Subset, IdsAssumption DEF IdsAssumption
<1>3. IsFiniteSet(P)
  <2>1. F \in Surjection(D, P)
    BY DEF Surjection
  <2> QED
    BY <1>1, <2>1, FS_Surjection
<1>4. IsFiniteSet(Q)
  <2>1. G \in Surjection(A, Q)
    BY DEF Surjection
  <2> QED
    BY <1>2, <2>1, FS_Surjection
<1>5. Kept(spec, recs) \subseteq P \cup Q
  BY KeptOrigin
<1>6. IsFiniteSet(P \cup Q)
  BY <1>3, <1>4, FS_Union
<1> QED
  BY <1>5, <1>6, FS_Subset

\* A record is determined by its identity and its place among the zone's own.
LEMMA SameSource ==
  ASSUME NEW spec, NEW recs, NEW r \in Kept(spec, recs), NEW s \in Kept(spec, recs),
         DedupKey(r) = DedupKey(s), r.source.pos = s.source.pos,
         Listed(spec, recs)
  PROVE  r = s
<1>1. r.source.kind = s.source.kind /\ r.source.ns = s.source.ns
      /\ r.source.name = s.source.name
  BY DEF DedupKey
<1>2. CASE \E i \in DOMAIN spec.records :
             r = Compile(spec.records[i], spec, InlineSource(spec, i))
  <2>1. PICK i \in DOMAIN spec.records :
          r = Compile(spec.records[i], spec, InlineSource(spec, i))
    BY <1>2
  <2>2. r.source.kind = "PrivateDNSZone" /\ r.source.pos = i
    BY <2>1, SourceFields
  <2>3. ASSUME NEW id \in Ids, s = Compiled(spec, recs, id) PROVE FALSE
    <3>1. s.source.kind = "PrivateDNSRecord"
      BY <2>3, SourceFields
    <3> QED
      BY <1>1, <2>2, <3>1
  <2>4. PICK j \in DOMAIN spec.records :
          s = Compile(spec.records[j], spec, InlineSource(spec, j))
    BY <2>3, KeptOrigin
  <2>5. s.source.pos = j
    BY <2>4, SourceFields
  <2> QED
    BY <2>1, <2>2, <2>4, <2>5
<1>3. CASE \E id \in Ids : r = Compiled(spec, recs, id)
  <2>1. PICK id \in Ids : r = Compiled(spec, recs, id)
    BY <1>3
  <2>2. r.source.kind = "PrivateDNSRecord" /\ r.source.ns = id.ns
        /\ r.source.name = id.name
    BY <2>1, SourceFields
  <2>3. ASSUME NEW i \in DOMAIN spec.records,
               s = Compile(spec.records[i], spec, InlineSource(spec, i))
        PROVE  FALSE
    <3>1. s.source.kind = "PrivateDNSZone"
      BY <2>3, SourceFields
    <3> QED
      BY <1>1, <2>2, <3>1
  <2>4. PICK jd \in Ids : s = Compiled(spec, recs, jd)
    BY <2>3, KeptOrigin
  <2>5. s.source.ns = jd.ns /\ s.source.name = jd.name
    BY <2>4, SourceFields
  <2>6. \A a, b \in [ns : Namespaces, name : Nat] :
          a.ns = b.ns /\ a.name = b.name => a = b
    OBVIOUS
  <2>7. id = jd
    <3>1. id.ns = jd.ns /\ id.name = jd.name
      BY <1>1, <2>2, <2>5
    <3> QED
      BY <2>6, <3>1, IdsAssumption DEF IdsAssumption
  <2> QED
    BY <2>1, <2>4, <2>7
<1> QED
  BY <1>2, <1>3, KeptOrigin

\* The map in DeduplicateAndSort ends with the same records in whatever order it
\* is filled.
LEMMA OneSurvivor ==
  ASSUME NEW spec, NEW recs, Listed(spec, recs),
         NEW T \in Survivors(Kept(spec, recs)), NEW U \in Survivors(Kept(spec, recs))
  PROVE  T = U
<1>1. ASSUME NEW V \in Survivors(Kept(spec, recs)), NEW W \in Survivors(Kept(spec, recs)),
             NEW r \in V
      PROVE  r \in W
  <2>1. V \subseteq Kept(spec, recs) /\ W \subseteq Kept(spec, recs)
    BY DEF Survivors
  <2>2. PICK s \in W : DedupKey(s) = DedupKey(r)
    BY <2>1 DEF Survivors
  <2>3. s.source.pos <= r.source.pos /\ r.source.pos <= s.source.pos
    BY <2>1, <2>2 DEF Survivors
  <2>4. \A q \in Kept(spec, recs) : q.source.pos \in Nat
    <3>1. \A i \in DOMAIN spec.records : i \in Nat
      BY SpecFields DEF Listed
    <3>2. ASSUME NEW q \in Kept(spec, recs) PROVE q.source.pos \in Nat
      BY <3>1, KeptOrigin, SourceFields
    <3> QED
      BY <3>2
  <2>5. s.source.pos = r.source.pos
    BY <2>1, <2>3, <2>4
  <2> QED
    BY <2>1, <2>2, <2>5, SameSource
<1> QED
  BY <1>1

\* No record takes a delegated record's place in the map.
LEMMA DelegatedSurvives ==
  ASSUME NEW spec, NEW recs, Listed(spec, recs),
         NEW T \in Survivors(Kept(spec, recs)), NEW id \in Ids,
         Compiled(spec, recs, id) \in Kept(spec, recs)
  PROVE  Compiled(spec, recs, id) \in T
<1> DEFINE r == Compiled(spec, recs, id)
<1>1. PICK s \in T : DedupKey(s) = DedupKey(r)
  BY DEF Survivors
<1>2. s \in Kept(spec, recs)
  BY DEF Survivors
<1>3. r.source.kind = "PrivateDNSRecord" /\ r.source.pos = 0
  BY SourceFields
<1>4. s.source.kind = "PrivateDNSRecord"
  BY <1>1, <1>3 DEF DedupKey
<1>5. s.source.pos = 0
  BY <1>2, <1>4, KeptOrigin, SourceFields
<1>6. s = r
  BY <1>1, <1>2, <1>3, <1>5, SameSource
<1> QED
  BY <1>6

-----------------------------------------------------------------------------
(* What a rendering answers *)

RRset(T, n, t) == {r \in T : r.fqdn = n /\ r.type = t}

\* An RRset's TTL and values up to case, from the records that make it: each
\* record's own in a zone file, the lowest in a template stanza.
FileRRset(R) == UNION {{<<r.ttl, Fold[v]>> : v \in uniqueSorted(r.values)} : r \in R}
TemplateRRset(R) ==
  UNION {{<<q.ttl, Fold[v]>> : v \in UNION {uniqueSorted(r.values) : r \in R}} :
         q \in {p \in R : \A r \in R : p.ttl <= r.ttl}}

Folded(A) == {<<a[1], Fold[a[2]]>> : a \in A}

\* No value is lost, and none is made up: only spellings are dropped.
LEMMA UniqueValues ==
  ASSUME NEW values \in Seq(Texts)
  PROVE  /\ uniqueSorted(values) \subseteq {values[i] : i \in DOMAIN values}
         /\ \A i \in DOMAIN values :
              \E w \in uniqueSorted(values) : Fold[w] = Fold[values[i]]
<1>1. DOMAIN values \subseteq Nat /\ \A i \in DOMAIN values : 1..i \subseteq DOMAIN values
  OBVIOUS
<1>2. ASSUME NEW i \in DOMAIN values
      PROVE  \E w \in uniqueSorted(values) : Fold[w] = Fold[values[i]]
  <2> DEFINE S == {j \in DOMAIN values : Fold[values[j]] = Fold[values[i]]}
  <2>1. S \subseteq Nat /\ i \in S
    BY <1>1
  <2>2. PICK m \in S : \A j \in S : m <= j
    BY <2>1, LeastExists
  <2>3. \A h \in 1..(m - 1) : h \in DOMAIN values /\ ~(m <= h)
    BY <1>1
  <2>4. \A h \in 1..(m - 1) : Fold[values[h]] # Fold[values[m]]
    BY <2>2, <2>3
  <2> QED
    BY <2>2, <2>4 DEF uniqueSorted
<1> QED
  BY <1>2 DEF uniqueSorted

\* A zone file answers with the records at a name, each with its own TTL.
LEMMA FileAnswers ==
  ASSUME NEW spec, NEW recs, Listed(spec, recs), NEW T, T \subseteq Kept(spec, recs),
         IsFiniteSet(T), NEW f \in Orders(T), NEW out,
         out.policy = "NXDOMAIN", out.zone = NormalizeZone(spec.suffix),
         NEW ttl, out.sets = FileOf(f, NormalizeZone(spec.suffix), ttl), NEW n,
         NEW t \in Types
  PROVE  Answers(out, n, t)
           = UNION {{<<r.ttl, v>> : v \in uniqueSorted(r.values)} : r \in RRset(T, n, t)}
<1> DEFINE Z == NormalizeZone(spec.suffix)
           D == ({<<>>} \X ApexTypes)
                  \cup {<<relativeName(f[i].fqdn, Z), f[i].type>> : i \in DOMAIN f}
           Lines(m, u) == {[ttl |-> f[i].ttl, values |-> uniqueSorted(f[i].values)] :
                             i \in Positions(f, <<m, u>>)}
<1>1. /\ \A i \in DOMAIN f : f[i] \in T
      /\ \A r \in T : \E i \in DOMAIN f : f[i] = r
  BY OrderCovers
<1>2. /\ DOMAIN out.sets = D
      /\ \A k \in D : k[2] \in Types => out.sets[k] = Lines(Completed(k[1], Z), k[2])
  BY DEF FileOf, Types, ApexTypes
<1>3. Answers(out, n, t)
        = UNION {UNION {{<<line.ttl, v>> : v \in line.values} : line \in out.sets[k]} :
                 k \in {j \in D : <<Completed(j[1], Z), j[2]>> = <<n, t>>}}
  BY <1>2 DEF Answers
<1>4. \A i \in Positions(f, <<n, t>>) : i \in DOMAIN f /\ f[i].fqdn = n /\ f[i].type = t
  BY DEF Positions
<1>5. ASSUME NEW a \in Answers(out, n, t)
      PROVE  \E r \in RRset(T, n, t) : \E v \in uniqueSorted(r.values) : a = <<r.ttl, v>>
  <2>1. PICK k \in D : /\ Completed(k[1], Z) = n /\ k[2] = t
                       /\ \E line \in out.sets[k] : \E v \in line.values : a = <<line.ttl, v>>
    BY <1>3
  <2>2. PICK line \in Lines(n, t) : \E v \in line.values : a = <<line.ttl, v>>
    BY <1>2, <2>1
  <2>3. PICK i \in Positions(f, <<n, t>>) :
          line = [ttl |-> f[i].ttl, values |-> uniqueSorted(f[i].values)]
    BY <2>2
  <2>4. f[i] \in RRset(T, n, t)
    BY <1>1, <1>4 DEF RRset
  <2> QED
    BY <2>2, <2>3, <2>4
<1>6. ASSUME NEW r \in RRset(T, n, t), NEW v \in uniqueSorted(r.values)
      PROVE  <<r.ttl, v>> \in Answers(out, n, t)
  <2>1. PICK i \in DOMAIN f : f[i] = r
    BY <1>1 DEF RRset
  <2>2. r.fqdn = n /\ r.type = t /\ r \in Kept(spec, recs)
    BY DEF RRset
  <2> DEFINE k == <<relativeName(r.fqdn, Z), r.type>>
  <2>3. k \in D /\ Completed(k[1], Z) = n /\ k[2] = t
    BY <2>1, <2>2, KeptTyped
  <2>4. i \in Positions(f, <<n, t>>)
    BY <2>1, <2>2 DEF Positions
  <2>5. [ttl |-> r.ttl, values |-> uniqueSorted(r.values)] \in Lines(n, t)
    BY <2>1, <2>4
  <2>6. [ttl |-> r.ttl, values |-> uniqueSorted(r.values)] \in out.sets[k]
    BY <1>2, <2>3, <2>5
  <2> QED
    BY <1>3, <2>3, <2>6
<1> QED
  BY <1>5, <1>6

\* The RRset of a stanza has the lowest TTL and the values of its records.
LEMMA TemplateAnswers ==
  ASSUME NEW spec, NEW recs, Listed(spec, recs), NEW T, T \subseteq Kept(spec, recs),
         IsFiniteSet(T), NEW f \in Orders(T), NEW out,
         out.policy = "Forward", out.sets = TemplateOf(f), NEW n, NEW t
  PROVE  /\ Folded(Answers(out, n, t)) = TemplateRRset(RRset(T, n, t))
         /\ \A a \in Answers(out, n, t) :
              \E r \in RRset(T, n, t) : a[2] \in uniqueSorted(r.values)
<1> DEFINE D == {<<f[i].fqdn, f[i].type>> : i \in DOMAIN f}
           I == Positions(f, <<n, t>>)
           R == RRset(T, n, t)
           ttl == SetTTL(f, I)
           V == SetValues(f, I)
<1>1. /\ \A i \in DOMAIN f : f[i] \in T
      /\ \A r \in T : \E i \in DOMAIN f : f[i] = r
      /\ DOMAIN f \subseteq Nat
  <2>1. 1..Cardinality(T) \subseteq Nat
    BY FS_CardinalityType
  <2> QED
    BY <2>1, OrderCovers
<1>2. /\ I \subseteq DOMAIN f
      /\ \A i \in I : f[i] \in R
      /\ \A r \in R : \E i \in I : f[i] = r
  BY <1>1 DEF Positions, RRset
<1>3. Answers(out, n, t) = UNION {{<<out.sets[k].ttl, v>> : v \in out.sets[k].values} :
                                  k \in {j \in DOMAIN out.sets : j = <<n, t>>}}
  BY DEF Answers
<1>4. /\ DOMAIN out.sets = D
      /\ <<n, t>> \in D => out.sets[<<n, t>>] = [ttl |-> ttl, values |-> V]
  BY DEF TemplateOf
<1>5. <<n, t>> \in D <=> I # {}
  BY DEF Positions
<1>6. CASE I = {}
  <2>1. Answers(out, n, t) = {} /\ R = {}
    BY <1>2, <1>3, <1>4, <1>5, <1>6
  <2> QED
    BY <2>1 DEF Folded, TemplateRRset
<1>7. CASE I # {}
  <2>1. Answers(out, n, t) = {<<ttl, v>> : v \in V}
    <3>1. out.sets[<<n, t>>].ttl = ttl /\ out.sets[<<n, t>>].values = V
      BY <1>4, <1>5, <1>7
    <3> QED
      BY <1>3, <1>4, <1>5, <1>7, <3>1
  <2>2. V = UNION {{v \in uniqueSorted(f[i].values) :
                      \A h \in I : h < i =>
                        \A w \in uniqueSorted(f[h].values) : Fold[w] # Fold[v]} : i \in I}
    BY DEF SetValues
  <2>3. \A v \in V : \E r \in R : v \in uniqueSorted(r.values)
    BY <1>2, <2>2
  <2>4. ASSUME NEW r \in R, NEW u \in uniqueSorted(r.values)
        PROVE  \E v \in V : Fold[v] = Fold[u]
    <3> DEFINE S == {i \in I : \E v \in uniqueSorted(f[i].values) : Fold[v] = Fold[u]}
    <3>1. S \subseteq Nat /\ S # {}
      BY <1>1, <1>2
    <3>2. PICK m \in S : \A j \in S : m <= j
      BY <3>1, LeastExists
    <3>3. PICK v \in uniqueSorted(f[m].values) : Fold[v] = Fold[u]
      BY <3>2
    <3>4. \A h \in I : h < m => h \notin S
      BY <1>1, <1>2, <3>1, <3>2
    <3>5. \A h \in I : h < m => \A w \in uniqueSorted(f[h].values) : Fold[w] # Fold[v]
      BY <3>3, <3>4
    <3> QED
      BY <2>2, <3>2, <3>3, <3>5
  <2>5. \A r \in R : r.ttl \in Nat
    BY KeptTyped DEF RRset
  <2>6. ttl \in {r.ttl : r \in R} /\ \A r \in R : ttl <= r.ttl
    <3> DEFINE S == {f[i].ttl : i \in I}
    <3>1. S \subseteq Nat /\ S # {}
      BY <1>2, <1>7, <2>5
    <3>2. \E m \in S : \A i \in I : m <= f[i].ttl
      <4>1. PICK m \in S : \A j \in S : m <= j
        BY <3>1, LeastExists
      <4> QED
        BY <4>1
    <3>3. ttl \in S /\ \A i \in I : ttl <= f[i].ttl
      BY <3>2 DEF SetTTL
    <3> QED
      BY <1>2, <3>3
  <2>7. ASSUME NEW u \in {r.ttl : r \in R}, \A r \in R : u <= r.ttl PROVE u = ttl
    <3> HIDE DEF ttl
    <3>1. u <= ttl /\ ttl <= u /\ u \in Nat /\ ttl \in Nat
      BY <2>5, <2>6, <2>7
    <3> QED
      BY <3>1
  <2> HIDE DEF ttl, V, R, I, D
  <2>8. Folded(Answers(out, n, t)) = {<<ttl, Fold[v]>> : v \in V}
    <3>1. \A v : <<ttl, v>>[1] = ttl /\ <<ttl, v>>[2] = v
      OBVIOUS
    <3>2. ASSUME NEW v \in V PROVE <<ttl, Fold[v]>> \in Folded(Answers(out, n, t))
      <4>1. <<ttl, v>> \in Answers(out, n, t)
        BY <2>1
      <4> QED
        BY <3>1, <4>1 DEF Folded
    <3>3. ASSUME NEW b \in Folded(Answers(out, n, t))
          PROVE  \E v \in V : b = <<ttl, Fold[v]>>
      <4>1. PICK a \in Answers(out, n, t) : b = <<a[1], Fold[a[2]]>>
        BY DEF Folded
      <4>2. PICK v \in V : a = <<ttl, v>>
        BY <2>1
      <4> QED
        BY <3>1, <4>1, <4>2
    <3> QED
      BY <3>2, <3>3
  <2>9. ASSUME NEW b PROVE b \in {<<ttl, Fold[v]>> : v \in V} <=> b \in TemplateRRset(R)
    <3>1. ASSUME NEW v \in V PROVE <<ttl, Fold[v]>> \in TemplateRRset(R)
      BY <2>3, <2>6 DEF TemplateRRset
    <3>2. ASSUME b \in TemplateRRset(R) PROVE \E v \in V : b = <<ttl, Fold[v]>>
      <4>1. PICK q \in R : /\ \A r \in R : q.ttl <= r.ttl
                           /\ \E r \in R : \E u \in uniqueSorted(r.values) :
                                b = <<q.ttl, Fold[u]>>
        BY <3>2 DEF TemplateRRset
      <4>2. q.ttl = ttl
        BY <2>7, <4>1
      <4> QED
        BY <2>4, <4>1, <4>2
    <3> QED
      BY <3>1, <3>2
  <2>10. \A a \in Answers(out, n, t) : \E r \in R : a[2] \in uniqueSorted(r.values)
    BY <2>1, <2>3
  <2>11. {<<ttl, Fold[v]>> : v \in V} = TemplateRRset(R)
    BY <2>9, Zenon
  <2> QED
    BY <2>8, <2>10, <2>11 DEF R
<1> QED
  BY <1>6, <1>7

\* An RRset as a zone of either policy answers it.
Rendered(spec, R) ==
  IF effectivePolicy(spec) = "Forward" THEN TemplateRRset(R) ELSE FileRRset(R)

\* Whatever order the sort leaves, a rendering answers with what survives.
LEMMA RenderingAnswers ==
  ASSUME NEW spec, NEW recs, Listed(spec, recs), NEW out \in Renderings(spec, recs)
  PROVE  \E T \in Survivors(Kept(spec, recs)) :
           \A n : \A t \in Types :
             /\ Folded(Answers(out, n, t)) = Rendered(spec, RRset(T, n, t))
             /\ \A a \in Answers(out, n, t) :
                  \E r \in RRset(T, n, t) : a[2] \in uniqueSorted(r.values)
<1> DEFINE Z == NormalizeZone(spec.suffix)
           K == Kept(spec, recs)
<1>1. PICK f \in DeduplicateAndSort(K) :
        /\ out.policy = effectivePolicy(spec) /\ out.zone = Z
        /\ out.sets = IF effectivePolicy(spec) = "Forward" THEN TemplateOf(f)
                      ELSE FileOf(f, Z, zoneTTL(spec))
  BY DEF Renderings
<1>2. PICK T \in Survivors(K) : f \in Orders(T)
  BY DEF DeduplicateAndSort
<1>3. T \subseteq K /\ IsFiniteSet(T)
  BY KeptFinite, FS_Subset DEF Survivors
<1>4. effectivePolicy(spec) \in {"Forward", "NXDOMAIN"}
  <2>1. spec.policy \in {"", "Forward", "NXDOMAIN"}
    BY Zenon DEF Listed, PrivateDNSZoneSpec
  <2> QED
    BY <2>1 DEF effectivePolicy
<1> HIDE DEF K, Z
<1>6. CASE effectivePolicy(spec) = "Forward"
  <2>1. ASSUME NEW n, NEW t \in Types
        PROVE  /\ Folded(Answers(out, n, t)) = Rendered(spec, RRset(T, n, t))
               /\ \A a \in Answers(out, n, t) :
                    \E r \in RRset(T, n, t) : a[2] \in uniqueSorted(r.values)
    BY <1>1, <1>2, <1>3, <1>6, TemplateAnswers DEF Rendered, K
  <2> QED
    BY <1>2, <2>1 DEF K
<1>7. CASE effectivePolicy(spec) = "NXDOMAIN"
  <2>1. ASSUME NEW n, NEW t \in Types
        PROVE  /\ Folded(Answers(out, n, t)) = Rendered(spec, RRset(T, n, t))
               /\ \A a \in Answers(out, n, t) :
                    \E r \in RRset(T, n, t) : a[2] \in uniqueSorted(r.values)
    <3> DEFINE R == RRset(T, n, t)
               A == UNION {{<<r.ttl, v>> : v \in uniqueSorted(r.values)} : r \in R}
    <3>1. Answers(out, n, t) = A
      BY <1>1, <1>2, <1>3, <1>7, FileAnswers DEF K, Z
    <3>2. Folded(A) = FileRRset(R)
      <4> HIDE DEF R
      <4>1. \A u, v : <<u, v>>[1] = u /\ <<u, v>>[2] = v
        OBVIOUS
      <4>2. ASSUME NEW b \in Folded(A) PROVE b \in FileRRset(R)
        <5>1. PICK a \in A : b = <<a[1], Fold[a[2]]>>
          BY DEF Folded
        <5>2. PICK r \in R : \E v \in uniqueSorted(r.values) : a = <<r.ttl, v>>
          OBVIOUS
        <5>3. PICK v \in uniqueSorted(r.values) : a = <<r.ttl, v>>
          BY <5>2
        <5> QED
          BY <4>1, <5>1, <5>3 DEF FileRRset
      <4>3. ASSUME NEW b \in FileRRset(R) PROVE b \in Folded(A)
        <5>1. PICK r \in R : \E v \in uniqueSorted(r.values) : b = <<r.ttl, Fold[v]>>
          BY DEF FileRRset
        <5>2. PICK v \in uniqueSorted(r.values) : b = <<r.ttl, Fold[v]>>
          BY <5>1
        <5>3. <<r.ttl, v>> \in A
          OBVIOUS
        <5> HIDE DEF A
        <5> QED
          BY <4>1, <5>2, <5>3 DEF Folded
      <4> QED
        BY <4>2, <4>3
    <3>3. \A a \in A : \E r \in R : a[2] \in uniqueSorted(r.values)
      OBVIOUS
    <3> QED
      BY <1>7, <3>1, <3>2, <3>3 DEF Rendered
  <2> QED
    BY <1>2, <2>1 DEF K
<1> QED
  BY <1>4, <1>6, <1>7

\* Nothing of a record's type is answered that no kept record declares.
LEMMA AnswersAreKept ==
  ASSUME NEW spec, NEW recs, Listed(spec, recs), NEW out \in Renderings(spec, recs)
  PROVE  \A n : \A t \in Types : \A a \in Answers(out, n, t) :
           \E r \in Kept(spec, recs) : r.fqdn = n /\ r.type = t /\ a[2] \in ValuesOf(r)
<1>1. PICK T \in Survivors(Kept(spec, recs)) :
        \A n : \A t \in Types : \A a \in Answers(out, n, t) :
          \E r \in RRset(T, n, t) : a[2] \in uniqueSorted(r.values)
  BY RenderingAnswers
<1>2. T \subseteq Kept(spec, recs)
  BY DEF Survivors
<1>3. \A r \in Kept(spec, recs) : uniqueSorted(r.values) \subseteq ValuesOf(r)
  BY KeptTyped, UniqueValues DEF ValuesOf
<1> QED
  BY <1>1, <1>2, <1>3 DEF RRset

\* SOA and NS are answered at the zone's own name only.
LEMMA ApexAnswers ==
  ASSUME NEW spec, NEW recs, Listed(spec, recs), NEW out \in Renderings(spec, recs),
         NEW n, NEW t \in ApexTypes, n # out.zone
  PROVE  Answers(out, n, t) = {}
<1> DEFINE Z == NormalizeZone(spec.suffix)
           K == Kept(spec, recs)
<1>1. PICK f \in DeduplicateAndSort(K) :
        /\ out.policy = effectivePolicy(spec) /\ out.zone = Z
        /\ out.sets = IF effectivePolicy(spec) = "Forward" THEN TemplateOf(f)
                      ELSE FileOf(f, Z, zoneTTL(spec))
  BY DEF Renderings
<1>2. PICK T \in Survivors(K) : f \in Orders(T)
  BY DEF DeduplicateAndSort
<1>3. T \subseteq K /\ IsFiniteSet(T)
  BY KeptFinite, FS_Subset DEF Survivors
<1>4. \A i \in DOMAIN f : f[i].type \in Types
  BY <1>2, <1>3, OrderCovers, KeptTyped
<1>5. effectivePolicy(spec) \in {"Forward", "NXDOMAIN"}
  <2>1. spec.policy \in {"", "Forward", "NXDOMAIN"}
    BY Zenon DEF Listed, PrivateDNSZoneSpec
  <2> QED
    BY <2>1 DEF effectivePolicy
<1>6. Completed(<<>>, Z) = Z
  <2>1. Z \in Seq(Labels)
    BY SpecFields, NormalDomain DEF Listed, NormalizeZone
  <2> QED
    BY <2>1 DEF Completed
<1>7. Types \cap ApexTypes = {}
  BY DEF Types, ApexTypes
<1> HIDE DEF K, Z
<1>8. CASE effectivePolicy(spec) = "Forward"
  <2>1. <<n, t>> \notin DOMAIN out.sets
    BY <1>1, <1>4, <1>7, <1>8 DEF TemplateOf
  <2> QED
    BY <1>1, <1>8, <2>1 DEF Answers
<1>9. CASE effectivePolicy(spec) = "NXDOMAIN"
  <2>1. DOMAIN out.sets
          = ({<<>>} \X ApexTypes)
              \cup {<<relativeName(f[i].fqdn, Z), f[i].type>> : i \in DOMAIN f}
    BY <1>1, <1>9 DEF FileOf
  <2>2. ASSUME NEW k \in DOMAIN out.sets, Completed(k[1], Z) = n, k[2] = t PROVE FALSE
    BY <1>1, <1>4, <1>6, <1>7, <2>1, <2>2
  <2>3. {j \in DOMAIN out.sets : <<Completed(j[1], out.zone), j[2]>> = <<n, t>>} = {}
    BY <1>1, <2>2
  <2> QED
    BY <1>1, <1>9, <2>3 DEF Answers
<1> QED
  BY <1>5, <1>8, <1>9

\* Every value of a kept delegated record is answered in some spelling.
LEMMA DelegatedIsAnswered ==
  ASSUME NEW spec, NEW recs, Listed(spec, recs), NEW out \in Renderings(spec, recs),
         NEW id \in Ids, NEW r, r = Compiled(spec, recs, id), r \in Kept(spec, recs),
         NEW v \in ValuesOf(r)
  PROVE  \E a \in Answers(out, r.fqdn, r.type) : Fold[a[2]] = Fold[v]
<1>1. PICK T \in Survivors(Kept(spec, recs)) :
        Folded(Answers(out, r.fqdn, r.type)) = Rendered(spec, RRset(T, r.fqdn, r.type))
  BY KeptTyped, RenderingAnswers
<1> DEFINE R == RRset(T, r.fqdn, r.type)
<1>2. r \in R
  BY DelegatedSurvives DEF RRset
<1>3. \A q \in R : q.ttl \in Nat
  BY KeptTyped DEF RRset, Survivors
<1>4. PICK w \in uniqueSorted(r.values) : Fold[w] = Fold[v]
  BY KeptTyped, UniqueValues DEF ValuesOf
<1>5. \E u : <<u, Fold[v]>> \in Rendered(spec, R)
  <2>1. <<r.ttl, Fold[v]>> \in FileRRset(R)
    BY <1>2, <1>4 DEF FileRRset
  <2>2. \E q \in R : \A s \in R : q.ttl <= s.ttl
    <3> DEFINE S == {q.ttl : q \in R}
    <3>1. S \subseteq Nat /\ S # {}
      BY <1>2, <1>3
    <3>2. PICK m \in S : \A j \in S : m <= j
      BY <3>1, LeastExists
    <3> QED
      BY <3>2
  <2>3. \E q \in R : <<q.ttl, Fold[v]>> \in TemplateRRset(R)
    BY <1>2, <1>4, <2>2 DEF TemplateRRset
  <2> QED
    BY <2>1, <2>3 DEF Rendered
<1>6. PICK u : <<u, Fold[v]>> \in Folded(Answers(out, r.fqdn, r.type))
  BY <1>1, <1>5
<1>7. PICK a \in Answers(out, r.fqdn, r.type) : <<u, Fold[v]>> = <<a[1], Fold[a[2]]>>
  BY <1>6 DEF Folded
<1> QED
  BY <1>7

\* Two renderings of the same objects answer alike.
LEMMA RenderingsAgree ==
  ASSUME NEW spec, NEW recs, Listed(spec, recs),
         NEW o \in Renderings(spec, recs), NEW p \in Renderings(spec, recs), NEW n,
         NEW t \in Types
  PROVE  Folded(Answers(o, n, t)) = Folded(Answers(p, n, t))
<1>1. PICK T \in Survivors(Kept(spec, recs)) :
        Folded(Answers(o, n, t)) = Rendered(spec, RRset(T, n, t))
  BY RenderingAnswers
<1>2. PICK U \in Survivors(Kept(spec, recs)) :
        Folded(Answers(p, n, t)) = Rendered(spec, RRset(U, n, t))
  BY RenderingAnswers
<1>3. T = U
  BY OneSurvivor
<1> QED
  BY <1>1, <1>2, <1>3

-----------------------------------------------------------------------------
(* The reconcile *)

\* What a reconcile of the current objects reports.
VerdictResult ==
  [ready    |-> ZoneVerdict,
   excluded |-> IF ZoneVerdict = "Ready" THEN Excluded(zone, rec) ELSE {}]

\* Until somebody edits, what is served is what the listed objects are rendered
\* to, or what is held for them.
ServedInv ==
  ~edited => IF ZoneVerdict = "Ready" THEN served \in Renderings(zone, rec)
                                      ELSE Output(ZoneVerdict) = {served}

\* What a reconcile that listed the current objects, with their stored statuses,
\* is about to report is the verdict on them.
ResultInv ==
  pc # "idle" /\ synced =>
    /\ result = VerdictResult
    /\ \A id \in Ids : outcomes[id] = Outcome(id, ZoneVerdict)

\* What it has reported, or need not report, is stored.
ProgressInv ==
  pc # "idle" /\ synced =>
    /\ pc = "records" /\ zone # NoZone => zstat = result
    /\ \A id \in Ids \ leaving :
         rec[id] # NoRecord => id \in todo \/ status[id] = outcomes[id]

\* When it has completed, the statuses are the verdict on the current objects.
SyncInv ==
  synced =>
    /\ ~edited
    /\ pc = "idle" /\ zone # NoZone =>
         /\ zstat = VerdictResult
         /\ \A id \in Ids \ leaving :
              rec[id] # NoRecord => status[id] = Outcome(id, ZoneVerdict)

RecordsInv == TypeOK /\ ServedInv /\ ResultInv /\ ProgressInv /\ SyncInv

\* The verdicts depend on the zone and the records only.
LEMMA VerdictStays ==
  ASSUME zone' = zone, rec' = rec
  PROVE  /\ ZoneVerdict' = ZoneVerdict /\ VerdictResult' = VerdictResult
         /\ \A id \in Ids : Outcome(id, ZoneVerdict)' = Outcome(id, ZoneVerdict)
<1>1. ZoneVerdict' = ZoneVerdict
  BY DEF ZoneVerdict
<1>2. VerdictResult' = VerdictResult
  BY <1>1 DEF VerdictResult
<1>3. \A id \in Ids : Outcome(id, ZoneVerdict)' = Outcome(id, ZoneVerdict)
  BY <1>1 DEF Outcome
<1> QED
  BY <1>1, <1>2, <1>3

\* So does what is held, as long as it is served.
LEMMA ServedStays ==
  ASSUME ServedInv, zone' = zone, rec' = rec, served' = served, edited' = edited
  PROVE  ServedInv'
<1>1. ZoneVerdict' = ZoneVerdict
  BY VerdictStays
<1>2. Output(ZoneVerdict)' = Output(ZoneVerdict)
  BY <1>1 DEF Output
<1> QED
  BY <1>1, <1>2 DEF ServedInv

\* A publication serves the verdict, and holds what it would hold again.
LEMMA PublishServes ==
  ASSUME Publish PROVE ServedInv'
<1>1. zone' = zone /\ rec' = rec /\ served' \in Output(ZoneVerdict)
  BY DEF Publish, inputs
<1>2. ZoneVerdict' = ZoneVerdict
  BY <1>1, VerdictStays
<1>3. CASE ZoneVerdict = "Ready"
  BY <1>1, <1>2, <1>3 DEF ServedInv, Output
<1>4. CASE ZoneVerdict \in {"InvalidRecordSet", "ZoneRenderFailed"}
  <2>1. Output(ZoneVerdict)
          = IF served.zone = NormalizeZone(zone.suffix) THEN {served} ELSE {NoOutput}
    BY <1>4 DEF Output
  <2>2. Output(ZoneVerdict)'
          = IF served'.zone = NormalizeZone(zone.suffix) THEN {served'} ELSE {NoOutput}
    BY <1>1, <1>2, <1>4 DEF Output
  <2>3. Output(ZoneVerdict)' = {served'}
    BY <1>1, <2>1, <2>2
  <2> QED
    BY <1>2, <1>4, <2>3 DEF ServedInv
<1>5. CASE ZoneVerdict \notin {"Ready", "InvalidRecordSet", "ZoneRenderFailed"}
  BY <1>1, <1>2, <1>5 DEF ServedInv, Output
<1> QED
  BY <1>3, <1>4, <1>5

\* Every step keeps the invariant.
LEMMA RecordsStep == RecordsInv /\ [Next]_vars => RecordsInv'
<1> SUFFICES ASSUME RecordsInv, [Next]_vars PROVE RecordsInv'
  OBVIOUS
<1> USE DEF RecordsInv
<1>0. TypeOK'
  BY TypeStep
<1>1. CASE Publish
  <2>1. /\ zone' = zone /\ rec' = rec /\ leaving' = leaving
        /\ zstat' = zstat /\ status' = status
        /\ edited' = FALSE /\ synced' = UpToDate
    BY <1>1 DEF Publish, inputs, statuses
  <2>2. ServedInv'
    BY <1>1, PublishServes
  <2>3. /\ result' = VerdictResult
        /\ \A id \in Ids : outcomes'[id] = Outcome(id, ZoneVerdict)
        /\ todo' = {id \in Ids \ leaving :
                      rec[id] # NoRecord /\ cache[id] # Outcome(id, ZoneVerdict)}
        /\ pc' = IF zone # NoZone /\ zcache # VerdictResult THEN "zone" ELSE "records"
    BY <1>1 DEF Publish, Report, VerdictResult
  <2>4. ResultInv'
    BY <2>1, <2>3, VerdictStays DEF ResultInv
  <2>5. ProgressInv'
    <3> SUFFICES ASSUME synced' PROVE ProgressInv'
      BY DEF ProgressInv
    <3>1. zcache = zstat /\ cache = status
      BY <2>1 DEF UpToDate
    <3>2. pc' = "records" /\ zone # NoZone => zstat = result'
      BY <2>3, <3>1
    <3>3. ASSUME NEW id \in Ids \ leaving, rec[id] # NoRecord
          PROVE  id \in todo' \/ status[id] = outcomes'[id]
      BY <2>3, <3>1, <3>3
    <3> QED
      BY <2>1, <3>2, <3>3 DEF ProgressInv
  <2>6. SyncInv'
    BY <2>1, <2>3 DEF SyncInv
  <2> QED
    BY <1>0, <2>2, <2>4, <2>5, <2>6
<1>2. CASE PublishFails
  <2>1. ServedInv'
    BY <1>2, ServedStays DEF PublishFails, inputs
  <2>2. ~synced'
    BY <1>2 DEF PublishFails
  <2> QED
    BY <1>0, <2>1, <2>2 DEF ResultInv, ProgressInv, SyncInv
<1>3. CASE Unavailable
  <2>1. ServedInv'
    BY <1>3, ServedStays DEF Unavailable, inputs
  <2>2. ~synced'
    BY <1>3 DEF Unavailable
  <2> QED
    BY <1>0, <2>1, <2>2 DEF ResultInv, ProgressInv, SyncInv
<1>4. CASE ReportZone
  <2>1. /\ zone' = zone /\ rec' = rec /\ leaving' = leaving /\ served' = served
        /\ status' = status /\ result' = result /\ outcomes' = outcomes /\ todo' = todo
        /\ edited' = edited /\ synced' = synced /\ pc = "zone" /\ pc' = "records"
        /\ zone # NoZone => zstat' = result
    BY <1>4 DEF ReportZone, inputs
  <2>2. ServedInv'
    BY <2>1, ServedStays
  <2>3. ResultInv'
    BY <2>1, VerdictStays DEF ResultInv
  <2>4. ProgressInv'
    BY <2>1 DEF ProgressInv
  <2>5. SyncInv'
    BY <2>1 DEF SyncInv
  <2> QED
    BY <1>0, <2>2, <2>3, <2>4, <2>5
<1>5. CASE ReportRecord
  <2>1. /\ zone' = zone /\ rec' = rec /\ leaving' = leaving /\ served' = served
        /\ zstat' = zstat /\ result' = result /\ outcomes' = outcomes
        /\ edited' = edited /\ synced' = synced /\ pc = "records" /\ pc' = "records"
    BY <1>5 DEF ReportRecord, inputs
  <2>2. PICK id \in todo :
          /\ status' = IF rec[id] = NoRecord THEN status
                       ELSE [status EXCEPT ![id] = outcomes[id]]
          /\ todo' = todo \ {id}
    BY <1>5 DEF ReportRecord
  <2>3. ServedInv'
    BY <2>1, ServedStays
  <2>4. ResultInv'
    BY <2>1, VerdictStays DEF ResultInv
  <2>5. ASSUME NEW j \in Ids, j \in todo \/ status[j] = outcomes[j], rec[j] # NoRecord
        PROVE  j \in todo' \/ status'[j] = outcomes[j]
    BY <2>2, <2>5 DEF TypeOK
  <2>6. ProgressInv'
    BY <2>1, <2>5 DEF ProgressInv
  <2>7. SyncInv'
    BY <2>1 DEF SyncInv
  <2> QED
    BY <1>0, <2>3, <2>4, <2>6, <2>7
<1>6. CASE Finish
  <2>1. /\ zone' = zone /\ rec' = rec /\ leaving' = leaving /\ served' = served
        /\ zstat' = zstat /\ status' = status /\ edited' = edited /\ synced' = synced
        /\ pc = "records" /\ todo = {} /\ pc' = "idle"
    BY <1>6 DEF Finish, Return, inputs, statuses
  <2>2. ServedInv'
    BY <2>1, ServedStays
  <2>3. SyncInv'
    <3> SUFFICES ASSUME synced' PROVE SyncInv'
      BY DEF SyncInv
    <3>1. ~edited
      BY <2>1 DEF SyncInv
    <3>2. ASSUME zone # NoZone
          PROVE  /\ zstat = VerdictResult
                 /\ \A id \in Ids \ leaving :
                      rec[id] # NoRecord => status[id] = Outcome(id, ZoneVerdict)
      BY <2>1, <3>2 DEF ResultInv, ProgressInv
    <3> QED
      BY <2>1, <3>1, <3>2, VerdictStays DEF SyncInv
  <2> QED
    BY <1>0, <2>1, <2>2, <2>3 DEF ResultInv, ProgressInv
<1>7. CASE Abort
  <2>1. ServedInv'
    BY <1>7, ServedStays DEF Abort, inputs
  <2>2. ~synced'
    BY <1>7 DEF Abort
  <2> QED
    BY <1>0, <2>1, <2>2 DEF ResultInv, ProgressInv, SyncInv
<1>8. CASE Edit
  <2>1. edited' = TRUE /\ synced' = FALSE
    BY <1>8 DEF Edit
  <2> QED
    BY <1>0, <2>1 DEF ServedInv, ResultInv, ProgressInv, SyncInv
<1>9. CASE Deliver \/ OtherZone \/ UNCHANGED vars
  <2>1. /\ zone' = zone /\ rec' = rec /\ leaving' = leaving /\ served' = served
        /\ zstat' = zstat /\ status' = status /\ result' = result /\ pc' = pc
        /\ outcomes' = outcomes /\ todo' = todo /\ edited' = edited /\ synced' = synced
    BY <1>9 DEF Deliver, OtherZone, vars, inputs, statuses
  <2>2. ServedInv'
    BY <2>1, ServedStays
  <2>3. ResultInv'
    BY <2>1, VerdictStays DEF ResultInv
  <2>4. ProgressInv'
    BY <2>1 DEF ProgressInv
  <2>5. SyncInv'
    BY <2>1, VerdictStays DEF SyncInv
  <2> QED
    BY <1>0, <2>2, <2>3, <2>4, <2>5
<1> QED
  BY <1>1, <1>2, <1>3, <1>4, <1>5, <1>6, <1>7, <1>8, <1>9
  DEF Next, Reconcile, Failure, Authors, EditZone, EditRecord, DeleteRecord

-----------------------------------------------------------------------------
(* Theorems *)

\* Objects, outputs and statuses stay well formed: in particular every record
\* that is reported on gets a reason (newRecordOutcomes seeds them all).
THEOREM RecordsTypeCorrect == Spec => []TypeOK
<1>1. ASSUME Init PROVE TypeOK
  <2>1. /\ served.policy \in {"none", "Forward", "NXDOMAIN"}
        /\ \A z \in {zstat, zcache, result} : z.ready \in ZoneReasons
    BY <1>1 DEF Init, NoOutput, NoResult, ZoneReasons
  <2>2. \A f \in {status, cache, outcomes} : f \in [Ids -> Reasons]
    BY <1>1 DEF Init, NoOutcomes, Reasons
  <2>3. rec \in [Ids -> RecordSpecs \cup {NoRecord}]
    BY <1>1 DEF Init
  <2>4. edits \in 0..MaxEdits
    BY <1>1, BoundAssumption DEF Init
  <2> QED
    BY <1>1, <2>1, <2>2, <2>3, <2>4 DEF Init, TypeOK
<1> QED
  BY <1>1, TypeStep, PTL DEF Spec

\* For every set of records, namespaces and zone specs, a delegated record that
\* recordsForZone denies changes nothing, and one it admits changes nothing at
\* any name but its own, and blocks the zone only by meeting an inline record.
THEOREM OneRecordAlwaysCostsOneName == Spec => []OneRecordCostsOneName
<1>1. TypeOK => OneRecordCostsOneName
  BY OneRecord DEF TypeOK, RecordsTyped, OneRecordCostsOneName
<1> QED
  BY <1>1, RecordsTypeCorrect, PTL

\* RenderZone's validation after DeduplicateAndSort never refuses what
\* recordsForZone has kept: ZoneRenderFailed is unreachable.
THEOREM RenderingNeverRefuses == Spec => []RenderNeverRefuses
<1>1. TypeOK => RenderNeverRefuses
  BY NothingRefused DEF TypeOK, RenderNeverRefuses, HasSpec
<1> QED
  BY <1>1, RecordsTypeCorrect, PTL

\* The inductive invariant: served output, pending reports and statuses are
\* those of the current objects until somebody edits.
THEOREM RecordsInvHolds == Spec => []RecordsInv
<1>1. ASSUME Init, TypeOK PROVE RecordsInv
  BY <1>1 DEF Init, RecordsInv, ServedInv, ResultInv, ProgressInv, SyncInv
<1>2. Init /\ TypeOK => RecordsInv
  BY <1>1
<1> QED
  BY <1>2, RecordsTypeCorrect, RecordsStep, PTL DEF Spec

\* The listed objects are well formed.
LEMMA CurrentListed == TypeOK /\ zone # NoZone => Listed(zone, rec)
BY SpecsAssumption DEF TypeOK, Listed, SpecsAssumption

\* CNAMEsStandAlone of any output.
StandAlone(out) ==
  \A n \in NamesIn(out) :
    LET c == Answers(out, n, "CNAME")
    IN  /\ c # {} => \A t \in (Types \cup ApexTypes) \ {"CNAME"} :
                       Answers(out, n, t) = {} \/ (n = out.zone /\ t \in ApexTypes)
        /\ \A a, b \in c : Target[a[2]] = Target[b[2]]

\* What is rendered is kept, and what is kept is free of conflicts.
LEMMA RenderingStandsAlone ==
  ASSUME NEW spec, NEW recs, Listed(spec, recs), NEW out \in Renderings(spec, recs)
  PROVE  StandAlone(out)
<1> SUFFICES ASSUME NEW n \in NamesIn(out), NEW a \in Answers(out, n, "CNAME")
             PROVE  /\ \A t \in (Types \cup ApexTypes) \ {"CNAME"} :
                         Answers(out, n, t) = {} \/ (n = out.zone /\ t \in ApexTypes)
                    /\ \A b \in Answers(out, n, "CNAME") : Target[a[2]] = Target[b[2]]
  BY DEF StandAlone
<1> DEFINE K == Kept(spec, recs)
<1>1. \A b \in Answers(out, n, "CNAME") : Target[b[2]] \in Targets(K, n)
  BY AnswersAreKept DEF Targets, Types
<1>2. \E r \in K : r.fqdn = n
  BY AnswersAreKept DEF Types
<1>3. ~Conflict(K, n)
  BY <1>2, KeptAgrees
<1>4. ASSUME NEW t \in Types \ {"CNAME"}, NEW b \in Answers(out, n, t) PROVE FALSE
  <2>1. \E r \in K : r.fqdn = n /\ r.type # "CNAME"
    BY AnswersAreKept
  <2> QED
    BY <1>1, <1>3, <2>1 DEF Conflict
<1>5. \A b \in Answers(out, n, "CNAME") : Target[a[2]] = Target[b[2]]
  BY <1>1, <1>3 DEF Conflict
<1>6. \A t \in ApexTypes : Answers(out, n, t) = {} \/ n = out.zone
  BY ApexAnswers
<1> QED
  BY <1>4, <1>5, <1>6

\* Whatever is served, freshly rendered or held for an invalid zone, a CNAME
\* stands alone at its name and has one target: for every set of records and
\* every order in which they are sorted, but for the SOA and NS lines at the zone's
\* own name.
THEOREM CNAMEsAlwaysStandAlone == Spec => []CNAMEsStandAlone
<1>1. StandAlone(NoOutput)
  BY DEF StandAlone, NoOutput, Answers
<1>2. CNAMEsStandAlone <=> StandAlone(served)
  BY DEF CNAMEsStandAlone, StandAlone, AtApex
<1>3. Init => CNAMEsStandAlone
  BY <1>1, <1>2 DEF Init
<1>4. ASSUME TypeOK, CNAMEsStandAlone, [Next]_vars PROVE CNAMEsStandAlone'
  <2>1. CASE served' = served
    BY <1>4, <2>1 DEF CNAMEsStandAlone, AtApex
  <2>2. CASE Publish
    <3>1. served' \in Output(ZoneVerdict)
      BY <2>2 DEF Publish
    <3>2. CASE ZoneVerdict = "Ready"
      <4>1. zone # NoZone /\ served' \in Renderings(zone, rec)
        BY <3>1, <3>2 DEF Output, ZoneVerdict
      <4>2. StandAlone(served')
        BY <1>4, <4>1, CurrentListed, RenderingStandsAlone
      <4> QED
        BY <4>2 DEF CNAMEsStandAlone, StandAlone, AtApex
    <3>3. CASE ZoneVerdict # "Ready"
      <4>1. served' = served \/ served' = NoOutput
        BY <3>1, <3>3 DEF Output
      <4>2. StandAlone(served')
        BY <1>1, <1>2, <1>4, <4>1
      <4> QED
        BY <4>2 DEF CNAMEsStandAlone, StandAlone, AtApex
    <3> QED
      BY <3>2, <3>3
  <2> QED
    BY <1>4, <2>1, <2>2 DEF Next, vars, PublishFails, Unavailable, ReportZone, ReportRecord,
      Finish, Abort, Deliver, OtherZone, EditZone, EditRecord, DeleteRecord, Edit,
      Reconcile, Failure, Authors
<1>5. TypeOK /\ CNAMEsStandAlone /\ [Next]_vars => CNAMEsStandAlone'
  BY <1>4
<1> QED
  BY <1>3, <1>5, RecordsTypeCorrect, PTL DEF Spec

\* A record is accepted exactly when it is kept and the zone is Ready.
LEMMA AcceptedIsKept ==
  ASSUME zone # NoZone, ZoneVerdict = "Ready", NEW id \in Ids, Refers(rec, id)
  PROVE  Outcome(id, ZoneVerdict) = "Accepted" <=>
           Admissible(zone, rec, id) /\ Compiled(zone, rec, id) \in Kept(zone, rec)
<1> DEFINE S == Admitted(zone, rec)
           r == Compiled(zone, rec, id)
<1>1. Admissible(zone, rec, id) => r \in S
  BY DEF Admitted
<1>2. Outcome(id, ZoneVerdict) = "Accepted" <=>
        /\ namespaceAllowed(zone, id.ns) /\ Admissible(zone, rec, id)
        /\ ~Conflict(S, r.fqdn)
  BY DEF Outcome, Refers
<1> QED
  BY <1>1, <1>2 DEF Kept, Admissible

\* Once a reconcile has completed on the current objects, listed with their stored
\* statuses, and the zone is Ready, every value of an accepted record is answered,
\* nothing is answered that no inline or accepted record declares, and no record of
\* an excluded name is served.  The patches that were skipped are part of it.
THEOREM StatusAlwaysTellsTheTruth == Spec => []StatusTellsTheTruth
<1>1. ASSUME RecordsInv PROVE StatusTellsTheTruth
  <2> SUFFICES ASSUME synced, pc = "idle", zone # NoZone, zstat.ready = "Ready"
               PROVE  /\ \A id \in Ids \ leaving : Refers(rec, id) /\ status[id] = "Accepted" =>
                           LET r == Compiled(zone, rec, id)
                           IN  \A v \in ValuesOf(r) : Answered(r, v)
                      /\ \A n \in NamesIn(served), t \in Types :
                           \A a \in Answers(served, n, t) : Declared(n, t, a[2])
                      /\ \A n \in zstat.excluded, t \in Types : Answers(served, n, t) = {}
    BY DEF StatusTellsTheTruth
  <2>1. /\ zstat = VerdictResult /\ ~edited
        /\ \A id \in Ids \ leaving :
             rec[id] # NoRecord => status[id] = Outcome(id, ZoneVerdict)
    BY <1>1 DEF RecordsInv, SyncInv
  <2>2. ZoneVerdict = "Ready" /\ zstat.excluded = Excluded(zone, rec)
    BY <2>1 DEF VerdictResult
  <2>3. served \in Renderings(zone, rec)
    BY <1>1, <2>1, <2>2 DEF RecordsInv, ServedInv
  <2>4. Listed(zone, rec)
    BY <1>1, CurrentListed DEF RecordsInv
  <2>5. ASSUME NEW id \in Ids \ leaving, Refers(rec, id), status[id] = "Accepted",
               NEW v \in ValuesOf(Compiled(zone, rec, id))
        PROVE  Answered(Compiled(zone, rec, id), v)
    <3>1. Outcome(id, ZoneVerdict) = "Accepted"
      BY <2>1, <2>5 DEF Refers
    <3>2. Compiled(zone, rec, id) \in Kept(zone, rec)
      BY <2>2, <2>5, <3>1, AcceptedIsKept
    <3> QED
      BY <2>3, <2>4, <2>5, <3>2, DelegatedIsAnswered DEF Answered
  <2>6. ASSUME NEW n \in NamesIn(served), NEW t \in Types, NEW a \in Answers(served, n, t)
        PROVE  Declared(n, t, a[2])
    <3>1. PICK r \in Kept(zone, rec) : r.fqdn = n /\ r.type = t /\ a[2] \in ValuesOf(r)
      BY <2>3, <2>4, AnswersAreKept
    <3>2. CASE r \in InlineRecords(zone)
      BY <3>1, <3>2 DEF Declared
    <3>3. CASE r \notin InlineRecords(zone)
      <4>1. PICK id \in Ids : Admissible(zone, rec, id) /\ r = Compiled(zone, rec, id)
        BY <3>3 DEF Kept, Admitted
      <4>2. Refers(rec, id) /\ rec[id] # NoRecord
        BY <4>1 DEF Admissible, Refers
      <4>3. Outcome(id, ZoneVerdict) = "Accepted"
        BY <2>2, <4>1, <4>2, AcceptedIsKept
      <4>4. status[id] = "Accepted" \/ id \in leaving
        BY <2>1, <4>2, <4>3
      <4> QED
        BY <3>1, <4>1, <4>2, <4>4 DEF Declared
    <3> QED
      BY <3>2, <3>3
  <2>7. ASSUME NEW n \in zstat.excluded, NEW t \in Types, NEW a \in Answers(served, n, t)
        PROVE  FALSE
    <3>1. \E r \in Kept(zone, rec) : r.fqdn = n
      BY <2>3, <2>4, AnswersAreKept
    <3> QED
      BY <2>2, <3>1 DEF Kept, Excluded
  <2> QED
    BY <2>5, <2>6, <2>7
<1>2. RecordsInv => StatusTellsTheTruth
  BY <1>1
<1> QED
  BY <1>2, RecordsInvHolds, PTL

\* A reconcile that finds nothing edited publishes the answers it finds, for
\* every order in which DeduplicateAndSort meets and leaves the records.
THEOREM RepublishAlwaysKeepsAnswers == Spec => RepublishKeepsAnswers
<1>1. ASSUME RecordsInv, Publish, ~edited, NEW n, NEW t \in Types
      PROVE  Folded(Answers(served', n, t)) = Folded(Answers(served, n, t))
  <2>1. served' \in Output(ZoneVerdict)
    BY <1>1 DEF Publish
  <2>2. CASE ZoneVerdict = "Ready"
    <3>1. served \in Renderings(zone, rec) /\ served' \in Renderings(zone, rec)
      BY <1>1, <2>1, <2>2 DEF RecordsInv, ServedInv, Output
    <3>2. Listed(zone, rec)
      BY <1>1, <2>2, CurrentListed DEF RecordsInv, ZoneVerdict
    <3> QED
      BY <3>1, <3>2, RenderingsAgree
  <2>3. CASE ZoneVerdict # "Ready"
    <3>1. served' = served
      BY <1>1, <2>1, <2>3 DEF RecordsInv, ServedInv
    <3> QED
      BY <3>1
  <2> QED
    BY <2>2, <2>3
<1>2. RecordsInv /\ [Next]_vars =>
        [Publish /\ ~edited =>
           \A n \in NamesIn(served) \cup NamesIn(served'), t \in Types :
             {<<a[1], Fold[a[2]]>> : a \in Answers(served', n, t)}
               = {<<a[1], Fold[a[2]]>> : a \in Answers(served, n, t)}]_vars
  BY <1>1 DEF Folded
<1> QED
  BY <1>2, RecordsInvHolds, PTL DEF Spec, RepublishKeepsAnswers

=============================================================================
