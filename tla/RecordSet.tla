----------------------------- MODULE RecordSet ------------------------------
(***************************************************************************)
(* How a zone's inline records and the delegated PrivateDNSRecord objects  *)
(* that name it become what CoreDNS answers: names and their validation    *)
(* (internal/dns/record.go), admission and conflicts (recordsForZone),     *)
(* deduplication and order (DeduplicateAndSort), the lines of a zone file  *)
(* (RenderZone) and the RRsets of template stanzas (groupTemplateRecords). *)
(*                                                                         *)
(* A domain name is a sequence of labels.  A value is a member of Texts,   *)
(* taken to be free of surrounding blanks, which every reader of a value   *)
(* trims; the record types stand for the three ways values are compared:   *)
(* "A" as opaque data (AAAA, MX and SRV likewise), "CNAME" as a domain     *)
(* name, "TXT" to the letter.                                              *)
(***************************************************************************)
EXTENDS Integers, Sequences, FiniteSets

CONSTANTS
  Labels,      \* labels as an author may write them
  Lower,       \* strings.ToLower on labels
  ValidLabels, \* the lower-case labels validateDomain accepts
  MaxLabels,   \* the 253 characters of a domain, counted in labels
  Texts,       \* values as an author may write them
  Fold,        \* strings.ToLower on values
  Target,      \* normalizeDomain on values
  WellFormed,  \* validateValue: the texts that are values of a type
  Namespaces,
  Ids,         \* delegated records: [ns, name], the name a number for its order
  NoRecord     \* the delegated record does not exist

Types == {"A", "CNAME", "TXT"}

\* What authors may write.  The API server admits at least one value, and
\* positive TTLs only: 0 stands for one that is not set.
Names == [labels : Seq(Labels), rooted : BOOLEAN]

PrivateDNSRecordSpecInline ==
  [name : Names, type : Types, ttl : Nat, values : Seq(Texts) \ {<<>>}]

\* ours: zoneRef names the zone of the model.
PrivateDNSRecordSpec ==
  [name : Names, type : Types, ttl : Nat, values : Seq(Texts) \ {<<>>},
   ours : BOOLEAN]

\* name, a number for its order, is the object's.
PrivateDNSZoneSpec ==
  [suffix : Seq(Labels), name : Nat, ttl : Nat,
   policy : {"", "Forward", "NXDOMAIN"}, allowed : SUBSET Namespaces,
   records : Seq(PrivateDNSRecordSpecInline)]

ASSUME LabelsAssumption ==
  /\ ValidLabels \subseteq Labels
  /\ Lower \in [Labels -> Labels]
  /\ \A l \in Labels : Lower[Lower[l]] = Lower[l]
  /\ MaxLabels \in Nat

\* Lower case is coarser than spelling, and a domain's normal form coarser yet;
\* spelling a value in another case does not change whether it is well formed.
ASSUME TextsAssumption ==
  /\ Fold \in [Texts -> Texts] /\ Target \in [Texts -> Texts]
  /\ WellFormed \in [Types -> SUBSET Texts]
  /\ \A v, w \in Texts : Fold[v] = Fold[w] =>
       /\ Target[v] = Target[w]
       /\ \A t \in Types : v \in WellFormed[t] <=> w \in WellFormed[t]

ASSUME IdsAssumption ==
  /\ Ids \subseteq [ns : Namespaces, name : Nat] /\ IsFiniteSet(Ids)
  /\ NoRecord \notin PrivateDNSRecordSpec

-----------------------------------------------------------------------------
(* Names *)

\* Lower case, without the dots around it.
normalizeDomain(d) == [i \in DOMAIN d |-> Lower[d[i]]]

validateDomain(d) ==
  /\ Len(d) <= MaxLabels
  /\ \A i \in DOMAIN d : d[i] \in ValidLabels

\* NormalizeZone succeeds.
ValidZone(suffix) == suffix # <<>> /\ validateDomain(normalizeDomain(suffix))
NormalizeZone(suffix) == normalizeDomain(suffix)

NoName == <<>>

HasSuffix(d, suffix) ==
  /\ Len(suffix) <= Len(d)
  /\ SubSeq(d, Len(d) - Len(suffix) + 1, Len(d)) = suffix

\* A name as written: its labels ("" and "@" have none) and whether it ends in
\* a dot.  The result is NoName when the code returns an error.
FQDN(name, zone) ==
  LET fqdn == normalizeDomain(IF name.rooted THEN name.labels
                                             ELSE name.labels \o zone)
      inside == name.rooted => HasSuffix(fqdn, zone)
  IN  IF ~name.rooted /\ name.labels = <<>> THEN zone
      ELSE IF inside /\ validateDomain(fqdn) THEN fqdn ELSE NoName

\* A zone file's owner name ("@" is the empty sequence), and how CoreDNS
\* completes it with $ORIGIN.
relativeName(fqdn, zone) == SubSeq(fqdn, 1, Len(fqdn) - Len(zone))
Completed(relative, zone) == relative \o zone

-----------------------------------------------------------------------------
(* Records, compiled from what an author writes.                            *)

DefaultTTL == 300
zoneTTL(spec) == IF spec.ttl = 0 THEN DefaultTTL ELSE spec.ttl

Compile(draft, spec, source) ==
  [fqdn   |-> FQDN(draft.name, NormalizeZone(spec.suffix)),
   type   |-> draft.type,
   ttl    |-> IF draft.ttl = 0 THEN zoneTTL(spec) ELSE draft.ttl,
   values |-> draft.values,
   source |-> source]

InlineSource(spec, i) ==
  [kind |-> "PrivateDNSZone", ns |-> "", name |-> spec.name, pos |-> i]
RecordSource(id) ==
  [kind |-> "PrivateDNSRecord", ns |-> id.ns, name |-> id.name, pos |-> 0]

\* The name and the record on its own are in order.
ValidateRecord(r) ==
  /\ r.fqdn # NoName
  /\ r.ttl > 0
  /\ r.values # <<>>
  /\ \A i \in DOMAIN r.values : r.values[i] \in WellFormed[r.type]

ValuesOf(r) == {r.values[i] : i \in DOMAIN r.values}

\* The distinct CNAME targets at a name.
Targets(S, n) ==
  {Target[v] : v \in UNION {ValuesOf(r) :
                      r \in {s \in S : s.fqdn = n /\ s.type = "CNAME"}}}

\* Mutant: a CNAME may share its name with other types.
Conflict_TargetsOnly(S, n) == \E c, d \in Targets(S, n) : c # d

\* ValidateRecordSet's verdict on a name: a CNAME is alone there and has one
\* target.
Conflict(S, n) ==
  /\ Targets(S, n) # {}
  /\ \/ \E r \in S : r.fqdn = n /\ r.type # "CNAME"
     \/ \E c, d \in Targets(S, n) : c # d

ValidateRecordSet(S) == \A r \in S : ~Conflict(S, r.fqdn)

ValidateRecords(S) == (\A r \in S : ValidateRecord(r)) /\ ValidateRecordSet(S)

-----------------------------------------------------------------------------
(* recordsForZone.  spec is the zone's, rec the delegated records.          *)

InlineRecords(spec) ==
  {Compile(spec.records[i], spec, InlineSource(spec, i)) :
     i \in DOMAIN spec.records}

\* An empty list allows every namespace.
namespaceAllowed(spec, ns) == spec.allowed = {} \/ ns \in spec.allowed

Refers(rec, id) == rec[id] # NoRecord /\ rec[id].ours
Compiled(spec, rec, id) == Compile(rec[id], spec, RecordSource(id))

Admissible(spec, rec, id) ==
  /\ Refers(rec, id)
  /\ namespaceAllowed(spec, id.ns)
  /\ ValidateRecord(Compiled(spec, rec, id))

Admitted(spec, rec) ==
  {r \in InlineRecords(spec) : ValidateRecord(r)}
    \cup {Compiled(spec, rec, id) :
            id \in {i \in Ids : Admissible(spec, rec, i)}}

\* Mutant: conflicting records are published all the same.
Kept_Conflicting(spec, rec) == Admitted(spec, rec)

Kept(spec, rec) ==
  LET S == Admitted(spec, rec) IN {r \in S : ~Conflict(S, r.fqdn)}

Excluded(spec, rec) ==
  LET S == Admitted(spec, rec)
  IN  {n \in {r.fqdn : r \in S} : Conflict(S, n)}

\* Mutant: any conflict is the zone's.
Blocking_AnyConflict(spec, rec) ==
  \/ \E r \in InlineRecords(spec) : ~ValidateRecord(r)
  \/ Excluded(spec, rec) # {}

\* Only the zone's own records can make its desired state invalid.
Blocking(spec, rec) ==
  \E r \in InlineRecords(spec) :
    ~ValidateRecord(r) \/ Conflict(Admitted(spec, rec), r.fqdn)

-----------------------------------------------------------------------------
(* Rendering *)

\* The first spelling of each value, case ignored; the text is sorted.
uniqueSorted(values) ==
  {values[i] : i \in {j \in DOMAIN values :
                        \A h \in 1..(j - 1) : Fold[values[h]] # Fold[values[j]]}}

\* Mutant: the namespace is not part of a record's identity.
DedupKey_NoNamespace(r) ==
  <<r.fqdn, r.type, r.ttl, r.source.kind, r.source.name>>

DedupKey(r) ==
  <<r.fqdn, r.type, r.ttl, r.source.kind, r.source.ns, r.source.name>>

\* What the map in DeduplicateAndSort may hold in the end: one record per key,
\* the one that was seen last.  Inline records are seen in their order.
Survivors(S) ==
  {T \in SUBSET S :
     /\ \A r \in S : \E s \in T : DedupKey(s) = DedupKey(r)
     /\ \A r, s \in T : DedupKey(r) = DedupKey(s) => r = s
     /\ \A r \in T : \A s \in S :
          DedupKey(s) = DedupKey(r) => s.source.pos <= r.source.pos}

\* The orders the sort may leave them in.  Records are sorted by name, type
\* and the name of their source; the sort is not stable and its input comes
\* out of a map, so records that agree in these are in any order.  Records of
\* different names or types are kept apart by RRset below: their relative order
\* is fixed and not represented.
Orders(T) ==
  {f \in [1..Cardinality(T) -> T] :
     \A i, j \in DOMAIN f : i < j =>
       /\ f[i] # f[j]
       /\ f[i].fqdn = f[j].fqdn /\ f[i].type = f[j].type
            => f[i].source.name <= f[j].source.name}

DeduplicateAndSort(S) == UNION {Orders(T) : T \in Survivors(S)}

\* Where the records of an RRset are in an order.
Positions(f, k) == {i \in DOMAIN f : <<f[i].fqdn, f[i].type>> = k}

\* Every zone file opens with an SOA and an NS line at "@", with the zone's TTL;
\* both name the server ns.dns of the zone.
ApexTypes == {"SOA", "NS"}
ApexLine(zone, ttl) ==
  [ttl |-> ttl, values |-> {Completed(<<"ns", "dns">>, zone)}]

\* RenderZone: the lines at "@", then those of each RRset, a line for each value
\* of a record.  The order in which an RRset's lines are written shows in no
\* answer.
FileOf(f, zone, ttl) ==
  [k \in ({<<>>} \X ApexTypes)
           \cup {<<relativeName(f[i].fqdn, zone), f[i].type>> : i \in DOMAIN f} |->
     IF k[2] \in ApexTypes THEN {ApexLine(zone, ttl)}
     ELSE {[ttl |-> f[i].ttl, values |-> uniqueSorted(f[i].values)] :
             i \in Positions(f, <<Completed(k[1], zone), k[2]>>)}]

\* Mutant: the first record's TTL is the RRset's.
SetTTL_First(f, I) == f[CHOOSE i \in I : \A j \in I : i <= j].ttl

\* The lowest TTL of the records of an RRset.
SetTTL(f, I) == CHOOSE t \in {f[i].ttl : i \in I} : \A i \in I : t <= f[i].ttl

\* The values of an RRset: the first spelling of each, case ignored.
SetValues(f, I) ==
  UNION {{v \in uniqueSorted(f[i].values) :
            \A h \in I : h < i =>
              \A w \in uniqueSorted(f[h].values) : Fold[w] # Fold[v]} : i \in I}

\* groupTemplateRecords: one stanza per RRset, with one TTL.
TemplateOf(f) ==
  [k \in {<<f[i].fqdn, f[i].type>> : i \in DOMAIN f} |->
     [ttl    |-> SetTTL(f, Positions(f, k)),
      values |-> SetValues(f, Positions(f, k))]]

\* The outputs a zone may be rendered to; "" is an unset policy.
effectivePolicy(spec) == IF spec.policy = "" THEN "NXDOMAIN" ELSE spec.policy

Renderings(spec, rec) ==
  LET orders == DeduplicateAndSort(Kept(spec, rec))
      zone == NormalizeZone(spec.suffix)
      policy == effectivePolicy(spec)
  IN  {[policy |-> policy, zone |-> zone,
        sets |->
          IF policy = "Forward" THEN TemplateOf(f)
                                ELSE FileOf(f, zone, zoneTTL(spec))] :
         f \in orders}

\* RenderZone validates what it is given once more, after deduplication.
\* (Dropping spellings of a value changes no verdict.)
Refused(spec, rec) ==
  \/ zoneTTL(spec) <= 0
  \/ \E T \in Survivors(Kept(spec, rec)) : ~ValidateRecords(T)

NoOutput == [policy |-> "none", zone |-> <<>>, sets |-> <<>>]

\* What CoreDNS answers from an output at a name: values with their TTL.
Answers(out, n, t) ==
  CASE out.policy = "none" -> {}
    [] out.policy = "Forward" ->
         UNION {{<<out.sets[k].ttl, v>> : v \in out.sets[k].values} :
                k \in {j \in DOMAIN out.sets : j = <<n, t>>}}
    [] out.policy = "NXDOMAIN" ->
         UNION {UNION {{<<line.ttl, v>> : v \in line.values} :
                       line \in out.sets[k]} :
                k \in {j \in DOMAIN out.sets :
                         <<Completed(j[1], out.zone), j[2]>> = <<n, t>>}}

\* The names an output answers for.
NamesIn(out) ==
  IF out.policy = "NXDOMAIN" THEN {Completed(k[1], out.zone) : k \in DOMAIN out.sets}
                             ELSE {k[1] : k \in DOMAIN out.sets}

=============================================================================
