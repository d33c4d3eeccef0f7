------------------------ MODULE ZoneConditionsProofs ------------------------
(***************************************************************************)
(* Proofs about ZoneConditions for every set of results, every policy of   *)
(* each generation, and every bound on generations and clock readings.     *)
(***************************************************************************)
EXTENDS ZoneConditions, TLAPS

(* What is told, and what applyConditions makes of it *)

\* The reasons of Conditions.
Reasons == {d.reason : d \in UNION {Told(r) : r \in Results}}

Verdicts == [type : zoneConditionTypes, status : {"True", "False"},
             reason : Reasons]

\* What a reconcile finds out is a result.
LEMMA IsFoundTyped ==
  ASSUME NEW g \in 1..MaxGen, NEW r, IsFound(r, g)
  PROVE  r \in Results
BY DEF IsFound, Results

LEMMA NoStatusFields == NoStatus.observed = 0 /\ NoStatus.conds = {}
BY Zenon DEF NoStatus

\* The fields of a status.
LEMMA StatusFields ==
  ASSUME NEW s, StatusOK(s)
  PROVE  /\ s.observed \in 0..MaxGen /\ s.conds \in SUBSET Conditions
         /\ s.zoneFileKey \in {"", ZoneFileKey}
         /\ s = [observed |-> s.observed, conds |-> s.conds, records |-> s.records,
                 zoneFileKey |-> s.zoneFileKey]
         /\ \A c, d \in s.conds : c.type = d.type => c = d
BY Zenon DEF StatusOK

\* The reconcile that writes has a result of the generation it listed.
LEMMA WriterFacts ==
  ASSUME TypeOK, WriteStatus
  PROVE  /\ pc = "write" /\ read.gen \in 1..MaxGen
         /\ IsFound(result, read.gen) /\ result \in Results
         /\ StatusOK(status) /\ StatusOK(read.status) /\ clock \in Times
<1>1. pc = "write" /\ read.gen \in 1..MaxGen /\ IsFound(result, read.gen)
  BY DEF TypeOK, WriteStatus
<1> QED
  BY <1>1, IsFoundTyped DEF TypeOK

\* A result tells owned conditions only, at most one of each type, and always
\* whether the zone is ready.
LEMMA ToldFacts ==
  ASSUME NEW r \in Results
  PROVE  /\ Told(r) \subseteq Verdicts
         /\ \A d, e \in Told(r) : d.type = e.type => d = e
         /\ Told(r) # {}
<1>1. \A d \in Told(r) : /\ d.type \in zoneConditionTypes
                         /\ d.status \in {"True", "False"}
                         /\ d = condition(d.type, d.status, d.reason)
  <2>1. CASE r.rendered
    BY <2>1 DEF Told, condition, zoneConditionTypes
  <2>2. CASE ~r.rendered
    BY <2>2 DEF Told, condition, zoneConditionTypes
  <2> QED
    BY <2>1, <2>2
<1>2. \A d \in Told(r) : d.reason \in Reasons
  BY DEF Reasons
<1>3. Told(r) \subseteq Verdicts
  BY <1>1, <1>2 DEF Verdicts, condition
<1>4. \A d, e \in Told(r) : d.type = e.type => d = e
  <2>1. CASE r.rendered
    BY <2>1 DEF Told, condition
  <2>2. CASE ~r.rendered
    BY <2>2 DEF Told, condition
  <2> QED
    BY <2>1, <2>2
<1>5. Told(r) # {}
  BY DEF Told
<1> QED
  BY <1>3, <1>4, <1>5

\* Every condition in the status is owned by the operator, so applyConditions
\* replaces them all: nothing of an earlier verdict survives.
LEMMA NothingSurvives ==
  ASSUME NEW existing \in SUBSET Conditions, NEW desired, NEW g, NEW now
  PROVE  applyConditions(existing, desired, g, now) =
           {Stored(d, g, TransitionTime(existing, d, now)) : d \in desired}
BY DEF applyConditions, Conditions

\* The time of a condition is a reading of the clock.
LEMMA TransitionTimeType ==
  ASSUME NEW existing \in SUBSET Conditions, NEW d, NEW now \in Times
  PROVE  TransitionTime(existing, d, now) \in Times
BY DEF TransitionTime, Conditions

\* The conditions a reconcile computes are a well-formed map that says what
\* its result tells, on the generation it listed.
LEMMA AppliedFacts ==
  ASSUME NEW existing \in SUBSET Conditions, NEW r \in Results,
         NEW g \in 1..MaxGen, NEW now \in Times
  PROVE  LET new == applyConditions(existing, Told(r), g, now)
         IN  /\ new \subseteq Conditions
             /\ \A c, d \in new : c.type = d.type => c = d
             /\ Says(new) = Told(r)
             /\ \A c \in new : c.gen = g
             /\ new # {}
<1> DEFINE T(d) == TransitionTime(existing, d, now)
           new == {Stored(d, g, T(d)) : d \in Told(r)}
<1>0. applyConditions(existing, Told(r), g, now) = new
  BY NothingSurvives
<1>1. Told(r) \subseteq Verdicts /\ Told(r) # {}
      /\ \A d, e \in Told(r) : d.type = e.type => d = e
  BY ToldFacts
<1>2. \A d \in Told(r) : T(d) \in Times
  BY TransitionTimeType
<1> HIDE DEF T
<1>3. new \subseteq Conditions
  BY <1>1, <1>2 DEF Stored, Conditions, Verdicts, Reasons
<1>4. \A c, d \in new : c.type = d.type => c = d
  BY <1>1 DEF Stored
<1>5. Says(new) = Told(r)
  <2>1. \A d \in Told(r) : LET c == Stored(d, g, T(d))
                           IN  condition(c.type, c.status, c.reason) = d
    BY <1>1 DEF Stored, condition, Verdicts
  <2> QED
    BY <2>1 DEF Says
<1>6. \A c \in new : c.gen = g
  BY DEF Stored
<1>7. new # {}
  <2>1. PICK d \in Told(r) : TRUE
    BY <1>1
  <2>2. Stored(d, g, T(d)) \in new
    OBVIOUS
  <2> QED
    BY <2>2
<1> HIDE DEF new
<1> QED
  BY <1>0, <1>3, <1>4, <1>5, <1>6, <1>7

-----------------------------------------------------------------------------
(* The inductive invariant *)

\* The copies are whole verdicts too, and generations only move forward: a
\* reconcile never works on an older generation than the status names, which
\* is why a patch that leaves the observed generation out cannot put the
\* verdict on one generation beside the number of another.
VerdictsInv ==
  OneVerdict(status) /\ OneVerdict(cache.status) /\ OneVerdict(read.status)

OrderInv ==
  /\ cache.status.observed <= status.observed
  /\ read.status.observed <= status.observed
  /\ pc = "write" => status.observed <= read.gen
  /\ status.observed <= cache.gen
  /\ read.gen <= cache.gen
  /\ cache.gen <= gen

CopiesInv == VerdictsInv /\ OrderInv

ConditionsInv == TypeOK /\ CopiesInv

\* What a reconcile makes of the conditions and the observed generation: nothing at
\* all, or its whole verdict.
LEMMA WriteIsWhole ==
  ASSUME TypeOK, CopiesInv, WriteStatus
  PROVE  LET new == applyConditions(read.status.conds, Told(result), read.gen, clock)
         IN  \/ /\ status'.conds = status.conds /\ status'.observed = status.observed
                /\ new = read.status.conds /\ read.status.observed = read.gen
                /\ status # NoStatus
             \/ status'.observed = read.gen /\ status'.conds = new
<1> DEFINE new == applyConditions(read.status.conds, Told(result), read.gen, clock)
<1>0. /\ result \in Results /\ pc = "write" /\ read.gen \in 1..MaxGen /\ clock \in Times
      /\ status.observed \in 0..MaxGen /\ read.status.observed \in 0..MaxGen
      /\ read.status.conds \in SUBSET Conditions
  BY WriterFacts, StatusFields
<1>1. /\ \A c \in new : c.gen = read.gen
      /\ new # {}
  BY <1>0, AppliedFacts
<1>2. /\ status'.observed = IF read.gen = read.status.observed
                            THEN status.observed ELSE read.gen
      /\ status'.conds = IF new = read.status.conds THEN status.conds ELSE new
  BY DEF WriteStatus, Patched, Desired
<1>3. /\ read.gen \in Nat \ {0} /\ status.observed \in Nat /\ read.status.observed \in Nat
      /\ read.status.observed <= status.observed
      /\ status.observed <= read.gen
      /\ OneVerdict(read.status) /\ OneVerdict(status)
  BY <1>0, ConditionsAssumption DEF CopiesInv, VerdictsInv, OrderInv
<1> HIDE DEF new
<1>4. read.gen = read.status.observed => status.observed = read.gen
  BY <1>3
<1>5. CASE new = read.status.conds
  <2>1. read.status # NoStatus
    BY <1>1, <1>5, NoStatusFields
  <2>2. PICK c \in read.status.conds : c.gen = read.gen
    BY <1>1, <1>5
  <2>3. read.status.observed = read.gen
    BY <1>3, <2>1, <2>2 DEF OneVerdict
  <2>4. status # NoStatus
    BY <1>3, <1>4, <2>3, NoStatusFields
  <2> QED
    BY <1>2, <1>4, <1>5, <2>3, <2>4 DEF new
<1>6. CASE new # read.status.conds
  BY <1>2, <1>4, <1>6 DEF new
<1> QED
  BY <1>5, <1>6

\* The conditions listed, and the ones a reconcile makes of them, are owned and
\* unique.
LEMMA WriteTypes ==
  ASSUME TypeOK, CopiesInv, WriteStatus
  PROVE  StatusOK(status') /\ OneVerdict(status') /\ status'.observed <= read.gen
         /\ status.observed <= status'.observed
<1> DEFINE new == applyConditions(read.status.conds, Told(result), read.gen, clock)
           counts == {0} \cup {RecordsOf(r) : r \in Results}
<1>0. /\ result \in Results /\ pc = "write" /\ read.gen \in 1..MaxGen /\ clock \in Times
      /\ status.observed \in 0..MaxGen /\ status.conds \in SUBSET Conditions
      /\ \A c, d \in status.conds : c.type = d.type => c = d
      /\ read.status.conds \in SUBSET Conditions
      /\ IsFound(result, read.gen)
  BY WriterFacts, StatusFields
<1>1. /\ new \subseteq Conditions
      /\ \A c, d \in new : c.type = d.type => c = d
      /\ Says(new) = Told(result)
      /\ \A c \in new : c.gen = read.gen
  BY <1>0, AppliedFacts
<1>2. \/ /\ status'.conds = status.conds /\ status'.observed = status.observed
         /\ status # NoStatus
      \/ status'.observed = read.gen /\ status'.conds = new
  BY WriteIsWhole
<1>3. /\ status' = [observed |-> status'.observed, conds |-> status'.conds,
                    records |-> status'.records, zoneFileKey |-> status'.zoneFileKey]
      /\ status'.records \in {RecordsOf(result), status.records}
      /\ status'.zoneFileKey \in {KeyOf(result), status.zoneFileKey}
  <2> DEFINE want == Desired(read, result, clock)
  <2>1. status' = [observed |-> IF want.observed = read.status.observed
                                THEN status.observed ELSE want.observed,
                   conds |-> IF want.conds = read.status.conds
                             THEN status.conds ELSE want.conds,
                   records |-> IF want.records = read.status.records
                               THEN status.records ELSE want.records,
                   zoneFileKey |-> IF want.zoneFileKey = read.status.zoneFileKey
                                   THEN status.zoneFileKey ELSE want.zoneFileKey]
    BY DEF WriteStatus, Patched
  <2>2. want.records = RecordsOf(result) /\ want.zoneFileKey = KeyOf(result)
    BY DEF Desired
  <2> HIDE DEF want
  <2> QED
    BY <2>1, <2>2
<1>4. status'.records \in counts /\ status'.zoneFileKey \in {"", ZoneFileKey}
  <2>1. RecordsOf(result) \in counts
    BY <1>0
  <2>2. KeyOf(result) \in {"", ZoneFileKey}
    BY DEF KeyOf
  <2> HIDE DEF counts
  <2>3. status.records \in counts /\ status.zoneFileKey \in {"", ZoneFileKey}
    BY WriterFacts, Zenon DEF StatusOK, counts
  <2> QED
    BY <1>3, <2>1, <2>2, <2>3
<1> HIDE DEF new, counts
<1>typed. ASSUME status'.observed \in 0..MaxGen, status'.conds \in SUBSET Conditions,
              \A c, d \in status'.conds : c.type = d.type => c = d
       PROVE  StatusOK(status')
  <2>1. status' \in [observed : 0..MaxGen, conds : SUBSET Conditions, records : counts,
                     zoneFileKey : {"", ZoneFileKey}]
    BY <1>3, <1>4, <1>typed
  <2> QED
    BY <1>typed, <2>1 DEF StatusOK, counts
<1>5. CASE /\ status'.conds = status.conds /\ status'.observed = status.observed
           /\ status # NoStatus
  <2>1. StatusOK(status')
    BY <1>0, <1>5, <1>typed
  <2>2. OneVerdict(status')
    BY <1>5 DEF OneVerdict, CopiesInv, VerdictsInv
  <2> QED
    BY <1>0, <1>5, <2>1, <2>2 DEF CopiesInv, VerdictsInv, OrderInv
<1>6. CASE status'.observed = read.gen /\ status'.conds = new
  <2>1. status'.observed \in 0..MaxGen
    BY <1>0, <1>6, ConditionsAssumption
  <2>2. StatusOK(status')
    BY <1>1, <1>6, <1>typed, <2>1
  <2>3. OneVerdict(status')
    BY <1>0, <1>1, <1>6 DEF OneVerdict, IsFound
  <2>4. status'.observed <= read.gen /\ status.observed <= status'.observed
    BY <1>0, <1>6 DEF CopiesInv, VerdictsInv, OrderInv
  <2> QED
    BY <2>2, <2>3, <2>4
<1> QED
  BY <1>2, <1>5, <1>6

\* ConditionsInv is inductive.
LEMMA ConditionsInvStep ==
  ASSUME ConditionsInv, [Next]_vars
  PROVE  ConditionsInv'
<1>0. TypeOK /\ CopiesInv
  BY DEF ConditionsInv
<1>nats. /\ gen \in Nat /\ cache.gen \in Nat /\ read.gen \in Nat /\ status.observed \in Nat
        /\ cache.status.observed \in Nat /\ read.status.observed \in Nat
  <2>1. /\ StatusOK(status) /\ StatusOK(cache.status) /\ StatusOK(read.status)
        /\ gen \in 1..MaxGen /\ cache.gen \in 1..MaxGen /\ read.gen \in 1..MaxGen
    BY <1>0 DEF TypeOK
  <2>2. /\ status.observed \in 0..MaxGen /\ cache.status.observed \in 0..MaxGen
        /\ read.status.observed \in 0..MaxGen
    BY <2>1, StatusFields
  <2> QED
    BY <2>1, <2>2, ConditionsAssumption
<1>created. /\ StatusOK(NoStatus) /\ OneVerdict(NoStatus) /\ NoStatus.observed = 0
       /\ Created.gen = 1 /\ Created.status = NoStatus /\ 1 \in 1..MaxGen
  BY ConditionsAssumption DEF StatusOK, OneVerdict, NoStatus, Created
<1>1. CASE List
  <2>1. pc' = "write" /\ read' = cache /\ result' = Found(world, target, cache.gen)
        /\ due' = FALSE
        /\ UNCHANGED <<gen, status, cache, world, target, clock, since, overrun>>
    BY <1>1 DEF List
  <2>2. IsFound(result', read'.gen)
    BY <1>0, <2>1 DEF TypeOK, IsFound
  <2>3. TypeOK'
    BY <1>0, <2>1, <2>2 DEF TypeOK
  <2>4. VerdictsInv'
    BY <1>0, <2>1 DEF CopiesInv, VerdictsInv
  <2>5. OrderInv'
    BY <1>0, <1>nats, <2>1 DEF CopiesInv, OrderInv
  <2> QED
    BY <2>3, <2>4, <2>5 DEF ConditionsInv, CopiesInv
<1>2. CASE WriteStatus
  <2>1. /\ StatusOK(status') /\ OneVerdict(status') /\ status'.observed <= read.gen
        /\ status.observed <= status'.observed
    BY <1>0, <1>2, WriteTypes
  <2>2. since' \in [zoneConditionTypes -> Times]
    BY <1>0, <1>2 DEF WriteStatus, TypeOK
  <2>3. overrun' \in BOOLEAN /\ due' \in BOOLEAN
    BY <1>0, <1>2 DEF WriteStatus, Requeued, IsUnavailable, TypeOK
  <2>4. UNCHANGED <<gen, cache, world, target, clock>> /\ pc' = "idle"
        /\ read' = Created
    BY <1>2 DEF WriteStatus, Return
  <2>5. TypeOK'
    BY <1>0, <1>created, <2>1, <2>2, <2>3, <2>4 DEF TypeOK
  <2>6. status'.observed <= cache.gen
    <3>1. pc = "write" /\ status'.observed \in 0..MaxGen
      BY <1>2, <2>1, StatusFields DEF WriteStatus
    <3> QED
      BY <1>0, <1>nats, <2>1, <3>1, ConditionsAssumption DEF CopiesInv, OrderInv
  <2>7. VerdictsInv'
    BY <1>0, <1>created, <2>1, <2>4 DEF CopiesInv, VerdictsInv
  <2>8. OrderInv'
    <3>1. status'.observed \in 0..MaxGen
      BY <2>1, StatusFields
    <3>2. /\ cache'.status.observed = cache.status.observed /\ cache'.gen = cache.gen
          /\ read'.status.observed = 0 /\ read'.gen = 1 /\ gen' = gen /\ pc' # "write"
          /\ cache.gen \in 1..MaxGen
      BY <1>0, <1>created, <2>4 DEF TypeOK
    <3> QED
      BY <1>0, <1>nats, <2>1, <2>6, <3>1, <3>2, ConditionsAssumption DEF CopiesInv, OrderInv
  <2> QED
    BY <2>5, <2>7, <2>8 DEF ConditionsInv, CopiesInv
<1>3. CASE Interrupt
  <2>1. UNCHANGED <<gen, status, cache, world, target, clock, since, overrun>>
        /\ pc' = "idle" /\ due' = TRUE /\ read' = Created
    BY <1>3 DEF Interrupt, Return
  <2>2. TypeOK'
    BY <1>0, <1>created, <2>1 DEF TypeOK
  <2>3. VerdictsInv'
    BY <1>0, <1>created, <2>1 DEF CopiesInv, VerdictsInv
  <2>4. OrderInv'
    <3>1. /\ read'.status.observed = 0 /\ read'.gen = 1 /\ pc' # "write"
          /\ cache.gen \in 1..MaxGen
      BY <1>0, <1>created, <2>1 DEF TypeOK
    <3> QED
      BY <1>0, <1>nats, <2>1, <3>1 DEF CopiesInv, OrderInv
  <2> QED
    BY <2>2, <2>3, <2>4 DEF ConditionsInv, CopiesInv
<1>4. CASE Sync
  <2>1. cache'.gen = gen /\ cache'.status = status
    BY <1>4 DEF Sync
  <2>2. due' \in BOOLEAN /\ world' \in Worlds
    BY <1>0, <1>4 DEF Sync, Delivered, TypeOK
  <2>3. UNCHANGED <<gen, status, target, pc, read, result, clock, since, overrun>>
    BY <1>4 DEF Sync
  <2>4. TypeOK'
    BY <1>0, <2>1, <2>2, <2>3 DEF TypeOK
  <2>5. CopiesInv'
    BY <1>0, <1>nats, <2>1, <2>3 DEF CopiesInv, VerdictsInv, OrderInv
  <2> QED
    BY <2>4, <2>5 DEF ConditionsInv
<1>5. CASE EditZone
  <2>1. gen' \in 1..MaxGen /\ gen <= gen'
    BY <1>0, <1>5, ConditionsAssumption DEF EditZone, TypeOK
  <2>2. UNCHANGED <<status, cache, due, world, target, pc, read, result, clock, since,
                    overrun>>
    BY <1>5 DEF EditZone
  <2>3. TypeOK'
    BY <1>0, <2>1, <2>2 DEF TypeOK
  <2>4. CopiesInv'
    BY <1>0, <1>nats, <2>1, <2>2 DEF CopiesInv, VerdictsInv, OrderInv
  <2> QED
    BY <2>3, <2>4 DEF ConditionsInv
<1>6. CASE EditRecords \/ Retarget \/ OtherEvent \/ Tick
  <2>1. UNCHANGED <<gen, status, cache, pc, read, result, since, overrun>>
    BY <1>6 DEF EditRecords, Retarget, OtherEvent, Tick
  <2>2. clock' \in Times
    BY <1>0, <1>6, ConditionsAssumption
    DEF EditRecords, Retarget, OtherEvent, Tick, TypeOK, Times
  <2>3. world' \in Worlds /\ target' \in Targets /\ due' \in BOOLEAN
    BY <1>0, <1>6 DEF EditRecords, Retarget, OtherEvent, Tick, TypeOK
  <2>4. TypeOK'
    BY <1>0, <2>1, <2>2, <2>3 DEF TypeOK
  <2>5. CopiesInv'
    BY <1>0, <2>1 DEF CopiesInv, VerdictsInv, OrderInv
  <2> QED
    BY <2>4, <2>5 DEF ConditionsInv
<1>7. CASE UNCHANGED vars
  BY <1>0, <1>7 DEF vars, ConditionsInv, TypeOK, CopiesInv, VerdictsInv, OrderInv
<1> QED
  BY <1>1, <1>2, <1>3, <1>4, <1>5, <1>6, <1>7 DEF Next, Environment

\* ConditionsInv holds in every reachable state.
LEMMA ConditionsInvHolds == Spec => []ConditionsInv
<1>1. ASSUME Init PROVE TypeOK
  <2>1. StatusOK(NoStatus)
    BY ConditionsAssumption DEF StatusOK, NoStatus
  <2>2. 1 \in 1..MaxGen /\ 0 \in Times
    BY ConditionsAssumption DEF Times
  <2>3. StatusOK(status) /\ StatusOK(cache.status) /\ StatusOK(read.status)
    BY <1>1, <2>1 DEF Init, Created
  <2>4. /\ gen \in 1..MaxGen /\ clock \in Times
        /\ cache.gen \in 1..MaxGen /\ read.gen \in 1..MaxGen
        /\ since \in [zoneConditionTypes -> Times]
    BY <1>1, <2>2 DEF Init, Created
  <2> QED
    BY <1>1, <2>3, <2>4 DEF Init, TypeOK
<1>2. Init => CopiesInv
  <2> SUFFICES ASSUME Init PROVE VerdictsInv /\ OrderInv
    BY DEF CopiesInv
  <2>1. /\ status = NoStatus /\ cache.status = NoStatus /\ read.status = NoStatus
        /\ gen = 1 /\ cache.gen = 1 /\ read.gen = 1 /\ pc # "write"
    BY DEF Init, Created
  <2> QED
    BY <2>1, NoStatusFields DEF VerdictsInv, OrderInv, OneVerdict
<1>3. ConditionsInv /\ [Next]_vars => ConditionsInv'
  BY ConditionsInvStep
<1> QED
  BY <1>1, <1>2, <1>3, PTL DEF Spec, ConditionsInv

-----------------------------------------------------------------------------
(* What a reader of the status may rely on *)

\* The conditions are a well-formed map keyed by type in every reachable state,
\* whatever copy a patch was made against.
THEOREM TypeCorrect == Spec => []TypeOK
BY ConditionsInvHolds, PTL DEF ConditionsInv

\* The conditions and the observed generation are always the whole verdict of one
\* reconcile, for any set of results and any number of edits, also when the patch
\* that wrote them was computed from an outdated copy.
THEOREM StatusIsOneVerdict == Spec => []ConditionsOfOneResult
<1>1. ConditionsInv => ConditionsOfOneResult
  BY DEF ConditionsInv, CopiesInv, VerdictsInv, ConditionsOfOneResult
<1> QED
  BY <1>1, ConditionsInvHolds, PTL

\* A condition's transition time is that of the write that last changed its
\* status, as long as every patch was made against the current status.
THEOREM TransitionTimesAlwaysHonest == Spec => []TransitionTimesHonest
<1>1. Init => TransitionTimesHonest
  BY NoStatusFields DEF Init, TransitionTimesHonest
<1>2. ASSUME ConditionsInv, TransitionTimesHonest, [Next]_vars
      PROVE  TransitionTimesHonest'
  <2>1. CASE WriteStatus /\ ~overrun /\ read.status = status
    <3> DEFINE T(d) == TransitionTime(status.conds, d, clock)
               new == {Stored(d, read.gen, T(d)) : d \in Told(result)}
    <3>0. TypeOK /\ CopiesInv /\ result \in Results
      BY <1>2, <2>1, WriterFacts DEF ConditionsInv
    <3>1. applyConditions(read.status.conds, Told(result), read.gen, clock) = new
      <4>1. read.status.conds \in SUBSET Conditions
        BY <2>1, <3>0, WriterFacts, StatusFields
      <4> QED
        BY <2>1, <4>1, NothingSurvives
    <3>2. status'.conds = new
      BY <2>1, <3>0, <3>1, WriteIsWhole
    <3>3. ASSUME NEW d \in Told(result)
          PROVE  T(d) = since'[d.type]
      <4>1. /\ d.type \in zoneConditionTypes
            /\ \A e \in Told(result) : e.type = d.type => e = d
        BY <3>0, ToldFacts DEF TypeOK, Verdicts
      <4>2. StatusOf(new, d.type) = {d.status}
        <5>1. \A c \in new : c.type = d.type => c.status = d.status
          BY <4>1 DEF Stored
        <5>2. /\ Stored(d, read.gen, T(d)) \in new
              /\ Stored(d, read.gen, T(d)).type = d.type
              /\ Stored(d, read.gen, T(d)).status = d.status
          BY DEF Stored
        <5> HIDE DEF new, T
        <5> QED
          BY <5>1, <5>2 DEF StatusOf
      <4>3. since'[d.type] = IF StatusOf(new, d.type) = StatusOf(status.conds, d.type)
                             THEN since[d.type] ELSE clock
        BY <2>1, <3>2, <4>1 DEF WriteStatus
      <4>4. CASE \E c \in status.conds : c.type = d.type /\ c.status = d.status
        <5>1. PICK c \in status.conds : c.type = d.type /\ c.status = d.status
          BY <4>4
        <5>2. \A e \in status.conds : e.type = d.type => e = c
          BY <3>0, <5>1, StatusFields DEF TypeOK
        <5>3. StatusOf(status.conds, d.type) = {d.status}
          BY <5>1, <5>2 DEF StatusOf
        <5>4. T(d) = c.time
          BY <5>1, <5>2 DEF TransitionTime
        <5> QED
          BY <1>2, <2>1, <4>2, <4>3, <5>1, <5>3, <5>4 DEF TransitionTimesHonest
      <4>5. CASE ~ \E c \in status.conds : c.type = d.type /\ c.status = d.status
        <5>1. d.status \notin StatusOf(status.conds, d.type)
          BY <4>5 DEF StatusOf
        <5>2. T(d) = clock
          BY <4>5 DEF TransitionTime
        <5> QED
          BY <4>2, <4>3, <5>1, <5>2
      <4> QED
        BY <4>4, <4>5
    <3> HIDE DEF T
    <3> QED
      BY <3>2, <3>3 DEF TransitionTimesHonest, Stored
  <2>2. CASE WriteStatus /\ (overrun \/ read.status # status)
    BY <2>2 DEF WriteStatus, TransitionTimesHonest
  <2>3. CASE UNCHANGED <<status, since, overrun>>
    BY <1>2, <2>3 DEF TransitionTimesHonest
  <2> QED
    BY <1>2, <2>1, <2>2, <2>3 DEF Next, List, Interrupt, Sync, Environment, EditZone,
       EditRecords, Retarget, OtherEvent, Tick, vars
<1> QED
  BY <1>1, <1>2, ConditionsInvHolds, PTL DEF Spec

\* A reconcile that finds what the status already says does not write, however
\* much time has passed since.
THEOREM SteadyStatusAlwaysKept == Spec => SteadyStatusKept
<1>1. ASSUME ConditionsInv, WriteStatus, read.status = status,
             Reports(status, result, read.gen)
      PROVE  status' = status
  <2> DEFINE T(d) == TransitionTime(status.conds, d, clock)
             new == {Stored(d, read.gen, T(d)) : d \in Told(result)}
  <2>0. TypeOK /\ CopiesInv
    BY <1>1 DEF ConditionsInv
  <2>1. applyConditions(read.status.conds, Told(result), read.gen, clock) = new
    <3>1. read.status.conds \in SUBSET Conditions
      BY <1>1, <2>0, WriterFacts, StatusFields
    <3> QED
      BY <1>1, <3>1, NothingSurvives
  <2>2. \A c \in status.conds : c.gen = read.gen
    BY <1>1, <2>0, NoStatusFields
    DEF CopiesInv, VerdictsInv, OneVerdict, Reports
  <2>3. /\ status.conds \subseteq Conditions
        /\ \A c, d \in status.conds : c.type = d.type => c = d
    BY <2>0 DEF TypeOK, StatusOK
  <2>4. ASSUME NEW c \in status.conds
        PROVE  Stored(condition(c.type, c.status, c.reason), read.gen,
                      T(condition(c.type, c.status, c.reason))) = c
    <3> DEFINE d == condition(c.type, c.status, c.reason)
    <3>1. d.type = c.type /\ d.status = c.status /\ d.reason = c.reason
      BY DEF condition
    <3> HIDE DEF d
    <3>2. T(d) = c.time
      BY <2>3, <3>1 DEF TransitionTime
    <3>3. c = [type |-> c.type, status |-> c.status, reason |-> c.reason,
               gen |-> c.gen, time |-> c.time]
      BY <2>3 DEF Conditions
    <3>4. Stored(d, read.gen, T(d)) = c
      BY <2>2, <3>1, <3>2, <3>3 DEF Stored
    <3> QED
      BY <3>4 DEF d
  <2>5. new = status.conds
    <3>1. Told(result) = {condition(c.type, c.status, c.reason) : c \in status.conds}
      BY <1>1 DEF Says, Reports
    <3> HIDE DEF T
    <3> QED
      BY <2>4, <3>1
  <2>6. status = [observed |-> status.observed, conds |-> status.conds,
                  records |-> status.records, zoneFileKey |-> status.zoneFileKey]
    BY <2>0 DEF TypeOK, StatusOK
  <2> HIDE DEF new
  <2> QED
    BY <1>1, <2>1, <2>5, <2>6 DEF WriteStatus, Patched, Desired, Reports
<1>2. ASSUME ConditionsInv
      PROVE  [WriteStatus /\ read.status = status /\ Reports(status, result, read.gen)
                => status' = status]_vars
  BY <1>1, <1>2
<1> QED
  BY <1>2, ConditionsInvHolds, PTL DEF SteadyStatusKept

=============================================================================
