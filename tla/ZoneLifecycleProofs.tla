------------------------ MODULE ZoneLifecycleProofs -------------------------
(***************************************************************************)
(* Proofs about finalizers and the Ready condition for every set of zones. *)
(***************************************************************************)
EXTENDS ZoneLifecycle, TLAPS

\* A blank object is well formed.
LEMMA BlankObjects == NoObject \in Objects /\ NoObjects \in [Zones -> Objects]
BY DEF NoObject, NoObjects, Objects, Specs

\* What changing one field of an object changes.
LEMMA ObjectUpdates ==
  ASSUME NEW x \in Objects, NEW s \in Specs, NEW r \in {"unknown", "true", "false"}
  PROVE  /\ [x EXCEPT !.fin = TRUE] \in Objects
         /\ [x EXCEPT !.fin = TRUE].phase = x.phase
         /\ [x EXCEPT !.fin = TRUE].fin
         /\ [x EXCEPT !.ready = r] \in Objects
         /\ [x EXCEPT !.ready = r].phase = x.phase
         /\ [x EXCEPT !.ready = r].fin = x.fin
         /\ [x EXCEPT !.spec = s] \in Objects
         /\ [x EXCEPT !.spec = s].phase = x.phase
         /\ [x EXCEPT !.spec = s].fin = x.fin
         /\ [x EXCEPT !.phase = "terminating"] \in Objects
         /\ [x EXCEPT !.phase = "terminating"].phase = "terminating"
         /\ [x EXCEPT !.phase = "terminating"].fin = x.fin
BY DEF Objects

\* Phases of a reconcile visit zones only and are phases.
LEMMA PhaseTypes ==
  ASSUME NEW m \in {"ok", "absent", "unreadable"}, NEW p, NEW objs
  PROVE  /\ FirstPhase(m) \in Busy
         /\ Visits(p, objs) \subseteq Zones
BY DEF FirstPhase, Busy, Visits, ToClaim, ToRelease

\* A user's write neither adds nor removes the finalizer, and an object that
\* has it stays.
LEMMA UsersKeepFinalizers ==
  ASSUME TypeOK, Create \/ Edit \/ Delete
  PROVE  \E z \in Zones, o \in Objects :
           /\ UserWrites(z, o)
           /\ o.fin => zone[z].fin /\ (zone[z].phase # "none" => o.phase # "none")
           /\ (zone[z].fin /\ zone[z].phase # "none") => o.fin
<1> USE DEF TypeOK
<1>1. CASE Create
  <2> PICK z \in Zones, s \in Specs :
        /\ zone[z].phase = "none"
        /\ UserWrites(z, [NoObject EXCEPT !.phase = "live", !.spec = s])
    BY <1>1 DEF Create
  <2> DEFINE o == [NoObject EXCEPT !.phase = "live", !.spec = s]
  <2>1. o \in Objects /\ ~o.fin
    BY DEF Objects, NoObject
  <2> HIDE DEF o
  <2>2. UserWrites(z, o)
    BY DEF o
  <2> QED
    BY <2>1, <2>2
<1>2. CASE Edit
  <2> PICK z \in Zones, s \in Specs : UserWrites(z, [zone[z] EXCEPT !.spec = s])
    BY <1>2 DEF Edit
  <2> DEFINE o == [zone[z] EXCEPT !.spec = s]
  <2>1. o \in Objects /\ o.fin = zone[z].fin /\ o.phase = zone[z].phase
    <3>1. zone[z] \in Objects
      OBVIOUS
    <3> QED
      BY <3>1, ObjectUpdates
  <2> HIDE DEF o
  <2>2. UserWrites(z, o)
    BY DEF o
  <2> QED
    BY <2>1, <2>2
<1>3. CASE Delete
  <2> PICK z \in Zones :
        /\ zone[z].phase = "live"
        /\ UserWrites(z, IF zone[z].fin THEN [zone[z] EXCEPT !.phase = "terminating"]
                         ELSE NoObject)
    BY <1>3 DEF Delete
  <2> DEFINE o == IF zone[z].fin THEN [zone[z] EXCEPT !.phase = "terminating"]
                  ELSE NoObject
  <2>1. /\ o \in Objects
        /\ IF zone[z].fin THEN o.fin /\ o.phase = "terminating" ELSE ~o.fin
    <3>1. zone[z] \in Objects /\ NoObject \in Objects /\ ~NoObject.fin /\ "good" \in Specs
      BY BlankObjects DEF NoObject, Specs
    <3> QED
      BY <3>1, ObjectUpdates
  <2> HIDE DEF o
  <2>2. UserWrites(z, o)
    BY DEF o
  <2> QED
    BY <2>1, <2>2
<1> QED
  BY <1>1, <1>2, <1>3

\* Every step keeps the types.
LEMMA LifecycleTypeStep == TypeOK /\ [Next]_vars => TypeOK'
<1> SUFFICES ASSUME TypeOK, [Next]_vars PROVE TypeOK'
  OBVIOUS
<1> USE BlankObjects, PhaseTypes DEF TypeOK, objects, locals
<1>1. CASE List
  BY <1>1 DEF List
<1>2. CASE Claim
  <2> PICK z \in todo \ stale :
        /\ UpdateZone(z, [zone[z] EXCEPT !.fin = TRUE])
        /\ list' = [list EXCEPT ![z].fin = TRUE]
        /\ todo' = todo \ {z}
    BY <1>2 DEF Claim
  <2>1. [zone[z] EXCEPT !.fin = TRUE] \in Objects /\ [list[z] EXCEPT !.fin = TRUE] \in Objects
    <3>1. zone[z] \in Objects /\ list[z] \in Objects
      OBVIOUS
    <3> QED
      BY <3>1 DEF Objects
  <2> QED
    BY <1>2, <2>1 DEF Claim, UpdateZone
<1>3. CASE Proceed
  BY <1>3 DEF Proceed, NextPhase, Busy
<1>4. CASE Commit \/ CommitUnaware
  BY <1>4 DEF Commit, CommitUnaware, Desired, Busy
<1>5. CASE CommitConflict \/ CommitFails \/ UpdateFails \/ Abort
  BY <1>5 DEF CommitConflict, CommitFails, UpdateFails, Abort, Return, Desired
<1>6. CASE Release
  BY <1>6 DEF Release, UpdateZone
<1>7. CASE WriteStatus
  <2> PICK z \in todo :
        /\ \/ UNCHANGED objects
           \/ UpdateZone(z, [zone[z] EXCEPT !.ready = Verdict(z)])
        /\ todo' = todo \ {z}
    BY <1>7 DEF WriteStatus
  <2>1. [zone[z] EXCEPT !.ready = Verdict(z)] \in Objects
    <3>1. zone[z] \in Objects /\ Verdict(z) \in {"unknown", "true", "false"}
      BY DEF Verdict
    <3> QED
      BY <3>1, ObjectUpdates, "good" \in Specs DEF Specs
  <2> QED
    BY <1>7, <2>1 DEF WriteStatus, UpdateZone
<1>8. CASE Finish
  BY <1>8 DEF Finish, Return
<1>9. CASE Sync \/ Resync
  BY <1>9 DEF Sync, Resync
<1>10. CASE Create \/ Edit \/ Delete
  <2> PICK z \in Zones, o \in Objects : UserWrites(z, o)
    BY <1>10, UsersKeepFinalizers
  <2> QED
    BY DEF UserWrites, UpdateZone
<1>11. CASE TargetChanges
  BY <1>11 DEF TargetChanges
<1>12. CASE UNCHANGED vars
  BY <1>12 DEF vars
<1> QED
  BY <1>1, <1>2, <1>3, <1>4, <1>5, <1>6, <1>7, <1>8, <1>9, <1>10, <1>11, <1>12
     DEF Next, Operator, Environment

\* Nothing is known of a reconcile that has ended, so ending one preserves what
\* is known of the objects.
LEMMA ReturnKeepsInv ==
  ASSUME CacheInv, OutputInv, UNCHANGED <<objects, target>>, Return,
         \A z \in published' : zone[z].fin,
         target = "absent" => published' = {}
  PROVE  CacheInv' /\ ListInv' /\ OutputInv'
BY DEF CacheInv, ListInv, OutputInv, Return, objects

\* Every live zone the commit publishes carries the finalizer in the API server.
LEMMA DesiredAreClaimed ==
  ASSUME LifecycleInv, pc = "commit"
  PROVE  \A z \in Desired : zone[z].fin
<1> SUFFICES ASSUME NEW z \in Zones, list[z].phase = "live" PROVE zone[z].fin
  BY DEF Desired, Output
<1>1. list[z].fin
  BY DEF LifecycleInv, ListInv, ToClaim
<1> QED
  BY <1>1 DEF LifecycleInv, ListInv, Listed

\* LifecycleInv is inductive.
LEMMA LifecycleInvStep == LifecycleInv /\ [Next]_vars => LifecycleInv'
<1> SUFFICES ASSUME LifecycleInv, [Next]_vars PROVE LifecycleInv'
  OBVIOUS
<1>t. TypeOK /\ TypeOK'
  BY LifecycleTypeStep DEF LifecycleInv
<1>i. CacheInv /\ ListInv /\ OutputInv
  BY DEF LifecycleInv
<1> SUFFICES CacheInv' /\ ListInv' /\ OutputInv'
  BY <1>t DEF LifecycleInv
<1>1. CASE List
  <2>1. CacheInv'
    BY <1>1, <1>i DEF List, CacheInv, objects
  <2>2. ListInv'
    BY <1>1, <1>i, <1>t DEF List, ListInv, CacheInv, TypeOK, objects, FirstPhase,
       Visits, ToClaim, ToRelease, Listed
  <2>3. OutputInv'
    BY <1>1, <1>i, <1>t DEF List, OutputInv, TypeOK, objects, FirstPhase, Listed
  <2> QED
    BY <2>1, <2>2, <2>3
<1>2. CASE Claim
  <2> PICK z \in todo \ stale :
        /\ UpdateZone(z, [zone[z] EXCEPT !.fin = TRUE])
        /\ list' = [list EXCEPT ![z].fin = TRUE]
        /\ todo' = todo \ {z}
    BY <1>2 DEF Claim
  <2>1. /\ z \in Zones /\ z \notin stale /\ zone[z].phase = "live"
        /\ list[z].phase = "live"
    BY <1>2, <1>i, <1>t DEF Claim, ListInv, ToClaim, TypeOK
  <2>2. /\ zone'[z].fin /\ zone'[z].phase = "live"
        /\ list'[z].fin /\ list'[z].phase = "live" /\ list'[z].spec = list[z].spec
        /\ \A y \in Zones \ {z} : zone'[y] = zone[y] /\ list'[y] = list[y]
    <3>1. zone[z] \in Objects /\ list[z] \in Objects
      BY <2>1, <1>t DEF TypeOK
    <3>2. /\ zone'[z] = [zone[z] EXCEPT !.fin = TRUE]
          /\ list'[z] = [list[z] EXCEPT !.fin = TRUE]
          /\ \A y \in Zones \ {z} : zone'[y] = zone[y] /\ list'[y] = list[y]
      BY <2>1, <1>t DEF UpdateZone, TypeOK
    <3> QED
      BY <3>1, <3>2, <2>1 DEF Objects
  <2>3. CacheInv'
    BY <2>1, <2>2, <1>i, <1>t DEF CacheInv, UpdateZone, TypeOK
  <2>4. ListInv'
    BY <1>2, <2>1, <2>2, <1>i, <1>t DEF Claim, ListInv, UpdateZone, TypeOK, ToClaim,
       ToRelease, Listed
  <2>5. OutputInv'
    BY <1>2, <2>1, <2>2, <1>i, <1>t DEF Claim, OutputInv, TypeOK
  <2> QED
    BY <2>3, <2>4, <2>5
<1>3. CASE Proceed
  <2>1. CacheInv'
    BY <1>3, <1>i DEF Proceed, CacheInv, objects
  <2>2. ListInv'
    BY <1>3, <1>i, <1>t DEF Proceed, ListInv, TypeOK, objects, locals, NextPhase,
       Visits, ToClaim, ToRelease, Listed
  <2>3. OutputInv'
    BY <1>3, <1>i, <1>t DEF Proceed, OutputInv, TypeOK, objects, locals, NextPhase,
       Listed, Desired, Output
  <2> QED
    BY <2>1, <2>2, <2>3
<1>4. CASE Commit \/ CommitUnaware
  <2>1. CacheInv'
    BY <1>4, <1>i DEF Commit, CommitUnaware, CacheInv, objects
  <2>2. ListInv'
    BY <1>4, <1>i, <1>t DEF Commit, CommitUnaware, ListInv, TypeOK, objects, locals,
       Visits, ToRelease, Listed
  <2>3. OutputInv'
    <3>1. pc = "commit" /\ pc' = "release" /\ UNCHANGED <<objects, target, locals, moved>>
      BY <1>4 DEF Commit, CommitUnaware
    <3>2. Desired' = Desired /\ Listed("live")' = Listed("live")
      BY <3>1 DEF Desired, Output, Listed, locals
    <3>3. CASE Commit
      <4>1. Desired \subseteq Listed("live")
        BY DEF Desired, Output, Listed
      <4> QED
        BY <3>1, <3>2, <3>3, <4>1, <1>i, DesiredAreClaimed
           DEF Commit, OutputInv, objects, locals
    <3>4. CASE CommitUnaware
      BY <3>1, <3>2, <3>4, <1>i DEF CommitUnaware, OutputInv, objects, locals
    <3> QED
      BY <1>4, <3>3, <3>4
  <2> QED
    BY <2>1, <2>2, <2>3
<1>5. CASE CommitFails
  BY <1>5, <1>i, DesiredAreClaimed, ReturnKeepsInv DEF CommitFails, OutputInv, objects
<1>6. CASE CommitConflict \/ UpdateFails \/ Finish \/ Abort
  BY <1>6, <1>i, ReturnKeepsInv
     DEF CommitConflict, UpdateFails, Finish, Abort, OutputInv
<1>7. CASE Release
  <2> PICK z \in todo :
        /\ IF zone[z].phase = "none" THEN UNCHANGED objects
           ELSE z \notin stale /\ UpdateZone(z, NoObject)
        /\ todo' = todo \ {z}
    BY <1>7 DEF Release
  <2>1. /\ z \in Zones /\ list[z].phase = "terminating" /\ z \notin published
    BY <1>7, <1>i, <1>t DEF Release, ListInv, OutputInv, ToRelease, TypeOK, Listed
  <2>2. CASE zone[z].phase = "none"
    BY <1>7, <2>1, <2>2, <1>i DEF Release, CacheInv, ListInv, OutputInv, objects,
       locals, ToRelease, Listed, Desired, Output
  <2>3. CASE zone[z].phase # "none"
    <3>1. /\ z \notin stale /\ zone' = [zone EXCEPT ![z] = NoObject]
          /\ behind' = behind \cup {z} /\ seen' = seen
      BY <2>3 DEF UpdateZone
    <3>2. seen[z].phase = "terminating"
      BY <1>7, <1>i, <2>1, <3>1 DEF Release, ListInv, Listed
    <3>3. /\ ~zone'[z].fin
          /\ \A y \in Zones \ {z} : zone'[y] = zone[y]
      BY <3>1, <2>1, <1>t DEF TypeOK, NoObject
    <3>4. CacheInv'
      BY <3>1, <3>2, <3>3, <1>i DEF CacheInv
    <3>5. ListInv'
      BY <1>7, <3>1, <3>3, <1>i DEF Release, ListInv, locals, ToRelease, Listed
    <3>6. OutputInv'
      BY <1>7, <2>1, <3>3, <1>i, <1>t DEF Release, OutputInv, locals, Listed, TypeOK,
         Desired, Output
    <3> QED
      BY <3>4, <3>5, <3>6
  <2> QED
    BY <2>2, <2>3
<1>8. CASE WriteStatus
  <2>1. \A y \in Zones : /\ zone'[y].phase = zone[y].phase /\ zone'[y].fin = zone[y].fin
                         /\ y \notin behind' => y \notin behind /\ zone'[y] = zone[y]
    <3> PICK z \in todo : \/ UNCHANGED objects
                          \/ UpdateZone(z, [zone[z] EXCEPT !.ready = Verdict(z)])
      BY <1>8 DEF WriteStatus
    <3>1. CASE UNCHANGED objects
      BY <3>1 DEF objects
    <3>2. CASE UpdateZone(z, [zone[z] EXCEPT !.ready = Verdict(z)])
      <4>1. z \in Zones /\ zone[z] \in Objects
        BY <1>t DEF TypeOK
      <4>2. /\ zone'[z] = [zone[z] EXCEPT !.ready = Verdict(z)] /\ z \in behind'
            /\ \A y \in Zones \ {z} : zone'[y] = zone[y] /\ (y \in behind' <=> y \in behind)
        BY <3>2, <4>1, <1>t DEF UpdateZone, TypeOK
      <4>3. zone'[z].phase = zone[z].phase /\ zone'[z].fin = zone[z].fin
        BY <4>1, <4>2 DEF Objects
      <4> QED
        BY <4>2, <4>3
    <3> QED
      BY <3>1, <3>2
  <2>2. /\ pc = "status" /\ todo' \subseteq todo /\ seen' = seen
        /\ UNCHANGED <<published, target, pc, locals, moved>>
    BY <1>8 DEF WriteStatus, UpdateZone, objects
  <2>3. CacheInv'
    BY <2>1, <2>2, <1>i DEF CacheInv
  <2>4. ListInv' /\ OutputInv'
    BY <2>1, <2>2, <1>i, <1>t DEF ListInv, OutputInv, locals, Listed, Desired, Output,
       TypeOK
  <2> QED
    BY <2>3, <2>4
<1>9. CASE Sync
  <2> PICK z \in behind : /\ seen' = [seen EXCEPT ![z] = zone[z]]
                          /\ behind' = behind \ {z}
                          /\ UNCHANGED <<zone, published, target, pc, locals, moved, todo>>
    BY <1>9 DEF Sync
  <2>1. /\ z \in Zones /\ seen'[z] = zone[z]
        /\ \A y \in Zones \ {z} : seen'[y] = seen[y]
    BY <1>t DEF TypeOK
  <2>2. CacheInv'
    BY <2>1, <1>i DEF CacheInv
  <2>3. ListInv' /\ OutputInv'
    BY <2>1, <1>i DEF ListInv, OutputInv, locals, ToClaim, ToRelease, Listed, Desired,
       Output
  <2> QED
    BY <2>2, <2>3
<1>10. CASE Resync
  BY <1>10, <1>i DEF Resync, CacheInv, ListInv, OutputInv, objects, locals, ToClaim,
     ToRelease, Listed, Desired, Output
<1>11. CASE Create \/ Edit \/ Delete
  <2> PICK z \in Zones, o \in Objects :
        /\ UserWrites(z, o)
        /\ o.fin => zone[z].fin /\ (zone[z].phase # "none" => o.phase # "none")
        /\ (zone[z].fin /\ zone[z].phase # "none") => o.fin
    BY <1>11, <1>t, UsersKeepFinalizers
  <2>1. /\ zone'[z] = o /\ z \in behind' /\ seen' = seen
        /\ \A y \in Zones \ {z} : zone'[y] = zone[y] /\ (y \in behind' <=> y \in behind)
    BY <1>t DEF UserWrites, UpdateZone, TypeOK
  <2>2. /\ pc \in Busy => stale' = stale \cup {z}
        /\ UNCHANGED <<published, target, pc, list, mode, was, moved, todo>>
    BY DEF UserWrites
  <2>3. (zone[z].fin => o.fin) /\ (o.fin => o.phase # "none")
    BY <1>i DEF CacheInv
  <2>4. CacheInv'
    BY <2>1, <2>3, <1>i DEF CacheInv
  <2>5. ListInv'
    BY <2>1, <2>2, <2>3, <1>i, <1>t DEF ListInv, ToClaim, ToRelease, Listed, Busy, TypeOK
  <2>6. OutputInv'
    BY <2>1, <2>2, <2>3, <1>i, <1>t DEF OutputInv, Listed, Desired, Output, TypeOK
  <2> QED
    BY <2>4, <2>5, <2>6
<1>12. CASE TargetChanges
  <2>1. CacheInv' /\ ListInv'
    BY <1>12, <1>i DEF TargetChanges, CacheInv, ListInv, objects, locals, ToClaim,
       ToRelease, Listed
  <2>2. OutputInv'
    BY <1>12, <1>i, <1>t DEF TargetChanges, OutputInv, objects, locals, Listed, Desired,
       Output, TypeOK, Busy
  <2> QED
    BY <2>1, <2>2
<1>13. CASE UNCHANGED vars
  BY <1>13, <1>i DEF vars, CacheInv, ListInv, OutputInv, ToClaim, ToRelease, Listed,
     Desired, Output
<1> QED
  BY <1>1, <1>2, <1>3, <1>4, <1>5, <1>6, <1>7, <1>8, <1>9, <1>10, <1>11, <1>12, <1>13
     DEF Next, Operator, Environment

\* The invariant holds of every reachable state.
THEOREM LifecycleInvHolds == Spec => []LifecycleInv
<1>1. Init => LifecycleInv
  <2> SUFFICES ASSUME Init PROVE LifecycleInv
    OBVIOUS
  <2>1. TypeOK
    BY BlankObjects DEF Init, TypeOK
  <2>2. CacheInv /\ ListInv /\ OutputInv
    BY DEF Init, CacheInv, ListInv, OutputInv, NoObjects, NoObject
  <2> QED
    BY <2>1, <2>2 DEF LifecycleInv
<1> QED
  BY <1>1, LifecycleInvStep, PTL DEF Spec

\* Whatever the cache, crashes, conflicts and a ConfigMap that comes and goes
\* do, no zone object is gone while CoreDNS still has its stanza.
THEOREM NeverOrphans == Spec => []NoOrphans
<1>1. LifecycleInv => NoOrphans
  BY DEF LifecycleInv, CacheInv, OutputInv, NoOrphans
<1> QED
  BY <1>1, LifecycleInvHolds, PTL

\* Ready turns true only on a published zone.
THEOREM ReadyAlwaysPublished == Spec => ReadyOnlyIfPublished
<1> DEFINE A == \A z \in Zones :
                  (zone[z].ready # "true" /\ zone'[z].ready = "true")
                     => z \in published \/ moved
<1>1. LifecycleInv /\ [Next]_vars => A
  <2> SUFFICES ASSUME LifecycleInv, [Next]_vars, NEW z \in Zones,
                      zone[z].ready # "true", zone'[z].ready = "true", ~moved
               PROVE  z \in published
    OBVIOUS
  <2>t. TypeOK /\ zone[z] \in Objects
    BY DEF LifecycleInv, TypeOK
  <2>1. WriteStatus
    <3>1. NoObject.ready = "unknown"
      BY DEF NoObject
    <3>2. CASE Claim
      BY <3>2, <2>t DEF Claim, UpdateZone, Objects, TypeOK
    <3>3. CASE Release
      BY <3>1, <3>3, <2>t DEF Release, UpdateZone, objects, TypeOK
    <3>4. CASE Create
      BY <3>1, <3>4, <2>t DEF Create, UserWrites, UpdateZone, NoObject, TypeOK
    <3>5. CASE Edit
      BY <3>5, <2>t DEF Edit, UserWrites, UpdateZone, Objects, TypeOK
    <3>6. CASE Delete
      BY <3>1, <3>6, <2>t DEF Delete, UserWrites, UpdateZone, Objects, TypeOK
    <3>7. zone' # zone
      OBVIOUS
    <3> QED
      BY <3>2, <3>3, <3>4, <3>5, <3>6, <3>7
         DEF Next, Operator, Environment, List, Proceed, Commit, CommitUnaware,
             CommitConflict, UpdateFails, Finish, CommitFails, Abort, Sync, Resync,
             TargetChanges, objects, vars
  <2>2. z \in todo /\ Verdict(z) = "true"
    <3> PICK y \in todo : \/ UNCHANGED objects
                          \/ UpdateZone(y, [zone[y] EXCEPT !.ready = Verdict(y)])
      BY <2>1 DEF WriteStatus
    <3>1. zone' = [zone EXCEPT ![y] = [zone[y] EXCEPT !.ready = Verdict(y)]]
      BY DEF UpdateZone, objects
    <3>2. y = z
      BY <3>1, <2>t DEF TypeOK
    <3>3. zone'[z] = [zone[z] EXCEPT !.ready = Verdict(z)]
      BY <3>1, <3>2, <2>t DEF TypeOK
    <3> QED
      BY <3>2, <3>3, <2>t DEF Objects
  <2>3. mode = "ok" /\ list[z].spec = "good" /\ list[z].phase = "live" /\ pc = "status"
    BY <2>1, <2>2 DEF Verdict, WriteStatus, LifecycleInv, ListInv, Listed
  <2> QED
    BY <2>3 DEF LifecycleInv, OutputInv, Desired, Output
<1> QED
  BY <1>1, LifecycleInvHolds, PTL DEF Spec, ReadyOnlyIfPublished
=============================================================================
