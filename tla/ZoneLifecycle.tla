--------------------------- MODULE ZoneLifecycle ----------------------------
(***************************************************************************)
(* The life of PrivateDNSZone objects under Reconcile: the finalizer that  *)
(* keeps an object until its output is out of CoreDNS, what happens when   *)
(* CoreDNS's ConfigMap is missing or cannot be read, and the Ready         *)
(* condition.                                                              *)
(*                                                                         *)
(* The operator lists zones from an informer cache that lags behind the    *)
(* API server; its Updates carry the listed resourceVersion and fail if it *)
(* is old, its status patches carry none and never do.  The five writes of *)
(* commitCoreDNS (module CommitCoreDNS) are one step here, or, if they     *)
(* fail, a step after which each zone's output is the old or the new one.  *)
(***************************************************************************)

CONSTANTS Zones   \* names of zone objects, each with a suffix of its own

VARIABLES
  zone,      \* the objects in the API server
  seen,      \* the objects in the informer cache
  behind,    \* zones whose cached object is not the current one
  due,       \* a reconcile is queued
  published, \* zones with a stanza in the Corefile
  target,    \* the CoreDNS ConfigMap: readable, absent (or without Corefile), or not readable
  pc,        \* the reconcile's phase
  list,      \* the objects it listed and updates in place
  stale,     \* zones whose listed object is not the current one
  mode,      \* what reading the ConfigMap gave
  was,       \* the zones that had output in it
  moved,     \* the ConfigMap appeared or disappeared since it was read
  todo       \* zones the current phase has still to visit

objects == <<zone, seen, behind>>
locals == <<list, stale, mode, was>>
vars == <<zone, seen, behind, due, published, target, pc, list, stale, mode,
          was, moved, todo>>

\* A zone's spec renders, or its record set is invalid, or its suffix is.
Specs == {"good", "invalid", "unusable"}
Objects == [phase : {"none", "live", "terminating"}, fin : BOOLEAN,
            spec : Specs, ready : {"unknown", "true", "false"}]
NoObject == [phase |-> "none", fin |-> FALSE, spec |-> "good", ready |-> "unknown"]
NoObjects == [z \in Zones |-> NoObject]

Busy == {"claim", "commit", "release", "status"}

TypeOK ==
  /\ zone \in [Zones -> Objects] /\ seen \in [Zones -> Objects]
  /\ list \in [Zones -> Objects]
  /\ behind \subseteq Zones /\ stale \subseteq Zones
  /\ due \in BOOLEAN /\ moved \in BOOLEAN
  /\ published \subseteq Zones /\ was \subseteq Zones /\ todo \subseteq Zones
  /\ target \in {"ok", "absent", "unreadable"}
  /\ mode \in {"ok", "absent", "unreadable"}
  /\ pc \in Busy \cup {"idle"}

Init ==
  /\ zone = NoObjects /\ seen = NoObjects /\ list = NoObjects
  /\ behind = {} /\ stale = {} /\ published = {} /\ was = {} /\ todo = {}
  /\ due = FALSE /\ moved = FALSE
  /\ target \in {"ok", "absent", "unreadable"}
  /\ mode = "ok"
  /\ pc = "idle"

-----------------------------------------------------------------------------
(* The reconcile *)

Listed(phase) == {z \in Zones : list[z].phase = phase}

\* Ends the reconcile and forgets what it knew.
Return ==
  /\ pc' = "idle"
  /\ list' = NoObjects /\ stale' = {} /\ mode' = "ok" /\ was' = {}
  /\ moved' = FALSE /\ todo' = {}

\* The zones a phase visits.
ToClaim(objs) == {z \in Zones : objs[z].phase = "live" /\ ~objs[z].fin}
ToRelease(objs) == {z \in Zones : objs[z].phase = "terminating" /\ objs[z].fin}

\* Mutant: an unreadable ConfigMap is taken for an absent one.
FirstPhase_ReleasesIfUnread(m) == IF m = "ok" THEN "claim" ELSE "release"

\* Mutant: zones are held whenever CoreDNS is unavailable.
FirstPhase_HoldsIfAbsent(m) == IF m = "ok" THEN "claim" ELSE "status"

\* Where reading the ConfigMap leads: an absent target releases the zones that
\* are terminating, one that cannot be read holds them.
FirstPhase(m) ==
  CASE m = "ok"         -> "claim"
    [] m = "absent"     -> "release"
    [] m = "unreadable" -> "status"

\* The zones of the phase that starts.
Visits(phase, objs) ==
  CASE phase = "claim"   -> ToClaim(objs)
    [] phase = "release" -> ToRelease(objs)
    [] phase = "status"  -> {z \in Zones : objs[z].phase = "live"}
    [] OTHER             -> {}

\* List the zones and get the ConfigMap.
List ==
  /\ pc = "idle" /\ due
  /\ due' = FALSE
  /\ list' = seen /\ stale' = behind
  /\ mode' = target /\ was' = published /\ moved' = FALSE
  /\ pc' = FirstPhase(target)
  /\ todo' = Visits(FirstPhase(target), seen)
  /\ UNCHANGED <<objects, published, target>>

\* Update a listed zone to the given object.
UpdateZone(z, o) ==
  /\ zone' = [zone EXCEPT ![z] = o]
  /\ behind' = behind \cup {z}
  /\ UNCHANGED seen

\* Claim a live zone before it is rendered.
Claim ==
  /\ pc = "claim"
  /\ \E z \in todo \ stale :
       /\ UpdateZone(z, [zone[z] EXCEPT !.fin = TRUE])
       /\ list' = [list EXCEPT ![z].fin = TRUE]
       /\ todo' = todo \ {z}
  /\ UNCHANGED <<due, published, target, pc, stale, mode, was, moved>>

\* What the commit makes of each zone.
Output(z) ==
  /\ list[z].phase = "live"
  /\ \/ list[z].spec = "good"
     \/ list[z].spec = "invalid" /\ z \in was
Desired == {z \in Zones : Output(z)}

\* The commit goes through on the ConfigMap that was read.
Commit ==
  /\ pc = "commit"
  /\ ~moved
  /\ published' = Desired
  /\ pc' = "release" /\ todo' = Visits("release", list)
  /\ UNCHANGED <<objects, due, target, locals, moved>>

\* With nothing to write, it does not notice that the ConfigMap went away or
\* was replaced.
CommitUnaware ==
  /\ pc = "commit"
  /\ moved /\ Desired = was
  /\ pc' = "release" /\ todo' = Visits("release", list)
  /\ UNCHANGED <<objects, due, published, target, locals, moved>>

\* With something to write, its first Update fails.
CommitConflict ==
  /\ pc = "commit"
  /\ moved /\ Desired # was
  /\ due' = TRUE
  /\ Return
  /\ UNCHANGED <<objects, published, target>>

\* A commit that fails has carried out some of its writes, or none.
CommitFails ==
  /\ pc = "commit"
  /\ ~moved
  /\ \E S \in SUBSET Zones :
       published' = (Desired \cap S) \cup (published \ S)
  /\ due' = TRUE
  /\ Return
  /\ UNCHANGED <<objects, target>>

\* Mutant: zones are released before the commit removes them.
NextPhase_ReleaseFirst(phase) ==
  CASE phase = "claim"   -> "release"
    [] phase = "release" -> IF mode = "ok" THEN "commit" ELSE "status"

\* The phase after the last zone of this one.
NextPhase(phase) ==
  CASE phase = "claim"   -> "commit"
    [] phase = "release" -> "status"

Proceed ==
  /\ pc \in {"claim", "release"}
  /\ todo = {}
  /\ pc' = NextPhase(pc)
  /\ todo' = Visits(NextPhase(pc), list)
  /\ UNCHANGED <<objects, due, published, target, locals, moved>>

\* Release a terminating zone; the last finalizer gone, the object goes.  A
\* zone that is gone already is no error.
Release ==
  /\ pc = "release"
  /\ \E z \in todo :
       /\ IF zone[z].phase = "none" THEN UNCHANGED objects
          ELSE z \notin stale /\ UpdateZone(z, NoObject)
       /\ todo' = todo \ {z}
  /\ UNCHANGED <<due, published, target, pc, locals, moved>>

\* An Update of an object that has changed since it was listed fails.
UpdateFails ==
  /\ pc \in {"claim", "release"}
  /\ \E z \in todo \cap stale : pc = "claim" \/ zone[z].phase # "none"
  /\ due' = TRUE
  /\ Return
  /\ UNCHANGED <<objects, published, target>>

\* Mutant: a zone that renders is Ready also if there is no CoreDNS to serve it.
Verdict_IgnoresTarget(z) == IF list[z].spec = "good" THEN "true" ELSE "false"

\* Mutant: a zone whose previous output is held is reported Ready.
Verdict_HeldIsReady(z) ==
  IF mode = "ok" /\ list[z].spec # "unusable" THEN "true" ELSE "false"

\* The Ready condition a reconcile arrives at for a listed zone.
Verdict(z) == IF mode = "ok" /\ list[z].spec = "good" THEN "true" ELSE "false"

\* Patch the status of a live zone.  There is no patch if the status would be
\* the listed one; a change of the serial or of another field may cause one also
\* if Ready stays.
WriteStatus ==
  /\ pc = "status"
  /\ \E z \in todo :
       /\ \/ /\ zone[z].phase = "none" \/ Verdict(z) = list[z].ready
             /\ UNCHANGED objects
          \/ /\ zone[z].phase # "none"
             /\ UpdateZone(z, [zone[z] EXCEPT !.ready = Verdict(z)])
       /\ todo' = todo \ {z}
  /\ UNCHANGED <<due, published, target, pc, locals, moved>>

\* Reporting an unavailable CoreDNS ends in an error, so it is retried.
Finish ==
  /\ pc = "status"
  /\ todo = {}
  /\ due' = (due \/ mode # "ok")
  /\ Return
  /\ UNCHANGED <<objects, published, target>>

\* The process dies or another API call fails.
Abort ==
  /\ pc \in Busy
  /\ due' = TRUE
  /\ Return
  /\ UNCHANGED <<objects, published, target>>

-----------------------------------------------------------------------------
(* The environment *)

\* The watch brings a cached object up to date and queues a reconcile.
Sync ==
  \E z \in behind :
    /\ seen' = [seen EXCEPT ![z] = zone[z]]
    /\ behind' = behind \ {z}
    /\ due' = TRUE
    /\ UNCHANGED <<zone, published, target, pc, locals, moved, todo>>

\* The informers resynchronise from time to time.
Resync ==
  /\ ~due /\ seen # NoObjects
  /\ due' = TRUE
  /\ UNCHANGED <<objects, published, target, pc, locals, moved, todo>>

\* Somebody other than the operator writes a zone.
UserWrites(z, o) ==
  /\ UpdateZone(z, o)
  /\ stale' = IF pc \in Busy THEN stale \cup {z} ELSE {}
  /\ UNCHANGED <<due, published, target, pc, list, mode, was, moved, todo>>

Create ==
  \E z \in Zones, s \in Specs :
    /\ zone[z].phase = "none"
    /\ UserWrites(z, [NoObject EXCEPT !.phase = "live", !.spec = s])

Edit ==
  \E z \in Zones, s \in Specs :
    /\ zone[z].phase # "none" /\ zone[z].spec # s
    /\ UserWrites(z, [zone[z] EXCEPT !.spec = s])

\* An object with a finalizer stays until it is released.
Delete ==
  \E z \in Zones :
    /\ zone[z].phase = "live"
    /\ UserWrites(z, IF zone[z].fin THEN [zone[z] EXCEPT !.phase = "terminating"]
                     ELSE NoObject)

\* The ConfigMap or its Corefile is deleted, restored without a managed block,
\* or its access rights change.
TargetChanges ==
  /\ \E t \in {"ok", "absent", "unreadable"} \ {target} :
       /\ target' = t
       /\ published' = IF t = "absent" THEN {} ELSE published
       /\ moved' = (pc \in Busy /\ (moved \/ "absent" \in {t, target}))
  /\ UNCHANGED <<objects, due, pc, locals, todo>>

Environment == Create \/ Edit \/ Delete \/ TargetChanges
Operator == \/ List \/ Claim \/ Proceed \/ Commit \/ CommitUnaware
            \/ CommitConflict \/ Release \/ UpdateFails \/ WriteStatus \/ Finish

Next == Operator \/ CommitFails \/ Abort \/ Sync \/ Resync \/ Environment

Spec == Init /\ [][Next]_vars

\* The worker and the watch keep going; resynchronisation is periodic.
FairSpec == Spec /\ WF_vars(Operator) /\ WF_vars(Sync) /\ WF_vars(Resync)

-----------------------------------------------------------------------------
(* The inductive invariant *)

\* The cache is current or marked behind; it never shows a claimed live zone
\* that has been released since.
CacheInv ==
  \A z \in Zones :
    /\ z \notin behind => seen[z] = zone[z]
    /\ (seen[z].phase = "live" /\ seen[z].fin) => zone[z].fin
    /\ zone[z].fin => zone[z].phase # "none"

\* What the reconcile knows of the objects it listed.
ListInv ==
  /\ pc = "claim" => /\ todo = ToClaim(list)
                     /\ \A z \in todo \ stale : zone[z].phase = "live"
  /\ pc = "commit" => ToClaim(list) = {}
  /\ pc = "release" => todo \subseteq ToRelease(list)
  /\ pc = "status" => todo \subseteq Listed("live")
  /\ pc \in {"claim", "commit"} =>
       \A z \in Listed("live") : list[z].fin => zone[z].fin
  /\ pc \in {"claim", "commit", "release"} =>
       \A z \in Listed("terminating") \ stale :
          (pc = "release" => z \in todo) =>
             zone[z].phase = "terminating" /\ seen[z].phase = "terminating"

\* What is published is claimed, and how it relates to what was read and to
\* what the commit made of it.
OutputInv ==
  /\ \A z \in published : zone[z].fin
  /\ target = "absent" => published = {}
  /\ pc \in {"claim", "commit"} =>
       /\ mode = "ok"
       /\ moved => published = {}
       /\ ~moved => published = was /\ target # "absent"
  /\ pc = "release" => published \subseteq Listed("live")
  /\ (pc \in {"release", "status"} /\ mode = "ok" /\ ~moved)
       => Desired \subseteq published

\* The invariant from which NoOrphans and ReadyOnlyIfPublished follow: a zone
\* with a stanza carries the finalizer, in spite of a cache that may show it as
\* it was, and the list a reconcile works from stays sound until it is used.
LifecycleInv == TypeOK /\ CacheInv /\ ListInv /\ OutputInv

-----------------------------------------------------------------------------
(* Properties *)

\* A zone's object is never gone while its output is still in CoreDNS: the
\* finalizer is set before the zone is published and removed after its output
\* is, whatever the cache, crashes and a ConfigMap that comes and goes do.
NoOrphans == \A z \in Zones : zone[z].phase = "none" => z \notin published

\* Ready turns true only on a zone that is published at that moment, unless the
\* ConfigMap was replaced after the reconcile read it.
ReadyOnlyIfPublished ==
  [][\A z \in Zones :
       (zone[z].ready # "true" /\ zone'[z].ready = "true")
          => z \in published \/ moved]_vars

\* A step that can only be a crash or an API error.
Failure ==
  (Abort \/ CommitFails) /\ ~UpdateFails /\ ~CommitConflict /\ ~Finish

\* Once edits and failures cease and the ConfigMap is there, every terminating
\* zone is gone and unpublished, every good zone is claimed, published and
\* Ready, and every other zone says it is not Ready.
EveryZoneSettles ==
  (<>[][~(Environment \/ Failure)]_vars /\ <>[](target = "ok")) =>
     <>[]\A z \in Zones :
           /\ zone[z].phase # "terminating"
           /\ zone[z].phase = "none" => z \notin published
           /\ (zone[z].phase = "live" /\ zone[z].spec = "good") =>
                zone[z].fin /\ z \in published /\ zone[z].ready = "true"
           /\ (zone[z].phase = "live" /\ zone[z].spec # "good") =>
                zone[z].ready = "false"

\* A missing CoreDNS never makes a zone undeletable: unless the ConfigMap
\* cannot be read, terminating zones go.
TerminatingZonesGo ==
  (<>[][~(Environment \/ Failure)]_vars /\ <>[](target # "unreadable")) =>
     <>[]\A z \in Zones : zone[z].phase # "terminating"
=============================================================================
