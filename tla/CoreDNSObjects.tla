--------------------------- MODULE CoreDNSObjects ---------------------------
(***************************************************************************)
(* The two Kubernetes objects the operator writes, the CoreDNS ConfigMap   *)
(* and the CoreDNS Deployment, and the functions of internal/coredns that  *)
(* edit them in memory.                                                    *)
(*                                                                         *)
(* A rendered zone file, a rendered template stanza and a hand-written     *)
(* file are opaque members of Contents.  The Corefile is split into what   *)
(* is outside the managed block (base), the state of the block's two       *)
(* marker lines (markers) and the stanzas inside it, one per zone.         *)
(***************************************************************************)
EXTENDS Integers, FiniteSets

CONSTANTS
  Zones,        \* normalised zone suffixes (dns.NormalizeZone)
  Keys,         \* ConfigMap data keys other than "Corefile"
  ZoneFileKey,  \* dns.ZoneFileKey: the data key of a zone's file
  Contents,     \* rendered or hand-written texts
  NoFile,       \* the data key does not exist
  Hashes,       \* values of combinedHash
  NoStamp       \* the pod template carries no restart hash

\* The dashed suffix plus 24 bits of its SHA-1: two normalised suffixes of one
\* cluster are taken not to collide.
ASSUME ZoneFileKeyAssumption ==
  /\ ZoneFileKey \in [Zones -> Keys]
  /\ \A y, z \in Zones : ZoneFileKey[y] = ZoneFileKey[z] => y = z

ASSUME MarkersDistinct ==
  /\ NoFile \notin Contents
  /\ NoStamp \notin Hashes

ZoneKeys == {ZoneFileKey[z] : z \in Zones}
ZoneOf(k) == CHOOSE z \in Zones : ZoneFileKey[z] = k

-----------------------------------------------------------------------------
(* Types *)

Files == [Keys -> Contents \cup {NoFile}]

\* A server block of the managed region: a "file" stanza names the zone's
\* key and has no other content, a "template" stanza carries its records.
NoStanza == [kind |-> "none", body |-> NoFile]
FileStanza == [kind |-> "file", body |-> NoFile]
TemplateStanza(c) == [kind |-> "template", body |-> c]
Stanzas == {NoStanza, FileStanza} \cup {TemplateStanza(c) : c \in Contents}

Bases == {"reload", "plain"}
Markers == {"absent", "intact", "broken"}
Corefiles == [base : Bases, markers : Markers, blocks : [Zones -> Stanzas]]

ConfigMaps == [corefile : Corefiles, data : Files, managed : SUBSET Keys]

\* How the pod template mounts the ConfigMap: with explicit items, as a whole
\* directory, or not at all.  items leaves out the Corefile's own item.
Mounts == {"items", "all", "none"}
Deployments ==
  [mount : Mounts, items : SUBSET Keys, stamp : Hashes \cup {NoStamp}]

NoBlocks == [z \in Zones |-> NoStanza]
NoFiles == [k \in Keys |-> NoFile]

\* The keys a files map or a ConfigMap's data holds (mapKeys).
KeysOf(files) == {k \in Keys : files[k] # NoFile}

\* The keys the file plugins of the managed stanzas name.
NamedKeys(blocks) ==
  {ZoneFileKey[z] : z \in {y \in Zones : blocks[y].kind = "file"}}

-----------------------------------------------------------------------------
(* internal/coredns/configmap.go *)

\* Adds and updates; never removes a key.
SetZoneFiles(cm, files) ==
  [cm EXCEPT !.data =
     [k \in Keys |-> IF files[k] # NoFile THEN files[k] ELSE cm.data[k]]]

SetCorefile(cm, corefile) == [cm EXCEPT !.corefile = corefile]

RemoveZoneFiles(cm, keys) ==
  [cm EXCEPT !.data = [k \in Keys |-> IF k \in keys THEN NoFile ELSE cm.data[k]]]

SetManagedZoneKeys(cm, keys) == [cm EXCEPT !.managed = keys]

\* Mutant: splitting the empty annotation yields one empty key.
ManagedZoneKeys_EmptyKey(cm) == IF cm.managed = {} THEN {NoFile} ELSE cm.managed

ManagedZoneKeys(cm) == cm.managed

-----------------------------------------------------------------------------
(* internal/coredns/corefile.go *)

HasReloadPlugin(corefile) == corefile.base = "reload"

\* A damaged pair of markers hides the stanzas from the operator (the file
\* itself, and so CoreDNS, still has them).
ExtractZoneBlocks(corefile) ==
  IF corefile.markers = "intact" THEN corefile.blocks ELSE NoBlocks

\* removeManagedBlock fails on a damaged pair of markers.
CanPatchCorefile(corefile) == corefile.markers # "broken"

PatchCorefile(corefile, directives) ==
  [base |-> corefile.base, markers |-> "intact", blocks |-> directives]

-----------------------------------------------------------------------------
(* internal/coredns/deployment.go *)

\* Mutant: drops the stale items and adds none.
EnsureZoneVolumeItems_OnlyDrops(dep, desired, previouslyManaged) ==
  IF dep.mount = "items"
  THEN [dep EXCEPT !.items = dep.items \ (previouslyManaged \ desired)]
  ELSE dep

\* Mounts the desired keys and drops the keys that were managed and are no
\* longer desired.  A volume without items exposes every key already.
EnsureZoneVolumeItems(dep, desired, previouslyManaged) ==
  IF dep.mount = "items"
  THEN [dep EXCEPT !.items =
          (dep.items \cup desired) \ (previouslyManaged \ desired)]
  ELSE dep

MarkRolloutRestart(dep, value) == [dep EXCEPT !.stamp = value]

=============================================================================
