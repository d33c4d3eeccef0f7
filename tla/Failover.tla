------------------------------ MODULE Failover ------------------------------
(***************************************************************************)
(* Two operator processes over the same CoreDNS objects.  Each one runs    *)
(* the commit of CommitCoreDNS with a memory of its own.  A process starts *)
(* a reconcile only while it holds the lease, but the lease may expire     *)
(* between any two of its writes and nothing ties a write to the lease.    *)
(* Without leader election (the default of --leader-elect) both start when *)
(* they like, which a lease that changes hands at any time allows too.     *)
(*                                                                         *)
(* The ConfigMap, written under its resourceVersion, fences an outdated    *)
(* process; the Deployment, read again before each write, does not.        *)
(***************************************************************************)
EXTENDS CoreDNSObjects

VARIABLES
  cm, dep,  \* the objects
  leader,   \* who holds the lease, "a" or "b"
  pca, mema, fresha, preva, wanta, switcheda,  \* the memory of process a
  pcb, memb, freshb, prevb, wantb, switchedb   \* and of process b

locala == <<pca, mema, fresha, preva, wanta, switcheda>>
localb == <<pcb, memb, freshb, prevb, wantb, switchedb>>
fvars == <<cm, dep, leader, locala, localb>>

A == INSTANCE CommitCoreDNS WITH
       AdminKeys <- {}, handmade <- {}, pc <- pca, mem <- mema, fresh <- fresha,
       prev <- preva, want <- wanta, switched <- switcheda

B == INSTANCE CommitCoreDNS WITH
       AdminKeys <- {}, handmade <- {}, pc <- pcb, mem <- memb, fresh <- freshb,
       prev <- prevb, want <- wantb, switched <- switchedb

FTypeOK == A!TypeOK /\ B!TypeOK /\ leader \in {"a", "b"}

FInit ==
  /\ A!Init /\ B!Init
  /\ leader = "a"

-----------------------------------------------------------------------------

MayStart(process) == leader = process

\* What a write of the ConfigMap by one process does to the other's copy.
Outdates(pc, fresh) ==
  IF cm' = cm THEN fresh ELSE pc \notin A!Active \cup {"done"}

StepA ==
  /\ \/ MayStart("a") /\ A!Begin
     \/ A!CommitStep \/ A!Conflict \/ A!Abort
  /\ freshb' = Outdates(pcb, freshb)
  /\ UNCHANGED <<leader, pcb, memb, prevb, wantb, switchedb>>

StepB ==
  /\ \/ MayStart("b") /\ B!Begin
     \/ B!CommitStep \/ B!Conflict \/ B!Abort
  /\ fresha' = Outdates(pca, fresha)
  /\ UNCHANGED <<leader, pca, mema, preva, wanta, switcheda>>

\* The lease expires and the other process takes it; the old holder finds out
\* some time later, when it exits (A!Abort, B!Abort).
LoseLease ==
  /\ leader' = IF leader = "a" THEN "b" ELSE "a"
  /\ UNCHANGED <<cm, dep, locala, localb>>

FNext == StepA \/ StepB \/ LoseLease

FSpec == FInit /\ [][FNext]_fvars

-----------------------------------------------------------------------------
(* Properties *)

\* Whoever writes, every zone file the Corefile names is in the ConfigMap (so
\* that CoreDNS loads it if the ConfigMap is mounted whole), and every operator
\* key in it is listed by the annotation: the three ConfigMap writes of a process
\* are never interleaved with another's.
ConfigMapStaysWhole ==
  /\ NamedKeys(cm.corefile.blocks) \subseteq KeysOf(cm.data)
  /\ ZoneKeys \cap KeysOf(cm.data) \subseteq cm.managed

\* What is served for a zone changes only from what it was to what one running
\* process wants, at once, and never by a process whose copy of the ConfigMap
\* the other has overtaken.
ServedMovesWhole ==
  [][\A z \in Zones : A!Served(z)' # A!Served(z) =>
       \/ pca \in A!Active /\ fresha /\ A!Served(z)' = A!Wanted(z)
       \/ pcb \in A!Active /\ freshb /\ A!Served(z)' = B!Wanted(z)]_fvars

\* No volume item names a missing key (README "CoreDNS writes are ordered so its
\* ConfigMap mount is never broken").
VolumePopulates == A!VolumePopulates

=============================================================================
