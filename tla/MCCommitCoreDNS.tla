-------------------------- MODULE MCCommitCoreDNS ---------------------------
(* Small instances of CommitCoreDNS for TLC. *)
EXTENDS CommitCoreDNS, TLC

CONSTANTS z1, z2, k1, k2, f1

\* The zone file keys of the instance, restricted to its zones.
MCZoneFileKey == [z \in Zones |-> IF z = z1 THEN k1 ELSE k2]
=============================================================================
