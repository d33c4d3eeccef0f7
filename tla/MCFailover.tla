----------------------------- MODULE MCFailover -----------------------------
(* Small instances of Failover for TLC. *)
EXTENDS Failover, TLC

CONSTANTS z1, k1

MCZoneFileKey == [z \in Zones |-> k1]
=============================================================================
