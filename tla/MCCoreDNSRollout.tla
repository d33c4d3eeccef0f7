-------------------------- MODULE MCCoreDNSRollout --------------------------
(* Small instances of CoreDNSRollout for TLC. *)
EXTENDS CoreDNSRollout, TLC

CONSTANTS z1, k1

MCZoneFileKey == [z \in Zones |-> k1]
MCHashes == UNION {{S} : S \in SUBSET Contents}
=============================================================================
