-------------------------- MODULE MCZoneConditions --------------------------
(* Small instances of ZoneConditions for TLC. *)
EXTENDS ZoneConditions

Renders(excluded, records) ==
  [ok |-> TRUE, excluded |-> excluded, records |-> records]
Fails(reason, held) == [ok |-> FALSE, held |-> held, reason |-> reason]

\* With a name withheld, and an invalid record set that holds a file.
MCWorlds == {Renders(TRUE, 1), Fails("InvalidRecordSet", "file")}

MCTargets == {"reload", "unavailable"}

\* The zone's author turns a zone file into template stanzas.
MCPolicy == <<"NXDOMAIN", "Forward">>

=============================================================================
