---------------------------- MODULE MCZoneSerial ----------------------------
(* Small instances of ZoneSerial for TLC. *)
EXTENDS ZoneSerial

CONSTANTS LastDay, LastSerial, Named, Tied, A, B

\* LastDay and LastSerial bound the clock and stand for math.MaxUint32.
MCDays == 0..LastDay
MCMaxSerial == LastSerial

MCRecords == {Named, Tied}
MCBodies == {A, B}

\* Two records of one FQDN and type come out in one order if their objects have
\* different names, and in either order if these are namesakes.
MCTexts == [r \in MCRecords |-> IF r = Named THEN {A} ELSE {A, B}]

\* Two record sets that leave no tie.
MCSingleTexts == [r \in MCRecords |-> IF r = Named THEN {A} ELSE {B}]
=============================================================================
