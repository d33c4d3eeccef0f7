SPECIFICATION RFairSpec
CONSTANTS
  z1 = z1
  k1 = k1
  Zones = {z1}
  Keys = {k1}
  AdminKeys = {}
  Contents = {c1}
  Hashes <- MCHashes
  NoFile = NoFile
  NoStamp = NoStamp
  ZoneFileKey <- MCZoneFileKey
  Pods = {p1, p2}
  Base = "reload"
  Kinds = {"gone", "file", "template"}
  MayAbort = TRUE
INVARIANT
  RTypeOK
PROPERTIES
  PodsLoadTheirCorefile
  PodsCatchUp
