SPECIFICATION RFairSpec
CONSTANTS
  z1 = z1
  k1 = k1
  Zones = {z1}
  Keys = {k1}
  AdminKeys = {}
  Contents = {c1}
  Hashes <- MCHashes
  NoFile = NoFile
  NoStamp = NoStamp
  ZoneFileKey <- MCZoneFileKey
  Pods = {p1, p2}
  Base = "plain"
  Kinds = {"template"}
  MayAbort = TRUE
PROPERTY
  PodsCatchUp
