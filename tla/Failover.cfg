SPECIFICATION FSpec
CONSTANTS
  z1 = z1
  k1 = k1
  Zones = {z1}
  Keys = {k1}
  Contents = {c1, c2}
  Hashes = {h1}
  NoFile = NoFile
  NoStamp = NoStamp
  ZoneFileKey <- MCZoneFileKey
INVARIANTS
  FTypeOK
  ConfigMapStaysWhole
PROPERTY
  ServedMovesWhole
