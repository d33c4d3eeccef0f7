SPECIFICATION FairSpec
CONSTANTS
  z1 = z1
  z2 = z2
  k1 = k1
  k2 = k2
  f1 = f1
  Zones = {z1, z2}
  Keys = {k1, k2, f1}
  AdminKeys = {f1}
  Contents = {c1}
  Hashes = {h1}
  NoFile = NoFile
  NoStamp = NoStamp
  ZoneFileKey <- MCZoneFileKey
INVARIANTS
  TypeOK
  VolumePopulates
  CorefileLoads
  OwnedKeysTracked
  CommitPublishesPlan
  CommitInv
PROPERTIES
  HoldKeepsServing
  PublishesZonesAtomically
  HandmadeUntouched
  SteadyStateWritesNothing
  FailedCommitRecovers
