SPECIFICATION FairSpec
CONSTANTS
  Zones = {z1}
INVARIANTS
  LifecycleInv
  NoOrphans
PROPERTIES
  ReadyOnlyIfPublished
  EveryZoneSettles
  TerminatingZonesGo
