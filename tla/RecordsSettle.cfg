SPECIFICATION FairSpec
CONSTANTS
  Labels <- MCLabels
  Lower <- MCLower
  ValidLabels <- MCValidLabels
  MaxLabels = 2
  Texts <- MCTexts
  Fold <- MCFold
  Target <- MCTarget
  WellFormed <- MCWellFormed
  Namespaces <- MCNamespaces
  NoRecord = NoRecord
  NoZone = NoZone
  MaxEdits = 1
  Ids <- MCOneId
  RecordSpecs <- SettleRecords
  ZoneSpecs <- SettleZones
INVARIANT
  CNAMEsStandAlone
PROPERTY
  StatusesSettle
