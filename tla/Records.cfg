SPECIFICATION Spec
CONSTANTS
  Labels <- MCLabels
  Lower <- MCLower
  ValidLabels <- MCValidLabels
  MaxLabels = 2
  Texts <- MCTexts
  Fold <- MCFold
  Target <- MCTarget
  WellFormed <- MCWellFormed
  Namespaces <- MCNamespaces
  NoRecord = NoRecord
  NoZone = NoZone
  MaxEdits = 0
  Ids <- MCTwoIds
  RecordSpecs <- MCRecords
  ZoneSpecs <- MCZones
INVARIANTS
  TypeOK
  OneRecordCostsOneName
  RenderNeverRefuses
  StatusTellsTheTruth
PROPERTIES
  RepublishKeepsAnswers
