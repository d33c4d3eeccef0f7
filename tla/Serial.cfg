SPECIFICATION FairSpec
CONSTANTS
  Named = Named
  Tied = Tied
  A = A
  B = B
  NoRecords = NoRecords
  NoBody = NoBody
  LastDay = 1
  LastSerial = 4
  SlotsPerDay = 2
  Records <- MCRecords
  Bodies <- MCBodies
  Texts <- MCTexts
  Days <- MCDays
  MaxSerial <- MCMaxSerial
INVARIANTS
  TypeOK
  SerialInv
PROPERTIES
  SerialAdvances
  SerialStaysPut
  RecordsReachCoreDNS
  OperatorComesToRest
