SPECIFICATION FairSpec
CONSTANTS
  Worlds <- MCWorlds
  Targets <- MCTargets
  Policy <- MCPolicy
  MaxGen = 2
  MaxTime = 1
INVARIANTS
  TypeOK
  ConditionsOfOneResult
  TransitionTimesHonest
PROPERTIES
  SteadyStatusKept
  StatusCatchesUp
