SPECIFICATION FairSpec
CONSTANTS
  Modes <- MCModes
  UserMaxes <- MCUserMaxes
  Calls <- MCCalls
  Requests <- MCRequests
  MaxCalls = 2
INVARIANTS
  TurnsWithinCeiling
  NoTurnWhenStuck
  NudgesWithinBase
  BudgetInv
PROPERTIES
  LoopEnds
