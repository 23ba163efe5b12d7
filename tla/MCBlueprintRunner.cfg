SPECIFICATION FairSpec
CONSTANTS
  Roles <- MCRoles
  Blueprints <- MCBlueprints
  Absent = Absent
  Torn = Torn
  MaxConcurrency = 2
  MaxSessions = 4
INVARIANTS
  WaveInv
  DependencyOutputsInjected
PROPERTIES
  NoRecordedWaveRunsAgain
  ImplementsResumableRun
  ProcessEnds
