SPECIFICATION FairSpec
CONSTANTS
  Subtasks <- MCSubtasks
  Drafts <- MCDrafts
  Configs <- MCConfigsAndDry
INVARIANTS
  DependenciesFirst
  SevereOnlyWithConsent
  SerialRunsAlone
  ResultsAccountForPlan
  FailureSkipsDependents
  ValidatedPlanSchedules
  IInv
PROPERTIES
  ResultsAreFinal
  SevereFailureStopsPlan
  ImplementsPlanRun
  RunEnds
