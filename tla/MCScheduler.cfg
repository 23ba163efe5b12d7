SPECIFICATION Spec
CONSTANTS
  j1 = j1
  j2 = j2
  daemon = daemon
  rundue = rundue
  adder = adder
  remover = remover
  None = None
  Jobs <- MCJobs
  Scheduled <- MCScheduled
  Parent <- MCParent
  MaxRetries <- MCMaxRetries
  Passes <- MCPasses
  Daemons <- MCDaemons
  Adders <- MCAdders
  Adds <- MCAdds
  Removers <- MCRemovers
  Removes <- MCRemoves
  Scenarios <- MCScenarios
INVARIANTS
  SchedulerInv
CHECK_DEADLOCK FALSE
PROPERTIES
  ParentSucceeded
  DueJobsRun
