SPECIFICATION Spec
CONSTANTS
  r1 = r1
  r2 = r2
  d1 = d1
  d2 = d2
  NoRun = NoRun
  NoWaiter = NoWaiter
  Runs <- MCRuns
  Ids <- MCIds
  Gated <- MCGated
  Waiters <- MCWaiters
  IdOf <- MCIdOf
  Deciders <- MCDeciders
INVARIANTS
  FailureIsSurfaced
