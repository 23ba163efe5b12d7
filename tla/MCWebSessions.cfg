SPECIFICATION Spec
CONSTANTS
  s1 = s1
  r1 = r1
  r2 = r2
  c1 = c1
  None = None
  Sessions <- MCSessions
  Preserved <- MCPreserved
  Runs <- MCRuns
  Clients <- MCClients
  DirectStatus <- MCDirect
  Budgets <- MCBudgets
INVARIANTS
  SessionsInv
  FileIsCurrent
  CallbacksKeptApart
PROPERTIES
  RunsEnd
