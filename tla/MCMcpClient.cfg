SPECIFICATION Spec
CONSTANTS
  hello = hello
  c1 = c1
  c2 = c2
  c3 = c3
  Calls <- MCCalls
  Hello = hello
  Stray = Stray
  None = None
  Capacity = 2
  MaxStrays = 3
INVARIANTS
  McpInv
PROPERTIES
  CallsEnd
CHECK_DEADLOCK FALSE
