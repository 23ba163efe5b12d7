SPECIFICATION StreamSpec
CONSTANTS
  Conns <- MCConns
  Polls <- MCPolls
  NoConn = NoConn
  Capacity = 2
  MaxVersion = 4
  MaxFaults = 1
INVARIANTS
  StreamInv
PROPERTIES
  SubscribeReturns
  PageCatchesUp
CHECK_DEADLOCK FALSE
