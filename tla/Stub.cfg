SPECIFICATION MCFairSpec
CONSTANTS
  MaxConn = 1
  MaxSeq = 3
  Faults = {"loss", "server_alloc", "server_cut", "server_down", "submit", "reset"}
INVARIANTS
  StubTypeOK
  HwUrbHasPriv
  AvailableIsClean
PROPERTIES
  ServerTeardownEnds
  ServerLetsGo
CHECK_DEADLOCK FALSE
