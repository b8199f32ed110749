SPECIFICATION MCFairSpec
CONSTANTS
  Urbs = {u1}
  NoUrb = NoUrb
  MaxSeq = 2
  MaxDetach = 1
  MaxConn = 1
  MaxQueue = 1
  StaleReads = {1}
  Faults = {"loss", "client_alloc", "client_cut", "client_timeout"}
INVARIANTS
  VhciTypeOK
  GivenBackOnce
  PrivMatchesUrb
  RequestNumbersUnique
  UnlinksFlushed
  SocketOutlivesThreads
PROPERTIES
  ClientTeardownEnds
  ClientLetsGo
CHECK_DEADLOCK FALSE
