SPECIFICATION MCFairSpec
CONSTANTS
  Urbs = {u1}
  NoUrb = NoUrb
  MaxSeq = 2
  MaxDetach = 0
  MaxConn = 1
  StaleReads = {1}
  Faults = {"loss"}
  Flows = {"import", "export"}
PROPERTY ResultDelivered
CHECK_DEADLOCK FALSE
