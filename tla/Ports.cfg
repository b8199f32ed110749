SPECIFICATION PortsSpec
CONSTANTS
  Proc = {q1, q2}
  MaxCtl = 2
  InitCtl = 1
  HcPorts = 1
  FreeHcs = 1
  MaxFails = 2
  PortFaults = {"alloc", "probe", "link", "record"}
SYMMETRY ProcSymmetry
INVARIANTS
  PortCountSane
  RetriesArePaid
CHECK_DEADLOCK FALSE
