SPECIFICATION MCFairSpec
CONSTANTS
  DataEps = {"ep1in"}
  InEps = {"ep1in"}
  MaxReq = 1
  MaxConn = 1
  MaxSeq = 2
  MaxGadget = 1
  Faults = {"loss", "server_alloc", "server_cut", "server_down", "unbind", "unknown"}
INVARIANTS
  TimerCoversQueue
  VudcExportIsClean
  WedgeHolds
  VudcAnsweredOnce
CHECK_DEADLOCK FALSE
PROPERTIES
  VudcUnlinkAnswered
  VudcLetsGo
