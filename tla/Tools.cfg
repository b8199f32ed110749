SPECIFICATION MCSpec
CONSTANTS
  Flows = {"import", "export", "list"}
  MaxCmds = 2
  MaxDevs = 2
  Upsets = {"cut", "kill"}
  Busid = {b1, b2}
  MAX_BUSID = 1
  User = {u1, u2}
  MaxRuns = 3
  MaxPlugs = 1
  MaxConns = 2
  BindFaults = {"probe", "release", "unbind", "reset", "signal"}
INVARIANTS
  ImportStreamsSeparate
  OutcomeIsTrue
  SdevOutlivesThreads
  DisconnectFindsEntry
PROPERTIES
  BothOrNeither
  CommandEnds
  BindEnds
CHECK_DEADLOCK FALSE
