SPECIFICATION LibusbSpec
CONSTANTS
  MaxCmds = 3
  NumIfs = 1
  LibusbFaults = {"claim", "thread", "endpoint", "malloc", "payload", "submit", "poll", "reset"}
INVARIANTS
  ResultBeforeUnlink
PROPERTIES
  LibusbJoins
CHECK_DEADLOCK FALSE
