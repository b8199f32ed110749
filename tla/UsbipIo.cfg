SPECIFICATION MCSpec
CONSTANTS
  Urbs = {u1, u2}
  NoUrb = NoUrb
  MaxSeq = 3
  MaxDetach = 0
  MaxConn = 1
  StaleReads = {1}
  Faults = {}
  Flows = {"import", "export"}
INVARIANTS
  RequestsTracked
  AnsweredOnce
  CancelledUrbStopped
SYMMETRY UrbSymmetry
CHECK_DEADLOCK FALSE
