SPECIFICATION UxSpec
CONSTANTS
  Vectors <- MCVectors
  TxBytes = 3
  RxSizes <- MCRxSizes
  RxBytes = 3
  BLEN = 2
INVARIANT
  UnlinkWaits
CHECK_DEADLOCK FALSE
