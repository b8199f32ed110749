SPECIFICATION UxSpec
CONSTANTS
  Vectors <- MCVectors
  TxBytes = 3
  RxSizes <- MCRxSizes
  RxBytes = 3
  BLEN = 2
PROPERTIES
  UxIsStream
  UxLetsGo
CHECK_DEADLOCK FALSE
