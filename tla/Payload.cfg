SPECIFICATION MCSpec
CONSTANTS
  MaxLength = 4
  MaxPackets = 3
  MaxPacket = 2
  MaxUrb = 5
  MaxRequest = 4
  MaxRequests = 3
INVARIANTS
  PayloadAccepted
  PayloadIntact
  HeadersAgree
  MatchesPackets
CHECK_DEADLOCK FALSE
