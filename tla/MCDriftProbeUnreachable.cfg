SPECIFICATION Spec
CONSTANTS
  b1 = b1
  u1 = u1
  n1 = n1
  Bots = {b1, b2}
  Nothing = Nothing
  NoBot = NoBot
  URLs = {u1}
  NoURL = NoURL
  Names = {n1, n2}
  NoName = NoName
  Records <- MCRecords
  MaxVer = 1
  MaxFaults = 0
INVARIANT
  UnreachableIsTransport
CHECK_DEADLOCK FALSE
