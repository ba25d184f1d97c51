SPECIFICATION Spec
CONSTANTS
  Clients = {c1, c2}
  Nonces = {n1, n2}
  Bots = {b1, b2}
  Workers = {w1, w2}
  MaxVer = 0
  MaxFaults = 1
  FreshNonces = TRUE
  Blocked = {b2}
  External = {}
  Payloads <- BotTokens
  NoPayload = NoPayload
  NoNonce = NoNonce
  NoBot = NoBot
SYMMETRY Symmetry
INVARIANTS
  TypeOK
  TokenInOnePlace
  RightBot
  FallbackIsFinal
  AckImpliesOutcome
  HandoffInv


CHECK_DEADLOCK FALSE
