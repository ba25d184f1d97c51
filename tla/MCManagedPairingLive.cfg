SPECIFICATION FairSpec
CONSTANTS
  Clients = {c1}
  Nonces = {n1}
  Bots = {b1, b2}
  Workers = {w1}
  MaxVer = 1
  MaxFaults = 1
  FreshNonces = TRUE
  Blocked = {}
  External = {b2}
  Payloads <- BotTokens
  NoPayload = NoPayload
  NoNonce = NoNonce
  NoBot = NoBot
INVARIANT
  AckImpliesOutcome
PROPERTIES
  EveryUpdateAnswered
  EverySessionEnds
  ImplementsHandoff
CHECK_DEADLOCK FALSE
