SPECIFICATION Spec
CONSTANTS
  Clients = {c1}
  Nonces = {n1}
  Bots = {b1}
  Workers = {w1, w2}
  MaxVer = 0
  MaxFaults = 0
  FreshNonces = TRUE
  Blocked = {}
  External = {}
  Payloads <- BotTokens
  NoPayload = NoPayload
  NoNonce = NoNonce
  NoBot = NoBot
PROPERTY
  NotFoundMeansNoHandoff
CHECK_DEADLOCK FALSE
