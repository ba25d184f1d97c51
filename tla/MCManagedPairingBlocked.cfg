SPECIFICATION Spec
CONSTANTS
  Clients = {c1}
  Nonces = {n1}
  Bots = {b1}
  Workers = {w1}
  MaxVer = 0
  MaxFaults = 0
  FreshNonces = TRUE
  Blocked = {b1}
  External = {}
  Payloads <- BotTokens
  NoPayload = NoPayload
  NoNonce = NoNonce
  NoBot = NoBot
INVARIANT
  NonRetryableSwallowed
CHECK_DEADLOCK FALSE
