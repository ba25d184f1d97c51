SPECIFICATION Spec
CONSTANTS
  Callers = {c1}
  Nonces = {n1}
  Payloads = {p1}
  NoPayload = NoPayload
  Millisecond = 2
  TTLs = {1}
  MaxRetries = 0
  MaxTime = 0
  MaxCalls = 1
  MaxFaults = 0
PROPERTY
  PutRegisters
CHECK_DEADLOCK FALSE
