SPECIFICATION Spec
CONSTANTS
  Callers = {c1, c2}
  Nonces = {n1}
  Payloads = {p1, p2}
  NoPayload = NoPayload
  Millisecond = 2
  TTLs = {3}
  MaxRetries = 1
  MaxTime = 2
  MaxCalls = 3
  MaxFaults = 2
SYMMETRY Symmetry
INVARIANTS
  TypeOK
  NoTokenAnsweredTwice
PROPERTY
  ImplementsAtLeastOnceStore
CHECK_DEADLOCK FALSE
