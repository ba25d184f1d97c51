SPECIFICATION AtLeastOnceSpec
CONSTANTS
  Callers = {c1, c2}
  Nonces = {n1}
  Payloads = {p1, p2}
  NoPayload = NoPayload
  TTLs = {0, 1}
  MaxTime = 2
  MaxCalls = 4
  MaxFaults = 2
SYMMETRY Symmetry
INVARIANTS
  AtLeastOnceTypeOK
  HandoffLaw
PROPERTY
  ReadyIsFinal
CHECK_DEADLOCK FALSE
