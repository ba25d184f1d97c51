SPECIFICATION FairSpec
CONSTANTS
  Callers = {c1, c2}
  Nonces = {n1}
  Payloads = {p1, p2}
  NoPayload = NoPayload
  Free = Free
  TTLs = {0, 1}
  MaxTime = 1
  MaxCalls = 4
INVARIANTS
  TypeOK
  LockDiscipline
  NoExpiredEntrySeen
PROPERTIES
  ImplementsPairingStore
  EveryCallReturns
