CONSTANTS
  podA = podA
  podB = podB
  Replica = {podA, podB}
  ReplicaOf <- MCReplicaOf
  MaxOpenConns = 1
  None = None
  InspectorAuthority <- MCInspectorAuthority
  SlotAuthority <- MCSlotAuthority
  Slot = {s1}
  Unstable = {podA}
  User = {u1, u2}
  Inspector = {i1, i2}
  Req = {r1, r2, r3}
  OnA = {r1}
  FaultyReq = {r1}
SPECIFICATION PooledSpec
SYMMETRY Symmetry
INVARIANT TypeOK
INVARIANT PoolKept
INVARIANT NoCircularWait
INVARIANT NoDoubleBooking
INVARIANT AnswersMatchTable
PROPERTY DeadUserFrozen
PROPERTY HistoryKept
PROPERTY ImplementsLedger
CHECK_DEADLOCK FALSE
