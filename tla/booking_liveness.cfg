CONSTANTS
  podA = podA
  podB = podB
  Replica = {podA, podB}
  ReplicaOf <- MCReplicaOf
  MaxOpenConns = 1
  None = None
  InspectorAuthority <- MCInspectorAuthority
  SlotAuthority <- MCSlotAuthority
  Slot = {s1}
  Unstable = {podA}
  User = {u1}
  Inspector = {i1}
  Req = {r1, r2, r3}
  OnA = {r1}
  FaultyReq = {r1}
SPECIFICATION PooledFairSpec
PROPERTY EveryRequestAnswered
PROPERTY PoolRecovers
CHECK_DEADLOCK FALSE
