CONSTANTS
  User = {u1, u2}
  Inspector = {i1, i2}
  Slot = {s1}
  Req = {r1, r2, r3}
  FaultyReq = {}
  None = None
  InspectorAuthority <- MCInspectorAuthority
  SlotAuthority <- MCSlotAuthority
SPECIFICATION Spec
PROPERTY AvailableInspectorIsBooked
CHECK_DEADLOCK FALSE
