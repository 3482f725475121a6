CONSTANTS
  n1 = n1
  n2 = n2
  Business = {b1}
  Inspectors = {i1}
  Method = {"CreateBusinessUser", "CreateSession", "DeleteBusinessUser", "GetSessionUser", "UpdateBusinessUser"}
  Replica = {n1, n2}
  Offset <- MCOffset
  Spread = 1
  Hour = 3
  Second = 2
  Horizon = 4
  Req = {r1}
  None = None
SPECIFICATION Spec
INVARIANT EndpointsGuarded
INVARIANT LoggedOut
INVARIANT AdminHour
CHECK_DEADLOCK FALSE
