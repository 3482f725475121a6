CONSTANTS
  Email = {e1}
  Patronymic = {p1, p2}
  Empty = Empty
  NoAccount = NoAccount
  Req = {r1, r2, r3}
  FaultyReq = {}
SPECIFICATION Spec
PROPERTY UpdateStoresAll
CHECK_DEADLOCK FALSE
