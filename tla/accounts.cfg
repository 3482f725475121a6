CONSTANTS
  Email = {e1}
  Patronymic = {p1}
  Empty = Empty
  NoAccount = NoAccount
  Req = {r1, r2, r3, r4}
  FaultyReq = {r1}
SPECIFICATION FairSpec
INVARIANT EmailUnique
INVARIANT LinksIntact
INVARIANT RepliesTruthful
INVARIANT NoCircularWait
PROPERTY TokensStayTheirs
PROPERTY ProfilesKept
PROPERTY ImplementsRegistry
PROPERTY EveryRequestAnswered
CHECK_DEADLOCK FALSE
