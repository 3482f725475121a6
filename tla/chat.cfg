CONSTANTS
  Account = {a1}
  Answer = {hello}
  Req = {r1, r2, r3}
  MaxId = 2
SPECIFICATION Spec
SYMMETRY Symmetry
INVARIANT ExchangesHappened
PROPERTY OnlyRatingsChange
CHECK_DEADLOCK FALSE
