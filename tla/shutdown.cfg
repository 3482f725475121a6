CONSTANTS
  Work = {c1, c2, v1}
  Calls = {c1, c2}
  ServerOf <- MCServerOf
SPECIFICATION FairSpec
INVARIANT TypeOK
PROPERTY NothingCutEarly
PROPERTY ShutdownEnds
CHECK_DEADLOCK FALSE
