CONSTANTS
  u1 = u1
  u2 = u2
  u3 = u3
  tax = tax
  fire = fire
  nothing = nothing
  opening = opening
  permits = permits
  monday = monday
  tuesday = tuesday
  Upload = {u1, u2, u3}
  Name = {tax, fire}
  Item = {nothing, opening, permits, monday, tuesday}
  File <- MCFile
  Faulty = {u1, u2, u3}
SPECIFICATION FairSpec
INVARIANT NamesResolve
INVARIANT OnlyDeadlocksBlock
PROPERTY WholeWorkbooks
PROPERTY EveryUploadEnds
CHECK_DEADLOCK FALSE
