CONSTANTS
  User = {u1, u2}
  Inspector = {i1, f1}
  Firemen = {f1}
  Slot = {s1, s3, sf}
  Req = {r1, r2}
  Look = {l1, l2, l3}
  Horizon = 1
  None = None
  s1 = s1
  s3 = s3
  sf = sf
  licensing = licensing
  fire = fire
  Authority = {licensing, fire}
  Topic = {licensing}
  DayLength = 4
  Zone = 1
  Period <- MCPeriod
  Start <- MCStart
  End <- MCEnd
  TopicAuthority <- MCTopicAuthority
  InspectorAuthority <- MCInspectorAuthority
  SlotAuthority <- MCSlotAuthority
SPECIFICATION Spec
SYMMETRY Symmetry
INVARIANT TypeOK
INVARIANT DatesHaveSlots
INVARIANT SlotsOnDate
INVARIANT ListedCanBeCanceled
INVARIANT TakenOnlyByNewer
INVARIANT HistoryShown
INVARIANT OneAuthority
CHECK_DEADLOCK FALSE
