SPECIFICATION FairSpec
CONSTANTS
  Phone = phone
  Tabs = {tabA, tabB}
  Calls = {c1, c2}
  Slots = {s1, s2}
  NoSlot = noSlot
  MaxToken = 4
  WebTokens = 2
INVARIANTS
  ReuseNeedsDisturbance
  LiveTokenIsKept
PROPERTIES
  CallsSettle
CHECK_DEADLOCK FALSE
