SPECIFICATION AccessSpec
CONSTANTS
  u1 = u1
  d1 = d1
  d2 = d2
  Users = {u1}
  Eligible = {u1}
  PrivacyLevels = {"PUBLIC", "PROTECTED", "PRIVATE"}
  Starts = {1, 2}
  Ends = {2}
  Capacities = {}
  NoEnd = NoEnd
  NoLimit = NoLimit
  HardStale = 9
  SoftStale = 9
  Quiet = 9
  RequestCooldown = 1
  DeclineCooldown = 1
  MaxTime = 2
  MaxVersion = 2
  MaxInflight = 1
  Devices = {d1, d2}
  OpenEnded = 9
  TokenTTL = 0
  MaxTokens = 2
INVARIANT OneAdmission
INVARIANT ApprovedTicketLastsToEnd
SYMMETRY Symmetry
CHECK_DEADLOCK FALSE
