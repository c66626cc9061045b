SPECIFICATION Spec
CONSTANTS
  u1 = u1
  Users = {u1}
  Eligible = {u1}
  PrivacyLevels = {"PUBLIC"}
  Starts = {1}
  Ends = {2}
  Capacities = {1}
  NoEnd = NoEnd
  NoLimit = NoLimit
  HardStale = 9
  SoftStale = 9
  Quiet = 9
  RequestCooldown = 1
  DeclineCooldown = 1
  MaxTime = 2
  MaxVersion = 2
  MaxInflight = 2
INVARIANT ClosedEventHasNoOpenTicket
CHECK_DEADLOCK FALSE
