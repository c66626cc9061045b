SPECIFICATION FairSpec
CONSTANTS
  u1 = u1
  u2 = u2
  Users = {u1, u2}
  Eligible = {u1}
  PrivacyLevels = {"PUBLIC"}
  Starts = {1, 2}
  Ends = {3}
  Capacities = {1}
  NoEnd = NoEnd
  NoLimit = NoLimit
  HardStale = 3
  SoftStale = 1
  Quiet = 1
  RequestCooldown = 1
  DeclineCooldown = 1
  MaxTime = 6
  MaxVersion = 2
  MaxInflight = 2
PROPERTY StartedEventCloses
CHECK_DEADLOCK FALSE
