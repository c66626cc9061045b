SPECIFICATION Spec
CONSTANTS
  u1 = u1
  u2 = u2
  Users = {u1, u2}
  Host = Host
  PrivacyLevels = {"PUBLIC"}
  Capacities = {1}
  MaxVersion = 1
INVARIANT SeatsWithinCapacity
CHECK_DEADLOCK FALSE
SYMMETRY Symmetry
