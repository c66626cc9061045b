SPECIFICATION Spec
CONSTANTS
  u1 = u1
  u2 = u2
  u3 = u3
  Users = {u1, u2, u3}
  Host = Host
  PrivacyLevels = {"PUBLIC", "PROTECTED"}
  Capacities = {1, 3}
  MaxVersion = 3
INVARIANT GuardedSeatsWithinCapacity
INVARIANT GuardedApprovedOnCurrentTerms
INVARIANT GuardedFreeSeatIsOffered
INVARIANT UsersNeverDeadlock
PROPERTY RecountIsExact
CHECK_DEADLOCK FALSE
SYMMETRY Symmetry
