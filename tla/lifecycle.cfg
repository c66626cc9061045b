SPECIFICATION Spec
CONSTANTS
  u1 = u1
  u2 = u2
  Users = {u1, u2}
  Eligible = {u1, u2}
  PrivacyLevels = {"PUBLIC", "PROTECTED", "PRIVATE"}
  Starts = {1, 2}
  Ends = {2}
  Capacities = {1}
  NoEnd = NoEnd
  NoLimit = NoLimit
  HardStale = 9
  SoftStale = 9
  Quiet = 9
  RequestCooldown = 1
  DeclineCooldown = 1
  MaxTime = 2
  MaxVersion = 2
  MaxInflight = 2
INVARIANT TypeOK
INVARIANT TicketMatchesParticipation
INVARIANT NoApprovalOnStaleTerms
INVARIANT SeatsWithinCapacity
INVARIANT NobodyWaitsInProgress
INVARIANT OpenOfferCanBeHonoured
INVARIANT ClosedPrivateEventHasNoOpenTicket
PROPERTY LateLeaverStaysOut
PROPERTY AttendanceIsKept
SYMMETRY Symmetry
CHECK_DEADLOCK FALSE
