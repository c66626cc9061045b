CONSTANTS
  PageSize = 1
  MaxOld = 2
  MaxNew = 1
  MaxInput = 5
  MaxCalls = 2
  MaxLost = 1
  NumRows = 2
  FirstRows = {1, 2}
  MaxActs = 2
  MaxMore = 1
  MaxWaiting = 1
  MaxEvents = 1
SPECIFICATION Spec
CHECK_DEADLOCK FALSE
INVARIANTS
  EverythingCanBeReached
  HostListIsCurrent
PROPERTIES
  DraftSurvives
  RatingDraftKept
