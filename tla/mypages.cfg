CONSTANTS
  MaxCalls = 2
  MaxLost = 1
  NumNotes = 3
  FirstNotes = {2}
  NotePage = 1
  MaxNoteActs = 4
  NumInvitations = 2
  MaxSteps = 4
  PushUsers = {u1, u2}
  MaxTurns = 6
  MaxCodes = 3
  MaxTicketActs = 3
  MaxFavorites = 2
  NumFavorites = 3
  MaxFavoriteActs = 3
  NumSpots = 3
  NumNames = 2
  MaxProfileActs = 4
SPECIFICATION Spec
CHECK_DEADLOCK FALSE
INVARIANTS ListsAreTrue PushesReachTheUser
  OpenTicketKeepsAsking GoodCodeIsAccepted
PROPERTY ActsOnWhatIsShown
