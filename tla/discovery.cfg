CONSTANTS
  Favorite = {f}
  Spot = {s}
  Tap = {t, u}
  None = None
  Pages = 2
  Foci = {{"text", "pages"}, {"filters", "pages"}, {"pages", "session"}, {"picker", "session"}, {"picker", "map"}}
  MaxInput = 3
  MaxCalls = 2
  MaxLost = 1
SPECIFICATION Spec
CHECK_DEADLOCK FALSE
INVARIANT ScreenShowsWhatWasAsked
PROPERTY ListSettles
