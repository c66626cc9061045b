SPECIFICATION Spec
CONSTANTS
  Tasks = {t1, t2}
  MaxTrouble = 1
INVARIANTS
  OffersAreHonoured
  NothingIsWithheld
  PageComesToRest
SYMMETRY Symmetry
CHECK_DEADLOCK FALSE
