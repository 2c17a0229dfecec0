\* One client walks through a listing of up to three rows, two per page.
CONSTANTS
  x1 = x1  x2 = x2  x3 = x3  g1 = g1
  Everything = Everything
  Kinds <- AllKinds
  Rows = {x1, x2, x3}
  Stamp <- Times
  Rank <- Ids
  Mine = {x1}
  Me = x1
  Groups = {g1}
  Limit = 2
SPECIFICATION Spec
INVARIANTS TypeOK SkipsAreExplained RepeatsAreExplained QuietWalkIsExact
PROPERTIES ShownWithinReach
CHECK_DEADLOCK TRUE
