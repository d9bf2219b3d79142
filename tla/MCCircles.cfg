CONSTANTS
  Numbered <- MCNumbered
  UnknownLocation = unknown
  Texts <- Circles
SPECIFICATION Spec
INVARIANT BuildingEnds
CHECK_DEADLOCK FALSE
