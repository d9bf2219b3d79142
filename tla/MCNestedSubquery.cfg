CONSTANTS
  Numbered <- MCNumbered
  UnknownLocation = unknown
  Plans <- NestedPlans
SPECIFICATION Spec
INVARIANT ComesBackUnchanged
CHECK_DEADLOCK FALSE
