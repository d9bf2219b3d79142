CONSTANTS
  Numbered <- MCNumbered
  UnknownLocation = unknown
  Plans <- AllPlans
SPECIFICATION Spec
INVARIANTS SubqueriesAgree SubqueryNamesItsRelation InputsPrintedFirst EachInputOnOneLine
PROPERTY RefinesConversion
CHECK_DEADLOCK FALSE
