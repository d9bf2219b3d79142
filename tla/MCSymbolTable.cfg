CONSTANTS
  Numbered <- MCNumbered
  Name <- MCName
  Base = {"atan", "atan2"}
  Given = {"atan2"}
  Location = {l1, l2}
  Type = {"relation", "root"}
  UnknownLocation = unknown
  MaxSymbols = 2
  MaxIndex = 2
  MaxLocated = 2
  MaxHandedOut = 3
SYMMETRY Symmetry
SPECIFICATION Spec
INVARIANTS TypeOK SubqueryIndexUnique FoundWhereItIs AnswersApart
PROPERTY LookupsAreStable
CHECK_DEADLOCK FALSE
