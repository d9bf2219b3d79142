CONSTANTS
  Numbered <- MCNumbered
  UnknownLocation <- MCUnknown
  Wildcards = {}
  Numbers = {}
  Integers <- MCIntegers
  Stoi <- MCStoi
  Plans <- MCPlans
  Texts <- MCTexts
  MaxTrips = 2
  Ids <- MCIds
  FileText <- MCFileText
SPECIFICATION Spec
INVARIANTS ReadTypeOK ReadsKept TextsRead NamesFollowed
CHECK_DEADLOCK FALSE
