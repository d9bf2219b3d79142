CONSTANTS
  Wildcards = {}
  Numbers <- MCIntegers
  Integers <- MCIntegers
  Stoi <- MCStoi
  Messages <- MCMessages
  Texts <- MCTexts
  MaxTrips = 2
  Ids <- MCIds
  Columns <- MCColumns
  Functions = {"f", "g", "ifthen"}
  FunctionZero = "g"
SPECIFICATION Spec
INVARIANTS DetailTypeOK RelationsKept TextsRead TextKept AcceptedPrinted
CHECK_DEADLOCK FALSE
