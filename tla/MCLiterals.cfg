CONSTANTS
  Wildcards = {}
  Numbers = {}
  Integers <- MCIntegers
  Stoi <- MCStoi
  Messages <- MCMessages
  Writings <- MCWritings
  MaxTrips = 2
  Digits = 2
  Limits <- MCLimits
  Byte = 4
  Width = 2
  Precisions <- MCPrecisions
  UuidDigits = 4
  Hex <- MCHex
  DateText <- MCDateText
  Moments <- MCMoments
SPECIFICATION Spec
INVARIANTS LiteralTypeOK LiteralsKept TextsRead DecimalsAsWritten ConstantsRead
CHECK_DEADLOCK FALSE
