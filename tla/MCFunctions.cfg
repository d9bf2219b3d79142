CONSTANTS
  Numbered <- MCNumbered
  UnknownLocation = unknown
  Uris <- MCUris
  Names <- MCNames
  ShortNames <- MCShortNames
  ShortName <- MCShortName
  Plans <- FunctionPlans
SPECIFICATION Spec
INVARIANTS
  NormalKeepsCalls
  CallsKept
  NormalFormKept
  TextIsNormal
  SerializedAgain
  ConversionAccepted
CHECK_DEADLOCK FALSE
