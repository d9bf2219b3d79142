CONSTANTS
  Numbered <- MCNumbered
  UnknownLocation = unknown
  Texts <- HandWritten
SPECIFICATION Spec
INVARIANTS ParserTypeOK PipelinesEnd EveryArrowKept
CHECK_DEADLOCK FALSE
