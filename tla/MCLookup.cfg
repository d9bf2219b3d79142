CONSTANTS
  Loads <- MCLoads
  Signatures <- MCSignatures
  DecodeType <- MCDecodeType
  TypesMatch <- MCTypesMatch
  TypeTakes <- MCTypeTakes
SPECIFICATION Spec
INVARIANTS LookupTypeOK FindsWhatIsDeclared
PROPERTY AnswersStay
CHECK_DEADLOCK FALSE
