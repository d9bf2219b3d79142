CONSTANTS
  Plans <- FieldPlans
SPECIFICATION Spec
INVARIANTS
  SymbolsAreColumns
  SchemasAgree
  ReferencesKept
  TextAccepted
CHECK_DEADLOCK FALSE
