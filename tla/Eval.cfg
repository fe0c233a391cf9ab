SPECIFICATION Spec
CONSTANTS
  MaxCalls = 5
  Imp <- Imps
  Names <- AllNames
  Program <- ProgramOf
INVARIANTS
  ShowsMeaning
  Balanced
  NamesDeclared
  CompiledAsRepl
PROPERTIES
  Ends
