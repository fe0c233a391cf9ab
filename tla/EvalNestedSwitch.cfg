SPECIFICATION Spec
CONSTANTS
  MaxCalls = 5
  Imp <- Imps
  Names <- NestedSwitch
  Program <- DivergingOf
INVARIANTS
  ShowsMeaning
