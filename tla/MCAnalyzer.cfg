SPECIFICATION FairSpec
CONSTANTS
  Node <- MCNode
  Missing = {"x"}
  None = ""
  Start = "a"
  End = {"d"}
  MaxPaths = 2
  MaxStates = 3
  Defs <- MCDefs
CHECK_DEADLOCK FALSE
INVARIANTS
  ReachExact
  CycleExact
  CleanEnds
  PathBudget
PROPERTIES
  Finishes
