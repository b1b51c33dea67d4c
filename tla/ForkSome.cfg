SPECIFICATION Spec
CONSTANTS
  Node <- MCNode
  NoNode = ""
  StartNode = "start"
  NodeType <- MCNodeType
  EventName = {"yes", "no", "redo"}
  NoName = ""
  Trans <- MCTransLong
  Deadline <- MCForkDeadline
  ForkOf <- MCSome
  MayFail = {"stamp", "legal"}
  Effectful = {"rework", "pay", "done", "split", "stamp"}
  Critical = {"pay", "stamp"}
  Compensable = {"rework", "pay", "stamp"}
  EventId <- MCEventId
  NoEvent = "nil"
  NameOf <- MCNameOf
  AutoCompensate = TRUE
  MaxNodeVisits = 2
  MaxBranchSteps = 2
  MaxDrainSteps = 9
  WakesTerminal = FALSE
  VisitCap = 3
CHECK_DEADLOCK FALSE
INVARIANTS
  Inv
