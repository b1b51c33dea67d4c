SPECIFICATION Spec
CONSTANTS
  Node <- MCNode
  NoNode = ""
  StartNode = "start"
  NodeType <- MCNodeType
  EventName = {"yes", "no", "redo"}
  NoName = ""
  Trans <- MCTransBack
  Deadline <- MCDeadline
  ForkOf <- MCAll
  MayFail = {"rework", "done"}
  Effectful = {"rework", "pay", "done", "split", "stamp"}
  Critical = {"pay", "stamp"}
  Compensable = {"rework", "pay", "stamp"}
  EventId <- MCEventId
  NoEvent = "nil"
  NameOf <- MCNameOf
  AutoCompensate = TRUE
  MaxNodeVisits = 3
  MaxBranchSteps = 2
  MaxDrainSteps = 5
  WakesTerminal = TRUE
  VisitCap = 4
CHECK_DEADLOCK FALSE
INVARIANT TimedWaitArmed
