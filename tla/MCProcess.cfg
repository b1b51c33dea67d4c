SPECIFICATION FairSpec
CONSTANTS
  Node <- MCNode
  NoNode = ""
  StartNode = "start"
  NodeType <- MCNodeType
  EventName = {"yes", "no", "redo"}
  NoName = ""
  Trans <- MCTrans
  Deadline <- MCDeadline
  ForkOf <- MCAll
  MayFail = {"rework", "done", "stamp", "pause"}
  Effectful = {"rework", "pay", "done", "split", "stamp"}
  Critical = {"pay", "stamp"}
  Compensable = {"rework", "pay", "stamp"}
  EventId <- MCEventId
  NoEvent = "nil"
  NameOf <- MCNameOf
  AutoCompensate = TRUE
  MaxNodeVisits = 3
  MaxBranchSteps = 4
  MaxDrainSteps = 9
  WakesTerminal = TRUE
  VisitCap = 4
CHECK_DEADLOCK FALSE
INVARIANTS
  InstanceSlotIsCurrent
  NeverLeftRunning
  TimedWaitArmed
  ConsumedExactlyIfDrove
  FailedMeansCompensated
  OpenScopeUndecided
  BranchesParked
  BranchSlotIsLive
PROPERTIES
  TerminalIsFinal
  DoneBranchInert
  CallsReturn
  TimedWaitEnds
