SPECIFICATION Spec
CONSTANTS
  Node <- MCNode
  NoNode = ""
  StartNode = "start"
  NodeType <- MCNodeType
  EventName = {"yes", "no"}
  NoName = ""
  Trans <- MCTrans
  Deadline <- MCDeadline
  ForkOf <- MCForkOf
  MayFail = {"done", "ship"}
  Effectful = {"pay", "ship"}
  Critical = {"pay"}
  Compensable = {"pay", "ship"}
  EventId <- MCEventId
  NoEvent = "nil"
  NameOf <- MCNameOf
  MaxNodeVisits = 2
  SnapshotEveryN = 6
  MaxCrash = 2
  MaxLost = 0
INVARIANTS
  WriteAhead
  FoldIsLive
  OnePending
  Accounted
  UndoneInReverse
PROPERTIES
  FreshCommands
  DeliverySpec
