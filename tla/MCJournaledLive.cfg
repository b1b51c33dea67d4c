SPECIFICATION FairSpec
CONSTANTS
  Node <- MCNode
  NoNode = ""
  StartNode = "start"
  NodeType <- MCNodeType
  EventName = {"yes", "no"}
  NoName = ""
  Trans <- MCTrans
  Deadline <- MCDeadline
  ForkOf <- MCForkOf
  MayFail = {"done", "ship"}
  Effectful = {"pay", "ship"}
  Critical = {"pay"}
  Compensable = {"pay", "ship"}
  EventId <- MCEventId
  NoEvent = "nil"
  NameOf <- MCNameOf
  MaxNodeVisits = 1
  SnapshotEveryN = 0
  MaxCrash = 1
  MaxLost = 1
PROPERTIES
  IssuedIsResolved
