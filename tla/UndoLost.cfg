SPECIFICATION Spec
CONSTANTS
  Node <- MCNode
  NoNode = ""
  StartNode = "start"
  NodeType <- MCNodeType
  EventName = {"yes", "no"}
  NoName = ""
  Trans <- MCTrans
  Deadline <- MCDeadline
  ForkOf <- MCForkOf
  MayFail = {"done"}
  Effectful = {"pay", "ship"}
  Critical = {"pay"}
  Compensable = {"pay", "ship"}
  EventId <- MCEventId
  NoEvent = "nil"
  NameOf <- MCNameOf
  MaxNodeVisits = 2
  SnapshotEveryN = 6
  MaxCrash = 1
  MaxLost = 0
INVARIANT CarriedOutIsUndoable
