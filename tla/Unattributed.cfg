SPECIFICATION Spec
CONSTANTS
  Instance = Instance
  None = None
  b1 = b1
  b2 = b2
  e1 = e1
  e2 = e2
  e3 = e3
  Branch = {b1, b2}
  EventId = {e1, e2, e3}
  Cap = 2
  TTL = 2
  MaxTime = 3
  Ai = {"triage"}
  Approval = {"sign"}
  Required = {"triage", "sign"}
  Entry = "triage"
  Exit = "over"
  Result = {"ok", "bad"}
  Reply = {"yes", "no"}
  Route <- MCRoute
  FailFast = FALSE
  Content <- MCContent
  MaxVisits = 5
  MaxCrash = 1
SYMMETRY Symmetry
INVARIANTS
  NeverUnowned
