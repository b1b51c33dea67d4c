SPECIFICATION Spec
CONSTANTS
  Version <- MCVersion
  Hash = {h1, h2}
  Person = {alice}
  Caller = {w1, w2}
  Nothing = nothing
  MaxTime = 1
  MaxCrash = 1
SYMMETRY MCSymmetry
INVARIANTS
  LiveIsLatest
  OneFact
  Accountable
