SPECIFICATION FairSpec
CONSTANTS
  Instance = {a, bad}
  Broken = {bad}
  Worker = {w1, w2}
  Nobody = nobody
  Nothing = nothing
  Stripe = {s1}
  StripeOf <- MCStripeOf
  Never = never
  Limit = 2
  Ordered = TRUE
  MaxTime = 2
  MaxCrash = 1
INVARIANTS
  Serialized
  SummaryIsTrue
PROPERTIES
  BegunOnce
  CallsReturn
  DueIsWoken
