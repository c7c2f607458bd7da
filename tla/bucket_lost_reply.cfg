SPECIFICATION Spec
CONSTANTS
  Caller = {c1}
  Capacity = 2
  Grain = 1
  Rate = 200
  LossyLink = TRUE
  TimeSteps = {1000}
  MaxTime = 1000
INVARIANT ChargedOnce
