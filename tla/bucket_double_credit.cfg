SPECIFICATION Spec
CONSTANTS
  Caller = {c1, c2}
  Capacity = 1
  Grain = 1
  Rate = 8
  LossyLink = FALSE
  TimeSteps = {25000}
  MaxTime = 50000
SYMMETRY Symmetry
INVARIANT RateBound
