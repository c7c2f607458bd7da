SPECIFICATION Spec
CONSTANTS
  Caller = {c1, c2}
  Capacity = 1
  Grain = 5
  Rate = 4
  LossyLink = TRUE
  TimeSteps = {100000}
  MaxTime = 400000
SYMMETRY Symmetry
INVARIANTS TypeOK WindowBound SkewedRateBound 
PROPERTY BudgetSpec
