SPECIFICATION Spec
CONSTANTS
  Grain = 5
  Task = {t1, t2}
  Target = {peer, nobody}
  Everyone = everyone
  TargetBurst = 1
  TargetRate = 5
  GlobalBurst = 1
  GlobalRate = 20
  AbsMaxRate = 4
  MaxFaults = 1
  TimeSteps = {100000}
  MaxTime = 200000
SYMMETRY Symmetry
INVARIANTS TypeOK Ceiling Isolation ThreeWaits
