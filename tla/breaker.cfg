SPECIFICATION FairSpec
CONSTANTS
  Task = {t1, t2}
  Threshold = 2
  Window = 2
  Cooldown = 2
  MaxLag = 1
  MaxFaults = 1
INVARIANTS TypeOK QuietBound LaggedBound OpenIsAudited
PROPERTIES TripJustified ClosesAgain
