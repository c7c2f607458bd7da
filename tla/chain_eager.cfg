SPECIFICATION Spec
CONSTANTS
  Task = {t1, t2}
  MaxMsg = 4
  MaxEdits = 0
  MaxFaults = 0
  MaxReplyDepth = 2
  ConvoTimeout = 1
  PairTimeout = 1
SYMMETRY Symmetry
INVARIANT LoopBound
