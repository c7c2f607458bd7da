SPECIFICATION Spec
CONSTANTS
  Task = {t1}
  MaxMsg = 4
  MaxEdits = 2
  MaxFaults = 0
  MaxReplyDepth = 5
  ConvoTimeout = 1
  PairTimeout = 2
SYMMETRY Symmetry
PROPERTY PairBound
