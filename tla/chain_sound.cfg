SPECIFICATION Spec
CONSTANTS
  Task = {t1, t2}
  MaxMsg = 3
  MaxEdits = 1
  MaxFaults = 1
  MaxReplyDepth = 1
  ConvoTimeout = 1
  PairTimeout = 1
SYMMETRY Symmetry
INVARIANTS TypeOK DepthSound Exact PromptChainBound LeakFree
PROPERTY DropJustified
