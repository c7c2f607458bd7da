SPECIFICATION Spec
CONSTANTS
  Msg = {m1, m2, m3}
  Peer = {peer, trusted}
  Human = {human}
  Trusted = {trusted}
  Listed = {text}
  Unlisted = {poll}
  DedupTtl = 1
  MaxFaults = 1
  MaxTime = 2
SYMMETRY Symmetry
INVARIANTS TypeOK DedupWindow BarredStaysOut ListedIdentical
PROPERTY DupJustified
