SPECIFICATION FairSpec
CONSTANTS
  Task = {t1}
  Bot = {peer, trusted, self}
  Self = self
  Trusted = {trusted}
  Reported = {self}
  MaxCommands = 0
  MaxJoins = 1
  MaxFaults = 0
CHECK_DEADLOCK FALSE
PROPERTY Screened
