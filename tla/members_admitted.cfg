SPECIFICATION Spec
CONSTANTS
  Task = {t1}
  Bot = {peer, self}
  Self = self
  Trusted = {}
  Reported = {peer, self}
  MaxCommands = 2
  MaxJoins = 1
  MaxFaults = 0
CHECK_DEADLOCK FALSE
PROPERTY BlockedNotAdmitted
