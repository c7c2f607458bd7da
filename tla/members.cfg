SPECIFICATION FairSpec
CONSTANTS
  Task = {t1, t2}
  Bot = {peer, self}
  Self = self
  Trusted = {self}
  Reported = {peer, self}
  MaxCommands = 2
  MaxJoins = 3
  MaxFaults = 1
CHECK_DEADLOCK FALSE
INVARIANTS TypeOK KickIsNoBan BannedIsBlocked BlockedForCause WelcomeNotBanned
PROPERTY ReportedScreened
