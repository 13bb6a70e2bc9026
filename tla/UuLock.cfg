CONSTANTS
  Procs = {p1, p2, p3}
  None = None
  Uses = {"fd_mklock", "cklock"}
  Faults = {"creat", "lockf"}
  MAX_LOCKTRY = 5
  MaxEnds = 2
SPECIFICATION FairLockSpec
INVARIANTS LockTypeOK DeviceExclusive LockExclusive NoTheft
PROPERTY StaleRemoved
