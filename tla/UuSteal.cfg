CONSTANTS
  Procs = {p1, p2, p3}
  None = None
  Uses = {"mklock"}
  Faults = {}
  MAX_LOCKTRY = 5
  MaxEnds = 1
SPECIFICATION LockSpec
PROPERTY RemovesInactiveOnly
