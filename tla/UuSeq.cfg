CONSTANTS
  Procs = {p1, p2, p3}
  None = None
  Uses = {"mklock"}
  Faults = {"open"}
  MAX_LOCKTRY = 5
  MaxEnds = 1
  InitSeqs <- Files
  Rands = {65536}
  SeqFaults = {"fopen", "fscanf", "fclose"}
  MaxJobs = 2
SPECIFICATION SeqSpec
SYMMETRY PidSymmetry
CHECK_DEADLOCK FALSE
INVARIANTS SeqTypeOK UniqueJobs
