SPECIFICATION FairServiceSpec

CONSTANTS
  File = {f1, f2}
  Pid = {main, d1}
  Main = main
  MaxCancels = 1
  Job = {1, 2}
  Run = {1, 2}
  None = None
  Cycles = 2

CHECK_DEADLOCK FALSE

INVARIANTS
  SuccessStands
  ShutdownSettlesRuns

PROPERTIES
  UserFilesAreKept
  StopsWhenTold
  CancelledRunsEnd
