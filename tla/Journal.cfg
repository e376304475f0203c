\* Kills, power cuts and failing system calls at every step.
CONSTANTS
  Durabilities = {"None", "Interval", "Always"}
  SegmentCells = 4  BufferCells = 4
  MaxCommands = 4  MaxRestarts = 2
  Environment = {"kill", "power", "fail"}
  Truncates = TRUE  Resumes = TRUE
SPECIFICATION MCSpec
INVARIANTS AcknowledgedSurvive CrashesOnlyTear KillLosesOnlyTheBuffer RecoveredInOrder
