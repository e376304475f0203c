\* Calls that fail: neither holds; TLC reports both with -continue.
CONSTANTS
  Durabilities = {"None", "Interval", "Always"}
  SegmentCells = 4  BufferCells = 4
  MaxCommands = 3  MaxRestarts = 0
  Environment = {"fail"}
  Truncates = TRUE  Resumes = TRUE
SPECIFICATION MCSpec
INVARIANTS RefusedNeverReplayed DamageIsAtTheEnd
