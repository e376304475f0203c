\* A record waits for the next append to be persisted.
CONSTANTS
  Durabilities = {"Interval"}
  SegmentCells = 4  BufferCells = 4
  MaxCommands = 2  MaxRestarts = 0
  Environment = {}
  Truncates = TRUE  Resumes = TRUE
SPECIFICATION MCFairSpec
PROPERTY IntervalPersists
