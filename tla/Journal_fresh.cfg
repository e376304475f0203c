\* A venue restarted on its own journal numbers from 1 again.
CONSTANTS
  Durabilities = {"Always"}
  SegmentCells = 4  BufferCells = 4
  MaxCommands = 3  MaxRestarts = 1
  Environment = {}
  Truncates = TRUE  Resumes = FALSE
SPECIFICATION MCSpec
INVARIANT GapMeansLoss
