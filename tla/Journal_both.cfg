\* A kill, a restart and a power cut lose an acknowledged command.
CONSTANTS
  Durabilities = {"Always"}
  SegmentCells = 4  BufferCells = 4
  MaxCommands = 3  MaxRestarts = 1
  Environment = {"kill", "power"}
  Truncates = TRUE  Resumes = TRUE
SPECIFICATION MCSpec
INVARIANT AcknowledgedAreRecovered
