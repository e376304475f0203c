\* A restart without truncation leaves a torn record in the middle.
CONSTANTS
  Durabilities = {"Always"}
  SegmentCells = 4  BufferCells = 4
  MaxCommands = 3  MaxRestarts = 1
  Environment = {"kill"}
  Truncates = FALSE  Resumes = TRUE
SPECIFICATION MCSpec
INVARIANT TornTailIsTheEnd
