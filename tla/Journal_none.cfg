\* A process killed with Durability::None loses what it buffered.
CONSTANTS
  Durabilities = {"None"}
  SegmentCells = 4  BufferCells = 4
  MaxCommands = 2  MaxRestarts = 0
  Environment = {"kill"}
  Truncates = TRUE  Resumes = TRUE
SPECIFICATION MCSpec
INVARIANT NoneSurvivesKill
