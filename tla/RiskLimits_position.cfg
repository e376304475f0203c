\* A quantity that leaves the signed word passes max_position.
CONSTANTS
  Second = 6  kMax = 15  kBasisPoints = 4
  Setups <- PositionOnly  Commands <- MCCommands
  Delays = {1, 5}  MaxNow = 9  MaxAdmitted = 4
SPECIFICATION MCSpec
INVARIANT PositionLimitHolds
