\* Colliding keys, tombstones, reuse and growth.
CONSTANTS
  Keys <- EightKeys  Values <- Handles  Hash <- Spread  MaxCapacity = 16
SPECIFICATION Spec
INVARIANTS ProbesEnd IsAMap
