\* Up to three orders anywhere in a band of nine ticks.  With two-bit words they
\* need five words of l0_, three of l1_ and two of l2_, the last ones not full.
CONSTANTS
  TickCount = 9  WordBits = 2
  Levels = {0, 1, 2, 3, 4, 5, 6, 7, 8}  Quantities = {1, 2}
  MaxNodes = 3  kNullHandle = kNullHandle
SPECIFICATION Spec
INVARIANTS LinksSpellTheQueue SlabIsPartitioned WalkIsComplete
