\* A datagram overtaken by the next, nothing lost and nothing repeated.
CONSTANTS
  MaxFills = 1  MaxPublished = 3  MaxCopies = 1  MaxLosses = 0  MaxSyncs = 0
SPECIFICATION MCSpec
INVARIANT DuplicatesWereSeen
