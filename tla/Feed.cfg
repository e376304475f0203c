\* Four datagrams, two losses, duplicates, reordering and one snapshot.
CONSTANTS
  MaxFills = 1  MaxPublished = 4  MaxCopies = 2  MaxLosses = 2  MaxSyncs = 1
SPECIFICATION MCSpec
INVARIANTS AppliedOnceInOrder NoSilentLoss
