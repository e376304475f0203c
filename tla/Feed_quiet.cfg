\* The last datagram before the feed goes quiet is lost.
CONSTANTS
  MaxFills = 0  MaxPublished = 3  MaxCopies = 1  MaxLosses = 1  MaxSyncs = 0
SPECIFICATION MCFairSpec
PROPERTY LossIsNoticed
