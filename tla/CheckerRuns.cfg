\* Every limit, beside a consumer, under aborts and outages.
SPECIFICATION FairSpec
CONSTANTS
  b1 = b1
  b2 = b2
  Bitstreams = {b1, b2, b3}
  Limit = 2
  Unlimited = Unlimited
  Worlds <- AllWorlds
  MaxIterations = 3
INVARIANT TypeOK
INVARIANT OldestBatchSwept
INVARIANT NothingScannedTwice
PROPERTY ScannedAgain
PROPERTY RunEnds
CHECK_DEADLOCK FALSE
