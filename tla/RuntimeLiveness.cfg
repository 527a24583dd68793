CONSTANTS
  None = None
  Block <- ThreeBranches
  StartBlock = None
  Lookback = 3
  PoolBlock <- FirstOrThirdBlocks
  Pools <- OnePool
  Apply <- QuietApply
  Fresh <- QuietFresh
  Pending <- PendingPool
  Rejected <- SideBlock
  MaxReorgs = 3
  MaxFaults = 2
SPECIFICATION FairSpec
INVARIANTS
  ReplayIsIdempotent
PROPERTIES
  EventuallyCaughtUp
