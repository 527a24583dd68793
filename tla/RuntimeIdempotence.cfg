CONSTANTS
  None = None
  Block <- LongBranches
  StartBlock = 1
  Lookback = 4
  PoolBlock <- AllBlocks
  Pools <- OnePool
  Apply <- MovingApply
  Fresh <- MovingFresh
  Pending <- PendingPool
  Rejected <- NoBlock
  MaxReorgs = 2
  MaxFaults = 0
SPECIFICATION Spec
INVARIANT ReplayIsIdempotent
