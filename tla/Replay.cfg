CONSTANTS
  None = None
  Block <- Tree
  Parts <- TwoParts
  Observer = {1, 2}
  Time = {1, 2}
  Start <- Checkpointed
  To = 3
  Rejected <- NoBlock
  Tx = {tx}
  Outcome <- Receipts
  MaxRecords = 6
  MaxPrior = 2
SPECIFICATION Spec
INVARIANTS
  DetectedWhenKnown
  NoForkIsGuessed
  StatusIsOfTheTime
