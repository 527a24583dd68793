CONSTANTS
  None = None
  Q = 16
  MaxWord = 600
  MaxAmount = 12
  MaxTick = 3
  Spacing = 2
  WordSize = 2
  SqrtAtTick <- Table
  FeeUnit = 10
  HookFee = 1
  CreatorTax = 0
  Position <- Ranges
  Unit = 12
  Landing = {9, 16, 19, 27}
  MaxUnits = 1
  MaxBatch = 2
  Chain <- Chains
  QuoteAsset = "USD"
  MinDepth = 1
  MinProfit = 1
  Listing <- Listings
  Market <- Markets
  Cost <- Costs
SPECIFICATION MarketSpec
INVARIANTS
  LiquidityIsActive
  QuoteCrossesNoTick
  RoundTripNeverGains
  DepthIsInside
  CheckpointReloads
  RoutesAreThePairs
  ProfitIsReal
