CONSTANTS
  None = None
  Sequence <- More
  Digest = {genuine, altered}
  Genuine = genuine
  Collector = {c1, c2}
  MaxFrames = 2
  RetryLimit = 1
  MaxPacket = 2
SPECIFICATION Spec
SYMMETRY Exchange
CONSTRAINT SharedIsSmall
INVARIANTS
  TypeOK
  EverySequenceIsExplained
  ReliableRelayLeavesNoGap
PROPERTIES
  ObservationIsHistory
