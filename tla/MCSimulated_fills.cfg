SPECIFICATION SumSpec
CONSTANTS
  MaxFills = 2
  Drainers = {d1}
  Closers = {m1}
  EngineKinds = {"order", "liquidation"}
  Resets = TRUE
  AmbiguousCommit = TRUE
  Contracts = {"btc", "eth"}
  OrderIds = {o1, o2, o3}
  Snaps <- SpreadSnaps
  Sizes <- TwoSizes
  Prices = {1, 3}
  TakeProfits = {3}
  None = None
SYMMETRY OrderSymmetry
INVARIANTS
  NoFillLost
  RecordedOnce
  UserCloseUnlessRetried
  BookHolds
PROPERTIES OwnFailureWarned ScansSettle
