SPECIFICATION SumSpec
CONSTANTS
  Contracts = {c1, c2}
  Sizes <- SmallSizes
  Prices = {8, 13}
  Leverages = {1, 4}
  FeePercent = 10
  MaintPercent = 5
  FundPercent <- FundRates
  Interval = 2
  Equities = {14}
  MaxFills = 3
  MaxNow = 2
  MaxResets = 1
  Entries = {e1, e2}
  Amenders = {m1}
  Levels = {low, high}
  Limit = 2
  MaxCloses = 1
  AccountResets = 0
  Remote = TRUE
  External = FALSE
  OperatorMoves = {}
  StopLevels = {2, 4}
  EntryPrices = {3}
  Directions <- BothSides
  MaxSize = 2
  MaxIds = 4
  RiskLimit = 1
  MaxFaults = 2
  None = None
SYMMETRY Symmetry
INVARIANTS NeverBare ToldTrue WidenedWithinLimit ExposureBounded NoStaleWrite
PROPERTIES RejectedIsWhole StepBalances LossesEnd LeverageHolds NoEntryUnderLock
CHECK_DEADLOCK FALSE
