SPECIFICATION Spec
CONSTANTS
  close = close
  stop = stop
  target = target
  other = other
  Orders = {close, stop, target}
  Own <- MCOwn
  AutoOrders = {stop, target}
  Liquidations = {}
  Starter = start
  Catchers = {start}
  Overlap = 1
  Lookback = 2
  Limit = 2
  Before = 1
  After = 1
  Cap = 1
  MaxTrades = 2
  MaxTime = 1
  MaxRestarts = 1
  None = None
SYMMETRY MCSymmetry
INVARIANTS AttributionKept PnlBookedOnce
CHECK_DEADLOCK FALSE
