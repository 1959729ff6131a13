SPECIFICATION Spec
CONSTANTS
  close = close
  stop = stop
  target = target
  other = other
  Orders = {close}
  Own <- MCOwn
  AutoOrders = {}
  Liquidations = {}
  Starter = start
  Catchers = {start}
  Overlap = 1
  Lookback = 2
  Limit = 2
  Before = 1
  After = 1
  Cap = 1
  MaxTrades = 1
  MaxTime = 0
  MaxRestarts = 0
  None = None
INVARIANTS OwnOrdersKnown
CHECK_DEADLOCK FALSE
