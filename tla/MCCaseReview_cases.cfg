SPECIFICATION SumSpec
CONSTANTS
  N = 3
  Limits = {1, 2}
  Budget = 2
  MaxLists = 2
  MaxFlips = 1
  Disputed = {}
  MaxRequests = 0
  MaxFaults = 1
INVARIANT AuthorisedOnce
PROPERTY NoneStarved
CHECK_DEADLOCK FALSE
