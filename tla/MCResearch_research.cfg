SPECIFICATION SumSpec
CONSTANTS
  MaxDays = 1
  MaxRounds = 2
  MaxRows = 3
  MaxFaults = 1
  Markets = {"XTKS", "XNYS"}
  Pages <- SomePages
  Minimum = 2
  DaySlots = 3
  YearDays = 2
  Backoff <- SomeDelays
  MaxTime = 9
  MaxPageFaults = 2
INVARIANTS
  RoundsSettled
  ChainsHold
  CalendarHolds
PROPERTY HolidaysKept
CHECK_DEADLOCK FALSE
