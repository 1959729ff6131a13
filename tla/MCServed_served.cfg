SPECIFICATION SumSpec
CONSTANTS
  close = close
  order = order
  probe = probe
  other = other
  start = start
  Callers <- Tasks
  Urgent = {close}
  Mutating = {close, order}
  Timed = {probe}
  MaxCalls <- TwoSteps
  Keys = {"a", "b"}
  Rejected = {"b"}
  Start = 2
  Depth = 4
  Multiplier = 2
  MaxNow = 5
  MaxWire = 1
  MaxFaults = 1
  None = None
INVARIANTS
  AbandonedIsKnown
  TornOnlyByLoss
PROPERTIES
  CallsServed
  StaleHealed
  RecordedUnlessOvertaken
CHECK_DEADLOCK FALSE
