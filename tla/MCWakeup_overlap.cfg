SPECIFICATION Spec
CONSTANTS
  LoopIds = {l1, l2}
  TimerIds = {t1, t2, t3}
  Stoppers = {s1}
  Sources = {"trigger"}
  OverlappingStart = TRUE
  None = None
INVARIANT AtMostOneRound
CHECK_DEADLOCK FALSE
