SPECIFICATION AgentSpec
CONSTANTS
  LoopIds = {l1, l2}
  TimerIds = {t1}
  Stoppers = {s1, s2}
  Sources = {"trigger"}
  OverlappingStart = FALSE
  Providers = {pa}
  MaxTurns = 2
  MaxCalls = 1
  MaxAttempts = 2
  MaxFailures = 2
  Lines = {a1}
  MaxAlerts = 1
  None = None
  NoProvider = NoProvider
INVARIANTS
  AtMostOneRound
  WakeUpsKept
  TrailWhole
  FailuresLock
PROPERTIES
  StopCompletes
  WakeServed
