SPECIFICATION Spec
CONSTANTS
  Entries = {e1, e2}
  Amenders = {}
  Levels = {low, high}
  Limit = 2
  MaxCloses = 0
  MaxResets = 1
  Remote = TRUE
  External = FALSE
  OperatorMoves = {FALSE}
  None = None
PROPERTIES EngageLocks
