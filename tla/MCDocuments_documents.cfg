SPECIFICATION SumSpec
CONSTANTS
  Channels = {"strategy", "indicator_config"}
  Contents = {x, y}
  MaxVersions = 3
  MaxEdits = 1
  MaxFaults = 1
  MaxRounds = 1
  MaxDrafts = 2
  Names = {"default", "other"}
  Forms = {1}
  MaxChanges = 4
  MaxWriteFaults = 1
  Links = {1, 2}
  None = None
INVARIANTS
  RoundsSettled
  ConfigHolds
  LinksWhole
  OpensCurrent
PROPERTY NoLostUpdate
SYMMETRY Perms
CHECK_DEADLOCK FALSE
