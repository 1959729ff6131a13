SPECIFICATION Spec
CONSTANTS
  Names = {"default", "other"}
  Forms = {f1}
  MaxEdits = 2
  MaxFaults = 0
PROPERTY ReleasedByOperator
CHECK_DEADLOCK FALSE
