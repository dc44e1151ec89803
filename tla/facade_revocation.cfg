\* One facade, no failures: a key is disabled.
SPECIFICATION ClientSpec
CONSTANTS
  Process = {p1}
  KeyState = {"active", "disabled"}
  Limit = 1
  MaxKeys = 1
  MaxStarts = 1
  MaxSaves = 3
  MaxFaults = 0
INVARIANT ChangesPersisted
CHECK_DEADLOCK FALSE
