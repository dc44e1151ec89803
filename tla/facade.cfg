\* Two processes, facades or commands, that save three times, with one save that fails or dies.
SPECIFICATION ClientSpec
CONSTANTS
  Process = {p1, p2}
  KeyState = {"active", "disabled"}
  Limit = 1
  MaxKeys = 2
  MaxStarts = 3
  MaxSaves = 3
  MaxFaults = 1
SYMMETRY ProcessSymmetry
INVARIANTS
  ClientTypeOK
  AcknowledgedSurvives
  TornOnlyByOverlap
  RevokedNeverSaved
PROPERTIES
  AcknowledgedIsSaved
CHECK_DEADLOCK FALSE
