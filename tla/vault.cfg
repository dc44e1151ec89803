\* Two saves in up to three sessions, with one fault before the last save and one after it.
SPECIFICATION VaultSpec
CONSTANTS
  Key = {k1}
  MaxTime = 1
  MaxSaves = 2
  MaxSessions = 3
  MaxEvents = 2
  MaxFaults = 1
INVARIANTS
  VaultTypeOK
  Recoverable
  AnchorRefusesOldSessions
PROPERTIES
  ImplementsRegister
CHECK_DEADLOCK FALSE
