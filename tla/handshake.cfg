\* Two attempts by each side and one damaged hello, for every pair of policies and lists.
SPECIFICATION HandshakeSpec
CONSTANTS
  Profiles = {"fast", "balanced", "conservative"}
  SuiteLists <- Lists
  MaxAttempts = 2
  MaxDamage = 1
INVARIANTS
  HandshakeTypeOK
  ConfirmedAgree
  ConfirmedSuiteIsNoDowngrade
  RefusedOnlyWithoutSuite
  KeysFresh
CHECK_DEADLOCK FALSE
