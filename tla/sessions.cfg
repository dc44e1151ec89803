\* Three threads share two sessions with a limit of one operation; the sessions expire or are
\* closed meanwhile.
SPECIFICATION SessionSpec
CONSTANTS
  Thread = {t1, t2, t3}
  Token = {s1, s2}
  k = k
  NoDomain = NoDomain
  Name <- OneName
  Domain = {d1}
  Limit = {0}
  CreateType = {"sign", "kem"}
  CreateFlags <- NoFlags
  SetState = {}
  RotateLabel = {}
  MaxKeys = 1
  MaxTime = 1
  MaxUses = 4
  MaxSealed = 0
  Ttl = {1}
  SessionLimit = {1}
  Permissions <- AllPermissions
  DomainList <- AnyDomain
SYMMETRY SessionSymmetry
INVARIANTS
  SessionOvershootBounded
  SessionsPaid
  SessionTypeOK
PROPERTIES
  OverIsFinal
