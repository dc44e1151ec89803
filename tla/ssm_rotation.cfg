\* Two threads rotate, revoke, export and import signing and symmetric keys; replacements are rotated too.
SPECIFICATION Spec
CONSTANTS
  Thread = {t1, t2}
  k = k
  NoDomain = NoDomain
  Name <- OneName
  Domain = {}
  Limit = {0}
  CreateType = {"sign", "symmetric"}
  CreateFlags <- Sealable
  SetState = {"active", "destroyed"}
  RotateLabel <- Derived
  MaxKeys = 3
  MaxTime = 0
  MaxUses = 0
  MaxSealed = 1
INVARIANTS
  RotationLineage
PROPERTIES
  AsymmetricKeysKeepPolicy
  DeadStaysDead
