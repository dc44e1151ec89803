\* Two threads use, rotate, disable, erase, export and import signing and symmetric keys, limit one operation;
\* handles of symmetric keys collide when they are created within one second.
SPECIFICATION Spec
CONSTANTS
  Thread = {t1, t2}
  k = k
  NoDomain = NoDomain
  Name <- OneName
  Domain = {}
  Limit = {1}
  CreateType = {"sign", "symmetric"}
  CreateFlags <- Sealable
  SetState = {"active", "disabled"}
  RotateLabel <- Derived
  MaxKeys = 2
  MaxTime = 1
  MaxUses = 3
  MaxSealed = 1
SYMMETRY ThreadSymmetry
INVARIANTS
  TypeOK
  UsageExact
  OvershootBounded
