\* Two keys and two encapsulations or signatures between two builds, halves altered and exchanged.
SPECIFICATION ExchangeSpec
CONSTANTS
  Builds <- ThreeBuilds
  Algorithm = {"x25519", "ml_kem_768", "ml_kem_1024", "hybrid_x25519_ml_kem_768",
               "ed25519", "secp256k1", "ml_dsa_65", "slh_dsa_sha2_128s", "hybrid_ed25519_ml_dsa_65"}
  Message = {"m1", "m2"}
  MaxFresh = 4
  MaxKeys = 2
INVARIANTS
  SecretsAgreeOnSameParts
  AcceptedIsSigned
  SupportIsHonest
CHECK_DEADLOCK FALSE
