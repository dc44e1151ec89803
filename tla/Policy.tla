------------------------------- MODULE Policy -------------------------------
(***************************************************************************)
(* The algorithm policies (src/security/policy.cpp): what each profile       *)
(* allows, and the validation of an algorithm against it.                    *)
(***************************************************************************)
EXTENDS Naturals

Profile == {"fast", "balanced", "conservative", "pq_transition"}

hybrid_kem == {"hybrid_x25519_ml_kem_768"}
pq_kem == {"ml_kem_512", "ml_kem_768", "ml_kem_1024"}
classical_kem == {"x25519"}

hybrid_signature == {"hybrid_ed25519_ml_dsa_65"}
pq_signature == {"ml_dsa_44", "ml_dsa_65", "ml_dsa_87", "slh_dsa_sha2_128s"}
classical_signature == {"ed25519", "secp256k1"}

Kem == hybrid_kem \cup pq_kem \cup classical_kem
SignatureAlgorithm == hybrid_signature \cup pq_signature \cup classical_signature
Aead == {"aes_256_gcm", "chacha20_poly1305"}

kem_level ==
  [a \in Kem |-> CASE a = "ml_kem_512" -> 1 [] a = "ml_kem_1024" -> 5 [] OTHER -> 3]

sign_level ==
  [a \in SignatureAlgorithm |->
     CASE a = "slh_dsa_sha2_128s" -> 1 [] a = "ml_dsa_44" -> 2 [] a = "ml_dsa_87" -> 5
       [] OTHER -> 3]

\* make_policy.  require_aead and the allowed ciphers are the same in every profile.
allowed_kems(profile) ==
  CASE profile \in {"fast", "balanced"} -> classical_kem \cup hybrid_kem \cup {"ml_kem_768"}
    [] profile = "conservative" -> {"ml_kem_1024"}
    [] profile = "pq_transition" -> hybrid_kem \cup {"ml_kem_768", "ml_kem_1024"}

allowed_signatures(profile) ==
  CASE profile \in {"fast", "balanced"} -> {"ed25519", "ml_dsa_65"} \cup hybrid_signature
    [] profile = "conservative" -> {"ml_dsa_87"}
    [] profile = "pq_transition" -> hybrid_signature \cup {"ml_dsa_65", "ml_dsa_87"}

make_policy(profile) ==
  [minimum_security_level |->
     CASE profile = "fast" -> 1 [] profile = "conservative" -> 5 [] OTHER -> 3,
   allow_classical |-> profile \in {"fast", "balanced"},
   prefer_hybrid |-> profile # "fast",
   allowed_kems |-> allowed_kems(profile),
   allowed_signatures |-> allowed_signatures(profile),
   allowed_aeads |-> Aead]

validate_kem(a, p) ==
  /\ a \in p.allowed_kems
  /\ a \in classical_kem => p.allow_classical
  /\ p.prefer_hybrid => a \in hybrid_kem \cup pq_kem
  /\ kem_level[a] >= p.minimum_security_level

validate_signature(a, p) ==
  /\ a \in p.allowed_signatures
  /\ a \in classical_signature => p.allow_classical
  /\ p.prefer_hybrid => a \in hybrid_signature \cup pq_signature
  /\ sign_level[a] >= p.minimum_security_level

validate_aead(a, p) == a \in p.allowed_aeads

=============================================================================
