------------------------------- MODULE Providers -------------------------------
(* What the library computes with the back ends a build links: classical.cpp dispatches on the
   algorithm to OpenSSL, to pq.cpp (liboqs) or to the hybrids, which need both; registry.cpp says
   what is supported and pq.cpp checks the wiring with round trips.

   Bytes are symbolic.  A raw part says which algorithm made it, what it is, whose it is (id)
   and its form: as it was made, or altered on its way.  A packed pair is a record with the magic
   and its two parts.  The back ends are perfect but for the liberties of X25519, which takes any
   32 bytes as a point, several of them as the same one.  ML-KEM rejects implicitly (a foreign
   ciphertext gives another secret, no error), a signature verifies for its key and message only.
   HKDF is injective.  Failures of the random generator and of allocations are left out.       *)
EXTENDS Integers, FiniteSets

OqsKem == {"ml_kem_512", "ml_kem_768", "ml_kem_1024"}
OqsSig == {"ml_dsa_44", "ml_dsa_65", "ml_dsa_87", "slh_dsa_sha2_128s"}
HybridKem == "hybrid_x25519_ml_kem_768"
HybridSign == "hybrid_ed25519_ml_dsa_65"
Hybrid == {HybridKem, HybridSign}
Kem == OqsKem \cup {"x25519", HybridKem}
Sign == OqsSig \cup {"ed25519", "secp256k1", HybridSign}

\* What CMake found, and the algorithms the linked liboqs was itself built with.
Build == [openssl : BOOLEAN, liboqs : BOOLEAN, offered : SUBSET (OqsKem \cup OqsSig)]

sizes(public, secret, output) == [public |-> public, secret |-> secret, output |-> output]
Size ==
  [x25519 |-> sizes(32, 32, 32), ed25519 |-> sizes(32, 32, 64),
   ml_kem_512 |-> sizes(800, 1632, 768), ml_kem_768 |-> sizes(1184, 2400, 1088),
   ml_kem_1024 |-> sizes(1568, 3168, 1568),
   ml_dsa_44 |-> sizes(1312, 2560, 2420), ml_dsa_65 |-> sizes(1952, 4032, 3309),
   ml_dsa_87 |-> sizes(2592, 4896, 4627), slh_dsa_sha2_128s |-> sizes(32, 64, 7856)]

Ok(value) == [ok |-> TRUE, value |-> value]
Fail(code) == [ok |-> FALSE, error |-> code]

raw(alg, what, id) == [alg |-> alg, what |-> what, id |-> id, form |-> "made"]

\* How a part may have been altered: into other bytes; and 32 bytes for X25519 also into the
\* same point (in bit 255, by a multiple of p, by a summand of low order), into a factor times the
\* point, the same factor wherever it is met, or into a point of low order.
alterations(part) ==
  {[part EXCEPT !.form = form] :
     form \in {"other"} \cup IF part.alg = "x25519" THEN {"same_point", "multiple", "low_order"}
                                                    ELSE {}}
pack2(magic, a, b) == [magic |-> magic, first |-> a, second |-> b]
packed(bytes) == "magic" \in DOMAIN bytes
raw_size(part) == Size[part.alg][part.what]
size(bytes) == IF packed(bytes) THEN 10 + raw_size(bytes.first) + raw_size(bytes.second)
                                ELSE raw_size(bytes)

unpack2(magic, bytes) ==
  IF packed(bytes) /\ bytes.magic = magic THEN Ok(<<bytes.first, bytes.second>>)
                                          ELSE Fail("invalid_format")

keypair(alg, public, secret) == [alg |-> alg, public |-> public, secret |-> secret]
raw_keypair(alg, id) == keypair(alg, raw(alg, "public", id), raw(alg, "secret", id))
public_of(secret) == [secret EXCEPT !.what = "public"]

\* A liboqs object of that name can be made.
oqs_available(build, alg) == build.liboqs /\ alg \in build.offered

-----------------------------------------------------------------------------
(* Key encapsulation.  n is the randomness of the call.                                        *)
pq_generate(build, alg, n) ==
  IF oqs_available(build, alg) THEN Ok(raw_keypair(alg, n)) ELSE Fail("unsupported_algorithm")

kem_encapsulate(build, alg, public, n) ==
  LET ciphertext == [alg |-> alg, what |-> "output", id |-> n, form |-> "made", to |-> public]
  IN IF ~oqs_available(build, alg) THEN Fail("unsupported_algorithm")
     ELSE IF size(public) # Size[alg].public THEN Fail("invalid_key")
     ELSE Ok([ciphertext |-> ciphertext, secret |-> [from |-> ciphertext]])

meant_for(ciphertext, alg, secret) ==
  /\ "to" \in DOMAIN ciphertext /\ ciphertext.alg = alg /\ ciphertext.form = "made"
  /\ ciphertext.to = public_of(secret)
kem_decapsulate(build, alg, secret, ciphertext) ==
  IF ~oqs_available(build, alg) THEN Fail("unsupported_algorithm")
  ELSE IF size(secret) # Size[alg].secret THEN Fail("invalid_key")
  ELSE IF size(ciphertext) # Size[alg].output THEN Fail("invalid_argument")
  ELSE IF meant_for(ciphertext, alg, secret) THEN Ok([from |-> ciphertext])
  ELSE Ok([rejected |-> <<secret, ciphertext>>])

\* X25519: the point that bytes name, multiples told apart by multiple; a secret key has the point
\* of its public one.  The product of key and peer is the same for both, and a factor of the peer's
\* goes through to it.  A peer of low order makes it zero, which EVP_PKEY_derive refuses.
point(bytes) ==
  CASE bytes.what = "secret" -> public_of(bytes)
    [] bytes.form \in {"same_point", "multiple"} -> [bytes EXCEPT !.form = "made"]
    [] OTHER -> bytes
multiple(bytes) == bytes.form = "multiple"

derive_x25519(secret, peer) ==
  IF peer.form = "low_order" THEN Fail("internal_error")
  ELSE Ok([dh |-> {point(secret), point(peer)}, multiple |-> multiple(peer)])
x25519_encapsulate(build, public, n) ==
  LET ephemeral == raw("x25519", "secret", n)
      secret == derive_x25519(ephemeral, public)
  IN IF size(public) # 32 THEN Fail("invalid_key")
     ELSE IF ~build.openssl THEN Fail("unsupported_algorithm")
     ELSE IF ~secret.ok THEN secret
     ELSE Ok([ciphertext |-> public_of(ephemeral), secret |-> secret.value])
x25519_decapsulate(build, secret, ciphertext) ==
  IF size(secret) # 32 THEN Fail("invalid_key")
  ELSE IF size(ciphertext) # 32 THEN Fail("invalid_argument")
  ELSE IF ~build.openssl THEN Fail("unsupported_algorithm")
  ELSE derive_x25519(secret, ciphertext)

hybrid_combine_classical(classical, pq) == Ok([hkdf |-> <<classical, classical>>])   \* mutant: the wrong part twice
hybrid_combine(classical, pq) == Ok([hkdf |-> <<classical, pq>>])

make_hybrid(build, classical, pq, publicMagic, secretMagic, alg, n) ==
  LET c == raw_keypair(classical, n)
      p == pq_generate(build, pq, n)
  IN IF ~build.openssl THEN Fail("unsupported_algorithm")
     ELSE IF ~p.ok THEN p
     ELSE Ok(keypair(alg, pack2(publicMagic, c.public, p.value.public),
                          pack2(secretMagic, c.secret, p.value.secret)))

encapsulate_hybrid_kem(build, public, n) ==
  LET parts == unpack2("QHKP", public)
      classic == x25519_encapsulate(build, parts.value[1], n)
      pq == kem_encapsulate(build, "ml_kem_768", parts.value[2], n)
  IN IF ~parts.ok THEN parts
     ELSE IF ~classic.ok THEN classic
     ELSE IF ~pq.ok THEN pq
     ELSE Ok([ciphertext |-> pack2("QHKC", classic.value.ciphertext, pq.value.ciphertext),
              secret |-> hybrid_combine(classic.value.secret, pq.value.secret).value])

decapsulate_hybrid_kem(build, secret, ciphertext) ==
  LET keys == unpack2("QHKS", secret)
      parts == unpack2("QHKC", ciphertext)
      classic == x25519_decapsulate(build, keys.value[1], parts.value[1])
      pq == kem_decapsulate(build, "ml_kem_768", keys.value[2], parts.value[2])
  IN IF ~keys.ok THEN keys
     ELSE IF ~parts.ok THEN parts
     ELSE IF ~classic.ok THEN classic
     ELSE IF ~pq.ok THEN pq
     ELSE hybrid_combine(classic.value, pq.value)

make_hybrid_kem_keypair(build, n) ==
  make_hybrid(build, "x25519", "ml_kem_768", "QHKP", "QHKS", HybridKem, n)
make_hybrid_sign_keypair(build, n) ==
  make_hybrid(build, "ed25519", "ml_dsa_65", "QHSP", "QHSS", HybridSign, n)

openssl_keypair(build, alg, n) ==
  IF build.openssl THEN Ok(raw_keypair(alg, n)) ELSE Fail("unsupported_algorithm")
generate_kem_keypair(build, alg, n) ==
  CASE alg = "x25519" -> openssl_keypair(build, alg, n)
    [] alg \in OqsKem -> pq_generate(build, alg, n)
    [] alg = HybridKem -> make_hybrid_kem_keypair(build, n)
generate_sign_keypair(build, alg, n) ==
  CASE alg = "ed25519" -> openssl_keypair(build, alg, n)
    [] alg = "secp256k1" -> Fail("unsupported_algorithm")
    [] alg \in OqsSig -> pq_generate(build, alg, n)
    [] alg = HybridSign -> make_hybrid_sign_keypair(build, n)
generate_keypair(build, alg, n) ==
  IF alg \in Kem THEN generate_kem_keypair(build, alg, n) ELSE generate_sign_keypair(build, alg, n)
encapsulate(build, alg, public, n) ==
  CASE alg \in OqsKem -> kem_encapsulate(build, alg, public, n)
    [] alg = HybridKem -> encapsulate_hybrid_kem(build, public, n)
    [] alg = "x25519" -> x25519_encapsulate(build, public, n)
decapsulate(build, alg, secret, ciphertext) ==
  CASE alg \in OqsKem -> kem_decapsulate(build, alg, secret, ciphertext)
    [] alg = HybridKem -> decapsulate_hybrid_kem(build, secret, ciphertext)
    [] alg = "x25519" -> x25519_decapsulate(build, secret, ciphertext)

-----------------------------------------------------------------------------
(* Signatures.                                                                                 *)
signature(alg, secret, message) ==
  [alg |-> alg, what |-> "output", by |-> public_of(secret), id |-> 1, form |-> "made",
   message |-> message]
signed_by(sig, alg, public, message) ==
  /\ "by" \in DOMAIN sig /\ sig.alg = alg /\ sig.form = "made"
  /\ sig.by = public /\ sig.message = message

ed25519_sign(build, secret, message) ==
  IF size(secret) # 32 THEN Fail("invalid_key")
  ELSE IF ~build.openssl THEN Fail("unsupported_algorithm")
  ELSE Ok(signature("ed25519", secret, message))
ed25519_verify(build, public, message, sig) ==
  IF size(public) # 32 THEN Fail("invalid_key")
  ELSE IF size(sig) # 64 THEN Fail("invalid_argument")
  ELSE IF ~build.openssl THEN Fail("unsupported_algorithm")
  ELSE Ok(signed_by(sig, "ed25519", public, message))

sign_message(build, alg, secret, message) ==
  IF ~oqs_available(build, alg) THEN Fail("unsupported_algorithm")
  ELSE IF size(secret) # Size[alg].secret THEN Fail("invalid_key")
  ELSE Ok(signature(alg, secret, message))
verify_message(build, alg, public, message, sig) ==
  IF ~oqs_available(build, alg) THEN Fail("unsupported_algorithm")
  ELSE IF size(public) # Size[alg].public THEN Fail("invalid_key")
  ELSE IF size(sig) > Size[alg].output THEN Fail("invalid_argument")
  ELSE Ok(signed_by(sig, alg, public, message))

sign_hybrid(build, secret, message) ==
  LET parts == unpack2("QHSS", secret)
      classic == ed25519_sign(build, parts.value[1], message)
      pq == sign_message(build, "ml_dsa_65", parts.value[2], message)
  IN IF ~parts.ok THEN parts
     ELSE IF ~classic.ok THEN classic
     ELSE IF ~pq.ok THEN pq
     ELSE Ok(pack2("QHSG", classic.value, pq.value))

verify_hybrid_classical(build, public, message, sig) ==   \* mutant: the first half decides
  LET keys == unpack2("QHSP", public)
      parts == unpack2("QHSG", sig)
  IN IF ~keys.ok THEN keys
     ELSE IF ~parts.ok THEN parts
     ELSE ed25519_verify(build, keys.value[1], message, parts.value[1])
verify_hybrid(build, public, message, sig) ==
  LET keys == unpack2("QHSP", public)
      parts == unpack2("QHSG", sig)
      classic == ed25519_verify(build, keys.value[1], message, parts.value[1])
  IN IF ~keys.ok THEN keys
     ELSE IF ~parts.ok THEN parts
     ELSE IF ~classic.ok \/ ~classic.value THEN classic
     ELSE verify_message(build, "ml_dsa_65", keys.value[2], message, parts.value[2])

sign(build, alg, secret, message) ==
  CASE alg \in OqsSig -> sign_message(build, alg, secret, message)
    [] alg = HybridSign -> sign_hybrid(build, secret, message)
    [] alg = "ed25519" -> ed25519_sign(build, secret, message)
    [] alg = "secp256k1" -> Fail("unsupported_algorithm")
\* The signature names its algorithm too, and the two must be the same.
verify(build, alg, public, message, sig_alg, sig) ==
  IF sig_alg # alg \/ alg = "secp256k1" THEN Fail("unsupported_algorithm")
  ELSE CASE alg \in OqsSig -> verify_message(build, alg, public, message, sig)
         [] alg = HybridSign -> verify_hybrid(build, public, message, sig)
         [] alg = "ed25519" -> ed25519_verify(build, public, message, sig)

\* The *_default functions of hybrid: only the hybrids, and only with liboqs linked.
default_gate(build, alg, hybrid, result) ==
  IF alg # hybrid THEN Fail("invalid_key")
  ELSE IF ~build.liboqs THEN Fail("unsupported_algorithm")
  ELSE result

-----------------------------------------------------------------------------
(* What a build says of itself.                                                                *)
supports(build, alg) ==
  \/ alg \in {"x25519", "ed25519"} /\ build.openssl
  \/ alg \in OqsKem \cup OqsSig \cup Hybrid /\ build.liboqs

\* One smoke test: a key pair, and what it made comes back.
kem_roundtrip(build, alg) ==
  LET kp == generate_keypair(build, alg, 1)
      enc == encapsulate(build, alg, kp.value.public, 2)
      dec == decapsulate(build, alg, kp.value.secret, enc.value.ciphertext)
  IN kp.ok /\ enc.ok /\ dec.ok /\ enc.value.secret = dec.value
sign_roundtrip(build, alg) ==
  LET kp == generate_keypair(build, alg, 1)
      sig == sign(build, alg, kp.value.secret, "pq-kat")
      ver == verify(build, alg, kp.value.public, "pq-kat", alg, sig.value)
  IN kp.ok /\ sig.ok /\ ver.ok /\ ver.value

run_kat_harness(build) ==
  LET passing == {a \in OqsKem : kem_roundtrip(build, a)} \cup {a \in OqsSig : sign_roundtrip(build, a)}
  IN IF ~build.liboqs THEN [passed |-> 0, failed |-> 0]
     ELSE [passed |-> Cardinality(passing),
           failed |-> Cardinality((OqsKem \cup OqsSig) \ passing)]

validate_algorithm_sizes ==
  \A a \in OqsKem \cup OqsSig : 0 \notin {Size[a].public, Size[a].secret, Size[a].output}

validate_provider_wiring_some(build) ==   \* mutant: one vector that passes is enough
  LET kat == run_kat_harness(build)
  IN validate_algorithm_sizes /\ (build.liboqs => kat.passed # 0)
validate_provider_wiring(build) ==
  LET kat == run_kat_harness(build)
  IN validate_algorithm_sizes /\ (build.liboqs => kat.failed = 0 /\ kat.passed # 0)
=============================================================================
