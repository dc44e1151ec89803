------------------------------- MODULE Exchange -------------------------------
(* Two applications, each with a build of its own, use the key encapsulation and the signatures
   of Providers: the owner makes key pairs, decapsulates and signs, the peer encapsulates and
   verifies, through the general functions or the hybrid defaults.  What travels between them
   may arrive altered, with the halves of two hybrids exchanged, or in the place of something
   else; both keep what they got.                                                              *)
EXTENDS Providers

CONSTANTS
  Builds,      \* builds of the library
  Algorithm,   \* algorithms the owner makes keys for
  Message,     \* messages
  MaxFresh,    \* bound: key pairs, encapsulations and signatures together
  MaxKeys      \* bound: key pairs

ASSUME ExchangeAssumption ==
  /\ Builds \subseteq Build /\ Algorithm \subseteq Kem \cup Sign
  /\ {MaxFresh, MaxKeys} \subseteq Nat

VARIABLES
  build,      \* who -> its build
  keys,       \* the owner's key pairs
  sent,       \* the peer's encapsulations: under which key, the ciphertext, the secret
  received,   \* the owner's last decapsulation: with which key, of what, the secret
  signed,     \* the owner's signatures: by which key, of what
  verified,   \* the peer's last accepted signature: key, message, signature
  fresh       \* randomness drawn so far

vars == <<build, keys, sent, received, signed, verified, fresh>>

Nothing == [nothing |-> TRUE]

ExchangeInit ==
  /\ build \in [{"owner", "peer"} -> Builds]
  /\ keys = {} /\ sent = {} /\ signed = {}
  /\ received = Nothing /\ verified = Nothing
  /\ fresh = 0

\* What the other side may be handed for something on its way.
on_its_way == {k.public : k \in keys} \cup {e.ciphertext : e \in sent} \cup {s.signature : s \in signed}
pairs == {b \in on_its_way : packed(b)}
delivered ==
  on_its_way \cup (UNION {alterations(b) : b \in on_its_way \ pairs})
  \cup {[a EXCEPT !.second = b.second] : a, b \in pairs}
  \cup (UNION {{[b EXCEPT !.first = part] : part \in alterations(b.first)} : b \in pairs})
  \cup (UNION {{[b EXCEPT !.second = part] : part \in alterations(b.second)} : b \in pairs})

kem_keys == {k \in keys : k.alg \in Kem}
sign_keys == {k \in keys : k.alg \in Sign}

\* A result comes from the general function or, for the hybrids, from the default one.
from_api(who, alg, hybrid, result) == {result, default_gate(build[who], alg, hybrid, result)}

generate ==
  /\ fresh < MaxFresh /\ Cardinality(keys) < MaxKeys
  /\ \E alg \in Algorithm :
       \E r \in from_api("owner", alg, IF alg \in Kem THEN HybridKem ELSE HybridSign,
                         generate_keypair(build["owner"], alg, fresh + 1)) :
         r.ok /\ keys' = keys \cup {r.value}
  /\ fresh' = fresh + 1
  /\ UNCHANGED <<build, sent, received, signed, verified>>

encapsulate_to_owner ==
  \E k \in kem_keys, public \in delivered :
    \E r \in from_api("peer", k.alg, HybridKem,
                      encapsulate(build["peer"], k.alg, public, fresh + 1)) :
      /\ fresh < MaxFresh
      /\ r.ok
      /\ sent' = sent \cup {[alg |-> k.alg, public |-> public, ciphertext |-> r.value.ciphertext,
                             secret |-> r.value.secret]}
      /\ fresh' = fresh + 1
      /\ UNCHANGED <<build, keys, received, signed, verified>>

decapsulate_from_peer ==
  \E k \in kem_keys, ciphertext \in delivered :
    \E r \in from_api("owner", k.alg, HybridKem,
                      decapsulate(build["owner"], k.alg, k.secret, ciphertext)) :
      /\ r.ok
      /\ received' = [key |-> k, ciphertext |-> ciphertext, secret |-> r.value]
      /\ UNCHANGED <<build, keys, sent, signed, verified, fresh>>

sign_as_owner ==
  \E k \in sign_keys, message \in Message :
    \E r \in from_api("owner", k.alg, HybridSign, sign(build["owner"], k.alg, k.secret, message)) :
      /\ fresh < MaxFresh
      /\ r.ok
      /\ signed' = signed \cup {[key |-> k, message |-> message, signature |-> r.value]}
      /\ fresh' = fresh + 1
      /\ UNCHANGED <<build, keys, sent, received, verified>>

verify_as_peer ==
  \E k \in sign_keys, public \in delivered, message \in Message, s \in signed, sig \in delivered :
    \E r \in from_api("peer", k.alg, HybridSign,
                      verify(build["peer"], k.alg, public, message, s.key.alg, sig)) :
      /\ r.ok /\ r.value
      /\ verified' = [alg |-> k.alg, public |-> public, message |-> message, signature |-> sig]
      /\ UNCHANGED <<build, keys, sent, received, signed, fresh>>

ExchangeNext == generate \/ encapsulate_to_owner \/ decapsulate_from_peer
                \/ sign_as_owner \/ verify_as_peer
ExchangeSpec == ExchangeInit /\ [][ExchangeNext]_vars

-----------------------------------------------------------------------------
\* What X25519 and ML-KEM read of a public key or a ciphertext: points, and all other bytes.
points(bytes) == IF packed(bytes) THEN [bytes EXCEPT !.first = point(@)] ELSE point(bytes)
classical(bytes) == IF packed(bytes) THEN bytes.first ELSE bytes

\* pq.cpp:389-410 and docs/KDF.md "classical and post-quantum shared secrets are mixed": owner and
\* peer hold the same secret exactly when the peer had the owner's key and the owner the peer's
\* ciphertext, the ML-KEM halves to the byte and the X25519 halves as points, or both of these as
\* the same multiple of what they were: hybrid_combine mixes the secrets alone, and X25519's does
\* not tell.  A foreign half, an error or not, never leaves them agreed.
SecretsAgreeOnSameParts ==
  received # Nothing =>
    \A e \in sent :
      received.secret = e.secret <=>
        /\ points(received.ciphertext) = points(e.ciphertext)
        /\ points(e.public) = points(received.key.public)
        /\ multiple(classical(received.ciphertext)) = multiple(classical(e.public))

\* pq.cpp:429-441: a signature accepted for one of the owner's keys is one the owner made with
\* that key of that message, both halves of it: halves of different origin never pass together.
AcceptedIsSigned ==
  verified # Nothing =>
    \A k \in sign_keys :
      k.public = verified.public /\ k.alg = verified.alg =>
        [key |-> k, message |-> verified.message, signature |-> verified.signature] \in signed

works(b, alg) == IF alg \in Kem THEN kem_roundtrip(b, alg) ELSE sign_roundtrip(b, alg)
\* Every function of alg, called with what a complete build made, says it is unsupported.
fails_closed(b, alg) ==
  LET full == [openssl |-> TRUE, liboqs |-> TRUE, offered |-> OqsKem \cup OqsSig]
      kp == generate_keypair(full, alg, 1).value
      unsupported == Fail("unsupported_algorithm")
  IN /\ generate_keypair(b, alg, 1) = unsupported
     /\ alg \in Kem =>
          LET enc == encapsulate(full, alg, kp.public, 2).value
          IN /\ encapsulate(b, alg, kp.public, 2) = unsupported
             /\ decapsulate(b, alg, kp.secret, enc.ciphertext) = unsupported
     /\ alg \in Sign \ {"secp256k1"} =>
          LET sig == sign(full, alg, kp.secret, "m").value
          IN /\ sign(b, alg, kp.secret, "m") = unsupported
             /\ verify(b, alg, kp.public, "m", alg, sig) = unsupported

\* docs/ARCHITECTURE.md:32 "Algorithms that are declared but not backed by a vetted implementation
\* must fail closed with `unsupported_algorithm`", registry.cpp:102: an algorithm works or fails
\* closed; the registry names every one that works, and one it names works if the wiring check
\* passed, but for the hybrids, whose classical half it does not ask about.
SupportIsHonest ==
  \A who \in DOMAIN build, alg \in Kem \cup Sign :
    LET b == build[who]
    IN /\ works(b, alg) => supports(b, alg)
       /\ ~works(b, alg) => fails_closed(b, alg)
       /\ supports(b, alg) /\ validate_provider_wiring(b) =>
            works(b, alg) \/ (alg \in Hybrid /\ ~b.openssl)
=============================================================================
