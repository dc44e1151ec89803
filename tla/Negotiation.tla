----------------------------- MODULE Negotiation -----------------------------
(***************************************************************************)
(* The choice of a cipher suite (src/protocol/protocol.cpp:22-95): the       *)
(* built-in suites, negotiate, and the downgrade check.  Identifiers are     *)
(* unique within a list.                                                     *)
(***************************************************************************)
EXTENDS Policy, Integers, Sequences, FiniteSets

suite(id, kem, signature, aead, level, hybrid) ==
  [id |-> id, kem |-> kem, signature |-> signature, aead |-> aead,
   security_level |-> level, hybrid |-> hybrid]

Hybrid == suite(259, "hybrid_x25519_ml_kem_768", "hybrid_ed25519_ml_dsa_65", "chacha20_poly1305", 3, TRUE)
ClassicalAes == suite(258, "x25519", "ed25519", "aes_256_gcm", 3, FALSE)
Classical == suite(257, "x25519", "ed25519", "chacha20_poly1305", 3, FALSE)

default_cipher_suites == <<Hybrid, ClassicalAes, Classical>>

SuiteId == 0..65535

\* CipherSuite, without its name and without pq, which no branch reads.
CipherSuite == [id : SuiteId, kem : Kem, signature : SignatureAlgorithm, aead : Aead,
                security_level : Int, hybrid : BOOLEAN]

NoSuite == suite(0, "none", "none", "none", 0, FALSE)

find_suite(id, suites) == {s \in {suites[i] : i \in DOMAIN suites} : s.id = id}

validate_suite(s, p) ==
  /\ validate_kem(s.kem, p) /\ validate_signature(s.signature, p) /\ validate_aead(s.aead, p)
  /\ s.security_level >= p.minimum_security_level

\* The built-in suites among those offered: what the downgrade check knows.
known(offered) == UNION {find_suite(id, default_cipher_suites) : id \in offered}

\* Mutant: only the level is compared.
reject_downgrade_level(offered, s) ==
  \E o \in known(offered) : o.security_level > s.security_level

\* Mutant: a suite of the same level counts as better.
reject_downgrade_equal(offered, s) ==
  \E o \in known(offered) : o.security_level >= s.security_level \/ (o.hybrid /\ ~s.hybrid)

reject_downgrade(offered, s) ==
  \E o \in known(offered) : o.security_level > s.security_level \/ (o.hybrid /\ ~s.hybrid)

supported(suites) == IF suites = << >> THEN default_cipher_suites ELSE suites

\* The first suite of the local list that the peer offers and the policy accepts,
\* unless the downgrade check refuses it: then there is none, whatever follows.
negotiate(suites, p, offered) ==
  LET list == supported(suites)
      usable == {i \in DOMAIN list : list[i].id \in offered /\ validate_suite(list[i], p)}
      first == CHOOSE i \in usable : \A j \in usable : i <= j
  IN IF usable = {} \/ reject_downgrade(offered, list[first])
     THEN NoSuite
     ELSE list[first]

=============================================================================
