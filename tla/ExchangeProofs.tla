--------------------------- MODULE ExchangeProofs ---------------------------
(***************************************************************************)
(* Proofs about Exchange for any builds, keys and messages, whatever is    *)
(* altered or exchanged on its way: owner and peer hold the same secret    *)
(* only over the same points and ML-KEM bytes, and what verifies was       *)
(* signed.  For any build, every algorithm works or fails closed, and the  *)
(* registry says which.                                                    *)
(***************************************************************************)
EXTENDS Exchange, FiniteSetTheorems, TLAPS

\* Algorithms whose bytes are one part.
Single == OqsKem \cup OqsSig \cup {"x25519", "ed25519"}

IsPart(p) ==
  /\ {"alg", "what", "id", "form"} \subseteq DOMAIN p /\ "magic" \notin DOMAIN p
  /\ p.alg \in Single /\ p.what \in {"public", "output"}
  /\ p.alg # "x25519" => p.form \in {"made", "other"}

IsPair(b) == b = pack2(b.magic, b.first, b.second) /\ IsPart(b.first) /\ IsPart(b.second)

Shaped(b) == IsPart(b) \/ IsPair(b)

LEMMA Sizes ==
  /\ \A alg \in OqsKem : /\ Size[alg].public \in {800, 1184, 1568}
                         /\ Size[alg].output \in {768, 1088, 1568}
  /\ \A a, b \in OqsKem : Size[a].public = Size[b].public => a = b
  /\ Size["x25519"].public = 32 /\ Size["x25519"].secret = 32 /\ Size["x25519"].output = 32
  /\ \A alg \in Single : Size[alg].public \in Nat /\ Size[alg].output \in Nat
  /\ \A alg \in Single : Size[alg].public >= 32 /\ Size[alg].output >= 32
BY DEF Size, sizes, OqsKem, OqsSig, Single

LEMMA PairShape ==
  ASSUME NEW b, IsPair(b)
  PROVE  /\ packed(b) /\ DOMAIN b = {"magic", "first", "second"}
         /\ ~IsPart(b) /\ size(b) \in Nat /\ size(b) > 32
<1>1. DOMAIN b = {"magic", "first", "second"}
  BY DEF IsPair, pack2
<1>2. packed(b) /\ ~IsPart(b)
  BY <1>1 DEF packed, IsPart
<1>3. /\ raw_size(b.first) \in Nat /\ raw_size(b.first) >= 32
      /\ raw_size(b.second) \in Nat /\ raw_size(b.second) >= 32
  BY Sizes DEF IsPair, IsPart, raw_size
<1>. QED
  BY <1>1, <1>2, <1>3 DEF size

LEMMA PartShape ==
  ASSUME NEW p, IsPart(p)
  PROVE  ~packed(p) /\ size(p) = raw_size(p)
BY DEF IsPart, packed, size

\* What the points of a part and of a pair are: other than x25519 they are its bytes.
LEMMA PartPoints ==
  ASSUME NEW p, IsPart(p)
  PROVE  /\ points(p) = point(p) /\ classical(p) = p
         /\ ~packed(point(p)) /\ raw_size(point(p)) = raw_size(p) /\ point(p).alg = p.alg
         /\ p.form = "made" \/ p.alg # "x25519" => point(p) = p /\ ~multiple(p)
<1>1. point(p) = p \/ point(p) = [p EXCEPT !.form = "made"]
  BY DEF IsPart, point
<1>2. ~packed(point(p)) /\ point(p).alg = p.alg /\ point(p).what = p.what
  BY <1>1 DEF IsPart, packed
<1>3. p.form = "made" \/ p.alg # "x25519" => point(p) = p /\ ~multiple(p)
  BY DEF IsPart, point, multiple
<1>. QED
  BY <1>2, <1>3, PartShape DEF points, classical, raw_size

LEMMA PairPoints ==
  ASSUME NEW b, IsPair(b)
  PROVE  /\ points(b) = pack2(b.magic, point(b.first), b.second) /\ packed(points(b))
         /\ classical(b) = b.first
<1>1. packed(b)
  BY PairShape
<1>2. points(b) = [b EXCEPT !.first = point(@)] /\ classical(b) = b.first
  BY <1>1 DEF points, classical
<1>3. points(b) = pack2(b.magic, point(b.first), b.second)
  BY <1>2 DEF IsPair, pack2
<1>. QED
  BY <1>2, <1>3 DEF pack2, packed

LEMMA BytesAsPoints ==
  ASSUME NEW x, Shaped(x), NEW y, IsPart(y), y.alg # "x25519"
  PROVE  points(x) = points(y) <=> x = y
<1>1. points(y) = y /\ ~packed(y)
  BY PartPoints, PartShape
<1>2. CASE IsPair(x)
  BY <1>1, <1>2, PairPoints, PairShape
<1>3. CASE IsPart(x)
  <2>1. points(x) = point(x) /\ point(x).alg = x.alg /\ (x.alg # "x25519" => point(x) = x)
    BY <1>3, PartPoints
  <2>. QED
    BY <1>1, <2>1
<1>. QED
  BY <1>2, <1>3 DEF Shaped

LEMMA AlteredShape ==
  ASSUME NEW p, IsPart(p)
  PROVE  \A q \in alterations(p) : IsPart(q) /\ q.id = p.id /\ q.form # "made"
<1>. SUFFICES ASSUME NEW form \in {"other", "same_point", "multiple", "low_order"},
                     p.alg # "x25519" => form = "other"
              PROVE  LET q == [p EXCEPT !.form = form]
                     IN IsPart(q) /\ q.id = p.id /\ q.form # "made"
  BY DEF alterations
<1>. DEFINE q == [p EXCEPT !.form = form]
<1>1. DOMAIN q = DOMAIN p /\ "form" \in DOMAIN p
  BY DEF IsPart
<1>2. q.alg = p.alg /\ q.what = p.what /\ q.id = p.id /\ q.form = form
  BY <1>1 DEF IsPart
<1>. QED
  BY <1>1, <1>2 DEF IsPart

-----------------------------------------------------------------------------
\* What each side computes from one part of what it has.
XEncapsulated(public, ciphertext, secret, n) ==
  /\ IsPart(public) /\ raw_size(public) = 32
  /\ ciphertext = raw("x25519", "public", n)
  /\ secret = [dh |-> {ciphertext, point(public)}, multiple |-> multiple(public)]

XDecapsulated(i, ciphertext, secret) ==
  /\ IsPart(ciphertext) /\ raw_size(ciphertext) = 32
  /\ secret = [dh |-> {raw("x25519", "public", i), point(ciphertext)},
               multiple |-> multiple(ciphertext)]

KemEncapsulated(alg, public, ciphertext, secret, n) ==
  /\ Shaped(public) /\ size(public) = Size[alg].public
  /\ ciphertext = [alg |-> alg, what |-> "output", id |-> n, form |-> "made", to |-> public]
  /\ secret = [from |-> ciphertext]

KemDecapsulated(alg, i, ciphertext, secret) ==
  /\ Shaped(ciphertext) /\ size(ciphertext) = Size[alg].output
  /\ secret = IF meant_for(ciphertext, alg, raw(alg, "secret", i))
                THEN [from |-> ciphertext]
                ELSE [rejected |-> <<raw(alg, "secret", i), ciphertext>>]

LEMMA XAgrees ==
  ASSUME NEW p, NEW c, NEW s, NEW n, XEncapsulated(p, c, s, n),
         NEW i, NEW d, NEW t, XDecapsulated(i, d, t), i # n
  PROVE  t = s <=> /\ point(d) = c /\ point(p) = raw("x25519", "public", i)
                   /\ multiple(d) = multiple(p)
<1>. DEFINE k == raw("x25519", "public", i)
<1>1. k # c
  BY DEF XEncapsulated, raw
<1>2. (t = s) <=> ({k, point(d)} = {c, point(p)} /\ multiple(d) = multiple(p))
  <2>1. \A x, y, u, v : [dh |-> x, multiple |-> u] = [dh |-> y, multiple |-> v] <=> x = y /\ u = v
    <3>1. \A x, u : [dh |-> x, multiple |-> u].dh = x /\ [dh |-> x, multiple |-> u].multiple = u
      OBVIOUS
    <3>. QED
      BY <3>1
  <2>2. /\ t = [dh |-> {k, point(d)}, multiple |-> multiple(d)]
        /\ s = [dh |-> {c, point(p)}, multiple |-> multiple(p)]
    BY DEF XEncapsulated, XDecapsulated
  <2>. QED
    BY <2>1, <2>2, Zenon
<1>. HIDE DEF k
<1>3. ({k, point(d)} = {c, point(p)}) <=> (point(d) = c /\ point(p) = k)
  BY <1>1
<1>. QED
  BY <1>2, <1>3 DEF k

LEMMA KemAgrees ==
  ASSUME NEW a \in OqsKem, NEW p, NEW c, NEW s, NEW n, KemEncapsulated(a, p, c, s, n),
         NEW b \in OqsKem, NEW i, NEW d, NEW t, KemDecapsulated(b, i, d, t)
  PROVE  t = s <=> d = c /\ p = raw(b, "public", i)
<1>1. /\ "to" \in DOMAIN c /\ c.alg = a /\ c.form = "made" /\ c.to = p
  BY DEF KemEncapsulated
<1>2. public_of(raw(b, "secret", i)) = raw(b, "public", i)
  BY DEF public_of, raw
<1>3. ASSUME d = c, p = raw(b, "public", i) PROVE t = s
  <2>1. size(p) = Size[b].public
    BY <1>3 DEF size, packed, raw_size, raw
  <2>2. Size[a].public = Size[b].public
    BY <1>3, <2>1 DEF KemEncapsulated
  <2>3. a = b
    BY <2>2, Sizes
  <2>4. meant_for(c, b, raw(b, "secret", i))
    BY <1>1, <1>2, <1>3, <2>3 DEF meant_for
  <2>. QED
    BY <1>3, <2>4 DEF KemEncapsulated, KemDecapsulated
<1>4. ASSUME t = s PROVE d = c /\ p = raw(b, "public", i)
  <2>1. s = [from |-> c]
    BY DEF KemEncapsulated
  <2>2. \A x : [rejected |-> x] # [from |-> c]
    OBVIOUS
  <2>3. meant_for(d, b, raw(b, "secret", i)) /\ t = [from |-> d]
    BY <1>4, <2>1, <2>2 DEF KemDecapsulated
  <2>4. d = c
    BY <1>4, <2>1, <2>3
  <2>. QED
    BY <1>1, <1>2, <2>3, <2>4 DEF meant_for
<1>. QED
  BY <1>3, <1>4

-----------------------------------------------------------------------------
\* Key pairs.  number is the randomness a key pair was made from.
made(alg, n) ==
  IF alg = HybridKem
    THEN keypair(alg, pack2("QHKP", raw("x25519", "public", n), raw("ml_kem_768", "public", n)),
                      pack2("QHKS", raw("x25519", "secret", n), raw("ml_kem_768", "secret", n)))
  ELSE IF alg = HybridSign
    THEN keypair(alg, pack2("QHSP", raw("ed25519", "public", n), raw("ml_dsa_65", "public", n)),
                      pack2("QHSS", raw("ed25519", "secret", n), raw("ml_dsa_65", "secret", n)))
  ELSE raw_keypair(alg, n)

number(k) == IF k.alg \in Hybrid THEN k.public.first.id ELSE k.public.id

KeyOk(k) == k.alg \in Single \cup Hybrid /\ k = made(k.alg, number(k))

LEMMA AlgorithmNames ==
  /\ HybridKem \notin Single /\ HybridSign \notin Single /\ HybridKem # HybridSign
  /\ Hybrid = {HybridKem, HybridSign}
  /\ Kem = OqsKem \cup {"x25519", HybridKem}
  /\ Sign = OqsSig \cup {"ed25519", "secp256k1", HybridSign}
  /\ "secp256k1" \notin Single \cup Hybrid
  /\ (Kem \cup Sign) \ {"secp256k1"} = Single \cup Hybrid
  /\ Kem \cap Sign = {} /\ "x25519" \notin OqsKem /\ "ed25519" \notin OqsSig
  /\ OqsKem \cap OqsSig = {} /\ "ml_kem_768" \in OqsKem /\ "ml_dsa_65" \in OqsSig
  /\ HybridKem \notin OqsKem \cup OqsSig \cup {"x25519", "ed25519"}
  /\ HybridSign \notin OqsKem \cup OqsSig \cup {"x25519", "ed25519"}
<1>. USE DEF HybridKem, HybridSign, OqsKem, OqsSig
<1>1. /\ HybridKem \notin Single /\ HybridSign \notin Single /\ HybridKem # HybridSign
      /\ Hybrid = {HybridKem, HybridSign}
      /\ "secp256k1" \notin Single \cup Hybrid
  BY DEF Single, Hybrid
<1>2. /\ Kem = OqsKem \cup {"x25519", HybridKem}
      /\ Sign = OqsSig \cup {"ed25519", "secp256k1", HybridSign}
  BY DEF Kem, Sign
<1>3. (Kem \cup Sign) \ {"secp256k1"} = Single \cup Hybrid
  BY DEF Kem, Sign, Single, Hybrid
<1>4. Kem \cap Sign = {} /\ "x25519" \notin OqsKem /\ "ed25519" \notin OqsSig
  BY DEF Kem, Sign
<1>5. /\ OqsKem \cap OqsSig = {} /\ "ml_kem_768" \in OqsKem /\ "ml_dsa_65" \in OqsSig
      /\ HybridKem \notin OqsKem \cup OqsSig \cup {"x25519", "ed25519"}
      /\ HybridSign \notin OqsKem \cup OqsSig \cup {"x25519", "ed25519"}
  OBVIOUS
<1>. HIDE DEF HybridKem, HybridSign, OqsKem, OqsSig
<1>. QED
  BY <1>1, <1>2, <1>3, <1>4, <1>5

LEMMA MadeIsOk ==
  ASSUME NEW alg \in Single \cup Hybrid, NEW n
  PROVE  KeyOk(made(alg, n)) /\ made(alg, n).alg = alg /\ number(made(alg, n)) = n
<1>1. CASE alg \in Single
  <2>1. alg \notin Hybrid /\ alg # HybridKem /\ alg # HybridSign
    BY <1>1, AlgorithmNames
  <2>2. made(alg, n) = raw_keypair(alg, n)
    BY <2>1 DEF made
  <2>3. made(alg, n).alg = alg /\ made(alg, n).public.id = n
    BY <2>2 DEF raw_keypair, keypair, raw
  <2>. QED
    BY <2>1, <2>3 DEF KeyOk, number
<1>2. CASE alg \in Hybrid
  <2>1. alg \in {HybridKem, HybridSign} /\ HybridKem # HybridSign
    BY <1>2, AlgorithmNames
  <2>2. made(alg, n).alg = alg /\ made(alg, n).public.first.id = n
    BY <2>1 DEF made, keypair, pack2, raw
  <2>. QED
    BY <1>2, <2>2 DEF KeyOk, number
<1>. QED
  BY <1>1, <1>2

LEMMA FromApi ==
  ASSUME NEW who, NEW alg, NEW hybrid, NEW result,
         NEW r \in from_api(who, alg, hybrid, result), r.ok
  PROVE  r = result
BY DEF from_api, default_gate, Fail

LEMMA Generated ==
  ASSUME NEW b, NEW alg \in Kem \cup Sign, NEW n, generate_keypair(b, alg, n).ok
  PROVE  alg \in Single \cup Hybrid /\ generate_keypair(b, alg, n).value = made(alg, n)
<1>. USE DEF Ok, Fail
<1>1. CASE alg \in OqsKem \cup OqsSig \cup {"x25519", "ed25519"}
  <2>1. generate_keypair(b, alg, n) \in {pq_generate(b, alg, n), openssl_keypair(b, alg, n)}
    BY <1>1, AlgorithmNames DEF generate_keypair, generate_kem_keypair, generate_sign_keypair
  <2>2. generate_keypair(b, alg, n).value = raw_keypair(alg, n)
    BY <2>1 DEF pq_generate, openssl_keypair
  <2>. QED
    BY <1>1, <2>2, AlgorithmNames DEF made, Single
<1>2. CASE alg = HybridKem
  <2>1. generate_keypair(b, alg, n) = make_hybrid_kem_keypair(b, n)
    BY <1>2, AlgorithmNames DEF generate_keypair, generate_kem_keypair
  <2>. QED
    BY <1>2, <2>1, AlgorithmNames
    DEF make_hybrid_kem_keypair, make_hybrid, pq_generate, made, raw_keypair, keypair
<1>3. CASE alg = HybridSign
  <2>1. generate_keypair(b, alg, n) = make_hybrid_sign_keypair(b, n)
    BY <1>3, AlgorithmNames DEF generate_keypair, generate_sign_keypair
  <2>. QED
    BY <1>3, <2>1, AlgorithmNames
    DEF make_hybrid_sign_keypair, make_hybrid, pq_generate, made, raw_keypair, keypair
<1>4. CASE alg = "secp256k1"
  <2>1. alg \notin Kem /\ alg \notin OqsSig \cup {"ed25519", HybridSign}
    BY <1>4 DEF Kem, OqsKem, OqsSig, HybridKem, HybridSign
  <2>2. generate_keypair(b, alg, n) = generate_sign_keypair(b, alg, n)
    BY <2>1 DEF generate_keypair
  <2>3. generate_sign_keypair(b, "secp256k1", n) = Fail("unsupported_algorithm")
    BY <1>4, <2>1 DEF generate_sign_keypair
  <2>. QED
    BY <1>4, <2>2, <2>3
<1>. QED
  BY <1>1, <1>2, <1>3, <1>4, AlgorithmNames

-----------------------------------------------------------------------------
\* Encapsulations and decapsulations, whole.
Encapsulated(alg, public, ciphertext, secret, n) ==
  \/ alg = "x25519" /\ XEncapsulated(public, ciphertext, secret, n)
  \/ alg \in OqsKem /\ KemEncapsulated(alg, public, ciphertext, secret, n)
  \/ /\ alg = HybridKem /\ IsPair(public) /\ public.magic = "QHKP"
     /\ \E c, d, s, t :
          /\ XEncapsulated(public.first, c, s, n)
          /\ KemEncapsulated("ml_kem_768", public.second, d, t, n)
          /\ ciphertext = pack2("QHKC", c, d) /\ secret = [hkdf |-> <<s, t>>]

Decapsulated(alg, i, ciphertext, secret) ==
  \/ alg = "x25519" /\ XDecapsulated(i, ciphertext, secret)
  \/ alg \in OqsKem /\ KemDecapsulated(alg, i, ciphertext, secret)
  \/ /\ alg = HybridKem /\ IsPair(ciphertext) /\ ciphertext.magic = "QHKC"
     /\ \E s, t : /\ XDecapsulated(i, ciphertext.first, s)
                  /\ KemDecapsulated("ml_kem_768", i, ciphertext.second, t)
                  /\ secret = [hkdf |-> <<s, t>>]

LEMMA XEncapsulates ==
  ASSUME NEW b, NEW p, Shaped(p), NEW n, x25519_encapsulate(b, p, n).ok
  PROVE  LET r == x25519_encapsulate(b, p, n).value
         IN XEncapsulated(p, r.ciphertext, r.secret, n)
<1>1. size(p) = 32
  BY DEF x25519_encapsulate, Fail
<1>2. IsPart(p) /\ raw_size(p) = 32
  BY <1>1, PairShape, PartShape DEF Shaped
<1>3. /\ point(raw("x25519", "secret", n)) = raw("x25519", "public", n)
      /\ public_of(raw("x25519", "secret", n)) = raw("x25519", "public", n)
  BY DEF point, public_of, raw
<1>4. p.form # "low_order"
  BY DEF x25519_encapsulate, derive_x25519, Fail
<1>. QED
  BY <1>2, <1>3, <1>4 DEF x25519_encapsulate, Ok, Fail, XEncapsulated, derive_x25519

LEMMA KemEncapsulates ==
  ASSUME NEW b, NEW alg, NEW p, Shaped(p), NEW n, kem_encapsulate(b, alg, p, n).ok
  PROVE  LET r == kem_encapsulate(b, alg, p, n).value
         IN KemEncapsulated(alg, p, r.ciphertext, r.secret, n)
BY DEF kem_encapsulate, Ok, Fail, KemEncapsulated

LEMMA XDecapsulates ==
  ASSUME NEW b, NEW i, NEW c, Shaped(c), x25519_decapsulate(b, raw("x25519", "secret", i), c).ok
  PROVE  XDecapsulated(i, c, x25519_decapsulate(b, raw("x25519", "secret", i), c).value)
<1>1. size(c) = 32
  BY DEF x25519_decapsulate, Fail
<1>2. IsPart(c) /\ raw_size(c) = 32
  BY <1>1, PairShape, PartShape DEF Shaped
<1>3. point(raw("x25519", "secret", i)) = raw("x25519", "public", i)
  BY DEF point, public_of, raw
<1>4. c.form # "low_order"
  BY DEF x25519_decapsulate, derive_x25519, Fail
<1>. QED
  BY <1>2, <1>3, <1>4 DEF x25519_decapsulate, Ok, Fail, XDecapsulated, derive_x25519

LEMMA KemDecapsulates ==
  ASSUME NEW b, NEW alg, NEW i, NEW c, Shaped(c), kem_decapsulate(b, alg, raw(alg, "secret", i), c).ok
  PROVE  KemDecapsulated(alg, i, c, kem_decapsulate(b, alg, raw(alg, "secret", i), c).value)
BY DEF kem_decapsulate, Ok, Fail, KemDecapsulated

\* The two halves of a hybrid, and pairs that are records of two parts.
LEMMA PackedPair ==
  ASSUME NEW m, NEW a, NEW b
  PROVE  /\ DOMAIN pack2(m, a, b) = {"magic", "first", "second"}
         /\ pack2(m, a, b).magic = m /\ pack2(m, a, b).first = a /\ pack2(m, a, b).second = b
         /\ packed(pack2(m, a, b))
BY DEF pack2, packed

LEMMA Unpacks ==
  ASSUME NEW m, NEW b, unpack2(m, b).ok
  PROVE  packed(b) /\ b.magic = m /\ unpack2(m, b).value = <<b.first, b.second>>
BY DEF unpack2, Ok, Fail

LEMMA Encapsulates ==
  ASSUME NEW b, NEW alg \in Kem, NEW p, Shaped(p), NEW n, encapsulate(b, alg, p, n).ok
  PROVE  LET r == encapsulate(b, alg, p, n).value
         IN Encapsulated(alg, p, r.ciphertext, r.secret, n)
<1>1. CASE alg = "x25519"
  <2>1. encapsulate(b, alg, p, n) = x25519_encapsulate(b, p, n)
    BY <1>1, AlgorithmNames DEF encapsulate
  <2>. QED
    BY <1>1, <2>1, XEncapsulates DEF Encapsulated
<1>2. CASE alg \in OqsKem
  <2>1. encapsulate(b, alg, p, n) = kem_encapsulate(b, alg, p, n)
    BY <1>2, AlgorithmNames DEF encapsulate
  <2>. QED
    BY <1>2, <2>1, KemEncapsulates DEF Encapsulated
<1>3. CASE alg = HybridKem
  <2>. DEFINE classic == x25519_encapsulate(b, p.first, n)
              pq == kem_encapsulate(b, "ml_kem_768", p.second, n)
  <2>1. encapsulate(b, alg, p, n) = encapsulate_hybrid_kem(b, p, n)
    BY <1>3, AlgorithmNames DEF encapsulate
  <2>2. unpack2("QHKP", p).ok
    BY <2>1 DEF encapsulate_hybrid_kem
  <2>3. /\ packed(p) /\ p.magic = "QHKP"
        /\ unpack2("QHKP", p).value[1] = p.first /\ unpack2("QHKP", p).value[2] = p.second
    BY <2>2, Unpacks
  <2>4. IsPair(p)
    BY <2>3, PartShape DEF Shaped
  <2>5. /\ classic.ok /\ pq.ok
        /\ encapsulate_hybrid_kem(b, p, n) =
             Ok([ciphertext |-> pack2("QHKC", classic.value.ciphertext, pq.value.ciphertext),
                 secret |-> hybrid_combine(classic.value.secret, pq.value.secret).value])
    <3>. HIDE DEF classic, pq
    <3>. QED
      BY <2>1, <2>2, <2>3, Zenon DEF encapsulate_hybrid_kem, classic, pq
  <2>. HIDE DEF classic, pq
  <2>6. /\ encapsulate(b, alg, p, n).value.ciphertext =
             pack2("QHKC", classic.value.ciphertext, pq.value.ciphertext)
        /\ encapsulate(b, alg, p, n).value.secret =
             [hkdf |-> <<classic.value.secret, pq.value.secret>>]
    BY <2>1, <2>5 DEF Ok, hybrid_combine
  <2>7. /\ XEncapsulated(p.first, classic.value.ciphertext, classic.value.secret, n)
        /\ KemEncapsulated("ml_kem_768", p.second, pq.value.ciphertext, pq.value.secret, n)
    BY <2>4, <2>5, XEncapsulates, KemEncapsulates DEF classic, pq, IsPair, Shaped
  <2>. QED
    BY <1>3, <2>3, <2>4, <2>6, <2>7 DEF Encapsulated
<1>. QED
  BY <1>1, <1>2, <1>3, AlgorithmNames

LEMMA Decapsulates ==
  ASSUME NEW b, NEW k, KeyOk(k), k.alg \in Kem, NEW c, Shaped(c), decapsulate(b, k.alg, k.secret, c).ok
  PROVE  Decapsulated(k.alg, number(k), c, decapsulate(b, k.alg, k.secret, c).value)
<1>. DEFINE i == number(k)
<1>1. CASE k.alg = "x25519"
  <2>1. decapsulate(b, k.alg, k.secret, c) = x25519_decapsulate(b, k.secret, c)
    BY <1>1, AlgorithmNames DEF decapsulate
  <2>2. k.secret = raw("x25519", "secret", i)
    BY <1>1, AlgorithmNames DEF KeyOk, made, raw_keypair, keypair
  <2>. HIDE DEF i
  <2>. QED
    BY <1>1, <2>1, <2>2, XDecapsulates DEF Decapsulated, i
<1>2. CASE k.alg \in OqsKem
  <2>1. decapsulate(b, k.alg, k.secret, c) = kem_decapsulate(b, k.alg, k.secret, c)
    BY <1>2, AlgorithmNames DEF decapsulate
  <2>2. k.secret = raw(k.alg, "secret", i)
    BY <1>2, AlgorithmNames DEF KeyOk, made, raw_keypair, keypair
  <2>. HIDE DEF i
  <2>. QED
    BY <1>2, <2>1, <2>2, KemDecapsulates DEF Decapsulated, i
<1>3. CASE k.alg = HybridKem
  <2>. DEFINE x == raw("x25519", "secret", i)
              m == raw("ml_kem_768", "secret", i)
              classic == x25519_decapsulate(b, x, c.first)
              pq == kem_decapsulate(b, "ml_kem_768", m, c.second)
  <2>1. decapsulate(b, k.alg, k.secret, c) = decapsulate_hybrid_kem(b, k.secret, c)
    BY <1>3, AlgorithmNames DEF decapsulate
  <2>2. k.secret = pack2("QHKS", x, m)
    BY <1>3, AlgorithmNames DEF KeyOk, made, keypair
  <2>. HIDE DEF i, x, m
  <2>3. unpack2("QHKS", k.secret).ok /\ unpack2("QHKC", c).ok
    BY <2>1 DEF decapsulate_hybrid_kem
  <2>4. /\ packed(c) /\ c.magic = "QHKC"
        /\ unpack2("QHKC", c).value[1] = c.first /\ unpack2("QHKC", c).value[2] = c.second
        /\ unpack2("QHKS", k.secret).value[1] = x /\ unpack2("QHKS", k.secret).value[2] = m
    BY <2>2, <2>3, Unpacks, PackedPair
  <2>5. IsPair(c)
    BY <2>4, PartShape DEF Shaped
  <2>6. /\ classic.ok /\ pq.ok
        /\ decapsulate_hybrid_kem(b, k.secret, c) = hybrid_combine(classic.value, pq.value)
    <3>. HIDE DEF classic, pq
    <3>. QED
      BY <2>1, <2>3, <2>4, Zenon DEF decapsulate_hybrid_kem, classic, pq
  <2>7. /\ XDecapsulated(i, c.first, classic.value)
        /\ KemDecapsulated("ml_kem_768", i, c.second, pq.value)
    BY <2>5, <2>6, XDecapsulates, KemDecapsulates DEF IsPair, Shaped, x, m
  <2>. HIDE DEF classic, pq
  <2>8. decapsulate(b, k.alg, k.secret, c).value = [hkdf |-> <<classic.value, pq.value>>]
    BY <2>1, <2>6 DEF Ok, hybrid_combine
  <2>. QED
    BY <1>3, <2>4, <2>5, <2>7, <2>8 DEF Decapsulated, i
<1>. QED
  BY <1>1, <1>2, <1>3, AlgorithmNames

\* What was made and not altered is read as it is.
LEMMA MadePoints ==
  ASSUME NEW p, IsPart(p), p.form = "made"
  PROVE  points(p) = p
BY PartPoints

LEMMA MadeParts ==
  /\ \A alg \in Single : \A n :
       LET p == raw(alg, "public", n)
       IN IsPart(p) /\ p.form = "made" /\ p.alg = alg /\ points(p) = p
  /\ \A alg \in OqsKem : \A p, c, s, n : KemEncapsulated(alg, p, c, s, n) =>
       IsPart(c) /\ c.form = "made" /\ c.alg = alg /\ points(c) = c
<1>1. ASSUME NEW alg \in Single, NEW n, NEW p, p = raw(alg, "public", n)
      PROVE  IsPart(p) /\ p.form = "made" /\ p.alg = alg /\ points(p) = p
  <2>1. IsPart(p) /\ p.form = "made" /\ p.alg = alg
    BY <1>1 DEF raw, IsPart
  <2>. QED
    BY <2>1, MadePoints
<1>2. ASSUME NEW alg \in OqsKem, NEW p, NEW c, NEW s, NEW n, KemEncapsulated(alg, p, c, s, n)
      PROVE  IsPart(c) /\ c.form = "made" /\ c.alg = alg /\ points(c) = c
  <2>1. IsPart(c) /\ c.form = "made" /\ c.alg = alg
    BY <1>2 DEF KemEncapsulated, IsPart, Single
  <2>. QED
    BY <2>1, MadePoints
<1>. QED
  BY <1>1, <1>2

\* Both hold the same secret exactly if what lies between them was the same points and the same
\* other bytes, or the same multiple of the points.
SameParts(d, c, p, k) ==
  /\ points(d) = points(c) /\ points(p) = points(k)
  /\ multiple(classical(d)) = multiple(classical(p))

LEMMA Agrees ==
  ASSUME NEW alg, NEW p, NEW c, NEW s, NEW n, Encapsulated(alg, p, c, s, n),
         NEW k, KeyOk(k), NEW d, NEW t, Decapsulated(k.alg, number(k), d, t), number(k) # n
  PROVE  t = s <=> SameParts(d, c, p, k.public)
<1>. DEFINE i == number(k)
<1>1. CASE k.alg = "x25519"
  <2>1. XDecapsulated(i, d, t) /\ k.public = raw("x25519", "public", i)
    BY <1>1, AlgorithmNames DEF Decapsulated, KeyOk, made, raw_keypair, keypair
  <2>2. CASE alg = "x25519"
    <3>1. XEncapsulated(p, c, s, n)
      BY <2>2, AlgorithmNames DEF Encapsulated
    <3>2. "x25519" \in Single
      BY DEF Single
    <3>3. points(c) = c /\ points(k.public) = raw("x25519", "public", i)
      BY <2>1, <3>1, <3>2, MadeParts DEF XEncapsulated
    <3>4. /\ points(d) = point(d) /\ classical(d) = d
          /\ points(p) = point(p) /\ classical(p) = p
      BY <2>1, <3>1, PartPoints DEF XEncapsulated, XDecapsulated
    <3>. QED
      BY <2>1, <3>1, <3>3, <3>4, XAgrees DEF SameParts
  <2>3. CASE alg \in OqsKem
    <3>1. KemEncapsulated(alg, p, c, s, n)
      BY <2>3, AlgorithmNames DEF Encapsulated
    <3>2. t # s
      <4>1. \A x, y, z : [dh |-> x, multiple |-> z] # [from |-> y]
        OBVIOUS
      <4>. QED
        BY <2>1, <3>1, <4>1 DEF XDecapsulated, KemEncapsulated
    <3>3. points(d) # points(c)
      <4>1. raw_size(c) = Size[alg].output /\ points(c) = c
        BY <2>3, <3>1, MadeParts DEF KemEncapsulated, raw_size
      <4>2. points(d) = point(d) /\ raw_size(point(d)) = 32
        BY <2>1, PartPoints DEF XDecapsulated
      <4>. QED
        BY <2>3, <4>1, <4>2, Sizes
    <3>. QED
      BY <3>2, <3>3 DEF SameParts
  <2>4. CASE alg = HybridKem
    <3>1. (\E x : s = [hkdf |-> x]) /\ IsPair(p)
      BY <2>4, AlgorithmNames DEF Encapsulated
    <3>2. t # s
      <4>1. \A x, y, z : [dh |-> x, multiple |-> z] # [hkdf |-> y]
        OBVIOUS
      <4>. QED
        BY <2>1, <3>1, <4>1 DEF XDecapsulated
    <3>3. points(p) # points(k.public)
      <4>1. "x25519" \in Single
        BY DEF Single
      <4>. QED
        BY <2>1, <3>1, <4>1, PairPoints, MadeParts, PartShape
    <3>. QED
      BY <3>2, <3>3 DEF SameParts
  <2>. QED
    BY <2>2, <2>3, <2>4 DEF Encapsulated
<1>2. CASE k.alg \in OqsKem
  <2>1. KemDecapsulated(k.alg, i, d, t) /\ k.public = raw(k.alg, "public", i)
    BY <1>2, AlgorithmNames DEF Decapsulated, KeyOk, made, raw_keypair, keypair
  <2>t. \E x : t = [from |-> x] \/ t = [rejected |-> x]
    BY <2>1 DEF KemDecapsulated
  <2>2. CASE alg = "x25519"
    <3>1. XEncapsulated(p, c, s, n)
      BY <2>2, AlgorithmNames DEF Encapsulated
    <3>2. t # s
      <4>1. \A x, y, z : /\ [from |-> y] # [dh |-> x, multiple |-> z]
                         /\ [rejected |-> y] # [dh |-> x, multiple |-> z]
        OBVIOUS
      <4>. QED
        BY <2>t, <3>1, <4>1 DEF XEncapsulated
    <3>3. points(p) # points(k.public)
      <4>1. IsPart(p) /\ raw_size(p) = 32
        BY <3>1 DEF XEncapsulated
      <4>2. raw_size(point(p)) = 32 /\ points(p) = point(p)
        BY <4>1, PartPoints
      <4>3. points(k.public) = k.public /\ raw_size(k.public) = Size[k.alg].public
        BY <1>2, <2>1, MadeParts DEF Single, raw, raw_size
      <4>. QED
        BY <1>2, <4>2, <4>3, Sizes
    <3>. QED
      BY <3>2, <3>3 DEF SameParts
  <2>3. CASE alg \in OqsKem
    <3>1. KemEncapsulated(alg, p, c, s, n)
      BY <2>3, AlgorithmNames DEF Encapsulated
    <3>2. t = s <=> d = c /\ p = k.public
      BY <1>2, <2>1, <2>3, <3>1, KemAgrees
    <3>3. /\ IsPart(c) /\ c.form = "made" /\ c.alg # "x25519"
          /\ IsPart(k.public) /\ k.public.form = "made" /\ k.public.alg # "x25519"
      BY <1>2, <2>1, <2>3, <3>1, MadeParts, AlgorithmNames DEF Single
    <3>4. /\ points(d) = points(c) <=> d = c
          /\ points(p) = points(k.public) <=> p = k.public
      BY <2>1, <3>1, <3>3, BytesAsPoints DEF KemEncapsulated, KemDecapsulated
    <3>5. multiple(classical(c)) = FALSE /\ multiple(classical(k.public)) = FALSE
      BY <3>3, PartPoints DEF multiple
    <3>. QED
      BY <3>2, <3>4, <3>5 DEF SameParts
  <2>4. CASE alg = HybridKem
    <3>1. /\ \E x : s = [hkdf |-> x]
          /\ IsPair(p)
      BY <2>4, AlgorithmNames DEF Encapsulated
    <3>2. t # s
      <4>1. \A x, y : [from |-> y] # [hkdf |-> x] /\ [rejected |-> y] # [hkdf |-> x]
        OBVIOUS
      <4>. QED
        BY <2>t, <3>1, <4>1
    <3>3. points(p) # points(k.public)
      BY <1>2, <2>1, <3>1, PairPoints, MadeParts, PartShape DEF Single
    <3>. QED
      BY <3>2, <3>3 DEF SameParts
  <2>. QED
    BY <2>2, <2>3, <2>4 DEF Encapsulated
<1>3. CASE k.alg = HybridKem
  <2>1. k.public = pack2("QHKP", raw("x25519", "public", i), raw("ml_kem_768", "public", i))
    BY <1>3, AlgorithmNames DEF KeyOk, made, keypair
  <2>2. PICK t1, t2 : /\ IsPair(d) /\ d.magic = "QHKC"
                      /\ XDecapsulated(i, d.first, t1)
                      /\ KemDecapsulated("ml_kem_768", i, d.second, t2)
                      /\ t = [hkdf |-> <<t1, t2>>]
    BY <1>3, AlgorithmNames DEF Decapsulated
  <2>3. CASE alg = "x25519" \/ alg \in OqsKem
    <3>1. /\ \E x, y : s = [dh |-> x, multiple |-> y] \/ s = [from |-> x]
          /\ IsPart(c) /\ points(c) = c
      <4>1. "x25519" \in Single
        BY DEF Single
      <4>2. CASE alg = "x25519"
        <5>1. /\ c = raw("x25519", "public", n)
              /\ s = [dh |-> {c, point(p)}, multiple |-> multiple(p)]
          BY <4>2, AlgorithmNames DEF Encapsulated, XEncapsulated
        <5>2. IsPart(c) /\ points(c) = c
          BY <4>1, <5>1, MadeParts
        <5>. QED
          BY <5>1, <5>2
      <4>3. CASE alg \in OqsKem
        <5>1. KemEncapsulated(alg, p, c, s, n)
          BY <4>3, AlgorithmNames DEF Encapsulated
        <5>2. IsPart(c) /\ points(c) = c
          BY <4>3, <5>1, MadeParts
        <5>3. s = [from |-> c]
          BY <5>1 DEF KemEncapsulated
        <5>. QED
          BY <5>2, <5>3
      <4>. QED
        BY <2>3, <4>2, <4>3
    <3>2. t # s
      <4>1. \A x, y, z : [dh |-> y, multiple |-> z] # [hkdf |-> x] /\ [from |-> y] # [hkdf |-> x]
        OBVIOUS
      <4>. QED
        BY <2>2, <3>1, <4>1
    <3>3. points(d) # points(c)
      BY <2>2, <3>1, PairPoints, PartShape
    <3>. QED
      BY <3>2, <3>3 DEF SameParts
  <2>4. CASE alg = HybridKem
    <3>1. PICK c1, c2, s1, s2 :
            /\ XEncapsulated(p.first, c1, s1, n)
            /\ KemEncapsulated("ml_kem_768", p.second, c2, s2, n)
            /\ c = pack2("QHKC", c1, c2) /\ s = [hkdf |-> <<s1, s2>>]
            /\ IsPair(p) /\ p.magic = "QHKP"
      BY <2>4, AlgorithmNames DEF Encapsulated
    <3>2. t1 = s1 <=> /\ point(d.first) = c1 /\ point(p.first) = raw("x25519", "public", i)
                      /\ multiple(d.first) = multiple(p.first)
      BY <2>2, <3>1, XAgrees
    <3>3. t2 = s2 <=> d.second = c2 /\ p.second = raw("ml_kem_768", "public", i)
      BY <2>2, <3>1, KemAgrees, AlgorithmNames
    <3>4. t = s <=> t1 = s1 /\ t2 = s2
      <4>1. [hkdf |-> <<t1, t2>>].hkdf = <<t1, t2>> /\ [hkdf |-> <<s1, s2>>].hkdf = <<s1, s2>>
        OBVIOUS
      <4>. QED
        BY <2>2, <3>1, <4>1
    <3>5. points(d) = points(c) <=> point(d.first) = c1 /\ d.second = c2
      <4>1. IsPart(c1) /\ point(c1) = c1 /\ IsPart(c2)
        <5>1. "x25519" \in Single
          BY DEF Single
        <5>. QED
          BY <3>1, <5>1, MadeParts, PartPoints, AlgorithmNames DEF XEncapsulated
      <4>2. IsPair(c) /\ c.magic = "QHKC" /\ c.first = c1 /\ c.second = c2
        BY <3>1, <4>1, PackedPair DEF IsPair
      <4>3. points(c) = pack2("QHKC", c1, c2) /\ points(d) = pack2("QHKC", point(d.first), d.second)
        BY <2>2, <4>1, <4>2, PairPoints
      <4>. QED
        BY <4>3, PackedPair
    <3>6. points(p) = points(k.public) <=> /\ point(p.first) = raw("x25519", "public", i)
                                           /\ p.second = raw("ml_kem_768", "public", i)
      <4>. DEFINE x == raw("x25519", "public", i)
                  y == raw("ml_kem_768", "public", i)
      <4>1. IsPart(x) /\ point(x) = x /\ IsPart(y)
        <5>1. "x25519" \in Single /\ "ml_kem_768" \in Single
          BY DEF Single, OqsKem
        <5>. QED
          BY <5>1, MadeParts, PartPoints
      <4>. HIDE DEF x, y
      <4>2. IsPair(k.public) /\ k.public.magic = "QHKP" /\ k.public.first = x /\ k.public.second = y
        BY <2>1, <4>1, PackedPair DEF IsPair, x, y
      <4>3. points(k.public) = pack2("QHKP", x, y) /\ points(p) = pack2("QHKP", point(p.first), p.second)
        BY <3>1, <4>1, <4>2, PairPoints
      <4>. QED
        BY <4>3, PackedPair DEF x, y
    <3>7. classical(d) = d.first /\ classical(p) = p.first
      BY <2>2, <3>1, PairPoints
    <3>. QED
      BY <3>2, <3>3, <3>4, <3>5, <3>6, <3>7 DEF SameParts
  <2>. QED
    BY <2>3, <2>4 DEF Encapsulated
<1>. QED
  BY <1>1, <1>2, <1>3 DEF Decapsulated

-----------------------------------------------------------------------------
\* Signatures.
half_signature(alg, i, message) == signature(alg, raw(alg, "secret", i), message)

made_signature(alg, i, message) ==
  IF alg = HybridSign
    THEN pack2("QHSG", half_signature("ed25519", i, message), half_signature("ml_dsa_65", i, message))
    ELSE half_signature(alg, i, message)

LEMMA HalfSignature ==
  ASSUME NEW alg \in Single, NEW i, NEW m
  PROVE  LET p == half_signature(alg, i, m)
         IN /\ IsPart(p) /\ p.id = 1 /\ p.form = "made" /\ "by" \in DOMAIN p
            /\ p.by = raw(alg, "public", i) /\ p.message = m
BY DEF half_signature, signature, IsPart, public_of, raw

LEMMA Signs ==
  ASSUME NEW b, NEW k, KeyOk(k), k.alg \in Sign, NEW m, sign(b, k.alg, k.secret, m).ok
  PROVE  sign(b, k.alg, k.secret, m).value = made_signature(k.alg, number(k), m)
<1>. DEFINE i == number(k)
<1>1. CASE k.alg \in OqsSig \cup {"ed25519"}
  <2>1. sign(b, k.alg, k.secret, m)
          = IF k.alg = "ed25519" THEN ed25519_sign(b, k.secret, m)
                                 ELSE sign_message(b, k.alg, k.secret, m)
    <3>1. CASE k.alg \in OqsSig
      <4>1. k.alg # HybridSign /\ k.alg # "ed25519" /\ k.alg # "secp256k1"
        BY <3>1, AlgorithmNames DEF Single
      <4>. QED
        BY <3>1, <4>1 DEF sign
    <3>2. CASE k.alg = "ed25519"
      <4>1. "ed25519" \notin OqsSig /\ "ed25519" # HybridSign
        BY AlgorithmNames
      <4>. QED
        BY <3>2, <4>1 DEF sign
    <3>. QED
      BY <1>1, <3>1, <3>2
  <2>2. k.secret = raw(k.alg, "secret", i)
    BY <1>1, AlgorithmNames DEF KeyOk, made, raw_keypair, keypair
  <2>3. k.alg # HybridSign
    BY <1>1, AlgorithmNames
  <2>. HIDE DEF i
  <2>. QED
    BY <2>1, <2>2, <2>3 DEF ed25519_sign, sign_message, Ok, Fail, made_signature, half_signature, i
<1>2. CASE k.alg = HybridSign
  <2>. DEFINE x == raw("ed25519", "secret", i)
              y == raw("ml_dsa_65", "secret", i)
              classic == ed25519_sign(b, x, m)
              pq == sign_message(b, "ml_dsa_65", y, m)
  <2>1. sign(b, k.alg, k.secret, m) = sign_hybrid(b, k.secret, m)
    BY <1>2, AlgorithmNames DEF sign
  <2>2. k.secret = pack2("QHSS", x, y)
    BY <1>2, AlgorithmNames DEF KeyOk, made, keypair
  <2>. HIDE DEF i, x, y
  <2>3. unpack2("QHSS", k.secret).ok
    BY <2>1 DEF sign_hybrid
  <2>4. unpack2("QHSS", k.secret).value[1] = x /\ unpack2("QHSS", k.secret).value[2] = y
    BY <2>2, <2>3, Unpacks, PackedPair
  <2>5. /\ classic.ok /\ pq.ok
        /\ sign_hybrid(b, k.secret, m) = Ok(pack2("QHSG", classic.value, pq.value))
    <3>. HIDE DEF classic, pq
    <3>. QED
      BY <2>1, <2>3, <2>4, Zenon DEF sign_hybrid, classic, pq
  <2>6. /\ classic.value = half_signature("ed25519", i, m)
        /\ pq.value = half_signature("ml_dsa_65", i, m)
    BY <2>5 DEF ed25519_sign, sign_message, Ok, Fail, half_signature, x, y
  <2>. HIDE DEF classic, pq
  <2>. QED
    BY <1>2, <2>1, <2>5, <2>6 DEF Ok, made_signature, i
<1>3. k.alg # "secp256k1"
  BY DEF KeyOk, Single, OqsKem, OqsSig, Hybrid, HybridKem, HybridSign
<1>. QED
  BY <1>1, <1>2, <1>3, AlgorithmNames

\* What an accepted signature says, part by part.
Accepted(alg, public, message, sig) ==
  \/ alg \in OqsSig \cup {"ed25519"} /\ signed_by(sig, alg, public, message)
  \/ /\ alg = HybridSign /\ packed(sig) /\ sig.magic = "QHSG"
     /\ signed_by(sig.first, "ed25519", public.first, message)
     /\ signed_by(sig.second, "ml_dsa_65", public.second, message)

LEMMA Verifies ==
  ASSUME NEW b, NEW alg \in Sign, NEW p, NEW m, NEW a, NEW g,
         verify(b, alg, p, m, a, g).ok, verify(b, alg, p, m, a, g).value
  PROVE  Accepted(alg, p, m, g)
<1>. DEFINE r == verify(b, alg, p, m, a, g)
<1>0. a = alg /\ alg # "secp256k1"
  BY DEF verify, Fail
<1>1. CASE alg \in OqsSig
  <2>1. verify(b, alg, p, m, a, g) = verify_message(b, alg, p, m, g)
    BY <1>0, <1>1, AlgorithmNames DEF verify
  <2>. QED
    BY <1>1, <2>1 DEF verify_message, Ok, Fail, Accepted
<1>2. CASE alg = "ed25519"
  <2>1. verify(b, alg, p, m, a, g) = ed25519_verify(b, p, m, g)
    BY <1>0, <1>2, AlgorithmNames DEF verify
  <2>. QED
    BY <1>2, <2>1 DEF ed25519_verify, Ok, Fail, Accepted
<1>3. CASE alg = HybridSign
  <2>1. verify(b, alg, p, m, a, g) = verify_hybrid(b, p, m, g)
    BY <1>0, <1>3, AlgorithmNames DEF verify
  <2>2. unpack2("QHSP", p).ok /\ unpack2("QHSG", g).ok
    BY <2>1 DEF verify_hybrid
  <2>3. /\ packed(g) /\ g.magic = "QHSG"
        /\ unpack2("QHSP", p).value[1] = p.first /\ unpack2("QHSP", p).value[2] = p.second
        /\ unpack2("QHSG", g).value[1] = g.first /\ unpack2("QHSG", g).value[2] = g.second
    BY <2>2, Unpacks
  <2>. DEFINE classic == ed25519_verify(b, p.first, m, g.first)
              pq == verify_message(b, "ml_dsa_65", p.second, m, g.second)
  <2>4. verify_hybrid(b, p, m, g) = IF ~classic.ok \/ ~classic.value THEN classic ELSE pq
    <3>. HIDE DEF classic, pq
    <3>. QED
      BY <2>2, <2>3, Zenon DEF verify_hybrid, classic, pq
  <2>5. classic.ok /\ classic.value /\ pq.ok /\ pq.value
    <3>. HIDE DEF classic, pq
    <3>. QED
      BY <2>1, <2>4
  <2>6. /\ signed_by(g.first, "ed25519", p.first, m)
        /\ signed_by(g.second, "ml_dsa_65", p.second, m)
    BY <2>5 DEF ed25519_verify, verify_message, Ok, Fail
  <2>. QED
    BY <1>3, <2>3, <2>6 DEF Accepted
<1>. QED
  BY <1>0, <1>1, <1>2, <1>3, AlgorithmNames

-----------------------------------------------------------------------------
\* Everything was made by the functions above, and no two key pairs, nor a key pair and
\* an encapsulation, from the same randomness.
KeysMade ==
  /\ \A k \in keys : KeyOk(k) /\ number(k) \in 1..fresh
  /\ \A k, l \in keys : number(k) = number(l) => k = l

SentMade ==
  \A e \in sent : \E n \in 1..fresh :
    /\ Encapsulated(e.alg, e.public, e.ciphertext, e.secret, n)
    /\ \A k \in keys : number(k) # n

SignedMade ==
  \A s \in signed :
    /\ s.key \in sign_keys
    /\ s = [key |-> s.key, message |-> s.message,
            signature |-> made_signature(s.key.alg, number(s.key), s.message)]

ReceivedMade ==
  received # Nothing =>
    /\ received.key \in keys
    /\ Decapsulated(received.key.alg, number(received.key), received.ciphertext, received.secret)

\* What was verified is older than any key pair still to come.
lead(b) == IF packed(b) THEN b.first.id ELSE b.id
VerifiedOld == verified # Nothing => lead(verified.public) \in 0..fresh

ExchangeInv ==
  /\ fresh \in Nat
  /\ KeysMade /\ SentMade /\ SignedMade /\ ReceivedMade
  /\ AcceptedIsSigned /\ VerifiedOld

LEMMA PublicShape ==
  ASSUME NEW k, KeyOk(k)
  PROVE  /\ Shaped(k.public) /\ lead(k.public) = number(k) /\ ~multiple(classical(k.public))
         /\ k.alg \in Single => k.public = raw(k.alg, "public", number(k))
         /\ k.alg = HybridSign =>
              /\ k.public.first = raw("ed25519", "public", number(k))
              /\ k.public.second = raw("ml_dsa_65", "public", number(k))
         /\ k.alg \in Hybrid <=> packed(k.public)
         /\ "by" \notin DOMAIN k.public
         /\ packed(k.public) => /\ "by" \notin DOMAIN k.public.first
                                /\ "by" \notin DOMAIN k.public.second
<1>. DEFINE i == number(k)
<1>1. \A alg, n : DOMAIN raw(alg, "public", n) = {"alg", "what", "id", "form"}
  BY DEF raw
<1>2. \A n : \A alg \in Single : IsPart(raw(alg, "public", n)) /\ raw(alg, "public", n).id = n
                             /\ ~packed(raw(alg, "public", n))
                             /\ ~multiple(raw(alg, "public", n))
  BY DEF raw, IsPart, packed, multiple
<1>3. CASE k.alg \in Single
  <2>1. k.public = raw(k.alg, "public", i) /\ k.alg \notin Hybrid
    BY <1>3, AlgorithmNames DEF KeyOk, made, raw_keypair, keypair
  <2>. HIDE DEF i
  <2>. QED
    BY <1>1, <1>2, <1>3, <2>1, AlgorithmNames DEF Shaped, lead, classical, i
<1>4. CASE k.alg \in Hybrid
  <2>. DEFINE c == IF k.alg = HybridKem THEN "x25519" ELSE "ed25519"
              q == IF k.alg = HybridKem THEN "ml_kem_768" ELSE "ml_dsa_65"
              m == IF k.alg = HybridKem THEN "QHKP" ELSE "QHSP"
  <2>1. k.public = pack2(m, raw(c, "public", i), raw(q, "public", i))
    BY <1>4, AlgorithmNames DEF KeyOk, made, keypair
  <2>2. c \in Single /\ q \in Single /\ (k.alg = HybridSign => c = "ed25519" /\ q = "ml_dsa_65")
    BY AlgorithmNames DEF Single
  <2>. HIDE DEF i, c, q, m
  <2>3. /\ IsPair(k.public) /\ packed(k.public) /\ lead(k.public) = i
        /\ ~multiple(classical(k.public))
    BY <1>2, <2>1, <2>2, PackedPair DEF IsPair, lead, classical
  <2>4. "by" \notin DOMAIN k.public
    BY <2>3, PairShape
  <2>5. k.alg \notin Single
    BY <1>4, AlgorithmNames
  <2>. QED
    BY <1>1, <1>4, <2>1, <2>2, <2>3, <2>4, <2>5, PackedPair DEF Shaped, i
<1>. QED
  BY <1>3, <1>4 DEF KeyOk

LEMMA CiphertextShape ==
  ASSUME NEW alg, NEW p, NEW c, NEW s, NEW n, Encapsulated(alg, p, c, s, n)
  PROVE  /\ Shaped(c) /\ lead(c) = n /\ ~multiple(classical(c))
         /\ "by" \notin DOMAIN c
         /\ packed(c) => "by" \notin DOMAIN c.first /\ "by" \notin DOMAIN c.second
<1>1. \A x, u, t : XEncapsulated(x, u, t, n) =>
        IsPart(u) /\ ~packed(u) /\ u.id = n /\ ~multiple(u) /\ "by" \notin DOMAIN u
  BY AlgorithmNames DEF XEncapsulated, raw, IsPart, Single, packed, multiple
<1>2. \A x, u, t : \A a \in OqsKem : KemEncapsulated(a, x, u, t, n) =>
        IsPart(u) /\ ~packed(u) /\ u.id = n /\ ~multiple(u) /\ "by" \notin DOMAIN u
  BY DEF KemEncapsulated, IsPart, Single, packed, multiple
<1>3. CASE alg = "x25519" \/ alg \in OqsKem
  BY <1>1, <1>2, <1>3, AlgorithmNames DEF Encapsulated, Shaped, lead, classical
<1>4. CASE alg = HybridKem
  <2>1. PICK u, v, t1, t2 : /\ XEncapsulated(p.first, u, t1, n)
                            /\ KemEncapsulated("ml_kem_768", p.second, v, t2, n)
                            /\ c = pack2("QHKC", u, v)
    BY <1>4, AlgorithmNames DEF Encapsulated
  <2>2. /\ IsPart(u) /\ u.id = n /\ ~multiple(u) /\ "by" \notin DOMAIN u
        /\ IsPart(v) /\ "by" \notin DOMAIN v
    BY <1>1, <1>2, <2>1, AlgorithmNames
  <2>. QED
    BY <2>1, <2>2, PackedPair DEF IsPair, Shaped, lead, classical
<1>. QED
  BY <1>3, <1>4 DEF Encapsulated

SignatureForm(alg, i, m, g) ==
  /\ Shaped(g) /\ lead(g) = 1
  /\ packed(g) <=> alg = HybridSign
  /\ alg # HybridSign => g.by = raw(alg, "public", i) /\ g.message = m
  /\ alg = HybridSign => /\ g.first.by = raw("ed25519", "public", i)
                         /\ g.second.by = raw("ml_dsa_65", "public", i)
                         /\ g.first.message = m /\ g.second.message = m
                         /\ g = pack2("QHSG", g.first, g.second)

LEMMA SignatureShape ==
  ASSUME NEW alg \in Single \cup {HybridSign}, NEW i, NEW m
  PROVE  SignatureForm(alg, i, m, made_signature(alg, i, m))
<1>. DEFINE g == made_signature(alg, i, m)
<1>1. CASE alg # HybridSign
  <2>1. g = half_signature(alg, i, m)
    BY <1>1 DEF made_signature
  <2>2. IsPart(g) /\ g.id = 1 /\ g.by = raw(alg, "public", i) /\ g.message = m
    BY <1>1, <2>1, HalfSignature
  <2>. QED
    BY <1>1, <2>2, PartShape DEF Shaped, lead, SignatureForm
<1>2. CASE alg = HybridSign
  <2>. DEFINE x == half_signature("ed25519", i, m)
              y == half_signature("ml_dsa_65", i, m)
  <2>1. g = pack2("QHSG", x, y)
    BY <1>2 DEF made_signature
  <2>2. /\ IsPart(x) /\ x.id = 1 /\ x.by = raw("ed25519", "public", i) /\ x.message = m
        /\ IsPart(y) /\ y.by = raw("ml_dsa_65", "public", i) /\ y.message = m
    BY HalfSignature, AlgorithmNames DEF Single
  <2>. HIDE DEF x, y, g
  <2>3. IsPair(g) /\ packed(g) /\ g.first = x /\ g.second = y
    BY <2>1, <2>2, PackedPair DEF IsPair
  <2>. QED
    BY <1>2, <2>1, <2>2, <2>3 DEF Shaped, lead, g, SignatureForm
<1>. QED
  BY <1>1, <1>2

\* What is on its way is of known shape, and what bears a signer's name was signed.
LEMMA OnItsWay ==
  ASSUME ExchangeInv
  PROVE  \A b \in on_its_way :
           /\ Shaped(b) /\ lead(b) \in 0..fresh
           /\ ~packed(b) /\ "by" \in DOMAIN b =>
                \E s \in signed : b = s.signature /\ s.key.alg \in Single
           /\ packed(b) /\ ("by" \in DOMAIN b.first \/ "by" \in DOMAIN b.second) =>
                \E s \in signed : b = s.signature /\ s.key.alg = HybridSign
<1>1. ASSUME NEW k \in keys
      PROVE  /\ Shaped(k.public) /\ lead(k.public) \in 0..fresh /\ "by" \notin DOMAIN k.public
             /\ packed(k.public) => /\ "by" \notin DOMAIN k.public.first
                                    /\ "by" \notin DOMAIN k.public.second
  BY PublicShape DEF ExchangeInv, KeysMade
<1>2. ASSUME NEW e \in sent
      PROVE  /\ Shaped(e.ciphertext) /\ lead(e.ciphertext) \in 0..fresh
             /\ "by" \notin DOMAIN e.ciphertext
             /\ packed(e.ciphertext) => /\ "by" \notin DOMAIN e.ciphertext.first
                                        /\ "by" \notin DOMAIN e.ciphertext.second
  <2>1. PICK n \in 1..fresh : Encapsulated(e.alg, e.public, e.ciphertext, e.secret, n)
    BY DEF ExchangeInv, SentMade
  <2>2. n \in 0..fresh
    BY DEF ExchangeInv
  <2>. QED
    BY <2>1, <2>2, CiphertextShape
<1>3. ASSUME NEW s \in signed
      PROVE  /\ Shaped(s.signature) /\ lead(s.signature) \in 0..fresh
             /\ packed(s.signature) <=> s.key.alg = HybridSign
             /\ s.key.alg \in Single \cup {HybridSign}
  <2>1. /\ s.key \in sign_keys
        /\ s.signature = made_signature(s.key.alg, number(s.key), s.message)
    BY DEF ExchangeInv, SignedMade
  <2>2. s.key.alg \in Single \cup {HybridSign}
    BY <2>1, AlgorithmNames DEF sign_keys, ExchangeInv, KeysMade, KeyOk
  <2>3. 1 \in 0..fresh
    <3>1. number(s.key) \in 1..fresh /\ fresh \in Nat
      BY <2>1 DEF sign_keys, ExchangeInv, KeysMade
    <3>. QED
      BY <3>1
  <2>4. PICK alg, i, m : /\ alg \in Single \cup {HybridSign} /\ alg = s.key.alg
                         /\ s.signature = made_signature(alg, i, m)
    BY <2>1, <2>2
  <2>. DEFINE g == made_signature(alg, i, m)
  <2>5. /\ Shaped(g) /\ lead(g) = 1
        /\ packed(g) <=> alg = HybridSign
    <3>1. SignatureForm(alg, i, m, g)
      BY <2>4, SignatureShape
    <3>. HIDE DEF g
    <3>. QED
      BY <3>1 DEF SignatureForm
  <2>. HIDE DEF g
  <2>6. s.signature = g
    BY <2>4 DEF g
  <2>. QED
    BY <2>2, <2>3, <2>4, <2>5, <2>6
<1>4. \A b \in on_its_way : \/ \E k \in keys : b = k.public
                            \/ \E e \in sent : b = e.ciphertext
                            \/ \E s \in signed : b = s.signature
  BY DEF on_its_way
<1>. QED
  BY <1>1, <1>2, <1>3, <1>4, AlgorithmNames

\* So is what arrives; each part of it is on its way, or altered.
LEMMA Delivered ==
  ASSUME ExchangeInv, NEW b \in delivered
  PROVE  /\ Shaped(b) /\ lead(b) \in 0..fresh
         /\ ~packed(b) => b.form # "made" \/ b \in on_its_way
         /\ packed(b) => \E x, y \in pairs : /\ b.magic = x.magic
                                             /\ b.first.form # "made" \/ b.first = x.first
                                             /\ b.second.form # "made" \/ b.second = y.second
<1>1. \A x \in on_its_way : Shaped(x) /\ lead(x) \in 0..fresh
  BY OnItsWay
<1>2. \A x \in pairs : IsPair(x) /\ x \in on_its_way /\ packed(x) /\ lead(x) = x.first.id
  BY <1>1, PartShape DEF pairs, Shaped, lead
<1>3. \A x \in pairs : \A p : IsPart(p) =>
        /\ [x EXCEPT !.first = p] = pack2(x.magic, p, x.second)
        /\ [x EXCEPT !.second = p] = pack2(x.magic, x.first, p)
  BY <1>2 DEF IsPair, pack2
<1>4. \A m, p, q : IsPart(p) /\ IsPart(q) =>
        LET x == pack2(m, p, q)
        IN /\ IsPair(x) /\ Shaped(x) /\ packed(x) /\ lead(x) = p.id
           /\ x.magic = m /\ x.first = p /\ x.second = q
  BY PackedPair DEF IsPair, Shaped, lead
<1>5. CASE b \in on_its_way
  BY <1>1, <1>5 DEF pairs
<1>6. ASSUME NEW x \in on_its_way \ pairs, b \in alterations(x)
      PROVE  Shaped(b) /\ lead(b) \in 0..fresh /\ ~packed(b) /\ b.form # "made"
  <2>1. IsPart(x) /\ ~packed(x) /\ x.id \in 0..fresh
    BY <1>1, PairShape, PartShape DEF Shaped, pairs, lead
  <2>. QED
    BY <1>6, <2>1, AlteredShape, PartShape DEF Shaped, lead
<1>7. ASSUME NEW x \in pairs, NEW y \in pairs, b = [x EXCEPT !.second = y.second]
      PROVE  /\ Shaped(b) /\ lead(b) \in 0..fresh /\ packed(b)
             /\ b.magic = x.magic /\ b.first = x.first /\ b.second = y.second
  <2>1. IsPart(x.first) /\ IsPart(y.second)
    BY <1>2 DEF IsPair
  <2>2. b = pack2(x.magic, x.first, y.second)
    BY <1>3, <1>7, <2>1
  <2>. QED
    BY <1>1, <1>2, <1>4, <2>1, <2>2
<1>8. ASSUME NEW x \in pairs, NEW p \in alterations(x.first), b = [x EXCEPT !.first = p]
      PROVE  /\ Shaped(b) /\ lead(b) \in 0..fresh /\ packed(b)
             /\ b.magic = x.magic /\ b.first.form # "made" /\ b.second = x.second
  <2>1. IsPart(p) /\ p.id = x.first.id /\ p.form # "made" /\ IsPart(x.second)
    BY <1>2, AlteredShape DEF IsPair
  <2>2. b = pack2(x.magic, p, x.second)
    BY <1>3, <1>8, <2>1
  <2>. QED
    BY <1>1, <1>2, <1>4, <2>1, <2>2
<1>9. ASSUME NEW x \in pairs, NEW p \in alterations(x.second), b = [x EXCEPT !.second = p]
      PROVE  /\ Shaped(b) /\ lead(b) \in 0..fresh /\ packed(b)
             /\ b.magic = x.magic /\ b.first = x.first /\ b.second.form # "made"
  <2>1. IsPart(p) /\ p.form # "made" /\ IsPart(x.first)
    BY <1>2, AlteredShape DEF IsPair
  <2>2. b = pack2(x.magic, x.first, p)
    BY <1>3, <1>9, <2>1
  <2>. QED
    BY <1>1, <1>2, <1>4, <2>1, <2>2
<1>10. CASE \E x \in on_its_way \ pairs : b \in alterations(x)
  BY <1>6, <1>10
<1>11. CASE \E x, y \in pairs : b = [x EXCEPT !.second = y.second]
  BY <1>7, <1>11
<1>12. CASE \E x \in pairs : \E p \in alterations(x.first) : b = [x EXCEPT !.first = p]
  BY <1>8, <1>12
<1>13. CASE \E x \in pairs : \E p \in alterations(x.second) : b = [x EXCEPT !.second = p]
  BY <1>9, <1>13
<1>. QED
  BY <1>5, <1>10, <1>11, <1>12, <1>13 DEF delivered

\* A signature that a key of the owner's accepts is one that this key made.
LEMMA AcceptedWasSigned ==
  ASSUME ExchangeInv, NEW k \in sign_keys, NEW m, NEW g \in delivered,
         Accepted(k.alg, k.public, m, g)
  PROVE  [key |-> k, message |-> m, signature |-> g] \in signed
<1>1. \A s \in signed :
        /\ s.key \in keys
        /\ s = [key |-> s.key, message |-> s.message, signature |-> s.signature]
        /\ s.signature = made_signature(s.key.alg, number(s.key), s.message)
  <2>. SUFFICES ASSUME NEW s \in signed
                PROVE  /\ s.key \in keys
                       /\ s = [key |-> s.key, message |-> s.message, signature |-> s.signature]
                       /\ s.signature = made_signature(s.key.alg, number(s.key), s.message)
    OBVIOUS
  <2>1. /\ s.key \in keys
        /\ s = [key |-> s.key, message |-> s.message,
                signature |-> made_signature(s.key.alg, number(s.key), s.message)]
    BY DEF ExchangeInv, SignedMade, sign_keys
  <2>2. s.signature = made_signature(s.key.alg, number(s.key), s.message)
    BY <2>1
  <2>. QED
    BY <2>1, <2>2
<1>2. \A l \in keys : KeyOk(l) /\ (number(l) = number(k) => l = k)
  BY DEF ExchangeInv, KeysMade, sign_keys
<1>3. k \in keys /\ KeyOk(k)
  BY <1>2 DEF sign_keys
<1>4. \A a, c, i, j : raw(a, "public", i) = raw(c, "public", j) => i = j
  BY DEF raw
<1>5. CASE k.alg \in OqsSig \cup {"ed25519"}
  <2>1. k.alg \in Single /\ k.public = raw(k.alg, "public", number(k))
    BY <1>3, <1>5, PublicShape DEF Single
  <2>2. "by" \in DOMAIN g /\ g.form = "made" /\ g.by = k.public /\ g.message = m
    BY <1>5, AlgorithmNames DEF Accepted, signed_by
  <2>3. ~packed(g)
    BY <2>2, Delivered, PairShape, PartShape DEF Shaped
  <2>4. PICK s \in signed : g = s.signature /\ s.key.alg \in Single
    BY <2>2, <2>3, Delivered, OnItsWay
  <2>5. g.by = raw(s.key.alg, "public", number(s.key)) /\ g.message = s.message
    BY <1>1, <2>4, SignatureShape, AlgorithmNames DEF SignatureForm
  <2>6. s.key = k
    BY <1>1, <1>2, <1>4, <2>1, <2>2, <2>5
  <2>. QED
    BY <1>1, <2>2, <2>4, <2>5, <2>6
<1>6. CASE k.alg = HybridSign
  <2>1. /\ k.public.first = raw("ed25519", "public", number(k))
        /\ k.public.second = raw("ml_dsa_65", "public", number(k))
    BY <1>3, <1>6, PublicShape
  <2>2. /\ packed(g) /\ g.magic = "QHSG"
        /\ "by" \in DOMAIN g.first /\ g.first.form = "made"
        /\ g.first.by = k.public.first /\ g.first.message = m
        /\ "by" \in DOMAIN g.second /\ g.second.form = "made"
        /\ g.second.by = k.public.second /\ g.second.message = m
    BY <1>6, AlgorithmNames DEF Accepted, signed_by
  <2>3. PICK x, y \in pairs : g.first = x.first /\ g.second = y.second
    BY <2>2, Delivered
  <2>4. x \in on_its_way /\ packed(x) /\ y \in on_its_way /\ packed(y)
    BY DEF pairs
  <2>5. PICK s \in signed : x = s.signature /\ s.key.alg = HybridSign
    BY <2>2, <2>3, <2>4, OnItsWay
  <2>6. PICK z \in signed : y = z.signature /\ z.key.alg = HybridSign
    BY <2>2, <2>3, <2>4, OnItsWay
  <2>7. /\ x.first.by = raw("ed25519", "public", number(s.key)) /\ x.first.message = s.message
        /\ x = pack2("QHSG", x.first, x.second)
    BY <1>1, <2>5, SignatureShape DEF SignatureForm
  <2>8. y.second.by = raw("ml_dsa_65", "public", number(z.key)) /\ y.second.message = z.message
    BY <1>1, <2>6, SignatureShape DEF SignatureForm
  <2>9. s.key = k /\ s.message = m
    BY <1>1, <1>2, <1>4, <2>1, <2>2, <2>3, <2>7
  <2>10. z.key = k /\ z.message = m
    BY <1>1, <1>2, <1>4, <2>1, <2>2, <2>3, <2>8
  <2>11. x = y
    BY <1>1, <2>5, <2>6, <2>9, <2>10
  <2>12. IsPair(g)
    BY <2>2, Delivered, PartShape DEF Shaped
  <2>13. g = x
    BY <2>2, <2>3, <2>7, <2>11, <2>12 DEF IsPair
  <2>. QED
    BY <1>1, <2>5, <2>9, <2>13
<1>. QED
  BY <1>5, <1>6 DEF Accepted

-----------------------------------------------------------------------------
\* The steps.
LEMMA GenerateStep == ExchangeInv /\ generate => ExchangeInv'
<1>. SUFFICES ASSUME ExchangeInv, generate PROVE ExchangeInv'
  OBVIOUS
<1>. DEFINE n == fresh + 1
<1>1. PICK alg \in Algorithm :
        \E r \in from_api("owner", alg, IF alg \in Kem THEN HybridKem ELSE HybridSign,
                          generate_keypair(build["owner"], alg, fresh + 1)) :
          r.ok /\ keys' = keys \cup {r.value}
  BY DEF generate
<1>2. alg \in Kem \cup Sign
  BY ExchangeAssumption
<1>3. keys' = keys \cup {made(alg, n)} /\ alg \in Single \cup Hybrid
  BY <1>1, <1>2, FromApi, Generated
<1>4. fresh \in Nat /\ fresh' = n /\ UNCHANGED <<sent, received, signed, verified>>
  BY DEF generate, ExchangeInv
<1>5. n \in Nat /\ n \notin 0..fresh /\ \A i \in 1..fresh : i \in 1..n /\ i # n
  BY <1>4
<1>. DEFINE new == made(alg, n)
<1>6. KeyOk(new) /\ number(new) = n /\ new.alg = alg /\ lead(new.public) = n
  BY <1>3, MadeIsOk, PublicShape
<1>. HIDE DEF new, n
<1>7. /\ \A k \in keys : KeyOk(k) /\ number(k) \in 1..fresh
      /\ \A k, l \in keys : number(k) = number(l) => k = l
  BY DEF ExchangeInv, KeysMade
<1>8. keys' = keys \cup {new} /\ n \in 1..n
  BY <1>3, <1>4, <1>5 DEF new, n
<1>9. KeysMade'
  <2>1. \A k \in keys' : KeyOk(k) /\ number(k) \in 1..n
    BY <1>5, <1>6, <1>7, <1>8
  <2>2. \A k, l \in keys' : number(k) = number(l) => k = l
    BY <1>5, <1>6, <1>7, <1>8
  <2>. QED
    BY <1>4, <2>1, <2>2 DEF KeysMade
<1>10. SentMade'
  BY <1>4, <1>5, <1>6, <1>8 DEF ExchangeInv, SentMade
<1>11. SignedMade' /\ ReceivedMade'
  BY <1>4, <1>8 DEF ExchangeInv, SignedMade, ReceivedMade, sign_keys
<1>12. VerifiedOld'
  BY <1>4, <1>5 DEF ExchangeInv, VerifiedOld, n
<1>13. AcceptedIsSigned'
  BY <1>4, <1>5, <1>6, <1>8 DEF ExchangeInv, AcceptedIsSigned, VerifiedOld, sign_keys
<1>. QED
  BY <1>4, <1>5, <1>9, <1>10, <1>11, <1>12, <1>13 DEF ExchangeInv

LEMMA EncapsulateStep == ExchangeInv /\ encapsulate_to_owner => ExchangeInv'
<1>. SUFFICES ASSUME ExchangeInv, encapsulate_to_owner PROVE ExchangeInv'
  OBVIOUS
<1>. DEFINE n == fresh + 1
<1>1. PICK k \in kem_keys, public \in delivered :
        \E r \in from_api("peer", k.alg, HybridKem, encapsulate(build["peer"], k.alg, public, n)) :
          /\ r.ok
          /\ sent' = sent \cup {[alg |-> k.alg, public |-> public,
                                 ciphertext |-> r.value.ciphertext, secret |-> r.value.secret]}
          /\ fresh' = n
          /\ UNCHANGED <<build, keys, received, signed, verified>>
  BY DEF encapsulate_to_owner
<1>. DEFINE r == encapsulate(build["peer"], k.alg, public, n)
            e == [alg |-> k.alg, public |-> public, ciphertext |-> r.value.ciphertext,
                  secret |-> r.value.secret]
<1>2. r.ok /\ sent' = sent \cup {e} /\ fresh' = n /\ UNCHANGED <<keys, received, signed, verified>>
  BY <1>1, FromApi
<1>3. /\ fresh \in Nat /\ n \in Nat /\ n \in 1..n /\ n \notin 1..fresh
      /\ \A i \in 1..fresh : i \in 1..n
      /\ \A i \in 0..fresh : i \in 0..n
  BY DEF ExchangeInv
<1>4. Encapsulated(e.alg, e.public, e.ciphertext, e.secret, n)
  BY <1>2, Encapsulates, Delivered DEF kem_keys
<1>. HIDE DEF n, r, e
<1>5. KeysMade' /\ VerifiedOld'
  BY <1>2, <1>3 DEF ExchangeInv, KeysMade, VerifiedOld
<1>6. SentMade'
  <2>1. \A l \in keys : number(l) # n
    BY <1>3 DEF ExchangeInv, KeysMade
  <2>. QED
    BY <1>2, <1>3, <1>4, <2>1 DEF ExchangeInv, SentMade
<1>7. SignedMade' /\ ReceivedMade' /\ AcceptedIsSigned'
  BY <1>2 DEF ExchangeInv, SignedMade, ReceivedMade, AcceptedIsSigned, sign_keys
<1>. QED
  BY <1>2, <1>3, <1>5, <1>6, <1>7 DEF ExchangeInv

LEMMA DecapsulateStep == ExchangeInv /\ decapsulate_from_peer => ExchangeInv'
<1>. SUFFICES ASSUME ExchangeInv, decapsulate_from_peer PROVE ExchangeInv'
  OBVIOUS
<1>1. PICK k \in kem_keys, c \in delivered :
        \E r \in from_api("owner", k.alg, HybridKem, decapsulate(build["owner"], k.alg, k.secret, c)) :
          /\ r.ok
          /\ received' = [key |-> k, ciphertext |-> c, secret |-> r.value]
          /\ UNCHANGED <<build, keys, sent, signed, verified, fresh>>
  BY DEF decapsulate_from_peer
<1>. DEFINE r == decapsulate(build["owner"], k.alg, k.secret, c)
<1>2. /\ r.ok /\ received' = [key |-> k, ciphertext |-> c, secret |-> r.value]
      /\ UNCHANGED <<keys, sent, signed, verified, fresh>>
  BY <1>1, FromApi
<1>3. KeyOk(k) /\ k \in keys /\ k.alg \in Kem
  BY DEF kem_keys, ExchangeInv, KeysMade
<1>4. Decapsulated(k.alg, number(k), c, r.value)
  BY <1>2, <1>3, Decapsulates, Delivered
<1>. HIDE DEF r
<1>5. ReceivedMade'
  <2>1. received'.key = k /\ received'.ciphertext = c /\ received'.secret = r.value
    BY <1>2
  <2>. QED
    BY <1>2, <1>3, <1>4, <2>1 DEF ReceivedMade
<1>6. KeysMade' /\ VerifiedOld' /\ SentMade' /\ SignedMade' /\ AcceptedIsSigned' /\ fresh' = fresh
  BY <1>2 DEF ExchangeInv, KeysMade, VerifiedOld, SentMade, SignedMade, AcceptedIsSigned, sign_keys
<1>. QED
  BY <1>5, <1>6 DEF ExchangeInv

LEMMA SignStep == ExchangeInv /\ sign_as_owner => ExchangeInv'
<1>. SUFFICES ASSUME ExchangeInv, sign_as_owner PROVE ExchangeInv'
  OBVIOUS
<1>1. PICK k \in sign_keys, m \in Message :
        \E r \in from_api("owner", k.alg, HybridSign, sign(build["owner"], k.alg, k.secret, m)) :
          /\ r.ok
          /\ signed' = signed \cup {[key |-> k, message |-> m, signature |-> r.value]}
          /\ fresh' = fresh + 1
          /\ UNCHANGED <<build, keys, sent, received, verified>>
  BY DEF sign_as_owner
<1>. DEFINE r == sign(build["owner"], k.alg, k.secret, m)
            s == [key |-> k, message |-> m, signature |-> r.value]
<1>2. /\ r.ok /\ signed' = signed \cup {s} /\ fresh' = fresh + 1
      /\ UNCHANGED <<keys, sent, received, verified>>
  BY <1>1, FromApi
<1>3. KeyOk(k) /\ k.alg \in Sign
  BY DEF sign_keys, ExchangeInv, KeysMade
<1>4. r.value = made_signature(k.alg, number(k), m)
  BY <1>2, <1>3, Signs
<1>. HIDE DEF r
<1>5. /\ s.key \in sign_keys
      /\ s = [key |-> s.key, message |-> s.message,
              signature |-> made_signature(s.key.alg, number(s.key), s.message)]
  BY <1>4
<1>. HIDE DEF s
<1>6. /\ fresh \in Nat
      /\ \A i \in 1..fresh : i \in 1..(fresh + 1)
      /\ \A i \in 0..fresh : i \in 0..(fresh + 1)
  BY DEF ExchangeInv
<1>7. KeysMade' /\ VerifiedOld' /\ SentMade' /\ ReceivedMade' /\ AcceptedIsSigned'
  BY <1>2, <1>6
  DEF ExchangeInv, KeysMade, VerifiedOld, SentMade, ReceivedMade, AcceptedIsSigned, sign_keys
<1>8. SignedMade'
  BY <1>2, <1>5 DEF ExchangeInv, SignedMade, sign_keys
<1>. QED
  BY <1>2, <1>6, <1>7, <1>8 DEF ExchangeInv

LEMMA VerifyStep == ExchangeInv /\ verify_as_peer => ExchangeInv'
<1>. SUFFICES ASSUME ExchangeInv, verify_as_peer PROVE ExchangeInv'
  OBVIOUS
<1>1. PICK k \in sign_keys, public \in delivered, m \in Message, s \in signed, g \in delivered :
        \E r \in from_api("peer", k.alg, HybridSign,
                          verify(build["peer"], k.alg, public, m, s.key.alg, g)) :
          /\ r.ok /\ r.value
          /\ verified' = [alg |-> k.alg, public |-> public, message |-> m, signature |-> g]
          /\ UNCHANGED <<build, keys, sent, received, signed, fresh>>
  BY DEF verify_as_peer
<1>. DEFINE r == verify(build["peer"], k.alg, public, m, s.key.alg, g)
<1>2. /\ r.ok /\ r.value
      /\ verified' = [alg |-> k.alg, public |-> public, message |-> m, signature |-> g]
      /\ UNCHANGED <<keys, sent, received, signed, fresh>>
  BY <1>1, FromApi
<1>3. Accepted(k.alg, public, m, g)
  BY <1>2, Verifies DEF sign_keys
<1>. HIDE DEF r
<1>4. /\ verified'.alg = k.alg /\ verified'.public = public /\ verified'.message = m
      /\ verified'.signature = g
  BY <1>2
<1>5. VerifiedOld'
  BY <1>2, <1>4, Delivered DEF VerifiedOld
<1>6. AcceptedIsSigned'
  BY <1>2, <1>3, <1>4, AcceptedWasSigned DEF AcceptedIsSigned, sign_keys
<1>7. KeysMade' /\ SentMade' /\ SignedMade' /\ ReceivedMade' /\ fresh' = fresh
  BY <1>2 DEF ExchangeInv, KeysMade, SentMade, SignedMade, ReceivedMade, sign_keys
<1>. QED
  BY <1>5, <1>6, <1>7 DEF ExchangeInv

LEMMA ExchangeHolds == ExchangeSpec => []ExchangeInv
<1>1. ExchangeInit => ExchangeInv
  BY DEF ExchangeInit, ExchangeInv, KeysMade, SentMade, SignedMade, ReceivedMade,
         AcceptedIsSigned, VerifiedOld
<1>2. ExchangeInv /\ UNCHANGED vars => ExchangeInv'
  BY DEF vars, ExchangeInv, KeysMade, SentMade, SignedMade, ReceivedMade, AcceptedIsSigned,
         VerifiedOld, sign_keys
<1>3. ExchangeInv /\ [ExchangeNext]_vars => ExchangeInv'
  BY <1>2, GenerateStep, EncapsulateStep, DecapsulateStep, SignStep, VerifyStep DEF ExchangeNext
<1>. QED
  BY <1>1, <1>3, PTL DEF ExchangeSpec


-----------------------------------------------------------------------------
\* What a build can do, and what every function says of what it cannot.
available(b, alg) ==
  \/ alg \in {"x25519", "ed25519"} /\ b.openssl
  \/ alg \in OqsKem \cup OqsSig /\ oqs_available(b, alg)
  \/ alg = HybridKem /\ b.openssl /\ oqs_available(b, "ml_kem_768")
  \/ alg = HybridSign /\ b.openssl /\ oqs_available(b, "ml_dsa_65")

Unsupported == Fail("unsupported_algorithm")

LEMMA Results ==
  /\ \A v : Ok(v).ok /\ Ok(v).value = v
  /\ ~Unsupported.ok
BY DEF Ok, Fail, Unsupported

LEMMA Generates ==
  ASSUME NEW b, NEW alg \in Kem \cup Sign, NEW n
  PROVE  generate_keypair(b, alg, n) =
           IF available(b, alg) THEN Ok(made(alg, n)) ELSE Unsupported
<1>1. CASE alg \in OqsKem \cup OqsSig
  <2>1. generate_keypair(b, alg, n) = pq_generate(b, alg, n)
    BY <1>1 DEF generate_keypair, generate_kem_keypair, generate_sign_keypair,
                Kem, OqsKem, OqsSig, HybridKem, HybridSign
  <2>2. available(b, alg) <=> oqs_available(b, alg)
    BY <1>1 DEF available, OqsKem, OqsSig, HybridKem, HybridSign
  <2>3. made(alg, n) = raw_keypair(alg, n)
    BY <1>1, AlgorithmNames DEF made
  <2>. QED
    BY <2>1, <2>2, <2>3 DEF pq_generate, Unsupported
<1>2. CASE alg \in {"x25519", "ed25519"}
  <2>1. generate_keypair(b, alg, n) = openssl_keypair(b, alg, n)
    BY <1>2 DEF generate_keypair, generate_kem_keypair, generate_sign_keypair,
                Kem, OqsKem, OqsSig, HybridKem, HybridSign
  <2>2. available(b, alg) <=> b.openssl
    BY <1>2 DEF available, OqsKem, OqsSig, HybridKem, HybridSign
  <2>3. made(alg, n) = raw_keypair(alg, n)
    BY <1>2, AlgorithmNames DEF made
  <2>. QED
    BY <2>1, <2>2, <2>3 DEF openssl_keypair, Unsupported
<1>3. CASE alg = HybridKem
  <2>1. generate_keypair(b, alg, n) = make_hybrid_kem_keypair(b, n)
    BY <1>3, AlgorithmNames DEF generate_keypair, generate_kem_keypair
  <2>2. available(b, alg) <=> b.openssl /\ oqs_available(b, "ml_kem_768")
    BY <1>3 DEF available, OqsKem, OqsSig, HybridKem, HybridSign
  <2>3. made(alg, n) = keypair(alg,
          pack2("QHKP", raw("x25519", "public", n), raw("ml_kem_768", "public", n)),
          pack2("QHKS", raw("x25519", "secret", n), raw("ml_kem_768", "secret", n)))
    BY <1>3 DEF made
  <2>. QED
    BY <1>3, <2>1, <2>2, <2>3
    DEF make_hybrid_kem_keypair, make_hybrid, pq_generate, raw_keypair, keypair, Ok, Fail,
        Unsupported
<1>4. CASE alg = HybridSign
  <2>1. generate_keypair(b, alg, n) = make_hybrid_sign_keypair(b, n)
    BY <1>4, AlgorithmNames DEF generate_keypair, generate_sign_keypair
  <2>2. available(b, alg) <=> b.openssl /\ oqs_available(b, "ml_dsa_65")
    BY <1>4 DEF available, OqsKem, OqsSig, HybridKem, HybridSign
  <2>3. made(alg, n) = keypair(alg,
          pack2("QHSP", raw("ed25519", "public", n), raw("ml_dsa_65", "public", n)),
          pack2("QHSS", raw("ed25519", "secret", n), raw("ml_dsa_65", "secret", n)))
    BY <1>4, AlgorithmNames DEF made
  <2>. QED
    BY <1>4, <2>1, <2>2, <2>3
    DEF make_hybrid_sign_keypair, make_hybrid, pq_generate, raw_keypair, keypair, Ok, Fail,
        Unsupported
<1>5. CASE alg = "secp256k1"
  <2>1. alg \notin Kem /\ alg \notin OqsSig \cup {"ed25519", HybridSign}
    BY <1>5 DEF Kem, OqsKem, OqsSig, HybridKem, HybridSign
  <2>2. generate_keypair(b, alg, n) = generate_sign_keypair(b, alg, n)
    BY <2>1 DEF generate_keypair
  <2>3. generate_sign_keypair(b, "secp256k1", n) = Unsupported
    BY <1>5, <2>1 DEF generate_sign_keypair, Unsupported
  <2>4. ~available(b, alg)
    BY <1>5 DEF available, OqsKem, OqsSig, HybridKem, HybridSign
  <2>. QED
    BY <1>5, <2>2, <2>3, <2>4
<1>. QED
  BY <1>1, <1>2, <1>3, <1>4, <1>5 DEF Kem, Sign

LEMMA SizeOfRaw ==
  ASSUME NEW alg \in Single, NEW what \in {"public", "secret", "output"}, NEW n
  PROVE  size(raw(alg, what, n)) = Size[alg][what]
BY DEF size, packed, raw, raw_size

LEMMA KemFunctions ==
  ASSUME NEW b, NEW alg \in OqsKem, NEW i, NEW n, NEW c, NEW s,
         KemEncapsulated(alg, raw(alg, "public", i), c, s, n)
  PROVE  /\ oqs_available(b, alg) => /\ kem_encapsulate(b, alg, raw(alg, "public", i), n).ok
                                     /\ kem_decapsulate(b, alg, raw(alg, "secret", i), c).ok
         /\ ~oqs_available(b, alg) =>
              /\ kem_encapsulate(b, alg, raw(alg, "public", i), n) = Unsupported
              /\ kem_decapsulate(b, alg, raw(alg, "secret", i), c) = Unsupported
<1>1. alg \in Single
  BY DEF Single
<1>2. /\ size(raw(alg, "public", i)) = Size[alg].public
      /\ size(raw(alg, "secret", i)) = Size[alg].secret
  BY <1>1, SizeOfRaw
<1>3. size(c) = Size[alg].output
  BY DEF KemEncapsulated, size, packed, raw_size
<1>. QED
  BY <1>2, <1>3 DEF kem_encapsulate, kem_decapsulate, Ok, Unsupported

LEMMA XFunctions ==
  ASSUME NEW b, NEW i, NEW n, NEW c, NEW s, XEncapsulated(raw("x25519", "public", i), c, s, n)
  PROVE  /\ b.openssl => /\ x25519_encapsulate(b, raw("x25519", "public", i), n).ok
                         /\ x25519_decapsulate(b, raw("x25519", "secret", i), c).ok
         /\ ~b.openssl =>
              /\ x25519_encapsulate(b, raw("x25519", "public", i), n) = Unsupported
              /\ x25519_decapsulate(b, raw("x25519", "secret", i), c) = Unsupported
<1>1. "x25519" \in Single
  BY DEF Single
<1>2. /\ size(raw("x25519", "public", i)) = 32 /\ size(raw("x25519", "secret", i)) = 32
      /\ size(c) = 32
  BY <1>1, SizeOfRaw, Sizes DEF XEncapsulated
<1>3. raw("x25519", "public", i).form # "low_order" /\ c.form # "low_order"
  BY DEF raw, XEncapsulated
<1>4. ~b.openssl =>
        /\ x25519_encapsulate(b, raw("x25519", "public", i), n) = Unsupported
        /\ x25519_decapsulate(b, raw("x25519", "secret", i), c) = Unsupported
  BY <1>2 DEF x25519_encapsulate, x25519_decapsulate, Unsupported
<1>5. \A x : /\ derive_x25519(x, raw("x25519", "public", i)).ok
             /\ derive_x25519(x, c).ok
  BY <1>3 DEF derive_x25519, Ok
<1>. QED
  BY <1>2, <1>4, <1>5 DEF x25519_encapsulate, x25519_decapsulate, Ok

LEMMA MadeKeys ==
  ASSUME NEW n
  PROVE  /\ \A alg \in Single : /\ made(alg, n).public = raw(alg, "public", n)
                                /\ made(alg, n).secret = raw(alg, "secret", n)
         /\ made(HybridKem, n).public =
              pack2("QHKP", raw("x25519", "public", n), raw("ml_kem_768", "public", n))
         /\ made(HybridKem, n).secret =
              pack2("QHKS", raw("x25519", "secret", n), raw("ml_kem_768", "secret", n))
         /\ made(HybridSign, n).public =
              pack2("QHSP", raw("ed25519", "public", n), raw("ml_dsa_65", "public", n))
         /\ made(HybridSign, n).secret =
              pack2("QHSS", raw("ed25519", "secret", n), raw("ml_dsa_65", "secret", n))
BY AlgorithmNames DEF made, keypair, raw_keypair

LEMMA Unpacked ==
  ASSUME NEW m, NEW x, NEW y
  PROVE  /\ unpack2(m, pack2(m, x, y)).ok
         /\ unpack2(m, pack2(m, x, y)).value[1] = x /\ unpack2(m, pack2(m, x, y)).value[2] = y
BY PackedPair DEF unpack2, Ok

LEMMA EncapsulationExists ==
  ASSUME NEW alg \in Kem, NEW n
  PROVE  \E c, s : Encapsulated(alg, made(alg, 1).public, c, s, n)
<1>1. \A a \in Single : IsPart(raw(a, "public", 1))
  BY DEF IsPart, raw
<1>2. XEncapsulated(raw("x25519", "public", 1), raw("x25519", "public", n),
                    [dh |-> {raw("x25519", "public", n), point(raw("x25519", "public", 1))},
                     multiple |-> multiple(raw("x25519", "public", 1))], n)
  <2>1. "x25519" \in Single /\ Size["x25519"].public = 32
    BY Sizes DEF Single
  <2>. QED
    BY <1>1, <2>1 DEF XEncapsulated, raw_size, raw
<1>3. \A a \in OqsKem :
        LET p == raw(a, "public", 1)
            c == [alg |-> a, what |-> "output", id |-> n, form |-> "made", to |-> p]
        IN KemEncapsulated(a, p, c, [from |-> c], n)
  BY <1>1, SizeOfRaw DEF KemEncapsulated, Single, Shaped
<1>4. CASE alg = "x25519"
  BY <1>2, <1>4, MadeKeys DEF Encapsulated, Single
<1>5. CASE alg \in OqsKem
  BY <1>3, <1>5, MadeKeys DEF Encapsulated, Single
<1>6. CASE alg = HybridKem
  <2>. DEFINE p == pack2("QHKP", raw("x25519", "public", 1), raw("ml_kem_768", "public", 1))
  <2>1. made(alg, 1).public = p
    BY <1>6, MadeKeys
  <2>2. IsPair(p) /\ p.magic = "QHKP" /\ p.first = raw("x25519", "public", 1)
        /\ p.second = raw("ml_kem_768", "public", 1)
    BY <1>1, PackedPair, AlgorithmNames DEF IsPair, Single
  <2>3. PICK d, t : KemEncapsulated("ml_kem_768", raw("ml_kem_768", "public", 1), d, t, n)
    BY <1>3, AlgorithmNames
  <2>. HIDE DEF p
  <2>. DEFINE u == raw("x25519", "public", n)
              q == [dh |-> {raw("x25519", "public", n), point(raw("x25519", "public", 1))},
                    multiple |-> multiple(raw("x25519", "public", 1))]
  <2>4. XEncapsulated(p.first, u, q, n) /\ KemEncapsulated("ml_kem_768", p.second, d, t, n)
    BY <1>2, <2>2, <2>3
  <2>. HIDE DEF u, q
  <2>5. Encapsulated(HybridKem, p, pack2("QHKC", u, d), [hkdf |-> <<q, t>>], n)
    BY <2>2, <2>4 DEF Encapsulated
  <2>. QED
    BY <1>6, <2>1, <2>5
<1>. QED
  BY <1>4, <1>5, <1>6, AlgorithmNames

LEMMA KemAnswers ==
  ASSUME NEW b, NEW alg \in Kem, NEW n, NEW c, NEW s,
         Encapsulated(alg, made(alg, 1).public, c, s, n)
  PROVE  /\ available(b, alg) => /\ encapsulate(b, alg, made(alg, 1).public, n).ok
                                 /\ decapsulate(b, alg, made(alg, 1).secret, c).ok
         /\ ~available(b, alg) =>
              /\ encapsulate(b, alg, made(alg, 1).public, n) = Unsupported
              /\ decapsulate(b, alg, made(alg, 1).secret, c) = Unsupported
<1>. DEFINE p == made(alg, 1).public
            k == made(alg, 1).secret
<1>1. CASE alg = "x25519"
  <2>1. /\ p = raw("x25519", "public", 1) /\ k = raw("x25519", "secret", 1)
        /\ XEncapsulated(p, c, s, n)
    BY <1>1, MadeKeys, AlgorithmNames DEF Encapsulated, Single
  <2>2. available(b, alg) <=> b.openssl
    BY <1>1 DEF available, OqsKem, OqsSig, HybridKem, HybridSign
  <2>3. /\ encapsulate(b, alg, p, n) = x25519_encapsulate(b, p, n)
        /\ decapsulate(b, alg, k, c) = x25519_decapsulate(b, k, c)
    BY <1>1, AlgorithmNames DEF encapsulate, decapsulate
  <2>. HIDE DEF p, k
  <2>. QED
    BY <2>1, <2>2, <2>3, XFunctions DEF p, k
<1>2. CASE alg \in OqsKem
  <2>1. /\ p = raw(alg, "public", 1) /\ k = raw(alg, "secret", 1)
        /\ KemEncapsulated(alg, p, c, s, n)
    BY <1>2, MadeKeys, AlgorithmNames DEF Encapsulated, Single
  <2>2. available(b, alg) <=> oqs_available(b, alg)
    BY <1>2 DEF available, OqsKem, OqsSig, HybridKem, HybridSign
  <2>3. /\ encapsulate(b, alg, p, n) = kem_encapsulate(b, alg, p, n)
        /\ decapsulate(b, alg, k, c) = kem_decapsulate(b, alg, k, c)
    BY <1>2, AlgorithmNames DEF encapsulate, decapsulate
  <2>. HIDE DEF p, k
  <2>. QED
    BY <1>2, <2>1, <2>2, <2>3, KemFunctions DEF p, k
<1>3. CASE alg = HybridKem
  <2>. DEFINE x == raw("x25519", "public", 1)
              y == raw("ml_kem_768", "public", 1)
              xs == raw("x25519", "secret", 1)
              ys == raw("ml_kem_768", "secret", 1)
  <2>1. p = pack2("QHKP", x, y) /\ k = pack2("QHKS", xs, ys)
    BY <1>3, MadeKeys
  <2>2. PICK u, v, t1, t2 : /\ XEncapsulated(x, u, t1, n) /\ KemEncapsulated("ml_kem_768", y, v, t2, n)
                            /\ c = pack2("QHKC", u, v)
    <3>1. p.first = x /\ p.second = y
      BY <2>1, PackedPair
    <3>. QED
      BY <1>3, <3>1, AlgorithmNames DEF Encapsulated
  <2>3. available(b, alg) <=> b.openssl /\ oqs_available(b, "ml_kem_768")
    BY <1>3 DEF available, OqsKem, OqsSig, HybridKem, HybridSign
  <2>4. /\ encapsulate(b, alg, p, n) = encapsulate_hybrid_kem(b, p, n)
        /\ decapsulate(b, alg, k, c) = decapsulate_hybrid_kem(b, k, c)
    BY <1>3, AlgorithmNames DEF encapsulate, decapsulate
  <2>. DEFINE ex == x25519_encapsulate(b, x, n)
              ey == kem_encapsulate(b, "ml_kem_768", y, n)
              dx == x25519_decapsulate(b, xs, u)
              dy == kem_decapsulate(b, "ml_kem_768", ys, v)
  <2>5. /\ b.openssl => ex.ok /\ dx.ok
        /\ ~b.openssl => ex = Unsupported /\ dx = Unsupported
    BY <2>2, XFunctions
  <2>6. /\ oqs_available(b, "ml_kem_768") => ey.ok /\ dy.ok
        /\ ~oqs_available(b, "ml_kem_768") => ey = Unsupported /\ dy = Unsupported
    BY <2>2, KemFunctions, AlgorithmNames
  <2>7. /\ unpack2("QHKP", p).ok /\ unpack2("QHKS", k).ok /\ unpack2("QHKC", c).ok
        /\ unpack2("QHKP", p).value[1] = x /\ unpack2("QHKP", p).value[2] = y
        /\ unpack2("QHKS", k).value[1] = xs /\ unpack2("QHKS", k).value[2] = ys
        /\ unpack2("QHKC", c).value[1] = u /\ unpack2("QHKC", c).value[2] = v
    BY <2>1, <2>2, Unpacked
  <2>. HIDE DEF p, k, x, y, xs, ys
  <2>8. /\ encapsulate_hybrid_kem(b, p, n) =
             IF ~ex.ok THEN ex ELSE IF ~ey.ok THEN ey
             ELSE Ok([ciphertext |-> pack2("QHKC", ex.value.ciphertext, ey.value.ciphertext),
                      secret |-> hybrid_combine(ex.value.secret, ey.value.secret).value])
        /\ decapsulate_hybrid_kem(b, k, c) =
             IF ~dx.ok THEN dx ELSE IF ~dy.ok THEN dy ELSE hybrid_combine(dx.value, dy.value)
    <3>. HIDE DEF ex, ey, dx, dy
    <3>. QED
      BY <2>7, Zenon DEF encapsulate_hybrid_kem, decapsulate_hybrid_kem, ex, ey, dx, dy
  <2>. HIDE DEF ex, ey, dx, dy
  <2>9. \A v1, v2 : hybrid_combine(v1, v2).ok
    BY DEF hybrid_combine, Ok
  <2>. QED
    BY <2>3, <2>4, <2>5, <2>6, <2>8, <2>9, Results DEF p, k
<1>. QED
  BY <1>1, <1>2, <1>3, AlgorithmNames

LEMMA SignAnswers ==
  ASSUME NEW b, NEW alg \in Sign \ {"secp256k1"}, NEW m
  PROVE  LET k == made(alg, 1)
             g == made_signature(alg, 1, m)
         IN /\ available(b, alg) => /\ sign(b, alg, k.secret, m) = Ok(g)
                                    /\ verify(b, alg, k.public, m, alg, g) = Ok(TRUE)
            /\ ~available(b, alg) => /\ sign(b, alg, k.secret, m) = Unsupported
                                     /\ verify(b, alg, k.public, m, alg, g) = Unsupported
<1>. DEFINE p == made(alg, 1).public
            k == made(alg, 1).secret
            g == made_signature(alg, 1, m)
<1>1. \A a \in Single : LET h == half_signature(a, 1, m)
                        IN /\ size(h) = Size[a].output /\ signed_by(h, a, raw(a, "public", 1), m)
  BY DEF half_signature, signature, size, packed, raw_size, signed_by, public_of, raw
<1>2. ASSUME NEW a \in OqsSig
      PROVE  LET h == half_signature(a, 1, m)
                 x == raw(a, "public", 1)
                 xs == raw(a, "secret", 1)
             IN /\ oqs_available(b, a) => /\ sign_message(b, a, xs, m) = Ok(h)
                                          /\ verify_message(b, a, x, m, h) = Ok(TRUE)
                /\ ~oqs_available(b, a) => /\ sign_message(b, a, xs, m) = Unsupported
                                           /\ verify_message(b, a, x, m, h) = Unsupported
  <2>1. a \in Single
    BY DEF Single
  <2>2. /\ size(raw(a, "public", 1)) = Size[a].public /\ size(raw(a, "secret", 1)) = Size[a].secret
        /\ size(half_signature(a, 1, m)) = Size[a].output /\ Size[a].output \in Nat
        /\ signed_by(half_signature(a, 1, m), a, raw(a, "public", 1), m)
    BY <1>1, <2>1, SizeOfRaw, Sizes
  <2>3. verify_message(b, a, raw(a, "public", 1), m, half_signature(a, 1, m)) =
          IF oqs_available(b, a) THEN Ok(TRUE) ELSE Unsupported
    <3>1. ~(size(half_signature(a, 1, m)) > Size[a].output)
      BY <2>2
    <3>2. signed_by(half_signature(a, 1, m), a, raw(a, "public", 1), m) = TRUE
      BY <2>2 DEF signed_by
    <3>. QED
      BY <2>2, <3>1, <3>2 DEF verify_message, Unsupported
  <2>4. sign_message(b, a, raw(a, "secret", 1), m) =
          IF oqs_available(b, a) THEN Ok(half_signature(a, 1, m)) ELSE Unsupported
    BY <2>2 DEF sign_message, Unsupported, half_signature
  <2>. QED
    BY <2>3, <2>4
<1>3. LET h == half_signature("ed25519", 1, m)
          x == raw("ed25519", "public", 1)
          xs == raw("ed25519", "secret", 1)
      IN /\ b.openssl => ed25519_sign(b, xs, m) = Ok(h) /\ ed25519_verify(b, x, m, h) = Ok(TRUE)
         /\ ~b.openssl => /\ ed25519_sign(b, xs, m) = Unsupported
                          /\ ed25519_verify(b, x, m, h) = Unsupported
  <2>1. "ed25519" \in Single /\ Size["ed25519"].public = 32 /\ Size["ed25519"].secret = 32
        /\ Size["ed25519"].output = 64
    BY DEF Single, Size, sizes
  <2>2. /\ size(raw("ed25519", "public", 1)) = 32 /\ size(raw("ed25519", "secret", 1)) = 32
        /\ size(half_signature("ed25519", 1, m)) = 64
        /\ signed_by(half_signature("ed25519", 1, m), "ed25519", raw("ed25519", "public", 1), m)
    BY <1>1, <2>1, SizeOfRaw
  <2>3. ed25519_verify(b, raw("ed25519", "public", 1), m, half_signature("ed25519", 1, m)) =
          IF b.openssl THEN Ok(TRUE) ELSE Unsupported
    BY <2>2 DEF ed25519_verify, Ok, Unsupported
  <2>4. ed25519_sign(b, raw("ed25519", "secret", 1), m) =
          IF b.openssl THEN Ok(half_signature("ed25519", 1, m)) ELSE Unsupported
    BY <2>2 DEF ed25519_sign, Unsupported, half_signature
  <2>. QED
    BY <2>3, <2>4
<1>4. CASE alg \in OqsSig
  <2>1. alg # HybridSign /\ alg # "ed25519" /\ alg # "secp256k1" /\ alg \in Single
    BY <1>4, AlgorithmNames DEF Single
  <2>2. /\ p = raw(alg, "public", 1) /\ k = raw(alg, "secret", 1)
        /\ g = half_signature(alg, 1, m)
    BY <2>1, MadeKeys DEF made_signature
  <2>3. available(b, alg) <=> oqs_available(b, alg)
    BY <1>4 DEF available, OqsKem, OqsSig, HybridKem, HybridSign
  <2>. HIDE DEF p, k, g
  <2>4. /\ sign(b, alg, k, m) = sign_message(b, alg, k, m)
        /\ verify(b, alg, p, m, alg, g) = verify_message(b, alg, p, m, g)
    BY <1>4, <2>1 DEF sign, verify
  <2>. QED
    BY <1>2, <1>4, <2>2, <2>3, <2>4 DEF p, k, g
<1>5. CASE alg = "ed25519"
  <2>1. alg # HybridSign /\ alg \notin OqsSig /\ alg # "secp256k1" /\ alg \in Single
    BY <1>5, AlgorithmNames DEF Single
  <2>2. /\ p = raw("ed25519", "public", 1) /\ k = raw("ed25519", "secret", 1)
        /\ g = half_signature("ed25519", 1, m)
    BY <1>5, <2>1, MadeKeys DEF made_signature
  <2>3. available(b, alg) <=> b.openssl
    BY <1>5 DEF available, OqsKem, OqsSig, HybridKem, HybridSign
  <2>. HIDE DEF p, k, g
  <2>4. /\ sign(b, alg, k, m) = ed25519_sign(b, k, m)
        /\ verify(b, alg, p, m, alg, g) = ed25519_verify(b, p, m, g)
    BY <1>5, <2>1 DEF sign, verify
  <2>. QED
    BY <1>3, <2>2, <2>3, <2>4 DEF p, k, g
<1>6. CASE alg = HybridSign
  <2>. DEFINE x == raw("ed25519", "public", 1)
              y == raw("ml_dsa_65", "public", 1)
              xs == raw("ed25519", "secret", 1)
              ys == raw("ml_dsa_65", "secret", 1)
              gx == half_signature("ed25519", 1, m)
              gy == half_signature("ml_dsa_65", 1, m)
  <2>1. alg \notin OqsSig /\ alg # "ed25519" /\ alg # "secp256k1"
    BY <1>6 DEF HybridSign, OqsSig
  <2>2. /\ p = pack2("QHSP", x, y) /\ k = pack2("QHSS", xs, ys) /\ g = pack2("QHSG", gx, gy)
    BY <1>6, MadeKeys DEF made_signature
  <2>3. available(b, alg) <=> b.openssl /\ oqs_available(b, "ml_dsa_65")
    BY <1>6 DEF available, OqsKem, OqsSig, HybridKem, HybridSign
  <2>4. /\ sign(b, alg, k, m) = sign_hybrid(b, k, m)
        /\ verify(b, alg, p, m, alg, g) = verify_hybrid(b, p, m, g)
    <3>. HIDE DEF p, k, g
    <3>. QED
      BY <1>6, <2>1 DEF sign, verify
  <2>. DEFINE sx == ed25519_sign(b, xs, m)
              sy == sign_message(b, "ml_dsa_65", ys, m)
              vx == ed25519_verify(b, x, m, gx)
              vy == verify_message(b, "ml_dsa_65", y, m, gy)
  <2>5. /\ b.openssl => sx = Ok(gx) /\ vx = Ok(TRUE)
        /\ ~b.openssl => sx = Unsupported /\ vx = Unsupported
    BY <1>3
  <2>6. /\ oqs_available(b, "ml_dsa_65") => sy = Ok(gy) /\ vy = Ok(TRUE)
        /\ ~oqs_available(b, "ml_dsa_65") => sy = Unsupported /\ vy = Unsupported
    BY <1>2, AlgorithmNames
  <2>7. /\ unpack2("QHSP", p).ok /\ unpack2("QHSS", k).ok /\ unpack2("QHSG", g).ok
        /\ unpack2("QHSP", p).value[1] = x /\ unpack2("QHSP", p).value[2] = y
        /\ unpack2("QHSS", k).value[1] = xs /\ unpack2("QHSS", k).value[2] = ys
        /\ unpack2("QHSG", g).value[1] = gx /\ unpack2("QHSG", g).value[2] = gy
    BY <2>2, Unpacked
  <2>. HIDE DEF p, k, g, x, y, xs, ys, gx, gy
  <2>8. /\ sign_hybrid(b, k, m) =
             IF ~sx.ok THEN sx ELSE IF ~sy.ok THEN sy
             ELSE Ok(pack2("QHSG", sx.value, sy.value))
        /\ verify_hybrid(b, p, m, g) = IF ~vx.ok \/ ~vx.value THEN vx ELSE vy
    <3>. HIDE DEF sx, sy, vx, vy
    <3>. QED
      BY <2>7, Zenon DEF sign_hybrid, verify_hybrid, sx, sy, vx, vy
  <2>. HIDE DEF sx, sy, vx, vy
  <2>9. CASE available(b, alg)
    <3>1. sx = Ok(gx) /\ vx = Ok(TRUE) /\ sy = Ok(gy) /\ vy = Ok(TRUE)
      BY <2>3, <2>5, <2>6, <2>9
    <3>2. /\ sx.ok /\ sx.value = gx /\ sy.ok /\ sy.value = gy /\ vx.ok /\ vx.value = TRUE
      BY <3>1 DEF Ok
    <3>3. sign_hybrid(b, k, m) = Ok(g) /\ verify_hybrid(b, p, m, g) = Ok(TRUE)
      BY <2>2, <2>8, <3>1, <3>2
    <3>. QED
      BY <2>4, <2>9, <3>3 DEF p, k, g
  <2>10. CASE ~available(b, alg)
    <3>1. \/ sx = Unsupported /\ vx = Unsupported
          \/ sx.ok /\ vx.ok /\ vx.value = TRUE /\ sy = Unsupported /\ vy = Unsupported
      BY <2>3, <2>5, <2>6, <2>10 DEF Ok
    <3>2. sign_hybrid(b, k, m) = Unsupported /\ verify_hybrid(b, p, m, g) = Unsupported
      BY <2>8, <3>1, Results
    <3>. QED
      BY <2>4, <2>10, <3>2 DEF p, k, g
  <2>. QED
    BY <2>9, <2>10
<1>. QED
  BY <1>4, <1>5, <1>6, AlgorithmNames

-----------------------------------------------------------------------------
\* For any builds, keys, alterations and exchanges of halves: owner and peer hold the same
\* secret exactly when the peer had the points and ML-KEM bytes of the owner's key and the owner
\* those of the peer's ciphertext, or both the same multiple of the points: hybrid_combine takes
\* the two secrets and nothing of the key or the ciphertext (encapsulate_hybrid_kem,
\* decapsulate_hybrid_kem, derive_x25519).
THEOREM SecretsNeedSameParts == ExchangeSpec => []SecretsAgreeOnSameParts
<1>1. ExchangeInv => SecretsAgreeOnSameParts
  <2>. SUFFICES ASSUME ExchangeInv, received # Nothing, NEW e \in sent
                PROVE  received.secret = e.secret <=>
                         SameParts(received.ciphertext, e.ciphertext, e.public, received.key.public)
    BY DEF SecretsAgreeOnSameParts, SameParts
  <2>1. PICK n \in 1..fresh : /\ Encapsulated(e.alg, e.public, e.ciphertext, e.secret, n)
                              /\ \A k \in keys : number(k) # n
    BY DEF ExchangeInv, SentMade
  <2>2. /\ received.key \in keys /\ KeyOk(received.key)
        /\ Decapsulated(received.key.alg, number(received.key), received.ciphertext, received.secret)
    BY DEF ExchangeInv, ReceivedMade, KeysMade
  <2>. QED
    BY <2>1, <2>2, Agrees
<1>. QED
  BY <1>1, ExchangeHolds, PTL

\* For any keys, messages and exchanges of halves: what verifies under a key of the
\* owner's is a signature that this key made of that message, both halves of it
\* (sign_hybrid, verify_hybrid).
THEOREM AcceptedWereSigned == ExchangeSpec => []AcceptedIsSigned
<1>1. ExchangeInv => AcceptedIsSigned
  BY DEF ExchangeInv
<1>. QED
  BY <1>1, ExchangeHolds, PTL

LEMMA RoundTrips ==
  ASSUME NEW b, NEW alg \in Kem \cup Sign
  PROVE  works(b, alg) <=> available(b, alg)
<1>1. generate_keypair(b, alg, 1) = IF available(b, alg) THEN Ok(made(alg, 1)) ELSE Unsupported
  BY Generates
<1>2. CASE ~available(b, alg)
  BY <1>1, <1>2, Results DEF works, kem_roundtrip, sign_roundtrip
<1>3. CASE available(b, alg) /\ alg \in Kem
  <2>. DEFINE k == made(alg, 1)
              enc == encapsulate(b, alg, k.public, 2)
              dec == decapsulate(b, alg, k.secret, enc.value.ciphertext)
  <2>1. alg \in Single \cup Hybrid
    BY <1>3, AlgorithmNames
  <2>2. KeyOk(k) /\ k.alg = alg /\ number(k) = 1 /\ Shaped(k.public)
    BY <2>1, MadeIsOk, PublicShape
  <2>3. enc.ok
    BY <1>3, EncapsulationExists, KemAnswers
  <2>4. Encapsulated(alg, k.public, enc.value.ciphertext, enc.value.secret, 2)
    BY <1>3, <2>2, <2>3, Encapsulates
  <2>5. dec.ok
    BY <1>3, <2>4, KemAnswers
  <2>6. Shaped(enc.value.ciphertext)
    BY <2>4, CiphertextShape
  <2>7. Decapsulated(alg, 1, enc.value.ciphertext, dec.value)
    <3>. HIDE DEF k
    <3>. QED
      BY <1>3, <2>2, <2>5, <2>6, Decapsulates
  <2>8. dec.value = enc.value.secret
    <3>1. multiple(classical(k.public)) = multiple(classical(enc.value.ciphertext))
      BY <2>2, <2>4, PublicShape, CiphertextShape DEF multiple
    <3>2. SameParts(enc.value.ciphertext, enc.value.ciphertext, k.public, k.public)
      BY <3>1 DEF SameParts
    <3>3. 1 # 2
      OBVIOUS
    <3>. HIDE DEF k, enc, dec
    <3>4. /\ Encapsulated(alg, k.public, enc.value.ciphertext, enc.value.secret, 2)
          /\ Decapsulated(k.alg, number(k), enc.value.ciphertext, dec.value) /\ number(k) # 2
      BY <2>2, <2>4, <2>7, <3>3
    <3>5. dec.value = enc.value.secret <=>
            SameParts(enc.value.ciphertext, enc.value.ciphertext, k.public, k.public)
      BY <2>2, <3>4, Agrees
    <3>. QED
      BY <3>2, <3>5
  <2>9. generate_keypair(b, alg, 1) = Ok(k)
    BY <1>1, <1>3
  <2>. HIDE DEF k
  <2>10. generate_keypair(b, alg, 1).ok /\ generate_keypair(b, alg, 1).value = k
    BY <2>9, Results
  <2>. QED
    BY <1>3, <2>3, <2>5, <2>8, <2>10 DEF works, kem_roundtrip
<1>4. CASE available(b, alg) /\ alg \notin Kem
  <2>1. alg \in Sign \ {"secp256k1"}
    BY <1>4 DEF available, Kem, Sign, OqsKem, OqsSig, HybridKem, HybridSign
  <2>. DEFINE k == made(alg, 1)
              g == made_signature(alg, 1, "pq-kat")
  <2>2. sign(b, alg, k.secret, "pq-kat") = Ok(g) /\ verify(b, alg, k.public, "pq-kat", alg, g) = Ok(TRUE)
    BY <1>4, <2>1, SignAnswers
  <2>3. generate_keypair(b, alg, 1) = Ok(k)
    BY <1>1, <1>4
  <2>. HIDE DEF k, g
  <2>4. /\ generate_keypair(b, alg, 1).ok /\ generate_keypair(b, alg, 1).value = k
        /\ sign(b, alg, k.secret, "pq-kat").ok /\ sign(b, alg, k.secret, "pq-kat").value = g
        /\ verify(b, alg, k.public, "pq-kat", alg, g).ok
        /\ verify(b, alg, k.public, "pq-kat", alg, g).value = TRUE
    BY <2>2, <2>3 DEF Ok
  <2>. QED
    BY <1>4, <2>4 DEF works, sign_roundtrip
<1>. QED
  BY <1>2, <1>3, <1>4

LEMMA FailsClosed ==
  ASSUME NEW b, NEW alg \in Kem \cup Sign, ~available(b, alg)
  PROVE  fails_closed(b, alg)
<1>. DEFINE full == [openssl |-> TRUE, liboqs |-> TRUE, offered |-> OqsKem \cup OqsSig]
            kp == generate_keypair(full, alg, 1).value
<1>1. generate_keypair(b, alg, 1) = Unsupported
  BY Generates
<1>2. alg # "secp256k1" => available(full, alg)
  BY DEF available, oqs_available, Kem, Sign, OqsKem, OqsSig, HybridKem, HybridSign
<1>3. alg # "secp256k1" => kp = made(alg, 1)
  BY <1>2, Generates, Results
<1>. HIDE DEF full, kp
<1>4. ASSUME alg \in Kem
      PROVE  LET enc == encapsulate(full, alg, kp.public, 2).value
             IN /\ encapsulate(b, alg, kp.public, 2) = Unsupported
                /\ decapsulate(b, alg, kp.secret, enc.ciphertext) = Unsupported
  <2>1. alg # "secp256k1" /\ alg \in Single \cup Hybrid
    BY <1>4 DEF Kem, OqsKem, HybridKem, Single, Hybrid
  <2>2. Shaped(made(alg, 1).public)
    BY <2>1, MadeIsOk, PublicShape
  <2>3. encapsulate(full, alg, made(alg, 1).public, 2).ok
    BY <1>2, <1>4, <2>1, EncapsulationExists, KemAnswers
  <2>4. LET enc == encapsulate(full, alg, made(alg, 1).public, 2).value
        IN Encapsulated(alg, made(alg, 1).public, enc.ciphertext, enc.secret, 2)
    BY <1>4, <2>2, <2>3, Encapsulates
  <2>. QED
    BY <1>3, <1>4, <2>1, <2>4, KemAnswers
<1>5. ASSUME alg \in Sign \ {"secp256k1"}
      PROVE  LET sig == sign(full, alg, kp.secret, "m").value
             IN /\ sign(b, alg, kp.secret, "m") = Unsupported
                /\ verify(b, alg, kp.public, "m", alg, sig) = Unsupported
  <2>1. sign(full, alg, made(alg, 1).secret, "m").value = made_signature(alg, 1, "m")
    <3>1. sign(full, alg, made(alg, 1).secret, "m") = Ok(made_signature(alg, 1, "m"))
      BY <1>2, <1>5, SignAnswers
    <3>. QED
      BY <3>1, Results
  <2>2. kp = made(alg, 1)
    BY <1>3, <1>5
  <2>3. /\ sign(b, alg, made(alg, 1).secret, "m") = Unsupported
        /\ verify(b, alg, made(alg, 1).public, "m", alg, made_signature(alg, 1, "m")) = Unsupported
    BY <1>5, SignAnswers
  <2>. QED
    BY <2>1, <2>2, <2>3
<1>. QED
  BY <1>1, <1>4, <1>5 DEF fails_closed, full, kp, Unsupported

LEMMA WiringMeansWorking ==
  ASSUME NEW b, b.liboqs, validate_provider_wiring(b)
  PROVE  \A alg \in OqsKem \cup OqsSig : works(b, alg)
<1>. DEFINE All == OqsKem \cup OqsSig
            passing == {a \in OqsKem : kem_roundtrip(b, a)} \cup {a \in OqsSig : sign_roundtrip(b, a)}
<1>1. Cardinality(All \ passing) = 0
  BY DEF validate_provider_wiring, run_kat_harness
<1>2. IsFiniteSet(All)
  <2>1. /\ OqsKem = {"ml_kem_512"} \cup {"ml_kem_768"} \cup {"ml_kem_1024"}
        /\ OqsSig = {"ml_dsa_44"} \cup {"ml_dsa_65"} \cup {"ml_dsa_87"} \cup {"slh_dsa_sha2_128s"}
    BY DEF OqsKem, OqsSig
  <2>2. \A x : IsFiniteSet({x})
    BY FS_Singleton
  <2>3. IsFiniteSet(OqsKem)
    BY <2>1, <2>2, FS_Union
  <2>4. IsFiniteSet(OqsSig)
    BY <2>1, <2>2, FS_Union
  <2>. QED
    BY <2>3, <2>4, FS_Union
<1>3. All \ passing = {}
  <2>. HIDE DEF All, passing
  <2>1. IsFiniteSet(All \ passing)
    BY <1>2, FS_Subset
  <2>. QED
    BY <1>1, <2>1, FS_EmptySet
<1>. QED
  BY <1>3 DEF works, Kem, OqsKem, OqsSig, HybridKem

\* For any build, whatever back ends it links and whatever algorithms its liboqs offers:
\* an algorithm works or every function of it says it is unsupported; the registry names
\* every one that works, and one it names works if the wiring check passed, but for the
\* hybrids in a build without OpenSSL (supports, validate_provider_wiring).
THEOREM SupportStaysHonest == ExchangeSpec => []SupportIsHonest
<1>1. ASSUME NEW b \in Build, NEW alg \in Kem \cup Sign
      PROVE  /\ works(b, alg) => supports(b, alg)
             /\ ~works(b, alg) => fails_closed(b, alg)
             /\ supports(b, alg) /\ validate_provider_wiring(b) =>
                  works(b, alg) \/ (alg \in Hybrid /\ ~b.openssl)
  <2>1. works(b, alg) <=> available(b, alg)
    BY RoundTrips
  <2>2. available(b, alg) => supports(b, alg)
    BY DEF available, supports, oqs_available, Hybrid
  <2>3. ~available(b, alg) => fails_closed(b, alg)
    BY FailsClosed
  <2>4. ASSUME supports(b, alg), validate_provider_wiring(b), ~(alg \in Hybrid /\ ~b.openssl)
        PROVE  available(b, alg)
    <3>1. b.liboqs => \A a \in OqsKem \cup OqsSig : oqs_available(b, a)
      <4>1. \A a \in OqsKem \cup OqsSig : available(b, a) => oqs_available(b, a)
        BY DEF available, OqsKem, OqsSig, HybridKem, HybridSign
      <4>2. \A a \in OqsKem \cup OqsSig : a \in Kem \cup Sign
        BY DEF Kem, Sign
      <4>. QED
        BY <2>4, <4>1, <4>2, WiringMeansWorking, RoundTrips
    <3>. QED
      BY <2>4, <3>1, AlgorithmNames DEF supports, available
  <2>. QED
    BY <2>1, <2>2, <2>3, <2>4
<1>2. ExchangeInit => build \in [{"owner", "peer"} -> Build]
  BY ExchangeAssumption DEF ExchangeInit
<1>3. build \in [{"owner", "peer"} -> Build] /\ [ExchangeNext]_vars =>
        (build \in [{"owner", "peer"} -> Build])'
  BY DEF ExchangeNext, generate, encapsulate_to_owner, decapsulate_from_peer, sign_as_owner,
         verify_as_peer, vars
<1>4. build \in [{"owner", "peer"} -> Build] => SupportIsHonest
  BY <1>1 DEF SupportIsHonest
<1>. QED
  BY <1>2, <1>3, <1>4, PTL DEF ExchangeSpec
=============================================================================
