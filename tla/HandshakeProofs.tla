-------------------------- MODULE HandshakeProofs --------------------------
(***************************************************************************)
(* What a confirmed handshake guarantees, for any lists and policies, any    *)
(* number of attempts and any damage to hellos on the way.                   *)
(***************************************************************************)
EXTENDS Handshake, SequenceTheorems, WellFoundedInduction, TLAPS

Nonce == 1..MaxAttempts
Limits == Role \cup {"other"}
ClientHello == [type : {"client_hello"}, nonce : Nonce, offered : SUBSET SuiteId, limits : Limits]
ServerHello == [type : {"server_hello"}, nonce : Nonce, id : SuiteId, limits : Limits]

Context ==
  [state : HandshakeState, attempt : Nonce, nonce : Nonce, peer_nonce : 0..MaxAttempts,
   transcript : Seq(ClientHello \cup ServerHello), suite : CipherSuite \cup {NoSuite},
   close_notify_seen : BOOLEAN]

\* The hello that a side sends, what it expects, and what it makes of that.
own_hello(r) ==
  IF r = "client" THEN client_hello(context[r].nonce, offer(r), r)
  ELSE server_hello(context[r].nonce, context[r].suite.id, r)

PeerHello(r) == IF r = "client" THEN ServerHello ELSE ClientHello

decision(r, m) ==
  IF r = "client" THEN choice(m.id)
  ELSE negotiate(config[r].suites, policy(r), m.offered)

FirstState(r) == IF r = "client" THEN "client_hello_sent" ELSE "client_hello_received"
LastState(r) == IF r = "client" THEN "server_hello_received" ELSE "server_hello_sent"

\* What a side has bound to its transcript: nothing, the hello of the client, or both.
Empty(r) == context[r].transcript = << >> /\ context[r].suite = NoSuite

Decided(r, m) ==
  m \in PeerHello(r) /\ context[r].peer_nonce = m.nonce /\ context[r].suite = decision(r, m)

HalfWay(r) ==
  IF r = "client"
  THEN context[r].transcript = <<own_hello(r)>> /\ context[r].suite = NoSuite
  ELSE \E m \in ClientHello : context[r].transcript = <<m>> /\ Decided(r, m)

Exchanged(r) ==
  \E m \in PeerHello(r) :
    /\ context[r].transcript = IF r = "client" THEN <<own_hello(r), m>> ELSE <<m, own_hello(r)>>
    /\ Decided(r, m)

ContextOK(r) ==
  LET c == context[r]
  IN /\ c \in Context /\ c.attempt = c.nonce
     /\ c.state \in {"start", "closed", FirstState(r), LastState(r)}
     /\ c.close_notify_seen => c.state = "closed"
     /\ c.state = "start" => Empty(r)
     /\ c.state = FirstState(r) => HalfWay(r)
     /\ c.state = LastState(r) => Exchanged(r)
     /\ Empty(r) \/ HalfWay(r) \/ Exchanged(r)

\* A side that may make its tag, or may have made it before an alert.
Settled(r) ==
  context[r].state \in {LastState(r), "closed"} /\ Exchanged(r) /\ context[r].suite # NoSuite

view(r) == [role |-> r, hello |-> hello(r), attempt |-> context[r].attempt,
            suite |-> context[r].suite, seen |-> context[r].transcript]

\* The hello of the key schedule, from the two hellos of the handshake.
bound_hello(c, s) == [client_nonce |-> c.nonce, server_nonce |-> s.nonce, transcript |-> <<c, s>>]

\* What a side had agreed to when it made a tag.
Agreement(h) ==
  /\ h.role \in Role /\ h.attempt \in Nonce /\ h.suite # NoSuite
  /\ \E c \in ClientHello, s \in ServerHello :
       /\ h.seen = <<c, s>> /\ h.hello = bound_hello(c, s)
       /\ h.role = "client" =>
            c = client_hello(h.attempt, offer("client"), "client") /\ h.suite = decision("client", s)
       /\ h.role = "server" =>
            s = server_hello(h.attempt, h.suite.id, "server") /\ h.suite = decision("server", c)

HeldAgree == \A h \in held : Agreement(h)

\* The agreements of a side lie before its present attempt, or are what it has now.
HeldCurrent ==
  \A h \in held :
    /\ h.attempt <= context[h.role].attempt
    /\ h.attempt = context[h.role].attempt => Settled(h.role) /\ h = view(h.role)

HeldOnce == \A g, h \in held : g.role = h.role /\ g.attempt = h.attempt => g = h

\* A verified tag comes from an agreement of the peer.
ConfirmedHeld ==
  \A r \in Role : confirmed[r] =>
    Settled(r) /\ \E h \in held : h.role = peer(r) /\ h.hello = hello(r)

Message(m) ==
  \/ m \in ClientHello \/ m \in ServerHello
  \/ \E r \in Role : m = alert(r)
  \/ \E h \in held : m = tag(h.role, h.hello)

Typed ==
  /\ config \in [Role -> [profile : Profiles, suites : SuiteLists]]
  /\ confirmed \in [Role -> BOOLEAN] /\ damage \in 0..MaxDamage
  /\ context \in [Role -> Context]

HandshakeInv ==
  /\ Typed /\ \A r \in Role : ContextOK(r)
  /\ HeldAgree /\ HeldCurrent /\ HeldOnce /\ ConfirmedHeld
  /\ \A m \in network : Message(m)

-----------------------------------------------------------------------------
(* Negotiation. *)

\* A set of positions that is not empty has a first one.
LEMMA FirstPosition ==
  ASSUME NEW T \in SUBSET Nat, T # {}
  PROVE  \E i \in T : \A j \in T : i <= j
<1>. DEFINE R == OpToRel(<, Nat)
<1>1. IsWellFoundedOn(R, Nat)
  BY NatLessThanWellFounded, Zenon
<1>2. \A x, y \in Nat : x < y => <<x, y>> \in R
  BY Zenon DEF OpToRel
<1>. HIDE DEF R
<1>3. PICK i \in T : \A j \in T : ~(<<j, i>> \in R)
  BY <1>1, WFMin, Zenon
<1>4. \A j \in T : i \in Nat /\ j \in Nat /\ ~(j < i)
  BY <1>2, <1>3
<1>5. \A j \in T : i <= j
  BY <1>4, SMT
<1>. QED
  BY <1>5

LEMMA DefaultsTyped == default_cipher_suites \in Seq(CipherSuite)
<1>. USE DEF suite, CipherSuite, SuiteId, Kem, SignatureAlgorithm, Aead, hybrid_kem, pq_kem,
             classical_kem, hybrid_signature, pq_signature, classical_signature
<1>1. Hybrid \in CipherSuite
  BY DEF Hybrid
<1>2. ClassicalAes \in CipherSuite
  BY DEF ClassicalAes
<1>3. Classical \in CipherSuite
  BY DEF Classical
<1>. HIDE DEF CipherSuite
<1>. QED
  BY <1>1, <1>2, <1>3 DEF default_cipher_suites

LEMMA ListsTyped ==
  ASSUME NEW list \in SuiteLists
  PROVE  supported(list) \in Seq(CipherSuite) /\ supported(list) \in SuiteLists \cup {default_cipher_suites}
BY DefaultsTyped, SuitesNamed DEF supported

LEMMA NoSuiteIsNone == NoSuite \notin CipherSuite
<1>1. "none" \notin Kem
  BY DEF Kem, hybrid_kem, pq_kem, classical_kem
<1>2. NoSuite.kem = "none" /\ \A s \in CipherSuite : s.kem \in Kem
  BY DEF NoSuite, suite, CipherSuite
<1>. QED
  BY <1>1, <1>2

\* What negotiate returns is of the local list, was offered, passes the policy and is
\* no downgrade (protocol.cpp:57-79).
LEMMA NegotiateSound ==
  ASSUME NEW list \in SuiteLists, NEW p, NEW offered, negotiate(list, p, offered) # NoSuite
  PROVE  LET s == negotiate(list, p, offered)
         IN /\ s \in CipherSuite
            /\ \E i \in DOMAIN supported(list) : s = supported(list)[i]
            /\ s.id \in offered /\ validate_suite(s, p) /\ ~reject_downgrade(offered, s)
<1>. DEFINE l == supported(list)
            usable == {i \in DOMAIN l : l[i].id \in offered /\ validate_suite(l[i], p)}
            first == CHOOSE i \in usable : \A j \in usable : i <= j
<1>1. l \in Seq(CipherSuite)
  BY ListsTyped
<1>2. /\ negotiate(list, p, offered) = IF usable = {} \/ reject_downgrade(offered, l[first])
                                      THEN NoSuite ELSE l[first]
  BY DEF negotiate
<1>3. usable # {} /\ ~reject_downgrade(offered, l[first]) /\ negotiate(list, p, offered) = l[first]
  BY <1>2
<1>4. usable \subseteq Nat
  BY <1>1
<1>5. \E i \in usable : \A j \in usable : i <= j
  <2>. HIDE DEF usable
  <2>. QED
    BY <1>3, <1>4, FirstPosition
<1>6. first \in usable
  <2>. HIDE DEF usable
  <2>. QED
    BY <1>5, Zenon
<1>. HIDE DEF first
<1>. QED
  BY <1>1, <1>3, <1>6

\* Of the built-in suites only the hybrid one is ever better than another.
LEMMA BuiltIn ==
  /\ DOMAIN default_cipher_suites = 1..3
  /\ \A i \in 1..3 : LET d == default_cipher_suites[i]
                     IN d # NoSuite /\ d.security_level = 3 /\ (d.hybrid <=> i = 1)
  /\ Hybrid = default_cipher_suites[1]
  /\ \A offered, d : d \in known(offered) <=>
       \E i \in 1..3 : d = default_cipher_suites[i] /\ d.id \in offered
<1>1. /\ default_cipher_suites[1] = Hybrid /\ default_cipher_suites[2] = ClassicalAes
      /\ default_cipher_suites[3] = Classical /\ DOMAIN default_cipher_suites = 1..3
  BY DEF default_cipher_suites
<1>2. /\ Hybrid.security_level = 3 /\ Hybrid.hybrid = TRUE
      /\ ClassicalAes.security_level = 3 /\ ClassicalAes.hybrid = FALSE
      /\ Classical.security_level = 3 /\ Classical.hybrid = FALSE
      /\ NoSuite.security_level = 0
  BY DEF Hybrid, ClassicalAes, Classical, NoSuite, suite
<1>3. \A i \in 1..3 : i = 1 \/ i = 2 \/ i = 3
  BY SMT
<1>4. \A i \in 1..3 : LET d == default_cipher_suites[i]
                      IN d # NoSuite /\ d.security_level = 3 /\ (d.hybrid <=> i = 1)
  BY <1>1, <1>2, <1>3, SMT
<1>5. \A offered, d : d \in known(offered) <=>
        \E i \in 1..3 : d = default_cipher_suites[i] /\ d.id \in offered
  BY <1>1 DEF known, find_suite
<1>. QED
  BY <1>1, <1>4, <1>5

\* With the built-in list a refusal is not an accident of its order (protocol.cpp:59-68).
LEMMA BuiltInRefusal ==
  ASSUME NEW p, NEW offered, negotiate(<< >>, p, offered) = NoSuite,
         NEW i \in 1..3, default_cipher_suites[i].id \in offered,
         validate_suite(default_cipher_suites[i], p)
  PROVE  Hybrid.id \in offered /\ ~default_cipher_suites[i].hybrid
<1>. DEFINE l == default_cipher_suites
            usable == {j \in DOMAIN l : l[j].id \in offered /\ validate_suite(l[j], p)}
            first == CHOOSE j \in usable : \A k \in usable : j <= k
<1>1. negotiate(<< >>, p, offered) = IF usable = {} \/ reject_downgrade(offered, l[first])
                                    THEN NoSuite ELSE l[first]
  BY DEF negotiate, supported
<1>2. usable \subseteq 1..3 /\ i \in usable
  BY BuiltIn
<1>. HIDE DEF usable
<1>3. \E j \in usable : \A k \in usable : j <= k
  <2>1. usable \in SUBSET Nat /\ usable # {}
    BY <1>2, SMT
  <2>. QED
    BY <2>1, FirstPosition
<1>4. first \in usable /\ first <= i
  BY <1>2, <1>3, Zenon
<1>. HIDE DEF first
<1>5. first \in 1..3 /\ usable # {}
  BY <1>2, <1>4
<1>6. reject_downgrade(offered, l[first])
  <2>1. l[first] # NoSuite
    BY <1>5, BuiltIn
  <2>. QED
    BY <1>1, <1>5, <2>1
<1>7. PICK o \in known(offered) : o.security_level > l[first].security_level \/ (o.hybrid /\ ~l[first].hybrid)
  BY <1>6 DEF reject_downgrade
<1>8. PICK j \in 1..3 : o = l[j] /\ o.id \in offered
  BY BuiltIn
<1>9. o.hybrid /\ ~l[first].hybrid
  <2>1. o.security_level = 3 /\ l[first].security_level = 3
    BY <1>5, <1>8, BuiltIn
  <2>. QED
    BY <1>7, <2>1, SMT
<1>10. j = 1 /\ first # 1
  BY <1>5, <1>8, <1>9, BuiltIn
<1>11. i # 1
  BY <1>4, <1>5, <1>10, SMT
<1>. QED
  BY <1>8, <1>10, <1>11, BuiltIn

-----------------------------------------------------------------------------
(* A side on its own. *)

LEMMA OffersTyped == ASSUME Typed, NEW r \in Role PROVE offer(r) \subseteq SuiteId /\ config[r].suites \in SuiteLists
<1>1. config[r].suites \in SuiteLists
  BY DEF Typed
<1>. DEFINE l == supported(config[r].suites)
<1>2. l \in Seq(CipherSuite)
  BY <1>1, ListsTyped
<1>3. offer(r) = {l[i].id : i \in DOMAIN l}
  BY DEF offer
<1>. HIDE DEF l
<1>4. \A i \in DOMAIN l : l[i] \in CipherSuite
  BY <1>2
<1>5. \A s \in CipherSuite : s.id \in SuiteId
  BY DEF CipherSuite
<1>. QED
  BY <1>1, <1>3, <1>4, <1>5

\* A decision is a suite of the own list that the hello of the peer names, or none.
LEMMA DecisionSound ==
  ASSUME Typed, NEW r \in Role, NEW m, decision(r, m) # NoSuite
  PROVE  LET s == decision(r, m)
         IN /\ s \in CipherSuite /\ s.id \in offer(r) /\ validate_suite(s, policy(r))
            /\ \E i \in DOMAIN supported(config[r].suites) : s = supported(config[r].suites)[i]
            /\ r = "client" => s.id = m.id /\ ~reject_downgrade(offer(r), s)
            /\ r = "server" => s.id \in m.offered
<1>1. config[r].suites \in SuiteLists
  BY OffersTyped
<1>2. CASE r = "client"
  <2>. DEFINE s == negotiate(config[r].suites, policy(r), {m.id})
  <2>1. s # NoSuite /\ decision(r, m) = s /\ ~reject_downgrade(offer(r), s)
    BY <1>2 DEF decision, choice
  <2>. QED
    BY <1>1, <1>2, <2>1, NegotiateSound DEF offer
<1>3. CASE r = "server"
  <2>. DEFINE s == negotiate(config[r].suites, policy(r), m.offered)
  <2>1. s # NoSuite /\ decision(r, m) = s
    BY <1>3 DEF decision
  <2>. QED
    BY <1>1, <1>3, <2>1, NegotiateSound DEF offer
<1>. QED
  BY <1>2, <1>3 DEF Role

LEMMA DecisionTyped ==
  ASSUME Typed, NEW r \in Role, NEW m
  PROVE  decision(r, m) \in CipherSuite \cup {NoSuite}
BY DecisionSound

LEMMA HelloBinds ==
  \A c, s, d, t : bound_hello(c, s) = bound_hello(d, t) => c = d /\ s = t
<1>. SUFFICES ASSUME NEW c, NEW s, NEW d, NEW t, bound_hello(c, s) = bound_hello(d, t)
              PROVE  c = d /\ s = t
  OBVIOUS
<1>1. bound_hello(c, s).transcript = <<c, s>> /\ bound_hello(d, t).transcript = <<d, t>>
  BY DEF bound_hello
<1>2. <<c, s>> = <<d, t>>
  BY <1>1
<1>. QED
  BY <1>2

\* Two sides that agreed on the same hellos agreed on the same suite.
LEMMA SameHelloSameSuite ==
  ASSUME Typed, NEW g, NEW h, Agreement(g), Agreement(h),
         g.role = "client", h.role = "server", g.hello = h.hello
  PROVE  /\ g.suite = h.suite
         /\ h.seen = <<client_hello(h.hello.client_nonce, offer("client"), "client"),
                       server_hello(h.hello.server_nonce, h.suite.id, "server")>>
<1>1. PICK c \in ClientHello, s \in ServerHello :
        /\ g.seen = <<c, s>> /\ g.hello = bound_hello(c, s)
        /\ c = client_hello(g.attempt, offer("client"), "client") /\ g.suite = decision("client", s)
  BY DEF Agreement
<1>2. PICK d \in ClientHello, t \in ServerHello :
        /\ h.seen = <<d, t>> /\ h.hello = bound_hello(d, t)
        /\ t = server_hello(h.attempt, h.suite.id, "server") /\ h.suite = decision("server", d)
  BY DEF Agreement
<1>3. g.seen = h.seen /\ c = d /\ s = t
  <2>1. bound_hello(c, s) = bound_hello(d, t)
    BY <1>1, <1>2
  <2>2. c = d /\ s = t
    BY <2>1, HelloBinds
  <2>. QED
    BY <1>1, <1>2, <2>2
<1>4. g.suite # NoSuite /\ h.suite # NoSuite
  BY DEF Agreement
<1>5. g.suite.id = s.id /\ s.id = h.suite.id
  <2>1. g.suite.id = s.id
    BY <1>1, <1>4, DecisionSound DEF Role
  <2>2. t.id = h.suite.id
    BY <1>2 DEF server_hello
  <2>. QED
    BY <1>3, <2>1, <2>2
<1>. DEFINE k == supported(config["client"].suites)
            l == supported(config["server"].suites)
<1>6. PICK i \in DOMAIN k : g.suite = k[i]
  BY <1>1, <1>4, DecisionSound DEF Role
<1>7. PICK j \in DOMAIN l : h.suite = l[j]
  BY <1>2, <1>4, DecisionSound DEF Role
<1>8. k \in SuiteLists \cup {default_cipher_suites} /\ l \in SuiteLists \cup {default_cipher_suites}
  BY OffersTyped, ListsTyped DEF Role
<1>. HIDE DEF k, l
<1>9. g.suite = h.suite
  BY <1>5, <1>6, <1>7, <1>8, SuitesNamed
<1>10. c.nonce = g.attempt /\ t.nonce = h.attempt
  BY <1>1, <1>2 DEF client_hello, server_hello
<1>11. h.hello.client_nonce = d.nonce /\ h.hello.server_nonce = t.nonce
  <2>1. bound_hello(d, t).client_nonce = d.nonce /\ bound_hello(d, t).server_nonce = t.nonce
    BY DEF bound_hello
  <2>. QED
    BY <1>2, <2>1
<1>. QED
  BY <1>1, <1>2, <1>3, <1>9, <1>10, <1>11

-----------------------------------------------------------------------------
(* What steps leave alone. *)

LEMMA ConfigKept ==
  ASSUME config' = config
  PROVE  /\ \A r \in Role : /\ offer(r)' = offer(r) /\ policy(r)' = policy(r)
                            /\ \A m : decision(r, m)' = decision(r, m)
         /\ \A h : Agreement(h)' <=> Agreement(h)
<1>1. \A r \in Role : offer(r)' = offer(r) /\ policy(r)' = policy(r)
  BY DEF offer, policy
<1>2. \A r \in Role : \A m : decision(r, m)' = decision(r, m)
  BY <1>1 DEF decision, choice, Role
<1>3. \A h : Agreement(h)' <=> Agreement(h)
  BY <1>1, <1>2 DEF Agreement, Role
<1>. QED
  BY <1>1, <1>2, <1>3

\* A side whose context and peer hello stay, stays as it was.
LEMMA SideKept ==
  ASSUME config' = config, NEW r \in Role, context'[r] = context[r]
  PROVE  /\ ContextOK(r)' <=> ContextOK(r)
         /\ Settled(r)' <=> Settled(r)
         /\ view(r)' = view(r) /\ hello(r)' = hello(r)
<1>1. own_hello(r)' = own_hello(r)
  BY ConfigKept DEF own_hello
<1>2. \A m : Decided(r, m)' <=> Decided(r, m)
  BY ConfigKept DEF Decided
<1>3. (Exchanged(r)' <=> Exchanged(r)) /\ (HalfWay(r)' <=> HalfWay(r)) /\ (Empty(r)' <=> Empty(r))
  BY <1>1, <1>2 DEF Exchanged, HalfWay, Empty
<1>4. hello(r)' = hello(r)
  BY DEF hello
<1>. QED
  BY <1>3, <1>4 DEF ContextOK, Settled, view

\* Messages stay messages, also when more is held.
LEMMA MessagesKept ==
  ASSUME NEW m, Message(m), held \subseteq held' PROVE Message(m)'
BY DEF Message

\* A step of one side keeps the invariant if what it was settled on stays, or if it
\* begins a new attempt.
LEMMA SideMoves ==
  ASSUME HandshakeInv, NEW r \in Role, UNCHANGED <<config, held, damage>>,
         context' \in [Role -> Context], \A x \in Role \ {r} : context'[x] = context[x],
         ContextOK(r)', \A m \in network' : Message(m),
         confirmed' \in [Role -> BOOLEAN], \A x \in Role \ {r} : confirmed'[x] = confirmed[x],
         \/ /\ context'[r].attempt = context[r].attempt /\ confirmed'[r] = confirmed[r]
            /\ Settled(r) => Settled(r)' /\ view(r)' = view(r)
         \/ context'[r].attempt > context[r].attempt /\ ~confirmed'[r]
  PROVE  HandshakeInv'
<1>. USE DEF HandshakeInv
<1>1. Typed' /\ HeldOnce'
  BY DEF Typed, HeldOnce
<1>2. \A x \in Role : ContextOK(x)'
  BY SideKept
<1>3. HeldAgree'
  BY ConfigKept DEF HeldAgree
<1>4. \A m \in network' : Message(m)'
  BY MessagesKept
<1>5. HeldCurrent'
  <2>. SUFFICES ASSUME NEW h \in held
                PROVE  /\ h.attempt <= context'[h.role].attempt
                       /\ h.attempt = context'[h.role].attempt => Settled(h.role)' /\ h = view(h.role)'
    BY DEF HeldCurrent
  <2>1. /\ h.role \in Role /\ h.attempt \in Nat
        /\ h.attempt <= context[h.role].attempt
        /\ h.attempt = context[h.role].attempt => Settled(h.role) /\ h = view(h.role)
    BY SMT DEF HeldCurrent, HeldAgree, Agreement, Nonce
  <2>2. CASE h.role # r
    BY <2>1, <2>2, SideKept
  <2>3. CASE h.role = r /\ context'[r].attempt = context[r].attempt
    <3>1. Settled(r) => Settled(r)' /\ view(r)' = view(r)
      <4>1. context[r].attempt \in Nat
        BY SMT DEF Typed, Context, Nonce
      <4>. QED
        BY <2>3, <4>1, SMT
    <3>. QED
      BY <2>1, <2>3, <3>1
  <2>4. CASE h.role = r /\ context'[r].attempt > context[r].attempt
    <3>1. context[r].attempt \in Nat /\ context'[r].attempt \in Nat
      BY SMT DEF Typed, Context, Nonce
    <3>. QED
      BY <2>1, <2>4, <3>1, SMT
  <2>. QED
    BY <2>2, <2>3, <2>4
<1>6. ConfirmedHeld'
  <2>. SUFFICES ASSUME NEW x \in Role, confirmed'[x]
                PROVE  Settled(x)' /\ \E h \in held : h.role = peer(x) /\ h.hello = hello(x)'
    BY DEF ConfirmedHeld
  <2>1. CASE x # r
    BY <2>1, SideKept DEF ConfirmedHeld
  <2>2. CASE x = r
    <3>1. Settled(r) /\ Settled(r)' /\ view(r)' = view(r)
      BY <2>2 DEF ConfirmedHeld
    <3>2. view(r).hello = hello(r) /\ view(r)'.hello = hello(r)'
      BY DEF view
    <3>. QED
      BY <2>2, <3>1, <3>2 DEF ConfirmedHeld
  <2>. QED
    BY <2>1, <2>2
<1>. QED
  BY <1>1, <1>2, <1>3, <1>4, <1>5, <1>6

-----------------------------------------------------------------------------
(* The steps. *)

LEMMA StatesMove ==
  \A r \in Role, s \in HandshakeState :
    /\ next_when_sent(r, s) # "refused" =>
         IF r = "client" THEN s = "start" /\ next_when_sent(r, s) = FirstState(r)
         ELSE s = FirstState(r) /\ next_when_sent(r, s) = LastState(r)
    /\ next_when_received(r, s) # "refused" =>
         IF r = "client" THEN s = FirstState(r) /\ next_when_received(r, s) = LastState(r)
         ELSE s = "start" /\ next_when_received(r, s) = FirstState(r)
BY DEF Role, next_when_sent, next_when_received, FirstState, LastState

LEMMA PairAppended == \A x, y : Append(<<x>>, y) = <<x, y>>
<1>. SUFFICES ASSUME NEW x, NEW y PROVE Append(<<x>>, y) = <<x, y>>
  OBVIOUS
<1>. DEFINE s == Append(<<x>>, y)
<1>1. <<x>> \in Seq({x, y}) /\ <<x, y>> \in Seq({x, y})
  OBVIOUS
<1>2. s \in Seq({x, y}) /\ Len(s) = 2 /\ s[1] = x /\ s[2] = y
  BY <1>1, AppendProperties
<1>. HIDE DEF s
<1>3. s = <<x, y>>
  BY <1>2
<1>. QED
  BY <1>3 DEF s

\* The context of a side that has received m and decided for s.
after_hello(r, m, s) == [received(r, m) EXCEPT !.suite = s]

\* What a side's context is once it has sent m, or received it and decided for s.
LEMMA AfterSending ==
  ASSUME HandshakeInv, NEW r \in Role, may_send(r), NEW m, m \in ClientHello \cup ServerHello
  PROVE  LET c == context[r] IN
         /\ sent(r, m) \in Context
         /\ sent(r, m).state = next_when_sent(r, c.state)
         /\ sent(r, m).transcript = Append(c.transcript, m)
         /\ sent(r, m).attempt = c.attempt /\ sent(r, m).nonce = c.nonce
         /\ sent(r, m).peer_nonce = c.peer_nonce /\ sent(r, m).suite = c.suite
         /\ sent(r, m).close_notify_seen = c.close_notify_seen
<1>1. context[r] \in Context
  BY DEF HandshakeInv, Typed
<1>2. next_when_sent(r, context[r].state) \in HandshakeState
  <2>1. context[r].state \in HandshakeState
    BY <1>1 DEF Context
  <2>. QED
    BY <2>1, StatesMove DEF may_send, HandshakeState, FirstState, LastState
<1>3. Append(context[r].transcript, m) \in Seq(ClientHello \cup ServerHello)
  <2>1. context[r].transcript \in Seq(ClientHello \cup ServerHello)
    BY <1>1 DEF Context
  <2>. QED
    BY <2>1, AppendProperties
<1>4. sent(r, m) = [context[r] EXCEPT !.state = next_when_sent(r, context[r].state),
                                      !.transcript = Append(context[r].transcript, m)]
  BY DEF sent, absorb_handshake
<1>. QED
  BY <1>1, <1>2, <1>3, <1>4 DEF Context

LEMMA AfterReceiving ==
  ASSUME HandshakeInv, NEW r \in Role, may_receive(r), NEW m, m \in ClientHello \cup ServerHello,
         NEW s, s \in CipherSuite \cup {NoSuite}
  PROVE  LET c == context[r]
             e == after_hello(r, m, s) IN
         /\ e \in Context
         /\ e.state = next_when_received(r, c.state)
         /\ e.transcript = Append(c.transcript, m)
         /\ e.attempt = c.attempt /\ e.nonce = c.nonce
         /\ e.peer_nonce = m.nonce /\ e.suite = s
         /\ e.close_notify_seen = c.close_notify_seen
<1>1. context[r] \in Context
  BY DEF HandshakeInv, Typed
<1>2. next_when_received(r, context[r].state) \in HandshakeState
  <2>1. context[r].state \in HandshakeState
    BY <1>1 DEF Context
  <2>. QED
    BY <2>1, StatesMove DEF may_receive, HandshakeState, FirstState, LastState
<1>3. Append(context[r].transcript, m) \in Seq(ClientHello \cup ServerHello)
  <2>1. context[r].transcript \in Seq(ClientHello \cup ServerHello)
    BY <1>1 DEF Context
  <2>. QED
    BY <2>1, AppendProperties
<1>4. m.nonce \in 0..MaxAttempts
  <2>1. m.nonce \in Nonce
    BY DEF ClientHello, ServerHello
  <2>. QED
    BY <2>1, HandshakeBounds, SMT DEF Nonce
<1>5. received(r, m) = [context[r] EXCEPT !.state = next_when_received(r, context[r].state),
                                          !.transcript = Append(context[r].transcript, m),
                                          !.peer_nonce = m.nonce]
  BY DEF received, absorb_handshake
<1>. DEFINE d == received(r, m)
<1>6. /\ d \in Context
      /\ d.state = next_when_received(r, context[r].state)
      /\ d.transcript = Append(context[r].transcript, m)
      /\ d.attempt = context[r].attempt /\ d.nonce = context[r].nonce /\ d.peer_nonce = m.nonce
      /\ d.close_notify_seen = context[r].close_notify_seen
  BY <1>1, <1>2, <1>3, <1>4, <1>5 DEF Context
<1>. HIDE DEF d
<1>7. after_hello(r, m, s) = [d EXCEPT !.suite = s]
  BY DEF d, after_hello
<1>. QED
  BY <1>6, <1>7 DEF Context

LEMMA ClientSends == ASSUME HandshakeInv, send_client_hello PROVE HandshakeInv'
<1>. DEFINE r == "client"
            c == context[r]
            m == client_hello(c.nonce, offer(r), r)
            e == sent(r, m)
<1>1. r \in Role /\ Typed /\ c \in Context /\ ContextOK(r)
  BY DEF Role, HandshakeInv, Typed
<1>2. /\ may_send(r) /\ context' = [context EXCEPT ![r] = e] /\ network' = network \cup {m}
      /\ UNCHANGED <<config, confirmed, held, damage>>
  BY DEF send_client_hello
<1>3. m \in ClientHello
  <2>1. c.nonce \in Nonce /\ offer(r) \in SUBSET SuiteId /\ r \in Limits
    BY <1>1, OffersTyped DEF Context, Limits
  <2>. QED
    BY <2>1 DEF client_hello, ClientHello
<1>4. c.state = "start" /\ c.state \in HandshakeState /\ next_when_sent(r, c.state) = FirstState(r)
  BY <1>1, <1>2, StatesMove DEF may_send, Context
<1>5. Empty(r)
  BY <1>1, <1>4 DEF ContextOK
<1>6. /\ e \in Context /\ e.state = FirstState(r) /\ e.transcript = <<m>>
      /\ e.attempt = c.attempt /\ e.nonce = c.nonce /\ e.suite = NoSuite
      /\ e.close_notify_seen = c.close_notify_seen
  <2>1. /\ e \in Context /\ e.state = FirstState(r) /\ e.transcript = Append(<< >>, m)
        /\ e.attempt = c.attempt /\ e.nonce = c.nonce /\ e.suite = NoSuite
        /\ e.close_notify_seen = c.close_notify_seen
    BY <1>1, <1>2, <1>3, <1>4, <1>5, AfterSending DEF Empty
  <2>2. Append(<< >>, m) = <<m>>
    OBVIOUS
  <2>. QED
    BY <2>1, <2>2
<1>. HIDE DEF e, m
<1>7. /\ context' \in [Role -> Context] /\ context'[r] = e
      /\ \A x \in Role \ {r} : context'[x] = context[x]
  BY <1>1, <1>2, <1>6 DEF Typed
<1>8. HalfWay(r)'
  <2>1. own_hello(r)' = m
    BY <1>1, <1>2, <1>6, <1>7, ConfigKept DEF own_hello, m
  <2>. QED
    BY <1>6, <1>7, <2>1 DEF HalfWay
<1>9. ContextOK(r)'
  <2>1. c.close_notify_seen => FALSE
    BY <1>1, <1>4 DEF ContextOK
  <2>2. /\ e.state = FirstState(r) /\ FirstState(r) # LastState(r) /\ FirstState(r) # "start"
    BY <1>6 DEF FirstState, LastState
  <2>3. e.attempt = e.nonce
    BY <1>1, <1>6 DEF ContextOK
  <2>. QED
    BY <1>6, <1>7, <1>8, <2>1, <2>2, <2>3 DEF ContextOK
<1>10. ~Settled(r)
  BY <1>4 DEF Settled, LastState
<1>11. \A n \in network' : Message(n)
  BY <1>2, <1>3 DEF HandshakeInv, Message
<1>. QED
  BY <1>1, <1>2, <1>6, <1>7, <1>9, <1>10, <1>11, SideMoves DEF HandshakeInv, Typed

\* A hello that arrives has the fields of a hello, however it was damaged.
LEMMA HelloArrives ==
  ASSUME HandshakeInv, NEW m \in network
  PROVE  /\ m.type = "client_hello" => m \in ClientHello
         /\ m.type = "server_hello" => m \in ServerHello
<1>1. Message(m)
  BY DEF HandshakeInv
<1>2. \A x \in ClientHello : x.type = "client_hello"
  BY DEF ClientHello
<1>3. \A x \in ServerHello : x.type = "server_hello"
  BY DEF ServerHello
<1>4. \A r : alert(r).type = "alert"
  BY DEF alert
<1>5. \A r, h : tag(r, h).type = "confirmation"
  BY DEF tag
<1>. QED
  BY <1>1, <1>2, <1>3, <1>4, <1>5 DEF Message

LEMMA ServerReceives ==
  ASSUME HandshakeInv, NEW m \in network, receive_client_hello(m) PROVE HandshakeInv'
<1>. DEFINE r == "server"
            c == context[r]
            s == negotiate(config[r].suites, policy(r), m.offered)
            e == after_hello(r, m, s)
<1>1. r \in Role /\ Typed /\ c \in Context /\ ContextOK(r)
  BY DEF Role, HandshakeInv, Typed
<1>2. /\ may_receive(r) /\ context' = [context EXCEPT ![r] = e]
      /\ UNCHANGED <<config, confirmed, network, held, damage>>
  BY DEF receive_client_hello, after_hello
<1>3. m \in ClientHello /\ m \in PeerHello(r)
  BY HelloArrives DEF receive_client_hello, PeerHello
<1>4. c.state = "start" /\ next_when_received(r, c.state) = FirstState(r)
  BY <1>1, <1>2, StatesMove DEF may_receive, Context
<1>5. Empty(r)
  BY <1>1, <1>4 DEF ContextOK
<1>6. s = decision(r, m) /\ s \in CipherSuite \cup {NoSuite}
  BY <1>1, DecisionTyped DEF decision
<1>. HIDE DEF s
<1>7. /\ e \in Context /\ e.state = FirstState(r) /\ e.transcript = <<m>>
      /\ e.attempt = c.attempt /\ e.nonce = c.nonce /\ e.peer_nonce = m.nonce /\ e.suite = s
      /\ e.close_notify_seen = c.close_notify_seen
  <2>1. Append(<< >>, m) = <<m>>
    OBVIOUS
  <2>2. m \in ClientHello \cup ServerHello
    BY <1>3
  <2>. QED
    BY <1>1, <1>2, <1>4, <1>5, <1>6, <2>1, <2>2, AfterReceiving DEF Empty
<1>. HIDE DEF e
<1>8. /\ context' \in [Role -> Context] /\ context'[r] = e
      /\ \A x \in Role \ {r} : context'[x] = context[x]
  BY <1>1, <1>2, <1>7 DEF Typed
<1>9. HalfWay(r)'
  <2>1. decision(r, m)' = s
    BY <1>1, <1>2, <1>6, ConfigKept
  <2>2. Decided(r, m)'
    BY <1>3, <1>7, <1>8, <2>1 DEF Decided, PeerHello
  <2>. QED
    BY <1>3, <1>7, <1>8, <2>2 DEF HalfWay
<1>10. ContextOK(r)'
  <2>1. c.close_notify_seen => FALSE
    BY <1>1, <1>4 DEF ContextOK
  <2>2. /\ e.state = FirstState(r) /\ FirstState(r) # LastState(r) /\ FirstState(r) # "start"
    BY <1>7 DEF FirstState, LastState
  <2>3. e.attempt = e.nonce
    BY <1>1, <1>7 DEF ContextOK
  <2>. QED
    BY <1>7, <1>8, <1>9, <2>1, <2>2, <2>3 DEF ContextOK
<1>11. ~Settled(r)
  BY <1>4 DEF Settled, LastState
<1>. QED
  BY <1>1, <1>2, <1>7, <1>8, <1>10, <1>11, SideMoves DEF HandshakeInv, Typed

LEMMA ServerSends == ASSUME HandshakeInv, send_server_hello PROVE HandshakeInv'
<1>. DEFINE r == "server"
            c == context[r]
            m == server_hello(c.nonce, c.suite.id, r)
            e == sent(r, m)
<1>1. r \in Role /\ Typed /\ c \in Context /\ ContextOK(r)
  BY DEF Role, HandshakeInv, Typed
<1>2. /\ may_send(r) /\ c.suite # NoSuite
      /\ context' = [context EXCEPT ![r] = e] /\ network' = network \cup {m}
      /\ UNCHANGED <<config, confirmed, held, damage>>
  BY DEF send_server_hello
<1>3. m \in ServerHello
  <2>1. c.nonce \in Nonce /\ c.suite.id \in SuiteId /\ r \in Limits
    BY <1>1, <1>2 DEF Context, Limits, CipherSuite
  <2>. QED
    BY <2>1 DEF server_hello, ServerHello
<1>4. c.state = FirstState(r) /\ next_when_sent(r, c.state) = LastState(r)
  BY <1>1, <1>2, StatesMove DEF may_send, Context
<1>5. HalfWay(r)
  BY <1>1, <1>4 DEF ContextOK
<1>6. PICK n \in ClientHello : c.transcript = <<n>> /\ Decided(r, n)
  BY <1>5 DEF HalfWay
<1>7. /\ e \in Context /\ e.state = LastState(r) /\ e.transcript = <<n, m>>
      /\ e.attempt = c.attempt /\ e.nonce = c.nonce /\ e.peer_nonce = c.peer_nonce
      /\ e.suite = c.suite /\ e.close_notify_seen = c.close_notify_seen
  <2>1. /\ e \in Context /\ e.state = LastState(r) /\ e.transcript = Append(<<n>>, m)
        /\ e.attempt = c.attempt /\ e.nonce = c.nonce /\ e.peer_nonce = c.peer_nonce
        /\ e.suite = c.suite /\ e.close_notify_seen = c.close_notify_seen
    <3>. HIDE DEF m
    <3>. QED
      BY <1>1, <1>2, <1>3, <1>4, <1>6, AfterSending
  <2>2. Append(<<n>>, m) = <<n, m>>
    BY PairAppended
  <2>. QED
    BY <2>1, <2>2
<1>. HIDE DEF e, m
<1>8. /\ context' \in [Role -> Context] /\ context'[r] = e
      /\ \A x \in Role \ {r} : context'[x] = context[x]
  BY <1>1, <1>2, <1>7 DEF Typed
<1>9. Exchanged(r)'
  <2>1. own_hello(r)' = m
    BY <1>7, <1>8 DEF own_hello, m
  <2>2. Decided(r, n)'
    <3>1. decision(r, n)' = decision(r, n)
      BY <1>1, <1>2, ConfigKept
    <3>. QED
      BY <1>6, <1>7, <1>8, <3>1 DEF Decided
  <2>3. n \in PeerHello(r) /\ context'[r].transcript = <<n, m>>
    BY <1>7, <1>8 DEF PeerHello
  <2>. QED
    BY <2>1, <2>2, <2>3 DEF Exchanged, PeerHello
<1>10. ContextOK(r)'
  <2>1. c.close_notify_seen => FALSE
    BY <1>1, <1>4 DEF ContextOK, FirstState
  <2>2. /\ e.state = LastState(r) /\ FirstState(r) # LastState(r) /\ LastState(r) # "start"
    BY <1>7 DEF FirstState, LastState
  <2>3. e.attempt = e.nonce
    BY <1>1, <1>7 DEF ContextOK
  <2>. QED
    BY <1>7, <1>8, <1>9, <2>1, <2>2, <2>3 DEF ContextOK
<1>11. ~Settled(r)
  BY <1>4 DEF Settled, LastState, FirstState
<1>12. \A x \in network' : Message(x)
  BY <1>2, <1>3 DEF HandshakeInv, Message
<1>. QED
  BY <1>1, <1>2, <1>7, <1>8, <1>10, <1>11, <1>12, SideMoves DEF HandshakeInv, Typed

LEMMA ClientReceives ==
  ASSUME HandshakeInv, NEW m \in network, receive_server_hello(m) PROVE HandshakeInv'
<1>. DEFINE r == "client"
            c == context[r]
            s == choice(m.id)
            e == after_hello(r, m, s)
            own == own_hello(r)
<1>1. r \in Role /\ Typed /\ c \in Context /\ ContextOK(r)
  BY DEF Role, HandshakeInv, Typed
<1>2. /\ may_receive(r) /\ context' = [context EXCEPT ![r] = e]
      /\ UNCHANGED <<config, confirmed, network, held, damage>>
  BY DEF receive_server_hello, after_hello
<1>3. m \in ServerHello /\ m \in PeerHello(r)
  BY HelloArrives DEF receive_server_hello, PeerHello
<1>4. c.state = FirstState(r) /\ next_when_received(r, c.state) = LastState(r)
  BY <1>1, <1>2, StatesMove DEF may_receive, Context
<1>5. c.transcript = <<own>>
  BY <1>1, <1>4 DEF ContextOK, HalfWay
<1>6. s = decision(r, m) /\ s \in CipherSuite \cup {NoSuite}
  BY <1>1, DecisionTyped DEF decision
<1>. HIDE DEF s, own
<1>7. /\ e \in Context /\ e.state = LastState(r) /\ e.transcript = <<own, m>>
      /\ e.attempt = c.attempt /\ e.nonce = c.nonce /\ e.peer_nonce = m.nonce /\ e.suite = s
      /\ e.close_notify_seen = c.close_notify_seen
  <2>1. m \in ClientHello \cup ServerHello
    BY <1>3
  <2>. QED
    BY <1>1, <1>2, <1>4, <1>5, <1>6, <2>1, AfterReceiving, PairAppended
<1>. HIDE DEF e
<1>8. /\ context' \in [Role -> Context] /\ context'[r] = e
      /\ \A x \in Role \ {r} : context'[x] = context[x]
  BY <1>1, <1>2, <1>7 DEF Typed
<1>9. Exchanged(r)'
  <2>1. own_hello(r)' = own
    BY <1>1, <1>2, <1>7, <1>8, ConfigKept DEF own_hello, own
  <2>2. Decided(r, m)'
    <3>1. decision(r, m)' = s
      BY <1>1, <1>2, <1>6, ConfigKept
    <3>. QED
      BY <1>3, <1>7, <1>8, <3>1 DEF Decided
  <2>3. context'[r].transcript = <<own, m>>
    BY <1>7, <1>8
  <2>. QED
    BY <1>3, <2>1, <2>2, <2>3 DEF Exchanged
<1>10. ContextOK(r)'
  <2>1. c.close_notify_seen => FALSE
    BY <1>1, <1>4 DEF ContextOK, FirstState
  <2>2. /\ e.state = LastState(r) /\ FirstState(r) # LastState(r) /\ LastState(r) # "start"
    BY <1>7 DEF FirstState, LastState
  <2>3. e.attempt = e.nonce
    BY <1>1, <1>7 DEF ContextOK
  <2>. QED
    BY <1>7, <1>8, <1>9, <2>1, <2>2, <2>3 DEF ContextOK
<1>11. ~Settled(r)
  BY <1>4 DEF Settled, LastState, FirstState
<1>. QED
  BY <1>1, <1>2, <1>7, <1>8, <1>10, <1>11, SideMoves DEF HandshakeInv, Typed

\* An alert changes the state of a side and nothing of what it has seen.
LEMMA Closes ==
  ASSUME HandshakeInv, NEW r \in Role, NEW b \in BOOLEAN, UNCHANGED <<config, confirmed, held, damage>>,
         context' = [context EXCEPT ![r] = [context[r] EXCEPT !.state = "closed", !.close_notify_seen = b]],
         \A m \in network' : Message(m)
  PROVE  HandshakeInv'
<1>. DEFINE c == context[r]
            e == [c EXCEPT !.state = "closed", !.close_notify_seen = b]
<1>1. Typed /\ c \in Context /\ ContextOK(r)
  BY DEF HandshakeInv, Typed
<1>2. context' = [context EXCEPT ![r] = e]
  OBVIOUS
<1>3. /\ e \in Context /\ e.state = "closed" /\ e.transcript = c.transcript
      /\ e.attempt = c.attempt /\ e.nonce = c.nonce /\ e.peer_nonce = c.peer_nonce
      /\ e.suite = c.suite
  <2>1. "closed" \in HandshakeState
    BY DEF HandshakeState
  <2>. QED
    BY <1>1, <2>1 DEF Context
<1>. HIDE DEF e
<1>4. /\ context' \in [Role -> Context] /\ context'[r] = e
      /\ \A x \in Role \ {r} : context'[x] = context[x]
  BY <1>1, <1>2, <1>3 DEF Typed
<1>5. own_hello(r)' = own_hello(r)
  BY <1>3, <1>4, ConfigKept DEF own_hello
<1>6. \A m : Decided(r, m) => Decided(r, m)'
  <2>1. \A m : decision(r, m)' = decision(r, m)
    BY ConfigKept
  <2>. QED
    BY <1>3, <1>4, <2>1 DEF Decided, PeerHello
<1>7. /\ Empty(r) => Empty(r)'
      /\ HalfWay(r) => HalfWay(r)'
      /\ Exchanged(r) => Exchanged(r)'
  <2>1. Empty(r) => Empty(r)'
    BY <1>3, <1>4 DEF Empty
  <2>2. HalfWay(r) => HalfWay(r)'
    BY <1>3, <1>4, <1>5, <1>6 DEF HalfWay
  <2>3. Exchanged(r) => Exchanged(r)'
    BY <1>3, <1>4, <1>5, <1>6 DEF Exchanged, PeerHello
  <2>. QED
    BY <2>1, <2>2, <2>3
<1>8. ContextOK(r)'
  <2>1. "closed" # FirstState(r) /\ "closed" # LastState(r)
    BY DEF FirstState, LastState
  <2>2. e.attempt = e.nonce /\ (Empty(r)' \/ HalfWay(r)' \/ Exchanged(r)')
    BY <1>1, <1>3, <1>7 DEF ContextOK
  <2>. QED
    BY <1>3, <1>4, <2>1, <2>2 DEF ContextOK
<1>9. Settled(r) => Settled(r)' /\ view(r)' = view(r)
  <2>1. hello(r)' = hello(r)
    BY <1>3, <1>4 DEF hello
  <2>2. view(r)' = view(r)
    BY <1>3, <1>4, <2>1 DEF view
  <2>3. Settled(r) => Settled(r)'
    BY <1>3, <1>4, <1>7 DEF Settled
  <2>. QED
    BY <2>2, <2>3
<1>. QED
  BY <1>1, <1>3, <1>4, <1>8, <1>9, SideMoves DEF Typed

LEMMA Alerts ==
  ASSUME HandshakeInv, NEW r \in Role,
         send_alert(r) \/ (\E m \in network : receive_alert(r, m))
  PROVE  HandshakeInv'
<1>1. context[r] \in Context
  BY DEF HandshakeInv, Typed
<1>2. CASE send_alert(r)
  <2>1. context[r].close_notify_seen \in BOOLEAN
    BY <1>1 DEF Context
  <2>2. [context[r] EXCEPT !.state = "closed"] =
          [context[r] EXCEPT !.state = "closed", !.close_notify_seen = context[r].close_notify_seen]
    BY <1>1 DEF Context
  <2>3. /\ context' = [context EXCEPT ![r] = [context[r] EXCEPT !.state = "closed"]]
        /\ UNCHANGED <<config, confirmed, held, damage>> /\ network' = network \cup {alert(r)}
    BY <1>2 DEF send_alert
  <2>4. \A m \in network' : Message(m)
    BY <2>3 DEF HandshakeInv, Message
  <2>. QED
    BY <2>1, <2>2, <2>3, <2>4, Closes
<1>3. CASE \E m \in network : receive_alert(r, m)
  <2>1. /\ context' = [context EXCEPT ![r] = [context[r] EXCEPT !.state = "closed", !.close_notify_seen = TRUE]]
        /\ UNCHANGED <<config, confirmed, held, damage>> /\ network' = network
    BY <1>3 DEF receive_alert
  <2>2. \A m \in network' : Message(m)
    BY <2>1 DEF HandshakeInv
  <2>. QED
    BY <2>1, <2>2, Closes
<1>. QED
  BY <1>2, <1>3

LEMMA BeginsAgain == ASSUME HandshakeInv, NEW r \in Role, begin_again(r) PROVE HandshakeInv'
<1>. DEFINE c == context[r]
            e == fresh_context(c.attempt + 1, c.nonce + 1)
<1>1. Typed /\ c \in Context /\ ContextOK(r)
  BY DEF HandshakeInv, Typed
<1>2. /\ c.attempt < MaxAttempts /\ context' = [context EXCEPT ![r] = e]
      /\ confirmed' = [confirmed EXCEPT ![r] = FALSE]
      /\ UNCHANGED <<config, network, held, damage>>
  BY DEF begin_again
<1>3. c.attempt = c.nonce /\ c.attempt \in Nonce
  BY <1>1 DEF ContextOK, Context
<1>4. c.attempt + 1 \in Nonce /\ c.attempt + 1 > c.attempt /\ 0 \in 0..MaxAttempts
  BY <1>2, <1>3, HandshakeBounds, SMT DEF Nonce
<1>5. /\ e \in Context /\ e.state = "start" /\ e.attempt = c.attempt + 1 /\ e.nonce = c.attempt + 1
      /\ e.transcript = << >> /\ e.suite = NoSuite /\ e.close_notify_seen = FALSE
  <2>1. "start" \in HandshakeState /\ << >> \in Seq(ClientHello \cup ServerHello)
    BY DEF HandshakeState
  <2>. QED
    BY <1>3, <1>4, <2>1 DEF fresh_context, Context
<1>. HIDE DEF e
<1>6. /\ context' \in [Role -> Context] /\ context'[r] = e
      /\ \A x \in Role \ {r} : context'[x] = context[x]
  BY <1>1, <1>2, <1>5 DEF Typed
<1>7. Empty(r)'
  BY <1>5, <1>6 DEF Empty
<1>8. ContextOK(r)'
  <2>1. "start" # FirstState(r) /\ "start" # LastState(r)
    BY DEF FirstState, LastState
  <2>. QED
    BY <1>5, <1>6, <1>7, <2>1 DEF ContextOK
<1>9. /\ confirmed' \in [Role -> BOOLEAN] /\ ~confirmed'[r]
      /\ \A x \in Role \ {r} : confirmed'[x] = confirmed[x]
  BY <1>1, <1>2 DEF Typed
<1>10. context'[r].attempt > context[r].attempt
  BY <1>4, <1>5, <1>6
<1>. QED
  BY <1>1, <1>2, <1>6, <1>8, <1>9, <1>10, SideMoves DEF HandshakeInv

\* What a side has agreed to when it can make its tag.
LEMMA ViewAgrees ==
  ASSUME HandshakeInv, NEW r \in Role, Settled(r)
  PROVE  Agreement(view(r))
<1>1. Typed /\ context[r] \in Context /\ ContextOK(r)
  BY DEF HandshakeInv, Typed
<1>2. context[r].attempt \in Nonce /\ context[r].attempt = context[r].nonce
  BY <1>1 DEF ContextOK, Context
<1>. DEFINE c == context[r]
            own == own_hello(r)
<1>3. /\ view(r).role = r /\ view(r).attempt = c.attempt /\ view(r).suite = c.suite
      /\ view(r).seen = c.transcript /\ view(r).hello = hello(r)
  BY DEF view
<1>4. PICK m \in PeerHello(r) :
        c.transcript = (IF r = "client" THEN <<own, m>> ELSE <<m, own>>) /\ Decided(r, m)
  BY DEF Settled, Exchanged
<1>5. c.suite # NoSuite /\ c.peer_nonce = m.nonce /\ c.suite = decision(r, m)
  BY <1>4 DEF Settled, Decided
<1>6. CASE r = "client"
  <2>1. own = client_hello(c.attempt, offer("client"), "client") /\ own.nonce = c.nonce
    BY <1>2, <1>6 DEF own_hello, client_hello
  <2>2. own \in ClientHello
    <3>1. c.attempt \in Nonce /\ offer("client") \in SUBSET SuiteId /\ "client" \in Limits
      BY <1>1, <1>2, <1>6, OffersTyped DEF Limits
    <3>. QED
      BY <2>1, <3>1 DEF client_hello, ClientHello
  <2>. HIDE DEF own
  <2>3. c.transcript = <<own, m>> /\ m \in ServerHello
    BY <1>4, <1>6 DEF PeerHello
  <2>4. hello(r) = bound_hello(own, m)
    BY <1>5, <1>6, <2>1, <2>3 DEF hello, bound_hello
  <2>5. view(r).role = "client" /\ "client" # "server"
    BY <1>3, <1>6
  <2>. QED
    BY <1>2, <1>3, <1>5, <1>6, <2>1, <2>2, <2>3, <2>4, <2>5 DEF Agreement
<1>7. CASE r = "server"
  <2>1. own = server_hello(c.attempt, c.suite.id, "server") /\ own.nonce = c.nonce
    BY <1>2, <1>7 DEF own_hello, server_hello
  <2>2. own \in ServerHello
    <3>1. c.attempt \in Nonce /\ c.suite.id \in SuiteId /\ "server" \in Limits
      BY <1>1, <1>2, <1>5, <1>7 DEF Limits, Context, CipherSuite, Role
    <3>. QED
      BY <2>1, <3>1 DEF server_hello, ServerHello
  <2>. HIDE DEF own
  <2>3. c.transcript = <<m, own>> /\ m \in ClientHello
    BY <1>4, <1>7 DEF PeerHello
  <2>4. hello(r) = bound_hello(m, own)
    BY <1>5, <1>7, <2>1, <2>3 DEF hello, bound_hello
  <2>5. view(r).role = "server" /\ "client" # "server"
    BY <1>3, <1>7
  <2>. QED
    BY <1>2, <1>3, <1>5, <1>7, <2>1, <2>2, <2>3, <2>4, <2>5 DEF Agreement
<1>. QED
  BY <1>6, <1>7 DEF Role

LEMMA AgreedIsSettled ==
  ASSUME HandshakeInv, NEW r \in Role, agreed(r)
  PROVE  Settled(r)
<1>1. ContextOK(r)
  BY DEF HandshakeInv
<1>2. context[r].state = LastState(r) /\ context[r].suite # NoSuite
  BY <1>1 DEF agreed, ContextOK, FirstState, LastState, Role
<1>. QED
  BY <1>1, <1>2 DEF ContextOK, Settled

LEMMA Confirms == ASSUME HandshakeInv, NEW r \in Role, send_confirmation(r) PROVE HandshakeInv'
<1>. DEFINE v == view(r)
<1>1. Typed /\ Settled(r)
  BY AgreedIsSettled DEF HandshakeInv, send_confirmation
<1>2. /\ held' = held \cup {v} /\ network' = network \cup {tag(r, hello(r))}
      /\ UNCHANGED <<config, context, confirmed, damage>>
  BY DEF send_confirmation, view
<1>3. v.role = r /\ v.hello = hello(r) /\ v.attempt = context[r].attempt /\ context[r].attempt \in Nat
  BY <1>1, SMT DEF view, Typed, Context, Nonce
<1>4. Agreement(v)
  BY <1>1, ViewAgrees
<1>. HIDE DEF v
<1>5. \A x \in Role : /\ ContextOK(x)' <=> ContextOK(x)
                      /\ Settled(x)' <=> Settled(x)
                      /\ view(x)' = view(x) /\ hello(x)' = hello(x)
  BY <1>2, SideKept
<1>6. Typed' /\ (\A x \in Role : ContextOK(x)')
  BY <1>2, <1>5 DEF HandshakeInv, Typed
<1>7. HeldAgree'
  BY <1>2, <1>4, ConfigKept DEF HandshakeInv, HeldAgree
<1>8. HeldCurrent'
  <2>. SUFFICES ASSUME NEW h \in held'
                PROVE  /\ h.attempt <= context[h.role].attempt
                       /\ h.attempt = context[h.role].attempt => Settled(h.role)' /\ h = view(h.role)'
    BY <1>2 DEF HeldCurrent
  <2>1. CASE h \in held
    <3>1. h.role \in Role
      BY <2>1 DEF HandshakeInv, HeldAgree, Agreement
    <3>. QED
      BY <1>5, <2>1, <3>1 DEF HandshakeInv, HeldCurrent
  <2>2. CASE h = v
    <3>1. context[r].attempt <= context[r].attempt
      BY <1>3, SMT
    <3>. QED
      BY <1>1, <1>3, <1>5, <2>2, <3>1 DEF v
  <2>. QED
    BY <1>2, <2>1, <2>2
<1>9. HeldOnce'
  <2>1. \A h \in held : h.role = v.role /\ h.attempt = v.attempt => h = v
    BY <1>3 DEF HandshakeInv, HeldCurrent, v
  <2>. QED
    BY <1>2, <2>1 DEF HandshakeInv, HeldOnce
<1>10. ConfirmedHeld'
  BY <1>2, <1>5 DEF HandshakeInv, ConfirmedHeld
<1>11. \A m \in network' : Message(m)'
  BY <1>2, <1>3 DEF HandshakeInv, Message
<1>. QED
  BY <1>6, <1>7, <1>8, <1>9, <1>10, <1>11 DEF HandshakeInv

\* Only an agreement of the peer makes the tag that a side accepts.
LEMMA Verifies ==
  ASSUME HandshakeInv, NEW r \in Role, NEW m \in network, verify_confirmation(r, m)
  PROVE  HandshakeInv'
<1>1. Typed /\ Settled(r) /\ Message(m)
  BY AgreedIsSettled DEF HandshakeInv, verify_confirmation
<1>2. /\ m = tag(peer(r), hello(r)) /\ confirmed' = [confirmed EXCEPT ![r] = TRUE]
      /\ UNCHANGED <<config, context, network, held, damage>>
  BY DEF verify_confirmation
<1>3. PICK h \in held : h.role = peer(r) /\ h.hello = hello(r)
  <2>1. m.type = "confirmation" /\ m.role = peer(r) /\ m.hello = hello(r)
    BY <1>2 DEF tag
  <2>2. m \notin ClientHello /\ m \notin ServerHello
    BY <2>1 DEF ClientHello, ServerHello
  <2>3. \A x : alert(x).type = "alert"
    BY DEF alert
  <2>4. PICK h \in held : m = tag(h.role, h.hello)
    BY <1>1, <2>1, <2>2, <2>3 DEF Message
  <2>5. m.role = h.role /\ m.hello = h.hello
    BY <2>4 DEF tag
  <2>. QED
    BY <2>1, <2>5
<1>4. \A x \in Role : /\ ContextOK(x)' <=> ContextOK(x)
                      /\ Settled(x)' <=> Settled(x)
                      /\ view(x)' = view(x) /\ hello(x)' = hello(x)
  BY <1>2, SideKept
<1>5. Typed' /\ (\A x \in Role : ContextOK(x)')
  BY <1>1, <1>2, <1>4 DEF HandshakeInv, Typed
<1>6. HeldAgree' /\ HeldOnce'
  BY <1>2, ConfigKept DEF HandshakeInv, HeldAgree, HeldOnce
<1>7. HeldCurrent'
  <2>1. \A g \in held : g.role \in Role
    BY DEF HandshakeInv, HeldAgree, Agreement
  <2>. QED
    BY <1>2, <1>4, <2>1 DEF HandshakeInv, HeldCurrent
<1>8. ConfirmedHeld'
  <2>1. \A x \in Role : confirmed'[x] => x = r \/ confirmed[x]
    BY <1>1, <1>2 DEF Typed
  <2>. QED
    BY <1>1, <1>2, <1>3, <1>4, <2>1 DEF HandshakeInv, ConfirmedHeld
<1>9. \A x \in network' : Message(x)'
  BY <1>2 DEF HandshakeInv, Message
<1>. QED
  BY <1>5, <1>6, <1>7, <1>8, <1>9 DEF HandshakeInv

LEMMA Damages == ASSUME HandshakeInv, NEW m \in network, Damage(m) PROVE HandshakeInv'
<1>1. /\ damage < MaxDamage /\ damage' = damage + 1
      /\ UNCHANGED <<config, context, confirmed, held>>
  BY DEF Damage
<1>2. PICK d \in damaged(m) : network' = network \cup {d}
  BY DEF Damage
<1>3. Message(d)
  <2>1. m.type \in {"client_hello", "server_hello"}
    BY <1>2 DEF damaged
  <2>2. "other" \in Limits
    BY DEF Limits
  <2>3. CASE m.type = "client_hello"
    <3>1. m \in ClientHello
      BY <2>3, HelloArrives
    <3>2. CASE d = [m EXCEPT !.limits = "other"]
      BY <2>2, <3>1, <3>2 DEF ClientHello, Message
    <3>3. CASE \E id \in m.offered : d = [m EXCEPT !.offered = m.offered \ {id}]
      <4>1. PICK id \in m.offered : d = [m EXCEPT !.offered = m.offered \ {id}]
        BY <3>3
      <4>2. m.offered \ {id} \in SUBSET SuiteId
        BY <3>1 DEF ClientHello
      <4>. QED
        BY <3>1, <4>1, <4>2 DEF ClientHello, Message
    <3>. QED
      BY <1>2, <2>3, <3>2, <3>3 DEF damaged
  <2>4. CASE m.type = "server_hello"
    <3>1. m \in ServerHello
      BY <2>4, HelloArrives
    <3>2. CASE d = [m EXCEPT !.limits = "other"]
      BY <2>2, <3>1, <3>2 DEF ServerHello, Message
    <3>3. CASE \E id \in offer("client") : d = [m EXCEPT !.id = id]
      <4>1. PICK id \in offer("client") : d = [m EXCEPT !.id = id]
        BY <3>3
      <4>2. id \in SuiteId
        BY <4>1, OffersTyped DEF HandshakeInv, Role
      <4>. QED
        BY <3>1, <4>1, <4>2 DEF ServerHello, Message
    <3>. QED
      BY <1>2, <2>4, <3>2, <3>3 DEF damaged
  <2>. QED
    BY <2>1, <2>3, <2>4
<1>4. \A x \in Role : /\ ContextOK(x)' <=> ContextOK(x)
                      /\ Settled(x)' <=> Settled(x)
                      /\ view(x)' = view(x) /\ hello(x)' = hello(x)
  BY <1>1, SideKept
<1>5. Typed' /\ (\A x \in Role : ContextOK(x)')
  <2>1. damage' \in 0..MaxDamage
    BY <1>1, HandshakeBounds, SMT DEF HandshakeInv, Typed
  <2>. QED
    BY <1>1, <1>4, <2>1 DEF HandshakeInv, Typed
<1>6. HeldAgree' /\ HeldOnce'
  BY <1>1, ConfigKept DEF HandshakeInv, HeldAgree, HeldOnce
<1>7. HeldCurrent'
  <2>1. \A g \in held : g.role \in Role
    BY DEF HandshakeInv, HeldAgree, Agreement
  <2>. QED
    BY <1>1, <1>4, <2>1 DEF HandshakeInv, HeldCurrent
<1>8. ConfirmedHeld'
  BY <1>1, <1>4 DEF HandshakeInv, ConfirmedHeld
<1>9. \A x \in network' : Message(x)'
  BY <1>1, <1>2, <1>3 DEF HandshakeInv, Message
<1>. QED
  BY <1>5, <1>6, <1>7, <1>8, <1>9 DEF HandshakeInv

-----------------------------------------------------------------------------
(* The invariant. *)

LEMMA HandshakeBegins == HandshakeInit => HandshakeInv
<1>. SUFFICES ASSUME HandshakeInit PROVE HandshakeInv
  OBVIOUS
<1>. DEFINE e == fresh_context(1, 1)
<1>1. /\ config \in [Role -> [profile : Profiles, suites : SuiteLists]]
      /\ context = [r \in Role |-> e] /\ confirmed = [r \in Role |-> FALSE]
      /\ network = {} /\ held = {} /\ damage = 0
  BY DEF HandshakeInit
<1>2. /\ e \in Context /\ e.state = "start" /\ e.attempt = e.nonce
      /\ e.transcript = << >> /\ e.suite = NoSuite /\ e.close_notify_seen = FALSE
  <2>1. "start" \in HandshakeState /\ << >> \in Seq(ClientHello \cup ServerHello)
    BY DEF HandshakeState
  <2>2. 1 \in Nonce /\ 0 \in 0..MaxAttempts
    BY HandshakeBounds, SMT DEF Nonce
  <2>. QED
    BY <2>1, <2>2 DEF fresh_context, Context
<1>. HIDE DEF e
<1>3. \A r \in Role : context[r] = e
  BY <1>1
<1>4. \A r \in Role : ContextOK(r)
  BY <1>2, <1>3 DEF ContextOK, Empty, FirstState, LastState
<1>5. Typed
  <2>1. 0 \in 0..MaxDamage
    BY HandshakeBounds, SMT
  <2>. QED
    BY <1>1, <1>2, <2>1 DEF Typed
<1>6. HeldAgree /\ HeldCurrent /\ HeldOnce /\ ConfirmedHeld /\ (\A m \in network : Message(m))
  BY <1>1 DEF HeldAgree, HeldCurrent, HeldOnce, ConfirmedHeld
<1>. QED
  BY <1>4, <1>5, <1>6 DEF HandshakeInv

LEMMA HandshakeContinues == HandshakeInv /\ [HandshakeNext]_hvars => HandshakeInv'
<1>. SUFFICES ASSUME HandshakeInv, [HandshakeNext]_hvars PROVE HandshakeInv'
  OBVIOUS
<1>1. CASE send_client_hello
  BY <1>1, ClientSends
<1>2. CASE send_server_hello
  BY <1>2, ServerSends
<1>3. ASSUME NEW m \in network, receive_client_hello(m) PROVE HandshakeInv'
  BY <1>3, ServerReceives
<1>4. ASSUME NEW m \in network, receive_server_hello(m) PROVE HandshakeInv'
  BY <1>4, ClientReceives
<1>5. ASSUME NEW m \in network, Damage(m) PROVE HandshakeInv'
  BY <1>5, Damages
<1>6. ASSUME NEW r \in Role, send_alert(r) \/ \E m \in network : receive_alert(r, m)
      PROVE  HandshakeInv'
  BY <1>6, Alerts
<1>7. ASSUME NEW r \in Role, send_confirmation(r) PROVE HandshakeInv'
  BY <1>7, Confirms
<1>8. ASSUME NEW r \in Role, begin_again(r) PROVE HandshakeInv'
  BY <1>8, BeginsAgain
<1>9. ASSUME NEW r \in Role, NEW m \in network, verify_confirmation(r, m) PROVE HandshakeInv'
  BY <1>9, Verifies
<1>10. CASE UNCHANGED hvars
  <2>1. UNCHANGED <<config, context, confirmed, network, held, damage>>
    BY <1>10 DEF hvars
  <2>2. \A x \in Role : /\ ContextOK(x)' <=> ContextOK(x)
                        /\ Settled(x)' <=> Settled(x)
                        /\ view(x)' = view(x) /\ hello(x)' = hello(x)
    BY <2>1, SideKept
  <2>3. \A g \in held : g.role \in Role
    BY DEF HandshakeInv, HeldAgree, Agreement
  <2>4. HeldAgree' /\ HeldOnce' /\ HeldCurrent' /\ ConfirmedHeld'
    BY <2>1, <2>2, <2>3, ConfigKept DEF HandshakeInv, HeldAgree, HeldOnce, HeldCurrent, ConfirmedHeld
  <2>. QED
    BY <2>1, <2>2, <2>4 DEF HandshakeInv, Typed, Message
<1>. QED
  BY <1>1, <1>2, <1>3, <1>4, <1>5, <1>6, <1>7, <1>8, <1>9, <1>10 DEF HandshakeNext

LEMMA HandshakeInvariant == HandshakeSpec => []HandshakeInv
<1>1. HandshakeInit => HandshakeInv
  BY HandshakeBegins
<1>2. HandshakeInv /\ [HandshakeNext]_hvars => HandshakeInv'
  BY HandshakeContinues
<1>. QED
  BY <1>1, <1>2, PTL DEF HandshakeSpec

-----------------------------------------------------------------------------
(* What the invariant says of a session. *)

LEMMA AgreementFields ==
  ASSUME NEW h, Agreement(h)
  PROVE  /\ h.hello.transcript = h.seen
         /\ h.role = "client" => h.hello.client_nonce = h.attempt
         /\ h.role = "server" => h.hello.server_nonce = h.attempt
<1>1. PICK c \in ClientHello, s \in ServerHello :
        /\ h.seen = <<c, s>> /\ h.hello = bound_hello(c, s)
        /\ h.role = "client" => c = client_hello(h.attempt, offer("client"), "client")
        /\ h.role = "server" => s = server_hello(h.attempt, h.suite.id, "server")
  BY DEF Agreement
<1>2. /\ bound_hello(c, s).transcript = <<c, s>>
      /\ bound_hello(c, s).client_nonce = c.nonce /\ bound_hello(c, s).server_nonce = s.nonce
  BY DEF bound_hello
<1>3. h.role = "client" => c.nonce = h.attempt
  BY <1>1 DEF client_hello
<1>4. h.role = "server" => s.nonce = h.attempt
  BY <1>1 DEF server_hello
<1>. QED
  BY <1>1, <1>2, <1>3, <1>4

\* Both sides of a session, as agreements on one hello.
LEMMA BothSides ==
  ASSUME HandshakeInv, NEW r \in Role, confirmed[r]
  PROVE  \E g, h : /\ Agreement(g) /\ Agreement(h) /\ g.role = "client" /\ h.role = "server"
                   /\ g.hello = hello(r) /\ h.hello = hello(r)
                   /\ IF r = "client" THEN g = view(r) /\ h \in held ELSE h = view(r) /\ g \in held
<1>1. Settled(r) /\ Agreement(view(r))
  BY ViewAgrees DEF HandshakeInv, ConfirmedHeld
<1>2. view(r).role = r /\ view(r).hello = hello(r)
  BY DEF view
<1>3. PICK h \in held : h.role = peer(r) /\ h.hello = hello(r) /\ Agreement(h)
  BY DEF HandshakeInv, ConfirmedHeld, HeldAgree
<1>4. CASE r = "client"
  BY <1>1, <1>2, <1>3, <1>4 DEF peer
<1>5. CASE r = "server"
  BY <1>1, <1>2, <1>3, <1>5 DEF peer
<1>. QED
  BY <1>4, <1>5 DEF Role

LEMMA InvConfirmedAgree == HandshakeInv => ConfirmedAgree
<1>. SUFFICES ASSUME HandshakeInv, NEW r \in Role, confirmed[r]
              PROVE  \E h \in held :
                       /\ h.role = peer(r)
                       /\ h.hello = hello(r) /\ h.seen = context[r].transcript
                       /\ h.suite = context[r].suite
                       /\ context[r].transcript =
                            <<client_hello(hello(r).client_nonce, offer("client"), "client"),
                              server_hello(hello(r).server_nonce, h.suite.id, "server")>>
  BY DEF ConfirmedAgree
<1>1. PICK g, h : /\ Agreement(g) /\ Agreement(h) /\ g.role = "client" /\ h.role = "server"
                  /\ g.hello = hello(r) /\ h.hello = hello(r)
                  /\ IF r = "client" THEN g = view(r) /\ h \in held ELSE h = view(r) /\ g \in held
  BY BothSides
<1>2. /\ g.suite = h.suite
      /\ h.seen = <<client_hello(h.hello.client_nonce, offer("client"), "client"),
                    server_hello(h.hello.server_nonce, h.suite.id, "server")>>
  BY <1>1, SameHelloSameSuite DEF HandshakeInv
<1>3. g.seen = h.seen
  BY <1>1, AgreementFields
<1>4. view(r).seen = context[r].transcript /\ view(r).suite = context[r].suite
  BY DEF view
<1>5. CASE r = "client"
  <2>1. h \in held /\ h.role = peer(r) /\ h.seen = context[r].transcript /\ h.suite = context[r].suite
    BY <1>1, <1>2, <1>3, <1>4, <1>5 DEF peer
  <2>. QED
    BY <1>1, <1>2, <2>1
<1>6. CASE r = "server"
  <2>1. /\ g \in held /\ g.role = peer(r) /\ g.seen = context[r].transcript
        /\ g.suite = context[r].suite /\ h.seen = context[r].transcript
    BY <1>1, <1>2, <1>3, <1>4, <1>6 DEF peer
  <2>. QED
    BY <1>1, <1>2, <2>1
<1>. QED
  BY <1>5, <1>6 DEF Role

LEMMA InvNoDowngrade == HandshakeInv => ConfirmedSuiteIsNoDowngrade
<1>. SUFFICES ASSUME HandshakeInv, NEW r \in Role, confirmed[r]
              PROVE  LET s == context[r].suite
                     IN /\ \A q \in Role : validate_suite(s, policy(q)) /\ s.id \in offer(q)
                        /\ \A i \in DOMAIN default_cipher_suites :
                             LET d == default_cipher_suites[i]
                             IN d.id \in offer("client") =>
                                  d.security_level <= s.security_level /\ (d.hybrid => s.hybrid)
  BY DEF ConfirmedSuiteIsNoDowngrade
<1>1. PICK g, h : /\ Agreement(g) /\ Agreement(h) /\ g.role = "client" /\ h.role = "server"
                  /\ g.hello = hello(r) /\ h.hello = hello(r)
                  /\ IF r = "client" THEN g = view(r) /\ h \in held ELSE h = view(r) /\ g \in held
  BY BothSides
<1>2. Typed /\ "client" \in Role /\ "server" \in Role
  BY DEF HandshakeInv, Role
<1>3. g.suite = h.suite
  BY <1>1, <1>2, SameHelloSameSuite
<1>. DEFINE s == context[r].suite
<1>4. g.suite = s /\ h.suite = s
  <2>1. view(r).suite = s
    BY DEF view
  <2>. QED
    BY <1>1, <1>3, <2>1
<1>5. /\ s \in CipherSuite /\ validate_suite(s, policy("client")) /\ s.id \in offer("client")
      /\ ~reject_downgrade(offer("client"), s)
  <2>1. PICK m \in ServerHello : g.suite = decision("client", m) /\ g.suite # NoSuite
    BY <1>1 DEF Agreement
  <2>. QED
    BY <1>2, <1>4, <2>1, DecisionSound
<1>6. validate_suite(s, policy("server")) /\ s.id \in offer("server")
  <2>1. PICK m \in ClientHello : h.suite = decision("server", m) /\ h.suite # NoSuite
    BY <1>1 DEF Agreement
  <2>. QED
    BY <1>2, <1>4, <2>1, DecisionSound
<1>. HIDE DEF s
<1>7. ASSUME NEW i \in DOMAIN default_cipher_suites, default_cipher_suites[i].id \in offer("client")
      PROVE  /\ default_cipher_suites[i].security_level <= s.security_level
             /\ default_cipher_suites[i].hybrid => s.hybrid
  <2>. DEFINE d == default_cipher_suites[i]
  <2>1. d \in known(offer("client")) /\ d.security_level = 3
    BY <1>7, BuiltIn
  <2>2. ~(d.security_level > s.security_level) /\ ~(d.hybrid /\ ~s.hybrid)
    BY <1>5, <2>1 DEF reject_downgrade
  <2>3. s.security_level \in Int
    BY <1>5 DEF CipherSuite
  <2>4. d.security_level <= s.security_level
    BY <2>1, <2>2, <2>3, SMT
  <2>. QED
    BY <2>2, <2>4
<1>8. \A q \in Role : validate_suite(s, policy(q)) /\ s.id \in offer(q)
  BY <1>5, <1>6 DEF Role
<1>. QED
  BY <1>7, <1>8 DEF s

LEMMA InvRefusedOnlyWithoutSuite == HandshakeInv => RefusedOnlyWithoutSuite
<1>. DEFINE c == context["server"]
<1>. SUFFICES ASSUME HandshakeInv, c.transcript # << >>, c.suite = NoSuite,
                     config["server"].suites = << >>,
                     NEW i \in DOMAIN default_cipher_suites,
                     default_cipher_suites[i].id \in c.transcript[1].offered,
                     validate_suite(default_cipher_suites[i], policy("server"))
              PROVE  \E id \in c.transcript[1].offered :
                       \E o \in find_suite(id, default_cipher_suites) :
                         \/ o.security_level > default_cipher_suites[i].security_level
                         \/ o.hybrid /\ ~default_cipher_suites[i].hybrid
  BY DEF RefusedOnlyWithoutSuite
<1>1. HalfWay("server") \/ Exchanged("server")
  BY DEF HandshakeInv, ContextOK, Empty, Role
<1>2. PICK m \in ClientHello : c.transcript[1] = m /\ Decided("server", m)
  <2>1. CASE HalfWay("server")
    BY <2>1 DEF HalfWay
  <2>2. CASE Exchanged("server")
    BY <2>2 DEF Exchanged, PeerHello
  <2>. QED
    BY <1>1, <2>1, <2>2
<1>3. negotiate(<< >>, policy("server"), m.offered) = NoSuite
  BY <1>2 DEF Decided, decision
<1>4. i \in 1..3
  BY BuiltIn
<1>5. Hybrid.id \in m.offered /\ ~default_cipher_suites[i].hybrid
  BY <1>2, <1>3, <1>4, BuiltInRefusal
<1>6. Hybrid \in find_suite(Hybrid.id, default_cipher_suites) /\ Hybrid.hybrid
  <2>1. Hybrid = default_cipher_suites[1] /\ 1 \in DOMAIN default_cipher_suites /\ Hybrid.hybrid
    <3>1. 1 \in 1..3
      BY SMT
    <3>. QED
      BY <3>1, BuiltIn
  <2>. QED
    BY <2>1 DEF find_suite
<1>. QED
  BY <1>2, <1>5, <1>6

LEMMA InvKeysFresh == HandshakeInv => KeysFresh
<1>. SUFFICES ASSUME HandshakeInv, NEW g \in held, NEW h \in held, g.role = h.role, g.hello = h.hello
              PROVE  g = h
  BY DEF KeysFresh
<1>1. Agreement(g) /\ Agreement(h)
  BY DEF HandshakeInv, HeldAgree
<1>2. g.role \in {"client", "server"}
  BY <1>1 DEF Agreement, Role
<1>3. g.attempt = h.attempt
  BY <1>1, <1>2, AgreementFields
<1>. QED
  BY <1>3 DEF HandshakeInv, HeldOnce

LEMMA InvHandshakeTypeOK == HandshakeInv => HandshakeTypeOK
<1>. SUFFICES ASSUME HandshakeInv PROVE HandshakeTypeOK
  OBVIOUS
<1>1. Typed
  BY DEF HandshakeInv
<1>2. ASSUME NEW r \in Role
      PROVE  LET c == context[r]
             IN /\ c.state \in HandshakeState
                /\ c.nonce \in 1..MaxAttempts /\ c.peer_nonce \in 0..MaxAttempts
                /\ r = "client" => c.state \notin {"client_hello_received", "server_hello_sent"}
                /\ r = "server" => c.state \notin {"client_hello_sent", "server_hello_received"}
                /\ c.state = "start" => c.transcript = << >>
                /\ c.state \in {"client_hello_sent", "client_hello_received"} => Len(c.transcript) = 1
                /\ c.state \in {"server_hello_sent", "server_hello_received"} => Len(c.transcript) = 2
                /\ c.close_notify_seen => c.state = "closed"
  <2>. DEFINE c == context[r]
  <2>1. /\ c \in Context /\ c.state \in {"start", "closed", FirstState(r), LastState(r)}
        /\ c.close_notify_seen => c.state = "closed"
        /\ c.state = "start" => Empty(r)
        /\ c.state = FirstState(r) => HalfWay(r)
        /\ c.state = LastState(r) => Exchanged(r)
    BY DEF HandshakeInv, ContextOK
  <2>2. c.state \in HandshakeState /\ c.nonce \in 1..MaxAttempts /\ c.peer_nonce \in 0..MaxAttempts
    BY <2>1 DEF Context, Nonce
  <2>3. /\ r = "client" => c.state \notin {"client_hello_received", "server_hello_sent"}
        /\ r = "server" => c.state \notin {"client_hello_sent", "server_hello_received"}
    BY <2>1 DEF FirstState, LastState
  <2>4. \A x : Len(<<x>>) = 1
    OBVIOUS
  <2>5. \A x, y : Len(<<x, y>>) = 2
    OBVIOUS
  <2>6. c.state \in {"client_hello_sent", "client_hello_received"} => Len(c.transcript) = 1
    <3>1. c.state \in {"client_hello_sent", "client_hello_received"} => HalfWay(r)
      BY <2>1 DEF FirstState, LastState, Role
    <3>2. HalfWay(r) => \E x : c.transcript = <<x>>
      BY DEF HalfWay
    <3>. QED
      BY <2>4, <3>1, <3>2
  <2>7. c.state \in {"server_hello_sent", "server_hello_received"} => Len(c.transcript) = 2
    <3>1. c.state \in {"server_hello_sent", "server_hello_received"} => Exchanged(r)
      BY <2>1 DEF FirstState, LastState, Role
    <3>2. Exchanged(r) => \E x, y : c.transcript = <<x, y>>
      BY DEF Exchanged
    <3>. QED
      BY <2>5, <3>1, <3>2
  <2>8. c.state = "start" => c.transcript = << >>
    BY <2>1 DEF Empty
  <2>. QED
    BY <2>1, <2>2, <2>3, <2>6, <2>7, <2>8
<1>. QED
  BY <1>1, <1>2 DEF HandshakeTypeOK, Typed

\* HandshakeContext is well formed: the state of a side is one of its role, and the
\* transcript has one hello or two as the state says (protocol.cpp:121-154).
THEOREM HandshakeTyped == HandshakeSpec => []HandshakeTypeOK
BY HandshakeInvariant, InvHandshakeTypeOK, PTL

\* A confirmation tag that verifies (session.cpp) was made by the peer, in a handshake
\* that has the same two hellos and the same suite, whatever was damaged or repeated.
THEOREM TagsMeanAgreement == HandshakeSpec => []ConfirmedAgree
BY HandshakeInvariant, InvConfirmedAgree, PTL

\* The suite of a confirmed session is acceptable to both policies, and no built-in
\* suite that the client offered is better (negotiate, reject_downgrade).
THEOREM NoDowngrade == HandshakeSpec => []ConfirmedSuiteIsNoDowngrade
BY HandshakeInvariant, InvNoDowngrade, PTL

\* A server that has the built-in list refuses a hello only if every suite it accepts
\* is one the downgrade check refuses (protocol.cpp:57-79).
THEOREM RefusalIsNeeded == HandshakeSpec => []RefusedOnlyWithoutSuite
BY HandshakeInvariant, InvRefusedOnlyWithoutSuite, PTL

\* Two attempts of a side never make their keys from one hello (make_hello).
THEOREM HellosMakeFreshKeys == HandshakeSpec => []KeysFresh
BY HandshakeInvariant, InvKeysFresh, PTL

=============================================================================
