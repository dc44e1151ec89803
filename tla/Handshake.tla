------------------------------ MODULE Handshake ------------------------------
(***************************************************************************)
(* A client and a server that negotiate a suite and confirm their keys, with *)
(* the handshake context (src/protocol/protocol.cpp:57-154), the transcript  *)
(* and the key schedule (transcript.cpp, session.cpp), over a network that   *)
(* loses, repeats, delays and damages hellos.  Either side may give up and   *)
(* begin again.                                                            *)
(*                                                                         *)
(* Abstracted: a nonce is the number of its side's attempt; a transcript     *)
(* hash is the sequence of the messages it binds, a tag the tuple of what it *)
(* is derived from (SHA-256 and HKDF taken as injective); all attempts have  *)
(* the same shared secret, the hardest case.  The library leaves it to the   *)
(* application to send what it encodes and to check the server's choice:    *)
(* that part is modelled from what the functions are for, and named as       *)
(* external.  Record sizes are left out.                                    *)
(***************************************************************************)
EXTENDS Negotiation

CONSTANTS
  Profiles,      \* the policies a side may have
  SuiteLists,    \* the lists a side may offer; the empty one stands for the built-in
  MaxAttempts,   \* bound: handshakes a side begins
  MaxDamage      \* bound: hellos damaged on the way

ASSUME HandshakeBounds ==
  /\ Profiles \subseteq Profile
  /\ MaxAttempts \in Nat \ {0} /\ MaxDamage \in Nat

\* Lists are made of cipher suites, and both applications mean the same by an identifier.
ASSUME SuitesNamed ==
  /\ \A list \in SuiteLists : list \in Seq(CipherSuite)
  /\ \A k, l \in SuiteLists \cup {default_cipher_suites} :
       \A i \in DOMAIN k, j \in DOMAIN l : k[i].id = l[j].id => k[i] = l[j]

Role == {"client", "server"}
peer(r) == IF r = "client" THEN "server" ELSE "client"

HandshakeState == {"start", "client_hello_sent", "client_hello_received",
                   "server_hello_sent", "server_hello_received", "closed"}

VARIABLES
  config,      \* NegotiationInput of each side: its policy and its list
  context,     \* HandshakeContext of each side, with the nonces of both hellos
  confirmed,   \* whether a side has verified the tag of its peer
  network,     \* every message sent: any may arrive, any number of times
  held,        \* history variable: what a side that made a tag had agreed to
  damage       \* history variable: hellos damaged so far

hvars == <<config, context, confirmed, network, held, damage>>

-----------------------------------------------------------------------------
(* Messages.  A hello carries the limits of its sender; here, its role. *)

client_hello(nonce, offered, limits) ==
  [type |-> "client_hello", nonce |-> nonce, offered |-> offered, limits |-> limits]
server_hello(nonce, id, limits) ==
  [type |-> "server_hello", nonce |-> nonce, id |-> id, limits |-> limits]
alert(r) == [type |-> "alert", role |-> r]
tag(r, hello) == [type |-> "confirmation", role |-> r, hello |-> hello]

offer(r) == LET list == supported(config[r].suites) IN {list[i].id : i \in DOMAIN list}
policy(r) == make_policy(config[r].profile)

fresh_context(attempt, nonce) ==
  [state |-> "start", attempt |-> attempt, nonce |-> nonce, peer_nonce |-> 0, transcript |-> << >>,
   suite |-> NoSuite, close_notify_seen |-> FALSE]

\* Mutant: the client may send its hello again in the same handshake.
next_when_sent_again(r, state) ==
  CASE r = "client" /\ state \in {"start", "server_hello_received"} -> "client_hello_sent"
    [] r = "server" /\ state = "client_hello_received" -> "server_hello_sent"
    [] OTHER -> "refused"

\* mark_sent and mark_received for handshake messages.
next_when_sent(r, state) ==
  CASE r = "client" /\ state = "start" -> "client_hello_sent"
    [] r = "server" /\ state = "client_hello_received" -> "server_hello_sent"
    [] OTHER -> "refused"

next_when_received(r, state) ==
  CASE r = "server" /\ state = "start" -> "client_hello_received"
    [] r = "client" /\ state = "client_hello_sent" -> "server_hello_received"
    [] OTHER -> "refused"

may_send(r) == next_when_sent(r, context[r].state) # "refused"
may_receive(r) == next_when_received(r, context[r].state) # "refused"

absorb_handshake(transcript, m) == Append(transcript, m)

sent(r, m) ==
  [context[r] EXCEPT !.state = next_when_sent(r, @),
                     !.transcript = absorb_handshake(@, m)]
received(r, m) ==
  [context[r] EXCEPT !.state = next_when_received(r, @),
                     !.transcript = absorb_handshake(@, m),
                     !.peer_nonce = m.nonce]

\* What derive_handshake_secret, derive_keys and confirmation_tag take from make_hello.
hello_without_transcript(r) ==   \* mutant
  LET c == context[r]
  IN [client_nonce |-> IF r = "client" THEN c.nonce ELSE c.peer_nonce,
      server_nonce |-> IF r = "server" THEN c.nonce ELSE c.peer_nonce,
      transcript |-> << >>]

hello(r) ==
  LET c == context[r]
  IN [client_nonce |-> IF r = "client" THEN c.nonce ELSE c.peer_nonce,
      server_nonce |-> IF r = "server" THEN c.nonce ELSE c.peer_nonce,
      transcript |-> c.transcript]

-----------------------------------------------------------------------------
HandshakeInit ==
  /\ config \in [Role -> [profile : Profiles, suites : SuiteLists]]
  /\ context = [r \in Role |-> fresh_context(1, 1)]
  /\ confirmed = [r \in Role |-> FALSE]
  /\ network = {} /\ held = {} /\ damage = 0

send_client_hello ==
  LET m == client_hello(context["client"].nonce, offer("client"), "client")
  IN /\ may_send("client")
     /\ context' = [context EXCEPT !["client"] = sent("client", m)]
     /\ network' = network \cup {m}
     /\ UNCHANGED <<config, confirmed, held, damage>>

\* The server negotiates with what arrives; without a suite it can only send an alert.
receive_client_hello(m) ==
  /\ m.type = "client_hello" /\ may_receive("server")
  /\ context' = [context EXCEPT !["server"] =
       [received("server", m) EXCEPT !.suite =
          negotiate(config["server"].suites, policy("server"), m.offered)]]
  /\ UNCHANGED <<config, confirmed, network, held, damage>>

send_server_hello ==
  LET m == server_hello(context["server"].nonce, context["server"].suite.id, "server")
  IN /\ may_send("server") /\ context["server"].suite # NoSuite
     /\ context' = [context EXCEPT !["server"] = sent("server", m)]
     /\ network' = network \cup {m}
     /\ UNCHANGED <<config, confirmed, held, damage>>

\* The application's check of the server's choice: the client would choose it
\* itself, and it is no downgrade of what the client has offered.
choice(id) ==
  LET s == negotiate(config["client"].suites, policy("client"), {id})
  IN IF reject_downgrade(offer("client"), s) THEN NoSuite ELSE s

receive_server_hello(m) ==
  /\ m.type = "server_hello" /\ may_receive("client")
  /\ context' = [context EXCEPT !["client"] =
                   [received("client", m) EXCEPT !.suite = choice(m.id)]]
  /\ UNCHANGED <<config, confirmed, network, held, damage>>

\* An alert closes the handshake of its sender, and of a receiver that has not
\* closed it by an alert of its own.
send_alert(r) ==
  /\ context[r].state # "closed"
  /\ context' = [context EXCEPT ![r].state = "closed"]
  /\ network' = network \cup {alert(r)}
  /\ UNCHANGED <<config, confirmed, held, damage>>

receive_alert(r, m) ==
  /\ m = alert(peer(r)) /\ context[r].state # "closed"
  /\ context' = [context EXCEPT ![r] = [@ EXCEPT !.state = "closed", !.close_notify_seen = TRUE]]
  /\ UNCHANGED <<config, confirmed, network, held, damage>>

\* A side that has both hellos and a suite makes its confirmation tag.
agreed(r) ==
  /\ context[r].state \in {"server_hello_sent", "server_hello_received"}
  /\ context[r].suite # NoSuite

send_confirmation(r) ==
  /\ agreed(r)
  /\ network' = network \cup {tag(r, hello(r))}
  /\ held' = held \cup {[role |-> r, hello |-> hello(r), attempt |-> context[r].attempt,
                         suite |-> context[r].suite, seen |-> context[r].transcript]}
  /\ UNCHANGED <<config, context, confirmed, damage>>

verify_confirmation(r, m) ==
  /\ agreed(r) /\ ~confirmed[r]
  /\ m = tag(peer(r), hello(r))
  /\ confirmed' = [confirmed EXCEPT ![r] = TRUE]
  /\ UNCHANGED <<config, context, network, held, damage>>

\* Mutant: the new handshake has the nonce of the one given up.
begin_again_same_nonce(r) ==
  /\ context[r].attempt < MaxAttempts /\ context[r].state # "start"
  /\ context' = [context EXCEPT ![r] = fresh_context(@.attempt + 1, @.nonce)]
  /\ confirmed' = [confirmed EXCEPT ![r] = FALSE]
  /\ UNCHANGED <<config, network, held, damage>>

begin_again(r) ==
  /\ context[r].attempt < MaxAttempts /\ context[r].state # "start"
  /\ context' = [context EXCEPT ![r] = fresh_context(@.attempt + 1, @.nonce + 1)]
  /\ confirmed' = [confirmed EXCEPT ![r] = FALSE]
  /\ UNCHANGED <<config, network, held, damage>>

\* A hello arrives damaged: an offered suite is missing, the choice is another, or
\* the limits are.  Hellos are not protected by a checksum or a key.
damaged(m) ==
  IF m.type = "client_hello"
  THEN {[m EXCEPT !.offered = @ \ {id}] : id \in m.offered} \cup {[m EXCEPT !.limits = "other"]}
  ELSE IF m.type = "server_hello"
  THEN {[m EXCEPT !.id = id] : id \in offer("client") \ {m.id}} \cup {[m EXCEPT !.limits = "other"]}
  ELSE {}

Damage(m) ==
  /\ damage < MaxDamage /\ damage' = damage + 1
  /\ \E d \in damaged(m) : network' = network \cup {d}
  /\ UNCHANGED <<config, context, confirmed, held>>

HandshakeNext ==
  \/ send_client_hello \/ send_server_hello
  \/ \E m \in network : receive_client_hello(m) \/ receive_server_hello(m) \/ Damage(m)
  \/ \E r \in Role :
       \/ send_alert(r) \/ send_confirmation(r) \/ begin_again(r)
       \/ \E m \in network : receive_alert(r, m) \/ verify_confirmation(r, m)

HandshakeSpec == HandshakeInit /\ [][HandshakeNext]_hvars

-----------------------------------------------------------------------------
\* Every variable has its type, a side is only in states of its role, and what it
\* has bound to its transcript is the hellos its state says it has seen, once each.
HandshakeTypeOK ==
  /\ config \in [Role -> [profile : Profiles, suites : SuiteLists]]
  /\ confirmed \in [Role -> BOOLEAN]
  /\ \A r \in Role :
       LET c == context[r]
       IN /\ c.state \in HandshakeState
          /\ c.nonce \in 1..MaxAttempts /\ c.peer_nonce \in 0..MaxAttempts
          /\ r = "client" => c.state \notin {"client_hello_received", "server_hello_sent"}
          /\ r = "server" => c.state \notin {"client_hello_sent", "server_hello_received"}
          /\ c.state = "start" => c.transcript = << >>
          /\ c.state \in {"client_hello_sent", "client_hello_received"} => Len(c.transcript) = 1
          /\ c.state \in {"server_hello_sent", "server_hello_received"} => Len(c.transcript) = 2
          /\ c.close_notify_seen => c.state = "closed"
  /\ damage \in 0..MaxDamage

\* A tag that verifies comes from a handshake of the peer that has seen the same
\* hellos, undamaged, and has the same nonces, suite and keys: mixing messages of
\* different attempts, or damaging one, makes no session.
ConfirmedAgree ==
  \A r \in Role : confirmed[r] =>
    \E h \in held :
      /\ h.role = peer(r)
      /\ h.hello = hello(r) /\ h.seen = context[r].transcript
      /\ h.suite = context[r].suite
      /\ context[r].transcript =
           <<client_hello(hello(r).client_nonce, offer("client"), "client"),
             server_hello(hello(r).server_nonce, h.suite.id, "server")>>

\* docs/PROTOCOL.md:27: the suite of a confirmed session is acceptable to both sides,
\* and no built-in suite that the client offered is of a higher level or hybrid
\* where this one is not.
ConfirmedSuiteIsNoDowngrade ==
  \A r \in Role : confirmed[r] =>
    LET s == context[r].suite
    IN /\ \A q \in Role : validate_suite(s, policy(q)) /\ s.id \in offer(q)
       /\ \A i \in DOMAIN default_cipher_suites :
            LET d == default_cipher_suites[i]
            IN d.id \in offer("client") =>
                 d.security_level <= s.security_level /\ (d.hybrid => s.hybrid)

\* With the built-in list, the order of the list costs nothing: a server refuses a
\* hello only if no suite it accepts would have passed the downgrade check.
RefusedOnlyWithoutSuite ==
  LET c == context["server"]
  IN c.transcript # << >> /\ c.suite = NoSuite /\ config["server"].suites = << >> =>
       \A i \in DOMAIN default_cipher_suites :
         LET d == default_cipher_suites[i]
         IN \/ d.id \notin c.transcript[1].offered
            \/ ~validate_suite(d, policy("server"))
            \/ \E id \in c.transcript[1].offered :
                 \E o \in find_suite(id, default_cipher_suites) :
                   o.security_level > d.security_level \/ (o.hybrid /\ ~d.hybrid)

\* Two handshakes of one side never derive their keys from the same hello, so no
\* session begins with the keys of another.
KeysFresh ==
  \A g, h \in held : g.role = h.role /\ g # h => g.hello # h.hello

=============================================================================
