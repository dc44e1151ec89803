---------------------------- MODULE SsmSessions ----------------------------
(***************************************************************************)
(* SsmSessionManager (src/security/ssm.cpp): short-lived sessions in    *)
(* front of the software security module, behind a mutex of their own.     *)
(*                                                                         *)
(* sign_domain and decapsulate authorize the call under the session mutex, *)
(* release it, perform the whole operation on the module (its two critical *)
(* sections, module SSM), and take the session mutex again to check the    *)
(* session once more, count the operation and hand the result out.         *)
(***************************************************************************)
EXTENDS SSM

CONSTANTS
  Token,          \* session tokens that make_session_token draws
  Ttl,            \* values of ttl_seconds
  SessionLimit,   \* values of max_sign_operations and max_decapsulate_operations
  Permissions,    \* values of the permission mask
  DomainList      \* values of allowed_domains (the empty list: any domain)

SessionPermission == {"sign", "decapsulate", "export_public"}
UseOp == {"sign", "decapsulate"}

ASSUME SessionAssumption ==
  /\ Ttl \subseteq Nat \ {0}
  /\ SessionLimit \subseteq Nat
  /\ Permissions \subseteq SUBSET SessionPermission \ {{}}
  /\ DomainList \subseteq SUBSET Domain

Session ==
  [expires_at : Nat, permissions : SUBSET SessionPermission,
   allowed_handles : SUBSET Handle, allowed_domains : SUBSET Domain,
   limit : [UseOp -> Nat], operations : [UseOp -> Nat], closed : BOOLEAN]

\* What a thread is doing inside the manager.
NoRequest == [pc |-> "none"]
SessionRequest ==
  {NoRequest} \cup [pc : {"authorized", "running", "settle"}, token : Token, op : UseOp,
                    handle : Handle, domain : Domain \cup {NoDomain}]

VARIABLES
  sessions,   \* sessions_: the sessions ever opened, by token
  request     \* the manager call each thread is in

svars == <<sessions, request>>
allvars == <<vars, svars>>

-----------------------------------------------------------------------------
expired(s) == s.expires_at <= now
over(s) == s.closed \/ expired(s)

\* mutable_session: the session is live and grants what is asked.
grants(s, op, h, domain) ==
  /\ ~over(s)
  /\ op \in s.permissions
  /\ s.allowed_handles = {} \/ h \in s.allowed_handles
  /\ domain = NoDomain \/ s.allowed_domains = {} \/ domain \in s.allowed_domains

below_session_limit_off_by_one(s, op) ==   \* mutant: > where the code has >=
  s.limit[op] # 0 => s.operations[op] <= s.limit[op]
below_session_limit(s, op) == s.limit[op] # 0 => s.operations[op] < s.limit[op]

\* mutable_session closes an expired session that it is asked about.
touched(token) ==
  IF expired(sessions[token]) THEN [sessions EXCEPT ![token].closed = TRUE] ELSE sessions

\* sign_domain refuses an empty domain; decapsulate has none.
DomainOf(op) == IF op = "sign" THEN Domain ELSE {NoDomain}

\* Handles that callers were given; the key may have been erased since.
KnownHandles == {history[k].handle : k \in DOMAIN history}

-----------------------------------------------------------------------------
SessionInit ==
  /\ Init
  /\ sessions = << >>
  /\ request = [t \in Thread |-> NoRequest]

open_session(t, token) ==
  /\ request[t] = NoRequest /\ call[t] = Idle
  /\ token \notin DOMAIN sessions
  /\ \E ttl \in Ttl, permissions \in Permissions, domains \in DomainList,
        handles \in {{}} \cup {{h} : h \in KnownHandles}, limit \in [UseOp -> SessionLimit] :
       sessions' = [x \in DOMAIN sessions \cup {token} |->
                      IF x # token THEN sessions[x]
                      ELSE [expires_at |-> now + ttl, permissions |-> permissions,
                            allowed_handles |-> handles, allowed_domains |-> domains,
                            limit |-> limit, operations |-> [op \in UseOp |-> 0],
                            closed |-> FALSE]]
  /\ UNCHANGED <<vars, request>>

\* Mutant: a closed session is erased.
close_session_erases(t, token) ==
  /\ request[t] = NoRequest /\ call[t] = Idle
  /\ token \in DOMAIN sessions
  /\ sessions' = Restrict(sessions, DOMAIN sessions \ {token})
  /\ UNCHANGED <<vars, request>>

close_session(t, token) ==
  /\ request[t] = NoRequest /\ call[t] = Idle
  /\ token \in DOMAIN sessions
  /\ sessions' = [sessions EXCEPT ![token].closed = TRUE]
  /\ UNCHANGED <<vars, request>>

\* A call on an expired session is refused and closes it; so does public_key.
Refuse(t, token) ==
  /\ request[t] = NoRequest /\ call[t] = Idle
  /\ token \in DOMAIN sessions
  /\ expired(sessions[token])
  /\ sessions' = touched(token)
  /\ UNCHANGED <<vars, request>>

\* First critical section of sign_domain and decapsulate.
Authorize(t, token, op, h, domain) ==
  /\ request[t] = NoRequest /\ call[t] = Idle
  /\ token \in DOMAIN sessions
  /\ grants(sessions[token], op, h, domain)
  /\ below_session_limit(sessions[token], op)
  /\ request' = [request EXCEPT ![t] = [pc |-> "authorized", token |-> token, op |-> op,
                                        handle |-> h, domain |-> domain]]
  /\ UNCHANGED <<vars, sessions>>

\* The module's own first critical section; it may refuse the key.
Run(t) ==
  /\ request[t].pc = "authorized"
  /\ BeginOperation(t, request[t].op, request[t].handle, request[t].domain)
  /\ request' = [request EXCEPT ![t].pc = "running"]
  /\ UNCHANGED sessions

Denied(t) ==
  /\ request[t].pc = "authorized"
  /\ ~(/\ request[t].handle \in DOMAIN entries
       /\ may_use(entries[request[t].handle], request[t].op, request[t].domain))
  /\ request' = [request EXCEPT ![t] = NoRequest]
  /\ UNCHANGED <<vars, sessions>>

Ran(t) ==
  /\ request[t].pc = "running"
  /\ FinishOperation(t)
  /\ request' = [request EXCEPT ![t].pc = "settle"]
  /\ UNCHANGED sessions

\* Mutant: the error of the module does not end the call.
RunFailed_goes_on(t) ==
  /\ request[t].pc = "running"
  /\ FailOperation(t)
  /\ request' = [request EXCEPT ![t].pc = "settle"]
  /\ UNCHANGED sessions

RunFailed(t) ==
  /\ request[t].pc = "running"
  /\ FailOperation(t)
  /\ request' = [request EXCEPT ![t] = NoRequest]
  /\ UNCHANGED sessions

\* Mutant: the session is looked up, not checked, after the operation.
settled_unchecked(token, op, h, domain) ==
  [sessions EXCEPT ![token].operations[op] = @ + 1]

\* Second critical section: a session that is over by now gets nothing, and the
\* result is dropped although the key has counted the operation.
settled(token, op, h, domain) ==
  IF grants(sessions[token], op, h, domain)
    THEN [sessions EXCEPT ![token].operations[op] = @ + 1]
    ELSE touched(token)

Settle(t) ==
  /\ request[t].pc = "settle"
  /\ sessions' = settled(request[t].token, request[t].op, request[t].handle, request[t].domain)
  /\ request' = [request EXCEPT ![t] = NoRequest]
  /\ UNCHANGED vars

UseSession(t) ==
  \/ \E token \in DOMAIN sessions, op \in UseOp : \E h \in KnownHandles, d \in DomainOf(op) :
       Authorize(t, token, op, h, d)
  \/ Run(t)
  \/ Denied(t)
  \/ Ran(t)
  \/ RunFailed(t)
  \/ Settle(t)

ManageSession(t) ==
  \/ \E token \in Token : open_session(t, token)
  \/ \E token \in DOMAIN sessions : close_session(t, token) \/ Refuse(t, token)

\* Threads that reach the module without a session.
Direct ==
  /\ \/ Tick
     \/ \E t \in Thread : /\ request[t] = NoRequest
                          /\ Generate(t) \/ Use(t) \/ Rotate(t) \/ Administer(t)
  /\ UNCHANGED svars

SessionNext == Direct \/ \E t \in Thread : UseSession(t) \/ ManageSession(t)

SessionSpec == SessionInit /\ [][SessionNext]_allvars

-----------------------------------------------------------------------------
\* Sessions and requests have their types, and a thread is inside the module on
\* behalf of a session exactly while its request runs.
SessionTypeOK ==
  /\ DOMAIN sessions \subseteq Token
  /\ \A token \in DOMAIN sessions : sessions[token] \in Session
  /\ request \in [Thread -> SessionRequest]
  /\ \A t \in Thread : /\ request[t].pc = "running" => call[t].pc = "use"
                       /\ request[t].pc \in {"authorized", "settle"} => call[t] = Idle
                       /\ request[t] # NoRequest => request[t].token \in DOMAIN sessions

\* A session that is closed or past its expiry never counts, and so never hands
\* out, another operation: not even one that it authorized while it was live.
OverIsFinal ==
  [][\A token \in DOMAIN sessions :
       over(sessions[token]) =>
         /\ token \in DOMAIN sessions'
         /\ over(sessions[token])'
         /\ sessions'[token].operations = sessions[token].operations]_allvars

\* The limit of a session is passed only by requests that it authorized together.
SessionOvershootBounded ==
  \A token \in DOMAIN sessions, op \in UseOp :
    LET s == sessions[token]
    IN s.limit[op] # 0 => s.operations[op] < s.limit[op] + Cardinality(Thread)

\* What has been counted, as a set: x with each number up to its count.
units(count) == UNION {{x} \X (1..count[x]) : x \in DOMAIN count}

HandedOut == units([p \in (DOMAIN sessions) \X UseOp |-> sessions[p[1]].operations[p[2]]])
Released == units([k \in DOMAIN history |-> history[k].released])
Settling == {t \in Thread : request[t].pc = "settle"}

\* Every operation that a session hands out was paid for at a key: over all
\* sessions, what was handed out and what waits for its second check is at most
\* what the keys released.
SessionsPaid ==
  Cardinality(HandedOut) + Cardinality(Settling) <= Cardinality(Released)

=============================================================================
