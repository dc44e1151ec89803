-------------------------------- MODULE SSM --------------------------------
(***************************************************************************)
(* The software security module of src/security/ssm.cpp: a table of    *)
(* private keys behind one mutex, shared by the threads of a process.      *)
(*                                                                         *)
(* Operations that hold the mutex from their first to their last access    *)
(* are one action.  Signing, decapsulation and rotation copy the entry     *)
(* under the mutex, release it for the cryptography and take it again to   *)
(* record what happened: each is one action per critical section, and the  *)
(* other threads move in between.                                          *)
(*                                                                         *)
(* Abstracted: key bytes are the serial number of the key; last_used_at,   *)
(* rotated_at and the rotation reason, which no branch reads, are left     *)
(* out; a label is a name and the number of " rotated" suffixes it has.    *)
(***************************************************************************)
EXTENDS Naturals, Sequences, FiniteSets, Functions, TLC

CONSTANTS
  Thread,        \* threads that call the module
  Name,          \* label texts that callers choose
  Domain,        \* signing domains
  NoDomain,      \* the empty domain string: sign_message, or "any domain"
  Limit,         \* values of CreateOptions.max_operations (0: unlimited)
  CreateType,    \* object types that callers generate
  CreateFlags,   \* values of CreateOptions.flags
  SetState,      \* states that callers pass to set_state
  RotateLabel,   \* values of RotateOptions.label (NoLabel: derive it)
  MaxKeys,       \* bound: keys generated in a behaviour
  MaxTime,       \* bound: seconds the clock advances
  MaxUses,       \* bound: operations released per key
  MaxSealed      \* bound: sealed objects in the hands of callers

ObjectType == {"symmetric", "sign", "kem"}
ObjectFlag == {"exportable_public", "exportable_sealed", "allow_sign", "allow_decapsulate"}
KeyState == {"active", "locked", "disabled", "expired", "destroyed", "compromised", "retired"}

Label == Name \X Nat
NoLabel == << >>
rotated(label) == <<label[1], label[2] + 1>>

ASSUME ThreadAssumption == IsFiniteSet(Thread) /\ Thread # {}
ASSUME DomainAssumption == NoDomain \notin Domain
ASSUME OptionsAssumption ==
  /\ Limit \subseteq Nat
  /\ CreateType \subseteq ObjectType
  /\ CreateFlags \subseteq SUBSET ObjectFlag
  /\ SetState \subseteq KeyState
  /\ RotateLabel \subseteq Label \cup {NoLabel}
ASSUME BoundsAssumption == {MaxKeys, MaxTime, MaxUses, MaxSealed} \subseteq Nat

Handle == ObjectType \X Nat \X Nat \X Label
NoHandle == << >>

\* What a caller or a rotation asks of a new key: CreateOptions and the type.
Request ==
  [type : ObjectType, label : Label, flags : SUBSET ObjectFlag,
   allowed_domain : Domain \cup {NoDomain}, max_operations : Nat]

\* ObjectInfo, with the private key it seals.
Entry ==
  [type : ObjectType, label : Label, flags : SUBSET ObjectFlag,
   allowed_domain : Domain \cup {NoDomain}, max_operations : Nat,
   created_at : Nat, key : Nat \ {0}, state : KeyState, used_operations : Nat,
   original_handle : Handle \cup {NoHandle},
   replacement_handle : Handle \cup {NoHandle}, generation : Nat]

\* Where a thread is between two critical sections of one call.
Idle == [pc |-> "idle"]
Call ==
  {Idle}
    \cup [pc : {"use"}, handle : Handle, key : Nat \ {0}]
    \cup [pc : {"rotate"}, handle : Handle, create : Request, retire_old : BOOLEAN]
    \cup [pc : {"link"}, handle : Handle, new : Handle, retire_old : BOOLEAN]

VARIABLES
  now,       \* key::unix_time_now(), in seconds
  entries,   \* entries_: the keys the module holds, by handle
  call,      \* the call each thread is in
  sealed,    \* sealed objects that callers hold
  history,   \* history variable: per key, its handle and the operations released
  restored   \* history variable: handles that import_sealed has written

vars == <<now, entries, call, sealed, history, restored>>

-----------------------------------------------------------------------------
\* A symmetric key has no public key: its bytes do not enter the handle.
public_key_dropped(e) == 0   \* mutant: the handle does not bind the key
public_key(e) == IF e.type = "symmetric" THEN 0 ELSE e.key
make_handle(e) == <<e.type, e.created_at, public_key(e), e.label>>

\* validate_operation for Operation::sealed_export.
exportable(e) ==
  /\ e.state \in {"active", "retired"}
  /\ "exportable_sealed" \in e.flags

below_limit_off_by_one(e) ==   \* mutant: > where the code has >=
  e.max_operations # 0 => e.used_operations <= e.max_operations
below_limit(e) == e.max_operations # 0 => e.used_operations < e.max_operations

\* validate_operation for Operation::sign and Operation::decapsulate.
may_use(e, op, domain) ==
  /\ e.state = "active"
  /\ below_limit(e)
  /\ \/ /\ op = "sign"
        /\ e.allowed_domain \in {NoDomain, domain}
        /\ e.type = "sign"
        /\ "allow_sign" \in e.flags
     \/ /\ op = "decapsulate"
        /\ e.type = "kem"
        /\ "allow_decapsulate" \in e.flags

\* generate_sign_key, generate_kem_key and generate_symmetric_key.
granted(type) ==
  CASE type = "sign" -> {"allow_sign"}
    [] type = "kem" -> {"allow_decapsulate"}
    [] type = "symmetric" -> {}

new_entry(r, key) ==
  [type |-> r.type, label |-> r.label, flags |-> r.flags \cup granted(r.type),
   allowed_domain |-> r.allowed_domain, max_operations |-> r.max_operations,
   created_at |-> now, key |-> key, state |-> "active", used_operations |-> 0,
   original_handle |-> NoHandle, replacement_handle |-> NoHandle, generation |-> 0]

\* entries_[h] = e
Put(h, e) == [x \in DOMAIN entries \cup {h} |-> IF x = h THEN e ELSE entries[x]]

\* Mutant: the handle is computed before the public key is filled in.
store_secret_early_handle(e) ==
  LET h == <<e.type, e.created_at, 0, e.label>>
  IN /\ entries' = Put(h, e)
     /\ history' = Append(history, [handle |-> make_handle(e), released |-> 0])

\* The sealed new key enters the table under its handle, whatever was there.
store_secret(e) ==
  /\ entries' = Put(make_handle(e), e)
  /\ history' = Append(history, [handle |-> make_handle(e), released |-> 0])

\* Mutant: an operation that ends on a key no longer active is not counted.
record_operation_if_active(h) ==
  entries' = IF h \in DOMAIN entries /\ entries[h].state = "active"
               THEN [entries EXCEPT ![h].used_operations = @ + 1]
               ELSE entries

record_operation(h) ==
  entries' = IF h \in DOMAIN entries
               THEN [entries EXCEPT ![h].used_operations = @ + 1]
               ELSE entries

\* rotate_key's precondition, read from the copy of the old entry.
may_rotate_unless_compromised(e) == e.state # "compromised"   \* mutant
may_rotate(e) == e.state \notin {"destroyed", "compromised"}

\* Mutant: the new key's own generation is advanced, not the old one's.
linked_own_generation(h, n, retire_old) ==
  [entries EXCEPT ![h].replacement_handle = n,
                  ![h].generation = @ + 1,
                  ![h].state = IF retire_old THEN "retired" ELSE @,
                  ![n].original_handle = h,
                  ![n].generation = @ + 1]

\* rotate_key's last critical section.  The writes go to one entry when the new
\* key was stored under the handle of the old one.
linked(h, n, retire_old) ==
  LET generation == entries[h].generation + 1
  IN [entries EXCEPT ![h].replacement_handle = n,
                     ![h].generation = generation,
                     ![h].state = IF retire_old THEN "retired" ELSE @,
                     ![n].original_handle = h,
                     ![n].generation = generation]

CreateRequest ==
  [type : CreateType, label : Name \X {0}, flags : CreateFlags,
   allowed_domain : Domain \cup {NoDomain}, max_operations : Limit]

-----------------------------------------------------------------------------
Init ==
  /\ now = 0
  /\ entries = << >>
  /\ call = [t \in Thread |-> Idle]
  /\ sealed = {}
  /\ history = << >>
  /\ restored = {}

Tick ==
  /\ now < MaxTime
  /\ now' = now + 1
  /\ UNCHANGED <<entries, call, sealed, history, restored>>

Generate(t) ==
  /\ call[t] = Idle
  /\ Len(history) < MaxKeys
  /\ \E r \in CreateRequest : store_secret(new_entry(r, Len(history) + 1))
  /\ UNCHANGED <<now, call, sealed, restored>>

\* First critical section of sign_message, sign_domain and decapsulate: the
\* entry is copied and the copy validated.
BeginOperation(t, op, h, domain) ==
  /\ call[t] = Idle
  /\ h \in DOMAIN entries
  /\ may_use(entries[h], op, domain)
  /\ call' = [call EXCEPT ![t] = [pc |-> "use", handle |-> h, key |-> entries[h].key]]
  /\ UNCHANGED <<now, entries, sealed, history, restored>>

\* The cryptography succeeded: record_operation counts the operation if the
\* handle is still there, and the result goes to the caller in any case.
FinishOperation(t) ==
  /\ call[t].pc = "use"
  /\ history[call[t].key].released < MaxUses
  /\ record_operation(call[t].handle)
  /\ history' = [history EXCEPT ![call[t].key].released = @ + 1]
  /\ call' = [call EXCEPT ![t] = Idle]
  /\ UNCHANGED <<now, sealed, restored>>

\* The cryptography failed: nothing is recorded.
FailOperation(t) ==
  /\ call[t].pc = "use"
  /\ call' = [call EXCEPT ![t] = Idle]
  /\ UNCHANGED <<now, entries, sealed, history, restored>>

\* First critical section of rotate_key and the options of the new key.
BeginRotate(t, h, label, preserve_policy, retire_old) ==
  /\ call[t] = Idle
  /\ h \in DOMAIN entries
  /\ may_rotate(entries[h])
  /\ LET old == entries[h]
         create == [type |-> old.type,
                    label |-> IF label = NoLabel THEN rotated(old.label) ELSE label,
                    flags |-> old.flags,
                    allowed_domain |-> IF preserve_policy THEN old.allowed_domain ELSE NoDomain,
                    max_operations |-> IF preserve_policy THEN old.max_operations ELSE 0]
     IN call' = [call EXCEPT ![t] = [pc |-> "rotate", handle |-> h, create |-> create,
                                     retire_old |-> retire_old]]
  /\ UNCHANGED <<now, entries, sealed, history, restored>>

\* Second critical section of rotate_key, inside store_secret.
RotateGenerate(t) ==
  /\ call[t].pc = "rotate"
  /\ Len(history) < MaxKeys
  /\ LET e == new_entry(call[t].create, Len(history) + 1)
     IN /\ store_secret(e)
        /\ call' = [call EXCEPT ![t] = [pc |-> "link", handle |-> call[t].handle,
                                        new |-> make_handle(e), retire_old |-> call[t].retire_old]]
  /\ UNCHANGED <<now, sealed, restored>>

\* Key generation failed: the rotation ends without a trace.
FailRotate(t) ==
  /\ call[t].pc = "rotate"
  /\ call' = [call EXCEPT ![t] = Idle]
  /\ UNCHANGED <<now, entries, sealed, history, restored>>

\* Third critical section of rotate_key: an error if either key has gone.
RotateLink(t) ==
  /\ call[t].pc = "link"
  /\ LET h == call[t].handle
         n == call[t].new
     IN entries' = IF {h, n} \subseteq DOMAIN entries
                     THEN linked(h, n, call[t].retire_old)
                     ELSE entries
  /\ call' = [call EXCEPT ![t] = Idle]
  /\ UNCHANGED <<now, sealed, history, restored>>

set_state(t, h, state) ==
  /\ call[t] = Idle
  /\ h \in DOMAIN entries
  /\ entries[h].state # "destroyed"
  /\ entries' = [entries EXCEPT ![h].state = state]
  /\ UNCHANGED <<now, call, sealed, history, restored>>

erase(t, h) ==
  /\ call[t] = Idle
  /\ h \in DOMAIN entries
  /\ entries' = Restrict(entries, DOMAIN entries \ {h})
  /\ UNCHANGED <<now, call, sealed, history, restored>>

clear(t) ==
  /\ call[t] = Idle
  /\ entries' = << >>
  /\ UNCHANGED <<now, call, sealed, history, restored>>

export_sealed(t, h) ==
  /\ call[t] = Idle
  /\ h \in DOMAIN entries
  /\ exportable(entries[h])
  /\ Cardinality(sealed \cup {entries[h]}) <= MaxSealed
  /\ sealed' = sealed \cup {entries[h]}
  /\ UNCHANGED <<now, entries, call, history, restored>>

\* The associated data does not cover the state, the counters or the lineage:
\* the object decrypts whatever happened since, and replaces the entry.
import_sealed(t, e) ==
  /\ call[t] = Idle
  /\ entries' = Put(make_handle(e), e)
  /\ restored' = restored \cup {make_handle(e)}
  /\ UNCHANGED <<now, call, sealed, history>>

Use(t) ==
  \/ \E op \in {"sign", "decapsulate"}, h \in DOMAIN entries, d \in Domain \cup {NoDomain} :
       BeginOperation(t, op, h, d)
  \/ FinishOperation(t)
  \/ FailOperation(t)

Rotate(t) ==
  \/ \E h \in DOMAIN entries, label \in RotateLabel, preserve_policy, retire_old \in BOOLEAN :
       BeginRotate(t, h, label, preserve_policy, retire_old)
  \/ RotateGenerate(t)
  \/ FailRotate(t)
  \/ RotateLink(t)

Administer(t) ==
  \/ \E h \in DOMAIN entries, state \in SetState : set_state(t, h, state)
  \/ \E h \in DOMAIN entries : erase(t, h)
  \/ clear(t)
  \/ \E h \in DOMAIN entries : export_sealed(t, h)
  \/ \E e \in sealed : import_sealed(t, e)

Next == Tick \/ \E t \in Thread : Generate(t) \/ Use(t) \/ Rotate(t) \/ Administer(t)

Spec == Init /\ [][Next]_vars

-----------------------------------------------------------------------------
Objects == {entries[h] : h \in DOMAIN entries} \cup sealed

\* Every variable has its type, every entry is stored under the handle that its
\* own fields hash to, and every key was generated once.
TypeOK ==
  /\ now \in Nat
  /\ DOMAIN entries \subseteq Handle
  /\ \A h \in DOMAIN entries : entries[h] \in Entry /\ make_handle(entries[h]) = h
  /\ call \in [Thread -> Call]
  /\ sealed \subseteq Entry
  /\ history \in Seq([handle : Handle, released : Nat])
  /\ restored \subseteq Handle
  /\ \A e \in Objects : e.key \in DOMAIN history

\* used_operations counts every signature and decapsulation that the key has
\* released, whatever other threads did to the entry during the operation; an
\* entry read back from a sealed object may only have forgotten some.
UsageExact ==
  \A h \in DOMAIN entries :
    LET e == entries[h]
    IN /\ e.used_operations <= history[e.key].released
       /\ h \notin restored => e.used_operations = history[e.key].released

\* Operations past max_operations come only from threads that passed the check
\* together: with n threads a key is used at most n - 1 times too often.
OvershootBounded ==
  \A h \in DOMAIN entries \ restored :
    entries[h].max_operations # 0 =>
      entries[h].used_operations < entries[h].max_operations + Cardinality(Thread)

\* A replacement that is still there points back to the key it replaces, and no
\* two keys share a replacement, also when several threads rotate one key or a
\* replacement is itself rotated.  It is at least of the generation of a key that
\* no rotation made.
Replaced(o) ==
  /\ o \in DOMAIN entries \ restored
  /\ entries[o].type # "symmetric"
  /\ entries[o].replacement_handle # NoHandle

RotationLineage ==
  \A o \in DOMAIN entries : Replaced(o) =>
    LET n == entries[o].replacement_handle
    IN /\ n \in DOMAIN entries \ restored =>
            /\ entries[n].original_handle = o
            /\ entries[o].original_handle = NoHandle =>
                 entries[n].generation >= entries[o].generation
       /\ \A p \in DOMAIN entries \ {o} : Replaced(p) => entries[p].replacement_handle # n

\* The handle of an asymmetric key names the same private key under the same
\* policy for as long as it is in the module, across import_sealed too.
Policy(e) == [key |-> e.key, flags |-> e.flags, allowed_domain |-> e.allowed_domain,
              max_operations |-> e.max_operations]

AsymmetricKeysKeepPolicy ==
  [][\A h \in DOMAIN entries \cap DOMAIN entries' :
       entries[h].type # "symmetric" => Policy(entries'[h]) = Policy(entries[h])]_vars

\* Once a key is destroyed and no rotation that started before is under way, it
\* stays destroyed until it is erased: no call brings it back but import_sealed.
Dead(h) ==
  /\ h \in DOMAIN entries
  /\ entries[h].type # "symmetric"
  /\ entries[h].state = "destroyed"
  /\ \A t \in Thread : call[t].pc \in {"rotate", "link"} => call[t].handle # h

DeadStaysDead ==
  [][\A h \in DOMAIN entries \cap DOMAIN entries' :
       Dead(h) => Dead(h)' \/ \E e \in sealed : entries'[h] = e /\ make_handle(e) = h]_vars

=============================================================================
