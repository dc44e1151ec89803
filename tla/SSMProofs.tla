----------------------------- MODULE SSMProofs -----------------------------
(***************************************************************************)
(* Proofs about SSM for any threads and keys: its types, the usage count   *)
(* of every key and the bound on operations past a key's limit; what       *)
(* rotations leave behind, what a handle keeps, and that destruction is    *)
(* final. Then the session manager in front of it (SsmSessions).           *)
(***************************************************************************)
EXTENDS SsmSessions, FiniteSetTheorems, SequenceTheorems, TLAPS

\* Operations that passed the check on handle h and are not yet counted.
InFlight(h) == {t \in Thread : call[t].pc = "use" /\ call[t].handle = h}

\* A key has one handle; an operation in flight runs on the key of its handle.
KeysHome == \A e \in Objects : history[e.key].handle = make_handle(e)

CallsHome ==
  \A t \in Thread : call[t].pc = "use" =>
    /\ call[t].key \in DOMAIN history
    /\ history[call[t].key].handle = call[t].handle
    /\ call[t].handle[3] = call[t].key

\* No entry, sealed or not, counts more operations than its key released.
NeverOvercounted == \A e \in Objects : e.used_operations <= history[e.key].released

Counted ==
  \A h \in DOMAIN entries \ restored :
    entries[h].used_operations = history[entries[h].key].released

\* What is used and what is in flight fit the limit and one thread less.
Budget ==
  \A h \in DOMAIN entries \ restored :
    entries[h].max_operations # 0 =>
      entries[h].used_operations + Cardinality(InFlight(h))
        < entries[h].max_operations + Cardinality(Thread)

IndInv ==
  /\ TypeOK
  /\ KeysHome
  /\ CallsHome
  /\ NeverOvercounted
  /\ Counted
  /\ Budget

-----------------------------------------------------------------------------
\* Two versions of an entry that differ at most in its state and lineage.
SameKey(e, f) ==
  /\ make_handle(f) = make_handle(e)
  /\ f.key = e.key
  /\ f.used_operations = e.used_operations
  /\ f.max_operations = e.max_operations

LEMMA HandleType == \A e \in Entry : make_handle(e) \in Handle
  BY SMT DEF Entry, make_handle, public_key, Handle

LEMMA NewEntryType ==
  ASSUME NEW r \in Request, NEW key \in Nat \ {0}, now \in Nat
  PROVE  new_entry(r, key) \in Entry
<1>1. r.type \in {"symmetric", "sign", "kem"}
  BY DEF Request, ObjectType
<1>2. granted(r.type) \subseteq ObjectFlag
  BY <1>1 DEF granted, ObjectFlag
<1>. QED
  BY <1>1, <1>2, SMT DEF new_entry, Entry, Request, KeyState

LEMMA RequestType == CreateRequest \subseteq Request
<1>1. /\ CreateType \subseteq ObjectType
      /\ CreateFlags \subseteq SUBSET ObjectFlag
      /\ Limit \subseteq Nat
      /\ Name \X {0} \subseteq Label
  BY OptionsAssumption, SMT DEF Label
<1>2. SUFFICES ASSUME NEW r \in CreateRequest PROVE r \in Request
  OBVIOUS
<1>3. /\ r = [type |-> r.type, label |-> r.label, flags |-> r.flags,
                allowed_domain |-> r.allowed_domain, max_operations |-> r.max_operations]
      /\ r.type \in CreateType /\ r.label \in Name \X {0} /\ r.flags \in CreateFlags
      /\ r.allowed_domain \in Domain \cup {NoDomain} /\ r.max_operations \in Limit
  BY <1>2, SMT DEF CreateRequest
<1>4. /\ r.type \in ObjectType /\ r.label \in Label /\ r.flags \in SUBSET ObjectFlag
      /\ r.max_operations \in Nat
  BY <1>1, <1>3, Zenon
<1>. QED
  BY <1>3, <1>4, Zenon DEF Request

\* What set_state and RotateLink write keeps the type and the key of an entry.
LEMMA StateWrite ==
  ASSUME NEW e \in Entry, NEW state \in KeyState
  PROVE  LET f == [e EXCEPT !.state = state] IN f \in Entry /\ SameKey(e, f)
  BY SMT DEF Entry, SameKey, make_handle, public_key

LEMMA CountWrite ==
  ASSUME NEW e \in Entry
  PROVE  LET f == [e EXCEPT !.used_operations = @ + 1]
         IN /\ f \in Entry /\ make_handle(f) = make_handle(e) /\ f.key = e.key
            /\ f.max_operations = e.max_operations
            /\ f.used_operations = e.used_operations + 1
  BY SMT DEF Entry, make_handle, public_key

LEMMA LinkWrite ==
  ASSUME NEW h \in DOMAIN entries, NEW n \in DOMAIN entries, NEW retire_old \in BOOLEAN,
         h \in Handle, n \in Handle,
         \A x \in DOMAIN entries : entries[x] \in Entry
  PROVE  /\ DOMAIN linked(h, n, retire_old) = DOMAIN entries
         /\ \A x \in DOMAIN entries : /\ linked(h, n, retire_old)[x] \in Entry
                                      /\ SameKey(entries[x], linked(h, n, retire_old)[x])
<1>. DEFINE g == entries[h].generation + 1
            s == IF retire_old THEN "retired" ELSE entries[h].state
            e1 == [entries EXCEPT ![h].replacement_handle = n]
            e2 == [e1 EXCEPT ![h].generation = g]
            e3 == [e2 EXCEPT ![h].state = s]
            e4 == [e3 EXCEPT ![n].original_handle = h]
            e5 == [e4 EXCEPT ![n].generation = g]
            Kept(f) == /\ DOMAIN f = DOMAIN entries
                       /\ \A x \in DOMAIN entries : f[x] \in Entry /\ SameKey(entries[x], f[x])
<1>1. g \in Nat /\ s \in KeyState
  BY DEF Entry, KeyState
<1>2. Kept(e1)
  BY SMT DEF Entry, SameKey, make_handle, public_key
<1>. HIDE DEF e1
<1>3. Kept(e2)
  BY <1>1, <1>2, SMT DEF Entry, SameKey, make_handle, public_key
<1>. HIDE DEF e2
<1>4. Kept(e3)
  BY <1>1, <1>3, SMT DEF Entry, SameKey, make_handle, public_key
<1>. HIDE DEF e3
<1>5. Kept(e4)
  BY <1>1, <1>4, SMT DEF Entry, SameKey, make_handle, public_key
<1>. HIDE DEF e4
<1>6. Kept(e5)
  BY <1>1, <1>5, SMT DEF Entry, SameKey, make_handle, public_key
<1>7. linked(h, n, retire_old) = e5
  BY DEF linked, e1, e2, e3, e4
<1>. QED
  BY <1>6, <1>7

\* The table after store_secret or import_sealed has its type.
LEMMA PutType ==
  ASSUME TypeOK, NEW e \in Entry, NEW f, f = Put(make_handle(e), e)
  PROVE  /\ DOMAIN f \subseteq Handle
         /\ \A h \in DOMAIN f : f[h] \in Entry /\ make_handle(f[h]) = h
<1>1. make_handle(e) \in Handle
  BY HandleType
<1>2. /\ DOMAIN f = DOMAIN entries \cup {make_handle(e)}
      /\ f[make_handle(e)] = e
      /\ \A x \in DOMAIN f : x # make_handle(e) => x \in DOMAIN entries /\ f[x] = entries[x]
  BY DEF Put
<1>. QED
  BY <1>1, <1>2, Zenon DEF TypeOK

LEMMA PutObjects ==
  ASSUME NEW h, NEW e, entries' = Put(h, e), sealed' = sealed
  PROVE  \A f \in Objects' : f \in Objects \/ f = e
<1>1. ASSUME NEW x \in DOMAIN entries'
      PROVE  entries'[x] \in Objects \/ entries'[x] = e
  BY DEF Put, Objects
<1>. QED
  BY <1>1, Zenon DEF Objects

LEMMA HistoryAppend ==
  ASSUME TypeOK, NEW h \in Handle,
         history' = Append(history, [handle |-> h, released |-> 0])
  PROVE  /\ history' \in Seq([handle : Handle, released : Nat])
         /\ DOMAIN history' = DOMAIN history \cup {Len(history) + 1}
         /\ Len(history) + 1 \in Nat \ {0}
         /\ Len(history) + 1 \notin DOMAIN history
         /\ \A k \in DOMAIN history : history'[k] = history[k]
         /\ history'[Len(history) + 1] = [handle |-> h, released |-> 0]
  BY SMT DEF TypeOK

-----------------------------------------------------------------------------
LEMMA StoreType ==
  ASSUME TypeOK, NEW r \in Request, store_secret(new_entry(r, Len(history) + 1)),
         UNCHANGED <<now, sealed, restored>>, call' \in [Thread -> Call]
  PROVE  TypeOK'
<1>. DEFINE e == new_entry(r, Len(history) + 1)
<1>1. Len(history) + 1 \in Nat \ {0} /\ now \in Nat
  BY SMT DEF TypeOK
<1>2. e \in Entry /\ make_handle(e) \in Handle
  BY <1>1, NewEntryType, HandleType
<1>3. e.key = Len(history) + 1
  BY DEF new_entry
<1>. HIDE DEF e
<1>4. /\ entries' = Put(make_handle(e), e)
      /\ history' = Append(history, [handle |-> make_handle(e), released |-> 0])
  BY DEF store_secret, e
<1>5. /\ DOMAIN entries' \subseteq Handle
      /\ \A h \in DOMAIN entries' : entries'[h] \in Entry /\ make_handle(entries'[h]) = h
  BY <1>2, <1>4, PutType
<1>6. \A f \in Objects' : f.key \in DOMAIN history'
  <2>1. \A f \in Objects' : f \in Objects \/ f = e
    BY <1>4, PutObjects
  <2>. QED
    BY <2>1, <1>2, <1>3, <1>4, HistoryAppend DEF TypeOK
<1>. QED
  BY <1>2, <1>4, <1>5, <1>6, HistoryAppend DEF TypeOK

LEMMA TypeStep == TypeOK /\ [Next]_vars => TypeOK'
<1>. SUFFICES ASSUME TypeOK, [Next]_vars PROVE TypeOK'
  OBVIOUS
<1>. USE DEF TypeOK
<1>1. CASE Tick
  BY <1>1 DEF Tick, Objects
<1>2. ASSUME NEW t \in Thread, Generate(t) PROVE TypeOK'
  BY <1>2, RequestType, StoreType DEF Generate
<1>3. ASSUME NEW t \in Thread, Use(t) PROVE TypeOK'
  <2>1. ASSUME NEW op, NEW h \in DOMAIN entries, NEW d, BeginOperation(t, op, h, d)
        PROVE  TypeOK'
    <3>1. [pc |-> "use", handle |-> h, key |-> entries[h].key] \in Call
      BY DEF Call, Entry
    <3>. QED
      BY <2>1, <3>1 DEF BeginOperation, Objects
  <2>2. CASE FinishOperation(t)
    <3>. DEFINE k == call[t].key
                h == call[t].handle
    <3>1. call' \in [Thread -> Call]
      BY <2>2 DEF FinishOperation, Call, Idle
    <3>2. history' \in Seq([handle : Handle, released : Nat]) /\ DOMAIN history' = DOMAIN history
      <4>. DEFINE r == [history[k] EXCEPT !.released = @ + 1]
      <4>1. history' = [history EXCEPT ![k] = r]
        BY <2>2 DEF FinishOperation
      <4>2. CASE k \in DOMAIN history
        <5>1. k \in 1 .. Len(history) /\ history[k] \in [handle : Handle, released : Nat]
          <6>1. DOMAIN history = 1 .. Len(history)
            BY LenProperties
          <6>. QED
            BY <4>2, <6>1, ElementOfSeq
        <5>2. r \in [handle : Handle, released : Nat]
          <6>1. /\ history[k].handle \in Handle /\ history[k].released + 1 \in Nat
                /\ r = [handle |-> history[k].handle, released |-> history[k].released + 1]
            BY <5>1
          <6>. QED
            BY <6>1, Zenon
        <5>3. [history EXCEPT ![k] = r] \in Seq([handle : Handle, released : Nat])
          BY <5>1, <5>2, ExceptSeq
        <5>. QED
          BY <4>1, <5>3, Zenon
      <4>3. CASE k \notin DOMAIN history
        <5>1. history = [x \in DOMAIN history |-> history[x]]
          BY LenProperties
        <5>2. history' = [x \in DOMAIN history |-> history[x]]
          BY <4>1, <4>3
        <5>. QED
          BY <5>1, <5>2
      <4>. QED
        BY <4>2, <4>3
    <3>3. /\ DOMAIN entries' = DOMAIN entries
          /\ \A x \in DOMAIN entries : /\ entries'[x] \in Entry
                                        /\ make_handle(entries'[x]) = make_handle(entries[x])
                                        /\ entries'[x].key = entries[x].key
      <4>1. entries' = IF h \in DOMAIN entries
                         THEN [entries EXCEPT ![h].used_operations = @ + 1] ELSE entries
        BY <2>2 DEF FinishOperation, record_operation
      <4>. QED
        BY <4>1, CountWrite
    <3>. QED
      BY <2>2, <3>1, <3>2, <3>3 DEF FinishOperation, Objects
  <2>3. CASE FailOperation(t)
    BY <2>3 DEF FailOperation, Objects, Call, Idle
  <2>. QED
    BY <1>3, <2>1, <2>2, <2>3 DEF Use
<1>4. ASSUME NEW t \in Thread, Rotate(t) PROVE TypeOK'
  <2>1. ASSUME NEW h \in DOMAIN entries, NEW label \in RotateLabel,
               NEW preserve_policy \in BOOLEAN, NEW retire_old \in BOOLEAN,
               BeginRotate(t, h, label, preserve_policy, retire_old)
        PROVE  TypeOK'
    <3>. DEFINE create == [type |-> entries[h].type,
                           label |-> IF label = NoLabel THEN rotated(entries[h].label) ELSE label,
                           flags |-> entries[h].flags,
                           allowed_domain |-> IF preserve_policy THEN entries[h].allowed_domain
                                                                 ELSE NoDomain,
                           max_operations |-> IF preserve_policy THEN entries[h].max_operations
                                                                 ELSE 0]
    <3>1. create.label \in Label
      <4>1. label \in Label \cup {NoLabel}
        BY OptionsAssumption
      <4>2. rotated(entries[h].label) \in Label
        BY SMT DEF Entry, Label, rotated
      <4>. QED
        BY <4>1, <4>2
    <3>2. create \in Request
      BY <3>1, SMT DEF Entry, Request
    <3>. HIDE DEF create
    <3>3. [pc |-> "rotate", handle |-> h, create |-> create, retire_old |-> retire_old] \in Call
      BY <3>2 DEF Call
    <3>4. call' = [call EXCEPT ![t] = [pc |-> "rotate", handle |-> h, create |-> create,
                                       retire_old |-> retire_old]]
      BY <2>1 DEF BeginRotate, create
    <3>. QED
      BY <2>1, <3>3, <3>4 DEF BeginRotate, Objects
  <2>2. CASE RotateGenerate(t)
    <3>1. call[t].create \in Request /\ call[t].handle \in Handle /\ call[t].retire_old \in BOOLEAN
      BY <2>2 DEF RotateGenerate, Call, Idle
    <3>2. make_handle(new_entry(call[t].create, Len(history) + 1)) \in Handle
      BY <3>1, NewEntryType, HandleType, SMT
    <3>3. call' \in [Thread -> Call]
      <4>1. [pc |-> "link", handle |-> call[t].handle,
             new |-> make_handle(new_entry(call[t].create, Len(history) + 1)),
             retire_old |-> call[t].retire_old] \in Call
        BY <3>1, <3>2 DEF Call
      <4>. QED
        BY <2>2, <4>1 DEF RotateGenerate
    <3>. QED
      BY <2>2, <3>1, <3>3, StoreType DEF RotateGenerate
  <2>3. CASE FailRotate(t)
    BY <2>3 DEF FailRotate, Objects, Call, Idle
  <2>4. CASE RotateLink(t)
    <3>1. call' \in [Thread -> Call] /\ call[t].retire_old \in BOOLEAN
      BY <2>4 DEF RotateLink, Call, Idle
    <3>2. /\ DOMAIN entries' = DOMAIN entries
          /\ \A x \in DOMAIN entries : entries'[x] \in Entry /\ SameKey(entries[x], entries'[x])
      <4>1. CASE {call[t].handle, call[t].new} \subseteq DOMAIN entries
        <5>1. entries' = linked(call[t].handle, call[t].new, call[t].retire_old)
          BY <2>4, <4>1 DEF RotateLink
        <5>. QED
          BY <3>1, <4>1, <5>1, LinkWrite
      <4>2. CASE ~({call[t].handle, call[t].new} \subseteq DOMAIN entries)
        BY <2>4, <4>2 DEF RotateLink, SameKey
      <4>. QED
        BY <4>1, <4>2
    <3>. QED
      BY <2>4, <3>1, <3>2 DEF RotateLink, Objects, SameKey
  <2>. QED
    BY <1>4, <2>1, <2>2, <2>3, <2>4 DEF Rotate
<1>5. ASSUME NEW t \in Thread, Administer(t) PROVE TypeOK'
  <2>1. ASSUME NEW h \in DOMAIN entries, NEW state \in SetState, set_state(t, h, state)
        PROVE  TypeOK'
    <3>1. state \in KeyState
      BY OptionsAssumption
    <3>2. /\ DOMAIN entries' = DOMAIN entries
          /\ \A x \in DOMAIN entries : entries'[x] \in Entry /\ SameKey(entries[x], entries'[x])
      BY <2>1, <3>1, StateWrite, SMT DEF set_state, SameKey
    <3>3. UNCHANGED <<now, call, sealed, history, restored>>
      BY <2>1 DEF set_state
    <3>. QED
      BY <3>2, <3>3 DEF Objects, SameKey
  <2>2. ASSUME NEW h \in DOMAIN entries, erase(t, h) PROVE TypeOK'
    BY <2>2 DEF erase, Restrict, Objects
  <2>3. CASE clear(t)
    BY <2>3 DEF clear, Objects
  <2>4. ASSUME NEW h \in DOMAIN entries, export_sealed(t, h) PROVE TypeOK'
    BY <2>4 DEF export_sealed, Objects
  <2>5. ASSUME NEW e \in sealed, import_sealed(t, e) PROVE TypeOK'
    <3>1. \A f \in Objects' : f \in Objects
      BY <2>5, PutObjects DEF import_sealed, Objects
    <3>2. /\ DOMAIN entries' \subseteq Handle
          /\ \A h \in DOMAIN entries' : entries'[h] \in Entry /\ make_handle(entries'[h]) = h
      BY <2>5, PutType DEF import_sealed
    <3>3. make_handle(e) \in Handle
      BY HandleType
    <3>4. UNCHANGED <<now, call, sealed, history>> /\ restored' = restored \cup {make_handle(e)}
      BY <2>5 DEF import_sealed
    <3>. QED
      BY <3>1, <3>2, <3>3, <3>4
  <2>. QED
    BY <1>5, <2>1, <2>2, <2>3, <2>4, <2>5 DEF Administer
<1>6. CASE UNCHANGED vars
  BY <1>6 DEF vars, Objects
<1>. QED
  BY <1>1, <1>2, <1>3, <1>4, <1>5, <1>6 DEF Next

-----------------------------------------------------------------------------
LEMMA InFlightFinite ==
  \A h : /\ IsFiniteSet(InFlight(h)) /\ Cardinality(InFlight(h)) \in Nat
         /\ Cardinality(Thread) \in Nat \ {0}
         /\ Cardinality(InFlight(h)) <= Cardinality(Thread)
<1>1. \A h : InFlight(h) \subseteq Thread
  BY DEF InFlight
<1>2. Cardinality(Thread) \in Nat /\ Cardinality(Thread) # 0
  BY ThreadAssumption, FS_CardinalityType, FS_EmptySet
<1>. QED
  BY <1>1, <1>2, ThreadAssumption, FS_Subset, FS_CardinalityType

\* Fewer operations in flight on h.
LEMMA InFlightShrinks ==
  ASSUME NEW h, InFlight(h)' \subseteq InFlight(h)
  PROVE  /\ Cardinality(InFlight(h)') <= Cardinality(InFlight(h))
         /\ Cardinality(InFlight(h)') \in Nat
<1>. DEFINE S == InFlight(h)
            T == InFlight(h)'
<1>1. IsFiniteSet(S) /\ T \subseteq S
  BY InFlightFinite
<1>. HIDE DEF S, T
<1>2. Cardinality(T) <= Cardinality(S) /\ Cardinality(T) \in Nat
  BY <1>1, FS_Subset, FS_CardinalityType
<1>. QED
  BY <1>2 DEF S, T

\* A step that starts no operation, counts none, and changes at most the state
\* and the lineage of entries, or removes entries.
LEMMA QuietStep ==
  ASSUME IndInv, TypeOK', UNCHANGED <<history, restored>>,
         DOMAIN entries' \subseteq DOMAIN entries,
         \A x \in DOMAIN entries' : SameKey(entries[x], entries'[x]),
         sealed' \subseteq Objects,
         \A t \in Thread : call'[t].pc = "use" => call'[t] = call[t]
  PROVE  IndInv'
<1>1. \A f \in Objects' : \E e \in Objects : SameKey(e, f)
  BY DEF Objects, SameKey
<1>2. KeysHome' /\ NeverOvercounted'
  BY <1>1 DEF IndInv, KeysHome, NeverOvercounted, SameKey
<1>3. CallsHome'
  BY DEF IndInv, CallsHome
<1>4. Counted'
  BY DEF IndInv, Counted, SameKey
<1>5. ASSUME NEW h \in DOMAIN entries' \ restored', entries'[h].max_operations # 0
      PROVE  entries'[h].used_operations + Cardinality(InFlight(h)')
               < entries'[h].max_operations + Cardinality(Thread)
  <2>1. InFlight(h)' \subseteq InFlight(h)
    BY DEF InFlight
  <2>2. /\ entries'[h].used_operations = entries[h].used_operations
        /\ entries'[h].max_operations = entries[h].max_operations
        /\ entries[h].used_operations \in Nat /\ entries[h].max_operations \in Nat
    BY <1>5 DEF SameKey, IndInv, TypeOK, Entry
  <2>3. entries[h].used_operations + Cardinality(InFlight(h))
          < entries[h].max_operations + Cardinality(Thread)
    BY <1>5, <2>2 DEF IndInv, Budget
  <2>. QED
    BY <2>1, <2>2, <2>3, InFlightShrinks, InFlightFinite, SMT
<1>6. Budget'
  BY <1>5 DEF Budget
<1>. QED
  BY <1>2, <1>3, <1>4, <1>6 DEF IndInv

\* A step that stores a new key: nothing was released under it.
LEMMA StoreStep ==
  ASSUME IndInv, TypeOK', NEW r \in Request, store_secret(new_entry(r, Len(history) + 1)),
         UNCHANGED <<sealed, restored>>,
         \A t \in Thread : call'[t].pc = "use" => call'[t] = call[t]
  PROVE  IndInv'
<1>. DEFINE e == new_entry(r, Len(history) + 1)
            k == Len(history) + 1
<1>1. e.key = k /\ e.used_operations = 0 /\ e.max_operations \in Nat /\ make_handle(e) \in Handle
  <2>1. e \in Entry
    BY NewEntryType, SMT DEF IndInv, TypeOK
  <2>. QED
    BY <2>1, HandleType, SMT DEF new_entry, Entry
<1>. HIDE DEF e
<1>2. /\ entries' = Put(make_handle(e), e)
      /\ history' = Append(history, [handle |-> make_handle(e), released |-> 0])
  BY DEF store_secret, e
<1>3. /\ DOMAIN history' = DOMAIN history \cup {k} /\ k \notin DOMAIN history
      /\ \A j \in DOMAIN history : history'[j] = history[j]
      /\ history'[k] = [handle |-> make_handle(e), released |-> 0]
  BY <1>1, <1>2, HistoryAppend DEF IndInv
<1>. HIDE DEF k
<1>4. \A f \in Objects' : f = e \/ f \in Objects
  BY <1>2, PutObjects
<1>5. \A h \in DOMAIN entries' : \/ h = make_handle(e) /\ entries'[h] = e
                                 \/ h \in DOMAIN entries /\ entries'[h] = entries[h]
  BY <1>2 DEF Put
<1>6. KeysHome' /\ NeverOvercounted'
  <2>1. ASSUME NEW f \in Objects'
        PROVE  /\ history'[f.key].handle = make_handle(f)
               /\ f.used_operations <= history'[f.key].released
    <3>1. CASE f = e
      BY <1>1, <1>3, <3>1, SMT
    <3>2. CASE f \in Objects
      <4>1. f.key \in DOMAIN history
        BY <3>2 DEF IndInv, TypeOK
      <4>. QED
        BY <1>3, <3>2, <4>1 DEF IndInv, KeysHome, NeverOvercounted
    <3>. QED
      BY <1>4, <2>1, <3>1, <3>2
  <2>. QED
    BY <2>1 DEF KeysHome, NeverOvercounted
<1>7. CallsHome'
  BY <1>3 DEF IndInv, CallsHome
<1>8. Counted'
  <2>1. \A h \in DOMAIN entries : entries[h].key \in DOMAIN history
    BY DEF IndInv, TypeOK, Objects
  <2>. QED
    BY <1>1, <1>3, <1>5, <2>1 DEF IndInv, Counted
<1>9. ASSUME NEW h \in DOMAIN entries' \ restored', entries'[h].max_operations # 0
      PROVE  entries'[h].used_operations + Cardinality(InFlight(h)')
               < entries'[h].max_operations + Cardinality(Thread)
  <2>1. InFlight(h)' \subseteq InFlight(h)
    BY DEF InFlight
  <2>2. CASE entries'[h] = e
    BY <1>1, <1>9, <2>1, <2>2, InFlightShrinks, InFlightFinite, SMT
  <2>3. CASE h \in DOMAIN entries /\ entries'[h] = entries[h]
    <3>1. entries[h].used_operations \in Nat /\ entries[h].max_operations \in Nat
      BY <2>3 DEF IndInv, TypeOK, Entry
    <3>2. entries[h].used_operations + Cardinality(InFlight(h))
            < entries[h].max_operations + Cardinality(Thread)
      BY <1>9, <2>3 DEF IndInv, Budget
    <3>. QED
      BY <2>1, <2>3, <3>1, <3>2, InFlightShrinks, InFlightFinite, SMT
  <2>. QED
    BY <1>5, <2>2, <2>3
<1>10. Budget'
  BY <1>9 DEF Budget
<1>. QED
  BY <1>6, <1>7, <1>8, <1>10 DEF IndInv

LEMMA BeginStep ==
  ASSUME IndInv, TypeOK', NEW t \in Thread, NEW op, NEW h \in DOMAIN entries, NEW d,
         BeginOperation(t, op, h, d)
  PROVE  IndInv'
<1>. DEFINE e == entries[h]
<1>1. /\ UNCHANGED <<entries, sealed, history, restored>>
      /\ call \in [Thread -> Call] /\ call[t] = Idle
      /\ call' = [call EXCEPT ![t] = [pc |-> "use", handle |-> h, key |-> e.key]]
  BY DEF BeginOperation, IndInv, TypeOK
<1>2. /\ e \in Entry /\ e \in Objects /\ make_handle(e) = h
      /\ e.type \in {"sign", "kem"} /\ below_limit(e)
  BY DEF IndInv, TypeOK, Objects, BeginOperation, may_use
<1>3. KeysHome' /\ NeverOvercounted' /\ Counted'
  BY <1>1 DEF IndInv, KeysHome, NeverOvercounted, Counted, Objects
<1>4. CallsHome'
  <2>1. h[3] = e.key
    BY <1>2, SMT DEF make_handle, public_key
  <2>2. e.key \in DOMAIN history /\ history[e.key].handle = h
    BY <1>2 DEF IndInv, TypeOK, KeysHome
  <2>. QED
    BY <1>1, <2>1, <2>2 DEF IndInv, CallsHome
<1>5. ASSUME NEW x \in DOMAIN entries' \ restored', entries'[x].max_operations # 0
      PROVE  entries'[x].used_operations + Cardinality(InFlight(x)')
               < entries'[x].max_operations + Cardinality(Thread)
  <2>1. /\ entries'[x] = entries[x] /\ x \in DOMAIN entries \ restored
        /\ entries[x].used_operations \in Nat /\ entries[x].max_operations \in Nat
    BY <1>1, <1>5 DEF IndInv, TypeOK, Entry
  <2>2. CASE x = h
    <3>1. entries[x].used_operations < entries[x].max_operations
      BY <1>2, <1>5, <2>1, <2>2 DEF below_limit
    <3>2. Cardinality(InFlight(x)') <= Cardinality(Thread) /\ Cardinality(InFlight(x)') \in Nat
      <4>. DEFINE T == InFlight(x)'
      <4>1. T \subseteq Thread
        BY DEF InFlight
      <4>. HIDE DEF T
      <4>2. Cardinality(T) <= Cardinality(Thread) /\ Cardinality(T) \in Nat
        BY <4>1, ThreadAssumption, FS_Subset, FS_CardinalityType
      <4>. QED
        BY <4>2 DEF T
    <3>3. Cardinality(Thread) \in Nat
      BY ThreadAssumption, FS_CardinalityType
    <3>. QED
      BY <2>1, <3>1, <3>2, <3>3, SMT
  <2>3. CASE x # h
    <3>1. InFlight(x)' \subseteq InFlight(x)
      BY <1>1, <2>3 DEF InFlight
    <3>2. entries[x].used_operations + Cardinality(InFlight(x))
            < entries[x].max_operations + Cardinality(Thread)
      BY <1>5, <2>1 DEF IndInv, Budget
    <3>. QED
      BY <2>1, <3>1, <3>2, InFlightShrinks, InFlightFinite, SMT
  <2>. QED
    BY <2>2, <2>3
<1>6. Budget'
  BY <1>5 DEF Budget
<1>. QED
  BY <1>3, <1>4, <1>6 DEF IndInv

LEMMA FinishStep ==
  ASSUME IndInv, TypeOK', NEW t \in Thread, FinishOperation(t)
  PROVE  IndInv'
<1>. DEFINE k == call[t].key
            h == call[t].handle
<1>1. /\ call[t].pc = "use" /\ call \in [Thread -> Call]
      /\ call' = [call EXCEPT ![t] = Idle]
      /\ UNCHANGED <<sealed, restored>>
      /\ k \in DOMAIN history /\ history[k].handle = h /\ h[3] = k /\ k \in Nat \ {0}
  BY DEF FinishOperation, IndInv, TypeOK, CallsHome, Call, Idle
<1>2. /\ DOMAIN history' = DOMAIN history
      /\ \A j \in DOMAIN history : /\ history'[j].handle = history[j].handle
                                   /\ history[j].released \in Nat
                                   /\ history'[j].released =
                                        IF j = k THEN history[j].released + 1
                                                 ELSE history[j].released
  <2>1. DOMAIN history = 1 .. Len(history) /\ history \in [1 .. Len(history) -> [handle : Handle, released : Nat]]
    BY LenProperties DEF IndInv, TypeOK
  <2>2. history' = [history EXCEPT ![k].released = @ + 1]
    BY DEF FinishOperation
  <2>. QED
    BY <2>1, <2>2
<1>3. /\ DOMAIN entries' = DOMAIN entries
      /\ \A x \in DOMAIN entries \ {h} : entries'[x] = entries[x]
      /\ h \in DOMAIN entries => /\ make_handle(entries'[h]) = make_handle(entries[h])
                                /\ entries'[h].key = entries[h].key
                                /\ entries'[h].max_operations = entries[h].max_operations
                                /\ entries'[h].used_operations = entries[h].used_operations + 1
  <2>1. entries' = IF h \in DOMAIN entries
                     THEN [entries EXCEPT ![h].used_operations = @ + 1] ELSE entries
    BY DEF FinishOperation, record_operation
  <2>2. \A x \in DOMAIN entries : entries[x] \in Entry
    BY DEF IndInv, TypeOK
  <2>. QED
    BY <2>1, <2>2, CountWrite
<1>4. \A x \in DOMAIN entries :
        /\ entries[x] \in Entry /\ entries[x] \in Objects /\ make_handle(entries[x]) = x
        /\ entries[x].used_operations \in Nat /\ entries[x].max_operations \in Nat
        /\ entries[x].key \in DOMAIN history
        /\ history[entries[x].key].handle = x
  BY DEF IndInv, TypeOK, Objects, KeysHome, Entry
<1>5. h \in DOMAIN entries => entries[h].key = k
  <2>1. ASSUME h \in DOMAIN entries PROVE entries[h].key = k
    <3>1. public_key(entries[h]) = h[3]
      BY <1>4, <2>1, SMT DEF make_handle
    <3>. QED
      BY <1>1, <1>4, <2>1, <3>1, SMT DEF public_key, Entry
  <2>. QED
    BY <2>1
<1>6. \A x \in DOMAIN entries \ {h} : entries[x].key # k
  BY <1>1, <1>4
<1>. HIDE DEF k, h
<1>7. \A e \in Objects : e.used_operations \in Nat /\ e.key \in DOMAIN history
  BY DEF IndInv, TypeOK, Objects, Entry
<1>8. ASSUME NEW f \in Objects'
      PROVE  /\ history'[f.key].handle = make_handle(f)
             /\ f.used_operations <= history'[f.key].released
  <2>1. CASE f \in Objects
    <3>1. /\ history[f.key].handle = make_handle(f)
          /\ f.used_operations <= history[f.key].released
      BY <2>1 DEF IndInv, KeysHome, NeverOvercounted
    <3>. QED
      BY <1>2, <1>7, <2>1, <3>1, SMT
  <2>2. CASE h \in DOMAIN entries /\ f = entries'[h]
    <3>1. entries[h].used_operations <= history[k].released
      BY <1>4, <1>5, <2>2 DEF IndInv, NeverOvercounted
    <3>. QED
      BY <1>1, <1>2, <1>3, <1>4, <1>5, <2>2, <3>1, SMT
  <2>3. f \in Objects \/ (h \in DOMAIN entries /\ f = entries'[h])
    BY <1>1, <1>3, <1>8 DEF Objects
  <2>. QED
    BY <2>1, <2>2, <2>3
<1>9. KeysHome' /\ NeverOvercounted'
  BY <1>8 DEF KeysHome, NeverOvercounted
<1>10. CallsHome'
  BY <1>1, <1>2 DEF IndInv, CallsHome, Idle
<1>11. ASSUME NEW x \in DOMAIN entries' \ restored'
       PROVE  entries'[x].used_operations = history'[entries'[x].key].released
  <2>1. x \in DOMAIN entries \ restored
    BY <1>1, <1>3
  <2>2. entries[x].used_operations = history[entries[x].key].released
    BY <2>1 DEF IndInv, Counted
  <2>3. CASE x = h
    BY <1>1, <1>2, <1>3, <1>5, <2>1, <2>2, <2>3
  <2>4. CASE x # h
    BY <1>2, <1>3, <1>4, <1>6, <2>1, <2>2, <2>4
  <2>. QED
    BY <2>3, <2>4
<1>12. Counted'
  BY <1>11 DEF Counted
<1>13. ASSUME NEW x \in DOMAIN entries' \ restored', entries'[x].max_operations # 0
       PROVE  entries'[x].used_operations + Cardinality(InFlight(x)')
                < entries'[x].max_operations + Cardinality(Thread)
  <2>1. x \in DOMAIN entries \ restored /\ entries'[x].max_operations = entries[x].max_operations
    BY <1>1, <1>3, <1>13
  <2>2. entries[x].used_operations + Cardinality(InFlight(x))
          < entries[x].max_operations + Cardinality(Thread)
    BY <1>13, <2>1 DEF IndInv, Budget
  <2>3. Cardinality(Thread) \in Nat /\ Cardinality(InFlight(x)) \in Nat
    BY InFlightFinite
  <2>4. CASE x = h
    <3>. DEFINE S == InFlight(x)
                T == InFlight(x)'
    <3>1. T = S \ {t} /\ t \in S
      BY <1>1, <2>4 DEF InFlight, Idle, h
    <3>2. IsFiniteSet(S)
      BY InFlightFinite
    <3>. HIDE DEF S, T
    <3>3. Cardinality(T) = Cardinality(S) - 1
      BY <3>1, <3>2, FS_RemoveElement
    <3>4. Cardinality(InFlight(x)') = Cardinality(InFlight(x)) - 1
      BY <3>3 DEF S, T
    <3>. QED
      BY <1>3, <1>4, <2>1, <2>2, <2>3, <2>4, <3>4, SMT
  <2>5. CASE x # h
    <3>1. InFlight(x)' \subseteq InFlight(x)
      BY <1>1 DEF InFlight, Idle
    <3>2. /\ Cardinality(InFlight(x)') <= Cardinality(InFlight(x))
          /\ Cardinality(InFlight(x)') \in Nat
      BY <3>1, InFlightShrinks
    <3>. QED
      BY <1>3, <1>4, <2>1, <2>2, <2>3, <2>5, <3>2, SMT
  <2>. QED
    BY <2>4, <2>5
<1>14. Budget'
  BY <1>13 DEF Budget
<1>. QED
  BY <1>9, <1>10, <1>12, <1>14 DEF IndInv

LEMMA ImportStep ==
  ASSUME IndInv, TypeOK', NEW t \in Thread, NEW e \in sealed, import_sealed(t, e)
  PROVE  IndInv'
<1>1. /\ entries' = Put(make_handle(e), e)
      /\ restored' = restored \cup {make_handle(e)}
      /\ UNCHANGED <<call, sealed, history>>
  BY DEF import_sealed
<1>2. \A f \in Objects' : f \in Objects
  BY <1>1, PutObjects DEF Objects
<1>3. KeysHome' /\ NeverOvercounted' /\ CallsHome'
  BY <1>1, <1>2 DEF IndInv, KeysHome, NeverOvercounted, CallsHome
<1>4. \A h \in DOMAIN entries' \ restored' :
        h \in DOMAIN entries \ restored /\ entries'[h] = entries[h]
  BY <1>1 DEF Put
<1>5. \A h : InFlight(h)' = InFlight(h)
  BY <1>1 DEF InFlight
<1>6. Counted' /\ Budget'
  BY <1>1, <1>4, <1>5 DEF IndInv, Counted, Budget
<1>. QED
  BY <1>3, <1>6 DEF IndInv

-----------------------------------------------------------------------------
LEMMA InitIndInv == Init => IndInv
<1>. SUFFICES ASSUME Init PROVE IndInv
  OBVIOUS
<1>1. DOMAIN entries = {} /\ sealed = {} /\ Objects = {}
  BY DEF Init, Objects
<1>2. TypeOK
  BY <1>1, EmptySeq DEF Init, TypeOK, Call
<1>3. CallsHome
  BY DEF Init, CallsHome, Idle
<1>. QED
  BY <1>1, <1>2, <1>3 DEF IndInv, KeysHome, NeverOvercounted, Counted, Budget

LEMMA NextIndInv == IndInv /\ [Next]_vars => IndInv'
<1>. SUFFICES ASSUME IndInv, [Next]_vars PROVE IndInv'
  OBVIOUS
<1>1. TypeOK /\ TypeOK'
  BY TypeStep DEF IndInv
<1>2. \A x : SameKey(x, x)
  BY DEF SameKey
<1>3. entries = entries' => \A x \in DOMAIN entries' : SameKey(entries[x], entries'[x])
  BY <1>2
<1>4. CASE Tick
  BY <1>1, <1>3, <1>4, QuietStep DEF Tick, Objects
<1>5. ASSUME NEW t \in Thread, Generate(t) PROVE IndInv'
  BY <1>1, <1>5, RequestType, StoreStep DEF Generate
<1>6. ASSUME NEW t \in Thread, Use(t) PROVE IndInv'
  <2>1. CASE FailOperation(t)
    BY <1>1, <1>3, <2>1, QuietStep DEF FailOperation, TypeOK, Idle, Objects
  <2>. QED
    BY <1>1, <1>6, <2>1, BeginStep, FinishStep DEF Use
<1>7. ASSUME NEW t \in Thread, Rotate(t) PROVE IndInv'
  <2>1. ASSUME NEW h, NEW label, NEW preserve_policy, NEW retire_old,
               BeginRotate(t, h, label, preserve_policy, retire_old)
        PROVE  IndInv'
    <3>1. \A u \in Thread : call'[u].pc = "use" => call'[u] = call[u]
      BY <1>1, <2>1 DEF BeginRotate, TypeOK
    <3>. QED
      BY <1>1, <1>3, <2>1, <3>1, QuietStep DEF BeginRotate, Objects
  <2>2. CASE RotateGenerate(t)
    <3>1. call[t].create \in Request
      BY <1>1, <2>2 DEF RotateGenerate, TypeOK, Call, Idle
    <3>2. \A u \in Thread : call'[u].pc = "use" => call'[u] = call[u]
      BY <1>1, <2>2 DEF RotateGenerate, TypeOK
    <3>. QED
      BY <1>1, <2>2, <3>1, <3>2, StoreStep DEF RotateGenerate
  <2>3. CASE FailRotate(t)
    BY <1>1, <1>3, <2>3, QuietStep DEF FailRotate, TypeOK, Idle, Objects
  <2>4. CASE RotateLink(t)
    <3>1. \A u \in Thread : call'[u].pc = "use" => call'[u] = call[u]
      BY <1>1, <2>4 DEF RotateLink, TypeOK, Idle
    <3>2. /\ DOMAIN entries' = DOMAIN entries
          /\ \A x \in DOMAIN entries : SameKey(entries[x], entries'[x])
      <4>1. CASE {call[t].handle, call[t].new} \subseteq DOMAIN entries
        <5>1. /\ entries' = linked(call[t].handle, call[t].new, call[t].retire_old)
              /\ call[t].retire_old \in BOOLEAN
              /\ call[t].handle \in Handle /\ call[t].new \in Handle
          BY <1>1, <2>4, <4>1 DEF RotateLink, TypeOK, Call, Idle
        <5>. QED
          BY <1>1, <4>1, <5>1, LinkWrite DEF TypeOK
      <4>2. CASE ~({call[t].handle, call[t].new} \subseteq DOMAIN entries)
        BY <1>2, <2>4, <4>2 DEF RotateLink
      <4>. QED
        BY <4>1, <4>2
    <3>. QED
      BY <1>1, <2>4, <3>1, <3>2, QuietStep DEF RotateLink, Objects
  <2>. QED
    BY <1>7, <2>1, <2>2, <2>3, <2>4 DEF Rotate
<1>8. ASSUME NEW t \in Thread, Administer(t) PROVE IndInv'
  <2>1. ASSUME NEW h \in DOMAIN entries, NEW state \in SetState, set_state(t, h, state)
        PROVE  IndInv'
    <3>1. state \in KeyState
      BY OptionsAssumption
    <3>2. /\ DOMAIN entries' = DOMAIN entries
          /\ \A x \in DOMAIN entries : SameKey(entries[x], entries'[x])
      BY <1>1, <1>2, <2>1, <3>1, StateWrite, SMT DEF set_state, TypeOK
    <3>. QED
      BY <1>1, <2>1, <3>2, QuietStep DEF set_state, Objects
  <2>2. ASSUME NEW h \in DOMAIN entries, erase(t, h) PROVE IndInv'
    <3>1. /\ DOMAIN entries' \subseteq DOMAIN entries
          /\ \A x \in DOMAIN entries' : SameKey(entries[x], entries'[x])
      BY <1>2, <2>2 DEF erase, Restrict
    <3>. QED
      BY <1>1, <2>2, <3>1, QuietStep DEF erase, Objects
  <2>3. CASE clear(t)
    BY <1>1, <2>3, QuietStep DEF clear, Objects
  <2>4. ASSUME NEW h \in DOMAIN entries, export_sealed(t, h) PROVE IndInv'
    BY <1>1, <1>3, <2>4, QuietStep DEF export_sealed, Objects
  <2>. QED
    BY <1>1, <1>8, <2>1, <2>2, <2>3, <2>4, ImportStep DEF Administer
<1>9. CASE UNCHANGED vars
  BY <1>1, <1>3, <1>9, QuietStep DEF vars, Objects
<1>. QED
  BY <1>4, <1>5, <1>6, <1>7, <1>8, <1>9 DEF Next

LEMMA IndInvImplies == IndInv => TypeOK /\ UsageExact /\ OvershootBounded
<1>. SUFFICES ASSUME IndInv PROVE UsageExact /\ OvershootBounded
  BY DEF IndInv
<1>1. UsageExact
  BY DEF IndInv, NeverOvercounted, Counted, UsageExact, Objects
<1>2. OvershootBounded
  <2>1. SUFFICES ASSUME NEW h \in DOMAIN entries \ restored, entries[h].max_operations # 0
                 PROVE  entries[h].used_operations
                          < entries[h].max_operations + Cardinality(Thread)
    BY DEF OvershootBounded
  <2>2. /\ entries[h].used_operations + Cardinality(InFlight(h))
             < entries[h].max_operations + Cardinality(Thread)
        /\ entries[h].used_operations \in Nat /\ entries[h].max_operations \in Nat
    BY <2>1 DEF IndInv, Budget, TypeOK, Entry
  <2>3. Cardinality(InFlight(h)) \in Nat /\ Cardinality(Thread) \in Nat
    BY InFlightFinite
  <2>. QED
    BY <2>2, <2>3, SMT
<1>. QED
  BY <1>1, <1>2

\* The types of the module's table, calls and sealed objects hold in every state,
\* and every entry stays under the handle that its own fields hash to.
THEOREM TypeCorrect == Spec => []TypeOK
  BY InitIndInv, NextIndInv, IndInvImplies, PTL DEF Spec

\* record_operation loses no count to another thread: for a key that no sealed
\* object has replaced, used_operations is the number of operations released.
THEOREM UsageIsExact == Spec => []UsageExact
  BY InitIndInv, NextIndInv, IndInvImplies, PTL DEF Spec

\* The check of max_operations before the operation and the count after it let
\* at most one operation per other thread through, however many threads and
\* keys there are and whatever else they do.
THEOREM OvershootIsBounded == Spec => []OvershootBounded
  BY InitIndInv, NextIndInv, IndInvImplies, PTL DEF Spec

-----------------------------------------------------------------------------
\* A handle of a symmetric key, or of a key that was generated.
Known(h) == h[1] # "symmetric" => h[3] \in DOMAIN history

\* A rotation makes a key of the type of the old one.  Between the generation and
\* the link its new handle is nobody's replacement, nor that of another rotation.
RotatesOwnType ==
  \A t \in Thread :
    /\ call[t].pc = "rotate" => call[t].create.type = call[t].handle[1]
    /\ call[t].pc = "link" => /\ call[t].new[1] = call[t].handle[1]
                              /\ Known(call[t].new)

LinksApart ==
  \A t, u \in Thread :
    call[t].pc = "link" /\ call[u].pc = "link" /\ t # u /\ call[t].new[1] # "symmetric" =>
      call[t].new # call[u].new

LinksPending ==
  \A t \in Thread : call[t].pc = "link" =>
    \A o \in DOMAIN entries : Replaced(o) => entries[o].replacement_handle # call[t].new

ReplacementsKnown ==
  \A o \in DOMAIN entries : Replaced(o) =>
    /\ entries[o].replacement_handle[1] # "symmetric"
    /\ Known(entries[o].replacement_handle)

LineageInv ==
  /\ RotatesOwnType
  /\ LinksApart
  /\ LinksPending
  /\ ReplacementsKnown
  /\ RotationLineage

SameLineage(e, f) ==
  /\ f.original_handle = e.original_handle
  /\ f.replacement_handle = e.replacement_handle
  /\ f.generation = e.generation

\* The handle of an asymmetric key names the type and the key.
LEMMA HandleNames ==
  \A e : /\ make_handle(e)[1] = e.type
         /\ make_handle(e)[1] # "symmetric" => make_handle(e)[3] = e.key
  BY DEF make_handle, public_key

LEMMA TableNames ==
  ASSUME TypeOK
  PROVE  \A x \in DOMAIN entries : /\ entries[x].type = x[1]
                                   /\ x[1] # "symmetric" => entries[x].key = x[3]
                                   /\ Known(x)
<1>1. \A x \in DOMAIN entries : /\ make_handle(entries[x]) = x
                                /\ entries[x].key \in DOMAIN history
  BY DEF TypeOK, Objects
<1>. QED
  BY <1>1, HandleNames DEF Known

LEMMA NoHandleIsNone == \A h \in Handle : h # NoHandle
  BY SMT DEF Handle, NoHandle

\* A step that links nothing leaves the lineage of what it leaves in the table.
LEMMA QuietLineage ==
  ASSUME TypeOK, TypeOK', LineageInv,
         DOMAIN history \subseteq DOMAIN history', restored \subseteq restored',
         RotatesOwnType', LinksApart',
         \A x \in DOMAIN entries' \ restored' : x[1] # "symmetric" =>
           \/ x \in DOMAIN entries /\ SameLineage(entries[x], entries'[x])
           \/ ~Known(x) /\ entries'[x].replacement_handle = NoHandle,
         \A t \in Thread : call'[t].pc = "link" =>
           \/ call'[t] = call[t]
           \/ call'[t].new[1] = "symmetric"
           \/ ~Known(call'[t].new)
  PROVE  LineageInv'
<1>1. ASSUME NEW x \in DOMAIN entries', Replaced(x)'
      PROVE  /\ x \in DOMAIN entries /\ Replaced(x)
             /\ SameLineage(entries[x], entries'[x])
             /\ entries'[x].replacement_handle = entries[x].replacement_handle
             /\ entries[x].replacement_handle[1] # "symmetric"
             /\ Known(entries[x].replacement_handle)
  <2>1. /\ x \in DOMAIN entries' \ restored' /\ x[1] # "symmetric"
        /\ entries'[x].replacement_handle # NoHandle
    BY <1>1, HandleNames DEF Replaced, TypeOK
  <2>2. /\ x \in DOMAIN entries /\ SameLineage(entries[x], entries'[x])
    BY <2>1
  <2>3. Replaced(x)
    BY <2>1, <2>2, TableNames DEF Replaced, SameLineage
  <2>. QED
    BY <2>2, <2>3 DEF LineageInv, ReplacementsKnown, SameLineage
<1>2. \A h : Known(h) => Known(h)'
  BY DEF Known
<1>3. ReplacementsKnown'
  BY <1>1, <1>2 DEF ReplacementsKnown
<1>4. LinksPending'
  <2>1. ASSUME NEW t \in Thread, call'[t].pc = "link", NEW o \in DOMAIN entries', Replaced(o)'
        PROVE  entries'[o].replacement_handle # call'[t].new
    BY <1>1, <2>1 DEF LineageInv, LinksPending
  <2>. QED
    BY <2>1 DEF LinksPending
<1>5. RotationLineage'
  <2>1. ASSUME NEW o \in DOMAIN entries', Replaced(o)'
        PROVE  LET n == entries'[o].replacement_handle
               IN /\ n \in DOMAIN entries' \ restored' =>
                       /\ entries'[n].original_handle = o
                       /\ entries'[o].original_handle = NoHandle =>
                            entries'[n].generation >= entries'[o].generation
                  /\ \A p \in DOMAIN entries' \ {o} :
                       Replaced(p)' => entries'[p].replacement_handle # n
    <3>. DEFINE n == entries'[o].replacement_handle
    <3>1. /\ o \in DOMAIN entries /\ Replaced(o) /\ n = entries[o].replacement_handle
          /\ SameLineage(entries[o], entries'[o]) /\ n[1] # "symmetric" /\ Known(n)
      BY <1>1, <2>1
    <3>2. ASSUME n \in DOMAIN entries' \ restored'
          PROVE  /\ n \in DOMAIN entries \ restored
                 /\ SameLineage(entries[n], entries'[n])
      BY <3>1, <3>2
    <3>3. ASSUME NEW p \in DOMAIN entries' \ {o}, Replaced(p)'
          PROVE  entries'[p].replacement_handle # n
      BY <1>1, <3>1, <3>3 DEF LineageInv, RotationLineage
    <3>. QED
      BY <3>1, <3>2, <3>3 DEF LineageInv, RotationLineage, SameLineage
  <2>. QED
    BY <2>1 DEF RotationLineage
<1>. QED
  BY <1>3, <1>4, <1>5 DEF LineageInv

\* What linked writes: the replacement of h, the original of n, one generation.
LEMMA LinkLineage ==
  ASSUME NEW h \in DOMAIN entries, NEW n \in DOMAIN entries, NEW retire_old,
         \A x \in DOMAIN entries : entries[x] \in Entry
  PROVE  LET f == linked(h, n, retire_old)
             g == entries[h].generation + 1
         IN /\ g \in Nat
            /\ f[h].replacement_handle = n /\ f[h].generation = g
            /\ f[n].original_handle = h /\ f[n].generation = g
            /\ \A x \in DOMAIN entries :
                 /\ x # h => f[x].replacement_handle = entries[x].replacement_handle
                 /\ x # n => f[x].original_handle = entries[x].original_handle
                 /\ x # h /\ x # n => f[x].generation = entries[x].generation
                 /\ x # h => f[x].state = entries[x].state
<1>. DEFINE g == entries[h].generation + 1
            s == IF retire_old THEN "retired" ELSE entries[h].state
            e1 == [entries EXCEPT ![h].replacement_handle = n]
            e2 == [e1 EXCEPT ![h].generation = g]
            e3 == [e2 EXCEPT ![h].state = s]
            e4 == [e3 EXCEPT ![n].original_handle = h]
            e5 == [e4 EXCEPT ![n].generation = g]
            IsTable(f) == /\ DOMAIN f = DOMAIN entries
                          /\ \A x \in DOMAIN entries : DOMAIN f[x] = DOMAIN entries[h]
            Same(e, f, fields) == \A x \in DOMAIN entries : \A y \in fields : f[x][y] = e[x][y]
<1>1. g \in Nat
  BY DEF Entry
<1>0. /\ {"replacement_handle", "original_handle", "generation", "state"} \subseteq DOMAIN entries[h]
      /\ IsTable(entries)
  BY DEF Entry
<1>2. /\ IsTable(e1)
      /\ e1[h].replacement_handle = n
      /\ \A x \in DOMAIN entries :
           /\ x # h => e1[x].replacement_handle = entries[x].replacement_handle
           /\ e1[x].original_handle = entries[x].original_handle
           /\ e1[x].generation = entries[x].generation
           /\ e1[x].state = entries[x].state
  BY <1>0
<1>. HIDE DEF e1, g, s
<1>3. /\ IsTable(e2)
      /\ e2[h].generation = g
      /\ \A x \in DOMAIN entries :
           /\ e2[x].replacement_handle = e1[x].replacement_handle
           /\ e2[x].original_handle = e1[x].original_handle
           /\ x # h => e2[x].generation = e1[x].generation
           /\ e2[x].state = e1[x].state
  BY <1>0, <1>2
<1>. HIDE DEF e2
<1>4. /\ IsTable(e3)
      /\ \A x \in DOMAIN entries :
           /\ e3[x].replacement_handle = e2[x].replacement_handle
           /\ e3[x].original_handle = e2[x].original_handle
           /\ e3[x].generation = e2[x].generation
           /\ x # h => e3[x].state = e2[x].state
  BY <1>0, <1>3
<1>. HIDE DEF e3
<1>5. /\ IsTable(e4)
      /\ e4[n].original_handle = h
      /\ \A x \in DOMAIN entries :
           /\ e4[x].replacement_handle = e3[x].replacement_handle
           /\ x # n => e4[x].original_handle = e3[x].original_handle
           /\ e4[x].generation = e3[x].generation
           /\ e4[x].state = e3[x].state
  BY <1>0, <1>4
<1>. HIDE DEF e4
<1>6. /\ e5[n].generation = g
      /\ \A x \in DOMAIN entries :
           /\ e5[x].replacement_handle = e4[x].replacement_handle
           /\ e5[x].original_handle = e4[x].original_handle
           /\ x # n => e5[x].generation = e4[x].generation
           /\ e5[x].state = e4[x].state
  BY <1>0, <1>5
<1>7. linked(h, n, retire_old) = e5
  BY DEF linked, e1, e2, e3, e4, g, s
<1>. HIDE DEF e5
<1>8. /\ e5[h].replacement_handle = n /\ e5[h].generation = g
      /\ e5[n].original_handle = h /\ e5[n].generation = g
  BY <1>2, <1>3, <1>4, <1>5, <1>6
<1>9. \A x \in DOMAIN entries :
        /\ x # h => e5[x].replacement_handle = entries[x].replacement_handle
        /\ x # n => e5[x].original_handle = entries[x].original_handle
        /\ x # h /\ x # n => e5[x].generation = entries[x].generation
        /\ x # h => e5[x].state = entries[x].state
  BY <1>2, <1>3, <1>4, <1>5, <1>6
<1>. QED
  BY <1>1, <1>7, <1>8, <1>9 DEF g

LEMMA LinkStep ==
  ASSUME TypeOK, TypeOK', LineageInv, NEW t \in Thread, RotateLink(t)
  PROVE  LineageInv'
<1>. DEFINE h == call[t].handle
            n == call[t].new
<1>1. /\ call' = [call EXCEPT ![t] = Idle] /\ call[t].pc = "link"
      /\ UNCHANGED <<now, sealed, history, restored>>
      /\ entries' = IF {h, n} \subseteq DOMAIN entries
                      THEN linked(h, n, call[t].retire_old) ELSE entries
  BY DEF RotateLink
<1>2. /\ call'[t].pc = "idle"
      /\ \A u \in Thread : u # t => call'[u] = call[u]
  BY <1>1 DEF TypeOK, Idle
<1>3. /\ n[1] = h[1] /\ Known(n)
      /\ h \in Handle /\ n \in Handle
      /\ call[t].retire_old \in BOOLEAN
  BY <1>1 DEF LineageInv, RotatesOwnType, TypeOK, Call, Idle
<1>4. \A x : Known(x)' <=> Known(x)
  BY <1>1 DEF Known
<1>5. RotatesOwnType' /\ LinksApart'
  BY <1>2, <1>4 DEF LineageInv, RotatesOwnType, LinksApart
<1>6. CASE ~({h, n} \subseteq DOMAIN entries)
  BY <1>1, <1>2, <1>5, <1>6, QuietLineage DEF SameLineage
<1>7. CASE {h, n} \subseteq DOMAIN entries /\ h[1] = "symmetric"
  <2>1. \A x \in DOMAIN entries' : x[1] # "symmetric" =>
          x \in DOMAIN entries /\ SameLineage(entries[x], entries'[x])
    <3>1. /\ \A x \in DOMAIN entries : entries[x] \in Entry
          /\ entries' = linked(h, n, call[t].retire_old)
      BY <1>1, <1>7 DEF TypeOK
    <3>2. DOMAIN entries' = DOMAIN entries
      BY <1>3, <1>7, <3>1, LinkWrite
    <3>. QED
      BY <1>3, <1>7, <3>1, <3>2, LinkLineage DEF SameLineage
  <2>. QED
    BY <1>1, <1>2, <1>5, <2>1, QuietLineage
<1>8. CASE {h, n} \subseteq DOMAIN entries /\ h[1] # "symmetric"
  <2>. DEFINE g == entries[h].generation + 1
  <2>1. /\ \A x \in DOMAIN entries : entries[x] \in Entry
        /\ entries' = linked(h, n, call[t].retire_old)
    BY <1>1, <1>8 DEF TypeOK
  <2>2. DOMAIN entries' = DOMAIN entries
    BY <1>3, <1>8, <2>1, LinkWrite
  <2>3. /\ g \in Nat
        /\ entries'[h].replacement_handle = n /\ entries'[h].generation = g
        /\ entries'[n].original_handle = h /\ entries'[n].generation = g
        /\ \A x \in DOMAIN entries :
             /\ x # h => entries'[x].replacement_handle = entries[x].replacement_handle
             /\ x # n => entries'[x].original_handle = entries[x].original_handle
             /\ x # h /\ x # n => entries'[x].generation = entries[x].generation
    BY <1>8, <2>1, LinkLineage
  <2>4. \A x \in DOMAIN entries : entries[x].generation \in Nat
    BY <2>1 DEF Entry
  <2>5. g >= entries[h].generation
    BY <1>8, <2>4, SMT
  <2>. HIDE DEF h, n, g
  <2>6. ASSUME NEW x \in DOMAIN entries, Replaced(x)', x # h
        PROVE  /\ Replaced(x)
               /\ entries'[x].replacement_handle = entries[x].replacement_handle
               /\ entries[x].replacement_handle # n
    <3>1. Replaced(x)
      <4>1. entries'[x].type = x[1]
        BY <2>2, HandleNames DEF TypeOK
      <4>. QED
        BY <1>1, <2>2, <2>3, <2>6, <4>1, TableNames DEF Replaced
    <3>. QED
      BY <1>1, <2>3, <2>6, <3>1 DEF LineageInv, LinksPending, n
  <2>7. ReplacementsKnown'
    BY <1>3, <1>4, <1>8, <2>2, <2>3, <2>6 DEF ReplacementsKnown, LineageInv
  <2>8. LinksPending'
    <3>1. ASSUME NEW u \in Thread, call'[u].pc = "link", NEW o \in DOMAIN entries, Replaced(o)'
          PROVE  entries'[o].replacement_handle # call'[u].new
      <4>1. u # t /\ call'[u] = call[u]
        BY <1>2, <3>1
      <4>2. call[u].new # n
        BY <1>1, <1>3, <1>8, <3>1, <4>1 DEF LineageInv, LinksApart, n
      <4>. QED
        BY <2>3, <2>6, <3>1, <4>1, <4>2 DEF LineageInv, LinksPending
    <3>. QED
      BY <2>2, <3>1 DEF LinksPending
  <2>9. RotationLineage'
    <3>1. ASSUME NEW o \in DOMAIN entries, Replaced(o)',
                 NEW r, r = entries'[o].replacement_handle
          PROVE  /\ r \in DOMAIN entries \ restored =>
                      /\ entries'[r].original_handle = o
                      /\ entries'[o].original_handle = NoHandle =>
                           entries'[r].generation >= entries'[o].generation
                 /\ \A p \in DOMAIN entries \ {o} :
                      Replaced(p)' => entries'[p].replacement_handle # r
      <4>1. CASE o = h
        <5>1. r = n
          BY <2>3, <3>1, <4>1
        <5>. QED
          BY <2>3, <2>6, <4>1, <5>1, SMT
      <4>2. CASE o # h
        <5>1. Replaced(o) /\ r = entries[o].replacement_handle /\ r # n
          BY <2>6, <3>1, <4>2
        <5>2. ASSUME NEW p \in DOMAIN entries \ {o}, Replaced(p)'
              PROVE  entries'[p].replacement_handle # r
          BY <2>3, <2>6, <5>1, <5>2 DEF LineageInv, RotationLineage
        <5>3. ASSUME r \in DOMAIN entries \ restored
              PROVE  entries'[r].original_handle = o
          BY <2>3, <5>1, <5>3 DEF LineageInv, RotationLineage
        <5>4. ASSUME r \in DOMAIN entries \ restored, entries'[o].original_handle = NoHandle
              PROVE  entries'[r].generation >= entries'[o].generation
          <6>1. o # n
            BY <1>3, <1>8, <2>3, <5>4, NoHandleIsNone DEF h
          <6>2. entries[r].generation >= entries[o].generation
            BY <2>3, <5>1, <5>4, <6>1 DEF LineageInv, RotationLineage
          <6>3. entries'[o].generation = entries[o].generation
            BY <2>3, <4>2, <6>1
          <6>4. entries'[r].generation >= entries[r].generation
            BY <2>3, <2>4, <2>5, <5>1, <5>4, SMT
          <6>. QED
            BY <2>3, <2>4, <5>1, <5>4, <6>2, <6>3, <6>4, SMT
        <5>. QED
          BY <5>2, <5>3, <5>4
      <4>. QED
        BY <4>1, <4>2
    <3>2. restored' = restored
      BY <1>1
    <3>. QED
      BY <2>2, <3>1, <3>2 DEF RotationLineage
  <2>. QED
    BY <1>5, <2>7, <2>8, <2>9 DEF LineageInv
<1>. QED
  BY <1>6, <1>7, <1>8

\* Storing a new key: what is new in the table is known to no rotation.
LEMMA StoreLineage ==
  ASSUME TypeOK, TypeOK', LineageInv, NEW r \in Request,
         store_secret(new_entry(r, Len(history) + 1)),
         UNCHANGED restored, RotatesOwnType', LinksApart',
         \A t \in Thread : call'[t].pc = "link" =>
           \/ call'[t] = call[t]
           \/ call'[t].new = make_handle(new_entry(r, Len(history) + 1))
  PROVE  LineageInv'
<1>. DEFINE e == new_entry(r, Len(history) + 1)
            m == make_handle(e)
<1>1. /\ e.key = Len(history) + 1 /\ e.replacement_handle = NoHandle
      /\ m[1] # "symmetric" => m[3] = e.key
  BY HandleNames DEF new_entry
<1>2. m \in Handle
  BY NewEntryType, HandleType, SMT DEF TypeOK
<1>. HIDE DEF e
<1>3. /\ entries' = Put(m, e)
      /\ history' = Append(history, [handle |-> m, released |-> 0])
  BY DEF store_secret, e
<1>4. DOMAIN history \subseteq DOMAIN history' /\ Len(history) + 1 \notin DOMAIN history
  BY <1>2, <1>3, HistoryAppend
<1>5. m[1] # "symmetric" => ~Known(m)
  BY <1>1, <1>4 DEF Known
<1>6. \A x \in DOMAIN entries' : \/ x = m /\ entries'[x] = e
                                 \/ x \in DOMAIN entries /\ entries'[x] = entries[x]
  BY <1>3 DEF Put
<1>7. \A x \in DOMAIN entries' : x[1] # "symmetric" =>
        \/ x \in DOMAIN entries /\ SameLineage(entries[x], entries'[x])
        \/ ~Known(x) /\ entries'[x].replacement_handle = NoHandle
  BY <1>1, <1>5, <1>6 DEF SameLineage
<1>8. \A t \in Thread : call'[t].pc = "link" =>
        \/ call'[t] = call[t]
        \/ call'[t].new[1] = "symmetric"
        \/ ~Known(call'[t].new)
  BY <1>5 DEF e
<1>. QED
  BY <1>4, <1>7, <1>8, QuietLineage

LEMMA InitLineage == Init => LineageInv
  BY DEF Init, Idle, LineageInv, RotatesOwnType, LinksApart, LinksPending, ReplacementsKnown,
       RotationLineage, Replaced

LEMMA LineageStep == TypeOK /\ TypeOK' /\ LineageInv /\ [Next]_vars => LineageInv'
<1>. SUFFICES ASSUME TypeOK, TypeOK', LineageInv, [Next]_vars PROVE LineageInv'
  OBVIOUS
<1>1. \A x : SameLineage(x, x)
  BY DEF SameLineage
\* Steps that leave the rotations under way alone, and lineages in the table.
<1>2. ASSUME DOMAIN history' = DOMAIN history, restored \subseteq restored',
             \A t \in Thread : call'[t].pc \in {"rotate", "link"} => call'[t] = call[t],
             \A x \in DOMAIN entries' \ restored' :
               x \in DOMAIN entries /\ SameLineage(entries[x], entries'[x])
      PROVE  LineageInv'
  <2>1. RotatesOwnType' /\ LinksApart'
    BY <1>2 DEF LineageInv, RotatesOwnType, LinksApart, Known
  <2>. QED
    BY <1>2, <2>1, QuietLineage
<1>3. ASSUME NEW t \in Thread, call' = [call EXCEPT ![t] = Idle]
      PROVE  \A u \in Thread : call'[u].pc \in {"rotate", "link"} => call'[u] = call[u]
  BY <1>3 DEF TypeOK, Idle
<1>4. CASE Tick \/ UNCHANGED vars
  BY <1>1, <1>2, <1>4 DEF Tick, vars
<1>5. ASSUME NEW t \in Thread, Generate(t) PROVE LineageInv'
  <2>1. PICK r \in CreateRequest : store_secret(new_entry(r, Len(history) + 1))
    BY <1>5 DEF Generate
  <2>2. r \in Request /\ UNCHANGED <<call, restored>>
    BY <1>5, RequestType DEF Generate
  <2>3. DOMAIN history \subseteq DOMAIN history'
    BY SMT, <2>1 DEF store_secret, TypeOK
  <2>4. RotatesOwnType' /\ LinksApart'
    BY <2>2, <2>3 DEF LineageInv, RotatesOwnType, LinksApart, Known
  <2>. QED
    BY <2>1, <2>2, <2>4, StoreLineage
<1>6. ASSUME NEW t \in Thread, Use(t) PROVE LineageInv'
  <2>1. ASSUME NEW op, NEW h, NEW d, BeginOperation(t, op, h, d) PROVE LineageInv'
    <3>1. \A u \in Thread : call'[u].pc \in {"rotate", "link"} => call'[u] = call[u]
      BY <2>1 DEF BeginOperation, TypeOK
    <3>. QED
      BY <1>1, <1>2, <2>1, <3>1 DEF BeginOperation
  <2>2. CASE FinishOperation(t)
    <3>1. call' = [call EXCEPT ![t] = Idle] /\ restored' = restored
      BY <2>2 DEF FinishOperation
    <3>2. DOMAIN history' = DOMAIN history
      BY <2>2 DEF FinishOperation
    <3>3. \A x \in DOMAIN entries' :
            x \in DOMAIN entries /\ SameLineage(entries[x], entries'[x])
      BY <1>1, <2>2 DEF FinishOperation, record_operation, SameLineage
    <3>. QED
      BY <1>2, <1>3, <3>1, <3>2, <3>3
  <2>3. CASE FailOperation(t)
    BY <1>1, <1>2, <1>3, <2>3 DEF FailOperation
  <2>. QED
    BY <1>6, <2>1, <2>2, <2>3 DEF Use
<1>7. ASSUME NEW t \in Thread, Rotate(t) PROVE LineageInv'
  <2>1. ASSUME NEW h \in DOMAIN entries, NEW label, NEW preserve_policy, NEW retire_old,
               BeginRotate(t, h, label, preserve_policy, retire_old)
        PROVE  LineageInv'
    <3>1. /\ call'[t].pc = "rotate" /\ call'[t].handle = h
          /\ call'[t].create.type = entries[h].type
          /\ \A u \in Thread : u # t => call'[u] = call[u]
          /\ UNCHANGED <<entries, history, restored>>
      BY <2>1 DEF BeginRotate, TypeOK
    <3>2. entries[h].type = h[1]
      BY TableNames
    <3>3. RotatesOwnType' /\ LinksApart'
      BY <3>1, <3>2 DEF LineageInv, RotatesOwnType, LinksApart, Known
    <3>. QED
      BY <1>1, <3>1, <3>3, QuietLineage
  <2>2. CASE RotateGenerate(t)
    <3>. DEFINE r == call[t].create
                e == new_entry(r, Len(history) + 1)
                m == make_handle(e)
    <3>1. /\ store_secret(e) /\ restored' = restored
          /\ call'[t].pc = "link" /\ call'[t].handle = call[t].handle /\ call'[t].new = m
          /\ \A u \in Thread : u # t => call'[u] = call[u]
      BY <2>2 DEF RotateGenerate, TypeOK
    <3>2. r \in Request /\ call[t].pc = "rotate"
      BY <2>2 DEF RotateGenerate, TypeOK, Call, Idle
    <3>3. m[1] = r.type /\ (m[1] # "symmetric" => m[3] = Len(history) + 1)
      BY HandleNames DEF new_entry
    <3>4. /\ DOMAIN history' = DOMAIN history \cup {Len(history) + 1}
          /\ Len(history) + 1 \notin DOMAIN history
      <4>1. m \in Handle
        BY <3>2, NewEntryType, HandleType, SMT DEF TypeOK
      <4>. QED
        BY <3>1, <4>1, HistoryAppend DEF store_secret
    <3>. HIDE DEF m, e
    <3>5. RotatesOwnType'
      <4>1. /\ m[1] # "symmetric" => m[3] \in DOMAIN history'
            /\ m[1] = call[t].handle[1]
        BY <3>2, <3>3, <3>4 DEF LineageInv, RotatesOwnType
      <4>2. ASSUME NEW u \in Thread, u # t
            PROVE  /\ call'[u].pc = "rotate" => call'[u].create.type = call'[u].handle[1]
                   /\ call'[u].pc = "link" =>
                        /\ call'[u].new[1] = call'[u].handle[1]
                        /\ call'[u].new[1] # "symmetric" => call'[u].new[3] \in DOMAIN history'
        BY <3>1, <3>4, <4>2 DEF LineageInv, RotatesOwnType, Known
      <4>. QED
        BY <3>1, <4>1, <4>2 DEF RotatesOwnType, Known
    <3>6. LinksApart'
      <4>1. \A u \in Thread : call[u].pc = "link" /\ m[1] # "symmetric" => call[u].new # m
        BY <3>3, <3>4 DEF LineageInv, RotatesOwnType, Known
      <4>. QED
        BY <3>1, <4>1 DEF LineageInv, LinksApart
    <3>. QED
      BY <3>1, <3>2, <3>5, <3>6, StoreLineage DEF e, m
  <2>3. CASE FailRotate(t)
    BY <1>1, <1>2, <1>3, <2>3 DEF FailRotate
  <2>. QED
    BY <1>7, <2>1, <2>2, <2>3, LinkStep DEF Rotate
<1>8. ASSUME NEW t \in Thread, Administer(t) PROVE LineageInv'
  <2>1. ASSUME NEW h, NEW state, set_state(t, h, state) PROVE LineageInv'
    <3>1. \A x \in DOMAIN entries' :
            x \in DOMAIN entries /\ SameLineage(entries[x], entries'[x])
      BY <1>1, <2>1 DEF set_state, SameLineage
    <3>. QED
      BY <1>2, <2>1, <3>1 DEF set_state
  <2>2. ASSUME NEW h, erase(t, h) PROVE LineageInv'
    BY <1>1, <1>2, <2>2 DEF erase, Restrict
  <2>3. CASE clear(t)
    BY <1>2, <2>3 DEF clear
  <2>4. ASSUME NEW h, export_sealed(t, h) PROVE LineageInv'
    BY <1>1, <1>2, <2>4 DEF export_sealed
  <2>5. ASSUME NEW e \in sealed, import_sealed(t, e) PROVE LineageInv'
    <3>1. \A x \in DOMAIN entries' \ restored' :
            x \in DOMAIN entries /\ SameLineage(entries[x], entries'[x])
      BY <1>1, <2>5 DEF import_sealed, Put
    <3>. QED
      BY <1>2, <2>5, <3>1 DEF import_sealed
  <2>. QED
    BY <1>8, <2>1, <2>2, <2>3, <2>4, <2>5 DEF Administer
<1>. QED
  BY <1>4, <1>5, <1>6, <1>7, <1>8 DEF Next

LEMMA LineageHolds == Spec => [](TypeOK /\ LineageInv)
<1>1. Init => TypeOK /\ LineageInv
  BY InitIndInv, InitLineage DEF IndInv
<1>2. TypeOK /\ LineageInv /\ [Next]_vars => (TypeOK /\ LineageInv)'
  BY TypeStep, LineageStep
<1>. QED
  BY <1>1, <1>2, PTL DEF Spec

\* rotate_key, for any threads that rotate any keys and each other's replacements
\* at once: a replacement points back to its key, and no other key names it.
THEOREM LineageIsConsistent == Spec => []RotationLineage
<1>1. LineageInv => RotationLineage
  BY DEF LineageInv
<1>. QED
  BY <1>1, LineageHolds, PTL

-----------------------------------------------------------------------------
\* Every copy of an asymmetric key, in the table or sealed, has its policy.
PolicyHome ==
  \A e, f \in Objects : e.key = f.key /\ e.type # "symmetric" => Policy(e) = Policy(f)

SamePolicy(e, f) == f.key = e.key /\ f.type = e.type /\ Policy(f) = Policy(e)

\* Steps after which every object is an earlier one but for its state.
LEMMA QuietPolicy ==
  ASSUME PolicyHome, \A f \in Objects' : \E e \in Objects : SamePolicy(e, f)
  PROVE  PolicyHome'
  BY DEF PolicyHome, SamePolicy

\* A new key: no object has it, and its handle is no other asymmetric key's.
LEMMA StorePolicy ==
  ASSUME IndInv, PolicyHome, NEW r \in Request, store_secret(new_entry(r, Len(history) + 1)),
         UNCHANGED sealed
  PROVE  /\ PolicyHome'
         /\ \A h \in DOMAIN entries \cap DOMAIN entries' :
              h[1] # "symmetric" => entries'[h] = entries[h]
<1>. DEFINE e == new_entry(r, Len(history) + 1)
            m == make_handle(e)
<1>1. /\ e.key = Len(history) + 1
      /\ m[1] # "symmetric" => m[3] = Len(history) + 1
  BY HandleNames DEF new_entry
<1>2. Len(history) + 1 \notin DOMAIN history
  BY SMT DEF IndInv, TypeOK
<1>. HIDE DEF e
<1>3. entries' = Put(m, e)
  BY DEF store_secret, e
<1>4. \A f \in Objects' : f = e \/ f \in Objects
  BY <1>3, PutObjects
<1>5. \A f \in Objects : f.key # e.key
  BY <1>1, <1>2 DEF IndInv, TypeOK
<1>6. PolicyHome'
  BY <1>4, <1>5 DEF PolicyHome
<1>7. ASSUME NEW h \in DOMAIN entries, h[1] # "symmetric" PROVE h # m
  <2>1. h[3] \in DOMAIN history
    BY <1>7, TableNames DEF IndInv, Known
  <2>. QED
    BY <1>1, <1>2, <1>7, <2>1
<1>. QED
  BY <1>3, <1>6, <1>7 DEF Put

LEMMA LinkPolicy ==
  ASSUME NEW h \in DOMAIN entries, NEW n \in DOMAIN entries, NEW retire_old,
         \A x \in DOMAIN entries : entries[x] \in Entry
  PROVE  /\ DOMAIN linked(h, n, retire_old) = DOMAIN entries
         /\ \A x \in DOMAIN entries : SamePolicy(entries[x], linked(h, n, retire_old)[x])
<1>. DEFINE g == entries[h].generation + 1
            s == IF retire_old THEN "retired" ELSE entries[h].state
            e1 == [entries EXCEPT ![h].replacement_handle = n]
            e2 == [e1 EXCEPT ![h].generation = g]
            e3 == [e2 EXCEPT ![h].state = s]
            e4 == [e3 EXCEPT ![n].original_handle = h]
            e5 == [e4 EXCEPT ![n].generation = g]
            Kept(f) == /\ DOMAIN f = DOMAIN entries
                       /\ \A x \in DOMAIN entries : SamePolicy(entries[x], f[x])
<1>1. Kept(e1)
  BY DEF SamePolicy, Policy
<1>. HIDE DEF e1, g, s
<1>2. Kept(e2)
  BY <1>1 DEF SamePolicy, Policy
<1>. HIDE DEF e2
<1>3. Kept(e3)
  BY <1>2 DEF SamePolicy, Policy
<1>. HIDE DEF e3
<1>4. Kept(e4)
  BY <1>3 DEF SamePolicy, Policy
<1>. HIDE DEF e4
<1>5. Kept(e5)
  BY <1>4 DEF SamePolicy, Policy
<1>6. linked(h, n, retire_old) = e5
  BY DEF linked, e1, e2, e3, e4, g, s
<1>. QED
  BY <1>5, <1>6

LEMMA PolicyStep ==
  ASSUME IndInv, PolicyHome, [Next]_vars
  PROVE  /\ PolicyHome'
         /\ \A h \in DOMAIN entries \cap DOMAIN entries' :
              entries[h].type # "symmetric" => Policy(entries'[h]) = Policy(entries[h])
<1>. DEFINE Kept == \A h \in DOMAIN entries \cap DOMAIN entries' :
                      entries[h].type # "symmetric" => Policy(entries'[h]) = Policy(entries[h])
            Goal == PolicyHome' /\ Kept
<1>. SUFFICES Goal
  OBVIOUS
<1>1. TypeOK
  BY DEF IndInv
<1>2. \A x : SamePolicy(x, x)
  BY DEF SamePolicy
\* Steps that change entries in place, or remove some.
<1>3. ASSUME DOMAIN entries' \subseteq DOMAIN entries,
             \A x \in DOMAIN entries' : SamePolicy(entries[x], entries'[x]),
             sealed' \subseteq Objects
      PROVE  Goal
  <2>1. \A f \in Objects' : \E e \in Objects : SamePolicy(e, f)
    BY <1>2, <1>3 DEF Objects
  <2>2. Kept
    BY <1>3 DEF SamePolicy
  <2>. QED
    BY <2>1, <2>2, QuietPolicy
<1>4. ASSUME entries' = entries, sealed' = sealed PROVE Goal
  BY <1>2, <1>3, <1>4 DEF Objects
<1>5. ASSUME NEW r \in Request, store_secret(new_entry(r, Len(history) + 1)), sealed' = sealed
      PROVE  Goal
  BY <1>1, <1>5, StorePolicy, TableNames
<1>6. CASE Tick \/ UNCHANGED vars
  BY <1>4, <1>6 DEF Tick, vars
<1>7. ASSUME NEW t \in Thread, Generate(t) PROVE Goal
  BY <1>5, <1>7, RequestType DEF Generate
<1>8. ASSUME NEW t \in Thread, Use(t) PROVE Goal
  <2>1. ASSUME NEW op, NEW h, NEW d, BeginOperation(t, op, h, d) PROVE Goal
    BY <1>4, <2>1 DEF BeginOperation
  <2>2. CASE FinishOperation(t)
    <3>1. /\ DOMAIN entries' = DOMAIN entries /\ sealed' = sealed
          /\ \A x \in DOMAIN entries : SamePolicy(entries[x], entries'[x])
      BY <1>2, <2>2 DEF FinishOperation, record_operation, SamePolicy, Policy
    <3>. QED
      BY <1>3, <3>1 DEF Objects
  <2>3. CASE FailOperation(t)
    BY <1>4, <2>3 DEF FailOperation
  <2>. QED
    BY <1>8, <2>1, <2>2, <2>3 DEF Use
<1>9. ASSUME NEW t \in Thread, Rotate(t) PROVE Goal
  <2>1. ASSUME NEW h, NEW label, NEW preserve_policy, NEW retire_old,
               BeginRotate(t, h, label, preserve_policy, retire_old)
        PROVE  Goal
    BY <1>4, <2>1 DEF BeginRotate
  <2>2. CASE RotateGenerate(t)
    <3>1. call[t].create \in Request
      BY <1>1, <2>2 DEF RotateGenerate, TypeOK, Call, Idle
    <3>. QED
      BY <1>5, <2>2, <3>1 DEF RotateGenerate
  <2>3. CASE FailRotate(t)
    BY <1>4, <2>3 DEF FailRotate
  <2>4. CASE RotateLink(t)
    <3>. DEFINE h == call[t].handle
                n == call[t].new
    <3>1. CASE ~({h, n} \subseteq DOMAIN entries)
      BY <1>4, <2>4, <3>1 DEF RotateLink
    <3>2. CASE {h, n} \subseteq DOMAIN entries
      <4>1. /\ DOMAIN linked(h, n, call[t].retire_old) = DOMAIN entries
            /\ \A x \in DOMAIN entries : SamePolicy(entries[x], linked(h, n, call[t].retire_old)[x])
        BY <1>1, <3>2, LinkPolicy DEF TypeOK
      <4>. QED
        BY <1>3, <2>4, <3>2, <4>1 DEF RotateLink, Objects
    <3>. QED
      BY <3>1, <3>2
  <2>. QED
    BY <1>9, <2>1, <2>2, <2>3, <2>4 DEF Rotate
<1>10. ASSUME NEW t \in Thread, Administer(t) PROVE Goal
  <2>1. ASSUME NEW h, NEW state, set_state(t, h, state) PROVE Goal
    <3>1. /\ DOMAIN entries' = DOMAIN entries /\ sealed' = sealed
          /\ \A x \in DOMAIN entries : SamePolicy(entries[x], entries'[x])
      BY <1>2, <2>1 DEF set_state, SamePolicy, Policy
    <3>. QED
      BY <1>3, <3>1 DEF Objects
  <2>2. ASSUME NEW h, erase(t, h) PROVE Goal
    BY <1>2, <1>3, <2>2 DEF erase, Restrict, Objects
  <2>3. CASE clear(t)
    BY <1>3, <2>3 DEF clear, Objects
  <2>4. ASSUME NEW h \in DOMAIN entries, export_sealed(t, h) PROVE Goal
    BY <1>2, <1>3, <2>4 DEF export_sealed, Objects
  <2>5. ASSUME NEW e \in sealed, import_sealed(t, e) PROVE Goal
    <3>1. entries' = Put(make_handle(e), e) /\ sealed' = sealed /\ e \in Objects
      BY <2>5 DEF import_sealed, Objects
    <3>2. \A f \in Objects' : \E g \in Objects : SamePolicy(g, f)
      BY <1>2, <3>1, PutObjects
    <3>3. ASSUME NEW h \in DOMAIN entries, entries[h].type # "symmetric"
          PROVE  Policy(entries'[h]) = Policy(entries[h])
      <4>1. CASE h = make_handle(e)
        <5>1. entries[h].key = e.key /\ entries[h] \in Objects
          BY <1>1, <3>3, <4>1, HandleNames, TableNames DEF Objects
        <5>2. Policy(e) = Policy(entries[h])
          BY <3>1, <3>3, <5>1 DEF PolicyHome
        <5>. QED
          BY <3>1, <4>1, <5>2 DEF Put
      <4>2. CASE h # make_handle(e)
        BY <3>1, <4>2 DEF Put
      <4>. QED
        BY <4>1, <4>2
    <3>. QED
      BY <3>2, <3>3, QuietPolicy
  <2>. QED
    BY <1>10, <2>1, <2>2, <2>3, <2>4, <2>5 DEF Administer
<1>. QED
  BY <1>6, <1>7, <1>8, <1>9, <1>10 DEF Next

\* A handle of a signing or decapsulation key never comes to name another key or
\* another policy: neither a rotation nor an import of any age changes them.
THEOREM PoliciesAreKept == Spec => AsymmetricKeysKeepPolicy
<1>1. Init => PolicyHome
  BY DEF Init, PolicyHome, Objects
<1>2. IndInv /\ PolicyHome /\ [Next]_vars =>
        /\ PolicyHome'
        /\ [\A h \in DOMAIN entries \cap DOMAIN entries' :
               entries[h].type # "symmetric" => Policy(entries'[h]) = Policy(entries[h])]_vars
  BY PolicyStep
<1>. QED
  BY <1>1, <1>2, InitIndInv, NextIndInv, PTL DEF Spec, AsymmetricKeysKeepPolicy

-----------------------------------------------------------------------------
\* A destroyed key that no rotation holds stays so, or an import replaces it.
LEMMA DeadStep ==
  ASSUME TypeOK, [Next]_vars, NEW h \in DOMAIN entries \cap DOMAIN entries', Dead(h)
  PROVE  Dead(h)' \/ \E e \in sealed : entries'[h] = e /\ make_handle(e) = h
<1>. DEFINE Goal == Dead(h)' \/ \E e \in sealed : entries'[h] = e /\ make_handle(e) = h
<1>. SUFFICES Goal
  OBVIOUS
<1>1. /\ entries[h].type # "symmetric" /\ entries[h].state = "destroyed"
      /\ \A t \in Thread : call[t].pc \in {"rotate", "link"} => call[t].handle # h
      /\ h[1] # "symmetric" /\ h[3] \in DOMAIN history
  BY TableNames DEF Dead, Known
\* Steps that leave the entry what it is and give no rotation its handle.
<1>2. ASSUME entries'[h].type = entries[h].type, entries'[h].state = entries[h].state,
             \A t \in Thread : call'[t].pc \in {"rotate", "link"} => call'[t].handle # h
      PROVE  Goal
  BY <1>1, <1>2 DEF Dead
<1>3. ASSUME NEW t \in Thread, call' = [call EXCEPT ![t] = Idle]
      PROVE  \A u \in Thread : call'[u].pc \in {"rotate", "link"} => call'[u].handle # h
  BY <1>1, <1>3 DEF TypeOK, Idle
<1>4. ASSUME NEW r \in Request, store_secret(new_entry(r, Len(history) + 1))
      PROVE  entries'[h] = entries[h]
  <2>1. LET m == make_handle(new_entry(r, Len(history) + 1))
        IN m[1] # "symmetric" => m[3] = Len(history) + 1
    BY HandleNames DEF new_entry
  <2>2. Len(history) + 1 \notin DOMAIN history
    BY SMT DEF TypeOK
  <2>3. h # make_handle(new_entry(r, Len(history) + 1))
    BY <1>1, <2>1, <2>2
  <2>. QED
    BY <1>4, <2>3 DEF store_secret, Put
<1>5. CASE Tick \/ UNCHANGED vars
  BY <1>1, <1>2, <1>5 DEF Tick, vars
<1>6. ASSUME NEW t \in Thread, Generate(t) PROVE Goal
  BY <1>1, <1>2, <1>4, <1>6, RequestType DEF Generate
<1>7. ASSUME NEW t \in Thread, Use(t) PROVE Goal
  <2>1. ASSUME NEW op, NEW x, NEW d, BeginOperation(t, op, x, d) PROVE Goal
    <3>1. \A u \in Thread : call'[u].pc \in {"rotate", "link"} => call'[u].handle # h
      BY <1>1, <2>1 DEF BeginOperation, TypeOK
    <3>. QED
      BY <1>2, <2>1, <3>1 DEF BeginOperation
  <2>2. CASE FinishOperation(t)
    <3>1. entries'[h].type = entries[h].type /\ entries'[h].state = entries[h].state
      BY <2>2 DEF FinishOperation, record_operation
    <3>. QED
      BY <1>2, <1>3, <2>2, <3>1 DEF FinishOperation
  <2>3. CASE FailOperation(t)
    BY <1>2, <1>3, <2>3 DEF FailOperation
  <2>. QED
    BY <1>7, <2>1, <2>2, <2>3 DEF Use
<1>8. ASSUME NEW t \in Thread, Rotate(t) PROVE Goal
  <2>1. ASSUME NEW x \in DOMAIN entries, NEW label, NEW preserve_policy, NEW retire_old,
               BeginRotate(t, x, label, preserve_policy, retire_old)
        PROVE  Goal
    <3>1. x # h
      BY <1>1, <2>1 DEF BeginRotate, may_rotate
    <3>2. \A u \in Thread : call'[u].pc \in {"rotate", "link"} => call'[u].handle # h
      BY <1>1, <2>1, <3>1 DEF BeginRotate, TypeOK
    <3>. QED
      BY <1>2, <2>1, <3>2 DEF BeginRotate
  <2>2. CASE RotateGenerate(t)
    <3>1. call[t].create \in Request /\ call[t].pc = "rotate"
      BY <2>2 DEF RotateGenerate, TypeOK, Call, Idle
    <3>2. \A u \in Thread : call'[u].pc \in {"rotate", "link"} => call'[u].handle # h
      BY <1>1, <2>2, <3>1 DEF RotateGenerate, TypeOK
    <3>3. entries'[h] = entries[h]
      BY <1>4, <2>2, <3>1 DEF RotateGenerate
    <3>. QED
      BY <1>2, <3>2, <3>3
  <2>3. CASE FailRotate(t)
    BY <1>2, <1>3, <2>3 DEF FailRotate
  <2>4. CASE RotateLink(t)
    <3>. DEFINE o == call[t].handle
                n == call[t].new
    <3>1. o # h /\ call' = [call EXCEPT ![t] = Idle]
      BY <1>1, <2>4 DEF RotateLink
    <3>2. CASE ~({o, n} \subseteq DOMAIN entries)
      BY <1>2, <1>3, <2>4, <3>1, <3>2 DEF RotateLink
    <3>3. CASE {o, n} \subseteq DOMAIN entries
      <4>1. entries' = linked(o, n, call[t].retire_old)
        BY <2>4, <3>3 DEF RotateLink
      <4>2. entries'[h].state = entries[h].state /\ entries'[h].type = entries[h].type
        BY <3>1, <3>3, <4>1, LinkLineage, LinkPolicy DEF TypeOK, SamePolicy
      <4>. QED
        BY <1>2, <1>3, <3>1, <4>2
    <3>. QED
      BY <3>2, <3>3
  <2>. QED
    BY <1>8, <2>1, <2>2, <2>3, <2>4 DEF Rotate
<1>9. ASSUME NEW t \in Thread, Administer(t) PROVE Goal
  <2>1. ASSUME NEW x, NEW state, set_state(t, x, state) PROVE Goal
    <3>1. x # h
      BY <1>1, <2>1 DEF set_state
    <3>. QED
      BY <1>1, <1>2, <2>1, <3>1 DEF set_state
  <2>2. ASSUME NEW x, erase(t, x) PROVE Goal
    BY <1>1, <1>2, <2>2 DEF erase, Restrict
  <2>3. CASE clear(t)
    BY <2>3 DEF clear
  <2>4. ASSUME NEW x, export_sealed(t, x) PROVE Goal
    BY <1>1, <1>2, <2>4 DEF export_sealed
  <2>5. ASSUME NEW e \in sealed, import_sealed(t, e) PROVE Goal
    <3>1. entries' = Put(make_handle(e), e) /\ call' = call
      BY <2>5 DEF import_sealed
    <3>2. CASE make_handle(e) = h
      BY <3>1, <3>2 DEF Put
    <3>3. CASE make_handle(e) # h
      <4>1. entries'[h] = entries[h]
        BY <3>1, <3>3 DEF Put
      <4>. QED
        BY <1>1, <1>2, <3>1, <4>1
    <3>. QED
      BY <3>2, <3>3
  <2>. QED
    BY <1>9, <2>1, <2>2, <2>3, <2>4, <2>5 DEF Administer
<1>. QED
  BY <1>5, <1>6, <1>7, <1>8, <1>9 DEF Next

\* set_state and rotate_key, for any threads: only import_sealed revives a
\* destroyed key, once the rotations that began before are over.
THEOREM DestructionIsFinal == Spec => DeadStaysDead
<1>1. TypeOK /\ [Next]_vars =>
        [\A h \in DOMAIN entries \cap DOMAIN entries' :
           Dead(h) => Dead(h)' \/ \E e \in sealed : entries'[h] = e /\ make_handle(e) = h]_vars
  BY DeadStep
<1>2. Init => TypeOK
  BY InitIndInv DEF IndInv
<1>3. TypeOK /\ [Next]_vars => TypeOK'
  BY TypeStep
<1>. QED
  BY <1>1, <1>2, <1>3, PTL DEF Spec, DeadStaysDead

-----------------------------------------------------------------------------

\* The session manager. Requests for op that a session authorized and that are not
\* settled yet.
Asking(token, op) ==
  {t \in Thread : request[t] # NoRequest /\ request[t].token = token /\ request[t].op = op}

InBudget(token, op) ==
  sessions[token].limit[op] # 0 =>
    sessions[token].operations[op] + Cardinality(Asking(token, op))
      < sessions[token].limit[op] + Cardinality(Thread)

SessionInv ==
  /\ TypeOK
  /\ SessionTypeOK
  /\ \A token \in DOMAIN sessions, op \in UseOp : InBudget(token, op)

\* A session as it was, but for operations it handed out while live, or its end.
SessionKept(s, u) ==
  /\ u \in Session
  /\ u.expires_at = s.expires_at /\ u.limit = s.limit
  /\ s.closed => u.closed
  /\ over(s) => u.operations = s.operations

LEMMA SessionStays == \A s \in Session : SessionKept(s, s)
BY DEF SessionKept

LEMMA SessionCloses ==
  ASSUME NEW s \in Session
  PROVE  /\ SessionKept(s, [s EXCEPT !.closed = TRUE])
         /\ [s EXCEPT !.closed = TRUE].operations = s.operations
BY DEF SessionKept, Session

LEMMA SessionCounts ==
  ASSUME NEW s \in Session, NEW op \in UseOp, ~over(s)
  PROVE  LET u == [s EXCEPT !.operations[op] = @ + 1]
         IN /\ SessionKept(s, u)
            /\ u.operations[op] = s.operations[op] + 1
            /\ \A o \in UseOp \ {op} : u.operations[o] = s.operations[o]
<1>. DEFINE u == [s EXCEPT !.operations[op] = @ + 1]
            n == [s.operations EXCEPT ![op] = @ + 1]
<1>1. s.operations \in [UseOp -> Nat]
  BY DEF Session
<1>2. /\ n \in [UseOp -> Nat] /\ n[op] = s.operations[op] + 1
      /\ \A o \in UseOp \ {op} : n[o] = s.operations[o]
  BY <1>1, SMT
<1>3. /\ u.operations = n /\ u.expires_at = s.expires_at /\ u.permissions = s.permissions
      /\ u.allowed_handles = s.allowed_handles /\ u.allowed_domains = s.allowed_domains
      /\ u.limit = s.limit /\ u.closed = s.closed
      /\ u = [expires_at |-> s.expires_at, permissions |-> s.permissions,
              allowed_handles |-> s.allowed_handles, allowed_domains |-> s.allowed_domains,
              limit |-> s.limit, operations |-> n, closed |-> s.closed]
  BY DEF Session
<1>. HIDE DEF u, n
<1>4. u \in Session
  BY <1>2, <1>3 DEF Session
<1>5. SessionKept(s, u)
  BY <1>3, <1>4 DEF SessionKept
<1>. QED
  BY <1>2, <1>3, <1>5 DEF u

LEMMA AskingFinite ==
  \A token, op : /\ IsFiniteSet(Asking(token, op)) /\ Cardinality(Asking(token, op)) \in Nat
                 /\ Cardinality(Asking(token, op)) <= Cardinality(Thread)
                 /\ Cardinality(Thread) \in Nat \ {0}
<1>1. \A token, op : Asking(token, op) \subseteq Thread
  BY DEF Asking
<1>. QED
  BY <1>1, InFlightFinite, ThreadAssumption, FS_Subset, FS_CardinalityType

\* While a session hands out nothing, fewer requests only leave it more room.
LEMMA BudgetKept ==
  ASSUME NEW token, NEW op \in UseOp, sessions[token] \in Session, InBudget(token, op),
         sessions'[token].limit = sessions[token].limit,
         sessions'[token].operations[op] = sessions[token].operations[op],
         Asking(token, op)' \subseteq Asking(token, op)
  PROVE  InBudget(token, op)'
<1>. DEFINE S == Asking(token, op)
            T == Asking(token, op)'
<1>1. IsFiniteSet(S) /\ T \subseteq S /\ Cardinality(S) \in Nat
  BY AskingFinite
<1>2. Cardinality(T) <= Cardinality(S) /\ Cardinality(T) \in Nat
  <2>. HIDE DEF S, T
  <2>. QED
    BY <1>1, FS_Subset, FS_CardinalityType
<1>3. /\ sessions[token].operations[op] \in Nat /\ sessions[token].limit[op] \in Nat
      /\ Cardinality(Thread) \in Nat
  BY AskingFinite DEF Session
<1>. QED
  BY <1>1, <1>2, <1>3, SMT DEF InBudget

\* What a request may be replaced by without asking for more.
LEMMA AskingShrinks ==
  ASSUME NEW token, NEW op,
         \A t \in Thread : \/ request'[t] = NoRequest
                           \/ /\ request[t] # NoRequest
                              /\ request'[t].token = request[t].token
                              /\ request'[t].op = request[t].op
  PROVE  Asking(token, op)' \subseteq Asking(token, op)
BY DEF Asking

\* Each step of the module is one thread's, or the clock's.
LEMMA OneThread ==
  ASSUME TypeOK, NEW t \in Thread, Generate(t) \/ Use(t) \/ Rotate(t) \/ Administer(t)
  PROVE  now' = now /\ \A u \in Thread : u # t => call'[u] = call[u]
<1>. USE DEF TypeOK
<1>1. CASE Generate(t)
  BY <1>1 DEF Generate
<1>2. CASE Use(t)
  BY <1>2 DEF Use, BeginOperation, FinishOperation, FailOperation
<1>3. CASE Rotate(t)
  BY <1>3 DEF Rotate, BeginRotate, RotateGenerate, FailRotate, RotateLink
<1>4. CASE Administer(t)
  BY <1>4 DEF Administer, set_state, erase, clear, export_sealed, import_sealed
<1>. QED
  BY <1>1, <1>2, <1>3, <1>4

\* The requests of a manager's threads have their type.
LEMMA RequestFields ==
  ASSUME SessionTypeOK, NEW t \in Thread, request[t] # NoRequest
  PROVE  /\ request[t].token \in DOMAIN sessions /\ request[t].op \in UseOp
         /\ request[t].handle \in Handle /\ request[t].domain \in Domain \cup {NoDomain}
         /\ request[t].pc \in {"authorized", "running", "settle"}
BY DEF SessionTypeOK, SessionRequest

\* A manager's step is a step of the module or leaves it alone.
LEMMA ModuleMoves ==
  ASSUME SessionTypeOK, [SessionNext]_allvars
  PROVE  [Next]_vars
<1>1. CASE Direct
  BY <1>1 DEF Direct, Next
<1>2. ASSUME NEW t \in Thread, UseSession(t) PROVE [Next]_vars
  <2>1. CASE Run(t)
    <3>1. request[t] # NoRequest
      BY <2>1 DEF Run, NoRequest
    <3>2. Use(t)
      BY <2>1, <3>1, RequestFields DEF Run, Use, BeginOperation, UseOp
    <3>. QED
      BY <3>2 DEF Next
  <2>2. CASE Ran(t) \/ RunFailed(t)
    BY <2>2 DEF Ran, RunFailed, Use, Next
  <2>. QED
    BY <1>2, <2>1, <2>2 DEF UseSession, Authorize, Denied, Settle
<1>3. ASSUME NEW t \in Thread, ManageSession(t) PROVE [Next]_vars
  BY <1>3 DEF ManageSession, open_session, close_session, Refuse
<1>4. CASE UNCHANGED allvars
  BY <1>4 DEF allvars
<1>. QED
  BY <1>1, <1>2, <1>3, <1>4 DEF SessionNext

\* Sessions stay, and only a live one hands out an operation.
SessionsMove ==
  /\ DOMAIN sessions \subseteq DOMAIN sessions'
  /\ \A token \in DOMAIN sessions : SessionKept(sessions[token], sessions'[token])

LEMMA HandlesAreKnown == TypeOK => KnownHandles \subseteq Handle
<1>. SUFFICES ASSUME TypeOK, NEW x \in DOMAIN history PROVE history[x].handle \in Handle
  BY DEF KnownHandles
<1>. DEFINE R == [handle : Handle, released : Nat]
<1>1. history \in Seq(R)
  BY DEF TypeOK
<1>2. history[x] \in R
  <2>. HIDE DEF R
  <2>. QED
    BY <1>1, ElementOfSeq
<1>. QED
  BY <1>2

LEMMA SessionsOpen ==
  ASSUME SessionInv, TypeOK', NEW t \in Thread, NEW token \in Token, open_session(t, token)
  PROVE  SessionInv' /\ SessionsMove
<1>1. PICK ttl \in Ttl, permissions \in Permissions, domains \in DomainList,
           handles \in {{}} \cup {{h} : h \in KnownHandles}, limit \in [UseOp -> SessionLimit] :
         sessions' = [x \in DOMAIN sessions \cup {token} |->
                        IF x # token THEN sessions[x]
                        ELSE [expires_at |-> now + ttl, permissions |-> permissions,
                              allowed_handles |-> handles, allowed_domains |-> domains,
                              limit |-> limit, operations |-> [op \in UseOp |-> 0],
                              closed |-> FALSE]]
  BY DEF open_session
<1>. DEFINE new == [expires_at |-> now + ttl, permissions |-> permissions,
                    allowed_handles |-> handles, allowed_domains |-> domains,
                    limit |-> limit, operations |-> [op \in UseOp |-> 0], closed |-> FALSE]
<1>2. token \notin DOMAIN sessions /\ UNCHANGED <<vars, request>>
  BY DEF open_session
<1>3. new \in Session
  <2>1. handles \subseteq Handle
    BY HandlesAreKnown DEF SessionInv
  <2>2. now + ttl \in Nat /\ permissions \in SUBSET SessionPermission /\ domains \in SUBSET Domain
    BY SessionAssumption, SMT DEF SessionInv, TypeOK
  <2>3. limit \in [UseOp -> Nat] /\ [op \in UseOp |-> 0] \in [UseOp -> Nat]
    BY SessionAssumption
  <2>. QED
    BY <2>1, <2>2, <2>3 DEF Session
<1>4. /\ DOMAIN sessions' = DOMAIN sessions \cup {token}
      /\ sessions'[token] = new
      /\ \A x \in DOMAIN sessions : sessions'[x] = sessions[x]
  BY <1>1, <1>2
<1>. HIDE DEF new
<1>5. SessionTypeOK'
  BY <1>2, <1>3, <1>4 DEF SessionInv, SessionTypeOK, vars
<1>6. SessionsMove
  BY <1>4, SessionStays DEF SessionsMove, SessionInv, SessionTypeOK
<1>7. ASSUME NEW x \in DOMAIN sessions', NEW op \in UseOp PROVE InBudget(x, op)'
  <2>1. CASE x \in DOMAIN sessions
    <3>1. Asking(x, op)' \subseteq Asking(x, op)
      BY <1>2 DEF Asking
    <3>. QED
      BY <1>4, <2>1, <3>1, BudgetKept DEF SessionInv, SessionTypeOK
  <2>2. CASE x = token
    <3>1. Asking(token, op)' = {}
      BY <1>2 DEF Asking, SessionInv, SessionTypeOK
    <3>2. sessions'[x].operations[op] = 0 /\ sessions'[x].limit[op] \in Nat
      BY <1>3, <1>4, <2>2 DEF new, Session
    <3>. QED
      BY <2>2, <3>1, <3>2, AskingFinite, FS_EmptySet, SMT DEF InBudget
  <2>. QED
    BY <1>4, <2>1, <2>2
<1>. QED
  BY <1>5, <1>6, <1>7 DEF SessionInv

\* Steps after which sessions are at most closed, and nobody asks for more.
LEMMA SessionsClose ==
  ASSUME SessionInv, TypeOK', SessionTypeOK', DOMAIN sessions' = DOMAIN sessions,
         \A token \in DOMAIN sessions :
           /\ SessionKept(sessions[token], sessions'[token])
           /\ sessions'[token].operations = sessions[token].operations,
         \A t \in Thread : \/ request'[t] = NoRequest
                           \/ /\ request[t] # NoRequest
                              /\ request'[t].token = request[t].token
                              /\ request'[t].op = request[t].op
  PROVE  SessionInv' /\ SessionsMove
<1>1. ASSUME NEW token \in DOMAIN sessions', NEW op \in UseOp PROVE InBudget(token, op)'
  <2>1. Asking(token, op)' \subseteq Asking(token, op)
    BY AskingShrinks
  <2>. QED
    BY <2>1, BudgetKept DEF SessionInv, SessionTypeOK, SessionKept
<1>. QED
  BY <1>1 DEF SessionInv, SessionsMove

LEMMA AuthorizeStep ==
  ASSUME SessionInv, TypeOK', NEW t \in Thread, NEW token \in DOMAIN sessions,
         NEW op \in UseOp, NEW h \in KnownHandles, NEW d \in DomainOf(op),
         Authorize(t, token, op, h, d)
  PROVE  SessionInv' /\ SessionsMove
<1>. DEFINE asked == [pc |-> "authorized", token |-> token, op |-> op, handle |-> h, domain |-> d]
<1>1. /\ request[t] = NoRequest /\ call[t] = Idle
      /\ request' = [request EXCEPT ![t] = asked]
      /\ UNCHANGED <<vars, sessions>>
      /\ below_session_limit(sessions[token], op)
  BY DEF Authorize
<1>2. asked \in SessionRequest
  <2>1. h \in Handle
    BY HandlesAreKnown DEF SessionInv
  <2>2. d \in Domain \cup {NoDomain}
    BY DEF DomainOf
  <2>3. token \in Token
    BY DEF SessionInv, SessionTypeOK
  <2>. QED
    BY <2>1, <2>2, <2>3 DEF SessionRequest
<1>. DEFINE ask == asked
<1>3. ask.pc = "authorized" /\ ask.token = token /\ ask.op = op /\ ask \in SessionRequest
  BY <1>2
<1>4. request' = [request EXCEPT ![t] = ask]
  BY <1>1
<1>. HIDE DEF ask, asked
<1>5. /\ request' \in [Thread -> SessionRequest] /\ request'[t] = ask
      /\ \A u \in Thread : u # t => request'[u] = request[u]
  BY <1>3, <1>4 DEF SessionInv, SessionTypeOK
<1>6. SessionTypeOK'
  BY <1>1, <1>3, <1>5, SMT DEF SessionInv, SessionTypeOK, vars
<1>7. SessionsMove
  BY <1>1, SessionStays DEF SessionsMove, SessionInv, SessionTypeOK
<1>8. ASSUME NEW x \in DOMAIN sessions', NEW o \in UseOp PROVE InBudget(x, o)'
  <2>1. CASE x = token /\ o = op
    <3>1. /\ sessions[token].operations[op] \in Nat /\ sessions[token].limit[op] \in Nat
      BY DEF SessionInv, SessionTypeOK, Session
    <3>2. sessions' = sessions
      BY <1>1
    <3>3. /\ Cardinality(Asking(token, op))' \in Nat /\ Cardinality(Thread) \in Nat
          /\ Cardinality(Asking(token, op))' <= Cardinality(Thread)
      <4>1. /\ Asking(token, op)' \subseteq Thread /\ IsFiniteSet(Thread)
        BY ThreadAssumption DEF Asking
      <4>. DEFINE T == Asking(token, op)'
      <4>2. Cardinality(T) \in Nat /\ Cardinality(T) <= Cardinality(Thread) /\ Cardinality(Thread) \in Nat
        <5>. HIDE DEF T
        <5>. QED
          BY <4>1, FS_Subset, FS_CardinalityType DEF T
      <4>. QED
        BY <4>2
    <3>. QED
      BY <1>1, <2>1, <3>1, <3>2, <3>3, SMT DEF InBudget, below_session_limit
  <2>2. CASE ~(x = token /\ o = op)
    <3>1. Asking(x, o)' \subseteq Asking(x, o)
      BY <1>3, <1>5, <2>2 DEF Asking
    <3>2. sessions' = sessions
      BY <1>1
    <3>. QED
      BY <3>1, <3>2, BudgetKept DEF SessionInv, SessionTypeOK
  <2>. QED
    BY <2>1, <2>2
<1>. QED
  BY <1>6, <1>7, <1>8 DEF SessionInv

\* What a thread's own calls leave of the others.
RestKept(t) ==
  \A u \in Thread : u # t => call'[u] = call[u] /\ request'[u] = request[u]

\* The steps of a request that leave the sessions alone.
LEMMA ServeStep ==
  ASSUME SessionInv, TypeOK', NEW t \in Thread,
         Run(t) \/ Denied(t) \/ Ran(t) \/ RunFailed(t)
  PROVE  SessionInv' /\ SessionsMove
<1>1. request[t] # NoRequest
  BY DEF Run, Denied, Ran, RunFailed, NoRequest
<1>. DEFINE on(pc) == [request[t] EXCEPT !.pc = pc]
<1>2. \A pc \in {"running", "settle"} :
        /\ on(pc) \in SessionRequest /\ on(pc) # NoRequest
        /\ on(pc).pc = pc /\ on(pc).token = request[t].token /\ on(pc).op = request[t].op
  BY <1>1 DEF SessionInv, SessionTypeOK, SessionRequest, NoRequest
<1>3. call \in [Thread -> Call] /\ request \in [Thread -> SessionRequest]
  BY DEF SessionInv, SessionTypeOK, TypeOK
<1>4. sessions' = sessions
  BY DEF Run, Denied, Ran, RunFailed
<1>5. \/ request' = [request EXCEPT ![t] = on("running")] /\ call'[t].pc = "use"
      \/ request' = [request EXCEPT ![t] = on("settle")] /\ call'[t] = Idle
      \/ request' = [request EXCEPT ![t] = NoRequest]
  BY <1>3 DEF Run, Denied, Ran, RunFailed, BeginOperation, FinishOperation
<1>6. \A u \in Thread : u # t => call'[u] = call[u]
  BY <1>3 DEF Run, Denied, Ran, RunFailed, BeginOperation, FinishOperation, FailOperation, vars
<1>. HIDE DEF on
<1>7. /\ request' \in [Thread -> SessionRequest] /\ RestKept(t)
      /\ \/ /\ request'[t].pc \in {"running", "settle"} /\ request'[t] # NoRequest
            /\ request'[t].token = request[t].token /\ request'[t].op = request[t].op
            /\ request'[t].pc = "running" => call'[t].pc = "use"
            /\ request'[t].pc = "settle" => call'[t] = Idle
         \/ request'[t] = NoRequest
  <2>1. CASE request' = [request EXCEPT ![t] = on("running")] /\ call'[t].pc = "use"
    BY <1>2, <1>3, <1>6, <2>1 DEF RestKept
  <2>2. CASE request' = [request EXCEPT ![t] = on("settle")] /\ call'[t] = Idle
    BY <1>2, <1>3, <1>6, <2>2 DEF RestKept
  <2>3. CASE request' = [request EXCEPT ![t] = NoRequest]
    BY <1>3, <1>6, <2>3 DEF RestKept, SessionRequest
  <2>. QED
    BY <1>5, <2>1, <2>2, <2>3
<1>8. SessionTypeOK'
  BY <1>1, <1>4, <1>7 DEF SessionInv, SessionTypeOK, RestKept, NoRequest
<1>9. \A token \in DOMAIN sessions : /\ SessionKept(sessions[token], sessions'[token])
                                     /\ sessions'[token].operations = sessions[token].operations
  BY <1>4, SessionStays DEF SessionInv, SessionTypeOK
<1>10. \A u \in Thread : \/ request'[u] = NoRequest
                         \/ /\ request[u] # NoRequest
                            /\ request'[u].token = request[u].token
                            /\ request'[u].op = request[u].op
  BY <1>1, <1>7 DEF RestKept
<1>. QED
  BY <1>4, <1>8, <1>9, <1>10, SessionsClose

\* A step that closes a session, or finds it as it is.
LEMMA CloseStep ==
  ASSUME SessionInv, TypeOK', NEW t \in Thread, NEW token \in DOMAIN sessions,
         UNCHANGED vars,
         \/ sessions' = [sessions EXCEPT ![token].closed = TRUE]
         \/ sessions' = sessions,
         \/ request' = request
         \/ request[t].pc = "settle" /\ request' = [request EXCEPT ![t] = NoRequest]
  PROVE  SessionInv' /\ SessionsMove
<1>. DEFINE closed == [sessions[token] EXCEPT !.closed = TRUE]
<1>1. \A x \in DOMAIN sessions : sessions[x] \in Session
  BY DEF SessionInv, SessionTypeOK
<1>2. closed \in Session /\ SessionKept(sessions[token], closed)
      /\ closed.operations = sessions[token].operations
  BY <1>1, SessionCloses DEF SessionKept
<1>. HIDE DEF closed
<1>3. /\ DOMAIN sessions' = DOMAIN sessions
      /\ \A x \in DOMAIN sessions : sessions'[x] = sessions[x] \/ (x = token /\ sessions'[x] = closed)
  BY DEF closed
<1>4. /\ request' \in [Thread -> SessionRequest]
      /\ \A u \in Thread : request'[u] = request[u] \/ request'[u] = NoRequest
  BY DEF SessionInv, SessionTypeOK, SessionRequest
<1>5. SessionTypeOK'
  BY <1>1, <1>2, <1>3, <1>4 DEF SessionInv, SessionTypeOK, NoRequest, vars
<1>6. \A x \in DOMAIN sessions : /\ SessionKept(sessions[x], sessions'[x])
                                 /\ sessions'[x].operations = sessions[x].operations
  BY <1>1, <1>2, <1>3, SessionStays
<1>7. \A u \in Thread : \/ request'[u] = NoRequest
                        \/ /\ request[u] # NoRequest
                           /\ request'[u].token = request[u].token
                           /\ request'[u].op = request[u].op
  BY <1>4
<1>. QED
  BY <1>3, <1>5, <1>6, <1>7, SessionsClose

LEMMA SettleStep ==
  ASSUME SessionInv, TypeOK', NEW t \in Thread, Settle(t)
  PROVE  SessionInv' /\ SessionsMove
<1>1. PICK token \in DOMAIN sessions, op \in UseOp :
        request[t] # NoRequest /\ token = request[t].token /\ op = request[t].op
  BY RequestFields DEF Settle, NoRequest, SessionInv
<1>. DEFINE counted == [sessions[token] EXCEPT !.operations[op] = @ + 1]
<1>2. CASE ~grants(sessions[token], op, request[t].handle, request[t].domain)
  BY <1>1, <1>2, CloseStep DEF Settle, settled, touched
<1>3. CASE grants(sessions[token], op, request[t].handle, request[t].domain)
  <2>1. \A x \in DOMAIN sessions : sessions[x] \in Session
    BY DEF SessionInv, SessionTypeOK
  <2>2. /\ SessionKept(sessions[token], counted)
        /\ counted.operations[op] = sessions[token].operations[op] + 1
        /\ \A o \in UseOp \ {op} : counted.operations[o] = sessions[token].operations[o]
    BY <1>1, <1>3, <2>1, SessionCounts DEF grants
  <2>3. sessions' = [sessions EXCEPT ![token] = counted]
    BY <1>1, <1>3 DEF Settle, settled
  <2>. HIDE DEF counted
  <2>4. /\ DOMAIN sessions' = DOMAIN sessions /\ sessions'[token] = counted
        /\ \A x \in DOMAIN sessions : x # token => sessions'[x] = sessions[x]
    BY <1>1, <2>3
  <2>5. /\ request' \in [Thread -> SessionRequest] /\ request'[t] = NoRequest
        /\ \A u \in Thread : u # t => request'[u] = request[u]
    BY DEF Settle, SessionInv, SessionTypeOK, SessionRequest
  <2>6. SessionTypeOK'
    <3>1. DOMAIN sessions' \subseteq Token /\ \A x \in DOMAIN sessions' : sessions'[x] \in Session
      BY <2>1, <2>2, <2>4 DEF SessionKept, SessionInv, SessionTypeOK
    <3>2. call' = call
      BY DEF Settle, vars
    <3>. QED
      BY <2>4, <2>5, <3>1, <3>2 DEF SessionInv, SessionTypeOK, NoRequest
  <2>7. SessionsMove
    BY <2>1, <2>2, <2>4, SessionStays DEF SessionsMove
  <2>8. ASSUME NEW x \in DOMAIN sessions', NEW o \in UseOp PROVE InBudget(x, o)'
    <3>1. CASE x = token /\ o = op
      <4>. DEFINE S == Asking(token, op)
                  T == Asking(token, op)'
      <4>1. t \in S /\ T \subseteq S \ {t}
        BY <1>1, <2>5 DEF Asking
      <4>2. /\ Cardinality(S) \in Nat /\ Cardinality(T) \in Nat
            /\ Cardinality(T) + 1 <= Cardinality(S)
        <5>1. IsFiniteSet(S)
          BY AskingFinite
        <5>. HIDE DEF S, T
        <5>2. /\ IsFiniteSet(S \ {t}) /\ Cardinality(S \ {t}) = Cardinality(S) - 1
              /\ Cardinality(S) \in Nat
          BY <4>1, <5>1, FS_RemoveElement, FS_CardinalityType
        <5>3. Cardinality(T) <= Cardinality(S \ {t}) /\ Cardinality(T) \in Nat
          BY <4>1, <5>2, FS_Subset, FS_CardinalityType
        <5>. QED
          BY <5>2, <5>3
      <4>3. /\ sessions[token].operations[op] \in Nat /\ sessions[token].limit[op] \in Nat
            /\ Cardinality(Thread) \in Nat
        BY <1>1, <2>1, AskingFinite DEF Session
      <4>4. /\ sessions'[token].operations[op] = sessions[token].operations[op] + 1
            /\ sessions'[token].limit = sessions[token].limit
        BY <2>2, <2>4 DEF SessionKept
      <4>5. InBudget(token, op)
        BY <1>1 DEF SessionInv
      <4>6. InBudget(token, op)'
        BY <4>2, <4>3, <4>4, <4>5, SMT DEF InBudget
      <4>. QED
        BY <3>1, <4>6
    <3>2. CASE ~(x = token /\ o = op)
      <4>1. Asking(x, o)' \subseteq Asking(x, o)
        BY <2>5 DEF Asking
      <4>2. /\ sessions'[x].limit = sessions[x].limit
            /\ sessions'[x].operations[o] = sessions[x].operations[o]
        BY <2>2, <2>4, <3>2 DEF SessionKept
      <4>. QED
        BY <2>1, <2>4, <4>1, <4>2, BudgetKept DEF SessionInv
    <3>. QED
      BY <3>1, <3>2
  <2>. QED
    BY <2>6, <2>7, <2>8 DEF SessionInv
<1>. QED
  BY <1>2, <1>3

LEMMA DirectStep ==
  ASSUME SessionInv, TypeOK', Direct
  PROVE  SessionInv' /\ SessionsMove
<1>1. sessions' = sessions /\ request' = request
  BY DEF Direct, svars
<1>2. \A u \in Thread : request[u] # NoRequest => call'[u] = call[u]
  BY OneThread DEF Direct, Tick, SessionInv
<1>3. SessionTypeOK'
  BY <1>1, <1>2 DEF SessionInv, SessionTypeOK, NoRequest
<1>4. \A x \in DOMAIN sessions : /\ SessionKept(sessions[x], sessions'[x])
                                 /\ sessions'[x].operations = sessions[x].operations
  BY <1>1, SessionStays DEF SessionInv, SessionTypeOK
<1>. QED
  BY <1>1, <1>3, <1>4, SessionsClose

LEMMA SessionStep ==
  ASSUME SessionInv, [SessionNext]_allvars
  PROVE  SessionInv' /\ SessionsMove
<1>1. TypeOK'
  BY ModuleMoves, TypeStep DEF SessionInv
<1>2. CASE Direct
  BY <1>1, <1>2, DirectStep
<1>3. ASSUME NEW t \in Thread, UseSession(t) PROVE SessionInv' /\ SessionsMove
  <2>1. ASSUME NEW token \in DOMAIN sessions, NEW op \in UseOp, NEW h \in KnownHandles,
               NEW d \in DomainOf(op), Authorize(t, token, op, h, d)
        PROVE  SessionInv' /\ SessionsMove
    BY <1>1, <2>1, AuthorizeStep
  <2>2. CASE Run(t) \/ Denied(t) \/ Ran(t) \/ RunFailed(t)
    BY <1>1, <2>2, ServeStep
  <2>3. CASE Settle(t)
    BY <1>1, <2>3, SettleStep
  <2>. QED
    BY <1>3, <2>1, <2>2, <2>3 DEF UseSession
<1>4. ASSUME NEW t \in Thread, ManageSession(t) PROVE SessionInv' /\ SessionsMove
  <2>1. ASSUME NEW token \in Token, open_session(t, token)
        PROVE  SessionInv' /\ SessionsMove
    BY <1>1, <2>1, SessionsOpen
  <2>2. ASSUME NEW token \in DOMAIN sessions, close_session(t, token) \/ Refuse(t, token)
        PROVE  SessionInv' /\ SessionsMove
    BY <1>1, <2>2, CloseStep DEF close_session, Refuse, touched
  <2>. QED
    BY <1>4, <2>1, <2>2 DEF ManageSession
<1>5. CASE UNCHANGED allvars
  <2>1. UNCHANGED vars /\ sessions' = sessions /\ request' = request
    BY <1>5 DEF allvars, svars
  <2>2. SessionTypeOK'
    BY <2>1 DEF SessionInv, SessionTypeOK, vars
  <2>3. \A x \in DOMAIN sessions : /\ SessionKept(sessions[x], sessions'[x])
                                   /\ sessions'[x].operations = sessions[x].operations
    BY <2>1, SessionStays DEF SessionInv, SessionTypeOK
  <2>. QED
    BY <1>1, <2>1, <2>2, <2>3, SessionsClose
<1>. QED
  BY <1>2, <1>3, <1>4, <1>5 DEF SessionNext

LEMMA SessionInitInv == SessionInit => SessionInv
<1>. SUFFICES ASSUME SessionInit PROVE SessionInv
  OBVIOUS
<1>1. TypeOK
  BY InitIndInv, IndInvImplies DEF SessionInit
<1>2. DOMAIN sessions = {} /\ request = [t \in Thread |-> NoRequest]
  BY DEF SessionInit
<1>3. SessionTypeOK
  BY <1>2 DEF SessionTypeOK, SessionRequest, NoRequest
<1>. QED
  BY <1>1, <1>2, <1>3 DEF SessionInv

LEMMA SessionsHold == SessionSpec => []SessionInv
<1>1. SessionInv /\ [SessionNext]_allvars => SessionInv'
  BY SessionStep
<1>. QED
  BY <1>1, SessionInitInv, PTL DEF SessionSpec

\* Behind the session manager the module behaves as the module: every step of the
\* manager is one of its steps or leaves it alone, so every theorem above holds
\* of keys that sessions use as well.
THEOREM SessionsUseModule == SessionSpec => Spec
<1>1. SessionInv /\ [SessionNext]_allvars => [Next]_vars
  BY ModuleMoves DEF SessionInv
<1>2. SessionInit => Init
  BY DEF SessionInit
<1>. QED
  BY <1>1, <1>2, SessionsHold, PTL DEF SessionSpec, Spec

\* Sessions and requests have their types (SsmSessionManager), and a thread is
\* inside the module for a session exactly while its request runs.
THEOREM SessionsTyped == SessionSpec => []SessionTypeOK
<1>1. SessionInv => SessionTypeOK
  BY DEF SessionInv
<1>. QED
  BY <1>1, SessionsHold, PTL

\* The limit that authorize_use checks before the operation and never again is
\* passed by fewer operations than there are threads.
THEOREM SessionOvershootIsBounded == SessionSpec => []SessionOvershootBounded
<1>1. SessionInv => SessionOvershootBounded
  <2>. SUFFICES ASSUME SessionInv, NEW token \in DOMAIN sessions, NEW op \in UseOp,
                       sessions[token].limit[op] # 0
                PROVE  sessions[token].operations[op]
                         < sessions[token].limit[op] + Cardinality(Thread)
    BY DEF SessionOvershootBounded
  <2>1. /\ sessions[token].operations[op] \in Nat /\ sessions[token].limit[op] \in Nat
        /\ Cardinality(Thread) \in Nat /\ Cardinality(Asking(token, op)) \in Nat
    BY AskingFinite DEF SessionInv, SessionTypeOK, Session
  <2>2. InBudget(token, op)
    BY DEF SessionInv
  <2>. QED
    BY <2>1, <2>2 DEF InBudget
<1>. QED
  BY <1>1, SessionsHold, PTL

\* A session that was closed or that expired counts no further operation, not even
\* one that it authorized while it was live (the second mutable_session).
THEOREM OverStaysOver == SessionSpec => OverIsFinal
<1>1. ASSUME SessionInv, [SessionNext]_allvars, NEW token \in DOMAIN sessions,
             over(sessions[token])
      PROVE  /\ token \in DOMAIN sessions'
             /\ over(sessions[token])'
             /\ sessions'[token].operations = sessions[token].operations
  <2>1. SessionsMove /\ TypeOK /\ TypeOK'
    BY <1>1, SessionStep DEF SessionInv
  <2>2. /\ token \in DOMAIN sessions' /\ SessionKept(sessions[token], sessions'[token])
    BY <2>1 DEF SessionsMove
  <2>3. now' = now \/ now' = now + 1
    BY <1>1, ModuleMoves, OneThread DEF SessionInv, Next, Tick, vars
  <2>4. sessions[token].expires_at \in Nat /\ now \in Nat
    BY <1>1 DEF SessionInv, SessionTypeOK, Session, TypeOK
  <2>. QED
    BY <1>1, <2>2, <2>3, <2>4 DEF SessionKept, over, expired
<1>2. SessionInv /\ [SessionNext]_allvars =>
        [\A token \in DOMAIN sessions :
           over(sessions[token]) =>
             /\ token \in DOMAIN sessions'
             /\ over(sessions[token])'
             /\ sessions'[token].operations = sessions[token].operations]_allvars
  BY <1>1
<1>. QED
  BY <1>2, SessionsHold, PTL DEF SessionSpec, OverIsFinal

-----------------------------------------------------------------------------
\* What was handed out and what was released, each counted as a set (units).
LEMMA UnitsElement ==
  ASSUME NEW f, NEW u
  PROVE  u \in units(f) <=> \E x \in DOMAIN f : \E n \in 1..f[x] : u = <<x, n>>
BY DEF units

LEMMA SameUnits ==
  ASSUME NEW f, NEW g, DOMAIN f \subseteq DOMAIN g,
         \A x \in DOMAIN f : g[x] = f[x],
         \A x \in DOMAIN g \ DOMAIN f : g[x] = 0
  PROVE  units(g) = units(f)
<1>1. \A n : n \notin 1..0
  BY SMT
<1>2. \A x \in DOMAIN g : \A n \in 1..g[x] : x \in DOMAIN f
  BY <1>1
<1>. QED
  BY <1>2 DEF units

LEMMA OneMoreUnit ==
  ASSUME NEW f, NEW g, NEW x \in DOMAIN f, f[x] \in Nat, IsFiniteSet(units(f)),
         DOMAIN g = DOMAIN f, g[x] = f[x] + 1, \A y \in DOMAIN f \ {x} : g[y] = f[y]
  PROVE  /\ IsFiniteSet(units(g))
         /\ Cardinality(units(g)) = Cardinality(units(f)) + 1
<1>. DEFINE new == <<x, f[x] + 1>>
<1>1. \A n : n \in 1..g[x] <=> n \in 1..f[x] \/ n = f[x] + 1
  BY SMT
<1>2. new \notin units(f)
  <2>1. f[x] + 1 \notin 1..f[x]
    BY SMT
  <2>. QED
    BY <2>1, UnitsElement
<1>3. units(g) = units(f) \cup {new}
  <2>1. ASSUME NEW u PROVE u \in units(g) <=> u \in units(f) \/ u = new
    <3>1. ASSUME u \in units(g) PROVE u \in units(f) \/ u = new
      <4>1. PICK y \in DOMAIN g : \E n \in 1..g[y] : u = <<y, n>>
        BY <3>1, UnitsElement
      <4>2. PICK n \in 1..g[y] : u = <<y, n>>
        BY <4>1
      <4>3. CASE y = x
        BY <1>1, <4>2, <4>3, UnitsElement
      <4>4. CASE y # x
        <5>1. n \in 1..f[y] /\ y \in DOMAIN f
          BY <4>1, <4>2, <4>4
        <5>. QED
          BY <4>2, <5>1, UnitsElement
      <4>. QED
        BY <4>3, <4>4
    <3>2. ASSUME u \in units(f) PROVE u \in units(g)
      <4>1. PICK y \in DOMAIN f : \E n \in 1..f[y] : u = <<y, n>>
        BY <3>2, UnitsElement
      <4>2. PICK n \in 1..f[y] : u = <<y, n>>
        BY <4>1
      <4>3. n \in 1..g[y]
        BY <1>1, <4>1, <4>2
      <4>. QED
        BY <4>2, <4>3, UnitsElement
    <3>3. new \in units(g)
      BY <1>1, UnitsElement
    <3>. QED
      BY <3>1, <3>2, <3>3
  <2>. HIDE DEF new
  <2>. QED
    BY <2>1
<1>. HIDE DEF new
<1>. QED
  BY <1>2, <1>3, FS_AddElement

\* A new key has released nothing, and only the end of an operation releases one.
LEMMA ReleasedKept ==
  ASSUME TypeOK, Tick \/ \E t \in Thread : Generate(t) \/ Use(t) \/ Rotate(t) \/ Administer(t),
         \A t \in Thread : ~FinishOperation(t)
  PROVE  Released' = Released
<1>1. CASE history' = history
  BY <1>1 DEF Released
<1>2. ASSUME NEW h, history' = Append(history, [handle |-> h, released |-> 0])
      PROVE  Released' = Released
  <2>. DEFINE R == [handle : Handle, released : Nat]
              f == [k \in DOMAIN history |-> history[k].released]
              g == [k \in DOMAIN history' |-> history'[k].released]
  <2>1. history \in Seq(R)
    BY DEF TypeOK
  <2>2. /\ DOMAIN history' = DOMAIN history \cup {Len(history) + 1}
        /\ \A k \in DOMAIN history : history'[k] = history[k]
        /\ history'[Len(history) + 1] = [handle |-> h, released |-> 0]
    <3>. HIDE DEF R
    <3>. QED
      BY <1>2, <2>1, SMT
  <2>3. /\ DOMAIN f \subseteq DOMAIN g
        /\ \A x \in DOMAIN f : g[x] = f[x]
        /\ \A x \in DOMAIN g \ DOMAIN f : g[x] = 0
    BY <2>2
  <2>4. units(g) = units(f)
    <3>. HIDE DEF f, g
    <3>. QED
      BY <2>3, SameUnits
  <2>. QED
    BY <2>4 DEF Released
<1>3. CASE Tick
  BY <1>1, <1>3 DEF Tick
<1>4. ASSUME NEW t \in Thread, Generate(t) PROVE Released' = Released
  BY <1>2, <1>4 DEF Generate, store_secret
<1>5. ASSUME NEW t \in Thread, Use(t) PROVE Released' = Released
  BY <1>1, <1>5 DEF Use, BeginOperation, FailOperation
<1>6. ASSUME NEW t \in Thread, Rotate(t) PROVE Released' = Released
  <2>1. CASE RotateGenerate(t)
    BY <1>2, <2>1 DEF RotateGenerate, store_secret
  <2>. QED
    BY <1>1, <1>6, <2>1 DEF Rotate, BeginRotate, FailRotate, RotateLink
<1>7. ASSUME NEW t \in Thread, Administer(t) PROVE Released' = Released
  BY <1>1, <1>7 DEF Administer, set_state, erase, clear, export_sealed, import_sealed
<1>. QED
  BY <1>3, <1>4, <1>5, <1>6, <1>7

LEMMA ReleasedGrows ==
  ASSUME IndInv, NEW t \in Thread, FinishOperation(t), IsFiniteSet(Released)
  PROVE  /\ IsFiniteSet(Released')
         /\ Cardinality(Released') = Cardinality(Released) + 1
<1>. DEFINE k == call[t].key
            R == [handle : Handle, released : Nat]
            f == [j \in DOMAIN history |-> history[j].released]
            g == [j \in DOMAIN history' |-> history'[j].released]
<1>1. k \in DOMAIN history /\ history' = [history EXCEPT ![k].released = @ + 1]
  BY DEF FinishOperation, IndInv, CallsHome
<1>2. history \in [1 .. Len(history) -> R] /\ DOMAIN history = 1 .. Len(history)
  BY LenProperties DEF IndInv, TypeOK
<1>3. /\ DOMAIN f = DOMAIN history /\ DOMAIN g = DOMAIN f /\ f[k] \in Nat
      /\ g[k] = f[k] + 1 /\ \A j \in DOMAIN f \ {k} : g[j] = f[j]
  BY <1>1, <1>2
<1>4. IsFiniteSet(units(g)) /\ Cardinality(units(g)) = Cardinality(units(f)) + 1
  <2>1. IsFiniteSet(units(f))
    BY DEF Released
  <2>. HIDE DEF f, g, k
  <2>. QED
    BY <1>1, <1>3, <2>1, OneMoreUnit
<1>. QED
  BY <1>4 DEF Released

\* Opening or closing a session hands nothing out.
LEMMA HandedOutKept ==
  ASSUME DOMAIN sessions \subseteq DOMAIN sessions',
         \A x \in DOMAIN sessions : sessions'[x].operations = sessions[x].operations,
         \A x \in DOMAIN sessions' \ DOMAIN sessions :
           \A op \in UseOp : sessions'[x].operations[op] = 0
  PROVE  HandedOut' = HandedOut
<1>. DEFINE f == [p \in (DOMAIN sessions) \X UseOp |-> sessions[p[1]].operations[p[2]]]
            g == [p \in (DOMAIN sessions') \X UseOp |-> sessions'[p[1]].operations[p[2]]]
<1>1. /\ DOMAIN f \subseteq DOMAIN g
      /\ \A p \in DOMAIN f : g[p] = f[p]
      /\ \A p \in DOMAIN g \ DOMAIN f : g[p] = 0
  OBVIOUS
<1>2. units(g) = units(f)
  <2>. HIDE DEF f, g
  <2>. QED
    BY <1>1, SameUnits
<1>. QED
  BY <1>2 DEF HandedOut

LEMMA HandedOutGrows ==
  ASSUME NEW token \in DOMAIN sessions, NEW op \in UseOp, IsFiniteSet(HandedOut),
         sessions[token].operations[op] \in Nat,
         DOMAIN sessions' = DOMAIN sessions,
         sessions'[token].operations[op] = sessions[token].operations[op] + 1,
         \A o \in UseOp \ {op} : sessions'[token].operations[o] = sessions[token].operations[o],
         \A x \in DOMAIN sessions \ {token} : sessions'[x] = sessions[x]
  PROVE  /\ IsFiniteSet(HandedOut')
         /\ Cardinality(HandedOut') = Cardinality(HandedOut) + 1
<1>. DEFINE f == [p \in (DOMAIN sessions) \X UseOp |-> sessions[p[1]].operations[p[2]]]
            g == [p \in (DOMAIN sessions') \X UseOp |-> sessions'[p[1]].operations[p[2]]]
            q == <<token, op>>
<1>1. /\ q \in DOMAIN f /\ DOMAIN g = DOMAIN f /\ f[q] \in Nat /\ g[q] = f[q] + 1
      /\ \A p \in DOMAIN f \ {q} : g[p] = f[p]
  OBVIOUS
<1>2. IsFiniteSet(units(g)) /\ Cardinality(units(g)) = Cardinality(units(f)) + 1
  <2>1. IsFiniteSet(units(f))
    BY DEF HandedOut
  <2>. HIDE DEF f, g, q
  <2>. QED
    BY <1>1, <2>1, OneMoreUnit
<1>. QED
  BY <1>2 DEF HandedOut

\* The books: what the keys released covers what was handed out and what is settling.
PaidInv ==
  /\ SessionInv /\ IndInv
  /\ IsFiniteSet(HandedOut) /\ IsFiniteSet(Released)
  /\ SessionsPaid

LEMMA SettlingFinite ==
  /\ IsFiniteSet(Settling) /\ Cardinality(Settling) \in Nat
  /\ IsFiniteSet(Settling') /\ Cardinality(Settling') \in Nat
<1>1. Settling \subseteq Thread /\ Settling' \subseteq Thread
  BY DEF Settling
<1>. QED
  BY <1>1, ThreadAssumption, FS_Subset, FS_CardinalityType

\* The books stay balanced in each of the ways a step can change them.
LEMMA NothingMoves ==
  ASSUME SessionsPaid, IsFiniteSet(HandedOut), IsFiniteSet(Released),
         HandedOut' = HandedOut, Released' = Released, Settling' \subseteq Settling
  PROVE  SessionsPaid' /\ IsFiniteSet(HandedOut') /\ IsFiniteSet(Released')
<1>1. Cardinality(Settling') <= Cardinality(Settling)
  BY SettlingFinite, FS_Subset
<1>2. Cardinality(HandedOut) \in Nat /\ Cardinality(Released) \in Nat
  BY FS_CardinalityType
<1>. QED
  BY <1>1, <1>2, SettlingFinite DEF SessionsPaid

LEMMA OneIsReleased ==
  ASSUME SessionsPaid, IsFiniteSet(HandedOut), IsFiniteSet(Released), HandedOut' = HandedOut,
         IsFiniteSet(Released'), Cardinality(Released') = Cardinality(Released) + 1,
         NEW t, Settling' \subseteq Settling \cup {t}
  PROVE  SessionsPaid' /\ IsFiniteSet(HandedOut')
<1>1. Cardinality(Settling') <= Cardinality(Settling) + 1
  <2>1. /\ IsFiniteSet(Settling \cup {t})
        /\ Cardinality(Settling \cup {t}) <= Cardinality(Settling) + 1
        /\ Cardinality(Settling \cup {t}) \in Nat
    <3>. DEFINE S == Settling
    <3>1. IsFiniteSet(S) /\ Cardinality(S) \in Nat
      BY SettlingFinite
    <3>. HIDE DEF S
    <3>2. IsFiniteSet(S \cup {t}) /\ Cardinality(S \cup {t}) = IF t \in S THEN Cardinality(S) ELSE Cardinality(S) + 1
      BY <3>1, FS_AddElement
    <3>3. Cardinality(S \cup {t}) \in Nat
      BY <3>2, FS_CardinalityType
    <3>4. Cardinality(S \cup {t}) <= Cardinality(S) + 1
      BY <3>1, <3>2
    <3>. QED
      BY <3>2, <3>3, <3>4 DEF S
  <2>2. Cardinality(Settling') <= Cardinality(Settling \cup {t})
    BY <2>1, FS_Subset
  <2>. QED
    BY <2>1, <2>2, SettlingFinite
<1>2. Cardinality(HandedOut) \in Nat /\ Cardinality(Released) \in Nat
  BY FS_CardinalityType
<1>. QED
  BY <1>1, <1>2, SettlingFinite DEF SessionsPaid

LEMMA OneIsHandedOut ==
  ASSUME SessionsPaid, IsFiniteSet(HandedOut), IsFiniteSet(Released), Released' = Released,
         IsFiniteSet(HandedOut'), Cardinality(HandedOut') = Cardinality(HandedOut) + 1,
         NEW t \in Settling, Settling' = Settling \ {t}
  PROVE  SessionsPaid' /\ IsFiniteSet(Released')
<1>1. Cardinality(Settling') = Cardinality(Settling) - 1
  BY SettlingFinite, FS_RemoveElement
<1>2. Cardinality(HandedOut) \in Nat /\ Cardinality(Released) \in Nat
  BY FS_CardinalityType
<1>. QED
  BY <1>1, <1>2, SettlingFinite DEF SessionsPaid

\* A step of a request: what its thread settles, and what its session hands out.
LEMMA UseIsPaid ==
  ASSUME PaidInv, NEW t \in Thread, UseSession(t)
  PROVE  SessionsPaid' /\ IsFiniteSet(HandedOut') /\ IsFiniteSet(Released')
<1>1. request \in [Thread -> SessionRequest] /\ NoRequest.pc = "none"
  BY DEF PaidInv, SessionInv, SessionTypeOK, NoRequest
<1>2. TypeOK /\ \A u \in Thread \ {t} : u # t
  BY DEF PaidInv, IndInv
<1>3. sessions' = sessions => HandedOut' = HandedOut
  BY DEF HandedOut
<1>4. vars' = vars => Released' = Released
  BY DEF Released, vars
<1>5. ASSUME NEW token \in DOMAIN sessions, NEW op \in UseOp, NEW h \in KnownHandles,
             NEW d \in DomainOf(op), Authorize(t, token, op, h, d)
      PROVE  SessionsPaid' /\ IsFiniteSet(HandedOut') /\ IsFiniteSet(Released')
  <2>1. Settling' \subseteq Settling
    BY <1>1, <1>5 DEF Authorize, Settling
  <2>. QED
    BY <1>3, <1>4, <1>5, <2>1, NothingMoves DEF Authorize, PaidInv
<1>6. CASE Run(t) \/ RunFailed(t)
  <2>1. Released' = Released /\ sessions' = sessions
    BY <1>6 DEF Run, RunFailed, BeginOperation, FailOperation, Released
  <2>2. Settling' \subseteq Settling
    <3>1. \A r \in SessionRequest : r # NoRequest => [r EXCEPT !.pc = "running"].pc = "running"
      BY DEF SessionRequest
    <3>2. request'[t].pc \in {"running", "none"}
      BY <1>1, <1>6, <3>1 DEF Run, RunFailed
    <3>3. \A u \in Thread \ {t} : request'[u] = request[u]
      BY <1>1, <1>6 DEF Run, RunFailed
    <3>. QED
      BY <3>2, <3>3 DEF Settling
  <2>. QED
    BY <1>3, <2>1, <2>2, NothingMoves DEF PaidInv
<1>7. CASE Denied(t)
  <2>1. Settling' \subseteq Settling
    BY <1>1, <1>7 DEF Denied, Settling
  <2>. QED
    BY <1>3, <1>4, <1>7, <2>1, NothingMoves DEF Denied, PaidInv
<1>8. CASE Ran(t)
  <2>1. Settling' \subseteq Settling \cup {t}
    BY <1>1, <1>8 DEF Ran, Settling
  <2>2. IsFiniteSet(Released') /\ Cardinality(Released') = Cardinality(Released) + 1
    BY <1>8, ReleasedGrows DEF Ran, PaidInv
  <2>. QED
    BY <1>3, <1>8, <2>1, <2>2, OneIsReleased DEF Ran, PaidInv
<1>9. CASE Settle(t)
  <2>1. t \in Settling /\ Settling' = Settling \ {t}
    BY <1>1, <1>9 DEF Settle, Settling
  <2>2. PICK token \in DOMAIN sessions, op \in UseOp :
          request[t] # NoRequest /\ token = request[t].token /\ op = request[t].op
    BY <1>9, RequestFields DEF Settle, NoRequest, SessionInv, PaidInv
  <2>3. \A x \in DOMAIN sessions : sessions[x] \in Session
    BY DEF PaidInv, SessionInv, SessionTypeOK
  <2>4. CASE ~grants(sessions[token], op, request[t].handle, request[t].domain)
    <3>1. sessions' = touched(token)
      BY <1>9, <2>2, <2>4 DEF Settle, settled
    <3>2. HandedOut' = HandedOut
      BY <2>3, <3>1, SessionCloses, HandedOutKept DEF touched
    <3>. QED
      BY <1>4, <1>9, <2>1, <3>2, NothingMoves DEF Settle, PaidInv
  <2>5. CASE grants(sessions[token], op, request[t].handle, request[t].domain)
    <3>. DEFINE counted == [sessions[token] EXCEPT !.operations[op] = @ + 1]
    <3>1. /\ counted.operations[op] = sessions[token].operations[op] + 1
          /\ \A o \in UseOp \ {op} : counted.operations[o] = sessions[token].operations[o]
      BY <2>3, <2>5, SessionCounts DEF grants
    <3>2. sessions' = [sessions EXCEPT ![token] = counted]
      BY <1>9, <2>2, <2>5 DEF Settle, settled
    <3>. HIDE DEF counted
    <3>3. /\ DOMAIN sessions' = DOMAIN sessions /\ sessions'[token] = counted
          /\ \A x \in DOMAIN sessions \ {token} : sessions'[x] = sessions[x]
      BY <3>2
    <3>4. sessions[token].operations[op] \in Nat
      BY <2>3 DEF Session
    <3>5. IsFiniteSet(HandedOut') /\ Cardinality(HandedOut') = Cardinality(HandedOut) + 1
      BY <3>1, <3>3, <3>4, HandedOutGrows DEF PaidInv
    <3>. QED
      BY <1>4, <1>9, <2>1, <3>5, OneIsHandedOut DEF Settle, PaidInv
  <2>. QED
    BY <2>4, <2>5
<1>. QED
  BY <1>5, <1>6, <1>7, <1>8, <1>9 DEF UseSession

LEMMA PaidStep ==
  ASSUME PaidInv, [SessionNext]_allvars
  PROVE  PaidInv'
<1>1. SessionInv' /\ IndInv'
  BY SessionStep, ModuleMoves, NextIndInv DEF PaidInv, SessionInv
<1>2. request' = request => Settling' \subseteq Settling
  BY DEF Settling
<1>3. \A x \in DOMAIN sessions : sessions[x] \in Session
  BY DEF PaidInv, SessionInv, SessionTypeOK
<1>4. UNCHANGED vars => Released' = Released
  BY DEF Released, vars
<1>5. CASE Direct
  <2>1. HandedOut' = HandedOut /\ Settling' \subseteq Settling /\ TypeOK
    BY <1>2, <1>5 DEF Direct, HandedOut, svars, PaidInv, IndInv
  <2>2. ASSUME NEW t \in Thread, FinishOperation(t)
        PROVE  SessionsPaid' /\ IsFiniteSet(HandedOut') /\ IsFiniteSet(Released')
    <3>1. IsFiniteSet(Released') /\ Cardinality(Released') = Cardinality(Released) + 1
      BY <2>2, ReleasedGrows DEF PaidInv
    <3>2. Settling' \subseteq Settling \cup {t}
      BY <2>1
    <3>. QED
      BY <2>1, <3>1, <3>2, OneIsReleased DEF PaidInv
  <2>3. ASSUME \A t \in Thread : ~FinishOperation(t)
        PROVE  SessionsPaid' /\ IsFiniteSet(HandedOut') /\ IsFiniteSet(Released')
    <3>1. Released' = Released
      BY <1>5, <2>1, <2>3, ReleasedKept DEF Direct
    <3>. QED
      BY <2>1, <3>1, NothingMoves DEF PaidInv
  <2>. QED
    BY <1>1, <2>2, <2>3 DEF PaidInv
<1>6. ASSUME NEW t \in Thread, UseSession(t) PROVE PaidInv'
  BY <1>1, <1>6, UseIsPaid DEF PaidInv
<1>7. ASSUME NEW t \in Thread, ManageSession(t) PROVE PaidInv'
  <2>1. UNCHANGED <<vars, request>>
    BY <1>7 DEF ManageSession, open_session, close_session, Refuse
  <2>2. ASSUME NEW token \in Token, open_session(t, token) PROVE HandedOut' = HandedOut
    BY <2>2, HandedOutKept DEF open_session
  <2>3. ASSUME NEW token \in DOMAIN sessions, close_session(t, token) \/ Refuse(t, token)
        PROVE  HandedOut' = HandedOut
    <3>1. sessions' = [sessions EXCEPT ![token].closed = TRUE]
      BY <2>3 DEF close_session, Refuse, touched
    <3>. QED
      BY <1>3, <3>1, SessionCloses, HandedOutKept
  <2>4. HandedOut' = HandedOut
    BY <1>7, <2>2, <2>3 DEF ManageSession
  <2>. QED
    BY <1>1, <1>2, <1>4, <2>1, <2>4, NothingMoves DEF PaidInv
<1>8. CASE UNCHANGED allvars
  BY <1>1, <1>2, <1>4, <1>8, NothingMoves DEF PaidInv, HandedOut, allvars, svars
<1>. QED
  BY <1>5, <1>6, <1>7, <1>8 DEF SessionNext

\* Over all sessions of any number of threads, what sign_domain and decapsulate have
\* handed out, with what waits for its second check, is at most what the keys released.
THEOREM HandedOutIsPaid == SessionSpec => []SessionsPaid
<1>1. SessionInit => PaidInv
  <2>. SUFFICES ASSUME SessionInit PROVE PaidInv
    OBVIOUS
  <2>1. HandedOut = {} /\ Released = {} /\ Settling = {}
    BY EmptySeq DEF SessionInit, Init, HandedOut, Released, units, Settling, NoRequest
  <2>2. SessionInv /\ IndInv
    BY SessionInitInv, InitIndInv DEF SessionInit
  <2>. QED
    BY <2>1, <2>2, FS_EmptySet DEF PaidInv, SessionsPaid
<1>2. PaidInv /\ [SessionNext]_allvars => PaidInv'
  BY PaidStep
<1>3. PaidInv => SessionsPaid
  BY DEF PaidInv
<1>. QED
  BY <1>1, <1>2, <1>3, PTL DEF SessionSpec
=============================================================================
