----------------------------- MODULE BatchProofs -----------------------------
(***************************************************************************)
(* The workers of a batch never meet, and none outlives the call; the call   *)
(* answers truly and keeps the promise of HashCall: for any number of        *)
(* threads, chunks and messages, whichever way the call went.                *)
(***************************************************************************)
EXTENDS Batch, FiniteSetTheorems, TLAPS

\* The first slot of the next chunk to claim.
Frontier == next_chunk * call.chunk

Position == [at : {"absent", "claiming", "hashing", "done"}, i : Nat, end : Nat]

\* What the engine is asked.
GoodOptions(o) ==
  /\ o.worker_count \in 0..MaxWorkers
  /\ o.target_chunk_items \in Nat /\ o.min_parallel_items \in Nat
  /\ o.enable_parallel \in BOOLEAN

EngineTyped ==
  /\ call.items \in Nat /\ call.chunk \in Nat \ {0} /\ call.workers \in Worker
  /\ stage \in {"idle", "alone", "starting", "joining", "returned", "thrown", "aborted"}
  /\ next_chunk \in Nat /\ started \in Nat /\ joined \in Nat
  /\ position \in [Worker -> Position]
  /\ stage # "idle" => writes \in [Slot -> Nat]

\* Threads are started and joined in order, and a stage knows how many there are.
ThreadsInOrder ==
  /\ started <= call.workers /\ joined <= started
  /\ \A w \in Worker : position[w].at # "absent" <=> w <= started
  /\ \A w \in Worker : w <= joined => position[w].at = "done"
  /\ stage \in {"idle", "alone", "thrown"} => started = 0
  /\ stage = "joining" => started = call.workers
  /\ stage = "returned" => joined = started

busy(w) == position[w].at = "hashing"

\* A worker's slots lie below the frontier, where the slots above it are untouched.
Claimed ==
  \A w \in Worker : busy(w) =>
    /\ position[w].i < position[w].end
    /\ position[w].end <= call.items /\ position[w].end <= Frontier
    /\ \A s \in Slot : position[w].i <= s /\ s < position[w].end => writes[s] = 0

Unclaimed ==
  stage \in {"starting", "joining"} => \A s \in Slot : Frontier <= s => writes[s] = 0

Apart ==
  \A v, w \in Worker : v # w /\ busy(v) /\ busy(w) =>
    position[v].end <= position[w].i \/ position[w].end <= position[v].i

EngineInv == EngineTyped /\ ThreadsInOrder /\ Claimed /\ Unclaimed /\ Apart

-----------------------------------------------------------------------------
(* Facts about the engine's arithmetic. *)

\* A chunk below the number of chunks begins below the number of messages
\* (throughput.cpp:83-84), for chunks of any size.
LEMMA ChunkBegins ==
  ASSUME NEW items \in Nat, NEW chunk \in Nat \ {0}, NEW n \in Nat,
         n < (items + chunk - 1) \div chunk
  PROVE  n * chunk < items
<1> DEFINE a == items + chunk - 1
<1> DEFINE q == a \div chunk
<1>1. a \in Nat /\ chunk \in Nat /\ chunk > 0
  BY SMT
<1>2. q \in Nat /\ q * chunk <= a
  BY <1>1, SMTT(30)
<1>3. (n + 1) * chunk <= q * chunk
  BY <1>2, SMTT(30)
<1>4. (n + 1) * chunk = n * chunk + chunk
  BY SMT
<1> QED
  BY <1>1, <1>2, <1>3, <1>4, SMT

\* The engine never starts more threads than the model has (throughput.cpp:16-20).
LEMMA WorkersSelected ==
  ASSUME NEW o, GoodOptions(o), NEW items \in Nat
  PROVE  selected_worker_count(o, items) \in Worker
BY EngineBounds DEF GoodOptions, selected_worker_count, safe_thread_count, Larger, Smaller, Worker

-----------------------------------------------------------------------------
(* The engine's steps keep its invariant. *)

LEMMA EngineBegins ==
  ASSUME EngineInv, NEW items \in Nat, NEW o, GoodOptions(o), sha256_parallel(items, o)
  PROVE  EngineInv'
<1>1. normalized_chunk(o) \in Nat \ {0} /\ selected_worker_count(o, items) \in Worker
  BY EngineBounds, WorkersSelected DEF normalized_chunk, GoodOptions
<1>2. /\ call'.items = items /\ call'.chunk \in Nat \ {0} /\ call'.workers \in Worker
      /\ stage' \in {"returned", "starting", "alone"} /\ stage = "idle"
      /\ writes' = [i \in 0..(items - 1) |-> 0]
      /\ UNCHANGED <<next_chunk, started, joined, position>>
  BY <1>1 DEF sha256_parallel
<1>3. started = 0 /\ joined = 0 /\ \A w \in Worker : position[w].at = "absent"
  <2>1. started = 0 /\ joined = 0
    BY <1>2, SMT DEF EngineInv, EngineTyped, ThreadsInOrder
  <2>2. \A w \in Worker : ~(w <= 0)
    BY SMT DEF Worker
  <2>. QED
    BY <2>1, <2>2 DEF EngineInv, ThreadsInOrder
<1>4. EngineTyped'
  BY <1>2, SMT DEF EngineInv, EngineTyped, Slot
<1>5. ThreadsInOrder'
  BY <1>2, <1>3, SMT DEF EngineInv, ThreadsInOrder, EngineTyped, Worker
<1>6. Claimed' /\ Apart'
  BY <1>2, <1>3 DEF Claimed, Apart, busy
<1>7. Unclaimed'
  BY <1>2, SMT DEF Unclaimed, Slot
<1>. QED
  BY <1>4, <1>5, <1>6, <1>7 DEF EngineInv

LEMMA HashesAlone ==
  ASSUME EngineInv, hash_alone
  PROVE  EngineInv'
<1>1. /\ stage = "alone" /\ stage' = "returned"
      /\ writes' = [i \in Slot |-> writes[i] + 1]
      /\ UNCHANGED <<call, next_chunk, started, joined, position>>
  BY DEF hash_alone
<1>2. started = 0 /\ joined = 0 /\ \A w \in Worker : position[w].at = "absent"
  <2>1. started = 0 /\ joined = 0
    BY <1>1, SMT DEF EngineInv, EngineTyped, ThreadsInOrder
  <2>2. \A w \in Worker : ~(w <= 0)
    BY SMT DEF Worker
  <2>. QED
    BY <2>1, <2>2 DEF EngineInv, ThreadsInOrder
<1>3. EngineTyped'
  BY <1>1, SMT DEF EngineInv, EngineTyped, Slot
<1>4. ThreadsInOrder'
  BY <1>1, <1>2, SMT DEF EngineInv, ThreadsInOrder
<1>5. Claimed' /\ Apart' /\ Unclaimed'
  BY <1>1, <1>2 DEF Claimed, Apart, Unclaimed, busy
<1>. QED
  BY <1>3, <1>4, <1>5 DEF EngineInv

LEMMA StartsAndJoins ==
  ASSUME EngineInv, start_worker \/ start_fails \/ all_started \/ join \/ return
  PROVE  EngineInv'
<1>1. UNCHANGED <<call, next_chunk, writes>>
  BY DEF start_worker, start_fails, all_started, join, return
<1>2. Slot' = Slot /\ Frontier' = Frontier
  BY <1>1 DEF Slot, Frontier
<1>3. CASE start_worker
  <2>1. /\ stage = "starting" /\ UNCHANGED <<stage, joined>>
        /\ started < call.workers /\ started' = started + 1
        /\ position' = [position EXCEPT ![started + 1] = Claiming]
    BY <1>3 DEF start_worker
  <2>2. \A w \in Worker : /\ w # started + 1 => position'[w] = position[w]
                          /\ w = started + 1 => position'[w].at = "claiming"
    <3>1. position' = [w \in Worker |-> IF w = started + 1 THEN Claiming ELSE position[w]]
      BY <2>1 DEF EngineInv, EngineTyped
    <3>. QED
      BY <3>1 DEF Claiming
  <2>3. EngineTyped'
    <3>1. Claiming \in Position
      BY DEF Claiming, Position
    <3>2. position' \in [Worker -> Position]
      BY <2>1, <3>1 DEF EngineInv, EngineTyped
    <3>. QED
      BY <1>1, <1>2, <2>1, <3>2, SMT DEF EngineInv, EngineTyped
  <2>4. ThreadsInOrder'
    BY <1>1, <2>1, <2>2, SMT DEF EngineInv, EngineTyped, ThreadsInOrder, Worker
  <2>5. Claimed' /\ Apart'
    BY <1>1, <1>2, <2>2 DEF EngineInv, Claimed, Apart, busy
  <2>6. Unclaimed'
    BY <1>1, <1>2, <2>1 DEF EngineInv, Unclaimed
  <2>. QED
    BY <2>3, <2>4, <2>5, <2>6 DEF EngineInv
<1>4. CASE start_fails \/ all_started \/ join \/ return
  <2>1. UNCHANGED <<started, position>>
    BY <1>4 DEF start_fails, all_started, join, return
  <2>2. stage' = "joining" => stage \in {"starting", "joining"}
    BY <1>4 DEF start_fails, all_started, join, return
  <2>3. stage' # "starting" /\ stage # "idle" /\ stage' # "idle"
    BY <1>4 DEF start_fails, all_started, join, return
  <2>4. EngineTyped'
    BY <1>1, <1>2, <1>4, <2>1, SMT
       DEF EngineInv, EngineTyped, start_fails, all_started, join, return
  <2>5. ThreadsInOrder'
    <3>1. CASE start_fails
      BY <1>1, <2>1, <3>1, SMT DEF EngineInv, EngineTyped, ThreadsInOrder, start_fails
    <3>2. CASE all_started
      BY <1>1, <2>1, <3>2, SMT DEF EngineInv, EngineTyped, ThreadsInOrder, all_started
    <3>3. CASE join
      BY <1>1, <2>1, <3>3, SMT DEF EngineInv, EngineTyped, ThreadsInOrder, join, Worker
    <3>4. CASE return
      BY <1>1, <2>1, <3>4, SMT DEF EngineInv, EngineTyped, ThreadsInOrder, return
    <3>. QED
      BY <1>4, <3>1, <3>2, <3>3, <3>4
  <2>6. Claimed' /\ Apart' /\ Unclaimed'
    BY <1>1, <1>2, <2>1, <2>2, <2>3 DEF EngineInv, Claimed, Apart, Unclaimed, busy
  <2>. QED
    BY <2>4, <2>5, <2>6 DEF EngineInv
<1>. QED
  BY <1>3, <1>4

\* A claimed chunk lies above everything claimed before, and below the new frontier.
LEMMA Claims ==
  ASSUME EngineInv, NEW v \in Worker, claim(v)
  PROVE  EngineInv'
<1>. DEFINE nothing == next_chunk >= chunks
<1>1. /\ position[v].at = "claiming"
      /\ UNCHANGED <<call, stage, started, joined, writes>>
      /\ next_chunk' = next_chunk + 1
      /\ position' = [position EXCEPT ![v] =
            IF nothing THEN Done ELSE Hashing(Frontier, chunk_end(next_chunk))]
  BY DEF claim, Frontier
<1>2. Slot' = Slot
  BY <1>1 DEF Slot
<1>3. /\ Frontier \in Nat /\ Frontier' = Frontier + call.chunk
      /\ chunk_end(next_chunk) = Smaller(call.items, Frontier + call.chunk)
  BY <1>1, SMTT(30) DEF EngineInv, EngineTyped, Frontier, chunk_end
<1>4. ~nothing => Frontier < call.items
  <2>1. ~nothing => next_chunk < (call.items + call.chunk - 1) \div call.chunk
    <3>1. (call.items + call.chunk - 1) \div call.chunk \in Int
      BY SMT DEF EngineInv, EngineTyped
    <3>. QED
      BY <3>1, SMT DEF EngineInv, EngineTyped, chunks
  <2>. QED
    BY <2>1, ChunkBegins DEF EngineInv, EngineTyped, Frontier
<1>5. \E e \in Nat :
        /\ chunk_end(next_chunk) = e
        /\ e <= call.items /\ e <= Frontier'
        /\ ~nothing => Frontier < e
  BY <1>3, <1>4, SMT DEF EngineInv, EngineTyped, Smaller
<1>6. PICK e \in Nat : /\ chunk_end(next_chunk) = e
                       /\ e <= call.items /\ e <= Frontier'
                       /\ ~nothing => Frontier < e
  BY <1>5
<1>7. /\ \A w \in Worker : w # v => position'[w] = position[w]
      /\ position'[v] = IF nothing THEN Done ELSE Hashing(Frontier, e)
      /\ position' \in [Worker -> Position]
  BY <1>1, <1>3, <1>6 DEF EngineInv, EngineTyped, Done, Hashing, Position
<1>8. ~(v <= joined) /\ stage # "returned" /\ stage \notin {"idle", "alone", "thrown"}
  BY <1>1, SMT DEF EngineInv, EngineTyped, ThreadsInOrder, Worker
<1>9. EngineTyped'
  BY <1>1, <1>2, <1>7, SMT DEF EngineInv, EngineTyped
<1>10. ThreadsInOrder'
  <2>1. position'[v].at # "absent"
    BY <1>7 DEF Done, Hashing
  <2>. QED
    BY <1>1, <1>7, <1>8, <2>1 DEF EngineInv, ThreadsInOrder
<1>11. \A w \in Worker : busy(w)' =>
         \/ w # v /\ busy(w) /\ position'[w] = position[w]
         \/ w = v /\ ~nothing /\ position'[w].i = Frontier /\ position'[w].end = e
  BY <1>7 DEF busy, Done, Hashing
<1>12. Claimed'
  <2>. SUFFICES ASSUME NEW w \in Worker, busy(w)'
                PROVE  /\ position'[w].i < position'[w].end
                       /\ position'[w].end <= call.items /\ position'[w].end <= Frontier'
                       /\ \A s \in Slot : position'[w].i <= s /\ s < position'[w].end => writes[s] = 0
    BY <1>1, <1>2 DEF Claimed
  <2>1. CASE w # v
    BY <1>3, <1>11, <2>1, SMT DEF EngineInv, EngineTyped, Claimed, Position
  <2>2. CASE w = v
    <3>1. stage \in {"starting", "joining"}
      BY <1>1, <1>8 DEF EngineInv, EngineTyped, claim, runs
    <3>2. \A s \in Slot : Frontier <= s => writes[s] = 0
      BY <3>1 DEF EngineInv, Unclaimed
    <3>. QED
      BY <1>6, <1>11, <2>2, <3>2
  <2>. QED
    BY <2>1, <2>2
<1>13. Apart'
  <2>. SUFFICES ASSUME NEW u \in Worker, NEW w \in Worker, u # w, busy(u)', busy(w)'
                PROVE  position'[u].end <= position'[w].i \/ position'[w].end <= position'[u].i
    BY DEF Apart
  <2>1. \A x \in Worker : busy(x) => position[x].end <= Frontier
    BY DEF EngineInv, Claimed
  <2>. QED
    BY <1>11, <2>1 DEF EngineInv, Apart
<1>14. Unclaimed'
  <2>1. \A s \in Slot : Frontier' <= s => Frontier <= s
    BY <1>3, SMT DEF EngineInv, EngineTyped, Slot
  <2>. QED
    BY <1>1, <1>2, <2>1 DEF EngineInv, Unclaimed
<1>. QED
  BY <1>9, <1>10, <1>12, <1>13, <1>14 DEF EngineInv

\* The slot that is written belongs to its worker alone.
LEMMA HashesSlot ==
  ASSUME EngineInv, NEW v \in Worker, hash_slot(v)
  PROVE  EngineInv'
<1>. DEFINE i == position[v].i
            upto == position[v].end
<1>1. /\ busy(v) /\ stage # "aborted"
      /\ UNCHANGED <<call, stage, next_chunk, started, joined>>
      /\ writes' = [writes EXCEPT ![i] = @ + 1]
      /\ position' = [position EXCEPT ![v] = IF i + 1 < upto THEN Hashing(i + 1, upto) ELSE Claiming]
  BY DEF hash_slot, runs, busy
<1>2. Slot' = Slot /\ Frontier' = Frontier
  BY <1>1 DEF Slot, Frontier
<1>3. /\ i \in Nat /\ upto \in Nat /\ i < upto /\ upto <= Frontier /\ upto <= call.items
      /\ i \in Slot /\ Frontier \in Nat
  <2>1. i \in Nat /\ upto \in Nat
    BY DEF EngineInv, EngineTyped, Position
  <2>2. i < upto /\ upto <= Frontier /\ upto <= call.items
    BY <1>1 DEF EngineInv, Claimed
  <2>3. i \in Slot
    BY <2>1, <2>2, SMT DEF EngineInv, EngineTyped, Slot
  <2>4. Frontier \in Nat
    BY SMT DEF EngineInv, EngineTyped, Frontier
  <2>. QED
    BY <2>1, <2>2, <2>3, <2>4
<1>4. /\ \A w \in Worker : w # v => position'[w] = position[w]
      /\ position'[v] = IF i + 1 < upto THEN Hashing(i + 1, upto) ELSE Claiming
      /\ position' \in [Worker -> Position]
  BY <1>1, <1>3, SMT DEF EngineInv, EngineTyped, Hashing, Claiming, Position
<1>5. ~(v <= joined) /\ stage # "returned" /\ stage \notin {"idle", "alone", "thrown"}
  BY <1>1, SMT DEF EngineInv, EngineTyped, ThreadsInOrder, Worker, busy
<1>6. writes' \in [Slot -> Nat] /\ \A s \in Slot : s # i => writes'[s] = writes[s]
  BY <1>1, <1>3, <1>5, SMT DEF EngineInv, EngineTyped
<1>7. EngineTyped'
  BY <1>1, <1>2, <1>4, <1>6 DEF EngineInv, EngineTyped
<1>8. ThreadsInOrder'
  <2>1. position'[v].at # "absent"
    BY <1>4 DEF Hashing, Claiming
  <2>. QED
    BY <1>1, <1>4, <1>5, <2>1 DEF EngineInv, ThreadsInOrder, busy
<1>9. \A w \in Worker : busy(w)' =>
        \/ w # v /\ busy(w) /\ position'[w] = position[w]
        \/ w = v /\ i + 1 < upto /\ position'[w].i = i + 1 /\ position'[w].end = upto
  BY <1>4 DEF busy, Claiming, Hashing
<1>10. \A w \in Worker : w # v /\ busy(w) => position[w].end <= i \/ upto <= position[w].i
  BY <1>1 DEF EngineInv, Apart
<1>11. Claimed'
  <2>. SUFFICES ASSUME NEW w \in Worker, busy(w)'
                PROVE  /\ position'[w].i < position'[w].end
                       /\ position'[w].end <= call.items /\ position'[w].end <= Frontier
                       /\ \A s \in Slot : position'[w].i <= s /\ s < position'[w].end => writes'[s] = 0
    BY <1>1, <1>2 DEF Claimed
  <2>1. CASE w # v
    <3>1. /\ busy(w) /\ position'[w] = position[w]
          /\ position[w].end <= i \/ upto <= position[w].i
          /\ position[w].i \in Nat /\ position[w].end \in Nat
      BY <1>9, <1>10, <2>1 DEF EngineInv, EngineTyped, Position
    <3>2. \A s \in Slot : position[w].i <= s /\ s < position[w].end => s # i
      BY <1>3, <3>1, SMT DEF EngineInv, EngineTyped, Slot
    <3>. QED
      BY <1>6, <3>1, <3>2 DEF EngineInv, Claimed
  <2>2. CASE w = v
    <3>1. /\ i + 1 < upto /\ position'[w].i = i + 1 /\ position'[w].end = upto
      BY <1>9, <2>2
    <3>2. \A s \in Slot : i + 1 <= s => s # i /\ i <= s
      BY <1>3, SMT DEF EngineInv, EngineTyped, Slot
    <3>. QED
      BY <1>1, <1>3, <1>6, <3>1, <3>2 DEF EngineInv, Claimed
  <2>. QED
    BY <2>1, <2>2
<1>12. Apart'
  <2>. SUFFICES ASSUME NEW u \in Worker, NEW w \in Worker, u # w, busy(u)', busy(w)'
                PROVE  position'[u].end <= position'[w].i \/ position'[w].end <= position'[u].i
    BY DEF Apart
  <2>1. \A x \in Worker : position[x].i \in Nat /\ position[x].end \in Nat
    BY DEF EngineInv, EngineTyped, Position
  <2>2. CASE u # v /\ w # v
    BY <1>9, <2>2 DEF EngineInv, Apart
  <2>3. CASE u = v
    BY <1>3, <1>9, <1>10, <2>1, <2>3, SMT
  <2>4. CASE w = v
    BY <1>3, <1>9, <1>10, <2>1, <2>4, SMT
  <2>. QED
    BY <2>2, <2>3, <2>4
<1>13. Unclaimed'
  <2>1. \A s \in Slot : Frontier <= s => s # i
    BY <1>3, SMT DEF EngineInv, EngineTyped, Slot
  <2>. QED
    BY <1>1, <1>2, <1>6, <2>1 DEF EngineInv, Unclaimed
<1>. QED
  BY <1>7, <1>8, <1>11, <1>12, <1>13 DEF EngineInv

-----------------------------------------------------------------------------
(* What the workers leave when they are done. *)

Finished == {w \in Worker : position[w].at = "done"}

\* A worker that claims past the last chunk stops, so the counter passes it at most
\* once for each.
Counted ==
  /\ stage = "idle" => next_chunk = 0
  /\ next_chunk <= chunks + Cardinality(Finished)
  /\ \A w \in Finished : next_chunk >= chunks

\* A slot below the frontier is hashed, or some worker is about to; when the engine
\* returns all are.
Accounted ==
  /\ stage \in {"starting", "joining"} =>
       \A s \in Slot : s < Frontier /\ writes[s] # 1 =>
         \E w \in Worker : busy(w) /\ position[w].i <= s /\ s < position[w].end
  /\ stage = "alone" => \A s \in Slot : writes[s] = 0
  /\ stage = "returned" => \A s \in Slot : writes[s] = 1

\* The chunks cover the batch.
LEMMA ChunksCover ==
  ASSUME NEW items \in Nat, NEW chunk \in Nat \ {0}, NEW n \in Nat,
         n >= (items + chunk - 1) \div chunk
  PROVE  items <= n * chunk
<1> DEFINE a == items + chunk - 1
<1> DEFINE q == a \div chunk
<1>1. a \in Nat /\ chunk \in Nat /\ chunk > 0
  BY SMT
<1>2. q \in Nat /\ a < (q + 1) * chunk
  BY <1>1, SMTT(30)
<1>3. (q + 1) * chunk = q * chunk + chunk
  BY <1>2, SMT
<1>4. q * chunk <= n * chunk
  BY <1>1, <1>2, SMTT(30)
<1> QED
  BY <1>1, <1>2, <1>3, <1>4, SMT

LEMMA OneMore == \A n, m \in Nat : (n + 1) * m = n * m + m
BY SMT

LEMMA ChunksNumbered == ASSUME EngineInv PROVE chunks \in Nat /\ Frontier \in Nat
<1>1. call.items \in Nat /\ call.chunk \in Nat \ {0} /\ next_chunk \in Nat
  BY DEF EngineInv, EngineTyped
<1>2. call.items + call.chunk - 1 \in Nat
  BY <1>1, SMT
<1>3. (call.items + call.chunk - 1) \div call.chunk \in Nat
  BY <1>1, <1>2, SMTT(30)
<1>. QED
  BY <1>1, <1>3, SMT DEF chunks, Frontier

LEMMA FinishedFinite ==
  /\ IsFiniteSet(Finished) /\ Cardinality(Finished) \in Nat
  /\ EngineInv => Cardinality(Finished) <= call.workers
<1>1. IsFiniteSet(Worker)
  BY EngineBounds, FS_Interval, SMT DEF Worker
<1>2. IsFiniteSet(Finished)
  BY <1>1, FS_Subset DEF Finished
<1>3. ASSUME EngineInv PROVE Cardinality(Finished) <= call.workers
  <2>1. call.workers \in Nat /\ call.workers >= 1 /\ started \in Nat /\ started <= call.workers
    BY <1>3, EngineBounds, SMT DEF EngineInv, EngineTyped, ThreadsInOrder, Worker
  <2>2. IsFiniteSet(1..call.workers) /\ Cardinality(1..call.workers) = call.workers
    <3>1. \A n \in Int : IsFiniteSet(1..n) /\ Cardinality(1..n) = IF 1 > n THEN 0 ELSE n - 1 + 1
      BY FS_Interval, SMT
    <3>. QED
      BY <2>1, <3>1, SMT
  <2>3. Finished \subseteq 1..call.workers
    BY <1>3, <2>1, SMT DEF EngineInv, ThreadsInOrder, Finished, Worker
  <2>. QED
    BY <2>2, <2>3, FS_Subset
<1>. QED
  BY <1>2, <1>3, FS_CardinalityType

LEMMA EndBegins ==
  ASSUME EngineInv, Counted, NEW items \in Nat, NEW o, GoodOptions(o), sha256_parallel(items, o)
  PROVE  Counted' /\ Accounted'
<1>1. EngineInv'
  BY EngineBegins
<1>2. /\ call'.items = items
      /\ stage' = IF items = 0 THEN "returned" ELSE IF call'.workers > 1 THEN "starting" ELSE "alone"
      /\ writes' = [i \in 0..(items - 1) |-> 0]
      /\ stage = "idle" /\ UNCHANGED <<next_chunk, started, joined, position>>
  BY DEF sha256_parallel
<1>3. next_chunk' = 0 /\ Slot' = 0..(items - 1)
  BY <1>2 DEF Counted, Slot
<1>4. Finished' = {}
  <2>1. started = 0
    BY <1>2 DEF EngineInv, ThreadsInOrder
  <2>2. \A w \in Worker : ~(w <= started)
    BY <2>1, SMT DEF Worker
  <2>. QED
    BY <1>2, <2>2 DEF EngineInv, ThreadsInOrder, Finished
<1>5. Frontier' = 0 /\ chunks' \in Nat
  <2>1. (EngineInv => chunks \in Nat)'
    BY ChunksNumbered, PTL
  <2>2. call'.chunk \in Nat
    BY <1>1 DEF EngineInv, EngineTyped
  <2>. QED
    BY <1>1, <1>3, <2>1, <2>2, SMT DEF Frontier
<1>6. Counted'
  BY <1>2, <1>3, <1>4, <1>5, FS_EmptySet, SMT DEF Counted
<1>7. Accounted'
  <2>1. items = 0 => Slot' = {}
    BY <1>3, SMT
  <2>2. \A s \in Slot' : writes'[s] = 0 /\ ~(s < Frontier')
    BY <1>2, <1>3, <1>5, SMT
  <2>3. stage' = "returned" => items = 0
    BY <1>2
  <2>. QED
    BY <2>1, <2>2, <2>3 DEF Accounted
<1>. QED
  BY <1>6, <1>7

LEMMA EndAlone ==
  ASSUME EngineInv, Counted, Accounted, hash_alone
  PROVE  Counted' /\ Accounted'
<1>1. /\ stage = "alone" /\ stage' = "returned"
      /\ writes' = [i \in Slot |-> writes[i] + 1]
      /\ UNCHANGED <<call, next_chunk, started, joined, position>>
  BY DEF hash_alone
<1>2. Slot' = Slot /\ chunks' = chunks /\ Finished' = Finished
  BY <1>1 DEF Slot, chunks, Finished
<1>3. \A s \in Slot : writes'[s] = 1
  BY <1>1 DEF Accounted
<1>. QED
  BY <1>1, <1>2, <1>3 DEF Counted, Accounted

LEMMA EndStartsAndJoins ==
  ASSUME EngineInv, Counted, Accounted, start_worker \/ start_fails \/ all_started \/ join \/ return
  PROVE  Counted' /\ Accounted'
<1>1. UNCHANGED <<call, next_chunk, writes>> /\ stage # "idle" /\ stage' # "alone"
  BY DEF start_worker, start_fails, all_started, join, return
<1>2. Slot' = Slot /\ Frontier' = Frontier /\ chunks' = chunks
  BY <1>1 DEF Slot, Frontier, chunks
<1>3. \A w \in Worker : busy(w) => busy(w)' /\ position'[w] = position[w]
  <2>1. CASE start_worker
    <3>1. position' = [w \in Worker |-> IF w = started + 1 THEN Claiming ELSE position[w]]
      BY <2>1 DEF EngineInv, EngineTyped, start_worker
    <3>2. \A w \in Worker : busy(w) => w # started + 1
      BY SMT DEF EngineInv, EngineTyped, ThreadsInOrder, busy, Worker
    <3>. QED
      BY <3>1, <3>2 DEF busy
  <2>2. CASE start_fails \/ all_started \/ join \/ return
    BY <2>2 DEF start_fails, all_started, join, return, busy
  <2>. QED
    BY <2>1, <2>2
<1>4. Finished' = Finished
  <2>1. CASE start_worker
    <3>1. position' = [w \in Worker |-> IF w = started + 1 THEN Claiming ELSE position[w]]
      BY <2>1 DEF EngineInv, EngineTyped, start_worker
    <3>2. \A w \in Worker : position[w].at = "done" => w # started + 1
      BY SMT DEF EngineInv, EngineTyped, ThreadsInOrder, Worker
    <3>. QED
      BY <3>1, <3>2 DEF Finished, Claiming
  <2>2. CASE start_fails \/ all_started \/ join \/ return
    BY <2>2 DEF start_fails, all_started, join, return, Finished
  <2>. QED
    BY <2>1, <2>2
<1>5. Counted'
  BY <1>1, <1>2, <1>4 DEF Counted, start_worker, start_fails, all_started, join, return
<1>6. ASSUME stage' \in {"starting", "joining"}
      PROVE  \A s \in Slot' : s < Frontier' /\ writes'[s] # 1 =>
               \E w \in Worker : busy(w)' /\ position'[w].i <= s /\ s < position'[w].end
  <2>1. stage \in {"starting", "joining"}
    BY <1>6 DEF start_worker, start_fails, all_started, join, return
  <2>. QED
    BY <1>1, <1>2, <1>3, <2>1 DEF Accounted
<1>7. ASSUME stage' = "returned"
      PROVE  \A s \in Slot' : writes'[s] = 1
  <2>1. /\ stage = "joining" /\ joined = call.workers
    BY <1>7 DEF start_worker, start_fails, all_started, join, return
  <2>2. started = joined /\ 1 \in Worker /\ 1 <= joined
    BY <2>1, EngineBounds, SMT DEF EngineInv, EngineTyped, ThreadsInOrder, Worker
  <2>3. \A w \in Worker : ~busy(w)
    BY <2>2 DEF EngineInv, ThreadsInOrder, busy
  <2>4. 1 \in Finished
    BY <2>2 DEF EngineInv, ThreadsInOrder, Finished
  <2>5. next_chunk >= (call.items + call.chunk - 1) \div call.chunk
    BY <2>4 DEF Counted, chunks
  <2>6. call.items <= Frontier /\ Frontier \in Nat
    BY <2>5, ChunksCover, ChunksNumbered DEF EngineInv, EngineTyped, Frontier
  <2>7. \A s \in Slot : s < Frontier
    BY <2>6, SMT DEF EngineInv, EngineTyped, Slot
  <2>. QED
    BY <1>1, <1>2, <2>1, <2>3, <2>7 DEF Accounted
<1>. QED
  BY <1>1, <1>5, <1>6, <1>7 DEF Accounted

LEMMA EndClaims ==
  ASSUME EngineInv, Counted, Accounted, NEW v \in Worker, claim(v)
  PROVE  Counted' /\ Accounted'
<1>. DEFINE nothing == next_chunk >= chunks
<1>1. /\ position[v].at = "claiming"
      /\ UNCHANGED <<call, stage, started, joined, writes>>
      /\ next_chunk' = next_chunk + 1
      /\ position' = [position EXCEPT ![v] =
            IF nothing THEN Done ELSE Hashing(Frontier, chunk_end(next_chunk))]
  BY DEF claim, Frontier
<1>2. Slot' = Slot /\ chunks' = chunks
  BY <1>1 DEF Slot, chunks
<1>3. chunks \in Nat /\ Frontier \in Nat /\ Frontier' = Frontier + call.chunk
  <2>1. Frontier' = Frontier + call.chunk
    <3>1. Frontier' = (next_chunk + 1) * call.chunk
      BY <1>1 DEF Frontier
    <3>2. next_chunk \in Nat /\ call.chunk \in Nat
      BY DEF EngineInv, EngineTyped
    <3>3. (next_chunk + 1) * call.chunk = next_chunk * call.chunk + call.chunk
      BY <3>2, OneMore
    <3>. QED
      BY <3>1, <3>3 DEF Frontier
  <2>. QED
    BY <2>1, ChunksNumbered
<1>4. /\ \A w \in Worker : w # v => position'[w] = position[w]
      /\ position'[v] = IF nothing THEN Done ELSE Hashing(Frontier, chunk_end(next_chunk))
  BY <1>1 DEF EngineInv, EngineTyped
<1>5. stage \in {"starting", "joining"}
  BY <1>1, SMT DEF EngineInv, EngineTyped, ThreadsInOrder, Worker, claim, runs
<1>6. Counted'
  <2>1. v \notin Finished /\ IsFiniteSet(Finished) /\ Cardinality(Finished) \in Nat
    BY <1>1, FinishedFinite DEF Finished
  <2>2. CASE nothing
    <3>1. Finished' = Finished \cup {v}
      BY <1>4, <2>2 DEF Finished, Done
    <3>2. Cardinality(Finished') = Cardinality(Finished) + 1
      BY <2>1, <3>1, FS_AddElement
    <3>. QED
      BY <1>1, <1>2, <1>3, <1>5, <2>1, <2>2, <3>2, SMT DEF Counted, EngineInv, EngineTyped
  <2>3. CASE ~nothing
    <3>1. Finished' = Finished
      BY <1>1, <1>4, <2>3 DEF Finished, Hashing
    <3>2. next_chunk < chunks
      BY <1>3, <2>3, SMT DEF EngineInv, EngineTyped
    <3>. QED
      BY <1>1, <1>2, <1>3, <1>5, <2>1, <3>1, <3>2, SMT DEF Counted, EngineInv, EngineTyped
  <2>. QED
    BY <2>2, <2>3
<1>7. ASSUME NEW s \in Slot, s < Frontier', writes[s] # 1
      PROVE  \E w \in Worker : busy(w)' /\ position'[w].i <= s /\ s < position'[w].end
  <2>0. s \in Nat /\ s < call.items /\ call.items \in Nat
    BY <1>7, SMT DEF EngineInv, EngineTyped, Slot
  <2>1. CASE s < Frontier
    <3>1. PICK w \in Worker : busy(w) /\ position[w].i <= s /\ s < position[w].end
      BY <1>5, <1>7, <2>1 DEF Accounted
    <3>2. w # v
      BY <1>1, <3>1 DEF busy
    <3>. QED
      BY <1>4, <3>1, <3>2 DEF busy
  <2>2. CASE ~(s < Frontier)
    <3>1. ~nothing
      <4>1. nothing => call.items <= Frontier
        BY ChunksCover DEF EngineInv, EngineTyped, Frontier, chunks
      <4>. QED
        BY <1>3, <2>0, <2>2, <4>1, SMT
    <3>2. chunk_end(next_chunk) = Smaller(call.items, Frontier + call.chunk)
      BY <1>1, SMTT(30) DEF EngineInv, EngineTyped, Frontier, chunk_end
    <3>3. s < chunk_end(next_chunk) /\ Frontier <= s
      BY <1>3, <1>7, <2>0, <2>2, <3>2, SMT DEF EngineInv, EngineTyped, Smaller
    <3>. QED
      BY <1>4, <3>1, <3>3 DEF busy, Hashing
  <2>. QED
    BY <2>1, <2>2
<1>8. Accounted'
  BY <1>1, <1>2, <1>5, <1>7 DEF Accounted
<1>. QED
  BY <1>6, <1>8

LEMMA EndHashes ==
  ASSUME EngineInv, Counted, Accounted, NEW v \in Worker, hash_slot(v)
  PROVE  Counted' /\ Accounted'
<1>. DEFINE i == position[v].i
            upto == position[v].end
<1>1. /\ busy(v) /\ stage # "aborted"
      /\ UNCHANGED <<call, stage, next_chunk, started, joined>>
      /\ writes' = [writes EXCEPT ![i] = @ + 1]
      /\ position' = [position EXCEPT ![v] = IF i + 1 < upto THEN Hashing(i + 1, upto) ELSE Claiming]
  BY DEF hash_slot, runs, busy
<1>2. Slot' = Slot /\ Frontier' = Frontier /\ chunks' = chunks
  BY <1>1 DEF Slot, Frontier, chunks
<1>3. stage \in {"starting", "joining"}
  BY <1>1, SMT DEF EngineInv, EngineTyped, ThreadsInOrder, Worker, busy
<1>4. /\ i \in Nat /\ upto \in Nat /\ i < upto /\ i \in Slot /\ writes[i] = 0
  <2>1. i \in Nat /\ upto \in Nat
    BY DEF EngineInv, EngineTyped, Position
  <2>2. i < upto /\ upto <= call.items
    BY <1>1 DEF EngineInv, Claimed
  <2>3. i \in Slot
    BY <2>1, <2>2, SMT DEF EngineInv, EngineTyped, Slot
  <2>. QED
    BY <1>1, <2>1, <2>2, <2>3, SMT DEF EngineInv, Claimed
<1>5. /\ \A w \in Worker : w # v => position'[w] = position[w]
      /\ position'[v] = IF i + 1 < upto THEN Hashing(i + 1, upto) ELSE Claiming
  BY <1>1 DEF EngineInv, EngineTyped
<1>6. writes'[i] = 1 /\ \A s \in Slot : s # i => writes'[s] = writes[s]
  BY <1>1, <1>3, <1>4 DEF EngineInv, EngineTyped
<1>7. Finished' = Finished
  BY <1>1, <1>5 DEF Finished, Hashing, Claiming, busy
<1>8. Counted'
  BY <1>1, <1>2, <1>7 DEF Counted
<1>9. ASSUME NEW s \in Slot, s < Frontier, writes'[s] # 1
      PROVE  \E w \in Worker : busy(w)' /\ position'[w].i <= s /\ s < position'[w].end
  <2>1. s # i /\ writes[s] # 1
    BY <1>6, <1>9
  <2>2. PICK w \in Worker : busy(w) /\ position[w].i <= s /\ s < position[w].end
    BY <1>3, <1>9, <2>1 DEF Accounted
  <2>3. CASE w # v
    BY <1>5, <2>2, <2>3 DEF busy
  <2>4. CASE w = v
    <3>1. i + 1 <= s /\ i + 1 < upto /\ s < upto
      BY <1>4, <2>1, <2>2, <2>4, SMT DEF EngineInv, EngineTyped, Slot
    <3>. QED
      BY <1>5, <2>4, <3>1 DEF busy, Hashing
  <2>. QED
    BY <2>3, <2>4
<1>10. Accounted'
  BY <1>1, <1>2, <1>3, <1>9 DEF Accounted
<1>. QED
  BY <1>8, <1>10

-----------------------------------------------------------------------------
(* The invariant through a whole call. *)

BatchInv == EngineInv /\ Counted /\ Accounted /\ request \in Requests

LEMMA BatchStarts == BatchInit => BatchInv
<1>. SUFFICES ASSUME BatchInit PROVE BatchInv
  OBVIOUS
<1>1. /\ call = NoCall /\ stage = "idle" /\ next_chunk = 0 /\ started = 0 /\ joined = 0
      /\ position = [w \in Worker |-> Absent] /\ request \in Requests
  BY DEF BatchInit, EngineInit
<1>2. EngineTyped
  BY <1>1, EngineBounds, SMT DEF EngineTyped, NoCall, Absent, Position, Worker
<1>3. ThreadsInOrder
  BY <1>1, EngineBounds, SMT DEF ThreadsInOrder, NoCall, Absent, Worker
<1>4. Claimed /\ Unclaimed /\ Apart
  BY <1>1 DEF Claimed, Unclaimed, Apart, busy, Absent
<1>5. EngineInv
  BY <1>2, <1>3, <1>4 DEF EngineInv
<1>6. Counted /\ Accounted
  <2>1. Finished = {}
    BY <1>1 DEF Finished, Absent
  <2>. QED
    BY <1>1, <1>5, <2>1, ChunksNumbered, FS_EmptySet, SMT DEF Counted, Accounted
<1>. QED
  BY <1>1, <1>5, <1>6 DEF BatchInv

LEMMA EngineUntouched ==
  ASSUME EngineInv, Counted, Accounted, UNCHANGED engineVars
  PROVE  EngineInv' /\ Counted' /\ Accounted'
<1>1. UNCHANGED <<call, stage, next_chunk, started, joined, position, writes>>
  BY DEF engineVars
<1>2. Slot' = Slot /\ Frontier' = Frontier /\ chunks' = chunks /\ Finished' = Finished
  BY <1>1 DEF Slot, Frontier, chunks, Finished
<1>3. EngineTyped' /\ ThreadsInOrder'
  BY <1>1, <1>2 DEF EngineInv, EngineTyped, ThreadsInOrder
<1>4. Claimed' /\ Unclaimed' /\ Apart'
  BY <1>1, <1>2 DEF EngineInv, Claimed, Unclaimed, Apart, busy
<1>5. Counted' /\ Accounted'
  BY <1>1, <1>2 DEF Counted, Accounted, busy
<1>. QED
  BY <1>3, <1>4, <1>5 DEF EngineInv

LEMMA BatchSteps == BatchInv /\ [BatchNext]_vars => BatchInv'
<1>. SUFFICES ASSUME BatchInv, [BatchNext]_vars PROVE BatchInv'
  OBVIOUS
<1>. USE DEF BatchInv
<1>1. request' \in Requests
  BY DEF BatchNext, one_call, batch_sha256, call_gpu, call_engine, engine_ends, gpu_route,
         opencl_step, opencl_fails, hash_on_cpu, engine_caller, engine_worker, device_changes,
         machine, batchVars, vars
<1>2. CASE batch_sha256
  <2>1. CASE sha256_parallel(request.items, engine_options)
    <3>1. request.items \in Nat /\ GoodOptions(engine_options)
      BY <1>2, EngineBounds, RequestsTyped, SMT DEF batch_sha256, engine_options, GoodOptions
    <3>. QED
      BY <1>1, <2>1, <3>1, EngineBegins, EndBegins
  <2>2. CASE UNCHANGED engineVars
    BY <1>1, <2>2, EngineUntouched
  <2>. QED
    BY <1>2, <2>1, <2>2 DEF batch_sha256
<1>3. CASE call_engine
  <2>1. request.items \in Nat /\ GoodOptions(request.options)
    BY <1>3, RequestsTyped DEF call_engine, GoodOptions
  <2>. QED
    BY <1>1, <1>3, <2>1, EngineBegins, EndBegins DEF call_engine
<1>4. CASE call_gpu \/ engine_ends \/ gpu_route \/ opencl_step \/ opencl_fails \/ hash_on_cpu
           \/ device_changes \/ UNCHANGED vars
  <2>1. UNCHANGED engineVars
    BY <1>4 DEF call_gpu, engine_ends, gpu_route, opencl_step, opencl_fails, hash_on_cpu,
                device_changes, vars
  <2>. QED
    BY <1>1, <2>1, EngineUntouched
<1>5. CASE engine_caller
  BY <1>1, <1>5, HashesAlone, StartsAndJoins, EndAlone, EndStartsAndJoins DEF engine_caller, caller
<1>6. CASE \E w \in Worker : engine_worker(w)
  BY <1>1, <1>6, Claims, HashesSlot, EndClaims, EndHashes DEF engine_worker, worker
<1>. QED
  BY <1>2, <1>3, <1>4, <1>5, <1>6 DEF BatchNext, one_call

LEMMA BatchInvariant == BatchSpec => []BatchInv
<1>1. BatchSpec => BatchInit /\ [][BatchNext]_vars
  BY PTL DEF BatchSpec
<1>. QED
  BY <1>1, BatchStarts, BatchSteps, PTL

\* For any number of workers, messages and any size of a chunk: no two workers are ever
\* about to write the same slot, and none one that has been written (throughput.cpp:94-98).
THEOREM SlotsAreWrittenOnce == BatchSpec => []NoSlotShared
<1>1. ASSUME BatchInv PROVE NoSlotShared
  <2>1. \A w \in Worker : position[w].i \in Nat /\ position[w].end \in Nat
    BY <1>1 DEF BatchInv, EngineInv, EngineTyped, Position
  <2>2. ASSUME NEW v \in Worker, NEW w \in Worker, v # w, busy(v), busy(w)
        PROVE  (position[v].i)..(position[v].end - 1) \cap (position[w].i)..(position[w].end - 1) = {}
    <3>1. position[v].end <= position[w].i \/ position[w].end <= position[v].i
      BY <1>1, <2>2 DEF BatchInv, EngineInv, Apart
    <3>. QED
      BY <2>1, <3>1, SMT
  <2>3. ASSUME NEW w \in Worker, busy(w), NEW i \in (position[w].i)..(position[w].end - 1)
        PROVE  writes[i] = 0
    <3>1. position[w].end <= call.items /\ call.items \in Nat
      BY <1>1, <2>3 DEF BatchInv, EngineInv, EngineTyped, Claimed
    <3>2. i \in Slot /\ position[w].i <= i /\ i < position[w].end
      BY <2>1, <3>1, SMT DEF Slot
    <3>. QED
      BY <1>1, <2>3, <3>2 DEF BatchInv, EngineInv, Claimed
  <2>. QED
    BY <2>2, <2>3 DEF NoSlotShared, busy
<1>. QED
  BY <1>1, BatchInvariant, PTL

\* Whichever way the call ends, and also when threads could not be started: when it has
\* returned or thrown, no worker runs that refers to its locals (throughput.cpp:88-102).
THEOREM NoWorkerIsLeftBehind == BatchSpec => []NoWorkerOutlivesCall
<1>1. ASSUME BatchInv, stage \in {"returned", "thrown"}, NEW w \in Worker
      PROVE  position[w].at \in {"absent", "done"}
  <2>1. joined = started
    BY <1>1, SMT DEF BatchInv, EngineInv, EngineTyped, ThreadsInOrder
  <2>. QED
    BY <1>1, <2>1 DEF BatchInv, EngineInv, ThreadsInOrder
<1>2. BatchInv => NoWorkerOutlivesCall
  BY <1>1 DEF NoWorkerOutlivesCall
<1>. QED
  BY <1>2, BatchInvariant, PTL

-----------------------------------------------------------------------------
(* Which way the call goes, and what it answers. *)

\* The engine runs exactly while the call waits for it, on the messages of the request.
CallMatches ==
  /\ call.route \in {"none", "empty", "single", "parallel"}
  /\ stage # "idle" => call.items = request.items
  /\ at = "engine" <=> stage # "idle" /\ at # "over"
  /\ at = "over" => stage \in {"idle", "returned", "thrown"}

\* OpenCL runs only for a batch routed to it, which batch::sha256 also selected; the loop
\* of the CPU has a route to a device only in a build with CUDA.
RouteFollows ==
  /\ build \in Builds /\ device \in BOOLEAN
  /\ at \in {"called", "engine", "routing", "opencl", "cpu", "over"}
  /\ selected \in {"none", "cuda", "opencl", "cpu_native", "cpu_generic", "avx2", "avx512", "neon"}
  /\ route \in [backend : {"cpu_fallback", "cuda", "opencl"}, candidate : BOOLEAN]
  /\ at = "opencl" => /\ route.backend = "opencl" /\ route.candidate
                      /\ request.api = "batch" => selected = "opencl"
  /\ at = "cpu" /\ route.backend # "cpu_fallback" => build.cuda
  /\ faults \in BOOLEAN

StepsCounted ==
  /\ step \in 0..Len(OpenClStep) /\ (at = "opencl" => step < Len(OpenClStep))
  /\ at \in {"called", "routing"} => step = 0
  /\ changes \in 0..MaxChanges

AnswerMatches ==
  /\ result.outcome \in {"pending", "ok", "error", "thrown"}
  /\ result.outcome = "pending" <=> at # "over"
  /\ ok /\ result.by = "threads" => stage = "returned"
  /\ ReportTruthful

\* While neither device nor driver fails, a strict batch keeps the backend it was checked for.
Strict == request.api = "batch" /\ request.strict /\ request.items > 0 /\ changes = 0 /\ ~faults

StrictKept ==
  Strict =>
    /\ at # "engine"
    /\ at = "routing" => /\ on_gpu(selected) /\ backend_runtime_available(selected)
                         /\ request.items >= request.min_items
    /\ at = "opencl" => device
    /\ at = "cpu" => route.backend # "cpu_fallback"
    /\ ok /\ ~build.cuda => result.by = "kernel"

RouteInv == CallMatches /\ RouteFollows /\ StepsCounted /\ AnswerMatches /\ StrictKept

LEMMA TwelveSteps == Len(OpenClStep) = 12
BY DEF OpenClStep

LEMMA RouteStarts == BatchInit => RouteInv
<1>. SUFFICES ASSUME BatchInit PROVE RouteInv
  OBVIOUS
<1>1. /\ call = NoCall /\ stage = "idle" /\ build \in Builds /\ device \in BOOLEAN
      /\ at = "called" /\ selected = "none" /\ route = NoRoute /\ step = 0
      /\ result = Pending /\ changes = 0 /\ faults = FALSE
  BY DEF BatchInit, EngineInit
<1>2. MaxChanges \in Nat
  BY BatchBounds
<1>3. CallMatches
  BY <1>1 DEF CallMatches, NoCall
<1>4. RouteFollows
  BY <1>1 DEF RouteFollows, NoRoute
<1>6. StepsCounted
  BY <1>1, <1>2, TwelveSteps, SMT DEF StepsCounted
<1>5. AnswerMatches /\ StrictKept
  BY <1>1 DEF AnswerMatches, StrictKept, Pending, ReportTruthful, ok
<1>. QED
  BY <1>3, <1>4, <1>5, <1>6 DEF RouteInv

\* Threads that run leave the rest of the call alone, and none runs once it is over.
LEMMA EngineMoves ==
  ASSUME BatchInv, engine_caller \/ \E w \in Worker : engine_worker(w)
  PROVE  /\ UNCHANGED batchVars /\ UNCHANGED call
         /\ stage \in {"alone", "starting", "joining"}
         /\ stage' \in {"alone", "starting", "joining", "returned", "thrown", "aborted"}
<1>1. CASE engine_caller
  BY <1>1 DEF engine_caller, caller, hash_alone, start_worker, start_fails, all_started, join, return
<1>2. CASE \E w \in Worker : engine_worker(w)
  <2>1. PICK w \in Worker : engine_worker(w)
    BY <1>2
  <2>2. /\ UNCHANGED batchVars /\ UNCHANGED <<call, stage>>
        /\ stage # "aborted" /\ position[w].at \in {"claiming", "hashing"}
    BY <2>1 DEF engine_worker, worker, claim, hash_slot, runs
  <2>3. w <= started /\ ~(w <= joined)
    BY <2>2 DEF BatchInv, EngineInv, ThreadsInOrder
  <2>4. stage \in {"starting", "joining"}
    BY <2>2, <2>3, SMT DEF BatchInv, EngineInv, EngineTyped, ThreadsInOrder, Worker
  <2>. QED
    BY <2>2, <2>4
<1>. QED
  BY <1>1, <1>2

LEMMA RouteUntouched ==
  ASSUME RouteInv, UNCHANGED batchVars, UNCHANGED call,
         \/ UNCHANGED stage
         \/ /\ stage \in {"alone", "starting", "joining"}
            /\ stage' \in {"alone", "starting", "joining", "returned", "thrown", "aborted"}
  PROVE  RouteInv'
<1>1. UNCHANGED <<build, device, request, at, selected, route, step, result, changes, faults>>
  BY DEF batchVars
<1>2. CallMatches'
  BY <1>1 DEF RouteInv, CallMatches
<1>3. RouteFollows' /\ StepsCounted'
  BY <1>1 DEF RouteInv, RouteFollows, StepsCounted
<1>4. AnswerMatches'
  BY <1>1 DEF RouteInv, AnswerMatches, ReportTruthful, ok
<1>5. StrictKept'
  BY <1>1 DEF RouteInv, StrictKept, Strict, ok, on_gpu, backend_runtime_available,
              opencl_runtime_available
<1>. QED
  BY <1>2, <1>3, <1>4, <1>5 DEF RouteInv

\* The dispatcher names a device only where there is one.
LEMMA Selects ==
  LET b == select_batch_backend(request)
  IN /\ b \in {"cuda", "opencl", "cpu_native", "cpu_generic", "avx2", "avx512", "neon"}
     /\ on_gpu(b) => backend_runtime_available(b) /\ request.items >= request.min_items
<1>1. /\ selected_hash_backend \in {"cpu_native", "cpu_generic", "avx2", "avx512", "neon"}
      /\ ~on_gpu(selected_hash_backend)
  BY DEF selected_hash_backend, sha256_backend, on_gpu
<1>. QED
  BY <1>1 DEF select_batch_backend, status_backend, runtime_available, backend_runtime_available

LEMMA Called ==
  ASSUME BatchInv, RouteInv, batch_sha256 \/ call_gpu \/ call_engine
  PROVE  RouteInv'
<1>1. /\ at = "called" /\ stage = "idle"
      /\ UNCHANGED <<build, device, request, changes, route, step, faults>>
  BY DEF RouteInv, CallMatches, batch_sha256, call_gpu, call_engine, machine
<1>2. CASE batch_sha256
  <2>. DEFINE b == select_batch_backend(request)
  <2>1. /\ selected' = b /\ request.api = "batch"
        /\ \/ /\ strict_refused(b) /\ end("error", "nobody", "none", FALSE) /\ UNCHANGED engineVars
           \/ /\ ~strict_refused(b) /\ for_engine(b)
              /\ sha256_parallel(request.items, engine_options)
              /\ at' = "engine" /\ UNCHANGED result
           \/ /\ ~strict_refused(b) /\ ~for_engine(b)
              /\ at' = "routing" /\ UNCHANGED <<engineVars, result>>
    BY <1>2 DEF batch_sha256
  <2>2. CallMatches'
    BY <1>1, <2>1 DEF RouteInv, CallMatches, sha256_parallel, engineVars, end
  <2>3. RouteFollows' /\ StepsCounted'
    BY <1>1, <2>1, Selects DEF RouteInv, RouteFollows, StepsCounted, end
  <2>4. AnswerMatches'
    BY <1>1, <2>1 DEF RouteInv, AnswerMatches, ReportTruthful, ok, end
  <2>5. StrictKept'
    BY <1>1, <2>1, Selects DEF RouteInv, AnswerMatches, StrictKept, Strict, strict_refused, for_engine, ok, end,
                      on_gpu, backend_runtime_available, opencl_runtime_available
  <2>. QED
    BY <2>2, <2>3, <2>4, <2>5 DEF RouteInv
<1>3. CASE call_gpu \/ call_engine
  <2>1. /\ UNCHANGED <<selected, result>> /\ request.api # "batch"
        /\ \/ at' = "routing" /\ request.api = "gpu" /\ UNCHANGED engineVars
           \/ at' = "engine" /\ request.api = "engine" /\ sha256_parallel(request.items, request.options)
    BY <1>3 DEF call_gpu, call_engine
  <2>2. CallMatches'
    BY <1>1, <2>1 DEF RouteInv, CallMatches, sha256_parallel, engineVars
  <2>3. RouteFollows' /\ StepsCounted'
    BY <1>1, <2>1 DEF RouteInv, RouteFollows, StepsCounted
  <2>4. AnswerMatches'
    BY <1>1, <2>1 DEF RouteInv, AnswerMatches, ReportTruthful, ok
  <2>5. StrictKept'
    BY <1>1, <2>1 DEF StrictKept, Strict
  <2>. QED
    BY <2>2, <2>3, <2>4, <2>5 DEF RouteInv
<1>. QED
  BY <1>2, <1>3

LEMMA Routed ==
  ASSUME BatchInv, RouteInv, gpu_route
  PROVE  RouteInv'
<1>. DEFINE o == gpu_options
            d == route_for_batch(o)
<1>1. /\ at = "routing" /\ route' = d
      /\ IF d.backend = "cpu_fallback" /\ ~o.fallback /\ d.candidate
         THEN end("error", "nobody", "none", FALSE)
         ELSE at' = (IF d.backend = "opencl" THEN "opencl" ELSE "cpu") /\ UNCHANGED result
      /\ UNCHANGED <<engineVars, build, device, request, changes, selected, step, faults>>
  BY DEF gpu_route, machine
<1>2. /\ d \in [backend : {"cpu_fallback", "cuda", "opencl"}, candidate : BOOLEAN]
      /\ d.backend # "cpu_fallback" => /\ d.candidate /\ d.backend = o.preferred
                                       /\ d.backend = "cuda" => build.cuda
                                       /\ d.backend = "opencl" => device
  BY DEF route_for_batch, backend_runtime_available, opencl_runtime_available
<1>3. request.api = "batch" => o.preferred = IF on_gpu(selected) THEN selected ELSE "cpu_fallback"
  BY DEF gpu_options
<1>4. CallMatches'
  BY <1>1 DEF RouteInv, CallMatches, engineVars, end
<1>5. RouteFollows'
  <2>1. at' = "opencl" => (request'.api = "batch" => selected' = "opencl")
    BY <1>1, <1>2, <1>3 DEF on_gpu, end
  <2>. QED
    BY <1>1, <1>2, <2>1 DEF RouteInv, RouteFollows, end
<1>6. AnswerMatches'
  BY <1>1 DEF RouteInv, AnswerMatches, ReportTruthful, ok, end
<1>8. StepsCounted'
  <2>1. step' = 0 /\ step = 0 /\ UNCHANGED changes
    BY <1>1 DEF RouteInv, StepsCounted
  <2>. QED
    BY <2>1, TwelveSteps, SMT DEF RouteInv, StepsCounted
<1>7. StrictKept'
  <2>. SUFFICES ASSUME Strict' PROVE StrictKept'
    BY DEF StrictKept
  <2>1. Strict /\ on_gpu(selected) /\ backend_runtime_available(selected) /\ request.items >= request.min_items
    BY <1>1 DEF RouteInv, StrictKept, Strict
  <2>2. o.preferred = selected /\ o.min_items = request.min_items /\ request.api = "batch"
    BY <2>1 DEF gpu_options, Strict
  <2>3. d.backend = selected /\ selected \in {"cuda", "opencl"}
    BY <2>1, <2>2 DEF route_for_batch, on_gpu
  <2>. QED
    BY <1>1, <1>2, <2>3 DEF RouteInv, AnswerMatches, StrictKept, ok, end
<1>. QED
  BY <1>4, <1>5, <1>6, <1>7, <1>8 DEF RouteInv

LEMMA DeviceHashes ==
  ASSUME BatchInv, RouteInv, opencl_step \/ opencl_fails
  PROVE  RouteInv'
<1>1. /\ at = "opencl" /\ route.backend = "opencl" /\ route.candidate
      /\ UNCHANGED <<engineVars, build, device, request, changes, selected>>
      /\ request.api = "batch" => selected = "opencl"
  BY DEF RouteInv, RouteFollows, opencl_step, opencl_fails, machine
<1>0. step \in 0..11 /\ Len(OpenClStep) = 12
  BY <1>1, TwelveSteps, SMT DEF RouteInv, StepsCounted
<1>2. CASE opencl_step
  <2>1. /\ step' = step + 1 /\ UNCHANGED <<route, faults>>
        /\ IF step' = 12
           THEN end("ok", "kernel", IF request.api = "batch" THEN selected ELSE "opencl", TRUE)
           ELSE UNCHANGED <<at, result>>
    BY <1>0, <1>2 DEF opencl_step
  <2>2. CallMatches'
    BY <1>1, <2>1 DEF RouteInv, CallMatches, engineVars, end
  <2>3. RouteFollows'
    BY <1>1, <2>1 DEF RouteInv, RouteFollows, end
  <2>6. StepsCounted'
    BY <1>0, <1>1, <2>1, SMT DEF RouteInv, StepsCounted, end
  <2>4. AnswerMatches'
    BY <1>1, <2>1 DEF RouteInv, AnswerMatches, ReportTruthful, ok, end, engineVars
  <2>5. StrictKept'
    BY <1>1, <2>1 DEF RouteInv, AnswerMatches, StrictKept, Strict, ok, end
  <2>. QED
    BY <2>2, <2>3, <2>4, <2>5, <2>6 DEF RouteInv
<1>3. CASE opencl_fails
  <2>1. /\ step' = 0 /\ faults' = (faults \/ can_succeed(OpenClStep[step + 1]))
        /\ \/ at' = "cpu" /\ route' = [route EXCEPT !.backend = "cpu_fallback"] /\ UNCHANGED result
           \/ end("error", "nobody", "none", FALSE) /\ UNCHANGED route
    BY <1>3 DEF opencl_fails, fall_back
  <2>2. CallMatches'
    BY <1>1, <2>1 DEF RouteInv, CallMatches, engineVars, end
  <2>3. RouteFollows'
    BY <1>1, <2>1 DEF RouteInv, RouteFollows, end
  <2>6. StepsCounted'
    BY <1>0, <1>1, <2>1, SMT DEF RouteInv, StepsCounted, end
  <2>4. AnswerMatches'
    BY <1>1, <2>1 DEF RouteInv, AnswerMatches, ReportTruthful, ok, end
  <2>5. ~Strict'
    <3>1. Strict => can_succeed(OpenClStep[step + 1])
      BY <1>1 DEF RouteInv, StrictKept, can_succeed, Strict
    <3>. QED
      BY <1>1, <2>1, <3>1 DEF Strict
  <2>. QED
    BY <2>2, <2>3, <2>4, <2>5, <2>6 DEF RouteInv, StrictKept
<1>. QED
  BY <1>2, <1>3

LEMMA Answers ==
  ASSUME BatchInv, RouteInv, engine_ends \/ hash_on_cpu
  PROVE  RouteInv'
<1>1. UNCHANGED <<engineVars, build, device, request, changes, selected, route, step, faults>>
  BY DEF engine_ends, hash_on_cpu, machine
<1>2. CASE engine_ends
  <2>1. /\ at = "engine"
        /\ \/ stage = "returned" /\ end("ok", "threads", "cpu_native", call.route = "parallel")
           \/ stage = "thrown" /\ end("thrown", "nobody", "none", FALSE)
    BY <1>2 DEF engine_ends
  <2>2. CallMatches'
    BY <1>1, <2>1 DEF RouteInv, CallMatches, engineVars, end
  <2>3. RouteFollows' /\ StepsCounted'
    BY <1>1, <2>1 DEF RouteInv, RouteFollows, StepsCounted, end
  <2>4. AnswerMatches'
    BY <1>1, <2>1 DEF AnswerMatches, ReportTruthful, ok, end, engineVars
  <2>5. ~Strict'
    BY <1>1, <2>1 DEF RouteInv, StrictKept, Strict
  <2>. QED
    BY <2>2, <2>3, <2>4, <2>5 DEF RouteInv, StrictKept
<1>3. CASE hash_on_cpu
  <2>. DEFINE accelerated == route.backend # "cpu_fallback"
  <2>1. at = "cpu" /\ end("ok", "cpu", cpu_backend(accelerated), accelerated)
    BY <1>3 DEF hash_on_cpu
  <2>2. CallMatches'
    BY <1>1, <2>1 DEF RouteInv, CallMatches, engineVars, end
  <2>3. RouteFollows' /\ StepsCounted'
    BY <1>1, <2>1 DEF RouteInv, RouteFollows, StepsCounted, end
  <2>4. ~build.cuda => ~accelerated /\ cpu_backend(accelerated) # "opencl"
    BY <2>1 DEF RouteInv, RouteFollows, cpu_backend
  <2>5. AnswerMatches'
    BY <1>1, <2>1, <2>4 DEF AnswerMatches, ReportTruthful, ok, end
  <2>6. StrictKept'
    <3>1. Strict => accelerated /\ build.cuda
      BY <2>1, <2>4 DEF RouteInv, StrictKept
    <3>. QED
      BY <1>1, <2>1, <3>1 DEF StrictKept, Strict, ok, end
  <2>. QED
    BY <2>2, <2>3, <2>5, <2>6 DEF RouteInv
<1>. QED
  BY <1>2, <1>3

LEMMA DeviceChanges ==
  ASSUME RouteInv, device_changes
  PROVE  RouteInv'
<1>1. /\ at # "over" /\ changes < MaxChanges
      /\ device' = ~device /\ changes' = changes + 1
      /\ UNCHANGED <<engineVars, build, request, at, selected, route, step, result, faults>>
  BY DEF device_changes
<1>2. CallMatches'
  BY <1>1 DEF RouteInv, CallMatches, engineVars
<1>3. RouteFollows'
  BY <1>1 DEF RouteInv, RouteFollows
<1>6. StepsCounted'
  BY <1>1, BatchBounds, SMT DEF RouteInv, StepsCounted
<1>4. AnswerMatches'
  BY <1>1 DEF RouteInv, AnswerMatches, ReportTruthful, ok, engineVars
<1>5. ~Strict'
  BY <1>1, BatchBounds, SMT DEF RouteInv, StepsCounted, Strict
<1>. QED
  BY <1>2, <1>3, <1>4, <1>5, <1>6 DEF RouteInv, StrictKept

LEMMA RouteSteps == BatchInv /\ RouteInv /\ [BatchNext]_vars => RouteInv'
<1>. SUFFICES ASSUME BatchInv, RouteInv, [BatchNext]_vars PROVE RouteInv'
  OBVIOUS
<1>1. CASE one_call
  BY <1>1, Called, Routed, DeviceHashes, Answers DEF one_call
<1>2. CASE engine_caller \/ \E w \in Worker : engine_worker(w)
  BY <1>2, EngineMoves, RouteUntouched
<1>3. CASE device_changes
  BY <1>3, DeviceChanges
<1>4. CASE UNCHANGED vars
  BY <1>4, RouteUntouched DEF vars, engineVars
<1>. QED
  BY <1>1, <1>2, <1>3, <1>4 DEF BatchNext

LEMMA RouteInvariant == BatchSpec => [](BatchInv /\ RouteInv)
<1>1. BatchSpec => BatchInit /\ [][BatchNext]_vars
  BY PTL DEF BatchSpec
<1>. QED
  BY <1>1, BatchStarts, BatchSteps, RouteStarts, RouteSteps, PTL

\* Every counter stays in its range, the shared one too, and a call waits for the engine
\* exactly while its threads work (throughput.cpp:58-104, batch.cpp:15-54).
THEOREM BatchTyped == BatchSpec => []BatchTypeOK
<1>1. ASSUME BatchInv, RouteInv PROVE EngineTypeOK
  <2>1. /\ call.items \in Nat /\ call.chunk \in Nat \ {0} /\ call.workers \in Worker
        /\ call.route \in {"none", "empty", "single", "parallel"}
        /\ stage \in {"idle", "alone", "starting", "joining", "returned", "thrown", "aborted"}
    BY <1>1 DEF BatchInv, EngineInv, EngineTyped, RouteInv, CallMatches
  <2>2. next_chunk \in 0..(chunks + call.workers)
    <3>1. next_chunk <= chunks + Cardinality(Finished) /\ next_chunk \in Nat /\ call.workers \in Nat
      BY <1>1, <2>1, SMT DEF BatchInv, EngineInv, EngineTyped, Counted, Worker
    <3>2. Cardinality(Finished) \in Nat /\ Cardinality(Finished) <= call.workers /\ chunks \in Nat
      BY <1>1, FinishedFinite, ChunksNumbered DEF BatchInv
    <3>. QED
      BY <3>1, <3>2, SMT
  <2>3. started \in 0..call.workers /\ joined \in 0..started
    BY <1>1, <2>1, SMT DEF BatchInv, EngineInv, EngineTyped, ThreadsInOrder, Worker
  <2>4. \A w \in Worker : /\ position[w].at \in {"absent", "claiming", "hashing", "done"}
                          /\ position[w].at # "absent" <=> w <= started
    BY <1>1 DEF BatchInv, EngineInv, EngineTyped, ThreadsInOrder, Position
  <2>5. ASSUME NEW w \in Worker, position[w].at = "hashing"
        PROVE  position[w].i \in Slot /\ position[w].end \in (position[w].i + 1)..call.items
    <3>1. position[w].i \in Nat /\ position[w].end \in Nat
      BY <1>1 DEF BatchInv, EngineInv, EngineTyped, Position
    <3>2. position[w].i < position[w].end /\ position[w].end <= call.items
      BY <1>1, <2>5 DEF BatchInv, EngineInv, Claimed, busy
    <3>. QED
      BY <2>1, <3>1, <3>2, SMT DEF Slot
  <2>. QED
    BY <2>1, <2>2, <2>3, <2>4, <2>5 DEF EngineTypeOK
<1>2. BatchInv /\ RouteInv => BatchTypeOK
  BY <1>1 DEF BatchTypeOK, BatchInv, RouteInv, CallMatches, RouteFollows, StepsCounted, AnswerMatches
<1>. QED
  BY <1>2, RouteInvariant, PTL

\* Whatever fails on the way, a report names what computed the digests (gpu.cpp:398-418).
THEOREM ReportsAreTrue == BatchSpec => []ReportTruthful
<1>1. RouteInv => ReportTruthful
  BY DEF RouteInv, AnswerMatches
<1>. QED
  BY <1>1, RouteInvariant, PTL

\* For any thresholds of request and router: in a build without CUDA, the kernel of the device
\* hashes every strict batch that succeeds while device and driver work (batch.cpp:18-27,
\* gpu.cpp:357).
THEOREM StrictMeansAccelerated == BatchSpec => []StrictIsAccelerated
<1>1. RouteInv => StrictIsAccelerated
  BY DEF RouteInv, StrictKept, Strict, StrictIsAccelerated
<1>. QED
  BY <1>1, RouteInvariant, PTL

-----------------------------------------------------------------------------
(* The call keeps the promise of HashCall, its end excepted. *)

LEMMA NothingSeen == ~ok => Digests = Promise!None
BY DEF Digests, Promise!None

LEMMA AllSeen == BatchInv /\ RouteInv /\ ok => Digests = Promise!Every
<1>. SUFFICES ASSUME BatchInv, RouteInv, ok PROVE Digests = Promise!Every
  OBVIOUS
<1>1. CASE result.by = "threads"
  <2>1. stage = "returned" /\ call.items = request.items
    BY <1>1 DEF RouteInv, AnswerMatches, CallMatches
  <2>2. \A i \in 0..(request.items - 1) : writes[i] = 1
    BY <2>1 DEF BatchInv, Accounted, Slot
  <2>. QED
    BY <1>1, <2>2 DEF Digests, Promise!Every
<1>2. CASE result.by # "threads"
  BY <1>2 DEF Digests, Promise!Every
<1>. QED
  BY <1>1, <1>2

\* When a call is over, or its process, nothing moves that anybody sees.
LEMMA OverIsOver ==
  ASSUME BatchInv, RouteInv, [BatchNext]_vars, at = "over" \/ stage = "aborted"
  PROVE  UNCHANGED <<request, result, at, stage>>
<1>1. stage = "aborted" => at = "engine"
  BY DEF RouteInv, CallMatches
<1>2. at = "over" => stage \notin {"alone", "starting", "joining"}
  BY DEF RouteInv, CallMatches
<1>3. CASE one_call
  BY <1>1, <1>3 DEF one_call, batch_sha256, call_gpu, call_engine, engine_ends, gpu_route,
                    opencl_step, opencl_fails, hash_on_cpu
<1>4. CASE engine_caller \/ \E w \in Worker : engine_worker(w)
  BY <1>2, <1>4, EngineMoves
<1>5. CASE device_changes \/ UNCHANGED vars
  BY <1>5 DEF device_changes, vars, engineVars, batchVars
<1>. QED
  BY <1>3, <1>4, <1>5 DEF BatchNext

LEMMA PromiseStep ==
  ASSUME BatchInv, RouteInv, BatchInv', RouteInv', [BatchNext]_vars
  PROVE  [Promise!End]_<<request.items, Digests, Outcome>>
<1>1. request' = request
  BY DEF BatchNext, one_call, batch_sha256, call_gpu, call_engine, engine_ends, gpu_route,
         opencl_step, opencl_fails, hash_on_cpu, engine_caller, engine_worker, device_changes,
         machine, batchVars, vars
<1>2. Promise!None' = Promise!None /\ Promise!Every' = Promise!Every
  BY <1>1 DEF Promise!None, Promise!Every
<1>3. (ok => Digests = Promise!Every) /\ (ok' => Digests' = Promise!Every)
  <2>1. (BatchInv /\ RouteInv /\ ok => Digests = Promise!Every)'
    BY AllSeen, PTL
  <2>. QED
    BY <1>2, <2>1, AllSeen
<1>4. (~ok => Digests = Promise!None) /\ (~ok' => Digests' = Promise!None)
  <2>1. (~ok => Digests = Promise!None)'
    BY NothingSeen, PTL
  <2>. QED
    BY <1>2, <2>1, NothingSeen
<1>5. CASE at = "over" \/ stage = "aborted"
  <2>1. UNCHANGED <<result, stage>> /\ ok' = ok
    BY <1>5, OverIsOver DEF ok
  <2>2. Digests' = Digests /\ Outcome' = Outcome
    BY <1>3, <1>4, <2>1 DEF Outcome
  <2>. QED
    BY <1>1, <2>2
<1>6. CASE at # "over" /\ stage # "aborted"
  <2>1. Outcome = "pending" /\ ~ok
    BY <1>6 DEF RouteInv, AnswerMatches, Outcome, ok
  <2>2. CASE ok'
    <3>1. stage' # "aborted"
      BY <2>2 DEF RouteInv, AnswerMatches, CallMatches, ok
    <3>2. Outcome' = "ok" /\ Digests' = Promise!Every
      BY <1>3, <2>2, <3>1 DEF Outcome, ok
    <3>. QED
      BY <1>1, <2>1, <3>2 DEF Promise!End
  <2>3. CASE ~ok'
    <3>1. Digests' = Digests
      BY <1>4, <2>1, <2>3
    <3>2. Outcome' \in {"pending", "error", "thrown", "died"}
      BY <2>3 DEF RouteInv, AnswerMatches, Outcome, ok
    <3>. QED
      BY <1>1, <2>1, <3>1, <3>2 DEF Promise!End
  <2>. QED
    BY <2>2, <2>3
<1>. QED
  BY <1>5, <1>6

\* The safety of ImplementsHashCall, for any number of threads, messages and failures: the
\* application sees no digest before the call ends, and then every digest once or none.
THEOREM CallKeepsPromise ==
  BatchSpec => Promise!Init /\ [][Promise!End]_<<request.items, Digests, Outcome>>
<1>1. ASSUME BatchInit PROVE Promise!Init
  <2>1. request.items \in Nat /\ Outcome = "pending" /\ ~ok
    BY <1>1, RequestsTyped DEF BatchInit, EngineInit, Outcome, ok, Pending
  <2>. QED
    BY <2>1, NothingSeen DEF Promise!Init, Outcome, Digests
<1>2. BatchSpec => BatchInit /\ [][BatchNext]_vars
  BY PTL DEF BatchSpec
<1>. QED
  BY <1>1, <1>2, RouteInvariant, PromiseStep, PTL

=============================================================================
