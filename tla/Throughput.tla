----------------------------- MODULE Throughput -----------------------------
(***************************************************************************)
(* The throughput engine (src/runtime/throughput.cpp:11-104): a caller that   *)
(* starts worker threads, the workers that claim chunks of the batch from a  *)
(* shared counter and write digests into one vector, and the caller's joins. *)
(*                                                                         *)
(* Abstracted: a message is its index; a digest is the fact that its slot was *)
(* written, and `writes' counts how often.  Reports keep what the caller     *)
(* decides by: the workers, the chunks and the route.                        *)
(***************************************************************************)
EXTENDS Integers, FiniteSets

CONSTANTS
  Cores,          \* what std::thread::hardware_concurrency returns, 0 where unknown
  MaxWorkers,     \* bound: threads a call may start
  DefaultChunk    \* target_chunk_items where the options leave it at 0 (256)

ASSUME EngineBounds ==
  /\ Cores \in Nat /\ MaxWorkers \in Nat \ {0} /\ DefaultChunk \in Nat \ {0}
  /\ Cores <= MaxWorkers

Worker == 1..MaxWorkers

VARIABLES
  call,           \* what the caller was asked, and what it decided
  stage,          \* where the caller is
  next_chunk,     \* the counter the workers share
  started,        \* the threads started so far are 1..started
  joined,         \* and those joined are 1..joined
  position,       \* each worker's loop: the slots still to write, or where it is
  writes          \* history variable: how often each slot has been written

engineVars == <<call, stage, next_chunk, started, joined, position, writes>>

Absent == [at |-> "absent", i |-> 0, end |-> 0]
Claiming == [at |-> "claiming", i |-> 0, end |-> 0]
Done == [at |-> "done", i |-> 0, end |-> 0]
Hashing(i, end) == [at |-> "hashing", i |-> i, end |-> end]

NoCall == [items |-> 0, chunk |-> 1, workers |-> 1, route |-> "none"]
Slot == 0..(call.items - 1)

Smaller(a, b) == IF a < b THEN a ELSE b
Larger(a, b) == IF a < b THEN b ELSE a

-----------------------------------------------------------------------------
safe_thread_count == IF Cores = 0 THEN 1 ELSE Cores

selected_worker_count(options, items) ==
  IF ~options.enable_parallel \/ items < options.min_parallel_items THEN 1
  ELSE Larger(1, Smaller(items, IF options.worker_count = 0 THEN safe_thread_count
                                ELSE options.worker_count))

normalized_chunk(options) ==
  IF options.target_chunk_items = 0 THEN DefaultChunk ELSE options.target_chunk_items

chunks == (call.items + call.chunk - 1) \div call.chunk

EngineInit ==
  /\ call = NoCall /\ stage = "idle" /\ next_chunk = 0
  /\ started = 0 /\ joined = 0
  /\ position = [w \in Worker |-> Absent]
  /\ writes = << >>

\* sha256_parallel up to the choice between one thread and many.
sha256_parallel(items, options) ==
  LET workers == selected_worker_count(options, items)
  IN /\ stage = "idle"
     /\ call' = [items |-> items, chunk |-> normalized_chunk(options), workers |-> workers,
                 route |-> IF items = 0 THEN "empty"
                           ELSE IF workers > 1 THEN "parallel" ELSE "single"]
     /\ stage' = IF items = 0 THEN "returned"
                 ELSE IF workers > 1 THEN "starting" ELSE "alone"
     /\ writes' = [i \in 0..(items - 1) |-> 0]
     /\ UNCHANGED <<next_chunk, started, joined, position>>

\* One worker: the caller's own loop.
hash_alone ==
  /\ stage = "alone"
  /\ writes' = [i \in Slot |-> writes[i] + 1]
  /\ stage' = "returned"
  /\ UNCHANGED <<call, next_chunk, started, joined, position>>

start_worker ==
  /\ stage = "starting" /\ started < call.workers
  /\ started' = started + 1
  /\ position' = [position EXCEPT ![started + 1] = Claiming]
  /\ UNCHANGED <<call, stage, next_chunk, joined, writes>>

\* The system starts no more threads.  The exception leaves sha256_parallel only when no
\* thread is joinable yet: destroying a joinable thread ends the process.
start_fails_quietly ==   \* mutant: as if the threads that run were detached
  /\ stage = "starting" /\ started < call.workers
  /\ stage' = "thrown"
  /\ UNCHANGED <<call, next_chunk, started, joined, position, writes>>

start_fails ==
  /\ stage = "starting" /\ started < call.workers
  /\ stage' = IF started = 0 THEN "thrown" ELSE "aborted"
  /\ UNCHANGED <<call, next_chunk, started, joined, position, writes>>

all_started ==
  /\ stage = "starting" /\ started = call.workers
  /\ stage' = "joining"
  /\ UNCHANGED <<call, next_chunk, started, joined, position, writes>>

\* The slots of chunk c: from the first, up to but without the last.
chunk_end_included(c) == Smaller(call.items, (c + 1) * call.chunk + 1)   \* mutant
chunk_end_unbounded(c) == (c + 1) * call.chunk   \* mutant: the last chunk is taken as full
chunk_end(c) == Smaller(call.items, (c + 1) * call.chunk)

runs(w) == stage # "aborted" /\ position[w].at # "absent"

claim(w) ==
  /\ runs(w) /\ position[w].at = "claiming"
  /\ next_chunk' = next_chunk + 1
  /\ position' = [position EXCEPT ![w] =
       IF next_chunk >= chunks THEN Done ELSE Hashing(next_chunk * call.chunk, chunk_end(next_chunk))]
  /\ UNCHANGED <<call, stage, started, joined, writes>>

hash_slot(w) ==
  LET p == position[w]
  IN /\ runs(w) /\ p.at = "hashing"
     /\ writes' = [writes EXCEPT ![p.i] = @ + 1]
     /\ position' = [position EXCEPT ![w] =
                       IF p.i + 1 < p.end THEN Hashing(p.i + 1, p.end) ELSE Claiming]
     /\ UNCHANGED <<call, stage, next_chunk, started, joined>>

worker(w) == claim(w) \/ hash_slot(w)

\* The joins, in the order of the vector.
join ==
  /\ stage = "joining" /\ joined < call.workers
  /\ position[joined + 1].at = "done"
  /\ joined' = joined + 1
  /\ UNCHANGED <<call, stage, next_chunk, started, position, writes>>

return_without_last_join ==   \* mutant: the loop over the threads stops one early
  /\ stage = "joining" /\ joined + 1 >= call.workers
  /\ stage' = "returned"
  /\ UNCHANGED <<call, next_chunk, started, joined, position, writes>>

return ==
  /\ stage = "joining" /\ joined = call.workers
  /\ stage' = "returned"
  /\ UNCHANGED <<call, next_chunk, started, joined, position, writes>>

caller == hash_alone \/ start_worker \/ start_fails \/ all_started \/ join \/ return

Over == stage \in {"returned", "thrown", "aborted"}

-----------------------------------------------------------------------------
EngineTypeOK ==
  /\ call.items \in Nat /\ call.chunk \in Nat \ {0} /\ call.workers \in Worker
  /\ call.route \in {"none", "empty", "single", "parallel"}
  /\ stage \in {"idle", "alone", "starting", "joining", "returned", "thrown", "aborted"}
  /\ next_chunk \in 0..(chunks + call.workers)
  /\ started \in 0..call.workers /\ joined \in 0..started
  /\ \A w \in Worker : /\ position[w].at \in {"absent", "claiming", "hashing", "done"}
                       /\ position[w].at # "absent" <=> w <= started
  /\ \A w \in Worker : position[w].at = "hashing" =>
       position[w].i \in Slot /\ position[w].end \in (position[w].i + 1)..call.items

\* The workers write slots of one vector without a lock (throughput.cpp:94-98).  No two are
\* ever about to write the same slot, and none a slot that has been written.
NoSlotShared ==
  /\ \A v, w \in Worker :
       v # w /\ position[v].at = "hashing" /\ position[w].at = "hashing" =>
         (position[v].i)..(position[v].end - 1) \cap (position[w].i)..(position[w].end - 1) = {}
  /\ \A w \in Worker : position[w].at = "hashing" =>
       \A i \in (position[w].i)..(position[w].end - 1) : writes[i] = 0

\* The workers capture the locals of sha256_parallel by reference (throughput.cpp:90): when
\* it returns or throws, none is still running.
NoWorkerOutlivesCall ==
  stage \in {"returned", "thrown"} => \A w \in Worker : position[w].at \in {"absent", "done"}

=============================================================================
