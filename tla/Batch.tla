------------------------------- MODULE Batch -------------------------------
(***************************************************************************)
(* One call that hashes a batch: batch::sha256 (src/runtime/batch.cpp),      *)
(* gpu::batch_sha256 (src/gpu/gpu.cpp) or the throughput engine itself, on a *)
(* machine whose OpenCL device may come or go and whose driver may fail at    *)
(* any step.                                                                *)
(*                                                                         *)
(* Abstracted: the batch is a number of messages and of bytes; all            *)
(* implementations of SHA-256 compute the same digests, so what matters is   *)
(* who computed them.  The OpenCL runtime is a sequence of steps; a driver    *)
(* that never answers is left out.                                          *)
(***************************************************************************)
EXTENDS Throughput, Sequences

CONSTANTS
  Builds,            \* compile-time switches and CPU features
  Requests,          \* the calls an application makes
  DefaultMinBytes,   \* BatchHashOptions.min_gpu_total_bytes by default (4 MiB)
  DefaultMinItems,   \* min_gpu_batch_items by default (4096)
  MaxChanges         \* bound: how often the device comes or goes

\* The features cpu::detect can report, of those that choose an implementation of SHA-256:
\* a processor is an x86, whose flags are independent of each other, or an ARM.
Detectable == SUBSET {"shani", "avx2", "avx512f"} \cup {{"neon"}}

ASSUME BatchBounds ==
  /\ {DefaultMinBytes, DefaultMinItems, MaxChanges} \subseteq Nat
  /\ \A b \in Builds : b.features \in Detectable

ASSUME RequestsTyped ==
  \A r \in Requests :
    /\ r.items \in Nat
    /\ r.api = "batch" => r.min_parallel_items \in Nat
    /\ r.api = "engine" => /\ r.options.worker_count \in 0..MaxWorkers
                           /\ {r.options.target_chunk_items, r.options.min_parallel_items} \subseteq Nat
                           /\ r.options.enable_parallel \in BOOLEAN

VARIABLES
  build,       \* the machine and the build
  device,      \* whether OpenCL finds a device now
  request,     \* the call
  at,          \* where the call is
  selected,    \* hardware::BackendKind chosen for the batch
  route,       \* gpu::RouteDecision: the backend, and whether the batch is a candidate
  step,        \* OpenCL steps that have succeeded
  result,      \* what the call has answered
  changes,     \* history variable: times the device came or went
  faults       \* history variable: whether the driver has failed

batchVars == <<build, device, request, at, selected, route, step, result, changes, faults>>
vars == <<engineVars, batchVars>>

Pending == [outcome |-> "pending", by |-> "nobody", backend |-> "none", accelerated |-> FALSE]
NoRoute == [backend |-> "cpu_fallback", candidate |-> FALSE]

BatchInit ==
  /\ EngineInit
  /\ build \in Builds /\ device \in BOOLEAN /\ request \in Requests
  /\ at = "called" /\ selected = "none" /\ route = NoRoute /\ step = 0
  /\ result = Pending /\ changes = 0 /\ faults = FALSE

-----------------------------------------------------------------------------
(* Choosing a backend *)

\* simd::dispatch_table, and what hardware::dispatch_status makes of it.
sha256_backend ==
  IF "shani" \in build.features THEN "sha_ni"
  ELSE IF "avx512f" \in build.features THEN "avx512"
  ELSE IF "avx2" \in build.features THEN "avx2"
  ELSE IF "neon" \in build.features THEN "neon" ELSE "scalar"

selected_hash_backend ==
  CASE sha256_backend \in {"avx512", "avx2", "neon"} -> sha256_backend
    [] sha256_backend = "sha_ni" \/ (sha256_backend = "scalar" /\ build.native) -> "cpu_native"
    [] OTHER -> "cpu_generic"

opencl_runtime_available == build.opencl /\ device
runtime_available == build.cuda \/ opencl_runtime_available
status_backend == IF build.cuda THEN "cuda" ELSE "opencl"   \* gpu::status, when available

select_batch_backend(r) ==
  IF r.prefer_gpu /\ runtime_available /\ r.items >= r.min_items /\ r.bytes >= r.min_bytes
  THEN status_backend ELSE selected_hash_backend

backend_runtime_available(b) == (b = "cuda" /\ build.cuda) \/ (b = "opencl" /\ opencl_runtime_available)

on_gpu(b) == b \in {"cuda", "opencl"}

\* The options gpu::batch_sha256 gets: the application's own, or batch::sha256's.
gpu_options_by_default ==   \* mutant: the threshold of the request is not passed on
  IF request.api = "gpu" THEN request
  ELSE [preferred |-> IF on_gpu(selected) THEN selected ELSE "cpu_fallback", fallback |-> TRUE,
        min_items |-> DefaultMinItems, min_bytes |-> DefaultMinBytes]

gpu_options ==
  IF request.api = "gpu" THEN request
  ELSE [preferred |-> IF on_gpu(selected) THEN selected ELSE "cpu_fallback", fallback |-> TRUE,
        min_items |-> request.min_items, min_bytes |-> DefaultMinBytes]

route_for_batch(o) ==
  LET candidate == request.items >= o.min_items \/ request.bytes >= o.min_bytes
  IN [candidate |-> candidate,
      backend |-> IF candidate /\ backend_runtime_available(o.preferred)
                  THEN o.preferred ELSE "cpu_fallback"]

-----------------------------------------------------------------------------
(* The calls *)

end(outcome, by, backend, accelerated) ==
  /\ at' = "over"
  /\ result' = [outcome |-> outcome, by |-> by, backend |-> backend, accelerated |-> accelerated]

strict_refused(b) == request.strict /\ ~on_gpu(b)
for_engine(b) == request.parallel_cpu /\ ~on_gpu(b) /\ request.items >= request.min_parallel_items

\* EngineOptions as batch::sha256 leaves them.
engine_options ==
  [worker_count |-> 0, min_parallel_items |-> request.min_parallel_items,
   target_chunk_items |-> DefaultChunk, enable_parallel |-> TRUE]

machine == <<build, device, request, changes>>

batch_sha256 ==
  /\ at = "called" /\ request.api = "batch"
  /\ LET b == select_batch_backend(request)
     IN /\ selected' = b
        /\ \/ /\ strict_refused(b) /\ end("error", "nobody", "none", FALSE)
              /\ UNCHANGED engineVars
           \/ /\ ~strict_refused(b) /\ for_engine(b)
              /\ sha256_parallel(request.items, engine_options)
              /\ at' = "engine" /\ UNCHANGED result
           \/ /\ ~strict_refused(b) /\ ~for_engine(b)
              /\ at' = "routing" /\ UNCHANGED <<engineVars, result>>
  /\ UNCHANGED <<machine, route, step, faults>>

call_gpu ==
  /\ at = "called" /\ request.api = "gpu"
  /\ at' = "routing"
  /\ UNCHANGED <<engineVars, machine, selected, route, step, result, faults>>

call_engine ==
  /\ at = "called" /\ request.api = "engine"
  /\ sha256_parallel(request.items, request.options)
  /\ at' = "engine"
  /\ UNCHANGED <<machine, selected, route, step, result, faults>>

\* The engine's answer or its exception goes on to the caller of the batch.
engine_ends ==
  /\ at = "engine"
  /\ \/ stage = "returned" /\ end("ok", "threads", "cpu_native", call.route = "parallel")
     \/ stage = "thrown" /\ end("thrown", "nobody", "none", FALSE)
  /\ UNCHANGED <<engineVars, machine, selected, route, step, faults>>

\* gpu::batch_sha256 up to its choice.
gpu_route ==
  LET o == gpu_options
      d == route_for_batch(o)
  IN /\ at = "routing"
     /\ route' = d
     /\ IF d.backend = "cpu_fallback" /\ ~o.fallback /\ d.candidate
        THEN end("error", "nobody", "none", FALSE)
        ELSE at' = (IF d.backend = "opencl" THEN "opencl" ELSE "cpu") /\ UNCHANGED result
     /\ UNCHANGED <<engineVars, machine, selected, step, faults>>

-----------------------------------------------------------------------------
(* opencl_batch_sha256 *)

OpenClStep == <<"device", "context", "queue", "program", "build", "kernel", "data", "offsets",
                "lengths", "output", "launch", "read">>

\* A buffer of no bytes is refused; a device that is not there cannot be found.
can_succeed(s) ==
  /\ s = "device" => device
  /\ s \in {"offsets", "lengths", "output"} => request.items > 0

opencl_step ==
  /\ at = "opencl" /\ can_succeed(OpenClStep[step + 1])
  /\ step' = step + 1
  /\ IF step' = Len(OpenClStep)
     THEN end("ok", "kernel", IF request.api = "batch" THEN selected ELSE "opencl", TRUE)
     ELSE UNCHANGED <<at, result>>
  /\ UNCHANGED <<engineVars, machine, selected, route, faults>>

fall_back_and_boast ==   \* mutant: the report keeps the backend of the route
  IF gpu_options.fallback
  THEN at' = "cpu" /\ UNCHANGED <<route, result>>
  ELSE end("error", "nobody", "none", FALSE) /\ UNCHANGED route

\* A step that fails releases what was created, and then it is the CPU's turn, or an error.
fall_back ==
  IF gpu_options.fallback
  THEN at' = "cpu" /\ route' = [route EXCEPT !.backend = "cpu_fallback"] /\ UNCHANGED result
  ELSE end("error", "nobody", "none", FALSE) /\ UNCHANGED route

opencl_fails ==
  /\ at = "opencl"
  /\ faults' = (faults \/ can_succeed(OpenClStep[step + 1]))
  /\ step' = 0
  /\ fall_back
  /\ UNCHANGED <<engineVars, machine, selected>>

\* The loop of gpu::batch_sha256; a route to CUDA comes here too, and is reported as such.
cpu_backend(accelerated) ==
  IF request.api = "gpu" THEN route.backend
  ELSE IF accelerated \/ selected = "cpu_native" THEN selected ELSE "cpu_generic"

hash_on_cpu ==
  LET accelerated == route.backend # "cpu_fallback"
  IN /\ at = "cpu"
     /\ end("ok", "cpu", cpu_backend(accelerated), accelerated)
     /\ UNCHANGED <<engineVars, machine, selected, route, step, faults>>

\* The device comes or goes.
device_changes ==
  /\ at # "over" /\ changes < MaxChanges /\ build.opencl
  /\ device' = ~device /\ changes' = changes + 1
  /\ UNCHANGED <<engineVars, build, request, at, selected, route, step, result, faults>>

-----------------------------------------------------------------------------
one_call == batch_sha256 \/ call_gpu \/ call_engine \/ engine_ends \/ gpu_route
            \/ opencl_step \/ opencl_fails \/ hash_on_cpu

engine_caller == caller /\ UNCHANGED batchVars
engine_worker(w) == worker(w) /\ UNCHANGED batchVars

BatchNext == \/ one_call
             \/ engine_caller
             \/ \E w \in Worker : engine_worker(w)
             \/ device_changes

\* The operating system runs every thread; the machine owes nobody a device.
BatchSpec == /\ BatchInit /\ [][BatchNext]_vars
             /\ WF_vars(one_call) /\ WF_vars(engine_caller)
             /\ \A w \in Worker : WF_vars(engine_worker(w))

-----------------------------------------------------------------------------
BatchTypeOK ==
  /\ EngineTypeOK
  /\ build \in Builds /\ device \in BOOLEAN /\ request \in Requests
  /\ at \in {"called", "engine", "routing", "opencl", "cpu", "over"}
  /\ selected \in {"none", "cuda", "opencl", "cpu_native", "cpu_generic", "avx2", "avx512", "neon"}
  /\ route.backend \in {"cpu_fallback", "cuda", "opencl"} /\ route.candidate \in BOOLEAN
  /\ at = "opencl" => route.backend = "opencl" /\ route.candidate
  /\ step \in 0..Len(OpenClStep)
  /\ result.outcome \in {"pending", "ok", "error", "thrown"}
  /\ result.outcome = "pending" <=> at # "over"
  /\ at = "engine" <=> stage # "idle" /\ at # "over"
  /\ changes \in 0..MaxChanges /\ faults \in BOOLEAN

ok == result.outcome = "ok"

\* docs/GPU.md "batch operations use the existing CPU/provider path and report cpu-fallback",
\* gpu.cpp:398-418: what a call reports is what happened, through every fall back: accelerated
\* only if a kernel or threads computed, and the device only if its kernel did.  A build with
\* CUDA kernels has none to call here: it hashes on the CPU and reports CUDA.
ReportTruthful ==
  ok /\ ~build.cuda /\ request.api # "engine" =>
    /\ result.accelerated => result.by \in {"kernel", "threads"}
    /\ result.backend = "opencl" <=> result.by = "kernel"

\* batch.cpp:18 and gpu.cpp:357: fail_if_accelerator_unavailable is checked against the hardware
\* dispatcher's thresholds (both must be met) and the GPU router has its own (either is enough):
\* while device and driver keep working, a strict batch that succeeds was hashed by the kernel
\* of the device.  Not so in a build with CUDA, where the CPU hashes it (gpu.cpp:417).
StrictIsAccelerated ==
  /\ ok /\ request.api = "batch" /\ request.strict /\ request.items > 0
  /\ ~build.cuda /\ changes = 0 /\ ~faults
  => result.by = "kernel"

\* What the application sees of the call.
Outcome == IF stage = "aborted" THEN "died" ELSE result.outcome
Digests == [i \in 0..(request.items - 1) |->
              CASE ok /\ result.by = "threads" -> writes[i]
                [] ok /\ result.by # "threads" -> 1
                [] OTHER -> 0]

Promise == INSTANCE HashCall WITH items <- request.items, outcome <- Outcome, digests <- Digests

\* Whichever way a batch goes, the call keeps the promise of HashCall, and it ends: the
\* application sees no digest before all are written once, and waits for ever for none.
ImplementsHashCall == Promise!Spec

=============================================================================
