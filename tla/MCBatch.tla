------------------------------ MODULE MCBatch ------------------------------
EXTENDS Batch

\* Builds with and without each kernel; plain, SHA-NI and AVX2 processors.
AllBuilds ==
  {[cuda |-> c, opencl |-> o, native |-> n, features |-> f] :
     c \in BOOLEAN, o \in BOOLEAN, n \in BOOLEAN, f \in {{}, {"shani"}, {"avx2"}}}

\* Batches on both sides of each threshold, the empty one included.
BatchCalls ==
  [api : {"batch"}, items : {0, 1, 3}, bytes : {0, 2}, prefer_gpu : BOOLEAN,
   min_items : {0, 2}, min_bytes : {0, 1}, strict : BOOLEAN, parallel_cpu : BOOLEAN,
   min_parallel_items : {2}]

GpuCalls ==
  [api : {"gpu"}, items : {0, 1, 3}, bytes : {0, 2}, min_items : {0, 2}, min_bytes : {0, 1},
   preferred : {"cuda", "opencl"}, fallback : BOOLEAN]

EngineCalls ==
  [api : {"engine"}, items : {0, 3, 5},
   options : [worker_count : {0, 2}, min_parallel_items : {2}, target_chunk_items : {0, 1},
              enable_parallel : BOOLEAN]]

Calls == BatchCalls \cup GpuCalls \cup EngineCalls

=============================================================================
