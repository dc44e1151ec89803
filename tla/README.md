# QuantLib: specifications, model checks and proofs

QuantLib is a C++ cryptography library. Around its primitives it keeps a good deal of state: a
table of private keys shared by threads (the software security module, SSM), sessions in front of
it, a vault file behind it, a facade and a command line over both, a handshake, a secure channel
with sequence numbers, replay windows and key updates, and a batch hashing engine with worker threads
and an OpenCL path. This directory holds TLA+ models of that state, TLC configurations that check them on
small instances, and proofs, checked by TLAPS, of the properties that matter most. Paths are
relative to the repository (`src/security/ssm.cpp`, `docs/REKEY.md`).

## 1. Inventory

| Part | State | Operations | Hard about it |
|---|---|---|---|
| Software security module, `src/security/ssm.cpp:215-570` | `entries_`, a map from handle to key entry, behind `mutex_` | generate, sign, decapsulate, rotate, set_state, erase, clear, export_sealed, import_sealed | signing and rotation release the mutex and work on a copy; imports put old entries back; handles may collide |
| Session manager, `src/security/ssm.cpp:603-750` | `sessions_`, token to session, behind a mutex of its own | open, close, sign_domain, decapsulate, public_key | the session may end, or reach its limit, while the module works |
| Vault file, `src/security/vault.cpp` | primary, `.tmp` and `.bak` files, generation, anchor | create, save_vault_atomic, load_vault, collect_from_ssm, rewrap | crash between two file operations; one key that cannot be exported; two processes |
| Audit log, `src/security/audit.cpp` | a hash chain of events | append, verify, encode, decode | history lost by collect_from_ssm, restored by hand in the command line |
| QuantVault facade, `src/facade/easy.cpp` | module, sessions and vault in memory, the file | create, open, generate, sign, rotate, set_state, erase, save | memory changed, save failed; what a reopened vault contains |
| Command line, `src/tools/ssm.cpp` | none between calls | load, one operation, save | two processes on one file |
| Secure channel, `src/protocol/channel.cpp` over `record.cpp`, `replay.cpp`, `session.cpp` | per endpoint: send sequence, generation and material, receive window, closed | seal_data, seal_alert, open, seal_key_update, apply_key_update, close | lost, repeated and reordered frames; key updates that cross |
| Handshake and negotiation, `src/protocol/protocol.cpp`, policy, `src/security/policy.cpp` | handshake state per side | negotiate, reject_downgrade, mark_sent, mark_received, validate_* | order of messages, alerts; suites both support and neither accepts |
| Throughput engine, `src/runtime/throughput.cpp` | a shared chunk counter, the output vector | sha256_parallel | each slot exactly once, termination, threads that do not start |
| Batch and hardware routing, `src/runtime/batch.cpp`, `hardware.cpp`, `src/gpu/gpu.cpp`, `src/simd/` | none between calls; the machine's devices | batch::sha256, gpu::batch_sha256, select_batch_backend, route_for_batch | two routers with different thresholds, a device that goes after it was chosen, a driver that fails at any of twelve calls |
| Key encapsulation and signatures, `src/classical/`, `src/pq/`, `src/hybrid/` | none: pure functions over OpenSSL and liboqs | generate, encapsulate, decapsulate, sign, verify, the wiring check | hybrids of two back ends: halves of different origin, one back end missing, implicit rejection |
| Provider registry, `src/providers/registry.cpp` | the preferred name, behind a mutex | supports, set_preferred_provider | what is named supported against what works |
| AEAD, hashes, HKDF, RNG, encodings, self-tests, reports, tools | none, or constants | pure functions | not for this method |

How they interact. A caller reaches a key directly (`SoftwareSecurityModule`) or through a session
(`SsmSessionManager` calls the module while its own mutex is free). The facade owns one module, one
session manager and one unlocked vault; after each operation it collects the sealed entries of the
module into a fresh vault value and saves it. The command line does the same by hand, once per
process, and nothing excludes two processes on one path. The channel calls the record layer for each frame and the replay window for each received
one; the key schedule derives the material of the next generation from the current one. The
handshake state machine and the channel are not connected by the library: the application carries
the negotiated suite from one to the other, sends what the library encodes and checks the server's
choice. `batch::sha256` asks the hardware dispatcher for a backend and then calls the throughput
engine or the GPU router, which asks again.

What makes each part correct: keys are used only as their state and policy allow, every use is
counted, limits hold up to what concurrency allows, rotations leave a consistent lineage, a handle
names one key; sessions hand out nothing once over; nonces never repeat, frames open at most once
and are not refused without cause; what was saved can be loaded after a crash, in the state it was
saved in; the audit log only grows; an operation
that reports success is on disk and stays there; confirmed sides of a handshake agree on everything,
and on a suite that is no downgrade; parallel hashing computes every digest once, reports what
happened, and ends; hybrid secrets agree and hybrid signatures pass only when both halves do.

## 2. Plan

In order of what can go wrong and costs most:

1. `SSM`: the module with its critical sections. All its properties are proved.
2. `SsmSessions`: the session manager composed with `SSM`. All its properties are proved, and that
   every step of the manager is a step of the module or leaves it alone.
3. `Replay`, `ReplayFilter`, `ReplayWindow`: the window and its abstract specification. The property
   and the refinement are proved.
4. `Delivery`, `Channel`: two endpoints over an unreliable network, and what they promise of delivery.
   All properties and the refinement are proved.
5. `VaultRegister`, `Vault`: save with crashes and failures between its file operations, load,
   audit logs, generations and anchors; the register that this implements. The properties and the
   refinement are proved.
6. `VaultProcesses`, `QuantVault`: facades and commands as clients of one file, saves of several
   processes step by step. All properties are proved; `AcknowledgedIsSaved`
   says that a vault whose saves never overlap changes as the register of item 5 does.
7. `Policy`, `Negotiation`, `Handshake`: the tables and both state machines over an unreliable
   network. All properties are proved.
8. `Throughput`, `HashCall`, `Batch`: workers and the chunk counter, routing and fall back, with
   termination. The invariants and the safety of `HashCall` are proved; that a call ends is not.
9. `Providers`, `Exchange`: key encapsulation and signatures over the back ends a build links. All
   properties are proved.

The plan is carried out; section 6 has what was left out of it and why.

## 3. Modules

### SSM

One entry of `entries` is an `ObjectInfo` with its sealed key. A handle is the tuple of the four
fields that `make_handle` hashes, SHA-256 taken as injective; the bytes of a key are its serial
number, and the public key of a symmetric key is empty (0), as in the code, so handles of symmetric
keys can collide and `store_secret` then replaces an entry. `clear`, `erase`, `set_state`,
`export_sealed`, `import_sealed` and the generators hold the mutex from first to last access and are
one action each. The others are split where the code releases the mutex:

| Code | Actions |
|---|---|
| `sign_message`, `sign_domain`, `decapsulate` (276-330) | `BeginOperation` (copy and validate), `FinishOperation` (`record_operation`, result to the caller) or `FailOperation` |
| `rotate_key` (391-446) | `BeginRotate` (copy, check, options), `RotateGenerate` (`store_secret` of the new key) or `FailRotate`, `RotateLink` (bookkeeping, or the internal error that leaves the new key unlinked) |

`validate_operation` reads only the copy, so it is part of the first section. An import decrypts
whatever the present state of the key: the associated data covers neither state, counter nor
lineage. Callers keep the objects they exported (`sealed`) and may import any of them at any time,
unaltered. `Tick` advances the clock that handles and sessions read; it never goes back.

History variables: `history` has the handle and the number of released operations of each key ever
generated; `restored` has the handles that an import has written. Nothing of the model reads them
but the bounds and the properties.

### SsmSessions

Extends `SSM` and reuses its actions for the operation in the middle of `sign_domain` and
`decapsulate`: `Authorize` (first critical section), `Run` and `Ran`, `Denied` or `RunFailed` (the
module's own sections), `Settle` (second critical section: the session is looked up and checked
again, then counts). `Refuse` is a call on an expired session, which closes it. Threads also use the
module without a session (`Direct`).

### Replay, ReplayFilter, ReplayWindow

`Replay` has the window as operators: the bitmap is a set of bit positions below the width `W`, a
shift adds to each and drops what leaves the word, which covers the code's special case for shifts
of 64 and more. `ReplayFilter` is the promise: it remembers every accepted sequence, accepts none
twice and refuses a new one only if one `W` or more above it was accepted. `ReplayWindow` runs one
window and implements the filter.

### Delivery, Channel

Both endpoints, each with the `ChannelState` of the code, and the set of all frames ever handed out:
any of them may arrive at any time and any number of times, or never. `open` is the success path of
`channel::open`; every error path of it leaves the state alone. `seal_key_update` has one that does
not: when `update_keys` fails after the record was sealed (for an exporter secret that is not 32 bytes,
say), the sequence is spent and nothing is handed out (`seal_key_update_fails`). A key-update record that was opened waits
with the caller (`inbox`) until `apply_key_update`, which may come late, twice or never. A generation
stands for the key material, which both sides derive from the same secret, and a frame opens exactly
under the generation, role and sequence of its seal. Callers that seal a record of type alert or
key_update through the low-level `channel::seal` are not modelled.

`Delivery` is the promise, without keys, counters or windows: a side submits messages, in epochs that
never fall; the other is given each at most once, and none after one of a later epoch; the last message
of a side ends the other, and a side that is over neither sends nor receives. The mapping reads
what was sent from the frames of a role in `network`, with their generations as epochs, what was
delivered from `opened`, the last message from the frame of type close_notify, and the end from
`closed`. Applying a key update is a step that `Delivery` does not see.

### VaultRegister, Vault

`Vault` has the three files at the vault's path, each missing, unreadable (`Torn`) or holding a vault,
the process that works on them (`pc`, the unlocked `vault`, the `image` being written) and the anchor
an application keeps, with its audit head or without (`verify_anchor` then leaves the comparison of
heads out). `save_vault_atomic` is one action per file operation: `open_temp` truncates the
temporary file, `write_temp` completes it, `open_backup` and `copy_backup` are the beginning and the
end of `copy_file`, `rename_temp` replaces the primary. At each of these steps the save may fail
(`fail_save`: the error goes to the caller and the process goes on) or the process may die (`Exit`). A
file may be damaged at any time. `load_vault` takes the primary or else the backup, and appends an
event, as `decode_vault` does. What callers do between is one of two actions: `collect_from_ssm`, after
which the log has a single event (the facade), or `command`, which puts the old log back and appends
one to three events (the command line; `rewrap_vault_kdf` and `append_audit` are commands that leave
the keys alone).

The code flushes but never syncs its files, so a power failure may undo a write that completed: this
appears as damage to the primary. History variables: `saved`, all saves that took effect with their
processes; `faults`, the faults before and since the last one; `base` and `fallback`, where what the
process loaded came from.

`VaultRegister` is what this promises: a value that a save changes at one instant or not at all, and
that goes back to something older only when damaged.

### VaultProcesses, QuantVault

`VaultProcesses` is `save_vault_atomic` run by several processes on one path. All use the same `.tmp`
and `.bak`, so a stream is followed to the file it has open (`target`): another process may rename
that file to the primary while it is still being written, truncate it, or remove it. Two streams on
one file, two copies to one backup, or a copy of a file that is being written may leave a mixture
(`Torn`). A rename that finds no file cleans up, as the code does. Damage that comes from elsewhere is
`Vault`'s subject, as are logs and generations.

`QuantVault` adds what runs in the processes. A facade keeps its module open; a command reads the
primary (only `load_vault` falls back to the backup, and the commands that write do not call it), does
one thing and ends. An operation changes the module in memory, then `persist_if_needed` begins a save,
or returns the error of a key that does not export; other processes run between the steps of that save;
its end is the end of the operation (`replace`, `give_up`, or `exit` when the process dies).

| Code | Actions |
|---|---|
| `QuantVault::create`, `open`, the generators, `sign`, `rotate`, `set_state`, `erase`, `save` | actions of these names; `sign_withheld` is a signature that the key counted and the session dropped |
| `command_init`, `command_generate_ed25519`, `command_session_sign`, `command_rotate`, `command_kdf_rewrap` | actions of these names, after `command_reads` |
| `save_vault_atomic` | `save_begins`, `proceed` (the steps up to the rename), `replace`, `cannot_rename`, `give_up` |

History variables: `told` has the keys whose generation was acknowledged, `released` the signatures
handed out after a save; `knowing` has the processes whose memory derives from the present primary, and
`stale` remembers that one of the others has saved.

### Policy, Negotiation, Handshake

`Policy` and `Negotiation` are the tables and predicates of `policy.cpp` and the first half of
`protocol.cpp`. `negotiate` takes the first suite of the local list that is offered and allowed, and
then fails if that one is a downgrade, whatever follows in the list, as in the code.

`Handshake` has both sides with their `HandshakeContext`. A message once sent may arrive at any time,
any number of times, or never. `send_*` is `mark_sent` with the encoding and the transcript,
`receive_*` is `mark_received` with `negotiate`; a message that does not fit the state or the role is
refused without a change. Transcripts are sequences of messages, tags are tuples of their inputs, the
shared secret is the same in all attempts (the hardest case: only nonces and transcripts tell attempts
apart). What the library leaves to the application is modelled from what its functions are for: fresh
nonces for each attempt, and a client that checks the server's choice with `negotiate` and
`reject_downgrade`.

### Throughput, HashCall, Batch

`Throughput` is `sha256_parallel` one shared access at a time: the caller decides on workers and
chunks, starts threads, joins them in order; a worker claims a chunk with `fetch_add` and writes its
slots one by one. When a thread does not start, the exception leaves the function only if no thread
runs yet: otherwise the vector of joinable threads is destroyed, which ends the process (`aborted`).

`Batch` is one call of `batch::sha256`, `gpu::batch_sha256` or the engine on a machine whose device may
come or go between any two steps (`device_changes`) and whose driver may refuse any OpenCL call
(`opencl_fails`). `HashCall` is the promise: nothing is visible until the call ends, it ends exactly
once, with every digest once or none; `Batch` implements it, liveness included.

### Providers, Exchange

`Providers` has the functions of `classical.cpp` and `pq.cpp` with their dispatch, length checks and
errors in the order of the code, over symbolic bytes: a raw part knows what made it, for what and for
whom, a packed pair has its magic and two halves. Where the code only checks a length, the model checks
only the length: any 32 bytes are an X25519 point. ML-KEM rejects implicitly. `Exchange` lets two
applications with different builds use them on what arrives: anything sent so far, altered in one
part, or with the halves of two hybrids exchanged.

A part keeps the form it arrives in (`alterations`). Any part may be altered into other bytes. The 32
bytes of X25519 may also be altered into other bytes for the same point (bit 255 is ignored, encodings
need not be canonical, a summand of low order disappears), into a multiple of the point, or into a point
of low order, which `EVP_PKEY_derive` refuses. `point` and `multiple` are what the derived secret
depends on.

## 4. Runs

| Run | Shows | Bounds |
|---|---|---|
| `ssm_usage` | `TypeOK`, `UsageExact`, `OvershootBounded` with threads that use, disable, enable, erase, export, import and rotate signing and symmetric keys | two threads, two keys, limit 1, three releases: both threads past the check together reach the bound exactly, and one more would break it; two seconds, within each of which handles of symmetric keys collide; one export |
| `ssm_rotation` | `RotationLineage`, `AsymmetricKeysKeepPolicy`, `DeadStaysDead` | two threads, three keys (a key, its replacement, and a replacement of either), one export |
| `sessions` | `SessionTypeOK`, `SessionOvershootBounded`, `SessionsPaid`, `OverIsFinal` | three threads, two sessions of one second, a clock of one second, session limit 1, four releases, signing and KEM keys |
| `replay_window` | `WindowExact`, refinement `FilterSpec` | sequences 0 to 8 against a width of 3: three widths, so every relative position |
| `channel` | `ChannelTypeOK`, `NonceUnique`, `FreshAcceptedUnlessCrossed`, `CanCatchUp`, refinement `ImplementsDelivery` | three generations, sequences 0 to 2, width 2, three frames per side: a window slides, is reset twice, and updates cross |
| `vault` | `VaultTypeOK`, `Recoverable`, `AnchorRefusesOldSessions`, refinement `ImplementsRegister` | two saves, three processes, one key, two seconds, logs of two events, one fault before and one after the last save: a save over a damaged primary, a crash in the second save, a load from the backup |
| `facade` | `ClientTypeOK`, `AcknowledgedIsSaved`, `AcknowledgedSurvives`, `TornOnlyByOverlap`, `RevokedNeverSaved` | two processes, three starts (so one dies or ends and another reopens), three saves, two keys of one operation, one save that fails or dies: two saves overlap at every pair of steps |
| `handshake` | `HandshakeTypeOK`, `ConfirmedAgree`, `ConfirmedSuiteIsNoDowngrade`, `RefusedOnlyWithoutSuite`, `KeysFresh` | three profiles and three lists per side in all combinations, two attempts each, one damaged hello: hellos of both attempts mix |
| `engine` | `BatchTypeOK`, `NoSlotShared`, `NoWorkerOutlivesCall`, `ReportTruthful`, `StrictIsAccelerated`, refinement and liveness `ImplementsHashCall` | builds with and without each kernel, batches on both sides of every threshold, three workers on up to five messages in chunks of one or two: a partial last chunk, more chunks than workers and the reverse, a device that changes once |
| `exchange` | `SecretsAgreeOnSameParts`, `AcceptedIsSigned`, `SupportIsHonest` | three builds for each side (complete, without liboqs, without OpenSSL and one signature), nine of twelve algorithms (every path of the code), two key pairs and two uses: enough to exchange the halves of two hybrids |
| `channel_crossing`, `facade_revocation` | counterexamples to statements of the documents | the smallest instance that has one |

The two counterexamples:

- `FreshAccepted`: after crossing key updates both receive windows are those of the old epoch and
  refuse new records (`docs/REKEY.md:20`, `docs/REPLAY.md:8`). `FreshAcceptedUnlessCrossed` holds.
- `ChangesPersisted`: a facade that disables a key cannot save it, because `collect_from_ssm` exports
  only active and retired keys; the caller gets an error, the module keeps the state, and a reopened
  vault has the key active (`docs/EASY.md:12`). `RevokedNeverSaved` is the same from the side of the
  files.

Other places where the code differs from what a document leads one to expect, met while modelling and
without a run of their own; what does hold is a property where one is named:

- Two threads that pass the check of a limit together release more operations than `max_operations`
  (`docs/SSM-POLICY.md:48`), or than the session's limit (`docs/SSM-SESSIONS.md:10`);
  `OvershootBounded` and `SessionOvershootBounded` say how many.
- A rotation under way writes `retired` over `destroyed` (`docs/SSM-POLICY.md:13`); see `DeadStaysDead`.
- Two threads may leave a chain of rotations with generations out of order. One has generated the
  replacement of a key that was rotated before, and waits for the mutex; the other rotates that
  replacement and links its own new key at generation 1. The first then writes its key's generation
  plus one over the replacement, which ends at generation 2 with a replacement at 1
  (`src/security/ssm.cpp:431`, `docs/SSM-ROTATION.md:21` "Both store the same generation and rotation
  timestamp."). It takes four keys, one more than the run has; the proof met it. `RotationLineage`
  compares generations only where a key is not itself a replacement.
- A symmetric key rotated to its own label within a second replaces itself (`docs/SSM-ROTATION.md:7`).
- A process that saves twice writes the same generation twice, and its anchor accepts both
  (`docs/VAULT.md:62`); see `AnchorRefusesOldSessions`.
- The `balanced` policy lists classical algorithms as allowed and then refuses them, since it prefers
  hybrids (`docs/POLICY.md:8`).
- A strict batch falls back to the CPU without an error when the device fails after the check
  (`docs/HARDWARE.md:12`, `src/runtime/batch.cpp:23`, `src/gpu/gpu.cpp:408`); `StrictIsAccelerated`
  says when it does not, by what computed the digests and not by what the report says.
- A build with CUDA enabled hashes on the CPU and reports `cuda`, accelerated (`docs/GPU.md:16`), a
  strict batch included (`docs/HARDWARE.md:12`, `src/gpu/gpu.cpp:398`, `src/gpu/gpu.cpp:416`);
  `ReportTruthful` and `StrictIsAccelerated` are stated for builds without it.
- Two sides that hold the same hybrid secret need not have seen the same bytes. `hybrid_combine` takes
  the two secrets and neither ciphertext nor public key (`src/pq/pq.cpp:91`), and X25519 reads several
  encodings as one point, or gives both sides the same multiple. `SecretsAgreeOnSameParts` says what must
  have been the same: the ML-KEM halves to the byte, the X25519 halves as points.
- The registry names the hybrids as supported when OpenSSL is missing
  (`src/providers/registry.cpp:113`); they fail closed. `SupportIsHonest` says so.

All bounds are constants whose names begin with `Max`, or sets given in the configuration. Threads
and processes are symmetric where a run declares it. The runs of the vault, the facade, the handshake,
the engine and the exchange turn the deadlock check off: those systems may stop. Once a process has
exited, nobody need open the vault again, and when no file is readable, nobody can; a handshake is over
when it is closed or confirmed; a call ends.

Fairness. Only the engine has threads of its own, and only there is fairness assumed: weak fairness of
the caller (`engine_caller`, and `one_call` for what it does outside the engine) and of each worker,
since the operating system runs every thread, and no step of theirs waits for anything but the joins.
The machine owes nobody a device (`device_changes` has no fairness), and a driver call that never
returns is left out. Under it `ImplementsHashCall` includes that the call ends. Elsewhere no liveness is
claimed: the modelled code has no threads, timers or retransmission of its own, its callers may stop,
and the network may lose everything. `CanCatchUp` states as an invariant what survives of progress: the
record that brings an endpoint forward always exists and is acceptable or already held.

## 5. Proofs

Every invariant and action property of the runs, and the four refinements but for the
liveness of `HashCall`, are proved for every value of the constants, from the named assumptions in the modules (the
constants are finite sets or naturals as in the code; `W` and `MaxAttempts` are positive; for the
handshake, `SuitesNamed`: suites of the lists with one identifier are one suite).

| Theorem | Statement |
|---|---|
| `SSMProofs!TypeCorrect` | `Spec => []TypeOK` |
| `SSMProofs!UsageIsExact` | `Spec => []UsageExact` |
| `SSMProofs!OvershootIsBounded` | `Spec => []OvershootBounded` |
| `SSMProofs!LineageIsConsistent` | `Spec => []RotationLineage` |
| `SSMProofs!PoliciesAreKept` | `Spec => AsymmetricKeysKeepPolicy` |
| `SSMProofs!DestructionIsFinal` | `Spec => DeadStaysDead` |
| `SSMProofs!SessionsUseModule` | `SessionSpec => Spec` |
| `SSMProofs!SessionsTyped` | `SessionSpec => []SessionTypeOK` |
| `SSMProofs!SessionOvershootIsBounded` | `SessionSpec => []SessionOvershootBounded` |
| `SSMProofs!OverStaysOver` | `SessionSpec => OverIsFinal` |
| `SSMProofs!HandedOutIsPaid` | `SessionSpec => []SessionsPaid` |
| `ReplayWindowProofs!WindowIsExact` | `WindowSpec => []WindowExact` |
| `ReplayWindowProofs!WindowImplementsFilter` | `WindowSpec => FilterSpec` |
| `ChannelProofs!ChannelTyped` | `ChannelSpec => []ChannelTypeOK` |
| `ChannelProofs!NoncesNeverRepeat` | `ChannelSpec => []NonceUnique` |
| `ChannelProofs!FramesOpenAtMostOnce` | `ChannelSpec => []AtMostOnce` |
| `ChannelProofs!FreshIsNeverRefused` | `ChannelSpec => []FreshAcceptedUnlessCrossed` |
| `ChannelProofs!UpdatesStayUsable` | `ChannelSpec => []CanCatchUp` |
| `ChannelProofs!ChannelDelivers` | `ChannelSpec => ImplementsDelivery` |
| `VaultProofs!VaultTypeCorrect` | `VaultSpec => []VaultTypeOK` |
| `VaultProofs!VaultSurvivesOneFault` | `VaultSpec => []Recoverable` |
| `VaultProofs!AnchorsRefuseOldSessions` | `VaultSpec => []AnchorRefusesOldSessions` |
| `VaultProofs!SavesAreAtomic` | `VaultSpec => ImplementsRegister` |
| `QuantVaultProofs!ClientsAreTyped` | `ClientSpec => []ClientTypeOK` |
| `QuantVaultProofs!OnlyOverlapTears` | `ClientSpec => []TornOnlyByOverlap` |
| `QuantVaultProofs!RevokedStaysOut` | `ClientSpec => []RevokedNeverSaved` |
| `QuantVaultProofs!AcknowledgedStays` | `ClientSpec => []AcknowledgedSurvives` |
| `QuantVaultProofs!SuccessMeansSaved` | `ClientSpec => AcknowledgedIsSaved` |
| `HandshakeProofs!HandshakeTyped` | `HandshakeSpec => []HandshakeTypeOK` |
| `HandshakeProofs!TagsMeanAgreement` | `HandshakeSpec => []ConfirmedAgree` |
| `HandshakeProofs!NoDowngrade` | `HandshakeSpec => []ConfirmedSuiteIsNoDowngrade` |
| `HandshakeProofs!RefusalIsNeeded` | `HandshakeSpec => []RefusedOnlyWithoutSuite` |
| `HandshakeProofs!HellosMakeFreshKeys` | `HandshakeSpec => []KeysFresh` |
| `BatchProofs!BatchTyped` | `BatchSpec => []BatchTypeOK` |
| `BatchProofs!SlotsAreWrittenOnce` | `BatchSpec => []NoSlotShared` |
| `BatchProofs!NoWorkerIsLeftBehind` | `BatchSpec => []NoWorkerOutlivesCall` |
| `BatchProofs!ReportsAreTrue` | `BatchSpec => []ReportTruthful` |
| `BatchProofs!StrictMeansAccelerated` | `BatchSpec => []StrictIsAccelerated` |
| `BatchProofs!CallKeepsPromise` | `BatchSpec` implies the safety part of `ImplementsHashCall` |
| `ExchangeProofs!SecretsNeedSameParts` | `ExchangeSpec => []SecretsAgreeOnSameParts` |
| `ExchangeProofs!AcceptedWereSigned` | `ExchangeSpec => []AcceptedIsSigned` |
| `ExchangeProofs!SupportStaysHonest` | `ExchangeSpec => []SupportIsHonest` |

*SSM, counting.* `UsageExact` is not inductive: an operation in flight holds a copy of its key. The
invariant adds that every entry lives under the handle its key was generated with (`KeysHome`), also the
keys that calls hold (`CallsHome`), that sealed objects never claim more operations than were released
(`NeverOvercounted`), and for the limit that the operations counted plus those in flight stay below
the limit plus the number of threads (`Budget`): a thread enters only while the count is below the
limit, and one that leaves moves from one summand to the other.

*SSM, rotation.* Between generating a key and linking it, a rotation holds a handle that the table
already shows to others. `LineageInv` adds that a rotation makes keys of the old key's type
(`RotatesOwnType`), that no two rotations wait with one new key (`LinksApart`), that the key a rotation
waits with is nobody's replacement yet (`LinksPending`) and that replacements are keys that were
generated (`ReplacementsKnown`). Handles of symmetric keys can collide, so they are excepted. For
policies, all copies of one key, in the table or sealed, agree on it (`PolicyHome`). `DeadStaysDead`
is a step property of `TypeOK` alone.

*Sessions.* A step of the manager is a step of the module or leaves it alone (`ModuleMoves`), so the
theorems about `SSM` hold of keys used through sessions. `SessionInv` adds to the types that the
operations a session handed out plus the requests it authorized and has not settled stay below its limit
plus the number of threads (`InBudget`); `SessionKept` is what every step keeps of a session. For
`SessionsPaid` the operations are counted as a set, one element per operation (`units`), so that a step
adds one element to one of the two sides: `Ran` pays with a released operation for one that settles,
`Settle` turns that into one handed out (`PaidInv`).

*Replay window.* `WindowExact` is inductive, the case of a shift being the one that needs an argument:
bit `i` of the shifted word is bit `i - n` of the old one. Under it the filter's question and the
window's have the same answer, so every step is a step of the filter.

*Channel.* A nonce is new because what an endpoint sealed lies below its generation or, within it, below
its counter (`SealedBelow`). A frame is not opened twice because a frame that was opened lies at or below
the generation of the receiver, and while it lies at it, the window knows it (`OpenedOnce`): a window never
forgets what it refuses (lemma `AcceptRemembers`), and a reset goes with a new generation. That a fresh
record is accepted needs the order in which both sides seal (`OrderInv`): an update is the last frame of
its sender's generation (`UpdatesAreLast`), an endpoint that only follows keeps counting (`InOrder`), and
as long as no updates crossed, what a window refuses it refuses for a frame opened since the peer last
started a generation (`WindowHasReasons`). `CanCatchUp` follows because somebody sealed the update to
every generation that anybody is in (`Reached`) and every update opened is with its caller (`Delivered`).
For the refinement each kind of seal is a `Submit` (`SubmitStep`): the frame is new because it lies
above all of its generation, and no close_notify precedes it because whoever sealed one is closed for
good (`LastIsEnd`). Opening is `Deliver` (`DeliverStep`) by `OpenedOnce`, whether updates cross or not.

*Vault.* The invariant says what the files hold: the primary the last save, the backup some save
(`FilesHoldSaves`), and how faults bear on it (`OneFaultSurvived`): without a fault since the last save
the primary is readable; without one since the last save but one, the backup is one of the last two,
except while it is overwritten, and then the primary is readable; and a first fault that hits the primary
finds the backup intact. For the refinement, every step but the rename leaves what a load returns alone,
or finds the primary damaged already. For anchors, `GenerationInv`: while no load used the backup, the
saves of one vault grow in generation from session to session and share it within one (`LastIsNewest`),
a session's saves are one above what it loaded (`MemoryIsNewest`), and what was saved before the session
an anchor counts from stays below the anchor (`AnchorIsNewest`).

*Facade.* `VaultInv`: a key that forbids its use is in no file, stream or save (`FilesClean`); while no
saves overlapped, the one save under way finds its own files as it left them (`SavesAlone`); a save
writes what its process holds in memory (`ClientOK`); and while besides nobody saved over a vault it did
not know, the primary and every process that knows it have all that was acknowledged (`Kept`).
`AcknowledgedIsSaved` is a property of single steps under it. For its second half,
a load must not fall back to a backup that is itself being written: there is a backup, or one in the
making, only of a primary that was there (`NoBackupFirst`), and without overlap the primary is never
torn, so a load returns what the primary holds (`LoadsPrimary`), which only the rename changes.

*Handshake.* A side's state says how far its transcript goes and that its suite is what `negotiate`
makes of it (`ContextOK`); a tag comes from an agreement that its maker held, over two hellos of which
one is its own (`HeldAgree`, `ConfirmedHeld`); agreements of a side lie before its present attempt or are
its present view (`HeldCurrent`), which makes them unique per attempt (`HeldOnce`), and with fresh nonces
the keys. Two lemmas carry the rest: what `negotiate` returns was offered, passes the policy
and is no downgrade (`NegotiateSound`), and two sides that agreed on the same hellos agreed on the same
suite (`SameHelloSameSuite`).

*Engine.* `NoSlotShared` is not inductive: it does not say what the next claim will find. The invariant
adds the frontier `next_chunk * chunk` of the shared counter: what workers have claimed lies below it
(`Claimed`), the slots above it are untouched (`Unclaimed`), so a new claim meets nobody (`Apart`).
That a claimed chunk begins within the batch needs the rounding up in the number of chunks (lemma
`ChunkBegins`). Threads are started and joined in order and a stage knows how many there are
(`ThreadsInOrder`), so none is left when the call returns, and none was started when it throws: a
thread that fails to start after another ends the process. For the types, the counter passes the last
chunk at most once per worker (`Counted`); for the promise of a call, every slot below the frontier is
written or some worker is about to (`Accounted`), so all are when the last worker was joined.
`RouteInv` follows the routing: which backend was checked, which one runs, and that while neither device
nor driver fails a strict batch keeps the one it was checked for (`StrictKept`), so that without CUDA a
kernel hashed it. `CallKeepsPromise` is
then step by step: until the call ends nothing is visible, and its end is the end of `HashCall`.

*Exchange.* Everything in the state was made by the functions of `Providers` (`KeysMade`, `SentMade`,
`SignedMade`, `ReceivedMade`), key pairs and encapsulations each from randomness of their own, and what
was verified names no key that is still to come (`VerifiedOld`). What arrives is, part by part, something
that was sent or an altered part (lemma `Delivered`). Agreement is proved for one algorithm, then for the
two halves of a hybrid (`XAgrees`, `KemAgrees`, `Agrees`): the secret of ML-KEM depends on every byte,
and its implicit rejection makes one that nobody else has; that of X25519 depends on the points, and two
parts of other algorithms are the same points only if they are the same bytes (`BytesAsPoints`). A signature's parts bear the name of their
signer, and an altered one nobody's, so what verifies was signed (`AcceptedWasSigned`). For support, an
algorithm makes a round trip exactly in the builds that have all its back ends (`RoundTrips`), says
`unsupported` from every function otherwise (`FailsClosed`), and the wiring check asks each algorithm of
liboqs (`WiringMeansWorking`).

Only model-checked: that a call ends (the liveness part of `ImplementsHashCall`), which is out of the
prover's reach. The two violated statements of the documents are TLC's counterexamples. No module uses a
recursive operator.

## 6. Not modelled

- AEAD, hashes, HKDF, the random generator, key and record encodings: pure functions of bytes. The
  models assume that decryption, tags and signatures verify exactly for what was sealed, made or
  signed, and that hashes do not collide. Failures of the random number generator are the failing
  alternatives of the operations that draw from it, except in `Providers`, which leaves them out.
- Secure memory and zeroisation, results and byte views: no state that outlives a call.
- Self-tests, release, operations and production reports, the inspect and keygen tools: fixed vectors
  and text about the above.
- Frame limits and the preferred provider's name: the limits travel in hellos and are compared by
  `validate_frame_limits` alone; the name is one variable that only its getter reads.
- Objects and frames altered by someone without the keys are refused by the code, without a change of
  state, and do not appear, except hellos (`Handshake`) and the halves of hybrids (`Exchange`), which
  nothing protects on their own. The unauthenticated fields of a sealed object are taken as exported.
- A power failure that undoes completed writes appears in `Vault` as damage to a file; locks, quotas
  and permissions appear only as file operations that fail.
