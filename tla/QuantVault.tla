----------------------------- MODULE QuantVault -----------------------------
(***************************************************************************)
(* The clients of a vault: applications that keep a QuantVault facade open   *)
(* (src/facade/easy.cpp) and commands of quantlib-ssm (src/tools/ssm.cpp)   *)
(* that load the vault, do one thing and save it.  Each has the keys of its *)
(* own module in memory, and all write the same files (VaultProcesses).     *)
(*                                                                         *)
(* Abstracted: a key is a serial number with its state and its count; keys  *)
(* of both kinds sign; every key has the export flags that generation gives *)
(* it; the vault's audit log, its generation and its passphrase are Vault's *)
(* subject; a session only decides whether a signature is denied, or counted *)
(* and then withheld.  verify, public_key, keys, status and the commands    *)
(* that print change nothing.                                              *)
(***************************************************************************)
EXTENDS VaultProcesses, TLC

CONSTANTS
  KeyState,    \* the states set_state is asked for
  Limit,       \* max_operations of every key
  MaxKeys,     \* bound: keys generated
  MaxStarts,   \* bound: processes started
  MaxSaves     \* bound: saves begun

ASSUME ClientBounds == {Limit, MaxKeys, MaxStarts, MaxSaves, MaxFaults} \subseteq Nat

VARIABLES
  kind,        \* what runs in a process: nothing, a facade or a command
  autosave,    \* EasyOptions.autosave
  module,      \* the keys in the memory of the process
  doing,       \* the operation whose save is under way
  answer,      \* "ok" when the last operation has returned success
  next,        \* history variable: the serial number of the next key
  starts,      \* history variable: processes started
  saves,       \* history variable: saves begun
  knowing,     \* history variable: processes that loaded or saved what the primary holds
  stale,       \* history variable: a save has replaced a vault its process did not know
  told,        \* history variable: keys whose generation was acknowledged
  released     \* history variable: signatures handed out per key, saved ones only

clientVars == <<kind, autosave, module, doing, answer>>
ghosts == <<next, starts, saves, knowing, stale, told, released>>
vars == <<processVars, clientVars, ghosts>>

Serial == 1..MaxKeys
Operation == [name : {"none", "create", "change", "save"}, key : 0..MaxKeys]
             \cup [name : {"generate", "sign", "erase"}, key : Serial]
Idle == [name |-> "none", key |-> 0]

ClientInit ==
  /\ FilesInit
  /\ kind = [p \in Process |-> "none"]
  /\ autosave = [p \in Process |-> TRUE]
  /\ module = [p \in Process |-> NoImage]
  /\ doing = [p \in Process |-> Idle]
  /\ answer = [p \in Process |-> "none"]
  /\ next = 1 /\ starts = 0 /\ saves = 0
  /\ knowing = {} /\ stale = FALSE /\ told = {}
  /\ released = [k \in Serial |-> 0]

-----------------------------------------------------------------------------
(* The module in memory: the outcomes of its operations. *)

new_key == [state |-> "active", used |-> 0, replaced |-> FALSE]

with_key(m, k) == [j \in DOMAIN m \cup {k} |-> IF j = k THEN new_key ELSE m[j]]
without_key(m, k) == [j \in DOMAIN m \ {k} |-> m[j]]

may_sign_off_by_one(e) == e.state = "active" /\ (Limit # 0 => e.used <= Limit)   \* mutant
may_sign(e) == e.state = "active" /\ (Limit # 0 => e.used < Limit)
may_rotate(e) == e.state \notin {"destroyed", "compromised"}
may_set(e) == e.state # "destroyed"

used_once(m, k) == [m EXCEPT ![k].used = @ + 1]
set_state_of(m, k, s) == [m EXCEPT ![k].state = s]
rotated(m, k, new) ==
  with_key([m EXCEPT ![k] = [@ EXCEPT !.state = "retired", !.replaced = TRUE]], new)

\* collect_from_ssm exports every key, and an export is refused unless the key is
\* active or retired.
exportable_any_state(e) == TRUE   \* mutant
exportable(e) == e.state \in {"active", "retired"}
collectable(m) == \A k \in DOMAIN m : exportable(m[k])

-----------------------------------------------------------------------------
(* What an operation does after it has changed the module. *)

returns(p, result) ==
  /\ answer' = [answer EXCEPT ![p] = result]
  /\ doing' = [doing EXCEPT ![p] = Idle]

\* A command's process ends with its operation, whatever came of it.
exits(p) ==
  /\ kind' = [kind EXCEPT ![p] = "none"]
  /\ autosave' = [autosave EXCEPT ![p] = TRUE]
  /\ module' = [module EXCEPT ![p] = NoImage]

\* What an operation leaves alone when the process lives on.
goes_on == UNCHANGED <<kind, autosave, module>>

\* Mutant: the vault is saved without collecting the module again.
save_not_collected(p, m, op) ==
  /\ saves < MaxSaves /\ saves' = saves + 1
  /\ begin_save(p, module[p])
  /\ doing' = [doing EXCEPT ![p] = op]
  /\ module' = [module EXCEPT ![p] = m]
  /\ answer' = [answer EXCEPT ![p] = "none"]
  /\ UNCHANGED <<kind, autosave>>

\* The module becomes m, and its save begins.
save_begins(p, m, op) ==
  /\ saves < MaxSaves /\ saves' = saves + 1
  /\ begin_save(p, m)
  /\ doing' = [doing EXCEPT ![p] = op]
  /\ module' = [module EXCEPT ![p] = m]
  /\ answer' = [answer EXCEPT ![p] = "none"]
  /\ UNCHANGED <<kind, autosave>>

\* save: the collected keys are written, or the error of the first key that does
\* not export is returned, with the module as it is.
save_collected(p, m, op) ==
  \/ collectable(m) /\ save_begins(p, m, op)
  \/ /\ ~collectable(m)
     /\ returns(p, "none")
     /\ IF kind[p] = "command" THEN exits(p)
        ELSE module' = [module EXCEPT ![p] = m] /\ UNCHANGED <<kind, autosave>>
     /\ UNCHANGED <<processVars, saves>>

persist_if_needed(p, m, op) ==
  \/ /\ autosave[p]
     /\ save_collected(p, m, op)
  \/ /\ ~autosave[p]
     /\ module' = [module EXCEPT ![p] = m]
     /\ returns(p, "none")
     /\ UNCHANGED <<processVars, kind, autosave, saves>>

ready(p) == kind[p] # "none" /\ ~saving(p)
facade(p) == ready(p) /\ kind[p] = "facade"
command(p) == ready(p) /\ kind[p] = "command"

-----------------------------------------------------------------------------
\* A facade or the command init makes an empty vault and saves it, over whatever
\* is at the path.
create(p, k, auto) ==
  /\ kind[p] = "none" /\ starts < MaxStarts /\ saves < MaxSaves
  /\ kind' = [kind EXCEPT ![p] = k]
  /\ autosave' = [autosave EXCEPT ![p] = auto]
  /\ module' = [module EXCEPT ![p] = NoImage]
  /\ begin_save(p, NoImage)
  /\ doing' = [doing EXCEPT ![p] = [name |-> "create", key |-> 0]]
  /\ starts' = starts + 1 /\ saves' = saves + 1
  /\ knowing' = IF primary = Absent THEN knowing \cup {p} ELSE knowing \ {p}
  /\ answer' = [answer EXCEPT ![p] = "none"]
  /\ UNCHANGED <<next, stale, told, released>>

\* A facade opens the primary or else the backup; a command reads the primary only.
open(p, k, auto) ==
  /\ kind[p] = "none" /\ starts < MaxStarts
  /\ \E i \in IF k = "facade" THEN load_vault
              ELSE {f.image : f \in {g \in {primary} : readable(g)}} :
       module' = [module EXCEPT ![p] = i]
  /\ kind' = [kind EXCEPT ![p] = k]
  /\ autosave' = [autosave EXCEPT ![p] = auto]
  /\ answer' = [answer EXCEPT ![p] = "none"]
  /\ starts' = starts + 1
  /\ knowing' = knowing \cup {p}
  /\ UNCHANGED <<processVars, doing, next, saves, stale, told, released>>

generate(p) ==
  /\ ready(p) /\ next \in Serial
  /\ next' = next + 1
  /\ persist_if_needed(p, with_key(module[p], next), [name |-> "generate", key |-> next])
  /\ UNCHANGED <<starts, knowing, stale, told, released>>

\* Mutant: the signature is returned without waiting for the save.
sign_before_save(p, k) ==
  /\ ready(p) /\ k \in DOMAIN module[p] /\ may_sign(module[p][k])
  /\ released' = IF autosave[p] THEN [released EXCEPT ![k] = @ + 1] ELSE released
  /\ persist_if_needed(p, used_once(module[p], k), [name |-> "change", key |-> k])
  /\ UNCHANGED <<next, starts, knowing, stale, told>>

sign(p, k) ==
  /\ ready(p) /\ k \in DOMAIN module[p] /\ may_sign(module[p][k])
  /\ persist_if_needed(p, used_once(module[p], k), [name |-> "sign", key |-> k])
  /\ UNCHANGED <<next, starts, knowing, stale, told, released>>

\* The session ends while the module signs: the key has counted the operation, and
\* the caller gets an error, before anything is saved.
sign_withheld(p, k) ==
  /\ facade(p) /\ k \in DOMAIN module[p] /\ may_sign(module[p][k])
  /\ module' = [module EXCEPT ![p] = used_once(@, k)]
  /\ returns(p, "none")
  /\ UNCHANGED <<processVars, kind, autosave, ghosts>>

rotate(p, k) ==
  /\ ready(p) /\ next \in Serial /\ k \in DOMAIN module[p] /\ may_rotate(module[p][k])
  /\ next' = next + 1
  /\ persist_if_needed(p, rotated(module[p], k, next), [name |-> "generate", key |-> next])
  /\ UNCHANGED <<starts, knowing, stale, told, released>>

set_state(p, k, s) ==
  /\ facade(p) /\ k \in DOMAIN module[p] /\ may_set(module[p][k])
  /\ persist_if_needed(p, set_state_of(module[p], k, s), [name |-> "change", key |-> k])
  /\ UNCHANGED <<next, starts, knowing, stale, told, released>>

erase(p, k) ==
  /\ facade(p) /\ k \in DOMAIN module[p]
  /\ told' = told \ {k}
  /\ persist_if_needed(p, without_key(module[p], k), [name |-> "erase", key |-> k])
  /\ UNCHANGED <<next, starts, knowing, stale, released>>

\* The method save of a facade.
save(p) ==
  /\ facade(p)
  /\ save_collected(p, module[p], [name |-> "save", key |-> 0])
  /\ UNCHANGED <<next, starts, knowing, stale, told, released>>

\* The operation of a facade is refused, e.g. by the key's state: nothing changes.
refuse(p) ==
  /\ facade(p) /\ answer[p] = "ok"
  /\ returns(p, "none")
  /\ UNCHANGED <<processVars, kind, autosave, module, ghosts>>

-----------------------------------------------------------------------------
(* The commands of quantlib-ssm.  Each makes or reads the vault, does one thing and *)
(* saves; when it is refused, the process ends (exit).                        *)

command_init(p) == create(p, "command", TRUE)
command_reads(p) == open(p, "command", TRUE)
command_generate_ed25519(p) == command(p) /\ generate(p)
command_session_sign(p, k) == command(p) /\ sign(p, k)
command_rotate(p, k) == command(p) /\ rotate(p, k)

\* The sealed keys are written as they were read, the master key wrapped anew.
command_kdf_rewrap(p) ==
  /\ command(p)
  /\ save_begins(p, module[p], [name |-> "save", key |-> 0])
  /\ UNCHANGED <<next, starts, knowing, stale, told, released>>

command_step(p) ==
  \/ command_init(p) \/ command_reads(p)
  \/ command_generate_ed25519(p) \/ command_kdf_rewrap(p)
  \/ \E k \in Serial : command_session_sign(p, k) \/ command_rotate(p, k)

facade_step(p) ==
  \/ \E auto \in BOOLEAN : create(p, "facade", auto) \/ open(p, "facade", auto)
  \/ (facade(p) /\ generate(p)) \/ save(p) \/ refuse(p)
  \/ \E k \in Serial :
       \/ facade(p) /\ (sign(p, k) \/ rotate(p, k))
       \/ sign_withheld(p, k) \/ erase(p, k)
       \/ \E s \in KeyState : set_state(p, k, s)

-----------------------------------------------------------------------------
(* The save proceeds, and its end is the end of the operation. *)

proceed(p) ==
  /\ file_step(p)
  /\ IF primary' # primary
     THEN knowing' = {} /\ stale' = TRUE
     ELSE UNCHANGED <<knowing, stale>>
  /\ UNCHANGED <<clientVars, next, starts, saves, told, released>>

acknowledge(p) ==
  LET op == doing[p]
  IN /\ told' = IF op.name = "generate" THEN told \cup {op.key} ELSE told
     /\ released' = IF op.name = "sign" THEN [released EXCEPT ![op.key] = @ + 1] ELSE released

\* The temporary file is renamed and the operation returns, or the name is gone.
replace(p) ==
  /\ rename_temp(p)
  /\ IF saving(p)' THEN UNCHANGED <<clientVars, knowing, stale, told, released>>
     ELSE /\ knowing' = {p}
          /\ stale' = (stale \/ p \notin knowing)
          /\ acknowledge(p)
          /\ returns(p, "ok")
          /\ IF kind[p] = "command" THEN exits(p) ELSE goes_on
  /\ UNCHANGED <<next, starts, saves>>

\* A save that fails ends the operation with an error; the module keeps the change.
give_up(p) ==
  /\ remove_temp(p) \/ fail_save(p)
  /\ returns(p, "none")
  /\ IF kind[p] = "command" \/ doing[p].name = "create"
     THEN exits(p) ELSE goes_on
  /\ UNCHANGED ghosts

cannot_rename(p) ==
  /\ fail_rename(p)
  /\ UNCHANGED <<clientVars, ghosts>>

exit(p) ==
  /\ kind[p] # "none"
  /\ IF saving(p) THEN die(p) ELSE UNCHANGED processVars
  /\ exits(p)
  /\ returns(p, "none")
  /\ knowing' = knowing \ {p}
  /\ UNCHANGED <<next, starts, saves, stale, told, released>>

-----------------------------------------------------------------------------
ClientNext ==
  \E p \in Process :
    \/ facade_step(p) \/ command_step(p)
    \/ proceed(p) \/ replace(p) \/ give_up(p) \/ cannot_rename(p)
    \/ exit(p)

ClientSpec == ClientInit /\ [][ClientNext]_vars

-----------------------------------------------------------------------------
\* Processes may be exchanged: no statement names one.
ProcessSymmetry == Permutations(Process)

Count == IF Limit = 0 THEN Nat ELSE 0..Limit
KeyEntry == [state : KeyState \cup {"active", "retired"}, used : Count, replaced : BOOLEAN]
Image == UNION {[D -> KeyEntry] : D \in SUBSET Serial}
File == {Absent, Torn} \cup [kind : {"vault"}, image : Image]

\* Every variable has its type; a process without a client does nothing.
ClientTypeOK ==
  /\ {primary, backup, temp} \subseteq File
  /\ step \in [Process -> Step]
  /\ image \in [Process -> Image] /\ module \in [Process -> Image]
  /\ target \in [Process -> {"none", "temp", "primary", "gone"}]
  /\ source \in [Process -> File \cup {Live}]
  /\ kind \in [Process -> {"none", "facade", "command"}]
  /\ doing \in [Process -> Operation]
  /\ \A p \in Process : kind[p] = "none" => ~saving(p) /\ doing[p] = Idle
  /\ \A p \in Process : saving(p) <=> doing[p] # Idle

\* An operation returns success with this step.
Acknowledges(p) == doing[p] # Idle /\ doing'[p] = Idle /\ answer'[p] = "ok"

\* An operation that returns success has its result, and everything the process has
\* in memory, in the primary file (easy.cpp:79-88, 120-125), and what a load returns
\* changes in no other way: an operation that returns an error, and a process that
\* dies, have saved nothing (vault.cpp:287-303).  Both as long as no two saves have
\* been under way at once.
AcknowledgedIsSaved ==
  [][~overlapped' =>
       /\ \A p \in Process : Acknowledges(p) => primary' = Holding(module[p])
       /\ load_vault' # load_vault =>
            \E p \in Process : Acknowledges(p) /\ load_vault' = {module[p]}]_vars

\* What was acknowledged outlives the process: keys whose generation was
\* acknowledged are in the file until they are erased, and every signature that
\* was handed out after a save is counted there.  Two saves at once break this, as
\* does a client that saves over a vault it has not loaded.
AcknowledgedSurvives ==
  readable(primary) /\ ~overlapped /\ ~stale =>
    /\ told \subseteq DOMAIN primary.image
    /\ \A k \in DOMAIN primary.image : released[k] <= primary.image[k].used

\* The primary is unreadable only where saves have overlapped: one that fails or
\* dies, at whatever step, leaves the last vault in place (vault.cpp:287-303).
TornOnlyByOverlap == primary = Torn => overlapped

\* No vault on disk ever has a key in a state that forbids its use for good: a
\* process that disables a key, or marks it compromised, can save nothing
\* until the key is active or retired again, or erased (vault.cpp:490-493).
RevokedNeverSaved ==
  \A f \in {primary, backup, temp} : readable(f) =>
    \A k \in DOMAIN f.image : f.image[k].state \in {"active", "retired"}

\* docs/EASY.md:12: key changes are persisted automatically unless autosave is off.
\* So in a facade with autosave that alone uses the vault, with no save failing,
\* every key is in the file as it is in memory once the operation is over.
ChangesPersisted ==
  \A p \in Process :
    facade(p) /\ autosave[p] /\ starts = 1 /\ faults = 0 =>
      \A k \in DOMAIN module[p] :
        readable(primary) /\ k \in DOMAIN primary.image
          /\ primary.image[k].state = module[p][k].state

=============================================================================
