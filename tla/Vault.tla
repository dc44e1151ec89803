------------------------------- MODULE Vault -------------------------------
(***************************************************************************)
(* The vault file (src/security/vault.cpp): how a process that may die at   *)
(* any moment saves a vault through a temporary file and a backup, what the *)
(* next process loads, and the anchors that applications keep outside.      *)
(*                                                                         *)
(* Abstracted: the sealed objects are a set of keys; encryption, encoding  *)
(* and checksum make a file readable exactly if it was written completely; *)
(* the head of an audit log, a hash chain, stands for the whole log; the   *)
(* metadata that no branch reads is left out.  A process that dies leaves   *)
(* what it has written: power failures that undo completed writes (the code *)
(* never calls fsync) appear as damage.                                     *)
(***************************************************************************)
EXTENDS Naturals, Sequences

CONSTANTS
  Key,           \* keys that a module may hold
  MaxTime,       \* bound: seconds the clock advances
  MaxSaves,      \* bound: saves that take effect
  MaxSessions,   \* bound: times a vault is created or loaded
  MaxEvents,     \* bound: length of an audit log
  MaxFaults      \* bound: faults since the last but one save

ASSUME VaultBounds == {MaxTime, MaxSaves, MaxSessions, MaxEvents, MaxFaults} \subseteq Nat

EventType == {"vault_created", "vault_unlocked", "vault_saved", "command"}
Event == [type : EventType, timestamp : Nat]

\* UnlockedVault, and VaultFile: they differ in the generation only.
Contents == [vault_id : Nat, generation : Nat, objects : SUBSET Key, audit_log : Seq(Event)]
NoContents == [vault_id |-> 0, generation |-> 0, objects |-> {}, audit_log |-> << >>]

\* A file is missing, unreadable, or holds a vault.
Absent == [kind |-> "absent"]
Torn == [kind |-> "torn"]
Holding(v) == [kind |-> "vault", vault |-> v]
File == {Absent, Torn} \cup [kind : {"vault"}, vault : Contents]

\* VaultAnchor: its audit head is one log's, or empty if the application did not keep it.
NoAnchor == [kind |-> "none"]
Anchor == [kind : {"anchor"}, vault_id : Nat, generation : Nat, audit_head : SUBSET Seq(Event),
           since : Nat]

VARIABLES
  now,       \* key::unix_time_now(), in seconds
  primary,   \* the file at the vault's path
  backup,    \* the file at path.bak
  temp,      \* the file at path.tmp
  pc,        \* where the process is: closed, open, or at a step of a save
  vault,     \* the unlocked vault in memory
  image,     \* what the save under way writes
  session,   \* history variable: number of the current process
  base,      \* history variable: session that saved what this one loaded
  fallback,  \* history variable: a load has had to use the backup
  saved,     \* history variable: saves that took effect, with their sessions
  faults,    \* history variable: faults before and since the last save
  anchor     \* the anchor the application has kept

files == <<primary, backup, temp>>
process == <<pc, vault, image>>
ghosts == <<session, base, fallback, saved, faults>>
vaultVars == <<now, files, process, ghosts, anchor>>

-----------------------------------------------------------------------------
readable(f) == f.kind = "vault"

event(type) == [type |-> type, timestamp |-> now]

\* lock_vault: the file gets the next generation, the vault in memory does not.
lock_vault_same_generation(v) == v   \* mutant
lock_vault(v) == [v EXCEPT !.generation = @ + 1]

\* decode_vault: opening a vault appends an event in memory.
decode_vault(v) == [v EXCEPT !.audit_log = Append(@, event("vault_unlocked"))]

\* Mutant: the backup is tried first.
loadable_backup_first ==
  IF readable(backup) THEN {backup.vault}
  ELSE IF readable(primary) THEN {primary.vault}
  ELSE {}

\* load_vault: the primary, or else the backup.
loadable ==
  IF readable(primary) THEN {primary.vault}
  ELSE IF readable(backup) THEN {backup.vault}
  ELSE {}

verify_anchor(v, expected) ==
  /\ v.vault_id = expected.vault_id
  /\ v.generation >= expected.generation
  /\ v.generation = expected.generation => expected.audit_head \subseteq {v.audit_log}

Saving == {"temp", "backup", "copy", "rename"}
fault == <<faults[1], faults[2] + 1>>

-----------------------------------------------------------------------------
VaultInit ==
  /\ now = 0
  /\ primary = Absent /\ backup = Absent /\ temp = Absent
  /\ pc = "closed" /\ vault = NoContents /\ image = NoContents
  /\ session = 0 /\ base = 0 /\ fallback = FALSE /\ saved = << >> /\ faults = <<0, 0>>
  /\ anchor = NoAnchor

Clock ==
  /\ now < MaxTime
  /\ now' = now + 1
  /\ UNCHANGED <<files, process, ghosts, anchor>>

\* A new vault replaces whatever is at the path when it is saved.
create_vault ==
  /\ pc = "closed" /\ session < MaxSessions
  /\ pc' = "open"
  /\ vault' = [vault_id |-> session + 1, generation |-> 1, objects |-> {},
               audit_log |-> <<event("vault_created")>>]
  /\ session' = session + 1
  /\ base' = session + 1
  /\ UNCHANGED <<now, files, image, fallback, saved, faults, anchor>>

load_vault ==
  /\ pc = "closed" /\ session < MaxSessions
  /\ \E v \in loadable : Len(v.audit_log) < MaxEvents /\ vault' = decode_vault(v)
  /\ pc' = "open"
  /\ session' = session + 1
  /\ base' = saved[Len(saved)].session
  /\ fallback' = (fallback \/ ~readable(primary))
  /\ UNCHANGED <<now, files, image, saved, faults, anchor>>

\* collect_from_ssm, as the facade uses it: a fresh log with one event.
collect_from_ssm(objects) ==
  /\ pc = "open"
  /\ vault' = [vault EXCEPT !.objects = objects, !.audit_log = <<event("vault_saved")>>]
  /\ UNCHANGED <<now, files, pc, image, ghosts, anchor>>

\* The commands of quantlib-ssm: the old log is put back and events appended.
command(objects, events) ==
  /\ pc = "open"
  /\ Len(vault.audit_log) + events <= MaxEvents
  /\ vault' = [vault EXCEPT !.objects = objects,
                            !.audit_log = @ \o [i \in 1..events |-> event("command")]]
  /\ UNCHANGED <<now, files, pc, image, ghosts, anchor>>

\* What anchor_for returns, whole or without the audit head.
keep_anchor ==
  /\ pc = "open"
  /\ \E audit_head \in SUBSET {vault.audit_log} :
       anchor' = [kind |-> "anchor", vault_id |-> vault.vault_id, generation |-> vault.generation,
                  audit_head |-> audit_head, since |-> base]
  /\ UNCHANGED <<now, files, process, ghosts>>

-----------------------------------------------------------------------------
(* save_vault_atomic, one action per file operation. *)

open_temp ==
  /\ pc = "open" /\ Len(saved) < MaxSaves
  /\ temp' = Torn
  /\ image' = lock_vault(vault)
  /\ pc' = "temp"
  /\ UNCHANGED <<now, primary, backup, vault, ghosts, anchor>>

\* Mutant: the result of the write is not checked.
write_temp_unchecked ==
  /\ pc = "temp"
  /\ temp' \in {Torn, Holding(image)}
  /\ pc' = IF primary = Absent THEN "rename" ELSE "backup"
  /\ UNCHANGED <<now, primary, backup, vault, image, ghosts, anchor>>

\* Mutant: no backup is made.
write_temp_no_backup ==
  /\ pc = "temp"
  /\ temp' = Holding(image)
  /\ pc' = "rename"
  /\ UNCHANGED <<now, primary, backup, vault, image, ghosts, anchor>>

write_temp ==
  /\ pc = "temp"
  /\ temp' = Holding(image)
  /\ pc' = IF primary = Absent THEN "rename" ELSE "backup"
  /\ UNCHANGED <<now, primary, backup, vault, image, ghosts, anchor>>

open_backup ==
  /\ pc = "backup"
  /\ backup' = Torn
  /\ pc' = "copy"
  /\ UNCHANGED <<now, primary, temp, vault, image, ghosts, anchor>>

copy_backup ==
  /\ pc = "copy"
  /\ backup' = primary
  /\ pc' = "rename"
  /\ UNCHANGED <<now, primary, temp, vault, image, ghosts, anchor>>

rename_temp ==
  /\ pc = "rename"
  /\ primary' = temp
  /\ temp' = Absent
  /\ saved' = Append(saved, [image |-> image, session |-> session])
  /\ faults' = <<faults[2], 0>>
  /\ pc' = "open" /\ image' = NoContents
  /\ UNCHANGED <<now, backup, vault, session, base, fallback, anchor>>

\* An operation of the save fails: the error goes to the caller, and only a
\* failed rename cleans up.
fail_save ==
  /\ pc \in Saving /\ faults[2] < MaxFaults
  /\ temp' = IF pc = "rename" THEN Absent ELSE temp
  /\ faults' = fault
  /\ pc' = "open" /\ image' = NoContents
  /\ UNCHANGED <<now, primary, backup, vault, session, base, fallback, saved, anchor>>

\* The process ends, or dies in the middle of a save.
Exit ==
  /\ pc # "closed"
  /\ pc \in Saving => faults[2] < MaxFaults
  /\ faults' = IF pc \in Saving THEN fault ELSE faults
  /\ pc' = "closed" /\ vault' = NoContents /\ image' = NoContents
  /\ UNCHANGED <<now, files, session, base, fallback, saved, anchor>>

DamagePrimary ==
  /\ readable(primary) /\ faults[2] < MaxFaults
  /\ primary' = Torn
  /\ faults' = fault
  /\ UNCHANGED <<now, backup, temp, process, session, base, fallback, saved, anchor>>

DamageBackup ==
  /\ readable(backup) /\ faults[2] < MaxFaults
  /\ backup' = Torn
  /\ faults' = fault
  /\ UNCHANGED <<now, primary, temp, process, session, base, fallback, saved, anchor>>

Save == open_temp \/ write_temp \/ open_backup \/ copy_backup \/ rename_temp \/ fail_save

VaultNext ==
  \/ Clock
  \/ create_vault
  \/ load_vault
  \/ \E objects \in SUBSET Key : collect_from_ssm(objects)
  \/ \E objects \in SUBSET Key, events \in 1..3 : command(objects, events)
  \/ keep_anchor
  \/ Save
  \/ Exit
  \/ DamagePrimary
  \/ DamageBackup

VaultSpec == VaultInit /\ [][VaultNext]_vaultVars

-----------------------------------------------------------------------------
\* Every variable has its type; the temporary file is complete exactly between
\* its writing and its renaming, and a process without a vault has none in memory.
VaultTypeOK ==
  /\ now \in Nat
  /\ {primary, backup, temp} \subseteq File
  /\ pc \in {"closed", "open"} \cup Saving
  /\ {vault, image} \subseteq Contents
  /\ session \in Nat /\ base \in Nat
  /\ fallback \in BOOLEAN
  /\ saved \in Seq([image : Contents, session : Nat])
  /\ faults \in Nat \X Nat
  /\ anchor \in {NoAnchor} \cup Anchor
  /\ pc \in {"backup", "copy", "rename"} => temp = Holding(image)
  /\ pc = "closed" => vault = NoContents
  /\ pc \notin Saving => image = NoContents

\* Saving and loading implement a register: whatever dies or fails at whatever
\* step, an undamaged vault reads as the last save that took effect.
Register == INSTANCE VaultRegister WITH
  value <- loadable,
  pending <- IF pc \in Saving THEN {image} ELSE {},
  sound <- primary # Torn,
  stored <- {saved[i].image : i \in DOMAIN saved}

ImplementsRegister == Register!RegisterSpec

\* A vault that was saved twice survives any one fault, be it a damaged file, a
\* failed save or a process that dies during one: it loads as one of its last two
\* saves.  A fault before the last save counts too, since that save may have put
\* a damaged primary in the place of the backup.
Recoverable ==
  LET n == Len(saved)
  IN n >= 2 /\ faults[1] + faults[2] <= 1 /\ (pc \in Saving => faults = <<0, 0>>) =>
       \E v \in loadable : v \in {saved[n].image, saved[n - 1].image}

\* As long as no load had to use the backup, an anchor refuses every vault saved
\* before the session that saved what the anchor's own session had loaded.
AnchorRefusesOldSessions ==
  anchor # NoAnchor /\ ~fallback =>
    \A i \in DOMAIN saved :
      saved[i].session < anchor.since => ~verify_anchor(decode_vault(saved[i].image), anchor)

=============================================================================
