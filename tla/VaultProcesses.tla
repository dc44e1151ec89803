--------------------------- MODULE VaultProcesses ---------------------------
(***************************************************************************)
(* save_vault_atomic and load_vault (src/security/vault.cpp:280-344) run by  *)
(* several processes on one path: all of them use the same .tmp and .bak     *)
(* names, and nothing excludes two of them.                                  *)
(*                                                                         *)
(* A file is its content: missing, unreadable (empty, cut off or mixed) or  *)
(* an image.  A stream stays with the file it opened when another process   *)
(* renames that file.  Writing is one step; what a process would see in the *)
(* middle of it, it sees between the opening and the writing.  Damage to    *)
(* files and a backup that does not exist yet are the subject of Vault.      *)
(***************************************************************************)
EXTENDS Naturals

CONSTANTS
  Process,     \* processes that use the vault
  MaxFaults    \* bound: saves that fail or die

VARIABLES
  primary, backup, temp,   \* the files at path, path.bak and path.tmp
  step,        \* the next step of the save a process is in, or "none"
  image,       \* what that save writes
  target,      \* the file its stream is open on: none, temp, primary or gone
  source,      \* what copy_file reads: the present primary, or one replaced since
  faults,      \* history variable: saves that failed or died
  overlapped   \* history variable: two saves have been under way at once

fileVars == <<primary, backup, temp>>
saveVars == <<step, image, target, source>>
processVars == <<fileVars, saveVars, faults, overlapped>>

-----------------------------------------------------------------------------
Absent == [kind |-> "absent"]
Torn == [kind |-> "torn"]
Holding(i) == [kind |-> "vault", image |-> i]
readable(f) == f.kind = "vault"

NoImage == << >>
Live == [kind |-> "live"]   \* copy_file reads what is the primary at the time

Step == {"none", "open", "write", "backup", "copy", "rename", "cleanup"}
saving(p) == step[p] # "none"
others_saving(p) == \E q \in Process \ {p} : saving(q)

\* load_vault: the primary, or else the backup.
load_vault ==
  IF readable(primary) THEN {primary.image}
  ELSE IF readable(backup) THEN {backup.image}
  ELSE {}

FilesInit ==
  /\ primary = Absent /\ backup = Absent /\ temp = Absent
  /\ step = [p \in Process |-> "none"]
  /\ image = [p \in Process |-> NoImage]
  /\ target = [p \in Process |-> "none"]
  /\ source = [p \in Process |-> Absent]
  /\ faults = 0 /\ overlapped = FALSE

-----------------------------------------------------------------------------
\* The save of image i begins: it is encoded, and no file touched yet.
begin_save(p, i) ==
  /\ ~saving(p)
  /\ step' = [step EXCEPT ![p] = "open"]
  /\ image' = [image EXCEPT ![p] = i]
  /\ overlapped' = (overlapped \/ others_saving(p))
  /\ UNCHANGED <<fileVars, target, source, faults>>

\* The stream truncates the file of that name, whoever else has it open.
open_temp(p) ==
  /\ step[p] = "open"
  /\ temp' = Torn
  /\ step' = [step EXCEPT ![p] = "write"]
  /\ target' = [target EXCEPT ![p] = "temp"]
  /\ UNCHANGED <<primary, backup, image, source, faults, overlapped>>

\* What a stream leaves in its file: two that are open at once mix.
written(p, f) ==
  IF f = Torn /\ \A q \in Process \ {p} : target[q] # target[p]
  THEN {Holding(image[p])}
  ELSE {Holding(image[p]), Torn}

after_write == IF primary = Absent THEN "rename" ELSE "backup"

\* Mutant: the temporary file is renamed while the stream is still open on it.
write_temp_after_rename(p) ==
  /\ step[p] = "write"
  /\ temp' = temp
  /\ IF target[p] = "primary" THEN primary' \in written(p, primary) ELSE primary' = primary
  /\ target' = target
  /\ step' = [step EXCEPT ![p] = after_write]
  /\ UNCHANGED <<backup, image, source, faults, overlapped>>

write_temp(p) ==
  /\ step[p] = "write"
  /\ IF target[p] = "temp" THEN temp' \in written(p, temp) ELSE temp' = temp
  /\ IF target[p] = "primary" THEN primary' \in written(p, primary) ELSE primary' = primary
  /\ target' = [target EXCEPT ![p] = "none"]
  /\ step' = [step EXCEPT ![p] = after_write]
  /\ UNCHANGED <<backup, image, source, faults, overlapped>>

open_backup(p) ==
  /\ step[p] = "backup"
  /\ backup' = Torn
  /\ source' = [source EXCEPT ![p] = Live]
  /\ step' = [step EXCEPT ![p] = "copy"]
  /\ UNCHANGED <<primary, temp, image, target, faults, overlapped>>

\* Two copies that run at once mix, as do a copy and a write to what it reads.
copy_backup(p) ==
  LET read == IF source[p] = Live THEN primary ELSE source[p]
      disturbed == \/ backup # Torn
                   \/ \E q \in Process \ {p} : step[q] = "copy" \/ target[q] \in {"primary", "gone"}
  IN /\ step[p] = "copy"
     /\ backup' \in {read} \cup (IF disturbed THEN {Torn} ELSE {})
     /\ source' = [source EXCEPT ![p] = Absent]
     /\ step' = [step EXCEPT ![p] = "rename"]
     /\ UNCHANGED <<primary, temp, image, target, faults, overlapped>>

moved == [t \in {"none", "temp", "primary", "gone"} |->
            CASE t = "temp" -> "primary" [] t = "primary" -> "gone" [] OTHER -> t]

\* The name moves, and with it the file that others may still write to.  When
\* another process has already renamed it, the save goes on to clean up.
rename_temp(p) ==
  /\ step[p] = "rename"
  /\ IF temp = Absent
     THEN /\ step' = [step EXCEPT ![p] = "cleanup"]
          /\ UNCHANGED <<fileVars, image, target, source>>
     ELSE /\ primary' = temp /\ temp' = Absent
          /\ target' = [q \in Process |-> moved[target[q]]]
          /\ source' = [q \in Process |-> IF source[q] = Live THEN primary ELSE source[q]]
          /\ step' = [step EXCEPT ![p] = "none"]
          /\ image' = [image EXCEPT ![p] = NoImage]
          /\ UNCHANGED backup
  /\ UNCHANGED <<faults, overlapped>>

\* The save is over without a rename: its stream and its image are gone.
end_save(p) ==
  /\ step' = [step EXCEPT ![p] = "none"]
  /\ image' = [image EXCEPT ![p] = NoImage]
  /\ target' = [target EXCEPT ![p] = "none"]
  /\ source' = [source EXCEPT ![p] = Absent]

remove_temp(p) ==
  /\ step[p] = "cleanup"
  /\ temp' = Absent
  /\ step' = [step EXCEPT ![p] = "none"]
  /\ image' = [image EXCEPT ![p] = NoImage]
  /\ target' = [q \in Process |-> IF target[q] = "temp" THEN "gone" ELSE target[q]]
  /\ UNCHANGED <<primary, backup, source, faults, overlapped>>

\* A file operation fails and the caller gets the error.
fail_save(p) ==
  /\ step[p] \in {"open", "write", "backup", "copy"} /\ faults < MaxFaults
  /\ faults' = faults + 1
  /\ end_save(p)
  /\ UNCHANGED <<fileVars, overlapped>>

\* The rename fails for another reason than a missing file.
fail_rename(p) ==
  /\ step[p] = "rename" /\ faults < MaxFaults
  /\ faults' = faults + 1
  /\ step' = [step EXCEPT ![p] = "cleanup"]
  /\ UNCHANGED <<fileVars, image, target, source, overlapped>>

\* The process dies during its save.
die(p) ==
  /\ saving(p) /\ faults < MaxFaults
  /\ faults' = faults + 1
  /\ end_save(p)
  /\ UNCHANGED <<fileVars, overlapped>>

file_step(p) == open_temp(p) \/ write_temp(p) \/ open_backup(p) \/ copy_backup(p)

=============================================================================
