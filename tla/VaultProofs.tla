---------------------------- MODULE VaultProofs ----------------------------
(***************************************************************************)
(* Saving is atomic whatever dies when, one fault is survived, and anchors *)
(* refuse what older sessions saved: proofs about module Vault for any     *)
(* number of saves, sessions and faults.                                   *)
(***************************************************************************)
EXTENDS Vault, TLAPS

LEMMA ReadableFile ==
  ASSUME NEW f \in File
  PROVE  /\ readable(f) <=> \E v \in Contents : f = Holding(v)
         /\ readable(f) => f.vault \in Contents /\ f # Absent /\ f # Torn
         /\ ~readable(f) <=> f \in {Absent, Torn}
         /\ Absent # Torn
BY DEF File, readable, Holding, Absent, Torn

LEMMA LastElement ==
  ASSUME NEW S, NEW s \in Seq(S), s # << >>
  PROVE  /\ Len(s) \in Nat \ {0} /\ DOMAIN s = 1..Len(s)
         /\ Len(s) \in DOMAIN s /\ s[Len(s)] \in S
<1>1. Len(s) \in Nat /\ DOMAIN s = 1..Len(s) /\ Len(s) # 0
  OBVIOUS
<1>2. Len(s) \in 1..Len(s)
  BY <1>1
<1> QED BY <1>1, <1>2

LEMMA AppendedElement ==
  ASSUME NEW S, NEW s \in Seq(S), NEW e \in S
  PROVE  /\ Append(s, e) # << >>
         /\ Len(Append(s, e)) = Len(s) + 1
         /\ DOMAIN Append(s, e) = DOMAIN s \cup {Len(s) + 1}
         /\ Append(s, e)[Len(s) + 1] = e
         /\ \A i \in DOMAIN s : Append(s, e)[i] = s[i]
<1>1. Len(s) \in Nat /\ DOMAIN s = 1..Len(s) /\ Len(Append(s, e)) = Len(s) + 1
  OBVIOUS
<1>2. DOMAIN Append(s, e) = 1..(Len(s) + 1)
  BY <1>1
<1> QED BY <1>1, <1>2

LEMMA Locked ==
  ASSUME NEW v \in Contents
  PROVE  lock_vault(v) \in Contents
BY DEF lock_vault, Contents

LEMMA Decoded ==
  ASSUME NEW v \in Contents, now \in Nat
  PROVE  decode_vault(v) \in Contents
<1>1. event("vault_unlocked") \in Event
  BY DEF event, Event, EventType
<1>2. Append(v.audit_log, event("vault_unlocked")) \in Seq(Event)
  BY <1>1 DEF Contents
<1> QED BY <1>2 DEF decode_vault, Contents

LEMMA CommandEvents ==
  ASSUME now \in Nat, NEW n \in 1..3, NEW log \in Seq(Event)
  PROVE  log \o [i \in 1..n |-> event("command")] \in Seq(Event)
<1>1. event("command") \in Event
  BY DEF event, Event, EventType
<1>2. [i \in 1..n |-> event("command")] \in Seq(Event)
  BY <1>1
<1> QED BY <1>2

LEMMA Edited ==
  ASSUME NEW v \in Contents, NEW objects \in SUBSET Key, NEW log \in Seq(Event)
  PROVE  [v EXCEPT !.objects = objects, !.audit_log = log] \in Contents
<1> DEFINE w == [v EXCEPT !.objects = objects]
<1>1. w \in Contents
  BY DEF Contents
<1>2. [w EXCEPT !.audit_log = log] \in Contents
  <2> HIDE DEF w
  <2> QED BY <1>1 DEF Contents
<1> QED BY <1>2

-----------------------------------------------------------------------------
\* A primary exists once something was saved, and readable files hold what was
\* saved: the primary the last save, the backup some save.
FilesHoldSaves ==
  /\ saved = << >> => primary = Absent /\ backup = Absent
  /\ saved # << >> => primary # Absent
  /\ pc \in {"backup", "copy"} => saved # << >>
  /\ readable(primary) => primary.vault = saved[Len(saved)].image
  /\ readable(backup) => \E i \in DOMAIN saved : backup.vault = saved[i].image

LEMMA VaultTypeInit == VaultInit => VaultTypeOK /\ FilesHoldSaves
<1> SUFFICES ASSUME VaultInit PROVE VaultTypeOK /\ FilesHoldSaves
  OBVIOUS
<1>1. NoContents \in Contents /\ Absent \in File
  BY DEF NoContents, Contents, File, Absent
<1>2. saved \in Seq([image : Contents, session : Nat])
  BY DEF VaultInit
<1>3. ~readable(Absent)
  BY DEF readable, Absent
<1>4. VaultTypeOK
  BY <1>1, <1>2 DEF VaultInit, VaultTypeOK, Saving
<1> QED BY <1>3, <1>4 DEF VaultInit, FilesHoldSaves

LEMMA VaultTypeStep == VaultTypeOK /\ FilesHoldSaves /\ [VaultNext]_vaultVars => VaultTypeOK'
<1> SUFFICES ASSUME VaultTypeOK, FilesHoldSaves, [VaultNext]_vaultVars
             PROVE  VaultTypeOK'
  OBVIOUS
<1> USE DEF VaultTypeOK
<1>0. NoContents \in Contents /\ Absent \in File /\ Torn \in File
  BY DEF NoContents, Contents, File, Absent, Torn
<1>1. CASE Clock
  BY <1>1 DEF Clock, files, process, ghosts
<1>2. CASE create_vault
  <2>1. event("vault_created") \in Event
    BY DEF event, Event, EventType
  <2>2. vault' \in Contents
    BY <1>2, <2>1 DEF create_vault, Contents
  <2> QED BY <1>2, <2>2 DEF create_vault, files, Saving
<1>3. CASE load_vault
  <2>1. PICK v \in loadable : vault' = decode_vault(v)
    BY <1>3 DEF load_vault
  <2>2. v \in Contents
    BY <2>1, ReadableFile DEF loadable
  <2>3. vault' \in Contents
    BY <2>1, <2>2, Decoded
  <2>4. saved # << >>
    BY <2>1, ReadableFile DEF loadable, FilesHoldSaves
  <2>5. saved[Len(saved)] \in [image : Contents, session : Nat]
    BY <2>4, LastElement
  <2>6. saved[Len(saved)].session \in Nat
    BY <2>5
  <2>7. base' \in Nat
    BY <1>3, <2>6 DEF load_vault
  <2> QED BY <1>3, <2>3, <2>7 DEF load_vault, files, Saving
<1>4. ASSUME NEW objects \in SUBSET Key, collect_from_ssm(objects)
      PROVE  VaultTypeOK'
  <2>1. event("vault_saved") \in Event
    BY DEF event, Event, EventType
  <2>2. <<event("vault_saved")>> \in Seq(Event)
    BY <2>1
  <2>3. vault' \in Contents
    BY <1>4, <2>2, Edited DEF collect_from_ssm
  <2> QED BY <1>4, <2>3 DEF collect_from_ssm, files, ghosts, Saving
<1>5. ASSUME NEW objects \in SUBSET Key, NEW events \in 1..3, command(objects, events)
      PROVE  VaultTypeOK'
  <2>1. vault.audit_log \in Seq(Event)
    BY DEF Contents
  <2>2. vault.audit_log \o [i \in 1..events |-> event("command")] \in Seq(Event)
    BY <2>1, CommandEvents
  <2>3. vault' \in Contents
    BY <1>5, <2>2, Edited DEF command
  <2> QED BY <1>5, <2>3 DEF command, files, ghosts, Saving
<1>6. CASE keep_anchor
  <2>1. anchor' \in Anchor
    <3>1. PICK head \in SUBSET {vault.audit_log} :
            anchor' = [kind |-> "anchor", vault_id |-> vault.vault_id,
                       generation |-> vault.generation, audit_head |-> head, since |-> base]
      BY <1>6 DEF keep_anchor
    <3>2. head \in SUBSET Seq(Event) /\ vault.vault_id \in Nat /\ vault.generation \in Nat
      BY DEF VaultTypeOK, Contents
    <3> QED BY <3>1, <3>2 DEF VaultTypeOK, Anchor
  <2> QED BY <1>6, <2>1 DEF keep_anchor, files, process, ghosts
<1>7. CASE open_temp
  BY <1>0, <1>7, Locked DEF open_temp, ghosts, Saving
<1>8. CASE write_temp
  <2>1. Holding(image) \in File
    BY DEF Holding, File
  <2> QED BY <1>8, <2>1 DEF write_temp, ghosts, Saving
<1>9. CASE open_backup
  BY <1>0, <1>9 DEF open_backup, ghosts, Saving
<1>10. CASE copy_backup
  BY <1>10 DEF copy_backup, ghosts, Saving
<1>11. CASE rename_temp
  <2>1. saved' \in Seq([image : Contents, session : Nat])
    BY <1>11 DEF rename_temp
  <2> QED BY <1>0, <1>11, <2>1 DEF rename_temp, Saving
<1>12. CASE fail_save
  BY <1>0, <1>12 DEF fail_save, Saving, fault
<1>13. CASE Exit
  BY <1>0, <1>13 DEF Exit, Saving, fault, files
<1>14. CASE DamagePrimary
  BY <1>0, <1>14 DEF DamagePrimary, Saving, fault, process
<1>15. CASE DamageBackup
  BY <1>0, <1>15 DEF DamageBackup, Saving, fault, process
<1>16. CASE UNCHANGED vaultVars
  BY <1>16 DEF vaultVars, files, process, ghosts
<1> QED
  BY <1>1, <1>2, <1>3, <1>4, <1>5, <1>6, <1>7, <1>8, <1>9, <1>10, <1>11, <1>12, <1>13, <1>14,
     <1>15, <1>16 DEF VaultNext, Save

-----------------------------------------------------------------------------
\* What survives one fault.  As long as nothing failed since the last save, the
\* primary is readable; as long as nothing failed since the last but one, the
\* backup is one of the last two saves, except while it is being overwritten;
\* and if the first fault since then damages the primary, the backup remains.
BackupIsRecent ==
  /\ readable(backup)
  /\ backup.vault \in {saved[Len(saved)].image, saved[Len(saved) - 1].image}

OneFaultSurvived ==
  /\ faults[2] = 0 /\ saved # << >> => readable(primary)
  /\ pc = "rename" /\ faults[2] = 0 /\ saved # << >> => backup = primary
  /\ Len(saved) >= 2 /\ faults = <<0, 0>> /\ pc # "copy" => BackupIsRecent
  /\ Len(saved) >= 2 /\ faults = <<0, 1>> /\ pc \notin Saving /\ ~readable(primary) =>
       BackupIsRecent

VaultInv == VaultTypeOK /\ FilesHoldSaves /\ OneFaultSurvived

LEMMA VaultInvInit == VaultInit => VaultInv
<1> SUFFICES ASSUME VaultInit PROVE VaultInv
  OBVIOUS
<1>1. VaultTypeOK /\ FilesHoldSaves
  BY VaultTypeInit
<1>2. OneFaultSurvived
  BY DEF VaultInit, OneFaultSurvived
<1> QED BY <1>1, <1>2 DEF VaultInv

LEMMA FilesStep == VaultInv /\ [VaultNext]_vaultVars => FilesHoldSaves'
<1> SUFFICES ASSUME VaultInv, [VaultNext]_vaultVars
             PROVE  FilesHoldSaves'
  OBVIOUS
<1>0. VaultTypeOK /\ FilesHoldSaves
  BY DEF VaultInv
<1>1. ASSUME UNCHANGED <<primary, backup, saved>>, pc' = pc \/ pc' \notin {"backup", "copy"}
      PROVE  FilesHoldSaves'
  BY <1>0, <1>1 DEF FilesHoldSaves, readable
<1>2. CASE write_temp
  BY <1>0, <1>2 DEF write_temp, ghosts, FilesHoldSaves, readable
<1>3. CASE open_backup
  BY <1>0, <1>3 DEF open_backup, ghosts, FilesHoldSaves, readable, Torn
<1>4. CASE copy_backup
  <2>1. saved # << >> /\ Len(saved) \in DOMAIN saved
    BY <1>0, <1>4, LastElement DEF copy_backup, FilesHoldSaves, VaultTypeOK
  <2> QED BY <1>0, <1>4, <2>1 DEF copy_backup, ghosts, FilesHoldSaves, readable
<1>5. CASE rename_temp
  <2>1. primary' = Holding(image) /\ backup' = backup /\ pc' = "open"
    BY <1>0, <1>5 DEF rename_temp, VaultTypeOK
  <2> DEFINE S == [image : Contents, session : Nat]
             e == [image |-> image, session |-> session]
  <2>2. saved \in Seq(S) /\ e \in S /\ saved' = Append(saved, e)
    BY <1>0, <1>5 DEF rename_temp, VaultTypeOK
  <2>3. /\ saved' # << >> /\ saved'[Len(saved')] = e
        /\ \A i \in DOMAIN saved : i \in DOMAIN saved' /\ saved'[i] = saved[i]
    <3> HIDE DEF S, e
    <3> QED BY <2>2, AppendedElement
  <2>4. primary' # Absent /\ primary'.vault = saved'[Len(saved')].image
    BY <2>1, <2>3 DEF Holding, Absent
  <2> QED BY <1>0, <2>1, <2>3, <2>4 DEF FilesHoldSaves, readable
<1>6. CASE DamagePrimary
  BY <1>0, <1>6 DEF DamagePrimary, process, FilesHoldSaves, readable, Torn, Absent
<1>7. CASE DamageBackup
  BY <1>0, <1>7 DEF DamageBackup, process, FilesHoldSaves, readable, Torn, Absent
<1> QED
  BY <1>1, <1>2, <1>3, <1>4, <1>5, <1>6, <1>7
  DEF VaultNext, Save, Clock, create_vault, load_vault, collect_from_ssm, command, keep_anchor,
      open_temp, fail_save, Exit, vaultVars, files, process, ghosts

LEMMA FaultStep == VaultInv /\ [VaultNext]_vaultVars => OneFaultSurvived'
<1> SUFFICES ASSUME VaultInv, [VaultNext]_vaultVars
             PROVE  OneFaultSurvived'
  OBVIOUS
<1>0. VaultTypeOK /\ FilesHoldSaves /\ OneFaultSurvived
  BY DEF VaultInv
<1>f. PICK f \in Nat, g \in Nat : faults = <<f, g>>
  BY <1>0 DEF VaultTypeOK
<1>1. ASSUME UNCHANGED <<primary, backup, saved, faults>>,
             pc' = pc \/ (pc \notin Saving /\ pc' \notin {"copy", "rename"})
      PROVE  OneFaultSurvived'
  BY <1>0, <1>1 DEF OneFaultSurvived, BackupIsRecent, readable, Saving
<1>2. CASE write_temp
  BY <1>0, <1>2 DEF write_temp, ghosts, OneFaultSurvived, FilesHoldSaves, BackupIsRecent, readable,
                    Saving
<1>3. CASE open_backup
  BY <1>0, <1>3 DEF open_backup, ghosts, OneFaultSurvived, readable, Saving
<1>4. CASE copy_backup
  BY <1>0, <1>4 DEF copy_backup, ghosts, OneFaultSurvived, FilesHoldSaves, BackupIsRecent, readable,
                    Saving
<1>5. CASE rename_temp
  <2>1. readable(primary') /\ backup' = backup /\ pc' = "open" /\ faults' = <<g, 0>>
    BY <1>0, <1>f, <1>5 DEF rename_temp, VaultTypeOK, Holding, readable
  <2>2. ASSUME Len(saved') >= 2, g = 0
        PROVE  BackupIsRecent'
    <3> DEFINE S == [image : Contents, session : Nat]
               e == [image |-> image, session |-> session]
    <3>1. saved \in Seq(S) /\ e \in S /\ saved' = Append(saved, e)
      BY <1>0, <1>5 DEF rename_temp, VaultTypeOK
    <3>2. Len(saved) \in DOMAIN saved /\ saved # << >>
          /\ saved'[Len(saved') - 1] = saved[Len(saved)]
      <4> HIDE DEF S, e
      <4>1. Len(saved) \in Nat /\ Len(saved') = Len(saved) + 1
        BY <3>1, AppendedElement
      <4>2. saved # << >>
        BY <2>2, <4>1
      <4> QED BY <3>1, <4>1, <4>2, AppendedElement, LastElement
    <3>3. backup = primary /\ readable(primary) /\ primary.vault = saved[Len(saved)].image
      BY <1>0, <1>f, <1>5, <2>2, <3>2 DEF rename_temp, OneFaultSurvived, FilesHoldSaves
    <3> QED BY <2>1, <3>2, <3>3 DEF BackupIsRecent
  <2> QED BY <2>1, <2>2 DEF OneFaultSurvived
<1>6. CASE fail_save \/ Exit
  <2>1. CASE pc \in Saving
    <3>1. faults' = <<f, g + 1>>
      BY <1>f, <1>6, <2>1 DEF fail_save, Exit, fault
    <3>2. UNCHANGED <<primary, backup, saved>>
      BY <1>6 DEF fail_save, Exit, files
    <3>3. ASSUME Len(saved) >= 2, faults' = <<0, 1>>
          PROVE  readable(primary')
      BY <1>0, <1>f, <3>1, <3>2, <3>3, LastElement DEF OneFaultSurvived, readable
    <3> QED BY <1>f, <3>1, <3>2, <3>3 DEF OneFaultSurvived
  <2>2. CASE pc \notin Saving
    BY <1>1, <1>6, <2>2 DEF fail_save, Exit, files
  <2> QED BY <2>1, <2>2
<1>7. CASE DamagePrimary
  <2>1. faults' = <<f, g + 1>> /\ UNCHANGED <<backup, saved, pc>>
    BY <1>f, <1>7 DEF DamagePrimary, fault, process
  <2> QED BY <1>0, <1>f, <2>1 DEF OneFaultSurvived, BackupIsRecent, Saving
<1>8. CASE DamageBackup
  <2>1. faults' = <<f, g + 1>> /\ UNCHANGED <<primary, saved, pc>>
    BY <1>f, <1>8 DEF DamageBackup, fault, process
  <2>2. ASSUME Len(saved) >= 2, faults' = <<0, 1>>
        PROVE  readable(primary')
    BY <1>0, <1>f, <2>1, <2>2 DEF OneFaultSurvived, readable
  <2> QED BY <1>f, <2>1, <2>2 DEF OneFaultSurvived
<1> QED
  BY <1>1, <1>2, <1>3, <1>4, <1>5, <1>6, <1>7, <1>8
  DEF VaultNext, Save, Clock, create_vault, load_vault, collect_from_ssm, command, keep_anchor,
      open_temp, vaultVars, files, process, ghosts, Saving

LEMMA VaultInvStep == VaultInv /\ [VaultNext]_vaultVars => VaultInv'
BY VaultTypeStep, FilesStep, FaultStep DEF VaultInv

-----------------------------------------------------------------------------
\* The state of vault.cpp's files and of the process keeps its types, and the
\* temporary file that rename_temp puts in place of the primary is complete.
THEOREM VaultTypeCorrect == VaultSpec => []VaultTypeOK
<1>1. VaultInv => VaultTypeOK
  BY DEF VaultInv
<1> QED BY VaultInvInit, VaultInvStep, <1>1, PTL DEF VaultSpec

\* load_vault finds one of the last two saves after any one fault since the last
\* save but one, for any number of saves and whatever the processes do.
THEOREM VaultSurvivesOneFault == VaultSpec => []Recoverable
<1>1. ASSUME VaultInv PROVE Recoverable
  <2> SUFFICES ASSUME Len(saved) >= 2, faults[1] + faults[2] <= 1, pc \in Saving => faults = <<0, 0>>
               PROVE  \E v \in loadable : v \in {saved[Len(saved)].image, saved[Len(saved) - 1].image}
    BY DEF Recoverable
  <2>1. VaultTypeOK /\ FilesHoldSaves /\ OneFaultSurvived
    BY <1>1 DEF VaultInv
  <2>2. CASE readable(primary)
    BY <2>1, <2>2 DEF FilesHoldSaves, loadable
  <2>3. CASE ~readable(primary)
    <3>1. PICK f \in Nat, g \in Nat : faults = <<f, g>>
      BY <2>1 DEF VaultTypeOK
    <3>2. saved # << >>
      BY <2>1 DEF VaultTypeOK
    <3>3. g # 0
      BY <2>1, <2>3, <3>1, <3>2 DEF OneFaultSurvived
    <3>4. faults = <<0, 1>> /\ pc \notin Saving
      BY <3>1, <3>3
    <3>5. BackupIsRecent
      BY <2>1, <2>3, <3>4 DEF OneFaultSurvived
    <3> QED BY <2>3, <3>5 DEF BackupIsRecent, loadable
  <2> QED BY <2>2, <2>3
<1> QED BY VaultInvInit, VaultInvStep, <1>1, PTL DEF VaultSpec

-----------------------------------------------------------------------------
LEMMA RegisterStarts == VaultInit => Register!RegisterInit
BY DEF VaultInit, Register!RegisterInit, loadable, readable, Absent, Torn, Saving

\* Every step of a save other than rename_temp leaves the register alone, or
\* makes a damaged one worse; rename_temp is where the save takes effect.
LEMMA RegisterStep ==
  VaultInv /\ [VaultNext]_vaultVars => [Register!RegisterNext]_(Register!registerVars)
<1> SUFFICES ASSUME VaultInv, [VaultNext]_vaultVars
             PROVE  Register!RegisterNext \/ UNCHANGED Register!registerVars
  OBVIOUS
<1> USE DEF Register!RegisterNext, Register!registerVars
<1>0. VaultTypeOK /\ FilesHoldSaves /\ OneFaultSurvived
  BY DEF VaultInv
<1>1. ASSUME UNCHANGED <<primary, backup, saved>>, pc \notin Saving, pc' \notin Saving
      PROVE  UNCHANGED Register!registerVars
  BY <1>1 DEF loadable, readable
<1>2. ASSUME UNCHANGED <<primary, backup, saved, image>>, pc' \in Saving <=> pc \in Saving
      PROVE  UNCHANGED Register!registerVars
  BY <1>2 DEF loadable, readable
<1>3. CASE open_temp
  <2>1. image' \in Contents
    BY <1>0, <1>3, Locked DEF open_temp, VaultTypeOK
  <2>2. pc \notin Saving /\ pc' \in Saving /\ UNCHANGED <<primary, backup, saved>>
    BY <1>3 DEF open_temp, ghosts, Saving
  <2>3. UNCHANGED <<loadable, primary, saved>>
    BY <2>2 DEF loadable, readable
  <2> QED BY <2>1, <2>2, <2>3 DEF Register!Begin
<1>4. CASE write_temp
  BY <1>2, <1>4 DEF write_temp, ghosts, Saving
<1>5. CASE open_backup \/ copy_backup
  <2>1. /\ pc \in Saving /\ pc' \in Saving /\ UNCHANGED <<primary, saved, image>>
        /\ backup' \in {Torn, primary}
    BY <1>5 DEF open_backup, copy_backup, ghosts, Saving
  <2>2. CASE readable(primary)
    BY <2>1, <2>2 DEF loadable, readable
  <2>3. CASE ~readable(primary)
    <3>1. primary = Torn /\ ~readable(Torn)
      BY <1>0, <1>5, <2>3, ReadableFile
      DEF VaultTypeOK, FilesHoldSaves, open_backup, copy_backup, readable, Torn
    <3>2. loadable' = {}
      BY <2>1, <3>1 DEF loadable, readable
    <3>3. Register!Decay
      BY <2>1, <3>1, <3>2 DEF Register!Decay, Register!Earlier
    <3> QED BY <3>3
  <2> QED BY <2>2, <2>3
<1>6. CASE rename_temp
  <2>1. /\ primary' = Holding(image) /\ pc \in Saving /\ pc' \notin Saving
    BY <1>0, <1>6 DEF rename_temp, VaultTypeOK, Saving
  <2>2. loadable' = {image} /\ primary' # Torn
    BY <2>1 DEF loadable, readable, Holding, Torn
  <2> DEFINE S == [image : Contents, session : Nat]
             e == [image |-> image, session |-> session]
  <2>3. saved \in Seq(S) /\ e \in S /\ saved' = Append(saved, e) /\ e.image = image
    BY <1>0, <1>6 DEF rename_temp, VaultTypeOK
  <2>4. {saved'[i].image : i \in DOMAIN saved'} = {saved[i].image : i \in DOMAIN saved} \cup {image}
    <3> HIDE DEF S, e
    <3> QED BY <2>3, AppendedElement
  <2> QED BY <2>1, <2>2, <2>4 DEF Register!TakeEffect
<1>7. CASE fail_save \/ Exit
  <2>1. pc' \notin Saving /\ UNCHANGED <<primary, backup, saved>>
    BY <1>7 DEF fail_save, Exit, files, Saving
  <2>2. UNCHANGED <<loadable, primary, saved>>
    BY <2>1 DEF loadable, readable
  <2> QED BY <2>1, <2>2 DEF Register!Abandon
<1>8. CASE DamagePrimary
  <2>1. /\ primary' = Torn /\ UNCHANGED <<backup, saved, pc, image>>
    BY <1>8 DEF DamagePrimary, process
  <2>2. loadable' \in {{}} \cup {{v} : v \in {saved[i].image : i \in DOMAIN saved}}
    BY <1>0, <2>1 DEF loadable, readable, Torn, FilesHoldSaves
  <2> QED BY <2>1, <2>2 DEF Register!Damage, Register!Earlier
<1>9. CASE DamageBackup
  <2>1. /\ backup' = Torn /\ UNCHANGED <<primary, saved, pc, image>> /\ readable(backup)
    BY <1>9 DEF DamageBackup, process
  <2>2. CASE readable(primary)
    BY <2>1, <2>2 DEF loadable, readable
  <2>3. CASE ~readable(primary)
    <3>1. primary = Torn
      BY <1>0, <2>1, <2>3, ReadableFile DEF VaultTypeOK, FilesHoldSaves, readable, Absent
    <3>2. loadable' = {}
      BY <2>1, <3>1 DEF loadable, readable, Torn
    <3> QED BY <2>1, <3>1, <3>2 DEF Register!Decay, Register!Earlier
  <2> QED BY <2>2, <2>3
<1> QED
  BY <1>1, <1>2, <1>3, <1>4, <1>5, <1>6, <1>7, <1>8, <1>9
  DEF VaultNext, Save, Clock, create_vault, load_vault, collect_from_ssm, command, keep_anchor,
      vaultVars, files, process, ghosts, Saving

\* save_vault_atomic is atomic: with the process dying or failing at any step of
\* it, load_vault returns what the register of module VaultRegister returns.
THEOREM SavesAreAtomic == VaultSpec => ImplementsRegister
BY VaultInvInit, VaultInvStep, RegisterStarts, RegisterStep, PTL
DEF VaultSpec, ImplementsRegister, Register!RegisterSpec


-----------------------------------------------------------------------------
\* Generations.  While no load had to use the backup, the saves of one vault grow in
\* generation from session to session, and those of one session share it.
Before(x, y) ==
  /\ x.session <= y.session
  /\ x.image.vault_id = y.image.vault_id =>
       IF x.session = y.session THEN x.image.generation = y.image.generation
                                ELSE x.image.generation < y.image.generation

LastIsNewest == \A i \in DOMAIN saved : Before(saved[i], saved[Len(saved)])

\* Saves of vault id by sessions before s have a generation below g.
Outdated(id, g, s) ==
  \A i \in DOMAIN saved :
    saved[i].image.vault_id = id /\ saved[i].session < s => saved[i].image.generation < g

\* A session's saves are one generation above what it loaded or created.
MemoryIsNewest ==
  /\ base <= session
  /\ Outdated(vault.vault_id, vault.generation, base)
  /\ \A i \in DOMAIN saved :
       saved[i].image.vault_id = vault.vault_id =>
         IF saved[i].session = session THEN saved[i].image.generation = vault.generation + 1
                                       ELSE saved[i].image.generation <= vault.generation

\* A vault is named after the session that created it.
SavesBounded ==
  /\ vault.vault_id <= session
  /\ \A i \in DOMAIN saved :
       saved[i].image.vault_id <= saved[i].session /\ saved[i].session <= session

ImageIsNext ==
  pc \in Saving => image.vault_id = vault.vault_id /\ image.generation = vault.generation + 1

AnchorIsNewest ==
  anchor # NoAnchor =>
    anchor.since <= session /\ Outdated(anchor.vault_id, anchor.generation, anchor.since)

GenerationInv ==
  /\ SavesBounded /\ ImageIsNext
  /\ ~fallback => /\ LastIsNewest
                  /\ pc # "closed" => MemoryIsNewest
                  /\ AnchorIsNewest

LEMMA SavedTypes ==
  ASSUME VaultTypeOK
  PROVE  \A i \in DOMAIN saved :
           /\ saved[i].session \in Nat /\ saved[i].image \in Contents
           /\ saved[i].image.vault_id \in Nat /\ saved[i].image.generation \in Nat
<1> DEFINE S == [image : Contents, session : Nat]
<1>1. saved \in Seq(S)
  BY DEF VaultTypeOK
<1>2. \A i \in DOMAIN saved : saved[i] \in S
  <2> HIDE DEF S
  <2> QED BY <1>1
<1> QED BY <1>2 DEF Contents

\* Steps that save nothing and begin no session.
LEMMA GenerationsKept ==
  ASSUME GenerationInv, session \in Nat, UNCHANGED <<saved, session, base, fallback, anchor>>,
         \/ pc' = "closed" /\ vault'.vault_id = 0
         \/ /\ pc' # "closed" => pc # "closed"
            /\ vault'.vault_id = vault.vault_id /\ vault'.generation = vault.generation,
         ImageIsNext'
  PROVE  GenerationInv'
BY DEF GenerationInv, SavesBounded, LastIsNewest, MemoryIsNewest, AnchorIsNewest, Outdated, Before

LEMMA GenerationStep == VaultInv /\ GenerationInv /\ [VaultNext]_vaultVars => GenerationInv'
<1> SUFFICES ASSUME VaultInv, GenerationInv, [VaultNext]_vaultVars
             PROVE  GenerationInv'
  OBVIOUS
<1>0. VaultTypeOK /\ FilesHoldSaves /\ VaultTypeOK'
  BY VaultInvStep DEF VaultInv
<1>v. /\ vault \in Contents /\ vault.vault_id \in Nat /\ vault.generation \in Nat
      /\ session \in Nat /\ base \in Nat /\ fallback \in BOOLEAN
  BY <1>0 DEF VaultTypeOK, Contents
<1>1. CASE Clock \/ DamagePrimary \/ DamageBackup \/ UNCHANGED vaultVars
  <2>1. UNCHANGED <<saved, session, base, fallback, anchor, pc, vault, image>>
    BY <1>1 DEF Clock, DamagePrimary, DamageBackup, vaultVars, process, ghosts
  <2> QED BY <1>v, <2>1, GenerationsKept DEF ImageIsNext, GenerationInv
<1>2. CASE create_vault
  <2> DEFINE made == [vault_id |-> session + 1, generation |-> 1, objects |-> {},
                      audit_log |-> <<event("vault_created")>>]
  <2>1. /\ vault'.vault_id = session + 1 /\ vault'.generation = 1
        /\ session' = session + 1 /\ base' = session + 1 /\ pc' = "open"
        /\ UNCHANGED <<saved, fallback, anchor>>
    BY <1>2 DEF create_vault
  <2>2. SavesBounded' /\ ImageIsNext'
    BY <1>0, <1>v, <2>1, SavedTypes DEF GenerationInv, SavesBounded, ImageIsNext, Saving
  <2>3. LastIsNewest => LastIsNewest'
    BY <2>1 DEF LastIsNewest, Before
  <2>4. MemoryIsNewest'
    BY <1>0, <1>v, <2>1, SavedTypes DEF GenerationInv, SavesBounded, MemoryIsNewest, Outdated
  <2>5. AnchorIsNewest => AnchorIsNewest'
    BY <1>0, <1>v, <2>1 DEF AnchorIsNewest, Outdated, VaultTypeOK, Anchor
  <2> QED BY <2>1, <2>2, <2>3, <2>4, <2>5 DEF GenerationInv
<1>3. CASE load_vault
  <2>1. /\ session' = session + 1 /\ pc' = "open"
        /\ base' = saved[Len(saved)].session
        /\ fallback' = (fallback \/ ~readable(primary))
        /\ UNCHANGED <<saved, anchor>>
    BY <1>3 DEF load_vault
  <2>l. PICK k \in DOMAIN saved :
          /\ saved[k].image.vault_id \in Nat /\ vault'.vault_id = saved[k].image.vault_id
    <3>1. PICK v \in loadable : vault' = decode_vault(v)
      BY <1>3 DEF load_vault
    <3>2. PICK n \in DOMAIN saved : v = saved[n].image
      BY <1>0, LastElement DEF loadable, FilesHoldSaves, VaultTypeOK, readable, Absent
    <3>3. v \in Contents /\ v.vault_id \in Nat
      BY <1>0, <3>2, SavedTypes
    <3>4. decode_vault(v).vault_id = v.vault_id
      BY <3>3 DEF decode_vault, Contents
    <3> QED BY <3>1, <3>2, <3>3, <3>4
  <2>2. SavesBounded' /\ ImageIsNext'
    BY <1>0, <1>v, <2>1, <2>l, SavedTypes DEF GenerationInv, SavesBounded, ImageIsNext, Saving
  <2>3. LastIsNewest => LastIsNewest'
    BY <2>1 DEF LastIsNewest, Before
  <2>4. AnchorIsNewest => AnchorIsNewest'
    BY <1>0, <1>v, <2>1 DEF AnchorIsNewest, Outdated, VaultTypeOK, Anchor
  <2>5. ASSUME ~fallback' PROVE MemoryIsNewest'
    <3>1. ~fallback /\ readable(primary) /\ LastIsNewest
      BY <1>v, <2>1, <2>5 DEF GenerationInv
    <3>2. saved # << >> /\ vault' = decode_vault(saved[Len(saved)].image)
      BY <1>0, <1>3, <3>1 DEF load_vault, loadable, FilesHoldSaves, readable, Absent
    <3>3. Len(saved) \in DOMAIN saved
      BY <1>0, <3>2, LastElement DEF VaultTypeOK
    <3> DEFINE last == saved[Len(saved)]
    <3>4. /\ last.image \in Contents /\ last.session \in Nat /\ last.session <= session
          /\ last.image.vault_id \in Nat /\ last.image.generation \in Nat
          /\ last.image.vault_id <= last.session
      BY <1>0, <3>3, SavedTypes DEF GenerationInv, SavesBounded
    <3>5. vault'.vault_id = last.image.vault_id /\ vault'.generation = last.image.generation
      BY <3>2, <3>4 DEF decode_vault, Contents
    <3> HIDE DEF last
    <3>6. \A i \in DOMAIN saved : Before(saved[i], last) /\ saved[i].session <= session
      BY <3>1 DEF LastIsNewest, last, GenerationInv, SavesBounded
    <3>7. base' = last.session
      BY <2>1 DEF last
    <3> QED
      BY <1>0, <1>v, <2>1, <3>4, <3>5, <3>6, <3>7, SavedTypes
      DEF MemoryIsNewest, Outdated, Before
  <2> QED BY <1>v, <2>1, <2>2, <2>3, <2>4, <2>5 DEF GenerationInv
<1>4. ASSUME NEW objects \in SUBSET Key, collect_from_ssm(objects) PROVE GenerationInv'
  <2>1. /\ UNCHANGED <<saved, session, base, fallback, anchor, pc>> /\ pc = "open"
        /\ vault'.vault_id = vault.vault_id /\ vault'.generation = vault.generation
    BY <1>v, <1>4 DEF collect_from_ssm, ghosts, Contents
  <2> QED BY <1>v, <2>1, GenerationsKept DEF ImageIsNext, Saving
<1>5. ASSUME NEW objects \in SUBSET Key, NEW events \in 1..3, command(objects, events)
      PROVE  GenerationInv'
  <2>1. /\ UNCHANGED <<saved, session, base, fallback, anchor, pc>> /\ pc = "open"
        /\ vault'.vault_id = vault.vault_id /\ vault'.generation = vault.generation
    BY <1>v, <1>5 DEF command, ghosts, Contents
  <2> QED BY <1>v, <2>1, GenerationsKept DEF ImageIsNext, Saving
<1>6. CASE keep_anchor
  <2>1. /\ UNCHANGED <<saved, session, base, fallback, pc, vault, image>> /\ pc = "open"
        /\ anchor'.since = base /\ anchor'.vault_id = vault.vault_id
        /\ anchor'.generation = vault.generation
    BY <1>6 DEF keep_anchor, process, ghosts
  <2>2. SavesBounded' /\ ImageIsNext' /\ (LastIsNewest => LastIsNewest')
    BY <2>1 DEF GenerationInv, SavesBounded, ImageIsNext, LastIsNewest, Before
  <2>3. MemoryIsNewest => MemoryIsNewest' /\ AnchorIsNewest'
    BY <2>1 DEF MemoryIsNewest, AnchorIsNewest, Outdated
  <2> QED BY <2>1, <2>2, <2>3 DEF GenerationInv
<1>7. CASE open_temp
  <2>1. /\ UNCHANGED <<saved, session, base, fallback, anchor, vault>>
        /\ pc = "open" /\ image' = lock_vault(vault)
    BY <1>7 DEF open_temp, ghosts
  <2>2. ImageIsNext'
    BY <1>v, <2>1 DEF ImageIsNext, lock_vault, Contents
  <2> QED BY <1>v, <2>1, <2>2, GenerationsKept
<1>8. CASE write_temp \/ open_backup \/ copy_backup
  <2>1. UNCHANGED <<saved, session, base, fallback, anchor, vault, image>> /\ pc \in Saving
    BY <1>8 DEF write_temp, open_backup, copy_backup, ghosts, Saving
  <2>2. ImageIsNext'
    BY <2>1 DEF ImageIsNext, GenerationInv
  <2> QED BY <1>v, <2>1, <2>2, GenerationsKept DEF Saving
<1>9. CASE rename_temp
  <2> DEFINE S == [image : Contents, session : Nat]
             e == [image |-> image, session |-> session]
  <2>1. saved \in Seq(S) /\ e \in S /\ saved' = Append(saved, e)
    BY <1>0, <1>9 DEF rename_temp, VaultTypeOK
  <2>2. /\ UNCHANGED <<session, base, fallback, anchor, vault>>
        /\ pc = "rename" /\ pc' = "open"
    BY <1>9 DEF rename_temp
  <2>3. /\ e.session = session /\ e.image = image
        /\ e.image.vault_id = vault.vault_id /\ e.image.generation = vault.generation + 1
    BY <2>2 DEF GenerationInv, ImageIsNext, Saving
  <2>4. /\ DOMAIN saved' = DOMAIN saved \cup {Len(saved) + 1}
        /\ Len(saved') = Len(saved) + 1 /\ saved'[Len(saved) + 1] = e
        /\ \A i \in DOMAIN saved : saved'[i] = saved[i]
    <3> HIDE DEF S, e
    <3> QED BY <2>1, AppendedElement
  <2> HIDE DEF S, e
  <2>5. /\ \A i \in DOMAIN saved' : saved'[i] = e \/ (i \in DOMAIN saved /\ saved'[i] = saved[i])
        /\ saved'[Len(saved')] = e
    BY <2>4
  <2>6. ASSUME ~fallback'
        PROVE  MemoryIsNewest /\ AnchorIsNewest
    BY <2>2, <2>6 DEF GenerationInv
  <2>7. SavesBounded'
    BY <1>v, <2>2, <2>3, <2>5 DEF GenerationInv, SavesBounded
  <2>8. ImageIsNext'
    BY <2>2 DEF ImageIsNext, Saving
  <2>t. /\ \A i \in DOMAIN saved : /\ saved[i].session \in Nat /\ saved[i].session <= session
                                  /\ saved[i].image.generation \in Nat
        /\ e.session \in Nat /\ e.image.generation \in Nat
    BY <1>0, <1>v, <2>3, SavedTypes DEF GenerationInv, SavesBounded
  <2>9. ASSUME ~fallback' PROVE LastIsNewest'
    <3> SUFFICES ASSUME NEW i \in DOMAIN saved' PROVE Before(saved'[i], e)
      BY <2>5 DEF LastIsNewest
    <3>1. CASE saved'[i] = e
      BY <2>t, <3>1 DEF Before
    <3>2. CASE i \in DOMAIN saved /\ saved'[i] = saved[i]
      <4>1. saved[i].image.vault_id = vault.vault_id =>
              IF saved[i].session = session THEN saved[i].image.generation = vault.generation + 1
                                            ELSE saved[i].image.generation <= vault.generation
        BY <2>6, <2>9, <3>2 DEF MemoryIsNewest
      <4> QED BY <1>v, <2>3, <2>t, <3>2, <4>1 DEF Before
    <3> QED BY <2>5, <3>1, <3>2
  <2>10. ASSUME ~fallback' PROVE MemoryIsNewest'
    <3>1. /\ base <= session /\ Outdated(vault.vault_id, vault.generation, base)
          /\ \A i \in DOMAIN saved :
               saved[i].image.vault_id = vault.vault_id =>
                 IF saved[i].session = session THEN saved[i].image.generation = vault.generation + 1
                                               ELSE saved[i].image.generation <= vault.generation
      BY <2>6, <2>10 DEF MemoryIsNewest
    <3>2. Outdated(vault.vault_id, vault.generation, base)'
      BY <1>v, <2>2, <2>3, <2>5, <3>1 DEF Outdated
    <3> QED BY <2>2, <2>3, <2>5, <3>1, <3>2 DEF MemoryIsNewest
  <2>11. ASSUME ~fallback' PROVE AnchorIsNewest'
    <3>1. anchor # NoAnchor =>
            /\ anchor.since \in Nat /\ anchor.since <= session
            /\ Outdated(anchor.vault_id, anchor.generation, anchor.since)
      BY <1>0, <2>6, <2>11 DEF AnchorIsNewest, VaultTypeOK, Anchor
    <3> QED BY <1>v, <2>2, <2>3, <2>5, <3>1 DEF AnchorIsNewest, Outdated
  <2> QED BY <2>7, <2>8, <2>9, <2>10, <2>11 DEF GenerationInv
<1>10. CASE fail_save \/ Exit
  <2>1. /\ UNCHANGED <<saved, session, base, fallback, anchor>> /\ pc # "closed"
        /\ pc' \notin Saving
        /\ (pc' = "closed" /\ vault'.vault_id = 0) \/ vault' = vault
    BY <1>10 DEF fail_save, Exit, Saving, NoContents
  <2>2. ImageIsNext'
    BY <2>1 DEF ImageIsNext
  <2> QED BY <1>v, <2>1, <2>2, GenerationsKept
<1> QED
  BY <1>1, <1>2, <1>3, <1>4, <1>5, <1>6, <1>7, <1>8, <1>9, <1>10 DEF VaultNext, Save

\* As long as no load had to use the backup, an anchor refuses every vault saved
\* before the session that saved what the anchor's own session had loaded: the
\* generation that verify_anchor compares is enough (lock_vault advances it).
THEOREM AnchorsRefuseOldSessions == VaultSpec => []AnchorRefusesOldSessions
<1>1. VaultInit => GenerationInv
  <2> SUFFICES ASSUME VaultInit PROVE GenerationInv
    OBVIOUS
  <2>1. DOMAIN saved = {} /\ pc = "closed" /\ anchor = NoAnchor
    BY DEF VaultInit
  <2> QED
    BY <2>1 DEF VaultInit, NoContents, GenerationInv, SavesBounded, ImageIsNext, LastIsNewest,
                AnchorIsNewest, Saving
<1>2. VaultInv /\ GenerationInv => AnchorRefusesOldSessions
  <2> SUFFICES ASSUME VaultInv, GenerationInv, anchor # NoAnchor, ~fallback,
                      NEW i \in DOMAIN saved, saved[i].session < anchor.since
               PROVE  ~verify_anchor(decode_vault(saved[i].image), anchor)
    BY DEF AnchorRefusesOldSessions
  <2>1. /\ saved[i].image \in Contents /\ saved[i].image.generation \in Nat
        /\ anchor.generation \in Nat
    BY SavedTypes DEF VaultInv, VaultTypeOK, Anchor
  <2>2. /\ decode_vault(saved[i].image).vault_id = saved[i].image.vault_id
        /\ decode_vault(saved[i].image).generation = saved[i].image.generation
    BY <2>1 DEF decode_vault, Contents
  <2>3. saved[i].image.vault_id = anchor.vault_id =>
          saved[i].image.generation < anchor.generation
    BY DEF GenerationInv, AnchorIsNewest, Outdated
  <2> QED BY <2>1, <2>2, <2>3 DEF verify_anchor
<1> QED BY VaultInvInit, VaultInvStep, GenerationStep, <1>1, <1>2, PTL DEF VaultSpec
=============================================================================
