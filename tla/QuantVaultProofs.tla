-------------------------- MODULE QuantVaultProofs --------------------------
(***************************************************************************)
(* What the clients of a vault may rely on, for any number of processes,     *)
(* keys, saves and failures: proofs about modules VaultProcesses and         *)
(* QuantVault.                                                             *)
(***************************************************************************)
EXTENDS QuantVault, Integers, TLAPS

\* The images and files that a process can have made with the first n - 1 serial numbers.
Known(n) == {i \in Image : DOMAIN i \subseteq 1..(n - 1)}
Saveable(n) == {i \in Known(n) : collectable(i)}
Files(n) == {Absent, Torn} \cup {Holding(i) : i \in Saveable(n)}

Targets == {"none", "temp", "primary", "gone"}

\* A key that forbids its use reaches no file, stream or save.
FilesClean ==
  /\ {primary, backup, temp} \subseteq Files(next)
  /\ step \in [Process -> Step] /\ overlapped \in BOOLEAN
  /\ image \in [Process -> Saveable(next)]
  /\ source \in [Process -> Files(next) \cup {Live}]
  /\ target \in [Process -> Targets]
  /\ \A p \in Process : step[p] # "write" => target[p] = "none"

\* Where the one save under way is.
Progress(p) ==
  /\ step[p] = "write" => temp = Torn /\ target[p] = "temp"
  /\ step[p] \in {"backup", "copy", "rename"} => temp = Holding(image[p])

SavesAlone ==
  ~overlapped =>
    /\ primary # Torn
    /\ \A p, q \in Process : saving(p) /\ saving(q) => p = q
    /\ \A p \in Process : Progress(p)

\* A process without a client is idle; a save writes what the module holds; and a
\* command has nothing in memory that would not be collected.
ClientOK(p) ==
  /\ saving(p) <=> doing[p] # Idle
  /\ kind[p] = "none" => ~saving(p)
  /\ saving(p) => image[p] = module[p]
  /\ kind[p] = "command" => autosave[p] /\ collectable(module[p])
  /\ doing[p].name \in {"generate", "sign"} => doing[p].key \in DOMAIN module[p]

ClientsTyped ==
  /\ kind \in [Process -> {"none", "facade", "command"}] /\ autosave \in [Process -> BOOLEAN]
  /\ module \in [Process -> Known(next)]
  /\ doing \in [Process -> Operation] /\ answer \in [Process -> {"none", "ok"}]
  /\ next \in Nat \ {0} /\ stale \in BOOLEAN /\ knowing \subseteq Process
  /\ released \in [Serial -> Nat] /\ \A k \in Serial : k >= next => released[k] = 0

\* An image that keeps what was acknowledged.
Covers(m) == told \subseteq DOMAIN m /\ \A k \in DOMAIN m : released[k] <= m[k].used

\* A process that knows the vault has in memory all that was acknowledged, and
\* one signature more while it saves that.
Remembers(p) ==
  p \in knowing /\ kind[p] # "none" =>
    /\ Covers(module[p])
    /\ doing[p].name = "sign" => released[doing[p].key] < module[p][doing[p].key].used

Kept ==
  ~overlapped /\ ~stale =>
    /\ primary = Absent => told = {} /\ \A k \in Serial : released[k] = 0
    /\ readable(primary) => Covers(primary.image)
    /\ \A p \in Process : Remembers(p)

VaultInv ==
  /\ FilesClean /\ SavesAlone
  /\ ClientsTyped /\ (\A p \in Process : ClientOK(p))
  /\ Kept

-----------------------------------------------------------------------------
(* Images and what the operations of the module make of them. *)

LEMMA ImageFields ==
  \A i \in Image : /\ DOMAIN i \subseteq Serial /\ i \in [DOMAIN i -> KeyEntry]
                   /\ \A k \in DOMAIN i : i[k] \in KeyEntry
BY DEF Image

LEMMA ImageMade ==
  ASSUME NEW D, D \subseteq Serial, NEW i \in [D -> KeyEntry]
  PROVE  i \in Image /\ DOMAIN i = D
BY DEF Image

LEMMA KnownMore ==
  ASSUME NEW n \in Nat, NEW l \in Nat, n <= l
  PROVE  Known(n) \subseteq Known(l) /\ Saveable(n) \subseteq Saveable(l) /\ Files(n) \subseteq Files(l)
<1>1. 1..(n - 1) \subseteq 1..(l - 1)
  BY SMT
<1>2. Known(n) \subseteq Known(l)
  BY <1>1 DEF Known
<1>3. Saveable(n) \subseteq Saveable(l)
  BY <1>2 DEF Saveable
<1>. QED
  BY <1>2, <1>3 DEF Files

LEMMA NothingSaveable ==
  ASSUME NEW n PROVE NoImage \in Saveable(n) /\ DOMAIN NoImage = {}
<1>1. DOMAIN NoImage = {} /\ NoImage \in [{} -> KeyEntry]
  BY DEF NoImage
<1>2. NoImage \in Image
  BY <1>1, ImageMade
<1>. QED
  BY <1>1, <1>2 DEF Saveable, Known, collectable

LEMMA NewKey == new_key \in KeyEntry /\ new_key.used = 0 /\ exportable(new_key)
<1>1. 0 \in Count
  BY ClientBounds, SMT DEF Count
<1>. QED
  BY <1>1 DEF new_key, KeyEntry, exportable

LEMMA UsedIsNat == \A e \in KeyEntry : e.used \in Nat
<1>1. Count \subseteq Nat
  BY ClientBounds, SMT DEF Count
<1>. QED
  BY <1>1 DEF KeyEntry

\* generate and import add a key under a serial number that nothing has yet.
LEMMA KeyAdded ==
  ASSUME NEW n \in Serial, NEW m \in Known(n)
  PROVE  LET a == with_key(m, n) IN
         /\ a \in Known(n + 1) /\ DOMAIN a = DOMAIN m \cup {n}
         /\ a[n] = new_key /\ \A j \in DOMAIN m : a[j] = m[j]
         /\ collectable(m) => collectable(a)
<1>. DEFINE a == with_key(m, n)
<1>1. n \in Nat /\ n \notin 1..(n - 1) /\ 1..(n - 1) \subseteq 1..((n + 1) - 1) /\ n \in 1..((n + 1) - 1)
  BY ClientBounds, SMT DEF Serial
<1>2. m \in Image /\ DOMAIN m \subseteq 1..(n - 1) /\ n \notin DOMAIN m
  BY <1>1 DEF Known
<1>3. a = [j \in DOMAIN m \cup {n} |-> IF j = n THEN new_key ELSE m[j]]
  BY DEF with_key
<1>4. a \in [DOMAIN m \cup {n} -> KeyEntry] /\ DOMAIN m \cup {n} \subseteq Serial
  BY <1>2, <1>3, ImageFields, NewKey
<1>5. a[n] = new_key /\ \A j \in DOMAIN m : a[j] = m[j]
  BY <1>2, <1>3
<1>. HIDE DEF a
<1>6. a \in Image /\ DOMAIN a = DOMAIN m \cup {n}
  BY <1>4, ImageMade
<1>7. collectable(m) => collectable(a)
  BY <1>5, <1>6, NewKey DEF collectable
<1>8. a \in Known(n + 1)
  BY <1>1, <1>2, <1>6 DEF Known
<1>. QED
  BY <1>5, <1>6, <1>7, <1>8 DEF a

LEMMA KeyRemoved ==
  ASSUME NEW n \in Nat, NEW m \in Known(n), NEW k
  PROVE  LET a == without_key(m, k) IN
         /\ a \in Known(n) /\ DOMAIN a = DOMAIN m \ {k}
         /\ \A j \in DOMAIN a : a[j] = m[j]
<1>. DEFINE a == without_key(m, k)
<1>1. m \in Image /\ DOMAIN m \subseteq 1..(n - 1)
  BY DEF Known
<1>2. a = [j \in DOMAIN m \ {k} |-> m[j]]
  BY DEF without_key
<1>3. a \in [DOMAIN m \ {k} -> KeyEntry] /\ DOMAIN m \ {k} \subseteq Serial
  BY <1>1, <1>2, ImageFields
<1>4. \A j \in DOMAIN m \ {k} : a[j] = m[j]
  BY <1>2
<1>. HIDE DEF a
<1>5. a \in Image /\ DOMAIN a = DOMAIN m \ {k}
  BY <1>3, ImageMade
<1>. QED
  BY <1>1, <1>4, <1>5 DEF Known, a

\* A change of one entry.
changed(m, k, e) == [m EXCEPT ![k] = e]

LEMMA KeyChanged ==
  ASSUME NEW n \in Nat, NEW m \in Known(n), NEW k \in DOMAIN m, NEW e \in KeyEntry
  PROVE  LET a == changed(m, k, e) IN
         /\ a \in Known(n) /\ DOMAIN a = DOMAIN m
         /\ a[k] = e /\ \A j \in DOMAIN m : j # k => a[j] = m[j]
         /\ collectable(m) /\ exportable(e) => collectable(a)
<1>. DEFINE a == changed(m, k, e)
<1>1. m \in Image /\ DOMAIN m \subseteq 1..(n - 1)
  BY DEF Known
<1>2. m \in [DOMAIN m -> KeyEntry] /\ DOMAIN m \subseteq Serial
  BY <1>1, ImageFields
<1>3. a \in [DOMAIN m -> KeyEntry]
  BY <1>2 DEF changed
<1>4. a[k] = e /\ \A j \in DOMAIN m : j # k => a[j] = m[j]
  BY <1>2 DEF changed
<1>. HIDE DEF a
<1>5. a \in Image /\ DOMAIN a = DOMAIN m
  BY <1>2, <1>3, ImageMade
<1>6. collectable(m) /\ exportable(e) => collectable(a)
  BY <1>4, <1>5 DEF collectable
<1>. QED
  BY <1>1, <1>4, <1>5, <1>6 DEF Known, a

LEMMA KeyUsed ==
  ASSUME NEW n \in Nat, NEW m \in Known(n), NEW k \in DOMAIN m, may_sign(m[k])
  PROVE  LET a == used_once(m, k) IN
         /\ a \in Known(n) /\ DOMAIN a = DOMAIN m
         /\ a[k].used = m[k].used + 1 /\ \A j \in DOMAIN m : j # k => a[j] = m[j]
         /\ collectable(m) => collectable(a)
<1>. DEFINE e == [m[k] EXCEPT !.used = m[k].used + 1]
<1>1. m[k] \in KeyEntry
  BY ImageFields DEF Known
<1>2. m[k].used + 1 \in Count
  <2>1. m[k].used \in Count /\ Limit \in Nat /\ (Limit # 0 => m[k].used < Limit)
    BY <1>1, ClientBounds DEF KeyEntry, may_sign
  <2>. QED
    BY <2>1, SMT DEF Count
<1>3. e \in KeyEntry /\ e.used = m[k].used + 1 /\ e.state = m[k].state
  BY <1>1, <1>2 DEF KeyEntry
<1>4. exportable(e)
  BY <1>3 DEF may_sign, exportable
<1>5. used_once(m, k) = changed(m, k, e)
  BY DEF used_once, changed
<1>. HIDE DEF e
<1>. QED
  BY <1>3, <1>4, <1>5, KeyChanged

LEMMA KeyStateSet ==
  ASSUME NEW n \in Nat, NEW m \in Known(n), NEW k \in DOMAIN m, NEW s \in KeyState
  PROVE  LET a == set_state_of(m, k, s) IN
         /\ a \in Known(n) /\ DOMAIN a = DOMAIN m
         /\ \A j \in DOMAIN m : a[j].used = m[j].used
<1>. DEFINE e == [m[k] EXCEPT !.state = s]
<1>1. m[k] \in KeyEntry
  BY ImageFields DEF Known
<1>2. e \in KeyEntry /\ e.used = m[k].used
  BY <1>1 DEF KeyEntry
<1>3. set_state_of(m, k, s) = changed(m, k, e)
  BY DEF set_state_of, changed
<1>. HIDE DEF e
<1>. QED
  BY <1>2, <1>3, KeyChanged

LEMMA KeyRotated ==
  ASSUME NEW n \in Serial, NEW m \in Known(n), NEW k \in DOMAIN m
  PROVE  LET a == rotated(m, k, n) IN
         /\ a \in Known(n + 1) /\ DOMAIN a = DOMAIN m \cup {n}
         /\ a[n] = new_key /\ \A j \in DOMAIN m : a[j].used = m[j].used
         /\ collectable(m) => collectable(a)
<1>. DEFINE e == [m[k] EXCEPT !.state = "retired", !.replaced = TRUE]
            b == changed(m, k, e)
<1>1. m[k] \in KeyEntry
  BY ImageFields DEF Known
<1>2. e \in KeyEntry /\ e.used = m[k].used /\ exportable(e)
  BY <1>1 DEF KeyEntry, exportable
<1>3. rotated(m, k, n) = with_key(b, n)
  BY DEF rotated, changed
<1>. HIDE DEF e
<1>4. n \in Nat
  BY SMT DEF Serial
<1>5. /\ b \in Known(n) /\ DOMAIN b = DOMAIN m /\ (collectable(m) => collectable(b))
      /\ \A j \in DOMAIN m : b[j].used = m[j].used
  BY <1>2, <1>4, KeyChanged
<1>. HIDE DEF b
<1>. QED
  BY <1>3, <1>5, KeyAdded

-----------------------------------------------------------------------------
(* The files. *)

LEMMA FileKinds ==
  /\ Absent # Torn /\ ~readable(Absent) /\ ~readable(Torn)
  /\ \A i : /\ Holding(i) # Absent /\ Holding(i) # Torn
            /\ readable(Holding(i)) /\ Holding(i).image = i
  /\ \A n : \A f \in Files(n) : readable(f) => f.image \in Saveable(n) /\ f = Holding(f.image)
  /\ \A n : \A f \in Files(n) : f \in {Absent, Torn} \/ readable(f)
  /\ Live # Absent /\ Live # Torn /\ \A i : Live # Holding(i)
<1>1. Absent # Torn /\ ~readable(Absent) /\ ~readable(Torn)
  BY DEF Absent, Torn, readable
<1>2. \A i : /\ Holding(i) # Absent /\ Holding(i) # Torn
             /\ readable(Holding(i)) /\ Holding(i).image = i
  BY DEF Absent, Torn, readable, Holding
<1>3. Live # Absent /\ Live # Torn /\ \A i : Live # Holding(i)
  BY DEF Absent, Torn, Holding, Live
<1>. QED
  BY <1>1, <1>2, <1>3 DEF Files

\* As long as no two saves overlap, the processes that do not save touch nothing.
LEMMA OthersIdle ==
  ASSUME FilesClean, SavesAlone, ~overlapped, NEW p \in Process, saving(p)
  PROVE  \A q \in Process \ {p} : step[q] = "none" /\ target[q] = "none"
BY DEF FilesClean, SavesAlone, saving

LEMMA OpensTemp ==
  ASSUME FilesClean, SavesAlone, NEW p \in Process, open_temp(p), next' = next
  PROVE  FilesClean' /\ SavesAlone'
<1>. USE DEF open_temp
<1>1. step' \in [Process -> Step] /\ target' \in [Process -> Targets]
  BY DEF FilesClean, Step, Targets
<1>2. \A q \in Process : step'[q] # "write" => target'[q] = "none"
  BY DEF FilesClean
<1>3. FilesClean'
  BY <1>1, <1>2 DEF FilesClean, Files
<1>4. SavesAlone'
  <2>. SUFFICES ASSUME ~overlapped PROVE SavesAlone'
    BY DEF SavesAlone
  <2>1. saving(p)
    BY DEF saving
  <2>2. \A q \in Process \ {p} : step[q] = "none" /\ target[q] = "none"
    BY <2>1, OthersIdle
  <2>3. /\ step'[p] = "write" /\ target'[p] = "temp" /\ temp' = Torn
        /\ \A q \in Process \ {p} : step'[q] = "none"
    BY <2>2 DEF FilesClean
  <2>. QED
    BY <2>3 DEF SavesAlone, Progress, saving
<1>. QED
  BY <1>3, <1>4

LEMMA WritesTemp ==
  ASSUME FilesClean, SavesAlone, NEW p \in Process, write_temp(p), next' = next
  PROVE  /\ FilesClean' /\ SavesAlone'
         /\ ~overlapped => primary' = primary
<1>. USE DEF write_temp
<1>1. after_write \in {"rename", "backup"}
  BY DEF after_write
<1>2. step' = [step EXCEPT ![p] = after_write] /\ target' = [target EXCEPT ![p] = "none"]
  OBVIOUS
<1>3. /\ step' \in [Process -> Step] /\ target' \in [Process -> Targets]
      /\ \A q \in Process : step'[q] # "write" => target'[q] = "none"
  BY <1>1, <1>2 DEF FilesClean, Step, Targets
<1>4. temp' \in Files(next) /\ primary' \in Files(next)
  <2>1. \A f : written(p, f) \subseteq Files(next)
    BY DEF FilesClean, written, Files
  <2>. QED
    BY <2>1 DEF FilesClean
<1>5. FilesClean'
  BY <1>3, <1>4 DEF FilesClean
<1>6. ASSUME ~overlapped PROVE primary' = primary /\ temp' = Holding(image[p])
  <2>1. saving(p)
    BY DEF saving
  <2>2. \A q \in Process \ {p} : target[q] = "none"
    BY <1>6, <2>1, OthersIdle
  <2>3. temp = Torn /\ target[p] = "temp"
    BY <1>6 DEF SavesAlone, Progress
  <2>4. written(p, temp) = {Holding(image[p])}
    BY <2>2, <2>3 DEF written
  <2>. QED
    BY <2>3, <2>4
<1>7. SavesAlone'
  <2>. SUFFICES ASSUME ~overlapped PROVE SavesAlone'
    BY DEF SavesAlone
  <2>1. saving(p)
    BY DEF saving
  <2>2. \A q \in Process \ {p} : step[q] = "none" /\ target[q] = "none"
    BY <2>1, OthersIdle
  <2>3. step'[p] \in {"rename", "backup"} /\ \A q \in Process \ {p} : step'[q] = "none"
    BY <1>1, <1>2, <2>2 DEF FilesClean
  <2>4. image' = image /\ overlapped' = overlapped /\ primary' # Torn
    BY <1>6 DEF SavesAlone
  <2>. QED
    BY <1>6, <2>3, <2>4 DEF SavesAlone, Progress, saving
<1>. QED
  BY <1>5, <1>6, <1>7

LEMMA OpensBackup ==
  ASSUME FilesClean, SavesAlone, NEW p \in Process, open_backup(p), next' = next
  PROVE  FilesClean' /\ SavesAlone'
<1>. USE DEF open_backup
<1>1. step' \in [Process -> Step] /\ source' \in [Process -> Files(next) \cup {Live}]
  BY DEF FilesClean, Step
<1>2. \A q \in Process : step'[q] # "write" => target'[q] = "none"
  BY DEF FilesClean
<1>3. FilesClean'
  BY <1>1, <1>2 DEF FilesClean, Files
<1>4. \A q \in Process : /\ saving(q)' <=> saving(q)
                         /\ step'[q] = "write" => step[q] = "write"
                         /\ step'[q] \in {"backup", "copy", "rename"} =>
                              step[q] \in {"backup", "copy", "rename"}
  BY DEF FilesClean, saving
<1>. QED
  BY <1>3, <1>4 DEF SavesAlone, Progress

LEMMA CopiesBackup ==
  ASSUME FilesClean, SavesAlone, NEW p \in Process, copy_backup(p), next' = next
  PROVE  FilesClean' /\ SavesAlone'
<1>. DEFINE read == IF source[p] = Live THEN primary ELSE source[p]
<1>1. /\ step[p] = "copy" /\ backup' \in {read, Torn}
      /\ source' = [source EXCEPT ![p] = Absent] /\ step' = [step EXCEPT ![p] = "rename"]
      /\ UNCHANGED <<primary, temp, image, target, faults, overlapped>>
  BY DEF copy_backup
<1>2. read \in Files(next)
  BY DEF FilesClean
<1>. HIDE DEF read
<1>3. step' \in [Process -> Step] /\ source' \in [Process -> Files(next) \cup {Live}]
  BY <1>1 DEF FilesClean, Step, Files
<1>4. \A q \in Process : step'[q] # "write" => target'[q] = "none"
  BY <1>1 DEF FilesClean
<1>5. FilesClean'
  BY <1>1, <1>2, <1>3, <1>4 DEF FilesClean, Files
<1>6. \A q \in Process : /\ saving(q)' <=> saving(q)
                         /\ step'[q] = "write" => step[q] = "write"
                         /\ step'[q] \in {"backup", "copy", "rename"} =>
                              step[q] \in {"backup", "copy", "rename"}
  BY <1>1 DEF FilesClean, saving
<1>. QED
  BY <1>1, <1>5, <1>6 DEF SavesAlone, Progress

\* The rename puts in place what the save has written, if no other came between.
LEMMA RenamesTemp ==
  ASSUME FilesClean, SavesAlone, NEW p \in Process, rename_temp(p), next' = next
  PROVE  /\ FilesClean' /\ SavesAlone' /\ saving(p)
         /\ \A q \in Process \ {p} : (saving(q)' <=> saving(q)) /\ image'[q] = image[q]
         /\ saving(p)' => UNCHANGED <<primary, image>>
         /\ ~overlapped => ~saving(p)' /\ primary' = Holding(image[p])
<1>1. step[p] = "rename" /\ saving(p) /\ UNCHANGED <<faults, overlapped, backup>>
  BY DEF rename_temp, saving, fileVars
<1>2. CASE temp = Absent
  <2>1. step' = [step EXCEPT ![p] = "cleanup"] /\ UNCHANGED <<primary, temp, image, target, source>>
    BY <1>2 DEF rename_temp, fileVars
  <2>2. /\ step' \in [Process -> Step] /\ step'[p] = "cleanup"
        /\ \A q \in Process \ {p} : step'[q] = step[q]
    BY <2>1 DEF FilesClean, Step
  <2>3. FilesClean'
    BY <1>1, <2>1, <2>2 DEF FilesClean
  <2>4. overlapped
    <3>1. ~overlapped => temp = Holding(image[p])
      BY <1>1 DEF SavesAlone, Progress
    <3>. QED
      BY <1>2, <3>1, FileKinds
  <2>. QED
    BY <1>1, <2>1, <2>2, <2>3, <2>4 DEF SavesAlone, saving
<1>3. CASE temp # Absent
  <2>1. /\ primary' = temp /\ temp' = Absent
        /\ target' = [q \in Process |-> moved[target[q]]]
        /\ source' = [q \in Process |-> IF source[q] = Live THEN primary ELSE source[q]]
        /\ step' = [step EXCEPT ![p] = "none"] /\ image' = [image EXCEPT ![p] = NoImage]
    BY <1>3 DEF rename_temp
  <2>2. /\ step' \in [Process -> Step] /\ step'[p] = "none"
        /\ \A q \in Process \ {p} : step'[q] = step[q]
    BY <2>1 DEF FilesClean, Step
  <2>3. \A t \in Targets : moved[t] \in Targets /\ (t = "none" => moved[t] = "none")
    BY DEF moved, Targets
  <2>4. /\ target' \in [Process -> Targets]
        /\ \A q \in Process : step'[q] # "write" => target'[q] = "none"
    <3>1. target[p] = "none" /\ \A q \in Process : target[q] \in Targets
      BY <1>1 DEF FilesClean
    <3>. QED
      BY <2>1, <2>2, <2>3, <3>1 DEF FilesClean
  <2>5. image' \in [Process -> Saveable(next)] /\ \A q \in Process \ {p} : image'[q] = image[q]
    <3>1. NoImage \in Saveable(next)
      BY NothingSaveable
    <3>. QED
      BY <2>1, <3>1 DEF FilesClean
  <2>6. source' \in [Process -> Files(next) \cup {Live}]
    BY <2>1 DEF FilesClean
  <2>7. FilesClean'
    BY <1>1, <2>1, <2>2, <2>4, <2>5, <2>6 DEF FilesClean, Files
  <2>8. ~overlapped => primary' = Holding(image[p])
    BY <1>1, <2>1 DEF SavesAlone, Progress
  <2>9. SavesAlone'
    <3>. SUFFICES ASSUME ~overlapped PROVE SavesAlone'
      BY <1>1 DEF SavesAlone
    <3>1. \A q \in Process : step'[q] = "none"
      BY <1>1, <2>2, OthersIdle
    <3>2. primary' # Torn
      BY <2>8, FileKinds
    <3>. QED
      BY <3>1, <3>2 DEF SavesAlone, Progress, saving
  <2>. QED
    BY <1>1, <2>2, <2>5, <2>7, <2>8, <2>9 DEF saving
<1>. QED
  BY <1>2, <1>3

\* A save that fails or dies leaves the primary as it is.
LEMMA GivesUp ==
  ASSUME FilesClean, SavesAlone, NEW p \in Process, next' = next,
         remove_temp(p) \/ fail_save(p) \/ die(p)
  PROVE  /\ FilesClean' /\ SavesAlone' /\ saving(p) /\ ~saving(p)' /\ UNCHANGED <<primary, overlapped>>
         /\ \A q \in Process \ {p} : (saving(q)' <=> saving(q)) /\ image'[q] = image[q]
<1>1. /\ saving(p) /\ step' = [step EXCEPT ![p] = "none"] /\ image' = [image EXCEPT ![p] = NoImage]
      /\ UNCHANGED <<primary, backup, overlapped>> /\ temp' \in {temp, Absent}
      /\ source' \in {source, [source EXCEPT ![p] = Absent]}
      /\ \/ target' = [target EXCEPT ![p] = "none"]
         \/ /\ step[p] = "cleanup"
            /\ target' = [q \in Process |-> IF target[q] = "temp" THEN "gone" ELSE target[q]]
  BY DEF remove_temp, fail_save, die, end_save, saving, fileVars
<1>2. /\ step' \in [Process -> Step] /\ step'[p] = "none"
      /\ \A q \in Process \ {p} : step'[q] = step[q]
  BY <1>1 DEF FilesClean, Step
<1>3. image' \in [Process -> Saveable(next)] /\ \A q \in Process \ {p} : image'[q] = image[q]
  <2>1. NoImage \in Saveable(next)
    BY NothingSaveable
  <2>. QED
    BY <1>1, <2>1 DEF FilesClean
<1>4. source' \in [Process -> Files(next) \cup {Live}]
  BY <1>1 DEF FilesClean, Files
<1>5. /\ target' \in [Process -> Targets]
      /\ \A q \in Process : step'[q] # "write" => target'[q] = "none"
  <2>1. target \in [Process -> Targets] /\ (\A q \in Process : step[q] # "write" => target[q] = "none")
    BY DEF FilesClean
  <2>2. CASE target' = [target EXCEPT ![p] = "none"]
    BY <1>2, <2>1, <2>2 DEF Targets
  <2>3. CASE /\ step[p] = "cleanup"
             /\ target' = [q \in Process |-> IF target[q] = "temp" THEN "gone" ELSE target[q]]
    BY <1>2, <2>1, <2>3 DEF Targets
  <2>. QED
    BY <1>1, <2>2, <2>3
<1>6. FilesClean'
  BY <1>1, <1>2, <1>3, <1>4, <1>5 DEF FilesClean, Files
<1>7. SavesAlone'
  <2>. SUFFICES ASSUME ~overlapped PROVE SavesAlone'
    BY <1>1 DEF SavesAlone
  <2>1. \A q \in Process : step'[q] = "none"
    BY <1>1, <1>2, OthersIdle
  <2>. QED
    BY <1>1, <2>1 DEF SavesAlone, Progress, saving
<1>. QED
  BY <1>1, <1>2, <1>3, <1>6, <1>7 DEF saving

LEMMA FailsToRename ==
  ASSUME FilesClean, SavesAlone, NEW p \in Process, next' = next, fail_rename(p)
  PROVE  FilesClean' /\ SavesAlone'
<1>. USE DEF fail_rename, fileVars
<1>1. step' \in [Process -> Step] /\ \A q \in Process : step'[q] # "write" => target'[q] = "none"
  BY DEF FilesClean, Step
<1>2. FilesClean'
  BY <1>1 DEF FilesClean
<1>3. \A q \in Process : /\ saving(q)' <=> saving(q)
                         /\ step'[q] = "write" => step[q] = "write"
                         /\ step'[q] \in {"backup", "copy", "rename"} =>
                              step[q] \in {"backup", "copy", "rename"}
  BY DEF FilesClean, saving
<1>. QED
  BY <1>2, <1>3 DEF SavesAlone, Progress

\* A save begins, of an image that is collected.
LEMMA BeginsSave ==
  ASSUME FilesClean, SavesAlone, next \in Nat, next' \in Nat, next <= next', NEW p \in Process,
         NEW i \in Saveable(next'), begin_save(p, i)
  PROVE  /\ FilesClean' /\ SavesAlone' /\ ~saving(p) /\ saving(p)' /\ image'[p] = i
         /\ UNCHANGED primary /\ (overlapped => overlapped')
         /\ \A q \in Process \ {p} : (saving(q)' <=> saving(q)) /\ image'[q] = image[q]
<1>. USE DEF begin_save, fileVars
<1>1. /\ step' \in [Process -> Step] /\ step'[p] = "open" /\ step[p] = "none"
      /\ \A q \in Process \ {p} : step'[q] = step[q]
  BY DEF FilesClean, Step, saving
<1>2. Saveable(next) \subseteq Saveable(next') /\ Files(next) \subseteq Files(next')
  BY KnownMore
<1>3. /\ image' \in [Process -> Saveable(next')] /\ image'[p] = i
      /\ \A q \in Process \ {p} : image'[q] = image[q]
  BY <1>2 DEF FilesClean
<1>4. overlapped' \in BOOLEAN
  BY DEF FilesClean
<1>5. source' \in [Process -> Files(next') \cup {Live}]
  BY <1>2 DEF FilesClean
<1>6. \A q \in Process : step'[q] # "write" => target'[q] = "none"
  BY <1>1 DEF FilesClean
<1>7. FilesClean'
  BY <1>1, <1>2, <1>3, <1>4, <1>5, <1>6 DEF FilesClean
<1>8. SavesAlone'
  <2>. SUFFICES ASSUME ~overlapped' PROVE SavesAlone'
    BY DEF SavesAlone
  <2>1. ~overlapped /\ \A q \in Process \ {p} : step'[q] = "none"
    BY <1>1 DEF others_saving, saving
  <2>. QED
    BY <1>1, <2>1 DEF SavesAlone, Progress, saving
<1>. QED
  BY <1>1, <1>3, <1>7, <1>8 DEF saving

-----------------------------------------------------------------------------
(* The clients. *)

\* A step of the client of p, with its new memory, operation and answer.
ClientStep(p, m, k, a, op, r) ==
  /\ module' = [module EXCEPT ![p] = m] /\ kind' = [kind EXCEPT ![p] = k]
  /\ autosave' = [autosave EXCEPT ![p] = a]
  /\ doing' = [doing EXCEPT ![p] = op] /\ answer' = [answer EXCEPT ![p] = r]

\* What the step of one process leaves to the others.
OthersKept(p) == \A q \in Process \ {p} : (saving(q)' <=> saving(q)) /\ image'[q] = image[q]

LEMMA ClientsMove ==
  ASSUME VaultInv, NEW p \in Process, next' \in Nat, next <= next',
         NEW m \in Known(next'), NEW k \in {"none", "facade", "command"}, NEW a \in BOOLEAN,
         NEW op \in Operation, NEW r \in {"none", "ok"}, ClientStep(p, m, k, a, op, r),
         OthersKept(p), saving(p)' <=> op # Idle,
         op # Idle => k # "none" /\ image'[p] = m,
         k = "command" => a /\ collectable(m),
         op.name \in {"generate", "sign"} => op.key \in DOMAIN m,
         stale' \in BOOLEAN, knowing' \subseteq Process,
         released' \in [Serial -> Nat], \A j \in Serial : j >= next' => released'[j] = 0
  PROVE  ClientsTyped' /\ \A q \in Process : ClientOK(q)'
<1>1. ClientsTyped /\ next \in Nat \ {0}
  BY DEF VaultInv, ClientsTyped
<1>2. Known(next) \subseteq Known(next') /\ next' \in Nat \ {0}
  <2>1. next' # 0
    BY <1>1, SMT
  <2>. QED
    BY <1>1, <2>1, KnownMore
<1>3. /\ module' \in [Process -> Known(next')] /\ kind' \in [Process -> {"none", "facade", "command"}]
      /\ autosave' \in [Process -> BOOLEAN] /\ doing' \in [Process -> Operation]
      /\ answer' \in [Process -> {"none", "ok"}]
  BY <1>1, <1>2 DEF ClientsTyped, ClientStep
<1>4. /\ module'[p] = m /\ kind'[p] = k /\ autosave'[p] = a /\ doing'[p] = op
      /\ \A q \in Process \ {p} : /\ module'[q] = module[q] /\ kind'[q] = kind[q]
                                  /\ autosave'[q] = autosave[q] /\ doing'[q] = doing[q]
  BY <1>1 DEF ClientsTyped, ClientStep
<1>5. ClientOK(p)'
  BY <1>4 DEF ClientOK
<1>6. \A q \in Process \ {p} : ClientOK(q)'
  BY <1>4 DEF ClientOK, OthersKept, VaultInv
<1>. QED
  BY <1>2, <1>3, <1>5, <1>6 DEF ClientsTyped

\* The primary stays, and nobody but p learns anything of it.
LEMMA KeptOn ==
  ASSUME VaultInv, NEW p \in Process, NEW m, NEW k, NEW a, NEW op, NEW r,
         ClientStep(p, m, k, a, op, r), UNCHANGED <<primary, released>>,
         told' \subseteq told, overlapped => overlapped', stale => stale',
         knowing' \subseteq knowing \cup {p},
         ~overlapped' /\ ~stale' => Remembers(p)'
  PROVE  Kept'
<1>. SUFFICES ASSUME ~overlapped', ~stale' PROVE Kept'
  BY DEF Kept
<1>1. Kept /\ ~overlapped /\ ~stale /\ ClientsTyped
  BY DEF VaultInv
<1>2. \A i : Covers(i) => Covers(i)'
  BY DEF Covers
<1>3. \A q \in Process \ {p} : Remembers(q)'
  <2>1. \A q \in Process \ {p} : module'[q] = module[q] /\ kind'[q] = kind[q] /\ doing'[q] = doing[q]
    BY <1>1 DEF ClientsTyped, ClientStep
  <2>. QED
    BY <1>1, <1>2, <2>1 DEF Kept, Remembers
<1>. QED
  BY <1>1, <1>2, <1>3 DEF Kept

\* The files stay as they are while serial numbers are given out.
LEMMA FilesStay ==
  ASSUME FilesClean, SavesAlone, UNCHANGED processVars, next \in Nat, next' \in Nat, next <= next'
  PROVE  /\ FilesClean' /\ SavesAlone' /\ UNCHANGED <<primary, overlapped, image>>
         /\ \A q \in Process : saving(q)' <=> saving(q)
<1>1. UNCHANGED <<primary, backup, temp, step, image, target, source, overlapped>>
  BY DEF processVars, fileVars, saveVars
<1>2. Saveable(next) \subseteq Saveable(next') /\ Files(next) \subseteq Files(next')
  BY KnownMore
<1>3. FilesClean'
  BY <1>1, <1>2 DEF FilesClean
<1>. QED
  BY <1>1, <1>3 DEF SavesAlone, Progress, saving

\* How an operation that makes m of the module goes on.
Outcome(p, m, op) ==
  \/ save_begins(p, m, op) /\ collectable(m)
  \/ /\ returns(p, "none") /\ UNCHANGED processVars
     /\ \/ exits(p)
        \/ /\ module' = [module EXCEPT ![p] = m] /\ UNCHANGED <<kind, autosave>>
           /\ kind[p] # "command"

LEMMA Outcomes ==
  ASSUME VaultInv, NEW p \in Process, NEW m, NEW op,
         save_collected(p, m, op) \/ persist_if_needed(p, m, op)
  PROVE  Outcome(p, m, op)
<1>1. save_collected(p, m, op) => Outcome(p, m, op)
  BY DEF save_collected, Outcome
<1>2. autosave[p] \/ kind[p] # "command"
  BY DEF VaultInv, ClientOK
<1>. QED
  BY <1>1, <1>2 DEF persist_if_needed, Outcome

LEMMA IdleOperation == Idle \in Operation /\ Idle.name \notin {"generate", "sign"} /\ Idle.name = "none"
<1>1. 0 \in 0..MaxKeys
  BY ClientBounds, SMT
<1>. QED
  BY <1>1 DEF Idle, Operation

\* What an operation must make of the memory of a process that knows the vault.
Faithful(m, op) ==
  /\ told' \subseteq DOMAIN m /\ \A j \in DOMAIN m : released[j] <= m[j].used
  /\ op.name = "sign" => released[op.key] < m[op.key].used

LEMMA OperationKeeps ==
  ASSUME VaultInv, NEW p \in Process, ready(p), next' \in Nat, next <= next',
         NEW m \in Known(next'), NEW op \in Operation, op # Idle,
         op.name \in {"generate", "sign"} => op.key \in DOMAIN m,
         UNCHANGED <<stale, knowing, released>>, told' \subseteq told,
         ~overlapped /\ ~stale /\ p \in knowing => Faithful(m, op),
         Outcome(p, m, op)
  PROVE  VaultInv'
<1>1. /\ FilesClean /\ SavesAlone /\ ClientsTyped /\ next \in Nat
      /\ kind[p] \in {"none", "facade", "command"} /\ autosave[p] \in BOOLEAN
      /\ kind[p] # "none" /\ ~saving(p)
  BY DEF VaultInv, ClientsTyped, ready
<1>2. /\ stale' \in BOOLEAN /\ knowing' \subseteq Process /\ released' \in [Serial -> Nat]
      /\ \A j \in Serial : j >= next' => released'[j] = 0
  <2>1. \A j \in Serial : j >= next' => j >= next
    BY <1>1, SMT DEF Serial
  <2>. QED
    BY <1>1, <2>1 DEF ClientsTyped
<1>3. ~overlapped /\ ~stale /\ p \in knowing =>
        /\ told' \subseteq DOMAIN m /\ \A j \in DOMAIN m : released'[j] <= m[j].used
        /\ op.name = "sign" => released'[op.key] < m[op.key].used
  BY DEF Faithful
<1>4. CASE save_begins(p, m, op) /\ collectable(m)
  <2>1. m \in Saveable(next') /\ begin_save(p, m)
    BY <1>4 DEF Saveable, save_begins
  <2>2. /\ FilesClean' /\ SavesAlone' /\ saving(p)' /\ image'[p] = m /\ OthersKept(p)
        /\ UNCHANGED primary /\ (overlapped => overlapped')
    BY <1>1, <2>1, BeginsSave DEF OthersKept
  <2>3. ClientStep(p, m, kind[p], autosave[p], op, "none")
    BY <1>1, <1>4 DEF save_begins, ClientStep, ClientsTyped
  <2>4. kind[p] = "command" => autosave[p] /\ collectable(m)
    BY <1>4 DEF VaultInv, ClientOK
  <2>5. ClientsTyped' /\ \A q \in Process : ClientOK(q)'
    BY <1>1, <1>2, <2>2, <2>3, <2>4, ClientsMove
  <2>6. ~overlapped' /\ ~stale' => Remembers(p)'
    <3>1. module'[p] = m /\ kind'[p] = kind[p] /\ doing'[p] = op
      BY <1>1, <2>3 DEF ClientsTyped, ClientStep
    <3>. QED
      BY <1>3, <2>2, <3>1 DEF Remembers, Covers
  <2>7. Kept'
    BY <2>2, <2>3, <2>6, KeptOn
  <2>. QED
    BY <2>2, <2>5, <2>7 DEF VaultInv
<1>5. CASE returns(p, "none") /\ UNCHANGED processVars
  <2>1. /\ FilesClean' /\ SavesAlone' /\ UNCHANGED <<primary, overlapped>> /\ OthersKept(p)
        /\ ~saving(p)'
    BY <1>1, <1>5, FilesStay DEF OthersKept
  <2>2. CASE exits(p)
    <3>1. ClientStep(p, NoImage, "none", TRUE, Idle, "none")
      BY <1>5, <2>2 DEF exits, returns, ClientStep
    <3>2. NoImage \in Known(next')
      BY NothingSaveable DEF Saveable
    <3>3. ClientsTyped' /\ \A q \in Process : ClientOK(q)'
      BY <1>2, <2>1, <3>1, <3>2, IdleOperation, ClientsMove
    <3>4. Remembers(p)'
      <4>1. kind'[p] = "none"
        BY <1>1, <3>1 DEF ClientsTyped, ClientStep
      <4>. QED
        BY <4>1 DEF Remembers
    <3>5. Kept'
      BY <2>1, <3>1, <3>4, KeptOn
    <3>. QED
      BY <2>1, <3>3, <3>5 DEF VaultInv
  <2>3. CASE /\ module' = [module EXCEPT ![p] = m] /\ UNCHANGED <<kind, autosave>>
             /\ kind[p] # "command"
    <3>1. ClientStep(p, m, kind[p], autosave[p], Idle, "none")
      BY <1>1, <1>5, <2>3 DEF returns, ClientStep, ClientsTyped
    <3>2. ClientsTyped' /\ \A q \in Process : ClientOK(q)'
      BY <1>1, <1>2, <2>1, <2>3, <3>1, IdleOperation, ClientsMove
    <3>3. ~overlapped' /\ ~stale' => Remembers(p)'
      <4>1. module'[p] = m /\ kind'[p] = kind[p] /\ doing'[p] = Idle
        BY <1>1, <3>1 DEF ClientsTyped, ClientStep
      <4>. QED
        BY <1>3, <2>1, <4>1, IdleOperation DEF Remembers, Covers
    <3>4. Kept'
      BY <2>1, <3>1, <3>3, KeptOn
    <3>. QED
      BY <2>1, <3>2, <3>4 DEF VaultInv
  <2>. QED
    BY <1>4, <1>5, <2>2, <2>3 DEF Outcome
<1>. QED
  BY <1>4, <1>5 DEF Outcome

-----------------------------------------------------------------------------
(* The operations. *)

\* What a ready process that knows the vault has in memory.
LEMMA Memory ==
  ASSUME VaultInv, NEW p \in Process, ready(p)
  PROVE  /\ module[p] \in Known(next) /\ next \in Nat /\ DOMAIN module[p] \subseteq Serial
         /\ \A k \in DOMAIN module[p] : k \in 1..(next - 1) /\ module[p][k] \in KeyEntry
         /\ released \in [Serial -> Nat]
         /\ ~overlapped /\ ~stale /\ p \in knowing => Covers(module[p])
<1>1. module[p] \in Known(next) /\ next \in Nat /\ released \in [Serial -> Nat]
  BY DEF VaultInv, ClientsTyped
<1>2. module[p] \in Image /\ DOMAIN module[p] \subseteq 1..(next - 1)
  BY <1>1 DEF Known
<1>3. ~overlapped /\ ~stale /\ p \in knowing => Covers(module[p])
  BY DEF VaultInv, Kept, Remembers, ready
<1>. QED
  BY <1>1, <1>2, <1>3, ImageFields

LEMMA SomeOperation ==
  /\ \A k \in Serial : \A n \in {"generate", "sign", "erase"} :
       [name |-> n, key |-> k] \in Operation /\ [name |-> n, key |-> k] # Idle
  /\ \A k \in Serial : [name |-> "change", key |-> k] \in Operation /\ [name |-> "change", key |-> k] # Idle
  /\ [name |-> "save", key |-> 0] \in Operation /\ [name |-> "save", key |-> 0] # Idle
  /\ [name |-> "create", key |-> 0] \in Operation /\ [name |-> "create", key |-> 0] # Idle
<1>1. 0 \in 0..MaxKeys /\ Serial \subseteq 0..MaxKeys
  BY ClientBounds, SMT DEF Serial
<1>. QED
  BY <1>1 DEF Idle, Operation

\* A signature that is counted in the image before it is released.
LEMMA UsedIsFaithful ==
  ASSUME VaultInv, NEW p \in Process, ready(p), NEW k \in DOMAIN module[p], may_sign(module[p][k]),
         ~overlapped, ~stale, p \in knowing, told' = told
  PROVE  LET a == used_once(module[p], k) IN
         /\ told' \subseteq DOMAIN a /\ \A j \in DOMAIN a : released[j] <= a[j].used
         /\ released[k] < a[k].used
<1>. DEFINE m == module[p]
            a == used_once(m, k)
<1>1. /\ DOMAIN a = DOMAIN m /\ a[k].used = m[k].used + 1
      /\ \A j \in DOMAIN m : j # k => a[j] = m[j]
  BY Memory, KeyUsed
<1>2. Covers(m) /\ DOMAIN m \subseteq Serial /\ released \in [Serial -> Nat] /\ m[k] \in KeyEntry
  BY Memory
<1>3. m[k].used \in Nat /\ released[k] \in Nat /\ released[k] <= m[k].used
  BY <1>2, UsedIsNat DEF Covers
<1>. HIDE DEF a, m
<1>4. released[k] <= a[k].used /\ released[k] < a[k].used
  BY <1>1, <1>3, SMT
<1>5. \A j \in DOMAIN a : released[j] <= a[j].used
  <2>. SUFFICES ASSUME NEW j \in DOMAIN a PROVE released[j] <= a[j].used
    OBVIOUS
  <2>1. CASE j = k
    BY <1>4, <2>1
  <2>2. CASE j # k
    BY <1>1, <1>2, <2>2 DEF Covers
  <2>. QED
    BY <2>1, <2>2
<1>. QED
  BY <1>1, <1>2, <1>4, <1>5 DEF Covers, a, m

LEMMA Signs == ASSUME VaultInv, NEW p \in Process, NEW k \in Serial, sign(p, k) PROVE VaultInv'
<1>. DEFINE op == [name |-> "sign", key |-> k]
            a == used_once(module[p], k)
<1>1. /\ ready(p) /\ k \in DOMAIN module[p] /\ may_sign(module[p][k]) /\ Outcome(p, a, op)
      /\ UNCHANGED <<next, stale, knowing, released, told>>
  BY Outcomes DEF sign
<1>2. a \in Known(next) /\ DOMAIN a = DOMAIN module[p] /\ next \in Nat /\ next <= next
  BY <1>1, Memory, KeyUsed
<1>3. op \in Operation /\ op # Idle /\ op.key = k
  BY SomeOperation
<1>4. ~overlapped /\ ~stale /\ p \in knowing => Faithful(a, op)
  BY <1>1, <1>3, UsedIsFaithful DEF Faithful
<1>. HIDE DEF a, op
<1>. QED
  BY <1>1, <1>2, <1>3, <1>4, OperationKeeps

LEMMA Withholds == ASSUME VaultInv, NEW p \in Process, NEW k \in Serial, sign_withheld(p, k) PROVE VaultInv'
<1>. DEFINE op == [name |-> "change", key |-> k]
            a == used_once(module[p], k)
<1>1. /\ ready(p) /\ k \in DOMAIN module[p] /\ may_sign(module[p][k]) /\ kind[p] # "command"
      /\ module' = [module EXCEPT ![p] = a] /\ returns(p, "none")
      /\ UNCHANGED <<processVars, kind, autosave>>
      /\ UNCHANGED <<next, stale, knowing, released, told>>
  BY DEF sign_withheld, facade, ghosts
<1>2. a \in Known(next) /\ DOMAIN a = DOMAIN module[p] /\ next \in Nat /\ next <= next
  BY <1>1, Memory, KeyUsed
<1>3. op \in Operation /\ op # Idle /\ op.name = "change"
  BY SomeOperation
<1>4. ~overlapped /\ ~stale /\ p \in knowing => Faithful(a, op)
  BY <1>1, <1>3, UsedIsFaithful DEF Faithful
<1>. HIDE DEF a, op
<1>5. Outcome(p, a, op)
  BY <1>1 DEF Outcome
<1>. QED
  BY <1>1, <1>2, <1>3, <1>4, <1>5, OperationKeeps

\* A key that is added has released nothing yet.
LEMMA AddedIsFaithful ==
  ASSUME VaultInv, NEW p \in Process, ready(p), ~overlapped, ~stale, p \in knowing, told' = told,
         next \in Serial, NEW a, DOMAIN a = DOMAIN module[p] \cup {next},
         a[next] = new_key, \A j \in DOMAIN module[p] : a[j].used = module[p][j].used
  PROVE  told' \subseteq DOMAIN a /\ \A j \in DOMAIN a : released[j] <= a[j].used
<1>1. Covers(module[p])
  BY Memory
<1>2. released[next] = 0
  <2>1. next >= next
    BY SMT DEF Serial
  <2>. QED
    BY <2>1 DEF VaultInv, ClientsTyped
<1>3. released[next] <= a[next].used
  BY <1>2, NewKey
<1>. QED
  BY <1>1, <1>3 DEF Covers

LEMMA Generates == ASSUME VaultInv, NEW p \in Process, generate(p) PROVE VaultInv'
<1>. DEFINE op == [name |-> "generate", key |-> next]
            a == with_key(module[p], next)
<1>1. /\ ready(p) /\ next \in Serial /\ next' = next + 1 /\ Outcome(p, a, op)
      /\ UNCHANGED <<stale, knowing, released, told>>
  BY Outcomes DEF generate
<1>2. next \in Nat /\ next' \in Nat /\ next <= next'
  BY <1>1, SMT DEF Serial
<1>3. /\ a \in Known(next') /\ DOMAIN a = DOMAIN module[p] \cup {next} /\ a[next] = new_key
      /\ \A j \in DOMAIN module[p] : a[j].used = module[p][j].used
  BY <1>1, Memory, KeyAdded
<1>4. op \in Operation /\ op # Idle /\ op.key = next /\ op.name = "generate"
  BY <1>1, SomeOperation
<1>. HIDE DEF a, op
<1>5. ~overlapped /\ ~stale /\ p \in knowing => Faithful(a, op)
  BY <1>1, <1>3, <1>4, AddedIsFaithful DEF Faithful
<1>. QED
  BY <1>1, <1>2, <1>3, <1>4, <1>5, OperationKeeps

LEMMA Rotates == ASSUME VaultInv, NEW p \in Process, NEW k \in Serial, rotate(p, k) PROVE VaultInv'
<1>. DEFINE op == [name |-> "generate", key |-> next]
            a == rotated(module[p], k, next)
<1>1. /\ ready(p) /\ next \in Serial /\ next' = next + 1 /\ k \in DOMAIN module[p]
      /\ Outcome(p, a, op) /\ UNCHANGED <<stale, knowing, released, told>>
  BY Outcomes DEF rotate
<1>2. next \in Nat /\ next' \in Nat /\ next <= next'
  BY <1>1, SMT DEF Serial
<1>3. /\ a \in Known(next') /\ DOMAIN a = DOMAIN module[p] \cup {next} /\ a[next] = new_key
      /\ \A j \in DOMAIN module[p] : a[j].used = module[p][j].used
  BY <1>1, Memory, KeyRotated
<1>4. op \in Operation /\ op # Idle /\ op.key = next /\ op.name = "generate"
  BY <1>1, SomeOperation
<1>. HIDE DEF a, op
<1>5. ~overlapped /\ ~stale /\ p \in knowing => Faithful(a, op)
  BY <1>1, <1>3, <1>4, AddedIsFaithful DEF Faithful
<1>. QED
  BY <1>1, <1>2, <1>3, <1>4, <1>5, OperationKeeps

LEMMA SetsState ==
  ASSUME VaultInv, NEW p \in Process, NEW k \in Serial, NEW s \in KeyState, set_state(p, k, s)
  PROVE  VaultInv'
<1>. DEFINE op == [name |-> "change", key |-> k]
            a == set_state_of(module[p], k, s)
<1>1. /\ ready(p) /\ k \in DOMAIN module[p] /\ Outcome(p, a, op)
      /\ UNCHANGED <<next, stale, knowing, released, told>>
  BY Outcomes DEF set_state, facade
<1>2. /\ a \in Known(next) /\ DOMAIN a = DOMAIN module[p] /\ next \in Nat /\ next <= next
      /\ \A j \in DOMAIN module[p] : a[j].used = module[p][j].used
  BY <1>1, Memory, KeyStateSet
<1>3. op \in Operation /\ op # Idle /\ op.name = "change"
  BY SomeOperation
<1>. HIDE DEF a, op
<1>4. ~overlapped /\ ~stale /\ p \in knowing => Faithful(a, op)
  BY <1>1, <1>2, <1>3, Memory DEF Faithful, Covers
<1>. QED
  BY <1>1, <1>2, <1>3, <1>4, OperationKeeps

LEMMA Erases == ASSUME VaultInv, NEW p \in Process, NEW k \in Serial, erase(p, k) PROVE VaultInv'
<1>. DEFINE op == [name |-> "erase", key |-> k]
            a == without_key(module[p], k)
<1>1. /\ ready(p) /\ k \in DOMAIN module[p] /\ Outcome(p, a, op) /\ told' = told \ {k}
      /\ UNCHANGED <<next, stale, knowing, released>>
  BY Outcomes DEF erase, facade
<1>2. /\ a \in Known(next) /\ DOMAIN a = DOMAIN module[p] \ {k} /\ next \in Nat /\ next <= next
      /\ \A j \in DOMAIN a : a[j] = module[p][j]
  <2>1. module[p] \in Known(next) /\ next \in Nat
    BY <1>1, Memory
  <2>2. next <= next
    BY <2>1, SMT
  <2>. QED
    BY <2>1, <2>2, KeyRemoved, Zenon
<1>3. op \in Operation /\ op # Idle /\ op.name = "erase"
  BY SomeOperation
<1>. HIDE DEF a, op
<1>4. ~overlapped /\ ~stale /\ p \in knowing => Faithful(a, op)
  BY <1>1, <1>2, <1>3, Memory DEF Faithful, Covers
<1>. QED
  BY <1>1, <1>2, <1>3, <1>4, OperationKeeps

\* An operation that leaves the module alone: save, refuse, kdf-rewrap.
LEMMA MemoryKept ==
  ASSUME VaultInv, NEW p \in Process, ready(p), UNCHANGED <<next, stale, knowing, released, told>>,
         Outcome(p, module[p], [name |-> "save", key |-> 0])
  PROVE  VaultInv'
<1>. DEFINE op == [name |-> "save", key |-> 0]
            a == module[p]
<1>1. a \in Known(next) /\ next \in Nat /\ next <= next
  BY Memory
<1>2. op \in Operation /\ op # Idle /\ op.name = "save" /\ Outcome(p, a, op)
  BY SomeOperation
<1>3. ~overlapped /\ ~stale /\ p \in knowing => Covers(a)
  BY Memory
<1>. HIDE DEF a, op
<1>4. ~overlapped /\ ~stale /\ p \in knowing => Faithful(a, op)
  BY <1>2, <1>3 DEF Faithful, Covers
<1>. QED
  BY <1>1, <1>2, <1>4, OperationKeeps

LEMMA SavesAgain == ASSUME VaultInv, NEW p \in Process, save(p) PROVE VaultInv'
<1>1. ready(p) /\ Outcome(p, module[p], [name |-> "save", key |-> 0])
  BY Outcomes DEF save, facade
<1>. QED
  BY <1>1, MemoryKept DEF save

LEMMA Refuses == ASSUME VaultInv, NEW p \in Process, refuse(p) PROVE VaultInv'
<1>1. /\ ready(p) /\ kind[p] # "command" /\ returns(p, "none")
      /\ UNCHANGED <<processVars, kind, autosave, module>>
      /\ UNCHANGED <<next, stale, knowing, released, told>>
  BY DEF refuse, facade, ghosts
<1>2. module' = [module EXCEPT ![p] = module[p]]
  BY <1>1 DEF VaultInv, ClientsTyped
<1>3. Outcome(p, module[p], [name |-> "save", key |-> 0])
  BY <1>1, <1>2 DEF Outcome
<1>. QED
  BY <1>1, <1>3, MemoryKept

LEMMA Rewraps == ASSUME VaultInv, NEW p \in Process, command_kdf_rewrap(p) PROVE VaultInv'
<1>1. ready(p) /\ collectable(module[p])
  BY DEF command_kdf_rewrap, command, VaultInv, ClientOK
<1>2. Outcome(p, module[p], [name |-> "save", key |-> 0])
  BY <1>1 DEF command_kdf_rewrap, Outcome
<1>. QED
  BY <1>1, <1>2, MemoryKept DEF command_kdf_rewrap

\* A vault that is created, with its first save.
LEMMA Creates ==
  ASSUME VaultInv, NEW p \in Process, NEW k \in {"facade", "command"}, NEW a \in BOOLEAN,
         create(p, k, a), k = "command" => a
  PROVE  VaultInv'
<1>. DEFINE op == [name |-> "create", key |-> 0]
<1>1. /\ FilesClean /\ SavesAlone /\ ClientsTyped /\ next \in Nat /\ next <= next
  BY DEF VaultInv, ClientsTyped
<1>2. /\ begin_save(p, NoImage) /\ ClientStep(p, NoImage, k, a, op, "none")
      /\ knowing' = (IF primary = Absent THEN knowing \cup {p} ELSE knowing \ {p})
      /\ UNCHANGED <<next, stale, told, released>>
  BY DEF create, ClientStep
<1>3. NoImage \in Saveable(next) /\ NoImage \in Known(next) /\ DOMAIN NoImage = {} /\ collectable(NoImage)
  BY NothingSaveable DEF Saveable
<1>4. /\ FilesClean' /\ SavesAlone' /\ saving(p)' /\ image'[p] = NoImage /\ OthersKept(p)
      /\ UNCHANGED primary /\ (overlapped => overlapped')
  BY <1>1, <1>2, <1>3, BeginsSave DEF OthersKept
<1>5. op \in Operation /\ op # Idle /\ op.name = "create"
  BY SomeOperation
<1>. HIDE DEF op
<1>6. /\ stale' \in BOOLEAN /\ knowing' \subseteq Process /\ released' \in [Serial -> Nat]
      /\ \A j \in Serial : j >= next' => released'[j] = 0
  BY <1>1, <1>2 DEF ClientsTyped
<1>7. ClientsTyped' /\ \A q \in Process : ClientOK(q)'
  BY <1>1, <1>2, <1>3, <1>4, <1>5, <1>6, ClientsMove
<1>8. ~overlapped' /\ ~stale' => Remembers(p)'
  <2>. SUFFICES ASSUME ~overlapped', ~stale', p \in knowing' PROVE Remembers(p)'
    BY DEF Remembers
  <2>1. primary = Absent
    BY <1>2
  <2>2. told = {}
    BY <1>2, <1>4, <2>1 DEF VaultInv, Kept
  <2>3. module'[p] = NoImage /\ doing'[p] = op
    BY <1>1, <1>2 DEF ClientsTyped, ClientStep
  <2>. QED
    BY <1>2, <1>3, <1>5, <2>2, <2>3 DEF Remembers, Covers
<1>9. Kept'
  BY <1>2, <1>4, <1>8, KeptOn
<1>. QED
  BY <1>4, <1>7, <1>9 DEF VaultInv

\* A client that opens a vault knows what it holds.
LEMMA Opens ==
  ASSUME VaultInv, NEW p \in Process, NEW k \in {"facade", "command"}, NEW a \in BOOLEAN,
         open(p, k, a), k = "command" => a
  PROVE  VaultInv'
<1>1. /\ FilesClean /\ SavesAlone /\ ClientsTyped /\ next \in Nat /\ next <= next
  BY DEF VaultInv, ClientsTyped
<1>2. PICK i : /\ \/ readable(primary) /\ i = primary.image
                  \/ ~readable(primary) /\ readable(backup) /\ i = backup.image
               /\ module' = [module EXCEPT ![p] = i]
  BY DEF open, load_vault
<1>3. /\ kind[p] = "none" /\ kind' = [kind EXCEPT ![p] = k] /\ autosave' = [autosave EXCEPT ![p] = a]
      /\ answer' = [answer EXCEPT ![p] = "none"] /\ knowing' = knowing \cup {p}
      /\ UNCHANGED <<processVars, doing, next, stale, told, released>>
  BY DEF open
<1>4. i \in Saveable(next) /\ i \in Known(next) /\ collectable(i)
  BY <1>1, <1>2, FileKinds DEF FilesClean, Saveable
<1>5. /\ FilesClean' /\ SavesAlone' /\ UNCHANGED <<primary, overlapped>> /\ OthersKept(p)
      /\ saving(p)' <=> saving(p)
  BY <1>1, <1>3, FilesStay DEF OthersKept
<1>6. doing[p] = Idle /\ ~saving(p)
  BY <1>3 DEF VaultInv, ClientOK
<1>7. ClientStep(p, i, k, a, Idle, "none")
  BY <1>1, <1>2, <1>3, <1>6 DEF ClientStep, ClientsTyped
<1>8. /\ stale' \in BOOLEAN /\ knowing' \subseteq Process /\ released' \in [Serial -> Nat]
      /\ \A j \in Serial : j >= next' => released'[j] = 0
  BY <1>1, <1>3 DEF ClientsTyped
<1>9. ClientsTyped' /\ \A q \in Process : ClientOK(q)'
  BY <1>1, <1>3, <1>4, <1>5, <1>6, <1>7, <1>8, IdleOperation, ClientsMove
<1>10. ~overlapped' /\ ~stale' => Remembers(p)'
  <2>. SUFFICES ASSUME ~overlapped', ~stale' PROVE Remembers(p)'
    OBVIOUS
  <2>1. ~overlapped /\ ~stale /\ Kept
    BY <1>3, <1>5 DEF VaultInv
  <2>2. Covers(i)
    <3>1. CASE readable(primary)
      BY <1>2, <2>1, <3>1 DEF Kept
    <3>2. CASE ~readable(primary)
      <4>1. primary = Absent
        BY <1>1, <2>1, <3>2, FileKinds DEF FilesClean, SavesAlone
      <4>2. told = {} /\ \A j \in Serial : released[j] = 0
        BY <2>1, <4>1 DEF Kept
      <4>3. \A j \in DOMAIN i : j \in Serial /\ i[j].used \in Nat
        BY <1>4, ImageFields, UsedIsNat DEF Known
      <4>4. \A j \in DOMAIN i : released[j] <= i[j].used
        BY <4>2, <4>3, SMT
      <4>. QED
        BY <4>2, <4>4 DEF Covers
    <3>. QED
      BY <3>1, <3>2
  <2>3. module'[p] = i /\ doing'[p] = Idle
    BY <1>1, <1>7 DEF ClientsTyped, ClientStep
  <2>. QED
    BY <1>3, <2>2, <2>3, IdleOperation DEF Remembers, Covers
<1>11. Kept'
  BY <1>3, <1>5, <1>7, <1>10, KeptOn
<1>. QED
  BY <1>5, <1>9, <1>11 DEF VaultInv

-----------------------------------------------------------------------------
(* The saves. *)

\* A save goes on: the memory of the clients stays.
LEMMA SaveGoesOn ==
  ASSUME VaultInv, NEW p \in Process, FilesClean', SavesAlone',
         UNCHANGED <<clientVars, next, told, released>>,
         image' = image, \A q \in Process : saving(q)' <=> saving(q),
         overlapped' = overlapped,
         \/ primary' = primary /\ UNCHANGED <<knowing, stale>>
         \/ stale' = TRUE /\ knowing' = {}
  PROVE  VaultInv'
<1>1. UNCHANGED <<kind, autosave, module, doing, answer>> /\ ClientsTyped
  BY DEF clientVars, VaultInv
<1>2. ClientsTyped'
  BY <1>1 DEF ClientsTyped
<1>3. \A q \in Process : ClientOK(q)'
  BY <1>1 DEF VaultInv, ClientOK
<1>4. Kept'
  BY <1>1 DEF VaultInv, Kept, Remembers, Covers
<1>. QED
  BY <1>2, <1>3, <1>4 DEF VaultInv

LEMMA Proceeds == ASSUME VaultInv, NEW p \in Process, proceed(p) PROVE VaultInv'
<1>1. FilesClean /\ SavesAlone /\ next' = next
  BY DEF VaultInv, proceed
<1>2. FilesClean' /\ SavesAlone'
  BY <1>1, OpensTemp, WritesTemp, OpensBackup, CopiesBackup DEF proceed, file_step
<1>3. image' = image /\ overlapped' = overlapped /\ \A q \in Process : saving(q)' <=> saving(q)
  <2>1. \/ step[p] = "open" /\ step' = [step EXCEPT ![p] = "write"]
        \/ step[p] = "write" /\ step' = [step EXCEPT ![p] = after_write]
        \/ step[p] = "backup" /\ step' = [step EXCEPT ![p] = "copy"]
        \/ step[p] = "copy" /\ step' = [step EXCEPT ![p] = "rename"]
    BY DEF proceed, file_step, open_temp, write_temp, open_backup, copy_backup
  <2>2. after_write # "none"
    BY DEF after_write
  <2>3. step \in [Process -> Step]
    BY <1>1 DEF FilesClean
  <2>4. \A q \in Process : saving(q)' <=> saving(q)
    BY <2>1, <2>2, <2>3 DEF saving
  <2>5. image' = image /\ overlapped' = overlapped
    BY DEF proceed, file_step, open_temp, write_temp, open_backup, copy_backup
  <2>. QED
    BY <2>4, <2>5
<1>. QED
  BY <1>2, <1>3, SaveGoesOn DEF proceed

LEMMA CannotRename == ASSUME VaultInv, NEW p \in Process, cannot_rename(p) PROVE VaultInv'
<1>1. FilesClean /\ SavesAlone /\ UNCHANGED <<clientVars, next, told, released, knowing, stale>>
  BY DEF VaultInv, cannot_rename, ghosts
<1>2. FilesClean' /\ SavesAlone'
  BY <1>1, FailsToRename DEF cannot_rename
<1>3. /\ step[p] = "rename" /\ step' = [step EXCEPT ![p] = "cleanup"]
      /\ UNCHANGED <<primary, image, overlapped>>
  BY DEF cannot_rename, fail_rename, fileVars
<1>4. \A q \in Process : saving(q)' <=> saving(q)
  BY <1>1, <1>3 DEF FilesClean, saving
<1>. QED
  BY <1>1, <1>2, <1>3, <1>4, SaveGoesOn

\* A save is given up, or its process ends: the client loses at most its memory.
LEMMA GivenUp ==
  ASSUME VaultInv, NEW p \in Process, remove_temp(p) \/ fail_save(p) \/ die(p), returns(p, "none"),
         \/ exits(p)
         \/ goes_on,
         UNCHANGED <<next, told, released, stale>>, knowing' \subseteq knowing
  PROVE  VaultInv'
<1>1. FilesClean /\ SavesAlone /\ ClientsTyped /\ next \in Nat /\ next <= next
  BY DEF VaultInv, ClientsTyped
<1>2. /\ FilesClean' /\ SavesAlone' /\ saving(p) /\ ~saving(p)' /\ UNCHANGED <<primary, overlapped>>
      /\ OthersKept(p)
  BY <1>1, GivesUp DEF OthersKept
<1>3. /\ stale' \in BOOLEAN /\ knowing' \subseteq Process /\ released' \in [Serial -> Nat]
      /\ \A j \in Serial : j >= next' => released'[j] = 0
  BY <1>1 DEF ClientsTyped
<1>4. CASE exits(p)
  <2>1. ClientStep(p, NoImage, "none", TRUE, Idle, "none")
    BY <1>4 DEF exits, returns, ClientStep
  <2>2. NoImage \in Known(next')
    BY NothingSaveable DEF Saveable
  <2>3. ClientsTyped' /\ \A q \in Process : ClientOK(q)'
    BY <1>1, <1>2, <1>3, <2>1, <2>2, IdleOperation, ClientsMove
  <2>4. Remembers(p)'
    BY <1>1, <2>1 DEF ClientsTyped, ClientStep, Remembers
  <2>5. Kept'
    BY <1>2, <2>1, <2>4, KeptOn
  <2>. QED
    BY <1>2, <2>3, <2>5 DEF VaultInv
<1>5. CASE goes_on
  <2>1. ClientStep(p, module[p], kind[p], autosave[p], Idle, "none")
    BY <1>1, <1>5 DEF goes_on, returns, ClientStep, ClientsTyped
  <2>2. /\ module[p] \in Known(next') /\ kind[p] \in {"none", "facade", "command"}
        /\ autosave[p] \in BOOLEAN
        /\ kind[p] = "command" => autosave[p] /\ collectable(module[p])
    BY <1>1 DEF ClientsTyped, VaultInv, ClientOK
  <2>3. ClientsTyped' /\ \A q \in Process : ClientOK(q)'
    BY <1>1, <1>2, <1>3, <2>1, <2>2, IdleOperation, ClientsMove
  <2>4. ~overlapped' /\ ~stale' => Remembers(p)'
    <3>1. module'[p] = module[p] /\ kind'[p] = kind[p] /\ doing'[p] = Idle
      BY <1>1, <2>1 DEF ClientsTyped, ClientStep
    <3>. QED
      BY <1>2, <3>1, IdleOperation DEF VaultInv, Kept, Remembers, Covers
  <2>5. Kept'
    BY <1>2, <2>1, <2>4, KeptOn
  <2>. QED
    BY <1>2, <2>3, <2>5 DEF VaultInv
<1>. QED
  BY <1>4, <1>5

LEMMA Exits == ASSUME VaultInv, NEW p \in Process, exit(p) PROVE VaultInv'
<1>1. /\ exits(p) /\ returns(p, "none") /\ knowing' = knowing \ {p}
      /\ UNCHANGED <<next, told, released, stale>>
  BY DEF exit
<1>2. CASE saving(p)
  BY <1>1, <1>2, GivenUp DEF exit
<1>3. CASE ~saving(p)
  <2>1. ready(p) /\ UNCHANGED processVars
    BY <1>3 DEF exit, ready
  <2>2. FilesClean /\ SavesAlone /\ ClientsTyped /\ next \in Nat /\ next <= next
    BY DEF VaultInv, ClientsTyped
  <2>3. /\ FilesClean' /\ SavesAlone' /\ UNCHANGED <<primary, overlapped>> /\ OthersKept(p)
        /\ ~saving(p)'
    BY <1>1, <1>3, <2>1, <2>2, FilesStay DEF OthersKept
  <2>4. ClientStep(p, NoImage, "none", TRUE, Idle, "none")
    BY <1>1 DEF exits, returns, ClientStep
  <2>5. NoImage \in Known(next')
    BY NothingSaveable DEF Saveable
  <2>6. /\ stale' \in BOOLEAN /\ knowing' \subseteq Process /\ released' \in [Serial -> Nat]
        /\ \A j \in Serial : j >= next' => released'[j] = 0
    BY <1>1, <2>2 DEF ClientsTyped
  <2>7. ClientsTyped' /\ \A q \in Process : ClientOK(q)'
    BY <1>1, <2>2, <2>3, <2>4, <2>5, <2>6, IdleOperation, ClientsMove
  <2>8. Remembers(p)'
    BY <2>2, <2>4 DEF ClientsTyped, ClientStep, Remembers
  <2>9. Kept'
    BY <1>1, <2>3, <2>4, <2>8, KeptOn
  <2>. QED
    BY <2>3, <2>7, <2>9 DEF VaultInv
<1>. QED
  BY <1>2, <1>3

\* What is acknowledged when a save has replaced the vault is in what it saved.
LEMMA AcknowledgesTyped ==
  ASSUME VaultInv, NEW p \in Process, saving(p), acknowledge(p)
  PROVE  /\ released' \in [Serial -> Nat] /\ \A j \in Serial : j >= next => released'[j] = 0
         /\ ~overlapped /\ ~stale /\ p \in knowing =>
              /\ told' \subseteq DOMAIN module[p]
              /\ \A j \in DOMAIN module[p] : released'[j] <= module[p][j].used
<1>. DEFINE m == module[p]
            op == doing[p]
<1>1. /\ m \in Known(next) /\ next \in Nat /\ released \in [Serial -> Nat]
      /\ \A j \in Serial : j >= next => released[j] = 0
  BY DEF VaultInv, ClientsTyped
<1>2. /\ told' = (IF op.name = "generate" THEN told \cup {op.key} ELSE told)
      /\ released' = (IF op.name = "sign" THEN [released EXCEPT ![op.key] = @ + 1] ELSE released)
  BY DEF acknowledge
<1>3. op.name \in {"generate", "sign"} => op.key \in DOMAIN m
  BY DEF VaultInv, ClientOK
<1>4. \A j \in DOMAIN m : j \in Serial /\ j \in 1..(next - 1) /\ m[j] \in KeyEntry
  BY <1>1, ImageFields DEF Known
<1>5. \A j \in DOMAIN m : m[j].used \in Nat /\ released[j] \in Nat /\ ~(j >= next)
  BY <1>1, <1>4, UsedIsNat, SMT
<1>. HIDE DEF m, op
<1>6. released' \in [Serial -> Nat]
  BY <1>1, <1>2, <1>3, <1>4
<1>7. \A j \in Serial : j >= next => released'[j] = 0
  <2>. SUFFICES ASSUME NEW j \in Serial, j >= next PROVE released'[j] = 0
    OBVIOUS
  <2>1. op.name = "sign" => j # op.key
    BY <1>3, <1>5
  <2>2. released'[j] = released[j]
    BY <1>1, <1>2, <2>1
  <2>. QED
    BY <1>1, <2>2
<1>8. ASSUME ~overlapped, ~stale, p \in knowing
      PROVE  told' \subseteq DOMAIN m /\ \A j \in DOMAIN m : released'[j] <= m[j].used
  <2>1. /\ told \subseteq DOMAIN m /\ \A j \in DOMAIN m : released[j] <= m[j].used
        /\ op.name = "sign" => released[op.key] < m[op.key].used
    BY <1>8 DEF VaultInv, ClientOK, Kept, Remembers, Covers, m, op
  <2>2. told' \subseteq DOMAIN m
    BY <1>2, <1>3, <2>1
  <2>3. ASSUME NEW j \in DOMAIN m PROVE released'[j] <= m[j].used
    <3>1. CASE op.name = "sign" /\ j = op.key
      <4>1. released'[j] = released[j] + 1
        BY <1>1, <1>2, <1>4, <3>1
      <4>2. released[j] < m[j].used /\ released[j] \in Nat /\ m[j].used \in Nat
        BY <1>5, <2>1, <3>1
      <4>. QED
        BY <4>1, <4>2, SMT
    <3>2. CASE ~(op.name = "sign" /\ j = op.key)
      <4>1. released'[j] = released[j]
        BY <1>1, <1>2, <1>4, <3>2
      <4>. QED
        BY <2>1, <4>1
    <3>. QED
      BY <3>1, <3>2
  <2>. QED
    BY <2>2, <2>3
<1>. QED
  BY <1>6, <1>7, <1>8 DEF m

LEMMA Replaces == ASSUME VaultInv, NEW p \in Process, replace(p) PROVE VaultInv'
<1>1. FilesClean /\ SavesAlone /\ ClientsTyped /\ next' = next /\ next \in Nat /\ next <= next
  BY DEF VaultInv, ClientsTyped, replace
<1>2. rename_temp(p) /\ overlapped' = overlapped
  BY DEF replace, rename_temp
<1>3. /\ FilesClean' /\ SavesAlone' /\ saving(p)
      /\ \A q \in Process \ {p} : (saving(q)' <=> saving(q)) /\ image'[q] = image[q]
      /\ saving(p)' => UNCHANGED <<primary, image>>
      /\ ~overlapped => ~saving(p)' /\ primary' = Holding(image[p])
  BY <1>1, <1>2, RenamesTemp
<1>4. CASE saving(p)'
  <2>1. UNCHANGED <<clientVars, knowing, stale, told, released>>
    BY <1>4 DEF replace
  <2>2. \A q \in Process : saving(q)' <=> saving(q)
    BY <1>3, <1>4
  <2>. QED
    BY <1>1, <1>2, <1>3, <1>4, <2>1, <2>2, SaveGoesOn
<1>5. CASE ~saving(p)'
  <2>. DEFINE m == module[p]
  <2>1. /\ knowing' = {p} /\ stale' = (stale \/ p \notin knowing) /\ acknowledge(p)
        /\ returns(p, "ok") /\ IF kind[p] = "command" THEN exits(p) ELSE goes_on
    BY <1>5 DEF replace
  <2>2. /\ released' \in [Serial -> Nat] /\ \A j \in Serial : j >= next' => released'[j] = 0
        /\ ~overlapped /\ ~stale /\ p \in knowing =>
             told' \subseteq DOMAIN m /\ \A j \in DOMAIN m : released'[j] <= m[j].used
    BY <1>1, <1>3, <2>1, AcknowledgesTyped
  <2>3. stale' \in BOOLEAN /\ knowing' \subseteq Process
    BY <1>1, <2>1 DEF ClientsTyped
  <2>4. PICK n, k, a : /\ ClientStep(p, n, k, a, Idle, "ok")
                       /\ \/ n = NoImage /\ k = "none" /\ a = TRUE
                          \/ n = m /\ k = kind[p] /\ a = autosave[p] /\ k # "command"
    <3>1. CASE exits(p)
      <4>1. ClientStep(p, NoImage, "none", TRUE, Idle, "ok")
        BY <2>1, <3>1 DEF exits, returns, ClientStep
      <4>. QED
        BY <4>1
    <3>2. CASE goes_on /\ kind[p] # "command"
      <4>1. ClientStep(p, m, kind[p], autosave[p], Idle, "ok")
        BY <1>1, <2>1, <3>2 DEF goes_on, returns, ClientStep, ClientsTyped
      <4>. QED
        BY <3>2, <4>1
    <3>. QED
      BY <2>1, <3>1, <3>2
  <2>5. /\ n \in Known(next') /\ k \in {"none", "facade", "command"} /\ a \in BOOLEAN
        /\ k # "command"
    <3>1. NoImage \in Known(next')
      BY NothingSaveable DEF Saveable
    <3>2. m \in Known(next') /\ kind[p] \in {"none", "facade", "command"} /\ autosave[p] \in BOOLEAN
      BY <1>1 DEF ClientsTyped
    <3>. QED
      BY <2>4, <3>1, <3>2
  <2>6. OthersKept(p)
    BY <1>3 DEF OthersKept
  <2>7. ClientsTyped' /\ \A q \in Process : ClientOK(q)'
    BY <1>1, <1>5, <2>2, <2>3, <2>4, <2>5, <2>6, IdleOperation, ClientsMove
  <2>8. Kept'
    <3>. SUFFICES ASSUME ~overlapped', ~stale' PROVE Kept'
      BY DEF Kept
    <3>1. ~overlapped /\ ~stale /\ p \in knowing
      BY <1>2, <2>1
    <3>2. image[p] = m
      BY <1>3 DEF VaultInv, ClientOK
    <3>3. primary' = Holding(m)
      BY <1>3, <3>1, <3>2
    <3>. HIDE DEF m
    <3>4. primary' # Absent /\ primary'.image = m
      BY <3>3, FileKinds
    <3>5. told' \subseteq DOMAIN m /\ \A j \in DOMAIN m : released'[j] <= m[j].used
      BY <2>2, <3>1
    <3>6. \A q \in Process : Remembers(q)'
      <4>1. module'[p] = n /\ kind'[p] = k /\ doing'[p] = Idle
        BY <1>1, <2>4 DEF ClientsTyped, ClientStep
      <4>2. Remembers(p)'
        BY <2>4, <3>5, <4>1, IdleOperation DEF Remembers, Covers
      <4>. QED
        BY <2>1, <4>2 DEF Remembers
    <3>. QED
      BY <3>4, <3>5, <3>6 DEF Kept, Covers
  <2>. QED
    BY <1>3, <2>7, <2>8 DEF VaultInv
<1>. QED
  BY <1>4, <1>5

-----------------------------------------------------------------------------
(* The invariant. *)

LEMMA ClientsBegin == ClientInit => VaultInv
<1>. SUFFICES ASSUME ClientInit PROVE VaultInv
  OBVIOUS
<1>. USE DEF ClientInit, FilesInit
<1>1. NoImage \in Saveable(next) /\ NoImage \in Known(next)
  BY NothingSaveable DEF Saveable
<1>2. FilesClean
  BY <1>1 DEF FilesClean, Files, Step, Targets
<1>3. SavesAlone
  BY FileKinds DEF SavesAlone, Progress, saving
<1>4. ClientsTyped
  <2>1. /\ kind \in [Process -> {"none", "facade", "command"}] /\ autosave \in [Process -> BOOLEAN]
        /\ doing \in [Process -> Operation] /\ answer \in [Process -> {"none", "ok"}]
        /\ module \in [Process -> Known(next)] /\ stale \in BOOLEAN /\ knowing \subseteq Process
    BY <1>1, IdleOperation
  <2>2. next \in Nat \ {0}
    BY SMT
  <2>3. released \in [Serial -> Nat] /\ \A k \in Serial : released[k] = 0
    OBVIOUS
  <2>. QED
    BY <2>1, <2>2, <2>3 DEF ClientsTyped
<1>5. \A p \in Process : ClientOK(p)
  BY IdleOperation DEF ClientOK, saving
<1>6. Kept
  <2>1. told = {} /\ \A k \in Serial : released[k] = 0
    OBVIOUS
  <2>2. ~readable(primary)
    BY FileKinds
  <2>. QED
    BY <2>1, <2>2 DEF Kept, Remembers
<1>. QED
  BY <1>2, <1>3, <1>4, <1>5, <1>6 DEF VaultInv

LEMMA ClientsContinue == VaultInv /\ [ClientNext]_vars => VaultInv'
<1>. SUFFICES ASSUME VaultInv, [ClientNext]_vars PROVE VaultInv'
  OBVIOUS
<1>1. ASSUME NEW p \in Process, facade_step(p) PROVE VaultInv'
  <2>1. ASSUME NEW a \in BOOLEAN, create(p, "facade", a) PROVE VaultInv'
    BY <2>1, Creates
  <2>2. ASSUME NEW a \in BOOLEAN, open(p, "facade", a) PROVE VaultInv'
    BY <2>2, Opens
  <2>3. ASSUME NEW k \in Serial, sign(p, k) \/ rotate(p, k) \/ sign_withheld(p, k) \/ erase(p, k)
        PROVE  VaultInv'
    BY <2>3, Signs, Rotates, Withholds, Erases
  <2>4. ASSUME NEW k \in Serial, NEW s \in KeyState, set_state(p, k, s) PROVE VaultInv'
    BY <2>4, SetsState
  <2>. QED
    BY <1>1, <2>1, <2>2, <2>3, <2>4, Generates, SavesAgain, Refuses DEF facade_step
<1>2. ASSUME NEW p \in Process, command_step(p) PROVE VaultInv'
  <2>1. CASE command_init(p) \/ command_reads(p)
    BY <2>1, Creates, Opens DEF command_init, command_reads
  <2>2. CASE command_generate_ed25519(p)
    BY <2>2, Generates DEF command_generate_ed25519
  <2>3. ASSUME NEW k \in Serial, command_session_sign(p, k) \/ command_rotate(p, k) PROVE VaultInv'
    BY <2>3, Signs, Rotates DEF command_session_sign, command_rotate
  <2>. QED
    BY <1>2, <2>1, <2>2, <2>3, Rewraps DEF command_step
<1>3. ASSUME NEW p \in Process, give_up(p) PROVE VaultInv'
  <2>1. returns(p, "none") /\ (exits(p) \/ goes_on) /\ UNCHANGED <<next, told, released, stale, knowing>>
    BY <1>3 DEF give_up, ghosts
  <2>. QED
    BY <1>3, <2>1, GivenUp DEF give_up
<1>4. CASE UNCHANGED vars
  <2>1. /\ UNCHANGED <<processVars, clientVars, next, told, released, knowing, stale>>
    BY <1>4 DEF vars, ghosts
  <2>2. FilesClean /\ SavesAlone /\ next \in Nat /\ next' = next /\ next <= next
    BY <2>1 DEF VaultInv, ClientsTyped
  <2>3. /\ FilesClean' /\ SavesAlone' /\ UNCHANGED <<primary, overlapped, image>>
        /\ \A q \in Process : saving(q)' <=> saving(q)
    BY <2>1, <2>2, FilesStay
  <2>4. CASE Process = {}
    BY <2>1, <2>3, <2>4 DEF VaultInv, clientVars, ClientsTyped, Kept, Covers
  <2>5. CASE Process # {}
    BY <2>1, <2>3, <2>5, SaveGoesOn
  <2>. QED
    BY <2>4, <2>5
<1>. QED
  BY <1>1, <1>2, <1>3, <1>4, Proceeds, Replaces, CannotRename, Exits DEF ClientNext

LEMMA ClientsInvariant == ClientSpec => []VaultInv
<1>1. ClientInit => VaultInv
  BY ClientsBegin
<1>2. VaultInv /\ [ClientNext]_vars => VaultInv'
  BY ClientsContinue
<1>. QED
  BY <1>1, <1>2, PTL DEF ClientSpec

-----------------------------------------------------------------------------
(* What the invariant says of the vault. *)

LEMMA InvTornOnlyByOverlap == VaultInv => TornOnlyByOverlap
BY DEF VaultInv, SavesAlone, TornOnlyByOverlap

LEMMA InvRevokedNeverSaved == VaultInv => RevokedNeverSaved
<1>. SUFFICES ASSUME VaultInv, NEW f \in {primary, backup, temp}, readable(f)
              PROVE  \A k \in DOMAIN f.image : f.image[k].state \in {"active", "retired"}
  BY DEF RevokedNeverSaved
<1>1. f \in Files(next)
  BY DEF VaultInv, FilesClean
<1>2. f.image \in Saveable(next)
  BY <1>1, FileKinds
<1>. QED
  BY <1>2 DEF Saveable, collectable, exportable

LEMMA InvAcknowledgedSurvives == VaultInv => AcknowledgedSurvives
BY DEF VaultInv, Kept, Covers, AcknowledgedSurvives

LEMMA InvClientTypeOK == VaultInv => ClientTypeOK
<1>. SUFFICES ASSUME VaultInv PROVE ClientTypeOK
  OBVIOUS
<1>1. FilesClean /\ ClientsTyped /\ \A p \in Process : ClientOK(p)
  BY DEF VaultInv
<1>2. Saveable(next) \subseteq Image /\ Known(next) \subseteq Image
  BY DEF Saveable, Known
<1>3. Files(next) \subseteq File
  BY <1>2 DEF Files, File, Holding
<1>4. /\ {primary, backup, temp} \subseteq File /\ step \in [Process -> Step]
      /\ image \in [Process -> Image] /\ module \in [Process -> Image]
      /\ target \in [Process -> {"none", "temp", "primary", "gone"}]
      /\ source \in [Process -> File \cup {Live}]
  BY <1>1, <1>2, <1>3 DEF FilesClean, ClientsTyped, Targets
<1>5. /\ kind \in [Process -> {"none", "facade", "command"}] /\ doing \in [Process -> Operation]
      /\ \A p \in Process : kind[p] = "none" => ~saving(p) /\ doing[p] = Idle
      /\ \A p \in Process : saving(p) <=> doing[p] # Idle
  BY <1>1 DEF ClientsTyped, ClientOK
<1>. QED
  BY <1>4, <1>5 DEF ClientTypeOK

\* The operation of p is over with success in one way: its save replaced the vault.
LEMMA StepAcknowledgesSaved ==
  ASSUME VaultInv, [ClientNext]_vars, NEW p \in Process,
         answer'[p] = "ok", doing[p] # Idle, doing'[p] = Idle, ~overlapped'
  PROVE  primary' = Holding(module[p])
<1>1. /\ doing \in [Process -> Operation] /\ answer \in [Process -> {"none", "ok"}]
      /\ FilesClean /\ SavesAlone /\ saving(p)
  BY DEF VaultInv, ClientsTyped, ClientOK
<1>2. ~ready(p) /\ kind[p] # "none"
  BY <1>1 DEF ready, VaultInv, ClientOK
<1>3. doing' # doing
  OBVIOUS
<1>4. PICK q \in Process : facade_step(q) \/ command_step(q) \/ proceed(q) \/ replace(q)
                           \/ give_up(q) \/ cannot_rename(q) \/ exit(q)
  BY <1>3 DEF ClientNext, vars, clientVars
<1>5. CASE replace(q)
  <2>1. q = p
    <3>1. saving(q)' \/ doing' = [doing EXCEPT ![q] = Idle]
      BY <1>5 DEF replace, returns
    <3>2. saving(q)' => doing' = doing
      BY <1>5 DEF replace, clientVars
    <3>. QED
      BY <1>1, <1>3, <3>1, <3>2
  <2>2. rename_temp(p) /\ next' = next /\ overlapped' = overlapped
    BY <1>5, <2>1 DEF replace, rename_temp
  <2>3. primary' = Holding(image[p])
    BY <1>1, <2>2, RenamesTemp
  <2>. QED
    BY <1>1, <2>3 DEF VaultInv, ClientOK
<1>6. CASE give_up(q) \/ exit(q)
  <2>1. returns(q, "none")
    BY <1>6 DEF give_up, exit
  <2>2. q = p => answer'[p] = "none"
    BY <1>1, <2>1 DEF returns
  <2>3. q # p => doing'[p] = doing[p]
    BY <1>1, <2>1 DEF returns
  <2>. QED
    BY <2>2, <2>3
<1>7. CASE proceed(q) \/ cannot_rename(q)
  BY <1>3, <1>7 DEF proceed, cannot_rename, clientVars
<1>8. CASE facade_step(q) \/ command_step(q)
  <2>1. q # p
    <3>1. ASSUME NEW k, NEW a, create(p, k, a) \/ open(p, k, a) PROVE FALSE
      BY <1>2, <3>1 DEF create, open
    <3>2. ASSUME facade_step(p) PROVE FALSE
      BY <1>2, <3>1, <3>2 DEF facade_step, facade, save, refuse, generate, sign, rotate,
           sign_withheld, erase, set_state
    <3>3. ASSUME command_step(p) PROVE FALSE
      BY <1>2, <3>1, <3>3 DEF command_step, command, command_init, command_reads,
           command_generate_ed25519, command_session_sign, command_rotate, command_kdf_rewrap
    <3>. QED
      BY <1>8, <3>2, <3>3
  <2>2. \/ doing' = doing
        \/ \E op : doing' = [doing EXCEPT ![q] = op]
    <3>1. \A m, op : save_begins(q, m, op) \/ save_collected(q, m, op) \/ persist_if_needed(q, m, op) =>
                       \E o : doing' = [doing EXCEPT ![q] = o]
      BY DEF save_begins, save_collected, persist_if_needed, returns
    <3>2. \A k, a : create(q, k, a) \/ open(q, k, a) =>
                      doing' = doing \/ \E o : doing' = [doing EXCEPT ![q] = o]
      BY DEF create, open
    <3>3. facade_step(q) => doing' = doing \/ \E o : doing' = [doing EXCEPT ![q] = o]
      BY <3>1, <3>2 DEF facade_step, save, refuse, returns, generate, sign, rotate,
           sign_withheld, erase, set_state
    <3>4. command_step(q) => doing' = doing \/ \E o : doing' = [doing EXCEPT ![q] = o]
      BY <3>1, <3>2 DEF command_step, command_init, command_reads,
           command_generate_ed25519, command_session_sign, command_rotate, command_kdf_rewrap,
           generate, sign, rotate
    <3>. QED
      BY <1>8, <3>3, <3>4
  <2>. QED
    BY <1>1, <1>3, <2>1, <2>2
<1>. QED
  BY <1>4, <1>5, <1>6, <1>7, <1>8

-----------------------------------------------------------------------------
(* What a load returns. *)

\* There is a backup, or one is being made, only of a vault that was there.
NoBackupFirst ==
  backup # Absent \/ (\E p \in Process : step[p] \in {"backup", "copy"}) => primary # Absent

\* What the clients do to the files: nothing, or the beginning of a save.
LEMMA ClientsBeginSaves ==
  ASSUME NEW p \in Process, facade_step(p) \/ command_step(p)
  PROVE  UNCHANGED processVars \/ \E i : begin_save(p, i)
<1>. DEFINE Done == UNCHANGED processVars \/ \E i : begin_save(p, i)
<1>1. \A m, op : save_begins(p, m, op) \/ save_collected(p, m, op) \/ persist_if_needed(p, m, op) => Done
  BY DEF save_begins, save_collected, persist_if_needed
<1>2. \A k, a : create(p, k, a) \/ open(p, k, a) => Done
  BY <1>1 DEF create, open
<1>. HIDE DEF Done
<1>3. facade_step(p) => Done
  <2>1. generate(p) \/ save(p) \/ refuse(p) => Done
    BY <1>1 DEF generate, save, refuse, Done
  <2>2. \A k \in Serial : sign(p, k) \/ rotate(p, k) \/ sign_withheld(p, k) \/ erase(p, k) => Done
    BY <1>1 DEF sign, rotate, sign_withheld, erase, Done
  <2>3. \A k \in Serial, s \in KeyState : set_state(p, k, s) => Done
    BY <1>1 DEF set_state
  <2>. QED
    BY <1>2, <2>1, <2>2, <2>3 DEF facade_step
<1>4. command_step(p) => Done
  <2>1. command_init(p) \/ command_reads(p) => Done
    BY <1>2 DEF command_init, command_reads
  <2>2. command_generate_ed25519(p) \/ command_kdf_rewrap(p) => Done
    BY <1>1 DEF command_generate_ed25519, generate, command_kdf_rewrap
  <2>3. \A k \in Serial : command_session_sign(p, k) \/ command_rotate(p, k) => Done
    BY <1>1 DEF command_session_sign, sign, command_rotate, rotate
  <2>. QED
    BY <2>1, <2>2, <2>3 DEF command_step
<1>. QED
  BY <1>3, <1>4 DEF Done

\* The primary never goes missing again.
LEMMA NoBackupStep == FilesClean /\ NoBackupFirst /\ [ClientNext]_vars => NoBackupFirst'
<1>. SUFFICES ASSUME FilesClean, NoBackupFirst, [ClientNext]_vars PROVE NoBackupFirst'
  OBVIOUS
<1>. USE DEF FilesClean
<1>1. ASSUME UNCHANGED processVars PROVE NoBackupFirst'
  BY <1>1 DEF processVars, fileVars, saveVars, NoBackupFirst
<1>2. ASSUME NEW p \in Process, NEW i, begin_save(p, i) PROVE NoBackupFirst'
  BY <1>2 DEF begin_save, fileVars, NoBackupFirst
<1>3. ASSUME NEW p \in Process, open_temp(p) PROVE NoBackupFirst'
  BY <1>3 DEF open_temp, NoBackupFirst
<1>4. ASSUME NEW p \in Process, write_temp(p) PROVE NoBackupFirst'
  <2>1. primary # Absent => primary' # Absent
    BY <1>4, FileKinds DEF write_temp, written
  <2>2. backup' = backup /\ step' = [step EXCEPT ![p] = after_write]
    BY <1>4 DEF write_temp
  <2>3. after_write \in {"backup", "copy"} => primary # Absent
    BY DEF after_write
  <2>. QED
    BY <2>1, <2>2, <2>3 DEF NoBackupFirst
<1>5. ASSUME NEW p \in Process, open_backup(p) PROVE NoBackupFirst'
  BY <1>5 DEF open_backup, NoBackupFirst
<1>6. ASSUME NEW p \in Process, copy_backup(p) PROVE NoBackupFirst'
  <2>1. /\ step[p] = "copy" /\ step' = [step EXCEPT ![p] = "rename"] /\ primary' = primary
    BY <1>6 DEF copy_backup
  <2>. QED
    BY <2>1 DEF NoBackupFirst
<1>7. ASSUME NEW p \in Process, rename_temp(p) PROVE NoBackupFirst'
  <2>1. CASE temp = Absent
    BY <1>7, <2>1 DEF rename_temp, fileVars, NoBackupFirst
  <2>2. CASE temp # Absent
    BY <1>7, <2>2 DEF rename_temp, NoBackupFirst
  <2>. QED
    BY <2>1, <2>2
<1>8. ASSUME NEW p \in Process, remove_temp(p) \/ fail_save(p) \/ fail_rename(p) \/ die(p)
      PROVE  NoBackupFirst'
  <2>1. UNCHANGED <<primary, backup>> /\ \E s \in {"none", "cleanup"} : step' = [step EXCEPT ![p] = s]
    BY <1>8 DEF remove_temp, fail_save, fail_rename, die, end_save, fileVars
  <2>. QED
    BY <2>1 DEF NoBackupFirst
<1>9. ASSUME NEW p \in Process, facade_step(p) \/ command_step(p) PROVE NoBackupFirst'
  BY <1>1, <1>2, <1>9, ClientsBeginSaves
<1>10. ASSUME NEW p \in Process, proceed(p) \/ replace(p) PROVE NoBackupFirst'
  BY <1>3, <1>4, <1>5, <1>6, <1>7, <1>10 DEF proceed, file_step, replace
<1>11. ASSUME NEW p \in Process, give_up(p) \/ cannot_rename(p) \/ exit(p) PROVE NoBackupFirst'
  BY <1>1, <1>8, <1>11 DEF give_up, cannot_rename, exit
<1>. QED
  BY <1>1, <1>9, <1>10, <1>11 DEF ClientNext, vars

LEMMA NoBackupHolds == ClientSpec => []NoBackupFirst
<1>1. ClientInit => NoBackupFirst
  BY DEF ClientInit, FilesInit, NoBackupFirst
<1>2. VaultInv => FilesClean
  BY DEF VaultInv
<1>. QED
  BY <1>1, <1>2, NoBackupStep, ClientsInvariant, PTL DEF ClientSpec

\* As long as no two saves overlap, what a load returns is what the primary holds.
LoadsPrimary == ~overlapped => load_vault = IF readable(primary) THEN {primary.image} ELSE {}

LEMMA InvLoadsPrimary == VaultInv /\ NoBackupFirst => LoadsPrimary
<1>. SUFFICES ASSUME FilesClean, SavesAlone, NoBackupFirst, ~overlapped PROVE LoadsPrimary
  BY DEF VaultInv, LoadsPrimary
<1>1. readable(primary) \/ primary = Absent
  BY FileKinds DEF FilesClean, SavesAlone
<1>2. CASE readable(primary)
  BY <1>2 DEF load_vault, LoadsPrimary
<1>3. CASE primary = Absent
  <2>1. ~readable(primary) /\ ~readable(backup)
    BY <1>3, FileKinds DEF NoBackupFirst
  <2>. QED
    BY <2>1 DEF load_vault, LoadsPrimary
<1>. QED
  BY <1>1, <1>2, <1>3

LEMMA OverlapStays == [ClientNext]_vars /\ overlapped => overlapped'
<1>. SUFFICES ASSUME [ClientNext]_vars, overlapped PROVE overlapped'
  OBVIOUS
<1>1. ASSUME NEW p \in Process, facade_step(p) \/ command_step(p) PROVE overlapped'
  BY <1>1, ClientsBeginSaves DEF processVars, begin_save
<1>2. ASSUME NEW p \in Process, proceed(p) \/ replace(p) \/ give_up(p) \/ cannot_rename(p) \/ exit(p)
      PROVE  overlapped'
  BY <1>2 DEF proceed, file_step, open_temp, write_temp, open_backup, copy_backup, replace, rename_temp,
     give_up, remove_temp, fail_save, cannot_rename, fail_rename, exit, die, processVars
<1>. QED
  BY <1>1, <1>2 DEF ClientNext, vars, processVars

\* The primary is replaced in one way only: by the rename that ends a save.
LEMMA OnlyRenameReplaces ==
  ASSUME VaultInv, [ClientNext]_vars, ~overlapped', primary' # primary
  PROVE  ~overlapped /\ \E p \in Process : replace(p)
<1>1. FilesClean /\ SavesAlone /\ primary \in Files(next)
  BY DEF VaultInv, FilesClean
<1>2. PICK p \in Process : facade_step(p) \/ command_step(p) \/ proceed(p) \/ replace(p)
                           \/ give_up(p) \/ cannot_rename(p) \/ exit(p)
  BY DEF ClientNext, vars, processVars, fileVars
<1>3. ~(facade_step(p) \/ command_step(p))
  BY ClientsBeginSaves DEF processVars, fileVars, begin_save
<1>4. ~(give_up(p) \/ cannot_rename(p) \/ exit(p))
  BY DEF give_up, cannot_rename, exit, remove_temp, fail_save, fail_rename, die, processVars, fileVars
<1>5. ~proceed(p)
  <2>1. open_temp(p) \/ open_backup(p) \/ copy_backup(p) => primary' = primary
    BY DEF open_temp, open_backup, copy_backup
  <2>2. write_temp(p) /\ next' = next => (overlapped \/ primary' = primary) /\ overlapped' = overlapped
    BY <1>1, WritesTemp DEF write_temp
  <2>. QED
    BY <2>1, <2>2 DEF proceed, file_step
<1>6. replace(p)
  BY <1>2, <1>3, <1>4, <1>5
<1>7. overlapped' = overlapped
  BY <1>6 DEF replace, rename_temp
<1>. QED
  BY <1>6, <1>7

LEMMA StepReplaces ==
  ASSUME VaultInv, LoadsPrimary, LoadsPrimary', [ClientNext]_vars,
         load_vault' # load_vault, ~overlapped'
  PROVE  \E p \in Process : Acknowledges(p) /\ load_vault' = {module[p]}
<1>1. ~overlapped
  BY OverlapStays
<1>2. /\ load_vault = IF readable(primary) THEN {primary.image} ELSE {}
      /\ load_vault' = IF readable(primary') THEN {primary'.image} ELSE {}
  BY <1>1 DEF LoadsPrimary, readable
<1>3. primary' # primary
  BY <1>2
<1>4. PICK p \in Process : replace(p)
  BY <1>3, OnlyRenameReplaces
<1>5. /\ rename_temp(p) /\ next' = next /\ FilesClean /\ SavesAlone
      /\ doing \in [Process -> Operation] /\ answer \in [Process -> {"none", "ok"}]
  BY <1>4 DEF replace, VaultInv, ClientsTyped
<1>6. saving(p) /\ ~saving(p)' /\ primary' = Holding(image[p])
  BY <1>1, <1>5, RenamesTemp
<1>7. returns(p, "ok")
  BY <1>4, <1>6 DEF replace
<1>8. doing[p] # Idle /\ image[p] = module[p]
  BY <1>6 DEF VaultInv, ClientOK
<1>9. doing'[p] = Idle /\ answer'[p] = "ok"
  BY <1>5, <1>7 DEF returns
<1>10. load_vault' = {image[p]}
  BY <1>2, <1>6, FileKinds
<1>. QED
  BY <1>8, <1>9, <1>10 DEF Acknowledges

-----------------------------------------------------------------------------
\* The variables of the facade and of the files have their types, and a save is under
\* way exactly while an operation waits for it (easy.cpp:120-125).
THEOREM ClientsAreTyped == ClientSpec => []ClientTypeOK
BY ClientsInvariant, InvClientTypeOK, PTL

\* save_vault_atomic (vault.cpp:280-317) never leaves the vault unreadable, unless
\* two saves have been under way at once.
THEOREM OnlyOverlapTears == ClientSpec => []TornOnlyByOverlap
BY ClientsInvariant, InvTornOnlyByOverlap, PTL

\* collect_from_ssm (vault.cpp:486-499) keeps disabled, compromised and destroyed
\* keys out of every file, whatever saves overlap.
THEOREM RevokedStaysOut == ClientSpec => []RevokedNeverSaved
BY ClientsInvariant, InvRevokedNeverSaved, PTL

\* Acknowledged keys and released signatures are in the vault, as long as no two saves
\* overlap and none is over a vault its process does not know (persist_if_needed).
THEOREM AcknowledgedStays == ClientSpec => []AcknowledgedSurvives
BY ClientsInvariant, InvAcknowledgedSurvives, PTL

\* Success is returned only once the primary holds what the module holds, and what a
\* load returns changes in no other way than by that rename (vault.cpp:299).
THEOREM SuccessMeansSaved == ClientSpec => AcknowledgedIsSaved
<1>1. ASSUME VaultInv, LoadsPrimary, LoadsPrimary', [ClientNext]_vars, ~overlapped'
      PROVE  /\ \A p \in Process : Acknowledges(p) => primary' = Holding(module[p])
             /\ load_vault' # load_vault =>
                  \E p \in Process : Acknowledges(p) /\ load_vault' = {module[p]}
  BY <1>1, StepAcknowledgesSaved, StepReplaces DEF Acknowledges
<1>2. VaultInv /\ LoadsPrimary /\ LoadsPrimary' /\ [ClientNext]_vars =>
        [~overlapped' =>
           /\ \A p \in Process : Acknowledges(p) => primary' = Holding(module[p])
           /\ load_vault' # load_vault =>
                \E p \in Process : Acknowledges(p) /\ load_vault' = {module[p]}]_vars
  BY <1>1
<1>3. VaultInv /\ NoBackupFirst => LoadsPrimary
  BY InvLoadsPrimary
<1>. QED
  BY <1>2, <1>3, NoBackupHolds, ClientsInvariant, PTL DEF ClientSpec, AcknowledgedIsSaved

=============================================================================
