------------------------ MODULE FirmwareManagerProofs ------------------------
(***************************************************************************)
(* What holds of backup and install for every size of the flash, every     *)
(* configuration and any number of reboots, failures and misreads.  The    *)
(* inductive invariant IInv says, besides the types,                       *)
(*   TaskInv      where in its stages an action can be, and that a core    *)
(*                whose flash is being written is halted;                  *)
(*   NoiseInv     that every misread kept in flash or partition is counted;*)
(*   SnapshotInv  how far the stored image may be from the flash it is     *)
(*                read from: at most one misread a page after the first    *)
(*                pass, two a page after the second;                       *)
(*   InstallInv   the same of the flash and the source being installed;    *)
(*   ManagedInv   that without misreads the last page is not a managed one.*)
(***************************************************************************)
EXTENDS FirmwareManager, FiniteSetTheorems, TLAPS

(* Types, with the whole partition as one record.                           *)
Hashes == [Pages -> Contents] \cup {NoHash}
PartTypes ==
  [state : {Erased, InProgress, Valid, Invalid}, hash : Hashes,
   footer : Hashes, image : [Pages -> Contents]]
Kinds == {"none", "stock"} \cup Managed

BoundType ==
  /\ config \in Configs
  /\ actions \in 0 .. MaxActions /\ reboots \in 0 .. MaxReboots
  /\ misreads \in 0 .. MaxMisreads

SwitchType ==
  /\ detected \in Kinds
  /\ core \in {"running", "halted"}
  /\ runtime \in BOOLEAN /\ probe \in BOOLEAN /\ verified \in BOOLEAN

(* Where an action can be: what its stage says of the other task variables. *)
TaskInv ==
  /\ op \in {"boot", "auto", "idle", "backup", "install"}
  /\ wrote \in BOOLEAN /\ marked \in BOOLEAN
  /\ op \in {"boot", "auto", "idle"} =>
       stage = "none" /\ next = 0 /\ source = "none" /\ ~wrote /\ ~marked
  /\ op = "backup" =>
       /\ stage \in {"erase", "header", "store", "hash", "footer", "mark",
                     "compare", "log"}
       /\ next \in 0 .. P - 1 /\ source = "none" /\ ~wrote
       /\ stage \in {"erase", "header"} => next = 0
       /\ marked <=> stage \in {"store", "hash", "footer", "mark", "compare"}
  /\ op = "install" =>
       /\ stage \in {"page", "write", "verify"}
       /\ next \in 0 .. P /\ ~marked
       /\ stage # "page" => next < P
       /\ source \in {"bundled", "backup", "external"}
       /\ core = "halted"
       /\ ~wrote => next = 0 /\ stage = "page"

-----------------------------------------------------------------------------
LEMMA Sizes ==
  /\ P \in Nat /\ P > 0 /\ RowPages \in Nat /\ RowPages > 0
  /\ P \in Pages /\ ExternalPages \in 1 .. P
  /\ MaxActions \in Nat /\ MaxReboots \in Nat /\ MaxMisreads \in Nat
  BY SizeAssumption DEF SizeAssumption, Pages

LEMMA TaskEnded == Ended /\ op' = "idle" => TaskInv'
  BY Sizes DEF Ended, TaskInv

LEMMA TaskInit == Init => TaskInv
  BY Sizes DEF Init, TaskInv

LEMMA TaskBackup == ASSUME TaskInv, Backup PROVE TaskInv'
<1> USE Sizes
<1>1. op = "backup"
  BY DEF Backup, BackupErase, BackupHeader, BackupStore, BackupSeal,
     BackupCompare, BackupLog
<1>2. ASSUME Ended PROVE TaskInv'
  BY <1>2 DEF Ended, TaskInv
<1>3. \A p : FailBackup(p) => Ended
  BY DEF FailBackup
<1>4. CASE BackupErase
  <2>1. CASE \E p \in {part, ErasedPartition} : FailBackup(p)
    BY <1>2, <1>3, <2>1
  <2>2. CASE stage' = "header" /\ UNCHANGED <<core, op, next, source, wrote, marked, readVars>>
    BY <1>1, <1>4, <2>2 DEF TaskInv, BackupErase
  <2> QED BY <1>4, <2>1, <2>2 DEF BackupErase
<1>5. CASE BackupHeader
  <2>1. CASE Ended
    BY <1>2, <2>1
  <2>2. CASE ~Ended
    <3>1. /\ stage = "header" /\ stage' = "store" /\ marked' = TRUE
          /\ UNCHANGED <<core, op, next, source, wrote>>
      BY <1>3, <1>5, <2>2 DEF BackupHeader
    <3> QED BY <1>1, <3>1 DEF TaskInv
  <2> QED BY <2>1, <2>2
<1>6. CASE BackupStore
  <2>1. CASE Ended
    BY <1>2, <2>1
  <2>2. CASE ~Ended
    <3>1. /\ stage = "store" /\ UNCHANGED <<core, op, source, wrote, marked>>
          /\ \/ stage' = "hash" /\ next' = next
             \/ stage' = stage /\ next' = next + 1 /\ next + 1 # P
      BY <1>3, <1>6, <2>2 DEF BackupStore
    <3> QED BY <1>1, <3>1 DEF TaskInv
  <2> QED BY <2>1, <2>2
<1>7. CASE BackupSeal
  <2>1. CASE Ended
    BY <1>2, <2>1
  <2>2. CASE ~Ended
    <3>1. /\ UNCHANGED <<core, op, source, wrote, marked>>
          /\ \/ stage = "hash" /\ stage' = "footer" /\ next' = next
             \/ stage = "footer" /\ stage' = "mark" /\ next' = next
             \/ stage = "mark" /\ stage' = "compare" /\ next' = 0
      BY <1>3, <1>7, <2>2 DEF BackupSeal
    <3> QED BY <1>1, <3>1 DEF TaskInv
  <2> QED BY <2>1, <2>2
<1>8. CASE BackupCompare
  <2>1. CASE Ended
    BY <1>2, <2>1
  <2>2. CASE ~Ended
    <3>1. /\ next + 1 < P /\ next' = next + 1 /\ stage = "compare"
          /\ UNCHANGED <<core, op, stage, source, wrote, marked>>
      BY <1>3, <1>8, <2>2 DEF BackupCompare, FinishBackup
    <3> QED BY <1>1, <3>1 DEF TaskInv
  <2> QED BY <2>1, <2>2
<1>9. CASE BackupLog
  <2>1. CASE Ended
    BY <1>2, <2>1
  <2>2. CASE ~Ended
    <3>1. /\ next + 1 # P /\ next' = next + 1 /\ stage = "log"
          /\ UNCHANGED <<core, op, stage, source, wrote, marked>>
      BY <1>3, <1>9, <2>2 DEF BackupLog, FinishBackup
    <3> QED BY <1>1, <3>1 DEF TaskInv
  <2> QED BY <2>1, <2>2
<1> QED BY <1>4, <1>5, <1>6, <1>7, <1>8, <1>9 DEF Backup

LEMMA TaskInstall == ASSUME TaskInv, Install PROVE TaskInv'
<1> USE Sizes
<1>1. op = "install"
  BY DEF Install, InstallErase, InstallWrite, InstallVerify, InstallFinish
<1>2. ASSUME Ended PROVE TaskInv'
  BY <1>2 DEF Ended, TaskInv
<1>3. CASE Ended
  BY <1>2, <1>3
<1>4. CASE ~Ended
  <2>1. CASE InstallErase
    <3>1. /\ stage = "page" /\ stage' = "write" /\ next < P
          /\ UNCHANGED <<core, op, next, source, marked>>
          /\ wrote' = TRUE \/ (wrote' = wrote /\ next % RowPages # 0)
      BY <1>4, <2>1 DEF InstallErase
    <3>2. 0 % RowPages = 0
      OBVIOUS
    <3>3. wrote' = TRUE
      <4>1. CASE wrote' = wrote /\ next % RowPages # 0
        <5>1. next # 0
          BY <3>2, <4>1
        <5>2. wrote = TRUE
          BY <1>1, <5>1, Zenon DEF TaskInv
        <5> QED BY <4>1, <5>2
      <4> QED BY <3>1, <4>1
    <3>4. UNCHANGED <<core, op, next, source, marked>>
      BY <3>1
    <3> QED BY <1>1, <3>1, <3>3, <3>4 DEF TaskInv
  <2>2. CASE InstallWrite
    <3>1. /\ stage = "write" /\ stage' = "verify"
          /\ UNCHANGED <<core, op, next, source, wrote, marked>>
      BY <1>4, <2>2 DEF InstallWrite, FailInstall
    <3> QED BY <1>1, <3>1 DEF TaskInv
  <2>3. CASE InstallVerify
    <3>1. /\ stage = "verify" /\ stage' = "page" /\ next' = next + 1
          /\ UNCHANGED <<core, op, source, wrote, marked>>
      BY <1>4, <2>3 DEF InstallVerify, FailInstall
    <3> QED BY <1>1, <3>1 DEF TaskInv
  <2>4. ~InstallFinish
    BY <1>4 DEF InstallFinish, FailInstall
  <2> QED BY <2>1, <2>2, <2>3, <2>4 DEF Install
<1> QED BY <1>3, <1>4

LEMMA TaskStep == TaskInv /\ [Next]_vars => TaskInv'
<1> SUFFICES ASSUME TaskInv, [Next]_vars PROVE TaskInv'
  OBVIOUS
<1>1. CASE BackupStart
  <2>1. CASE Ended
    BY <2>1, Sizes DEF Ended, TaskInv
  <2>2. CASE ~Ended
    <3>1. /\ op' = "backup" /\ next' = 0 /\ stage' \in {"erase", "log"}
          /\ source' = "none" /\ wrote' = FALSE /\ marked' = FALSE
      BY <1>1, <2>2 DEF BackupStart
    <3>2. /\ wrote' \in BOOLEAN /\ marked' \in BOOLEAN
          /\ ~wrote' /\ ~marked'
      BY <3>1
    <3>3. 0 \in 0 .. P - 1
      BY Sizes
    <3> QED BY <3>1, <3>2, <3>3, Zenon DEF TaskInv
  <2> QED BY <2>1, <2>2
<1>2. ASSUME NEW src \in {"bundled", "backup", "external"}, InstallStart(src)
      PROVE  TaskInv'
  <2>1. CASE Ended
    BY <2>1, Sizes DEF Ended, TaskInv
  <2>2. CASE ~Ended
    <3>1. /\ core' = "halted" /\ op' = "install" /\ stage' = "page"
          /\ next' = 0 /\ source' = src /\ wrote' = FALSE /\ marked' = FALSE
      BY <1>2, <2>2 DEF InstallStart
    <3>2. /\ wrote' \in BOOLEAN /\ marked' \in BOOLEAN
          /\ ~wrote' /\ ~marked'
      BY <3>1
    <3>3. 0 \in 0 .. P
      BY Sizes
    <3> QED BY <3>1, <3>2, <3>3, Zenon DEF TaskInv
  <2> QED BY <2>1, <2>2
<1>3. CASE Boot
  <2>1. op = "boot" /\ op' \in {"idle", "auto"}
        /\ UNCHANGED <<next, source, wrote, marked, stage>>
    BY <1>3 DEF Boot
  <2> QED BY <2>1 DEF TaskInv
<1>4. CASE ProbeFires \/ UNCHANGED vars
  BY <1>4 DEF ProbeFires, vars, taskVars, samdVars, TaskInv
<1>5. CASE Reboot
  BY <1>5 DEF Reboot, TaskInv
<1> QED BY <1>1, <1>2, <1>3, <1>4, <1>5, TaskBackup, TaskInstall DEF Next

-----------------------------------------------------------------------------
(* Types.                                                                   *)

(* A step counts at most one button, reboot or misread.                     *)
Counted ==
  /\ config' = config
  /\ actions' = actions \/ (actions < MaxActions /\ actions' = actions + 1)
  /\ reboots' = reboots \/ (reboots < MaxReboots /\ reboots' = reboots + 1)
  /\ misreads' = misreads
       \/ (misreads < MaxMisreads /\ misreads' = misreads + 1)

LEMMA StepCounts == ASSUME Next PROVE Counted
<1>1. \A p, v : Reading(p, v) => misreads' = misreads
                  \/ (misreads < MaxMisreads /\ misreads' = misreads + 1)
  BY DEF Reading
<1>2. CASE Backup
  <2>1. CASE BackupErase \/ BackupHeader \/ BackupSeal
    BY <2>1 DEF BackupErase, BackupHeader, BackupSeal, boundVars, Counted
  <2>2. CASE BackupStore \/ BackupCompare \/ BackupLog
    BY <1>1, <2>2 DEF BackupStore, BackupCompare, BackupLog, Counted
  <2> QED BY <1>2, <2>1, <2>2 DEF Backup
<1>3. CASE Install
  <2>1. CASE InstallErase \/ InstallWrite
    BY <2>1 DEF InstallErase, InstallWrite, boundVars, Counted
  <2>2. CASE InstallVerify \/ InstallFinish
    BY <1>1, <2>2 DEF InstallVerify, InstallFinish, Counted
  <2> QED BY <1>3, <2>1, <2>2 DEF Install
<1>4. CASE BackupStart
  BY <1>1, <1>4 DEF BackupStart, Pressed, Counted
<1>5. ASSUME NEW src \in {"bundled", "backup", "external"}, InstallStart(src)
      PROVE  Counted
  BY <1>1, <1>5 DEF InstallStart, Pressed, Detect, Counted
<1>6. CASE Boot
  BY <1>1, <1>6 DEF Boot, Counted
<1>7. CASE ProbeFires \/ Reboot
  BY <1>7 DEF ProbeFires, Reboot, boundVars, Counted
<1> QED BY <1>2, <1>3, <1>4, <1>5, <1>6, <1>7 DEF Next

LEMMA BoundStep ==
  ASSUME BoundType, [Next]_vars PROVE BoundType' /\ misreads' >= misreads
<1>1. Counted
  BY StepCounts DEF Counted, vars, boundVars
<1> QED BY <1>1, Sizes DEF Counted, BoundType

LEMMA KindRange == \A footer : Kind(footer) \in {"stock"} \cup Managed
  BY DEF Kind

LEMMA MatchesRange ==
  ASSUME BoundType, NEW d PROVE Matches(d) \subseteq BOOLEAN
<1>1. config.spi \in BOOLEAN
  BY ConfigAssumption DEF ConfigAssumption, BoundType
<1> QED BY <1>1 DEF Matches

(* The ways in which steps set these switches.                              *)
Switched ==
  /\ \/ detected' = detected \/ detected' = "none"
     \/ \E footer : detected' = Kind(footer)
  /\ core' \in {core, "running", "halted"}
  /\ runtime' \in {runtime, FALSE} \/ StartRuntime
  /\ probe' \in {probe, FALSE, TRUE}
  /\ verified' \in {verified, FALSE, TRUE}

LEMMA SwitchBackup == ASSUME Backup PROVE Switched
<1>1. \A p : FailBackup(p) => /\ detected' = detected /\ StartRuntime
                              /\ core' \in {core, "running"} /\ probe' = probe
  BY DEF FailBackup, Resume
<1>2. FinishBackup => /\ detected' = detected /\ StartRuntime
                      /\ core' \in {core, "running"} /\ probe' = probe
  BY DEF FinishBackup, Resume
<1>3. CASE BackupErase
  BY <1>1, <1>3 DEF BackupErase, Switched, readVars, historyVars
<1>4. CASE BackupHeader
  BY <1>1, <1>4 DEF BackupHeader, Switched, readVars, historyVars
<1>5. CASE BackupStore
  BY <1>1, <1>5 DEF BackupStore, Switched, readVars, historyVars
<1>6. CASE BackupSeal
  BY <1>1, <1>6 DEF BackupSeal, Switched, readVars, historyVars
<1>7. CASE BackupCompare
  BY <1>1, <1>2, <1>7 DEF BackupCompare, Switched, readVars, historyVars
<1>8. CASE BackupLog
  BY <1>1, <1>2, <1>8 DEF BackupLog, Switched, readVars, historyVars
<1> QED BY <1>3, <1>4, <1>5, <1>6, <1>7, <1>8 DEF Backup

LEMMA SwitchInstall == ASSUME Install PROVE Switched
<1>1. FailInstall => /\ runtime' = runtime \/ StartRuntime
                     /\ core' \in {core, "running"} /\ probe' = probe
  BY DEF FailInstall, Resume
<1>2. CASE InstallErase
  BY <1>2 DEF InstallErase, Switched, historyVars
<1>3. CASE InstallWrite
  BY <1>1, <1>3 DEF InstallWrite, Switched, historyVars
<1>4. CASE InstallVerify
  BY <1>1, <1>4 DEF InstallVerify, Switched, historyVars
<1>5. CASE InstallFinish
  BY <1>1, <1>5 DEF InstallFinish, Switched, historyVars, Resume
<1> QED BY <1>2, <1>3, <1>4, <1>5 DEF Install

LEMMA SwitchStep ==
  ASSUME BoundType, SwitchType, [Next]_vars PROVE SwitchType'
<1>1. ASSUME Switched PROVE SwitchType'
  <2>1. detected' \in Kinds
    BY <1>1, KindRange DEF Switched, SwitchType, Kinds
  <2>2. Matches(detected') \subseteq BOOLEAN
    BY MatchesRange
  <2>4. runtime' \in BOOLEAN
    BY <1>1, <2>2, Zenon DEF Switched, StartRuntime, SwitchType
  <2>5. core' \in {"running", "halted"}
    BY <1>1 DEF Switched, SwitchType
  <2>6. probe' \in BOOLEAN /\ verified' \in BOOLEAN
    BY <1>1, Zenon DEF Switched, SwitchType
  <2> QED BY <2>1, <2>4, <2>5, <2>6 DEF SwitchType
<1>2. CASE BackupStart
  BY <1>1, <1>2 DEF BackupStart, Switched, StopRestart, StopRuntime, historyVars
<1>3. ASSUME NEW src \in {"bundled", "backup", "external"}, InstallStart(src)
      PROVE  Switched
  BY <1>3 DEF InstallStart, Switched, Detect, StopRestart, StopRuntime,
     historyVars
<1>4. CASE Boot
  BY <1>1, <1>4 DEF Boot, Switched, historyVars
<1>5. CASE ProbeFires
  BY <1>1, <1>5 DEF ProbeFires, Switched, samdVars, historyVars
<1>6. CASE Reboot
  BY <1>1, <1>6 DEF Reboot, Switched, samdVars, historyVars
<1>7. CASE UNCHANGED vars
  BY <1>1, <1>7 DEF vars, Switched, samdVars, readVars, historyVars
<1> QED BY <1>1, <1>2, <1>3, <1>4, <1>5, <1>6, <1>7, SwitchBackup,
           SwitchInstall DEF Next
-----------------------------------------------------------------------------
(* The stored image: what each step of a backup does to it.                 *)

States == {Erased, InProgress, Valid, Invalid}

LEMMA PartSetState ==
  ASSUME NEW p \in PartTypes, NEW s \in States, NEW q,
         q = [p EXCEPT !.state = s]
  PROVE  /\ q \in PartTypes /\ q.state = s /\ q.image = p.image
         /\ q.hash = p.hash /\ q.footer = p.footer
  BY DEF PartTypes, States

LEMMA PartSetImage ==
  ASSUME NEW p \in PartTypes, NEW image \in [Pages -> Contents], NEW q,
         q = [p EXCEPT !.image = image]
  PROVE  /\ q \in PartTypes /\ q.state = p.state /\ q.image = image
         /\ q.hash = p.hash /\ q.footer = p.footer
  BY DEF PartTypes

LEMMA PartSetHash ==
  ASSUME NEW p \in PartTypes
  PROVE  /\ [p EXCEPT !.hash = p.image] \in PartTypes
         /\ [p EXCEPT !.hash = p.image].image = p.image
         /\ [p EXCEPT !.hash = p.image].state = p.state
         /\ [p EXCEPT !.footer = p.image] \in PartTypes
         /\ [p EXCEPT !.footer = p.image].image = p.image
         /\ [p EXCEPT !.footer = p.image].state = p.state
  BY DEF PartTypes, Hashes

LEMMA PartErased ==
  /\ ErasedPartition \in PartTypes /\ ErasedPartition.state = Erased
  /\ ErasedPartition.image = Whole("erased")
  /\ ErasedPartition.hash = NoHash
<1>1. Whole("erased") \in [Pages -> Contents]
  BY DEF Whole, Contents, Origins
<1>2. NoHash \in Hashes
  BY DEF Hashes
<1>3. Erased \in States
  BY DEF States
<1> HIDE DEF Erased, NoHash, Hashes
<1> QED BY <1>1, <1>2, <1>3 DEF ErasedPartition, PartTypes, States

LEMMA ProgramRange ==
  ASSUME NEW a \in States, NEW b \in States
  PROVE  /\ Program(a, b) \in States
         /\ Program(a, Invalid) \in {Invalid}
         /\ b # Valid => (Program(Erased, b) # Valid /\ Program(a, b) \in {a, b})
  BY DEF Program, States, Erased, InProgress, Valid, Invalid

LEMMA FailedBackup ==
  ASSUME NEW p \in PartTypes, FailBackup(p)
  PROVE  /\ part' \in PartTypes /\ part'.image = p.image
         /\ part'.state \in {p.state, Invalid}
         /\ ~marked => part' = p
         /\ Ended
<1>1. CASE part' = p
  BY <1>1 DEF FailBackup
<1>2. CASE part' # p
  <2>1. marked /\ part' = [p EXCEPT !.state = Program(p.state, Invalid)] /\ Ended
    BY <1>2 DEF FailBackup
  <2>2. p.state \in States /\ Invalid \in States
    BY DEF PartTypes, States
  <2>3. Program(p.state, Invalid) \in States /\ Program(p.state, Invalid) = Invalid
    BY <2>2, ProgramRange
  <2> QED BY <2>1, <2>3, PartSetState
<1> QED BY <1>1, <1>2
(* The steps of a backup in their normal form: it goes on or it has ended.  *)
LEMMA EraseForm ==
  ASSUME TaskInv, part \in PartTypes, BackupErase
  PROVE  /\ UNCHANGED <<flash, misreads, snapshot, verified>>
         /\ part' \in {part, ErasedPartition}
         /\ \/ Ended
            \/ /\ op' = "backup" /\ stage' = "header" /\ ~marked'
               /\ part' = ErasedPartition
<1>1. op = "backup" /\ stage = "erase" /\ ~marked
      /\ UNCHANGED <<flash, misreads, snapshot, verified>>
  BY DEF BackupErase, TaskInv, boundVars, historyVars
<1>2. ASSUME NEW p \in {part, ErasedPartition}, FailBackup(p)
      PROVE  part' = p /\ Ended
  BY <1>1, <1>2, FailedBackup, PartErased
<1>3. CASE \E p \in {part, ErasedPartition} : FailBackup(p)
  BY <1>1, <1>2, <1>3
<1>4. CASE ~\E p \in {part, ErasedPartition} : FailBackup(p)
  BY <1>1, <1>4 DEF BackupErase
<1> QED BY <1>3, <1>4

LEMMA HeaderForm ==
  ASSUME TaskInv, part \in PartTypes, part.state = Erased, BackupHeader
  PROVE  /\ UNCHANGED <<flash, misreads>> /\ part' \in PartTypes
         /\ part'.image = part.image /\ part'.state # Valid
         /\ \/ Ended /\ UNCHANGED <<snapshot, verified>>
            \/ /\ op' = "backup" /\ stage' = "store" /\ next' = 0
               /\ snapshot' = flash /\ verified' = FALSE
<1>1. op = "backup" /\ stage = "header" /\ ~marked /\ next = 0
      /\ UNCHANGED <<flash, misreads>>
  BY DEF BackupHeader, TaskInv, boundVars
<1>2. ASSUME NEW s \in {Erased, InProgress}, NEW q,
             q = [part EXCEPT !.state = Program(part.state, s)]
      PROVE  q \in PartTypes /\ q.image = part.image /\ q.state # Valid
  <2>1. s \in States /\ s # Valid /\ Erased \in States
    BY DEF States, Erased, InProgress, Valid
  <2>2. Program(part.state, s) \in States /\ Program(part.state, s) # Valid
    BY <2>1, ProgramRange
  <2> QED BY <1>2, <2>2, PartSetState
<1>3. CASE \E s \in {Erased, InProgress} :
             FailBackup([part EXCEPT !.state = Program(part.state, s)])
           /\ UNCHANGED historyVars
  <2>1. PICK s \in {Erased, InProgress} :
          FailBackup([part EXCEPT !.state = Program(part.state, s)])
    BY <1>3
  <2> DEFINE q == [part EXCEPT !.state = Program(part.state, s)]
  <2>2. q \in PartTypes /\ q.image = part.image /\ q.state # Valid
    BY <1>2
  <2>3. FailBackup(q)
    BY <2>1
  <2> HIDE DEF q
  <2>4. part' = q /\ Ended
    BY <1>1, <2>2, <2>3, FailedBackup
  <2> QED BY <1>1, <1>3, <2>2, <2>4 DEF historyVars
<1>4. CASE /\ part' = [part EXCEPT !.state = Program(part.state, InProgress)]
           /\ stage' = "store" /\ snapshot' = flash /\ verified' = FALSE
           /\ UNCHANGED <<core, op, next, source, wrote, readVars>>
  BY <1>1, <1>2, <1>4
<1> QED BY <1>3, <1>4 DEF BackupHeader

LEMMA StoreForm ==
  ASSUME TaskInv, part \in PartTypes, flash \in [Pages -> Contents], BackupStore
  PROVE  /\ UNCHANGED <<flash, snapshot, verified>> /\ part' \in PartTypes
         /\ next + 1 \in Pages
         /\ \E block \in Contents :
              /\ part'.image = [part.image EXCEPT ![next + 1] = block]
              /\ \/ /\ Ended /\ misreads' = misreads /\ block \in {"erased", "torn"}
                 \/ /\ op' = "backup" /\ Reading(next + 1, block)
                    /\ \/ stage' = "hash" /\ next + 1 = P
                       \/ stage' = "store" /\ next' = next + 1
<1>1. op = "backup" /\ stage = "store" /\ next + 1 \in Pages
      /\ UNCHANGED <<flash, snapshot, verified>>
  BY Sizes DEF BackupStore, TaskInv, historyVars, Pages
<1>2. CASE \E block \in {"erased", "torn"} :
             FailBackup([part EXCEPT !.image[next + 1] = block])
           /\ UNCHANGED misreads
  <2>1. PICK block \in {"erased", "torn"} :
          FailBackup([part EXCEPT !.image[next + 1] = block])
    BY <1>2
  <2> DEFINE q == [part EXCEPT !.image[next + 1] = block]
  <2>2. block \in Contents
    BY DEF Contents, Origins
  <2>3. q \in PartTypes /\ q.image = [part.image EXCEPT ![next + 1] = block]
    <3> DEFINE image == [part.image EXCEPT ![next + 1] = block]
    <3>1. image \in [Pages -> Contents]
      BY <1>1, <2>2 DEF PartTypes
    <3>2. q = [part EXCEPT !.image = image]
      OBVIOUS
    <3> HIDE DEF q, image
    <3>3. q \in PartTypes /\ q.image = image
      BY <3>1, <3>2, PartSetImage
    <3> QED BY <3>3 DEF image
  <2>4. FailBackup(q)
    BY <2>1
  <2> HIDE DEF q
  <2>5. part' \in PartTypes /\ part'.image = q.image /\ Ended
    BY <2>3, <2>4, FailedBackup
  <2> QED BY <1>1, <1>2, <2>2, <2>3, <2>5
<1>3. CASE \E block \in Contents :
             /\ Reading(next + 1, block)
             /\ part' = [part EXCEPT !.image[next + 1] = block]
             /\ IF next + 1 = P
                THEN stage' = "hash" /\ UNCHANGED next
                ELSE next' = next + 1 /\ UNCHANGED stage
             /\ op' = op
  <2>1. PICK block \in Contents :
             /\ Reading(next + 1, block)
             /\ part' = [part EXCEPT !.image[next + 1] = block]
             /\ IF next + 1 = P
                THEN stage' = "hash" /\ UNCHANGED next
                ELSE next' = next + 1 /\ UNCHANGED stage
             /\ op' = op
    BY <1>3
  <2>2. part' \in PartTypes
        /\ part'.image = [part.image EXCEPT ![next + 1] = block]
    <3> DEFINE image == [part.image EXCEPT ![next + 1] = block]
    <3>1. image \in [Pages -> Contents]
      BY <1>1 DEF PartTypes
    <3>2. part' = [part EXCEPT !.image = image]
      BY <2>1
    <3> HIDE DEF image
    <3>3. part' \in PartTypes /\ part'.image = image
      BY <3>1, <3>2, PartSetImage
    <3> QED BY <3>3 DEF image
  <2> QED BY <1>1, <2>1, <2>2
<1> QED BY <1>2, <1>3 DEF BackupStore

LEMMA SealForm ==
  ASSUME TaskInv, part \in PartTypes, BackupSeal
  PROVE  /\ UNCHANGED <<flash, misreads, snapshot, verified>>
         /\ part' \in PartTypes /\ part'.image = part.image
         /\ op = "backup" /\ marked /\ stage \in {"hash", "footer", "mark"}
         /\ \/ Ended
            \/ op' = "backup" /\ stage' \in {"footer", "mark"}
            \/ op' = "backup" /\ stage' = "compare" /\ next' = 0
<1>1. /\ UNCHANGED <<flash, misreads, snapshot, verified>>
      /\ op = "backup" /\ stage \in {"hash", "footer", "mark"}
      /\ marked
  BY DEF BackupSeal, TaskInv, boundVars, historyVars
<1>2. part.state \in States /\ Valid \in States
  BY DEF PartTypes, States
<1> DEFINE q == [part EXCEPT !.state = Program(part.state, Valid)]
<1>3. q \in PartTypes /\ q.image = part.image
  <2>1. Program(part.state, Valid) \in States
    BY <1>2, ProgramRange
  <2> QED BY <2>1, PartSetState
<1>4. CASE \/ stage = "hash" /\ stage' = "footer"
              /\ part' = [part EXCEPT !.hash = part.image] /\ op' = op
           \/ stage = "footer" /\ stage' = "mark"
              /\ part' = [part EXCEPT !.footer = part.image] /\ op' = op
  BY <1>1, <1>4, PartSetHash
<1>5. CASE stage' = "compare" /\ next' = 0 /\ part' = q /\ op' = op
  BY <1>1, <1>3, <1>5
<1>6. CASE FailBackup(part)
  BY <1>1, <1>6, FailedBackup
<1>7. CASE FailBackup(q)
  <2> HIDE DEF q
  <2> QED BY <1>1, <1>3, <1>7, FailedBackup
<1> QED BY <1>4, <1>5, <1>6, <1>7 DEF BackupSeal

LEMMA CompareForm ==
  ASSUME TaskInv, part \in PartTypes, BackupCompare
  PROVE  /\ UNCHANGED <<flash, snapshot>>
         /\ part' \in PartTypes /\ part'.image = part.image
         /\ op = "backup" /\ marked /\ stage = "compare" /\ next + 1 \in Pages
         /\ \/ Ended /\ verified' = verified
            \/ /\ part' = part /\ Reading(next + 1, part.image[next + 1])
               /\ \/ /\ op' = "backup" /\ stage' = "compare"
                     /\ next' = next + 1 /\ verified' = verified
                  \/ Ended /\ next + 1 = P /\ verified' = TRUE
<1>1. UNCHANGED <<flash, snapshot>> /\ op = "backup" /\ stage = "compare"
      /\ marked /\ next + 1 \in Pages
  BY Sizes DEF BackupCompare, TaskInv, Pages
<1>2. CASE FailBackup(part) /\ UNCHANGED verified
  BY <1>1, <1>2, FailedBackup
<1>3. CASE \E block \in Contents :
          /\ Reading(next + 1, block)
          /\ \/ /\ block = part.image[next + 1] /\ next + 1 < P
                /\ next' = next + 1
                /\ UNCHANGED <<core, part, op, stage, source, wrote, marked,
                               readVars, verified>>
             \/ /\ block = part.image[next + 1] /\ next + 1 = P
                /\ FinishBackup /\ verified' = TRUE /\ UNCHANGED part
  BY <1>1, <1>3 DEF FinishBackup
<1> QED BY <1>2, <1>3 DEF BackupCompare

LEMMA LogForm ==
  ASSUME TaskInv, part \in PartTypes, BackupLog
  PROVE  /\ UNCHANGED <<flash, part, snapshot, verified>>
         /\ \/ Ended
            \/ op' = "backup" /\ stage' = "log" /\ ~marked'
<1>1. op = "backup" /\ stage = "log" /\ ~marked
      /\ UNCHANGED <<flash, snapshot, verified>>
  BY DEF BackupLog, TaskInv, historyVars
<1>2. CASE FailBackup(part)
  BY <1>1, <1>2, FailedBackup
<1>3. CASE ~FailBackup(part)
  BY <1>1, <1>3 DEF BackupLog, FinishBackup
<1> QED BY <1>2, <1>3
-----------------------------------------------------------------------------
(* Counting pages.                                                          *)

(* The first n pages in which two images differ.                            *)
Wrong(image, other, n) == {p \in 1 .. n : image[p] # other[p]}

(* The pages that hold a misread.                                           *)
Noisy == {p \in Pages : flash[p] = "noise" \/ part.image[p] = "noise"}

LEMMA PagesFinite ==
  ASSUME NEW T \in SUBSET Pages
  PROVE  IsFiniteSet(T) /\ Cardinality(T) \in Nat
<1>1. IsFiniteSet(Pages)
  BY FS_Interval, Sizes DEF Pages
<1> QED BY <1>1, FS_Subset, FS_CardinalityType

LEMMA CountShrinks ==
  ASSUME NEW T \in SUBSET Pages, NEW S, S \subseteq T
  PROVE  Cardinality(S) <= Cardinality(T) /\ Cardinality(S) \in Nat
  BY PagesFinite, FS_Subset

LEMMA CountGrows ==
  ASSUME NEW T \in SUBSET Pages, NEW x \in Pages, NEW S,
         S \subseteq T \cup {x}
  PROVE  Cardinality(S) <= Cardinality(T) + 1 /\ Cardinality(S) \in Nat
<1>1. IsFiniteSet(T) /\ Cardinality(T) \in Nat
  BY PagesFinite
<1>2. Cardinality(T \cup {x}) <= Cardinality(T) + 1
  <2> DEFINE m == Cardinality(T)
             n == Cardinality(T \cup {x})
  <2>1. n = IF x \in T THEN m ELSE m + 1
    BY <1>1, FS_AddElement, Zenon
  <2>2. m \in Nat
    BY <1>1
  <2> HIDE DEF m, n
  <2>3. n <= m + 1
    BY <2>1, <2>2
  <2> QED BY <2>3 DEF m, n
<1>3. T \cup {x} \in SUBSET Pages
  OBVIOUS
<1>4. /\ Cardinality(S) <= Cardinality(T \cup {x})
      /\ Cardinality(S) \in Nat /\ Cardinality(T \cup {x}) \in Nat
  BY <1>3, CountShrinks, PagesFinite
<1> QED BY <1>1, <1>2, <1>4

LEMMA WrongPages ==
  ASSUME NEW a, NEW b, NEW n \in 0 .. P
  PROVE  /\ Wrong(a, b, n) \in SUBSET Pages
         /\ Wrong(a, b, 0) = {}
         /\ Wrong(a, b, P) = {p \in Pages : a[p] # b[p]}
  BY Sizes DEF Wrong, Pages

(* One more page is looked at: wrong at most there.                         *)
LEMMA WrongNext ==
  ASSUME NEW a, NEW b, NEW c, NEW n \in 0 .. P - 1,
         \A p \in 1 .. n : c[p] = a[p]
  PROVE  /\ Wrong(c, b, n + 1) \subseteq Wrong(a, b, n) \cup {n + 1}
         /\ c[n + 1] = b[n + 1] => Wrong(c, b, n + 1) \subseteq Wrong(a, b, n)
  BY Sizes DEF Wrong

-----------------------------------------------------------------------------
(* The SAMD09's flash: what each step of an install does to it.             *)

LEMMA ImageRange ==
  ASSUME part \in PartTypes, NEW src
  PROVE  /\ Image(src) \in [Pages -> Contents]
         /\ src = "backup" => Image(src) = part.image
         /\ src # "backup" => \A p \in Pages : Image(src)[p] # "noise"
  BY DEF Image, PartTypes, Contents, Origins, Whole

LEMMA InstallEraseForm ==
  ASSUME TaskInv, flash \in [Pages -> Contents], InstallErase
  PROVE  /\ UNCHANGED <<part, misreads, snapshot, verified>>
         /\ flash' \in [Pages -> Contents]
         /\ \A p \in 1 .. next : flash'[p] = flash[p]
         /\ \A p \in Pages : flash'[p] \in {flash[p], "erased", "torn"}
         /\ \/ Ended /\ core' = core
            \/ op' = "install" /\ UNCHANGED <<next, source>>
<1>1. op = "install" /\ next \in 0 .. P /\ core = "halted"
      /\ UNCHANGED <<part, misreads, snapshot, verified>>
  BY DEF InstallErase, TaskInv, boundVars, historyVars
<1>2. /\ \/ flash' = flash
         \/ \E c \in {"erased", "torn"} :
              flash' = [p \in Pages |-> IF p \in next + 1 .. next + RowPages
                                        THEN c ELSE flash[p]]
      /\ \/ Ended /\ core' = core
         \/ op' = "install" /\ UNCHANGED <<next, source>>
  BY <1>1 DEF InstallErase
<1>3. /\ flash' \in [Pages -> Contents]
      /\ \A p \in 1 .. next : flash'[p] = flash[p]
      /\ \A p \in Pages : flash'[p] \in {flash[p], "erased", "torn"}
  <2>1. CASE flash' = flash
    BY <2>1
  <2>2. ASSUME NEW c \in {"erased", "torn"},
               flash' = [p \in Pages |-> IF p \in next + 1 .. next + RowPages
                                         THEN c ELSE flash[p]]
        PROVE  /\ flash' \in [Pages -> Contents]
               /\ \A p \in 1 .. next : flash'[p] = flash[p]
               /\ \A p \in Pages : flash'[p] \in {flash[p], "erased", "torn"}
    <3>1. c \in Contents
      BY DEF Contents, Origins
    <3>2. \A p \in 1 .. next : p \in Pages /\ p \notin next + 1 .. next + RowPages
      BY <1>1, Sizes DEF Pages
    <3> QED BY <2>2, <3>1, <3>2
  <2> QED BY <1>2, <2>1, <2>2
<1> QED BY <1>1, <1>2, <1>3

LEMMA InstallWriteForm ==
  ASSUME TaskInv, flash \in [Pages -> Contents], part \in PartTypes,
         InstallWrite
  PROVE  /\ UNCHANGED <<part, misreads, snapshot, verified>>
         /\ flash' \in [Pages -> Contents]
         /\ \A p \in Pages :
              \/ flash'[p] = flash[p]
              \/ p = next + 1 /\ flash'[p] \in {"torn", Image(source)[p]}
         /\ \/ Ended /\ (wrote => core' = core)
            \/ op' = "install" /\ UNCHANGED <<next, source>>
<1>1. op = "install" /\ next + 1 \in Pages
      /\ UNCHANGED <<part, misreads, snapshot, verified>>
  BY Sizes DEF InstallWrite, TaskInv, boundVars, historyVars, Pages
<1>2. /\ \/ flash' = flash
         \/ \E c \in {"torn", Image(source)[next + 1]} :
              flash' = [flash EXCEPT ![next + 1] = c]
      /\ \/ Ended /\ (wrote => core' = core)
         \/ op' = "install" /\ UNCHANGED <<next, source>>
  BY <1>1 DEF InstallWrite, FailInstall
<1>3. \A c \in {"torn", Image(source)[next + 1]} : c \in Contents
  BY <1>1, ImageRange DEF Contents, Origins
<1> QED BY <1>1, <1>2, <1>3

LEMMA InstallVerifyForm ==
  ASSUME TaskInv, InstallVerify
  PROVE  /\ UNCHANGED <<part, flash, snapshot, verified>>
         /\ op = "install" /\ stage = "verify" /\ next + 1 \in Pages
         /\ \/ Ended /\ (wrote => core' = core)
            \/ /\ op' = "install" /\ next' = next + 1 /\ source' = source
               /\ Reading(next + 1, Image(source)[next + 1])
<1>1. op = "install" /\ stage = "verify" /\ next + 1 \in Pages
      /\ UNCHANGED <<part, flash, snapshot, verified>>
  BY Sizes DEF InstallVerify, TaskInv, historyVars, Pages
<1> QED BY <1>1 DEF InstallVerify, FailInstall

(* The types of what is kept in flash memory.                               *)
DeviceType ==
  /\ flash \in [Pages -> Contents] /\ part \in PartTypes
  /\ snapshot \in Hashes

(* Every other step leaves the flash, the stored image and its history.     *)
LEMMA OtherSteps ==
  ASSUME TaskInv, [Next]_vars, ~BackupErase, ~BackupHeader, ~BackupStore,
         ~BackupSeal, ~BackupCompare, ~InstallErase, ~InstallWrite
  PROVE  UNCHANGED <<flash, part, snapshot, verified>>
<1>1. CASE BackupLog
  <2>1. op = "backup" /\ ~marked
    BY <1>1 DEF BackupLog, TaskInv
  <2> QED BY <1>1, <2>1 DEF BackupLog, FailBackup, historyVars
<1>2. CASE InstallVerify \/ InstallFinish
  BY <1>2 DEF InstallVerify, InstallFinish, historyVars
<1>3. CASE BackupStart
  BY <1>3 DEF BackupStart, historyVars
<1>4. ASSUME NEW src, InstallStart(src)
      PROVE  UNCHANGED <<flash, part, snapshot, verified>>
  BY <1>4 DEF InstallStart, historyVars
<1>5. CASE Boot \/ ProbeFires \/ Reboot \/ UNCHANGED vars
  BY <1>5 DEF Boot, ProbeFires, Reboot, vars, samdVars, historyVars
<1> QED BY <1>1, <1>2, <1>3, <1>4, <1>5 DEF Next, Backup, Install

LEMMA DeviceStep ==
  ASSUME TaskInv, DeviceType, op = "backup" /\ stage = "header" => part.state = Erased,
         [Next]_vars
  PROVE  DeviceType'
<1>1. CASE BackupErase
  BY <1>1, EraseForm, PartErased DEF DeviceType
<1>2. CASE BackupHeader
  <2>1. part.state = Erased
    BY <1>2 DEF BackupHeader
  <2>2. part' \in PartTypes /\ flash' = flash /\ snapshot' \in {snapshot, flash}
    BY <1>2, <2>1, HeaderForm DEF DeviceType
  <2> QED BY <2>2 DEF DeviceType, Hashes
<1>3. CASE BackupStore
  BY <1>3, StoreForm DEF DeviceType
<1>4. CASE BackupSeal
  BY <1>4, SealForm DEF DeviceType
<1>5. CASE BackupCompare
  BY <1>5, CompareForm DEF DeviceType
<1>6. CASE InstallErase
  BY <1>6, InstallEraseForm DEF DeviceType
<1>7. CASE InstallWrite
  BY <1>7, InstallWriteForm DEF DeviceType
<1> QED BY <1>1, <1>2, <1>3, <1>4, <1>5, <1>6, <1>7, OtherSteps DEF DeviceType

-----------------------------------------------------------------------------
(* Every misread that is kept somewhere was counted.                        *)

NoiseInv == Cardinality(Noisy) <= misreads

LEMMA NoiseKept ==
  ASSUME NoiseInv, BoundType, misreads' \in Nat, misreads' >= misreads,
         Noisy' \subseteq Noisy
  PROVE  NoiseInv'
<1>1. Noisy \in SUBSET Pages
  BY DEF Noisy
<1>2. /\ Cardinality(Noisy') <= Cardinality(Noisy)
      /\ Cardinality(Noisy) \in Nat /\ Cardinality(Noisy') \in Nat
  BY <1>1, CountShrinks, PagesFinite
<1> QED BY <1>2, Sizes DEF NoiseInv, BoundType

LEMMA ReadingKinds ==
  ASSUME BoundType, NEW p, NEW v, Reading(p, v)
  PROVE  \/ v = flash[p] /\ misreads' = misreads
         \/ v = "noise" /\ misreads' = misreads + 1
  BY DEF Reading

LEMMA NoiseStep ==
  ASSUME BoundType, TaskInv, DeviceType, NoiseInv,
         op = "backup" /\ stage = "header" => part.state = Erased,
         [Next]_vars
  PROVE  NoiseInv'
<1>1. misreads' \in Nat /\ misreads' >= misreads /\ misreads \in Nat
  BY BoundStep, Sizes DEF BoundType
<1>2. ASSUME Noisy' \subseteq Noisy PROVE NoiseInv'
  BY <1>1, <1>2, NoiseKept
<1>3. CASE BackupErase
  <2>1. flash' = flash /\ part' \in {part, ErasedPartition}
    BY <1>3, EraseForm DEF DeviceType
  <2>2. \A p \in Pages : ErasedPartition.image[p] # "noise"
    BY PartErased DEF Whole
  <2> QED BY <1>2, <2>1, <2>2 DEF Noisy
<1>4. CASE BackupHeader
  <2>1. part.state = Erased
    BY <1>4 DEF BackupHeader
  <2>2. flash' = flash /\ part'.image = part.image
    BY <1>4, <2>1, HeaderForm DEF DeviceType
  <2> QED BY <1>2, <2>2 DEF Noisy
<1>5. CASE BackupStore
  <2>1. PICK block \in Contents :
              /\ part'.image = [part.image EXCEPT ![next + 1] = block]
              /\ \/ block \in {"erased", "torn"}
                 \/ Reading(next + 1, block)
    BY <1>5, StoreForm DEF DeviceType
  <2>2. flash' = flash /\ next + 1 \in Pages /\ part.image \in [Pages -> Contents]
    BY <1>5, StoreForm DEF DeviceType, PartTypes
  <2>3. CASE block # "noise" \/ block = flash[next + 1]
    BY <1>2, <2>1, <2>2, <2>3 DEF Noisy
  <2>4. CASE block = "noise" /\ block # flash[next + 1]
    <3>1. misreads' = misreads + 1
      BY <2>1, <2>4, ReadingKinds
    <3>2. Noisy' \subseteq Noisy \cup {next + 1} /\ Noisy \in SUBSET Pages
      BY <2>1, <2>2 DEF Noisy
    <3>3. Cardinality(Noisy') <= Cardinality(Noisy) + 1
          /\ Cardinality(Noisy') \in Nat /\ Cardinality(Noisy) \in Nat
      BY <2>2, <3>2, CountGrows, PagesFinite
    <3> QED BY <1>1, <3>1, <3>3 DEF NoiseInv
  <2> QED BY <2>3, <2>4
<1>6. CASE BackupSeal
  BY <1>2, <1>6, SealForm DEF DeviceType, Noisy
<1>7. CASE BackupCompare
  BY <1>2, <1>7, CompareForm DEF DeviceType, Noisy
<1>8. CASE InstallErase
  <2>1. part' = part /\ \A p \in Pages : flash'[p] \in {flash[p], "erased", "torn"}
    BY <1>8, InstallEraseForm DEF DeviceType
  <2> QED BY <1>2, <2>1 DEF Noisy
<1>9. CASE InstallWrite
  <2>1. part' = part /\ \A p \in Pages :
              \/ flash'[p] = flash[p]
              \/ flash'[p] \in {"torn", Image(source)[p]}
    BY <1>9, InstallWriteForm DEF DeviceType
  <2>2. \A p \in Pages : Image(source)[p] = "noise" => part.image[p] = "noise"
    BY ImageRange DEF DeviceType
  <2> QED BY <1>2, <2>1, <2>2 DEF Noisy
<1> QED BY <1>2, <1>3, <1>4, <1>5, <1>6, <1>7, <1>8, <1>9, OtherSteps DEF Noisy
-----------------------------------------------------------------------------
(* The stored image and the flash it was read from.                         *)

(* A wrong page of the stored image cost one misread when it was stored,    *)
(* and another when it was compared.                                        *)
SnapshotInv ==
  /\ op = "backup" /\ marked => snapshot = flash /\ ~verified
  /\ op = "backup" /\ stage = "header" => part.state = Erased
  /\ op = "backup" /\ stage = "store" =>
       Cardinality(Wrong(part.image, flash, next)) <= misreads
  /\ op = "backup" /\ stage \in {"hash", "footer", "mark"} =>
       Cardinality(Wrong(part.image, flash, P)) <= misreads
  /\ op = "backup" /\ stage = "compare" =>
       Cardinality(Wrong(part.image, flash, P))
         + Cardinality(Wrong(part.image, flash, next)) <= misreads
  /\ verified /\ part.state = Valid =>
       SameUnlessMisread(part.image, snapshot)

LEMMA WrongCount ==
  ASSUME NEW a, NEW b, NEW n \in 0 .. P
  PROVE  /\ Cardinality(Wrong(a, b, n)) \in Nat
         /\ Cardinality(Wrong(a, b, 0)) = 0
<1>1. Wrong(a, b, n) \in SUBSET Pages /\ Wrong(a, b, 0) = {}
  BY WrongPages
<1> QED BY <1>1, PagesFinite, FS_EmptySet

(* A page that is read right, or wrong and counted.                         *)
LEMMA WrongRead ==
  ASSUME BoundType, NEW a, NEW b, NEW c, NEW n \in 0 .. P - 1,
         \A p \in 1 .. n : c[p] = a[p],
         \/ c[n + 1] = b[n + 1] /\ misreads' = misreads
         \/ misreads' = misreads + 1
  PROVE  /\ Cardinality(Wrong(c, b, n + 1)) - Cardinality(Wrong(a, b, n))
              <= misreads' - misreads
         /\ Cardinality(Wrong(c, b, n + 1)) \in Nat
         /\ Cardinality(Wrong(a, b, n)) \in Nat
         /\ misreads \in Nat
<1>1. n + 1 \in Pages /\ n + 1 \in 0 .. P /\ n \in 0 .. P
  BY Sizes DEF Pages
<1>2. Wrong(a, b, n) \in SUBSET Pages
  BY <1>1, WrongPages
<1>3. /\ Cardinality(Wrong(c, b, n + 1)) \in Nat
      /\ Cardinality(Wrong(a, b, n)) \in Nat
  BY <1>1, WrongCount
<1>4. misreads \in Nat
  BY Sizes DEF BoundType
<1>5. CASE c[n + 1] = b[n + 1] /\ misreads' = misreads
  <2>1. Wrong(c, b, n + 1) \subseteq Wrong(a, b, n)
    BY <1>5, WrongNext
  <2>2. Cardinality(Wrong(c, b, n + 1)) <= Cardinality(Wrong(a, b, n))
    BY <1>2, <2>1, CountShrinks
  <2> QED BY <1>3, <1>4, <1>5, <2>2
<1>6. CASE misreads' = misreads + 1
  <2>1. Wrong(c, b, n + 1) \subseteq Wrong(a, b, n) \cup {n + 1}
    BY WrongNext
  <2>2. Cardinality(Wrong(c, b, n + 1)) <= Cardinality(Wrong(a, b, n)) + 1
    BY <1>1, <1>2, <2>1, CountGrows
  <2> QED BY <1>3, <1>4, <1>6, <2>2
<1> QED BY <1>5, <1>6

LEMMA SameKept ==
  ASSUME BoundType, misreads' >= misreads, misreads' \in Nat,
         NEW a, NEW b, SameUnlessMisread(a, b)
  PROVE  2 * Cardinality({p \in Pages : a[p] # b[p]}) <= misreads'
<1> DEFINE n == Cardinality({p \in Pages : a[p] # b[p]})
<1>1. n \in Nat
  BY PagesFinite
<1>2. 2 * n <= misreads /\ misreads \in Nat
  BY Sizes DEF SameUnlessMisread, BoundType
<1> HIDE DEF n
<1>3. 2 * n <= misreads'
  BY <1>1, <1>2
<1> QED BY <1>3 DEF n

LEMMA SnapshotKept ==
  ASSUME BoundType, SnapshotInv, misreads' >= misreads, misreads' \in Nat,
         UNCHANGED <<snapshot, verified>>,
         part' = part \/ part'.state # Valid,
         op' # "backup" \/ (stage' \notin {"header", "store", "hash", "footer",
                                           "mark", "compare"} /\ ~marked')
  PROVE  SnapshotInv'
<1>1. verified' /\ part'.state = Valid
        => SameUnlessMisread(part.image, snapshot)'
  BY SameKept DEF SnapshotInv, SameUnlessMisread
<1> QED BY <1>1 DEF SnapshotInv

LEMMA SumGrows ==
  ASSUME NEW a \in Nat, NEW b \in Nat, NEW c \in Nat, NEW m \in Nat,
         NEW n \in Nat, a + b <= m, c - b <= n - m
  PROVE  a + c <= n
  OBVIOUS

LEMMA SnapshotStep ==
  ASSUME BoundType, TaskInv, DeviceType, SnapshotInv, [Next]_vars
  PROVE  SnapshotInv'
<1>1. misreads' \in Nat /\ misreads' >= misreads /\ misreads \in Nat
  BY BoundStep, Sizes DEF BoundType
<1>2. ASSUME Ended PROVE op' = "idle"
  BY <1>2 DEF Ended
<1>3. CASE BackupErase
  <2>1. /\ UNCHANGED <<flash, snapshot, verified>>
        /\ part' \in {part, ErasedPartition}
        /\ op' = "idle" \/ (op' = "backup" /\ stage' = "header" /\ ~marked'
                            /\ part' = ErasedPartition)
    BY <1>2, <1>3, EraseForm DEF DeviceType
  <2>2. ErasedPartition.state = Erased /\ Erased # Valid
    BY PartErased DEF Erased, Valid
  <2>3. CASE op' = "idle"
    BY <1>1, <2>1, <2>2, <2>3, SnapshotKept
  <2>4. CASE op' = "backup" /\ stage' = "header" /\ ~marked'
             /\ part' = ErasedPartition
    BY <2>2, <2>4 DEF SnapshotInv
  <2> QED BY <2>1, <2>3, <2>4
<1>4. CASE BackupHeader
  <2>1. part.state = Erased
    BY <1>4 DEF SnapshotInv, BackupHeader
  <2>2. /\ flash' = flash /\ part'.state # Valid
        /\ \/ op' = "idle" /\ UNCHANGED <<snapshot, verified>>
           \/ /\ op' = "backup" /\ stage' = "store" /\ next' = 0
              /\ snapshot' = flash /\ verified' = FALSE
    BY <1>2, <1>4, <2>1, HeaderForm DEF DeviceType
  <2>3. CASE op' = "idle" /\ UNCHANGED <<snapshot, verified>>
    BY <1>1, <2>2, <2>3, SnapshotKept
  <2>4. CASE /\ op' = "backup" /\ stage' = "store" /\ next' = 0
             /\ snapshot' = flash /\ verified' = FALSE
    <3>1. Cardinality(Wrong(part'.image, flash', next')) = 0
      BY <2>4, WrongCount, Sizes
    <3> QED BY <1>1, <2>2, <2>4, <3>1 DEF SnapshotInv, Wrong
  <2> QED BY <2>2, <2>3, <2>4
<1>5. CASE BackupStore
  <2>1. /\ op = "backup" /\ stage = "store" /\ marked /\ next \in 0 .. P - 1
        /\ snapshot = flash /\ ~verified
        /\ Cardinality(Wrong(part.image, flash, next)) <= misreads
    BY <1>5 DEF BackupStore, TaskInv, SnapshotInv
  <2>2. PICK block \in Contents :
              /\ part'.image = [part.image EXCEPT ![next + 1] = block]
              /\ \/ Ended
                 \/ /\ op' = "backup" /\ Reading(next + 1, block)
                    /\ \/ stage' = "hash" /\ next + 1 = P
                       \/ stage' = "store" /\ next' = next + 1
    BY <1>5, StoreForm DEF DeviceType
  <2>3. /\ UNCHANGED <<flash, snapshot, verified>> /\ next + 1 \in Pages
        /\ part.image \in [Pages -> Contents]
    BY <1>5, StoreForm DEF DeviceType, PartTypes
  <2>4. CASE Ended
    BY <1>2, <2>1, <2>3, <2>4 DEF SnapshotInv
  <2>5. CASE ~Ended
    <3>1. \/ block = flash[next + 1] /\ misreads' = misreads
          \/ misreads' = misreads + 1
      BY <2>2, <2>5, ReadingKinds
    <3>2. part'.image[next + 1] = block
          /\ \A p \in 1 .. next : part'.image[p] = part.image[p]
      BY <2>1, <2>2, <2>3, Sizes DEF Pages
    <3>3. /\ Cardinality(Wrong(part'.image, flash, next + 1))
               - Cardinality(Wrong(part.image, flash, next))
                 <= misreads' - misreads
          /\ Cardinality(Wrong(part'.image, flash, next + 1)) \in Nat
          /\ Cardinality(Wrong(part.image, flash, next)) \in Nat
      BY <2>1, <3>1, <3>2, WrongRead
    <3>4. Cardinality(Wrong(part'.image, flash', next + 1)) <= misreads'
      BY <1>1, <2>1, <2>3, <3>3
    <3> QED BY <2>1, <2>2, <2>3, <2>5, <3>4 DEF SnapshotInv, Wrong
  <2> QED BY <2>4, <2>5
<1>6. CASE BackupSeal
  <2>1. /\ UNCHANGED <<flash, misreads, snapshot, verified>>
        /\ part'.image = part.image
        /\ op = "backup" /\ marked /\ stage \in {"hash", "footer", "mark"}
        /\ \/ op' = "idle"
           \/ op' = "backup" /\ stage' \in {"footer", "mark"}
           \/ op' = "backup" /\ stage' = "compare" /\ next' = 0
    BY <1>2, <1>6, SealForm DEF DeviceType
  <2>2. /\ snapshot = flash /\ ~verified
        /\ Cardinality(Wrong(part.image, flash, P)) <= misreads
    BY <2>1 DEF SnapshotInv
  <2>3. /\ Cardinality(Wrong(part.image, flash, P)) \in Nat
        /\ Cardinality(Wrong(part.image, flash, 0)) = 0
    BY WrongCount, Sizes
  <2>4. Cardinality(Wrong(part.image, flash, P))
          + Cardinality(Wrong(part.image, flash, 0)) <= misreads
    BY <1>1, <2>2, <2>3
  <2> QED BY <2>1, <2>2, <2>4 DEF SnapshotInv, Wrong
<1>7. CASE BackupCompare
  <2>1. /\ UNCHANGED <<flash, snapshot>> /\ part'.image = part.image
        /\ op = "backup" /\ marked /\ stage = "compare" /\ next \in 0 .. P - 1
        /\ \/ op' = "idle" /\ verified' = verified
           \/ /\ part' = part /\ Reading(next + 1, part.image[next + 1])
              /\ \/ /\ op' = "backup" /\ stage' = "compare"
                    /\ next' = next + 1 /\ verified' = verified
                 \/ op' = "idle" /\ next + 1 = P /\ verified' = TRUE
    BY <1>2, <1>7, CompareForm DEF DeviceType, TaskInv
  <2> DEFINE all == Cardinality(Wrong(part.image, flash, P))
             done == Cardinality(Wrong(part.image, flash, next))
             more == Cardinality(Wrong(part.image, flash, next + 1))
  <2>2. snapshot = flash /\ ~verified /\ all + done <= misreads
    BY <2>1 DEF SnapshotInv
  <2>3. CASE op' = "idle" /\ verified' = verified
    BY <2>2, <2>3 DEF SnapshotInv
  <2>4. CASE Reading(next + 1, part.image[next + 1])
             /\ part' = part /\ ~(op' = "idle" /\ verified' = verified)
    <3>1. \/ part.image[next + 1] = flash[next + 1] /\ misreads' = misreads
          \/ misreads' = misreads + 1
      BY <2>4, ReadingKinds
    <3>2. more - done <= misreads' - misreads /\ more \in Nat /\ done \in Nat
      BY <2>1, <3>1, WrongRead
    <3>3. all \in Nat
      BY WrongCount, Sizes
    <3>4. all + more <= misreads'
      BY <1>1, <2>2, <3>2, <3>3, SumGrows
    <3>5. CASE op' = "backup"
      BY <2>1, <2>2, <2>4, <3>4, <3>5 DEF SnapshotInv, Wrong
    <3>6. CASE op' = "idle"
      <4>1. next + 1 = P
        BY <2>1, <2>4, <3>6
      <4>2. 2 * all <= misreads'
        <5>1. all = more
          BY <4>1
        <5> HIDE DEF all, more
        <5> QED BY <1>1, <3>3, <3>4, <5>1
      <4>3. Wrong(part.image, flash, P)
              = {p \in Pages : part.image[p] # flash[p]}
        BY WrongPages, Sizes
      <4>4. SameUnlessMisread(part.image, snapshot)'
        BY <2>1, <2>2, <4>2, <4>3 DEF SameUnlessMisread
      <4> QED BY <3>6, <4>4 DEF SnapshotInv
    <3> QED BY <2>1, <3>5, <3>6
  <2> QED BY <2>1, <2>3, <2>4
<1>8. CASE InstallErase \/ InstallWrite
  <2>1. op' # "backup" /\ UNCHANGED <<part, snapshot, verified>>
    BY <1>2, <1>8, InstallEraseForm, InstallWriteForm DEF DeviceType
  <2> QED BY <1>1, <2>1, SnapshotKept
<1>9. ASSUME ~BackupErase, ~BackupHeader, ~BackupStore, ~BackupSeal,
             ~BackupCompare, ~InstallErase, ~InstallWrite
      PROVE  SnapshotInv'
  <2>1. UNCHANGED <<flash, part, snapshot, verified>>
    BY <1>9, OtherSteps
  <2>2. CASE ProbeFires \/ UNCHANGED vars
    <3>1. UNCHANGED <<op, stage, next, marked, misreads>>
      BY <2>2 DEF ProbeFires, vars, taskVars, boundVars
    <3> QED BY <2>1, <3>1 DEF SnapshotInv, SameUnlessMisread, Wrong
  <2>3. CASE ~(ProbeFires \/ UNCHANGED vars)
    <3>1. op' # "backup" \/ (stage' \notin {"header", "store", "hash",
                                "footer", "mark", "compare"} /\ ~marked')
      <4>1. CASE BackupLog
        BY <1>2, <4>1, LogForm DEF DeviceType
      <4>2. CASE InstallVerify \/ InstallFinish
        BY <1>2, <4>2 DEF InstallVerify, InstallFinish, FailInstall
      <4>3. CASE BackupStart
        BY <1>2, <4>3 DEF BackupStart
      <4>4. ASSUME NEW src, InstallStart(src) PROVE op' # "backup"
        BY <1>2, <4>4 DEF InstallStart
      <4>5. CASE Boot \/ Reboot
        BY <4>5 DEF Boot, Reboot
      <4> QED BY <1>9, <2>3, <4>1, <4>2, <4>3, <4>4, <4>5
              DEF Next, Backup, Install
    <3> QED BY <1>1, <2>1, <3>1, SnapshotKept
  <2> QED BY <2>2, <2>3
<1> QED BY <1>3, <1>4, <1>5, <1>6, <1>7, <1>8, <1>9

-----------------------------------------------------------------------------
(* The SAMD09's flash during an install.                                    *)

(* The pages already passed differ from the source at most where a misread  *)
(* of the page was taken for what the source has kept of another misread.   *)
InstallInv ==
  op = "install" =>
    /\ Cardinality(Noisy) + Cardinality(Wrong(flash, Image(source), next))
         <= misreads
    /\ \A p \in Wrong(flash, Image(source), next) : Image(source)[p] = "noise"

LEMMA InstallKept ==
  ASSUME BoundType, TaskInv, DeviceType, InstallInv, op = "install",
         UNCHANGED <<part, misreads>>,
         op' = "install" /\ UNCHANGED <<next, source>>,
         \A p \in 1 .. next : flash'[p] = flash[p],
         Noisy' \subseteq Noisy
  PROVE  InstallInv'
<1>1. Image(source)' = Image(source)
  BY DEF Image
<1>2. Wrong(flash, Image(source), next)' = Wrong(flash, Image(source), next)
  BY <1>1 DEF Wrong
<1>3. Noisy \in SUBSET Pages
  BY DEF Noisy
<1>4. Cardinality(Noisy') <= Cardinality(Noisy)
      /\ Cardinality(Noisy) \in Nat /\ Cardinality(Noisy') \in Nat
  BY <1>3, CountShrinks, PagesFinite
<1>5. Cardinality(Wrong(flash, Image(source), next)) \in Nat
  BY WrongCount DEF TaskInv
<1>6. misreads \in Nat
  BY Sizes DEF BoundType
<1> DEFINE k == Cardinality(Wrong(flash, Image(source), next))
           m == Cardinality(Noisy)
           n == Cardinality(Noisy')
<1>7. m + k <= misreads
  BY DEF InstallInv
<1>8. n + k <= misreads
  <2> HIDE DEF k, m, n
  <2> QED BY <1>4, <1>5, <1>6, <1>7 DEF k, m, n
<1>9. \A p \in Wrong(flash, Image(source), next) : Image(source)[p] = "noise"
  BY DEF InstallInv
<1> QED BY <1>1, <1>2, <1>8, <1>9 DEF InstallInv

LEMMA InstallStep ==
  ASSUME BoundType, TaskInv, DeviceType, NoiseInv, NoiseInv', InstallInv,
         [Next]_vars
  PROVE  InstallInv'
<1>1. misreads' \in Nat /\ misreads' >= misreads /\ misreads \in Nat
  BY BoundStep, Sizes DEF BoundType
<1>2. ASSUME Ended PROVE op' # "install"
  BY <1>2 DEF Ended
<1>3. ASSUME op' # "install" PROVE InstallInv'
  BY <1>3 DEF InstallInv
<1>4. CASE InstallErase
  <2>1. op = "install" /\ UNCHANGED <<part, misreads>>
        /\ (\A p \in 1 .. next : flash'[p] = flash[p])
        /\ (\A p \in Pages : flash'[p] \in {flash[p], "erased", "torn"})
        /\ (Ended \/ (op' = "install" /\ UNCHANGED <<next, source>>))
    BY <1>4, InstallEraseForm DEF DeviceType, InstallErase
  <2>2. Noisy' \subseteq Noisy
    BY <2>1 DEF Noisy
  <2> QED BY <1>2, <1>3, <2>1, <2>2, InstallKept
<1>5. CASE InstallWrite
  <2>1. op = "install" /\ UNCHANGED <<part, misreads>> /\ next \in 0 .. P
        /\ (\A p \in Pages :
              \/ flash'[p] = flash[p]
              \/ p = next + 1 /\ flash'[p] \in {"torn", Image(source)[p]})
        /\ (Ended \/ (op' = "install" /\ UNCHANGED <<next, source>>))
    BY <1>5, InstallWriteForm DEF DeviceType, InstallWrite, TaskInv
  <2>2. \A p \in Pages : Image(source)[p] = "noise" => part.image[p] = "noise"
    BY ImageRange DEF DeviceType
  <2>3. Noisy' \subseteq Noisy
    BY <2>1, <2>2 DEF Noisy
  <2>4. \A p \in 1 .. next : p \in Pages /\ p # next + 1
    BY <2>1, Sizes DEF Pages
  <2>5. \A p \in 1 .. next : flash'[p] = flash[p]
    BY <2>1, <2>4
  <2> QED BY <1>2, <1>3, <2>1, <2>3, <2>5, InstallKept
<1>6. CASE InstallVerify
  <2>1. /\ UNCHANGED <<part, flash>> /\ op = "install" /\ next + 1 \in Pages
        /\ next \in 0 .. P - 1
        /\ \/ Ended
           \/ /\ op' = "install" /\ next' = next + 1 /\ source' = source
              /\ Reading(next + 1, Image(source)[next + 1])
    BY <1>6, InstallVerifyForm, Sizes DEF TaskInv
  <2>2. CASE ~Ended
    <3> DEFINE image == Image(source)
    <3>1. Image(source)' = image /\ Noisy' = Noisy
      BY <2>1, <2>2 DEF Image, Noisy
    <3>2. \/ flash[next + 1] = image[next + 1] /\ misreads' = misreads
          \/ image[next + 1] = "noise" /\ misreads' = misreads + 1
      BY <2>1, <2>2, ReadingKinds
    <3>3. /\ Cardinality(Wrong(flash, image, next + 1))
               - Cardinality(Wrong(flash, image, next)) <= misreads' - misreads
          /\ Cardinality(Wrong(flash, image, next + 1)) \in Nat
          /\ Cardinality(Wrong(flash, image, next)) \in Nat
      BY <2>1, <3>2, WrongRead
    <3>4. Cardinality(Noisy) + Cardinality(Wrong(flash, image, next)) <= misreads
          /\ \A p \in Wrong(flash, image, next) : image[p] = "noise"
      BY <2>1 DEF InstallInv
    <3>5. Cardinality(Noisy) \in Nat
      BY PagesFinite DEF Noisy
    <3>6. Cardinality(Noisy) + Cardinality(Wrong(flash, image, next + 1))
            <= misreads'
      BY <1>1, <3>3, <3>4, <3>5, SumGrows
    <3>7. \A p \in Wrong(flash, image, next + 1) : image[p] = "noise"
      BY <2>1, <3>2, <3>4, WrongNext
    <3> HIDE DEF image
    <3>8. Wrong(flash, Image(source), next)' = Wrong(flash, image, next + 1)
      BY <2>1, <2>2, <3>1 DEF Wrong
    <3> QED BY <2>1, <2>2, <3>1, <3>6, <3>7, <3>8 DEF InstallInv
  <2> QED BY <1>2, <1>3, <2>1, <2>2
<1>7. ASSUME NEW src \in {"bundled", "backup", "external"}, InstallStart(src)
      PROVE  InstallInv'
  <2>1. CASE ~Ended
    <3>1. next' = 0
      BY <1>7, <2>1 DEF InstallStart
    <3>2. Wrong(flash, Image(source), next)' = {}
      BY <3>1 DEF Wrong
    <3>3. Cardinality({}) = 0 /\ Cardinality(Noisy') \in Nat
      BY FS_EmptySet, PagesFinite DEF Noisy
    <3>4. Cardinality(Noisy') + 0 <= misreads'
      BY <1>1, <3>3 DEF NoiseInv
    <3> QED BY <3>2, <3>3, <3>4 DEF InstallInv
  <2> QED BY <1>2, <1>3, <2>1
<1>8. CASE ProbeFires \/ UNCHANGED vars
  BY <1>8, InstallKept DEF ProbeFires, vars, samdVars, taskVars, boundVars,
     Noisy, InstallInv, Image, Wrong
<1>9. CASE Backup \/ BackupStart \/ Boot \/ Reboot \/ InstallFinish
  <2>1. CASE Backup
    <3>1. op = "backup"
      BY <2>1 DEF Backup, BackupErase, BackupHeader, BackupStore, BackupSeal,
         BackupCompare, BackupLog
    <3>2. op' \in {"backup", "idle"}
      BY <2>1, <3>1 DEF Backup, BackupErase, BackupHeader, BackupStore,
         BackupSeal, BackupCompare, BackupLog, FailBackup, FinishBackup, Ended
    <3> QED BY <1>3, <3>2
  <2>2. CASE BackupStart \/ Boot \/ Reboot \/ InstallFinish
    BY <1>3, <2>2 DEF BackupStart, Boot, Reboot, InstallFinish, FailInstall,
       Ended
  <2> QED BY <1>9, <2>1, <2>2
<1> QED BY <1>4, <1>5, <1>6, <1>7, <1>8, <1>9 DEF Next, Install

-----------------------------------------------------------------------------
(* As long as every read is right, no managed footer is stored.             *)

(* The stored image and the flash during its backup.                        *)
ManagedInv ==
  misreads = 0 =>
    /\ part.image[P] \notin Managed
    /\ op = "backup" => flash[P] \notin Managed

LEMMA ManagedStep ==
  ASSUME BoundType, TaskInv, DeviceType, ManagedInv,
         op = "backup" /\ stage = "header" => part.state = Erased, [Next]_vars
  PROVE  ManagedInv'
<1>1. misreads' = 0 => misreads = 0
  BY BoundStep, Sizes DEF BoundType
<1>2. "erased" \notin Managed /\ "torn" \notin Managed
  BY DEF Managed
<1>3. ASSUME op' # "backup", part'.image = part.image PROVE ManagedInv'
  BY <1>1, <1>3 DEF ManagedInv
<1>4. ASSUME op = "backup", flash' = flash, part'.image = part.image
      PROVE  ManagedInv'
  BY <1>1, <1>4 DEF ManagedInv
<1>5. ASSUME Ended PROVE op' = "idle"
  BY <1>5 DEF Ended
<1>6. CASE BackupErase
  <2>1. flash' = flash /\ part' \in {part, ErasedPartition} /\ op = "backup"
    BY <1>6, EraseForm DEF DeviceType, BackupErase
  <2>2. ErasedPartition.image[P] = "erased"
    BY PartErased, Sizes DEF Whole
  <2> QED BY <1>1, <1>2, <2>1, <2>2 DEF ManagedInv
<1>7. CASE BackupHeader
  <2>1. part.state = Erased
    BY <1>7 DEF BackupHeader
  <2> QED BY <1>4, <1>7, <2>1, HeaderForm DEF DeviceType, BackupHeader
<1>8. CASE BackupStore
  <2>1. /\ op = "backup" /\ flash' = flash
        /\ part.image \in [Pages -> Contents] /\ next + 1 \in Pages
    BY <1>8, StoreForm DEF DeviceType, BackupStore, PartTypes
  <2>2. PICK block \in Contents :
              /\ part'.image = [part.image EXCEPT ![next + 1] = block]
              /\ \/ block \in {"erased", "torn"}
                 \/ Reading(next + 1, block)
    BY <1>8, StoreForm DEF DeviceType
  <2>3. part'.image[P] = part.image[P] \/ (P = next + 1 /\ part'.image[P] = block)
    BY <2>1, <2>2, Sizes
  <2>4. Reading(next + 1, block) /\ misreads' = 0 => block = flash[next + 1]
    BY <1>1, ReadingKinds
  <2> QED BY <1>1, <1>2, <2>1, <2>2, <2>3, <2>4 DEF ManagedInv
<1>9. CASE BackupSeal
  BY <1>4, <1>9, SealForm DEF DeviceType
<1>10. CASE BackupCompare
  BY <1>4, <1>10, CompareForm DEF DeviceType, BackupCompare
<1>11. CASE BackupLog
  BY <1>4, <1>11, LogForm DEF DeviceType, BackupLog
<1>12. CASE InstallErase \/ InstallWrite
  BY <1>3, <1>5, <1>12, InstallEraseForm, InstallWriteForm DEF DeviceType
<1>13. CASE BackupStart
  <2>1. flash' = flash /\ part' = part
    BY <1>13 DEF BackupStart
  <2>2. CASE Ended
    BY <1>3, <1>5, <2>1, <2>2
  <2>3. CASE ~Ended
    <3>1. PICK footer \in Contents : Reading(P, footer) /\ footer \notin Managed
      BY <1>13, <2>3 DEF BackupStart
    <3>2. misreads' = 0 => footer = flash[P]
      BY <1>1, <3>1, ReadingKinds
    <3> QED BY <1>1, <2>1, <3>1, <3>2 DEF ManagedInv
  <2> QED BY <2>2, <2>3
<1>14. CASE InstallVerify \/ InstallFinish
  BY <1>3, <1>14 DEF InstallVerify, InstallFinish, FailInstall, Ended
<1>15. ASSUME NEW src, InstallStart(src) PROVE ManagedInv'
  BY <1>3, <1>15 DEF InstallStart, Ended
<1>16. CASE Boot \/ Reboot
  BY <1>3, <1>16 DEF Boot, Reboot
<1>17. CASE ProbeFires \/ UNCHANGED vars
  BY <1>1, <1>17 DEF ProbeFires, vars, samdVars, taskVars, ManagedInv
<1> QED BY <1>6, <1>7, <1>8, <1>9, <1>10, <1>11, <1>12, <1>13, <1>14, <1>15,
           <1>16, <1>17 DEF Next, Backup, Install

-----------------------------------------------------------------------------
(* The reads of the SAMD09 are stopped before an action begins and start    *)
(* only when it has ended.                                                  *)
LEMMA OffStep ==
  ASSUME TaskInv, SwitchType, RuntimeStaysOff, [Next]_vars
  PROVE  RuntimeStaysOff'
<1>1. ASSUME op' \notin {"backup", "install"} PROVE RuntimeStaysOff'
  BY <1>1 DEF RuntimeStaysOff
<1>2. ASSUME Ended PROVE op' \notin {"backup", "install"}
  BY <1>2 DEF Ended
<1>3. ASSUME op \in {"backup", "install"}, UNCHANGED <<runtime, probe>>
      PROVE  RuntimeStaysOff'
  BY <1>3 DEF RuntimeStaysOff
<1>4. ASSUME StopRuntime PROVE RuntimeStaysOff'
  BY <1>4 DEF StopRuntime, RuntimeStaysOff
<1>5. CASE Backup
  <2>1. op = "backup"
    BY <1>5 DEF Backup, BackupErase, BackupHeader, BackupStore, BackupSeal,
       BackupCompare, BackupLog
  <2>2. Ended \/ UNCHANGED <<runtime, probe>>
    BY <1>5 DEF Backup, BackupErase, BackupHeader, BackupStore, BackupSeal,
       BackupCompare, BackupLog, FailBackup, FinishBackup, readVars
  <2> QED BY <1>1, <1>2, <1>3, <2>1, <2>2
<1>6. CASE Install
  <2>1. op = "install"
    BY <1>6 DEF Install, InstallErase, InstallWrite, InstallVerify, InstallFinish
  <2>2. Ended \/ UNCHANGED <<runtime, probe>>
    BY <1>6 DEF Install, InstallErase, InstallWrite, InstallVerify,
       InstallFinish, FailInstall
  <2> QED BY <1>1, <1>2, <1>3, <2>1, <2>2
<1>7. CASE BackupStart
  BY <1>1, <1>2, <1>4, <1>7 DEF BackupStart
<1>8. ASSUME NEW src \in {"bundled", "backup", "external"}, InstallStart(src)
      PROVE  RuntimeStaysOff'
  BY <1>1, <1>2, <1>4, <1>8 DEF InstallStart
<1>9. CASE Boot \/ Reboot
  BY <1>1, <1>9 DEF Boot, Reboot
<1>10. CASE ProbeFires
  <2>1. op' = op /\ op \notin {"backup", "install"}
    BY <1>10 DEF ProbeFires, taskVars, RuntimeStaysOff
  <2> QED BY <1>1, <2>1
<1>11. CASE UNCHANGED vars
  BY <1>11 DEF vars, taskVars, readVars, RuntimeStaysOff
<1> QED BY <1>5, <1>6, <1>7, <1>8, <1>9, <1>10, <1>11 DEF Next

-----------------------------------------------------------------------------
(* All parts together are inductive.                                        *)
IInv ==
  /\ BoundType /\ SwitchType /\ TaskInv /\ DeviceType
  /\ NoiseInv /\ SnapshotInv /\ InstallInv /\ ManagedInv /\ RuntimeStaysOff

(* The initial states satisfy the inductive invariant.                      *)
LEMMA Initially == Init => IInv
<1> SUFFICES ASSUME Init PROVE IInv
  OBVIOUS
<1>1. TaskInv
  BY TaskInit
<1>2. BoundType /\ misreads = 0
  BY Sizes DEF Init, BoundType
<1>3. SwitchType
  BY Zenon DEF Init, SwitchType, Kinds
<1>4. \A origin \in Contents : Whole(origin) \in [Pages -> Contents]
  BY DEF Whole
<1>5. part = ErasedPartition /\ snapshot = NoHash
      /\ flash \in {Whole("stock"), Whole("outdated"), Whole("managed")}
  BY DEF Init
<1>6. DeviceType
  BY <1>4, <1>5, PartErased DEF DeviceType, Hashes, Contents, Origins
<1>7. Noisy = {}
  BY <1>5, PartErased DEF Noisy, Whole
<1>8. NoiseInv
  BY <1>2, <1>7, FS_EmptySet DEF NoiseInv
<1>9. op = "boot" /\ verified = FALSE
  BY DEF Init
<1>10. SnapshotInv
  BY <1>9 DEF SnapshotInv
<1>11. InstallInv /\ RuntimeStaysOff
  BY <1>9 DEF InstallInv, RuntimeStaysOff
<1>12. ManagedInv
  BY <1>5, <1>9, PartErased, Sizes DEF ManagedInv, Managed, Whole
<1> QED BY <1>1, <1>2, <1>3, <1>6, <1>8, <1>10, <1>11, <1>12 DEF IInv

(* Every step keeps it.                                                     *)
LEMMA Inductive == IInv /\ [Next]_vars => IInv'
<1> SUFFICES ASSUME IInv, [Next]_vars PROVE IInv'
  OBVIOUS
<1>1. /\ BoundType /\ SwitchType /\ TaskInv /\ DeviceType
      /\ NoiseInv /\ SnapshotInv /\ InstallInv /\ ManagedInv /\ RuntimeStaysOff
  BY DEF IInv
<1>2. op = "backup" /\ stage = "header" => part.state = Erased
  BY <1>1 DEF SnapshotInv
<1>3. BoundType' /\ SwitchType' /\ TaskInv' /\ DeviceType'
  BY <1>1, <1>2, BoundStep, SwitchStep, TaskStep, DeviceStep
<1>4. NoiseInv'
  BY <1>1, <1>2, NoiseStep
<1>5. SnapshotInv' /\ InstallInv' /\ ManagedInv' /\ RuntimeStaysOff'
  BY <1>1, <1>2, <1>4, SnapshotStep, InstallStep, ManagedStep, OffStep
<1> QED BY <1>3, <1>4, <1>5 DEF IInv

(* It is an invariant.                                                      *)
LEMMA Invariance == Spec => []IInv
  BY Initially, Inductive, PTL DEF Spec

(* Every variable keeps its type, every counter its bound.                  *)
THEOREM TypeCorrect == Spec => []TypeOK
<1>1. IInv => TypeOK
  <2> SUFFICES ASSUME IInv PROVE TypeOK
    OBVIOUS
  <2>1. /\ config \in Configs
        /\ actions \in 0 .. MaxActions /\ reboots \in 0 .. MaxReboots
        /\ misreads \in 0 .. MaxMisreads
    BY DEF IInv, BoundType
  <2>2. /\ detected \in {"none", "stock"} \cup Managed
        /\ core \in {"running", "halted"}
        /\ {runtime, probe, verified} \subseteq BOOLEAN
    BY DEF IInv, SwitchType, Kinds
  <2>3. /\ flash \in [Pages -> Origins \cup {"noise"}]
        /\ part.state \in {Erased, InProgress, Valid, Invalid}
        /\ part.image \in [Pages -> Contents]
        /\ {part.hash, part.footer} \subseteq [Pages -> Contents] \cup {NoHash}
        /\ snapshot \in [Pages -> Contents] \cup {NoHash}
    BY DEF IInv, DeviceType, PartTypes, Hashes, Contents
  <2>4. /\ op \in {"boot", "auto", "idle", "backup", "install"}
        /\ {wrote, marked} \subseteq BOOLEAN /\ next \in 0 .. P
        /\ source \in {"none", "bundled", "backup", "external"}
    BY Sizes DEF IInv, TaskInv
  <2>5. stage \in {"none", "erase", "header", "store", "hash", "footer",
                   "mark", "compare", "log", "page", "write", "verify"}
    BY DEF IInv, TaskInv
  <2> QED BY <2>1, <2>2, <2>3, <2>4, <2>5 DEF TypeOK
<1> QED BY <1>1, Invariance, PTL

(* A stored image that was compared and is accepted for restoring is the    *)
(* flash it was read from, up to pages misread alike in both passes, however*)
(* backups fail, stop or are repeated in between.                           *)
THEOREM VerifiedBackup == Spec => []VerifiedIsSnapshot
<1>1. IInv => VerifiedIsSnapshot
  BY DEF IInv, SnapshotInv, VerifiedIsSnapshot, Accepted
<1> QED BY <1>1, Invariance, PTL

(* The managed-footer check and the flash that no one writes during a backup*)
(* keep managed firmware out of the stored image.                           *)
THEOREM BackupNotManaged == Spec => []BackupIsNotManaged
<1>1. IInv => BackupIsNotManaged
  BY DEF IInv, ManagedInv, BackupIsNotManaged
<1> QED BY <1>1, Invariance, PTL

(* No reading of the SAMD09 is under way during an action or is started in  *)
(* it by the timer of an earlier update.                                    *)
THEOREM RuntimeIsOff == Spec => []RuntimeStaysOff
<1>1. IInv => RuntimeStaysOff
  BY DEF IInv
<1> QED BY <1>1, Invariance, PTL

(* The only step of an install that resumes the core after pages were       *)
(* written is the last one, with every page passed.                         *)
LEMMA RunsAfterLastPage ==
  ASSUME TaskInv, [Next]_vars, op = "install", wrote, op' = "idle",
         core' = "running"
  PROVE  next = P
<1>1. core = "halted"
  BY DEF TaskInv
<1>2. ~Backup /\ ~BackupStart /\ ~Boot /\ ~Reboot
  BY DEF Backup, BackupErase, BackupHeader, BackupStore, BackupSeal,
     BackupCompare, BackupLog, BackupStart, Pressed, Boot, Reboot
<1>3. \A src : ~InstallStart(src)
  BY DEF InstallStart, Pressed
<1>4. ~ProbeFires /\ ~UNCHANGED vars
  BY DEF ProbeFires, vars, taskVars
<1>5. ~InstallErase
  BY <1>1 DEF InstallErase
<1>6. ~InstallWrite /\ ~InstallVerify
  BY <1>1 DEF InstallWrite, InstallVerify, FailInstall
<1> QED BY <1>2, <1>3, <1>4, <1>5, <1>6 DEF Next, Install, InstallFinish

(* A SAMD09 whose flash was touched is resumed by the action only when      *)
(* every page was read back and found right.                                *)
THEOREM RunsWholeImage == Spec => RunsOnlyWholeImage
<1>1. IInv /\ [Next]_vars
        => [op = "install" /\ wrote /\ op' = "idle" /\ core' = "running"
              => SameUnlessMisread(flash, Image(source))]_vars
  <2> SUFFICES ASSUME IInv, [Next]_vars, op = "install", wrote, op' = "idle",
                      core' = "running"
               PROVE  SameUnlessMisread(flash, Image(source))
    OBVIOUS
  <2> DEFINE image == Image(source)
             wrong == Wrong(flash, image, P)
  <2>1. next = P /\ DeviceType /\ InstallInv /\ misreads \in Nat
    BY RunsAfterLastPage, Sizes DEF IInv, BoundType
  <2>2. /\ Cardinality(Noisy) + Cardinality(wrong) <= misreads
        /\ \A p \in wrong : image[p] = "noise"
    BY <2>1 DEF InstallInv
  <2>3. \A p \in Pages : image[p] = "noise" => part.image[p] = "noise"
    BY <2>1, ImageRange DEF DeviceType
  <2>4. wrong \subseteq Noisy /\ Noisy \in SUBSET Pages
    <3>1. wrong \in SUBSET Pages
      BY WrongPages, Sizes
    <3> HIDE DEF wrong, image
    <3> QED BY <2>2, <2>3, <3>1 DEF Noisy
  <2>5. /\ Cardinality(wrong) <= Cardinality(Noisy)
        /\ Cardinality(wrong) \in Nat /\ Cardinality(Noisy) \in Nat
    BY <2>4, CountShrinks, PagesFinite
  <2>6. 2 * Cardinality(wrong) <= misreads
    BY <2>1, <2>2, <2>5
  <2>7. wrong = {p \in Pages : flash[p] # image[p]}
    BY WrongPages, Sizes
  <2> QED BY <2>6, <2>7 DEF SameUnlessMisread
<1> QED BY <1>1, Invariance, PTL DEF Spec, RunsOnlyWholeImage
=============================================================================
