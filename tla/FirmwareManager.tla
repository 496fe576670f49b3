-------------------------- MODULE FirmwareManager --------------------------
(***************************************************************************)
(* Backup, restore and replacement of the SAMD09 firmware by the ESP32.    *)
(* The SAMD09 flash is read and written over SWD, one page per loop(); the *)
(* backup lives in an ESP32 flash partition.  A step is what happens       *)
(* between two effects that survive a reboot of the ESP32, which may strike *)
(* between any two of them.  Every SWD, NVM or partition access may fail;  *)
(* a SWD read may also return wrong data without an error.                 *)
(*                                                                         *)
(* A page is represented by where its contents come from, so a page of one *)
(* image at one address equals no other page.  A SHA-256 sum is            *)
(* represented by what was summed.                                         *)
(***************************************************************************)
EXTENDS Naturals, FiniteSets

CONSTANTS
  P,            (* pages of SAMD09 flash = blocks of the stored image       *)
  RowPages,     (* NVM_PAGES_PER_ROW                                        *)
  ExternalPages,(* pages the external image fills, the rest stays erased    *)
  Configs,      (* build configurations: records [spi, partition, auto,     *)
                (* swdOnBoot]                                               *)
  MaxActions, MaxReboots, MaxMisreads   (* bounds                           *)

ASSUME SizeAssumption ==
  /\ P \in Nat \ {0} /\ RowPages \in Nat \ {0} /\ P % RowPages = 0
  /\ ExternalPages \in 1 .. P
  /\ MaxActions \in Nat /\ MaxReboots \in Nat /\ MaxMisreads \in Nat

ASSUME ConfigAssumption ==
  Configs \subseteq [spi : BOOLEAN, partition : BOOLEAN, auto : BOOLEAN,
                     swdOnBoot : BOOLEAN]

VARIABLES
  config,     (* runtime_mode_, backup partition present, auto_update_samd_, *)
              (* swd_on_boot_; fixed                                         *)
  flash,      (* SAMD09 flash: page -> origin of its contents                *)
  core,       (* SAMD09 core                                                 *)
  part,       (* backup partition: header state, hash, footer and image      *)
  op,         (* backup_active_, install_active_, or inside setup()          *)
  stage,      (* backup_stage_ or install_stage_, and the step inside it     *)
  next,       (* backup_next_offset_ or install_next_offset_, in pages       *)
  source,     (* install_source_                                             *)
  wrote,      (* install_started_writing_                                    *)
  marked,     (* backup_header_written_                                      *)
  detected,   (* detected_firmware_info_, "none" while not valid             *)
  runtime,    (* diagnostics_started_ / metering_started_                    *)
  probe,      (* the post_update_i2c_probe timeout is pending                *)
  actions, reboots, misreads,   (* counters of the bounds                    *)
  snapshot,   (* history: the flash the stored image was read from           *)
  verified    (* history: the second read matched the stored image           *)

samdVars   == <<flash, core>>
taskVars   == <<op, stage, next, source, wrote, marked>>
readVars   == <<detected, runtime, probe>>
boundVars  == <<actions, reboots, misreads>>
historyVars == <<snapshot, verified>>
vars == <<config, samdVars, part, taskVars, readVars, boundVars, historyVars>>

Pages == 1 .. P
Whole(origin) == [p \in Pages |-> origin]
Origins  == {"stock", "outdated", "managed", "external", "erased", "torn"}
Managed  == {"managed", "outdated"}
Contents == Origins \cup {"noise"}   (* what a read can yield or a block hold *)

(* BACKUP_STATE_*: each code is the one above with bits cleared, so writing  *)
(* over it in flash, a bitwise AND, keeps the lower of the two.              *)
Erased     == 255
InProgress == 254
Valid      == 252
Invalid    == 248
Program(old, new) == IF new < old THEN new ELSE old

NoHash == Whole("none")
ErasedPartition ==
  [state |-> Erased, hash |-> NoHash, footer |-> NoHash,
   image |-> Whole("erased")]

(* read_valid_backup_: state, footer against header, image against hash.     *)
Accepted == /\ part.state = Valid
            /\ part.footer = part.hash
            /\ part.image = part.hash

(* Mutant: whatever the footer holds is taken for a kind.                    *)
KindUnchecked(footer) == footer

(* What the last page of the flash says of the firmware: managed is the      *)
(* bundled one, outdated another version of it or one for the other mode.    *)
Kind(footer) == IF footer \in Managed THEN footer ELSE "stock"

(* read_install_source_: a short external image is padded with 0xFF.         *)
Image(src) ==
  CASE src = "backup"   -> part.image
    [] src = "external" -> [p \in Pages |-> IF p <= ExternalPages
                                            THEN "external" ELSE "erased"]
    [] OTHER            -> Whole("managed")

Init ==
  /\ config \in Configs
  /\ flash \in {Whole("stock"), Whole("outdated"), Whole("managed")}
  /\ core = "running"
  /\ part = ErasedPartition
  /\ op = "boot" /\ stage = "none" /\ next = 0
  /\ source = "none" /\ wrote = FALSE /\ marked = FALSE
  /\ detected = "none" /\ runtime = FALSE /\ probe = FALSE
  /\ actions = 0 /\ reboots = 0 /\ misreads = 0
  /\ snapshot = NoHash /\ verified = FALSE

-----------------------------------------------------------------------------
(* Shared parts.                                                             *)

(* firmware_mode_matches_runtime_; outdated firmware may be for the other    *)
(* mode.                                                                     *)
Matches(d) ==
  CASE d \in {"none", "managed"} -> {TRUE}
    [] d = "stock"               -> {~config.spi}
    [] OTHER                     -> BOOLEAN

(* start_i2c_diagnostics_, start_metering_: reads of the SAMD09 begin unless *)
(* its firmware does not fit.                                                *)
StartRuntime == runtime' \in Matches(detected')

(* Mutant: the probe scheduled by an earlier update stays scheduled.         *)
StopRuntimeOnly == runtime' = FALSE /\ UNCHANGED probe

(* stop_i2c_diagnostics_, stop_metering_.                                    *)
StopRuntime == runtime' = FALSE /\ probe' = FALSE

(* Both, in a handler that stops the reads and gives up.                     *)
StopRestart == probe' = FALSE /\ StartRuntime

(* A core that was halted is resumed, or the attempt fails.                  *)
Resume == core' \in {"running", core}

(* A button is pressed while no action is active.                            *)
Pressed == op = "idle" /\ actions < MaxActions /\ actions' = actions + 1

Ended ==
  /\ op' = "idle" /\ stage' = "none" /\ next' = 0
  /\ source' = "none" /\ wrote' = FALSE /\ marked' = FALSE

Reading(p, value) ==
  \/ value = flash[p] /\ UNCHANGED misreads
  \/ value = "noise" /\ misreads < MaxMisreads /\ misreads' = misreads + 1

-----------------------------------------------------------------------------
(* Backup.                                                                   *)

(* fail_backup_: the stored image, once its header is written, is marked     *)
(* invalid, unless that write fails too.                                     *)
FailBackup(p) ==
  /\ part' \in {p} \cup
        (IF marked THEN {[p EXCEPT !.state = Program(@, Invalid)]} ELSE {})
  /\ Resume
  /\ Ended
  /\ UNCHANGED <<detected, probe>> /\ StartRuntime

(* Mutant: managed firmware is not refused.                                  *)
BackupStartUnchecked ==
  /\ Pressed
  /\ UNCHANGED <<config, flash, part, detected, reboots, historyVars,
                 misreads>>
  /\ core' = "halted" /\ StopRuntime
  /\ op' = "backup" /\ next' = 0
  /\ stage' = IF config.partition THEN "erase" ELSE "log"
  /\ source' = "none" /\ wrote' = FALSE /\ marked' = FALSE

(* backup_firmware up to the erasure: session, halt, geometry, managed       *)
(* footer.  The footer may be misread.                                       *)
BackupStart ==
  /\ Pressed
  /\ UNCHANGED <<config, flash, part, detected, reboots, historyVars>>
  /\ \/ (* the session or the halt fails, geometry or footer cannot be read,  *)
        (* or the footer is a managed one                                     *)
        /\ Ended /\ StopRestart
        /\ core' \in {"running", "halted"} /\ UNCHANGED misreads
     \/ \E footer \in Contents :
          /\ Reading(P, footer) /\ footer \notin Managed
          /\ core' = "halted" /\ StopRuntime
          /\ op' = "backup" /\ next' = 0
          /\ stage' = IF config.partition THEN "erase" ELSE "log"
          /\ source' = "none" /\ wrote' = FALSE /\ marked' = FALSE

BackupErase ==
  /\ op = "backup" /\ stage = "erase"
  /\ UNCHANGED <<config, flash, boundVars, historyVars>>
  /\ \/ /\ part' = ErasedPartition
        /\ stage' = "header"
        /\ UNCHANGED <<core, op, next, source, wrote, marked, readVars>>
     \/ \E p \in {part, ErasedPartition} : FailBackup(p)

BackupHeader ==
  /\ op = "backup" /\ stage = "header"
  /\ UNCHANGED <<config, flash, boundVars>>
  /\ \/ /\ part' = [part EXCEPT !.state = Program(@, InProgress)]
        /\ marked' = TRUE /\ stage' = "store"
        /\ snapshot' = flash /\ verified' = FALSE
        /\ UNCHANGED <<core, op, next, source, wrote, readVars>>
     \/ /\ \E s \in {Erased, InProgress} :
             FailBackup([part EXCEPT !.state = Program(@, s)])
        /\ UNCHANGED historyVars

(* READ_AND_STORE: read a block, log it, write it to the partition.          *)
BackupStore ==
  /\ op = "backup" /\ stage = "store"
  /\ UNCHANGED <<config, flash, actions, reboots, historyVars>>
  /\ \/ /\ \E block \in Contents :
             /\ Reading(next + 1, block)
             /\ part' = [part EXCEPT !.image[next + 1] = block]
        /\ IF next + 1 = P
           THEN stage' = "hash" /\ UNCHANGED next
           ELSE next' = next + 1 /\ UNCHANGED stage
        /\ UNCHANGED <<core, op, source, wrote, marked, readVars>>
     \/ /\ \E block \in {"erased", "torn"} :
             FailBackup([part EXCEPT !.image[next + 1] = block])
        /\ UNCHANGED misreads

(* After the last block: hash of the stored image, footer, VALID.            *)
BackupSeal ==
  /\ op = "backup"
  /\ UNCHANGED <<config, flash, boundVars, historyVars>>
  /\ \/ /\ stage = "hash" /\ stage' = "footer"
        /\ part' = [part EXCEPT !.hash = part.image]
        /\ UNCHANGED <<core, op, next, source, wrote, marked, readVars>>
     \/ /\ stage = "footer" /\ stage' = "mark"
        /\ part' = [part EXCEPT !.footer = part.image]
        /\ UNCHANGED <<core, op, next, source, wrote, marked, readVars>>
     \/ /\ stage = "mark" /\ stage' = "compare" /\ next' = 0
        /\ part' = [part EXCEPT !.state = Program(@, Valid)]
        /\ UNCHANGED <<core, op, source, wrote, marked, readVars>>
     \/ /\ stage \in {"hash", "footer", "mark"}
        /\ \/ FailBackup(part)
           \/ /\ stage = "mark"
              /\ FailBackup([part EXCEPT !.state = Program(@, Valid)])

(* finish_backup_success_.                                                   *)
FinishBackup ==
  /\ Resume
  /\ Ended
  /\ UNCHANGED <<detected, probe>> /\ StartRuntime

(* Mutant: the last block is not compared.                                   *)
BackupCompareShort ==
  /\ op = "backup" /\ stage = "compare"
  /\ UNCHANGED <<config, flash, actions, reboots, snapshot>>
  /\ \/ \E block \in Contents :
          /\ Reading(next + 1, block)
          /\ \/ /\ block = part.image[next + 1] /\ next + 2 < P
                /\ next' = next + 1
                /\ UNCHANGED <<core, part, op, stage, source, wrote, marked,
                               readVars, verified>>
             \/ /\ block = part.image[next + 1] /\ next + 2 >= P
                /\ FinishBackup /\ verified' = TRUE /\ UNCHANGED part
             \/ /\ block # part.image[next + 1]
                /\ FailBackup(part) /\ UNCHANGED verified
     \/ FailBackup(part) /\ UNCHANGED <<misreads, verified>>

(* COMPARE_SECOND_READ: read every block again against the stored image.     *)
BackupCompare ==
  /\ op = "backup" /\ stage = "compare"
  /\ UNCHANGED <<config, flash, actions, reboots, snapshot>>
  /\ \/ \E block \in Contents :
          /\ Reading(next + 1, block)
          /\ \/ /\ block = part.image[next + 1] /\ next + 1 < P
                /\ next' = next + 1
                /\ UNCHANGED <<core, part, op, stage, source, wrote, marked,
                               readVars, verified>>
             \/ /\ block = part.image[next + 1] /\ next + 1 = P
                /\ FinishBackup /\ verified' = TRUE /\ UNCHANGED part
             \/ /\ block # part.image[next + 1]
                /\ FailBackup(part) /\ UNCHANGED verified
     \/ FailBackup(part) /\ UNCHANGED <<misreads, verified>>

(* READ_AND_LOG, without a partition: one pass, nothing stored.              *)
BackupLog ==
  /\ op = "backup" /\ stage = "log"
  /\ UNCHANGED <<config, flash, actions, reboots, historyVars>>
  /\ \/ /\ \E block \in Contents : Reading(next + 1, block)
        /\ IF next + 1 = P
           THEN FinishBackup
           ELSE /\ next' = next + 1
                /\ UNCHANGED <<core, op, stage, source, wrote, marked,
                               readVars>>
        /\ UNCHANGED part
     \/ FailBackup(part) /\ UNCHANGED misreads

Backup ==
  \/ BackupErase \/ BackupHeader \/ BackupStore \/ BackupSeal
  \/ BackupCompare \/ BackupLog

-----------------------------------------------------------------------------
(* Install: bundled image, stored backup or external image.                  *)

(* fail_install_: once a row was erased the core stays halted and the        *)
(* runtime off.                                                              *)
FailInstall ==
  /\ IF wrote THEN UNCHANGED <<core, runtime>> ELSE Resume /\ StartRuntime
  /\ Ended
  /\ UNCHANGED probe

(* read_current_firmware_info_, unless the image is external.                *)
Detect(src) ==
  IF src = "external" THEN UNCHANGED <<detected, misreads>>
  ELSE \E footer \in Contents :
         Reading(P, footer) /\ detected' = Kind(footer)

(* start_firmware_action_: on a button, or from setup() for an automatic     *)
(* update of stock or outdated firmware.  The checks may fail at any point;  *)
(* the NVM setup that follows them too.                                      *)
InstallStart(src) ==
  /\ \/ Pressed
     \/ op = "auto" /\ src = "bundled" /\ UNCHANGED actions
  /\ UNCHANGED <<config, flash, part, reboots, historyVars>>
  /\ \/ (* before the firmware information is read                           *)
        /\ Ended /\ UNCHANGED <<detected, misreads>>
        /\ core' \in {"running", "halted"}
        /\ StopRestart
     \/ (* after it: blocked, not needed, or the NVM cannot be set up         *)
        /\ Ended /\ core' \in {"running", "halted"}
        /\ Detect(src)
        /\ StopRestart
     \/ /\ src = "backup" => config.partition /\ Accepted
        /\ Detect(src)
        /\ op = "auto" => detected' # "managed"
        /\ core' = "halted" /\ StopRuntime
        /\ op' = "install" /\ stage' = "page" /\ next' = 0
        /\ source' = src /\ wrote' = FALSE /\ marked' = FALSE

(* process_install_: the row is erased when its first page is reached.       *)
InstallErase ==
  /\ op = "install" /\ stage = "page" /\ next < P
  /\ UNCHANGED <<config, part, boundVars, historyVars,
                 detected>>
  /\ IF next % RowPages # 0
     THEN /\ stage' = "write"
          /\ UNCHANGED <<flash, core, op, next, source, wrote, marked,
                         runtime, probe>>
     ELSE \/ /\ flash' = [p \in Pages |->
                            IF p \in next + 1 .. next + RowPages
                            THEN "erased" ELSE flash[p]]
             /\ wrote' = TRUE /\ stage' = "write"
             /\ UNCHANGED <<core, op, next, source, marked, runtime, probe>>
          \/ /\ flash' \in {flash, [p \in Pages |->
                                      IF p \in next + 1 .. next + RowPages
                                      THEN "torn" ELSE flash[p]]}
             /\ core' = core /\ runtime' = runtime  (* started_writing is set *)
             /\ Ended /\ UNCHANGED probe

(* The page is written: right, damaged without an error, or with an error.   *)
InstallWrite ==
  /\ op = "install" /\ stage = "write"
  /\ UNCHANGED <<config, part, boundVars, historyVars,
                 detected>>
  /\ \/ /\ \E page \in {Image(source)[next + 1], "torn"} :
             flash' = [flash EXCEPT ![next + 1] = page]
        /\ stage' = "verify"
        /\ UNCHANGED <<core, op, next, source, wrote, marked, runtime, probe>>
     \/ /\ flash' \in {flash, [flash EXCEPT ![next + 1] = "torn"]}
        /\ FailInstall

(* Mutant: a page is not read back.                                          *)
InstallVerifyNot ==
  /\ op = "install" /\ stage = "verify"
  /\ UNCHANGED <<config, flash, part, boundVars, historyVars,
                 detected>>
  /\ stage' = "page" /\ next' = next + 1
  /\ UNCHANGED <<core, op, source, wrote, marked, runtime, probe>>

(* Mutant: the offset is not advanced.                                       *)
InstallVerifyStays ==
  /\ op = "install" /\ stage = "verify"
  /\ UNCHANGED <<config, flash, part, boundVars, historyVars,
                 detected>>
  /\ stage' = "page" /\ next' = next
  /\ UNCHANGED <<core, op, source, wrote, marked, runtime, probe>>

InstallVerify ==
  /\ op = "install" /\ stage = "verify"
  /\ UNCHANGED <<config, flash, part, actions, reboots, historyVars,
                 detected>>
  /\ \/ \E page \in Contents :
          /\ Reading(next + 1, page)
          /\ \/ /\ page = Image(source)[next + 1]
                /\ stage' = "page" /\ next' = next + 1
                /\ UNCHANGED <<core, op, source, wrote, marked, runtime, probe>>
             \/ /\ page # Image(source)[next + 1]
                /\ FailInstall
     \/ FailInstall /\ UNCHANGED misreads

(* finish_install_success_: the footer must fit what was installed; then the *)
(* core is reset and the runtime reads start, for I2C after an update only   *)
(* once the probe timer has fired.                                           *)
InstallFinish ==
  /\ op = "install" /\ stage = "page" /\ next = P
  /\ UNCHANGED <<config, flash, part, actions, reboots, historyVars>>
  /\ \/ /\ source = "external"
        /\ Resume /\ Ended
        /\ UNCHANGED <<detected, probe, misreads>> /\ StartRuntime
     \/ /\ source # "external"
        /\ \E footer \in Contents :
             /\ Reading(P, footer)
             /\ detected' = Kind(footer)
             /\ IF detected' = IF source = "bundled" THEN "managed" ELSE "stock"
                THEN /\ Resume /\ Ended
                     /\ IF source = "bundled" /\ ~config.spi
                        THEN probe' = TRUE /\ UNCHANGED runtime
                        ELSE UNCHANGED probe /\ StartRuntime
                ELSE FailInstall
     \/ /\ source # "external"
        /\ FailInstall /\ UNCHANGED <<detected, misreads>>

(* probe_runtime_i2c_after_firmware_update_.                                 *)
ProbeFires ==
  /\ probe
  /\ probe' = FALSE /\ UNCHANGED detected /\ StartRuntime
  /\ UNCHANGED <<config, samdVars, part, taskVars, boundVars, historyVars>>

Install == InstallErase \/ InstallWrite \/ InstallVerify \/ InstallFinish

-----------------------------------------------------------------------------
(* Reboot and setup().                                                       *)

Reboot ==
  /\ reboots < MaxReboots /\ reboots' = reboots + 1
  /\ op' = "boot" /\ stage' = "none" /\ next' = 0
  /\ source' = "none" /\ wrote' = FALSE /\ marked' = FALSE
  /\ detected' = "none" /\ runtime' = FALSE /\ probe' = FALSE
  /\ UNCHANGED <<config, samdVars, part, actions, misreads, historyVars>>

(* publish_initial_firmware_detection_ reads the footer, resets the SAMD09   *)
(* and may start an update; without it, or when the reading fails, the       *)
(* firmware stays unknown.                                                   *)
Boot ==
  /\ op = "boot"
  /\ UNCHANGED <<config, flash, part, next, source, wrote, marked, stage,
                 probe, actions, reboots, historyVars>>
  /\ \/ /\ op' = "idle" /\ detected' = "none" /\ StartRuntime
        /\ UNCHANGED <<core, misreads>>
     \/ /\ config.swdOnBoot
        /\ \E footer \in Contents :
             /\ Reading(P, footer)
             /\ detected' = Kind(footer)
        /\ core' \in {"running", core}
        /\ IF config.auto /\ detected' # "managed"
           THEN op' = "auto" /\ UNCHANGED runtime
           ELSE op' = "idle" /\ StartRuntime

AutoUpdate == op = "auto" /\ InstallStart("bundled")

Loop == Backup \/ Install \/ Boot \/ AutoUpdate

Next ==
  \/ Backup \/ Install \/ Boot \/ BackupStart
  \/ \E src \in {"bundled", "backup", "external"} : InstallStart(src)
  \/ ProbeFires \/ Reboot

Spec == Init /\ [][Next]_vars

(* ESPHome calls loop() for as long as the ESP32 runs.                       *)
FairSpec == Spec /\ WF_vars(Loop)

-----------------------------------------------------------------------------
TypeOK ==
  /\ config \in Configs
  /\ flash \in [Pages -> Origins \cup {"noise"}]
  /\ core \in {"running", "halted"}
  /\ part.state \in {Erased, InProgress, Valid, Invalid}
  /\ part.image \in [Pages -> Contents]
  /\ {part.hash, part.footer} \subseteq [Pages -> Contents] \cup {NoHash}
  /\ op \in {"boot", "auto", "idle", "backup", "install"}
  /\ stage \in {"none", "erase", "header", "store", "hash", "footer", "mark",
                "compare", "log", "page", "write", "verify"}
  /\ next \in 0 .. P
  /\ source \in {"none", "bundled", "backup", "external"}
  /\ {wrote, marked, runtime, probe, verified} \subseteq BOOLEAN
  /\ detected \in {"none", "stock"} \cup Managed
  /\ actions \in 0 .. MaxActions /\ reboots \in 0 .. MaxReboots
  /\ misreads \in 0 .. MaxMisreads
  /\ snapshot \in [Pages -> Contents] \cup {NoHash}

(* Two images differ at most in pages that were misread alike twice: in the  *)
(* pass that stored them and in the one that compared them.                  *)
SameUnlessMisread(image, other) ==
  2 * Cardinality({p \in Pages : image[p] # other[p]}) <= misreads

(* What was compared byte for byte and is accepted for restoring is the      *)
(* flash it was read from, whatever failed or was interrupted on the way: a  *)
(* single misread never gets past the second pass, and wrong pages only when *)
(* each of them was misread alike in both.                                   *)
VerifiedIsSnapshot ==
  Accepted /\ verified => SameUnlessMisread(part.image, snapshot)

(* Managed firmware never takes the place of the stock backup.               *)
BackupIsNotManaged == misreads = 0 /\ Accepted => part.image[P] \notin Managed

(* The runtime never reads the SAMD09 during a firmware action, and no timer *)
(* is left that would start it.                                              *)
RuntimeStaysOff == op \in {"backup", "install"} => ~runtime /\ ~probe

(* A SAMD09 whose flash was touched runs again, short of a new action or a   *)
(* reboot, only on the complete image of the source; a damaged page passes   *)
(* only if the source holds a misread there and the page is misread alike.   *)
RunsOnlyWholeImage ==
  [][op = "install" /\ wrote /\ op' = "idle" /\ core' = "running"
       => SameUnlessMisread(flash, Image(source))]_vars

(* README.md:1126 promises that the stored image is the verified one, for    *)
(* restoration at the press of a button.                                     *)
StoredIsVerified == op = "idle" /\ Accepted => part.image = snapshot

(* README.md:1129 calls it the saved original firmware: one image, not what  *)
(* an interrupted flashing has left of two.                                  *)
StoredIsOriginal ==
  misreads = 0 /\ Accepted =>
    part.image \in {Whole(origin) : origin \in Origins} \cup {Image("external")}

(* Every backup and every install comes to an end.                           *)
ActionsEnd == op \in {"backup", "install"} ~> op \in {"idle", "boot"}
=============================================================================
