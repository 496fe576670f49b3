---------------------------- MODULE SpiReceiver ----------------------------
(***************************************************************************)
(* The SPI reception pipeline of the ESP32 component: the receive task     *)
(* (priority 5), the metering task (priority 2) and the ESPHome main loop, *)
(* which sets the pipeline up, watches it, tears it down and restarts it.  *)
(* The three share the ESP-IDF SPI slave driver, N DMA slots, a pool of N  *)
(* processing frames circulating through two FreeRTOS queues, and the      *)
(* journal of completed metering windows.                                  *)
(*                                                                         *)
(* A step is what one thread does between two accesses another thread can  *)
(* observe.  Time is abstracted to one bit: the valid-frame timeout of two *)
(* seconds has elapsed (expired) or not.  Every FreeRTOS wait may time out *)
(* whenever its condition is false, every driver call may fail where the   *)
(* code has a branch for it.                                               *)
(***************************************************************************)
EXTENDS Naturals, Sequences, FiniteSets

CONSTANTS
  N,            (* SPI_RX_QUEUE_SIZE = SPI_PROCESSING_FRAME_COUNT           *)
  JournalCap,   (* spi_metering_journal_capacity_                           *)
  StreakLimit,  (* SPI_RX_RECOVERY_INVALID_STREAK                           *)
  ResetAfter,   (* SPI_RX_SOFT_RECOVERIES_BEFORE_SAMD_RESET                 *)
  HasResetPin   (* reset_pin_ is configured                                 *)

ASSUME BoundsAssumption ==
  /\ N \in Nat \ {0}
  /\ JournalCap \in Nat \ {0}
  /\ StreakLimit \in Nat \ {0}
  /\ ResetAfter \in Nat \ {0}

ASSUME ResetPinAssumption == HasResetPin \in BOOLEAN

VARIABLES
  main,       (* where the main loop is inside the receiver's code          *)
  reason,     (* why stop_spi_receiver_ was called                          *)
  due,        (* main loop's local: the snapshot it read was two seconds old *)
  tally,      (* main loop's register in spi_rx_recoveries_since_valid_++   *)
  resetSamd,  (* main loop's local reset_samd                               *)
  started,    (* spi_receiver_started_                                      *)
  driver,     (* the SPI slave driver                                       *)
  armed,      (* DMA slots queued in the driver for reception               *)
  done,       (* DMA slots the driver has completed, not yet collected      *)
  inflight,   (* spi_rx_inflight_                                           *)
  pool,       (* queues, processing frames and DMA buffers are allocated    *)
  free,       (* spi_processing_free_queue_                                 *)
  ready,      (* spi_processing_ready_queue_                                *)
  journal,    (* number of windows in spi_metering_queue_                   *)
  rx, rxSlot, rxFrame,   (* receive task: where, slot and frame it holds    *)
  met, metFrame,         (* metering task: where, frame it holds            *)
  rxStop, forceStop, metStop, rxRunning,  (* the spi_*_ flags of that name  *)
  recover,    (* spi_rx_recover_requested_                                  *)
  stall,      (* spi_rx_stall_recovery_                                     *)
  expired,    (* now - spi_rx_last_valid_frame_ms_ >= the timeout           *)
  newValid,   (* spi_rx_last_valid_frame_ms_ changed since the snapshot     *)
  streak,     (* spi_rx_invalid_streak_                                     *)
  attempts    (* spi_rx_recoveries_since_valid_, capped at ResetAfter       *)

mainVars   == <<main, reason, due, tally, resetSamd>>
driverVars == <<driver, armed, done, inflight>>
poolVars   == <<pool, free, ready, journal>>
rxVars     == <<rx, rxSlot, rxFrame>>
metVars    == <<met, metFrame>>
flagVars   == <<rxStop, forceStop, metStop, rxRunning>>
linkVars   == <<recover, stall, expired, newValid, streak, attempts>>
vars == <<mainVars, started, driverVars, poolVars, rxVars, metVars, flagVars,
          linkVars>>

Slots  == 1 .. N
Frames == 1 .. N
None   == 0

Least(a, b) == IF a <= b THEN a ELSE b

MainPlaces ==
  {"idle", "confirm", "raise", "decide", "clear",
   "restart", "count", "chooseReset",
   "stop", "waitRx", "force", "waitForcedRx", "waitMet", "release", "drain",
   "delete", "stopped", "stopFailed", "swd",
   "setup", "buffers", "spawnMet", "spawnRx", "waitMetExit"}

-----------------------------------------------------------------------------
(* Before the first call of setup_spi_receiver_ nothing is allocated.       *)

Init ==
  /\ main = "setup" /\ reason = "setup"
  /\ due = FALSE /\ tally = 0 /\ resetSamd = FALSE
  /\ started = FALSE
  /\ driver = "absent" /\ armed = {} /\ done = {} /\ inflight = 0
  /\ pool = FALSE /\ free = <<>> /\ ready = <<>> /\ journal = 0
  /\ rx = "off" /\ rxSlot = None /\ rxFrame = None
  /\ met = "off" /\ metFrame = None
  /\ rxStop = FALSE /\ forceStop = FALSE /\ metStop = FALSE
  /\ rxRunning = FALSE
  /\ recover = FALSE /\ stall = FALSE
  /\ expired = FALSE /\ newValid = FALSE
  /\ streak = 0 /\ attempts = 0

-----------------------------------------------------------------------------
(* Setting the pipeline up: setup_spi_receiver_.                            *)

(* Nothing to do when started, or the driver cannot be initialised: it is   *)
(* still installed from a cleanup that failed, or the call fails.           *)
SetupRefused ==
  /\ main = "setup"
  /\ main' = "idle"
  /\ UNCHANGED <<reason, due, tally, resetSamd, started, driverVars, poolVars,
                 rxVars, metVars, flagVars, linkVars>>

SetupDriver ==
  /\ main = "setup" /\ ~started /\ driver = "absent"
  /\ driver' = "enabled"
  /\ main' = "buffers"
  /\ UNCHANGED <<reason, due, tally, resetSamd, started, armed, done, inflight,
                 poolVars, rxVars, metVars, flagVars, linkVars>>

(* cleanup_spi_init: a driver that cannot be freed keeps everything.        *)
CleanupSpiInit ==
  /\ main' = "idle"
  /\ UNCHANGED <<reason, due, tally, resetSamd, started, rxVars, metVars>>
  /\ \/ /\ driver' = "absent"
        /\ armed' = {} /\ done' = {} /\ inflight' = 0
        /\ pool' = FALSE /\ free' = <<>> /\ ready' = <<>> /\ journal' = 0
     \/ /\ driver' \in {driver, "disabled"}
        /\ UNCHANGED <<armed, done, inflight, poolVars>>

(* Queues, frames and buffers are created, every frame is put in the free   *)
(* queue and every slot handed to the driver; then flags and the stall      *)
(* timer are reset, the statistics too unless this is a recovery.           *)
SetupBuffers ==
  /\ main = "buffers"
  /\ pool' = TRUE
  /\ free' = [i \in 1 .. N |-> i] /\ ready' = <<>> /\ journal' = 0
  /\ armed' = Slots /\ done' = {} /\ inflight' = N
  /\ rxStop' = FALSE /\ forceStop' = FALSE /\ metStop' = FALSE
  /\ recover' = FALSE /\ stall' = FALSE /\ streak' = 0
  /\ expired' = FALSE /\ newValid' = FALSE
  /\ attempts' = IF reason = "recover" THEN attempts ELSE 0
  /\ main' = "spawnMet"
  /\ UNCHANGED <<reason, due, tally, resetSamd, started, driver, rxVars,
                 metVars, rxRunning>>

SetupBuffersFail ==
  /\ main = "buffers"
  /\ CleanupSpiInit
  /\ UNCHANGED <<flagVars, linkVars>>

StartMeteringTask ==
  /\ main = "spawnMet"
  /\ met' = "wait"
  /\ rxRunning' = TRUE
  /\ main' = "spawnRx"
  /\ UNCHANGED <<reason, due, tally, resetSamd, started, driverVars, poolVars,
                 rxVars, metFrame, rxStop, forceStop, metStop, linkVars>>

StartMeteringTaskFail ==
  /\ main = "spawnMet"
  /\ CleanupSpiInit
  /\ UNCHANGED <<flagVars, linkVars>>

StartRxTask ==
  /\ main = "spawnRx"
  /\ rx' = "loop"
  /\ started' = TRUE
  /\ main' = "idle"
  /\ UNCHANGED <<reason, due, tally, resetSamd, driverVars, poolVars, rxSlot,
                 rxFrame, metVars, flagVars, linkVars>>

StartRxTaskFail ==
  /\ main = "spawnRx"
  /\ rxRunning' = FALSE
  /\ metStop' = TRUE
  /\ main' = "waitMetExit"
  /\ UNCHANGED <<reason, due, tally, resetSamd, started, driverVars, poolVars,
                 rxVars, metVars, rxStop, forceStop, linkVars>>

(* The metering task is given 100 ms; if it is still there the function     *)
(* returns and leaves everything allocated.                                 *)
AwaitMeteringExit ==
  /\ main = "waitMetExit"
  /\ UNCHANGED <<flagVars, linkVars>>
  /\ \/ met = "off" /\ CleanupSpiInit
     \/ /\ met # "off"
        /\ main' = "idle"
        /\ UNCHANGED <<reason, due, tally, resetSamd, started, driverVars,
                       poolVars, rxVars, metVars>>

-----------------------------------------------------------------------------
(* Tearing it down: stop_spi_receiver_.                                     *)

StopRequest ==
  /\ main = "stop"
  /\ IF started
     THEN rxStop' = TRUE /\ metStop' = TRUE /\ main' = "waitRx"
     ELSE UNCHANGED <<rxStop, metStop>> /\ main' = "stopped"
  /\ UNCHANGED <<reason, due, tally, resetSamd, started, driverVars, poolVars,
                 rxVars, metVars, forceStop, rxRunning, linkVars>>

StopUnchanged ==
  UNCHANGED <<reason, due, tally, resetSamd, started, armed, done, inflight,
              rxVars, metVars, rxStop, metStop, rxRunning, linkVars>>

(* 250 ms for the receive task, then the driver is disabled under it.       *)
AwaitRx ==
  /\ main = "waitRx"
  /\ \/ rx = "off" /\ main' = "waitMet" /\ UNCHANGED driver
     \/ rx # "off" /\ main' = "force" /\ driver' = "disabled"
     \/ rx # "off" /\ main' = "stopFailed" /\ UNCHANGED driver
  /\ StopUnchanged /\ UNCHANGED <<poolVars, forceStop>>

ForceRx ==
  /\ main = "force"
  /\ forceStop' = TRUE
  /\ main' = "waitForcedRx"
  /\ StopUnchanged /\ UNCHANGED <<poolVars, driver>>

(* Mutants: teardown goes on when a wait has timed out.                     *)
AwaitForcedRxRegardless ==
  /\ main = "waitForcedRx"
  /\ main' = "waitMet"
  /\ StopUnchanged /\ UNCHANGED <<poolVars, driver, forceStop>>

AwaitMeteringRegardless ==
  /\ main = "waitMet"
  /\ main' = "release"
  /\ StopUnchanged /\ UNCHANGED <<poolVars, driver, forceStop>>

(* 100 ms for the forced receive task, 250 ms for the metering task.        *)
AwaitForcedRx ==
  /\ main = "waitForcedRx"
  /\ main' = IF rx = "off" THEN "waitMet" ELSE "stopFailed"
  /\ StopUnchanged /\ UNCHANGED <<poolVars, driver, forceStop>>

AwaitMetering ==
  /\ main = "waitMet"
  /\ main' = IF met = "off" THEN "release" ELSE "stopFailed"
  /\ StopUnchanged /\ UNCHANGED <<poolVars, driver, forceStop>>

(* spi_slave_disable, unless done above, and spi_slave_free.                *)
FreeDriver ==
  /\ main = "release"
  /\ \/ main' = "drain" /\ driver' = "absent"
     \/ main' = "stopFailed" /\ driver' \in {driver, "disabled"}
  /\ StopUnchanged /\ UNCHANGED <<poolVars, forceStop>>

(* Mutant: only the oldest window is published before the deletion.         *)
DrainOneWindow ==
  /\ main = "drain"
  /\ journal' = IF journal > 1 THEN journal - 1 ELSE 0
  /\ main' = "delete"
  /\ StopUnchanged /\ UNCHANGED <<driver, pool, free, ready, forceStop>>

DrainJournal ==
  /\ main = "drain"
  /\ journal' = 0
  /\ main' = "delete"
  /\ StopUnchanged /\ UNCHANGED <<driver, pool, free, ready, forceStop>>

DeletePipeline ==
  /\ main = "delete"
  /\ pool' = FALSE /\ free' = <<>> /\ ready' = <<>> /\ journal' = 0
  /\ armed' = {} /\ done' = {} /\ inflight' = 0
  /\ started' = FALSE
  /\ main' = "stopped"
  /\ UNCHANGED <<reason, due, tally, resetSamd, driver, rxVars, metVars,
                 flagVars, linkVars>>

-----------------------------------------------------------------------------
(* Watching it: process_spi_receiver_, called from every loop() in which no *)
(* firmware action is active, and restart_spi_receiver_.                    *)

(* Publish the journal and take the snapshot of the last valid frame.       *)
PollReceiver ==
  /\ main = "idle" /\ started
  /\ journal' = 0
  /\ due' = expired
  /\ newValid' = FALSE
  /\ main' = "confirm"
  /\ UNCHANGED <<reason, tally, resetSamd, started, driverVars, pool, free,
                 ready, rxVars, metVars, flagVars, recover, stall, expired,
                 streak, attempts>>

MainOnly(place) ==
  /\ main' = place
  /\ UNCHANGED <<reason, started, driverVars, poolVars, rxVars, metVars,
                 flagVars, expired, newValid, streak>>

ConfirmStall ==
  /\ main = "confirm"
  /\ MainOnly(IF ~recover /\ due /\ ~newValid THEN "raise" ELSE "decide")
  /\ due' = FALSE
  /\ UNCHANGED <<tally, resetSamd, recover, stall, attempts>>

(* Mutant: the stall is noted but no recovery requested.                    *)
RaiseStallOnly ==
  /\ main = "raise"
  /\ stall' = TRUE
  /\ MainOnly("decide")
  /\ UNCHANGED <<due, tally, resetSamd, recover, attempts>>

RaiseStall ==
  /\ main = "raise"
  /\ stall' = TRUE /\ recover' = TRUE
  /\ MainOnly("decide")
  /\ UNCHANGED <<due, tally, resetSamd, attempts>>

DecideRecovery ==
  /\ main = "decide"
  /\ MainOnly(IF ~recover THEN "idle"
              ELSE IF stall /\ newValid THEN "clear" ELSE "restart")
  /\ UNCHANGED <<due, tally, resetSamd, recover, stall, attempts>>

ClearStall ==
  /\ main = "clear"
  /\ stall' = FALSE /\ recover' = FALSE
  /\ MainOnly("idle")
  /\ UNCHANGED <<due, tally, resetSamd, attempts>>

(* spi_rx_recoveries_since_valid_++ is a read and a write: the metering     *)
(* task may store 0 in between.                                             *)
RestartRead ==
  /\ main = "restart"
  /\ tally' = attempts
  /\ MainOnly("count")
  /\ UNCHANGED <<due, resetSamd, recover, stall, attempts>>

RestartCount ==
  /\ main = "count"
  /\ attempts' = Least(tally + 1, ResetAfter)
  /\ tally' = 0
  /\ MainOnly("chooseReset")
  /\ UNCHANGED <<due, resetSamd, recover, stall>>

(* The minimum interval since the previous SAMD reset may not have passed.  *)
ChooseReset ==
  /\ main = "chooseReset"
  /\ \E longAgo \in BOOLEAN :
        resetSamd' = (HasResetPin /\ attempts >= ResetAfter /\ longAgo)
  /\ reason' = "recover"
  /\ main' = "stop"
  /\ UNCHANGED <<due, tally, started, driverVars, poolVars, rxVars, metVars,
                 flagVars, linkVars>>

(* Mutant: a failed stop lets the tasks carry on.                           *)
AfterFailedStopResume ==
  /\ main = "stopFailed"
  /\ IF reason = "recover"
     THEN main' = "idle" /\ recover' = TRUE
     ELSE main' = "swd" /\ UNCHANGED recover
  /\ rxStop' = FALSE /\ forceStop' = FALSE /\ metStop' = FALSE
  /\ resetSamd' = FALSE
  /\ UNCHANGED <<reason, due, tally, started, driverVars, poolVars, rxVars,
                 metVars, rxRunning, stall, expired, newValid, streak,
                 attempts>>

(* stop_spi_receiver_ returned false: recovery asks again, a firmware       *)
(* action ignores the result and goes on to the SWD session.                *)
AfterFailedStop ==
  /\ main = "stopFailed"
  /\ IF reason = "recover"
     THEN main' = "idle" /\ recover' = TRUE
     ELSE main' = "swd" /\ UNCHANGED recover
  /\ resetSamd' = FALSE
  /\ UNCHANGED <<reason, due, tally, started, driverVars, poolVars, rxVars,
                 metVars, flagVars, stall, expired, newValid, streak, attempts>>

(* It returned true: recovery clears the stream state, resets the SAMD09 if *)
(* chosen, and sets the pipeline up again.                                  *)
AfterStop ==
  /\ main = "stopped"
  /\ IF reason = "recover"
     THEN /\ main' = "setup"
          /\ recover' = FALSE /\ stall' = FALSE /\ streak' = 0
          /\ attempts' = IF resetSamd THEN 0 ELSE attempts
     ELSE main' = "swd" /\ UNCHANGED <<recover, stall, streak, attempts>>
  /\ resetSamd' = FALSE
  /\ UNCHANGED <<reason, due, tally, started, driverVars, poolVars, rxVars,
                 metVars, flagVars, expired, newValid>>

(* A backup or flash button: stop_i2c_diagnostics_, the SWD session, then   *)
(* start_i2c_diagnostics_, which sets the pipeline up unless the detected   *)
(* firmware does not fit the configured mode.                               *)
FirmwareAction ==
  /\ main = "idle"
  /\ reason' = "swd"
  /\ main' = "stop"
  /\ UNCHANGED <<due, tally, resetSamd, started, driverVars, poolVars, rxVars,
                 metVars, flagVars, linkVars>>

SwdSessionEnds ==
  /\ main = "swd"
  /\ main' \in {"setup", "idle"}
  /\ UNCHANGED <<reason, due, tally, resetSamd, started, driverVars, poolVars,
                 rxVars, metVars, flagVars, linkVars>>

-----------------------------------------------------------------------------
(* The receive task: spi_rx_task_ and handoff_spi_transaction_.             *)

RxUnchanged ==
  UNCHANGED <<mainVars, started, driver, metVars, rxStop, forceStop, metStop,
              stall, expired, newValid, streak, attempts>>

(* Mutant: the force flag is not read.                                      *)
RxLoopUnforced ==
  /\ rx = "loop"
  /\ rx' = IF ~rxStop \/ inflight > 0 THEN "get" ELSE "exit"
  /\ RxUnchanged
  /\ UNCHANGED <<armed, done, inflight, poolVars, rxSlot, rxFrame, rxRunning,
                 recover>>

RxLoop ==
  /\ rx = "loop"
  /\ rx' = IF ~rxStop \/ (~forceStop /\ inflight > 0) THEN "get" ELSE "exit"
  /\ RxUnchanged
  /\ UNCHANGED <<armed, done, inflight, poolVars, rxSlot, rxFrame, rxRunning,
                 recover>>

(* A completed transfer is collected and leaves the in-flight count.        *)
RxGet(s) ==
  /\ rx = "get" /\ s \in done
  /\ done' = done \ {s}
  /\ inflight' = IF inflight > 0 THEN inflight - 1 ELSE 0
  /\ rxSlot' = s
  /\ rx' = "take"
  /\ RxUnchanged
  /\ UNCHANGED <<armed, poolVars, rxFrame, rxRunning, recover>>

RxGetNothing ==
  /\ rx = "get"
  /\ rx' = "loop"
  /\ \/ UNCHANGED recover
     \/ ~rxStop /\ recover' = TRUE
  /\ RxUnchanged
  /\ UNCHANGED <<armed, done, inflight, poolVars, rxSlot, rxFrame, rxRunning>>

(* No free processing frame: the transfer is dropped (processing overrun).  *)
RxTake ==
  /\ rx = "take"
  /\ IF free = <<>>
     THEN rx' = "requeue" /\ UNCHANGED <<free, rxFrame>>
     ELSE rx' = "send" /\ rxFrame' = Head(free) /\ free' = Tail(free)
  /\ RxUnchanged
  /\ UNCHANGED <<armed, done, inflight, pool, ready, journal, rxSlot,
                 rxRunning, recover>>

(* Into the ready queue; if that is full back to the free queue; if that is *)
(* full too the frame is lost and recovery requested.                       *)
RxSend ==
  /\ rx = "send"
  /\ \/ /\ Len(ready) < N
        /\ ready' = Append(ready, rxFrame)
        /\ UNCHANGED <<free, recover>>
     \/ /\ Len(ready) >= N /\ Len(free) < N
        /\ free' = Append(free, rxFrame)
        /\ UNCHANGED <<ready, recover>>
     \/ /\ Len(ready) >= N /\ Len(free) >= N
        /\ recover' = TRUE
        /\ UNCHANGED <<free, ready>>
  /\ rxFrame' = None
  /\ rx' = "requeue"
  /\ RxUnchanged
  /\ UNCHANGED <<armed, done, inflight, pool, journal, rxSlot, rxRunning>>

(* Mutant: a slot handed back is not counted.                               *)
RxRequeueUncounted ==
  /\ rx = "requeue"
  /\ \/ rxStop /\ UNCHANGED <<armed, recover>>
     \/ ~rxStop /\ armed' = armed \cup {rxSlot} /\ UNCHANGED recover
     \/ ~rxStop /\ recover' = TRUE /\ UNCHANGED armed
  /\ rxSlot' = None
  /\ rx' = "loop"
  /\ RxUnchanged
  /\ UNCHANGED <<done, inflight, poolVars, rxFrame, rxRunning>>

(* queue_spi_receive_ hands the slot back to the driver unless the pipeline *)
(* is stopping; when the driver refuses, the slot is gone until restart.    *)
RxRequeue ==
  /\ rx = "requeue"
  /\ \/ rxStop /\ UNCHANGED <<armed, inflight, recover>>
     \/ /\ ~rxStop
        /\ armed' = armed \cup {rxSlot} /\ inflight' = inflight + 1
        /\ UNCHANGED recover
     \/ ~rxStop /\ recover' = TRUE /\ UNCHANGED <<armed, inflight>>
  /\ rxSlot' = None
  /\ rx' = "loop"
  /\ RxUnchanged
  /\ UNCHANGED <<done, poolVars, rxFrame, rxRunning>>

RxExit ==
  /\ \/ rx = "exit" /\ rx' = "leave" /\ rxRunning' = FALSE
     \/ rx = "leave" /\ rx' = "off" /\ UNCHANGED rxRunning
  /\ RxUnchanged
  /\ UNCHANGED <<armed, done, inflight, poolVars, rxSlot, rxFrame, recover>>

-----------------------------------------------------------------------------
(* The metering task: spi_metering_task_ and process_spi_frame_.            *)

MetUnchanged ==
  UNCHANGED <<mainVars, started, driverVars, pool, rxVars, flagVars, stall>>

MetTake ==
  /\ met = "wait" /\ ready # <<>>
  /\ metFrame' = Head(ready) /\ ready' = Tail(ready)
  /\ met' = "process"
  /\ MetUnchanged
  /\ UNCHANGED <<free, journal, recover, expired, newValid, streak, attempts>>

(* Mutant: a window is appended to a full journal.                          *)
MetAcceptUnbounded ==
  /\ met = "process"
  /\ streak' = 0 /\ attempts' = 0
  /\ expired' = FALSE /\ newValid' = TRUE
  /\ journal' \in {journal, journal + 1}
  /\ met' = "giveBack"
  /\ MetUnchanged
  /\ UNCHANGED <<free, ready, metFrame, recover>>

(* A frame accepted for metering; it may complete a window, which a full    *)
(* journal drops.                                                           *)
MetAccept ==
  /\ met = "process"
  /\ streak' = 0 /\ attempts' = 0
  /\ expired' = FALSE /\ newValid' = TRUE
  /\ journal' \in {journal, Least(journal + 1, JournalCap)}
  /\ met' = "giveBack"
  /\ MetUnchanged
  /\ UNCHANGED <<free, ready, metFrame, recover>>

(* Mutant: a rejected frame is not given back.                              *)
MetRejectKeepsFrame ==
  /\ met = "process"
  /\ streak' = Least(streak + 1, StreakLimit)
  /\ recover' = (recover \/ streak' >= StreakLimit)
  /\ met' = "wait" /\ metFrame' = None
  /\ MetUnchanged
  /\ UNCHANGED <<free, ready, journal, expired, newValid, attempts>>

(* A damaged frame or one carrying a SAMD sample error.                     *)
MetReject ==
  /\ met = "process"
  /\ streak' = Least(streak + 1, StreakLimit)
  /\ recover' = (recover \/ streak' >= StreakLimit)
  /\ met' = "giveBack"
  /\ MetUnchanged
  /\ UNCHANGED <<free, ready, journal, metFrame, expired, newValid, attempts>>

MetGiveBack ==
  /\ met = "giveBack"
  /\ IF Len(free) < N
     THEN free' = Append(free, metFrame) /\ UNCHANGED recover
     ELSE recover' = TRUE /\ UNCHANGED free
  /\ metFrame' = None
  /\ met' = "wait"
  /\ MetUnchanged
  /\ UNCHANGED <<ready, journal, expired, newValid, streak, attempts>>

(* The queue is seen empty first, the flags are read afterwards.            *)
MetSeeEmpty ==
  /\ met = "wait" /\ ready = <<>>
  /\ met' = "sawEmpty"
  /\ MetUnchanged
  /\ UNCHANGED <<free, ready, journal, metFrame, recover, expired, newValid,
                 streak, attempts>>

MetLeaveOrLoop ==
  /\ met = "sawEmpty"
  /\ met' = IF metStop /\ ~rxRunning THEN "off" ELSE "wait"
  /\ MetUnchanged
  /\ UNCHANGED <<free, ready, journal, metFrame, recover, expired, newValid,
                 streak, attempts>>

-----------------------------------------------------------------------------
(* The driver and the clock.                                                *)

DmaComplete(s) ==
  /\ driver = "enabled" /\ s \in armed
  /\ armed' = armed \ {s} /\ done' = done \cup {s}
  /\ UNCHANGED <<mainVars, started, driver, inflight, poolVars, rxVars,
                 metVars, flagVars, linkVars>>

TimeoutElapses ==
  /\ started /\ ~expired
  /\ expired' = TRUE
  /\ UNCHANGED <<mainVars, started, driverVars, poolVars, rxVars, metVars,
                 flagVars, recover, stall, newValid, streak, attempts>>

-----------------------------------------------------------------------------
SetUp ==
  \/ SetupRefused \/ SetupDriver \/ SetupBuffers \/ SetupBuffersFail
  \/ StartMeteringTask \/ StartMeteringTaskFail
  \/ StartRxTask \/ StartRxTaskFail \/ AwaitMeteringExit

TearDown ==
  \/ StopRequest \/ AwaitRx \/ ForceRx \/ AwaitForcedRx \/ AwaitMetering
  \/ FreeDriver \/ DrainJournal \/ DeletePipeline

Watch ==
  \/ PollReceiver \/ ConfirmStall \/ RaiseStall \/ DecideRecovery \/ ClearStall
  \/ RestartRead \/ RestartCount \/ ChooseReset \/ AfterFailedStop \/ AfterStop
  \/ SwdSessionEnds

MainLoop == SetUp \/ TearDown \/ Watch

RxTask ==
  \/ RxLoop \/ (\E s \in Slots : RxGet(s)) \/ RxGetNothing
  \/ RxTake \/ RxSend \/ RxRequeue \/ RxExit

MetTask ==
  \/ MetTake \/ MetAccept \/ MetReject \/ MetGiveBack \/ MetSeeEmpty
  \/ MetLeaveOrLoop

Environment ==
  \/ FirmwareAction \/ (\E s \in Slots : DmaComplete(s)) \/ TimeoutElapses

Next == MainLoop \/ RxTask \/ MetTask \/ Environment

Spec == Init /\ [][Next]_vars

(* The scheduler runs every task, and time passes.                          *)
Fairness ==
  /\ WF_vars(MainLoop) /\ WF_vars(RxTask) /\ WF_vars(MetTask)
  /\ WF_vars(TimeoutElapses)

FairSpec == Spec /\ Fairness

-----------------------------------------------------------------------------
FlagsOK ==
  /\ due \in BOOLEAN /\ resetSamd \in BOOLEAN /\ started \in BOOLEAN
  /\ pool \in BOOLEAN
  /\ rxStop \in BOOLEAN /\ forceStop \in BOOLEAN /\ metStop \in BOOLEAN
  /\ rxRunning \in BOOLEAN
  /\ recover \in BOOLEAN /\ stall \in BOOLEAN
  /\ expired \in BOOLEAN /\ newValid \in BOOLEAN

DataOK ==
  /\ main \in MainPlaces
  /\ reason \in {"setup", "recover", "swd"}
  /\ driver \in {"absent", "enabled", "disabled"}
  /\ armed \subseteq Slots /\ done \subseteq Slots /\ inflight \in Nat
  /\ free \in Seq(Frames) /\ ready \in Seq(Frames)
  /\ journal \in 0 .. JournalCap
  /\ rx \in {"off", "loop", "get", "take", "send", "requeue", "exit", "leave"}
  /\ rxSlot \in Slots \cup {None} /\ rxFrame \in Frames \cup {None}
  /\ met \in {"off", "wait", "process", "giveBack", "sawEmpty"}
  /\ metFrame \in Frames \cup {None}
  /\ tally \in 0 .. ResetAfter /\ attempts \in 0 .. ResetAfter
  /\ streak \in 0 .. StreakLimit

TypeOK == FlagsOK /\ DataOK

Alive == rx # "off" \/ met # "off"

(* Whatever fails or times out while the pipeline is set up or torn down,   *)
(* the driver, the queues and the frames outlive both tasks.                *)
NoUseAfterFree == Alive => pool /\ driver # "absent"

NoFrameShared ==
  /\ \A i, j \in 1 .. Len(free)  : free[i] = free[j] => i = j
  /\ \A i, j \in 1 .. Len(ready) : ready[i] = ready[j] => i = j
  /\ \A i \in 1 .. Len(free), j \in 1 .. Len(ready) : free[i] # ready[j]
  /\ \A i \in 1 .. Len(free)  : free[i] \notin {rxFrame, metFrame}
  /\ \A i \in 1 .. Len(ready) : ready[i] \notin {rxFrame, metFrame}
  /\ rxFrame # None => rxFrame # metFrame

Held(f) == IF f = None THEN 0 ELSE 1

(* Every processing frame has one owner.  It is never in two hands: the     *)
(* queues hold no frame twice and none that a task is copying into or       *)
(* reading.  And none leaks: while the pool exists its N frames are all     *)
(* accounted for, so neither queue can be full when a task holds a frame to *)
(* send and the three error branches of the hand-over cannot be taken.      *)
FramesAreOwned ==
  /\ NoFrameShared
  /\ pool => Len(free) + Len(ready) + Held(rxFrame) + Held(metFrame) = N

(* The in-flight count, which decides when the receive task may leave, is   *)
(* the number of slots the driver still owns; a slot the task is copying    *)
(* from is not one the DMA may write.                                       *)
SlotAccounting ==
  /\ inflight = Cardinality(armed) + Cardinality(done)
  /\ armed \cap done = {}
  /\ rxSlot \notin armed \cup done

(* The stream state and the sample ring are cleared, and the SAMD09 is      *)
(* reset, only when neither task can be using them.                         *)
ExclusiveReset ==
  \/ main \in {"drain", "delete", "buffers"}
  \/ main = "stopped" /\ reason = "recover"
  => ~Alive

(* A task told to stop is never told to carry on: the flags are cleared     *)
(* only for new tasks.  An SWD session that goes on although the receiver   *)
(* could not be stopped finds both tasks told to leave, too.                *)
StopIsFinal ==
  [][/\ (rxStop /\ ~rxStop') \/ (metStop /\ ~metStop') => ~Alive
     /\ main' = "swd" /\ started' => rxStop' /\ metStop']_vars

(* Completed windows survive every teardown: the journal is deleted only    *)
(* when it has been published to the last entry.                            *)
JournalNotLost == [][pool /\ ~pool' => journal = 0]_vars

(* A receiver without valid frames does not stay that way unnoticed: it     *)
(* sees a valid frame or it is torn down, or at least the attempt was made, *)
(* even when every DMA slot has been lost.                                  *)
SilenceIsAnswered ==
  (started /\ expired) ~> (~expired \/ ~started \/ main = "stopFailed")

(* Once asked to stop, tasks do leave, so a teardown cannot keep failing on *)
(* its waits while the driver cooperates.                                   *)
StoppedTasksLeave == (rxStop /\ forceStop /\ metStop) ~> ~Alive
=============================================================================
