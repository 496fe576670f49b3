# Formal models of emporiavue

TLA+ models of the ESPHome component for the Emporia Vue energy monitor and of the
firmware it installs on the board's SAMD09 co-processor, the TLC configurations
that check them, and TLAPS proofs about them.  `src/` below is the repository;
`components/emporiavue/` is the C++ that runs on the ESP32, `firmware/samd09/` the C
that runs on the SAMD09.

    tlc -workers 2 -config SpiReceiver_safety.cfg SpiReceiver.tla
    tlapm SpiReceiverProofs.tla

`PROJECT.json` lists the runs with their properties, the source lines of every
definition, a mutant for every property (a plausible bug, written beside the
definition it stands for and marked `Mutant:`, that makes the run fail), the
hazards and the theorems.

## 1. The system

The SAMD09 samples three voltages and nineteen current transformers and streams raw
scans to the ESP32 over SPI (the older firmware sends sums over I2C).  The ESP32
decodes the stream, cuts it into windows of whole mains cycles, computes power and
feeds it to sensors and trackers.  It also reads and writes the SAMD09's flash over
bit-banged SWD, to back the original firmware up and to install its own.

| Component | State | Operations | Modelled in |
|---|---|---|---|
| SPI receiver pipeline, `spi_transport.cpp` | two FreeRTOS tasks, driver slots, frame pool and its two queues, journal, stop and recovery flags | set up, receive, decode or reject, stall detection, stop with time-limited waits, restart, SAMD reset | `SpiReceiver` |
| SPI stream decoding, `spi_transport.cpp` | expected sample counter, window accumulator, rings of scans, offsets, crossings | validate, detect gaps, accumulate, close or reject a window | `SpiLink` (continuity), `Metering` (windows) |
| Metering trackers, `metering.cpp` | session (last window, stale flag), demand ring and daily maximum, peak window, analysis sums, group cache | submit a window, time out, invalidate, daily check, restore | `Metering` (demand, peak, analysis, continuity) |
| Line detection, `metering.cpp` | two detectors per circuit (reference, transition, score window, candidate), the line assignment and its preference | score a frame, conclude a transition, assign, select by hand, invalidate, restore | `LineDetection` |
| Daily energy, `metering.cpp`, `emporiavue.h` | total and its day, energy without a day, energy pending, midnight timer, preference | integrate windows or samples, publish, roll over, restore | `DailyEnergy` |
| SAMD firmware management, `firmware.cpp` | backup and install state machines, backup partition, detected firmware, runtime started or not | back up, verify, update, restore, flash external, detect, probe | `FirmwareManager` |
| SAMD09 SPI firmware, `main_spi.c` | frame buffers, ready ring, flags, counters, transfer state, SERCOM1, DMAC | ADC interrupt, DMA interrupt, TXC interrupt, polling main loop | `SamdSpi`, `FrameFifo` |
| Component shell, `emporiavue.cpp` | which runtime runs | setup, loop, start and stop the runtime | where the other modules use it |
| SWD transport, `swd_transport.cpp` | session, probe variant, target held in reset, copies of bank and width, retries | probe, power up, identify, read and write memory, close | `SwdTransport`; an outcome per call in `FirmwareManager` |
| I2C transport and I2C firmware, `i2c_transport.cpp`, `main.c` | two packets and the index of the published one, slave state of SERCOM1, last sequence number | build and publish a packet, hand it out byte by byte, poll, check, count gaps, query diagnostics | `I2cLink`, `ReadingFeed` |
| Vue 3 voltage receiver, `main_spi.c`, `main_spi_vue3.c` | SERCOM0 telegram state | request, receive, acknowledge | not yet |
| Code generation, packages, images, packaging tool | none at run time | | no |

Interactions.  The SAMD09's DMA fills a slot of the ESP32's SPI driver; the receive
task copies it into a pool frame and passes it by queue to the metering task; that
task validates, decodes, and appends windows to the journal queue; the main loop
drains the journal into the trackers, watches the time of the last valid frame, and
tears the pipeline down to recover it, to run SWD, or to flash.  Tasks and main loop
share flags and timestamps without locks.  On the SAMD09 the ADC interrupt preempts
everything, and the main loop reads the ring with interrupts enabled.  Preferences
and the backup partition survive a reboot, nothing else does.

What is hard: teardown against tasks that may be blocked; recovery decided on a
timestamp another task writes; frames lost at any of four places, each of which must
be noticed by whoever averages over them; a SAMD09 flash that may be half written when
power fails; midnight, clock synchronisation, queued data and restored totals meeting
in any order.  `PROJECT.json` lists these hazards by line, with the properties that
cover them.

## 2. Modules

### SpiReceiver: the pipeline on the ESP32

`main`, `rx` and `met` say where the main loop and the two tasks are; one action is
what a thread does between two accesses another can observe.  Sets `armed` and `done`
are the driver's slots, sequences `free` and `ready` the two queues of frames, `journal`
the number of windows waiting.  Each operation of `setup_spi_receiver_`,
`stop_spi_receiver_`, `restart_spi_receiver_`, `process_spi_receiver_` and of the two
tasks is an action named after what it does (`SetupBuffers`, `AwaitRx`, `ForceRx`,
`RxTake`, `MetAccept`, ...); each allocation or driver call the code tests may fail, and
each `vTaskDelay` loop may give up whenever its condition is not met.  Time is one bit:
the valid-frame timeout has passed or not.  `recoveries_since_valid` is incremented in two
steps because two threads write it.

*receiver_safety* (3.9 million states): queues, frames and driver outlive the tasks
(`NoUseAfterFree`), no frame has two owners and none is lost
(`FramesAreOwned`), the in-flight count is the driver's (`SlotAccounting`), stream state is
cleared and the SAMD09 reset only without tasks (`ExclusiveReset`), a stop is not
withdrawn, and SWD over a receiver that did not stop finds tasks told to leave
(`StopIsFinal`), completed windows are published before the journal goes
(`JournalNotLost`).  Two slots and frames let both tasks hold one and both queues hold
one; the journal of two overflows.

*receiver_liveness* (220 thousand states): silence is answered by a valid frame or by a
teardown, even when the receive task has lost every slot, and tasks told to stop leave.  One
slot and frame: the smallest pipeline in which each wait and failure occurs.  The run
assumes weak fairness of main loop, tasks and clock.  ESP-IDF justifies it: `loop()` is called
forever, both tasks block with a timeout and have a core to run on; nothing is
assumed of the SAMD09 or of the DMA.

### FirmwareManager: backup and installation

A page of flash is where its contents come from (`"stock"`, `"managed"`, `"torn"`, ...), so
an image that is half one and half another is visible.  `Backup*` and `Install*` are
the steps of `process_backup_` and `process_install_` between two effects that
survive a reboot, `Boot` and `AutoUpdate` are `setup()`, `ProbeFires` the
timeout after an I2C update.  The partition's header state is written by clearing bits
(`Program`).  Each SWD, NVM or partition access may fail; a read may also yield
`"noise"` without an error.  `MCFirmwareManager` gives the build configurations.

*firmware* (1.1 million states): an image compared byte by byte is the flash it was
read from (`VerifiedIsSnapshot`), managed firmware never becomes the backup, the runtime stays
off during an action, a SAMD09 whose flash was touched is released only on the
complete image (`RunsOnlyWholeImage`), and actions end under fairness of `loop()`.
A single misread never passes the second
pass, but two may: the same page misread alike in both.  `SameUnlessMisread` allows
exactly that, one wrong page for two misreads, and nothing for the single one of the
run.  Two rows of two pages make a row boundary and a partial row, two actions make a
backup and a restore or two failures in a row, one reboot may strike anywhere.

Two runs show where the README of the repository says more than the code does:

* *firmware_verified*: `README.md:1126` calls the stored image the verified one.  The header
  becomes VALID before the second read (`firmware.cpp:1458`), so a reboot during the
  comparison, after one misread block, leaves an accepted image nobody compared.
* *firmware_original*: `README.md:1129` calls it the saved original firmware.  A backup after a
  failed flash stores the half-written flash in its place (`firmware.cpp:110` only
  refuses a managed footer).

### SamdSpi and FrameFifo: the SAMD09

Interrupts by priority: DMAC preempts SERCOM1 and `main`; a critical section masks both.
`CaptureScan`, `FinalizeQueued`, `FinalizeDropped` and `RecoverAdc` are the ADC handler,
`TxComplete` and `TxFails` the SPI DMA handler, `Txc*` the SERCOM1 handler, `PickFrame` to
`StartTransfer` the main loop; `DmaBeat`, `ByteShifts` and the like are the hardware.
Scans carry the number of the hardware scan, a CRC is the bytes it was computed over,
a frame crosses the wire part by part.

*samd_spi* (177 thousand states): the buffer being built is never one that waits
(`BuildIsPrivate`), the frame main picked stays head of the ring while interrupts append
(`HeadIsSent`), what a finished transfer put on the wire is one whole frame with its own CRC
(`WireIsWhole`), error flags are not lost with a dropped frame (`FlagsAreQueued`), each queued
frame leaves (`FramesLeave`), and the ring implements `FrameFifo`, a bounded FIFO that
numbers its frames and loses only when full (`FifoSpec`, a refinement with
`made <- sequence`, `queue <- Waiting`).  The ring of two is the real one, nine ticks
make four frames of two scans, so it fills, overflows and wraps.  Fairness: hardware
finishes what it began, pending interrupts are taken, main polls; the ADC may stop.

### SpiLink: both ends

Extends `SamdSpi` with the receiver's expected counter and the scans of its window; a
transaction may be lost or damaged, and both ends may start over at any time
(`RestartLink`, the receiver's restart with its reset of the SAMD09).
*spi_link* (400 thousand states): a measurement window holds scans that follow one
another in time (`WindowHasNoHole`).  Two independent mechanisms are needed, the counter
for scans taken and lost and the flags for scans never taken, and the mutant removes one.

### Metering: from windows to averages

Time is in ticks; a demand, peak or analysis average is the set of ticks it
contains.  `Tick` is the worker with one raw frame (`Accumulate`, `CloseWindow`,
`RejectWindow`, `WindowTimesOut`, `LoseFrame`, `Resync`), `BeginPass`, `DrainOne` and `EndPass` are a
pass of `loop()` that drains the journal, `Submit` the continuity rules of
`submit_metering_frame_`, `Recover`, `Halt`, `Resume`, `PausedPass` the interruptions, `Reboot`
keeps what the preferences had reached flash.

*metering* (one million states): no average spans anything that was lost, and a demand
holds exactly its interval (`AveragesAreWhole`); a daily maximum, saved and restored ones
included, is an interval inside its day (`MaximumIsOfItsDay`); after a pass no
sensor shows a window older than the timeout (`ShownIsFresh`); the journal refuses a
window only when its oldest is useless (`DropsOnlyBehindStale`, which is what the
capacity formula at `spi_transport.cpp:359` has to guarantee).  Windows of one or two ticks, two
buckets and a day of five ticks let windows cross buckets, wrap the ring and cross
midnight; one fault and one reboot fit in seven ticks, and the capacity of 4 fills when
the loop does not run.

### DailyEnergy: from watts to days

An energy is the set of ticks it was measured in.  `Accumulate` and `PublishEnergy` are the
SPI way, `StartPass`, `Sample` and `AddSample` the I2C way; the run begins in either.  `CheckedDay` is
`check_day_`, called from all of them, `MidnightTimer` the one-shot timeout,
`ClockSync` the callback of the time source.

*daily_energy* (two million states): a total holds only its own day's energy
and a timeout is always set for the next midnight, without which it would outlive
the day (`EnergyIsOfItsDay`), nothing is booked twice (`BookedOnce`), what the windows
brought today is in the total or pending through midnight and synchronisation
(`EnergyIsKept`).  For samples without
acquisition time (I2C) a tick may be booked to the day it is noticed in instead of its own,
that is to any day up to that of `MaxSampleGap + MaxPass` ticks later; TLC finds that
this is reached, so the tolerance is tight.  A day of three ticks within seven gives two midnights and a restart between them.

### LineDetection: which line a circuit is on

One current transformer with its two detectors, `det["diag"]` (shown on a text sensor) and
`det["auto"]` (assigns the line).  `load` is what the CT really measures: a score per line
voltage and a current; `Wired` is the line it is really on, which the code cannot see.
`Frame` is `submit_metering_frame_` with `update_line_detection_`: both detectors take the
sample, and at the end of a window `CloseWindow` compares it with the reference, follows
a transition (`Judge`) and assigns the line it confirms at once (`CompleteAuto`).  `Timeout`,
`ChooseLine`, `ChooseAuto`, `ChangeGain` and `Reboot` interfere.  `evidence` is a history
variable: what the windows of the transition under way pointed to.

*line_detection* (225 thousand states): an import detector confirms only the line the
circuit is on, whether the load rises or falls and wherever in a window it changes
(`ConfirmedOnWiredLine`); a line is confirmed or assigned only on three windows in a row
that agree, of one transition, with no gap, timeout or restart between them, and the sensor
does not forget it (`ConfirmationIsEarned`); a restart comes back with the assignment it had
(`RebootKeepsAssignment`); the open demand and analysis averages never mix two lines
(`AveragesOfOneLine`).  `LineDetectionMC` gives an inductive load on line 2 with two
power factors, so that a transition can start from a turn of the phasor alone.
`ConfirmedOnWiredLine` is stated while the power factor stays the same: that the current
moved is remembered for the whole transition, and when the phasor turns later in it
the detector may confirm another line (TLC finds that without the condition).

### I2cLink and ReadingFeed: the I2C firmware and the poll

`WriteMains` to `Publish` are the steps of `Check_and_sendESPpacket` in the SAMD09's
main loop, each a point where SERCOM1 can interrupt; `SendByte` and `Stop` are
`irq_handler_sercom1`; `StartRead`, `EndRead`, `FailRead` and the `Query` actions are
the ESP32.  A byte stands for a part of the packet and holds the number of its window.
`ReadingFeed` is the promise: windows are completed one after the other, the component
receives some, each whole, none twice, none after a later one, and counts the others.

*i2c_link* (2.9 million states): the link implements the feed (`FeedSpec`, a refinement on
the variables of the same names), at every interleaving of the main loop with the
interrupt and with transfers that break off; and a reading is lost only with a cause: polled in
its own window and in the next, and with no transfer near it that failed, met the main
loop or was a diagnostic query, it is received (`LossHasCause`).  The query is a real cause:
its STOP latches the newest buffer although nothing of a packet was read, so the one that
was to be handed out next is not.  Four windows against a modulus of 3 wrap the sequence
number; five transfers read every window and one of them again.

### SwdTransport: memory accesses over the debug port

`op` is the operation under way and `todo` the register transfers it still needs;
`selected` and `cached` are the copies the code keeps of the access port's bank and width
register; `port` is the target's debug port as ADIv5 describes it, external to the
repository; `fetched` says that the answer in its read buffer was read.  `Open`,
`ProbeFirst`, `ProbeNext`, `PowerUp`, `Identify`, `Access` and `Close` are a session;
`Acknowledged`, `Spoiled`, `DamagedRead`, `Misidentified`, `Busy`, `Refused`, `NoAnswer` and
`Unheard` are what may become of a transfer.  A write damaged on the wire is acknowledged all
the same (`Spoiled`): its error sticks to the port, which refuses what comes next.

*swd_transport* (1.4 million states): a read that succeeds delivers what is at its address
in its width, after any retry but one (`ReadIsRight`); a write that did not happen makes the
next operation of the session fail (`WriteIsDone`).

The retry that is not safe is that of RDBUFF.  When the answer of a posted read is damaged on
the wire, its parity is wrong and `dp_read_` reads RDBUFF again (`swd_transport.cpp:292-295`,
called by `ap_read_` at 381).  ADIv5 lets an answer be fetched once; a second fetch is
unpredictable (RESEND is the register for it), may have good parity, and is then reported as
a success.  So `ReadIsRight` asks for `~fetched` before the last transfer; without that
condition TLC finds a wrong answer of the identification after a single fault.  An identification
that gets one may also fail (`Misidentified`, the class check of `verify_mem_ap_`).  A wrong
value of the flash is a misread, as `FirmwareManager` counts them; one of a control register
(the core's or the NVM controller's) is in no model.  The copies of bank and width are not
touched.

Both properties hold until a failure leaves open whether a copied register was written
(`doubtful`), and then again from the next session on: the code keeps its copies after such a failure, and without the condition TLC finds
an access in the wrong width.  A backup is not exposed, its accesses are all
words.  An install mixes widths (the registers of the NVM controller), so what it does
after a failed access, `resume_core_` included, is exposed when that access had to change the
width.  Two sessions, three accesses and two faults let a fault meet a stale copy, a
retry and a new session.

## 3. Bounds and deadlock

| Bound | Value | Why it is enough |
|---|---|---|
| `N`, `JournalCap` | 2 (1 for liveness) | two owners, two queue places, an overflow |
| `StreakLimit`, `ResetAfter` | 1 | recovery on the first bad frame, reset on the first recovery the minimum interval allows; the choice not to reset remains |
| `P`, `RowPages` | 4, 2 | a boundary inside and one between rows |
| `MaxActions`, `MaxReboots`, `MaxMisreads` | 2, 1, 1 | beside the automatic update; two alike misreads of the same block would defeat any comparison |
| `Cap`, `Scans` | 2, 2 | `Cap` is the code's; two scans show a torn frame |
| `MaxTicks`, `MaxFaults` (SamdSpi) | 9, 2 | four frames and a fault inside the recovery from another |
| `MaxWindows`, `Modulus`, `MaxTransfers`, `MaxFaults` (I2cLink) | 4, 3, 5, 1 | the sequence number wraps; one failed transfer between whole ones |
| `MaxSessions`, `MaxAccesses`, `MaxFaults`, `Retries`, `Variants` (SwdTransport) | 2, 3, 2, 2, 2 | a write, what spoils it and a read after it, in one session or two; a retry that helps and one that does not |
| `Interval`, `MaxFrames`, `MaxChanges`, `MaxEvents` (LineDetection) | 2, 13, 2, 2 | a reference and a transition up to its last window, with a second change or two events inside; `StableWindows` and `TransitionWindows` are the code's |
| `Timeout`, `MaxNow`, `DayTicks` | see the cfg files | each interval is passed at least once, midnight too |
| `Wrap` | 32 | larger than twice `MaxNow`: as in the code, no interval comes near half the counter, but a difference below zero wraps |

`CHECK_DEADLOCK FALSE` stands where the environment may stop: no button is pressed any more
(firmware runs), the ADC has reached its bound (SAMD09 runs), no more frames, windows or
accesses come (line detection, I2C and SWD runs).  The other runs check for
deadlock.

## 4. Proofs

Every proof module extends its model, states the invariant first and then has one
lemma per action or group of actions; the lemmas about helpers (`...Form`, `...Facts`) say
what an operator returns, so that the steps need not open it.  All of it holds for every
value of the constants, where a run has small ones: any number of slots, frames,
pages, windows, days, faults and reboots.

**SpiReceiverProofs** (7 theorems).  `PipelineOutlivesTasks` (`NoUseAfterFree`) and
`ResetIsExclusive` (`ExclusiveReset`) are not inductive: that the pool exists says nothing
of where the main loop is.  `ControlInv` adds for each place of the main loop what it has
already seen, which tasks can be alive there, and what is allocated; every wait that
ends well is the only way to a place where nothing is alive, and no step of a task brings
a task to life.  `FramesHaveOneOwner` and `SlotsAreAccounted` are inductive beside the
types: the lemmas on hand-overs (`TakeHead`, `PutLast`, `RoomForHeld`) say that moving a
frame keeps it owned once, and that a queue has room for every frame a task can hold.
`StopsAreFinal` needs that a stop flag falls only after the tasks were seen gone (`StopInv`),
`JournalIsPublished` that wherever the main loop may delete the journal it has drained it
and the metering task cannot add to it (`JournalInv`).

**SamdSpiProofs** (7 theorems).  `ControlInv` relates transfer, interrupt and main (a
transfer keeps main polling, an awaited TXC means the channel is idle), `RingInv` is
`FramesArePrivate` and `HeadIsStable` with the ranges of the indices; `SomeBufferFree` is
the pigeonhole argument that a ring of `Cap` leaves one of `Cap + 1` buffers free.
`FramesCrossWhole` (`WireIsWhole`) follows a frame: captured in order (`ScanInv`), sealed with
the CRC of its own parts (`SealInv`), and on the wire as far as the transfer has got
(`SendInv`), which is where `BuildIsPrivate` and `HeadIsSent` are used: nothing writes
the parts still to be sent.  `FlagsAreNotLost` is an action property from the same
invariant.  `RingImplementsFifo` is the refinement of `FrameFifo`: queueing is its put,
dropping its loss, the release its take, and every other step leaves the items of the
ring as they are.
`WindowsAreGapless` (`WindowHasNoHole` of SpiLink, so the module extends SpiLink) needs to
know what follows what.  `FollowsOn(x, l)` says of a sample counter `x` that the frame
that will bear it, whether it is still to be begun, being built or waiting, starts with
the scan after `l` or carries an error flag.  It is shown once for a frame as it is
queued (`FollowsQueued`: its counter plus its length, and its last scan), and every step
keeps it (`FollowsKept`: a recovery raises a flag, a dropped frame uses its numbers up).
So what the receiver expects after a frame it took stays true for as long as it takes
to hear again.  `TransactionEnds` shows that select falls only over a whole frame, the
head of the ring, or over a transaction too short to be valid (`FailInv`), and
`RestartLink` starts both ends over (`Started`).

**DailyEnergyProofs** (4 theorems).  `EnergyIsOfItsDay`, `EnergyIsKept` and `BookedOnce` hold
each other up: a total is checked against the day when it is touched, so the
invariant must say of the total, the saved and the stored one which day they are of
(`Sound`), that a clock that is known has a timeout at or before the next midnight
(`ClockInv`), what is pending and since when (`WaitInv`), and which of the two ways of
integrating has state at all (`ModeInv`).  `CheckedDay` and `Added` have a lemma each per
part, cited by every action.

**I2cLinkProofs** (2 theorems).  The refinement needs to know which window
a checksum is of (`SumInv`): one that says unread belongs to the newest window or the one
before, by buffer, and not to a reading already submitted.  `PacketInv` carries that over
to the bytes the ESP32 has, `BuildInv` says what the main loop has written so far, `LastInv`
that the last reading is whole and has its sequence number.  Then an accepted packet is one
reading, newer than the last, and the gap is the sequence distance (`SequenceDistance`).
`LossesHaveCauses` (`LossHasCause`) adds what an untroubled window guarantees: that its
packet is whole when it is published (`CleanInv`) and that the bytes read are those of one
buffer (`CopyInv`).  `TurnInv` follows a reading not yet received: in the published buffer
in its own window, then in the other one in the next, where a poll in the first has turned the
reader to it.  The read there takes it (`WholeAccepted`), so a reading polled in two quiet
windows was received (`Received`).  A step that brings trouble promises nothing of the windows
it touches (`StepInTrouble`).

**FirmwareManagerProofs** (5 theorems).  `TaskInv` says where in its stages an action can be
and that a core whose flash is written is halted; `NoiseInv` that every misread kept
anywhere is counted; `SnapshotInv` how many pages of the stored image can be wrong, one
misread for each after the first pass and two after the second; `InstallInv` the same of
the flash against the source; `ManagedInv` that without misreads the last page, by which
firmware is recognised, is not a managed one.  `VerifiedBackup`, `RunsWholeImage`,
`BackupNotManaged` and `RuntimeIsOff` follow; the counting rests on the cardinality theorems.

**LineDetectionProofs** (4 theorems).  `LineInv` is of each circuit `DetectionInv` (a detector's
streak and its memory that the current moved are those of the verdicts of its last
windows, the confirmed line is the one shown, the open averages are of the assigned
line) and `StoredInv` (the flash holds the assignment).  `ConfirmationsAreEarned`,
`OneLineAverages` and `AssignmentIsKept` follow for any loads and thresholds.

**MeteringProofs** (6 theorems).  The invariant `IInv` follows a tick from the SPI stream to the
sensors.  `StreamInv` and `JournalInv` say that windows in the journal follow the session and
one another, that two with successive numbers of one epoch adjoin, and that k of them
span k minimal windows.  `FedInv` says that everything averaged is a run of ticks that ends at
the session's last window and that nothing at all is held once the session is stale; of the
demand ring, that its buckets are a gapless chain backwards from the open one wherever the
index stands, so that the sum the code keeps by adding and subtracting is their union.
`DayInv` is about days: keys are not in the future, a maximum is one interval of the
day it is kept for, the day was restored or began since the boot.  `LoopInv` is about
a pass.  From it `AveragesWhole`, `MaximumOfDay`, `Freshness`, `TypeCorrect` and, for the
capacity formula, `DropsStale`: a full journal whose windows are at least `MinWindow` long has
an oldest one behind the timeout.  That theorem has a hypothesis of its own, that the horizon
fits into the limit of 96 entries (`spi_transport.cpp:349-360`).  With YAML intervals so
extreme that the limit binds the code chooses bounded memory, and fresh windows are lost.
A window is added tick by tick, by a recursive function; the induction is done with
the least tick at which a value would be missing (`Least`, `TicksExist`,
`AddIntervalForm`), from the library's theorem that the naturals are well-founded.

**SwdTransportProofs** (3 theorems).  `NothingIsLost` (`WriteIsDone`) and `ReadsAreRight`
(`ReadIsRight`) say nothing of an operation under way, so the invariant follows one through
its transfers (`StageInv`): which of them are left tells what was written, or did not have to
be because of a copy, and, unless a transfer was spoiled (`Sound`), what the port holds by
then.  `CopyInv` relates the copies to the port, with the one gap the code has: between a
spoiled write of a copied register and the refusal that ends its operation.  `LostInv`
says that a lost write has left its error behind, so that the next transfer is refused.  The
two reads that are never refused (IDCODE, STAT) belong to operations that start after the
loss was forgotten.  Transfers that fail share `FailKeeps` and `RetryKeeps`, those that
succeed `StageMoves`.  What the last one delivers is the posted answer unless that had been
fetched before (`Answers`).

The assumptions are the ASSUMEs of the modules, that counts are positive naturals,
`HasResetPin` and `UnderReset` Booleans, a demand interval no longer than a day and so on,
and the one of `DropsStale`.

Only model-checked:

* liveness, everywhere (silence is answered, frames leave, actions end): fairness and
  ENABLED are out of TLAPS's reach;
* `ConfirmedOnWiredLine` is about the loads and thresholds of its instance (that the wired
  line scores best by the margin the code asks for), not about every value of them.

## 5. What the models leave out

* Arithmetic: power, phasors, harmonics, offsets, calibration, filters; which of two demands is
  larger is a free choice.  The capture of bits and the clock tree of the SAMD09.
* SpiReceiver: the contents of frames (accepted or rejected at will); logging counters.
* FirmwareManager: the bundled image fits the target; the timer that reports a
  mismatch; erasing a row or writing a page is done, not done, or torn; how a transfer fails is `SwdTransport`'s.
* SamdSpi: the Vue 2 build only; multiplexer and ADC double buffering; DMAC
  interrupts without a flag; the guard times of chip select.  Counters do not wrap
  within the bound.  A restart, of both ends together, appears in SpiLink.
* SpiLink: the SAMD09 starting over alone; damage is always detected (a CRC never collides).
* Metering: the worker handles a frame in its own tick (its delays are SpiReceiver's);
  one transformer; the I2C samples; recalibration; groups;
  the repeated publication of unknown values.
* DailyEnergy: clocks that step back over midnight; the integration method.
* LineDetection: the SPI transport only; a missing line voltage (the mask of a circuit with
  detection is complete); `millis()` zero taken for a window that has not started.
* I2cLink: the checksum is its content, so two packets never collide; the fixed bytes of the
  packet, the overrun counter, the Vue 3 build's stricter test of `is_unread`.  Neither end starts over:
  after a reset of the SAMD09 its sequence restarts while `last_metering_sequence_` stays
  (`metering.cpp:446`), and the count of missing readings would be wrong.  The main loop
  is done with a window before the next ends, half a second later; at most one SERCOM1
  interrupt falls between the checksum and the index (`Publishing`); stores of the main loop
  are seen in their order.  A gap of exactly the modulus counts as none, as in the code.
* SwdTransport: bit clocking and pin levels; errors the parity bit does not show; the
  retries of the power-up loop are one counter.  The last write of a session is confirmed by nothing.  Core registers, erasing
  and programming are sequences of accesses, any of which the run tries.
* Everything marked "not yet" or "no" in the table.

## 6. Plan

1. `SpiWindow`: cycle accounting and the 32-bit sample counter of
   `process_spi_raw_scan_`, against a reference definition of whole cycles.
2. `SamdVoltage`: the Vue 3 handshake, composed with `SamdSpi`.
3. The I2C samples on their way into the trackers of `Metering`, and a restart of either end
   of `I2cLink`.
4. `GroupPower`: the generation cache and cycles among groups.

Proofs left: `ConfirmedOnWiredLine` under an assumption on the
loads that says what the instance has (the wired line scores best by the margin).
