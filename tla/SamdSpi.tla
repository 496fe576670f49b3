------------------------------- MODULE SamdSpi -------------------------------
(***************************************************************************)
(* The SPI firmware of the SAMD09 (main_spi.c, Vue 2 build): the DMAC      *)
(* interrupt collects ADC scans into a frame and queues it, main computes  *)
(* the CRC of the oldest queued frame and starts its transfer, the SERCOM1 *)
(* interrupt releases chip select after the last byte and frees the frame. *)
(* DMAC preempts SERCOM1 and main, SERCOM1 preempts main; a critical       *)
(* section masks both.                                                     *)
(*                                                                         *)
(* A scan's data is the number of the hardware scan it was sampled in      *)
(* (tick), so that a hole in the sampling shows in what a frame holds.     *)
(* The CRC is the content it was computed over.  A frame crosses the wire  *)
(* in Scans + 2 parts: header, scans, CRC.                                 *)
(***************************************************************************)
EXTENDS Integers, Sequences, FiniteSets

CONSTANTS
  Cap,        (* SPI_READY_QUEUE_CAPACITY = SPI_FRAME_BUFFER_COUNT - 1      *)
  Scans,      (* SPI_RAW_SCAN_COUNT                                         *)
  MaxTicks,   (* bound: hardware scans                                      *)
  MaxFaults   (* bound: ADC and DMA faults                                  *)

ASSUME SizesAssumption ==
  /\ Cap \in Nat \ {0}
  /\ Scans \in Nat \ {0}

ASSUME BoundsAssumption == MaxTicks \in Nat /\ MaxFaults \in Nat

VARIABLES
  frame,      (* SpiFrames                                                  *)
  build,      (* SpiBuildFrameIndex                                         *)
  scan,       (* SpiBuildScanIndex                                          *)
  ring, head, count,  (* SpiReadyFrameIndex, SpiReadyHead, SpiReadyCount    *)
  pending,    (* SpiPendingFlags                                            *)
  sequence,   (* SpiFrameSequence                                           *)
  counter,    (* SpiSampleCounter                                           *)
  active, awaiting,   (* SpiTxActive, SpiTxAwaitingComplete                 *)
  discard,    (* DiscardNextAdcScan                                         *)
  main, chosen, crc,  (* main: where, its frame, the bytes its CRC covers   *)
  isr,        (* SERCOM1 interrupt: not running, or before its critical part *)
  tick,       (* hardware scans so far                                      *)
  adc,        (* outcome of the scan the DMAC interrupt has not handled yet *)
  channel, sent, txIrq,   (* SPI DMA channel, parts it read, its interrupt  *)
  shift, txc, txcOn,  (* SERCOM1: byte being shifted, TXC flag, TXC enabled *)
  cs, wire,   (* chip select asserted, parts on the wire since it was       *)
  faults      (* faults so far                                              *)

buildVars == <<frame, build, scan, sequence, counter, discard>>
ringVars  == <<ring, head, count>>
mainVars  == <<main, chosen, crc>>
dmaVars   == <<channel, sent, txIrq>>
serialVars == <<shift, txc, txcOn>>
wireVars  == <<cs, wire>>
adcVars   == <<tick, adc>>
vars == <<buildVars, ringVars, pending, active, awaiting, mainVars, isr,
          adcVars, dmaVars, serialVars, wireVars, faults>>

Buffers == 0 .. Cap
Flags   == {"OVERRUN", "DMA_ERROR", "ADC_OVERRUN"}
Parts   == Scans + 2

(* The buffers in the ready ring, oldest first; spi_ready_queue_contains.   *)
ReadyAt(i) == ring[(head + i) % Cap]
Queued == {ReadyAt(i) : i \in 0 .. count - 1}

Header(f) == <<f.sequence, f.flags, f.counter>>

(* The bytes of a frame that its CRC covers, and the frame's i-th part.     *)
Covered(f) == [i \in 1 .. Scans + 1 |->
                 IF i = 1 THEN Header(f) ELSE <<f.scans[i - 1]>>]
Part(f, i) == IF i = Parts THEN f.crc32 ELSE Covered(f)[i]

EmptyFrame == [sequence |-> 0, flags |-> {}, counter |-> 0,
               scans |-> [i \in 1 .. Scans |-> 0], crc32 |-> <<>>]

-----------------------------------------------------------------------------
(* After configuration: the first conversion is not usable.                 *)

Init ==
  /\ frame = [b \in Buffers |-> EmptyFrame]
  /\ build = 0 /\ scan = 0
  /\ ring = [i \in 0 .. Cap - 1 |-> 0] /\ head = 0 /\ count = 0
  /\ pending = {} /\ sequence = 0 /\ counter = 0
  /\ active = FALSE /\ awaiting = FALSE /\ discard = TRUE
  /\ main = "poll" /\ chosen = 0 /\ crc = <<>> /\ isr = "off"
  /\ tick = 0 /\ adc = "none"
  /\ channel = "off" /\ sent = 0 /\ txIrq = "none"
  /\ shift = <<>> /\ txc = FALSE /\ txcOn = FALSE
  /\ cs = FALSE /\ wire = <<>>
  /\ faults = 0

-----------------------------------------------------------------------------
(* Hardware.                                                                *)

(* The ADC channel completes a scan, or fails, or the ADC overran while it  *)
(* was not serviced, or both.  The channel rests until it is re-armed.      *)
AdcScanEnds ==
  /\ adc = "none" /\ tick < MaxTicks
  /\ tick' = tick + 1
  /\ \/ adc' = "good" /\ faults' = faults
     \/ /\ faults < MaxFaults /\ faults' = faults + 1
        /\ adc' \in {"error", "overrun", "both"}
  /\ UNCHANGED <<buildVars, ringVars, pending, active, awaiting, mainVars, isr,
                 dmaVars, serialVars, wireVars>>

(* The SPI channel moves one byte to SERCOM DATA, which clears TXC.         *)
DmaBeat ==
  /\ channel = "busy" /\ shift = <<>> /\ sent < Parts
  /\ shift' = <<Part(frame[chosen], sent + 1)>> /\ txc' = FALSE
  /\ sent' = sent + 1
  /\ IF sent' = Parts THEN channel' = "off" /\ txIrq' = "complete"
                      ELSE UNCHANGED <<channel, txIrq>>
  /\ UNCHANGED <<buildVars, ringVars, pending, active, awaiting, mainVars, isr,
                 adcVars, txcOn, wireVars, faults>>

DmaFails ==
  /\ channel = "busy" /\ faults < MaxFaults
  /\ channel' = "draining" /\ txIrq' = "error" /\ faults' = faults + 1
  /\ UNCHANGED <<buildVars, ringVars, pending, active, awaiting, mainVars, isr,
                 adcVars, sent, serialVars, wireVars>>

(* A failed channel goes idle later, and may raise one more interrupt.      *)
ChannelDrains ==
  /\ channel = "draining" /\ txIrq = "none"
  /\ channel' = "off" /\ txIrq' \in {"none", "error"}
  /\ UNCHANGED <<buildVars, ringVars, pending, active, awaiting, mainVars, isr,
                 adcVars, sent, serialVars, wireVars, faults>>

(* The byte leaves the shift register: TXC, as no new one was written.      *)
ByteShifts ==
  /\ shift # <<>>
  /\ wire' = IF cs THEN wire \o shift ELSE wire
  /\ shift' = <<>> /\ txc' = TRUE
  /\ UNCHANGED <<buildVars, ringVars, pending, active, awaiting, mainVars, isr,
                 adcVars, dmaVars, txcOn, cs, faults>>

-----------------------------------------------------------------------------
(* DMAC interrupt, ADC channel.                                             *)

(* What the handler reports of a failed scan.                               *)
Reported == (IF adc # "overrun" THEN {"DMA_ERROR"} ELSE {})
              \cup (IF adc # "error" THEN {"ADC_OVERRUN"} ELSE {})

(* Mutant: recovery forgets to tell of an overrun.                          *)
RecoverUntold ==
  /\ adc \in {"error", "overrun", "both"}
  /\ pending' = pending \cup (Reported \ {"ADC_OVERRUN"})
  /\ scan' = 0 /\ discard' = TRUE /\ adc' = "none"
  /\ UNCHANGED <<frame, build, sequence, counter, ringVars, active, awaiting,
                 mainVars, isr, tick, dmaVars, serialVars, wireVars, faults>>

(* recover_adc_scan: the sequence starts over, the partial frame is given   *)
(* up and the next scan is not used.                                        *)
RecoverAdc ==
  /\ adc \in {"error", "overrun", "both"}
  /\ pending' = pending \cup Reported
  /\ scan' = 0 /\ discard' = TRUE /\ adc' = "none"
  /\ UNCHANGED <<frame, build, sequence, counter, ringVars, active, awaiting,
                 mainVars, isr, tick, dmaVars, serialVars, wireVars, faults>>

DiscardScan ==
  /\ adc = "good" /\ discard
  /\ discard' = FALSE /\ adc' = "none"
  /\ UNCHANGED <<frame, build, scan, sequence, counter, ringVars, pending,
                 active, awaiting, mainVars, isr, tick, dmaVars, serialVars,
                 wireVars, faults>>

(* The build frame with the completed scan in its place.                    *)
Captured ==
  [frame[build] EXCEPT !.scans[scan + 1] = tick,
                       !.counter = IF scan = 0 THEN counter ELSE @]

(* The build frame with its header: the flags seen since the last frame     *)
(* that could be queued.                                                    *)
Finalized == [Captured EXCEPT !.sequence = sequence, !.flags = pending,
                              !.crc32 = <<>>]

CaptureScan ==
  /\ adc = "good" /\ ~discard /\ scan + 1 < Scans
  /\ frame' = [frame EXCEPT ![build] = Captured]
  /\ counter' = counter + 1 /\ scan' = scan + 1 /\ adc' = "none"
  /\ UNCHANGED <<build, sequence, discard, ringVars, pending, active, awaiting,
                 mainVars, isr, tick, dmaVars, serialVars, wireVars, faults>>

(* Mutant: the dropped frame takes the flags it was given with it.          *)
DropFlags ==
  /\ adc = "good" /\ ~discard /\ scan + 1 = Scans /\ count >= Cap
  /\ frame' = [frame EXCEPT ![build] = Finalized]
  /\ sequence' = sequence + 1 /\ counter' = counter + 1 /\ scan' = 0
  /\ pending' = {"OVERRUN"} /\ adc' = "none"
  /\ UNCHANGED <<build, discard, ringVars, active, awaiting, mainVars, isr,
                 tick, dmaVars, serialVars, wireVars, faults>>

(* Mutant: the oldest frame makes room instead of the newest.               *)
DropOldest ==
  /\ adc = "good" /\ ~discard /\ scan + 1 = Scans /\ count >= Cap
  /\ frame' = [frame EXCEPT ![build] = Finalized]
  /\ sequence' = sequence + 1 /\ counter' = counter + 1 /\ scan' = 0
  /\ pending' = pending \cup {"OVERRUN"} /\ adc' = "none"
  /\ head' = (head + 1) % Cap /\ count' = count - 1
  /\ UNCHANGED <<build, ring, discard, active, awaiting, mainVars, isr,
                 tick, dmaVars, serialVars, wireVars, faults>>

(* The ring is full: the frame is built over, its flags stay pending.       *)
FinalizeDropped ==
  /\ adc = "good" /\ ~discard /\ scan + 1 = Scans /\ count >= Cap
  /\ frame' = [frame EXCEPT ![build] = Finalized]
  /\ sequence' = sequence + 1 /\ counter' = counter + 1 /\ scan' = 0
  /\ pending' = pending \cup {"OVERRUN"} /\ adc' = "none"
  /\ UNCHANGED <<build, discard, ringVars, active, awaiting, mainVars, isr,
                 tick, dmaVars, serialVars, wireVars, faults>>

(* Mutant: the lowest buffer other than the one just finished.              *)
NextBuffer(queued) ==
  {b \in Buffers \ {build} : \A c \in Buffers \ {build} : b <= c}

(* spi_find_free_build_frame: a buffer outside the ring, the present one    *)
(* if there is none.  The code takes the lowest.                            *)
FreeAfter(queued) ==
  IF Buffers \subseteq queued THEN {build}
  ELSE {b \in Buffers \ queued : \A c \in Buffers \ queued : b <= c}

(* Mutant: the tail is taken for the count.                                 *)
QueueAtCount ==
  /\ adc = "good" /\ ~discard /\ scan + 1 = Scans /\ count < Cap
  /\ frame' = [frame EXCEPT ![build] = Finalized]
  /\ sequence' = sequence + 1 /\ counter' = counter + 1 /\ scan' = 0
  /\ pending' = {} /\ adc' = "none"
  /\ ring' = [ring EXCEPT ![count % Cap] = build]
  /\ count' = count + 1 /\ head' = head
  /\ build' \in FreeAfter(Queued')
  /\ UNCHANGED <<discard, active, awaiting, mainVars, isr, tick, dmaVars,
                 serialVars, wireVars, faults>>

(* Mutant: a full ring is not noticed.                                      *)
QueueUnbounded ==
  /\ adc = "good" /\ ~discard /\ scan + 1 = Scans /\ count <= Cap
  /\ frame' = [frame EXCEPT ![build] = Finalized]
  /\ sequence' = sequence + 1 /\ counter' = counter + 1 /\ scan' = 0
  /\ pending' = {} /\ adc' = "none"
  /\ ring' = [ring EXCEPT ![(head + count) % Cap] = build]
  /\ count' = count + 1 /\ head' = head
  /\ build' \in FreeAfter(Queued')
  /\ UNCHANGED <<discard, active, awaiting, mainVars, isr, tick, dmaVars,
                 serialVars, wireVars, faults>>

FinalizeQueued ==
  /\ adc = "good" /\ ~discard /\ scan + 1 = Scans /\ count < Cap
  /\ frame' = [frame EXCEPT ![build] = Finalized]
  /\ sequence' = sequence + 1 /\ counter' = counter + 1 /\ scan' = 0
  /\ pending' = {} /\ adc' = "none"
  /\ ring' = [ring EXCEPT ![(head + count) % Cap] = build]
  /\ count' = count + 1 /\ head' = head
  /\ build' \in FreeAfter(Queued')
  /\ UNCHANGED <<discard, active, awaiting, mainVars, isr, tick, dmaVars,
                 serialVars, wireVars, faults>>

-----------------------------------------------------------------------------
(* DMAC interrupt, SPI channel; pending ADC work is always served first.    *)

TxUnexpected ==
  /\ adc = "none" /\ txIrq # "none" /\ ~active
  /\ pending' = pending \cup {"DMA_ERROR"} /\ txIrq' = "none"
  /\ UNCHANGED <<buildVars, ringVars, active, awaiting, mainVars, isr, adcVars,
                 channel, sent, serialVars, wireVars, faults>>

(* Mutant: DMA completion is taken for the end of the frame.                *)
TxEndsAtDma ==
  /\ adc = "none" /\ txIrq = "complete" /\ active /\ isr = "off"
  /\ awaiting' = TRUE /\ txIrq' = "none" /\ cs' = FALSE /\ isr' = "release"
  /\ UNCHANGED <<buildVars, ringVars, pending, active, mainVars, adcVars,
                 channel, sent, serialVars, wire, faults>>

TxComplete ==
  /\ adc = "none" /\ txIrq = "complete" /\ active
  /\ awaiting' = TRUE /\ txcOn' = TRUE /\ txIrq' = "none"
  /\ UNCHANGED <<buildVars, ringVars, pending, active, mainVars, isr, adcVars,
                 channel, sent, shift, txc, wireVars, faults>>

(* The critical section of finish_spi_tx.                                   *)
ReleaseFrame(flags) ==
  /\ IF count # 0
     THEN /\ head' = (head + 1) % Cap /\ count' = count - 1
          /\ pending' = flags
     ELSE pending' = flags \cup {"DMA_ERROR"} /\ UNCHANGED <<head, count>>
  /\ ring' = ring
  /\ awaiting' = FALSE /\ active' = FALSE

(* Mutant: a failed transfer waits for TXC like a complete one.             *)
TxFailsAwaitsTxc ==
  /\ adc = "none" /\ txIrq = "error" /\ active
  /\ pending' = pending \cup {"DMA_ERROR"}
  /\ awaiting' = TRUE /\ txcOn' = TRUE /\ txIrq' = "none"
  /\ UNCHANGED <<buildVars, ringVars, active, mainVars, isr, adcVars, channel,
                 sent, shift, txc, wireVars, faults>>

(* A failed transfer is ended here, with finish_spi_tx: TXC might never     *)
(* come.  A byte still in the shift register goes nowhere.                  *)
TxFails ==
  /\ adc = "none" /\ txIrq = "error" /\ active
  /\ ReleaseFrame(pending \cup {"DMA_ERROR"})
  /\ cs' = FALSE /\ txcOn' = FALSE /\ txc' = FALSE /\ shift' = <<>>
  /\ txIrq' = "none"
  /\ UNCHANGED <<buildVars, mainVars, isr, adcVars, channel, sent, wire,
                 faults>>

-----------------------------------------------------------------------------
(* SERCOM1 interrupt: finish_spi_tx.                                        *)

TxcInterrupt ==
  /\ isr = "off" /\ txcOn /\ txc
  /\ txcOn' = FALSE /\ txc' = FALSE
  /\ IF active /\ awaiting THEN cs' = FALSE /\ isr' = "release"
                           ELSE UNCHANGED <<cs, isr>>
  /\ UNCHANGED <<buildVars, ringVars, pending, active, awaiting, mainVars,
                 adcVars, dmaVars, shift, wire, faults>>

TxcRelease ==
  /\ isr = "release"
  /\ ReleaseFrame(pending)
  /\ isr' = "off"
  /\ UNCHANGED <<buildVars, mainVars, adcVars, dmaVars, serialVars, wireVars,
                 faults>>

-----------------------------------------------------------------------------
(* main: start_spi_dma_if_ready.                                            *)

PickFrame ==
  /\ isr = "off" /\ main = "poll"
  /\ ~active /\ count # 0
  /\ chosen' = ReadyAt(0) /\ crc' = <<>> /\ main' = "crc"
  /\ UNCHANGED <<buildVars, ringVars, pending, active, awaiting, isr, adcVars,
                 dmaVars, serialVars, wireVars, faults>>

(* The CRC runs over the frame with interrupts enabled.                     *)
ReadForCrc ==
  /\ isr = "off" /\ main = "crc" /\ Len(crc) <= Scans
  /\ crc' = Append(crc, Covered(frame[chosen])[Len(crc) + 1])
  /\ UNCHANGED <<buildVars, ringVars, pending, active, awaiting, main, chosen,
                 isr, adcVars, dmaVars, serialVars, wireVars, faults>>

SelectReceiver ==
  /\ isr = "off" /\ main = "crc" /\ Len(crc) = Scans + 1
  /\ frame' = [frame EXCEPT ![chosen].crc32 = crc]
  /\ txcOn' = FALSE /\ txc' = FALSE
  /\ cs' = TRUE /\ wire' = <<>>
  /\ main' = "select"
  /\ UNCHANGED <<build, scan, sequence, counter, discard, ringVars, pending,
                 active, awaiting, chosen, crc, isr, adcVars, dmaVars, shift,
                 faults>>

StartTransfer ==
  /\ isr = "off" /\ main = "select" /\ channel = "off"
  /\ channel' = "busy" /\ sent' = 0 /\ txIrq' = "none"
  /\ active' = TRUE /\ awaiting' = FALSE /\ main' = "poll"
  /\ UNCHANGED <<buildVars, ringVars, pending, chosen, crc, isr, adcVars,
                 serialVars, wireVars, faults>>

(* The channel of a failed transfer is still busy: try again later.         *)
ChannelRefused ==
  /\ isr = "off" /\ main = "select" /\ channel # "off"
  /\ pending' = pending \cup {"DMA_ERROR"}
  /\ cs' = FALSE /\ main' = "poll"
  /\ UNCHANGED <<buildVars, ringVars, active, awaiting, chosen, crc, isr,
                 adcVars, dmaVars, serialVars, wire, faults>>

-----------------------------------------------------------------------------
Hardware   == AdcScanEnds \/ DmaBeat \/ DmaFails \/ ChannelDrains \/ ByteShifts
AdcHandler == RecoverAdc \/ DiscardScan \/ CaptureScan \/ FinalizeDropped
                \/ FinalizeQueued
TxHandler  == TxUnexpected \/ TxComplete \/ TxFails
TxcHandler == TxcInterrupt \/ TxcRelease
Main       == PickFrame \/ ReadForCrc \/ SelectReceiver \/ StartTransfer
                \/ ChannelRefused

Next == Hardware \/ AdcHandler \/ TxHandler \/ TxcHandler \/ Main

Spec == Init /\ [][Next]_vars

(* Hardware finishes what it started, a pending interrupt is taken and the  *)
(* polling main loop never blocks.  Nothing obliges the ADC to go on.       *)
FairSpec ==
  /\ Spec
  /\ WF_vars(DmaBeat) /\ WF_vars(ChannelDrains) /\ WF_vars(ByteShifts)
  /\ WF_vars(AdcHandler) /\ WF_vars(TxHandler) /\ WF_vars(TxcHandler)
  /\ WF_vars(Main)
-----------------------------------------------------------------------------
(* Properties.                                                              *)

TypeOK ==
  /\ DOMAIN frame = Buffers
  /\ build \in Buffers /\ scan \in 0 .. Scans - 1
  /\ ring \in [0 .. Cap - 1 -> Buffers]
  /\ head \in 0 .. Cap - 1 /\ count \in 0 .. Cap
  /\ pending \subseteq Flags
  /\ sequence \in Nat /\ counter \in Nat
  /\ active \in BOOLEAN /\ awaiting \in BOOLEAN /\ discard \in BOOLEAN
  /\ main \in {"poll", "crc", "select"} /\ chosen \in Buffers
  /\ isr \in {"off", "release"}
  /\ tick \in Nat /\ adc \in {"none", "good", "error", "overrun", "both"}
  /\ channel \in {"off", "busy", "draining"} /\ sent \in 0 .. Parts
  /\ txIrq \in {"none", "complete", "error"}
  /\ txc \in BOOLEAN /\ txcOn \in BOOLEAN /\ cs \in BOOLEAN

(* The interrupt never builds in a frame that waits for transmission or is  *)
(* being transmitted, and no frame waits twice: three buffers are enough    *)
(* for the ring of two and the frame under construction.                    *)
BuildIsPrivate ==
  /\ build \notin Queued
  /\ \A i, j \in 0 .. count - 1 : ReadyAt(i) = ReadyAt(j) => i = j

(* From the moment main has picked a frame until the transfer is over, that *)
(* frame is the head of the ring: the interrupt may append behind it but    *)
(* not remove it ("the ADC ISR may append a ready frame but cannot remove   *)
(* or modify the selected head").                                           *)
HeadIsSent ==
  main # "poll" \/ active => count # 0 /\ chosen = ReadyAt(0)

(* A whole frame on the wire: every part of it, the CRC computed over the   *)
(* very bytes that were sent, scans that follow one another in time.        *)
Whole(w) ==
  /\ Len(w) = Parts
  /\ w[Parts] = SubSeq(w, 1, Scans + 1)
  /\ \A i \in 2 .. Scans : w[i + 1][1] = w[i][1] + 1

(* A transfer the TXC interrupt ends was complete: select is not released   *)
(* over a byte still being shifted, and no interrupt wrote to the frame     *)
(* between its CRC and its last byte.                                       *)
WireIsWhole == isr = "release" => Whole(wire)

(* An error flag stays pending until a frame that carries it is queued; a   *)
(* frame that is dropped for want of room takes no flag with it.            *)
FlagsAreQueued ==
  [][\A e \in pending \ pending' :
       count' = count + 1 /\ e \in frame'[ReadyAt(count - 1)'].flags]_vars

(* Every queued frame leaves the ring: main is never left waiting for a     *)
(* transfer nobody ends, whatever fails on the way.                         *)
FramesLeave == \A b \in Buffers : b \in Queued ~> b \notin Queued

(* What the ring promises: FrameFifo.  A waiting frame is what the          *)
(* interrupt finalized, the CRC main adds left out.                         *)
Waiting ==
  [i \in 1 .. count |->
     [sequence |-> frame[ReadyAt(i - 1)].sequence,
      covered  |-> Covered(frame[ReadyAt(i - 1)])]]

Fifo == INSTANCE FrameFifo WITH Depth <- Cap, made <- sequence, queue <- Waiting
FifoSpec == Fifo!Spec
=============================================================================
