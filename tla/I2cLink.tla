-------------------------------- MODULE I2cLink --------------------------------
(***************************************************************************)
(* The I2C link of the older SAMD09 firmware.  The firmware's main loop    *)
(* turns each measurement window into a packet in one of two buffers; the  *)
(* SERCOM1 interrupt, which preempts it at any point, hands a packet out   *)
(* byte by byte and marks it as read at the end of the transfer.  The      *)
(* ESP32 polls, checks what it got, and counts sequence gaps.  Neither     *)
(* side locks anything.                                                    *)
(*                                                                         *)
(* A byte stands for a part of the packet.  The checksum is its content:   *)
(* a mixed packet is told from a whole one.                                *)
(***************************************************************************)
EXTENDS Integers, Sequences, Functions

CONSTANTS
  Modulus,       \* of the 8-bit sequence number
  MaxWindows,    \* bound: measurement windows
  MaxTransfers,  \* bound: transfers the ESP32 starts
  MaxFaults      \* bound: transfers that fail or are disturbed

ASSUME I2cLinkAssumption ==
  /\ Modulus \in Nat \ {0}
  /\ {MaxWindows, MaxTransfers, MaxFaults} \subseteq Nat

VARIABLES
  buffers,     \* SensorReadings
  active,      \* ActiveSensorReadingIndex; the other one is built in
  main,        \* where the main loop is in Check_and_sendESPpacket
  sum,         \* the checksum argument it holds
  built,       \* packets completed, DiagPacketsBuilt
  readIndex,   \* ESPReadBufferIndex
  byteIndex,   \* ESPbyteIndex
  temp,        \* is_unread as it was handed out
  transfer,    \* what is on the bus
  packet,      \* what the ESP32 has received of the transfer
  last, lastSequence, missing,    \* what the ESP32 submitted and counted
  polled,      \* windows while which a whole transfer met no one else
  troubled,    \* windows while which a transfer met something
  transfers, faults

samd == <<buffers, active, main, sum, built>>
slave == <<readIndex, byteIndex, temp>>
esp == <<packet, last, lastSequence, missing>>
vars == <<samd, slave, transfer, esp, polled, troubled, transfers, faults>>

Parts == {"powerMains", "powerMux", "rmsMains", "rmsMux"}

\* A packet in the order of its bytes.
Layout == <<"unread", "checksum", "sequence",
            "powerMains", "powerMux", "rmsMains", "rmsMux">>
Length == Len(Layout)   \* ESPpacketlength
Covered == {"unread", "sequence"} \union Parts

\* calculate_esp_checksum over a packet, for a value of is_unread
Checksum(p, unread) ==
  [c \in Covered |-> IF c = "unread" THEN unread ELSE p[c]]
Body(p) == [c \in Parts |-> p[c]]

\* SensorReadings are cleared at boot; as is_unread is 0 nobody looks at more.
Cleared ==
  LET zero == [c \in Covered |-> 0]
  IN  [c \in Range(Layout) |-> IF c = "checksum" THEN zero ELSE 0]

Build == 1 - active     \* BuildSensorReadingIndex
NotReceived == -1       \* last_metering_sequence_valid_ is false

-------------------------------------------------------------------------------
(* The firmware's main loop                                                *)

\* A transfer meets the main loop: noted for the window it happens in.
Overlap(windows) ==
  troubled' = IF transfer = "none" THEN troubled ELSE troubled \union windows

\* irq_handler_dmac completes a window and main finds packet_ready.  A window
\* lasts half a second, in which main is done with the one before.
WindowEnds ==
  /\ main = "idle" /\ built < MaxWindows
  /\ main' = "mains" /\ Overlap({built})
  /\ UNCHANGED <<buffers, active, sum, built, slave, transfer, esp, polled,
                 transfers, faults>>

Write(parts, value) ==
  buffers' = [buffers EXCEPT ![Build] =
                [c \in DOMAIN @ |-> IF c \in parts THEN value ELSE @[c]]]

\* One step of Check_and_sendESPpacket.
Step(from, to) ==
  /\ main = from /\ main' = to
  /\ UNCHANGED <<slave, transfer, esp, polled, transfers, faults>>

WriteMains ==
  /\ Step("mains", "mux")
  /\ Write({"powerMains", "rmsMains"}, built + 1)
  /\ UNCHANGED <<active, sum, built, troubled>>

WriteMux ==
  /\ Step("mux", "header")
  /\ Write({"powerMux", "rmsMux"}, built + 1)
  /\ UNCHANGED <<active, sum, built, troubled>>

\* The sequence number counts packets; the fixed byte before it is left out.
WriteSequence ==
  /\ Step("header", "unread")
  /\ Write({"sequence"}, (built + 1) % Modulus)
  /\ UNCHANGED <<active, sum, built, troubled>>

WriteUnread ==
  /\ Step("unread", "sum")
  /\ Write({"unread"}, 3)
  /\ UNCHANGED <<active, sum, built, troubled>>

\* is_unread is passed by value; the compiler may read it back or not.
ComputeChecksum ==
  /\ Step("sum", "checksum")
  /\ \E unread \in {3, buffers[Build].unread}:
       sum' = Checksum(buffers[Build], unread)
  /\ UNCHANGED <<buffers, active, built, troubled>>

WriteChecksum ==
  /\ Step("checksum", "publish")
  /\ Write({"checksum"}, sum)
  /\ UNCHANGED <<active, sum, built, troubled>>

Publish ==
  /\ Step("publish", "idle")
  /\ active' = Build /\ built' = built + 1
  /\ Overlap({built, built + 1})
  /\ UNCHANGED <<buffers, sum>>

-------------------------------------------------------------------------------
(* irq_handler_sercom1                                                     *)

\* The checksum and the published index are a few instructions apart, and two
\* interrupts at least a byte: one interrupt fits in between.  It matters when
\* it is a stop; a byte or the start of a transfer commutes with publishing.
Publishing == main = "publish"

\* Data ready in a read: the next byte, and what is_unread was at the first.
SendByte ==
  LET part == Layout[byteIndex + 1]
  IN  /\ transfer = "read" /\ byteIndex < Length /\ ~Publishing
      /\ packet' = [packet EXCEPT ![part] = buffers[readIndex][part]]
      /\ temp' = IF byteIndex = 0 THEN buffers[readIndex].unread ELSE temp
      /\ byteIndex' = byteIndex + 1
      /\ UNCHANGED <<samd, readIndex, transfer, last, lastSequence, missing,
                     polled, troubled, transfers, faults>>

MarkRead(p) ==
  [p EXCEPT !.unread = 0, !.checksum = Checksum(p, 0)]

\* Mutant: the next buffer is latched before the packet is marked.
StopLatchesFirst(sent) ==
  /\ buffers' = IF sent >= Length /\ temp # 0
                THEN [buffers EXCEPT ![active] = MarkRead(@)] ELSE buffers
  /\ byteIndex' = 0 /\ readIndex' = active

\* Stop after a read of sent bytes.
Stop(sent) ==
  /\ buffers' = IF sent >= Length /\ temp # 0
                THEN [buffers EXCEPT ![readIndex] = MarkRead(@)] ELSE buffers
  /\ byteIndex' = 0 /\ readIndex' = active

-------------------------------------------------------------------------------
(* The ESP32                                                               *)

Start(kind) ==
  /\ transfer = "none" /\ ~Publishing /\ transfer' = kind
  /\ transfers < MaxTransfers /\ transfers' = transfers + 1
  /\ troubled' = IF kind # "read" \/ main # "idle"
                 THEN troubled \union {built} ELSE troubled
Fault == faults < MaxFaults /\ faults' = faults + 1

\* refresh_metering_
StartRead ==
  /\ Start("read")
  /\ packet' = Cleared
  /\ UNCHANGED <<samd, slave, last, lastSequence, missing, polled, faults>>

\* Mutant: readings are taken without a look at the checksum.
AcceptableUnchecked(p) == p.unread # 0

\* read_i2c_metering_frame_
Acceptable(p) == p.unread # 0 /\ p.checksum = Checksum(p, p.unread)

\* The sequence gap in submit_metering_frame_; the subtraction is unsigned.
Gap(sequence) ==
  LET delta == (sequence - lastSequence) % Modulus
  IN  IF lastSequence # NotReceived /\ delta > 1 THEN delta - 1 ELSE 0

\* A whole transfer: the stop on the firmware's side, the checks on the other.
EndRead ==
  /\ transfer = "read" /\ byteIndex = Length /\ transfer' = "none"
  /\ Stop(byteIndex)
  /\ IF Acceptable(packet)
     THEN /\ last' = Body(packet) /\ lastSequence' = packet.sequence
          /\ missing' = missing + Gap(packet.sequence)
     ELSE UNCHANGED <<last, lastSequence, missing>>
  /\ polled' = polled \union {built}
  /\ UNCHANGED <<active, main, sum, built, temp, packet, troubled, transfers,
                 faults>>

\* The transfer breaks off after any byte, or all of it came and the driver
\* reports an error or a byte was garbled: the ESP32 takes nothing from it.
FailRead ==
  /\ transfer = "read" /\ transfer' = "none" /\ Fault
  /\ Stop(byteIndex)
  /\ troubled' = troubled \union {built}
  /\ UNCHANGED <<active, main, sum, built, temp, esp, polled, transfers>>

\* query_managed_i2c_diagnostic_: the command byte, a repeated start, and the
\* read of a snapshot.  It does not look at a packet, but its stop latches.
StartQuery ==
  /\ Start("query")
  /\ byteIndex' = 0
  /\ UNCHANGED <<samd, readIndex, temp, esp, polled, faults>>

\* The command byte arrives as another one: it is taken for the index of the
\* first byte to read, and the latest buffer is latched.
StartGarbledQuery ==
  /\ Start("garbled") /\ Fault
  /\ readIndex' = active
  /\ UNCHANGED <<samd, byteIndex, temp, esp, polled>>

\* Only a read with a garbled index may end past the packet's end.
EndQuery ==
  /\ transfer \in {"query", "garbled"} /\ transfer' = "none"
  /\ \/ transfer = "garbled" /\ Stop(Length)
     \/ UNCHANGED buffers /\ byteIndex' = 0 /\ readIndex' = active
  /\ troubled' = troubled \union {built}
  /\ UNCHANGED <<active, main, sum, built, temp, esp, polled, transfers, faults>>

-------------------------------------------------------------------------------
Init ==
  /\ buffers = [i \in 0 .. 1 |-> Cleared] /\ active = 0
  /\ main = "idle" /\ sum = Cleared.checksum /\ built = 0
  /\ readIndex = 0 /\ byteIndex = 0 /\ temp = 0
  /\ transfer = "none" /\ packet = Cleared
  /\ last = Body(Cleared) /\ lastSequence = NotReceived /\ missing = 0
  /\ polled = {} /\ troubled = {}
  /\ transfers = 0 /\ faults = 0

Main == \/ WindowEnds \/ WriteMains \/ WriteMux \/ WriteSequence
        \/ WriteUnread \/ ComputeChecksum \/ WriteChecksum \/ Publish
Transfer == \/ StartRead \/ SendByte \/ EndRead \/ FailRead
            \/ StartQuery \/ StartGarbledQuery \/ EndQuery
Next == Main \/ Transfer

Spec == Init /\ [][Next]_vars

-------------------------------------------------------------------------------
(* Properties                                                              *)

\* Whatever the interrupt and the main loop do to a packet at the same time,
\* the readings the ESP32 submits are whole, each newer than the one before,
\* and the skipped ones are counted: the link implements ReadingFeed.
Feed == INSTANCE ReadingFeed
FeedSpec == Feed!Spec

\* A reading that is lost has a cause.  Polled once in its own window and once
\* in the next, and with no transfer around it that met the main loop, failed
\* or was a diagnostic query, a reading is received.
Quiet(w) == {w - 1, w, w + 1} \intersect troubled = {}
LossHasCause ==
  [][last' # last =>
       \A w \in last.rmsMux + 1 .. last'.rmsMux - 1:
         {w, w + 1} \subseteq polled => ~Quiet(w)]_vars
===============================================================================
