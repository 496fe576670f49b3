---------------------------- MODULE SamdSpiProofs ----------------------------
(***************************************************************************)
(* The firmware's frame buffers, for every ring capacity, frame length and *)
(* bound: the interrupt never builds in a frame that waits or is being     *)
(* sent, the frame main chose stays the head of the ring until its         *)
(* transfer is over, what crosses the wire is whole, no error flag is lost *)
(* and the ring implements a queue; and the metering task at the other end *)
(* of the wire never puts scans in one window that do not follow one       *)
(* another. The invariant has parts: Control (who may be where while a     *)
(* transfer is active), Ring (what the indices point at), of the frames'   *)
(* content Scan, Seal and Send, and for the link what follows what.        *)
(***************************************************************************)
EXTENDS SpiLink, FiniteSetTheorems, SequenceTheorems, TLAPS

(* Main chooses a frame only while no transfer is active; a transfer whose  *)
(* DMA has completed cannot fail any more, so it is released exactly once.  *)
ControlInv ==
  /\ active => main = "poll"
  /\ awaiting => active /\ channel = "off" /\ txIrq = "none"
  /\ isr = "release" => active /\ awaiting
  /\ txIrq = "complete" => channel = "off"

RingOK ==
  /\ build \in Buffers /\ chosen \in Buffers
  /\ ring \in [0 .. Cap - 1 -> Buffers]
  /\ head \in 0 .. Cap - 1 /\ count \in 0 .. Cap

RingInv == RingOK /\ BuildIsPrivate /\ HeadIsSent

(* The firmware as it is configured, at whatever scan the hardware is: the  *)
(* start of the program, and of every later reset.                          *)
Started ==
  /\ frame = [b \in Buffers |-> EmptyFrame]
  /\ build = 0 /\ scan = 0
  /\ ring = [i \in 0 .. Cap - 1 |-> 0] /\ head = 0 /\ count = 0
  /\ pending = {} /\ sequence = 0 /\ counter = 0
  /\ active = FALSE /\ awaiting = FALSE /\ discard = TRUE
  /\ main = "poll" /\ chosen = 0 /\ isr = "off"
  /\ tick \in Nat /\ adc = "none"
  /\ channel = "off" /\ sent = 0 /\ txIrq = "none"
  /\ shift = <<>> /\ txc = FALSE /\ txcOn = FALSE
  /\ cs = FALSE /\ wire = <<>>

LEMMA InitIsStarted == Init => Started
  BY DEF Init, Started

-----------------------------------------------------------------------------
(* Control.                                                                 *)

LEMMA ControlInit == Started => ControlInv
  BY DEF Started, ControlInv

LEMMA ControlHardware == ControlInv /\ Hardware => ControlInv'
<1> SUFFICES ASSUME ControlInv, Hardware PROVE ControlInv'
  OBVIOUS
<1>1. CASE AdcScanEnds
  BY <1>1 DEF AdcScanEnds, ControlInv, mainVars, dmaVars
<1>2. CASE DmaBeat
  BY <1>2 DEF DmaBeat, ControlInv, mainVars, dmaVars
<1>3. CASE DmaFails
  BY <1>3 DEF DmaFails, ControlInv, mainVars, dmaVars
<1>4. CASE ChannelDrains
  BY <1>4 DEF ChannelDrains, ControlInv, mainVars, dmaVars
<1>5. CASE ByteShifts
  BY <1>5 DEF ByteShifts, ControlInv, mainVars, dmaVars
<1> QED BY <1>1, <1>2, <1>3, <1>4, <1>5 DEF Hardware

LEMMA ControlAdc == ControlInv /\ AdcHandler => ControlInv'
<1> SUFFICES ASSUME ControlInv, AdcHandler PROVE ControlInv'
  OBVIOUS
<1> UNCHANGED <<main, active, awaiting, isr, channel, txIrq>>
  BY DEF AdcHandler, RecoverAdc, DiscardScan, CaptureScan,
         FinalizeDropped, FinalizeQueued, mainVars, dmaVars
<1> QED BY DEF ControlInv

LEMMA ControlTx == ControlInv /\ (TxHandler \/ TxcHandler) => ControlInv'
<1> SUFFICES ASSUME ControlInv, TxHandler \/ TxcHandler PROVE ControlInv'
  OBVIOUS
<1>1. CASE TxUnexpected
  BY <1>1 DEF TxUnexpected, ControlInv, mainVars
<1>2. CASE TxComplete
  BY <1>2 DEF TxComplete, ControlInv, mainVars
<1>3. CASE TxFails
  BY <1>3 DEF TxFails, ReleaseFrame, ControlInv, mainVars
<1>4. CASE TxcInterrupt
  BY <1>4 DEF TxcInterrupt, ControlInv, mainVars, dmaVars
<1>5. CASE TxcRelease
  BY <1>5 DEF TxcRelease, ReleaseFrame, ControlInv, mainVars, dmaVars
<1> QED BY <1>1, <1>2, <1>3, <1>4, <1>5 DEF TxHandler, TxcHandler

LEMMA ControlMain == ControlInv /\ Main => ControlInv'
<1> SUFFICES ASSUME ControlInv, Main PROVE ControlInv'
  OBVIOUS
<1>1. CASE PickFrame
  BY <1>1 DEF PickFrame, ControlInv, dmaVars
<1>2. CASE ReadForCrc
  BY <1>2 DEF ReadForCrc, ControlInv, dmaVars
<1>3. CASE SelectReceiver
  BY <1>3 DEF SelectReceiver, ControlInv, dmaVars
<1>4. CASE StartTransfer
  BY <1>4 DEF StartTransfer, ControlInv
<1>5. CASE ChannelRefused
  BY <1>5 DEF ChannelRefused, ControlInv, dmaVars
<1> QED BY <1>1, <1>2, <1>3, <1>4, <1>5 DEF Main

LEMMA ControlStep == ControlInv /\ [Next]_vars => ControlInv'
<1>1. ControlInv /\ UNCHANGED vars => ControlInv'
  BY DEF ControlInv, vars, mainVars, dmaVars
<1> QED BY <1>1, ControlHardware, ControlAdc, ControlTx, ControlMain DEF Next

-----------------------------------------------------------------------------
(* Index arithmetic of a ring of Cap places.                                *)

LEMMA SlotRange ==
  ASSUME NEW h \in Nat PROVE h % Cap \in 0 .. Cap - 1
  BY SizesAssumption DEF SizesAssumption

LEMMA SlotValue ==
  ASSUME NEW h \in 0 .. Cap - 1, NEW i \in 0 .. Cap
  PROVE  (h + i) % Cap = IF h + i < Cap THEN h + i ELSE h + i - Cap
  BY SizesAssumption DEF SizesAssumption

LEMMA SlotInjective ==
  ASSUME NEW h \in 0 .. Cap - 1, NEW i \in 0 .. Cap - 1,
         NEW j \in 0 .. Cap - 1, (h + i) % Cap = (h + j) % Cap
  PROVE  i = j
<1> DEFINE a == (h + i) % Cap
           b == (h + j) % Cap
<1>1. i \in 0 .. Cap /\ j \in 0 .. Cap
  BY SizesAssumption DEF SizesAssumption
<1>2. a = IF h + i < Cap THEN h + i ELSE h + i - Cap
  BY <1>1, SlotValue, Zenon
<1>3. b = IF h + j < Cap THEN h + j ELSE h + j - Cap
  BY <1>1, SlotValue, Zenon
<1>4. a = b
  OBVIOUS
<1> HIDE DEF a, b
<1> QED BY <1>2, <1>3, <1>4, SizesAssumption DEF SizesAssumption

LEMMA SlotShift ==
  ASSUME NEW h \in 0 .. Cap - 1, NEW i \in 0 .. Cap - 2
  PROVE  (((h + 1) % Cap) + i) % Cap = (h + (i + 1)) % Cap
<1> DEFINE n == (h + 1) % Cap
           a == (n + i) % Cap
           b == (h + (i + 1)) % Cap
<1>1. i \in 0 .. Cap /\ i + 1 \in 0 .. Cap /\ 1 \in 0 .. Cap /\ h + 1 \in Nat
  BY SizesAssumption DEF SizesAssumption
<1>2. n = IF h + 1 < Cap THEN h + 1 ELSE h + 1 - Cap
  BY <1>1, SlotValue, Zenon
<1>3. n \in 0 .. Cap - 1
  BY <1>1, SlotRange, Zenon
<1>4. a = IF n + i < Cap THEN n + i ELSE n + i - Cap
  BY <1>1, <1>3, SlotValue, Zenon
<1>5. b = IF h + (i + 1) < Cap THEN h + (i + 1) ELSE h + (i + 1) - Cap
  BY <1>1, SlotValue, Zenon
<1>6. a = b
  <2> HIDE DEF n, a, b
  <2> QED BY <1>2, <1>3, <1>4, <1>5, SizesAssumption DEF SizesAssumption
<1> QED BY <1>6

(* At most Cap frames wait, so one of Cap + 1 buffers is free.              *)
LEMMA SomeBufferFree ==
  ASSUME NEW n \in 0 .. Cap, NEW g
  PROVE  ~(Buffers \subseteq {g[i] : i \in 0 .. n - 1})
<1> SUFFICES ASSUME Buffers \subseteq {g[i] : i \in 0 .. n - 1} PROVE FALSE
  OBVIOUS
<1> DEFINE Places == 0 .. n - 1
           f == [b \in Buffers |-> CHOOSE i \in Places : g[i] = b]
<1>1. \A b \in Buffers : f[b] \in Places /\ g[f[b]] = b
  OBVIOUS
<1>2. IsFiniteSet(Buffers) /\ Cardinality(Buffers) = Cap + 1
  BY FS_Interval, SizesAssumption DEF Buffers, SizesAssumption
<1>3. IsFiniteSet(Places) /\ Cardinality(Places) = n
  BY FS_Interval, SizesAssumption DEF SizesAssumption
<1>4. Cardinality(Places) < Cardinality(Buffers)
  BY <1>2, <1>3, SizesAssumption DEF SizesAssumption
<1>5. f \in [Buffers -> Places]
  BY <1>1
<1>6. \E x, y \in Buffers : x # y /\ f[x] = f[y]
  <2> HIDE DEF f, Places
  <2> QED BY <1>2, <1>3, <1>4, <1>5, FS_PigeonHole, Zenon
<1> QED BY <1>1, <1>6

-----------------------------------------------------------------------------
(* Ring.                                                                    *)

LEMMA RingInit == Started => RingInv
  BY SizesAssumption
  DEF SizesAssumption, Started, RingInv, RingOK, BuildIsPrivate, HeadIsSent,
      Queued, ReadyAt, Buffers

(* A step that leaves the indices alone need only keep main and the         *)
(* transfer at the head of the ring.                                        *)
LEMMA RingKept ==
  ASSUME RingInv, UNCHANGED <<build, ring, head, count>>,
         chosen' \in Buffers,
         main' # "poll" \/ active' => count # 0 /\ chosen' = ReadyAt(0)
  PROVE  RingInv'
<1>1. Queued' = Queued /\ \A i : ReadyAt(i)' = ReadyAt(i)
  BY DEF Queued, ReadyAt
<1> QED BY <1>1 DEF RingInv, RingOK, BuildIsPrivate, HeadIsSent

(* A frame is appended behind the frames that wait, which keep their places. *)
LEMMA Appended ==
  ASSUME RingInv, FinalizeQueued, NEW i \in 0 .. count
  PROVE  ReadyAt(i)' = IF i = count THEN build ELSE ReadyAt(i)
<1> USE SizesAssumption DEF SizesAssumption
<1>1. /\ head' = head /\ count \in 0 .. Cap - 1
      /\ ring' = [ring EXCEPT ![(head + count) % Cap] = build]
      /\ head \in 0 .. Cap - 1 /\ i \in 0 .. Cap - 1
      /\ ring \in [0 .. Cap - 1 -> Buffers]
  BY DEF FinalizeQueued, RingInv, RingOK
<1>2. \A j \in 0 .. Cap - 1 : (head + j) % Cap \in 0 .. Cap - 1
  <2>1. \A j \in 0 .. Cap - 1 : head + j \in Nat
    BY <1>1
  <2> QED BY <2>1, SlotRange, Zenon
<1>3. CASE i = count
  <2>1. ring'[(head + count) % Cap] = build
    BY <1>1, <1>2, Zenon
  <2> QED BY <1>1, <1>3, <2>1, Zenon DEF ReadyAt
<1>4. CASE i # count
  <2>1. (head + i) % Cap # (head + count) % Cap
    BY <1>1, <1>4, SlotInjective
  <2> QED BY <1>1, <1>2, <1>4, <2>1 DEF ReadyAt
<1> QED BY <1>3, <1>4

(* The head leaves and every other frame moves up one place.                *)
LEMMA Released ==
  ASSUME RingInv, NEW F, ReleaseFrame(F), NEW i \in 0 .. count - 2
  PROVE  ReadyAt(i)' = ReadyAt(i + 1)
<1> USE SizesAssumption DEF SizesAssumption
<1>1. /\ head' = (head + 1) % Cap /\ ring' = ring
      /\ head \in 0 .. Cap - 1 /\ i \in 0 .. Cap - 2
  BY DEF ReleaseFrame, RingInv, RingOK
<1>2. (head' + i) % Cap = (head + (i + 1)) % Cap
  BY <1>1, SlotShift
<1> QED BY <1>1, <1>2 DEF ReadyAt

LEMMA RingAppend ==
  ASSUME RingInv, FinalizeQueued PROVE RingInv'
<1> USE SizesAssumption DEF SizesAssumption
<1>1. /\ head' = head /\ count' = count + 1
      /\ count \in 0 .. Cap - 1 /\ count' \in 0 .. Cap
      /\ ring' = [ring EXCEPT ![(head + count) % Cap] = build]
      /\ head \in 0 .. Cap - 1 /\ build \in Buffers
      /\ ring \in [0 .. Cap - 1 -> Buffers]
  BY DEF FinalizeQueued, RingInv, RingOK
<1>2. (head + count) % Cap \in 0 .. Cap - 1
  <2>1. head + count \in Nat
    BY <1>1
  <2> QED BY <2>1, SlotRange, Zenon
<1>3. ring' \in [0 .. Cap - 1 -> Buffers]
  BY <1>1, <1>2
<1>4. ASSUME NEW i \in Nat, i = count PROVE ReadyAt(i)' = build
  BY <1>1, <1>4, Appended
<1>5. ASSUME NEW i \in 0 .. count - 1 PROVE ReadyAt(i)' = ReadyAt(i)
  BY <1>1, Appended
<1>6. build' \in Buffers \ Queued'
  <2> DEFINE g == [i \in 0 .. count' - 1 |-> ReadyAt(i)']
  <2>1. Queued' = {g[i] : i \in 0 .. count' - 1}
    BY DEF Queued
  <2>2. ~(Buffers \subseteq Queued')
    <3> HIDE DEF g
    <3> QED BY <1>1, <2>1, SomeBufferFree
  <2> QED BY <2>2 DEF FinalizeQueued, FreeAfter
<1>7. BuildIsPrivate'
  <2> SUFFICES ASSUME NEW i \in 0 .. count' - 1, NEW j \in 0 .. count' - 1,
                      ReadyAt(i)' = ReadyAt(j)'
               PROVE  i = j
    BY <1>6 DEF BuildIsPrivate
  <2>1. ASSUME NEW k \in 0 .. count - 1 PROVE ReadyAt(k)' # build
    BY <1>5, <2>1 DEF RingInv, BuildIsPrivate, Queued
  <2>2. /\ i = count \/ i \in 0 .. count - 1
        /\ j = count \/ j \in 0 .. count - 1
    BY <1>1
  <2>3. CASE i = count /\ j \in 0 .. count - 1
    BY <1>1, <1>4, <1>5, <2>1, <2>3
  <2>4. CASE j = count /\ i \in 0 .. count - 1
    BY <1>1, <1>4, <1>5, <2>1, <2>4
  <2>5. CASE i \in 0 .. count - 1 /\ j \in 0 .. count - 1
    BY <1>5, <2>5 DEF RingInv, BuildIsPrivate
  <2> QED BY <2>2, <2>3, <2>4, <2>5
<1>8. HeadIsSent'
  <2> SUFFICES ASSUME main' # "poll" \/ active'
               PROVE  count' # 0 /\ chosen' = ReadyAt(0)'
    BY DEF HeadIsSent
  <2>1. main' = main /\ active' = active /\ chosen' = chosen
    BY DEF FinalizeQueued, mainVars
  <2>2. count # 0 /\ chosen = ReadyAt(0)
    BY <2>1 DEF RingInv, HeadIsSent
  <2>3. 0 \in 0 .. count - 1
    BY <2>2, <1>1
  <2> QED BY <1>1, <1>5, <2>1, <2>2, <2>3
<1> QED BY <1>1, <1>3, <1>6, <1>7, <1>8
        DEF RingInv, RingOK, FinalizeQueued, mainVars

LEMMA RingRelease ==
  ASSUME RingInv, NEW F, ReleaseFrame(F), main' = "poll",
         UNCHANGED <<build, chosen>>
  PROVE  RingInv'
<1> USE SizesAssumption DEF SizesAssumption
<1>1. CASE count = 0
  BY <1>1, RingKept DEF ReleaseFrame, RingInv, RingOK
<1>2. CASE count # 0
  <2>1. /\ head' = (head + 1) % Cap /\ count' = count - 1 /\ ring' = ring
        /\ head \in 0 .. Cap - 1 /\ count \in 1 .. Cap
    BY <1>2 DEF ReleaseFrame, RingInv, RingOK
  <2>2. head' \in 0 .. Cap - 1 /\ count' \in 0 .. Cap
    <3>1. head + 1 \in Nat
      BY <2>1
    <3> QED BY <2>1, <3>1, SlotRange
  <2>3. ASSUME NEW i \in 0 .. count' - 1 PROVE ReadyAt(i)' = ReadyAt(i + 1)
    <3>1. i \in 0 .. count - 2
      BY <2>1
    <3> QED BY <3>1, Released
  <2>4. \A i \in 0 .. count' - 1 : i + 1 \in 0 .. count - 1
    BY <2>1
  <2>5. BuildIsPrivate'
    <3>1. Queued' \subseteq Queued
      BY <2>3, <2>4 DEF Queued
    <3>2. \A i, j \in 0 .. count' - 1 : ReadyAt(i)' = ReadyAt(j)' => i = j
      <4> SUFFICES ASSUME NEW i \in 0 .. count' - 1, NEW j \in 0 .. count' - 1,
                          ReadyAt(i)' = ReadyAt(j)'
                   PROVE  i = j
        OBVIOUS
      <4>1. ReadyAt(i + 1) = ReadyAt(j + 1)
        BY <2>3
      <4>2. i + 1 = j + 1
        BY <2>4, <4>1 DEF RingInv, BuildIsPrivate
      <4> QED BY <4>2, <2>1
    <3> QED BY <3>1, <3>2 DEF RingInv, BuildIsPrivate
  <2>6. HeadIsSent'
    BY DEF HeadIsSent, ReleaseFrame
  <2> QED BY <2>1, <2>2, <2>5, <2>6 DEF RingInv, RingOK
<1> QED BY <1>1, <1>2

-----------------------------------------------------------------------------
(* Every step keeps the ring.                                               *)

LEMMA RingHardware == RingInv /\ Hardware => RingInv'
<1> SUFFICES ASSUME RingInv, Hardware PROVE RingInv'
  OBVIOUS
<1>1. UNCHANGED <<build, ring, head, count, chosen, main, active>>
  BY DEF Hardware, AdcScanEnds, DmaBeat, DmaFails, ChannelDrains, ByteShifts,
         buildVars, ringVars, mainVars
<1> QED BY <1>1, RingKept DEF RingInv, RingOK, HeadIsSent

LEMMA RingAdc == RingInv /\ AdcHandler => RingInv'
<1> SUFFICES ASSUME RingInv, AdcHandler PROVE RingInv'
  OBVIOUS
<1>1. CASE FinalizeQueued
  BY <1>1, RingAppend
<1>2. CASE RecoverAdc \/ DiscardScan \/ CaptureScan \/ FinalizeDropped
  <2>1. UNCHANGED <<build, ring, head, count, chosen, main, active>>
    BY <1>2 DEF RecoverAdc, DiscardScan, CaptureScan, FinalizeDropped,
                ringVars, mainVars
  <2> QED BY <2>1, RingKept DEF RingInv, RingOK, HeadIsSent
<1> QED BY <1>1, <1>2 DEF AdcHandler

LEMMA RingTx ==
  ControlInv /\ RingInv /\ (TxHandler \/ TxcHandler) => RingInv'
<1> SUFFICES ASSUME ControlInv, RingInv, TxHandler \/ TxcHandler PROVE RingInv'
  OBVIOUS
<1>1. CASE TxUnexpected \/ TxComplete \/ TxcInterrupt
  <2>1. UNCHANGED <<build, ring, head, count, chosen, main, active>>
    BY <1>1 DEF TxUnexpected, TxComplete, TxcInterrupt, buildVars, ringVars,
                mainVars
  <2> QED BY <2>1, RingKept DEF RingInv, RingOK, HeadIsSent
<1>2. CASE TxFails
  <2>1. main' = "poll" /\ UNCHANGED <<build, chosen>>
    BY <1>2 DEF TxFails, ControlInv, buildVars, mainVars
  <2> QED BY <1>2, <2>1, RingRelease DEF TxFails
<1>3. CASE TxcRelease
  <2>1. main' = "poll" /\ UNCHANGED <<build, chosen>>
    BY <1>3 DEF TxcRelease, ControlInv, buildVars, mainVars
  <2> QED BY <1>3, <2>1, RingRelease DEF TxcRelease
<1> QED BY <1>1, <1>2, <1>3 DEF TxHandler, TxcHandler

LEMMA RingMain == ControlInv /\ RingInv /\ Main => RingInv'
<1> SUFFICES ASSUME ControlInv, RingInv, Main PROVE RingInv'
  OBVIOUS
<1>1. CASE PickFrame
  <2>1. ReadyAt(0) \in Buffers
    <3>1. head + 0 \in Nat
      BY DEF RingInv, RingOK
    <3>2. (head + 0) % Cap \in 0 .. Cap - 1
      BY <3>1, SlotRange
    <3> QED BY <3>2 DEF RingInv, RingOK, ReadyAt
  <2> QED BY <1>1, <2>1, RingKept DEF PickFrame, buildVars, ringVars
<1>2. CASE ReadForCrc \/ SelectReceiver \/ StartTransfer
  <2>1. /\ UNCHANGED <<build, ring, head, count, chosen>>
        /\ main # "poll"
    BY <1>2 DEF ReadForCrc, SelectReceiver, StartTransfer, buildVars, ringVars
  <2> QED BY <2>1, RingKept DEF RingInv, RingOK, HeadIsSent
<1>3. CASE ChannelRefused
  <2>1. UNCHANGED <<build, ring, head, count, chosen>> /\ main # "poll"
    BY <1>3 DEF ChannelRefused, buildVars, ringVars
  <2> QED BY <2>1, RingKept DEF RingInv, RingOK, HeadIsSent
<1> QED BY <1>1, <1>2, <1>3 DEF Main

LEMMA RingStep == ControlInv /\ RingInv /\ [Next]_vars => RingInv'
<1>1. RingInv /\ UNCHANGED vars => RingInv'
  BY RingKept
  DEF vars, buildVars, ringVars, mainVars, RingInv, RingOK, HeadIsSent
<1> QED BY <1>1, RingHardware, RingAdc, RingTx, RingMain DEF Next

-----------------------------------------------------------------------------
LEMMA InductiveInvariant == Spec => [](ControlInv /\ RingInv)
<1>1. Init => ControlInv /\ RingInv
  BY InitIsStarted, ControlInit, RingInit
<1>2. ControlInv /\ RingInv /\ [Next]_vars => (ControlInv /\ RingInv)'
  BY ControlStep, RingStep
<1> QED BY <1>1, <1>2, PTL DEF Spec

-----------------------------------------------------------------------------
(* Types: the indices are RingOK, the rest is split by the provers' needs.  *)

Switches ==
  /\ active \in BOOLEAN /\ awaiting \in BOOLEAN /\ discard \in BOOLEAN
  /\ txc \in BOOLEAN /\ txcOn \in BOOLEAN /\ cs \in BOOLEAN

Counters ==
  /\ DOMAIN frame = Buffers
  /\ scan \in 0 .. Scans - 1 /\ sequence \in Nat /\ counter \in Nat
  /\ tick \in Nat /\ sent \in 0 .. Parts

Places ==
  /\ pending \subseteq Flags
  /\ main \in {"poll", "crc", "select"} /\ isr \in {"off", "release"}
  /\ adc \in {"none", "good", "error", "overrun", "both"}
  /\ channel \in {"off", "busy", "draining"}
  /\ txIrq \in {"none", "complete", "error"}

LEMMA TypeInit == Started => Switches /\ Counters /\ Places
<1> SUFFICES ASSUME Started PROVE Switches /\ Counters /\ Places
  OBVIOUS
<1>1. Switches
  BY Zenon DEF Started, Switches
<1>2. Counters
  BY SizesAssumption DEF SizesAssumption, Started, Counters, Parts
<1>3. Places
  BY DEF Started, Places
<1> QED BY <1>1, <1>2, <1>3

LEMMA SwitchesStep == Switches /\ [Next]_vars => Switches'
<1> SUFFICES ASSUME Switches, [Next]_vars PROVE Switches'
  OBVIOUS
<1>1. CASE Hardware
  BY <1>1, Zenon DEF Switches, Hardware, AdcScanEnds, DmaBeat, DmaFails,
     ChannelDrains, ByteShifts, buildVars, serialVars, wireVars
<1>2. CASE AdcHandler
  BY <1>2, Zenon
  DEF Switches, AdcHandler, RecoverAdc, DiscardScan, CaptureScan,
     FinalizeDropped, FinalizeQueued, serialVars, wireVars
<1>3. CASE TxHandler
  BY <1>3, Zenon DEF Switches, TxHandler, TxUnexpected, TxComplete, TxFails,
     ReleaseFrame, buildVars, serialVars, wireVars
<1>4. CASE TxcHandler
  BY <1>4, Zenon DEF Switches, TxcHandler, TxcInterrupt, TxcRelease,
     ReleaseFrame, buildVars, serialVars, wireVars
<1>5. CASE Main
  BY <1>5, Zenon DEF Switches, Main, PickFrame, ReadForCrc, SelectReceiver,
     StartTransfer, ChannelRefused, buildVars, serialVars, wireVars
<1>6. CASE UNCHANGED vars
  BY <1>6, Zenon DEF Switches, vars, buildVars, serialVars, wireVars
<1> QED BY <1>1, <1>2, <1>3, <1>4, <1>5, <1>6 DEF Next

LEMMA CountersStep == Counters /\ [Next]_vars => Counters'
<1> SUFFICES ASSUME Counters, [Next]_vars PROVE Counters'
  OBVIOUS
<1> USE SizesAssumption DEF SizesAssumption, Counters, Parts
<1>1. CASE Hardware
  BY <1>1 DEF Hardware, AdcScanEnds, DmaBeat, DmaFails, ChannelDrains,
     ByteShifts, buildVars, adcVars, dmaVars
<1>2. CASE AdcHandler
  <2>1. \A b, v : DOMAIN [frame EXCEPT ![b] = v] = DOMAIN frame
    OBVIOUS
  <2>2. DOMAIN frame' = Buffers
    BY <1>2, <2>1, Zenon
    DEF AdcHandler, RecoverAdc, DiscardScan, CaptureScan,
       FinalizeDropped, FinalizeQueued
  <2>3. scan' \in 0 .. Scans - 1 /\ sequence' \in Nat /\ counter' \in Nat
    BY <1>2 DEF AdcHandler, RecoverAdc, DiscardScan, CaptureScan,
       FinalizeDropped, FinalizeQueued
  <2>4. tick' = tick /\ sent' = sent
    BY <1>2, Zenon DEF AdcHandler, RecoverAdc, DiscardScan, CaptureScan,
       FinalizeDropped, FinalizeQueued, dmaVars
  <2> QED BY <2>2, <2>3, <2>4
<1>3. CASE TxHandler \/ TxcHandler
  BY <1>3 DEF TxHandler, TxUnexpected, TxComplete, TxFails, TxcHandler,
     TxcInterrupt, TxcRelease, buildVars, adcVars, dmaVars
<1>4. CASE Main
  <2>1. DOMAIN frame' = Buffers
    BY <1>4, Zenon DEF Main, PickFrame, ReadForCrc, SelectReceiver,
       StartTransfer, ChannelRefused, buildVars
  <2> QED BY <1>4, <2>1 DEF Main, PickFrame, ReadForCrc, SelectReceiver,
       StartTransfer, ChannelRefused, buildVars, adcVars, dmaVars
<1>5. CASE UNCHANGED vars
  BY <1>5 DEF vars, buildVars, adcVars, dmaVars
<1> QED BY <1>1, <1>2, <1>3, <1>4, <1>5 DEF Next

LEMMA PlacesStep == Places /\ [Next]_vars => Places'
<1> SUFFICES ASSUME Places, [Next]_vars PROVE Places'
  OBVIOUS
<1> USE DEF Places, Flags
<1>1. CASE Hardware
  <2>1. CASE AdcScanEnds
    BY <2>1 DEF AdcScanEnds, mainVars, dmaVars
  <2>2. CASE DmaBeat
    BY <2>2 DEF DmaBeat, mainVars, adcVars
  <2>3. CASE DmaFails \/ ChannelDrains \/ ByteShifts
    BY <2>3 DEF DmaFails, ChannelDrains, ByteShifts, mainVars, adcVars, dmaVars
  <2> QED BY <1>1, <2>1, <2>2, <2>3 DEF Hardware
<1>2. CASE AdcHandler
  <2>1. CASE RecoverAdc
    <3>1. Reported \subseteq Flags
      BY DEF Reported
    <3> QED BY <2>1, <3>1 DEF RecoverAdc, mainVars, dmaVars
  <2>2. CASE DiscardScan \/ CaptureScan
    BY <2>2 DEF DiscardScan, CaptureScan, mainVars, dmaVars
  <2>3. CASE FinalizeDropped \/ FinalizeQueued
    BY <2>3 DEF FinalizeDropped, FinalizeQueued, mainVars, dmaVars
  <2> QED BY <1>2, <2>1, <2>2, <2>3 DEF AdcHandler
<1>3. CASE TxHandler
  BY <1>3 DEF TxHandler, TxUnexpected, TxComplete, TxFails, ReleaseFrame,
     mainVars, adcVars
<1>4. CASE TxcHandler
  BY <1>4 DEF TxcHandler, TxcInterrupt, TxcRelease, ReleaseFrame, mainVars,
     adcVars, dmaVars
<1>5. CASE Main
  BY <1>5 DEF Main, PickFrame, ReadForCrc, SelectReceiver, StartTransfer,
     ChannelRefused, adcVars, dmaVars
<1>6. CASE UNCHANGED vars
  BY <1>6 DEF vars, mainVars, adcVars, dmaVars
<1> QED BY <1>1, <1>2, <1>3, <1>4, <1>5, <1>6 DEF Next

-----------------------------------------------------------------------------
(* Every variable keeps to its type; the ring never holds more frames than  *)
(* it has places and every index names a buffer.                            *)
THEOREM TypeCorrect == Spec => []TypeOK
<1>1. Switches /\ Counters /\ Places /\ [Next]_vars
        => (Switches /\ Counters /\ Places)'
  BY SwitchesStep, CountersStep, PlacesStep
<1>2. RingInv /\ Switches /\ Counters /\ Places => TypeOK
  BY Zenon DEF RingInv, RingOK, Switches, Counters, Places, TypeOK
<1> QED BY <1>1, <1>2, InitIsStarted, TypeInit, InductiveInvariant, PTL
        DEF Spec

(* finalize_spi_frame and spi_find_free_build_frame: the frame under        *)
(* construction is never one that waits for or is in transmission, with     *)
(* one more buffer than the ring has places.                                *)
THEOREM FramesArePrivate == Spec => []BuildIsPrivate
<1>1. RingInv => BuildIsPrivate
  BY DEF RingInv
<1> QED BY <1>1, InductiveInvariant, PTL

(* start_spi_dma_if_ready works on the head of the ring with interrupts     *)
(* enabled, and the DMA reads it long after: it stays the head.             *)
THEOREM HeadIsStable == Spec => []HeadIsSent
<1>1. RingInv => HeadIsSent
  BY DEF RingInv
<1> QED BY <1>1, InductiveInvariant, PTL
-----------------------------------------------------------------------------
(* What is sent.  From the scans of a frame to the bytes on the wire there  *)
(* are three invariants: the scans of a frame follow one another (ScanInv), *)
(* a frame that is sent has the CRC of its content (SealInv), and what has  *)
(* crossed the wire is the frame's beginning (SendInv).                     *)

FrameShape(f) ==
  /\ DOMAIN f = {"sequence", "flags", "counter", "scans", "crc32"}
  /\ f.scans \in [1 .. Scans -> Nat]

(* The first n scans follow one another in time.                            *)
Steady(s, n) == \A i \in 1 .. n - 1 : s[i + 1] = s[i] + 1

(* The last scan the interrupt has seen.                                    *)
Handled == IF adc = "none" THEN tick ELSE tick - 1

(* Frames that wait are complete; the one under construction is steady up  *)
(* to the next scan, and that follows the last one, as a recovery or a      *)
(* discarded scan starts the frame over.                                    *)
ScanInv ==
  /\ \A b \in Buffers : FrameShape(frame[b])
  /\ \A b \in Queued : Steady(frame[b].scans, Scans)
  /\ Steady(frame[build].scans, scan)
  /\ scan > 0 => frame[build].scans[scan] = Handled
  /\ discard => scan = 0

(* What the CRC covers of the first n parts.                                *)
CoveredTo(f, n) == [i \in 1 .. n |-> Covered(f)[i]]

(* Main reads a frame that no interrupt writes to, so the bytes the CRC has *)
(* covered so far are the ones the frame still holds when it is sent.       *)
SealInv ==
  /\ main = "crc" =>
       \E n \in 0 .. Scans + 1 : crc = CoveredTo(frame[chosen], n)
  /\ main = "select" \/ active =>
       frame[chosen].crc32 = Covered(frame[chosen])

(* The first n parts on the wire.                                           *)
Sent(f, n) == [i \in 1 .. n |-> Part(f, i)]

(* Of the parts the DMA has read, all but the one in the shift register     *)
(* have left.                                                               *)
OnTheWire(f) ==
  IF shift = <<>> THEN wire = Sent(f, sent)
  ELSE /\ sent > 0
       /\ wire = Sent(f, sent - 1)
       /\ shift = <<Part(f, sent)>>

(* Between two transfers nothing is shifted; during one, select is asserted *)
(* until the TXC interrupt, which comes when the last part has left.        *)
SendInv ==
  /\ ~active => shift = <<>>
  /\ channel = "busy" => active
  /\ txIrq # "none" => channel # "busy"
  /\ txIrq = "complete" => active /\ sent = Parts
  /\ awaiting => sent = Parts
  /\ txc \/ isr = "release" => shift = <<>>
  /\ main = "select" \/ (active /\ isr = "off") => cs
  /\ main = "select" => wire = <<>>
  /\ active => OnTheWire(frame[chosen])

-----------------------------------------------------------------------------
LEMMA ScansPositive == Scans \in Nat /\ Scans > 0 /\ Cap \in Nat /\ Cap > 0
  BY SizesAssumption DEF SizesAssumption

(* The EXCEPTs of the interrupt and of main keep the shape of a frame.      *)
LEMMA CapturedFacts ==
  ASSUME FrameShape(frame[build]), scan \in 0 .. Scans - 1, tick \in Nat
  PROVE  /\ FrameShape(Captured)
         /\ Captured.scans = [frame[build].scans EXCEPT ![scan + 1] = tick]
         /\ Captured.counter = IF scan = 0 THEN counter ELSE frame[build].counter
<1> DEFINE c == IF scan = 0 THEN counter ELSE frame[build].counter
           s == [frame[build].scans EXCEPT ![scan + 1] = tick]
<1>1. Captured = [frame[build] EXCEPT !.scans = s, !.counter = c]
  BY DEF Captured, FrameShape
<1>2. s \in [1 .. Scans -> Nat]
  BY ScansPositive DEF FrameShape
<1> HIDE DEF c, s
<1>3. FrameShape(Captured) /\ Captured.scans = s /\ Captured.counter = c
  BY <1>1, <1>2 DEF FrameShape
<1> QED BY <1>3 DEF s, c

LEMMA FinalizedFacts ==
  ASSUME FrameShape(frame[build]), scan \in 0 .. Scans - 1, tick \in Nat
  PROVE  /\ FrameShape(Finalized)
         /\ Finalized.scans = [frame[build].scans EXCEPT ![scan + 1] = tick]
         /\ Finalized.counter = IF scan = 0 THEN counter ELSE frame[build].counter
         /\ Finalized.flags = pending
         /\ Finalized.sequence = sequence
<1>1. FrameShape(Captured)
  BY CapturedFacts
<1>2. /\ Captured.scans = [frame[build].scans EXCEPT ![scan + 1] = tick]
      /\ Captured.counter = IF scan = 0 THEN counter ELSE frame[build].counter
  BY CapturedFacts
<1> QED BY <1>1, <1>2 DEF FrameShape, Finalized

(* A scan sampled one after the last one captured goes on with the frame.   *)
LEMMA SteadyExtends ==
  ASSUME NEW s \in [1 .. Scans -> Nat], scan \in 0 .. Scans - 1,
         Steady(s, scan), scan > 0 => s[scan] = tick - 1, tick \in Nat
  PROVE  LET t == [s EXCEPT ![scan + 1] = tick]
         IN  Steady(t, scan + 1) /\ t[scan + 1] = tick
  BY ScansPositive DEF Steady

LEMMA CrcOfSealed ==
  ASSUME NEW f, FrameShape(f), NEW c, NEW g, g = [f EXCEPT !.crc32 = c]
  PROVE  /\ FrameShape(g)
         /\ g.crc32 = c
         /\ g.scans = f.scans /\ g.sequence = f.sequence
         /\ g.counter = f.counter /\ g.flags = f.flags
         /\ Covered(g) = Covered(f)
  BY DEF FrameShape, Covered, Header

-----------------------------------------------------------------------------
(* Where the ring and the frames meet.                                      *)

LEMMA HeadIsQueued ==
  ASSUME RingInv, main # "poll" \/ active
  PROVE  /\ chosen \in Queued /\ chosen \in Buffers /\ chosen # build
         /\ count # 0 /\ chosen = ReadyAt(0)
<1>1. count # 0 /\ chosen = ReadyAt(0) /\ count \in 0 .. Cap /\ chosen \in Buffers
  BY DEF RingInv, HeadIsSent, RingOK
<1>2. 0 \in 0 .. count - 1
  BY <1>1, ScansPositive
<1> QED BY <1>1, <1>2 DEF RingInv, BuildIsPrivate, Queued

LEMMA QueuedBuffers == RingInv => Queued \subseteq Buffers
<1> SUFFICES ASSUME RingInv, NEW i \in 0 .. count - 1 PROVE ReadyAt(i) \in Buffers
  BY DEF Queued
<1>1. head + i \in Nat
  BY ScansPositive DEF RingInv, RingOK
<1> QED BY <1>1, SlotRange DEF ReadyAt, RingInv, RingOK

LEMMA QueuedAfterAppend ==
  ASSUME RingInv, FinalizeQueued PROVE Queued' = Queued \cup {build}
<1>1. count' = count + 1 /\ count \in 0 .. Cap
  BY DEF FinalizeQueued, RingInv, RingOK
<1>2. \A i \in 0 .. count : ReadyAt(i)' = IF i = count THEN build ELSE ReadyAt(i)
  BY Appended
<1>3. 0 .. count' - 1 = (0 .. count - 1) \cup {count} /\ 0 .. count' - 1 = 0 .. count
  BY <1>1, ScansPositive
<1>4. Queued' = {ReadyAt(i)' : i \in 0 .. count' - 1}
  BY DEF Queued
<1>5. count \notin 0 .. count - 1
  BY <1>1, ScansPositive
<1> QED BY <1>2, <1>3, <1>4, <1>5 DEF Queued

LEMMA QueuedAfterRelease ==
  ASSUME RingInv, NEW F, ReleaseFrame(F) PROVE Queued' \subseteq Queued
<1>1. CASE count = 0
  BY <1>1 DEF ReleaseFrame, Queued, ReadyAt
<1>2. CASE count # 0
  <2> SUFFICES ASSUME NEW i \in 0 .. count' - 1 PROVE ReadyAt(i)' \in Queued
    BY DEF Queued
  <2>1. i \in 0 .. count - 2 /\ i + 1 \in 0 .. count - 1
    BY <1>2, ScansPositive DEF ReleaseFrame, RingInv, RingOK
  <2> QED BY <2>1, Released DEF Queued
<1> QED BY <1>1, <1>2

-----------------------------------------------------------------------------
(* The scans of a frame follow one another.                                 *)

LEMMA ScanInit == Started => ScanInv
<1> SUFFICES ASSUME Started PROVE ScanInv
  OBVIOUS
<1>1. Queued = {}
  BY DEF Started, Queued
<1>2. FrameShape(EmptyFrame)
  BY DEF EmptyFrame, FrameShape
<1>3. Steady(frame[build].scans, scan)
  BY DEF Started, Steady
<1> QED BY <1>1, <1>2, <1>3 DEF Started, ScanInv

LEMMA ScanKept ==
  ASSUME ScanInv, Queued' \subseteq Queued,
         UNCHANGED <<frame, build, scan, discard>>,
         scan > 0 => Handled' = Handled
  PROVE  ScanInv'
  BY DEF ScanInv

LEMMA ScanAdc ==
  ASSUME RingInv, Counters, ScanInv, AdcHandler PROVE ScanInv'
<1>1. /\ build \in Buffers /\ DOMAIN frame = Buffers /\ tick \in Nat
      /\ scan \in 0 .. Scans - 1 /\ tick' = tick /\ adc' = "none"
      /\ \A b \in Buffers : FrameShape(frame[b])
      /\ FrameShape(frame[build]) /\ frame[build].scans \in [1 .. Scans -> Nat]
  BY DEF RingInv, RingOK, Counters, ScanInv, FrameShape, AdcHandler, RecoverAdc,
     DiscardScan, CaptureScan, FinalizeDropped, FinalizeQueued
<1>2. Handled' = tick /\ (adc # "none" => Handled = tick - 1)
  BY <1>1 DEF Handled
<1> DEFINE t == [frame[build].scans EXCEPT ![scan + 1] = tick]
<1>3. ASSUME adc = "good"
      PROVE  Steady(t, scan + 1) /\ t[scan + 1] = tick
  BY <1>1, <1>2, <1>3, SteadyExtends DEF ScanInv
<1>4. CASE RecoverAdc
  <2>1. UNCHANGED <<frame, build>> /\ scan' = 0 /\ Queued' = Queued
    BY <1>4 DEF RecoverAdc, ringVars, Queued, ReadyAt
  <2>2. Steady(frame'[build'].scans, scan')
    BY <2>1 DEF Steady
  <2> QED BY <2>1, <2>2 DEF ScanInv
<1>5. CASE DiscardScan
  <2>1. UNCHANGED <<frame, build, scan>> /\ scan = 0 /\ Queued' = Queued
    BY <1>5 DEF DiscardScan, ringVars, Queued, ReadyAt, ScanInv
  <2> QED BY <2>1, <1>1 DEF ScanInv
<1>6. CASE CaptureScan
  <2>1. /\ frame' = [frame EXCEPT ![build] = Captured] /\ build' = build
        /\ scan' = scan + 1 /\ Queued' = Queued /\ ~discard' /\ adc = "good"
    BY <1>6 DEF CaptureScan, ringVars, Queued, ReadyAt
  <2>2. FrameShape(Captured) /\ Captured.scans = t
    BY <1>1, CapturedFacts
  <2>3. build \notin Queued /\ Queued \subseteq Buffers
    BY QueuedBuffers DEF RingInv, BuildIsPrivate
  <2>4. /\ frame'[build'] = Captured
        /\ \A b \in Buffers : b # build => frame'[b] = frame[b]
    BY <1>1, <2>1
  <2> HIDE DEF t
  <2>5. \A b \in Buffers : FrameShape(frame'[b])
    BY <1>1, <2>2, <2>4, <2>1
  <2>6. \A b \in Queued' : Steady(frame'[b].scans, Scans)
    BY <2>1, <2>3, <2>4 DEF ScanInv
  <2>7. /\ Steady(frame'[build'].scans, scan')
        /\ frame'[build'].scans[scan'] = Handled'
    BY <1>2, <1>3, <2>1, <2>2, <2>4
  <2> QED BY <2>1, <2>5, <2>6, <2>7 DEF ScanInv
<1>7. CASE FinalizeDropped \/ FinalizeQueued
  <2>1. /\ frame' = [frame EXCEPT ![build] = Finalized]
        /\ scan' = 0 /\ scan + 1 = Scans /\ adc = "good"
    BY <1>7 DEF FinalizeDropped, FinalizeQueued
  <2>2. FrameShape(Finalized) /\ Finalized.scans = t
    BY <1>1, FinalizedFacts
  <2>3. build \notin Queued /\ Queued \subseteq Buffers
    BY QueuedBuffers DEF RingInv, BuildIsPrivate
  <2>4. /\ frame'[build] = Finalized
        /\ \A b \in Buffers : b # build => frame'[b] = frame[b]
    BY <1>1, <2>1
  <2>5. Queued' \subseteq Queued \cup {build}
    BY <1>7, QueuedAfterAppend
    DEF FinalizeDropped, ringVars, Queued, ReadyAt
  <2> HIDE DEF t
  <2>6. \A b \in Buffers : FrameShape(frame'[b])
    BY <1>1, <2>2, <2>4
  <2>7. \A b \in Queued' : Steady(frame'[b].scans, Scans)
    BY <1>3, <2>1, <2>2, <2>3, <2>4, <2>5 DEF ScanInv
  <2>8. Steady(frame'[build'].scans, scan')
    BY <2>1 DEF Steady
  <2> QED BY <2>1, <2>6, <2>7, <2>8 DEF ScanInv
<1> QED BY <1>4, <1>5, <1>6, <1>7 DEF AdcHandler

LEMMA ScanStep ==
  ASSUME RingInv, Counters, SealInv, ScanInv, [Next]_vars PROVE ScanInv'
<1>1. CASE AdcHandler
  BY <1>1, ScanAdc
<1>2. CASE Hardware
  <2>1. UNCHANGED <<frame, build, scan, discard>> /\ Queued' = Queued
    BY <1>2 DEF Hardware, AdcScanEnds, DmaBeat, DmaFails, ChannelDrains,
       ByteShifts, buildVars, ringVars, Queued, ReadyAt
  <2>2. Handled' = Handled
    BY <1>2 DEF Hardware, AdcScanEnds, DmaBeat, DmaFails, ChannelDrains,
       ByteShifts, adcVars, Handled, Counters
  <2> QED BY <2>1, <2>2, ScanKept
<1>3. CASE TxUnexpected \/ TxComplete \/ TxcInterrupt \/ PickFrame \/ ReadForCrc
             \/ StartTransfer \/ ChannelRefused \/ UNCHANGED vars
  <2>1. /\ UNCHANGED <<frame, build, scan, discard, tick, adc>>
        /\ Queued' = Queued
    BY <1>3 DEF TxUnexpected, TxComplete, TxcInterrupt, PickFrame, ReadForCrc,
       StartTransfer, ChannelRefused, vars, buildVars, ringVars, adcVars,
       Queued, ReadyAt
  <2> QED BY <2>1, ScanKept DEF Handled
<1>4. CASE TxFails \/ TxcRelease
  <2>1. Queued' \subseteq Queued
    BY <1>4, QueuedAfterRelease DEF TxFails, TxcRelease
  <2>2. UNCHANGED <<frame, build, scan, discard, tick, adc>>
    BY <1>4 DEF TxFails, TxcRelease, buildVars, adcVars
  <2> QED BY <2>1, <2>2, ScanKept DEF Handled
<1>5. CASE SelectReceiver
  <2>1. /\ frame' = [frame EXCEPT ![chosen] = [@ EXCEPT !.crc32 = crc]]
        /\ UNCHANGED <<build, scan, discard, tick, adc>>
        /\ Queued' = Queued
    BY <1>5 DEF SelectReceiver, ringVars, adcVars, Queued, ReadyAt
  <2>2. /\ DOMAIN frame = Buffers /\ chosen \in Buffers /\ build \in Buffers
        /\ \A b \in Buffers : FrameShape(frame[b])
        /\ Queued \subseteq Buffers
    BY QueuedBuffers DEF Counters, RingInv, RingOK, ScanInv
  <2>3. \A b \in Buffers :
          FrameShape(frame'[b]) /\ frame'[b].scans = frame[b].scans
    <3>1. \A b \in Buffers \ {chosen} : frame'[b] = frame[b]
      BY <2>1, <2>2
    <3>2. frame'[chosen] = [frame[chosen] EXCEPT !.crc32 = crc]
      BY <2>1, <2>2
    <3>3. FrameShape(frame'[chosen]) /\ frame'[chosen].scans = frame[chosen].scans
      <4>1. FrameShape(frame[chosen])
        BY <2>2
      <4> QED BY <3>2, <4>1, CrcOfSealed
    <3> QED BY <2>2, <3>1, <3>3
  <2>4. Handled' = Handled
    BY <2>1 DEF Handled
  <2> QED BY <2>1, <2>2, <2>3, <2>4 DEF ScanInv
<1> QED BY <1>1, <1>2, <1>3, <1>4, <1>5 DEF Next, TxHandler, TxcHandler, Main

-----------------------------------------------------------------------------
(* What main computed the CRC over is what the frame still holds.           *)

LEMMA SealKept ==
  ASSUME SealInv, UNCHANGED <<main, chosen, crc>>,
         active' => active,
         main # "poll" \/ active => frame'[chosen] = frame[chosen]
  PROVE  SealInv'
  BY Zenon DEF SealInv

(* No interrupt writes to a frame that waits.                               *)
LEMMA FrameAdc ==
  ASSUME RingInv, Counters, AdcHandler,
         NEW b \in Buffers, b # build
  PROVE  frame'[b] = frame[b]
  BY DEF RingInv, RingOK, Counters, AdcHandler, RecoverAdc, DiscardScan,
     CaptureScan, FinalizeDropped, FinalizeQueued

LEMMA CoveredAppends ==
  ASSUME NEW f, NEW n \in 0 .. Scans
  PROVE  Append(CoveredTo(f, n), Covered(f)[Len(CoveredTo(f, n)) + 1])
           = CoveredTo(f, n + 1)
<1> DEFINE v(i) == Covered(f)[i]
           c == CoveredTo(f, n)
<1>1. c = [i \in 1 .. n |-> v(i)] /\ CoveredTo(f, n + 1) = [i \in 1 .. n + 1 |-> v(i)]
  BY DEF CoveredTo
<1>2. n \in Nat
  BY ScansPositive
<1> HIDE DEF v, c
<1>3. Len(c) = n
  BY <1>1, <1>2
<1>4. Append(c, v(n + 1)) = [i \in 1 .. n + 1 |-> v(i)]
  BY <1>1, <1>2
<1> QED BY <1>1, <1>3, <1>4 DEF v, c

LEMMA CoveredAll ==
  ASSUME NEW f, NEW n \in 0 .. Scans + 1
  PROVE  /\ Len(CoveredTo(f, n)) = n
         /\ CoveredTo(f, Scans + 1) = Covered(f)
<1>1. n \in Nat
  BY ScansPositive
<1> QED BY <1>1 DEF CoveredTo, Covered

LEMMA SealStep ==
  ASSUME ControlInv, RingInv, Counters, ScanInv, SealInv, [Next]_vars
  PROVE  SealInv'
<1>1. CASE AdcHandler
  <2>1. UNCHANGED <<main, chosen, crc, active>>
    BY <1>1 DEF AdcHandler, RecoverAdc, DiscardScan, CaptureScan,
       FinalizeDropped, FinalizeQueued, mainVars
  <2>2. main # "poll" \/ active => frame'[chosen] = frame[chosen]
    BY <1>1, FrameAdc, HeadIsQueued
  <2> QED BY <2>1, <2>2, SealKept
<1>2. CASE Hardware \/ TxUnexpected \/ TxComplete \/ TxcInterrupt
             \/ UNCHANGED vars
  <2>1. UNCHANGED <<main, chosen, crc, active, frame>>
    BY <1>2 DEF Hardware, AdcScanEnds, DmaBeat, DmaFails, ChannelDrains,
       ByteShifts, TxUnexpected, TxComplete, TxcInterrupt, vars,
       buildVars, mainVars
  <2> QED BY <2>1, SealKept
<1>3. CASE TxFails \/ TxcRelease
  <2>1. UNCHANGED <<main, chosen, crc, frame>> /\ ~active'
    BY <1>3 DEF TxFails, TxcRelease, ReleaseFrame, buildVars, mainVars
  <2> QED BY <2>1, SealKept
<1>4. CASE PickFrame
  <2>1. crc' = CoveredTo(frame'[chosen'], 0) /\ main' = "crc" /\ ~active'
    BY <1>4 DEF PickFrame, CoveredTo
  <2>2. 0 \in 0 .. Scans + 1
    BY ScansPositive
  <2> QED BY <2>1, <2>2 DEF SealInv
<1>5. CASE ReadForCrc
  <2>1. /\ crc' = Append(crc, Covered(frame[chosen])[Len(crc) + 1])
        /\ main = "crc" /\ Len(crc) <= Scans /\ ~active
        /\ UNCHANGED <<main, chosen, frame, active>>
    BY <1>5 DEF ReadForCrc, ControlInv, buildVars
  <2>2. PICK n \in 0 .. Scans + 1 : crc = CoveredTo(frame[chosen], n)
    BY <2>1 DEF SealInv
  <2>3. n \in 0 .. Scans
    BY <2>1, <2>2, CoveredAll, ScansPositive
  <2>4. crc' = CoveredTo(frame[chosen], n + 1)
    BY <2>1, <2>2, <2>3, CoveredAppends
  <2>5. n + 1 \in 0 .. Scans + 1
    BY <2>3, ScansPositive
  <2> QED BY <2>1, <2>4, <2>5 DEF SealInv
<1>6. CASE SelectReceiver
  <2>1. /\ frame' = [frame EXCEPT ![chosen] = [@ EXCEPT !.crc32 = crc]]
        /\ main = "crc" /\ Len(crc) = Scans + 1 /\ ~active
        /\ main' = "select" /\ UNCHANGED <<chosen, active>>
    BY <1>6 DEF SelectReceiver, ControlInv
  <2>2. PICK n \in 0 .. Scans + 1 : crc = CoveredTo(frame[chosen], n)
    BY <2>1 DEF SealInv
  <2>3. crc = Covered(frame[chosen])
    BY <2>1, <2>2, CoveredAll
  <2>4. chosen \in Buffers /\ DOMAIN frame = Buffers /\ FrameShape(frame[chosen])
    BY DEF RingInv, RingOK, Counters, ScanInv
  <2>5. frame'[chosen] = [frame[chosen] EXCEPT !.crc32 = crc]
    BY <2>1, <2>4
  <2>6. frame'[chosen].crc32 = crc /\ Covered(frame'[chosen]) = Covered(frame[chosen])
    BY <2>4, <2>5, CrcOfSealed
  <2> QED BY <2>1, <2>3, <2>6 DEF SealInv
<1>7. CASE StartTransfer
  <2>1. main = "select" /\ main' = "poll" /\ UNCHANGED <<frame, chosen>>
    BY <1>7 DEF StartTransfer, buildVars
  <2> QED BY <2>1 DEF SealInv
<1>8. CASE ChannelRefused
  <2>1. main' = "poll" /\ UNCHANGED <<frame, chosen, active>>
    BY <1>8 DEF ChannelRefused, buildVars
  <2> QED BY <2>1 DEF SealInv
<1> QED BY <1>1, <1>2, <1>3, <1>4, <1>5, <1>6, <1>7, <1>8
        DEF Next, TxHandler, TxcHandler, Main

-----------------------------------------------------------------------------
(* What crossed the wire.                                                   *)

LEMMA PartsPositive == Parts \in Nat /\ Parts = Scans + 2
  BY ScansPositive DEF Parts

LEMMA SentAppends ==
  ASSUME NEW f, NEW n \in Nat
  PROVE  Sent(f, n) \o <<Part(f, n + 1)>> = Sent(f, n + 1)
<1> DEFINE v(i) == Part(f, i)
           c == Sent(f, n)
<1>1. c = [i \in 1 .. n |-> v(i)] /\ Sent(f, n + 1) = [i \in 1 .. n + 1 |-> v(i)]
  BY DEF Sent
<1> HIDE DEF v, c
<1>2. Len(c) = n
  BY <1>1
<1>3. c \o <<v(n + 1)>> = [i \in 1 .. n + 1 |-> v(i)]
  BY <1>1, <1>2
<1> QED BY <1>1, <1>3 DEF v, c

LEMMA SentNothing == \A f : Sent(f, 0) = <<>>
  BY DEF Sent

(* All parts of a sealed frame are a whole frame.                           *)
LEMMA SentIsWhole ==
  ASSUME NEW f, FrameShape(f), f.crc32 = Covered(f), Steady(f.scans, Scans)
  PROVE  Whole(Sent(f, Parts))
<1> DEFINE w == Sent(f, Parts)
<1>1. Len(w) = Parts /\ w \in Seq({Part(f, i) : i \in 1 .. Parts})
  BY PartsPositive DEF Sent
<1>2. \A i \in 1 .. Scans + 1 : w[i] = Covered(f)[i]
  BY PartsPositive, ScansPositive DEF Sent, Part
<1>3. w[Parts] = Covered(f)
  BY PartsPositive, ScansPositive DEF Sent, Part
<1>4. SubSeq(w, 1, Scans + 1) = Covered(f)
  <2>1. SubSeq(w, 1, Scans + 1) = [i \in 1 .. Scans + 1 |-> w[i]]
    <3> HIDE DEF w
    <3> QED BY <1>1, PartsPositive, ScansPositive
  <2>2. Covered(f) = [i \in 1 .. Scans + 1 |-> Covered(f)[i]]
    BY DEF Covered
  <2> HIDE DEF w
  <2> QED BY <1>2, <2>1, <2>2
<1>5. \A i \in 2 .. Scans + 1 : w[i][1] = f.scans[i - 1]
  <2>1. \A i \in 2 .. Scans + 1 : Covered(f)[i] = <<f.scans[i - 1]>>
    BY ScansPositive DEF Covered
  <2> HIDE DEF w
  <2> QED BY <1>2, <2>1, ScansPositive
<1>6. \A i \in 2 .. Scans : w[i + 1][1] = w[i][1] + 1
  <2> HIDE DEF w
  <2> SUFFICES ASSUME NEW i \in 2 .. Scans PROVE w[i + 1][1] = w[i][1] + 1
    OBVIOUS
  <2>1. w[i + 1][1] = f.scans[i] /\ w[i][1] = f.scans[i - 1]
    BY <1>5, ScansPositive
  <2>2. f.scans[(i - 1) + 1] = f.scans[i - 1] + 1
    BY ScansPositive DEF Steady
  <2> QED BY <2>1, <2>2
<1> QED BY <1>1, <1>3, <1>4, <1>6 DEF Whole

LEMMA SendInit == Started => SendInv
<1> SUFFICES ASSUME Started PROVE SendInv
  OBVIOUS
<1> QED BY DEF Started, SendInv

(* A step that leaves the transfer alone, and the frame it sends.           *)
LEMMA SendKept ==
  ASSUME SendInv,
         UNCHANGED <<main, active, awaiting, isr, dmaVars, shift, txc, wireVars>>,
         active => frame'[chosen'] = frame[chosen]
  PROVE  SendInv'
<1>1. UNCHANGED <<channel, sent, txIrq, cs, wire>>
  BY DEF dmaVars, wireVars
<1>2. active => OnTheWire(frame[chosen])'
  BY <1>1 DEF SendInv, OnTheWire
<1> QED BY <1>1, <1>2 DEF SendInv

LEMMA SendHardware ==
  ASSUME ControlInv, SendInv, Counters, Places, Hardware PROVE SendInv'
<1>1. UNCHANGED <<main, chosen, active, awaiting, isr, frame, cs>>
  BY DEF Hardware, AdcScanEnds, DmaBeat, DmaFails, ChannelDrains, ByteShifts,
     mainVars, buildVars, wireVars
<1>2. CASE AdcScanEnds
  BY <1>1, <1>2, SendKept DEF AdcScanEnds, serialVars
<1>3. CASE DmaBeat
  <2>1. /\ channel = "busy" /\ shift = <<>> /\ sent < Parts /\ sent' = sent + 1
        /\ shift' = <<Part(frame[chosen], sent + 1)>> /\ ~txc' /\ wire' = wire
        /\ \/ sent' = Parts /\ channel' = "off" /\ txIrq' = "complete"
           \/ channel' = channel /\ txIrq' = txIrq
        /\ sent \in Nat
    BY <1>3, PartsPositive DEF DmaBeat, wireVars, Counters
  <2>2. active /\ wire = Sent(frame[chosen], sent)
    BY <2>1 DEF SendInv, OnTheWire
  <2>3. isr # "release" /\ ~awaiting /\ main # "select"
    BY <2>1, <2>2 DEF ControlInv
  <2>4. OnTheWire(frame[chosen])'
    <3>1. shift' # <<>> /\ sent' - 1 = sent /\ sent' > 0
      BY <2>1
    <3> QED BY <1>1, <2>1, <2>2, <3>1 DEF OnTheWire
  <2> QED BY <1>1, <2>1, <2>2, <2>3, <2>4 DEF SendInv
<1>4. CASE DmaFails \/ ChannelDrains
  <2>1. UNCHANGED <<sent, shift, txc, wire>>
    BY <1>4 DEF DmaFails, ChannelDrains, serialVars, wireVars
  <2>2. /\ channel' # "busy" /\ txIrq' # "complete"
    BY <1>4 DEF DmaFails, ChannelDrains
  <2>3. active => OnTheWire(frame[chosen])'
    BY <1>1, <2>1 DEF SendInv, OnTheWire
  <2> QED BY <1>1, <2>1, <2>2, <2>3 DEF SendInv
<1>5. CASE ByteShifts
  <2>1. /\ shift # <<>> /\ shift' = <<>> /\ UNCHANGED <<channel, sent, txIrq>>
        /\ wire' = IF cs THEN wire \o shift ELSE wire
    BY <1>5 DEF ByteShifts, dmaVars
  <2>2. active /\ isr # "release" /\ cs /\ main # "select"
    BY <2>1 DEF SendInv, ControlInv, Places
  <2>4. sent - 1 \in Nat /\ (sent - 1) + 1 = sent
    BY <2>1, <2>2, PartsPositive DEF SendInv, OnTheWire, Counters
  <2>5. wire' = Sent(frame[chosen], sent)
    <3>1. /\ wire' = wire \o shift
          /\ wire = Sent(frame[chosen], sent - 1)
          /\ shift = <<Part(frame[chosen], sent)>>
      BY <2>1, <2>2 DEF SendInv, OnTheWire
    <3>2. Sent(frame[chosen], sent - 1) \o <<Part(frame[chosen], (sent - 1) + 1)>>
            = Sent(frame[chosen], (sent - 1) + 1)
      BY <2>4, SentAppends
    <3> QED BY <2>4, <3>1, <3>2
  <2>6. OnTheWire(frame[chosen])'
    BY <1>1, <2>1, <2>5 DEF OnTheWire
  <2> QED BY <1>1, <2>1, <2>2, <2>6 DEF SendInv
<1> QED BY <1>2, <1>3, <1>4, <1>5 DEF Hardware

LEMMA SendTx ==
  ASSUME ControlInv, SendInv, TxHandler PROVE SendInv'
<1>1. UNCHANGED <<main, chosen, frame, channel, sent, isr, wire>>
  BY DEF TxHandler, TxUnexpected, TxComplete, TxFails, mainVars, buildVars,
     wireVars, dmaVars
<1>2. CASE TxUnexpected
  <2>1. ~active /\ txIrq' = "none"
        /\ UNCHANGED <<active, awaiting, shift, txc, cs>>
    BY <1>2 DEF TxUnexpected, serialVars, wireVars
  <2> QED BY <1>1, <2>1 DEF SendInv
<1>3. CASE TxComplete
  <2>1. /\ active /\ txIrq = "complete" /\ txIrq' = "none"
        /\ UNCHANGED <<active, shift, txc, cs>>
    BY <1>3 DEF TxComplete, wireVars
  <2>2. sent = Parts /\ OnTheWire(frame[chosen])'
    BY <1>1, <2>1 DEF SendInv, OnTheWire
  <2> QED BY <1>1, <2>1, <2>2 DEF SendInv
<1>4. CASE TxFails
  <2>1. /\ active /\ txIrq # "none" /\ txIrq' = "none" /\ ~active' /\ ~awaiting'
        /\ ~txc' /\ shift' = <<>>
    BY <1>4 DEF TxFails, ReleaseFrame
  <2>2. main = "poll"
    BY <2>1 DEF ControlInv
  <2> QED BY <1>1, <2>1, <2>2 DEF SendInv
<1> QED BY <1>2, <1>3, <1>4 DEF TxHandler

LEMMA SendTxc ==
  ASSUME ControlInv, SendInv, TxcHandler PROVE SendInv'
<1>1. UNCHANGED <<main, chosen, frame, channel, sent, txIrq, shift, wire>>
  BY DEF TxcHandler, TxcInterrupt, TxcRelease, mainVars, buildVars, dmaVars,
     serialVars, wireVars
<1>2. CASE TxcInterrupt
  <2>1. /\ isr = "off" /\ txc /\ ~txc' /\ UNCHANGED <<active, awaiting>>
        /\ \/ active /\ isr' = "release"
           \/ UNCHANGED <<cs, isr>>
    BY <1>2 DEF TxcInterrupt
  <2>2. shift = <<>> /\ (active => OnTheWire(frame[chosen])')
    BY <1>1, <2>1 DEF SendInv, OnTheWire
  <2>3. active => main = "poll"
    BY DEF ControlInv
  <2> QED BY <1>1, <2>1, <2>2, <2>3 DEF SendInv
<1>3. CASE TxcRelease
  <2>1. isr = "release" /\ isr' = "off" /\ ~active' /\ ~awaiting' /\ txc' = txc
    BY <1>3 DEF TxcRelease, ReleaseFrame, serialVars
  <2>2. main = "poll" /\ channel = "off" /\ txIrq = "none" /\ shift = <<>>
    BY <2>1 DEF ControlInv, SendInv
  <2> QED BY <1>1, <2>1, <2>2 DEF SendInv
<1> QED BY <1>2, <1>3 DEF TxcHandler

LEMMA SendMain ==
  ASSUME ControlInv, SendInv, Main PROVE SendInv'
<1>1. UNCHANGED shift
  BY DEF Main, PickFrame, ReadForCrc, SelectReceiver, StartTransfer,
     ChannelRefused, serialVars
<1>2. CASE PickFrame
  <2>1. /\ ~active /\ main' = "crc"
        /\ UNCHANGED <<active, awaiting, isr, channel, sent, txIrq, txc, cs, wire>>
    BY <1>2 DEF PickFrame, dmaVars, serialVars, wireVars
  <2> QED BY <1>1, <2>1 DEF SendInv
<1>3. CASE ReadForCrc
  <2>1. /\ UNCHANGED <<main, chosen, frame, active, awaiting, isr, dmaVars, txc,
                       wireVars>>
    BY <1>3 DEF ReadForCrc, serialVars, buildVars
  <2> QED BY <1>1, <2>1, SendKept
<1>4. CASE SelectReceiver
  <2>1. /\ ~active /\ main' = "select" /\ cs' /\ wire' = <<>> /\ ~txc'
        /\ UNCHANGED <<active, awaiting, isr, channel, sent, txIrq>>
    BY <1>4 DEF SelectReceiver, ControlInv, dmaVars
  <2> QED BY <1>1, <2>1 DEF SendInv
<1>5. CASE StartTransfer
  <2>1. /\ main = "select" /\ isr = "off" /\ ~active
        /\ channel' = "busy" /\ sent' = 0 /\ txIrq' = "none" /\ active' /\ ~awaiting'
        /\ main' = "poll" /\ UNCHANGED <<chosen, frame, isr, txc, cs, wire>>
    BY <1>5 DEF StartTransfer, ControlInv, serialVars, wireVars, buildVars
  <2>2. shift = <<>> /\ wire = <<>> /\ cs
    BY <2>1 DEF SendInv
  <2>3. OnTheWire(frame[chosen])'
    BY <1>1, <2>1, <2>2, SentNothing DEF OnTheWire
  <2> QED BY <1>1, <2>1, <2>2, <2>3 DEF SendInv
<1>6. CASE ChannelRefused
  <2>1. /\ ~active /\ main' = "poll"
        /\ UNCHANGED <<active, awaiting, isr, channel, sent, txIrq, txc, wire>>
    BY <1>6 DEF ChannelRefused, ControlInv, dmaVars, serialVars
  <2> QED BY <1>1, <2>1 DEF SendInv
<1> QED BY <1>2, <1>3, <1>4, <1>5, <1>6 DEF Main

LEMMA SendStep ==
  ASSUME ControlInv, RingInv, Counters, Places, SendInv, [Next]_vars
  PROVE  SendInv'
<1>1. CASE AdcHandler
  <2>1. UNCHANGED <<main, chosen, active, awaiting, isr, dmaVars, serialVars,
                    wireVars>>
    BY <1>1 DEF AdcHandler, RecoverAdc, DiscardScan, CaptureScan,
       FinalizeDropped, FinalizeQueued, mainVars
  <2>2. active => frame'[chosen'] = frame[chosen]
    BY <1>1, <2>1, FrameAdc, HeadIsQueued
  <2> QED BY <2>1, <2>2, SendKept DEF serialVars
<1>2. CASE UNCHANGED vars
  BY <1>2, SendKept DEF vars, mainVars, serialVars, buildVars
<1> QED BY <1>1, <1>2, SendHardware, SendTx, SendTxc, SendMain DEF Next

-----------------------------------------------------------------------------
WireInv == Counters /\ ScanInv /\ SealInv /\ SendInv

LEMMA WireInit == Started => WireInv
  BY TypeInit, ScanInit, SendInit DEF WireInv, Started, SealInv

LEMMA WireInvariant == Spec => [](ControlInv /\ RingInv /\ Places /\ WireInv)
<1>1. Init => WireInv /\ Places
  BY InitIsStarted, WireInit, TypeInit
<1>2. ControlInv /\ RingInv /\ Places /\ WireInv /\ [Next]_vars => WireInv'
  BY CountersStep, ScanStep, SealStep, SendStep DEF WireInv
<1> QED BY <1>1, <1>2, InductiveInvariant, PlacesStep, PTL DEF Spec

(* finish_spi_tx after TXC: what crossed the wire is a whole frame, of scans *)
(* that follow one another, with the CRC of the very bytes that were sent,  *)
(* although main computes it with interrupts enabled and the DMA reads the  *)
(* frame long after.                                                        *)
THEOREM FramesCrossWhole == Spec => []WireIsWhole
<1>1. ControlInv /\ RingInv /\ WireInv => WireIsWhole
  <2> SUFFICES ASSUME ControlInv, RingInv, WireInv, isr = "release"
               PROVE  Whole(wire)
    BY DEF WireIsWhole
  <2>1. active /\ wire = Sent(frame[chosen], Parts)
    BY DEF ControlInv, WireInv, SendInv, OnTheWire
  <2>2. /\ FrameShape(frame[chosen])
        /\ frame[chosen].crc32 = Covered(frame[chosen])
        /\ Steady(frame[chosen].scans, Scans)
    BY <2>1, HeadIsQueued DEF WireInv, ScanInv, SealInv
  <2> QED BY <2>1, <2>2, SentIsWhole
<1> QED BY <1>1, WireInvariant, PTL

-----------------------------------------------------------------------------
(* Error flags, and the queue of frames.                                    *)

LEMMA FlagsStep ==
  ASSUME RingInv, Counters, ScanInv, [Next]_vars,
         NEW e \in pending \ pending'
  PROVE  count' = count + 1 /\ e \in frame'[ReadyAt(count - 1)'].flags
<1>1. CASE FinalizeQueued
  <2>1. /\ count' = count + 1 /\ count \in 0 .. Cap
        /\ frame' = [frame EXCEPT ![build] = Finalized]
    BY <1>1 DEF FinalizeQueued, RingInv, RingOK
  <2>3. \A i \in 0 .. count :
          ReadyAt(i)' = IF i = count THEN build ELSE ReadyAt(i)
    BY <1>1, Appended
  <2>4. count \in 0 .. count /\ count' - 1 = count
    BY <2>1, ScansPositive
  <2>5. ReadyAt(count - 1)' = build
    BY <2>3, <2>4 DEF ReadyAt
  <2>6. /\ build \in Buffers /\ DOMAIN frame = Buffers
        /\ FrameShape(frame[build]) /\ scan \in 0 .. Scans - 1 /\ tick \in Nat
    BY DEF RingInv, RingOK, Counters, ScanInv
  <2>7. Finalized.flags = pending
    BY <2>6, FinalizedFacts
  <2>8. frame'[build] = Finalized
    BY <2>1, <2>6
  <2> QED BY <2>1, <2>5, <2>7, <2>8
<1>2. ASSUME ~FinalizeQueued PROVE pending \subseteq pending'
  <2>1. CASE Hardware \/ TxcInterrupt \/ PickFrame \/ ReadForCrc
               \/ SelectReceiver \/ StartTransfer \/ UNCHANGED vars
    BY <2>1 DEF Hardware, AdcScanEnds, DmaBeat, DmaFails, ChannelDrains,
       ByteShifts, TxcInterrupt, PickFrame, ReadForCrc, SelectReceiver,
       StartTransfer, vars
  <2>2. CASE AdcHandler
    BY <1>2, <2>2 DEF AdcHandler, RecoverAdc, DiscardScan, CaptureScan,
       FinalizeDropped
  <2>3. CASE TxHandler \/ TxcRelease \/ ChannelRefused
    BY <2>3 DEF TxHandler, TxUnexpected, TxComplete, TxFails, TxcRelease,
       ChannelRefused, ReleaseFrame
  <2> QED BY <2>1, <2>2, <2>3 DEF Next, TxcHandler, Main
<1> QED BY <1>1, <1>2

(* finalize_spi_frame and every place that sets SpiPendingFlags: a flag is  *)
(* only cleared by queueing a frame that carries it.                        *)
THEOREM FlagsAreNotLost == Spec => FlagsAreQueued
<1>1. RingInv /\ WireInv /\ [Next]_vars
        => [\A e \in pending \ pending' :
              count' = count + 1 /\ e \in frame'[ReadyAt(count - 1)'].flags]_vars
  BY FlagsStep DEF WireInv
<1> QED BY <1>1, WireInvariant, PTL DEF Spec, FlagsAreQueued

-----------------------------------------------------------------------------
(* The frames at the places of the ring as the queue of FrameFifo.          *)

Item(f) == [sequence |-> f.sequence, covered |-> Covered(f)]

LEMMA WaitingItems ==
  /\ Waiting = [i \in 1 .. count |-> Item(frame[ReadyAt(i - 1)])]
  /\ Waiting' = [i \in 1 .. count' |-> Item(frame'[ReadyAt(i - 1)'])]
  BY DEF Waiting, Item, Covered, Header

(* A step that moves no frame and changes none that waits.                  *)
LEMMA WaitingKept ==
  ASSUME RingInv, UNCHANGED <<ring, head, count>>,
         \A b \in Queued : Item(frame'[b]) = Item(frame[b])
  PROVE  Waiting' = Waiting
<1>1. \A i : ReadyAt(i)' = ReadyAt(i)
  BY DEF ReadyAt
<1>2. \A i \in 1 .. count : ReadyAt(i - 1) \in Queued
  <2> SUFFICES ASSUME NEW i \in 1 .. count PROVE ReadyAt(i - 1) \in Queued
    OBVIOUS
  <2>1. i - 1 \in 0 .. count - 1
    BY ScansPositive DEF RingInv, RingOK
  <2> QED BY <2>1 DEF Queued
<1> QED BY <1>1, <1>2, WaitingItems

LEMMA FifoAdc ==
  ASSUME RingInv, Counters, ScanInv, AdcHandler
  PROVE  [Fifo!Next]_<<sequence, Waiting>>
<1>1. \A b \in Queued : Item(frame'[b]) = Item(frame[b])
  BY FrameAdc, QueuedBuffers DEF RingInv, BuildIsPrivate
<1>2. Len(Waiting) = count /\ count \in 0 .. Cap
  BY WaitingItems DEF RingInv, RingOK
<1>3. CASE RecoverAdc \/ DiscardScan \/ CaptureScan
  <2>1. UNCHANGED <<ring, head, count, sequence>>
    BY <1>3 DEF RecoverAdc, DiscardScan, CaptureScan, ringVars
  <2> QED BY <1>1, <2>1, WaitingKept
<1>4. CASE FinalizeDropped
  <2>1. /\ UNCHANGED <<ring, head, count>> /\ count >= Cap
        /\ sequence' = sequence + 1
    BY <1>4 DEF FinalizeDropped, ringVars
  <2>2. Waiting' = Waiting
    BY <1>1, <2>1, WaitingKept
  <2>3. Len(Waiting) = Cap
    BY <1>2, <2>1, ScansPositive
  <2>4. Fifo!Lose
    BY <2>1, <2>2, <2>3 DEF Fifo!Lose
  <2> QED BY <2>4 DEF Fifo!Next
<1>5. CASE FinalizeQueued
  <2>1. /\ count' = count + 1 /\ count < Cap /\ sequence' = sequence + 1
        /\ frame' = [frame EXCEPT ![build] = Finalized]
    BY <1>5 DEF FinalizeQueued
  <2>2. \A i \in 0 .. count :
          ReadyAt(i)' = IF i = count THEN build ELSE ReadyAt(i)
    BY <1>5, Appended
  <2>3. /\ build \in Buffers /\ DOMAIN frame = Buffers
        /\ FrameShape(frame[build]) /\ scan \in 0 .. Scans - 1 /\ tick \in Nat
    BY DEF RingInv, RingOK, Counters, ScanInv
  <2>4. frame'[build].sequence = sequence
    BY <2>1, <2>3, FinalizedFacts
  <2>5. /\ Len(Waiting') = count + 1
        /\ \A i \in 1 .. count + 1 : Waiting'[i] = Item(frame'[ReadyAt(i - 1)'])
        /\ \A i \in 1 .. count : Waiting[i] = Item(frame[ReadyAt(i - 1)])
    BY <1>2, <2>1, WaitingItems
  <2>6. ASSUME NEW i \in 1 .. count PROVE Waiting'[i] = Waiting[i]
    <3>1. i \in 1 .. count + 1 /\ i - 1 \in 0 .. count - 1 /\ i - 1 \in 0 .. count
          /\ i - 1 # count
      BY <1>2, ScansPositive
    <3>2. ReadyAt(i - 1)' = ReadyAt(i - 1) /\ ReadyAt(i - 1) \in Queued
      BY <2>2, <3>1 DEF Queued
    <3> QED BY <1>1, <2>5, <3>1, <3>2
  <2>7. Waiting'[count + 1].sequence = sequence
    <3>1. ASSUME NEW i \in 1 .. count + 1, i = count + 1
          PROVE  Waiting'[i].sequence = sequence
      <4>1. i - 1 \in 0 .. count /\ i - 1 = count
        BY <1>2, <3>1
      <4>2. ReadyAt(i - 1)' = build
        BY <2>2, <4>1
      <4> QED BY <2>4, <2>5, <4>2 DEF Item
    <3>2. count + 1 \in 1 .. count + 1
      BY <1>2
    <3> QED BY <3>1, <3>2
  <2>8. Fifo!Put
    BY <1>2, <2>1, <2>5, <2>6, <2>7 DEF Fifo!Put
  <2> QED BY <2>8 DEF Fifo!Next
<1> QED BY <1>3, <1>4, <1>5 DEF AdcHandler

LEMMA FifoRelease ==
  ASSUME RingInv, NEW F, ReleaseFrame(F), active, UNCHANGED <<frame, sequence>>
  PROVE  Fifo!Next
<1>1. /\ count # 0 /\ count' = count - 1 /\ count \in 1 .. Cap
  BY HeadIsQueued, ScansPositive DEF ReleaseFrame, RingInv, RingOK
<1>2. /\ Waiting = [i \in 1 .. count |-> Item(frame[ReadyAt(i - 1)])]
      /\ Waiting' = [i \in 1 .. count - 1 |-> Item(frame[ReadyAt(i - 1)'])]
  BY <1>1, WaitingItems
<1>3. \A i \in 1 .. count - 1 : ReadyAt(i - 1)' = ReadyAt(i)
  <2> SUFFICES ASSUME NEW i \in 1 .. count - 1 PROVE ReadyAt(i - 1)' = ReadyAt(i)
    OBVIOUS
  <2>1. i - 1 \in 0 .. count - 2 /\ (i - 1) + 1 = i
    BY <1>1, ScansPositive
  <2>2. ReadyAt(i - 1)' = ReadyAt((i - 1) + 1)
    BY <2>1, Released
  <2> QED BY <2>1, <2>2
<1>4. Waiting' = [i \in 1 .. count - 1 |-> Item(frame[ReadyAt((i + 1) - 1)])]
  <2>1. \A i \in 1 .. count - 1 : (i + 1) - 1 = i
    BY <1>1
  <2> QED BY <1>2, <1>3, <2>1
<1>5. Waiting' = Tail(Waiting) /\ Waiting # <<>>
  <2> DEFINE v(i) == Item(frame[ReadyAt(i - 1)])
             w == Waiting
             x == Waiting'
  <2>1. w = [i \in 1 .. count |-> v(i)] /\ x = [i \in 1 .. count - 1 |-> v(i + 1)]
    BY <1>2, <1>4
  <2> HIDE DEF v, w, x
  <2>2. Len(w) = count /\ w \in Seq({v(i) : i \in 1 .. count})
    BY <1>1, <2>1
  <2>3. Tail(w) = x
    <3> DEFINE S == {v(i) : i \in 1 .. count}
    <3>1. x \in Seq(S) /\ Len(x) = count - 1 /\ w # <<>>
      <4>1. \A i \in 1 .. count - 1 : i + 1 \in 1 .. count
        BY <1>1
      <4>2. \A i \in 1 .. count - 1 : v(i + 1) \in S
        BY <4>1
      <4>3. count - 1 \in Nat
        BY <1>1
      <4>4. w # <<>>
        BY <1>1, <2>2
      <4> HIDE DEF S
      <4> QED BY <2>1, <4>2, <4>3, <4>4
    <3>2. /\ Tail(w) \in Seq(S) /\ Len(Tail(w)) = count - 1
          /\ \A i \in 1 .. Len(Tail(w)) : Tail(w)[i] = w[i + 1]
      <4>1. w \in Seq(S) /\ w # <<>>
        BY <2>2, <3>1
      <4> HIDE DEF S
      <4> QED BY <2>2, <4>1, HeadTailProperties
    <3>3. \A i \in 1 .. count - 1 : x[i] = w[i + 1]
      BY <1>1, <2>1
    <3> HIDE DEF S
    <3> QED BY <3>1, <3>2, <3>3, SeqEqual
  <2>4. w # <<>>
    BY <1>1, <2>2
  <2> QED BY <2>3, <2>4 DEF w, x
<1>6. Fifo!Take
  BY <1>5 DEF Fifo!Take
<1> QED BY <1>6 DEF Fifo!Next

LEMMA FifoStep ==
  ASSUME ControlInv, RingInv, Counters, ScanInv, [Next]_vars
  PROVE  [Fifo!Next]_<<sequence, Waiting>>
<1>1. CASE AdcHandler
  BY <1>1, FifoAdc
<1>2. CASE TxFails \/ TxcRelease
  <2>1. active /\ UNCHANGED <<frame, sequence>>
    BY <1>2 DEF TxFails, TxcRelease, ControlInv, buildVars
  <2> QED BY <1>2, <2>1, FifoRelease DEF TxFails, TxcRelease
<1>3. CASE Hardware \/ TxUnexpected \/ TxComplete \/ TxcInterrupt \/ PickFrame
             \/ ReadForCrc \/ StartTransfer \/ ChannelRefused \/ UNCHANGED vars
  <2>1. UNCHANGED <<frame, ring, head, count, sequence>>
    BY <1>3 DEF Hardware, AdcScanEnds, DmaBeat, DmaFails, ChannelDrains,
       ByteShifts, TxUnexpected, TxComplete, TxcInterrupt, PickFrame, ReadForCrc,
       StartTransfer, ChannelRefused, vars, buildVars, ringVars
  <2> QED BY <2>1, WaitingKept
<1>4. CASE SelectReceiver
  <2>1. /\ frame' = [frame EXCEPT ![chosen] = [@ EXCEPT !.crc32 = crc]]
        /\ UNCHANGED <<ring, head, count, sequence>>
    BY <1>4 DEF SelectReceiver, ringVars
  <2>2. /\ DOMAIN frame = Buffers /\ chosen \in Buffers
        /\ FrameShape(frame[chosen]) /\ Queued \subseteq Buffers
    BY QueuedBuffers DEF Counters, RingInv, RingOK, ScanInv
  <2>3. frame'[chosen] = [frame[chosen] EXCEPT !.crc32 = crc]
    BY <2>1, <2>2
  <2>4. Item(frame'[chosen]) = Item(frame[chosen])
    BY <2>2, <2>3, CrcOfSealed DEF Item
  <2>5. \A b \in Buffers \ {chosen} : frame'[b] = frame[b]
    BY <2>1, <2>2
  <2>6. \A b \in Queued : Item(frame'[b]) = Item(frame[b])
    BY <2>2, <2>4, <2>5
  <2> QED BY <2>1, <2>6, WaitingKept
<1> QED BY <1>1, <1>2, <1>3, <1>4 DEF Next, TxHandler, TxcHandler, Main

(* SpiReadyFrameIndex with its head and count, spi_ready_queue_contains and *)
(* spi_find_free_build_frame implement FrameFifo: frames leave in the order *)
(* they were made, do not change while they wait, and one that finds the    *)
(* ring full is the one that is lost.                                       *)
THEOREM RingImplementsFifo == Spec => FifoSpec
<1>1. Init => Fifo!Init
  <2> SUFFICES ASSUME Init PROVE Fifo!Init
    OBVIOUS
  <2>1. Waiting = <<>>
    BY DEF Init, Waiting
  <2> QED BY <2>1 DEF Init, Fifo!Init
<1>2. ControlInv /\ RingInv /\ WireInv /\ [Next]_vars
        => [Fifo!Next]_<<sequence, Waiting>>
  BY FifoStep DEF WireInv
<1> QED BY <1>1, <1>2, WireInvariant, PTL DEF Spec, FifoSpec, Fifo!Spec

-----------------------------------------------------------------------------
(* The wire and the metering task (SpiLink).  What the task expects next is *)
(* told from what the firmware counts: between two frames that follow one   *)
(* another by number either no scan is missing or a flag tells of it.       *)

FirmwareInv == ControlInv /\ RingInv /\ Places /\ WireInv

Told(F) == F \cap SampleErrors # {}

(* The sample counter of a frame is that of its first scan.                 *)
CountInv ==
  /\ scan > 0 => frame[build].counter \in Nat
  /\ scan > 0 => frame[build].counter + scan = counter
  /\ \A b \in Queued :
       frame[b].counter \in Nat /\ frame[b].counter + Scans <= counter

(* A transfer whose channel may still report an error is not complete.      *)
FailInv == active /\ (channel # "off" \/ txIrq = "error") => sent < Parts

(* A frame numbered x goes on after the scan of time l, or tells of an      *)
(* error.  The number is still to come: then the next scan used is the one  *)
(* after l, or an error is pending for the frame it will be in.  Or it is   *)
(* taken: by the frame under construction, or by one that waits.            *)
FollowsOn(x, l) ==
  /\ x <= counter
  /\ counter = x => Told(pending) \/ (~discard /\ Handled = l)
  /\ (scan > 0 /\ frame[build].counter = x)
        => Told(pending) \/ frame[build].scans[1] = l + 1
  /\ \A b \in Queued :
       frame[b].counter = x
         => Told(frame[b].flags) \/ frame[b].scans[1] = l + 1

QueueFollows ==
  \A b \in Queued : \A x, l \in Nat :
    x = frame[b].counter + Scans /\ l = frame[b].scans[Scans] => FollowsOn(x, l)

WindowInv ==
  /\ window \in Seq(Nat) /\ expected \subseteq Nat
  /\ expected = {} => window = <<>>
  /\ expected # {} => window # <<>>
  /\ \A x \in expected : \A l \in Nat :
       l = window[Len(window)] => FollowsOn(x, l)
  /\ WindowHasNoHole

-----------------------------------------------------------------------------
(* The steps that neither take a scan nor lose one.                         *)
Quiet == Hardware \/ TxHandler \/ TxcHandler \/ Main \/ UNCHANGED vars

(* A quiet step leaves the sampling alone; of a frame it changes at most    *)
(* the CRC, and flags are only added.                                       *)
LEMMA QuietStep ==
  ASSUME ControlInv, RingInv, Counters, ScanInv, Quiet
  PROVE  /\ UNCHANGED <<build, scan, counter, discard>>
         /\ Handled' = Handled /\ pending \subseteq pending'
         /\ Queued' \subseteq Queued
         /\ \A b \in Buffers :
              /\ frame'[b].counter = frame[b].counter
              /\ frame'[b].flags = frame[b].flags
              /\ frame'[b].scans = frame[b].scans
<1>1. CASE Hardware
  <2>1. UNCHANGED <<frame, build, scan, counter, discard, pending, ringVars>>
    BY <1>1 DEF Hardware, AdcScanEnds, DmaBeat, DmaFails, ChannelDrains,
       ByteShifts, buildVars
  <2>2. Handled' = Handled
    BY <1>1 DEF Hardware, AdcScanEnds, DmaBeat, DmaFails, ChannelDrains,
       ByteShifts, adcVars, Handled, Counters
  <2> QED BY <2>1, <2>2 DEF ringVars, Queued, ReadyAt
<1>2. CASE TxUnexpected \/ TxComplete \/ TxcInterrupt \/ PickFrame \/ ReadForCrc
             \/ StartTransfer \/ ChannelRefused \/ UNCHANGED vars
  <2>1. UNCHANGED <<frame, build, scan, counter, discard, tick, adc, ringVars>>
    BY <1>2 DEF TxUnexpected, TxComplete, TxcInterrupt, PickFrame, ReadForCrc,
       StartTransfer, ChannelRefused, vars, buildVars, adcVars
  <2>2. pending \subseteq pending'
    BY <1>2 DEF TxUnexpected, TxComplete, TxcInterrupt, PickFrame, ReadForCrc,
       StartTransfer, ChannelRefused, vars
  <2> QED BY <2>1, <2>2 DEF ringVars, Queued, ReadyAt, Handled
<1>3. CASE TxFails \/ TxcRelease
  <2>1. Queued' \subseteq Queued
    BY <1>3, QueuedAfterRelease DEF TxFails, TxcRelease
  <2>2. UNCHANGED <<frame, build, scan, counter, discard, tick, adc>>
    BY <1>3 DEF TxFails, TxcRelease, buildVars, adcVars
  <2>3. pending \subseteq pending'
    BY <1>3 DEF TxFails, TxcRelease, ReleaseFrame
  <2> QED BY <2>1, <2>2, <2>3 DEF Handled
<1>4. CASE SelectReceiver
  <2>1. /\ frame' = [frame EXCEPT ![chosen] = [@ EXCEPT !.crc32 = crc]]
        /\ UNCHANGED <<build, scan, counter, discard, tick, adc, pending>>
        /\ Queued' = Queued
    BY <1>4 DEF SelectReceiver, ringVars, adcVars, Queued, ReadyAt
  <2>2. /\ DOMAIN frame = Buffers /\ chosen \in Buffers
        /\ FrameShape(frame[chosen])
    BY DEF Counters, RingInv, RingOK, ScanInv
  <2>3. \A b \in Buffers \ {chosen} : frame'[b] = frame[b]
    BY <2>1, <2>2
  <2>4. frame'[chosen] = [frame[chosen] EXCEPT !.crc32 = crc]
    BY <2>1, <2>2
  <2>5. /\ frame'[chosen].counter = frame[chosen].counter
        /\ frame'[chosen].flags = frame[chosen].flags
        /\ frame'[chosen].scans = frame[chosen].scans
    BY <2>2, <2>4, CrcOfSealed
  <2> QED BY <2>1, <2>3, <2>5 DEF Handled
<1> QED BY <1>1, <1>2, <1>3, <1>4
        DEF Quiet, TxHandler, TxcHandler, Main

(* A channel stops for good when it has read the last part, so one that can *)
(* still fail has not.                                                      *)
LEMMA FailStep ==
  ASSUME ControlInv, Counters, SendInv, FailInv, [Next]_vars PROVE FailInv'
<1>1. CASE DmaBeat
  BY <1>1, PartsPositive DEF DmaBeat, FailInv, SendInv, Counters
<1>2. CASE DmaFails \/ ChannelDrains
  BY <1>2 DEF DmaFails, ChannelDrains, FailInv, SendInv
<1>3. CASE AdcScanEnds \/ ByteShifts \/ AdcHandler \/ TxcInterrupt \/ PickFrame
             \/ ReadForCrc \/ SelectReceiver \/ ChannelRefused \/ UNCHANGED vars
  <2>1. UNCHANGED <<active, channel, sent, txIrq>>
    BY <1>3 DEF AdcScanEnds, ByteShifts, AdcHandler, RecoverAdc, DiscardScan,
       CaptureScan, FinalizeDropped, FinalizeQueued, TxcInterrupt, PickFrame,
       ReadForCrc, SelectReceiver, ChannelRefused, vars, dmaVars
  <2> QED BY <2>1 DEF FailInv
<1>4. CASE TxUnexpected \/ TxComplete
  BY <1>4 DEF TxUnexpected, TxComplete, FailInv, ControlInv
<1>5. CASE TxFails \/ TxcRelease
  BY <1>5 DEF TxFails, TxcRelease, ReleaseFrame, FailInv
<1>6. CASE StartTransfer
  BY <1>6, PartsPositive, ScansPositive DEF StartTransfer, FailInv
<1> QED BY <1>1, <1>2, <1>3, <1>4, <1>5, <1>6
        DEF Next, Hardware, TxHandler, TxcHandler, Main

(* What a step of the interrupt does to the frames: it completes a frame    *)
(* under construction, which is then none of those that waited.             *)
LEMMA AdcFacts ==
  ASSUME RingInv, Counters, ScanInv, AdcHandler
  PROVE  /\ build \in Buffers /\ build \notin Queued /\ Queued \subseteq Buffers
         /\ \A b \in Queued : frame'[b] = frame[b]
         /\ tick \in Nat /\ counter \in Nat /\ scan \in 0 .. Scans - 1
         /\ adc # "none" /\ Handled = tick - 1 /\ Handled' = tick
<1>1. adc # "none" /\ adc' = "none" /\ tick' = tick
  BY DEF AdcHandler, RecoverAdc, DiscardScan, CaptureScan,
     FinalizeDropped, FinalizeQueued
<1>2. build \in Buffers /\ build \notin Queued /\ Queued \subseteq Buffers
  BY QueuedBuffers DEF RingInv, RingOK, BuildIsPrivate
<1>3. \A b \in Queued : frame'[b] = frame[b]
  BY <1>2, FrameAdc
<1> QED BY <1>1, <1>2, <1>3 DEF Handled, Counters

(* The interrupt's write to the frame it builds.                            *)
LEMMA TakenFacts ==
  ASSUME RingInv, Counters, ScanInv,
         CaptureScan \/ FinalizeDropped \/ FinalizeQueued
  PROVE  /\ frame'[build].counter =
              IF scan = 0 THEN counter ELSE frame[build].counter
         /\ frame'[build].scans = [frame[build].scans EXCEPT ![scan + 1] = tick]
         /\ frame[build].scans \in [1 .. Scans -> Nat]
         /\ ~CaptureScan => frame'[build].flags = pending
         /\ counter' = counter + 1
<1>1. /\ build \in Buffers /\ DOMAIN frame = Buffers /\ tick \in Nat
      /\ scan \in 0 .. Scans - 1 /\ FrameShape(frame[build])
  BY DEF RingInv, RingOK, Counters, ScanInv
<1>2. CASE CaptureScan
  <2>1. frame'[build] = Captured /\ counter' = counter + 1
    BY <1>1, <1>2 DEF CaptureScan
  <2>2. /\ Captured.scans = [frame[build].scans EXCEPT ![scan + 1] = tick]
        /\ Captured.counter = IF scan = 0 THEN counter ELSE frame[build].counter
    BY <1>1, CapturedFacts
  <2> QED BY <1>1, <1>2, <2>1, <2>2 DEF FrameShape
<1>3. CASE FinalizeDropped \/ FinalizeQueued
  <2>1. frame'[build] = Finalized /\ counter' = counter + 1
    BY <1>1, <1>3 DEF FinalizeDropped, FinalizeQueued
  <2>2. /\ Finalized.scans = [frame[build].scans EXCEPT ![scan + 1] = tick]
        /\ Finalized.counter = IF scan = 0 THEN counter ELSE frame[build].counter
        /\ Finalized.flags = pending
    BY <1>1, FinalizedFacts
  <2> QED BY <1>1, <2>1, <2>2 DEF FrameShape
<1> QED BY <1>2, <1>3

(* capture_spi_scan counts every scan it uses, and a frame takes the count  *)
(* of its first.                                                            *)
LEMMA CountStep ==
  ASSUME ControlInv, RingInv, Counters, ScanInv, CountInv, [Next]_vars
  PROVE  CountInv'
<1>1. CASE Quiet
  <2>1. /\ UNCHANGED <<build, scan, counter>> /\ Queued' \subseteq Queued
        /\ \A b \in Buffers : frame'[b].counter = frame[b].counter
    BY <1>1, QuietStep
  <2>2. build \in Buffers /\ Queued \subseteq Buffers
    BY QueuedBuffers DEF RingInv, RingOK
  <2> QED BY <2>1, <2>2 DEF CountInv
<1>2. CASE AdcHandler
  <2>1. /\ build \in Buffers /\ build \notin Queued /\ Queued \subseteq Buffers
        /\ \A b \in Queued : frame'[b] = frame[b]
        /\ counter \in Nat /\ scan \in 0 .. Scans - 1
    BY <1>2, AdcFacts
  <2>2. CASE RecoverAdc \/ DiscardScan
    <3>1. scan' = 0 /\ counter' = counter /\ Queued' = Queued
      BY <2>2 DEF RecoverAdc, DiscardScan, ScanInv, ringVars, Queued, ReadyAt
    <3> QED BY <2>1, <3>1 DEF CountInv
  <2>3. CASE CaptureScan
    <3>1. build' = build /\ scan' = scan + 1 /\ Queued' = Queued
      BY <2>3 DEF CaptureScan, ringVars, Queued, ReadyAt
    <3>2. /\ counter' = counter + 1
          /\ frame'[build].counter =
               IF scan = 0 THEN counter ELSE frame[build].counter
      BY <2>3, TakenFacts
    <3>3. frame'[build].counter \in Nat /\ frame'[build].counter + scan = counter
      BY <2>1, <3>2 DEF CountInv
    <3> QED BY <2>1, <3>1, <3>2, <3>3, ScansPositive DEF CountInv
  <2>4. CASE FinalizeDropped \/ FinalizeQueued
    <3>1. scan' = 0 /\ scan + 1 = Scans /\ Queued' \subseteq Queued \cup {build}
      BY <2>4, QueuedAfterAppend
      DEF FinalizeDropped, FinalizeQueued, ringVars, Queued, ReadyAt
    <3>2. /\ counter' = counter + 1
          /\ frame'[build].counter =
               IF scan = 0 THEN counter ELSE frame[build].counter
      BY <2>4, TakenFacts
    <3>3. frame'[build].counter \in Nat /\ frame'[build].counter + scan = counter
      BY <2>1, <3>2 DEF CountInv
    <3>4. frame'[build].counter + Scans <= counter'
      BY <2>1, <3>1, <3>2, <3>3, ScansPositive
    <3>5. \A b \in Queued :
            frame'[b].counter \in Nat /\ frame'[b].counter + Scans <= counter'
      BY <2>1, <3>2, ScansPositive DEF CountInv
    <3> QED BY <3>1, <3>3, <3>4, <3>5 DEF CountInv
  <2> QED BY <1>2, <2>2, <2>3, <2>4 DEF AdcHandler
<1> QED BY <1>1, <1>2 DEF Next, Quiet

(* Writing the scan at place n + 1 of a frame.                              *)
LEMMA FirstScan ==
  ASSUME NEW s \in [1 .. Scans -> Nat], NEW n \in 0 .. Scans - 1, NEW v \in Nat
  PROVE  /\ n = 0 => [s EXCEPT ![n + 1] = v][1] = v
         /\ n > 0 => [s EXCEPT ![n + 1] = v][1] = s[1]
         /\ [s EXCEPT ![n + 1] = v][n + 1] = v
<1>1. 1 \in 1 .. Scans /\ n + 1 \in 1 .. Scans /\ (n > 0 => n + 1 # 1)
  BY ScansPositive
<1> QED BY <1>1

(* Once x is what follows l, no step makes it otherwise.                    *)
LEMMA FollowsKept ==
  ASSUME ControlInv, RingInv, Counters, ScanInv, CountInv, [Next]_vars,
         NEW x \in Nat, NEW l \in Nat, FollowsOn(x, l)
  PROVE  FollowsOn(x, l)'
<1>1. CASE Quiet
  <2>1. /\ UNCHANGED <<build, scan, counter, discard>>
        /\ Handled' = Handled /\ pending \subseteq pending'
        /\ Queued' \subseteq Queued
        /\ \A b \in Buffers :
             /\ frame'[b].counter = frame[b].counter
             /\ frame'[b].flags = frame[b].flags
             /\ frame'[b].scans = frame[b].scans
    BY <1>1, QuietStep
  <2>2. build \in Buffers /\ Queued \subseteq Buffers
    BY QueuedBuffers DEF RingInv, RingOK
  <2> HIDE DEF Handled
  <2> QED BY <2>1, <2>2 DEF FollowsOn, Told
<1>2. CASE AdcHandler
  <2>1. /\ build \in Buffers /\ build \notin Queued /\ Queued \subseteq Buffers
        /\ \A b \in Queued : frame'[b] = frame[b]
        /\ tick \in Nat /\ counter \in Nat /\ scan \in 0 .. Scans - 1
        /\ adc # "none" /\ Handled = tick - 1 /\ Handled' = tick
    BY <1>2, AdcFacts
  <2>2. CASE RecoverAdc
    <3>1. /\ scan' = 0 /\ counter' = counter /\ Queued' = Queued
          /\ pending' = pending \cup Reported
      BY <2>2 DEF RecoverAdc, ringVars, Queued, ReadyAt
    <3>2. Told(pending')
      BY <2>2, <3>1 DEF RecoverAdc, Reported, Told, SampleErrors
    <3> QED BY <2>1, <3>1, <3>2 DEF FollowsOn, Told
  <2>3. CASE DiscardScan
    <3>1. /\ scan' = 0 /\ counter' = counter /\ Queued' = Queued
          /\ pending' = pending /\ discard
      BY <2>3 DEF DiscardScan, ScanInv, ringVars, Queued, ReadyAt
    <3> QED BY <2>1, <3>1 DEF FollowsOn, Told
  <2>4. CASE CaptureScan \/ FinalizeDropped \/ FinalizeQueued
    <3> DEFINE t == [frame[build].scans EXCEPT ![scan + 1] = tick]
    <3>1. /\ frame'[build].counter =
               IF scan = 0 THEN counter ELSE frame[build].counter
          /\ frame'[build].scans = t
          /\ frame[build].scans \in [1 .. Scans -> Nat]
          /\ ~CaptureScan => frame'[build].flags = pending
          /\ counter' = counter + 1
      BY <2>4, TakenFacts
    <3>2. /\ scan = 0 => t[1] = tick
          /\ scan > 0 => t[1] = frame[build].scans[1]
      BY <2>1, <3>1, FirstScan
    <3> HIDE DEF t
    <3>3. x <= counter' /\ counter' # x
      BY <2>1, <3>1 DEF FollowsOn
    <3>4. ~discard
      BY <2>4 DEF CaptureScan, FinalizeDropped, FinalizeQueued
    <3>5. frame'[build].counter = x
            => Told(pending) \/ frame'[build].scans[1] = l + 1
      <4>1. CASE scan = 0
        BY <2>1, <3>1, <3>2, <3>4, <4>1 DEF FollowsOn
      <4>2. CASE scan > 0
        BY <3>1, <3>2, <4>2 DEF FollowsOn
      <4> QED BY <2>1, <4>1, <4>2
    <3>6. \A b \in Queued :
            frame'[b].counter = x
              => Told(frame'[b].flags) \/ frame'[b].scans[1] = l + 1
      BY <2>1 DEF FollowsOn
    <3>7. CASE CaptureScan
      <4>1. build' = build /\ pending' = pending /\ Queued' = Queued
        BY <3>7 DEF CaptureScan, ringVars, Queued, ReadyAt
      <4> QED BY <3>3, <3>5, <3>6, <4>1 DEF FollowsOn, Told
    <3>8. CASE FinalizeDropped \/ FinalizeQueued
      <4>1. scan' = 0 /\ ~CaptureScan
        BY <3>8, <2>1 DEF FinalizeDropped, FinalizeQueued, CaptureScan
      <4>2. Queued' \subseteq Queued \cup {build}
        BY <3>8, QueuedAfterAppend
        DEF FinalizeDropped, ringVars, Queued, ReadyAt
      <4>3. frame'[build].flags = pending
        BY <3>1, <4>1
      <4>4. \A b \in Queued' :
              frame'[b].counter = x
                => Told(frame'[b].flags) \/ frame'[b].scans[1] = l + 1
        BY <3>5, <3>6, <4>2, <4>3
      <4> QED BY <3>3, <4>1, <4>4 DEF FollowsOn, Told
    <3> QED BY <2>4, <3>7, <3>8
  <2> QED BY <1>2, <2>2, <2>3, <2>4 DEF AdcHandler
<1> QED BY <1>1, <1>2 DEF Next, Quiet

(* The frame that is queued now: the next one goes on after its last scan.  *)
LEMMA FollowsQueued ==
  ASSUME ControlInv, RingInv, Counters, ScanInv, CountInv, FinalizeQueued,
         NEW x \in Nat, NEW l \in Nat,
         x = frame'[build].counter + Scans, l = frame'[build].scans[Scans]
  PROVE  FollowsOn(x, l)'
<1>1. /\ build \in Buffers /\ build \notin Queued /\ Queued \subseteq Buffers
      /\ \A b \in Queued : frame'[b] = frame[b]
      /\ tick \in Nat /\ counter \in Nat /\ scan \in 0 .. Scans - 1
      /\ Handled' = tick
  <2>1. AdcHandler
    BY DEF AdcHandler
  <2> QED BY <2>1, AdcFacts
<1>2. /\ ~discard' /\ scan' = 0 /\ scan + 1 = Scans /\ Queued' = Queued \cup {build}
  BY QueuedAfterAppend DEF FinalizeQueued
<1>3. /\ frame'[build].counter = IF scan = 0 THEN counter ELSE frame[build].counter
      /\ frame'[build].scans = [frame[build].scans EXCEPT ![scan + 1] = tick]
      /\ frame[build].scans \in [1 .. Scans -> Nat]
      /\ counter' = counter + 1
  BY TakenFacts
<1>4. frame'[build].counter \in Nat /\ frame'[build].counter + scan = counter
  BY <1>1, <1>3 DEF CountInv
<1>5. x = counter' /\ x = counter + 1
  <2> DEFINE c == frame'[build].counter
  <2>1. c \in Nat /\ c + scan = counter /\ x = c + Scans /\ counter' = counter + 1
    BY <1>3, <1>4
  <2> HIDE DEF c
  <2> QED BY <1>1, <1>2, <2>1, ScansPositive
<1>6. l = tick
  BY <1>1, <1>2, <1>3, FirstScan
<1>7. \A b \in Queued' : frame'[b].counter # x
  <2>1. frame'[build].counter # x
    BY <1>4, ScansPositive
  <2>2. \A b \in Queued : frame[b].counter \in Nat /\ frame[b].counter + Scans <= counter
    BY DEF CountInv
  <2>3. \A b \in Queued : frame[b].counter # x
    BY <1>1, <1>5, <2>2, ScansPositive
  <2> QED BY <1>1, <1>2, <2>1, <2>3
<1> QED BY <1>2, <1>1, <1>5, <1>6, <1>7 DEF FollowsOn

(* Every frame that waits says what follows it.                             *)
LEMMA QueueStep ==
  ASSUME ControlInv, RingInv, Counters, ScanInv, CountInv, QueueFollows,
         [Next]_vars
  PROVE  QueueFollows'
<1> SUFFICES ASSUME NEW b \in Queued', NEW x \in Nat, NEW l \in Nat,
                    x = frame'[b].counter + Scans, l = frame'[b].scans[Scans]
             PROVE  FollowsOn(x, l)'
  BY DEF QueueFollows
<1>1. CASE b \in Queued
  <2>1. frame'[b].counter = frame[b].counter /\ frame'[b].scans = frame[b].scans
    <3>1. CASE Quiet
      <4>1. \A c \in Buffers :
              /\ frame'[c].counter = frame[c].counter
              /\ frame'[c].flags = frame[c].flags
              /\ frame'[c].scans = frame[c].scans
        BY <3>1, QuietStep
      <4> QED BY <1>1, <4>1, QueuedBuffers
    <3>2. CASE AdcHandler
      <4>1. \A c \in Queued : frame'[c] = frame[c]
        BY <3>2, AdcFacts
      <4> QED BY <1>1, <4>1
    <3> QED BY <3>1, <3>2 DEF Next, Quiet
  <2>2. FollowsOn(x, l)
    BY <1>1, <2>1 DEF QueueFollows
  <2> QED BY <2>2, FollowsKept
<1>2. CASE b \notin Queued
  <2>1. ~Quiet
    BY <1>2, QuietStep
  <2>2. ~(RecoverAdc \/ DiscardScan \/ CaptureScan \/ FinalizeDropped)
    BY <1>2 DEF RecoverAdc, DiscardScan, CaptureScan, FinalizeDropped, ringVars,
       Queued, ReadyAt
  <2>3. FinalizeQueued
    BY <2>1, <2>2 DEF Next, Quiet, AdcHandler
  <2>4. b = build
    BY <1>2, <2>3, QueuedAfterAppend
  <2> QED BY <2>3, <2>4, FollowsQueued
<1> QED BY <1>1, <1>2

-----------------------------------------------------------------------------
(* What the task makes of a transaction.                                    *)

(* Chip select falls after a whole frame, the head of the ring, or over     *)
(* less than a frame, which the task does not take.                         *)
LEMMA TransactionEnds ==
  ASSUME FirmwareInv, FailInv, Next, cs, ~cs'
  PROVE  \/ Len(wire) # Parts
         \/ TxcInterrupt /\ active /\ wire = Sent(frame[chosen], Parts)
<1>1. ASSUME NEW f, NEW n \in Nat PROVE Len(Sent(f, n)) = n
  BY DEF Sent
<1>2. ~(Hardware \/ AdcHandler \/ TxUnexpected \/ TxComplete \/ TxcRelease
          \/ PickFrame \/ ReadForCrc \/ SelectReceiver \/ StartTransfer)
  BY Zenon DEF Hardware, AdcScanEnds, DmaBeat, DmaFails, ChannelDrains, ByteShifts,
     AdcHandler, RecoverAdc, DiscardScan, CaptureScan, FinalizeDropped,
     FinalizeQueued, TxUnexpected, TxComplete, TxcRelease, PickFrame,
     ReadForCrc, SelectReceiver, StartTransfer, wireVars
<1>3. CASE TxFails
  <2>1. active /\ txIrq = "error"
    BY <1>3 DEF TxFails
  <2>2. sent < Parts /\ sent \in Nat /\ OnTheWire(frame[chosen])
    BY <2>1, PartsPositive DEF FirmwareInv, WireInv, Counters, SendInv, FailInv
  <2>3. CASE shift = <<>>
    BY <1>1, <2>2, <2>3, PartsPositive DEF OnTheWire
  <2>4. CASE shift # <<>>
    <3>1. wire = Sent(frame[chosen], sent - 1) /\ sent - 1 \in Nat
      BY <2>2, <2>4 DEF OnTheWire
    <3>2. Len(wire) = sent - 1
      BY <1>1, <3>1
    <3> QED BY <2>2, <3>2, PartsPositive
  <2> QED BY <2>3, <2>4
<1>4. CASE TxcInterrupt
  <2>1. active /\ awaiting /\ txc
    BY <1>4 DEF TxcInterrupt
  <2>2. shift = <<>> /\ sent = Parts /\ OnTheWire(frame[chosen])
    BY <2>1 DEF FirmwareInv, WireInv, SendInv
  <2> QED BY <1>4, <2>1, <2>2 DEF OnTheWire
<1>5. CASE ChannelRefused
  <2>1. wire = <<>>
    BY <1>5 DEF ChannelRefused, FirmwareInv, WireInv, SendInv
  <2> QED BY <2>1, PartsPositive, ScansPositive
<1> QED BY <1>2, <1>3, <1>4, <1>5 DEF Next, TxHandler, TxcHandler, Main

(* decode_spi_raw_frame_ finds in the bytes what the frame held.            *)
LEMMA SentIsDecoded ==
  ASSUME NEW f, FrameShape(f)
  PROVE  /\ Sent(f, Parts)[1][2] = f.flags
         /\ Sent(f, Parts)[1][3] = f.counter
         /\ [i \in 1 .. Scans |-> Sent(f, Parts)[i + 1][1]] = f.scans
<1> DEFINE w == Sent(f, Parts)
<1>1. \A i \in 1 .. Scans + 1 : w[i] = Covered(f)[i]
  BY PartsPositive, ScansPositive DEF Sent, Part
<1>2. 1 \in 1 .. Scans + 1
  BY ScansPositive
<1>3. Covered(f)[1] = Header(f)
  BY <1>2 DEF Covered
<1>4. w[1] = <<f.sequence, f.flags, f.counter>>
  BY <1>1, <1>2, <1>3 DEF Header
<1>5. \A i \in 1 .. Scans : w[i + 1][1] = f.scans[i]
  <2>1. \A i \in 2 .. Scans + 1 : Covered(f)[i] = <<f.scans[i - 1]>>
    BY ScansPositive DEF Covered
  <2> HIDE DEF w
  <2> SUFFICES ASSUME NEW i \in 1 .. Scans PROVE w[i + 1][1] = f.scans[i]
    OBVIOUS
  <2>2. i + 1 \in 2 .. Scans + 1 /\ i + 1 \in 1 .. Scans + 1 /\ (i + 1) - 1 = i
    BY ScansPositive
  <2>3. w[i + 1] = <<f.scans[i]>>
    BY <1>1, <2>1, <2>2
  <2> QED BY <2>3
<1> HIDE DEF w
<1>6. [i \in 1 .. Scans |-> w[i + 1][1]] = f.scans
  <2>1. f.scans = [i \in 1 .. Scans |-> f.scans[i]]
    BY DEF FrameShape
  <2> QED BY <1>5, <2>1
<1> QED BY <1>4, <1>6 DEF w

(* Two steady runs of which one goes on where the other ends.               *)
LEMMA Joined ==
  ASSUME NEW w \in Seq(Nat), NEW s \in [1 .. Scans -> Nat],
         Steady(w, Len(w)), Steady(s, Scans),
         w # <<>> => s[1] = w[Len(w)] + 1
  PROVE  /\ w \o s \in Seq(Nat) /\ w \o s # <<>>
         /\ Len(w \o s) = Len(w) + Scans
         /\ (w \o s)[Len(w \o s)] = s[Scans]
         /\ Steady(w \o s, Len(w \o s))
<1> DEFINE u == w \o s
<1>1. s \in Seq(Nat) /\ Len(s) = Scans /\ Len(w) \in Nat
  BY ScansPositive
<1>2. /\ u \in Seq(Nat) /\ Len(u) = Len(w) + Scans
      /\ \A i \in 1 .. Len(w) + Scans :
           u[i] = IF i <= Len(w) THEN w[i] ELSE s[i - Len(w)]
  BY <1>1, ConcatProperties
<1> HIDE DEF u
<1>3. u # <<>> /\ u[Len(u)] = s[Scans]
  <2> DEFINE n == Len(w)
             k == n + Scans
  <2>1. n \in Nat /\ k = n + Scans /\ Len(u) = k
    BY <1>1, <1>2
  <2>2. \A i \in 1 .. k : u[i] = IF i <= n THEN w[i] ELSE s[i - n]
    BY <1>2
  <2> HIDE DEF n, k
  <2>3. k \in 1 .. k /\ ~(k <= n) /\ k - n = Scans /\ k # 0
    BY <2>1, ScansPositive
  <2>4. u[k] = s[Scans]
    BY <2>2, <2>3
  <2> QED BY <2>1, <2>3, <2>4
<1>4. ASSUME NEW i \in 1 .. Len(u) - 1 PROVE u[i + 1] = u[i] + 1
  <2> DEFINE n == Len(w)
  <2>1. /\ n \in Nat /\ i \in 1 .. n + Scans /\ i + 1 \in 1 .. n + Scans
        /\ i \in Nat
    BY <1>1, <1>2, ScansPositive
  <2>2. /\ u[i] = IF i <= n THEN w[i] ELSE s[i - n]
        /\ u[i + 1] = IF i + 1 <= n THEN w[i + 1] ELSE s[(i + 1) - n]
    BY <1>2, <2>1
  <2> HIDE DEF n
  <2>3. CASE i + 1 <= n
    <3>1. i \in 1 .. n - 1 /\ i <= n
      BY <2>1, <2>3
    <3> QED BY <2>2, <2>3, <3>1 DEF Steady, n
  <2>4. CASE i = n
    <3>1. (i + 1) - n = 1 /\ ~(i + 1 <= n) /\ i <= n /\ n # 0
      BY <2>1, <2>4
    <3>2. w # <<>>
      BY <3>1 DEF n
    <3> QED BY <2>2, <2>4, <3>1, <3>2 DEF n
  <2>5. CASE i > n
    <3>1. /\ (i + 1) - n = (i - n) + 1 /\ ~(i + 1 <= n) /\ ~(i <= n)
          /\ i - n \in 1 .. Scans - 1
      BY <2>1, <2>5, ScansPositive
    <3> QED BY <2>2, <3>1 DEF Steady
  <2> QED BY <2>1, <2>3, <2>4, <2>5
<1> QED BY <1>1, <1>2, <1>3, <1>4 DEF Steady, u

(* What the window waits for stays right while the task is not served.      *)
LEMMA WindowKept ==
  ASSUME FirmwareInv, CountInv, WindowInv, [Next]_vars, UNCHANGED <<expected, window>>
  PROVE  WindowInv'
<1>1. \A x \in expected : \A l \in Nat : l = window[Len(window)] => FollowsOn(x, l)'
  <2> SUFFICES ASSUME NEW x \in expected, NEW l \in Nat, l = window[Len(window)]
               PROVE  FollowsOn(x, l)'
    OBVIOUS
  <2>1. x \in Nat /\ FollowsOn(x, l)
    BY DEF WindowInv
  <2> QED BY <2>1, FollowsKept DEF FirmwareInv, WireInv
<1> QED BY <1>1 DEF WindowInv, WindowHasNoHole

(* A frame is added to the window only if it has the number expected, and   *)
(* then it goes on where the window ends; otherwise it starts a window.     *)
LEMMA WindowDecoded ==
  ASSUME FirmwareInv, CountInv, FailInv, QueueFollows, WindowInv, Next, cs, ~cs',
         ProtocolValid(wire), ~Told(wire[1][2]), Decode(wire)
  PROVE  WindowInv'
<1> DEFINE f == frame[chosen]
<1>1. active /\ wire = Sent(f, Parts)
  BY TransactionEnds DEF ProtocolValid
<1>2. /\ chosen \in Queued /\ FrameShape(f) /\ Steady(f.scans, Scans)
      /\ f.counter \in Nat
  BY <1>1, HeadIsQueued DEF FirmwareInv, WireInv, ScanInv, CountInv
<1>3. f.scans \in [1 .. Scans -> Nat] /\ f.scans[Scans] \in Nat
  BY <1>2, ScansPositive DEF FrameShape
<1>4. /\ Sent(f, Parts)[1][2] = f.flags
      /\ Sent(f, Parts)[1][3] = f.counter
      /\ [i \in 1 .. Scans |-> Sent(f, Parts)[i + 1][1]] = f.scans
  <2> HIDE DEF f
  <2> QED BY <1>2, SentIsDecoded
<1> DEFINE c == f.counter
           s == f.scans
           x == c + Scans
           l == s[Scans]
<1>5. /\ window' = IF expected \subseteq {c} THEN window \o s ELSE s
      /\ expected' = {x} /\ ~Told(f.flags)
  <2> HIDE DEF f
  <2> QED BY <1>1, <1>4 DEF Decode
<1>6. \A y, m \in Nat : y = x /\ m = l => FollowsOn(y, m)'
  <2> SUFFICES ASSUME NEW y \in Nat, NEW m \in Nat, y = x, m = l
               PROVE  FollowsOn(y, m)'
    OBVIOUS
  <2>1. FollowsOn(y, m)
    BY <1>2 DEF QueueFollows
  <2> QED BY <2>1, FollowsKept DEF FirmwareInv, WireInv
<1>7. /\ window' \in Seq(Nat) /\ window' # <<>> /\ window'[Len(window')] = l
      /\ Steady(window', Len(window'))
  <2>1. CASE expected \subseteq {c}
    <3>1. ASSUME window # <<>> PROVE s[1] = window[Len(window)] + 1
      <4>1. c \in expected /\ window[Len(window)] \in Nat
        BY <2>1, <3>1 DEF WindowInv
      <4>2. FollowsOn(c, window[Len(window)])
        BY <4>1 DEF WindowInv
      <4> QED BY <1>2, <1>5, <4>2 DEF FollowsOn
    <3>2. window \in Seq(Nat) /\ Steady(window, Len(window))
      BY DEF WindowInv, WindowHasNoHole, Steady
    <3>3. s \in [1 .. Scans -> Nat] /\ Steady(s, Scans)
      BY <1>2, <1>3
    <3>4. window' = window \o s
      BY <1>5, <2>1
    <3> HIDE DEF f, c, s, x
    <3>5. /\ window \o s \in Seq(Nat) /\ window \o s # <<>>
          /\ (window \o s)[Len(window \o s)] = s[Scans]
          /\ Steady(window \o s, Len(window \o s))
      BY <3>1, <3>2, <3>3, Joined
    <3> QED BY <3>4, <3>5
  <2>2. CASE ~(expected \subseteq {c})
    <3>1. window' = s /\ s \in [1 .. Scans -> Nat] /\ Steady(s, Scans)
      BY <1>2, <1>3, <1>5, <2>2
    <3> HIDE DEF f, c, s, x
    <3>2. s \in Seq(Nat) /\ Len(s) = Scans /\ s # <<>>
      BY <3>1, ScansPositive
    <3> QED BY <3>1, <3>2
  <2> QED BY <2>1, <2>2
<1>8. x \in Nat /\ l \in Nat
  BY <1>2, <1>3, ScansPositive
<1>9. WindowHasNoHole'
  BY <1>7 DEF WindowHasNoHole, Steady
<1>10. \A y \in expected' : \A m \in Nat :
          m = window'[Len(window')] => FollowsOn(y, m)'
  <2> HIDE DEF f, c, s, x, l
  <2> QED BY <1>5, <1>6, <1>7, <1>8
<1> HIDE DEF f, c, s, x, l
<1> QED BY <1>5, <1>7, <1>8, <1>9, <1>10 DEF WindowInv

(* process_spi_frame_, whatever became of the transaction.                  *)
LEMMA TransmitStep ==
  ASSUME FirmwareInv, CountInv, FailInv, QueueFollows, WindowInv, Transmit
  PROVE  WindowInv'
<1>1. CASE UNCHANGED <<expected, window>>
  BY <1>1, WindowKept DEF Transmit
<1>2. CASE ResetMetering
  BY <1>2 DEF ResetMetering, WindowInv, WindowHasNoHole
<1>3. CASE ProtocolValid(wire) /\ ~Told(wire[1][2]) /\ Decode(wire)
  BY <1>3, WindowDecoded DEF Transmit
<1> QED BY <1>1, <1>2, <1>3 DEF Transmit, Process, Told

LinkInv ==
  FirmwareInv /\ CountInv /\ FailInv /\ QueueFollows /\ WindowInv

(* Both ends at the start, and after a reset of the firmware.               *)
LinkStarted == Started /\ expected = {} /\ window = <<>>

LEMMA LinkInitial == LinkStarted => LinkInv
<1> SUFFICES ASSUME LinkStarted PROVE LinkInv
  OBVIOUS
<1> USE DEF LinkStarted
<1>1. FirmwareInv
  BY ControlInit, RingInit, TypeInit, WireInit DEF FirmwareInv
<1>2. Queued = {} /\ scan = 0 /\ ~active
  BY DEF Started, Queued
<1> QED BY <1>1, <1>2
        DEF LinkInv, CountInv, FailInv, QueueFollows, WindowInv, WindowHasNoHole

LEMMA LinkStep == LinkInv /\ (Transmit \/ Elsewhere \/ UNCHANGED linkVars) => LinkInv'
<1> SUFFICES ASSUME LinkInv, Transmit \/ Elsewhere \/ UNCHANGED linkVars
             PROVE  LinkInv'
  OBVIOUS
<1>1. [Next]_vars
  BY DEF Transmit, Elsewhere, linkVars
<1>2. FirmwareInv'
  BY <1>1, ControlStep, RingStep, PlacesStep, CountersStep, ScanStep, SealStep,
     SendStep DEF LinkInv, FirmwareInv, WireInv
<1>3. CountInv' /\ FailInv' /\ QueueFollows'
  BY <1>1, CountStep, FailStep, QueueStep DEF LinkInv, FirmwareInv, WireInv
<1>4. WindowInv'
  <2>1. CASE Transmit
    BY <2>1, TransmitStep DEF LinkInv
  <2>2. CASE Elsewhere \/ UNCHANGED linkVars
    <3>1. UNCHANGED <<expected, window>>
      BY <2>2 DEF Elsewhere, linkVars
    <3> QED BY <1>1, <3>1, WindowKept DEF LinkInv
  <2> QED BY <2>1, <2>2
<1> QED BY <1>2, <1>3, <1>4 DEF LinkInv

(* decode_spi_raw_frame_ and reset_spi_metering_state_ with the firmware's  *)
(* sample counter and flags: whatever is dropped, damaged, aborted,         *)
(* discarded or restarted on the way, the scans of one measurement window   *)
(* follow one another without a hole.                                       *)
THEOREM WindowsAreGapless == LinkSpec => []WindowHasNoHole
<1>1. LinkInit => LinkInv
  BY InitIsStarted, LinkInitial DEF LinkInit, LinkStarted
<1>2. LinkInv /\ RestartLink => LinkInv'
  <2>1. LinkInv /\ RestartLink => LinkStarted'
    BY DEF LinkInv, FirmwareInv, WireInv, Counters, RestartLink, LinkStarted, Started,
       ResetMetering
  <2>2. LinkStarted' => LinkInv'
    BY LinkInitial, PTL
  <2> QED BY <2>1, <2>2
<1>3. LinkInv /\ [LinkNext]_linkVars => LinkInv'
  BY <1>2, LinkStep DEF LinkNext
<1>4. LinkInv => WindowHasNoHole
  BY DEF LinkInv, WindowInv
<1> QED BY <1>1, <1>3, <1>4, PTL DEF LinkSpec
=============================================================================
