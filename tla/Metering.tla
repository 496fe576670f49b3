------------------------------- MODULE Metering -------------------------------
(***************************************************************************)
(* The measurement half of the ESP32 component on the SPI transport: the   *)
(* worker that closes metering windows into the journal, the main loop     *)
(* that drains the journal and feeds every window to the consumers, the    *)
(* continuity rules between two windows, and the consumers that average    *)
(* over several windows: the demand tracker with its daily maximum, the    *)
(* peak tracker and the analysis tracker.                                  *)
(*                                                                         *)
(* Time is counted in ticks.  Tick t is the span (t-1, t], a window covers *)
(* one or more ticks, and an average or a sum is represented by the set of *)
(* ticks that went into it: that is what the properties are about, the     *)
(* watts are not.                                                          *)
(***************************************************************************)
EXTENDS Integers, FiniteSets, SequencesExt

CONSTANTS
  Timeout,       \* metering_timeout_ms_
  MinWindow,     \* shortest window the worker accepts
  MaxWindow,     \* SPI_MAX_WINDOW_SAMPLES
  JournalLimit,  \* the 96 entries the journal never exceeds
  BucketTicks,   \* BUCKET_DURATION_MS
  Buckets,       \* interval_ms_ / BUCKET_DURATION_MS
  PeakTicks,     \* interval_ms_ of the peak tracker
  AnalysisTicks, \* interval_ms_ of the analysis tracker
  DayTicks,      \* length of a day
  Wrap,          \* 2^32 of the millisecond counter
  MaxNow,        \* bound: ticks of a behaviour
  MaxFaults,     \* bound: lost frames, invalid windows and receiver stops
  MaxReboots     \* bound: reboots of the ESP32

ASSUME MeteringAssumption ==
  /\ {Timeout, MinWindow, MaxWindow, JournalLimit, BucketTicks, Buckets,
      PeakTicks, AnalysisTicks, DayTicks, Wrap, MaxNow} \subseteq Nat \ {0}
  /\ {MaxFaults, MaxReboots} \subseteq Nat
  /\ MinWindow <= MaxWindow
  /\ BucketTicks * Buckets <= DayTicks
  /\ 2 * MaxNow < Wrap

VARIABLES
  now,        \* millis(), and the wall clock with it
  clockValid, \* time_->now().is_valid()
  stream,     \* the worker's accumulator, window sequence and epoch
  journal,    \* spi_metering_queue_
  loop,       \* where the main loop is and how many entries it may still take
  session,    \* last_metering_*, metering_data_stale_
  shown,      \* end of the window whose power the power sensor shows
  demand,     \* the demand tracker's bucket ring
  daily,      \* the demand tracker's day and daily maximum
  peak,       \* the peak tracker's open window
  analysis,   \* the analysis tracker's sums and the result waiting
  pref,       \* last preference saved, and what the flash holds of it
  faults, reboots

vars == <<now, clockValid, stream, journal, loop, session, shown, demand,
          daily, peak, analysis, pref, faults, reboots>>

None == 0
Unknown == -1   \* the NaN a sensor shows
IntMax == Wrap \div 2 - 1
Interval == BucketTicks * Buckets
Elapsed(from, to) == (to - from) % Wrap

\* Mutant: the partial windows at both ends of the horizon are forgotten.
CapacityOfWholeWindows == Timeout \div MinWindow

\* Journal capacity: the freshness horizon in windows, with bounded memory.
Capacity == LET horizon == Timeout \div MinWindow + 2
            IN  IF horizon < JournalLimit THEN horizon ELSE JournalLimit

\* Day key of the wall clock at an instant, and day a tick belongs to.
DayAt(t) == t \div DayTicks + 1
DayOfTick(t) == (t - 1) \div DayTicks + 1

TicksOf(w) == (w.end - w.duration + 1) .. w.end

-------------------------------------------------------------------------------
(* Consumers                                                               *)

EmptyRing ==
  [buckets |-> [i \in 0 .. Buckets - 1 |-> {}], index |-> 0, count |-> 0,
   sum |-> {}, current |-> {}]
NoPeak == [open |-> FALSE, start |-> 0, ticks |-> {}]
NoAnalysis == [sum |-> {}, pending |-> {}]
NoDay == [key |-> 0, start |-> 0, maximum |-> {}]
NothingSaved == [key |-> 0, maximum |-> {}]

\* publish_and_save_maximum_ and reset_daily_maximum_: the pair of the daily
\* state and the preference.
SaveMaximum(d, maximum) ==
  [day  |-> [d.day EXCEPT !.maximum = maximum],
   pref |-> [d.pref EXCEPT !.saved = [key |-> d.day.key, maximum |-> maximum]]]
ResetDailyMaximum(d, key) ==
  SaveMaximum([d EXCEPT !.day =
                 [key |-> key, start |-> now, maximum |-> d.day.maximum]], {})

CheckDay(d) ==
  IF ~clockValid \/ d.day.key = DayAt(now)
  THEN d
  ELSE IF d.day.key = 0 /\ d.pref.restored.key = DayAt(now)
       THEN LET maximum == d.pref.restored.maximum
            IN  [d EXCEPT !.day =
                   [key |-> DayAt(now), maximum |-> maximum,
                    start |-> IF maximum = {} THEN now
                              ELSE (now - Interval) % Wrap]]
       ELSE ResetDailyMaximum(d, DayAt(now))

\* Mutant: a window that ended before the day was observed counts for it.
CountsForTodayWrapped(d, end) ==
  d.day.key # 0 /\ Elapsed(d.day.start, end) >= Interval

\* A full ring gives a demand value; it becomes the daily maximum only when
\* the whole interval lies after the start of the day as it was observed.
CountsForToday(d, end) ==
  LET elapsed == Elapsed(d.day.start, end)
  IN  d.day.key # 0 /\ elapsed <= IntMax /\ elapsed >= Interval

NextBucket(r) ==
  LET full == r.count = Buckets
      oldest == r.buckets[r.index]
  IN  [buckets |-> [r.buckets EXCEPT ![r.index] = r.current],
       index   |-> (r.index + 1) % Buckets,
       count   |-> IF full THEN r.count ELSE r.count + 1,
       sum     |-> (IF full THEN r.sum \ oldest ELSE r.sum) \union r.current,
       current |-> {}]

\* finish_bucket_.  larger says whether the new demand exceeds the maximum.
FinishBucket(d, end, larger) ==
  LET ring == NextBucket(d.ring)
      today == CheckDay([day |-> d.day, pref |-> d.pref])
      kept == IF CountsForToday(today, end)
                 /\ (today.day.maximum = {} \/ larger)
              THEN SaveMaximum(today, ring.sum)
              ELSE today
  IN  IF ring.count # Buckets
      THEN [d EXCEPT !.ring = ring]
      ELSE [ring |-> ring, day |-> kept.day, pref |-> kept.pref]

\* add_interval_sample: chunk by chunk, a bucket finished where it fills up.
AddTick(d, t, larger) ==
  LET next == [d EXCEPT !.ring.current = @ \union {t}]
  IN  IF Cardinality(next.ring.current) = BucketTicks
      THEN FinishBucket(next, t, larger)
      ELSE next
AddInterval(d, w, larger) ==
  IF ~w.ok
  THEN [d EXCEPT !.ring = EmptyRing]
  ELSE LET after[i \in 0 .. w.duration] ==
             IF i = 0 THEN d
             ELSE AddTick(after[i - 1], w.end - w.duration + i, larger)
       IN  after[w.duration]

\* loop_peak closes a window that has lasted its interval; add_sample does so
\* first, then opens one and takes the sample.
ClosePeak(p, at) ==
  IF p.open /\ Elapsed(p.start, at) >= PeakTicks THEN NoPeak ELSE p
AddPeak(p, w) ==
  LET q == ClosePeak(p, w.end)
  IN  IF ~w.ok
      THEN NoPeak
      ELSE [open |-> TRUE, start |-> IF q.open THEN q.start ELSE w.end,
            ticks |-> q.ticks \union TicksOf(w)]

\* prepare_ct_power_analysis_, store_analysis_result and, on a published
\* window, take_analysis_result.
AddAnalysis(a, w, publish) ==
  LET sum == a.sum \union TicksOf(w)
      done == Cardinality(sum) >= AnalysisTicks
      stored == IF ~w.ok THEN NoAnalysis
                ELSE IF done THEN [sum |-> {}, pending |-> sum]
                ELSE [a EXCEPT !.sum = sum]
  IN  IF publish THEN [stored EXCEPT !.pending = {}] ELSE stored

-------------------------------------------------------------------------------
(* Continuity                                                              *)

\* invalidate_metering_ acting on what the session s would feed: the demand
\* window is reset by the first of a run of calls, later ones only publish.
Invalidated(c) ==
  [session  |-> [c.session EXCEPT !.stale = TRUE], shown |-> Unknown,
   demand   |-> IF c.session.stale THEN c.demand ELSE EmptyRing,
   peak     |-> NoPeak, analysis |-> NoAnalysis,
   daily    |-> c.daily, pref |-> c.pref]

Consumers == [session |-> session, shown |-> shown, demand |-> demand,
              daily |-> daily, peak |-> peak, analysis |-> analysis,
              pref |-> pref]
SetConsumers(c) ==
  /\ session' = c.session /\ shown' = c.shown /\ demand' = c.demand
  /\ daily' = c.daily /\ peak' = c.peak /\ analysis' = c.analysis
  /\ pref' = c.pref

\* A stalled main loop must not bridge its own gap ...
StalledLoop(c) ==
  IF ~c.session.stale /\ now - c.session.last > Timeout
  THEN Invalidated(c) ELSE c
\* ... nor may a window follow one it was not acquired right after.
Discontinuity(c, w) ==
  IF c.session.known /\ (\/ w.epoch # c.session.epoch
                         \/ w.seq - c.session.seq # 1)
  THEN Invalidated(c) ELSE c

\* Mutant: a window counts as being as young as its delivery.
AcceptAsDelivered(c, w) ==
  [c EXCEPT !.session = [stale |-> FALSE, known |-> TRUE, last |-> now,
                         seq |-> w.seq, epoch |-> w.epoch]]

Accept(c, w) ==
  [c EXCEPT !.session = [stale |-> FALSE, known |-> TRUE, last |-> w.end,
                         seq |-> w.seq, epoch |-> w.epoch]]

PublishFrame(c, w, publish, larger) ==
  LET d == AddInterval([ring |-> c.demand, day |-> c.daily, pref |-> c.pref],
                       w, larger)
  IN  [session  |-> c.session,
       shown    |-> IF ~publish THEN c.shown
                    ELSE IF w.ok THEN w.end ELSE Unknown,
       demand   |-> d.ring, daily |-> d.day, pref |-> d.pref,
       peak     |-> AddPeak(c.peak, w),
       analysis |-> AddAnalysis(c.analysis, w, publish)]

\* submit_metering_frame_
Submit(w, publish, larger) ==
  IF now - w.end > Timeout
  THEN Consumers
  ELSE PublishFrame(Accept(Discontinuity(StalledLoop(Consumers), w), w),
                    w, publish, larger)

\* check_metering_timeout_.  Later calls, once a second, change nothing but
\* publish the unknown again.
CheckTimeout(c) ==
  IF c.session.known /\ now - c.session.last > Timeout
  THEN Invalidated(c) ELSE c

-------------------------------------------------------------------------------
(* The worker: one raw frame per tick, windows closed on a crossing        *)

FreshStream(s) ==   \* reset_spi_metering_state_
  [s EXCEPT !.epoch = @ + 1, !.ticks = 0, !.synced = FALSE, !.lost = FALSE]

\* The frame of a tick does not arrive, or arrives damaged.
LoseFrame ==
  /\ faults < MaxFaults
  /\ stream' = [stream EXCEPT !.lost = TRUE]
  /\ faults' = faults + 1
  /\ UNCHANGED journal

\* After a gap in the sample counter, or from the start, the worker waits for
\* a crossing; the scans up to it are in no window.
Resync ==
  /\ stream.lost \/ ~stream.synced
  /\ stream' = [(IF stream.lost THEN FreshStream(stream) ELSE stream)
                  EXCEPT !.synced = TRUE]
  /\ UNCHANGED <<journal, faults>>

Accumulate ==
  /\ ~stream.lost /\ stream.synced
  /\ stream.ticks + 1 < MaxWindow
  /\ stream' = [stream EXCEPT !.ticks = @ + 1]
  /\ UNCHANGED <<journal, faults>>

\* Mutant: the rejected window leaves the epoch as it is.
RejectWindowUnmarked ==
  /\ ~stream.lost /\ stream.synced
  /\ faults < MaxFaults
  /\ stream' = [stream EXCEPT !.ticks = 0]
  /\ faults' = faults + 1
  /\ UNCHANGED journal

\* finish_spi_metering_window_ rejects what it cannot measure with; the next
\* window must not continue the one before.
RejectWindow ==
  /\ ~stream.lost /\ stream.synced
  /\ faults < MaxFaults
  /\ stream' = [stream EXCEPT !.ticks = 0, !.epoch = @ + 1]
  /\ faults' = faults + 1
  /\ UNCHANGED journal

\* No reference crossing within the longest window.
WindowTimesOut ==
  /\ ~stream.lost /\ stream.synced
  /\ stream.ticks + 1 = MaxWindow
  /\ faults < MaxFaults
  /\ stream' = FreshStream(stream)
  /\ faults' = faults + 1
  /\ UNCHANGED journal

\* Mutant: the queue has no limit.
CloseWindowUnbounded(ok) ==
  /\ ~stream.lost /\ stream.synced
  /\ stream.ticks + 1 >= MinWindow
  /\ ok \/ faults < MaxFaults
  /\ faults' = IF ok THEN faults ELSE faults + 1
  /\ stream' = [stream EXCEPT !.seq = @ + 1, !.ticks = 0]
  /\ journal' = Append(journal,
                      [seq |-> stream.seq + 1, epoch |-> stream.epoch,
                       end |-> now + 1, duration |-> stream.ticks + 1,
                       ok |-> ok])

\* The sequence number counts windows, those a full journal refuses included.
CloseWindow(ok) ==
  /\ ~stream.lost /\ stream.synced
  /\ stream.ticks + 1 >= MinWindow
  /\ ok \/ faults < MaxFaults
  /\ faults' = IF ok THEN faults ELSE faults + 1
  /\ stream' = [stream EXCEPT !.seq = @ + 1, !.ticks = 0]
  /\ journal' = IF Len(journal) < Capacity
                THEN Append(journal,
                            [seq |-> stream.seq + 1, epoch |-> stream.epoch,
                             end |-> now + 1, duration |-> stream.ticks + 1,
                             ok |-> ok])
                ELSE journal

Tick ==
  /\ now < MaxNow
  /\ now' = now + 1
  /\ IF stream.running
     THEN \/ LoseFrame \/ Resync \/ Accumulate \/ RejectWindow
          \/ WindowTimesOut \/ \E ok \in BOOLEAN: CloseWindow(ok)
     ELSE UNCHANGED <<stream, journal, faults>>
  /\ UNCHANGED <<clockValid, loop, session, shown, demand, daily, peak,
                 analysis, pref, reboots>>

-------------------------------------------------------------------------------
(* The main loop                                                           *)

\* publish_queued_spi_metering_ takes the entries present at its start.
StartDrain(at) == loop' = [at |-> at, left |-> Len(journal)]

BeginPass ==
  /\ loop.at = "idle" /\ stream.running
  /\ StartDrain("drain")
  /\ UNCHANGED <<now, clockValid, stream, journal, session, shown, demand,
                 daily, peak, analysis, pref, faults, reboots>>

\* Only the newest of them is published, the older ones are accumulated.
DrainOne ==
  /\ loop.left > 0
  /\ journal' = Tail(journal)
  /\ loop' = [loop EXCEPT !.left = @ - 1]
  /\ \E larger \in BOOLEAN:
       SetConsumers(Submit(Head(journal), loop.left = 1, larger))
  /\ UNCHANGED <<now, clockValid, stream, faults, reboots>>

\* Recovery stops the pipeline inside a pass, a firmware operation between
\* two; both empty the journal into the consumers before it is deleted.
StopReceiver(at) ==
  /\ faults < MaxFaults
  /\ faults' = faults + 1
  /\ stream' = [stream EXCEPT !.running = FALSE]
  /\ StartDrain(at)
  /\ UNCHANGED <<now, clockValid, journal, session, shown, demand, daily,
                 peak, analysis, pref, reboots>>
Recover == loop.at = "drain" /\ loop.left = 0 /\ StopReceiver("recover")
Halt == loop.at = "idle" /\ stream.running /\ StopReceiver("halt")
Halted ==
  /\ loop.at = "halt" /\ loop.left = 0
  /\ loop' = [loop EXCEPT !.at = "idle"]
  /\ journal' = <<>>
  /\ UNCHANGED <<now, clockValid, stream, session, shown, demand, daily, peak,
                 analysis, pref, faults, reboots>>

\* setup_spi_receiver_ creates an empty journal and a fresh stream.
SetupReceiver ==
  /\ journal' = <<>>
  /\ stream' = [FreshStream(stream) EXCEPT !.running = TRUE]

\* What follows the receiver in loop(): the timeout, then every 50 ms the
\* peaks and every second the day.
Checks(peakDue, dayDue) ==
  LET c == CheckTimeout(Consumers)
      at == IF c.session.stale THEN now ELSE c.session.last
      day == [day |-> c.daily, pref |-> c.pref]
      d == IF dayDue THEN CheckDay(day) ELSE day
  IN  [session |-> c.session, shown |-> c.shown, demand |-> c.demand,
       daily   |-> d.day, pref |-> d.pref, analysis |-> c.analysis,
       peak    |-> IF peakDue THEN ClosePeak(c.peak, at) ELSE c.peak]

EndPass ==
  /\ loop.at \in {"drain", "recover"} /\ loop.left = 0
  /\ loop' = [loop EXCEPT !.at = "idle"]
  /\ IF loop.at = "recover" THEN SetupReceiver ELSE UNCHANGED <<stream, journal>>
  /\ \E peakDue, dayDue \in BOOLEAN: SetConsumers(Checks(peakDue, dayDue))
  /\ UNCHANGED <<now, clockValid, faults, reboots>>

\* While a backup or an installation runs, loop() checks the timeout only.
PausedPass ==
  /\ loop.at = "idle" /\ ~stream.running
  /\ SetConsumers(CheckTimeout(Consumers))
  /\ UNCHANGED <<now, clockValid, stream, journal, loop, faults, reboots>>
Resume ==
  /\ loop.at = "idle" /\ ~stream.running
  /\ SetupReceiver
  /\ UNCHANGED <<now, clockValid, loop, session, shown, demand, daily, peak,
                 analysis, pref, faults, reboots>>

-------------------------------------------------------------------------------
(* Clock, flash and reboots                                                *)

ClockSync ==
  /\ ~clockValid
  /\ clockValid' = TRUE
  /\ UNCHANGED <<now, stream, journal, loop, session, shown, demand, daily,
                 peak, analysis, pref, faults, reboots>>

\* The preferences reach the flash some time after they are saved.
FlushPreferences ==
  /\ pref.flash # pref.saved
  /\ pref' = [pref EXCEPT !.flash = pref.saved]
  /\ UNCHANGED <<now, clockValid, stream, journal, loop, session, shown,
                 demand, daily, peak, analysis, faults, reboots>>

FirstStream == [running |-> TRUE, epoch |-> 1, seq |-> 0, ticks |-> 0,
                synced |-> FALSE, lost |-> FALSE]
NoSession == [stale |-> TRUE, known |-> FALSE, last |-> 0, seq |-> 0,
              epoch |-> 0]

\* The ESP32 restarts, its clock kept or not: setup() loads what the flash
\* holds.
Reboot ==
  /\ reboots < MaxReboots
  /\ reboots' = reboots + 1
  /\ clockValid' \in {FALSE, clockValid}
  /\ stream' = FirstStream
  /\ journal' = <<>>
  /\ loop' = [at |-> "idle", left |-> 0]
  /\ session' = NoSession /\ shown' = Unknown
  /\ demand' = EmptyRing /\ peak' = NoPeak /\ analysis' = NoAnalysis
  /\ daily' = NoDay
  /\ pref' = [pref EXCEPT !.saved = pref.flash, !.restored = pref.flash]
  /\ UNCHANGED <<now, faults>>

Init ==
  /\ now = 0 /\ clockValid = FALSE
  /\ stream = FirstStream /\ journal = <<>>
  /\ loop = [at |-> "idle", left |-> 0]
  /\ session = NoSession /\ shown = Unknown
  /\ demand = EmptyRing /\ peak = NoPeak /\ analysis = NoAnalysis
  /\ daily = NoDay
  /\ pref = [saved |-> NothingSaved, flash |-> NothingSaved,
             restored |-> NothingSaved]
  /\ faults = 0 /\ reboots = 0

Next ==
  \/ Tick \/ BeginPass \/ DrainOne \/ Recover \/ Halt \/ Halted \/ EndPass
  \/ PausedPass \/ Resume \/ ClockSync \/ FlushPreferences \/ Reboot

Spec == Init /\ [][Next]_vars

-------------------------------------------------------------------------------
(* Properties                                                              *)

Ticks == 1 .. MaxNow
Window == [seq: Nat, epoch: Nat, end: Ticks, duration: 1 .. MaxWindow,
           ok: BOOLEAN]
Saved == [key: 0 .. DayAt(MaxNow), maximum: SUBSET Ticks]

\* Every variable keeps to its range, the loop never expects more entries
\* than the journal holds and the journal never exceeds its capacity.
TypeOK ==
  /\ now \in 0 .. MaxNow /\ clockValid \in BOOLEAN
  /\ stream \in [running: BOOLEAN, epoch: Nat, seq: 0 .. MaxNow,
                 ticks: 0 .. MaxWindow - 1, synced: BOOLEAN, lost: BOOLEAN]
  /\ journal \in Seq(Window) /\ Len(journal) <= Capacity
  /\ loop \in [at: {"idle", "drain", "recover", "halt"}, left: 0 .. Len(journal)]
  /\ session \in [stale: BOOLEAN, known: BOOLEAN, last: 0 .. MaxNow,
                  seq: 0 .. MaxNow, epoch: Nat]
  /\ shown \in Ticks \union {Unknown}
  /\ demand.buckets \in [0 .. Buckets - 1 -> SUBSET Ticks]
  /\ demand.index \in 0 .. Buckets - 1 /\ demand.count \in 0 .. Buckets
  /\ daily.key \in 0 .. DayAt(MaxNow) /\ daily.start \in 0 .. Wrap - 1
  /\ peak.open \in BOOLEAN /\ peak.start \in 0 .. MaxNow
  /\ {demand.sum, demand.current, daily.maximum, peak.ticks, analysis.sum,
      analysis.pending} \subseteq SUBSET Ticks
  /\ {pref.saved, pref.flash, pref.restored} \subseteq Saved
  /\ faults \in 0 .. MaxFaults /\ reboots \in 0 .. MaxReboots

Contiguous(S) == \A s, t \in S: s .. t \subseteq S

\* "Only unfinished demand/peak/analysis ... must not bridge dropped windows
\* or a stream restart": whatever was lost between two windows - a raw frame,
\* a window rejected by the worker, refused by the full journal or discarded
\* as stale, a stop of the receiver, a stalled loop - no average spans it.
\* And a published demand is the average of the configured interval, no more
\* and no less, also when windows are split between buckets and the ring
\* wraps.
AveragesAreWhole ==
  /\ Contiguous(demand.sum \union demand.current)
  /\ demand.count = Buckets => Cardinality(demand.sum) = Interval
  /\ Contiguous(peak.ticks)
  /\ Contiguous(analysis.sum) /\ Contiguous(analysis.pending)

\* A daily maximum, in memory, saved or in the flash, is the demand of an
\* interval wholly inside the day it is kept under: not one that began before
\* midnight, not one that waited in the journal over midnight, not one from
\* before a reboot on another day.
MaximumIsOfItsDay ==
  \A d \in {[key |-> daily.key, maximum |-> daily.maximum],
           pref.saved, pref.flash}:
    d.maximum # {} => /\ Cardinality(d.maximum) = Interval
                      /\ \A t \in d.maximum: DayOfTick(t) = d.key

\* After every pass of loop(), whatever branch it took, a sensor shows the
\* unknown or a window that ended within the timeout.
ShownIsFresh ==
  [][EndPass \/ PausedPass =>
       shown' = Unknown \/ now - shown' <= Timeout]_vars

\* The journal covers the freshness horizon: it refuses a window only when
\* the oldest one it holds has become useless already.
DropsOnlyBehindStale ==
  [][stream'.seq > stream.seq /\ journal' = journal =>
       now' - Head(journal).end > Timeout]_vars
===============================================================================
