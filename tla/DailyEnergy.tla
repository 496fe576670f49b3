----------------------------- MODULE DailyEnergy -----------------------------
(***************************************************************************)
(* Today's energy of one power output: how the energy of a window or of    *)
(* the time between two samples is booked to a day, over midnight, before  *)
(* the clock is known, and across a restart that restores what the flash   *)
(* holds.                                                                  *)
(*                                                                         *)
(* Time is counted in ticks, tick t being the span (t-1, t].  An energy is *)
(* the set of the ticks in which it was measured; how many watt-hours that *)
(* is does not matter to when it is booked, and how often.                 *)
(***************************************************************************)
EXTENDS Integers, FiniteSets

CONSTANTS
  DayTicks,     \* length of a day
  PreMidnight,  \* pre_midnight_seconds
  MaxSampleGap, \* max_sample_gap_ms_
  MaxPass,      \* longest time from the start of a loop pass to its end
  MaxNow,       \* bound: ticks of a behaviour
  MaxReboots    \* bound: restarts

ASSUME EnergyAssumption ==
  /\ {DayTicks, MaxSampleGap, MaxNow} \subseteq Nat \ {0}
  /\ {PreMidnight, MaxPass, MaxReboots} \subseteq Nat
  /\ PreMidnight < DayTicks

VARIABLES
  external,   \* external_integration_: SPI windows, else I2C samples
  now,        \* the wall clock
  clockValid, \* time_->now().is_valid()
  timer,      \* when the midnight timeout fires, 0 when it is not set
  book,       \* total_energy_, unassigned_energy_wh_, the day they are of
  pending,    \* pending_energy_wh_ and its day key
  sampling,   \* I2C integration: last_update_ and the interval to be added
  flash,      \* what a restart restores, and what was saved since
  fed,        \* windows handed over since boot: end of the last, their ticks
  booted,     \* when the ESP32 last started
  blind,      \* ticks up to a clock synchronisation since the boot before it
  reboots

vars == <<external, now, clockValid, timer, book, pending, sampling, flash,
          fed, booted, blind, reboots>>

Never == 0   \* a timeout that is not set
NoDay == 0   \* a day key that is not known

DayAt(t) == t \div DayTicks + 1
DayOfTick(t) == (t - 1) \div DayTicks + 1
Midnight(day) == day * DayTicks   \* the instant the day ends

-------------------------------------------------------------------------------
(* Booking                                                                 *)

\* publish_state_and_save.
Save(b, f, energy) ==
  [book  |-> [b EXCEPT !.total = energy],
   flash |-> [f EXCEPT !.saved = [key |-> b.key, total |-> energy]],
   sampled |-> sampling.known]

\* check_day_.  The first check of a boot keeps a restored total of the same
\* day, otherwise only what was measured since; a later one that meets a new
\* day starts from nothing and asks for a new baseline.
CheckedDay(b, f, valid) ==
  LET today == DayAt(now)
      unchanged == [book |-> b, flash |-> f, sampled |-> sampling.known]
  IN  IF ~valid THEN unchanged
      ELSE IF ~b.known
           THEN Save([b EXCEPT !.key = today, !.known = TRUE,
                               !.unassigned = {}],
                     f, IF b.key = today THEN b.total ELSE b.unassigned)
      ELSE IF b.key # today
           THEN [Save([b EXCEPT !.key = today], f, {})
                   EXCEPT !.sampled = FALSE]
      ELSE unchanged

\* Mutant: the day an energy was measured on is not compared.
AddedRegardless(energy, key) ==
  LET c == CheckedDay(book, flash, clockValid)
  IN  [Save(IF c.book.known THEN c.book
            ELSE [c.book EXCEPT !.unassigned = @ \union energy],
            c.flash, c.book.total \union energy)
         EXCEPT !.sampled = c.sampled]

\* add_integral_wh: an energy that carries another day's key is dropped.
Added(energy, key) ==
  LET c == CheckedDay(book, flash, clockValid)
  IN  IF key # NoDay /\ c.book.known /\ key # c.book.key
      THEN c
      ELSE [Save(IF c.book.known THEN c.book
                 ELSE [c.book EXCEPT !.unassigned = @ \union energy],
                 c.flash, c.book.total \union energy)
              EXCEPT !.sampled = c.sampled]

\* schedule_midnight_reset_ checks the day, then sets the only timeout: at
\* midnight (the second it may be late is below a tick), or before it to check
\* again against a change of the offset.
NextCheck ==
  LET remaining == Midnight(DayAt(now)) - now
  IN  IF remaining > PreMidnight THEN now + remaining - PreMidnight
      ELSE now + remaining

Keep(c) ==
  /\ book' = c.book /\ flash' = c.flash
  /\ sampling' = [sampling EXCEPT !.known = c.sampled]

-------------------------------------------------------------------------------
(* SPI: windows with their acquisition time                                *)

\* Mutant: the window is taken one tick too long.
TodayFromStart(from, end) ==
  {t \in from .. end: clockValid => DayOfTick(t) >= DayAt(now)}

\* interval_energy_wh cuts off what a window has of before midnight.
Today(from, end) ==
  {t \in (from + 1) .. end: clockValid => DayOfTick(t) >= DayAt(now)}

\* Mutant: an energy without a day is dropped when the day becomes known.
AccumulateDropsUndated ==
  /\ external
  /\ \E end \in fed.end + 1 .. now: \E from \in fed.end .. end - 1:
       LET key == IF clockValid THEN DayAt(now) ELSE NoDay
       IN  /\ pending' =
                [energy |-> (IF key # pending.key THEN {} ELSE pending.energy)
                              \union Today(from, end),
                 key    |-> IF key = NoDay THEN pending.key ELSE key]
           /\ fed' = [end |-> end, ticks |-> fed.ticks \union (from + 1 .. end)]
  /\ UNCHANGED <<external, now, clockValid, timer, book, sampling, flash,
                 booted, blind, reboots>>

\* accumulate_energy.  The windows come in order and do not overlap; one
\* whose power is not finite, or that was lost, contributes nothing.
Accumulate ==
  /\ external
  /\ \E end \in fed.end + 1 .. now: \E from \in fed.end .. end - 1:
       LET key == IF clockValid THEN DayAt(now) ELSE NoDay
           stale == pending.key \notin {NoDay, key} /\ key # NoDay
       IN  /\ pending' =
                [energy |-> (IF stale THEN {} ELSE pending.energy)
                              \union Today(from, end),
                 key    |-> IF key = NoDay THEN pending.key ELSE key]
           /\ fed' = [end |-> end, ticks |-> fed.ticks \union (from + 1 .. end)]
  /\ UNCHANGED <<external, now, clockValid, timer, book, sampling, flash,
                 booted, blind, reboots>>

\* Mutant: what is published stays pending.
PublishEnergyTwice ==
  /\ external /\ pending.energy # {}
  /\ Keep(Added(pending.energy, pending.key))
  /\ UNCHANGED <<external, now, clockValid, timer, pending, fed, booted, blind,
                 reboots>>

\* publish_energy, with the newest window of a drain or an unavailable sample.
PublishEnergy ==
  /\ external /\ pending.energy # {}
  /\ pending' = [pending EXCEPT !.energy = {}]
  /\ Keep(Added(pending.energy, pending.key))
  /\ UNCHANGED <<external, now, clockValid, timer, fed, booted, blind,
                 reboots>>

-------------------------------------------------------------------------------
(* I2C: the time between two samples                                       *)

\* App.get_loop_component_start_time(): the pass that brings a sample.
StartPass ==
  /\ ~external /\ ~sampling.adding
  /\ sampling' = [sampling EXCEPT !.pass = now]
  /\ UNCHANGED <<external, now, clockValid, timer, book, pending, flash, fed,
                 booted, blind, reboots>>

\* process_metering_state_ up to add_integral_wh: the day, the baseline a
\* first sample or one after a gap sets, or an interval to be added.
Sample(finite) ==
  /\ ~external /\ ~sampling.adding
  /\ now - sampling.pass <= MaxPass
  /\ LET c == CheckedDay(book, flash, clockValid)
         at == sampling.pass
         fresh == ~c.sampled \/ at - sampling.last > MaxSampleGap
     IN  /\ book' = c.book /\ flash' = c.flash
         /\ sampling' =
              IF ~finite THEN [sampling EXCEPT !.known = FALSE]
              ELSE [known |-> TRUE, last |-> at, pass |-> at,
                    adding |-> ~fresh,
                    from |-> IF fresh THEN at ELSE sampling.last]
  /\ UNCHANGED <<external, now, clockValid, timer, pending, fed, booted, blind,
                 reboots>>

\* Its add_integral_wh, which looks at the clock again.
AddSample ==
  /\ sampling.adding
  /\ LET c == Added(sampling.from + 1 .. sampling.last, NoDay)
     IN  /\ book' = c.book /\ flash' = c.flash
         /\ sampling' = [sampling EXCEPT !.known = c.sampled,
                                         !.adding = FALSE]
  /\ UNCHANGED <<external, now, clockValid, timer, pending, fed, booted, blind,
                 reboots>>

-------------------------------------------------------------------------------
(* Clock, flash and restarts                                               *)

Tick ==
  /\ now < MaxNow
  /\ ~external => now - sampling.pass < MaxPass \/ ~sampling.adding
  /\ now' = now + 1
  /\ UNCHANGED <<external, clockValid, timer, book, pending, sampling, flash,
                 fed, booted, blind, reboots>>

MidnightTimer ==
  /\ timer # Never /\ now >= timer
  /\ Keep(CheckedDay(book, flash, clockValid))
  /\ timer' = NextCheck
  /\ UNCHANGED <<external, now, clockValid, pending, fed, booted, blind,
                 reboots>>

\* The time source synchronises; its callbacks run at once.
ClockSync ==
  /\ clockValid' = TRUE
  /\ Keep(CheckedDay(book, flash, TRUE))
  /\ timer' = NextCheck
  /\ blind' = IF clockValid THEN blind ELSE blind \union (booted + 1 .. now)
  /\ UNCHANGED <<external, now, pending, fed, booted, reboots>>

\* flash_write_interval, a safe shutdown, or an explicit synchronisation.
FlushPreferences ==
  /\ flash.stored # flash.saved
  /\ flash' = [flash EXCEPT !.stored = flash.saved]
  /\ UNCHANGED <<external, now, clockValid, timer, book, pending, sampling,
                 fed, booted, blind, reboots>>

NoEnergy == [key |-> NoDay, total |-> {}]
BookOf(restored) == [key |-> restored.key, total |-> restored.total,
                     unassigned |-> {}, known |-> FALSE]
NoPending == [energy |-> {}, key |-> NoDay]
NotSampling(at) == [known |-> FALSE, last |-> at, pass |-> at, adding |-> FALSE,
                    from |-> at]

\* The ESP32 restarts, its clock kept or not, and setup() runs.
Reboot ==
  /\ reboots < MaxReboots
  /\ reboots' = reboots + 1
  /\ \E valid \in {FALSE, clockValid}:
       LET c == CheckedDay(BookOf(flash.stored),
                           [flash EXCEPT !.saved = flash.stored], valid)
       IN  /\ clockValid' = valid
           /\ book' = c.book /\ flash' = c.flash
           /\ timer' = IF valid THEN NextCheck ELSE Never
  /\ pending' = NoPending
  /\ sampling' = NotSampling(now)
  /\ fed' = [end |-> now, ticks |-> {}]
  /\ booted' = now
  /\ blind' = IF clockValid THEN blind ELSE blind \union (booted + 1 .. now)
  /\ UNCHANGED <<external, now>>

Init ==
  /\ external \in BOOLEAN
  /\ now = 0 /\ clockValid = FALSE /\ timer = Never
  /\ book = BookOf(NoEnergy) /\ pending = NoPending
  /\ sampling = NotSampling(0)
  /\ flash = [saved |-> NoEnergy, stored |-> NoEnergy]
  /\ fed = [end |-> 0, ticks |-> {}]
  /\ booted = 0 /\ blind = {} /\ reboots = 0

Next ==
  \/ Accumulate \/ PublishEnergy
  \/ StartPass \/ (\E finite \in BOOLEAN: Sample(finite)) \/ AddSample
  \/ Tick \/ MidnightTimer \/ ClockSync \/ FlushPreferences \/ Reboot

Spec == Init /\ [][Next]_vars

-------------------------------------------------------------------------------
(* Properties                                                              *)

Ticks == 1 .. MaxNow
Days == 1 .. DayAt(MaxNow)
Stored == [key: Days \union {NoDay}, total: SUBSET Ticks]

\* Every variable keeps to its range, and nothing is measured in the future.
TypeOK ==
  /\ external \in BOOLEAN /\ now \in 0 .. MaxNow /\ clockValid \in BOOLEAN
  /\ timer \in 0 .. Midnight(DayAt(MaxNow))
  /\ book \in [key: Days \union {NoDay}, total: SUBSET Ticks,
               unassigned: SUBSET Ticks, known: BOOLEAN]
  /\ pending \in [energy: SUBSET Ticks, key: Days \union {NoDay}]
  /\ sampling \in [known: BOOLEAN, last: 0 .. now, pass: 0 .. now,
                  adding: BOOLEAN, from: 0 .. now]
  /\ flash \in [saved: Stored, stored: Stored]
  /\ fed \in [end: 0 .. now, ticks: SUBSET Ticks]
  /\ booted \in 0 .. now /\ blind \subseteq Ticks
  /\ reboots \in 0 .. MaxReboots

\* Ticks measured in a boot that had not learned the time yet.
Blind == blind \union (IF clockValid THEN {} ELSE booted + 1 .. now)

\* An I2C sample carries no time of its own: the interval that ends with it is
\* booked when the pass that brings it gets to it.
IsOf(energy, day) ==
  \A t \in energy:
    \/ DayOfTick(t) = day
    \/ t \in Blind
    \/ ~external /\ DayOfTick(t) <= day
                 /\ day <= DayOfTick(t + MaxSampleGap + MaxPass)

\* "Drain crossed midnight: never put yesterday into today": the total, saved
\* and restored ones included, holds only what was measured on its own day,
\* apart from what was measured before the day was known; without acquisition
\* times it may be off by the last sample interval before midnight.  And the
\* total does not outlive its day for want of a sample: once the day is known a
\* timeout is set that fires no later than the day's end.
EnergyIsOfItsDay ==
  /\ book.known => IsOf(book.total, book.key)
  /\ book.known => timer # Never /\ timer <= Midnight(book.key)
  /\ \A f \in {flash.saved, flash.stored}: IsOf(f.total, f.key)

\* No energy is booked twice: what waits to be booked is not in the total
\* already, and neither is the time the next sample will close.
BookedOnce ==
  /\ pending.energy \intersect book.total = {}
  /\ LET from == IF sampling.adding THEN sampling.from ELSE sampling.last
     IN  sampling.known => \A t \in book.total: t <= from

\* "Energy ... consume[s] every usable window": of the windows handed over
\* since the boot, today's part is in the total or waits to be booked, whether
\* the time was known then or not, through midnight and time synchronisation.
EnergyIsKept ==
  LET today == {t \in fed.ticks: DayOfTick(t) = DayAt(now)}
      kept == book.total \union pending.energy
  IN  /\ ~book.known => fed.ticks \subseteq kept
      /\ book.key = DayAt(now) => today \subseteq kept
===============================================================================
