------------------------- MODULE DailyEnergyProofs -------------------------
(***************************************************************************)
(* Proofs about DailyEnergy.                                               *)
(***************************************************************************)
EXTENDS DailyEnergy, TLAPS

-------------------------------------------------------------------------------
(* The inductive invariant.  Its parts about a book or a flash are operators *)
(* of the book, so that they can be said of what check_day_ makes of it.     *)

\* IsOf, of given untimed ticks.
OfDay(energy, day, untimed, ext) ==
  \A t \in energy:
    \/ DayOfTick(t) = day
    \/ t \in untimed
    \/ ~ext /\ DayOfTick(t) <= day
            /\ day <= DayOfTick(t + MaxSampleGap + MaxPass)

\* A total that was measured up to the given tick, of a day that has begun.
Dated(s, bound, today, untimed, ext) ==
  /\ s.key <= today /\ s.total \subseteq 1 .. bound
  /\ OfDay(s.total, s.key, untimed, ext)

\* The totals of a book and of the flash are of their day; the unassigned
\* energy is part of the total and was measured before the day was known.
Sound(b, f, bound, today, untimed, ext) ==
  /\ Dated(b, bound, today, untimed, ext)
  /\ Dated(f.saved, bound, today, untimed, ext)
  /\ Dated(f.stored, bound, today, untimed, ext)
  /\ b.unassigned \subseteq b.total /\ b.unassigned \subseteq untimed
  /\ b.known => b.unassigned = {}

\* While the day is unknown everything handed over is in the unassigned energy
\* or waits; afterwards today's is in today's total or waits.
Kept(b, waiting, ticks, today) ==
  /\ ~b.known => ticks \subseteq b.unassigned \union waiting
  /\ b.known => \A t \in ticks:
       DayOfTick(t) = today =>
         \/ t \in waiting
         \/ b.key = today /\ t \in b.total

\* The clock is known exactly when the day of the total is.
ClockInv ==
  /\ book.known = clockValid
  /\ book.known => book.key # NoDay
  /\ book.known => timer # Never /\ timer <= Midnight(book.key)

\* Of the two ways to integrate only one has state; its times are in order.
ModeInv ==
  /\ external => ~sampling.known /\ ~sampling.adding
  /\ ~external => pending = NoPending /\ fed.ticks = {}
  /\ booted <= fed.end /\ booted <= sampling.from
  /\ sampling.from <= sampling.last /\ sampling.last <= sampling.pass
  /\ sampling.adding => /\ sampling.last = sampling.pass
                        /\ sampling.last - sampling.from <= MaxSampleGap
                        /\ now - sampling.pass <= MaxPass

\* What waits was handed over since the boot and is of the day its key names,
\* or was measured before the day was known.
WaitInv ==
  /\ fed.ticks \subseteq booted + 1 .. fed.end
  /\ pending.energy \subseteq fed.ticks
  /\ pending.key <= DayAt(now)
  /\ \A t \in pending.energy:
       \/ t \in Blind
       \/ pending.key # NoDay /\ DayOfTick(t) = pending.key
  /\ pending.key # NoDay =>
       \A t \in pending.energy: DayOfTick(t) <= pending.key
  /\ ~clockValid => pending.key = NoDay

\* The newest tick a total can hold.
Booked == IF external THEN fed.end ELSE sampling.pass

IInv ==
  /\ TypeOK /\ ClockInv /\ ModeInv /\ WaitInv
  /\ Sound(book, flash, Booked, DayAt(now), Blind, external)
  /\ Kept(book, pending.energy, fed.ticks, DayAt(now))
  /\ BookedOnce

-------------------------------------------------------------------------------
(* Days and ticks                                                          *)

LEMMA Division ==
  ASSUME NEW t \in Int
  PROVE  /\ t \div DayTicks \in Int
         /\ (t \div DayTicks) * DayTicks <= t
         /\ t < (t \div DayTicks) * DayTicks + DayTicks
BY EnergyAssumption

LEMMA DivisionMonotone ==
  ASSUME NEW s \in Int, NEW t \in Int, s <= t
  PROVE  s \div DayTicks <= t \div DayTicks
<1> DEFINE a == s \div DayTicks
           b == t \div DayTicks
<1>1. a \in Int /\ b \in Int /\ a * DayTicks <= s
      /\ t < b * DayTicks + DayTicks
  BY Division
<1>2. SUFFICES ASSUME a >= b + 1 PROVE FALSE
  BY <1>1
<1> HIDE DEF a, b
<1>3. a * DayTicks >= (b + 1) * DayTicks
  BY <1>1, <1>2, EnergyAssumption, SMTT(30)
<1>4. QED
  BY <1>1, <1>3, EnergyAssumption, SMTT(30)

LEMMA DayTypes ==
  ASSUME NEW t \in Nat
  PROVE  /\ DayAt(t) \in Nat \ {0}
         /\ DayOfTick(t) \in Int
         /\ t > 0 => DayOfTick(t) \in Nat \ {0}
<1>1. 0 \div DayTicks = 0
  BY EnergyAssumption
<1>2. t \div DayTicks >= 0
  BY <1>1, DivisionMonotone
<1>3. t > 0 => (t - 1) \div DayTicks >= 0
  BY <1>1, DivisionMonotone
<1>4. QED
  BY <1>2, <1>3, Division DEF DayAt, DayOfTick

\* Days do not go back.
LEMMA DaysMonotone ==
  ASSUME NEW s \in Nat, NEW t \in Nat, s <= t
  PROVE  /\ DayAt(s) <= DayAt(t)
         /\ DayOfTick(s) <= DayOfTick(t)
         /\ DayOfTick(s) <= DayAt(t)
         /\ DayAt(s) <= DayOfTick(t + 1)
BY DivisionMonotone, Division DEF DayAt, DayOfTick

\* The midnight that ends a day lies after every instant of it.
LEMMA MidnightAhead ==
  ASSUME NEW t \in Nat
  PROVE  Midnight(DayAt(t)) \in Nat /\ Midnight(DayAt(t)) > t
<1> DEFINE a == t \div DayTicks
<1>1. a \in Int /\ a * DayTicks <= t /\ t < a * DayTicks + DayTicks
  BY Division
<1>2. Midnight(DayAt(t)) = (a + 1) * DayTicks
  BY DEF Midnight, DayAt
<1> HIDE DEF a
<1>3. (a + 1) * DayTicks = a * DayTicks + DayTicks /\ a * DayTicks \in Int
  BY <1>1, EnergyAssumption, SMTT(30)
<1>4. QED
  BY <1>1, <1>2, <1>3, EnergyAssumption

LEMMA MidnightsMonotone ==
  ASSUME NEW d \in Nat, NEW e \in Nat, d <= e
  PROVE  Midnight(d) \in Nat /\ Midnight(d) <= Midnight(e)
BY EnergyAssumption, SMTT(30) DEF Midnight

LEMMA TodayType ==
  ASSUME TypeOK
  PROVE  /\ DayAt(now) \in Days /\ DayAt(now) \in Nat \ {0}
         /\ now \in Nat /\ MaxNow \in Nat /\ now <= MaxNow
         /\ NextCheck \in 1 .. Midnight(DayAt(now))
         /\ NextCheck \in 0 .. Midnight(DayAt(MaxNow))
<1>1. now \in Nat /\ MaxNow \in Nat /\ now <= MaxNow
  BY EnergyAssumption DEF TypeOK
<1>2. DayAt(now) \in Nat \ {0} /\ DayAt(MaxNow) \in Nat \ {0}
      /\ DayAt(now) <= DayAt(MaxNow)
  BY <1>1, DayTypes, DaysMonotone
<1>3. DayAt(now) \in Days
  BY <1>2 DEF Days
<1>4. Midnight(DayAt(now)) \in Nat /\ Midnight(DayAt(now)) > now
  BY <1>1, MidnightAhead
<1>5. Midnight(DayAt(MaxNow)) \in Nat
      /\ Midnight(DayAt(now)) <= Midnight(DayAt(MaxNow))
  BY <1>1, <1>2, MidnightAhead, MidnightsMonotone
<1>6. NextCheck \in 1 .. Midnight(DayAt(now))
  BY <1>1, <1>4, EnergyAssumption DEF NextCheck
<1>7. QED
  BY <1>1, <1>2, <1>3, <1>4, <1>5, <1>6

-------------------------------------------------------------------------------
(* What check_day_ and add_integral_wh return                              *)

Book == [key: Days \union {NoDay}, total: SUBSET Ticks,
         unassigned: SUBSET Ticks, known: BOOLEAN]
Flash == [saved: Stored, stored: Stored]

\* check_day_ leaves everything as it is, learns the day of what was measured,
\* or starts a new day from nothing.
Checked(b, f, valid, c) ==
  /\ c.book \in Book /\ c.flash \in Flash /\ c.sampled \in BOOLEAN
  /\ c.sampled = TRUE => sampling.known = TRUE
  /\ c.flash.stored = f.stored
  /\ \/ /\ ~valid \/ (b.known /\ b.key = DayAt(now))
        /\ c.book = b /\ c.flash = f /\ c.sampled = sampling.known
     \/ /\ valid /\ c.book.known /\ c.book.key = DayAt(now)
        /\ c.flash.saved.key = DayAt(now)
        /\ c.flash.saved.total = c.book.total
        /\ \/ /\ ~b.known /\ c.book.unassigned = {}
              /\ \/ b.key = DayAt(now) /\ c.book.total = b.total
                 \/ b.key # DayAt(now) /\ c.book.total = b.unassigned
           \/ /\ b.known /\ b.key # DayAt(now)
              /\ c.book.unassigned = b.unassigned
              /\ c.book.total = {}

LEMMA CheckedDayCases ==
  ASSUME TypeOK, NEW b \in Book, NEW f \in Flash, NEW valid \in BOOLEAN
  PROVE  Checked(b, f, valid, CheckedDay(b, f, valid))
<1> DEFINE c == CheckedDay(b, f, valid)
<1>1. DayAt(now) \in Days /\ sampling.known \in BOOLEAN
  BY TodayType DEF TypeOK
<1>2. CASE ~valid \/ (b.known /\ b.key = DayAt(now))
  <2>1. c = [book |-> b, flash |-> f, sampled |-> sampling.known]
    BY <1>2 DEF CheckedDay, Book
  <2> HIDE DEF c
  <2>2. c.book = b /\ c.flash = f /\ c.sampled = sampling.known
    BY <2>1
  <2>3. Checked(b, f, valid, c)
    BY <1>1, <1>2, <2>2 DEF Checked
  <2>4. QED
    BY <2>3 DEF c
<1>3. CASE valid /\ ~b.known
  <2> DEFINE total == IF b.key = DayAt(now) THEN b.total ELSE b.unassigned
             mid == [b EXCEPT !.key = DayAt(now), !.known = TRUE,
                              !.unassigned = {}]
  <2>1. c = Save(mid, f, total)
    BY <1>3 DEF CheckedDay, Book
  <2>2. mid = [key |-> DayAt(now), total |-> b.total, unassigned |-> {},
               known |-> TRUE]
    <3> DEFINE yes == TRUE
               one == [b EXCEPT !.key = DayAt(now)]
               two == [one EXCEPT !.known = yes]
    <3>1. mid = [two EXCEPT !.unassigned = {}]
      OBVIOUS
    <3>2. one = [key |-> DayAt(now), total |-> b.total,
                 unassigned |-> b.unassigned, known |-> b.known]
      BY DEF Book
    <3> HIDE DEF yes, one, mid
    <3>3. two = [key |-> DayAt(now), total |-> b.total,
                 unassigned |-> b.unassigned, known |-> yes]
      BY <3>2
    <3> HIDE DEF two
    <3>4. QED
      BY <3>1, <3>3 DEF yes
  <2>3. total \in SUBSET Ticks
    BY DEF Book
  <2>5. \/ b.key = DayAt(now) /\ total = b.total
        \/ b.key # DayAt(now) /\ total = b.unassigned
    OBVIOUS
  <2> HIDE DEF total, mid, c
  <2>4. c = [book |-> [mid EXCEPT !.total = total],
             flash |-> [f EXCEPT !.saved = [key |-> mid.key, total |-> total]],
             sampled |-> sampling.known]
    BY <2>1 DEF Save
  <2>6. c.book = [key |-> DayAt(now), total |-> total, unassigned |-> {},
                  known |-> TRUE]
    BY <2>2, <2>4
  <2>7. c.flash = [saved |-> [key |-> DayAt(now), total |-> total],
                   stored |-> f.stored]
    BY <2>2, <2>4 DEF Flash
  <2>8. c.sampled = sampling.known
    BY <2>4
  <2>9. c.book \in Book /\ c.flash \in Flash
    BY <1>1, <2>3, <2>6, <2>7 DEF Book, Flash, Stored
  <2>10. Checked(b, f, valid, c)
    BY <1>1, <1>3, <2>5, <2>6, <2>7, <2>8, <2>9 DEF Checked
  <2>11. QED
    BY <2>10 DEF c
<1>4. CASE valid /\ b.known /\ b.key # DayAt(now)
  <2> DEFINE mid == [b EXCEPT !.key = DayAt(now)]
  <2>1. c = [Save(mid, f, {}) EXCEPT !.sampled = FALSE]
    BY <1>4 DEF CheckedDay, Book
  <2>2. mid = [key |-> DayAt(now), total |-> b.total,
               unassigned |-> b.unassigned, known |-> b.known]
    BY DEF Book
  <2> HIDE DEF mid, c
  <2>3. c = [book |-> [mid EXCEPT !.total = {}],
             flash |-> [f EXCEPT !.saved = [key |-> mid.key, total |-> {}]],
             sampled |-> FALSE]
    BY <2>1 DEF Save
  <2>4. c.book = [key |-> DayAt(now), total |-> {},
                  unassigned |-> b.unassigned, known |-> b.known]
    BY <2>2, <2>3
  <2>5. c.flash = [saved |-> [key |-> DayAt(now), total |-> {}],
                   stored |-> f.stored]
    BY <2>2, <2>3 DEF Flash
  <2>6. c.sampled = FALSE
    BY <2>3
  <2>7. c.book \in Book /\ c.flash \in Flash
    BY <1>1, <2>4, <2>5 DEF Book, Flash, Stored
  <2>8. /\ c.book.key = DayAt(now) /\ c.book.total = {}
        /\ c.book.unassigned = b.unassigned /\ c.book.known = TRUE
        /\ c.flash.saved.key = DayAt(now) /\ c.flash.saved.total = {}
        /\ c.flash.stored = f.stored
    BY <1>4, <2>4, <2>5 DEF Book
  <2>10. Checked(b, f, valid, c)
    BY <1>1, <1>4, <2>6, <2>7, <2>8 DEF Checked
  <2>11. QED
    BY <2>10 DEF c
<1>5. b.known \in BOOLEAN
  BY DEF Book
<1>6. QED
  BY <1>2, <1>3, <1>4, <1>5

\* The totals that check_day_ leaves are of their day if those it found are.
LEMMA CheckedDaySound ==
  ASSUME TypeOK, NEW b \in Book, NEW f \in Flash, NEW valid \in BOOLEAN,
         NEW bound, NEW untimed, NEW ext,
         Sound(b, f, bound, DayAt(now), untimed, ext),
         NEW c, c = CheckedDay(b, f, valid)
  PROVE  /\ Sound(c.book, c.flash, bound, DayAt(now), untimed, ext)
         /\ c.book.total \subseteq b.total
         /\ c.book.unassigned \subseteq b.unassigned
<1> DEFINE today == DayAt(now)
<1>1. today \in Int
  BY TodayType
<1> HIDE DEF today
<1>a. Sound(b, f, bound, today, untimed, ext)
  BY DEF today
<1>2. CASE c.book = b /\ c.flash = f
  BY <1>2, <1>a DEF today
<1>3. CASE /\ c.book.key = today /\ c.flash.stored = f.stored
           /\ c.flash.saved.key = today
           /\ c.flash.saved.total = c.book.total
           /\ c.book.unassigned = {}
           /\ \/ b.key = today /\ c.book.total = b.total
              \/ c.book.total = b.unassigned
              \/ c.book.total = {}
  <2>1. c.book.total \subseteq b.total
    BY <1>3, <1>a DEF Sound
  <2>2. OfDay(c.book.total, today, untimed, ext)
    BY <1>3, <1>a DEF Sound, Dated, OfDay
  <2>3. Dated(c.book, bound, today, untimed, ext)
        /\ Dated(c.flash.saved, bound, today, untimed, ext)
    BY <1>1, <1>3, <1>a, <2>1, <2>2 DEF Dated, Sound
  <2>4. QED
    BY <1>3, <1>a, <2>1, <2>3 DEF Sound, today
<1>4. b.known => b.unassigned = {}
  BY <1>a DEF Sound
<1>5. Checked(b, f, valid, c)
  BY CheckedDayCases
<1>6. QED
  BY <1>2, <1>3, <1>4, <1>5 DEF today, Checked

\* check_day_ does not lose what was measured today.
LEMMA CheckedDayKeeps ==
  ASSUME TypeOK, NEW b \in Book, NEW f \in Flash, NEW valid \in BOOLEAN,
         NEW waiting, NEW ticks, Kept(b, waiting, ticks, DayAt(now)),
         b.unassigned \subseteq b.total,
         NEW c, c = CheckedDay(b, f, valid)
  PROVE  /\ Kept(c.book, waiting, ticks, DayAt(now))
         /\ valid => c.book.known /\ c.book.key = DayAt(now)
         /\ ~valid => c.book.known = b.known /\ c.book.key = b.key
<1>1. Checked(b, f, valid, c)
  BY CheckedDayCases
<1>2. QED
  BY <1>1 DEF Checked, Kept, Book

\* add_integral_wh books the energy, or drops it for its key.
Booking(energy, c, a) ==
  /\ a.book \in Book /\ a.flash \in Flash /\ a.sampled = c.sampled
  /\ a.book.total = c.book.total \union energy
  /\ a.book.key = c.book.key /\ a.book.known = c.book.known
  /\ c.book.known => a.book.unassigned = c.book.unassigned
  /\ ~c.book.known => a.book.unassigned = c.book.unassigned \union energy
  /\ a.flash.stored = c.flash.stored
  /\ a.flash.saved.key = c.book.key
  /\ a.flash.saved.total = a.book.total

LEMMA AddedCases ==
  ASSUME TypeOK, NEW energy \in SUBSET Ticks, NEW key \in Days \union {NoDay},
         NEW c, c = CheckedDay(book, flash, clockValid),
         NEW a, a = Added(energy, key)
  PROVE  \/ key # NoDay /\ c.book.known /\ key # c.book.key /\ a = c
         \/ /\ key = NoDay \/ ~c.book.known \/ key = c.book.key
            /\ Booking(energy, c, a)
<1>1. c.book \in Book /\ c.flash \in Flash
  BY CheckedDayCases DEF TypeOK, Book, Flash, Checked
<1>2. CASE key # NoDay /\ c.book.known /\ key # c.book.key
  BY <1>2 DEF Added
<1>3. CASE ~(key # NoDay /\ c.book.known /\ key # c.book.key)
  <2> DEFINE mid == IF c.book.known THEN c.book
                    ELSE [c.book EXCEPT !.unassigned = @ \union energy]
  <2>1. /\ mid \in Book /\ mid.key = c.book.key /\ mid.total = c.book.total
        /\ mid.known = c.book.known
        /\ c.book.known => mid.unassigned = c.book.unassigned
        /\ ~c.book.known => mid.unassigned = c.book.unassigned \union energy
    BY <1>1 DEF Book
  <2>2. a = [Save(mid, c.flash, c.book.total \union energy)
               EXCEPT !.sampled = c.sampled]
    BY <1>3 DEF Added
  <2> HIDE DEF mid
  <2>3. a = [book |-> [mid EXCEPT !.total = c.book.total \union energy],
             flash |-> [c.flash EXCEPT !.saved =
                          [key |-> mid.key,
                           total |-> c.book.total \union energy]],
             sampled |-> c.sampled]
    BY <2>2 DEF Save
  <2>4. c.book.total \union energy \in SUBSET Ticks
    BY <1>1 DEF Book
  <2>5. a.book \in Book /\ a.book.total = c.book.total \union energy
        /\ a.book.key = mid.key /\ a.book.known = mid.known
        /\ a.book.unassigned = mid.unassigned
    BY <2>1, <2>3, <2>4 DEF Book
  <2>6. /\ a.flash \in Flash /\ a.flash.stored = c.flash.stored
        /\ a.flash.saved.key = mid.key
        /\ a.flash.saved.total = c.book.total \union energy
    BY <1>1, <2>1, <2>3, <2>4 DEF Book, Flash, Stored
  <2>7. a.sampled = c.sampled
    BY <2>3
  <2>8. Booking(energy, c, a)
    BY <2>1, <2>5, <2>6, <2>7 DEF Booking
  <2>9. QED
    BY <1>3, <2>8
<1>4. QED
  BY <1>2, <1>3

\* What add_integral_wh leaves of a sound book is sound if the energy is of
\* today, or the day is not known and it becomes unassigned.
LEMMA AddedSound ==
  ASSUME TypeOK, book.known = clockValid,
         NEW energy \in SUBSET Ticks, NEW key \in Days \union {NoDay},
         NEW bound \in Int, energy \subseteq 1 .. bound,
         Sound(book, flash, bound, DayAt(now), Blind, external),
         (clockValid /\ key \in {NoDay, DayAt(now)}) =>
           OfDay(energy, DayAt(now), Blind, external),
         ~clockValid => energy \subseteq Blind,
         NEW a, a = Added(energy, key)
  PROVE  /\ a.book \in Book /\ a.flash \in Flash /\ a.sampled \in BOOLEAN
         /\ a.sampled = TRUE => sampling.known = TRUE
         /\ Sound(a.book, a.flash, bound, DayAt(now), Blind, external)
         /\ a.book.known = clockValid
         /\ clockValid => a.book.key = DayAt(now)
         /\ a.book.total \subseteq book.total \union energy
<1> DEFINE c == CheckedDay(book, flash, clockValid)
           today == DayAt(now)
<1>1. book \in Book /\ flash \in Flash /\ clockValid \in BOOLEAN
  BY DEF TypeOK, Book, Flash
<1>2. Checked(book, flash, clockValid, c)
  BY <1>1, CheckedDayCases
<1>3. /\ Sound(c.book, c.flash, bound, DayAt(now), Blind, external)
      /\ c.book.total \subseteq book.total
  BY <1>1, CheckedDaySound
<1>4. today \in Nat \ {0} /\ clockValid \in BOOLEAN
  BY TodayType DEF TypeOK
<1>5. c.book.known = clockValid /\ (clockValid => c.book.key = today)
  <2>1. clockValid => c.book.known /\ c.book.key = DayAt(now)
    BY <1>1, <1>2 DEF Checked, Book
  <2>2. ~clockValid => c.book = book
    BY <1>1, <1>2 DEF Checked
  <2>3. c.book.known \in BOOLEAN /\ book.known \in BOOLEAN
    BY <1>1, <1>2 DEF Checked, Book
  <2> HIDE DEF c
  <2>4. QED
    BY <1>1, <2>1, <2>2, <2>3
<1>6. c.book \in Book /\ c.flash \in Flash /\ c.sampled \in BOOLEAN
      /\ (c.sampled = TRUE => sampling.known = TRUE)
  BY <1>2 DEF Checked
<1>7. \/ key # NoDay /\ c.book.known /\ key # c.book.key /\ a = c
      \/ /\ key = NoDay \/ ~c.book.known \/ key = c.book.key
         /\ Booking(energy, c, a)
  BY AddedCases
<1> HIDE DEF c, today
<1>8. CASE a = c
  BY <1>3, <1>5, <1>6, <1>8 DEF today
<1>9. ASSUME a # c
      PROVE  /\ key = NoDay \/ ~c.book.known \/ key = c.book.key
             /\ Booking(energy, c, a)
  BY <1>7, <1>9
<1>10. CASE a # c
  <2>1. OfDay(energy, c.book.key, Blind, external)
    <3>1. CASE clockValid
      BY <1>4, <1>5, <1>9, <1>10, <3>1 DEF today
    <3>2. CASE ~clockValid
      BY <3>2 DEF OfDay
    <3>3. QED
      BY <1>4, <3>1, <3>2
  <2>2. OfDay(a.book.total, c.book.key, Blind, external)
    BY <1>3, <1>9, <1>10, <2>1 DEF Booking, Sound, Dated, OfDay
  <2>3. a.book.total \subseteq 1 .. bound /\ c.book.key <= DayAt(now)
    BY <1>3, <1>9, <1>10 DEF Booking, Sound, Dated
  <2>4. Dated(a.book, bound, DayAt(now), Blind, external)
        /\ Dated(a.flash.saved, bound, DayAt(now), Blind, external)
    BY <1>9, <1>10, <2>2, <2>3 DEF Dated, Booking
  <2>5. Dated(a.flash.stored, bound, DayAt(now), Blind, external)
    BY <1>3, <1>9, <1>10 DEF Sound, Booking
  <2>6. /\ a.book.unassigned \subseteq a.book.total
        /\ a.book.unassigned \subseteq Blind
        /\ a.book.known => a.book.unassigned = {}
    BY <1>3, <1>4, <1>5, <1>9, <1>10 DEF Sound, Booking
  <2>7. Sound(a.book, a.flash, bound, DayAt(now), Blind, external)
    BY <2>4, <2>5, <2>6 DEF Sound
  <2>8. QED
    BY <1>3, <1>5, <1>6, <1>9, <1>10, <2>7 DEF today, Booking
<1>11. QED
  BY <1>8, <1>10

\* add_integral_wh does not lose what was measured today: what it drops is of
\* an earlier day.
LEMMA AddedKeeps ==
  ASSUME TypeOK, book.known = clockValid,
         NEW energy \in SUBSET Ticks, NEW key \in Days \union {NoDay},
         book.unassigned \subseteq book.total,
         NEW ticks, Kept(book, energy, ticks, DayAt(now)),
         key \notin {NoDay, DayAt(now)} =>
           \A t \in energy: DayOfTick(t) # DayAt(now),
         NEW a, a = Added(energy, key)
  PROVE  Kept(a.book, {}, ticks, DayAt(now))
<1> DEFINE c == CheckedDay(book, flash, clockValid)
<1>1. book \in Book /\ flash \in Flash /\ clockValid \in BOOLEAN
  BY DEF TypeOK, Book, Flash
<1>a. /\ Kept(c.book, energy, ticks, DayAt(now))
      /\ clockValid => c.book.known /\ c.book.key = DayAt(now)
      /\ ~clockValid => c.book.known = book.known /\ c.book.key = book.key
  BY <1>1, CheckedDayKeeps
<1>2. Checked(book, flash, clockValid, c)
  BY <1>1, CheckedDayCases
<1>3. c.book.known = clockValid
  <2>1. clockValid => c.book.known /\ c.book.key = DayAt(now)
    BY <1>1, <1>2 DEF Checked, Book
  <2>2. ~clockValid => c.book = book
    BY <1>1, <1>2 DEF Checked
  <2>3. c.book.known \in BOOLEAN /\ book.known \in BOOLEAN
    BY <1>1, <1>2 DEF Checked, Book
  <2> HIDE DEF c
  <2>4. QED
    BY <1>1, <2>1, <2>2, <2>3
<1>4. \/ key # NoDay /\ c.book.known /\ key # c.book.key /\ a = c
      \/ /\ key = NoDay \/ ~c.book.known \/ key = c.book.key
         /\ Booking(energy, c, a)
  BY AddedCases
<1> HIDE DEF c
<1>5. CASE key # NoDay /\ c.book.known /\ key # c.book.key /\ a = c
  BY <1>1, <1>a, <1>3, <1>5 DEF Kept
<1>6. CASE Booking(energy, c, a)
  BY <1>1, <1>a, <1>3, <1>6 DEF Kept, Booking
<1>7. QED
  BY <1>4, <1>5, <1>6

\* A sound book stays sound as time goes on.
LEMMA SoundLater ==
  ASSUME NEW b \in Book, NEW f \in Flash, NEW ext,
         NEW bound \in Int, NEW later \in Int, bound <= later,
         NEW today \in Int, NEW day \in Int, today <= day,
         NEW untimed, NEW more, untimed \subseteq more,
         Sound(b, f, bound, today, untimed, ext)
  PROVE  Sound(b, f, later, day, more, ext)
<1>1. /\ b.key \in Int /\ f.saved.key \in Int /\ f.stored.key \in Int
  BY EnergyAssumption, DayTypes DEF Book, Flash, Stored, Days, NoDay
<1>2. ASSUME NEW s, s.key \in Int, Dated(s, bound, today, untimed, ext)
      PROVE  Dated(s, later, day, more, ext)
  <2>1. s.key <= day /\ s.total \subseteq 1 .. later
    BY <1>2 DEF Dated
  <2>2. OfDay(s.total, s.key, more, ext)
    BY <1>2 DEF Dated, OfDay
  <2>3. QED
    BY <2>1, <2>2 DEF Dated
<1>3. QED
  BY <1>1, <1>2 DEF Sound

-------------------------------------------------------------------------------
(* The invariant holds initially and is kept by every step                 *)

\* A book's keys and the tick numbers are integers.
LEMMA Ranges ==
  ASSUME TypeOK
  PROVE  /\ book \in Book /\ flash \in Flash
         /\ {now, booted, fed.end, sampling.pass, sampling.last,
             sampling.from} \subseteq 0 .. now
         /\ {book.key, pending.key, flash.saved.key, flash.stored.key}
              \subseteq Nat
         /\ Ticks \subseteq Nat /\ now \in Nat
         /\ MaxSampleGap \in Nat /\ MaxPass \in Nat
         /\ Booked \in 0 .. now /\ NoDay \in Nat
<1>1. now \in Nat /\ DayAt(MaxNow) \in Nat
  BY TodayType, DayTypes, EnergyAssumption
<1>2. book \in Book /\ flash \in Flash
  BY DEF TypeOK, Book, Flash
<1>3. /\ booted \in 0 .. now /\ fed.end \in 0 .. now
      /\ sampling.pass \in 0 .. now /\ sampling.last \in 0 .. now
      /\ sampling.from \in 0 .. now
  BY DEF TypeOK
<1>4. Days \subseteq Nat /\ NoDay \in Nat
  BY <1>1 DEF Days, NoDay
<1>5. {book.key, pending.key, flash.saved.key, flash.stored.key} \subseteq Nat
  BY <1>4 DEF TypeOK, Stored
<1>6. Booked \in 0 .. now
  BY <1>3 DEF Booked
<1>7. QED
  BY <1>1, <1>2, <1>3, <1>4, <1>5, <1>6, EnergyAssumption DEF Ticks

\* Before the day is known every tick since the boot is untimed.
LEMMA BlindSince ==
  ASSUME ~clockValid
  PROVE  booted + 1 .. now \subseteq Blind
BY DEF Blind

\* Actions that leave the clock alone leave the untimed ticks alone.
LEMMA SameBlind ==
  ASSUME UNCHANGED <<blind, clockValid, booted, now>>
  PROVE  Blind' = Blind /\ DayAt(now)' = DayAt(now)
BY DEF Blind

\* Accumulate: the new ticks lie after everything handed over or booked; of
\* them only today's wait, or all while the day is unknown.
LEMMA AccumulateInv ==
  ASSUME IInv, Accumulate
  PROVE  IInv'
<1>1. PICK end \in fed.end + 1 .. now: \E from \in fed.end .. end - 1:
        LET key == IF clockValid THEN DayAt(now) ELSE NoDay
            stale == pending.key \notin {NoDay, key} /\ key # NoDay
        IN  /\ pending' =
                 [energy |-> (IF stale THEN {} ELSE pending.energy)
                               \union Today(from, end),
                  key    |-> IF key = NoDay THEN pending.key ELSE key]
            /\ fed' = [end |-> end,
                       ticks |-> fed.ticks \union (from + 1 .. end)]
  BY DEF Accumulate
<1>2. PICK from \in fed.end .. end - 1:
        LET key == IF clockValid THEN DayAt(now) ELSE NoDay
            stale == pending.key \notin {NoDay, key} /\ key # NoDay
        IN  /\ pending' =
                 [energy |-> (IF stale THEN {} ELSE pending.energy)
                               \union Today(from, end),
                  key    |-> IF key = NoDay THEN pending.key ELSE key]
            /\ fed' = [end |-> end,
                       ticks |-> fed.ticks \union (from + 1 .. end)]
  BY <1>1
<1>3. /\ external
      /\ UNCHANGED <<external, now, clockValid, timer, book, sampling, flash,
                     booted, blind, reboots>>
  BY DEF Accumulate
<1> DEFINE today == DayAt(now)
           key == IF clockValid THEN today ELSE NoDay
           stale == pending.key \notin {NoDay, key} /\ key # NoDay
           old == IF stale THEN {} ELSE pending.energy
           fresh == Today(from, end)
<1>4. /\ pending'.energy = old \union fresh
      /\ pending'.key = IF key = NoDay THEN pending.key ELSE key
      /\ pending' = [energy |-> pending'.energy, key |-> pending'.key]
      /\ fed'.end = end /\ fed'.ticks = fed.ticks \union (from + 1 .. end)
      /\ fed' = [end |-> fed'.end, ticks |-> fed'.ticks]
  BY <1>2
<1>5. TypeOK /\ ClockInv /\ ModeInv /\ WaitInv /\ BookedOnce
      /\ Sound(book, flash, Booked, today, Blind, external)
      /\ Kept(book, pending.energy, fed.ticks, today)
  BY DEF IInv
<1>6. /\ book \in Book /\ flash \in Flash /\ now \in Nat /\ now <= MaxNow
      /\ booted \in 0 .. now /\ fed.end \in 0 .. now
      /\ pending.key \in Nat /\ book.key \in Nat /\ today \in Nat \ {0}
      /\ today \in Days /\ clockValid \in BOOLEAN /\ MaxNow \in Nat
      /\ NoDay = 0
  BY <1>5, Ranges, TodayType DEF TypeOK, NoDay
<1>7. Blind' = Blind /\ DayAt(now)' = today
  BY <1>3, SameBlind
<1>8. end \in Nat /\ from \in Nat /\ from < end /\ end <= now
      /\ fed.end <= from /\ booted <= from /\ fed.end < end
  BY <1>5, <1>6 DEF ModeInv
<1>9. fresh \subseteq from + 1 .. end
      /\ (~clockValid => fresh = from + 1 .. end)
      /\ (clockValid => fresh = {t \in from + 1 .. end: DayOfTick(t) >= today})
  BY <1>6 DEF Today
<1>10. from + 1 .. end \subseteq booted + 1 .. now
       /\ from + 1 .. end \subseteq Ticks
  BY <1>6, <1>8 DEF Ticks
<1>11. \A t \in from + 1 .. end:
         t \in Nat /\ DayOfTick(t) \in Int /\ DayOfTick(t) <= today
  <2>1. SUFFICES ASSUME NEW t \in from + 1 .. end
                 PROVE  t \in Nat /\ DayOfTick(t) \in Int
                        /\ DayOfTick(t) <= today
    OBVIOUS
  <2>2. t \in Nat /\ t <= now
    BY <1>6, <1>8
  <2>3. QED
    BY <1>6, <2>2, DayTypes, DaysMonotone
<1>12. ~clockValid => from + 1 .. end \subseteq Blind
  BY <1>10, BlindSince
<1>13. key = (IF clockValid THEN today ELSE 0)
  BY <1>6
<1>14. /\ pending.energy \subseteq fed.ticks /\ pending.key <= today
       /\ fed.ticks \subseteq booted + 1 .. fed.end
       /\ \A t \in pending.energy:
            \/ t \in Blind
            \/ pending.key # 0 /\ DayOfTick(t) = pending.key
       /\ pending.key # 0 =>
            \A t \in pending.energy: DayOfTick(t) <= pending.key
       /\ ~clockValid => pending.key = 0
  BY <1>5, <1>6 DEF WaitInv
<1>15. stale <=> clockValid /\ pending.key # 0 /\ pending.key # today
  BY <1>6, <1>13
<1>16. old \subseteq pending.energy /\ (~stale => old = pending.energy)
       /\ (stale => old = {})
  OBVIOUS
<1>17. pending'.key = IF clockValid THEN today ELSE 0
  BY <1>4, <1>6, <1>13, <1>14
<1> HIDE DEF key, stale, old, fresh, today
<1>18. TypeOK'
  <2>1. pending' \in [energy: SUBSET Ticks, key: Days \union {NoDay}]
    <3>1. pending'.energy \in SUBSET Ticks
      BY <1>4, <1>5, <1>9, <1>10, <1>16 DEF TypeOK
    <3>2. pending'.key \in Days \union {NoDay}
      BY <1>6, <1>17
    <3>3. QED
      BY <1>4, <3>1, <3>2
  <2>2. fed' \in [end: 0 .. now, ticks: SUBSET Ticks]
    <3>1. fed'.end \in 0 .. now
      BY <1>4, <1>8
    <3>2. fed'.ticks \in SUBSET Ticks
      BY <1>4, <1>5, <1>10 DEF TypeOK
    <3>3. QED
      BY <1>4, <3>1, <3>2
  <2>3. QED
    BY <1>3, <1>5, <2>1, <2>2 DEF TypeOK
<1>19. ClockInv'
  BY <1>3, <1>5 DEF ClockInv
<1>20. ModeInv'
  BY <1>3, <1>4, <1>5, <1>6, <1>8 DEF ModeInv
<1>21. WaitInv'
  <2>1. /\ fed'.ticks \subseteq booted + 1 .. fed'.end
        /\ pending'.energy \subseteq fed'.ticks
    <3>1. from + 1 .. end \subseteq booted + 1 .. end
      BY <1>6, <1>8
    <3>2. booted + 1 .. fed.end \subseteq booted + 1 .. end
      BY <1>6, <1>8
    <3>3. QED
      BY <1>4, <1>9, <1>14, <1>16, <3>1, <3>2
  <2>2. pending'.key <= today
    BY <1>6, <1>17
  <2>3. ASSUME NEW t \in pending'.energy
        PROVE  /\ \/ t \in Blind
                  \/ pending'.key # 0 /\ DayOfTick(t) = pending'.key
               /\ pending'.key # 0 => DayOfTick(t) <= pending'.key
    <3>1. CASE t \in fresh
      <4>1. DayOfTick(t) \in Int /\ DayOfTick(t) <= today
        BY <1>9, <1>11, <3>1
      <4>2. CASE clockValid
        BY <1>6, <1>9, <1>17, <3>1, <4>1, <4>2
      <4>3. CASE ~clockValid
        BY <1>9, <1>12, <1>17, <3>1, <4>3
      <4>4. QED
        BY <1>6, <4>2, <4>3
    <3>2. CASE t \in old
      <4>1. t \in pending.energy /\ ~stale
        BY <1>16, <3>2
      <4>2. t \in Nat
        BY <1>6, <1>14, <4>1
      <4>3. DayOfTick(t) \in Int /\ DayOfTick(t) <= today
        <5>1. t <= now
          BY <1>6, <1>14, <4>1
        <5>2. QED
          BY <1>6, <4>2, <5>1, DayTypes, DaysMonotone DEF today
      <4>4. pending.key # 0 => pending'.key = pending.key
        BY <1>14, <1>15, <1>17, <4>1
      <4>5. QED
        BY <1>6, <1>14, <1>17, <4>1, <4>3, <4>4
    <3>3. QED
      BY <1>4, <3>1, <3>2
  <2>4. ~clockValid => pending'.key = 0
    BY <1>17
  <2>5. QED
    BY <1>3, <1>6, <1>7, <2>1, <2>2, <2>3, <2>4 DEF WaitInv, today
<1>22. Sound(book, flash, Booked, DayAt(now), Blind, external)'
  <2>1. Booked \in Int /\ Booked' \in Int /\ Booked <= Booked'
    BY <1>3, <1>4, <1>6, <1>8 DEF Booked
  <2>2. Sound(book, flash, Booked', today, Blind, external)
    BY <1>5, <1>6, <2>1, SoundLater
  <2>3. QED
    BY <1>3, <1>7, <2>2 DEF today
<1>23. Kept(book, pending.energy, fed.ticks, DayAt(now))'
  <2>1. ~book.known => fed'.ticks \subseteq book.unassigned \union pending'.energy
    BY <1>4, <1>5, <1>6, <1>9, <1>15, <1>16 DEF Kept, ClockInv
  <2>2. ASSUME book.known, NEW t \in fed'.ticks, DayOfTick(t) = today
        PROVE  \/ t \in pending'.energy
               \/ book.key = today /\ t \in book.total
    <3>1. clockValid
      BY <1>5, <2>2 DEF ClockInv
    <3>2. CASE t \in from + 1 .. end
      BY <1>4, <1>6, <1>9, <2>2, <3>1, <3>2
    <3>3. CASE t \in fed.ticks
      <4>1. t \in pending.energy => ~stale
        BY <1>6, <1>14, <1>15, <2>2
      <4>2. t \in pending.energy \/ (book.key = today /\ t \in book.total)
        BY <1>5, <2>2, <3>3 DEF Kept
      <4>3. QED
        BY <1>4, <1>16, <4>1, <4>2
    <3>4. QED
      BY <1>4, <3>2, <3>3
  <2>3. QED
    BY <1>3, <1>7, <2>1, <2>2 DEF Kept, today
<1>24. BookedOnce'
  <2>1. book.total \subseteq 1 .. fed.end
    BY <1>3, <1>5 DEF Sound, Dated, Booked
  <2>2. pending'.energy \intersect book.total = {}
    BY <1>4, <1>5, <1>6, <1>8, <1>9, <1>16, <2>1 DEF BookedOnce
  <2>3. QED
    BY <1>3, <1>5, <2>2 DEF BookedOnce
<1>25. QED
  BY <1>18, <1>19, <1>20, <1>21, <1>22, <1>23, <1>24 DEF IInv

\* The invariant, taken apart for the actions that follow.
LEMMA Parts ==
  ASSUME IInv
  PROVE  /\ TypeOK /\ ClockInv /\ ModeInv /\ WaitInv /\ BookedOnce
         /\ Sound(book, flash, Booked, DayAt(now), Blind, external)
         /\ Kept(book, pending.energy, fed.ticks, DayAt(now))
         /\ book \in Book /\ flash \in Flash /\ clockValid \in BOOLEAN
         /\ now \in Nat /\ DayAt(now) \in Nat \ {0} /\ DayAt(now) \in Days
         /\ book.known = clockValid /\ book.unassigned \subseteq book.total
         /\ Booked \in 0 .. now /\ Booked \in Int
BY Ranges, TodayType DEF IInv, TypeOK, ClockInv, Sound

\* The timeout that was early enough for the book's day is so for a later one.
LEMMA StillEarly ==
  ASSUME TypeOK, ClockInv, book.known, NEW day \in Days, book.key <= day
  PROVE  timer # Never /\ timer <= Midnight(day) /\ day # NoDay
<1>1. book.key \in Nat /\ day \in Nat \ {0}
  BY Ranges DEF Days
<1>2. Midnight(book.key) \in Nat /\ Midnight(book.key) <= Midnight(day)
      /\ Midnight(day) \in Nat
  BY <1>1, MidnightsMonotone
<1>3. timer \in Int
  BY EnergyAssumption, TodayType DEF TypeOK
<1>4. QED
  BY <1>1, <1>2, <1>3 DEF ClockInv, NoDay

\* PublishEnergy: what waits is added to today's total, or dropped when it is
\* of an earlier day.
LEMMA PublishEnergyInv ==
  ASSUME IInv, PublishEnergy
  PROVE  IInv'
<1> DEFINE a == Added(pending.energy, pending.key)
<1>1. /\ TypeOK /\ ClockInv /\ ModeInv /\ WaitInv /\ BookedOnce
      /\ Sound(book, flash, Booked, DayAt(now), Blind, external)
      /\ Kept(book, pending.energy, fed.ticks, DayAt(now))
      /\ book \in Book /\ flash \in Flash /\ clockValid \in BOOLEAN
      /\ now \in Nat /\ DayAt(now) \in Nat \ {0} /\ DayAt(now) \in Days
      /\ book.known = clockValid /\ book.unassigned \subseteq book.total
      /\ Booked \in 0 .. now /\ Booked \in Int
  BY Parts
<1>2. /\ external
      /\ pending' = [pending EXCEPT !.energy = {}]
      /\ book' = a.book /\ flash' = a.flash
      /\ sampling' = [sampling EXCEPT !.known = a.sampled]
      /\ UNCHANGED <<external, now, clockValid, timer, fed, booted, blind,
                     reboots>>
  BY DEF PublishEnergy, Keep
<1>3. /\ pending.energy \in SUBSET Ticks /\ pending.key \in Days \union {NoDay}
      /\ pending.energy \subseteq fed.ticks
      /\ pending.energy \subseteq booted + 1 .. now
  <2>1. pending.energy \in SUBSET Ticks /\ pending.key \in Days \union {NoDay}
    BY <1>1 DEF TypeOK
  <2>2. pending.energy \subseteq fed.ticks
        /\ fed.ticks \subseteq booted + 1 .. fed.end
    BY <1>1 DEF WaitInv
  <2>3. booted + 1 .. fed.end \subseteq booted + 1 .. now
    BY <1>1 DEF TypeOK
  <2>4. QED
    BY <2>1, <2>2, <2>3
<1>4. pending.energy \subseteq 1 .. Booked
  <2>1. booted \in Nat /\ Booked = fed.end /\ fed.end \in Nat
    BY <1>1, <1>2 DEF Booked, TypeOK
  <2>2. pending.energy \subseteq booted + 1 .. fed.end
    BY <1>1 DEF WaitInv
  <2>3. QED
    BY <2>1, <2>2
<1>5. (clockValid /\ pending.key \in {NoDay, DayAt(now)}) =>
        OfDay(pending.energy, DayAt(now), Blind, external)
  BY <1>1 DEF WaitInv, OfDay
<1>6. ~clockValid => pending.energy \subseteq Blind
  BY <1>3, BlindSince
<1>7. pending.key \notin {NoDay, DayAt(now)} =>
        \A t \in pending.energy: DayOfTick(t) # DayAt(now)
  <2>1. SUFFICES ASSUME pending.key \notin {NoDay, DayAt(now)},
                        NEW t \in pending.energy
                 PROVE  DayOfTick(t) # DayAt(now)
    OBVIOUS
  <2>2. t \in Nat
    BY <1>3 DEF Ticks
  <2>3. DayOfTick(t) \in Int
    BY <2>2, DayTypes
  <2>4. DayOfTick(t) <= pending.key /\ pending.key <= DayAt(now)
    BY <1>1, <2>1 DEF WaitInv
  <2>5. pending.key \in Nat
    BY <1>1, Ranges
  <2>6. QED
    BY <1>1, <2>1, <2>3, <2>4, <2>5
<1>8. /\ a.book \in Book /\ a.flash \in Flash /\ a.sampled \in BOOLEAN
      /\ a.sampled = TRUE => sampling.known = TRUE
      /\ Sound(a.book, a.flash, Booked, DayAt(now), Blind, external)
      /\ a.book.known = clockValid
      /\ clockValid => a.book.key = DayAt(now)
      /\ a.book.total \subseteq book.total \union pending.energy
  BY <1>1, <1>3, <1>4, <1>5, <1>6, AddedSound
<1>9. Kept(a.book, {}, fed.ticks, DayAt(now))
  BY <1>1, <1>3, <1>7, AddedKeeps
<1>10. Blind' = Blind /\ DayAt(now)' = DayAt(now) /\ Booked' = Booked
  BY <1>2, SameBlind DEF Booked
<1> HIDE DEF a
<1>11. a.sampled = FALSE
  BY <1>1, <1>2, <1>8 DEF ModeInv, TypeOK
<1>12. sampling' = sampling
  BY <1>1, <1>2, <1>11 DEF ModeInv, TypeOK
<1>13. pending'.energy = {} /\ pending'.key = pending.key
       /\ pending' \in [energy: SUBSET Ticks, key: Days \union {NoDay}]
  BY <1>1, <1>2 DEF TypeOK
<1>14. TypeOK'
  BY <1>1, <1>2, <1>8, <1>12, <1>13 DEF TypeOK, Book, Flash
<1>15. ClockInv'
  <2>1. book.known => book.key <= DayAt(now)
    BY <1>1 DEF Sound, Dated
  <2>2. clockValid => timer # Never /\ timer <= Midnight(DayAt(now))
                      /\ DayAt(now) # NoDay
    BY <1>1, <2>1, StillEarly
  <2>3. QED
    BY <1>1, <1>2, <1>8, <2>2 DEF ClockInv
<1>16. ModeInv'
  BY <1>1, <1>2, <1>12 DEF ModeInv
<1>17. WaitInv'
  BY <1>1, <1>2, <1>10, <1>13 DEF WaitInv
<1>18. Sound(book, flash, Booked, DayAt(now), Blind, external)'
  BY <1>2, <1>8, <1>10
<1>19. Kept(book, pending.energy, fed.ticks, DayAt(now))'
  BY <1>2, <1>9, <1>10, <1>13
<1>20. BookedOnce'
  BY <1>1, <1>2, <1>12, <1>13 DEF BookedOnce, ModeInv
<1>21. QED
  BY <1>14, <1>15, <1>16, <1>17, <1>18, <1>19, <1>20 DEF IInv

\* What check_day_ makes of the book of a state.
LEMMA CheckedInv ==
  ASSUME IInv, NEW v \in BOOLEAN, v = clockValid \/ v = TRUE,
         NEW c, c = CheckedDay(book, flash, v)
  PROVE  /\ c.book \in Book /\ c.flash \in Flash /\ c.sampled \in BOOLEAN
         /\ c.sampled = TRUE => sampling.known = TRUE
         /\ Sound(c.book, c.flash, Booked, DayAt(now), Blind, external)
         /\ Kept(c.book, pending.energy, fed.ticks, DayAt(now))
         /\ c.book.known = v
         /\ v => c.book.key = DayAt(now)
         /\ c.book.total \subseteq book.total
<1>1. /\ TypeOK /\ book \in Book /\ flash \in Flash /\ clockValid \in BOOLEAN
      /\ Sound(book, flash, Booked, DayAt(now), Blind, external)
      /\ Kept(book, pending.energy, fed.ticks, DayAt(now))
      /\ book.known = clockValid /\ book.unassigned \subseteq book.total
  BY Parts
<1>2. Checked(book, flash, v, c)
  BY <1>1, CheckedDayCases
<1>3. /\ Sound(c.book, c.flash, Booked, DayAt(now), Blind, external)
      /\ c.book.total \subseteq book.total
  BY <1>1, CheckedDaySound
<1>4. /\ Kept(c.book, pending.energy, fed.ticks, DayAt(now))
      /\ v => c.book.known /\ c.book.key = DayAt(now)
      /\ ~v => c.book.known = book.known /\ c.book.key = book.key
  BY <1>1, CheckedDayKeeps
<1>5. /\ c.book \in Book /\ c.flash \in Flash /\ c.sampled \in BOOLEAN
      /\ c.sampled = TRUE => sampling.known = TRUE
  BY <1>2 DEF Checked
<1>6. c.book.known = v
  <2>1. c.book.known \in BOOLEAN
    BY <1>5 DEF Book
  <2>2. QED
    BY <1>1, <1>4, <2>1
<1>7. QED
  BY <1>3, <1>4, <1>5, <1>6

\* An action that checks the day and sets the timeout for it.
LEMMA KeepInv ==
  ASSUME IInv, NEW v \in BOOLEAN, v = clockValid \/ v = TRUE,
         Keep(CheckedDay(book, flash, v)), clockValid' = v,
         timer' = NextCheck, Blind' = Blind, blind' \subseteq Ticks,
         UNCHANGED <<external, now, pending, fed, booted, reboots>>
  PROVE  IInv'
<1> DEFINE c == CheckedDay(book, flash, v)
<1>1. /\ TypeOK /\ ClockInv /\ ModeInv /\ WaitInv /\ BookedOnce
      /\ now \in Nat /\ DayAt(now) \in Nat \ {0} /\ DayAt(now) \in Days
      /\ clockValid \in BOOLEAN
  BY Parts
<1>2. /\ c.book \in Book /\ c.flash \in Flash /\ c.sampled \in BOOLEAN
      /\ c.sampled = TRUE => sampling.known = TRUE
      /\ Sound(c.book, c.flash, Booked, DayAt(now), Blind, external)
      /\ Kept(c.book, pending.energy, fed.ticks, DayAt(now))
      /\ c.book.known = v
      /\ v => c.book.key = DayAt(now)
      /\ c.book.total \subseteq book.total
  BY CheckedInv
<1>3. /\ book' = c.book /\ flash' = c.flash
      /\ sampling' = [sampling EXCEPT !.known = c.sampled]
  BY DEF Keep
<1>4. /\ NextCheck \in 1 .. Midnight(DayAt(now))
      /\ NextCheck \in 0 .. Midnight(DayAt(MaxNow))
      /\ Midnight(DayAt(now)) \in Nat
  BY <1>1, TodayType, MidnightAhead
<1> HIDE DEF c
<1>5. /\ sampling' \in [known: BOOLEAN, last: 0 .. now, pass: 0 .. now,
                        adding: BOOLEAN, from: 0 .. now]
      /\ sampling'.last = sampling.last /\ sampling'.pass = sampling.pass
      /\ sampling'.from = sampling.from /\ sampling'.adding = sampling.adding
      /\ sampling'.known = c.sampled
  BY <1>1, <1>2, <1>3 DEF TypeOK
<1>6. Booked' = Booked /\ DayAt(now)' = DayAt(now)
  BY <1>5 DEF Booked
<1>7. TypeOK'
  BY <1>1, <1>2, <1>3, <1>4, <1>5 DEF TypeOK, Book, Flash
<1>8. ClockInv'
  <2>1. NextCheck # Never /\ NextCheck <= Midnight(DayAt(now))
        /\ DayAt(now) # NoDay
    BY <1>1, <1>4 DEF Never, NoDay
  <2>2. QED
    BY <1>2, <1>3, <2>1 DEF ClockInv
<1>9. ModeInv'
  <2>1. external => sampling'.known = FALSE /\ ~sampling'.adding
    BY <1>1, <1>2, <1>5 DEF ModeInv, TypeOK
  <2>2. QED
    BY <1>1, <1>5, <2>1 DEF ModeInv
<1>10. WaitInv'
  <2>1. ~v => pending.key = NoDay
    BY <1>1 DEF WaitInv
  <2>2. QED
    BY <1>1, <1>6, <2>1 DEF WaitInv
<1>11. Sound(book, flash, Booked, DayAt(now), Blind, external)'
  BY <1>2, <1>3, <1>6
<1>12. Kept(book, pending.energy, fed.ticks, DayAt(now))'
  BY <1>2, <1>3, <1>6
<1>13. BookedOnce'
  BY <1>1, <1>2, <1>3, <1>5 DEF BookedOnce, TypeOK
<1>14. QED
  BY <1>7, <1>8, <1>9, <1>10, <1>11, <1>12, <1>13 DEF IInv

LEMMA MidnightTimerInv ==
  ASSUME IInv, MidnightTimer
  PROVE  IInv'
<1>1. /\ Keep(CheckedDay(book, flash, clockValid)) /\ timer' = NextCheck
      /\ UNCHANGED <<external, now, clockValid, pending, fed, booted, blind,
                     reboots>>
  BY DEF MidnightTimer
<1>2. clockValid \in BOOLEAN /\ blind \subseteq Ticks
  BY DEF IInv, TypeOK
<1>3. Blind' = Blind /\ blind' \subseteq Ticks
  BY <1>1, <1>2, SameBlind
<1>4. QED
  BY <1>1, <1>2, <1>3, KeepInv

\* The ticks of this boot that the synchronisation finds stay untimed.
LEMMA SyncBlind ==
  ASSUME TypeOK, UNCHANGED <<booted, now>>, clockValid' = TRUE,
         blind' = IF clockValid THEN blind ELSE blind \union (booted + 1 .. now)
  PROVE  Blind' = Blind /\ blind' \subseteq Ticks
<1>1. booted + 1 .. now \subseteq Ticks
  BY EnergyAssumption DEF TypeOK, Ticks
<1>2. QED
  BY <1>1 DEF Blind, TypeOK

LEMMA ClockSyncInv ==
  ASSUME IInv, ClockSync
  PROVE  IInv'
<1>1. /\ Keep(CheckedDay(book, flash, TRUE)) /\ timer' = NextCheck
      /\ clockValid' = TRUE
      /\ blind' = IF clockValid THEN blind
                  ELSE blind \union (booted + 1 .. now)
      /\ UNCHANGED <<external, now, pending, fed, booted, reboots>>
  BY DEF ClockSync
<1>2. Blind' = Blind /\ blind' \subseteq Ticks
  BY <1>1, SyncBlind DEF IInv
<1>3. QED
  BY <1>1, <1>2, KeepInv

\* StartPass and FlushPreferences leave the book, the clock and what waits.
LEMMA StartPassInv ==
  ASSUME IInv, StartPass
  PROVE  IInv'
<1>1. /\ TypeOK /\ ClockInv /\ ModeInv /\ WaitInv /\ BookedOnce
      /\ Sound(book, flash, Booked, DayAt(now), Blind, external)
      /\ Kept(book, pending.energy, fed.ticks, DayAt(now))
      /\ book \in Book /\ flash \in Flash
      /\ now \in Nat /\ DayAt(now) \in Nat \ {0}
      /\ Booked \in 0 .. now /\ Booked \in Int
  BY Parts
<1>2. /\ ~external /\ ~sampling.adding
      /\ sampling' = [sampling EXCEPT !.pass = now]
      /\ UNCHANGED <<external, now, clockValid, timer, book, pending, flash,
                     fed, booted, blind, reboots>>
  BY DEF StartPass
<1>3. /\ sampling' \in [known: BOOLEAN, last: 0 .. now, pass: 0 .. now,
                        adding: BOOLEAN, from: 0 .. now]
      /\ sampling'.last = sampling.last /\ sampling'.pass = now
      /\ sampling'.from = sampling.from /\ sampling'.adding = sampling.adding
      /\ sampling'.known = sampling.known
  BY <1>1, <1>2 DEF TypeOK
<1>4. Blind' = Blind /\ DayAt(now)' = DayAt(now)
  BY <1>2, SameBlind
<1>5. TypeOK'
  BY <1>1, <1>2, <1>3 DEF TypeOK
<1>6. ModeInv'
  BY <1>1, <1>2, <1>3 DEF ModeInv, TypeOK
<1>7. Sound(book, flash, Booked, DayAt(now), Blind, external)'
  <2>1. Booked' = now
    BY <1>2, <1>3 DEF Booked
  <2>2. Sound(book, flash, now, DayAt(now), Blind, external)
    BY <1>1, SoundLater
  <2>3. QED
    BY <1>2, <1>4, <2>1, <2>2
<1>8. ClockInv' /\ WaitInv' /\ BookedOnce'
  BY <1>1, <1>2, <1>3, <1>4 DEF ClockInv, WaitInv, BookedOnce
<1>9. Kept(book, pending.energy, fed.ticks, DayAt(now))'
  BY <1>1, <1>2, <1>4
<1>10. QED
  BY <1>5, <1>6, <1>7, <1>8, <1>9 DEF IInv

LEMMA FlushPreferencesInv ==
  ASSUME IInv, FlushPreferences
  PROVE  IInv'
<1>1. /\ TypeOK /\ ClockInv /\ ModeInv /\ WaitInv /\ BookedOnce
      /\ Sound(book, flash, Booked, DayAt(now), Blind, external)
      /\ Kept(book, pending.energy, fed.ticks, DayAt(now))
  BY Parts
<1>2. /\ flash' = [flash EXCEPT !.stored = flash.saved]
      /\ UNCHANGED <<external, now, clockValid, timer, book, pending, sampling,
                     fed, booted, blind, reboots>>
  BY DEF FlushPreferences
<1>3. /\ flash' \in [saved: Stored, stored: Stored]
      /\ flash'.saved = flash.saved /\ flash'.stored = flash.saved
  BY <1>1, <1>2 DEF TypeOK
<1>4. Blind' = Blind /\ DayAt(now)' = DayAt(now) /\ Booked' = Booked
  BY <1>2, SameBlind DEF Booked
<1>5. TypeOK'
  BY <1>1, <1>2, <1>3 DEF TypeOK
<1>6. ClockInv' /\ ModeInv' /\ WaitInv' /\ BookedOnce'
  BY <1>1, <1>2, <1>4 DEF ClockInv, ModeInv, WaitInv, BookedOnce
<1>7. Sound(book, flash, Booked, DayAt(now), Blind, external)'
  BY <1>1, <1>2, <1>3, <1>4 DEF Sound
<1>8. Kept(book, pending.energy, fed.ticks, DayAt(now))'
  BY <1>1, <1>2, <1>4
<1>9. QED
  BY <1>5, <1>6, <1>7, <1>8 DEF IInv

\* Time passes: what was handed over before midnight is not of the new day.
LEMMA TickInv ==
  ASSUME IInv, Tick
  PROVE  IInv'
<1>1. /\ TypeOK /\ ClockInv /\ ModeInv /\ WaitInv /\ BookedOnce
      /\ Sound(book, flash, Booked, DayAt(now), Blind, external)
      /\ Kept(book, pending.energy, fed.ticks, DayAt(now))
      /\ book \in Book /\ flash \in Flash /\ clockValid \in BOOLEAN
      /\ now \in Nat /\ DayAt(now) \in Nat \ {0} /\ DayAt(now) \in Days
      /\ book.known = clockValid /\ book.unassigned \subseteq book.total
      /\ Booked \in 0 .. now /\ Booked \in Int
  BY Parts
<1>2. /\ now < MaxNow
      /\ ~external => now - sampling.pass < MaxPass \/ ~sampling.adding
      /\ now' = now + 1
      /\ UNCHANGED <<external, clockValid, timer, book, pending, sampling,
                     flash, fed, booted, blind, reboots>>
  BY DEF Tick
<1>3. now' \in Nat /\ now' \in 0 .. MaxNow /\ now < now'
      /\ 0 .. now \subseteq 0 .. now'
  BY <1>1, <1>2, EnergyAssumption
<1>4. DayAt(now') \in Nat \ {0} /\ DayAt(now) <= DayAt(now')
  BY <1>1, <1>3, DayTypes, DaysMonotone
<1>5. Blind \subseteq Blind'
  <2>1. booted + 1 .. now \subseteq booted + 1 .. now'
    BY <1>1, <1>3 DEF TypeOK
  <2>2. QED
    BY <1>2, <2>1 DEF Blind
<1>6. TypeOK'
  <2>1. fed \in [end: 0 .. now', ticks: SUBSET Ticks]
    BY <1>1, <1>3 DEF TypeOK
  <2>2. sampling \in [known: BOOLEAN, last: 0 .. now', pass: 0 .. now',
                      adding: BOOLEAN, from: 0 .. now']
    BY <1>1, <1>3 DEF TypeOK
  <2>3. booted \in 0 .. now'
    BY <1>1, <1>3 DEF TypeOK
  <2>4. QED
    BY <1>1, <1>2, <1>3, <2>1, <2>2, <2>3 DEF TypeOK
<1>7. ClockInv'
  BY <1>1, <1>2 DEF ClockInv
<1>8. ModeInv'
  <2>1. sampling.adding => now - sampling.pass < MaxPass
    BY <1>1, <1>2 DEF ModeInv
  <2>2. sampling.adding => now' - sampling.pass <= MaxPass
    BY <1>1, <1>2, <2>1, EnergyAssumption DEF TypeOK
  <2>3. QED
    BY <1>1, <1>2, <2>2 DEF ModeInv
<1>9. WaitInv'
  <2>1. pending.key <= DayAt(now')
    <3>1. pending.key \in Nat /\ pending.key <= DayAt(now)
      BY <1>1, Ranges DEF WaitInv
    <3>2. QED
      BY <1>1, <1>4, <3>1
  <2>2. QED
    BY <1>1, <1>2, <1>5, <2>1 DEF WaitInv
<1>10. Sound(book, flash, Booked, DayAt(now), Blind, external)'
  <2>1. Booked' = Booked
    BY <1>2 DEF Booked
  <2>2. Sound(book, flash, Booked, DayAt(now'), Blind', external)
    BY <1>1, <1>4, <1>5, SoundLater
  <2>3. QED
    BY <1>2, <2>1, <2>2
<1>11. Kept(book, pending.energy, fed.ticks, DayAt(now))'
  <2>1. ASSUME book.known, NEW t \in fed.ticks, DayOfTick(t) = DayAt(now')
        PROVE  \/ t \in pending.energy
               \/ book.key = DayAt(now') /\ t \in book.total
    <3>1. t \in Nat /\ t <= now
      BY <1>1, <2>1 DEF WaitInv, TypeOK
    <3>2. DayOfTick(t) \in Int /\ DayOfTick(t) <= DayAt(now)
      BY <1>1, <3>1, DayTypes, DaysMonotone
    <3>3. DayAt(now') = DayAt(now)
      BY <1>1, <1>4, <2>1, <3>2
    <3>4. QED
      BY <1>1, <2>1, <3>3 DEF Kept
  <2>2. QED
    BY <1>1, <1>2, <2>1 DEF Kept
<1>12. BookedOnce'
  BY <1>1, <1>2 DEF BookedOnce
<1>13. QED
  BY <1>6, <1>7, <1>8, <1>9, <1>10, <1>11, <1>12 DEF IInv

\* Sample: what the interval will close lies after everything booked.
LEMMA SampleInv ==
  ASSUME IInv, NEW finite \in BOOLEAN, Sample(finite)
  PROVE  IInv'
<1> DEFINE c == CheckedDay(book, flash, clockValid)
           at == sampling.pass
           fresh == ~c.sampled \/ at - sampling.last > MaxSampleGap
<1>1. /\ TypeOK /\ ClockInv /\ ModeInv /\ WaitInv /\ BookedOnce
      /\ Sound(book, flash, Booked, DayAt(now), Blind, external)
      /\ Kept(book, pending.energy, fed.ticks, DayAt(now))
      /\ book \in Book /\ flash \in Flash /\ clockValid \in BOOLEAN
      /\ now \in Nat /\ DayAt(now) \in Nat \ {0} /\ DayAt(now) \in Days
      /\ book.known = clockValid /\ book.unassigned \subseteq book.total
      /\ Booked \in 0 .. now /\ Booked \in Int
  BY Parts
<1>2. /\ ~external /\ ~sampling.adding /\ now - at <= MaxPass
      /\ book' = c.book /\ flash' = c.flash
      /\ sampling' =
           IF ~finite THEN [sampling EXCEPT !.known = FALSE]
           ELSE [known |-> TRUE, last |-> at, pass |-> at, adding |-> ~fresh,
                 from |-> IF fresh THEN at ELSE sampling.last]
      /\ UNCHANGED <<external, now, clockValid, timer, pending, fed, booted,
                     blind, reboots>>
  BY DEF Sample
<1>3. /\ c.book \in Book /\ c.flash \in Flash /\ c.sampled \in BOOLEAN
      /\ c.sampled = TRUE => sampling.known = TRUE
      /\ Sound(c.book, c.flash, Booked, DayAt(now), Blind, external)
      /\ Kept(c.book, pending.energy, fed.ticks, DayAt(now))
      /\ c.book.known = clockValid
      /\ clockValid => c.book.key = DayAt(now)
      /\ c.book.total \subseteq book.total
  BY <1>1, CheckedInv
<1>4. /\ at \in 0 .. now /\ sampling.last \in 0 .. now
      /\ sampling.from \in 0 .. now /\ booted \in 0 .. now
      /\ booted <= sampling.from /\ sampling.from <= sampling.last
      /\ sampling.last <= at /\ MaxSampleGap \in Nat /\ MaxPass \in Nat
  BY <1>1, EnergyAssumption DEF TypeOK, ModeInv
<1>5. pending.energy = {} /\ fed.ticks = {}
  BY <1>1, <1>2 DEF ModeInv, NoPending
<1>6. book.total \subseteq 1 .. at
  BY <1>1, <1>2 DEF Sound, Dated, Booked
<1>7. c.sampled => \A t \in book.total: t <= sampling.last
  BY <1>1, <1>2, <1>3 DEF BookedOnce
<1>8. fresh \in BOOLEAN
      /\ (~fresh => c.sampled /\ at - sampling.last <= MaxSampleGap)
  BY <1>3, <1>4
<1> HIDE DEF c, fresh, at
<1>9. /\ sampling' \in [known: BOOLEAN, last: 0 .. now, pass: 0 .. now,
                        adding: BOOLEAN, from: 0 .. now]
      /\ sampling'.pass = at
      /\ booted <= sampling'.from /\ sampling'.from <= sampling'.last
      /\ sampling'.last <= at
      /\ sampling'.adding => /\ sampling'.last = at
                             /\ sampling'.last - sampling'.from <= MaxSampleGap
  <2>1. CASE ~finite
    <3>1. sampling' = [sampling EXCEPT !.known = FALSE]
      BY <1>2, <2>1
    <3>2. /\ sampling'.last = sampling.last /\ sampling'.from = sampling.from
          /\ sampling'.pass = at /\ sampling'.adding = sampling.adding
          /\ sampling' \in [known: BOOLEAN, last: 0 .. now, pass: 0 .. now,
                            adding: BOOLEAN, from: 0 .. now]
      BY <1>1, <3>1 DEF TypeOK, at
    <3>3. QED
      BY <1>2, <1>4, <3>2
  <2>2. CASE finite /\ fresh
    <3>1. sampling' = [known |-> TRUE, last |-> at, pass |-> at,
                       adding |-> FALSE, from |-> at]
      BY <1>2, <2>2
    <3>2. QED
      BY <1>4, <3>1
  <2>3. CASE finite /\ ~fresh
    <3>1. sampling' = [known |-> TRUE, last |-> at, pass |-> at,
                       adding |-> TRUE, from |-> sampling.last]
      BY <1>2, <2>3
    <3>2. QED
      BY <1>4, <1>8, <2>3, <3>1
  <2>4. QED
    BY <1>8, <2>1, <2>2, <2>3
<1>10. BookedOnce'
  <2>1. ASSUME sampling'.known, NEW t \in c.book.total
        PROVE  t <= IF sampling'.adding THEN sampling'.from ELSE sampling'.last
    <3>1. t \in Int /\ t <= at /\ t \in book.total
      BY <1>3, <1>4, <1>6
    <3>2. CASE ~finite
      BY <1>1, <1>2, <2>1, <3>2 DEF TypeOK
    <3>3. CASE finite /\ fresh
      <4>1. sampling'.last = at /\ sampling'.adding = FALSE
        BY <1>2, <3>3
      <4>2. QED
        BY <3>1, <4>1
    <3>4. CASE finite /\ ~fresh
      <4>1. sampling'.from = sampling.last /\ sampling'.adding = TRUE
        BY <1>2, <3>4
      <4>2. QED
        BY <1>7, <1>8, <3>1, <3>4, <4>1
    <3>5. QED
      BY <1>8, <3>2, <3>3, <3>4
  <2>2. QED
    BY <1>2, <1>5, <2>1 DEF BookedOnce
<1>11. Blind' = Blind /\ DayAt(now)' = DayAt(now) /\ Booked' = Booked
  BY <1>2, <1>9, SameBlind DEF Booked, at
<1>12. TypeOK'
  BY <1>1, <1>2, <1>3, <1>9 DEF TypeOK, Book, Flash
<1>13. ClockInv'
  <2>1. book.known => book.key <= DayAt(now)
    BY <1>1 DEF Sound, Dated
  <2>2. clockValid => timer # Never /\ timer <= Midnight(DayAt(now))
                      /\ DayAt(now) # NoDay
    BY <1>1, <2>1, StillEarly
  <2>3. QED
    BY <1>1, <1>2, <1>3, <2>2 DEF ClockInv
<1>14. ModeInv'
  BY <1>1, <1>2, <1>9 DEF ModeInv
<1>15. WaitInv'
  BY <1>1, <1>2, <1>11 DEF WaitInv
<1>16. Sound(book, flash, Booked, DayAt(now), Blind, external)'
  BY <1>2, <1>3, <1>11
<1>17. Kept(book, pending.energy, fed.ticks, DayAt(now))'
  BY <1>2, <1>3, <1>11
<1>18. QED
  BY <1>10, <1>12, <1>13, <1>14, <1>15, <1>16, <1>17 DEF IInv

\* AddSample: the interval ended within the pass, so today it is of today or
\* of the last interval before midnight.
LEMMA AddSampleInv ==
  ASSUME IInv, AddSample
  PROVE  IInv'
<1> DEFINE energy == sampling.from + 1 .. sampling.last
           a == Added(energy, NoDay)
<1>1. /\ TypeOK /\ ClockInv /\ ModeInv /\ WaitInv /\ BookedOnce
      /\ Sound(book, flash, Booked, DayAt(now), Blind, external)
      /\ Kept(book, pending.energy, fed.ticks, DayAt(now))
      /\ book \in Book /\ flash \in Flash /\ clockValid \in BOOLEAN
      /\ now \in Nat /\ DayAt(now) \in Nat \ {0} /\ DayAt(now) \in Days
      /\ book.known = clockValid /\ book.unassigned \subseteq book.total
      /\ Booked \in 0 .. now /\ Booked \in Int
  BY Parts
<1>2. /\ sampling.adding
      /\ book' = a.book /\ flash' = a.flash
      /\ sampling' = [sampling EXCEPT !.known = a.sampled, !.adding = FALSE]
      /\ UNCHANGED <<external, now, clockValid, timer, pending, fed, booted,
                     blind, reboots>>
  BY DEF AddSample
<1>3. ~external /\ pending.energy = {} /\ fed.ticks = {}
  BY <1>1, <1>2 DEF ModeInv, NoPending, TypeOK
<1>4. /\ sampling.pass \in 0 .. now /\ sampling.last \in 0 .. now
      /\ sampling.from \in 0 .. now /\ booted \in 0 .. now
      /\ booted <= sampling.from /\ sampling.from <= sampling.last
      /\ sampling.last = sampling.pass /\ now - sampling.pass <= MaxPass
      /\ sampling.last - sampling.from <= MaxSampleGap
      /\ MaxSampleGap \in Nat /\ MaxPass \in Nat
      /\ Booked = sampling.pass
  BY <1>1, <1>2, <1>3, EnergyAssumption DEF TypeOK, ModeInv, Booked
<1>5. /\ energy \in SUBSET Ticks /\ energy \subseteq 1 .. Booked
      /\ energy \subseteq booted + 1 .. now
  BY <1>1, <1>4, EnergyAssumption DEF Ticks, TypeOK
<1>6. NoDay \in Days \union {NoDay}
  OBVIOUS
<1>7. OfDay(energy, DayAt(now), Blind, external)
  <2>1. SUFFICES ASSUME NEW t \in energy
                 PROVE  /\ DayOfTick(t) <= DayAt(now)
                        /\ DayAt(now) <= DayOfTick(t + MaxSampleGap + MaxPass)
    BY <1>3 DEF OfDay
  <2>2. t \in Nat /\ t <= now
    BY <1>1, <1>4
  <2>3. DayOfTick(t) <= DayAt(now)
    BY <1>1, <2>2, DaysMonotone
  <2> DEFINE u == t + MaxSampleGap + MaxPass - 1
  <2>4. u \in Nat /\ now <= u /\ u + 1 = t + MaxSampleGap + MaxPass
    BY <1>1, <1>4
  <2> HIDE DEF u
  <2>5. DayAt(now) <= DayOfTick(u + 1)
    BY <1>1, <2>4, DaysMonotone
  <2>6. QED
    BY <2>3, <2>4, <2>5
<1>8. ~clockValid => energy \subseteq Blind
  BY <1>5, BlindSince
<1> HIDE DEF energy
<1>9. /\ a.book \in Book /\ a.flash \in Flash /\ a.sampled \in BOOLEAN
      /\ a.sampled = TRUE => sampling.known = TRUE
      /\ Sound(a.book, a.flash, Booked, DayAt(now), Blind, external)
      /\ a.book.known = clockValid
      /\ clockValid => a.book.key = DayAt(now)
      /\ a.book.total \subseteq book.total \union energy
  BY <1>1, <1>5, <1>6, <1>7, <1>8, AddedSound
<1> HIDE DEF a
<1>10. /\ sampling' \in [known: BOOLEAN, last: 0 .. now, pass: 0 .. now,
                         adding: BOOLEAN, from: 0 .. now]
       /\ sampling'.pass = sampling.pass /\ sampling'.last = sampling.last
       /\ sampling'.from = sampling.from /\ sampling'.adding = FALSE
       /\ sampling'.known = a.sampled
  BY <1>1, <1>2, <1>9 DEF TypeOK
<1>11. Blind' = Blind /\ DayAt(now)' = DayAt(now) /\ Booked' = Booked
  BY <1>2, <1>10, SameBlind DEF Booked
<1>12. TypeOK'
  BY <1>1, <1>2, <1>9, <1>10 DEF TypeOK, Book, Flash
<1>13. ClockInv'
  <2>1. book.known => book.key <= DayAt(now)
    BY <1>1 DEF Sound, Dated
  <2>2. clockValid => timer # Never /\ timer <= Midnight(DayAt(now))
                      /\ DayAt(now) # NoDay
    BY <1>1, <2>1, StillEarly
  <2>3. QED
    BY <1>1, <1>2, <1>9, <2>2 DEF ClockInv
<1>14. ModeInv'
  BY <1>1, <1>2, <1>3, <1>10 DEF ModeInv
<1>15. WaitInv'
  BY <1>1, <1>2, <1>11 DEF WaitInv
<1>16. Sound(book, flash, Booked, DayAt(now), Blind, external)'
  BY <1>2, <1>9, <1>11
<1>17. Kept(book, pending.energy, fed.ticks, DayAt(now))'
  BY <1>2, <1>3 DEF Kept
<1>18. BookedOnce'
  <2>1. ASSUME sampling'.known, NEW t \in a.book.total
        PROVE  t <= sampling'.last
    <3>1. CASE t \in energy
      BY <1>4, <1>10, <3>1 DEF energy
    <3>2. CASE t \in book.total
      <4>1. sampling.known
        BY <1>9, <1>10, <2>1
      <4>2. t <= sampling.from
        BY <1>1, <1>2, <3>2, <4>1 DEF BookedOnce
      <4>3. t \in Nat
        BY <1>4, <3>2, <1>1 DEF Sound, Dated
      <4>4. QED
        BY <1>4, <1>10, <4>2, <4>3
    <3>3. QED
      BY <1>9, <2>1, <3>1, <3>2
  <2>2. QED
    BY <1>2, <1>3, <1>10, <2>1 DEF BookedOnce
<1>19. QED
  BY <1>12, <1>13, <1>14, <1>15, <1>16, <1>17, <1>18 DEF IInv

\* Reboot: the restored total is of its day, and everything in the flash was
\* measured before.
LEMMA RebootInv ==
  ASSUME IInv, Reboot
  PROVE  IInv'
<1> DEFINE b == BookOf(flash.stored)
           f == [flash EXCEPT !.saved = flash.stored]
<1>1. /\ TypeOK /\ ClockInv /\ ModeInv /\ WaitInv /\ BookedOnce
      /\ Sound(book, flash, Booked, DayAt(now), Blind, external)
      /\ Kept(book, pending.energy, fed.ticks, DayAt(now))
      /\ book \in Book /\ flash \in Flash /\ clockValid \in BOOLEAN
      /\ now \in Nat /\ DayAt(now) \in Nat \ {0} /\ DayAt(now) \in Days
      /\ book.known = clockValid /\ book.unassigned \subseteq book.total
      /\ Booked \in 0 .. now /\ Booked \in Int
  BY Parts
<1>2. PICK valid \in {FALSE, clockValid}:
        LET c == CheckedDay(b, f, valid)
        IN  /\ clockValid' = valid
            /\ book' = c.book /\ flash' = c.flash
            /\ timer' = IF valid THEN NextCheck ELSE Never
  BY DEF Reboot
<1> DEFINE c == CheckedDay(b, f, valid)
<1>3. /\ clockValid' = valid /\ book' = c.book /\ flash' = c.flash
      /\ timer' = IF valid THEN NextCheck ELSE Never
  BY <1>2
<1>4. /\ reboots < MaxReboots /\ reboots' = reboots + 1
      /\ pending' = NoPending /\ sampling' = NotSampling(now)
      /\ fed' = [end |-> now, ticks |-> {}] /\ booted' = now
      /\ blind' = IF clockValid THEN blind
                  ELSE blind \union (booted + 1 .. now)
      /\ UNCHANGED <<external, now>>
  BY DEF Reboot
<1>5. valid \in BOOLEAN
  BY <1>1
<1>6. /\ b.key = flash.stored.key /\ b.total = flash.stored.total
      /\ b.unassigned = {} /\ b.known = FALSE /\ b \in Book
      /\ f.saved = flash.stored /\ f.stored = flash.stored /\ f \in Flash
  BY <1>1 DEF BookOf, Book, Flash, Stored
<1> HIDE DEF b, f
<1>7. Sound(b, f, Booked, DayAt(now), Blind, external)
  <2>1. Dated(flash.stored, Booked, DayAt(now), Blind, external)
    BY <1>1 DEF Sound
  <2>2. Dated(b, Booked, DayAt(now), Blind, external)
    BY <1>6, <2>1 DEF Dated
  <2>3. QED
    BY <1>6, <2>1, <2>2 DEF Sound
<1>8. Sound(b, f, now, DayAt(now), Blind, external)
  BY <1>1, <1>6, <1>7, SoundLater
<1>9. Sound(c.book, c.flash, now, DayAt(now), Blind, external)
  BY <1>1, <1>5, <1>6, <1>8, CheckedDaySound
<1>10. Checked(b, f, valid, c)
  BY <1>1, <1>5, <1>6, CheckedDayCases
<1> HIDE DEF c
<1>11. c.book \in Book /\ c.flash \in Flash
       /\ c.book.known = valid /\ (valid => c.book.key = DayAt(now))
  <2>1. c.book \in Book /\ c.flash \in Flash
    BY <1>10 DEF Checked
  <2>2. valid => c.book.known /\ c.book.key = DayAt(now)
    BY <1>6, <1>10 DEF Checked
  <2>3. ~valid => c.book = b
    BY <1>10 DEF Checked
  <2>4. c.book.known \in BOOLEAN
    BY <2>1 DEF Book
  <2>5. QED
    BY <1>5, <1>6, <2>1, <2>2, <2>3, <2>4
<1>12. Blind' = Blind /\ blind' \subseteq Ticks
  <2>1. booted' + 1 .. now' = {}
    BY <1>1, <1>4
  <2>2. booted + 1 .. now \subseteq Ticks
    BY <1>1, EnergyAssumption DEF TypeOK, Ticks
  <2>3. QED
    BY <1>1, <1>4, <2>1, <2>2 DEF Blind, TypeOK
<1>13. Booked' = now
  BY <1>4 DEF Booked, NotSampling
<1>14. /\ NextCheck \in 1 .. Midnight(DayAt(now))
       /\ NextCheck \in 0 .. Midnight(DayAt(MaxNow))
       /\ Midnight(DayAt(now)) \in Nat
       /\ Never \in 0 .. Midnight(DayAt(MaxNow))
  <2>1. Midnight(DayAt(MaxNow)) \in Nat
    BY EnergyAssumption, MidnightAhead
  <2>2. QED
    BY <1>1, <2>1, TodayType, MidnightAhead DEF Never
<1>15. TypeOK'
  <2>1. sampling' \in [known: BOOLEAN, last: 0 .. now, pass: 0 .. now,
                       adding: BOOLEAN, from: 0 .. now]
    BY <1>1, <1>4 DEF NotSampling
  <2>2. pending' \in [energy: SUBSET Ticks, key: Days \union {NoDay}]
    BY <1>4 DEF NoPending
  <2>3. fed' \in [end: 0 .. now, ticks: SUBSET Ticks]
    BY <1>1, <1>4
  <2>4. reboots' \in 0 .. MaxReboots
    BY <1>1, <1>4, EnergyAssumption DEF TypeOK
  <2>5. timer' \in 0 .. Midnight(DayAt(MaxNow))
    BY <1>3, <1>14
  <2>6. booted' \in 0 .. now
    BY <1>1, <1>4
  <2>7. QED
    BY <1>1, <1>3, <1>4, <1>5, <1>11, <1>12, <2>1, <2>2, <2>3, <2>4, <2>5, <2>6
       DEF TypeOK, Book, Flash
<1>16. ClockInv'
  <2>1. NextCheck # Never /\ NextCheck <= Midnight(DayAt(now))
        /\ DayAt(now) # NoDay
    BY <1>1, <1>14 DEF Never, NoDay
  <2>2. QED
    BY <1>3, <1>11, <2>1 DEF ClockInv
<1>17. ModeInv'
  BY <1>1, <1>4 DEF ModeInv, NotSampling
<1>18. WaitInv'
  BY <1>1, <1>4 DEF WaitInv, NoPending, NoDay
<1>19. Sound(book, flash, Booked, DayAt(now), Blind, external)'
  BY <1>3, <1>4, <1>9, <1>12, <1>13
<1>20. Kept(book, pending.energy, fed.ticks, DayAt(now))'
  BY <1>4 DEF Kept
<1>21. BookedOnce'
  BY <1>4 DEF BookedOnce, NotSampling, NoPending
<1>22. QED
  BY <1>15, <1>16, <1>17, <1>18, <1>19, <1>20, <1>21 DEF IInv

LEMMA InitInv ==
  ASSUME Init
  PROVE  IInv
<1>1. MaxNow \in Nat /\ DayAt(0) \in Nat \ {0} /\ 0 \in 0 .. MaxNow
      /\ Midnight(DayAt(MaxNow)) \in Nat /\ MaxReboots \in Nat
  BY EnergyAssumption, DayTypes, MidnightAhead
<1>2. /\ book = [key |-> NoDay, total |-> {}, unassigned |-> {},
                 known |-> FALSE]
      /\ flash = [saved |-> [key |-> NoDay, total |-> {}],
                  stored |-> [key |-> NoDay, total |-> {}]]
      /\ pending = [energy |-> {}, key |-> NoDay]
      /\ sampling = [known |-> FALSE, last |-> 0, pass |-> 0,
                     adding |-> FALSE, from |-> 0]
      /\ fed = [end |-> 0, ticks |-> {}]
      /\ external \in BOOLEAN /\ now = 0 /\ clockValid = FALSE /\ timer = Never
      /\ booted = 0 /\ blind = {} /\ reboots = 0
  BY DEF Init, BookOf, NoEnergy, NoPending, NotSampling
<1>3. TypeOK
  <2>1. NoDay \in Days \union {NoDay} /\ Never = 0
    BY DEF Never
  <2>2. book \in [key: Days \union {NoDay}, total: SUBSET Ticks,
                  unassigned: SUBSET Ticks, known: BOOLEAN]
    BY <1>2, <2>1
  <2>3. flash \in [saved: Stored, stored: Stored]
    BY <1>2, <2>1 DEF Stored
  <2>4. pending \in [energy: SUBSET Ticks, key: Days \union {NoDay}]
    BY <1>2, <2>1
  <2>5. sampling \in [known: BOOLEAN, last: 0 .. now, pass: 0 .. now,
                      adding: BOOLEAN, from: 0 .. now]
    BY <1>2
  <2>6. fed \in [end: 0 .. now, ticks: SUBSET Ticks]
    BY <1>2
  <2>7. timer \in 0 .. Midnight(DayAt(MaxNow)) /\ now \in 0 .. MaxNow
        /\ booted \in 0 .. now /\ reboots \in 0 .. MaxReboots
    BY <1>1, <1>2, <2>1
  <2>8. QED
    BY <1>2, <2>2, <2>3, <2>4, <2>5, <2>6, <2>7 DEF TypeOK
<1>4. /\ ~book.known /\ book.total = {} /\ pending.energy = {}
      /\ pending.key = NoDay /\ fed.ticks = {} /\ fed.end = 0
      /\ sampling.from = 0 /\ sampling.last = 0 /\ sampling.pass = 0
      /\ ~sampling.known /\ ~sampling.adding
      /\ pending = NoPending
  BY <1>2 DEF NoPending
<1>7. book.known = FALSE
  BY <1>2
<1>8. ClockInv /\ ModeInv
  <2>1. ClockInv
    BY <1>2, <1>7 DEF ClockInv
  <2>2. ModeInv
    BY <1>2, <1>4 DEF ModeInv
  <2>3. QED
    BY <2>1, <2>2
<1>9. WaitInv
  BY <1>1, <1>2, <1>4 DEF WaitInv, NoDay
<1>10. BookedOnce
  BY <1>4 DEF BookedOnce
<1>5. Sound(book, flash, Booked, DayAt(now), Blind, external)
  BY <1>1, <1>2 DEF Sound, Dated, OfDay, NoDay
<1>6. Kept(book, pending.energy, fed.ticks, DayAt(now))
  BY <1>2 DEF Kept
<1>11. QED
  BY <1>3, <1>5, <1>6, <1>8, <1>9, <1>10 DEF IInv

LEMMA NextInv ==
  ASSUME IInv, [Next]_vars
  PROVE  IInv'
<1>1. CASE Accumulate
  BY <1>1, AccumulateInv
<1>2. CASE PublishEnergy
  BY <1>2, PublishEnergyInv
<1>3. CASE StartPass
  BY <1>3, StartPassInv
<1>4. ASSUME NEW finite \in BOOLEAN, Sample(finite)
      PROVE  IInv'
  BY <1>4, SampleInv
<1>5. CASE AddSample
  BY <1>5, AddSampleInv
<1>6. CASE Tick
  BY <1>6, TickInv
<1>7. CASE MidnightTimer
  BY <1>7, MidnightTimerInv
<1>8. CASE ClockSync
  BY <1>8, ClockSyncInv
<1>9. CASE FlushPreferences
  BY <1>9, FlushPreferencesInv
<1>10. CASE Reboot
  BY <1>10, RebootInv
<1>11. CASE UNCHANGED vars
  BY <1>11 DEF vars, IInv, TypeOK, ClockInv, ModeInv, WaitInv, BookedOnce,
               Booked, Blind
<1>12. QED
  BY <1>1, <1>2, <1>3, <1>4, <1>5, <1>6, <1>7, <1>8, <1>9, <1>10, <1>11
     DEF Next

LEMMA Invariance == Spec => []IInv
<1>1. Init => IInv
  BY InitInv
<1>2. IInv /\ [Next]_vars => IInv'
  BY NextInv
<1>3. QED
  BY <1>1, <1>2, PTL DEF Spec

-------------------------------------------------------------------------------

\* Every variable keeps to its range.
THEOREM TypeCorrect == Spec => []TypeOK
<1>1. IInv => TypeOK
  BY DEF IInv
<1>2. QED
  BY <1>1, Invariance, PTL

\* No energy is booked twice: add_integral_wh adds ticks that are not in the
\* total, whatever windows, samples, midnights and restarts come between.
THEOREM EnergyIsBookedOnce == Spec => []BookedOnce
<1>1. IInv => BookedOnce
  BY DEF IInv
<1>2. QED
  BY <1>1, Invariance, PTL

\* A total, in use, saved or restored, holds only energy of its own day, of a
\* time when no day was known, or of the last sample before midnight; and once
\* the day is known the timeout that ends it is set.
THEOREM TotalsAreOfTheirDay == Spec => []EnergyIsOfItsDay
<1>1. IInv => EnergyIsOfItsDay
  BY DEF IInv, ClockInv, Sound, Dated, OfDay, EnergyIsOfItsDay, IsOf
<1>2. QED
  BY <1>1, Invariance, PTL

\* What the windows since the boot measured today is in the total or waits to
\* be added to it.
THEOREM TodayIsKept == Spec => []EnergyIsKept
<1>1. IInv => EnergyIsKept
  <2>1. SUFFICES ASSUME IInv PROVE EnergyIsKept
    OBVIOUS
  <2>2. /\ Kept(book, pending.energy, fed.ticks, DayAt(now))
        /\ book.unassigned \subseteq book.total /\ book \in Book
    BY <2>1, Parts
  <2>3. book.known \in BOOLEAN
    BY <2>2 DEF Book
  <2>4. ~book.known => fed.ticks \subseteq book.total \union pending.energy
    BY <2>2 DEF Kept
  <2>5. ASSUME book.known, book.key = DayAt(now),
               NEW t \in fed.ticks, DayOfTick(t) = DayAt(now)
        PROVE  t \in book.total \union pending.energy
    BY <2>2, <2>5 DEF Kept
  <2>6. QED
    BY <2>3, <2>4, <2>5 DEF EnergyIsKept
<1>2. QED
  BY <1>1, Invariance, PTL
=============================================================================
